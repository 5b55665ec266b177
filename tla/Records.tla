-------------------------------- MODULE Records --------------------------------
(***************************************************************************)
(* What a run tells about each asset: the path history, the version        *)
(* history and the snapshot of its report (engine/path_history.py,         *)
(* engine/version_history.py, engine/reports.py), all derived from the     *)
(* journal and the manifest and never kept alongside the world.            *)
(***************************************************************************)
EXTENDS EngineWorld
LOCAL INSTANCE SequencesExt

\* The entries that describe a file appearing, moving or going.
FilesystemOps == {"move_asset", "rename_file", "delete_file", "add_file", "create_sidecar",
                  "slow_copy_start", "slow_copy_commit", "archive_file", "move_between_roots"}
                 \cup HierarchyOps

\* Defect: an embedded subtitle is not counted as a new version.
VersionAffectingOps_Defect == VersionOps \cup {"remux_container"}

VersionAffectingOps == VersionOps \cup {"remux_container", "embed_subtitle"}

Step(op, event, from, to, temp) ==
    [op |-> op, event |-> event, from |-> from, to |-> to, temp |-> temp]

\* Defect: a hierarchy entry is read for its first target only.
PathSteps_Defect(a, entry) ==
    IF entry.op \notin FilesystemOps \/ a \notin ToSet(entry.targets) THEN <<>>
    ELSE IF entry.op \in HierarchyOps
         THEN LET own == SelectSeq(entry.moves, LAMBDA m : m.asset = a /\ a = entry.targets[1])
              IN  [k \in DOMAIN own |->
                      Step(entry.op, entry.event, own[k].from, own[k].to, Nowhere)]
         ELSE <<Step(entry.op, entry.event, entry.from, entry.to, entry.temp)>>

\* A hierarchy entry speaks of each asset it moved; another entry of its one asset.
PathSteps(a, entry) ==
    IF entry.op \notin FilesystemOps \/ a \notin ToSet(entry.targets) THEN <<>>
    ELSE IF entry.op \in HierarchyOps
         THEN LET own == Picked(entry.moves, {m \in ToSet(entry.moves) : m.asset = a})
              IN  [k \in DOMAIN own |->
                      Step(entry.op, entry.event, own[k].from, own[k].to, Nowhere)]
         ELSE <<Step(entry.op, entry.event, entry.from, entry.to, entry.temp)>>

DerivePathHistory(a, journal) ==
    FlattenSeq([k \in DOMAIN journal |-> PathSteps(a, journal[k])])

DeriveVersionHistory(a, journal) ==
    LET own == Picked(journal, {e \in ToSet(journal) : /\ e.op \in VersionAffectingOps
                                                       /\ a \in ToSet(e.targets)})
    IN  [k \in DOMAIN own |-> [event |-> own[k].event, input |-> own[k].inputs[1],
                               output |-> own[k].outputs[1]]]

\* The highest version index and the first location; none without a location.
SnapshotFor(w, a) ==
    [placed  |-> HasLocation(w, a),
     path    |-> w.paths[a],
     version |-> IF HasLocation(w, a) THEN CurrentVersion(w, a) ELSE 0]

\* Only movies, episodes and tracks have a report: another parent kind raises.
ReportableKinds == {"movie", "episode", "track"}

\* The assets a season's or a disc's report lists: those under the parents in it now.
GroupReport(lib, w, g) ==
    {a \in AssetIds(lib) : w.parents[lib.assets[a].parent].group = g}

AssetReport(w, a, journal) ==
    [current |-> SnapshotFor(w, a), paths |-> DerivePathHistory(a, journal),
     versions |-> DeriveVersionHistory(a, journal)]

\* A report for every asset and every group; a podcast's parents have none to give.
BuildReportSet(lib, w, journal) ==
    [assets |-> [a \in AssetIds(lib) |-> AssetReport(w, a, journal)],
     groups |-> [g \in DOMAIN w.groups |-> GroupReport(lib, w, g)],
     raised |-> lib.kind \notin ReportableKinds]
=============================================================================
