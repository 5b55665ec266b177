------------------------------- MODULE Authoring -------------------------------
(***************************************************************************)
(* An author's timeline, event by event, walked twice: by the validator,   *)
(* whose rules accept or reject the next event on their own projection,    *)
(* and by the engine, which plans every event of an accepted timeline      *)
(* (engine/plan.py: apply_scenario_events).  A timeline ends where its     *)
(* author ends it, where the bound MaxEvents ends it, where the engine     *)
(* raises, or where the walks part: after a remux of a file whose name     *)
(* ends in a dot each side knows the file by another name.                 *)
(***************************************************************************)
EXTENDS ScenarioProjection, Adapter
LOCAL INSTANCE SequencesExt
LOCAL INSTANCE TLC

CONSTANTS Scenes,     \* declared scenarios, each with the events its author may write
          MaxEvents   \* the longest timeline

\* The name of a container can be an extension (clean_asset_container, path_rendering.py:166).
IsContainer(name) == name \notin {"", "."}

\* What the contract and the rules on the document alone let through to the timeline: lists
\* are lists, an id is declared once (id_duplicate.py), no title is empty (path_rendering.py:68,
\* which asset_path_safety.py calls).
DocumentOK(scenario) ==
    LET contexts  == AssetContexts(scenario)
        IsList(s) == s \in Seq(ToSet(s))
    IN  /\ IsList(scenario.groups)
        /\ \A g \in ToSet(scenario.groups) :
              /\ IsList(g.parents)
              /\ \A p \in ToSet(g.parents) :
                    /\ IsList(p.assets) /\ p.title # ""
                    /\ \A a \in ToSet(p.assets) : /\ IsList(a.subtitles)
                                                 /\ IsContainer(a.container)
        /\ \A j, k \in DOMAIN contexts : contexts[j].asset.id = contexts[k].asset.id => j = k

\* A destination is a path of a file (path_containment.py refuses an empty one), written as a stem
\* and one extension; a remux names a container; a move between groups says which group.
DraftOK(ev) ==
    /\ ev.op \in {"move_asset", "rename_file", "add_file", "slow_copy_start"} =>
          IsFilePath(ev.to) /\ ev.to.ext[1] = ""
    /\ ev.op = "remux_container" => IsContainer(ev.container)
    /\ ev.op \in {"move_episode_to_season", "move_track_to_disc"} => "group" \in DOMAIN ev

ASSUME ScenesAssumption ==
    \A s \in Scenes : DocumentOK(s.scenario) /\ \A ev \in s.events : DraftOK(ev)

VARIABLES scene,      \* the scenario being authored
          proj,       \* the validator's projection after the events so far
          world,      \* the engine's world after the same events
          journal,    \* the entries the engine emitted
          failure,    \* what the engine raised, and the target of the event
          unsettled   \* assets whose sidecars may no longer lie where both sides expect

vars == <<scene, proj, world, journal, failure, unsettled>>

lib == scene.library

NoFailure == [why |-> "no", target |-> ""]

\* Two subtitles of one language are declared: the projection has both, the engine one.
TwiceDeclared(library) ==
    {a \in AssetIds(library) : \E s \in DOMAIN library.assets[a].subtitles :
        IsReplaced(library.assets[a].subtitles, s)}

Init ==
    /\ scene \in {[library |-> Library(s.scenario), events |-> s.events] : s \in Scenes}
    /\ WellFormedHierarchy(lib)
    /\ proj = InitialProjection(lib)
    /\ world = InitialWorld(lib)
    /\ journal = <<>>
    /\ failure = NoFailure
    /\ unsettled = TwiceDeclared(lib)

-----------------------------------------------------------------------------
(* One event: accepted by every rule, then planned. *)

\* Events that move a media file and leave its sidecars where they are.
Relocations == {"move_asset", "rename_file", "slow_copy_commit", "archive_file",
                "move_between_roots"}

\* Two rows of one asset on one path: the projection can hold only one of them.
Doubled(w) ==
    {a \in DOMAIN w.paths : \E j, k \in DOMAIN w.sidecars :
        /\ j # k /\ w.sidecars[j].asset = a
        /\ w.sidecars[k].asset = a /\ w.sidecars[j].at = w.sidecars[k].at}

\* The asset had a file whose name ended in a dot when its container was changed: the engine
\* appended the new extension to the dot (event_handlers/media.py:167), the validator put it in
\* the place of the empty one.
Misread(a) ==
    \E k \in DOMAIN journal : /\ journal[k].op = "remux_container"
                             /\ a \in ToSet(journal[k].targets)
                             /\ EndsInDot(journal[k].from)

\* The next event of the timeline, projected and planned.
Plan(ev) ==
    LET n       == Len(journal) + 1
        outcome == ApplyEvent(lib, world, n, ev)
    IN  /\ failure = NoFailure
        /\ \A a \in AssetIds(lib) : ~Misread(a)
        /\ proj' = Project(lib, proj, n, ev)
        /\ world' = outcome.world
        /\ IF outcome.raised = "no"
           THEN /\ journal' = Append(journal, outcome.entry)
                /\ UNCHANGED failure
                /\ unsettled' = unsettled \cup Doubled(outcome.world)
                     \cup IF ev.op \in Relocations THEN ToSet(outcome.entry.targets) ELSE {}
           ELSE /\ failure' = [why |-> outcome.raised,
                               target |-> IF "target" \in DOMAIN ev THEN ev.target ELSE ""]
                /\ UNCHANGED <<journal, unsettled>>
        /\ UNCHANGED scene

Author(ev) ==
    /\ Len(journal) < MaxEvents
    /\ Accepts(lib, proj, ev)
    /\ Plan(ev)

Drafts(ops) == {ev \in scene.events : ev.op \in ops}

\* A commit names a start event; a sidecar event names one of the paths listed so far.
CommitEvent(start) == [op |-> "slow_copy_commit", start |-> start]

SidecarEvent(op, a, at) == [op |-> op, target |-> a, sidecar |-> at]

FileOps == {"move_asset", "rename_file", "delete_file", "add_file", "slow_copy_start",
            "archive_file", "move_between_roots"}

ReviseFile     == \E ev \in Drafts(VersionOps \cup {"touch_mtime", "remux_container"}) : Author(ev)
PlaceFile      == \E ev \in Drafts(FileOps) : Author(ev)
CommitCopy     == \E start \in 1..Len(journal) : Author(CommitEvent(start))
WriteSidecar   == \E ev \in Drafts({"create_sidecar", "extract_subtitle"}) : Author(ev)
UseASidecar    == \E op \in SidecarOps, row \in proj.sidecars :
                     Author(SidecarEvent(op, row.asset, row.at))
AlterHierarchy == \E ev \in Drafts(HierarchyOps \cup {"mark_episode_stale"}) : Author(ev)

\* One disjunct per family of handlers (engine/event_handlers/); ApplyEvent and Project have a
\* case for each of the operations.
Next == PlaceFile \/ CommitCopy \/ ReviseFile \/ WriteSidecar \/ UseASidecar \/ AlterHierarchy

Spec == Init /\ [][Next]_vars

-----------------------------------------------------------------------------
(* Properties. *)

\* The shape of both walks.
TypeOK ==
    /\ DOMAIN world.paths = AssetIds(lib) /\ DOMAIN proj.paths = AssetIds(lib)
    /\ world.managed \subseteq AssetIds(lib)
    /\ \A a \in AssetIds(lib) : /\ world.location[a] \in 0..(world.nextLocation - 1)
                                /\ ToSet(world.versions[a]) \subseteq 1..(world.nextVersion - 1)
                                /\ (world.paths[a] = Nowhere) = ~HasLocation(world, a)
    /\ unsettled \subseteq AssetIds(lib)

\* What the rules accept the engine can plan: no handler's lookup raises, but for a sidecar
\* of an asset that was relocated by hand or overwritten (engine/state.py:160 calls that a bug
\* of its layer) and for an episode marked stale after one of its files was deleted.
AcceptedEventsApply ==
    CASE failure.why = "no"              -> TRUE
      [] failure.why = "no_such_sidecar" -> failure.target \in unsettled
      [] failure.why = "half_deleted"    -> lib.kind = "podcast_episode"
      [] OTHER                           -> FALSE

\* The rules judge every event by the paths, numbers and pending copies that the engine will
\* have when it plans it: two implementations of every event, over different data structures
\* (hierarchy/projection.py and the handlers), stay in step along the whole timeline, but for the
\* path of a file that was remuxed under a name that ends in a dot.
ProjectionAgrees ==
    failure = NoFailure =>
        /\ \A a \in AssetIds(lib) : Misread(a) \/ proj.paths[a] = world.paths[a]
        /\ proj.managed = world.managed
        /\ proj.placed = {a \in AssetIds(lib) : HasLocation(world, a)}
        /\ \A g \in DOMAIN lib.groups :
              /\ proj.numbers[g] = world.groups[g].number
              /\ proj.members[g] = {p \in DOMAIN lib.parents : world.parents[p].group = g}
        /\ \A p \in DOMAIN lib.parents :
              [proj.parents[p] EXCEPT !.stale = FALSE] = [world.parents[p] EXCEPT !.stale = FALSE]
        /\ {<<c.start, world.location[c.asset], c.to>> : c \in proj.pending}
              = {<<c.start, c.location, c.to>> : c \in world.pending}

\* A sidecar event is judged by where the sidecars are: as long as no file of the asset was
\* relocated by hand and no sidecar written over another, the rules list the same sidecars of
\* it, at the same paths, as the engine (sidecar/projection.py and the sidecar index).
SidecarsAgree ==
    \A a \in AssetIds(lib) \ unsettled :
        {<<row.at, row.kind, row.language>> : row \in {r \in proj.sidecars : r.asset = a}}
      = {<<row.at, row.kind, row.language>> : row \in {r \in ToSet(world.sidecars) : r.asset = a}}

\* Renumbering, swapping and moving between groups re-render many files in one event; none of
\* them lands on a file that another asset has, whatever was moved there before (rules.py
\* rejects the event, on the projection; the handler itself does not look).
HierarchyMovesNeverCollide ==
    [][\A k \in DOMAIN journal' \ DOMAIN journal :
          journal'[k].op \in HierarchyOps =>
             \A m \in ToSet(journal'[k].moves) : \A b \in AssetIds(lib) \ {m.asset} :
                world'.paths[b] # m.to]_vars

\* Where a history leaves the asset, and whether each step started where the last one ended.
Walked(a, history) ==
    FoldLeft(LAMBDA walk, step :
                [at     |-> IF step.op = "slow_copy_start" THEN walk.at ELSE step.to,
                 joined |-> walk.joined /\ step.from \in {Nowhere, walk.at}],
             [at |-> InitialPaths(lib)[a], joined |-> TRUE], history)

Targeted(a, ops) == \E k \in DOMAIN journal : /\ journal[k].op \in ops
                                              /\ a \in ToSet(journal[k].targets)

\* The path history derived from the journal, read from the declared path on, is unbroken and
\* ends where the asset is, through deletions, copies, swaps and archives.  A remux changes the
\* path and is not among the filesystem entries (engine/path_history.py:36), so a history with
\* one in it need not.
HistoryLeadsHome ==
    \A a \in AssetIds(lib) :
        LET walk == Walked(a, SelectSeq(DerivePathHistory(a, journal),
                                        LAMBDA s : s.op # "create_sidecar"))
        IN  Targeted(a, {"remux_container"}) \/ walk = [at |-> world.paths[a], joined |-> TRUE]

\* The reports tell what the world has come to.  The version history of every asset is a chain:
\* each entry takes what the one before it made, from the declared version to the bound one, and
\* no version is made for two assets; a season or a disc lists the assets of the members that the
\* rules project for it (engine/reports.py and version_history.py).
ReportsAgree ==
    LET reports == BuildReportSet(lib, world, journal)
    IN  (failure = NoFailure /\ ~reports.raised) =>
        /\ \A a \in AssetIds(lib) :
              LET made  == reports.assets[a].versions
                  chain == <<InitialWorld(lib).versions[a][1]>>
                           \o [k \in DOMAIN made |-> made[k].output]
              IN  /\ \A k \in DOMAIN made : made[k].input = chain[k]
                  /\ chain = world.versions[a]
                  /\ HasLocation(world, a) => reports.assets[a].current.version = Last(chain)
                  /\ \A b \in AssetIds(lib) \ {a} :
                        ToSet(chain) \cap ToSet(world.versions[b]) = {}
        /\ \A g \in DOMAIN lib.groups :
              reports.groups[g] = AssetsUnder(lib, proj.members[g])

-----------------------------------------------------------------------------
(* The verdict on a consumer. *)

\* The two entries of a lifecycle name each other; an entry on its own names none.
Linked(entries) ==
    LET Mate(k) == {j \in DOMAIN entries : Partner(entries, k, {}) = j \/ Partner(entries, j, {}) = k}
    IN  [k \in DOMAIN entries |->
            entries[k] @@ IF Mate(k) = {} THEN [ref |-> 0, related |-> 0]
                          ELSE [ref     |-> entries[k].event,
                                related |-> entries[CHOOSE j \in Mate(k) : TRUE].event]]

\* A consumer that reports exactly what the fixture holds, in the words its export has.
FaithfulExport(oracle) ==
    {[v EXCEPT !.history = Linked(SelectSeq(@, LAMBDA e : e.op \in ObservedActions))]
        : v \in oracle}

\* Two assets the consumer takes for each other's files.
Exchanged(observed, a, b) ==
    {[v EXCEPT !.path = CASE v.asset = a -> ViewOf(observed, b).path
                          [] v.asset = b -> ViewOf(observed, a).path
                          [] OTHER       -> @] : v \in observed}

\* What the comparison cannot decide: an event the export has no word for, two assets on one
\* path, and a deleted file, which only its history identifies, when that history names a
\* path twice or one that another deleted file had.
Undecided(oracle, a) ==
    LET path   == ViewOf(oracle, a).path
        Others == {v \in oracle : v.asset # a /\ v.path = path}
        Past(v) == ToSet(HistoryPaths(v.history))
    IN  \/ Targeted(a, IdentityOps \ ObservedActions)
        \/ path # Nowhere /\ Others # {}
        \/ path = Nowhere /\ \/ ~IsInjective(HistoryPaths(ViewOf(oracle, a).history))
                             \/ \E v \in Others : Past(v) \cap Past(ViewOf(oracle, a)) # {}

Judged == lib.kind \in ReportableKinds /\ failure = NoFailure

\* A consumer that tracked everything right may export it, lifecycles linked, and gets no
\* finding, from a fixture with or without media and in the deeper mode, whose findings include
\* those of the other: through the export's own validation, the four levels of matching, the
\* pairing of lifecycles and the multiset of histories (contract/observed_state.py and
\* adapter/matching.py, compare.py and history.py).
FaithfulObserverPasses ==
    Judged => \A hashed \in BOOLEAN :
        LET oracle == Oracle(lib, world, journal, hashed)
            export == FaithfulExport(oracle)
        IN  /\ hashed => \A v \in export : AcceptsHistory(v.history)
            /\ \A f \in CompareFixtureToObserved(oracle, export, "identity-history") :
                  Undecided(oracle, f.asset)

\* Nothing but its path, and its media if the fixture has any, tells one file from the other: two
\* files of one bundle with the same sidecars, or with none.
Interchangeable(oracle, a, b) ==
    LET One == ViewOf(oracle, a)
        Two == ViewOf(oracle, b)
    IN  One.topology = Two.topology /\ One.sidecars = Two.sidecars


\* Validation guarantees that the lookup of a sidecar succeeds for any well-formed scenario
\* (the docstring of sidecar_id_for_path, engine/state.py:160).
SidecarLookupSucceeds == failure.why # "no_such_sidecar"
=============================================================================
