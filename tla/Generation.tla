------------------------------ MODULE Generation ------------------------------
(***************************************************************************)
(* Seeded scenario generation (generation/planner.py and                   *)
(* import_timeline.py): the library and the required events of each lane,  *)
(* and the random events that fill the rest of its timeline.  The planner  *)
(* looks at no world: it keeps only what it emitted, the sidecars it       *)
(* believes alive and the assets whose media it has damaged, and the       *)
(* result must still be a timeline that validation accepts, for every      *)
(* seed.  A seed is the choice of the fillers.                             *)
(*                                                                         *)
(* The fields of an event are those of ScenarioProjection, and `at`.       *)
(***************************************************************************)
EXTENDS ScenarioProjection
LOCAL INSTANCE SequencesExt
LOCAL INSTANCE TLC

CONSTANTS
    Movies,      \* how many assets each lane over movies declares
    Names,       \* the ids of the planned assets, in order
    Imported,    \* the scenario an import ended with
    Reserved,    \* the paths of its attachments
    MaxFillers   \* filler events after the required ones

GenerationAssumption ==
    /\ \A lane \in DOMAIN Movies : Movies[lane] \in 1..Len(Names)
    /\ MaxFillers \in Nat

ASSUME GenerationAssumption

MovieLanes == DOMAIN Movies

Lanes == MovieLanes \cup {"tv_topology", "music_topology", "import_chaos"}

-----------------------------------------------------------------------------
(* The library of a lane. *)

PlannedAsset(id, container, channels, subtitled) ==
    [id |-> id, container |-> container, channels |-> channels, subtitled |-> subtitled]

\* Containers and channels alternate; every third movie has a declared subtitle.
PlannedMovie(lane, i) ==
    PlannedAsset(Names[i], IF i % 2 = 1 THEN "mkv" ELSE "mp4",
                 CASE i % 3 = 1 -> "mono" [] i % 3 = 2 -> "stereo" [] OTHER -> "surround",
                 i % 3 = 0 \/ (lane = "sidecar_subtitle" /\ i = 1))

PlannedAssets(lane) ==
    CASE lane = "tv_topology"    -> <<PlannedAsset(Names[1], "mkv", "stereo", FALSE),
                                      PlannedAsset(Names[2], "mp4", "stereo", FALSE)>>
      [] lane = "music_topology" -> <<PlannedAsset(Names[1], "flac", "stereo", FALSE),
                                      PlannedAsset(Names[2], "m4a", "stereo", FALSE)>>
      [] lane = "import_chaos"   ->
            LET contexts == AssetContexts(Imported)
            IN  [k \in DOMAIN contexts |-> PlannedAsset(contexts[k].asset.id,
                                              contexts[k].asset.container, "stereo", FALSE)]
      [] OTHER -> [i \in 1..Movies[lane] |-> PlannedMovie(lane, i)]

\* One variant, one bundle, one asset.
ParentOf(id, number, title, asset, lane) ==
    [id |-> id, number |-> number, absolute |-> number, date |-> number, slug |-> 0,
     stale |-> FALSE, title |-> title,
     assets |-> <<[id |-> asset.id, bundle |-> asset.id, label |-> lane, role |-> "primary",
                   container |-> asset.container,
                   subtitles |-> IF asset.subtitled
                                 THEN <<[language |-> "eng", codec |-> "srt"]>> ELSE <<>>]>>]

GroupOf(id, number, parents) ==
    [id |-> id, owner |-> "owner", number |-> number, parents |-> parents]

PrimaryRoot(lane) ==
    CASE lane = "tv_topology" -> <<"tv">> [] lane = "music_topology" -> <<"music">>
      [] OTHER -> <<"movies-hd">>

\* The second root of core_fs is its archive.
GeneratedLibrary(lane, kind, naming, groups) ==
    [kind |-> kind, foldered |-> kind # "movie", naming |-> naming, groups |-> groups,
     primary |-> "primary", archive |-> IF lane = "core_fs" THEN "cold" ELSE "archive",
     roots |-> IF lane = "core_fs"
               THEN [primary |-> PrimaryRoot(lane), cold |-> <<"cold-storage">>]
               ELSE [primary |-> PrimaryRoot(lane)]]

\* The first disc will be renumbered to 2, so the second starts at 3.
GeneratedScenario(lane) ==
    LET assets == PlannedAssets(lane)
    IN  CASE lane = "import_chaos" -> Imported
          [] lane = "tv_topology" ->
                GeneratedLibrary(lane, "episode", "sxxexx_title",
                    <<GroupOf("season_001", 1,
                              <<ParentOf("episode_001", 1, "Pilot", assets[1], lane)>>),
                      GroupOf("season_002", 2,
                              <<ParentOf("episode_002", 1, "Return", assets[2], lane)>>)>>)
          [] lane = "music_topology" ->
                GeneratedLibrary(lane, "track", "disc_track_number_title",
                    <<GroupOf("disc_001", 1,
                              <<ParentOf("track_001", 1, "Opening", assets[1], "flac"),
                                ParentOf("track_002", 2, "Return", assets[2], "m4a")>>),
                      GroupOf("disc_002", 3, <<>>)>>)
          [] OTHER ->
                GeneratedLibrary(lane, "movie", "title",
                    <<GroupOf("movies", 0, [i \in DOMAIN assets |->
                        ParentOf(assets[i].id, i, assets[i].id, assets[i], lane)])>>)

-----------------------------------------------------------------------------
(* Steps: what the planner decides before an event gets its number. *)

Do(op, k) == [op |-> op, asset |-> k, kind |-> "nfo", effect |-> "none"]

WriteSubtitle(k) == [Do("create_sidecar", k) EXCEPT !.kind = "subtitle"]

NetworkLagPair(k, effect) ==
    <<Do(IF effect = "delayed_rename" THEN "rename_file" ELSE "edit_metadata", k),
      [Do("network_lag_start", k) EXCEPT !.effect = effect],
      Do("network_lag_commit", k)>>

Renumber(op, target, n) == [op |-> op, target |-> target, number |-> n, absolute |-> 0]

MoveInto(op, target, group, n) ==
    [op |-> op, target |-> target, group |-> group, number |-> n, absolute |-> 0]

FirstSubtitled(lane) ==
    LET assets == PlannedAssets(lane)
    IN  CHOOSE k \in DOMAIN assets : /\ assets[k].subtitled
                                     /\ \A j \in 1..(k - 1) : ~assets[j].subtitled

RequiredSteps(lane) ==
    CASE lane = "smoke" ->
            <<Do("move_asset", 1), Do("rename_file", 2), Do("edit_metadata", 1),
              Do("create_sidecar", 1), Do("update_sidecar", 1)>>
      [] lane = "core_fs" ->
            <<Do("move_asset", 1), Do("rename_file", 2), Do("delete_file", 3), Do("add_file", 3),
              Do("archive_file", 4), Do("move_between_roots", 5), Do("slow_copy_start", 6),
              Do("slow_copy_commit", 6)>>
      [] lane = "media_rewrite" ->
            <<Do("reencode_video", 1), Do("reencode_audio", 2), Do("remux_container", 3),
              Do("edit_metadata", 4)>>
      [] lane = "sidecar_subtitle" ->
            LET k == FirstSubtitled(lane)
            IN  <<WriteSubtitle(k), Do("embed_subtitle", k), Do("extract_subtitle", k),
                  Do("remove_sidecar", k), Do("create_sidecar", 2), Do("update_sidecar", 2)>>
      [] lane = "malformed" ->
            <<Do("corrupt_container_header", 1), Do("truncate_file", 2),
              Do("corrupt_packet_range", 3), Do("write_invalid_duration_metadata", 4),
              Do("corrupt_tags", 5)>>
      [] lane = "negative_oracle"     -> <<Do("wrong_oracle_hash", 1)>>
      [] lane = "filesystem_artifact" -> <<Do("touch_mtime", 1)>>
      [] lane = "network_lag" ->
            NetworkLagPair(1, "delayed_visibility") \o NetworkLagPair(2, "delayed_rename")
            \o NetworkLagPair(3, "held_handle")
      [] lane = "network_fs_chaos" ->
            <<Do("change_permissions", 1), Do("simulate_quota_exceeded", 2),
              Do("toggle_readonly", 3), Do("simulate_stale_handle", 4), Do("unmount_path", 5),
              Do("remount_path", 5), Do("acquire_lock", 6), Do("release_lock", 6)>>
      [] lane = "tv_topology" ->
            <<Renumber("renumber_episode", "episode_001", 2),
              MoveInto("move_episode_to_season", "episode_001", "season_002", 2),
              Do("rename_file", 1), Do("reencode_video", 1)>>
      [] lane = "music_topology" ->
            <<Renumber("renumber_disc", "disc_001", 2),
              MoveInto("move_track_to_disc", "track_002", "disc_002", 2),
              Do("rename_file", 1), Do("reencode_audio", 2)>>
      [] lane = "import_chaos" -> <<>>

-----------------------------------------------------------------------------
(* The planner's state: what is left to emit, and what it believes. *)

StartPlanner(lane) ==
    [lane |-> lane, left |-> RequiredSteps(lane), fillers |-> MaxFillers,
     live |-> <<>>, unstable |-> {}]

Indices(planner) == DOMAIN PlannedAssets(planner.lane)

StableIndices(planner) ==
    {k \in Indices(planner) : PlannedAssets(planner.lane)[k].id \notin planner.unstable}

\* Imports get filesystem activity only, and a rename first.
ImportSteps(planner) ==
    LET ops == IF planner.fillers = MaxFillers THEN {"rename_file"}
               ELSE {"rename_file", "move_asset", "touch_mtime"}
    IN  {Do(op, k) : op \in ops, k \in Indices(planner)}

\* Damaged media are not rewritten; a live sidecar may be updated.
FillerSteps(planner) ==
    IF planner.lane = "import_chaos" THEN ImportSteps(planner)
    ELSE {Do(op, k) : op \in {"move_asset", "rename_file", "create_sidecar"},
                      k \in Indices(planner)}
         \cup {Do("edit_metadata", k) : k \in StableIndices(planner)}
         \cup {Do("update_sidecar", k) : k \in IF planner.live = <<>> THEN {} ELSE {1}}

NextSteps(planner) ==
    CASE planner.left # <<>>  -> {Head(planner.left)}
      [] planner.fillers > 0  -> FillerSteps(planner)
      [] OTHER                -> {}

\* The live sidecars, by asset in the order the assets got their first one.
Listed(live, a, row) ==
    IF \E g \in DOMAIN live : live[g].asset = a
    THEN [g \in DOMAIN live |-> IF live[g].asset = a
                                THEN [live[g] EXCEPT !.rows = Append(@, row)] ELSE live[g]]
    ELSE Append(live, [asset |-> a, rows |-> <<row>>])

FirstRow == <<1, 1>>

\* The last subtitle of the last asset that has one.
LatestSubtitle(live) ==
    LET subtitles == {gr \in UNION {{g} \X DOMAIN live[g].rows : g \in DOMAIN live} :
                        live[gr[1]].rows[gr[2]].kind = "subtitle"}
    IN  CHOOSE gr \in subtitles : \A other \in subtitles :
            other[1] < gr[1] \/ (other[1] = gr[1] /\ other[2] <= gr[2])

\* An asset without live sidecars loses its place in the order.
Unlisted(live, gr) ==
    LET rows == RemoveAt(live[gr[1]].rows, gr[2])
    IN  IF rows = <<>> THEN RemoveAt(live, gr[1]) ELSE [live EXCEPT ![gr[1]].rows = rows]

\* The sidecar a step is about.
UsedRow(planner, op) ==
    IF op = "embed_subtitle" THEN LatestSubtitle(planner.live) ELSE FirstRow

-----------------------------------------------------------------------------
(* Events: a step, at its place n in the timeline. *)

\* import_timeline.py: a directory no path of the import is at or below.
ImportDirectory(library) ==
    LET root       == library.roots[library.primary]
        occupied   == {InitialPaths(library)[a] : a \in AssetIds(library)} \cup Reserved
        Candidate(k) == Append(root, IF k = 0 THEN "import-chaos"
                                     ELSE "import-chaos-" \o ToString(k))
        free       == {k \in 0..Cardinality(occupied) :
                        \A path \in occupied : ~UnderRoot(path, Candidate(k))}
    IN  Candidate(CHOOSE k \in free : \A j \in free : k <= j)

FolderFor(op) ==
    CASE op = "move_asset" -> "fuzz" [] op = "rename_file" -> "renamed"
      [] op = "add_file" -> "restored" [] OTHER -> "sidecars"

\* The number of the event is part of every path it makes up.
FreshPath(library, planner, n, op, asset, extension) ==
    [dir    |-> IF planner.lane = "import_chaos" THEN ImportDirectory(library)
                ELSE Append(library.roots[library.primary], FolderFor(op)),
     folder |-> 0, stem |-> <<0, n, asset, "">>, ext |-> <<"", extension>>]

CopyPath(library, asset, extension) ==
    [dir |-> Append(library.roots[library.primary], "fuzz"), folder |-> 0,
     stem |-> <<0, 0, asset, "slow">>, ext |-> <<"", extension>>]

\* A window closes one nanosecond after it opens; a lag opens with its trigger.
TimeOf(n, op) == IF op \in {"network_lag_start", "network_lag_commit"} THEN n - 1 ELSE n

\* What each constructor fills in besides the action, the time and the target.
Particulars(library, planner, n, step) ==
    LET asset == PlannedAssets(planner.lane)[step.asset]
        Fresh(extension) == FreshPath(library, planner, n, step.op, asset.id, extension)
    IN  CASE step.op \in {"move_asset", "rename_file", "add_file"} ->
                [to |-> Fresh(asset.container)]
          [] step.op = "slow_copy_start" ->
                [to |-> CopyPath(library, asset.id, asset.container),
                 temp |-> CopyPath(library, asset.id, "tmp")]
          [] step.op = "move_between_roots" -> [fromRoot |-> "primary", toRoot |-> "cold"]
          [] step.op = "remux_container" ->
                [container |-> IF asset.container = "mp4" THEN "mkv" ELSE "mp4"]
          [] step.op = "create_sidecar" ->
                [kind |-> step.kind, language |-> IF step.kind = "subtitle" THEN "eng" ELSE "",
                 to |-> Fresh(IF step.kind = "subtitle" THEN "srt" ELSE "nfo")]
          [] step.op = "extract_subtitle" ->
                [kind |-> "subtitle", language |-> "eng", to |-> Fresh("srt")]
          [] step.op = "network_lag_start" -> [effect |-> step.effect, after |-> n - 1]
          [] OTHER -> [target |-> asset.id]

\* Sidecar events speak of the planner's own list, window ends of the event before them.
EventOf(library, planner, n, step) ==
    LET base == [op |-> step.op, at |-> TimeOf(n, step.op)]
    IN  CASE step.op \in HierarchyOps -> step @@ base
          [] step.op \in {"slow_copy_commit"} \cup ClosingOps -> base @@ [start |-> n - 1]
          [] step.op \in SidecarOps ->
                LET gr == UsedRow(planner, step.op)
                IN  base @@ [target  |-> planner.live[gr[1]].asset,
                             sidecar |-> planner.live[gr[1]].rows[gr[2]].at]
          [] OTHER -> base @@ Particulars(library, planner, n, step)
                           @@ [target |-> PlannedAssets(planner.lane)[step.asset].id]

\* A wrong hash is a lie about an intact file.
Damaging == CorruptionOps \ {"wrong_oracle_hash"}

\* Defect: a sidecar that was removed or embedded stays on the list.
Believed_Defect(planner, ev) ==
    IF ev.op \in {"create_sidecar", "extract_subtitle"}
    THEN Listed(planner.live, ev.target, [kind |-> ev.kind, at |-> ev.to]) ELSE planner.live

Believed(planner, ev) ==
    CASE ev.op \in {"create_sidecar", "extract_subtitle"} ->
            Listed(planner.live, ev.target, [kind |-> ev.kind, at |-> ev.to])
      [] ev.op \in {"remove_sidecar", "embed_subtitle"} ->
            Unlisted(planner.live, UsedRow(planner, ev.op))
      [] OTHER -> planner.live

Advance(planner, ev) ==
    [planner EXCEPT !.left     = IF @ = <<>> THEN @ ELSE Tail(@),
                    !.fillers  = IF planner.left = <<>> THEN @ - 1 ELSE @,
                    !.live     = Believed(planner, ev),
                    !.unstable = IF ev.op \in Damaging THEN @ \cup {ev.target} ELSE @]
=============================================================================
