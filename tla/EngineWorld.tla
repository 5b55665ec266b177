------------------------------ MODULE EngineWorld ------------------------------
(***************************************************************************)
(* The planning engine's world state (engine/state.py) and what each event *)
(* handler does to it (engine/event_handlers/).  ApplyEvent is the         *)
(* dispatcher: the next world, the journal entry, and the lookup that      *)
(* raised, if one did.  An identifier is a number, allocated in order; a   *)
(* journal entry keeps the part of state_delta that the reports read.      *)
(***************************************************************************)
EXTENDS Hierarchy
LOCAL INSTANCE SequencesExt

\* A new version of the file at the same path.
EncodeOps == {"reencode_video", "reencode_audio"}

CorruptionOps == {"corrupt_container_header", "truncate_file", "corrupt_packet_range",
                  "write_invalid_duration_metadata", "corrupt_tags", "wrong_oracle_hash"}

VersionOps == EncodeOps \cup {"edit_metadata"} \cup CorruptionOps

SwapOps == {"swap_episode_numbers", "swap_disc_numbers", "swap_track_numbers"}

HierarchyOps == {"renumber_episode", "move_episode_to_season", "rename_season",
                 "renumber_disc", "move_track_to_disc", "republish_episode"} \cup SwapOps

\* Network events: conditions, and windows that open and close.
ConditionOps == {"change_permissions", "toggle_readonly", "simulate_quota_exceeded",
                 "simulate_stale_handle"}

OpeningOps == {"network_lag_start", "unmount_path", "acquire_lock"}

ClosingOps == {"network_lag_commit", "remount_path", "release_lock"}

\* The elements of s that are in X, in their order.
Picked(s, X) ==
    LET picked[k \in 0..Len(s)] ==
            IF k = 0 THEN <<>>
            ELSE IF s[k] \in X THEN Append(picked[k - 1], s[k]) ELSE picked[k - 1]
    IN  picked[Len(s)]

-----------------------------------------------------------------------------
(* The world: rows by id, and the reverse indices the handlers use. *)

SidecarRow(a, kind, language, at, derived) ==
    [asset |-> a, kind |-> kind, language |-> language, at |-> at, derived |-> derived]

\* A declared subtitle's id is its asset and its language: a later one of the language
\* takes its place.
IsReplaced(subtitles, s) ==
    \E j \in DOMAIN subtitles : j > s /\ subtitles[j].language = subtitles[s].language

DeclaredRow(lib, a, subtitle) ==
    SidecarRow(a, "subtitle", subtitle.language,
               RenderDeclaredSidecarPath(InitialPaths(lib)[a], subtitle.language, subtitle.codec),
               TRUE)

SeededSidecars(lib) ==
    FlattenSeq([k \in DOMAIN lib.order |->
        LET a         == lib.order[k]
            subtitles == lib.assets[a].subtitles
        IN  FlattenSeq([s \in DOMAIN subtitles |->
                IF IsReplaced(subtitles, s) THEN <<>>
                ELSE <<DeclaredRow(lib, a, subtitles[s])>>])])

InitialWorld(lib) ==
    [groups       |-> lib.groups,
     parents      |-> lib.parents,
     versions     |-> [a \in AssetIds(lib) |-> <<CHOOSE k \in DOMAIN lib.order : lib.order[k] = a>>],
     nextVersion  |-> Len(lib.order) + 1,
     location     |-> [a \in AssetIds(lib) |-> CHOOSE k \in DOMAIN lib.order : lib.order[k] = a],
     nextLocation |-> Len(lib.order) + 1,
     paths        |-> InitialPaths(lib),
     pending      |-> {},
     windows      |-> {},
     sidecars     |-> SeededSidecars(lib),
     managed      |-> AssetIds(lib)]

HasLocation(w, a) == w.location[a] # 0

CurrentVersion(w, a) == Last(w.versions[a])

\* The first row of the asset at that path, in manifest order; 0 when there is none.
SidecarIdForPath(w, a, path) ==
    LET Rows == {k \in DOMAIN w.sidecars : w.sidecars[k].asset = a /\ w.sidecars[k].at = path}
    IN  IF Rows = {} THEN 0 ELSE CHOOSE k \in Rows : \A j \in Rows : k <= j

AssetIdsForParents(lib, ids) ==
    Picked(lib.order, {a \in AssetIds(lib) : lib.assets[a].parent \in ids})

\* Manifest order, by the parents that are in the group now.
AssetIdsForGroup(lib, w, g) ==
    AssetIdsForParents(lib, {p \in DOMAIN w.parents : w.parents[p].group = g})

RenderPathForAsset(lib, w, a) ==
    RenderAssetPath(lib, w.groups, w.parents, RenderRoot(lib, w.paths[a]), a)

-----------------------------------------------------------------------------
(* Journal entries and outcomes. *)

Entry(n, ev, targets) ==
    [event |-> n, op |-> ev.op, targets |-> targets, inputs |-> <<>>, outputs |-> <<>>,
     locations |-> <<>>, from |-> Nowhere, to |-> Nowhere, temp |-> Nowhere, moves |-> <<>>]

AssetEntry(w, n, ev) ==
    [Entry(n, ev, <<ev.target>>) EXCEPT !.locations = <<w.location[ev.target]>>]

Outcome(w, entry) == [world |-> w, entry |-> entry, raised |-> "no"]

Raised(w, n, ev, why) == [world |-> w, entry |-> Entry(n, ev, <<>>), raised |-> why]

-----------------------------------------------------------------------------
(* Placement. *)

PlaceAt(w, n, ev, path) ==
    Outcome([w EXCEPT !.paths[ev.target] = path],
            [AssetEntry(w, n, ev) EXCEPT !.from = w.paths[ev.target], !.to = path])

MoveAsset(w, n, ev) == PlaceAt(w, n, ev, ev.to)

\* Defect: the deleted asset keeps its path.
DeleteFile_Defect(w, n, ev) ==
    Outcome([w EXCEPT !.location[ev.target] = 0, !.managed = @ \ {ev.target}],
            [AssetEntry(w, n, ev) EXCEPT !.from = w.paths[ev.target]])

\* The binding, the location and the renderer's claim on the path all go.
DeleteFile(w, n, ev) ==
    Outcome([w EXCEPT !.location[ev.target] = 0, !.paths[ev.target] = Nowhere,
                      !.managed = @ \ {ev.target}],
            [AssetEntry(w, n, ev) EXCEPT !.from = w.paths[ev.target]])

\* A new location; the renderer never manages the asset again.
AddFile(w, n, ev) ==
    IF HasLocation(w, ev.target) THEN Raised(w, n, ev, "already_located")
    ELSE Outcome([w EXCEPT !.location[ev.target] = w.nextLocation, !.nextLocation = @ + 1,
                           !.paths[ev.target] = ev.to],
                 [Entry(n, ev, <<ev.target>>) EXCEPT !.locations = <<w.nextLocation>>,
                                                     !.to = ev.to])

SlowCopyStart(w, n, ev) ==
    Outcome([w EXCEPT !.pending = @ \cup {[start |-> n, location |-> w.location[ev.target],
                                           to |-> ev.to]}],
            [AssetEntry(w, n, ev) EXCEPT !.from = w.paths[ev.target], !.to = ev.to,
                                         !.temp = ev.temp])

\* The copy is found by its start, its asset by the location the start recorded.
SlowCopyCommit(w, n, ev) ==
    LET Copies == {c \in w.pending : c.start = ev.start}
        Owners == {a \in DOMAIN w.location : \E c \in Copies : w.location[a] = c.location}
    IN  IF Copies = {} \/ Owners = {} THEN Raised(w, n, ev, "no_pending_copy")
        ELSE LET c == CHOOSE c \in Copies : TRUE
                 a == CHOOSE a \in Owners : TRUE
             IN  Outcome([w EXCEPT !.paths[a] = c.to, !.pending = @ \ Copies],
                         [Entry(n, ev, <<a>>) EXCEPT !.locations = <<c.location>>, !.to = c.to])

ArchiveFile(lib, w, n, ev) ==
    LET path == w.paths[ev.target]
    IN  IF RootsOver(lib, path) = {} THEN Raised(w, n, ev, "outside_every_root")
        ELSE PlaceAt(w, n, ev,
                     ReplaceRootPrefix(path, CurrentRootForPath(lib, path), ArchiveBase(lib)))

MoveBetweenRoots(lib, w, n, ev) ==
    LET path == w.paths[ev.target]
    IN  IF ~UnderRoot(path, lib.roots[ev.fromRoot]) THEN Raised(w, n, ev, "outside_from_root")
        ELSE PlaceAt(w, n, ev,
                     ReplaceRootPrefix(path, lib.roots[ev.fromRoot], lib.roots[ev.toRoot]))

-----------------------------------------------------------------------------
(* Versions. *)

BindVersion(w, a) ==
    [w EXCEPT !.versions[a] = Append(@, w.nextVersion), !.nextVersion = @ + 1]

VersionEntry(w, n, ev) ==
    [AssetEntry(w, n, ev) EXCEPT !.inputs = <<CurrentVersion(w, ev.target)>>,
                                 !.outputs = <<w.nextVersion>>]

NewVersion(w, n, ev) == Outcome(BindVersion(w, ev.target), VersionEntry(w, n, ev))

TouchMtime(w, n, ev) == Outcome(w, AssetEntry(w, n, ev))

\* A new extension takes the place of the old one; where there is none it is appended, after the
\* dot that the name may end in.
SwapExtension(path, container) ==
    [path EXCEPT !.ext = <<IF EndsInDot(path) THEN "." ELSE @[1], container>>]

RemuxContainer(w, n, ev) ==
    LET path == SwapExtension(w.paths[ev.target], ev.container)
    IN  Outcome([BindVersion(w, ev.target) EXCEPT !.paths[ev.target] = path],
                [VersionEntry(w, n, ev) EXCEPT !.from = w.paths[ev.target], !.to = path])

-----------------------------------------------------------------------------
(* Sidecars. *)

\* A subtitle replaces every row of its asset and language; other kinds are only added.
CreateSidecar(w, n, ev) ==
    LET same == {row \in ToSet(w.sidecars) : /\ row.asset = ev.target /\ row.kind = "subtitle"
                                             /\ row.language = ev.language}
        kept == IF ev.kind # "subtitle" THEN w.sidecars
                ELSE Picked(w.sidecars, ToSet(w.sidecars) \ same)
    IN  Outcome([w EXCEPT !.sidecars =
                    Append(kept, SidecarRow(ev.target, ev.kind, ev.language, ev.to, FALSE))],
                [AssetEntry(w, n, ev) EXCEPT !.to = ev.to])

ExtractSubtitle(w, n, ev) ==
    Outcome([w EXCEPT !.sidecars =
                Append(@, SidecarRow(ev.target, "subtitle", ev.language, ev.to, FALSE))],
            AssetEntry(w, n, ev))

SidecarOps == {"embed_subtitle", "remove_sidecar", "update_sidecar"}

\* Embedding consumes the row and makes a version, removal consumes it, update only finds it.
UseSidecar(w, n, ev) ==
    LET k    == SidecarIdForPath(w, ev.target, ev.sidecar)
        kept == [w EXCEPT !.sidecars = RemoveAt(@, k)]
    IN  IF k = 0 THEN Raised(w, n, ev, "no_such_sidecar")
        ELSE CASE ev.op = "embed_subtitle" ->
                    Outcome(BindVersion(kept, ev.target), VersionEntry(w, n, ev))
               [] ev.op = "remove_sidecar" -> Outcome(kept, AssetEntry(w, n, ev))
               [] OTHER                    -> Outcome(w, AssetEntry(w, n, ev))

-----------------------------------------------------------------------------
(* Hierarchy events: new coordinates, then every affected path again. *)

\* An optional field of an event: 0 when it is not given.
Given(field, otherwise) == IF field = 0 THEN otherwise ELSE field

RevisingOps == {"renumber_episode", "move_episode_to_season", "move_track_to_disc",
                "republish_episode"}

\* The row of the parent, copied with the fields of the event.
Revised(row, ev) ==
    CASE ev.op = "renumber_episode" ->
            [row EXCEPT !.number = ev.number, !.absolute = Given(ev.absolute, @)]
      [] ev.op = "move_episode_to_season" ->
            [row EXCEPT !.group = ev.group, !.number = ev.number,
                        !.absolute = Given(ev.absolute, @)]
      [] ev.op = "move_track_to_disc" -> [row EXCEPT !.group = ev.group, !.number = ev.number]
      [] OTHER ->   \* republish_episode
            [row EXCEPT !.date = ev.date, !.stale = FALSE, !.slug = Given(ev.slug, @)]

Numbered(row, from) == [row EXCEPT !.number = from.number]

Coordinates(w, ev) ==
    CASE ev.op \in RevisingOps -> [w EXCEPT !.parents[ev.target] = Revised(@, ev)]
      [] ev.op = "renumber_disc" -> [w EXCEPT !.groups[ev.target] = Numbered(@, ev)]
      [] ev.op \in {"swap_episode_numbers", "swap_track_numbers"} ->
            [w EXCEPT !.parents[ev.target] = Numbered(@, w.parents[ev.other]),
                      !.parents[ev.other]  = Numbered(@, w.parents[ev.target])]
      [] ev.op = "swap_disc_numbers" ->
            [w EXCEPT !.groups[ev.target] = Numbered(@, w.groups[ev.other]),
                      !.groups[ev.other]  = Numbered(@, w.groups[ev.target])]
      [] OTHER -> w

\* Taken before the coordinates change: a moved episode is listed where it was.
AffectedAssets(lib, w, ev) ==
    CASE ev.op \in {"rename_season", "renumber_disc"} -> AssetIdsForGroup(lib, w, ev.target)
      [] ev.op = "swap_disc_numbers" ->
            AssetIdsForGroup(lib, w, ev.target) \o AssetIdsForGroup(lib, w, ev.other)
      [] ev.op \in {"swap_episode_numbers", "swap_track_numbers"} ->
            AssetIdsForParents(lib, {ev.target}) \o AssetIdsForParents(lib, {ev.other})
      [] OTHER -> AssetIdsForParents(lib, {ev.target})

\* Only located assets the renderer still manages follow their coordinates.
CapturedAssets(w, ids) == {a \in ToSet(ids) : HasLocation(w, a) /\ a \in w.managed}

\* Each moved asset takes its declared sidecars along, wherever they were.
HierarchyEvent(lib, w, n, ev) ==
    LET ids   == AffectedAssets(lib, w, ev)
        after == Coordinates(w, ev)
        to    == [a \in AssetIds(lib) |-> IF a \in CapturedAssets(w, ids)
                                          THEN RenderPathForAsset(lib, after, a) ELSE w.paths[a]]
        moved == Picked(ids, {a \in AssetIds(lib) : to[a] # w.paths[a]})
        beside(row) == IF row.derived /\ row.asset \in ToSet(moved)
                       THEN [row EXCEPT !.at =
                                RenderDeclaredSidecarPath(to[row.asset], row.language, @.ext[2])]
                       ELSE row
    IN  Outcome([after EXCEPT !.paths = to,
                              !.sidecars = [k \in DOMAIN @ |-> beside(@[k])]],
                [Entry(n, ev, ids) EXCEPT
                    !.locations = [k \in DOMAIN moved |-> w.location[moved[k]]],
                    !.moves     = [k \in DOMAIN moved |->
                        [asset |-> moved[k], from |-> w.paths[moved[k]], to |-> to[moved[k]]]]])

\* The file lingers; every asset of the episode is looked up, deleted ones too.
MarkEpisodeStale(lib, w, n, ev) ==
    LET ids == AssetIdsForParents(lib, {ev.target})
    IN  IF \E a \in ToSet(ids) : ~HasLocation(w, a) THEN Raised(w, n, ev, "half_deleted")
        ELSE Outcome([w EXCEPT !.parents[ev.target].stale = TRUE],
                     [Entry(n, ev, ids) EXCEPT !.locations =
                         [k \in DOMAIN ids |-> w.location[ids[k]]]])

-----------------------------------------------------------------------------
(* Network events: the world of files is left alone. *)

\* A path may be targeted instead of an asset, and then no asset is.
ChaosTargetIds(w, ev) == IF HasLocation(w, ev.target) THEN <<ev.target>> ELSE <<>>

Condition(w, n, ev) == Outcome(w, Entry(n, ev, ChaosTargetIds(w, ev)))

\* A lag must wrap the event just before it.
OpenWindow(w, n, ev) ==
    LET targets == IF ev.op = "network_lag_start" THEN <<ev.target>> ELSE ChaosTargetIds(w, ev)
    IN  IF ev.op = "network_lag_start" /\ ev.after # n - 1 THEN Raised(w, n, ev, "not_adjacent")
        ELSE Outcome([w EXCEPT !.windows = @ \cup {[start |-> n, target |-> ev.target]}],
                     Entry(n, ev, targets))

CloseWindow(w, n, ev) ==
    LET Open == {v \in w.windows : v.start = ev.start}
    IN  IF Open = {} THEN Raised(w, n, ev, "no_open_window")
        ELSE Outcome([w EXCEPT !.windows = @ \ Open],
                     Entry(n, ev, <<(CHOOSE v \in Open : TRUE).target>>))

-----------------------------------------------------------------------------
(* Dispatch. *)

\* Every other handler begins by looking the target's location up.
NeedsLocation(ev) ==
    ev.op \notin HierarchyOps \cup ConditionOps \cup OpeningOps \cup ClosingOps
                 \cup {"mark_episode_stale", "add_file", "slow_copy_commit"}

ApplyEvent(lib, w, n, ev) ==
    IF NeedsLocation(ev) /\ ~HasLocation(w, ev.target) THEN Raised(w, n, ev, "unlocated")
    ELSE CASE ev.op \in {"move_asset", "rename_file"} -> MoveAsset(w, n, ev)
           [] ev.op = "delete_file"        -> DeleteFile(w, n, ev)
           [] ev.op = "add_file"           -> AddFile(w, n, ev)
           [] ev.op = "slow_copy_start"    -> SlowCopyStart(w, n, ev)
           [] ev.op = "slow_copy_commit"   -> SlowCopyCommit(w, n, ev)
           [] ev.op = "archive_file"       -> ArchiveFile(lib, w, n, ev)
           [] ev.op = "move_between_roots" -> MoveBetweenRoots(lib, w, n, ev)
           [] ev.op \in VersionOps         -> NewVersion(w, n, ev)
           [] ev.op = "touch_mtime"        -> TouchMtime(w, n, ev)
           [] ev.op = "remux_container"    -> RemuxContainer(w, n, ev)
           [] ev.op = "create_sidecar"     -> CreateSidecar(w, n, ev)
           [] ev.op = "extract_subtitle"   -> ExtractSubtitle(w, n, ev)
           [] ev.op \in SidecarOps         -> UseSidecar(w, n, ev)
           [] ev.op \in HierarchyOps       -> HierarchyEvent(lib, w, n, ev)
           [] ev.op = "mark_episode_stale" -> MarkEpisodeStale(lib, w, n, ev)
           [] ev.op \in ConditionOps       -> Condition(w, n, ev)
           [] ev.op \in OpeningOps         -> OpenWindow(w, n, ev)
           [] OTHER                        -> CloseWindow(w, n, ev)   \* ClosingOps
=============================================================================
