--------------------------- MODULE ScenarioProjection ---------------------------
(***************************************************************************)
(* The validator's own walk of a timeline: what its rules project of the   *)
(* library (validation/rules/hierarchy/projection.py, sidecar/projection.py*)
(* and the lifecycle rule's state) and when they accept the next event.    *)
(* The rules each rebuild this projection and walk the timeline alone; for *)
(* a timeline none of them rejects they all hold the same one, so the      *)
(* model keeps it once.  Nothing here reads the engine's world.            *)
(***************************************************************************)
EXTENDS EngineWorld
LOCAL INSTANCE SequencesExt

-----------------------------------------------------------------------------
(* What is projected. *)

ProjectedSidecar(a, at, kind, language, derived, standard) ==
    [asset |-> a, at |-> at, kind |-> kind, language |-> language,
     derived |-> derived, standard |-> standard]

DeclaredSidecars(lib) ==
    UNION {{ProjectedSidecar(a, RenderDeclaredSidecarPath(InitialPaths(lib)[a], s.language, s.codec),
                             "subtitle", s.language, TRUE, s.codec = "srt")
            : s \in ToSet(lib.assets[a].subtitles)} : a \in AssetIds(lib)}

\* The validator renders the raw document itself, before anything is planned.
DeclaredPaths(lib) ==
    [a \in AssetIds(lib) |->
        RenderAssetPath(lib, lib.groups, lib.parents, lib.roots[lib.primary], a)]

\* The parents of a group, as the list the projection moves them between.
SeededMembers(lib) ==
    [g \in DOMAIN lib.groups |-> {p \in DOMAIN lib.parents : lib.parents[p].group = g}]

InitialProjection(lib) ==
    [numbers  |-> [g \in DOMAIN lib.groups |-> lib.groups[g].number],
     members  |-> SeededMembers(lib),
     parents  |-> lib.parents,
     paths    |-> DeclaredPaths(lib),
     managed  |-> AssetIds(lib),
     pending  |-> {},
     placed   |-> AssetIds(lib),
     copying  |-> {},
     sidecars |-> DeclaredSidecars(lib),
     staled   |-> {},
     created  |-> {}]

AssetsUnder(lib, ids) == {a \in AssetIds(lib) : lib.assets[a].parent \in ids}

AffectedAssetIds(lib, proj, ev) ==
    CASE ev.op \in {"rename_season", "renumber_disc"} ->
            AssetsUnder(lib, proj.members[ev.target])
      [] ev.op = "swap_disc_numbers" ->
            AssetsUnder(lib, proj.members[ev.target] \cup proj.members[ev.other])
      [] ev.op \in {"swap_episode_numbers", "swap_track_numbers"} ->
            AssetsUnder(lib, {ev.target, ev.other})
      [] OTHER -> AssetsUnder(lib, {ev.target})

ProjectedRender(lib, proj, a) ==
    RenderAssetPath(lib, [g \in DOMAIN proj.numbers |-> [number |-> proj.numbers[g]]],
                    proj.parents, RenderRoot(lib, proj.paths[a]), a)

-----------------------------------------------------------------------------
(* Projecting a hierarchy event. *)

\* Swaps of one entity with itself, or across parents, are reported and do nothing.
SwapIsValid(lib, proj, ev) ==
    /\ ev.target # ev.other
    /\ IF ev.op = "swap_disc_numbers"
       THEN lib.groups[ev.target].owner = lib.groups[ev.other].owner
       ELSE proj.parents[ev.target].group = proj.parents[ev.other].group

\* The parent's attributes, assigned one by one; a track has no absolute number.
Reprojected(parent, ev) ==
    CASE ev.op = "renumber_episode" ->
            [parent EXCEPT !.number = ev.number, !.absolute = Given(ev.absolute, @)]
      [] ev.op = "move_episode_to_season" ->
            [parent EXCEPT !.group = ev.group, !.number = ev.number,
                           !.absolute = Given(ev.absolute, @)]
      [] ev.op = "move_track_to_disc" -> [parent EXCEPT !.group = ev.group, !.number = ev.number]
      [] OTHER ->   \* republish_episode
            [parent EXCEPT !.date = ev.date, !.stale = FALSE, !.slug = Given(ev.slug, @)]

ProjectMove(proj, ev) ==
    [proj EXCEPT !.members = [g \in DOMAIN @ |->
                        IF g = ev.group THEN @[g] \cup {ev.target} ELSE @[g] \ {ev.target}],
                 !.parents[ev.target] = Reprojected(@, ev)]

\* A swap that is not valid is reported and changes nothing.
ProjectSwap(lib, proj, ev) ==
    IF ~SwapIsValid(lib, proj, ev) THEN proj
    ELSE IF ev.op = "swap_disc_numbers"
    THEN [proj EXCEPT !.numbers[ev.target] = proj.numbers[ev.other],
                      !.numbers[ev.other]  = proj.numbers[ev.target]]
    ELSE [proj EXCEPT !.parents[ev.target].number = proj.parents[ev.other].number,
                      !.parents[ev.other].number  = proj.parents[ev.target].number]

ProjectNumbers(lib, proj, ev) ==
    CASE ev.op \in {"renumber_episode", "republish_episode"} ->
            [proj EXCEPT !.parents[ev.target] = Reprojected(@, ev)]
      [] ev.op \in {"move_episode_to_season", "move_track_to_disc"} -> ProjectMove(proj, ev)
      [] ev.op = "renumber_disc" -> [proj EXCEPT !.numbers[ev.target] = ev.number]
      [] ev.op \in SwapOps -> ProjectSwap(lib, proj, ev)
      [] OTHER -> proj

\* Defect: an asset that was deleted and added by hand is rendered again as well.
RefreshedPaths_Defect(lib, proj, affected) ==
    [a \in AssetIds(lib) |->
        IF a \in affected /\ proj.paths[a] # Nowhere
        THEN ProjectedRender(lib, proj, a) ELSE proj.paths[a]]

\* Managed assets that have a path are rendered again.
RefreshedPaths(lib, proj, affected) ==
    [a \in AssetIds(lib) |->
        IF a \in affected /\ a \in proj.managed /\ proj.paths[a] # Nowhere
        THEN ProjectedRender(lib, proj, a) ELSE proj.paths[a]]

\* A declared sidecar follows only if it sits beside the path its media file left; there is no
\* such place when that path has no extension.
MovedSidecars(sidecars, before, after) ==
    LET Follows(row) == /\ before[row.asset] # after[row.asset]
                        /\ HasExtension(before[row.asset])
                        /\ row.kind = "subtitle" /\ row.derived
                        /\ row.at = RenderDeclaredSidecarPath(before[row.asset], row.language,
                                                              row.at.ext[2])
        There == {[row EXCEPT !.at = RenderDeclaredSidecarPath(after[row.asset], row.language,
                                                               @.ext[2])]
                  : row \in {r \in sidecars : Follows(r)}}
        Overwritten(row) == \E r \in There : r.asset = row.asset /\ r.at = row.at
    IN  {row \in sidecars : ~Follows(row) /\ ~Overwritten(row)} \cup There

ProjectHierarchy(lib, proj, ev) ==
    LET numbered == ProjectNumbers(lib, proj, ev)
        paths    == RefreshedPaths(lib, numbered, AffectedAssetIds(lib, proj, ev))
    IN  [numbered EXCEPT !.paths = paths,
                         !.sidecars = MovedSidecars(@, proj.paths, paths)]

-----------------------------------------------------------------------------
(* Projecting the other events. *)

ProjectArchive(lib, proj, ev) ==
    [proj EXCEPT !.paths[ev.target] =
        ReplaceRootPrefix(@, CurrentRootForPath(lib, @), ArchiveBase(lib))]

ProjectMoveBetweenRoots(lib, proj, ev) ==
    [proj EXCEPT !.paths[ev.target] =
        ReplaceRootPrefix(@, lib.roots[ev.fromRoot], lib.roots[ev.toRoot])]

ProjectCommit(proj, ev) ==
    LET copy == CHOOSE c \in proj.pending : c.start = ev.start
    IN  [proj EXCEPT !.paths[copy.asset] = copy.to, !.pending = @ \ {copy},
                     !.copying = @ \ {copy.asset}]

\* The validator's own swap: what follows the last dot of the name is replaced, be it nothing.
ProjectedSwap(path, container) == [path EXCEPT !.ext = <<@[1], container>>]

ProjectRemux(proj, ev) ==
    [proj EXCEPT !.paths[ev.target] = ProjectedSwap(@, ev.container)]

Row(sidecars, a, at) == {row \in sidecars : row.asset = a /\ row.at = at}

\* An (asset, path) key holds one row: the last writer's.
\* Defect: a new subtitle does not replace the one of its language.
ProjectCreate_Defect(proj, ev) ==
    [proj EXCEPT
        !.sidecars = (@ \ Row(@, ev.target, ev.to))
                     \cup {ProjectedSidecar(ev.target, ev.to, ev.kind, ev.language, FALSE, TRUE)},
        !.created  = IF ev.kind = "subtitle" THEN @ \cup {<<ev.target, ev.language>>} ELSE @]

ProjectCreate(proj, ev) ==
    LET same == IF ev.kind # "subtitle" THEN {}
                ELSE {row \in proj.sidecars : /\ row.asset = ev.target
                                              /\ row.kind = "subtitle"
                                              /\ row.language = ev.language}
    IN  [proj EXCEPT
            !.sidecars = (@ \ (same \cup Row(@, ev.target, ev.to)))
                         \cup {ProjectedSidecar(ev.target, ev.to, ev.kind, ev.language, FALSE, TRUE)},
            !.created  = IF ev.kind = "subtitle" THEN @ \cup {<<ev.target, ev.language>>} ELSE @]

\* Extraction adds a row, embedding and removal drop one, an update leaves it.
ProjectSidecarEvent(proj, ev) ==
    CASE ev.op = "extract_subtitle" ->
            [proj EXCEPT !.sidecars = @ \cup {ProjectedSidecar(ev.target, ev.to, "subtitle",
                                                               ev.language, FALSE, TRUE)}]
      [] ev.op \in {"embed_subtitle", "remove_sidecar"} ->
            [proj EXCEPT !.sidecars = @ \ Row(@, ev.target, ev.sidecar)]
      [] OTHER -> proj

Project(lib, proj, n, ev) ==
    CASE ev.op \in {"move_asset", "rename_file"} -> [proj EXCEPT !.paths[ev.target] = ev.to]
      [] ev.op = "add_file"           -> [proj EXCEPT !.paths[ev.target] = ev.to,
                                                      !.placed = @ \cup {ev.target}]
      [] ev.op = "delete_file"        -> [proj EXCEPT !.paths[ev.target] = Nowhere,
                                                      !.managed = @ \ {ev.target},
                                                      !.placed = @ \ {ev.target}]
      [] ev.op = "slow_copy_start"    -> [proj EXCEPT
                                            !.pending = @ \cup {[start |-> n, asset |-> ev.target,
                                                                 to |-> ev.to]},
                                            !.copying = @ \cup {ev.target}]
      [] ev.op = "slow_copy_commit"   -> ProjectCommit(proj, ev)
      [] ev.op = "archive_file"       -> ProjectArchive(lib, proj, ev)
      [] ev.op = "move_between_roots" -> ProjectMoveBetweenRoots(lib, proj, ev)
      [] ev.op = "remux_container"    -> ProjectRemux(proj, ev)
      [] ev.op = "create_sidecar"     -> ProjectCreate(proj, ev)
      [] ev.op \in SidecarOps \cup {"extract_subtitle"} -> ProjectSidecarEvent(proj, ev)
      [] ev.op = "mark_episode_stale" -> [proj EXCEPT !.staled = @ \cup {ev.target}]
      [] ev.op \in HierarchyOps       -> ProjectHierarchy(lib, proj, ev)
      [] OTHER                        -> proj

-----------------------------------------------------------------------------
(* The rules: what each asks of the next event. *)

\* target_unknown.py: a target is declared, and is of the kind the action speaks of.
ParentKindOf(op) ==
    CASE op \in {"renumber_episode", "move_episode_to_season", "swap_episode_numbers"} -> "episode"
      [] op \in {"move_track_to_disc", "swap_track_numbers"}                          -> "track"
      [] op \in {"republish_episode", "mark_episode_stale"}                  -> "podcast_episode"
      [] OTHER                                                                         -> "none"

\* The actions on one parent, whatever its kind.
ParentOps == RevisingOps \cup {"mark_episode_stale"}

TargetsKnown(lib, ev) ==
    CASE ev.op \in {"slow_copy_commit", "change_permissions", "toggle_readonly", "unmount_path"}
                  \cup ClosingOps           -> TRUE
      [] ev.op = "rename_season"            -> lib.kind = "episode" /\ ev.target \in DOMAIN lib.groups
      [] ev.op = "renumber_disc"            -> lib.kind = "track" /\ ev.target \in DOMAIN lib.groups
      [] ev.op = "swap_disc_numbers"        -> /\ lib.kind = "track"
                                               /\ {ev.target, ev.other} \subseteq DOMAIN lib.groups
      [] ev.op \in {"swap_episode_numbers", "swap_track_numbers"} ->
                                               /\ lib.kind = ParentKindOf(ev.op)
                                               /\ {ev.target, ev.other} \subseteq DOMAIN lib.parents
      [] ev.op \in ParentOps                -> /\ lib.kind = ParentKindOf(ev.op)
                                               /\ ev.target \in DOMAIN lib.parents
                                               /\ "group" \in DOMAIN ev => ev.group \in DOMAIN lib.groups
      [] OTHER                              -> ev.target \in AssetIds(lib)

RootsKnown(lib, ev) == {ev.fromRoot, ev.toRoot} \subseteq DOMAIN lib.roots

\* timeline_lifecycle.py: placed or not, and nothing that moves or reads a file
\* whose copy is under way (a sidecar's own file may still be touched).
WhileCopying == {"create_sidecar", "remove_sidecar", "update_sidecar"}

\* The target has a file, and it is not the source of a copy under way.
PlacedAndIdle(proj, ev) ==
    /\ ev.target \in proj.placed
    /\ ev.target \in proj.copying => ev.op \in WhileCopying

\* One file of the episode is enough, and once is enough.
MayGoStale(lib, proj, ev) ==
    /\ ev.target \notin proj.staled
    /\ AssetsUnder(lib, {ev.target}) \cap proj.placed # {}

\* Defect: a file may be moved or deleted while its copy is under way.
LifecycleAllows_Defect(lib, proj, ev) ==
    CASE ev.op = "add_file"           -> ev.target \notin proj.placed
      [] ev.op \in HierarchyOps       -> AffectedAssetIds(lib, proj, ev) \cap proj.copying = {}
      [] ev.op = "mark_episode_stale" -> MayGoStale(lib, proj, ev)
      [] ev.op \in {"slow_copy_commit"} \cup ConditionOps \cup OpeningOps \cup ClosingOps -> TRUE
      [] OTHER                        -> ev.target \in proj.placed

LifecycleAllows(lib, proj, ev) ==
    CASE ev.op = "add_file"           -> ev.target \notin proj.placed
      [] ev.op \in HierarchyOps       -> AffectedAssetIds(lib, proj, ev) \cap proj.copying = {}
      [] ev.op = "mark_episode_stale" -> MayGoStale(lib, proj, ev)
      [] ev.op \in {"slow_copy_commit"} \cup ConditionOps \cup OpeningOps \cup ClosingOps -> TRUE
      [] OTHER                        -> PlacedAndIdle(proj, ev)

\* sidecar_target.py: the named row exists, and is one the materializer can rewrite.
SidecarTargetKnown(proj, ev) ==
    LET rows == Row(proj.sidecars, ev.target, ev.sidecar)
    IN  CASE ev.op = "embed_subtitle" ->
                \E row \in rows : row.kind = "subtitle" /\ row.standard
          [] ev.op = "remove_sidecar" -> rows # {}
          [] OTHER                    -> \E row \in rows : row.kind = "subtitle" => row.standard

\* sidecar_target.py: an extraction does not write over a sidecar.
ExtractionIsNew(proj, ev) == Row(proj.sidecars, ev.target, ev.to) = {}

\* sidecar_language.py: a language is created once for an asset, wherever the first one went.
LanguageIsNew(proj, ev) ==
    ev.kind = "subtitle" => <<ev.target, ev.language>> \notin proj.created

\* slow_copy.py: temp, final and current path are three.
CopyPathsDiffer(proj, ev) == ev.temp # ev.to /\ ev.temp # proj.paths[ev.target]

\* slow_copy.py: a commit names a start, and each start is committed once.
CopyIsPaired(proj, ev) == \E c \in proj.pending : c.start = ev.start

\* path_containment.py: destinations that are computed from the roots.
DestinationIsRooted(lib, proj, ev) ==
    IF ev.op = "archive_file" THEN RootsOver(lib, proj.paths[ev.target]) # {}
    ELSE UnderRoot(proj.paths[ev.target], lib.roots[ev.fromRoot])

\* rules.py: a track has no picture and no subtitle stream.
MediaActionFits(lib, ev) ==
    lib.kind = "track" => ev.op \notin {"reencode_video", "remux_container",
                                        "embed_subtitle", "extract_subtitle"}

\* rules.py: numbers among the siblings of every group the event touched.
NumbersStayDistinct(lib, after, groups) ==
    \A g \in groups : \A p, q \in after.members[g] :
        p # q => after.parents[p].number # after.parents[q].number

DiscNumbersStayDistinct(lib, after, owner) ==
    \A g, h \in {d \in DOMAIN lib.groups : lib.groups[d].owner = owner} :
        g # h => after.numbers[g] # after.numbers[h]

AffectedGroups(proj, ev) ==
    CASE ev.op \in {"move_episode_to_season", "move_track_to_disc"} ->
            {proj.parents[ev.target].group, ev.group}
      [] ev.op \in {"renumber_episode", "swap_episode_numbers", "swap_track_numbers"} ->
            {proj.parents[ev.target].group}
      [] ev.op = "rename_season" -> {ev.target}
      [] OTHER -> {}

\* Defect: only the affected assets are compared with each other.
PathsStayDistinct_Defect(after, affected) ==
    \A a, b \in affected :
        (a # b /\ after.paths[a] # Nowhere) => after.paths[a] # after.paths[b]

\* rules.py: no affected asset is left on a path another asset has.
PathsStayDistinct(after, affected) ==
    \A a \in affected, b \in DOMAIN after.paths :
        (a # b /\ after.paths[a] # Nowhere) => after.paths[a] # after.paths[b]

HierarchyAllows(lib, proj, ev) ==
    LET after == ProjectHierarchy(lib, proj, ev)
    IN  /\ ev.op \in SwapOps => SwapIsValid(lib, proj, ev)
        /\ NumbersStayDistinct(lib, after, AffectedGroups(proj, ev))
        /\ ev.op \in {"renumber_disc", "swap_disc_numbers"} =>
              DiscNumbersStayDistinct(lib, after, lib.groups[ev.target].owner)
        /\ PathsStayDistinct(after, AffectedAssetIds(lib, proj, ev))

\* An event every rule accepts at this point of the timeline.
Accepts(lib, proj, ev) ==
    /\ TargetsKnown(lib, ev)
    /\ ev.op = "move_between_roots" => RootsKnown(lib, ev)
    /\ LifecycleAllows(lib, proj, ev)
    /\ MediaActionFits(lib, ev)
    /\ ev.op \in SidecarOps => SidecarTargetKnown(proj, ev)
    /\ ev.op = "extract_subtitle" => ExtractionIsNew(proj, ev)
    /\ ev.op = "create_sidecar" => LanguageIsNew(proj, ev)
    /\ ev.op = "slow_copy_start" => CopyPathsDiffer(proj, ev)
    /\ ev.op = "slow_copy_commit" => CopyIsPaired(proj, ev)
    /\ ev.op \in {"archive_file", "move_between_roots"} => DestinationIsRooted(lib, proj, ev)
    /\ ev.op \in HierarchyOps => HierarchyAllows(lib, proj, ev)
=============================================================================
