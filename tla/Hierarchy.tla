------------------------------- MODULE Hierarchy -------------------------------
(***************************************************************************)
(* The hierarchy a scenario declares (groups are seasons or discs, parents *)
(* are movies, episodes, tracks or podcast episodes) and the paths its     *)
(* media are rendered at: topology.py, path_rendering.py and, for the      *)
(* validator's reading of the raw document, walkers.py and                 *)
(* rendering_projection.py, which must give the same answers.              *)
(*                                                                         *)
(* A path is its directory (the library root's segments and what follows   *)
(* them), the number in its season or disc folder, its stem and its        *)
(* extension: a pair, so that a sidecar, which adds its language and its   *)
(* codec to the stem of its media file, is written next to it.  "." stands *)
(* for an extension or a language that a dot announces and that is empty:  *)
(* "foo." has the stem "foo" and the pair <<"", ".">>, and "foo..mp4" has  *)
(* <<".", "mp4">>.  A scenario has one kind of parent.                     *)
(***************************************************************************)
EXTENDS Naturals, Sequences, FiniteSets
LOCAL INSTANCE SequencesExt

Nowhere == [dir |-> <<>>, folder |-> 0, stem |-> <<0, 0, "", "">>, ext |-> <<"", "">>]

\* A path that a file can have: its last component is not empty (contract/paths.py:46).
IsFilePath(x) ==
    /\ x = [dir |-> x.dir, folder |-> x.folder, stem |-> x.stem, ext |-> x.ext]
    /\ x.stem # Nowhere.stem

EndsInDot(path) == path.ext[2] = "."

HasExtension(path) == path.ext[2] \notin {"", "."}

-----------------------------------------------------------------------------
(* The declared tree, flattened in the order the iterators visit it. *)

\* One context per declared asset: its group, its parent and itself.
AssetContexts(scenario) ==
    FlattenSeq([g \in DOMAIN scenario.groups |->
        FlattenSeq([p \in DOMAIN scenario.groups[g].parents |->
            [k \in DOMAIN scenario.groups[g].parents[p].assets |->
                [group |-> scenario.groups[g], parent |-> scenario.groups[g].parents[p],
                 asset |-> scenario.groups[g].parents[p].assets[k]]]])])

BundleMembers(contexts, k) ==
    Cardinality({j \in DOMAIN contexts : contexts[j].asset.bundle = contexts[k].asset.bundle})

\* What ends the stem: the variant's label and, in a bundle of several assets, the role.
TailOf(contexts, k) ==
    LET own == contexts[k].asset
    IN  IF BundleMembers(contexts, k) > 1 THEN own.label \o own.role ELSE own.label

GroupsById(scenario) ==
    [g \in {scenario.groups[i].id : i \in DOMAIN scenario.groups} |->
        LET i == CHOOSE i \in DOMAIN scenario.groups : scenario.groups[i].id = g
        IN  [owner |-> scenario.groups[i].owner, number |-> scenario.groups[i].number]]

ParentsById(contexts) ==
    [p \in {contexts[k].parent.id : k \in DOMAIN contexts} |->
        LET c == CHOOSE c \in {contexts[k] : k \in DOMAIN contexts} : c.parent.id = p
        IN  [group |-> c.group.id, number |-> c.parent.number, absolute |-> c.parent.absolute,
             date |-> c.parent.date, slug |-> c.parent.slug, stale |-> c.parent.stale,
             title |-> c.parent.title]]

AssetsById(contexts) ==
    [a \in {contexts[k].asset.id : k \in DOMAIN contexts} |->
        LET k == CHOOSE k \in DOMAIN contexts : contexts[k].asset.id = a
        IN  [parent |-> contexts[k].parent.id, label |-> contexts[k].asset.label,
             members |-> BundleMembers(contexts, k), tail |-> TailOf(contexts, k),
             container |-> contexts[k].asset.container,
             subtitles |-> contexts[k].asset.subtitles]]

\* The scenario by id, which is what every component reads of it.
Library(scenario) ==
    LET contexts == AssetContexts(scenario)
    IN  [kind |-> scenario.kind, foldered |-> scenario.foldered, naming |-> scenario.naming,
         roots |-> scenario.roots, primary |-> scenario.primary, archive |-> scenario.archive,
         order |-> [k \in DOMAIN contexts |-> contexts[k].asset.id],
         groups |-> GroupsById(scenario), parents |-> ParentsById(contexts),
         assets |-> AssetsById(contexts)]

AssetIds(lib) == DOMAIN lib.assets

-----------------------------------------------------------------------------
(* Rendering. *)

\* The two numbers a naming recipe puts into the stem.
Numbering(naming, group, parent) ==
    CASE naming \in {"sxxexx_title", "disc_track_number_title"} ->
            <<group.number, parent.number>>
      [] naming = "track_number_title"     -> <<0, parent.number>>
      [] naming = "absolute_3_digit_title" -> <<0, parent.absolute>>
      [] naming = "date_title"             -> <<0, parent.date>>
      [] naming = "date_slug_title"        -> <<parent.date, parent.slug>>
      [] OTHER                             -> <<0, 0>>

\* The season or disc folder, when the layout has one.
FolderOf(lib, group) ==
    IF lib.foldered /\ lib.kind \in {"episode", "track"} THEN group.number ELSE 0

\* The media path of asset a under a root, from the current numbers of its parent.
RenderAssetPath(lib, groups, parents, root, a) ==
    LET asset  == lib.assets[a]
        parent == parents[asset.parent]
        group  == groups[parent.group]
        pair   == Numbering(lib.naming, group, parent)
    IN  [dir    |-> root,
         folder |-> FolderOf(lib, group),
         stem   |-> <<pair[1], pair[2], parent.title, asset.tail>>,
         ext    |-> <<"", asset.container>>]

\* A declared subtitle is written beside its media file, under the file's own stem.  (The code
\* raises when that file has no extension: the caller asks HasExtension first.)
RenderDeclaredSidecarPath(media, language, codec) ==
    [media EXCEPT !.ext = <<language, codec>>]

-----------------------------------------------------------------------------
(* Library roots. *)

UnderRoot(path, root) == IsPrefix(root, path.dir)

RootsOver(lib, path) == {r \in DOMAIN lib.roots : UnderRoot(path, lib.roots[r])}

\* The longest declared root over a path; <<>> when there is none.
CurrentRootForPath(lib, path) ==
    IF RootsOver(lib, path) = {} THEN <<>>
    ELSE LET best == CHOOSE r \in RootsOver(lib, path) :
                        \A s \in RootsOver(lib, path) : Len(lib.roots[s]) <= Len(lib.roots[r])
         IN  lib.roots[best]

\* The path with another root before what followed the old one.
ReplaceRootPrefix(path, from, to) ==
    [path EXCEPT !.dir = to \o SubSeq(@, Len(from) + 1, Len(@))]

\* A declared root, or a directory of that name in the primary root.
ArchiveBase(lib) ==
    IF lib.archive = "archive" THEN Append(lib.roots[lib.primary], "archive")
    ELSE lib.roots[lib.archive]

\* The root a re-rendered asset stays under: its own, else the primary one.
RenderRoot(lib, path) ==
    IF path = Nowhere \/ RootsOver(lib, path) = {} THEN lib.roots[lib.primary]
    ELSE CurrentRootForPath(lib, path)

-----------------------------------------------------------------------------
(* The start of every run. *)

InitialPaths(lib) ==
    [a \in AssetIds(lib) |->
        RenderAssetPath(lib, lib.groups, lib.parents, lib.roots[lib.primary], a)]

\* What the validator demands of the tree before it looks at the timeline.
WellFormedHierarchy(lib) ==
    /\ \A p, q \in DOMAIN lib.parents :
          (/\ p # q
           /\ lib.kind \in {"episode", "track"}
           /\ lib.parents[p].group = lib.parents[q].group)
          => lib.parents[p].number # lib.parents[q].number
    /\ \A g, h \in DOMAIN lib.groups :
          (g # h /\ lib.kind = "track" /\ lib.groups[g].owner = lib.groups[h].owner)
          => lib.groups[g].number # lib.groups[h].number
    /\ \A a, b \in AssetIds(lib) : a # b => InitialPaths(lib)[a] # InitialPaths(lib)[b]
=============================================================================
