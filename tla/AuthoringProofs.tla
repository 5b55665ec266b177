------------------------------ MODULE AuthoringProofs ------------------------------
(***************************************************************************)
(* The two walks of an authored timeline stay in step: for every scenario  *)
(* that passes the rules on the document and every timeline its author may *)
(* write, the validator judges each event by the paths, numbers, copies    *)
(* and sidecars that the engine has when it plans it.  The invariant and   *)
(* the other events are in InStepProofs; here are the hierarchy events,    *)
(* the start, and the theorems at the end.                                 *)
(***************************************************************************)
EXTENDS InStepProofs
LOCAL INSTANCE SequencesExt

(***************************************************************************)
(* Hierarchy events: numbers.                                              *)
(***************************************************************************)
\* A parent is in one group, so taking it to a group takes it out of the others.
LEMMA ParentMoves ==
  ASSUME NEW L, NEW numbers, NEW members, NEW parents, NEW groups, NEW actual,
         NumbersAgree(L, numbers, members, parents, groups, actual),
         NEW q \in DOMAIN L.parents, NEW r, NEW s,
         IsParent(L, r), IsParent(L, s), SameParent(r, s)
  PROVE  NumbersAgree(L, numbers,
            [g \in DOMAIN members |-> IF g = s.group THEN members[g] \cup {q} ELSE members[g] \ {q}],
            [parents EXCEPT ![q] = r], groups, [actual EXCEPT ![q] = s])
<1> DEFINE later == [g \in DOMAIN members |-> IF g = s.group THEN members[g] \cup {q}
                                              ELSE members[g] \ {q}]
           parents2 == [parents EXCEPT ![q] = r]
           actual2 == [actual EXCEPT ![q] = s]
<1>1. /\ TreeOK(L, groups, actual)
      /\ members = [g \in DOMAIN L.groups |-> {x \in DOMAIN L.parents : actual[x].group = g}]
      /\ parents = [x \in DOMAIN L.parents |-> parents[x]]
      /\ \A x \in DOMAIN L.parents : IsParent(L, parents[x]) /\ SameParent(parents[x], actual[x])
  BY DEF NumbersAgree
<1>2. actual = [x \in DOMAIN L.parents |-> actual[x]]
      /\ \A x \in DOMAIN L.parents : IsParent(L, actual[x])
  BY <1>1 DEF TreeOK
<1>3. actual2 = [x \in DOMAIN L.parents |-> IF x = q THEN s ELSE actual[x]]
  BY <1>2
<1>4. parents2 = [x \in DOMAIN L.parents |-> IF x = q THEN r ELSE parents[x]]
  BY <1>1
<1>5. \A x \in DOMAIN L.parents : IsParent(L, parents2[x]) /\ SameParent(parents2[x], actual2[x])
                                  /\ IsParent(L, actual2[x])
  BY <1>1, <1>2, <1>3, <1>4
<1>6. parents2 = [x \in DOMAIN L.parents |-> parents2[x]]
      /\ actual2 = [x \in DOMAIN L.parents |-> actual2[x]]
  BY <1>3, <1>4
<1>7. later = [g \in DOMAIN L.groups |-> {x \in DOMAIN L.parents : actual2[x].group = g}]
  <2>1. DOMAIN members = DOMAIN L.groups
    BY <1>1
  <2>2. \A g \in DOMAIN L.groups :
           (IF g = s.group THEN members[g] \cup {q} ELSE members[g] \ {q})
             = {x \in DOMAIN L.parents : actual2[x].group = g}
    <3> TAKE g \in DOMAIN L.groups
    <3> PICK now : now = {x \in DOMAIN L.parents : actual2[x].group = g}
      OBVIOUS
    <3>1. members[g] = {x \in DOMAIN L.parents : actual[x].group = g}
      BY <1>1
    <3>2. \A x : x \in now <=> x \in DOMAIN L.parents /\ IF x = q THEN s.group = g ELSE x \in members[g]
      <4>1. \A x \in DOMAIN L.parents : actual2[x] = IF x = q THEN s ELSE actual[x]
        BY <1>3
      <4> HIDE DEF actual2
      <4>2. \A x \in DOMAIN L.parents : actual2[x].group = IF x = q THEN s.group ELSE actual[x].group
        BY <4>1
      <4> QED BY <3>1, <4>2
    <3>3. members[g] \subseteq DOMAIN L.parents
      BY <3>1
    <3>4. CASE g = s.group
      <4>1. now = members[g] \cup {q}
        BY <3>2, <3>3, <3>4
      <4> QED BY <3>4, <4>1
    <3>5. CASE g # s.group
      <4>1. now = members[g] \ {q}
        BY <3>2, <3>3, <3>5
      <4> QED BY <3>5, <4>1
    <3> QED BY <3>4, <3>5
  <2> QED BY <2>1, <2>2
<1> HIDE DEF later, parents2, actual2
<1>8. TreeOK(L, groups, actual2)
  BY <1>1, <1>5, <1>6 DEF TreeOK
<1>9. NumbersAgree(L, numbers, later, parents2, groups, actual2)
  BY <1>5, <1>6, <1>7, <1>8 DEF NumbersAgree
<1> QED BY <1>9 DEF later, parents2, actual2

\* Both sides change one parent alike, and it stays in its group.
LEMMA ParentChanges ==
  ASSUME NEW L, NEW numbers, NEW members, NEW parents, NEW groups, NEW actual,
         NumbersAgree(L, numbers, members, parents, groups, actual),
         NEW q \in DOMAIN L.parents, NEW r, NEW s,
         IsParent(L, r), IsParent(L, s), SameParent(r, s), s.group = actual[q].group
  PROVE  NumbersAgree(L, numbers, members, [parents EXCEPT ![q] = r], groups,
                      [actual EXCEPT ![q] = s])
<1> DEFINE later == [g \in DOMAIN members |-> IF g = s.group THEN members[g] \cup {q}
                                              ELSE members[g] \ {q}]
<1>1. members = [g \in DOMAIN L.groups |-> {x \in DOMAIN L.parents : actual[x].group = g}]
  BY DEF NumbersAgree
<1>2. \A g \in DOMAIN members :
         members[g] = IF g = s.group THEN members[g] \cup {q} ELSE members[g] \ {q}
  BY <1>1
<1>3. later = members
  <2>1. members = [g \in DOMAIN members |-> members[g]]
    BY <1>1
  <2> QED BY <1>2, <2>1
<1>4. NumbersAgree(L, numbers, later, [parents EXCEPT ![q] = r], groups, [actual EXCEPT ![q] = s])
  BY ParentMoves
<1> QED BY <1>3, <1>4

\* Both sides give one group another number.
LEMMA GroupChanges ==
  ASSUME NEW L, NEW numbers, NEW members, NEW parents, NEW groups, NEW actual,
         NumbersAgree(L, numbers, members, parents, groups, actual),
         NEW g \in DOMAIN L.groups, NEW number
  PROVE  NumbersAgree(L, [numbers EXCEPT ![g] = number], members, parents,
                      [groups EXCEPT ![g].number = number], actual)
<1> DEFINE groups2 == [groups EXCEPT ![g].number = number]
           numbers2 == [numbers EXCEPT ![g] = number]
<1>1. /\ TreeOK(L, groups, actual)
      /\ numbers = [h \in DOMAIN L.groups |-> groups[h].number]
  BY DEF NumbersAgree
<1>2. /\ groups = [h \in DOMAIN L.groups |-> groups[h]]
      /\ \A h \in DOMAIN L.groups : IsGroup(groups[h])
  BY <1>1 DEF TreeOK
<1> PICK old : old = groups[g]
  OBVIOUS
<1> PICK new : new = [old EXCEPT !.number = number]
  OBVIOUS
<1>3. IsGroup(new) /\ new.number = number
  <2>1. old = [owner |-> old.owner, number |-> old.number]
    BY <1>2 DEF IsGroup
  <2> QED BY <2>1 DEF IsGroup
<1>4. groups2 = [h \in DOMAIN L.groups |-> IF h = g THEN new ELSE groups[h]]
  BY <1>2
<1>5. \A h \in DOMAIN L.groups : IsGroup(groups2[h])
  BY <1>2, <1>3, <1>4
<1>6. groups2 = [h \in DOMAIN L.groups |-> groups2[h]]
  BY <1>4
<1>7. numbers2 = [h \in DOMAIN L.groups |-> IF h = g THEN number ELSE groups[h].number]
  BY <1>1
<1>8. \A h \in DOMAIN L.groups : groups2[h].number = IF h = g THEN number ELSE groups[h].number
  BY <1>3, <1>4
<1> HIDE DEF groups2, numbers2
<1>9. numbers2 = [h \in DOMAIN L.groups |-> groups2[h].number]
  BY <1>7, <1>8
<1>10. TreeOK(L, groups2, actual)
  BY <1>1, <1>5, <1>6 DEF TreeOK
<1>11. NumbersAgree(L, numbers2, members, parents, groups2, actual)
  BY <1>9, <1>10, Zenon DEF NumbersAgree
<1> QED BY <1>11 DEF groups2, numbers2

\* Both sides render an asset alike, under a name with an extension.
LEMMA RendersAlike ==
  ASSUME NEW L, LibraryOK(L), NEW numbers, NEW members, NEW parents, NEW groups, NEW actual,
         NumbersAgree(L, numbers, members, parents, groups, actual),
         NEW a \in AssetIds(L), NEW root
  PROVE  /\ RenderAssetPath(L, [g \in DOMAIN numbers |-> [number |-> numbers[g]]], parents, root, a)
              = RenderAssetPath(L, groups, actual, root, a)
         /\ IsFilePath(RenderAssetPath(L, groups, actual, root, a))
         /\ HasExtension(RenderAssetPath(L, groups, actual, root, a))
<1> PICK asset, q : asset = L.assets[a] /\ q = L.assets[a].parent
  OBVIOUS
<1>1. q \in DOMAIN L.parents
  BY DEF LibraryOK
<1> PICK r, s : r = parents[q] /\ s = actual[q]
  OBVIOUS
<1>2. IsParent(L, r) /\ SameParent(r, s) /\ r.title # "" /\ r.group \in DOMAIN L.groups
  BY <1>1 DEF NumbersAgree, IsParent
<1>3. /\ s.group = r.group /\ s.number = r.number /\ s.absolute = r.absolute
      /\ s.date = r.date /\ s.slug = r.slug /\ s.title = r.title
  BY <1>2 DEF SameParent
<1> PICK h, g : h = [number |-> numbers[r.group]] /\ g = groups[r.group]
  OBVIOUS
<1>4. h.number = g.number
  <2>1. numbers = [x \in DOMAIN L.groups |-> groups[x].number]
    BY DEF NumbersAgree
  <2>2. numbers[r.group] = groups[r.group].number
    BY <1>2, <2>1
  <2> QED BY <2>2
<1>5. r.group \in DOMAIN numbers
  BY <1>2 DEF NumbersAgree
<1> PICK few : few = [x \in DOMAIN numbers |-> [number |-> numbers[x]]]
  OBVIOUS
<1>6. few[r.group] = h
  BY <1>5
<1>7. Numbering(L.naming, h, r) = Numbering(L.naming, g, s)
  BY <1>3, <1>4 DEF Numbering
<1>8. FolderOf(L, h) = FolderOf(L, g)
  BY <1>4 DEF FolderOf
<1> PICK pair : pair = Numbering(L.naming, g, s)
  OBVIOUS
<1> PICK stem : stem = <<pair[1], pair[2], s.title, asset.tail>>
  BY Zenon
<1> PICK path : path = [dir |-> root, folder |-> FolderOf(L, g), stem |-> stem,
                        ext |-> <<"", asset.container>>]
  BY Zenon
<1>9. RenderAssetPath(L, groups, actual, root, a) = path
  BY <1>3, Zenon DEF RenderAssetPath
<1>10. RenderAssetPath(L, few, parents, root, a) = path
  BY <1>3, <1>6, <1>7, <1>8, Zenon DEF RenderAssetPath
<1>11. IsFilePath(path)
  <2>1. stem[3] # "" /\ Nowhere.stem[3] = ""
    BY <1>2, <1>3, Zenon DEF Nowhere
  <2>2. path.stem = stem /\ path = [dir |-> path.dir, folder |-> path.folder, stem |-> path.stem,
                                    ext |-> path.ext]
    BY Zenon
  <2> QED BY <2>1, <2>2, Zenon DEF IsFilePath
<1>12. HasExtension(path)
  <2>1. IsContainer(asset.container)
    BY DEF LibraryOK
  <2>2. path.ext[2] = asset.container
    OBVIOUS
  <2> QED BY <2>1, <2>2 DEF HasExtension, IsContainer
<1> QED BY <1>9, <1>10, <1>11, <1>12, Zenon

\* Nothing but numbers changes.
OnlyNumbers(p, w, q, v) ==
    /\ IsProjection(q) /\ IsWorld(v)
    /\ q.paths = p.paths /\ q.managed = p.managed /\ q.placed = p.placed
    /\ q.pending = p.pending /\ q.copying = p.copying /\ q.sidecars = p.sidecars
    /\ v.versions = w.versions /\ v.nextVersion = w.nextVersion /\ v.location = w.location
    /\ v.nextLocation = w.nextLocation /\ v.paths = w.paths /\ v.pending = w.pending
    /\ v.sidecars = w.sidecars /\ v.managed = w.managed

Renumbered(L, p, w, q, v) ==
    /\ OnlyNumbers(p, w, q, v)
    /\ NumbersAgree(L, q.numbers, q.members, q.parents, v.groups, v.parents)

InStepNumbers(L, p, w) ==
    /\ IsProjection(p) /\ IsWorld(w)
    /\ NumbersAgree(L, p.numbers, p.members, p.parents, w.groups, w.parents)

\* One parent has new coordinates in its group.
LEMMA ParentRenumbered ==
  ASSUME NEW L, NEW p, NEW w, InStepNumbers(L, p, w), NEW t \in DOMAIN L.parents, NEW r, NEW s,
         IsParent(L, r), IsParent(L, s), SameParent(r, s), s.group = w.parents[t].group,
         NEW q, NEW v, q = [p EXCEPT !.parents[t] = r], v = [w EXCEPT !.parents[t] = s]
  PROVE  /\ Renumbered(L, p, w, q, v) /\ q.numbers = p.numbers /\ q.members = p.members
         /\ v.groups = w.groups
         /\ q.parents = [p.parents EXCEPT ![t] = r] /\ v.parents = [w.parents EXCEPT ![t] = s]
<1> PICK numbers, members, parents, groups, actual :
         /\ numbers = p.numbers /\ members = p.members /\ parents = p.parents
         /\ groups = w.groups /\ actual = w.parents
  OBVIOUS
<1>1. /\ OnlyNumbers(p, w, q, v) /\ q.numbers = p.numbers /\ q.members = p.members
      /\ v.groups = w.groups /\ q.parents = [p.parents EXCEPT ![t] = r]
      /\ v.parents = [w.parents EXCEPT ![t] = s]
  BY DEF InStepNumbers, OnlyNumbers, IsProjection, IsWorld
<1>2. NumbersAgree(L, numbers, members, parents, groups, actual) /\ s.group = actual[t].group
  BY DEF InStepNumbers
<1>3. NumbersAgree(L, numbers, members, [parents EXCEPT ![t] = r], groups, [actual EXCEPT ![t] = s])
  BY <1>2, ParentChanges
<1> QED BY <1>1, <1>3 DEF Renumbered

\* One parent is in another group.
LEMMA ParentRegrouped ==
  ASSUME NEW L, NEW p, NEW w, InStepNumbers(L, p, w), NEW t \in DOMAIN L.parents, NEW r, NEW s,
         IsParent(L, r), IsParent(L, s), SameParent(r, s), NEW q, NEW v,
         q = [p EXCEPT !.members = [g \in DOMAIN p.members |-> IF g = s.group THEN p.members[g] \cup {t}
                                                               ELSE p.members[g] \ {t}],
                       !.parents[t] = r],
         v = [w EXCEPT !.parents[t] = s]
  PROVE  Renumbered(L, p, w, q, v)
<1> PICK numbers, members, parents, groups, actual :
         /\ numbers = p.numbers /\ members = p.members /\ parents = p.parents
         /\ groups = w.groups /\ actual = w.parents
  OBVIOUS
<1> PICK later : later = [g \in DOMAIN members |-> IF g = s.group THEN members[g] \cup {t}
                                                   ELSE members[g] \ {t}]
  OBVIOUS
<1>1. q = [p EXCEPT !.members = later, !.parents[t] = r]
  OBVIOUS
<1>2. /\ OnlyNumbers(p, w, q, v) /\ q.numbers = numbers /\ q.members = later
      /\ v.groups = groups /\ q.parents = [parents EXCEPT ![t] = r]
      /\ v.parents = [actual EXCEPT ![t] = s]
  BY <1>1 DEF InStepNumbers, OnlyNumbers, IsProjection, IsWorld
<1>3. NumbersAgree(L, numbers, members, parents, groups, actual)
  BY DEF InStepNumbers
<1>4. NumbersAgree(L, numbers,
            [g \in DOMAIN members |-> IF g = s.group THEN members[g] \cup {t} ELSE members[g] \ {t}],
            [parents EXCEPT ![t] = r], groups, [actual EXCEPT ![t] = s])
  BY <1>3, ParentMoves
<1> QED BY <1>2, <1>4 DEF Renumbered

\* One group has another number.
LEMMA GroupRenumbered ==
  ASSUME NEW L, NEW p, NEW w, InStepNumbers(L, p, w), NEW g \in DOMAIN L.groups, NEW number,
         NEW q, NEW v, q = [p EXCEPT !.numbers[g] = number], v = [w EXCEPT !.groups[g].number = number]
  PROVE  /\ Renumbered(L, p, w, q, v) /\ q.members = p.members /\ q.parents = p.parents
         /\ v.parents = w.parents
         /\ q.numbers = [p.numbers EXCEPT ![g] = number]
         /\ v.groups = [w.groups EXCEPT ![g].number = number]
<1> PICK numbers, members, parents, groups, actual :
         /\ numbers = p.numbers /\ members = p.members /\ parents = p.parents
         /\ groups = w.groups /\ actual = w.parents
  OBVIOUS
<1>1. /\ OnlyNumbers(p, w, q, v) /\ q.members = p.members /\ q.parents = p.parents
      /\ v.parents = w.parents /\ q.numbers = [p.numbers EXCEPT ![g] = number]
      /\ v.groups = [w.groups EXCEPT ![g].number = number]
  BY DEF InStepNumbers, OnlyNumbers, IsProjection, IsWorld
<1>2. NumbersAgree(L, numbers, members, parents, groups, actual)
  BY DEF InStepNumbers
<1>3. NumbersAgree(L, [numbers EXCEPT ![g] = number], members, parents,
                   [groups EXCEPT ![g].number = number], actual)
  BY <1>2, GroupChanges
<1> QED BY <1>1, <1>3 DEF Renumbered

\* One renumbering after another is a renumbering.
LEMMA KeepsStep ==
  ASSUME NEW L, NEW p, NEW w, NEW q, NEW v, NEW x, NEW y, InStepNumbers(L, p, w),
         Renumbered(L, p, w, q, v), Renumbered(L, q, v, x, y)
  PROVE  Renumbered(L, p, w, x, y)
  BY DEF Renumbered, OnlyNumbers

\* Both copies of a parent take the same fields of an event.
LEMMA RevisedAlike ==
  ASSUME NEW L, NEW r, NEW s, IsParent(L, r), IsParent(L, s), SameParent(r, s), NEW ev,
         ev.op \in RevisingOps,
         ev.op \in {"move_episode_to_season", "move_track_to_disc"} => ev.group \in DOMAIN L.groups
  PROVE  /\ IsParent(L, Reprojected(r, ev)) /\ IsParent(L, Revised(s, ev))
         /\ SameParent(Reprojected(r, ev), Revised(s, ev))
         /\ Revised(s, ev).group = IF ev.op \in {"move_episode_to_season", "move_track_to_disc"}
                                    THEN ev.group ELSE s.group
<1> PICK q, v, group, number, absolute, date, slug, later, further :
         /\ q = Reprojected(r, ev) /\ v = Revised(s, ev)
         /\ group = ev.group /\ number = ev.number /\ date = ev.date
         /\ absolute = Given(ev.absolute, r.absolute) /\ later = Given(ev.absolute, s.absolute)
         /\ slug = Given(ev.slug, r.slug) /\ further = Given(ev.slug, s.slug)
  OBVIOUS
<1>1. absolute = later /\ slug = further
  BY DEF SameParent
<1>2. CASE ev.op = "renumber_episode"
  <2>1. q = [r EXCEPT !.number = number, !.absolute = absolute]
    BY <1>2 DEF Reprojected
  <2>2. v = [s EXCEPT !.number = number, !.absolute = later]
    BY <1>2 DEF Revised
  <2>3. IsParent(L, q) /\ IsParent(L, v) /\ SameParent(q, v) /\ v.group = s.group
    BY ONLY <1>1, <2>1, <2>2, IsParent(L, r), IsParent(L, s), SameParent(r, s) DEF IsParent, SameParent
  <2> QED BY <1>2, <2>3
<1>3. CASE ev.op = "move_episode_to_season"
  <2>1. q = [r EXCEPT !.group = group, !.number = number, !.absolute = absolute]
    BY <1>3 DEF Reprojected
  <2>2. v = [s EXCEPT !.group = group, !.number = number, !.absolute = later]
    BY <1>3 DEF Revised
  <2>3. group \in DOMAIN L.groups
    BY <1>3
  <2>4. IsParent(L, q) /\ IsParent(L, v) /\ SameParent(q, v) /\ v.group = group
    BY ONLY <1>1, <2>1, <2>2, <2>3, IsParent(L, r), IsParent(L, s), SameParent(r, s) DEF IsParent, SameParent
  <2> QED BY <1>3, <2>4
<1>4. CASE ev.op = "move_track_to_disc"
  <2>1. q = [r EXCEPT !.group = group, !.number = number]
    BY <1>4 DEF Reprojected
  <2>2. v = [s EXCEPT !.group = group, !.number = number]
    BY <1>4 DEF Revised
  <2>3. group \in DOMAIN L.groups
    BY <1>4
  <2>4. IsParent(L, q) /\ IsParent(L, v) /\ SameParent(q, v) /\ v.group = group
    BY ONLY <2>1, <2>2, <2>3, IsParent(L, r), IsParent(L, s), SameParent(r, s) DEF IsParent, SameParent
  <2> QED BY <1>4, <2>4
<1>5. CASE ev.op = "republish_episode"
  <2>1. q = [r EXCEPT !.date = date, !.stale = FALSE, !.slug = slug]
    BY <1>5 DEF Reprojected
  <2>2. v = [s EXCEPT !.date = date, !.stale = FALSE, !.slug = further]
    BY <1>5 DEF Revised
  <2>3. IsParent(L, q) /\ IsParent(L, v) /\ SameParent(q, v) /\ v.group = s.group
    BY ONLY <1>1, <2>1, <2>2, IsParent(L, r), IsParent(L, s), SameParent(r, s) DEF IsParent, SameParent
  <2> QED BY <1>5, <2>3
<1> QED BY <1>2, <1>3, <1>4, <1>5 DEF RevisingOps

\* swap_disc_numbers exchanges the same numbers on both sides.
LEMMA SwapDiscsRenumbers ==
  ASSUME NEW L, NEW p, NEW w, InStepNumbers(L, p, w),
         NEW t \in DOMAIN L.groups, NEW o \in DOMAIN L.groups, t # o, NEW q, NEW v,
         q = [p EXCEPT !.numbers[t] = p.numbers[o], !.numbers[o] = p.numbers[t]],
         v = [w EXCEPT !.groups[t] = Numbered(@, w.groups[o]),
                       !.groups[o] = Numbered(@, w.groups[t])]
  PROVE  Renumbered(L, p, w, q, v)
<1>1. /\ IsProjection(p) /\ IsWorld(w)
      /\ NumbersAgree(L, p.numbers, p.members, p.parents, w.groups, w.parents)
  BY DEF InStepNumbers
<1> PICK x, y : x = p.numbers[o] /\ y = p.numbers[t]
  OBVIOUS
<1>2. x = w.groups[o].number /\ y = w.groups[t].number
  BY <1>1 DEF NumbersAgree
<1>3. w.groups = [g \in DOMAIN L.groups |-> w.groups[g]]
  BY <1>1 DEF NumbersAgree, TreeOK
<1> PICK q1, v1 : q1 = [p EXCEPT !.numbers[t] = x] /\ v1 = [w EXCEPT !.groups[t].number = x]
  OBVIOUS
<1>4. q = [q1 EXCEPT !.numbers[o] = y]
  BY ONLY <1>1, x = p.numbers[o], y = p.numbers[t], q1 = [p EXCEPT !.numbers[t] = x],
          q = [p EXCEPT !.numbers[t] = p.numbers[o], !.numbers[o] = p.numbers[t]] DEF IsProjection
<1> PICK g1, g2 : g1 = [w.groups[t] EXCEPT !.number = x] /\ g2 = [w.groups[o] EXCEPT !.number = y]
  OBVIOUS
<1>5. Numbered(w.groups[t], w.groups[o]) = g1 /\ Numbered(w.groups[o], w.groups[t]) = g2
  BY <1>2 DEF Numbered
<1>6. v.groups = [[w.groups EXCEPT ![t] = g1] EXCEPT ![o] = g2] /\ v = [w EXCEPT !.groups = v.groups]
  BY ONLY <1>1, <1>3, <1>5, t \in DOMAIN L.groups, o \in DOMAIN L.groups, t # o,
          v = [w EXCEPT !.groups[t] = Numbered(@, w.groups[o]),
                        !.groups[o] = Numbered(@, w.groups[t])] DEF IsWorld
<1>7. v1 = [w EXCEPT !.groups = [w.groups EXCEPT ![t] = g1]]
  OBVIOUS
<1>8. v1.groups = [w.groups EXCEPT ![t] = g1] /\ v1.groups[o] = w.groups[o]
  BY <1>1, <1>3, <1>7 DEF IsWorld
<1>9. v = [v1 EXCEPT !.groups[o].number = y]
  <2>1. [v1 EXCEPT !.groups[o].number = y] = [v1 EXCEPT !.groups = [v1.groups EXCEPT ![o] = g2]]
    BY <1>8
  <2> QED BY ONLY <1>1, <1>6, <1>7, <1>8, <2>1, Zenon DEF IsWorld
<1>10. Renumbered(L, p, w, q1, v1)
  BY GroupRenumbered
<1>11. InStepNumbers(L, q1, v1)
  BY <1>10 DEF Renumbered, OnlyNumbers, InStepNumbers
<1>12. Renumbered(L, q1, v1, q, v)
  BY ONLY <1>4, <1>9, <1>11, o \in DOMAIN L.groups, GroupRenumbered
<1> QED BY <1>10, <1>12, KeepsStep

\* swap_episode_numbers and swap_track_numbers exchange the same numbers on both sides.
LEMMA SwapParentsRenumbers ==
  ASSUME NEW L, NEW p, NEW w, InStepNumbers(L, p, w),
         NEW t \in DOMAIN L.parents, NEW o \in DOMAIN L.parents, t # o, NEW q, NEW v,
         q = [p EXCEPT !.parents[t].number = p.parents[o].number,
                       !.parents[o].number = p.parents[t].number],
         v = [w EXCEPT !.parents[t] = Numbered(@, w.parents[o]),
                       !.parents[o] = Numbered(@, w.parents[t])]
  PROVE  Renumbered(L, p, w, q, v)
<1>1. /\ IsProjection(p) /\ IsWorld(w)
      /\ NumbersAgree(L, p.numbers, p.members, p.parents, w.groups, w.parents)
  BY DEF InStepNumbers
<1> PICK r0, s0, r1, s1 : /\ r0 = p.parents[t] /\ s0 = w.parents[t]
                          /\ r1 = p.parents[o] /\ s1 = w.parents[o]
  OBVIOUS
<1>2. /\ IsParent(L, r0) /\ IsParent(L, s0) /\ SameParent(r0, s0)
      /\ IsParent(L, r1) /\ IsParent(L, s1) /\ SameParent(r1, s1)
  BY <1>1 DEF NumbersAgree, TreeOK
<1> PICK r2, s2, r3, s3 :
         /\ r2 = [r0 EXCEPT !.number = r1.number] /\ s2 = [s0 EXCEPT !.number = s1.number]
         /\ r3 = [r1 EXCEPT !.number = r0.number] /\ s3 = [s1 EXCEPT !.number = s0.number]
  OBVIOUS
<1>3. IsParent(L, r2) /\ IsParent(L, s2) /\ SameParent(r2, s2) /\ s2.group = s0.group
  BY <1>2 DEF IsParent, SameParent
<1>4. IsParent(L, r3) /\ IsParent(L, s3) /\ SameParent(r3, s3) /\ s3.group = s1.group
  BY <1>2 DEF IsParent, SameParent
<1>5. p.parents = [z \in DOMAIN L.parents |-> p.parents[z]]
      /\ w.parents = [z \in DOMAIN L.parents |-> w.parents[z]]
  BY <1>1 DEF NumbersAgree, TreeOK
<1> PICK q1, v1 : q1 = [p EXCEPT !.parents[t] = r2] /\ v1 = [w EXCEPT !.parents[t] = s2]
  OBVIOUS
<1>6. q.parents = [[p.parents EXCEPT ![t] = r2] EXCEPT ![o] = r3] /\ q = [p EXCEPT !.parents = q.parents]
  BY ONLY <1>1, <1>5, t \in DOMAIN L.parents, o \in DOMAIN L.parents, t # o,
          r0 = p.parents[t], r1 = p.parents[o], r2 = [r0 EXCEPT !.number = r1.number],
          r3 = [r1 EXCEPT !.number = r0.number],
          q = [p EXCEPT !.parents[t].number = p.parents[o].number,
                        !.parents[o].number = p.parents[t].number] DEF IsProjection
<1>7. Numbered(w.parents[t], w.parents[o]) = s2 /\ Numbered(w.parents[o], w.parents[t]) = s3
  BY DEF Numbered
<1>8. v.parents = [[w.parents EXCEPT ![t] = s2] EXCEPT ![o] = s3] /\ v = [w EXCEPT !.parents = v.parents]
  BY ONLY <1>1, <1>5, <1>7, t \in DOMAIN L.parents, o \in DOMAIN L.parents, t # o,
          v = [w EXCEPT !.parents[t] = Numbered(@, w.parents[o]),
                        !.parents[o] = Numbered(@, w.parents[t])] DEF IsWorld
<1>9. /\ q1 = [p EXCEPT !.parents = [p.parents EXCEPT ![t] = r2]]
      /\ v1 = [w EXCEPT !.parents = [w.parents EXCEPT ![t] = s2]]
  OBVIOUS
<1>10. q = [q1 EXCEPT !.parents[o] = r3]
  BY ONLY <1>1, <1>6, <1>9 DEF IsProjection
<1>11. v = [v1 EXCEPT !.parents[o] = s3]
  BY ONLY <1>1, <1>8, <1>9 DEF IsWorld
<1>12. IsParent(L, r2) /\ IsParent(L, s2) /\ SameParent(r2, s2) /\ s2.group = w.parents[t].group
  BY <1>3
<1>a. v1.parents = [w.parents EXCEPT ![t] = s2]
  BY ONLY <1>1, <1>9 DEF IsWorld
<1>13. Renumbered(L, p, w, q1, v1)
  BY ONLY <1>12, InStepNumbers(L, p, w), t \in DOMAIN L.parents,
          q1 = [p EXCEPT !.parents[t] = r2], v1 = [w EXCEPT !.parents[t] = s2], ParentRenumbered
<1>14. InStepNumbers(L, q1, v1)
  BY <1>13 DEF Renumbered, OnlyNumbers, InStepNumbers
<1>15. IsParent(L, r3) /\ IsParent(L, s3) /\ SameParent(r3, s3) /\ s3.group = v1.parents[o].group
  <2>1. v1.parents[o] = s1
    BY <1>5, <1>a
  <2> QED BY <1>4, <2>1
<1>16. Renumbered(L, q1, v1, q, v)
  BY ONLY <1>10, <1>11, <1>14, <1>15, o \in DOMAIN L.parents, ParentRenumbered
<1> QED BY <1>13, <1>16, KeepsStep

\* Every hierarchy event leaves both sides with the same numbers, members and parents.
LEMMA HierarchyRenumbers ==
  ASSUME NEW L, NEW p, NEW w, InStepNumbers(L, p, w), NEW ev, MayCome(L, p, ev),
         ev.op \in HierarchyOps
  PROVE  Renumbered(L, p, w, ProjectNumbers(L, p, ev), Coordinates(w, ev))
<1> PICK t, q, v : t = ev.target /\ q = ProjectNumbers(L, p, ev) /\ v = Coordinates(w, ev)
  OBVIOUS
<1>1. TargetsKnown(L, ev) /\ DraftOK(ev) /\ (ev.op \in SwapOps => SwapIsValid(L, p, ev))
  BY DEF MayCome, Accepts, HierarchyAllows
<1>2. IsProjection(p) /\ IsWorld(w)
      /\ NumbersAgree(L, p.numbers, p.members, p.parents, w.groups, w.parents)
  BY DEF InStepNumbers
<1>3. CASE ev.op \in SwapOps
  <2> PICK o : o = ev.other
    OBVIOUS
  <2>1. SwapIsValid(L, p, ev) /\ t # o
    BY <1>1, <1>3 DEF SwapIsValid
  <2>2. q = ProjectSwap(L, p, ev)
    BY <1>3 DEF ProjectNumbers, SwapOps
  <2>3. CASE ev.op = "swap_disc_numbers"
    <3>1. t \in DOMAIN L.groups /\ o \in DOMAIN L.groups
      BY <1>1, <2>3 DEF TargetsKnown, ClosingOps, ParentOps, RevisingOps
    <3>2. q = [p EXCEPT !.numbers[t] = p.numbers[o], !.numbers[o] = p.numbers[t]]
      BY <2>1, <2>2, <2>3 DEF ProjectSwap
    <3>3. v = [w EXCEPT !.groups[t] = Numbered(@, w.groups[o]), !.groups[o] = Numbered(@, w.groups[t])]
      BY <2>3 DEF Coordinates, RevisingOps
    <3>4. Renumbered(L, p, w, q, v)
      BY ONLY <2>1, <3>1, <3>2, <3>3, InStepNumbers(L, p, w), SwapDiscsRenumbers
    <3> QED BY <3>4
  <2>4. CASE ev.op \in {"swap_episode_numbers", "swap_track_numbers"}
    <3>1. t \in DOMAIN L.parents /\ o \in DOMAIN L.parents
      BY <1>1, <2>4 DEF TargetsKnown, ClosingOps, ParentOps, RevisingOps
    <3>2. q = [p EXCEPT !.parents[t].number = p.parents[o].number,
                        !.parents[o].number = p.parents[t].number]
      BY <2>1, <2>2, <2>4 DEF ProjectSwap
    <3>3. v = [w EXCEPT !.parents[t] = Numbered(@, w.parents[o]),
                        !.parents[o] = Numbered(@, w.parents[t])]
      BY <2>4 DEF Coordinates, RevisingOps
    <3>4. Renumbered(L, p, w, q, v)
      BY ONLY <2>1, <3>1, <3>2, <3>3, InStepNumbers(L, p, w), SwapParentsRenumbers
    <3> QED BY <3>4
  <2> QED BY <1>3, <2>3, <2>4 DEF SwapOps
<1>4. CASE ev.op = "rename_season"
  <2>1. q = p /\ v = w
    BY <1>4 DEF ProjectNumbers, Coordinates, SwapOps, RevisingOps
  <2> QED BY <1>2, <2>1 DEF Renumbered, OnlyNumbers
<1>5. CASE ev.op = "renumber_disc"
  <2> PICK number : number = ev.number
    OBVIOUS
  <2>1. t \in DOMAIN L.groups
    BY <1>1, <1>5 DEF TargetsKnown, ClosingOps, ParentOps, RevisingOps
  <2>2. q = [p EXCEPT !.numbers[t] = number]
    BY <1>5 DEF ProjectNumbers, SwapOps
  <2>3. v = [w EXCEPT !.groups[t] = Numbered(@, ev)]
    BY <1>5 DEF Coordinates, RevisingOps
  <2>4. v = [w EXCEPT !.groups[t].number = number]
    BY <2>3 DEF Numbered
  <2>5. Renumbered(L, p, w, q, v)
    BY ONLY <2>1, <2>2, <2>4, InStepNumbers(L, p, w), GroupRenumbered
  <2> QED BY <2>5
<1>6. CASE ev.op \in RevisingOps
  <2>1. t \in DOMAIN L.parents
    BY <1>1, <1>6 DEF TargetsKnown, ClosingOps, ParentOps, RevisingOps
  <2>2. ev.op \in {"move_episode_to_season", "move_track_to_disc"} => ev.group \in DOMAIN L.groups
    BY <1>1, <1>6 DEF TargetsKnown, DraftOK, ClosingOps, ParentOps, RevisingOps
  <2> PICK r0, s0, r, s : /\ r0 = p.parents[t] /\ s0 = w.parents[t]
                          /\ r = Reprojected(p.parents[t], ev) /\ s = Revised(w.parents[t], ev)
    OBVIOUS
  <2>3. IsParent(L, r0) /\ IsParent(L, s0) /\ SameParent(r0, s0)
    BY <1>2, <2>1 DEF NumbersAgree, TreeOK
  <2>4. /\ IsParent(L, Reprojected(r0, ev)) /\ IsParent(L, Revised(s0, ev))
        /\ SameParent(Reprojected(r0, ev), Revised(s0, ev))
        /\ Revised(s0, ev).group = IF ev.op \in {"move_episode_to_season", "move_track_to_disc"}
                                    THEN ev.group ELSE s0.group
    BY ONLY <1>6, <2>2, <2>3, RevisedAlike
  <2>5. /\ IsParent(L, r) /\ IsParent(L, s) /\ SameParent(r, s)
        /\ s.group = IF ev.op \in {"move_episode_to_season", "move_track_to_disc"}
                     THEN ev.group ELSE w.parents[t].group
    BY <2>4
  <2>6. v = [w EXCEPT !.parents[t] = s]
    BY <1>6 DEF Coordinates, RevisingOps
  <2>7. CASE ev.op \in {"renumber_episode", "republish_episode"}
    <3>1. q = [p EXCEPT !.parents[t] = r]
      BY <2>7 DEF ProjectNumbers, SwapOps
    <3>2. s.group = w.parents[t].group
      BY <2>5, <2>7
    <3>3. Renumbered(L, p, w, q, v)
      BY ONLY <2>1, <2>5, <2>6, <3>1, <3>2, InStepNumbers(L, p, w), ParentRenumbered
    <3> QED BY <3>3
  <2>8. CASE ev.op \in {"move_episode_to_season", "move_track_to_disc"}
    <3>1. q = ProjectMove(p, ev)
      BY <2>8 DEF ProjectNumbers, SwapOps
    <3>2. s.group = ev.group
      BY <2>5, <2>8
    <3>3. q = [p EXCEPT !.members = [g \in DOMAIN p.members |->
                            IF g = s.group THEN p.members[g] \cup {t} ELSE p.members[g] \ {t}],
                        !.parents[t] = r]
      BY <3>1, <3>2 DEF ProjectMove
    <3>4. Renumbered(L, p, w, q, v)
      BY ONLY <2>1, <2>5, <2>6, <3>3, InStepNumbers(L, p, w), ParentRegrouped
    <3> QED BY <3>4
  <2> QED BY <1>6, <2>7, <2>8 DEF RevisingOps
<1> QED BY <1>3, <1>4, <1>5, <1>6 DEF HierarchyOps, RevisingOps

(***************************************************************************)
(* Hierarchy events: sidecars.                                             *)
(***************************************************************************)
\* The row of a declared sidecar that went along to a media file's new path.
Brought(row, path) ==
    [row EXCEPT !.at = RenderDeclaredSidecarPath(path, row.language, row.at.ext[2])]

\* The engine's row of a subtitle brought along with its media file.
LEMMA BroughtRow ==
  ASSUME NEW row, IsRow(row), NEW path, IsFilePath(path)
  PROVE  /\ IsRow(Brought(row, path))
         /\ Brought(row, path).asset = row.asset /\ Brought(row, path).kind = row.kind
         /\ Brought(row, path).language = row.language /\ Brought(row, path).derived = row.derived
         /\ Brought(row, path).at = RenderDeclaredSidecarPath(path, row.language, row.at.ext[2])
         /\ Brought(row, path).at.ext[2] = row.at.ext[2]
<1> PICK at, codec : at = RenderDeclaredSidecarPath(path, row.language, row.at.ext[2])
                     /\ codec = row.at.ext[2]
  OBVIOUS
<1>1. at.ext = <<row.language, codec>>
  BY DEF RenderDeclaredSidecarPath, IsFilePath
<1>2. at.ext[2] = codec
  BY <1>1
<1> PICK new : new = [row EXCEPT !.at = at]
  OBVIOUS
<1>3. Brought(row, path) = new
  BY DEF Brought
<1>4. IsRow(new) /\ new.asset = row.asset /\ new.kind = row.kind /\ new.language = row.language
      /\ new.derived = row.derived /\ new.at = at
  BY DEF IsRow, SidecarRow
<1> QED BY <1>2, <1>3, <1>4

\* The projection's row brought along is the one the engine lists.
LEMMA BroughtProjection ==
  ASSUME NEW r, IsProjectedRow(r), NEW path
  PROVE  /\ IsProjectedRow(Brought(r, path)) /\ Brought(r, path).asset = r.asset
         /\ Brought(r, path).derived = r.derived
         /\ Brought(r, path).at = RenderDeclaredSidecarPath(path, r.language, r.at.ext[2])
         /\ ListedRow(Brought(r, path)) = Brought(ListedRow(r), path)
<1> PICK at : at = RenderDeclaredSidecarPath(path, r.language, r.at.ext[2])
  OBVIOUS
<1> PICK new : new = [r EXCEPT !.at = at]
  OBVIOUS
<1>1. Brought(r, path) = new
  BY DEF Brought
<1>2. /\ IsProjectedRow(new) /\ new.asset = r.asset /\ new.derived = r.derived /\ new.at = at
      /\ new.kind = r.kind /\ new.language = r.language
  BY DEF IsProjectedRow, ProjectedSidecar
<1> PICK row : row = ListedRow(r)
  OBVIOUS
<1>3. row.language = r.language /\ row.at = r.at
  BY ListedFields
<1>4. Brought(row, path) = [row EXCEPT !.at = at]
  BY <1>3 DEF Brought
<1>5. ListedRow(new) = [row EXCEPT !.at = at]
  BY <1>2 DEF ListedRow, SidecarRow
<1> QED BY <1>1, <1>2, <1>4, <1>5

\* A declared sidecar of the projection that goes along with its media file.
Following(r, before, after) ==
    /\ before[r.asset] # after[r.asset]
    /\ HasExtension(before[r.asset])
    /\ r.kind = "subtitle" /\ r.derived
    /\ r.at = RenderDeclaredSidecarPath(before[r.asset], r.language, r.at.ext[2])

There(projected, before, after) ==
    {Brought(r, after[r.asset]) : r \in {s \in projected : Following(s, before, after)}}

\* The validator's rows after a hierarchy event: those that stay and are not overwritten, and those
\* that were brought along.
LEMMA MovedRows ==
  ASSUME NEW projected, NEW before, NEW after
  PROVE  MovedSidecars(projected, before, after)
           = {r \in projected : /\ ~Following(r, before, after)
                                /\ ~\E s \in There(projected, before, after) :
                                      s.asset = r.asset /\ s.at = r.at}
             \cup There(projected, before, after)
  BY Zenon DEF MovedSidecars, There, Following, Brought

\* The engine's rows after the moves.
Taken(rows, moved, after) ==
    [k \in DOMAIN rows |-> IF rows[k].derived /\ rows[k].asset \in moved
                           THEN Brought(rows[k], after[rows[k].asset]) ELSE rows[k]]

\* managed assets move, and no other.
MovesOnly(moved, managed, before, after, S) ==
    /\ \A a \in S : after[a] # before[a] <=> a \in moved
    /\ \A a \in moved : a \in managed /\ IsFilePath(after[a]) /\ HasExtension(after[a])

\* The rows of one asset of T lie on paths of their own.
RowsApart(rows, T) ==
    \A j, k \in DOMAIN rows :
        (j # k /\ rows[j].asset \in T /\ rows[j].asset = rows[k].asset) => rows[j].at # rows[k].at

\* The validator takes the subtitles along by the path they would have, the engine by the asset they
\* are of; for settled assets these are the same rows.
LEMMA SidecarsFollow ==
  ASSUME NEW projected, NEW rows, NEW S, NEW managed, NEW before, NEW after, NEW moved,
         RowsOK(projected, rows), RowsAgree(projected, rows, S),
         RowsBeside(rows, managed, before, S), MovesOnly(moved, managed, before, after, S),
         NEW later, later = Taken(rows, moved, after),
         NEW T, T \subseteq S,
         RowsApart(later, T),
         NEW remain, remain = MovedSidecars(projected, before, after)
  PROVE  /\ RowsOK(remain, later)
         /\ RowsAgree(remain, later, T)
         /\ RowsBeside(later, managed, after, T)
<1> DEFINE Follows(r) == Following(r, before, after)
           there == There(projected, before, after)
           Over(r) == \E s \in there : s.asset = r.asset /\ s.at = r.at
<1>1. remain = {r \in projected : ~Follows(r) /\ ~Over(r)} \cup there
  BY MovedRows
<1>2. /\ rows \in Seq(ToSet(rows)) /\ Len(rows) \in Nat /\ DOMAIN rows = 1..Len(rows)
      /\ \A k \in DOMAIN rows : IsRow(rows[k]) /\ rows[k] \in ToSet(rows)
      /\ \A r \in projected : IsProjectedRow(r)
  BY DEF RowsOK, ToSet
<1>3. /\ DOMAIN later = DOMAIN rows
      /\ \A k \in DOMAIN rows :
            later[k] = IF rows[k].derived /\ rows[k].asset \in moved
                       THEN Brought(rows[k], after[rows[k].asset]) ELSE rows[k]
  BY DEF Taken
<1>4. \A k \in DOMAIN rows :
         /\ IsRow(later[k]) /\ later[k].asset = rows[k].asset /\ later[k].kind = rows[k].kind
         /\ later[k].language = rows[k].language /\ later[k].derived = rows[k].derived
         /\ later[k].at.ext[2] = rows[k].at.ext[2]
         /\ IF rows[k].derived /\ rows[k].asset \in moved
            THEN later[k].at = RenderDeclaredSidecarPath(after[rows[k].asset], rows[k].language,
                                                         rows[k].at.ext[2])
            ELSE later[k].at = rows[k].at
  <2> TAKE k \in DOMAIN rows
  <2>1. CASE ~(rows[k].derived /\ rows[k].asset \in moved)
    BY <1>2, <1>3, <2>1
  <2>2. CASE rows[k].derived /\ rows[k].asset \in moved
    <3> PICK row, path : row = rows[k] /\ path = after[rows[k].asset]
      OBVIOUS
    <3>1. IsRow(row) /\ IsFilePath(path)
      BY <1>2, <2>2 DEF MovesOnly
    <3>2. later[k] = Brought(row, path)
      BY <1>3, <2>2
    <3>3. /\ IsRow(Brought(row, path))
          /\ Brought(row, path).asset = row.asset /\ Brought(row, path).kind = row.kind
          /\ Brought(row, path).language = row.language /\ Brought(row, path).derived = row.derived
          /\ Brought(row, path).at = RenderDeclaredSidecarPath(path, row.language, row.at.ext[2])
          /\ Brought(row, path).at.ext[2] = row.at.ext[2]
      BY <3>1, BroughtRow
    <3> QED BY <2>2, <3>2, <3>3
  <2> QED BY <2>1, <2>2
<1>5. \A s \in there : \E r \in projected :
         /\ Follows(r) /\ s = Brought(r, after[r.asset])
         /\ IsProjectedRow(s) /\ s.asset = r.asset /\ s.derived = r.derived
         /\ s.at = RenderDeclaredSidecarPath(after[r.asset], r.language, r.at.ext[2])
         /\ ListedRow(s) = Brought(ListedRow(r), after[r.asset])
  <2> TAKE s \in there
  <2>1. PICK r \in projected : Follows(r) /\ s = Brought(r, after[r.asset])
    BY DEF There
  <2> PICK path : path = after[r.asset]
    OBVIOUS
  <2>2. /\ IsProjectedRow(Brought(r, path)) /\ Brought(r, path).asset = r.asset
        /\ Brought(r, path).derived = r.derived
        /\ Brought(r, path).at = RenderDeclaredSidecarPath(path, r.language, r.at.ext[2])
        /\ ListedRow(Brought(r, path)) = Brought(ListedRow(r), path)
    BY <1>2, BroughtProjection
  <2> QED BY <2>1, <2>2
<1>6. \A r \in projected : Follows(r) => Brought(r, after[r.asset]) \in there
  BY DEF There
<1> HIDE DEF there
<1>7. ASSUME NEW r \in projected, r.asset \in T
      PROVE  Follows(r) <=> r.asset \in moved /\ r.derived
  <2>1. r.asset \in S /\ (after[r.asset] # before[r.asset] <=> r.asset \in moved)
    BY <1>7 DEF MovesOnly
  <2>2. CASE ~(r.asset \in moved /\ r.derived)
    BY <2>1, <2>2 DEF Following
  <2>3. CASE r.asset \in moved /\ r.derived
    <3> PICK row : row = ListedRow(r)
      OBVIOUS
    <3>1. row \in ToSet(rows)
      BY <2>1 DEF RowsAgree
    <3>2. /\ row.asset = r.asset /\ row.kind = r.kind /\ row.language = r.language
          /\ row.at = r.at /\ row.derived = r.derived
      BY ListedFields
    <3>3. row.asset \in managed
      BY <2>3, <3>2 DEF MovesOnly
    <3>4. row.kind = "subtitle" /\ HasExtension(before[row.asset])
          /\ row.at = RenderDeclaredSidecarPath(before[row.asset], row.language, row.at.ext[2])
      BY <2>1, <2>3, <3>1, <3>2, <3>3 DEF RowsBeside
    <3> QED BY <2>1, <2>3, <3>2, <3>4 DEF Following
  <2> QED BY <2>2, <2>3
<1>8. RowsOK(remain, later)
  <2>1. later \in Seq(ToSet(later))
    <3>1. later = [k \in 1..Len(rows) |-> later[k]]
      BY <1>2, <1>3 DEF Taken
    <3>2. \A k \in 1..Len(rows) : later[k] \in ToSet(later)
      BY <1>2, <1>3 DEF ToSet
    <3> QED BY <1>2, <3>1, <3>2
  <2>2. \A row \in ToSet(later) : IsRow(row)
    BY <1>3, <1>4 DEF ToSet
  <2>3. \A r \in remain : IsProjectedRow(r)
    BY <1>1, <1>2, <1>5
  <2> QED BY <2>1, <2>2, <2>3 DEF RowsOK
<1>9. ASSUME NEW r \in remain, r.asset \in T
      PROVE  ListedRow(r) \in ToSet(later)
  <2>1. CASE r \in there
    <3>1. PICK s \in projected : /\ Follows(s) /\ r.asset = s.asset
                                 /\ ListedRow(r) = Brought(ListedRow(s), after[s.asset])
      BY <1>5, <2>1
    <3>2. s.asset \in moved /\ s.derived
      BY <1>7, <1>9, <3>1
    <3> PICK row : row = ListedRow(s)
      OBVIOUS
    <3>3. row.asset = s.asset /\ row.derived = s.derived
      BY ListedFields
    <3>4. row \in ToSet(rows)
      BY <1>9, <3>1 DEF RowsAgree
    <3>5. PICK k \in DOMAIN rows : rows[k] = row
      BY <3>4 DEF ToSet
    <3>6. later[k] = Brought(row, after[row.asset])
      BY <1>3, <3>2, <3>3, <3>5
    <3>7. later[k] = ListedRow(r)
      BY <3>1, <3>3, <3>6
    <3> QED BY <1>3, <3>7 DEF ToSet
  <2>2. CASE r \in projected /\ ~Follows(r)
    <3>1. ~(r.asset \in moved /\ r.derived)
      BY <1>7, <1>9, <2>2
    <3> PICK row : row = ListedRow(r)
      OBVIOUS
    <3>2. row.asset = r.asset /\ row.derived = r.derived
      BY ListedFields
    <3>3. row \in ToSet(rows)
      BY <1>9, <2>2 DEF RowsAgree
    <3>4. PICK k \in DOMAIN rows : rows[k] = row
      BY <3>3 DEF ToSet
    <3>5. later[k] = row
      BY <1>3, <3>1, <3>2, <3>4
    <3> QED BY <1>3, <3>5 DEF ToSet
  <2> QED BY <1>1, <2>1, <2>2
<1>10. ASSUME NEW k \in DOMAIN rows, later[k].asset \in T
       PROVE  \E r \in remain : ListedRow(r) = later[k]
  <2>1. rows[k].asset \in T /\ rows[k] \in ToSet(rows)
    BY <1>2, <1>4, <1>10
  <2>2. PICK s \in projected : ListedRow(s) = rows[k]
    BY <2>1 DEF RowsAgree
  <2> PICK row : row = rows[k]
    OBVIOUS
  <2>3. s.asset = row.asset /\ s.derived = row.derived /\ s.at = row.at
    BY <2>2, ListedFields
  <2>4. Follows(s) <=> row.asset \in moved /\ row.derived
    BY <1>7, <2>1, <2>3
  <2>5. CASE row.asset \in moved /\ row.derived
    <3> PICK path : path = after[s.asset]
      OBVIOUS
    <3>1. later[k] = Brought(row, path)
      BY <1>3, <2>3, <2>5
    <3>2. Brought(s, path) \in remain
      BY <1>1, <1>6, <2>4, <2>5
    <3>3. ListedRow(Brought(s, path)) = Brought(row, path)
      BY <1>2, <2>2, BroughtProjection
    <3> QED BY <3>1, <3>2, <3>3
  <2>6. CASE ~(row.asset \in moved /\ row.derived)
    <3>1. later[k] = row
      BY <1>3, <2>6
    <3>2. ~Over(s)
      <4> SUFFICES ASSUME NEW x \in there, x.asset = s.asset, x.at = s.at
                   PROVE  FALSE
        OBVIOUS
      <4>1. PICK y \in projected :
               /\ Follows(y) /\ x.asset = y.asset
               /\ x.at = RenderDeclaredSidecarPath(after[y.asset], y.language, y.at.ext[2])
        BY <1>5
      <4>2. y.asset \in T /\ y.asset = row.asset
        BY <2>1, <2>3, <4>1
      <4>3. y.asset \in moved /\ y.derived
        BY <1>7, <4>1, <4>2
      <4> PICK other : other = ListedRow(y)
        OBVIOUS
      <4>4. /\ other.asset = y.asset /\ other.derived = y.derived
            /\ other.language = y.language /\ other.at = y.at
        BY ListedFields
      <4>5. other \in ToSet(rows)
        BY <4>2 DEF RowsAgree
      <4>6. PICK j \in DOMAIN rows : rows[j] = other
        BY <4>5 DEF ToSet
      <4>7. j # k
        BY <2>6, <4>2, <4>3, <4>4, <4>6
      <4>8. later[j].at = x.at /\ later[j].asset = row.asset
        <5>1. /\ rows[j].asset = y.asset /\ rows[j].derived /\ rows[j].language = y.language
              /\ rows[j].at = y.at
          BY <4>3, <4>4, <4>6
        <5>2. /\ later[j].asset = rows[j].asset
              /\ later[j].at = RenderDeclaredSidecarPath(after[rows[j].asset], rows[j].language,
                                                        rows[j].at.ext[2])
          BY <1>4, <4>3, <5>1
        <5> QED BY <4>1, <4>2, <5>1, <5>2
      <4>9. later[k].at = x.at /\ later[k].asset = row.asset
        BY <2>3, <3>1
      <4>10. later[j].asset = later[k].asset /\ later[j].at = later[k].at
        BY <4>8, <4>9
      <4>11. j \in DOMAIN later /\ k \in DOMAIN later /\ later[j].asset \in T
        BY <1>3, <1>10, <4>10
      <4> HIDE DEF Over
      <4> QED BY <4>7, <4>10, <4>11 DEF RowsApart
    <3>3. s \in remain
      BY <1>1, <2>4, <2>6, <3>2
    <3> QED BY <2>2, <3>1, <3>3
  <2> QED BY <2>5, <2>6
<1>11. RowsAgree(remain, later, T)
  <2>1. \A row \in ToSet(later) : row.asset \in T => \E r \in remain : ListedRow(r) = row
    BY <1>3, <1>10 DEF ToSet
  <2> QED BY <1>9, <2>1 DEF RowsAgree, RowsApart
<1>12. RowsBeside(later, managed, after, T)
  <2> SUFFICES ASSUME NEW k \in DOMAIN rows, later[k].asset \in T, later[k].derived
               PROVE  /\ later[k].kind = "subtitle"
                      /\ later[k].asset \in managed =>
                            /\ HasExtension(after[later[k].asset])
                            /\ later[k].at = RenderDeclaredSidecarPath(after[later[k].asset],
                                                later[k].language, later[k].at.ext[2])
    BY <1>3 DEF RowsBeside, ToSet
  <2> PICK row : row = rows[k]
    OBVIOUS
  <2>1. row.asset \in S /\ row.derived /\ row \in ToSet(rows)
    BY <1>2, <1>4
  <2>2. /\ row.kind = "subtitle"
        /\ row.asset \in managed =>
              /\ HasExtension(before[row.asset])
              /\ row.at = RenderDeclaredSidecarPath(before[row.asset], row.language, row.at.ext[2])
    BY <2>1 DEF RowsBeside
  <2>3. /\ row.asset \notin moved => after[row.asset] = before[row.asset]
        /\ row.asset \in moved => HasExtension(after[row.asset])
    BY <2>1 DEF MovesOnly
  <2> QED BY <1>4, <2>1, <2>2, <2>3
<1> QED BY <1>8, <1>11, <1>12

(***************************************************************************)
(* Hierarchy events: the assets and their paths.                           *)
(***************************************************************************)
LEMMA AssetsListed ==
  ASSUME NEW L, LibraryOK(L), NEW ids
  PROVE  /\ AssetIdsForParents(L, ids) \in Seq(AssetIds(L))
         /\ ToSet(AssetIdsForParents(L, ids)) = AssetsUnder(L, ids)
<1> PICK order, X, list : /\ order = L.order /\ X = {a \in AssetIds(L) : L.assets[a].parent \in ids}
                          /\ list = Picked(order, X)
  OBVIOUS
<1>1. order \in Seq(AssetIds(L)) /\ Len(order) \in Nat /\ DOMAIN order = 1..Len(order)
  BY DEF LibraryOK
<1>2. X \subseteq ToSet(order)
  BY DEF LibraryOK, ToSet
<1>3. list \in Seq(ToSet(order) \cap X) /\ ToSet(list) = ToSet(order) \cap X
  BY <1>1, PickedElements
<1>4. ToSet(order) \cap X \subseteq AssetIds(L) /\ ToSet(order) \cap X = X
  BY <1>2
<1>5. list \in Seq(AssetIds(L))
  BY <1>3, <1>4
<1> QED BY <1>3, <1>4, <1>5 DEF AssetIdsForParents, AssetsUnder

\* The engine lists the assets of a group that the projection counts as its members.
LEMMA GroupListed ==
  ASSUME NEW L, LibraryOK(L), NEW p, NEW w, InStepNumbers(L, p, w), NEW g \in DOMAIN L.groups
  PROVE  /\ AssetIdsForGroup(L, w, g) \in Seq(AssetIds(L))
         /\ ToSet(AssetIdsForGroup(L, w, g)) = AssetsUnder(L, p.members[g])
<1>1. NumbersAgree(L, p.numbers, p.members, p.parents, w.groups, w.parents)
  BY DEF InStepNumbers
<1>2. w.parents = [q \in DOMAIN L.parents |-> w.parents[q]]
  BY <1>1 DEF NumbersAgree, TreeOK
<1>3. p.members = [h \in DOMAIN L.groups |-> {q \in DOMAIN L.parents : w.parents[q].group = h}]
  BY <1>1 DEF NumbersAgree
<1> PICK ids : ids = {q \in DOMAIN w.parents : w.parents[q].group = g}
  OBVIOUS
<1>4. p.members[g] = ids
  BY <1>2, <1>3
<1>5. AssetIdsForGroup(L, w, g) = AssetIdsForParents(L, ids)
  BY DEF AssetIdsForGroup
<1> QED BY <1>4, <1>5, AssetsListed

\* Both sides take the same assets for affected.
LEMMA AffectedAlike ==
  ASSUME NEW L, LibraryOK(L), NEW p, NEW w, InStepNumbers(L, p, w), NEW ev, MayCome(L, p, ev),
         ev.op \in HierarchyOps
  PROVE  /\ AffectedAssets(L, w, ev) \in Seq(AssetIds(L))
         /\ ToSet(AffectedAssets(L, w, ev)) = AffectedAssetIds(L, p, ev)
<1> PICK t, ids, affected : /\ t = ev.target /\ ids = AffectedAssets(L, w, ev)
                            /\ affected = AffectedAssetIds(L, p, ev)
  OBVIOUS
<1>1. TargetsKnown(L, ev)
  BY DEF MayCome, Accepts
<1>2. CASE ev.op \in {"rename_season", "renumber_disc"}
  <2>1. t \in DOMAIN L.groups
    BY <1>1, <1>2 DEF TargetsKnown, ClosingOps, ParentOps, RevisingOps
  <2>2. ids = AssetIdsForGroup(L, w, t) /\ affected = AssetsUnder(L, p.members[t])
    BY <1>2 DEF AffectedAssets, AffectedAssetIds
  <2> QED BY <2>1, <2>2, GroupListed
<1>3. CASE ev.op = "swap_disc_numbers"
  <2> PICK o : o = ev.other
    OBVIOUS
  <2>1. t \in DOMAIN L.groups /\ o \in DOMAIN L.groups
    BY <1>1, <1>3 DEF TargetsKnown, ClosingOps, ParentOps, RevisingOps
  <2> PICK left, right : left = AssetIdsForGroup(L, w, t) /\ right = AssetIdsForGroup(L, w, o)
    OBVIOUS
  <2>2. ids = left \o right /\ affected = AssetsUnder(L, p.members[t] \cup p.members[o])
    BY <1>3 DEF AffectedAssets, AffectedAssetIds
  <2>3. left \in Seq(AssetIds(L)) /\ ToSet(left) = AssetsUnder(L, p.members[t])
    BY <2>1, GroupListed
  <2>4. right \in Seq(AssetIds(L)) /\ ToSet(right) = AssetsUnder(L, p.members[o])
    BY <2>1, GroupListed
  <2>5. left \o right \in Seq(AssetIds(L)) /\ ToSet(left \o right) = ToSet(left) \cup ToSet(right)
    <3>1. left \in Seq(AssetIds(L)) /\ right \in Seq(AssetIds(L))
      BY <2>3, <2>4
    <3> QED BY ONLY <3>1, JoinedElements
  <2>6. AssetsUnder(L, p.members[t] \cup p.members[o])
          = AssetsUnder(L, p.members[t]) \cup AssetsUnder(L, p.members[o])
    BY DEF AssetsUnder
  <2> QED BY <2>2, <2>3, <2>4, <2>5, <2>6
<1>4. CASE ev.op \in {"swap_episode_numbers", "swap_track_numbers"}
  <2> PICK o : o = ev.other
    OBVIOUS
  <2> PICK left, right : left = AssetIdsForParents(L, {t}) /\ right = AssetIdsForParents(L, {o})
    OBVIOUS
  <2>2. ids = left \o right /\ affected = AssetsUnder(L, {t, o})
    BY <1>4 DEF AffectedAssets, AffectedAssetIds
  <2>3. left \in Seq(AssetIds(L)) /\ ToSet(left) = AssetsUnder(L, {t})
    BY AssetsListed
  <2>4. right \in Seq(AssetIds(L)) /\ ToSet(right) = AssetsUnder(L, {o})
    BY AssetsListed
  <2>5. left \o right \in Seq(AssetIds(L)) /\ ToSet(left \o right) = ToSet(left) \cup ToSet(right)
    <3>1. left \in Seq(AssetIds(L)) /\ right \in Seq(AssetIds(L))
      BY <2>3, <2>4
    <3> QED BY ONLY <3>1, JoinedElements
  <2>6. AssetsUnder(L, {t, o}) = AssetsUnder(L, {t}) \cup AssetsUnder(L, {o})
    BY DEF AssetsUnder
  <2> QED BY <2>2, <2>3, <2>4, <2>5, <2>6
<1>5. CASE ev.op \in RevisingOps
  <2>1. ids = AssetIdsForParents(L, {t})
    BY <1>5 DEF AffectedAssets, RevisingOps
  <2>2. affected = AssetsUnder(L, {t})
    BY <1>5 DEF AffectedAssetIds, RevisingOps
  <2> QED BY <2>1, <2>2, AssetsListed
<1> QED BY <1>2, <1>3, <1>4, <1>5 DEF HierarchyOps, SwapOps, RevisingOps

\* Where the engine puts the affected assets.
NewPaths(L, w, v, ids) ==
    [a \in AssetIds(L) |-> IF a \in CapturedAssets(w, ids) THEN RenderPathForAsset(L, v, a)
                           ELSE w.paths[a]]

ChangedPaths(L, w, to) == {a \in AssetIds(L) : to[a] # w.paths[a]}

\* What a hierarchy event comes to, for the assets it affects and the coordinates it leaves.
MovesOf(w, to, moved) ==
    [k \in DOMAIN moved |->
        [asset |-> moved[k], from |-> w.paths[moved[k]], to |-> to[moved[k]]]]

MovedOutcome(w, n, ev, ids, after, to, moved) ==
    Outcome([after EXCEPT !.paths = to, !.sidecars = Taken(after.sidecars, ToSet(moved), to)],
            [Entry(n, ev, ids) EXCEPT !.locations = [k \in DOMAIN moved |-> w.location[moved[k]]],
                                      !.moves     = MovesOf(w, to, moved)])

IsMoving(outcome, w, after, to, moved) ==
    /\ outcome.raised = "no"
    /\ outcome.world = [after EXCEPT !.paths = to,
                                     !.sidecars = Taken(after.sidecars, ToSet(moved), to)]
    /\ outcome.entry.moves = MovesOf(w, to, moved)

\* A hierarchy event by its parts: who is affected, where to, who moves.
LEMMA HierarchyIsMoved ==
  ASSUME NEW L, NEW w, NEW n, NEW ev
  PROVE  HierarchyEvent(L, w, n, ev)
           = MovedOutcome(w, n, ev, AffectedAssets(L, w, ev), Coordinates(w, ev),
                NewPaths(L, w, Coordinates(w, ev), AffectedAssets(L, w, ev)),
                Picked(AffectedAssets(L, w, ev),
                       ChangedPaths(L, w, NewPaths(L, w, Coordinates(w, ev),
                                                   AffectedAssets(L, w, ev)))))
  BY Zenon DEF HierarchyEvent, MovedOutcome, ChangedPaths, NewPaths, Taken, Brought, MovesOf

\* The same for parts that have names.
LEMMA HierarchyPlanned ==
  ASSUME NEW L, NEW w, NEW n, NEW ev, NEW ids, ids = AffectedAssets(L, w, ev),
         NEW after, after = Coordinates(w, ev), NEW to, to = NewPaths(L, w, after, ids),
         NEW moved, moved = Picked(ids, ChangedPaths(L, w, to)),
         NEW outcome, outcome = HierarchyEvent(L, w, n, ev)
  PROVE  IsMoving(outcome, w, after, to, moved)
<1> DEFINE locations == [k \in DOMAIN moved |-> w.location[moved[k]]]
           world1 == [after EXCEPT !.paths = to, !.sidecars = Taken(after.sidecars, ToSet(moved), to)]
           entry == [Entry(n, ev, ids) EXCEPT !.locations = locations, !.moves = MovesOf(w, to, moved)]
<1>1. outcome = MovedOutcome(w, n, ev, ids, after, to, moved)
  BY HierarchyIsMoved
<1>2. outcome = Outcome(world1, entry)
  BY <1>1 DEF MovedOutcome
<1> HIDE DEF world1, locations
<1>3. entry.moves = MovesOf(w, to, moved)
  BY DEF Entry
<1> HIDE DEF entry
<1>4. outcome.world = world1 /\ outcome.raised = "no" /\ outcome.entry = entry
  BY <1>2 DEF Outcome
<1> QED BY <1>3, <1>4 DEF world1, IsMoving

\* The engine and the projection render the same paths.
LEMMA PathsFollow ==
  ASSUME NEW L, LibraryOK(L), NEW p, NEW w, NEW n, NEW U, InStep(L, p, w, n, U), NEW q, NEW v,
         Renumbered(L, p, w, q, v), NEW ids \in Seq(AssetIds(L)), NEW affected,
         ToSet(ids) = affected, NEW to, to = NewPaths(L, w, v, ids)
  PROVE  /\ RefreshedPaths(L, q, affected) = to
         /\ FilesOK(L, to, w.location, w.nextLocation, w.managed)
         /\ \A a \in AssetIds(L) :
               to[a] # w.paths[a] => a \in affected /\ a \in w.managed /\ HasExtension(to[a])
<1>1. /\ FilesOK(L, w.paths, w.location, w.nextLocation, w.managed)
      /\ p.paths = w.paths /\ p.managed = w.managed
  BY DEF InStep
<1>2. /\ q.paths = w.paths /\ q.managed = w.managed /\ v.paths = w.paths
      /\ NumbersAgree(L, q.numbers, q.members, q.parents, v.groups, v.parents)
  BY <1>1 DEF Renumbered, OnlyNumbers
<1> PICK numbers, members, parents, groups, actual :
         /\ numbers = q.numbers /\ members = q.members /\ parents = q.parents
         /\ groups = v.groups /\ actual = v.parents
  OBVIOUS
<1>3. NumbersAgree(L, numbers, members, parents, groups, actual)
  BY <1>2
<1>4. \A a \in AssetIds(L) : a \in CapturedAssets(w, ids) <=> a \in affected /\ a \in w.managed
  BY <1>1 DEF CapturedAssets, HasLocation, FilesOK
<1>5. \A a \in AssetIds(L) : a \in w.managed => w.paths[a] # Nowhere /\ IsFilePath(w.paths[a])
  BY <1>1 DEF FilesOK, IsFilePath
<1>6. ASSUME NEW a \in AssetIds(L)
      PROVE  /\ ProjectedRender(L, q, a) = RenderPathForAsset(L, v, a)
             /\ IsFilePath(RenderPathForAsset(L, v, a)) /\ HasExtension(RenderPathForAsset(L, v, a))
  <2> PICK root : root = RenderRoot(L, w.paths[a])
    OBVIOUS
  <2>1. /\ RenderAssetPath(L, [g \in DOMAIN numbers |-> [number |-> numbers[g]]], parents, root, a)
             = RenderAssetPath(L, groups, actual, root, a)
        /\ IsFilePath(RenderAssetPath(L, groups, actual, root, a))
        /\ HasExtension(RenderAssetPath(L, groups, actual, root, a))
    BY <1>3, RendersAlike
  <2>2. RenderPathForAsset(L, v, a) = RenderAssetPath(L, groups, actual, root, a)
    BY <1>2 DEF RenderPathForAsset
  <2>3. ProjectedRender(L, q, a)
          = RenderAssetPath(L, [g \in DOMAIN numbers |-> [number |-> numbers[g]]], parents, root, a)
    BY <1>2 DEF ProjectedRender
  <2> QED BY <2>1, <2>2, <2>3
<1>7. \A a \in AssetIds(L) :
         (IF a \in affected /\ a \in q.managed /\ q.paths[a] # Nowhere
          THEN ProjectedRender(L, q, a) ELSE q.paths[a])
           = (IF a \in CapturedAssets(w, ids) THEN RenderPathForAsset(L, v, a) ELSE w.paths[a])
  BY <1>2, <1>4, <1>5, <1>6
<1>8. RefreshedPaths(L, q, affected) = to
  BY <1>7 DEF RefreshedPaths, NewPaths
<1>9. /\ to = [a \in AssetIds(L) |-> to[a]]
      /\ \A a \in AssetIds(L) : to[a] = IF a \in CapturedAssets(w, ids)
                                        THEN RenderPathForAsset(L, v, a) ELSE w.paths[a]
  BY DEF NewPaths
<1>10. FilesOK(L, to, w.location, w.nextLocation, w.managed)
  <2>1. \A a \in AssetIds(L) :
           IF w.location[a] = 0 THEN to[a] = Nowhere ELSE IsFilePath(to[a])
    <3> TAKE a \in AssetIds(L)
    <3>1. IF w.location[a] = 0 THEN w.paths[a] = Nowhere ELSE IsFilePath(w.paths[a])
      BY <1>1 DEF FilesOK
    <3>2. a \in w.managed => w.location[a] # 0
      BY <1>1 DEF FilesOK
    <3> QED BY <1>4, <1>6, <1>9, <3>1, <3>2
  <2> QED BY <1>1, <1>9, <2>1 DEF FilesOK
<1>11. \A a \in AssetIds(L) :
          to[a] # w.paths[a] => a \in affected /\ a \in w.managed /\ HasExtension(to[a])
  BY <1>4, <1>6, <1>9
<1> QED BY <1>8, <1>10, <1>11

\* No file lands on one that another asset has.
NoneCollides(L, outcome) ==
    \A m \in ToSet(outcome.entry.moves), b \in AssetIds(L) :
        b # m.asset => outcome.world.paths[b] # m.to

\* The projection of a hierarchy event.
LEMMA HierarchyIsProjected ==
  ASSUME NEW L, NEW p, NEW n, NEW ev, ev.op \in HierarchyOps
  PROVE  Project(L, p, n, ev) = ProjectHierarchy(L, p, ev)
  BY DEF Project, HierarchyOps, SwapOps, SidecarOps

\* The projection of mark_episode_stale.
LEMMA StaleIsProjected ==
  ASSUME NEW L, NEW p, NEW n, NEW ev, ev.op = "mark_episode_stale"
  PROVE  Project(L, p, n, ev) = [p EXCEPT !.staled = p.staled \cup {ev.target}]
  BY DEF Project, HierarchyOps, SwapOps, SidecarOps

\* Every hierarchy event keeps the walks in step, and none of its moves lands on another file.
LEMMA HierarchyTogether ==
  ASSUME NEW L, LibraryOK(L), NEW p, NEW w, NEW n \in Nat, NEW U, InStep(L, p, w, n, U), NEW ev,
         MayCome(L, p, ev), ev.op \in HierarchyOps
  PROVE  /\ Together(L, p, w, n, U, ev, ApplyEvent(L, w, n + 1, ev))
         /\ NoneCollides(L, ApplyEvent(L, w, n + 1, ev))
<1> PICK q0, v0, ids, affected, outcome, q, v :
         /\ q0 = ProjectNumbers(L, p, ev) /\ v0 = Coordinates(w, ev)
         /\ ids = AffectedAssets(L, w, ev) /\ affected = AffectedAssetIds(L, p, ev)
         /\ outcome = ApplyEvent(L, w, n + 1, ev) /\ v = outcome.world
         /\ q = Project(L, p, n + 1, ev)
  OBVIOUS
<1> PICK to : to = NewPaths(L, w, v0, ids)
  OBVIOUS
<1> PICK moved : moved = Picked(ids, ChangedPaths(L, w, to))
  OBVIOUS
<1> PICK M, S, V : M = ToSet(moved) /\ S = AssetIds(L) \ U /\ V = U \cup Doubled(v)
  OBVIOUS
<1>1. InStepNumbers(L, p, w) /\ IsProjection(p) /\ IsWorld(w) /\ p.paths = w.paths
      /\ p.managed = w.managed
  BY DEF InStep, InStepNumbers
<1>2. Renumbered(L, p, w, q0, v0)
  BY <1>1, HierarchyRenumbers
<1>3. ids \in Seq(AssetIds(L)) /\ ToSet(ids) = affected
  BY <1>1, AffectedAlike
<1>4. /\ RefreshedPaths(L, q0, affected) = to
      /\ FilesOK(L, to, w.location, w.nextLocation, w.managed)
      /\ \A a \in AssetIds(L) :
            to[a] # w.paths[a] => a \in affected /\ a \in w.managed /\ HasExtension(to[a])
  BY <1>2, <1>3, PathsFollow
<1>5. outcome = HierarchyEvent(L, w, n + 1, ev)
  <2>1. ~NeedsLocation(ev)
    BY DEF NeedsLocation
  <2> QED BY <2>1, Planned
<1>6. /\ outcome.raised = "no"
      /\ v = [v0 EXCEPT !.paths = to, !.sidecars = Taken(v0.sidecars, M, to)]
      /\ outcome.entry.moves = MovesOf(w, to, moved)
  <2> PICK m : m = n + 1
    OBVIOUS
  <2>1. outcome = HierarchyEvent(L, w, m, ev)
    BY <1>5
  <2>2. IsMoving(outcome, w, v0, to, moved)
    BY ONLY <2>1, ids = AffectedAssets(L, w, ev), v0 = Coordinates(w, ev),
            to = NewPaths(L, w, v0, ids),
            moved = Picked(ids, ChangedPaths(L, w, to)), HierarchyPlanned
  <2> QED BY <2>2 DEF IsMoving
<1>7. q = [q0 EXCEPT !.paths = to, !.sidecars = MovedSidecars(q0.sidecars, w.paths, to)]
  <2>1. q = ProjectHierarchy(L, p, ev)
    BY HierarchyIsProjected
  <2>2. ProjectHierarchy(L, p, ev)
          = [q0 EXCEPT !.paths = RefreshedPaths(L, q0, affected),
                       !.sidecars = MovedSidecars(q0.sidecars, p.paths,
                                                  RefreshedPaths(L, q0, affected))]
    BY Zenon DEF ProjectHierarchy
  <2> QED BY <1>1, <1>4, <2>1, <2>2
<1> PICK remain, later : remain = MovedSidecars(p.sidecars, w.paths, to)
                         /\ later = Taken(w.sidecars, M, to)
  OBVIOUS
<1>8. q = [q0 EXCEPT !.paths = to, !.sidecars = remain] /\ v = [v0 EXCEPT !.paths = to, !.sidecars = later]
  BY <1>2, <1>6, <1>7 DEF Renumbered, OnlyNumbers
<1>9. /\ IsProjection(q) /\ q.paths = to /\ q.sidecars = remain
      /\ q.numbers = q0.numbers /\ q.members = q0.members /\ q.parents = q0.parents
      /\ q.managed = p.managed /\ q.placed = p.placed /\ q.pending = p.pending
      /\ q.copying = p.copying
  <2>1. /\ IsProjection(q0) /\ q0.managed = p.managed /\ q0.placed = p.placed
        /\ q0.pending = p.pending /\ q0.copying = p.copying
    BY <1>2 DEF Renumbered, OnlyNumbers
  <2>2. q = [q0 EXCEPT !.paths = to, !.sidecars = remain]
    BY <1>8
  <2> QED BY ONLY <2>1, <2>2 DEF IsProjection
<1>10. /\ IsWorld(v) /\ v.paths = to /\ v.sidecars = later
       /\ v.groups = v0.groups /\ v.parents = v0.parents
       /\ v.versions = w.versions /\ v.nextVersion = w.nextVersion /\ v.location = w.location
       /\ v.nextLocation = w.nextLocation /\ v.pending = w.pending /\ v.managed = w.managed
  <2>1. /\ IsWorld(v0) /\ v0.versions = w.versions /\ v0.nextVersion = w.nextVersion
        /\ v0.location = w.location /\ v0.nextLocation = w.nextLocation
        /\ v0.pending = w.pending /\ v0.managed = w.managed
    BY <1>2 DEF Renumbered, OnlyNumbers
  <2>2. v = [v0 EXCEPT !.paths = to, !.sidecars = later]
    BY <1>8
  <2> QED BY ONLY <2>1, <2>2 DEF IsWorld
<1>11. M = {a \in AssetIds(L) : to[a] # w.paths[a]}
  <2> PICK X : X = ChangedPaths(L, w, to)
    OBVIOUS
  <2>0. X = {a \in AssetIds(L) : to[a] # w.paths[a]}
    BY DEF ChangedPaths
  <2>1. Len(ids) \in Nat /\ DOMAIN ids = 1..Len(ids)
    BY <1>3
  <2>2. ToSet(Picked(ids, X)) = ToSet(ids) \cap X
    BY <2>1, PickedElements
  <2>3. X \subseteq ToSet(ids)
    BY <1>3, <1>4, <2>0
  <2> QED BY <2>0, <2>2, <2>3
<1>12. \A a \in M : /\ a \in AssetIds(L) /\ a \in affected /\ a \in w.managed
                    /\ IsFilePath(to[a]) /\ HasExtension(to[a])
  <2> TAKE a \in M
  <2>1. a \in AssetIds(L) /\ a \in affected /\ a \in w.managed /\ HasExtension(to[a])
    BY <1>4, <1>11
  <2> QED BY <1>4, <2>1 DEF FilesOK
<1>13. MovesOnly(M, w.managed, w.paths, to, S)
  BY <1>11, <1>12 DEF MovesOnly
<1>14. v.paths = [a \in AssetIds(L) |-> v.paths[a]]
  BY <1>4, <1>10 DEF FilesOK
<1>15. SidecarsInStep(q, v, AssetIds(L) \ V)
  <2> PICK projected, rows, managed, before, T :
           /\ projected = p.sidecars /\ rows = w.sidecars /\ managed = w.managed
           /\ before = w.paths /\ T = AssetIds(L) \ V
    OBVIOUS
  <2>1. RowsOK(projected, rows) /\ RowsAgree(projected, rows, S)
        /\ RowsBeside(rows, managed, before, S)
    BY DEF InStep, SidecarsInStep
  <2>2. T \subseteq S
    OBVIOUS
  <2>3. RowsApart(later, T)
    <3> SUFFICES ASSUME NEW j \in DOMAIN later, NEW k \in DOMAIN later, j # k,
                        later[j].asset \in T, later[j].asset = later[k].asset,
                        later[j].at = later[k].at
                 PROVE  FALSE
      BY DEF RowsApart
    <3> PICK a, x : a = later[j].asset /\ x = v
      OBVIOUS
    <3>1. a \in DOMAIN x.paths /\ a \notin Doubled(x) /\ x.sidecars = later
      BY <1>10, <1>14
    <3> QED BY ONLY <3>1, j \in DOMAIN later, k \in DOMAIN later, j # k, a = later[j].asset,
                    later[j].asset = later[k].asset, later[j].at = later[k].at DEF Doubled
  <2>4. MovesOnly(M, managed, before, to, S)
    BY <1>13
  <2>5. later = Taken(rows, M, to) /\ remain = MovedSidecars(projected, before, to)
    OBVIOUS
  <2>6. RowsOK(remain, later) /\ RowsAgree(remain, later, T) /\ RowsBeside(later, managed, to, T)
    BY ONLY <2>1, <2>2, <2>3, <2>4, <2>5, SidecarsFollow
  <2> QED BY <1>9, <1>10, <2>6 DEF SidecarsInStep
<1>16. CopiesAgree(q.pending, q.copying, v.pending, v.location, q.placed, n + 1)
  <2>1. CopiesAgree(p.pending, p.copying, w.pending, w.location, p.placed, n)
    BY DEF InStep
  <2>2. CopiesAgree(p.pending, p.copying, w.pending, w.location, p.placed, n + 1)
    BY <2>1, LaterCopies
  <2> QED BY <1>9, <1>10, <2>2
<1>17. V \subseteq AssetIds(L)
  <2>1. U \subseteq AssetIds(L)
    BY DEF InStep
  <2> QED BY <1>14, <2>1, DoubledAreAssets
<1>18. InStep(L, q, v, n + 1, V)
  <2>1. NumbersAgree(L, q.numbers, q.members, q.parents, v.groups, v.parents)
    BY <1>2, <1>9, <1>10 DEF Renumbered
  <2>2. FilesOK(L, v.paths, v.location, v.nextLocation, v.managed)
    BY <1>4, <1>10
  <2>3. /\ q.paths = v.paths /\ q.managed = v.managed
        /\ q.placed = {a \in AssetIds(L) : v.location[a] # 0}
        /\ VersionsOK(L, v.versions, v.nextVersion)
    BY <1>1, <1>9, <1>10 DEF InStep
  <2> QED BY <1>9, <1>10, <1>15, <1>16, <1>17, <2>1, <2>2, <2>3 DEF InStep
<1>19. Together(L, p, w, n, U, ev, outcome)
  <2>1. ev.op \notin Relocations
    BY DEF Relocations, HierarchyOps, SwapOps
  <2>2. Unsettling(w, ev, outcome) = Doubled(v)
    BY <2>1 DEF Unsettling
  <2> QED BY <1>6, <1>18, <2>2 DEF Together
<1>20. NoneCollides(L, outcome)
  <2> PICK after : after = ProjectHierarchy(L, p, ev)
    OBVIOUS
  <2>1. PathsStayDistinct(after, affected)
    BY DEF MayCome, Accepts, HierarchyAllows
  <2>2. after.paths = to
    BY <1>9, HierarchyIsProjected
  <2> SUFFICES ASSUME NEW m \in ToSet(MovesOf(w, to, moved)), NEW b \in AssetIds(L), b # m.asset
               PROVE  to[b] # m.to
    BY <1>6, <1>10 DEF NoneCollides
  <2>3. PICK k \in DOMAIN moved : m = [asset |-> moved[k], from |-> w.paths[moved[k]], to |-> to[moved[k]]]
    BY DEF ToSet, MovesOf
  <2> PICK a : a = moved[k]
    OBVIOUS
  <2>4. m.asset = a /\ m.to = to[a]
    BY <2>3
  <2>5. a \in M
    BY DEF ToSet
  <2>6. a \in affected /\ to[a] # Nowhere
    BY <1>12, <2>5 DEF IsFilePath
  <2>7. b \in DOMAIN to
    BY <1>10, <1>14
  <2> QED BY <2>1, <2>2, <2>4, <2>6, <2>7 DEF PathsStayDistinct
<1> QED BY <1>19, <1>20

(***************************************************************************)
(* An episode goes stale.                                                  *)
(***************************************************************************)
LEMMA StaleTogether ==
  ASSUME NEW L, LibraryOK(L), NEW p, NEW w, NEW n \in Nat, NEW U, InStep(L, p, w, n, U), NEW ev,
         MayCome(L, p, ev), ev.op = "mark_episode_stale"
  PROVE  \/ Together(L, p, w, n, U, ev, ApplyEvent(L, w, n + 1, ev))
         \/ Raises(L, p, w, n, U, ev, ApplyEvent(L, w, n + 1, ev))
<1> PICK t, outcome, q, v, ids : /\ t = ev.target /\ outcome = ApplyEvent(L, w, n + 1, ev)
                                 /\ q = Project(L, p, n + 1, ev) /\ v = outcome.world
                                 /\ ids = AssetIdsForParents(L, {ev.target})
  OBVIOUS
<1>1. IsProjection(p) /\ IsWorld(w)
      /\ NumbersAgree(L, p.numbers, p.members, p.parents, w.groups, w.parents)
  BY DEF InStep
<1>2. L.kind = "podcast_episode" /\ t \in DOMAIN L.parents
  <2>1. TargetsKnown(L, ev)
    BY DEF MayCome, Accepts
  <2>2. L.kind = ParentKindOf(ev.op) /\ t \in DOMAIN L.parents
    BY <2>1 DEF TargetsKnown, ClosingOps, ParentOps, RevisingOps
  <2> QED BY <2>2 DEF ParentKindOf
<1>3. outcome = MarkEpisodeStale(L, w, n + 1, ev)
  <2>1. ~NeedsLocation(ev)
    BY DEF NeedsLocation
  <2> QED BY <2>1, Planned
<1>4. q = [p EXCEPT !.staled = p.staled \cup {t}]
  <2> PICK m : m = n + 1
    OBVIOUS
  <2>1. Project(L, p, m, ev) = [p EXCEPT !.staled = p.staled \cup {ev.target}]
    BY StaleIsProjected
  <2> QED BY <2>1
<1>5. /\ IsProjection(q) /\ q.numbers = p.numbers /\ q.members = p.members /\ q.parents = p.parents
      /\ q.paths = p.paths /\ q.managed = p.managed /\ q.pending = p.pending
      /\ q.placed = p.placed /\ q.copying = p.copying /\ q.sidecars = p.sidecars
  BY <1>1, <1>4 DEF IsProjection
<1>6. CASE \E a \in ToSet(ids) : ~HasLocation(w, a)
  <2>1. outcome = Raised(w, n + 1, ev, "half_deleted")
    BY <1>3, <1>6 DEF MarkEpisodeStale
  <2>2. outcome.world = w /\ outcome.raised = "half_deleted"
    BY <2>1 DEF Raised
  <2>3. Listed(q.sidecars, w.sidecars, AssetIds(L) \ U)
    BY <1>5 DEF InStep, SidecarsInStep, RowsAgree, Listed
  <2> QED BY <1>2, <1>5, <2>2, <2>3 DEF Raises
<1>7. CASE \A a \in ToSet(ids) : HasLocation(w, a)
  <2> PICK world1, entry : /\ world1 = [w EXCEPT !.parents[t].stale = TRUE]
                           /\ entry = [Entry(n + 1, ev, ids) EXCEPT !.locations =
                                         [k \in DOMAIN ids |-> w.location[ids[k]]]]
    OBVIOUS
  <2>1. outcome = Outcome(world1, entry)
    BY <1>3, <1>7 DEF MarkEpisodeStale
  <2>2. v = world1 /\ outcome.raised = "no"
    BY <2>1 DEF Outcome
  <2> PICK s0, s, r0 : s0 = w.parents[t] /\ s = [s0 EXCEPT !.stale = TRUE] /\ r0 = p.parents[t]
    OBVIOUS
  <2>3. IsParent(L, r0) /\ IsParent(L, s0) /\ SameParent(r0, s0)
    BY <1>1, <1>2 DEF NumbersAgree, TreeOK
  <2>4. IsParent(L, r0) /\ IsParent(L, s) /\ SameParent(r0, s) /\ s.group = w.parents[t].group
    BY <2>3 DEF IsParent, SameParent
  <2>5. v = [w EXCEPT !.parents[t] = s]
    BY <2>2
  <2>6. /\ IsWorld(v) /\ v.groups = w.groups /\ v.parents = [w.parents EXCEPT ![t] = s]
        /\ v.versions = w.versions /\ v.nextVersion = w.nextVersion /\ v.location = w.location
        /\ v.nextLocation = w.nextLocation /\ v.paths = w.paths /\ v.pending = w.pending
        /\ v.sidecars = w.sidecars /\ v.managed = w.managed
    BY <1>1, <2>5 DEF IsWorld
  <2>7. NumbersAgree(L, q.numbers, q.members, q.parents, v.groups, v.parents)
    <3> PICK numbers, members, parents, groups, actual :
             /\ numbers = p.numbers /\ members = p.members /\ parents = p.parents
             /\ groups = w.groups /\ actual = w.parents
      OBVIOUS
    <3>1. NumbersAgree(L, numbers, members, parents, groups, actual) /\ s.group = actual[t].group
      BY <1>1, <2>4
    <3>2. NumbersAgree(L, numbers, members, [parents EXCEPT ![t] = r0], groups, [actual EXCEPT ![t] = s])
      BY ONLY <1>2, <2>4, <3>1, ParentChanges
    <3>3. [parents EXCEPT ![t] = r0] = parents
      BY <1>1 DEF NumbersAgree
    <3> QED BY <1>5, <2>6, <3>2, <3>3
  <2>8. InStep(L, q, v, n, U)
    <3>1. FilesKept(L, p, w, q, v, U)
      BY <1>5, <2>6, <2>7 DEF FilesKept, InStep, SidecarsInStep
    <3> QED BY <3>1, FilesStay
  <2>9. Unsettling(w, ev, outcome) = Doubled(w)
    BY <2>2, <2>6 DEF Unsettling, Relocations, Doubled
  <2>10. U \cup Doubled(w) \subseteq AssetIds(L) /\ U \subseteq U \cup Doubled(w)
    BY DoubledAreAssets DEF InStep, FilesOK
  <2>11. InStep(L, q, v, n + 1, U \cup Doubled(w))
    BY <2>8, <2>10, LaterInStep
  <2> QED BY <2>2, <2>9, <2>11 DEF Together
<1> QED BY <1>6, <1>7

(***************************************************************************)
(* The start: the declared tree and the declared subtitles.                *)
(***************************************************************************)
Unreplaced(subtitles) == {s \in DOMAIN subtitles : ~IsReplaced(subtitles, s)}

OwnRows(L, a) ==
    FlattenSeq([s \in DOMAIN L.assets[a].subtitles |->
        IF IsReplaced(L.assets[a].subtitles, s) THEN <<>>
        ELSE <<DeclaredRow(L, a, L.assets[a].subtitles[s])>>])

\* R relates rows of one asset on one path.
IsPlacing(R) == \A x, y : <<x, y>> \in R => x.asset = y.asset /\ x.at = y.at

HasDeclaredPath(L, a) == IsFilePath(InitialPaths(L)[a]) /\ HasExtension(InitialPaths(L)[a])

\* A row as the declaration of a subtitle makes it.
IsDeclaredRow(L, a, subtitle, row) ==
    /\ row.asset = a /\ row.kind = "subtitle" /\ row.language = subtitle.language
    /\ row.derived = TRUE /\ IsRow(row)
    /\ row.at = RenderDeclaredSidecarPath(InitialPaths(L)[a], subtitle.language, subtitle.codec)
    /\ row.at.ext[1] = subtitle.language /\ row.at.ext[2] = subtitle.codec

\* The fields of a declared row.
LEMMA DeclaredFields ==
  ASSUME NEW L, NEW a, HasDeclaredPath(L, a), NEW subtitle
  PROVE  IsDeclaredRow(L, a, subtitle, DeclaredRow(L, a, subtitle))
<1> PICK row, media, at, language, codec :
         /\ row = DeclaredRow(L, a, subtitle)
         /\ media = InitialPaths(L)[a] /\ language = subtitle.language /\ codec = subtitle.codec
         /\ at = RenderDeclaredSidecarPath(InitialPaths(L)[a], subtitle.language, subtitle.codec)
  OBVIOUS
<1>1. at = [media EXCEPT !.ext = <<language, codec>>]
  BY DEF RenderDeclaredSidecarPath
<1>2. at.ext = <<language, codec>>
  BY <1>1 DEF IsFilePath, HasDeclaredPath
<1>3. row = [asset |-> a, kind |-> "subtitle", language |-> language, at |-> at, derived |-> TRUE]
  BY DEF DeclaredRow, SidecarRow
<1>4. IsDeclaredRow(L, a, subtitle, row)
  BY <1>2, <1>3 DEF IsRow, SidecarRow, IsDeclaredRow
<1> QED BY <1>4

\* The engine lists one row for each language that an asset declares.
LEMMA OwnRowsListed ==
  ASSUME NEW L, NEW a, HasDeclaredPath(L, a),
         L.assets[a].subtitles \in Seq(ToSet(L.assets[a].subtitles)), NEW R, IsPlacing(R)
  PROVE  /\ OwnRows(L, a) \in Seq(ToSet(OwnRows(L, a)))
         /\ ToSet(OwnRows(L, a)) = {DeclaredRow(L, a, L.assets[a].subtitles[s])
                                      : s \in Unreplaced(L.assets[a].subtitles)}
         /\ Unrelated(OwnRows(L, a), R)
<1> PICK subs, kept : subs = L.assets[a].subtitles /\ kept = Unreplaced(subs)
  OBVIOUS
<1> PICK row : row = [s \in DOMAIN subs |-> DeclaredRow(L, a, subs[s])]
  OBVIOUS
<1> PICK q : q = [s \in DOMAIN subs |-> IF s \in kept THEN <<row[s]>> ELSE <<>>]
  OBVIOUS
<1> DEFINE S == {row[s] : s \in DOMAIN subs}
<1>1. DOMAIN subs = 1..Len(subs) /\ Len(subs) \in Nat
  OBVIOUS
<1>a. q = [s \in DOMAIN subs |-> IF s \in kept THEN <<row[s]>> ELSE <<>>]
  OBVIOUS
<1>b. kept \subseteq DOMAIN subs
  BY DEF Unreplaced
<1>2. /\ DOMAIN q = 1..Len(subs) /\ Len(q) = Len(subs) /\ (Len(q) = 0 => q = <<>>)
      /\ \A s \in DOMAIN q : q[s] = IF s \in kept THEN <<row[s]>> ELSE <<>>
  BY ONLY <1>1, <1>a
<1>3. \A s \in DOMAIN q : q[s] \in Seq(S)
  <2> TAKE s \in DOMAIN q
  <2>1. row[s] \in S
    BY ONLY <1>1, <1>2, s \in DOMAIN q
  <2> HIDE DEF S
  <2>2. <<row[s]>> \in Seq(S) /\ <<>> \in Seq(S)
    BY ONLY <2>1
  <2> QED BY ONLY <1>2, <2>2, s \in DOMAIN q
<1>4. \A s \in DOMAIN q : /\ ToSet(q[s]) = IF s \in kept THEN {row[s]} ELSE {}
                          /\ \A i, j \in DOMAIN q[s] : i = j
  <2> TAKE s \in DOMAIN q
  <2>1. CASE s \in kept
    <3>1. DOMAIN q[s] = {1} /\ q[s][1] = row[s]
      BY ONLY <1>2, <2>1, s \in DOMAIN q
    <3> QED BY ONLY <2>1, <3>1 DEF ToSet
  <2>2. CASE s \notin kept
    <3>1. DOMAIN q[s] = {}
      BY ONLY <1>2, <2>2, s \in DOMAIN q
    <3> QED BY ONLY <2>2, <3>1 DEF ToSet
  <2> QED BY ONLY <2>1, <2>2
<1>5. \A i, j \in kept : i # j => subs[i].language # subs[j].language
  <2>1. kept = Unreplaced(subs)
    OBVIOUS
  <2> QED BY ONLY <1>1, <2>1 DEF Unreplaced, IsReplaced
<1>6. ASSUME NEW s \in DOMAIN subs PROVE row[s].at.ext[1] = subs[s].language
  <2> PICK made, subtitle : made = row[s] /\ subtitle = subs[s]
    OBVIOUS
  <2>1. made = DeclaredRow(L, a, subtitle)
    OBVIOUS
  <2>2. IsDeclaredRow(L, a, subtitle, made)
    BY ONLY <2>1, HasDeclaredPath(L, a), DeclaredFields
  <2>3. made.at.ext[1] = subtitle.language
    BY <2>2, Zenon DEF IsDeclaredRow
  <2> QED BY <2>3, Zenon
<1>7. Apart(q, R)
  <2>1. \A i \in DOMAIN q : Unrelated(q[i], R)
    BY ONLY <1>4 DEF Unrelated
  <2>2. ASSUME NEW i \in DOMAIN q, NEW j \in DOMAIN q, i # j, NEW x \in ToSet(q[i]), NEW y \in ToSet(q[j])
        PROVE  <<x, y>> \notin R
    <3>1. i \in kept /\ x = row[i] /\ j \in kept /\ y = row[j]
      BY ONLY <1>4, <2>2
    <3>2. x.at.ext[1] # y.at.ext[1]
      BY ONLY <1>5, <1>6, <1>b, <2>2, <3>1
    <3>3. x.at # y.at
      BY ONLY <3>2
    <3> QED BY ONLY <3>3, IsPlacing(R) DEF IsPlacing
  <2> QED BY ONLY <2>1, <2>2 DEF Apart
<1> HIDE DEF S
<1>8. /\ FlattenSeq(q) \in Seq(UNION {ToSet(q[i]) : i \in DOMAIN q})
      /\ ToSet(FlattenSeq(q)) = UNION {ToSet(q[i]) : i \in DOMAIN q}
      /\ Unrelated(FlattenSeq(q), R)
  <2>1. Len(q) \in Nat /\ DOMAIN q = 1..Len(q) /\ (Len(q) = 0 => q = <<>>)
    BY ONLY <1>1, <1>2
  <2> QED BY ONLY <2>1, <1>3, <1>7, FlattenedElements
<1>9. UNION {ToSet(q[i]) : i \in DOMAIN q} = {row[s] : s \in kept}
  <2>1. \A i \in DOMAIN q : \A x \in ToSet(q[i]) : x \in {row[s] : s \in kept}
    BY ONLY <1>4
  <2>2. \A s \in kept : s \in DOMAIN q /\ row[s] \in ToSet(q[s])
    BY ONLY <1>1, <1>2, <1>4, <1>b
  <2> QED BY ONLY <2>1, <2>2
<1>10. {row[s] : s \in kept} = {DeclaredRow(L, a, subs[s]) : s \in kept}
  <2>1. \A s \in kept : row[s] = DeclaredRow(L, a, subs[s])
    BY <1>b
  <2> QED BY ONLY <2>1
<1>11. OwnRows(L, a) = FlattenSeq(q)
  <2>1. \A s \in DOMAIN subs : (s \in kept) = ~IsReplaced(subs, s)
    BY DEF Unreplaced
  <2>2. q = [s \in DOMAIN subs |-> IF IsReplaced(subs, s) THEN <<>> ELSE <<DeclaredRow(L, a, subs[s])>>]
    BY <2>1
  <2> QED BY <2>2 DEF OwnRows
<1>12. /\ OwnRows(L, a) \in Seq(ToSet(OwnRows(L, a)))
       /\ ToSet(OwnRows(L, a)) = {DeclaredRow(L, a, subs[s]) : s \in kept}
       /\ Unrelated(OwnRows(L, a), R)
  BY ONLY <1>8, <1>9, <1>10, <1>11
<1> QED BY <1>12

\* The declared rows of all assets, each on a path of its own.
LEMMA SeededRows ==
  ASSUME NEW L, LibraryOK(L), \A a \in AssetIds(L) : HasDeclaredPath(L, a)
  PROVE  /\ SeededSidecars(L) \in Seq(ToSet(SeededSidecars(L)))
         /\ \A row \in ToSet(SeededSidecars(L)) : \E a \in AssetIds(L) :
               \E s \in Unreplaced(L.assets[a].subtitles) : row = DeclaredRow(L, a, L.assets[a].subtitles[s])
         /\ \A a \in AssetIds(L) : \A s \in Unreplaced(L.assets[a].subtitles) :
               DeclaredRow(L, a, L.assets[a].subtitles[s]) \in ToSet(SeededSidecars(L))
         /\ \A j, k \in DOMAIN SeededSidecars(L) :
               (j # k /\ SeededSidecars(L)[j].asset = SeededSidecars(L)[k].asset)
                  => SeededSidecars(L)[j].at # SeededSidecars(L)[k].at
<1> PICK all : all = SeededSidecars(L)
  OBVIOUS
<1> PICK order : order = L.order
  OBVIOUS
<1> PICK q : q = [k \in DOMAIN order |-> OwnRows(L, order[k])]
  OBVIOUS
<1> DEFINE R == {z \in ToSet(all) \X ToSet(all) : z[1].asset = z[2].asset /\ z[1].at = z[2].at}
           S == UNION {ToSet(q[k]) : k \in DOMAIN q}
<1>1. /\ DOMAIN order = 1..Len(order) /\ Len(order) \in Nat
      /\ \A k \in DOMAIN order : order[k] \in AssetIds(L)
      /\ \A j, k \in DOMAIN order : order[j] = order[k] => j = k
      /\ \A a \in AssetIds(L) : \E k \in DOMAIN order : order[k] = a
  BY DEF LibraryOK
<1>2. all = FlattenSeq(q)
  <2>1. all = FlattenSeq([k \in DOMAIN order |-> OwnRows(L, order[k])])
    BY ONLY all = SeededSidecars(L), order = L.order, Zenon DEF SeededSidecars, OwnRows
  <2> QED BY <2>1
<1>3. IsPlacing(R)
  BY DEF IsPlacing
<1> HIDE DEF R
<1>4. ASSUME NEW a \in AssetIds(L)
      PROVE  /\ OwnRows(L, a) \in Seq(ToSet(OwnRows(L, a)))
             /\ ToSet(OwnRows(L, a)) = {DeclaredRow(L, a, L.assets[a].subtitles[s])
                                          : s \in Unreplaced(L.assets[a].subtitles)}
             /\ Unrelated(OwnRows(L, a), R)
  <2>1. HasDeclaredPath(L, a) /\ L.assets[a].subtitles \in Seq(ToSet(L.assets[a].subtitles))
    BY DEF LibraryOK
  <2> QED BY ONLY <1>3, <2>1, OwnRowsListed
<1>5. \A k \in DOMAIN q : \A x \in ToSet(q[k]) : x.asset = order[k]
  <2> TAKE k \in DOMAIN q
  <2> TAKE x \in ToSet(q[k])
  <2> PICK a : a = order[k]
    OBVIOUS
  <2>1. a \in AssetIds(L) /\ q[k] = OwnRows(L, a)
    BY <1>1
  <2>2. x \in {DeclaredRow(L, a, L.assets[a].subtitles[s]) : s \in Unreplaced(L.assets[a].subtitles)}
    BY ONLY <1>4, <2>1, x \in ToSet(q[k])
  <2>3. PICK subtitle : x = DeclaredRow(L, a, subtitle)
    BY <2>2
  <2>4. IsDeclaredRow(L, a, subtitle, x)
    BY <2>1, <2>3, DeclaredFields
  <2>5. x.asset = a
    BY <2>4 DEF IsDeclaredRow
  <2> QED BY <2>5
<1>6. Apart(q, R)
  <2>1. \A i, j \in DOMAIN q : i # j => \A x \in ToSet(q[i]) : \A y \in ToSet(q[j]) : <<x, y>> \notin R
    <3> SUFFICES ASSUME NEW i \in DOMAIN q, NEW j \in DOMAIN q, i # j, NEW x \in ToSet(q[i]),
                        NEW y \in ToSet(q[j])
                 PROVE  <<x, y>> \notin R
      OBVIOUS
    <3>1. order[i] # order[j]
      BY <1>1
    <3>2. x.asset # y.asset
      BY ONLY <1>5, <3>1, i \in DOMAIN q, j \in DOMAIN q, x \in ToSet(q[i]), y \in ToSet(q[j])
    <3> QED BY ONLY <1>3, <3>2 DEF IsPlacing
  <2>2. \A i \in DOMAIN q : order[i] \in AssetIds(L) /\ q[i] = OwnRows(L, order[i])
    BY <1>1
  <2>3. \A i \in DOMAIN q : Unrelated(q[i], R)
    BY ONLY <1>4, <2>2
  <2> QED BY <2>1, <2>3 DEF Apart
<1>7. DOMAIN q = 1..Len(q) /\ Len(q) \in Nat /\ (Len(q) = 0 => q = <<>>)
  BY <1>1
<1>8. \A k \in DOMAIN q : q[k] \in Seq(S)
  <2> TAKE k \in DOMAIN q
  <2>1. q[k] \in Seq(ToSet(q[k]))
    BY <1>1, <1>4
  <2>2. ToSet(q[k]) \subseteq S
    OBVIOUS
  <2> HIDE DEF S
  <2> QED BY <2>1, <2>2
<1>9. all \in Seq(S) /\ ToSet(all) = S /\ Unrelated(all, R)
  <2> HIDE DEF S
  <2>1. /\ FlattenSeq(q) \in Seq(UNION {ToSet(q[i]) : i \in DOMAIN q})
        /\ ToSet(FlattenSeq(q)) = UNION {ToSet(q[i]) : i \in DOMAIN q}
        /\ Unrelated(FlattenSeq(q), R)
    BY ONLY <1>6, <1>7, <1>8, FlattenedElements
  <2> QED BY <1>2, <2>1 DEF S
<1>10. ASSUME NEW row \in S
       PROVE  \E a \in AssetIds(L) : \E s \in Unreplaced(L.assets[a].subtitles) :
                row = DeclaredRow(L, a, L.assets[a].subtitles[s])
  <2>1. PICK k \in DOMAIN q : row \in ToSet(q[k])
    OBVIOUS
  <2>2. order[k] \in AssetIds(L) /\ row \in ToSet(OwnRows(L, order[k]))
    BY <1>1, <2>1
  <2> QED BY <1>4, <2>2
<1>11. ASSUME NEW a \in AssetIds(L), NEW s \in Unreplaced(L.assets[a].subtitles)
       PROVE  DeclaredRow(L, a, L.assets[a].subtitles[s]) \in S
  <2>1. PICK k \in DOMAIN order : order[k] = a
    BY <1>1
  <2>2. DeclaredRow(L, a, L.assets[a].subtitles[s]) \in ToSet(q[k]) /\ k \in DOMAIN q
    BY <1>4, <2>1
  <2> QED BY <2>2
<1>12. \A j, k \in DOMAIN all : (j # k /\ all[j].asset = all[k].asset) => all[j].at # all[k].at
  <2> HIDE DEF S
  <2>1. \A k \in DOMAIN all : all[k] \in ToSet(all)
    BY DEF ToSet
  <2> TAKE j, k \in DOMAIN all
  <2>2. j # k => <<all[j], all[k]>> \notin R
    BY <1>9 DEF Unrelated
  <2> QED BY <2>1, <2>2 DEF R
<1> HIDE DEF S
<1> QED BY <1>9, <1>10, <1>11, <1>12

DeclaredProjection(L, a, s) ==
    ProjectedSidecar(a, RenderDeclaredSidecarPath(InitialPaths(L)[a], s.language, s.codec),
                     "subtitle", s.language, TRUE, s.codec = "srt")

\* The projection of a declared subtitle is what the engine lists for it.
LEMMA DeclaredAlike ==
  ASSUME NEW L, NEW a, NEW s
  PROVE  /\ IsProjectedRow(DeclaredProjection(L, a, s))
         /\ DeclaredProjection(L, a, s).asset = a
         /\ ListedRow(DeclaredProjection(L, a, s)) = DeclaredRow(L, a, s)
<1> PICK at, language, codec, standard : /\ language = s.language /\ codec = s.codec
                               /\ at = RenderDeclaredSidecarPath(InitialPaths(L)[a], s.language, s.codec)
                               /\ standard = (s.codec = "srt")
  OBVIOUS
<1> PICK r : r = DeclaredProjection(L, a, s)
  OBVIOUS
<1>1. r = [asset |-> a, at |-> at, kind |-> "subtitle", language |-> language,
           derived |-> TRUE, standard |-> standard]
  BY DEF DeclaredProjection, ProjectedSidecar
<1>2. DeclaredRow(L, a, s) = [asset |-> a, kind |-> "subtitle", language |-> language, at |-> at,
                              derived |-> TRUE]
  BY DEF DeclaredRow, SidecarRow
<1>3. r.asset = a /\ ListedRow(r) = DeclaredRow(L, a, s)
  BY <1>1, <1>2 DEF ListedRow, SidecarRow
<1>4. IsProjectedRow(r)
  BY <1>1 DEF IsProjectedRow, ProjectedSidecar
<1> QED BY <1>3, <1>4

\* The projection lists the declared subtitles of all assets, and nothing else.
LEMMA DeclaredMembers ==
  ASSUME NEW L
  PROVE  /\ \A r \in DeclaredSidecars(L) : \E a \in AssetIds(L) :
               \E s \in ToSet(L.assets[a].subtitles) : r = DeclaredProjection(L, a, s)
         /\ \A a \in AssetIds(L) : \A s \in ToSet(L.assets[a].subtitles) :
               DeclaredProjection(L, a, s) \in DeclaredSidecars(L)
<1> DEFINE own(a) == {DeclaredProjection(L, a, s) : s \in ToSet(L.assets[a].subtitles)}
           all == {own(a) : a \in AssetIds(L)}
<1>1. DeclaredSidecars(L) = UNION all
  BY Zenon DEF DeclaredSidecars, DeclaredProjection
<1>2. ASSUME NEW r \in UNION all
      PROVE  \E a \in AssetIds(L) : \E s \in ToSet(L.assets[a].subtitles) : r = DeclaredProjection(L, a, s)
  <2>1. PICK X \in all : r \in X
    OBVIOUS
  <2>2. PICK a \in AssetIds(L) : X = own(a)
    OBVIOUS
  <2>3. r \in own(a)
    BY <2>1, <2>2
  <2> QED BY <2>3
<1>3. ASSUME NEW a \in AssetIds(L), NEW s \in ToSet(L.assets[a].subtitles)
      PROVE  DeclaredProjection(L, a, s) \in UNION all
  <2>1. own(a) \in all /\ DeclaredProjection(L, a, s) \in own(a)
    OBVIOUS
  <2> HIDE DEF own, all
  <2> QED BY <2>1
<1> QED BY ONLY <1>1, <1>2, <1>3

\* At the start the sidecars are in step, but for assets that declare a language twice.
LEMMA SidecarsStart ==
  ASSUME NEW L, LibraryOK(L), \A a \in AssetIds(L) : HasDeclaredPath(L, a),
         NEW S, S = AssetIds(L) \ TwiceDeclared(L), NEW managed
  PROVE  /\ RowsOK(DeclaredSidecars(L), SeededSidecars(L))
         /\ RowsAgree(DeclaredSidecars(L), SeededSidecars(L), S)
         /\ RowsBeside(SeededSidecars(L), managed, InitialPaths(L), S)
<1> PICK rows, projected, paths :
        rows = SeededSidecars(L) /\ projected = DeclaredSidecars(L) /\ paths = InitialPaths(L)
  OBVIOUS
<1>1. /\ rows \in Seq(ToSet(rows))
      /\ \A j, k \in DOMAIN rows : (j # k /\ rows[j].asset = rows[k].asset) => rows[j].at # rows[k].at
  BY SeededRows
<1>2. ASSUME NEW row \in ToSet(rows)
      PROVE  \E a \in AssetIds(L) : \E s \in ToSet(L.assets[a].subtitles) :
                row = DeclaredRow(L, a, s) /\ IsDeclaredRow(L, a, s, row)
  <2>1. PICK a \in AssetIds(L) : \E s \in Unreplaced(L.assets[a].subtitles) :
                                    row = DeclaredRow(L, a, L.assets[a].subtitles[s])
    BY SeededRows
  <2>2. PICK s \in Unreplaced(L.assets[a].subtitles) : row = DeclaredRow(L, a, L.assets[a].subtitles[s])
    BY <2>1
  <2> PICK subtitle : subtitle = L.assets[a].subtitles[s]
    OBVIOUS
  <2>3. subtitle \in ToSet(L.assets[a].subtitles)
    BY DEF ToSet, Unreplaced
  <2>4. HasDeclaredPath(L, a) /\ row = DeclaredRow(L, a, subtitle)
    BY <2>2
  <2>5. IsDeclaredRow(L, a, subtitle, row)
    BY ONLY <2>4, DeclaredFields
  <2> QED BY <2>3, <2>4, <2>5
<1>3. RowsOK(projected, rows)
  <2>1. \A r \in projected : IsProjectedRow(r)
    BY DeclaredMembers, DeclaredAlike
  <2>2. \A row \in ToSet(rows) : IsRow(row)
    BY <1>2 DEF IsDeclaredRow
  <2> QED BY <1>1, <2>1, <2>2 DEF RowsOK
<1>4. ASSUME NEW r \in projected, r.asset \in S PROVE ListedRow(r) \in ToSet(rows)
  <2>1. PICK a \in AssetIds(L) : \E s \in ToSet(L.assets[a].subtitles) : r = DeclaredProjection(L, a, s)
    BY DeclaredMembers
  <2>2. PICK s \in ToSet(L.assets[a].subtitles) : r = DeclaredProjection(L, a, s)
    BY <2>1
  <2>3. PICK j \in DOMAIN L.assets[a].subtitles : s = L.assets[a].subtitles[j]
    BY DEF ToSet
  <2>4. r.asset = a /\ ListedRow(r) = DeclaredRow(L, a, s)
    BY <2>2, DeclaredAlike
  <2>5. j \in Unreplaced(L.assets[a].subtitles)
    BY <1>4, <2>4 DEF Unreplaced, TwiceDeclared
  <2>6. DeclaredRow(L, a, L.assets[a].subtitles[j]) \in ToSet(rows)
    BY <2>5, SeededRows
  <2> QED BY <2>3, <2>4, <2>6
<1>5. ASSUME NEW row \in ToSet(rows) PROVE \E r \in projected : ListedRow(r) = row
  <2>1. PICK a \in AssetIds(L) : \E s \in ToSet(L.assets[a].subtitles) : row = DeclaredRow(L, a, s)
    BY <1>2
  <2>2. PICK s \in ToSet(L.assets[a].subtitles) : row = DeclaredRow(L, a, s)
    BY <2>1
  <2>3. DeclaredProjection(L, a, s) \in projected /\ ListedRow(DeclaredProjection(L, a, s)) = row
    BY <2>2, DeclaredMembers, DeclaredAlike
  <2> QED BY <2>3
<1>6. RowsAgree(projected, rows, S)
  BY <1>1, <1>4, <1>5 DEF RowsAgree
<1>7. RowsBeside(rows, managed, paths, S)
  <2>1. ASSUME NEW row \in ToSet(rows)
        PROVE  /\ row.kind = "subtitle" /\ HasExtension(paths[row.asset])
               /\ row.at = RenderDeclaredSidecarPath(paths[row.asset], row.language, row.at.ext[2])
    <3>1. PICK a \in AssetIds(L) : \E s : IsDeclaredRow(L, a, s, row)
      BY <1>2
    <3>2. PICK s : IsDeclaredRow(L, a, s, row)
      BY <3>1
    <3> QED BY <3>2 DEF IsDeclaredRow, HasDeclaredPath
  <2> QED BY <2>1 DEF RowsBeside
<1> QED BY <1>3, <1>6, <1>7

\* At the start every asset has a file at its declared path.
LEMMA FilesStart ==
  ASSUME NEW L, LibraryOK(L), NEW w, w = InitialWorld(L)
  PROVE  /\ \A a \in AssetIds(L) : HasDeclaredPath(L, a) /\ w.location[a] # 0
         /\ FilesOK(L, w.paths, w.location, w.nextLocation, w.managed)
         /\ VersionsOK(L, w.versions, w.nextVersion)
         /\ w.paths = InitialPaths(L) /\ w.managed = AssetIds(L) /\ IsWorld(w)
<1> PICK order : order = L.order
  OBVIOUS
<1> DEFINE first(a) == CHOOSE k \in DOMAIN order : order[k] = a
<1>1. /\ DOMAIN order = 1..Len(order) /\ Len(order) \in Nat
      /\ \A a \in AssetIds(L) : \E k \in DOMAIN order : order[k] = a
  BY DEF LibraryOK
<1>2. \A a \in AssetIds(L) : first(a) \in 1..Len(order) /\ order[first(a)] = a
  BY <1>1
<1>3. /\ w.location = [a \in AssetIds(L) |-> first(a)] /\ w.nextLocation = Len(order) + 1
      /\ w.versions = [a \in AssetIds(L) |-> <<first(a)>>] /\ w.nextVersion = Len(order) + 1
      /\ w.paths = InitialPaths(L) /\ w.managed = AssetIds(L)
  BY DEF InitialWorld
<1>4. IsWorld(w)
  BY DEF IsWorld, InitialWorld
<1>5. ASSUME NEW a \in AssetIds(L) PROVE HasDeclaredPath(L, a)
  <2> PICK numbers, members, parents, groups, root :
         /\ numbers = [g \in DOMAIN L.groups |-> L.groups[g].number]
         /\ members = [g \in DOMAIN L.groups |-> {q \in DOMAIN L.parents : L.parents[q].group = g}]
         /\ parents = L.parents /\ groups = L.groups /\ root = L.roots[L.primary]
    OBVIOUS
  <2>1. NumbersAgree(L, numbers, members, parents, groups, parents)
    BY DEF LibraryOK, NumbersAgree, TreeOK, SameParent
  <2>2. IsFilePath(RenderAssetPath(L, groups, parents, root, a))
        /\ HasExtension(RenderAssetPath(L, groups, parents, root, a))
    BY <2>1, RendersAlike
  <2> QED BY <2>2 DEF InitialPaths, HasDeclaredPath
<1>6. w.paths = [a \in AssetIds(L) |-> w.paths[a]]
  BY <1>3 DEF InitialPaths
<1> HIDE DEF first
<1>7. FilesOK(L, w.paths, w.location, w.nextLocation, w.managed)
  <2> PICK location, next, m : location = w.location /\ next = w.nextLocation /\ m = Len(order)
    OBVIOUS
  <2>1. /\ location = [a \in AssetIds(L) |-> location[a]]
        /\ \A a \in AssetIds(L) : location[a] = first(a) /\ location[a] \in 1..m /\ order[location[a]] = a
        /\ next = m + 1 /\ m \in Nat
    BY <1>1, <1>2, <1>3
  <2>2. /\ \A a \in AssetIds(L) : IsFilePath(w.paths[a]) /\ location[a] # 0
        /\ \A a, b \in AssetIds(L) : location[a] = location[b] => a = b
    BY <1>3, <1>5, <2>1 DEF HasDeclaredPath
  <2>3. next \in Nat \ {0} /\ \A a \in AssetIds(L) : location[a] \in 0..(next - 1)
    BY ONLY <2>1
  <2> QED BY <1>3, <1>6, <2>1, <2>2, <2>3 DEF FilesOK
<1>8. VersionsOK(L, w.versions, w.nextVersion)
  BY <1>1, <1>2, <1>3 DEF VersionsOK
<1> QED BY <1>1, <1>2, <1>3, <1>4, <1>5, <1>7, <1>8

\* The two walks start in step.
LEMMA StartsInStep ==
  ASSUME NEW L, LibraryOK(L)
  PROVE  InStep(L, InitialProjection(L), InitialWorld(L), 0, TwiceDeclared(L))
<1> PICK p, w, U : p = InitialProjection(L) /\ w = InitialWorld(L) /\ U = TwiceDeclared(L)
  OBVIOUS
<1>1. /\ \A a \in AssetIds(L) : HasDeclaredPath(L, a) /\ w.location[a] # 0
      /\ FilesOK(L, w.paths, w.location, w.nextLocation, w.managed)
      /\ VersionsOK(L, w.versions, w.nextVersion)
      /\ w.paths = InitialPaths(L) /\ w.managed = AssetIds(L) /\ IsWorld(w)
  BY ONLY LibraryOK(L), w = InitialWorld(L), FilesStart
<1>2. /\ p.numbers = [g \in DOMAIN L.groups |-> L.groups[g].number]
      /\ p.members = SeededMembers(L) /\ p.parents = L.parents /\ p.paths = DeclaredPaths(L)
      /\ p.managed = AssetIds(L) /\ p.pending = {} /\ p.placed = AssetIds(L) /\ p.copying = {}
      /\ p.sidecars = DeclaredSidecars(L) /\ IsProjection(p)
  BY DEF InitialProjection, IsProjection
<1>3. w.groups = L.groups /\ w.parents = L.parents /\ w.pending = {} /\ w.sidecars = SeededSidecars(L)
  BY DEF InitialWorld
<1>4. NumbersAgree(L, p.numbers, p.members, p.parents, w.groups, w.parents)
  BY <1>2, <1>3 DEF LibraryOK, NumbersAgree, TreeOK, SameParent, SeededMembers
<1>5. p.paths = w.paths
  BY <1>1, <1>2 DEF DeclaredPaths, InitialPaths
<1>6. CopiesAgree(p.pending, p.copying, w.pending, w.location, p.placed, 0)
  BY <1>2, <1>3 DEF CopiesAgree
<1>7. SidecarsInStep(p, w, AssetIds(L) \ U)
  <2> PICK S, managed : S = AssetIds(L) \ U /\ managed = w.managed
    OBVIOUS
  <2>1. /\ RowsOK(DeclaredSidecars(L), SeededSidecars(L))
        /\ RowsAgree(DeclaredSidecars(L), SeededSidecars(L), S)
        /\ RowsBeside(SeededSidecars(L), managed, InitialPaths(L), S)
    BY <1>1, SidecarsStart
  <2> QED BY <1>1, <1>2, <1>3, <2>1 DEF SidecarsInStep
<1>8. U \subseteq AssetIds(L) /\ p.placed = {a \in AssetIds(L) : w.location[a] # 0}
  BY <1>1, <1>2 DEF TwiceDeclared
<1> QED BY <1>1, <1>2, <1>4, <1>5, <1>6, <1>7, <1>8 DEF InStep

(***************************************************************************)
(* Every event.                                                            *)
(***************************************************************************)
LEMMA EntryNamesEvent ==
  ASSUME NEW L, NEW w, NEW n, NEW ev
  PROVE  ApplyEvent(L, w, n, ev).entry.op = ev.op
<1> DEFINE Names(outcome) == outcome.entry.op = ev.op
<1>1. \A why : Names(Raised(w, n, ev, why))
  BY DEF Raised, Entry
<1>2. \A path : Names(PlaceAt(w, n, ev, path))
  BY DEF PlaceAt, Outcome, AssetEntry, Entry
<1>3. Names(MoveAsset(w, n, ev)) /\ Names(ArchiveFile(L, w, n, ev)) /\ Names(MoveBetweenRoots(L, w, n, ev))
  <2> HIDE DEF Names
  <2>1. Names(MoveAsset(w, n, ev))
    BY <1>2 DEF MoveAsset
  <2>2. Names(ArchiveFile(L, w, n, ev))
    BY <1>1, <1>2 DEF ArchiveFile
  <2>3. Names(MoveBetweenRoots(L, w, n, ev))
    BY <1>1, <1>2 DEF MoveBetweenRoots
  <2> QED BY <2>1, <2>2, <2>3
<1>4. Names(DeleteFile(w, n, ev)) /\ Names(SlowCopyStart(w, n, ev)) /\ Names(TouchMtime(w, n, ev))
  BY DEF DeleteFile, SlowCopyStart, TouchMtime, Outcome, AssetEntry, Entry
<1>5. Names(AddFile(w, n, ev))
  BY <1>1 DEF AddFile, Outcome, Entry
<1>6. Names(SlowCopyCommit(w, n, ev))
  BY <1>1 DEF SlowCopyCommit, Outcome, Entry
<1>7. Names(NewVersion(w, n, ev)) /\ Names(RemuxContainer(w, n, ev))
  BY DEF NewVersion, RemuxContainer, VersionEntry, Outcome, AssetEntry, Entry
<1>8. Names(CreateSidecar(w, n, ev)) /\ Names(ExtractSubtitle(w, n, ev))
  BY DEF CreateSidecar, ExtractSubtitle, Outcome, AssetEntry, Entry
<1>9. Names(UseSidecar(w, n, ev))
  <2>1. Names(Raised(w, n, ev, "no_such_sidecar"))
    BY <1>1
  <2>2. \A v : Names(Outcome(v, VersionEntry(w, n, ev))) /\ Names(Outcome(v, AssetEntry(w, n, ev)))
    BY DEF VersionEntry, Outcome, AssetEntry, Entry
  <2> HIDE DEF Names
  <2> QED BY <2>1, <2>2 DEF UseSidecar
<1>10. Names(HierarchyEvent(L, w, n, ev))
  BY Zenon DEF HierarchyEvent, Outcome, Entry
<1>11. Names(MarkEpisodeStale(L, w, n, ev))
  BY <1>1 DEF MarkEpisodeStale, Outcome, Entry
<1>12. Names(Condition(w, n, ev))
  BY DEF Condition, Outcome, Entry
<1>13. Names(OpenWindow(w, n, ev))
  BY <1>1 DEF OpenWindow, Outcome, Entry
<1>14. Names(CloseWindow(w, n, ev))
  BY <1>1 DEF CloseWindow, Outcome, Entry
<1> HIDE DEF Names
<1>15. Names(ApplyEvent(L, w, n, ev))
  BY <1>1, <1>3, <1>4, <1>5, <1>6, <1>7, <1>8, <1>9, <1>10, <1>11, <1>12, <1>13, <1>14
     DEF ApplyEvent
<1> QED BY <1>15 DEF Names

\* What follows from an event that was planned or raised.
Planning(L, p, w, n, U, ev) ==
    LET outcome == ApplyEvent(L, w, n + 1, ev)
    IN  /\ \/ Together(L, p, w, n, U, ev, outcome)
           \/ Parts(L, p, w, n, U, ev, outcome)
           \/ Raises(L, p, w, n, U, ev, outcome)
        /\ ev.op \in HierarchyOps => NoneCollides(L, outcome)

\* The operations that an author may write.
AuthoredOps ==
    FileOps \cup {"slow_copy_commit", "touch_mtime", "remux_container", "create_sidecar",
                  "extract_subtitle", "mark_episode_stale"}
            \cup VersionOps \cup SidecarOps \cup HierarchyOps

\* Whatever accepted event comes next, the walks stay in step, or part over a name that ends in a
\* dot, or a sidecar of an unsettled asset is not found.
LEMMA EveryEventPlanned ==
  ASSUME NEW L, LibraryOK(L), NEW p, NEW w, NEW n \in Nat, NEW U, InStep(L, p, w, n, U), NEW ev,
         MayCome(L, p, ev), ev.op \in AuthoredOps
  PROVE  Planning(L, p, w, n, U, ev)
<1> DEFINE outcome == ApplyEvent(L, w, n + 1, ev)
<1>1. CASE ev.op \in HierarchyOps
  <2>1. Together(L, p, w, n, U, ev, outcome) /\ NoneCollides(L, outcome)
    BY <1>1, HierarchyTogether
  <2> QED BY <2>1 DEF Planning
<1>2. CASE ev.op \notin HierarchyOps
  <2>1. CASE ev.op = "mark_episode_stale"
    BY <1>2, <2>1, StaleTogether DEF Planning
  <2>2. CASE ev.op \in SidecarOps
    BY <1>2, <2>2, UsesTogether DEF Planning
  <2>3. CASE ev.op \in {"create_sidecar", "extract_subtitle"}
    BY <1>2, <2>3, WritingTogether DEF Planning
  <2>4. CASE ev.op \in VersionOps \cup {"touch_mtime", "remux_container"}
    BY <1>2, <2>4, RevisionsTogether DEF Planning
  <2>5. CASE ev.op \in {"move_asset", "rename_file", "archive_file", "move_between_roots"}
    BY <1>2, <2>5, MovesTogether DEF Planning
  <2>6. CASE ev.op = "delete_file"
    BY <1>2, <2>6, DeletionTogether DEF Planning
  <2>7. CASE ev.op = "add_file"
    BY <1>2, <2>7, AdditionTogether DEF Planning
  <2>8. CASE ev.op = "slow_copy_start"
    BY <1>2, <2>8, CopyStartTogether DEF Planning
  <2>9. CASE ev.op = "slow_copy_commit"
    BY <1>2, <2>9, CopyCommitTogether DEF Planning
  <2> QED BY <1>2, <2>1, <2>2, <2>3, <2>4, <2>5, <2>6, <2>7, <2>8, <2>9 DEF AuthoredOps, FileOps
<1> QED BY <1>1, <1>2

(***************************************************************************)
(* The invariant.                                                          *)
(***************************************************************************)
LEMMA InvInit ==
  ASSUME Init PROVE AuthoringInv
<1>1. PICK s \in Scenes : scene = [library |-> Library(s.scenario), events |-> s.events]
  BY DEF Init
<1>2. DocumentOK(s.scenario) /\ \A ev \in s.events : DraftOK(ev)
  BY ScenesAssumption
<1>3. scene.events = s.events /\ lib = Library(s.scenario)
  BY <1>1 DEF lib
<1>4. LibraryOK(lib)
  BY <1>2, <1>3, LibraryIsOK
<1>5. /\ failure = NoFailure /\ journal = <<>> /\ proj = InitialProjection(lib)
      /\ world = InitialWorld(lib) /\ unsettled = TwiceDeclared(lib)
  BY DEF Init
<1> PICK L : L = lib
  OBVIOUS
<1>6. InStep(L, InitialProjection(L), InitialWorld(L), 0, TwiceDeclared(L))
  BY <1>4, StartsInStep
<1>7. InStepBut(lib, proj, world, Len(journal), unsettled, {a \in AssetIds(lib) : Misread(a)})
  <2> PICK D : D = {a \in AssetIds(lib) : Misread(a)}
    OBVIOUS
  <2>1. InStepBut(L, InitialProjection(L), InitialWorld(L), 0, TwiceDeclared(L), D)
    BY ONLY <1>6, InStepButNothing
  <2> QED BY <1>5, <2>1
<1>8. journal \in Seq(ToSet(journal))
  BY <1>5
<1> QED BY <1>2, <1>3, <1>4, <1>5, <1>7, <1>8 DEF AuthoringInv

\* Listed rows of an asset have the same paths, kinds and languages on both sides.
LEMMA ListedAlike ==
  ASSUME NEW projected, NEW rows, NEW S, Listed(projected, rows, S), NEW a \in S
  PROVE  {<<row.at, row.kind, row.language>> : row \in {r \in projected : r.asset = a}}
       = {<<row.at, row.kind, row.language>> : row \in {r \in ToSet(rows) : r.asset = a}}
<1>1. \A r : /\ ListedRow(r).asset = r.asset /\ ListedRow(r).at = r.at
             /\ ListedRow(r).kind = r.kind /\ ListedRow(r).language = r.language
  BY DEF ListedRow, SidecarRow
<1>2. \A r \in projected : r.asset = a =>
         \E row \in ToSet(rows) : /\ row.asset = a /\ row.at = r.at
                                  /\ row.kind = r.kind /\ row.language = r.language
  BY <1>1 DEF Listed
<1>3. \A row \in ToSet(rows) : row.asset = a =>
         \E r \in projected : /\ r.asset = a /\ row.at = r.at
                              /\ row.kind = r.kind /\ row.language = r.language
  BY <1>1 DEF Listed
<1> QED BY ONLY <1>2, <1>3

\* What walks in step have in common, as the properties need it.
LEMMA InStepShows ==
  ASSUME NEW L, NEW p, NEW w, NEW n, NEW U, InStep(L, p, w, n, U)
  PROVE  /\ DOMAIN w.paths = AssetIds(L) /\ DOMAIN p.paths = AssetIds(L)
         /\ w.managed \subseteq AssetIds(L) /\ U \subseteq AssetIds(L)
         /\ \A a \in AssetIds(L) : /\ w.location[a] \in 0..(w.nextLocation - 1)
                                   /\ ToSet(w.versions[a]) \subseteq 1..(w.nextVersion - 1)
                                   /\ (w.paths[a] = Nowhere) = ~HasLocation(w, a)
         /\ Listed(p.sidecars, w.sidecars, AssetIds(L) \ U)
<1>1. /\ FilesOK(L, w.paths, w.location, w.nextLocation, w.managed) /\ p.paths = w.paths
      /\ VersionsOK(L, w.versions, w.nextVersion) /\ U \subseteq AssetIds(L)
  BY DEF InStep
<1>2. DOMAIN w.paths = AssetIds(L)
  BY <1>1 DEF FilesOK
<1>3. ASSUME NEW a \in AssetIds(L)
      PROVE  /\ w.location[a] \in 0..(w.nextLocation - 1)
             /\ ToSet(w.versions[a]) \subseteq 1..(w.nextVersion - 1)
             /\ (w.paths[a] = Nowhere) = ~HasLocation(w, a)
  <2>1. w.location[a] \in 0..(w.nextLocation - 1)
    BY <1>1 DEF FilesOK
  <2>2. IF w.location[a] = 0 THEN w.paths[a] = Nowhere ELSE IsFilePath(w.paths[a])
    BY <1>1 DEF FilesOK
  <2>3. (w.paths[a] = Nowhere) = ~HasLocation(w, a)
    BY <2>2 DEF HasLocation, IsFilePath
  <2>4. ToSet(w.versions[a]) \subseteq 1..(w.nextVersion - 1)
    <3> PICK made, X : made = w.versions[a] /\ X = 1..(w.nextVersion - 1)
      OBVIOUS
    <3>1. made \in Seq(X)
      BY <1>1 DEF VersionsOK
    <3> QED BY <3>1, OwnElements
  <2> QED BY <2>1, <2>3, <2>4
<1>4. Listed(p.sidecars, w.sidecars, AssetIds(L) \ U)
  BY DEF InStep, SidecarsInStep, RowsAgree, Listed
<1> QED BY <1>1, <1>2, <1>3, <1>4 DEF FilesOK

\* The same of walks that are in step but for the names of some files.
LEMMA InStepButShows ==
  ASSUME NEW L, NEW p, NEW w, NEW n, NEW U, NEW D, InStepBut(L, p, w, n, U, D)
  PROVE  /\ DOMAIN w.paths = AssetIds(L) /\ DOMAIN p.paths = AssetIds(L)
         /\ w.managed \subseteq AssetIds(L) /\ U \subseteq AssetIds(L)
         /\ \A a \in AssetIds(L) : /\ w.location[a] \in 0..(w.nextLocation - 1)
                                   /\ ToSet(w.versions[a]) \subseteq 1..(w.nextVersion - 1)
                                   /\ (w.paths[a] = Nowhere) = ~HasLocation(w, a)
         /\ Listed(p.sidecars, w.sidecars, AssetIds(L) \ U)
<1> PICK r : r = Reread(p, w)
  OBVIOUS
<1>1. InStep(L, r, w, n, U) /\ r.sidecars = p.sidecars /\ DOMAIN p.paths = AssetIds(L)
  BY DEF InStepBut, Reread, IsProjection
<1>2. /\ DOMAIN w.paths = AssetIds(L) /\ w.managed \subseteq AssetIds(L) /\ U \subseteq AssetIds(L)
      /\ \A a \in AssetIds(L) : /\ w.location[a] \in 0..(w.nextLocation - 1)
                                /\ ToSet(w.versions[a]) \subseteq 1..(w.nextVersion - 1)
                                /\ (w.paths[a] = Nowhere) = ~HasLocation(w, a)
      /\ Listed(r.sidecars, w.sidecars, AssetIds(L) \ U)
  BY ONLY <1>1, InStepShows
<1> QED BY <1>1, <1>2

\* The invariant gives TypeOK.
LEMMA InvImpliesTypeOK ==
  ASSUME AuthoringInv PROVE TypeOK
<1>1. CASE failure = NoFailure
  <2> PICK n, D : n = Len(journal) /\ D = {a \in AssetIds(lib) : Misread(a)}
    OBVIOUS
  <2>1. InStepBut(lib, proj, world, n, unsettled, D)
    BY <1>1 DEF AuthoringInv
  <2>2. /\ DOMAIN world.paths = AssetIds(lib) /\ DOMAIN proj.paths = AssetIds(lib)
        /\ world.managed \subseteq AssetIds(lib) /\ unsettled \subseteq AssetIds(lib)
        /\ \A a \in AssetIds(lib) : /\ world.location[a] \in 0..(world.nextLocation - 1)
                                    /\ ToSet(world.versions[a]) \subseteq 1..(world.nextVersion - 1)
                                    /\ (world.paths[a] = Nowhere) = ~HasLocation(world, a)
    BY ONLY <2>1, InStepButShows
  <2> QED BY ONLY <2>2 DEF TypeOK
<1> QED BY <1>1 DEF AuthoringInv

\* The invariant gives SidecarsAgree.
LEMMA InvImpliesSidecarsAgree ==
  ASSUME AuthoringInv PROVE SidecarsAgree
<1>1. CASE failure = NoFailure
  <2> PICK n, D, projected, rows, S : /\ n = Len(journal) /\ D = {a \in AssetIds(lib) : Misread(a)}
                                      /\ projected = proj.sidecars /\ rows = world.sidecars
                                      /\ S = AssetIds(lib) \ unsettled
    OBVIOUS
  <2>1. InStepBut(lib, proj, world, n, unsettled, D)
    BY <1>1 DEF AuthoringInv
  <2>2. Listed(proj.sidecars, world.sidecars, AssetIds(lib) \ unsettled)
    BY ONLY <2>1, InStepButShows
  <2>3. Listed(projected, rows, S)
    BY <2>2
  <2>4. \A a \in S : {<<row.at, row.kind, row.language>> : row \in {r \in projected : r.asset = a}}
                   = {<<row.at, row.kind, row.language>> : row \in {r \in ToSet(rows) : r.asset = a}}
    BY ONLY <2>3, ListedAlike
  <2>5. projected = proj.sidecars /\ rows = world.sidecars /\ S = AssetIds(lib) \ unsettled
    OBVIOUS
  <2> QED BY ONLY <2>4, <2>5, Zenon DEF SidecarsAgree
<1> QED BY <1>1 DEF AuthoringInv

\* The invariant gives AcceptedEventsApply.
LEMMA InvImpliesAcceptedEventsApply ==
  ASSUME AuthoringInv PROVE AcceptedEventsApply
<1>1. CASE failure = NoFailure
  BY <1>1 DEF AcceptedEventsApply, NoFailure
<1> QED BY <1>1 DEF AuthoringInv

\* The invariant gives ProjectionAgrees.
LEMMA InvImpliesProjectionAgrees ==
  ASSUME AuthoringInv PROVE ProjectionAgrees
<1> SUFFICES ASSUME failure = NoFailure
             PROVE  /\ \A a \in AssetIds(lib) : Misread(a) \/ proj.paths[a] = world.paths[a]
                    /\ proj.managed = world.managed
                    /\ proj.placed = {a \in AssetIds(lib) : HasLocation(world, a)}
                    /\ \A g \in DOMAIN lib.groups :
                          /\ proj.numbers[g] = world.groups[g].number
                          /\ proj.members[g] = {p \in DOMAIN lib.parents : world.parents[p].group = g}
                    /\ \A p \in DOMAIN lib.parents :
                          [proj.parents[p] EXCEPT !.stale = FALSE] = [world.parents[p] EXCEPT !.stale = FALSE]
                    /\ {<<c.start, world.location[c.asset], c.to>> : c \in proj.pending}
                          = {<<c.start, c.location, c.to>> : c \in world.pending}
  BY DEF ProjectionAgrees
<1> PICK L, p, w, n, U, D : /\ L = lib /\ p = proj /\ w = world /\ n = Len(journal) /\ U = unsettled
                            /\ D = {a \in AssetIds(lib) : Misread(a)}
  OBVIOUS
<1>0. InStepBut(L, p, w, n, U, D)
  BY DEF AuthoringInv
<1> PICK read : read = Reread(p, w)
  OBVIOUS
<1>1. /\ InStep(L, read, w, n, U) /\ \A a \in AssetIds(L) : a \in D \/ p.paths[a] = w.paths[a]
      /\ p.numbers = read.numbers /\ p.members = read.members /\ p.parents = read.parents
      /\ p.managed = read.managed /\ p.pending = read.pending /\ p.placed = read.placed
      /\ p.copying = read.copying
  BY ONLY <1>0, read = Reread(p, w) DEF InStepBut, Reread, IsProjection
<1>2. /\ \A a \in AssetIds(L) : Misread(a) \/ p.paths[a] = w.paths[a]
      /\ p.managed = w.managed /\ p.placed = {a \in AssetIds(L) : HasLocation(w, a)}
  BY <1>1 DEF InStep, HasLocation
<1>3. NumbersAgree(L, p.numbers, p.members, p.parents, w.groups, w.parents)
      /\ CopiesAgree(p.pending, p.copying, w.pending, w.location, p.placed, n)
  BY <1>1 DEF InStep
<1>4. \A g \in DOMAIN L.groups : /\ p.numbers[g] = w.groups[g].number
                                 /\ p.members[g] = {q \in DOMAIN L.parents : w.parents[q].group = g}
  BY <1>3 DEF NumbersAgree
<1>5. ASSUME NEW q \in DOMAIN L.parents
      PROVE  [p.parents[q] EXCEPT !.stale = FALSE] = [w.parents[q] EXCEPT !.stale = FALSE]
  <2> PICK r, s : r = p.parents[q] /\ s = w.parents[q]
    OBVIOUS
  <2>1. IsParent(L, r) /\ SameParent(r, s) /\ IsParent(L, s)
    BY <1>3 DEF NumbersAgree, TreeOK
  <2>2. [r EXCEPT !.stale = FALSE] = [s EXCEPT !.stale = FALSE]
    BY ONLY <2>1 DEF IsParent, SameParent
  <2> QED BY <2>2
<1>6. {<<c.start, w.location[c.asset], c.to>> : c \in p.pending}
        = {<<c.start, c.location, c.to>> : c \in w.pending}
  <2> PICK pending, copies, location : pending = p.pending /\ copies = w.pending /\ location = w.location
    OBVIOUS
  <2>1. copies = {[start |-> c.start, location |-> location[c.asset], to |-> c.to] : c \in pending}
    BY <1>3 DEF CopiesAgree
  <2>2. \A c \in pending : \E d \in copies :
            d.start = c.start /\ d.location = location[c.asset] /\ d.to = c.to
    <3> TAKE c \in pending
    <3> PICK d : d = [start |-> c.start, location |-> location[c.asset], to |-> c.to]
      OBVIOUS
    <3>1. d \in copies
      BY ONLY <2>1, c \in pending, d = [start |-> c.start, location |-> location[c.asset], to |-> c.to]
    <3>2. d.start = c.start /\ d.location = location[c.asset] /\ d.to = c.to
      BY ONLY d = [start |-> c.start, location |-> location[c.asset], to |-> c.to]
    <3> QED BY <3>1, <3>2
  <2>3. \A d \in copies : \E c \in pending :
            d.start = c.start /\ d.location = location[c.asset] /\ d.to = c.to
    BY ONLY <2>1
  <2>4. {<<c.start, location[c.asset], c.to>> : c \in pending}
          = {<<c.start, c.location, c.to>> : c \in copies}
    BY ONLY <2>2, <2>3
  <2> QED BY <2>4
<1> QED BY <1>2, <1>4, <1>5, <1>6

\* The new entry of the journal, if it is of a hierarchy event, moves no file onto another's path.
NewMovesApart ==
    \A k \in DOMAIN journal' \ DOMAIN journal :
        journal'[k].op \in HierarchyOps =>
           \A m \in ToSet(journal'[k].moves) : \A b \in AssetIds(lib) \ {m.asset} :
              world'.paths[b] # m.to

\* Planning an accepted event keeps the invariant, and its hierarchy moves apart.
LEMMA PlanKeepsStep ==
  ASSUME AuthoringInv, NEW ev, MayCome(lib, proj, ev), ev.op \in AuthoredOps, Plan(ev),
         ev.op \in SidecarOps => "target" \in DOMAIN ev
  PROVE  AuthoringInv' /\ NewMovesApart
<1> PICK L, p, w, n, U, q, outcome :
         /\ L = lib /\ p = proj /\ w = world /\ n = Len(journal) /\ U = unsettled
         /\ outcome = ApplyEvent(lib, world, Len(journal) + 1, ev)
         /\ q = Project(lib, proj, Len(journal) + 1, ev)
  OBVIOUS
<1>1. /\ failure = NoFailure /\ proj' = q /\ world' = outcome.world
      /\ outcome.raised = "no" =>
            /\ journal' = Append(journal, outcome.entry) /\ failure' = failure
            /\ unsettled' = U \cup Unsettling(w, ev, outcome)
      /\ outcome.raised # "no" =>
            /\ failure' = [why |-> outcome.raised,
                           target |-> IF "target" \in DOMAIN ev THEN ev.target ELSE ""]
            /\ journal' = journal /\ unsettled' = U
      /\ scene' = scene
  BY DEF Plan, Unsettling
<1>2. /\ LibraryOK(L) /\ n \in Nat /\ InStep(L, p, w, n, U) /\ journal \in Seq(ToSet(journal))
      /\ \A e \in scene.events : DraftOK(e)
  <2> PICK D : D = {a \in AssetIds(lib) : Misread(a)}
    OBVIOUS
  <2>1. /\ LibraryOK(lib) /\ journal \in Seq(ToSet(journal)) /\ \A e \in scene.events : DraftOK(e)
        /\ InStepBut(lib, proj, world, Len(journal), unsettled, D)
    BY <1>1 DEF AuthoringInv
  <2>2. Len(journal) \in Nat
    BY ONLY <2>1
  <2>3. D = {}
    BY DEF Plan
  <2>4. InStepBut(L, p, w, n, U, {})
    BY <2>1, <2>3
  <2>5. InStep(L, p, w, n, U)
    BY ONLY <2>4, InStepButNothing
  <2> QED BY <2>1, <2>2, <2>5
<1>3. Planning(L, p, w, n, U, ev)
  <2>1. MayCome(L, p, ev)
    OBVIOUS
  <2> QED BY ONLY <1>2, <2>1, ev.op \in AuthoredOps, EveryEventPlanned
<1>4. /\ \/ Together(L, p, w, n, U, ev, outcome)
         \/ Parts(L, p, w, n, U, ev, outcome)
         \/ Raises(L, p, w, n, U, ev, outcome)
      /\ ev.op \in HierarchyOps => NoneCollides(L, outcome)
  BY <1>3 DEF Planning
<1>5. lib' = L /\ LibraryOK(L)
  BY <1>1, <1>2 DEF lib
<1>6. ASSUME NEW D, outcome.raised = "no",
             InStepBut(L, q, outcome.world, n + 1, U \cup Unsettling(w, ev, outcome), D),
             \A a \in D : /\ ev.op = "remux_container" /\ outcome.entry.targets = <<a>>
                         /\ EndsInDot(outcome.entry.from)
      PROVE  AuthoringInv' /\ NewMovesApart
  <2> PICK old, entry, new : old = journal /\ entry = outcome.entry /\ new = Append(journal, outcome.entry)
    OBVIOUS
  <2>2. /\ new \in Seq(ToSet(new)) /\ Len(new) = n + 1 /\ new[n + 1] = entry
        /\ \A k \in DOMAIN new : k \in DOMAIN old \/ k = n + 1
    <3>1. old \in Seq(ToSet(old)) /\ new = Append(old, entry) /\ n = Len(old)
      BY <1>2
    <3>2. new \in Seq(ToSet(old) \cup {entry}) /\ ToSet(new) = ToSet(old) \cup {entry}
          /\ Len(new) = n + 1 /\ new[n + 1] = entry
      BY ONLY <3>1, AppendedElements
    <3>3. DOMAIN old = 1..n /\ DOMAIN new = 1..(n + 1)
      BY ONLY <1>2, <3>1, <3>2
    <3> QED BY <1>2, <3>2, <3>3
  <2>3. journal' = new /\ failure' = NoFailure /\ unsettled' = U \cup Unsettling(w, ev, outcome)
    BY <1>1, <1>6
  <2> PICK E : E = {a \in AssetIds(L) : \E k \in DOMAIN new : /\ new[k].op = "remux_container"
                                                             /\ a \in ToSet(new[k].targets)
                                                             /\ EndsInDot(new[k].from)}
    OBVIOUS
  <2>4. \A a \in AssetIds(L) : a \in D => a \in E
    <3> SUFFICES ASSUME NEW a \in AssetIds(L), a \in D PROVE a \in E
      OBVIOUS
    <3>1. entry.op = "remux_container" /\ entry.targets = <<a>> /\ EndsInDot(entry.from)
      BY <1>6, EntryNamesEvent
    <3>2. a \in ToSet(entry.targets)
      BY <3>1 DEF ToSet
    <3>3. n + 1 \in DOMAIN new
      BY <1>2, <2>2
    <3> QED BY <2>2, <3>1, <3>2, <3>3
  <2>5. AuthoringInv'
    <3>1. InStepBut(L, q, outcome.world, n + 1, U \cup Unsettling(w, ev, outcome), E)
      BY <1>6, <2>4 DEF InStepBut
    <3>2. E = {a \in AssetIds(lib') : Misread(a)'}
      BY <1>5, <2>3 DEF Misread
    <3>3. InStepBut(lib', proj', world', Len(journal'), unsettled', {a \in AssetIds(lib') : Misread(a)'})
      BY <1>1, <1>5, <2>2, <2>3, <3>1, <3>2
    <3> QED BY <1>1, <1>2, <1>5, <2>2, <2>3, <3>3 DEF AuthoringInv
  <2>6. NewMovesApart
    <3> SUFFICES ASSUME NEW k \in DOMAIN journal' \ DOMAIN journal, journal'[k].op \in HierarchyOps,
                        NEW m \in ToSet(journal'[k].moves), NEW b \in AssetIds(lib) \ {m.asset}
                 PROVE  world'.paths[b] # m.to
      BY DEF NewMovesApart
    <3>1. journal'[k] = entry
      BY <2>2, <2>3
    <3>2. entry.op = ev.op
      BY EntryNamesEvent
    <3>3. NoneCollides(L, outcome)
      BY <1>4, <3>1, <3>2
    <3>4. m \in ToSet(outcome.entry.moves)
      BY <3>1
    <3> QED BY <1>1, <3>3, <3>4 DEF NoneCollides
  <2> QED BY <2>5, <2>6
<1>a. CASE Together(L, p, w, n, U, ev, outcome)
  <2> PICK v, V : v = outcome.world /\ V = U \cup Unsettling(w, ev, outcome)
    OBVIOUS
  <2>1. outcome.raised = "no" /\ InStep(L, q, v, n + 1, V)
    BY <1>a DEF Together
  <2>2. InStepBut(L, q, v, n + 1, V, {})
    BY ONLY <2>1, InStepButNothing
  <2> QED BY <1>6, <2>1, <2>2
<1>b. CASE Parts(L, p, w, n, U, ev, outcome)
  <2>1. /\ ev.op = "remux_container" /\ outcome.raised = "no"
        /\ outcome.entry.targets = <<ev.target>> /\ EndsInDot(outcome.entry.from)
        /\ InStepBut(L, q, outcome.world, n + 1, U \cup Unsettling(w, ev, outcome), {ev.target})
    BY <1>b DEF Parts
  <2> QED BY <1>6, <2>1
<1>7. CASE Raises(L, p, w, n, U, ev, outcome)
  <2>1. /\ outcome.world = w /\ q.paths = p.paths
        /\ Listed(q.sidecars, w.sidecars, AssetIds(L) \ U)
        /\ \/ outcome.raised = "no_such_sidecar" /\ ev.op \in SidecarOps /\ ev.target \in U
           \/ outcome.raised = "half_deleted" /\ L.kind = "podcast_episode"
    BY <1>7 DEF Raises
  <2>2. outcome.raised # "no"
    BY <2>1
  <2>3. /\ proj' = q /\ world' = w /\ journal' = journal /\ unsettled' = U
        /\ failure' = [why |-> outcome.raised,
                       target |-> IF "target" \in DOMAIN ev THEN ev.target ELSE ""]
    BY <1>1, <2>1, <2>2
  <2>4. failure'.why = outcome.raised /\ failure' # NoFailure
        /\ ("target" \in DOMAIN ev => failure'.target = ev.target)
    BY <2>2, <2>3 DEF NoFailure
  <2>5. AcceptedEventsApply'
    BY <1>5, <2>1, <2>3, <2>4 DEF AcceptedEventsApply
  <2>6. TypeOK'
    <3>1. /\ DOMAIN w.paths = AssetIds(L) /\ DOMAIN p.paths = AssetIds(L)
          /\ w.managed \subseteq AssetIds(L) /\ U \subseteq AssetIds(L)
          /\ \A a \in AssetIds(L) : /\ w.location[a] \in 0..(w.nextLocation - 1)
                                    /\ ToSet(w.versions[a]) \subseteq 1..(w.nextVersion - 1)
                                    /\ (w.paths[a] = Nowhere) = ~HasLocation(w, a)
      <4>1. InStep(L, p, w, n, U)
        BY <1>2
      <4> QED BY ONLY <4>1, InStepShows
    <3> QED BY <1>5, <2>1, <2>3, <3>1 DEF TypeOK
  <2>7. SidecarsAgree'
    <3> PICK projected, rows, S : projected = q.sidecars /\ rows = w.sidecars /\ S = AssetIds(L) \ U
      OBVIOUS
    <3>1. \A a \in S : {<<row.at, row.kind, row.language>> : row \in {r \in projected : r.asset = a}}
                     = {<<row.at, row.kind, row.language>> : row \in {r \in ToSet(rows) : r.asset = a}}
      <4>1. Listed(projected, rows, S)
        BY <2>1
      <4> QED BY ONLY <4>1, ListedAlike
    <3> QED BY <1>5, <2>3, <3>1 DEF SidecarsAgree
  <2>8. AuthoringInv'
    BY <1>1, <1>2, <1>5, <2>3, <2>4, <2>5, <2>6, <2>7 DEF AuthoringInv
  <2>9. NewMovesApart
    BY <2>3 DEF NewMovesApart
  <2> QED BY <2>8, <2>9
<1> QED BY <1>4, <1>7, <1>a, <1>b

\* So does authoring one.
LEMMA AuthorKeepsStep ==
  ASSUME AuthoringInv, NEW ev, DraftOK(ev), ev.op \in AuthoredOps, Author(ev),
         ev.op \in SidecarOps => "target" \in DOMAIN ev
  PROVE  AuthoringInv' /\ NewMovesApart
<1>1. MayCome(lib, proj, ev) /\ Plan(ev)
  BY DEF Author, MayCome
<1> QED BY <1>1, PlanKeepsStep

\* So does any of the events the author may write.
LEMMA DraftKeepsStep ==
  ASSUME AuthoringInv, NEW ops, ops \subseteq AuthoredOps, ops \cap SidecarOps = {},
         \E ev \in Drafts(ops) : Author(ev)
  PROVE  AuthoringInv' /\ NewMovesApart
<1>1. PICK ev \in Drafts(ops) : Author(ev)
  OBVIOUS
<1>2. ev \in scene.events /\ ev.op \in ops
  BY DEF Drafts
<1>3. DraftOK(ev)
  BY <1>2 DEF AuthoringInv
<1> QED BY <1>1, <1>2, <1>3, AuthorKeepsStep

\* Every action keeps the invariant.
LEMMA NextKeepsStep ==
  ASSUME AuthoringInv, Next
  PROVE  AuthoringInv' /\ NewMovesApart
<1>1. CASE PlaceFile
  <2> PICK ops : ops = FileOps
    OBVIOUS
  <2>1. ops \subseteq AuthoredOps /\ ops \cap SidecarOps = {}
    BY DEF AuthoredOps, FileOps, SidecarOps
  <2>2. \E ev \in Drafts(ops) : Author(ev)
    BY <1>1 DEF PlaceFile
  <2> QED BY <2>1, <2>2, DraftKeepsStep
<1>2. CASE ReviseFile
  <2> PICK ops : ops = VersionOps \cup {"touch_mtime", "remux_container"}
    OBVIOUS
  <2>1. ops \subseteq AuthoredOps /\ ops \cap SidecarOps = {}
    BY DEF AuthoredOps, SidecarOps, VersionOps, EncodeOps, CorruptionOps
  <2>2. \E ev \in Drafts(ops) : Author(ev)
    BY <1>2 DEF ReviseFile
  <2> QED BY <2>1, <2>2, DraftKeepsStep
<1>3. CASE WriteSidecar
  <2> PICK ops : ops = {"create_sidecar", "extract_subtitle"}
    OBVIOUS
  <2>1. ops \subseteq AuthoredOps /\ ops \cap SidecarOps = {}
    BY DEF AuthoredOps, SidecarOps
  <2>2. \E ev \in Drafts(ops) : Author(ev)
    BY <1>3 DEF WriteSidecar
  <2> QED BY <2>1, <2>2, DraftKeepsStep
<1>4. CASE AlterHierarchy
  <2> PICK ops : ops = HierarchyOps \cup {"mark_episode_stale"}
    OBVIOUS
  <2>1. ops \subseteq AuthoredOps /\ ops \cap SidecarOps = {}
    BY DEF AuthoredOps, SidecarOps, HierarchyOps, SwapOps
  <2>2. \E ev \in Drafts(ops) : Author(ev)
    BY <1>4 DEF AlterHierarchy
  <2> QED BY <2>1, <2>2, DraftKeepsStep
<1>5. CASE CommitCopy
  <2>1. PICK start : Author(CommitEvent(start))
    BY <1>5 DEF CommitCopy
  <2> PICK ev : ev = CommitEvent(start)
    OBVIOUS
  <2>2. Author(ev)
    BY <2>1
  <2>3. ev.op = "slow_copy_commit"
    BY DEF CommitEvent
  <2>4. DraftOK(ev) /\ ev.op \in AuthoredOps /\ ev.op \notin SidecarOps
    BY <2>3 DEF DraftOK, AuthoredOps, SidecarOps
  <2> QED BY <2>2, <2>4, AuthorKeepsStep
<1>6. CASE UseASidecar
  <2>1. PICK op \in SidecarOps, row \in proj.sidecars : Author(SidecarEvent(op, row.asset, row.at))
    BY <1>6 DEF UseASidecar
  <2> PICK ev : ev = SidecarEvent(op, row.asset, row.at)
    OBVIOUS
  <2>2. Author(ev)
    BY <2>1
  <2>3. ev.op = op /\ "target" \in DOMAIN ev
    BY DEF SidecarEvent
  <2>4. DraftOK(ev) /\ ev.op \in AuthoredOps
    BY <2>3 DEF DraftOK, AuthoredOps, SidecarOps
  <2> QED BY <2>2, <2>3, <2>4, AuthorKeepsStep
<1> QED BY <1>1, <1>2, <1>3, <1>4, <1>5, <1>6 DEF Next

\* So does a step that changes nothing.
LEMMA StutterKeepsStep ==
  ASSUME AuthoringInv, UNCHANGED vars
  PROVE  AuthoringInv'
<1>1. /\ scene' = scene /\ proj' = proj /\ world' = world /\ journal' = journal
      /\ failure' = failure /\ unsettled' = unsettled
  BY DEF vars
<1>2. lib' = lib
  BY <1>1 DEF lib
<1>3. TypeOK => TypeOK'
  BY <1>1, <1>2 DEF TypeOK
<1>4. SidecarsAgree => SidecarsAgree'
  BY <1>1, <1>2 DEF SidecarsAgree
<1>5. AcceptedEventsApply => AcceptedEventsApply'
  BY <1>1, <1>2 DEF AcceptedEventsApply
<1>6. {a \in AssetIds(lib') : Misread(a)'} = {a \in AssetIds(lib) : Misread(a)}
  BY <1>1, <1>2 DEF Misread
<1> QED BY <1>1, <1>2, <1>3, <1>4, <1>5, <1>6 DEF AuthoringInv

\* The validator's projection and the engine's world stay in step (validation/rules/hierarchy/
\* projection.py and engine/state.py) on every timeline that the rules accept event by event: the
\* same numbers, members, parents, paths and copies under way, locations and versions of their own, and
\* the same sidecar rows of every asset whose sidecars are settled.  The one exception is the path of
\* a file that was remuxed under a name that ends in a dot, for which the sides have functions of
\* their own (_swap_extension); there the timeline is followed no further.
THEOREM AuthoringHoldsInv == Spec => []AuthoringInv
<1>1. Init => AuthoringInv
  BY InvInit
<1>2. AuthoringInv /\ [Next]_vars => AuthoringInv'
  BY NextKeepsStep, StutterKeepsStep
<1> QED BY <1>1, <1>2, PTL DEF Spec

\* Both walks keep their shape: every asset has a path exactly while it has a location, locations
\* and versions come from counters that are ahead of them.
THEOREM AuthoringTypeCorrect == Spec => []TypeOK
<1>1. AuthoringInv => TypeOK
  BY InvImpliesTypeOK
<1> QED BY <1>1, AuthoringHoldsInv, PTL

\* Whatever was accepted, the validator judges the next event by the numbers, parents, paths and
\* copies that the engine has (HierarchyProjection against PlanState), but for the path of a file
\* remuxed under a name that ends in a dot (_swap_extension, engine/event_handlers/media.py:167
\* and validation/rules/hierarchy/projection.py:896).
THEOREM ProjectionsAgree == Spec => []ProjectionAgrees
<1>1. AuthoringInv => ProjectionAgrees
  BY InvImpliesProjectionAgrees
<1> QED BY <1>1, AuthoringHoldsInv, PTL

\* No handler raises on an accepted timeline, but for a sidecar of an unsettled asset and for a
\* podcast episode marked stale after one of its files was deleted (the lookups of
\* engine/state.py:146-171).
THEOREM AcceptedApply == Spec => []AcceptedEventsApply
<1>1. AuthoringInv => AcceptedEventsApply
  BY InvImpliesAcceptedEventsApply
<1> QED BY <1>1, AuthoringHoldsInv, PTL

\* Both sides list the same sidecars, at the same paths, of every asset that was not relocated by
\* hand, overwritten or declared with one language twice (validation/rules/sidecar/projection.py).
THEOREM SidecarsStayListed == Spec => []SidecarsAgree
<1>1. AuthoringInv => SidecarsAgree
  BY InvImpliesSidecarsAgree
<1> QED BY <1>1, AuthoringHoldsInv, PTL

\* No move of a hierarchy event lands on a path that another asset has after the event
\* (_check_hierarchy_path_collisions, validation/rules/hierarchy/rules.py:281, judging by its own paths).
THEOREM HierarchyMovesApart == Spec => HierarchyMovesNeverCollide
<1>1. AuthoringInv /\ [Next]_vars => [NewMovesApart]_vars
  BY NextKeepsStep
<1> QED BY <1>1, AuthoringHoldsInv, PTL DEF Spec, HierarchyMovesNeverCollide, NewMovesApart
=============================================================================
