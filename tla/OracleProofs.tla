---------------------------- MODULE OracleProofs ----------------------------
(***************************************************************************)
(* The tree follows the oracle, for every plan of the engine whose events  *)
(* leave withheld assets alone and put no file where another one lies      *)
(* (EnginePlans, WithheldRest, PlacesAreFree, CopiesNotWrapped).           *)
(*                                                                         *)
(* The first part is about handlers: one that returns does to the tree     *)
(* what its entry says of places and versions.  The second is about plans: *)
(* what an entry, executed, withheld or dispatched late, does to the       *)
(* places and versions the tree has to show.  The third puts them together.*)
(***************************************************************************)
EXTENDS EndProofs

(***************************************************************************)
(* Handlers.                                                               *)
(***************************************************************************)

\* Outside the temporary files T, the tree has one file for every asset that is
\* placed and none else; the bytes of the others wait to be added again.
Shows(tree, T, loc, ver) ==
    /\ \A p \in Paths \ T : Present(tree, p) =>
            loc[tree.files[p].asset] = p /\ tree.files[p].ver = ver[tree.files[p].asset]
    /\ \A a \in Assets : loc[a] # NoPath =>
            loc[a] \in Paths \ T /\ Present(tree, loc[a]) /\ tree.files[loc[a]].asset = a
    /\ \A a \in Assets : loc[a] = NoPath =>
            /\ tree.cache[a] # NoFile
            /\ tree.cache[a].asset = a /\ tree.cache[a].ver = ver[a]

Places   == [Assets -> Paths \cup {NoPath}]
Versions == [Assets -> Nat]

\* No two assets are at one place.
Apart(loc) == \A a \in Assets : loc[a] # NoPath => \A b \in Assets \ {a} : loc[a] # loc[b]

\* What an entry does to places and versions, and the places it was planned for
MovedBy(e, loc) ==
    CASE e.act \in {"move_asset", "add_file", "remux_container", "slow_copy_commit"} ->
            [loc EXCEPT ![e.asset] = e.to]
      [] e.act = "delete_file" -> [loc EXCEPT ![e.asset] = NoPath]
      [] e.act = "rename_season" ->
            [a \in Assets |-> IF \E m \in e.moves : m.asset = a
                              THEN (CHOOSE m \in e.moves : m.asset = a).to ELSE loc[a]]
      [] OTHER -> loc

RewrittenBy(e, ver) == IF e.act \in MediaActions THEN [ver EXCEPT ![e.asset] = @ + 1] ELSE ver

Fits(e, loc) ==
    /\ e.act \in LocationActions => loc[e.asset] = e.from
    /\ e.act = "edit_metadata" => e.to = e.from
    /\ e.act = "add_file" => loc[e.asset] = NoPath
    /\ e.act = "rename_season" => \A m \in e.moves : loc[m.asset] = m.from

\* The file of one asset goes to q; what lay there is gone, and so are the
\* temporary files.
Relocates(tree, T, loc, ver, a, f, q, new, next, vers) ==
    /\ \A p \in Paths : new.files[p] = IF p = q THEN f
                                        ELSE IF p = loc[a] \/ p \in T THEN NoFile
                                        ELSE tree.files[p]
    /\ \A b \in Assets \ {a} : new.cache[b] = tree.cache[b]
    /\ next = [loc EXCEPT ![a] = q] /\ vers = [ver EXCEPT ![a] = f.ver]
    /\ f.asset = a

LEMMA Relocated ==
  ASSUME NEW tree \in FileSystem, NEW new \in FileSystem, NEW T,
         NEW loc \in Places, NEW ver \in Versions, Shows(tree, T, loc, ver),
         NEW a \in Assets, NEW f \in File, NEW q \in Paths,
         NEW next \in Places, NEW vers \in Versions, Apart(next),
         Relocates(tree, T, loc, ver, a, f, q, new, next, vers)
  PROVE  Shows(new, {}, next, vers)
<1> USE DEF Relocates
<1>1. q # NoPath /\ f # NoFile
  BY TimelineAssumption, NoFileAssumption
<1>2. ASSUME NEW p \in Paths, Present(new, p)
      PROVE  next[new.files[p].asset] = p /\ new.files[p].ver = vers[new.files[p].asset]
  <2>1. CASE p = q
    BY <2>1 DEF Places, Versions
  <2>2. CASE p # q
    <3>1. p # loc[a] /\ p \notin T /\ new.files[p] = tree.files[p] /\ Present(tree, p)
      BY <1>2, <2>2 DEF Present
    <3>2. tree.files[p].asset \in Assets
      BY <3>1 DEF FileSystem, File, Present
    <3>3. loc[tree.files[p].asset] = p /\ tree.files[p].ver = ver[tree.files[p].asset]
      BY <3>1 DEF Shows
    <3> QED BY <3>1, <3>2, <3>3 DEF Places, Versions
  <2> QED BY <2>1, <2>2
<1>3. ASSUME NEW b \in Assets, next[b] # NoPath
      PROVE  next[b] \in Paths /\ Present(new, next[b]) /\ new.files[next[b]].asset = b
  <2>1. CASE b = a
    BY <1>1, <2>1 DEF Places, Present
  <2>2. CASE b # a
    <3>1. next[b] = loc[b] /\ next[a] = q
      BY <2>2 DEF Places
    <3>2. loc[b] \in Paths \ T /\ Present(tree, loc[b]) /\ tree.files[loc[b]].asset = b
      BY <1>3, <3>1 DEF Shows
    <3>3. loc[b] # q
      BY <1>1, <2>2, <3>1 DEF Apart
    <3>4. loc[b] # loc[a]
      BY <1>3, <2>2, <3>1, <3>2 DEF Shows
    <3> QED BY <3>1, <3>2, <3>3, <3>4 DEF Present
  <2> QED BY <2>1, <2>2
<1>4. ASSUME NEW b \in Assets, next[b] = NoPath
      PROVE  new.cache[b] # NoFile /\ new.cache[b].asset = b /\ new.cache[b].ver = vers[b]
  <2>1. b # a /\ loc[b] = NoPath /\ vers[b] = ver[b]
    BY <1>1, <1>4 DEF Places, Versions
  <2> QED BY <2>1 DEF Shows
<1> QED BY <1>2, <1>3, <1>4 DEF Shows

\* The file of a placed asset is f.
IsFileOf(tree, ver, a, p, f) ==
    f = tree.files[p] /\ f \in File /\ f # NoFile /\ f.asset = a /\ f.ver = ver[a]

LEMMA FileAtPlace ==
  ASSUME NEW tree \in FileSystem, NEW T, NEW loc \in Places, NEW ver,
         Shows(tree, T, loc, ver), NEW a \in Assets, loc[a] \in Paths
  PROVE  \E f : IsFileOf(tree, ver, a, loc[a], f)
<1>1. loc[a] # NoPath
  BY TimelineAssumption
<1>2. loc[a] \in Paths \ T /\ Present(tree, loc[a]) /\ tree.files[loc[a]].asset = a
  BY <1>1 DEF Shows
<1> QED BY <1>2 DEF Shows, Present, FileSystem, IsFileOf

LEMMA EntryAssets ==
  ASSUME NEW e \in JournalEntries
  PROVE  /\ e.act \in LocationActions => e.asset \in Assets /\ e.from \in Paths
         /\ e.act \in {"add_file", "slow_copy_commit"} => e.asset \in Assets
         /\ e.act \in {"move_asset", "add_file", "edit_metadata", "remux_container",
                       "slow_copy_start", "slow_copy_commit"} => e.to \in Paths
         /\ e.act = "slow_copy_start" => e.temp \in Paths
         /\ \A m \in e.moves : m.from \in Paths /\ m.to \in Paths /\ m.asset \in Assets
  BY DEF JournalEntries, CarriesPaths

LEMMA MovedTyped ==
  ASSUME NEW e \in JournalEntries, NEW loc \in Places, NEW ver \in Versions
  PROVE  MovedBy(e, loc) \in Places /\ RewrittenBy(e, ver) \in Versions
<1>1. RewrittenBy(e, ver) \in Versions
  BY EntryAssets DEF RewrittenBy, Versions, MediaActions, LocationActions
<1>2. CASE e.act = "rename_season"
  <2>1. \A a \in Assets : (\E m \in e.moves : m.asset = a) =>
            (CHOOSE m \in e.moves : m.asset = a) \in e.moves
    OBVIOUS
  <2> QED BY <1>1, <1>2, <2>1, EntryAssets DEF MovedBy, Places
<1>3. CASE e.act # "rename_season"
  BY <1>1, <1>3, EntryAssets DEF MovedBy, Places
<1> QED BY <1>2, <1>3

LEMMA MoveShows ==
  ASSUME NEW tree \in FileSystem, NEW loc \in Places, NEW ver \in Versions,
         Shows(tree, {}, loc, ver), NEW e \in JournalEntries, e.act = "move_asset",
         Fits(e, loc), Apart(MovedBy(e, loc)), MoveAsset(tree, e).ok
  PROVE  Shows(MoveAsset(tree, e).fs, {}, MovedBy(e, loc), ver)
<1>1. PICK a \in Assets, p \in Paths, q \in Paths :
        e.asset = a /\ e.from = p /\ e.to = q /\ loc[a] = p
  BY EntryAssets DEF Fits, LocationActions
<1>2. PICK f \in File : IsFileOf(tree, ver, a, p, f)
  <2>1. \E f : IsFileOf(tree, ver, a, loc[a], f)
    BY <1>1, FileAtPlace
  <2> QED BY <1>1, <2>1 DEF IsFileOf
<1> DEFINE new  == Replaced(tree, p, q)
           next == MovedBy(e, loc)
<1>3. MoveAsset(tree, e).fs = new
  BY <1>1 DEF MoveAsset, Returns, Raises
<1>4. /\ next = [loc EXCEPT ![a] = q] /\ next \in Places /\ Apart(next)
      /\ ver = [ver EXCEPT ![a] = f.ver]
  BY <1>1, <1>2, MovedTyped DEF MovedBy, Versions, IsFileOf
<1>5. new \in FileSystem /\ new.cache = tree.cache
  BY <1>1, ReplacedTyped DEF Replaced, FileSystem
<1>6. \A x \in Paths : new.files[x] = IF x = q THEN f
                                       ELSE IF x = loc[a] \/ x \in {} THEN NoFile
                                       ELSE tree.files[x]
  BY <1>1, <1>2 DEF Replaced, FileSystem, IsFileOf
<1> HIDE DEF new, next
<1>7. Relocates(tree, {}, loc, ver, a, f, q, new, next, ver)
  BY <1>2, <1>4, <1>5, <1>6 DEF Relocates, IsFileOf
<1>8. Shows(new, {}, next, ver)
  BY <1>4, <1>5, <1>7, Relocated
<1> QED BY <1>3, <1>8 DEF next

LEMMA DeleteShows ==
  ASSUME NEW tree \in FileSystem, NEW loc \in Places, NEW ver \in Versions,
         Shows(tree, {}, loc, ver), NEW e \in JournalEntries, e.act = "delete_file",
         Fits(e, loc), DeleteFile(tree, e).ok
  PROVE  Shows(DeleteFile(tree, e).fs, {}, MovedBy(e, loc), ver)
<1>1. PICK a \in Assets, q \in Paths : e.asset = a /\ e.from = q /\ loc[a] = q
  BY EntryAssets DEF Fits, LocationActions
<1>2. PICK f \in File : IsFileOf(tree, ver, a, q, f)
  <2>1. \E f : IsFileOf(tree, ver, a, loc[a], f)
    BY <1>1, FileAtPlace
  <2> QED BY <1>1, <2>1 DEF IsFileOf
<1> DEFINE new  == DeleteFile(tree, e).fs
           next == MovedBy(e, loc)
<1>3. new = [tree EXCEPT !.files[q] = NoFile, !.cache[a] = f]
  BY <1>1, <1>2 DEF DeleteFile, Returns, Raises, IsFileOf
<1>4. /\ \A p \in Paths : new.files[p] = IF p = q THEN NoFile ELSE tree.files[p]
      /\ \A b \in Assets : new.cache[b] = IF b = a THEN f ELSE tree.cache[b]
  BY <1>1, <1>3 DEF FileSystem
<1>5. /\ \A b \in Assets : next[b] = IF b = a THEN NoPath ELSE loc[b]
      /\ NoPath \notin Paths /\ f # NoFile
  BY <1>1, TimelineAssumption, NoFileAssumption DEF MovedBy, Places
<1> HIDE DEF new, next
<1>6. ASSUME NEW p \in Paths, Present(new, p)
      PROVE  next[new.files[p].asset] = p /\ new.files[p].ver = ver[new.files[p].asset]
  <2>1. p # q /\ new.files[p] = tree.files[p] /\ Present(tree, p)
    BY <1>4, <1>6 DEF Present
  <2>2. tree.files[p].asset \in Assets /\ loc[tree.files[p].asset] = p
        /\ tree.files[p].ver = ver[tree.files[p].asset]
    BY <2>1 DEF Shows, Present, FileSystem, File
  <2> QED BY <1>1, <1>5, <2>1, <2>2
<1>7. ASSUME NEW b \in Assets, next[b] # NoPath
      PROVE  next[b] \in Paths /\ Present(new, next[b]) /\ new.files[next[b]].asset = b
  <2>1. b # a /\ next[b] = loc[b]
    BY <1>5, <1>7
  <2>2. loc[b] \in Paths /\ Present(tree, loc[b]) /\ tree.files[loc[b]].asset = b
    BY <1>7, <2>1 DEF Shows
  <2>3. loc[b] # q
    BY <1>2, <2>1, <2>2 DEF IsFileOf
  <2> QED BY <1>4, <2>1, <2>2, <2>3 DEF Present
<1>8. ASSUME NEW b \in Assets, next[b] = NoPath
      PROVE  new.cache[b] # NoFile /\ new.cache[b].asset = b /\ new.cache[b].ver = ver[b]
  BY <1>2, <1>4, <1>5, <1>8 DEF Shows, IsFileOf
<1> QED BY <1>6, <1>7, <1>8 DEF Shows, new, next

LEMMA AddShows ==
  ASSUME NEW tree \in FileSystem, NEW loc \in Places, NEW ver \in Versions,
         Shows(tree, {}, loc, ver), NEW e \in JournalEntries, e.act = "add_file",
         Fits(e, loc), Apart(MovedBy(e, loc)), AddFile(tree, e).ok
  PROVE  Shows(AddFile(tree, e).fs, {}, MovedBy(e, loc), ver)
<1>1. PICK a \in Assets, q \in Paths : e.asset = a /\ e.to = q /\ loc[a] = NoPath
  BY EntryAssets DEF Fits
<1>2. tree.cache[a] \in File /\ tree.cache[a].asset = a /\ tree.cache[a].ver = ver[a]
  BY <1>1 DEF Shows, FileSystem
<1> DEFINE mode == IF Present(tree, q) THEN tree.files[q].mode ELSE FileMode
<1>3. PICK f \in File : f = [tree.cache[a] EXCEPT !.mode = mode] /\ f.asset = a /\ f.ver = ver[a]
  <2>1. mode \in Mode
    BY DEF File, FileSystem, Present, FileMode, Mode
  <2> HIDE DEF mode
  <2>2. /\ [tree.cache[a] EXCEPT !.mode = mode] \in File
        /\ [tree.cache[a] EXCEPT !.mode = mode].asset = tree.cache[a].asset
        /\ [tree.cache[a] EXCEPT !.mode = mode].ver = tree.cache[a].ver
    BY <1>2, <2>1 DEF File
  <2> QED BY <1>2, <2>2
<1> DEFINE new  == AddFile(tree, e).fs
           next == MovedBy(e, loc)
<1>4. new = [Written(tree, q, tree.cache[a]) EXCEPT !.cache[a] = NoFile]
  BY <1>1 DEF AddFile, Returns, Raises
<1>5. Written(tree, q, tree.cache[a]) = [tree EXCEPT !.files[q] = f]
  BY <1>3 DEF Written
<1>6. /\ new \in FileSystem
      /\ \A p \in Paths : new.files[p] = IF p = q THEN f ELSE tree.files[p]
      /\ \A b \in Assets \ {a} : new.cache[b] = tree.cache[b]
  <2> DEFINE mid == Written(tree, q, tree.cache[a])
  <2>1. /\ mid \in FileSystem /\ mid.cache = tree.cache
        /\ \A p \in Paths : mid.files[p] = IF p = q THEN f ELSE tree.files[p]
    BY <1>3, <1>5 DEF FileSystem
  <2>2. new = [mid EXCEPT !.cache[a] = NoFile]
    BY <1>4
  <2> HIDE DEF mid, new
  <2> QED BY <2>1, <2>2 DEF FileSystem
<1>7. /\ next = [loc EXCEPT ![a] = q] /\ next \in Places /\ Apart(next)
      /\ ver = [ver EXCEPT ![a] = f.ver]
  BY <1>1, <1>3, MovedTyped DEF MovedBy, Versions
<1>8. \A p \in Paths : new.files[p] = IF p = q THEN f
                                       ELSE IF p = loc[a] \/ p \in {} THEN NoFile
                                       ELSE tree.files[p]
  BY <1>1, <1>6, TimelineAssumption
<1> HIDE DEF new, next
<1>9. Relocates(tree, {}, loc, ver, a, f, q, new, next, ver)
  BY <1>3, <1>6, <1>7, <1>8 DEF Relocates
<1> QED BY <1>6, <1>7, <1>9, Relocated DEF next, new

\* Media handlers: the new version takes the place of the one that was read.
LEMMA RewriteShows ==
  ASSUME NEW tree \in FileSystem, NEW loc \in Places, NEW ver \in Versions,
         Shows(tree, {}, loc, ver), NEW e \in JournalEntries, e.act \in MediaActions,
         Fits(e, loc), Apart(MovedBy(e, loc)), RewriteVersion(tree, e).ok
  PROVE  Shows(RewriteVersion(tree, e).fs, {}, MovedBy(e, loc), RewrittenBy(e, ver))
<1>1. PICK a \in Assets, p \in Paths, q \in Paths :
        e.asset = a /\ e.from = p /\ e.to = q /\ loc[a] = p
  BY EntryAssets DEF Fits, LocationActions, MediaActions
<1>2. PICK old \in File : IsFileOf(tree, ver, a, p, old)
  <2>1. \E f : IsFileOf(tree, ver, a, loc[a], f)
    BY <1>1, FileAtPlace
  <2> QED BY <1>1, <2>1 DEF IsFileOf
<1>3. PICK f \in File :
        f = Whole(old.asset, old.ver + 1) /\ f.asset = a /\ f.ver = ver[a] + 1
  <2>1. old.ver \in Nat /\ old.ver + 1 \in Nat /\ old.asset = a /\ old.ver = ver[a]
    BY <1>2 DEF File, IsFileOf
  <2> QED BY <2>1, WholeTyped DEF Whole
<1> DEFINE new  == RewriteVersion(tree, e).fs
           next == MovedBy(e, loc)
           vers == RewrittenBy(e, ver)
<1>4. new = [tree EXCEPT !.files = [@ EXCEPT ![p] = NoFile, ![q] = f]]
  BY <1>1, <1>2, <1>3 DEF RewriteVersion, Returns, Raises, IsFileOf
<1>5. new \in FileSystem /\ new.cache = tree.cache
  BY <1>1, <1>3, <1>4 DEF FileSystem
<1>6. \A x \in Paths : new.files[x] = IF x = q THEN f
                                       ELSE IF x = loc[a] \/ x \in {} THEN NoFile
                                       ELSE tree.files[x]
  BY <1>1, <1>4 DEF FileSystem
<1>7. vers = [ver EXCEPT ![a] = f.ver] /\ vers \in Versions /\ next \in Places /\ Apart(next)
  BY <1>1, <1>3, MovedTyped DEF RewrittenBy
<1>8. next = [loc EXCEPT ![a] = q]
  <2>1. CASE e.act = "remux_container"
    BY <1>1, <2>1 DEF MovedBy
  <2>2. CASE e.act = "edit_metadata"
    BY <1>1, <2>2 DEF MovedBy, Fits, Places
  <2> QED BY <2>1, <2>2 DEF MediaActions
<1> HIDE DEF new, next, vers
<1>9. Relocates(tree, {}, loc, ver, a, f, q, new, next, vers)
  BY <1>3, <1>5, <1>6, <1>7, <1>8 DEF Relocates
<1> QED BY <1>5, <1>7, <1>9, Relocated DEF next, new, vers

\* A hierarchy event that returns found a file of its own for every move and the
\* destinations free, so the files change places as their assets do.
LEMMA HierarchyShows ==
  ASSUME NEW tree \in FileSystem, NEW loc \in Places, NEW ver \in Versions,
         Shows(tree, {}, loc, ver), NEW e \in JournalEntries, e.act = "rename_season",
         Fits(e, loc), HierarchyMoves(tree, e).ok
  PROVE  Shows(HierarchyMoves(tree, e).fs, {}, MovedBy(e, loc), ver)
<1> DEFINE sources      == {m.from : m \in e.moves}
           destinations == {m.to : m \in e.moves}
           arrived(p)   == CHOOSE m \in e.moves : m.to = p
           new          == HierarchyMoves(tree, e).fs
           next         == MovedBy(e, loc)
<1>1. \A m \in e.moves : /\ m.from \in Paths /\ m.to \in Paths /\ m.asset \in Assets
                         /\ loc[m.asset] = m.from
  BY EntryAssets DEF Fits
<1>2. /\ \A m, n \in e.moves : m # n => m.from # n.from /\ m.to # n.to
      /\ \A p \in sources : Present(tree, p)
      /\ \A p \in destinations \ sources : ~Present(tree, p)
      /\ new = [tree EXCEPT !.files =
                   [p \in Paths |-> IF p \in destinations THEN tree.files[arrived(p).from]
                                    ELSE IF p \in sources THEN NoFile
                                    ELSE tree.files[p]]]
  BY DEF HierarchyMoves, Returns, Raises
<1>3. \A m \in e.moves : arrived(m.to) = m
  BY <1>2
<1>4. \A m \in e.moves : next[m.asset] = m.to
  <2>1. ASSUME NEW m \in e.moves PROVE (CHOOSE n \in e.moves : n.asset = m.asset) = m
    <3> DEFINE n == CHOOSE x \in e.moves : x.asset = m.asset
    <3>1. n \in e.moves /\ n.asset = m.asset
      OBVIOUS
    <3>2. n.from = m.from
      BY <1>1, <3>1
    <3> QED BY <1>2, <3>1, <3>2
  <2> QED BY <1>1, <2>1 DEF MovedBy
<1>5. \A a \in Assets : (\A m \in e.moves : m.asset # a) => next[a] = loc[a]
  BY DEF MovedBy
<1>6. /\ new.cache = tree.cache
      /\ \A m \in e.moves : new.files[m.to] = tree.files[m.from]
      /\ \A p \in Paths \ (sources \cup destinations) : new.files[p] = tree.files[p]
      /\ \A p \in sources \ destinations : new.files[p] = NoFile
  <2>1. \A p \in Paths : new.files[p] = IF p \in destinations THEN tree.files[arrived(p).from]
                                        ELSE IF p \in sources THEN NoFile
                                        ELSE tree.files[p]
    BY <1>2 DEF FileSystem
  <2>2. new.cache = tree.cache
    BY <1>2 DEF FileSystem
  <2>3. \A m \in e.moves : m.to \in Paths /\ m.to \in destinations /\ arrived(m.to).from = m.from
    BY <1>1, <1>3
  <2>4. sources \subseteq Paths
    BY <1>1
  <2> HIDE DEF new, arrived, destinations, sources
  <2> QED BY <2>1, <2>2, <2>3, <2>4
<1> HIDE DEF arrived, new, next
<1>7. ASSUME NEW m \in e.moves
      PROVE  /\ tree.files[m.from] # NoFile /\ tree.files[m.from].asset = m.asset
             /\ tree.files[m.from].ver = ver[m.asset]
  <2>1. Present(tree, m.from) /\ m.from # NoPath
    BY <1>1, <1>2, TimelineAssumption
  <2> QED BY <1>1, <2>1 DEF Shows, Present
<1>8. ASSUME NEW p \in Paths, Present(new, p)
      PROVE  next[new.files[p].asset] = p /\ new.files[p].ver = ver[new.files[p].asset]
  <2>1. CASE p \in destinations
    <3>1. PICK m \in e.moves : m.to = p
      BY <2>1
    <3> QED BY <1>4, <1>6, <1>7, <3>1
  <2>2. CASE p \notin destinations
    <3>1. p \notin sources /\ new.files[p] = tree.files[p] /\ Present(tree, p)
      BY <1>6, <1>8, <2>2 DEF Present
    <3>2. PICK a \in Assets : a = tree.files[p].asset
      BY <3>1 DEF FileSystem, File, Present
    <3>3. loc[a] = p /\ tree.files[p].ver = ver[a]
      BY <3>1, <3>2 DEF Shows
    <3>4. \A m \in e.moves : m.asset # a
      BY <1>1, <3>1, <3>3
    <3> QED BY <1>5, <3>1, <3>2, <3>3, <3>4
  <2> QED BY <2>1, <2>2
<1>9. ASSUME NEW a \in Assets, next[a] # NoPath
      PROVE  next[a] \in Paths /\ Present(new, next[a]) /\ new.files[next[a]].asset = a
  <2>1. CASE \E m \in e.moves : m.asset = a
    BY <1>1, <1>4, <1>6, <1>7, <2>1 DEF Present
  <2>2. CASE \A m \in e.moves : m.asset # a
    <3>1. PICK p \in Paths : p = loc[a] /\ Present(tree, p) /\ tree.files[p].asset = a
      BY <1>5, <1>9, <2>2 DEF Shows
    <3>2. p \notin sources
      BY <1>7, <2>2, <3>1
    <3>3. p \notin destinations
      BY <1>2, <3>1, <3>2
    <3> QED BY <1>5, <1>6, <2>2, <3>1, <3>2, <3>3 DEF Present
  <2> QED BY <2>1, <2>2
<1>10. ASSUME NEW a \in Assets, next[a] = NoPath
       PROVE  new.cache[a] # NoFile /\ new.cache[a].asset = a /\ new.cache[a].ver = ver[a]
  <2>1. loc[a] = NoPath
    <3>1. \A m \in e.moves : m.to # NoPath
      BY <1>1, TimelineAssumption
    <3> QED BY <1>4, <1>5, <1>10, <3>1
  <2> QED BY <1>6, <2>1 DEF Shows
<1> QED BY <1>8, <1>9, <1>10 DEF Shows, new, next

\* Every handler of phase B but for slow copies, which the runner has its own for
LEMMA DispatchShows ==
  ASSUME NEW tree \in FileSystem, NEW loc \in Places, NEW ver \in Versions,
         Shows(tree, {}, loc, ver), NEW i, NEW e \in JournalEntries, e.act \in PhaseBActions,
         Fits(e, loc), Apart(MovedBy(e, loc)), Dispatch(tree, i, e).ok
  PROVE  Shows(Dispatch(tree, i, e).fs, {}, MovedBy(e, loc), RewrittenBy(e, ver))
<1>1. CASE e.act = "move_asset"
  BY <1>1, MoveShows DEF Dispatch, MediaActions, RewrittenBy
<1>2. CASE e.act = "delete_file"
  BY <1>2, DeleteShows DEF Dispatch, MediaActions, RewrittenBy
<1>3. CASE e.act = "add_file"
  BY <1>3, AddShows DEF Dispatch, MediaActions, RewrittenBy
<1>4. CASE e.act \in MediaActions
  BY <1>4, RewriteShows DEF Dispatch, MediaActions
<1>5. CASE e.act = "touch_mtime"
  BY <1>5 DEF Dispatch, MediaActions, RewrittenBy, MovedBy, TouchMtime, Returns, Raises
<1>6. CASE e.act = "rename_season"
  BY <1>6, HierarchyShows DEF Dispatch, MediaActions, RewrittenBy
<1> QED BY <1>1, <1>2, <1>3, <1>4, <1>5, <1>6 DEF PhaseBActions

(***************************************************************************)
(* Plans.                                                                  *)
(***************************************************************************)

\* The lags that withhold something after n entries, the asset each is about, and
\* what the tree has to show then
Late(n)         == WithheldAfter(plan, n)
AssetOf(s)      == Entry(Entry(s).ref).asset
SeenPlaces(n)   == [a \in Assets |-> PlaceAfter(plan, n, a)]
SeenVersions(n) == [a \in Assets |-> Oracle(ShownAfter(plan, n, a)).ver[a]]

\* The engine's worlds change as the entries say.
LEMMA WorldStep ==
  ASSUME EnginePlans, plan \in Plans, NEW i \in DOMAIN Journal
  PROVE  /\ Oracle(i) \in World /\ Oracle(i - 1) \in World
         /\ Oracle(i).loc = MovedBy(Entry(i), Oracle(i - 1).loc)
         /\ Oracle(i).ver = RewrittenBy(Entry(i), Oracle(i - 1).ver)
         /\ Fits(Entry(i), Oracle(i - 1).loc)
<1> DEFINE e == Entry(i)
           w == Oracle(i - 1)
<1>1. /\ Len(Journal) \in Nat /\ i \in 1..Len(Journal) /\ e \in JournalEntries
      /\ WellPaired(Journal)
  BY PlanTyped
<1>2. w \in World /\ Oracle(i) \in World
  BY <1>1 DEF EnginePlans, Oracle, Journal
<1>3. /\ Oracle(i) = ApplyEvent(w, Journal, i)
      /\ e = JournalEntry(plan.worlds, Journal, i)
      /\ e.act = "add_file" => w.loc[e.asset] = NoPath
  BY DEF EnginePlans, Oracle, Journal, Entry, Is
<1>4. e = Journal[i] /\ w = plan.worlds[i - 1]
  BY DEF Entry, Oracle
<1> HIDE DEF w
<1> DEFINE next == Oracle(i)
<1>5. CASE e.act \in {"move_asset", "add_file", "remux_container", "delete_file", "edit_metadata"}
  <2>1. e.act # "add_file" => e.from = w.loc[e.asset]
    BY <1>1, <1>3, <1>4, <1>5 DEF JournalEntry, JournalEntries
  <2>2. e.act = "edit_metadata" => e.to = e.from
    BY <1>1, <1>3, <1>4, <1>5 DEF JournalEntry, JournalEntries
  <2>3. Fits(e, w.loc)
    BY <1>3, <1>5, <2>1, <2>2 DEF Fits, LocationActions
  <2>4. /\ e.act \in {"move_asset", "add_file"} => next = [w EXCEPT !.loc[e.asset] = e.to]
        /\ e.act = "delete_file" =>
                next = [w EXCEPT !.loc[e.asset] = NoPath, !.managed = @ \ {e.asset}]
        /\ e.act = "edit_metadata" => next = [w EXCEPT !.ver[e.asset] = @ + 1]
        /\ e.act = "remux_container" =>
                next = [w EXCEPT !.ver[e.asset] = @ + 1, !.loc[e.asset] = e.to]
    BY <1>3, <1>4 DEF ApplyEvent
  <2> HIDE DEF next, e
  <2>5. /\ e.act \in {"move_asset", "add_file", "remux_container"} =>
                next.loc = [w.loc EXCEPT ![e.asset] = e.to]
        /\ e.act = "delete_file" => next.loc = [w.loc EXCEPT ![e.asset] = NoPath]
        /\ e.act = "edit_metadata" => next.loc = w.loc
    BY <1>2, <2>4 DEF World
  <2>6. /\ e.act \in {"edit_metadata", "remux_container"} =>
                next.ver = [w.ver EXCEPT ![e.asset] = @ + 1]
        /\ e.act \in {"move_asset", "add_file", "delete_file"} => next.ver = w.ver
    BY <1>2, <2>4 DEF World
  <2>7. next.loc = MovedBy(e, w.loc) /\ next.ver = RewrittenBy(e, w.ver)
    BY <1>5, <2>5, <2>6 DEF MovedBy, RewrittenBy, MediaActions
  <2> QED BY <1>2, <2>3, <2>7 DEF w, next, e
<1>6. CASE e.act = "rename_season"
  <2>1. e.moves = EffectiveMoves(w, Journal[i])
    BY <1>1, <1>3, <1>4, <1>6 DEF JournalEntry, JournalEntries
  <2>2. \A m \in e.moves : w.loc[m.asset] = m.from
    <3>1. ASSUME NEW m \in e.moves PROVE w.loc[m.asset] = m.from
      <4>1. PICK n \in e.moves : m = [n EXCEPT !.from = w.loc[n.asset]]
        BY <1>4, <2>1 DEF EffectiveMoves
      <4>2. n \in [asset : Assets, from : Paths \cup {NoPath}, to : Paths \cup {NoPath}]
        BY <1>1 DEF JournalEntries
      <4> QED BY <4>1, <4>2
    <3> QED BY <3>1
  <2>3. Fits(e, w.loc)
    BY <1>6, <2>2 DEF Fits, LocationActions
  <2>4. next = [w EXCEPT !.loc = MovedBy(e, w.loc)]
    BY <1>3, <1>4, <1>6, <2>1 DEF ApplyEvent, MovedBy
  <2>5. next.loc = MovedBy(e, w.loc) /\ next.ver = RewrittenBy(e, w.ver)
    <3> HIDE DEF next, e
    <3> QED BY <1>2, <1>6, <2>4 DEF RewrittenBy, MediaActions, World
  <2> QED BY <1>2, <2>3, <2>5 DEF w
<1>7. CASE e.act = "slow_copy_commit"
  <2> DEFINE s == Journal[e.ref]
  <2>1. e.asset = s.asset /\ e.to = s.to
    <3>1. e = [Journal[i] EXCEPT !.asset = Journal[Journal[i].ref].asset,
                                 !.to = Journal[Journal[i].ref].to]
      BY <1>3, <1>4, <1>7 DEF JournalEntry
    <3> QED BY <1>1, <1>4, <3>1 DEF JournalEntries
  <2>2. Fits(e, w.loc)
    BY <1>7 DEF Fits, LocationActions
  <2>3. next = [w EXCEPT !.loc[s.asset] = s.to, !.temp[s.asset] = NoPath]
    BY <1>3, <1>4, <1>7 DEF ApplyEvent
  <2> HIDE DEF next, e, s
  <2>4. next.loc = [w.loc EXCEPT ![s.asset] = s.to] /\ next.ver = w.ver
    BY <1>2, <2>3 DEF World
  <2>5. next.loc = MovedBy(e, w.loc) /\ next.ver = RewrittenBy(e, w.ver)
    BY <1>7, <2>1, <2>4 DEF MovedBy, RewrittenBy, MediaActions
  <2> QED BY <1>2, <2>2, <2>5 DEF w, next, e
<1>8. CASE e.act \in {"slow_copy_start", "touch_mtime"}
  <2>1. e.from = w.loc[e.asset]
    BY <1>1, <1>3, <1>4, <1>8 DEF JournalEntry, JournalEntries
  <2>2. Fits(e, w.loc)
    BY <1>8, <2>1 DEF Fits
  <2>3. Oracle(i).loc = MovedBy(e, w.loc) /\ Oracle(i).ver = RewrittenBy(e, w.ver)
    BY <1>2, <1>3, <1>4, <1>8 DEF ApplyEvent, MovedBy, RewrittenBy, MediaActions, World
  <2> QED BY <1>2, <2>2, <2>3 DEF w
<1>9. CASE e.act \notin {"move_asset", "add_file", "remux_container", "delete_file",
                        "edit_metadata", "rename_season", "slow_copy_commit",
                        "slow_copy_start", "touch_mtime"}
  <2>1. Fits(e, w.loc)
    BY <1>9 DEF Fits, LocationActions
  <2>2. Oracle(i).loc = MovedBy(e, w.loc) /\ Oracle(i).ver = RewrittenBy(e, w.ver)
    BY <1>2, <1>3, <1>4, <1>9 DEF ApplyEvent, MovedBy, RewrittenBy, MediaActions, World
  <2> QED BY <1>2, <2>1, <2>2 DEF w
<1> QED BY <1>5, <1>6, <1>7, <1>8, <1>9

\* What an entry does to one asset depends on that asset alone, and is nothing
\* for an asset that the entry is not about.
LEMMA MovesAreLocal ==
  ASSUME NEW e \in JournalEntries, NEW loc \in Places, NEW loc2 \in Places,
         NEW ver \in Versions, NEW ver2 \in Versions, NEW b \in Assets
  PROVE  /\ loc[b] = loc2[b] => MovedBy(e, loc)[b] = MovedBy(e, loc2)[b]
         /\ ver[b] = ver2[b] => RewrittenBy(e, ver)[b] = RewrittenBy(e, ver2)[b]
         /\ ~ActsOn(e, b) => MovedBy(e, loc)[b] = loc[b] /\ RewrittenBy(e, ver)[b] = ver[b]
         /\ e.asset # b /\ e.act # "rename_season" =>
                MovedBy(e, loc)[b] = loc[b] /\ RewrittenBy(e, ver)[b] = ver[b]
<1>1. CASE e.act = "rename_season"
  BY <1>1 DEF MovedBy, RewrittenBy, ActsOn, MediaActions
<1>2. CASE e.act # "rename_season"
  <2>1. /\ loc[b] = loc2[b] => MovedBy(e, loc)[b] = MovedBy(e, loc2)[b]
        /\ e.asset # b => MovedBy(e, loc)[b] = loc[b]
        /\ e.act \in {"network_lag_start", "network_lag_commit"} => MovedBy(e, loc) = loc
    BY <1>2, EntryAssets DEF MovedBy, Places
  <2>2. /\ ver[b] = ver2[b] => RewrittenBy(e, ver)[b] = RewrittenBy(e, ver2)[b]
        /\ e.asset # b => RewrittenBy(e, ver)[b] = ver[b]
        /\ e.act \in {"network_lag_start", "network_lag_commit"} => RewrittenBy(e, ver) = ver
    BY <1>2, EntryAssets DEF RewrittenBy, Versions, MediaActions, LocationActions
  <2> QED BY <1>2, <2>1, <2>2 DEF ActsOn
<1> QED BY <1>1, <1>2

\* A lag withholds the entry before it: no slow copy, no hierarchy event, no lag.
LEMMA LagOverEntry ==
  ASSUME CopiesNotWrapped, plan \in Plans, NEW s \in DOMAIN Journal, Withholds(Journal, s)
  PROVE  /\ s \in Nat /\ s - 1 \in DOMAIN Journal /\ Entry(s).ref = s - 1
         /\ Entry(s - 1).act \in PhaseBActions \ {"rename_season"}
         /\ AssetOf(s) = Entry(s - 1).asset /\ AssetOf(s) \in Assets
<1>1. /\ DOMAIN Journal = 1..Len(Journal) /\ Len(Journal) \in Nat
      /\ \A i \in DOMAIN Journal : Entry(i) \in JournalEntries
      /\ WellPaired(Journal)
  BY PlanTyped
<1>2. Entry(s).act = "network_lag_start" /\ Entry(s).effect # "held_handle"
  BY DEF Withholds, Is, Entry
<1>3. /\ s \in Nat /\ Entry(s).ref = s - 1 /\ s - 1 \in DOMAIN Journal
      /\ Entry(s - 1).act \in DelayedVisibilityAfter \cup DelayedRenameAfter
  BY <1>1, <1>2 DEF WellPaired, Entry
<1>4. Entry(s - 1).act # "slow_copy_commit"
  BY <1>3 DEF CopiesNotWrapped, Is, Entry, Journal
<1>5. Entry(s - 1).act \in {"move_asset", "delete_file", "add_file"} \cup MediaActions
  BY <1>3, <1>4 DEF DelayedVisibilityAfter, DelayedRenameAfter, MediaActions
<1>6. Entry(s - 1).asset \in Assets
  BY <1>1, <1>3, <1>5, EntryAssets DEF LocationActions, MediaActions
<1> QED BY <1>3, <1>5, <1>6 DEF AssetOf, PhaseBActions, MediaActions

LEMMA LagOverIsNext ==
  ASSUME CopiesNotWrapped, plan \in Plans, NEW i \in Nat, NEW s
  PROVE  s \in LagOver(i) <=> s \in DOMAIN Journal /\ Withholds(Journal, s) /\ s = i + 1
<1>1. s \in LagOver(i) <=> s \in DOMAIN Journal /\ Withholds(Journal, s) /\ Entry(s).ref = i
  BY DEF LagOver, Withholds, Is, Entry
<1>2. s \in DOMAIN Journal /\ Withholds(Journal, s) => s \in Nat /\ Entry(s).ref = s - 1
  BY LagOverEntry
<1> QED BY <1>1, <1>2

LEMMA LateEntry ==
  ASSUME CopiesNotWrapped, plan \in Plans, NEW n \in 0..Len(Journal), NEW s \in Late(n)
  PROVE  /\ s \in DOMAIN Journal /\ Withholds(Journal, s)
         /\ s \in Nat /\ Entry(s).ref = s - 1 /\ s - 1 \in 1..n /\ s - 1 \in DOMAIN Journal
         /\ Entry(s - 1).act \in PhaseBActions \ {"rename_season"}
         /\ AssetOf(s) = Entry(s - 1).asset /\ AssetOf(s) \in Assets
<1>1. s \in DOMAIN Journal /\ Withholds(Journal, s) /\ Entry(s).ref <= n
  BY DEF Late, WithheldAfter, Journal, Entry
<1>2. s \in Nat /\ s - 1 \in DOMAIN Journal /\ Entry(s).ref = s - 1
  BY <1>1, LagOverEntry
<1>3. s - 1 \in 1..n
  BY <1>1, <1>2, PlanTyped
<1> QED BY <1>1, <1>2, <1>3, LagOverEntry

\* The lag whose commit entry i is
Released(i) == {s \in Late(i - 1) : Entry(i).act = "network_lag_commit" /\ Entry(i).ref = s}

LEMMA LateNext ==
  ASSUME CopiesNotWrapped, plan \in Plans, NEW i \in DOMAIN Journal
  PROVE  Late(i) = (Late(i - 1) \ Released(i)) \cup LagOver(i)
<1>1. Len(Journal) \in Nat /\ DOMAIN Journal = 1..Len(Journal) /\ i \in 1..Len(Journal)
      /\ i \in Nat
  BY PlanTyped
<1>2. ASSUME NEW n \in 0..Len(Journal), NEW s
      PROVE  s \in Late(n) <=>
                /\ s \in DOMAIN Journal /\ Withholds(Journal, s) /\ s - 1 <= n
                /\ \A c \in 1..n : ~(Entry(c).act = "network_lag_commit" /\ Entry(c).ref = s)
  <2>1. s \in Late(n) <=>
                /\ s \in DOMAIN Journal /\ Withholds(Journal, s) /\ Entry(s).ref <= n
                /\ \A c \in 1..n : ~(Entry(c).act = "network_lag_commit" /\ Entry(c).ref = s)
    BY DEF Late, WithheldAfter, Journal, Entry, Is
  <2> QED BY <2>1, LagOverEntry
<1>3. ASSUME NEW s, s \in DOMAIN Journal, Withholds(Journal, s)
      PROVE  s \in Late(i) <=> s \in (Late(i - 1) \ Released(i)) \cup LagOver(i)
  <2>1. s \in Nat
    BY <1>3, LagOverEntry
  <2>2. s \in LagOver(i) <=> s = i + 1
    BY <1>1, <1>3, LagOverIsNext
  <2>3. \A c \in 1..i : Entry(c).act = "network_lag_commit" => Entry(c).ref < c
    BY <1>1, PlanTyped DEF WellPaired, Entry
  <2>4. CASE s = i + 1
    <3>1. \A c \in 1..i : ~(Entry(c).act = "network_lag_commit" /\ Entry(c).ref = s)
      BY <1>1, <2>3, <2>4
    <3>2. s - 1 <= i
      BY <1>1, <2>4
    <3>3. s \in Late(i)
      BY <1>1, <1>2, <1>3, <3>1, <3>2
    <3> QED BY <2>2, <2>4, <3>3
  <2>5. CASE s # i + 1
    <3>1. s - 1 <= i <=> s - 1 <= i - 1
      BY <1>1, <2>1, <2>5
    <3>2. 1..i = (1..(i - 1)) \cup {i}
      BY <1>1
    <3>3. s \in Late(i) <=> /\ s - 1 <= i
                            /\ \A c \in 1..i : ~(Entry(c).act = "network_lag_commit"
                                                    /\ Entry(c).ref = s)
      BY <1>1, <1>2, <1>3
    <3>4. s \in Late(i - 1) <=> /\ s - 1 <= i - 1
                                /\ \A c \in 1..(i - 1) :
                                        ~(Entry(c).act = "network_lag_commit" /\ Entry(c).ref = s)
      BY <1>1, <1>2, <1>3
    <3>5. s \in Late(i) <=>
            s \in Late(i - 1) /\ ~(Entry(i).act = "network_lag_commit" /\ Entry(i).ref = s)
      BY <3>1, <3>2, <3>3, <3>4
    <3> QED BY <2>2, <2>5, <3>5 DEF Released
  <2> QED BY <2>4, <2>5
<1>4. \A s : \/ s \in Late(i) \/ s \in Late(i - 1) \/ s \in LagOver(i)
             => s \in DOMAIN Journal /\ Withholds(Journal, s)
  <2>1. \A s : s \in LagOver(i) => s \in DOMAIN Journal /\ Withholds(Journal, s)
    BY <1>1, LagOverIsNext
  <2> QED BY <1>1, <1>2, <2>1
<1> QED BY <1>3, <1>4

\* An asset whose event is withheld is left alone, so one event of it is withheld.
LEMMA LateRests ==
  ASSUME WithheldRest, CopiesNotWrapped, plan \in Plans, NEW i \in DOMAIN Journal,
         NEW s \in Late(i - 1)
  PROVE  ~ActsOn(Entry(i), AssetOf(s))
  BY DEF WithheldRest, Late, AssetOf, Entry, Journal

LEMMA LateIsOne ==
  ASSUME WithheldRest, CopiesNotWrapped, plan \in Plans, NEW n \in 0..Len(Journal),
         NEW s \in Late(n), NEW t \in Late(n), AssetOf(s) = AssetOf(t)
  PROVE  s = t
<1>1. ASSUME NEW x \in Late(n), NEW y \in Late(n), AssetOf(x) = AssetOf(y), x < y
      PROVE  FALSE
  <2>1. /\ x \in DOMAIN Journal /\ Withholds(Journal, x) /\ x \in Nat /\ Entry(x).ref = x - 1
        /\ y \in Nat /\ y - 1 \in 1..n /\ y - 1 \in DOMAIN Journal
        /\ Entry(y - 1).act \in PhaseBActions /\ AssetOf(y) = Entry(y - 1).asset
    BY LateEntry
  <2>2. ActsOn(Entry(y - 1), AssetOf(x))
    BY <1>1, <2>1 DEF ActsOn, PhaseBActions, MediaActions
  <2>3. x \in Late((y - 1) - 1)
    <3>1. Entry(x).ref <= (y - 1) - 1 /\ 1..((y - 1) - 1) \subseteq 1..n
      BY <1>1, <2>1
    <3> QED BY <2>1, <3>1 DEF Late, WithheldAfter, Journal, Entry
  <2> QED BY <2>1, <2>2, <2>3, LateRests
<1>2. s \in Nat /\ t \in Nat
  BY LateEntry
<1> QED BY <1>1, <1>2

\* The place and the version of an asset that nothing is withheld of, and of one
\* that something is withheld of.
LEMMA SeenAsPlanned ==
  ASSUME plan \in Plans, NEW n \in 0..Len(Journal), NEW a \in Assets,
         \A s \in Late(n) : AssetOf(s) # a
  PROVE  SeenPlaces(n)[a] = Oracle(n).loc[a] /\ SeenVersions(n)[a] = Oracle(n).ver[a]
<1>1. {d \in WithheldAfter(plan, n) : plan.journal[plan.journal[d].ref].asset = a} = {}
  BY DEF Late, AssetOf, Entry, Journal
<1>2. ShownAfter(plan, n, a) = n
  BY <1>1 DEF ShownAfter
<1> QED BY <1>2 DEF SeenPlaces, SeenVersions, PlaceAfter, Oracle

LEMMA SeenBehind ==
  ASSUME WithheldRest, CopiesNotWrapped, plan \in Plans, NEW n \in 0..Len(Journal),
         NEW s \in Late(n), NEW a \in Assets, AssetOf(s) = a
  PROVE  /\ SeenPlaces(n)[a] = Oracle((s - 1) - 1).loc[a]
         /\ SeenVersions(n)[a] = Oracle((s - 1) - 1).ver[a]
         /\ ShownAfter(plan, n, a) = (s - 1) - 1
<1> DEFINE late == {d \in WithheldAfter(plan, n) :
                        plan.journal[plan.journal[d].ref].asset = a}
           held == {plan.journal[d].ref : d \in late}
<1>1. late = {s}
  <2>1. \A d : d \in late <=> d \in Late(n) /\ AssetOf(d) = a
    BY DEF Late, AssetOf, Entry, Journal
  <2> QED BY <2>1, LateIsOne
<1>2. plan.journal[s].ref = s - 1 /\ s \in Nat
  BY LateEntry DEF Entry, Journal
<1>3. held = {s - 1}
  BY <1>1, <1>2
<1> HIDE DEF held, late
<1>4. (CHOOSE i \in held : \A j \in held : i <= j) = s - 1
  <2>1. s - 1 \in held /\ \A j \in held : s - 1 <= j
    BY <1>2, <1>3
  <2> DEFINE least == CHOOSE i \in held : \A j \in held : i <= j
  <2>2. least \in held
    BY <2>1
  <2> QED BY <1>3, <2>2
<1>5. ShownAfter(plan, n, a) = IF held = {} THEN n
                               ELSE (CHOOSE i \in held : \A j \in held : i <= j) - 1
  BY DEF ShownAfter, held, late
<1>6. ShownAfter(plan, n, a) = (s - 1) - 1
  BY <1>3, <1>4, <1>5
<1> QED BY <1>6 DEF SeenPlaces, SeenVersions, PlaceAfter, Oracle

LEMMA WorldsTyped ==
  ASSUME EnginePlans, plan \in Plans, NEW n \in 0..Len(Journal)
  PROVE  Oracle(n).loc \in Places /\ Oracle(n).ver \in Versions
<1>1. Oracle(n) \in World
  BY DEF EnginePlans, Oracle, Journal
<1> QED BY <1>1 DEF World, Places, Versions

LEMMA SeenTyped ==
  ASSUME EnginePlans, WithheldRest, CopiesNotWrapped, plan \in Plans, NEW n \in 0..Len(Journal)
  PROVE  SeenPlaces(n) \in Places /\ SeenVersions(n) \in Versions
<1>1. ASSUME NEW a \in Assets
      PROVE  SeenPlaces(n)[a] \in Paths \cup {NoPath} /\ SeenVersions(n)[a] \in Nat
  <2>1. CASE \A s \in Late(n) : AssetOf(s) # a
    BY <2>1, SeenAsPlanned, WorldsTyped DEF Places, Versions
  <2>2. CASE \E s \in Late(n) : AssetOf(s) = a
    <3>1. PICK s \in Late(n) : AssetOf(s) = a
      BY <2>2
    <3>2. (s - 1) - 1 \in 0..Len(Journal)
      BY <3>1, LateEntry, PlanTyped
    <3> QED BY <3>1, <3>2, SeenBehind, WorldsTyped DEF Places, Versions
  <2> QED BY <2>1, <2>2
<1> QED BY <1>1 DEF SeenPlaces, SeenVersions, Places, Versions

\* The files whose event is withheld were, in the manifest, last touched by that
\* event, so dispatching it late leads to the manifest of now.
Rest(n) == \A s \in Late(n) :
              /\ Oracle(n).loc[AssetOf(s)] = Oracle(s - 1).loc[AssetOf(s)]
              /\ Oracle(n).ver[AssetOf(s)] = Oracle(s - 1).ver[AssetOf(s)]

\* An entry that nothing is withheld of any more does not change what the tree shows
\* when it is withheld itself.
LEMMA SeenWithheld ==
  ASSUME EnginePlans, WithheldRest, CopiesNotWrapped, plan \in Plans, NEW i \in DOMAIN Journal,
         LagOver(i) # {}
  PROVE  /\ Late(i) = Late(i - 1) \cup LagOver(i)
         /\ SeenPlaces(i) = SeenPlaces(i - 1) /\ SeenVersions(i) = SeenVersions(i - 1)
<1>1. /\ Len(Journal) \in Nat /\ i \in Nat /\ i \in 0..Len(Journal) /\ i - 1 \in 0..Len(Journal)
      /\ Entry(i) \in JournalEntries
  BY PlanTyped
<1>2. PICK s \in LagOver(i) : TRUE
  OBVIOUS
<1>3. s = i + 1 /\ s \in DOMAIN Journal /\ Withholds(Journal, s)
  BY <1>1, LagOverIsNext
<1>4. /\ s - 1 = i /\ Entry(i).act \in PhaseBActions \ {"rename_season"}
      /\ AssetOf(s) = Entry(i).asset /\ AssetOf(s) \in Assets
  BY <1>1, <1>3, LagOverEntry
<1>5. Late(i) = Late(i - 1) \cup LagOver(i)
  <2>1. Released(i) = {}
    BY <1>4 DEF Released, PhaseBActions, MediaActions
  <2> QED BY <2>1, LateNext
<1>6. \A t \in Late(i - 1) : AssetOf(t) # AssetOf(s)
  BY <1>4, LateRests DEF ActsOn, PhaseBActions, MediaActions
<1>7. LagOver(i) = {s}
  BY <1>1, <1>3, LagOverIsNext
<1>8. ASSUME NEW b \in Assets
      PROVE  SeenPlaces(i)[b] = SeenPlaces(i - 1)[b] /\ SeenVersions(i)[b] = SeenVersions(i - 1)[b]
  <2>1. CASE b = AssetOf(s)
    <3>1. SeenPlaces(i)[b] = Oracle(i - 1).loc[b] /\ SeenVersions(i)[b] = Oracle(i - 1).ver[b]
      <4>1. s \in Late(i)
        BY <1>5
      <4> QED BY <1>1, <1>4, <2>1, <4>1, SeenBehind
    <3> QED BY <1>1, <1>6, <2>1, <3>1, SeenAsPlanned
  <2>2. CASE b # AssetOf(s) /\ \E t \in Late(i - 1) : AssetOf(t) = b
    <3>1. PICK t \in Late(i - 1) : AssetOf(t) = b
      BY <2>2
    <3>2. t \in Late(i)
      BY <1>5
    <3> QED BY <1>1, <3>1, <3>2, SeenBehind
  <2>3. CASE b # AssetOf(s) /\ \A t \in Late(i - 1) : AssetOf(t) # b
    <3>1. \A t \in Late(i) : AssetOf(t) # b
      BY <1>5, <1>7, <2>3
    <3>2. Oracle(i).loc[b] = Oracle(i - 1).loc[b] /\ Oracle(i).ver[b] = Oracle(i - 1).ver[b]
      BY <1>1, <1>4, <2>3, WorldStep, WorldsTyped, MovesAreLocal
    <3> QED BY <1>1, <2>3, <3>1, <3>2, SeenAsPlanned
  <2> QED BY <2>1, <2>2, <2>3
<1> QED BY <1>1, <1>5, <1>8, SeenTyped DEF Places, Versions

\* What an entry does to the assets that it is about rests on their places alone.
LEMMA FitsLocally ==
  ASSUME NEW e \in JournalEntries, NEW loc \in Places, NEW loc2 \in Places, Fits(e, loc),
         e.act \notin {"network_lag_start", "network_lag_commit"},
         \A b \in Assets : ActsOn(e, b) => loc2[b] = loc[b]
  PROVE  Fits(e, loc2)
<1>1. e.act \in LocationActions \cup {"add_file"} => loc2[e.asset] = loc[e.asset]
  BY EntryAssets DEF ActsOn
<1>2. \A m \in e.moves : loc2[m.asset] = loc[m.asset]
  BY EntryAssets DEF ActsOn
<1> QED BY <1>1, <1>2 DEF Fits

\* An entry whose handler runs now does to what the tree shows what it does to the
\* manifest.
LEMMA SeenExecuted ==
  ASSUME EnginePlans, WithheldRest, CopiesNotWrapped, plan \in Plans, NEW i \in DOMAIN Journal,
         LagOver(i) = {}, Released(i) = {}
  PROVE  /\ Late(i) = Late(i - 1)
         /\ SeenPlaces(i) = MovedBy(Entry(i), SeenPlaces(i - 1))
         /\ SeenVersions(i) = RewrittenBy(Entry(i), SeenVersions(i - 1))
         /\ Fits(Entry(i), SeenPlaces(i - 1))
<1> DEFINE e == Entry(i)
           loc == SeenPlaces(i - 1)
           ver == SeenVersions(i - 1)
<1>1. /\ Len(Journal) \in Nat /\ i \in Nat /\ i \in 0..Len(Journal) /\ i - 1 \in 0..Len(Journal)
      /\ e \in JournalEntries
  BY PlanTyped
<1>2. Late(i) = Late(i - 1)
  BY LateNext
<1>3. loc \in Places /\ ver \in Versions
  BY <1>1, SeenTyped
<1>4. Oracle(i - 1).loc \in Places /\ Oracle(i - 1).ver \in Versions
  BY <1>1, WorldsTyped
<1>5. /\ Oracle(i).loc = MovedBy(e, Oracle(i - 1).loc)
      /\ Oracle(i).ver = RewrittenBy(e, Oracle(i - 1).ver)
      /\ Fits(e, Oracle(i - 1).loc)
  BY WorldStep
<1>6. ASSUME NEW b \in Assets, \A t \in Late(i - 1) : AssetOf(t) # b
      PROVE  /\ loc[b] = Oracle(i - 1).loc[b] /\ ver[b] = Oracle(i - 1).ver[b]
             /\ SeenPlaces(i)[b] = Oracle(i).loc[b] /\ SeenVersions(i)[b] = Oracle(i).ver[b]
  BY <1>1, <1>2, <1>6, SeenAsPlanned
<1>7. ASSUME NEW b \in Assets, NEW t \in Late(i - 1), AssetOf(t) = b
      PROVE  SeenPlaces(i)[b] = loc[b] /\ SeenVersions(i)[b] = ver[b] /\ ~ActsOn(e, b)
  BY <1>1, <1>2, <1>7, SeenBehind, LateRests
<1> HIDE DEF e, loc, ver
<1>8. ASSUME NEW b \in Assets
      PROVE  SeenPlaces(i)[b] = MovedBy(e, loc)[b] /\ SeenVersions(i)[b] = RewrittenBy(e, ver)[b]
  <2>1. CASE \A t \in Late(i - 1) : AssetOf(t) # b
    <3>1. loc[b] = Oracle(i - 1).loc[b] /\ ver[b] = Oracle(i - 1).ver[b]
      BY <1>6, <2>1
    <3>2. /\ MovedBy(e, loc)[b] = MovedBy(e, Oracle(i - 1).loc)[b]
          /\ RewrittenBy(e, ver)[b] = RewrittenBy(e, Oracle(i - 1).ver)[b]
      BY <1>1, <1>3, <1>4, <3>1, MovesAreLocal
    <3> QED BY <1>5, <1>6, <2>1, <3>2
  <2>2. CASE \E t \in Late(i - 1) : AssetOf(t) = b
    <3>1. SeenPlaces(i)[b] = loc[b] /\ SeenVersions(i)[b] = ver[b] /\ ~ActsOn(e, b)
      BY <1>7, <2>2
    <3> QED BY <1>1, <1>3, <3>1, MovesAreLocal
  <2> QED BY <2>1, <2>2
<1>9. /\ SeenPlaces(i) \in Places /\ MovedBy(e, loc) \in Places
      /\ SeenVersions(i) \in Versions /\ RewrittenBy(e, ver) \in Versions
  BY <1>1, <1>3, SeenTyped, MovedTyped
<1>10. SeenPlaces(i) = MovedBy(e, loc) /\ SeenVersions(i) = RewrittenBy(e, ver)
  BY <1>8, <1>9 DEF Places, Versions
<1>11. Fits(e, loc)
  <2>1. CASE e.act \in {"network_lag_start", "network_lag_commit"}
    BY <2>1 DEF Fits, LocationActions
  <2>2. CASE e.act \notin {"network_lag_start", "network_lag_commit"}
    <3>1. \A b \in Assets : ActsOn(e, b) => loc[b] = Oracle(i - 1).loc[b]
      BY <1>6, <1>7
    <3> QED BY <1>1, <1>3, <1>4, <1>5, <2>2, <3>1, FitsLocally
  <2> QED BY <2>1, <2>2
<1> QED BY <1>2, <1>10, <1>11 DEF e, loc, ver

\* The commit of a lag: the event that it withheld is dispatched now, to the tree of
\* now, and the asset comes to where the manifest has it.
LEMMA SeenReleased ==
  ASSUME EnginePlans, WithheldRest, CopiesNotWrapped, plan \in Plans, NEW i \in DOMAIN Journal,
         LagOver(i) = {}, NEW s \in Released(i), Rest(i - 1)
  PROVE  /\ Late(i) = Late(i - 1) \ {s}
         /\ SeenPlaces(i) = MovedBy(Entry(s - 1), SeenPlaces(i - 1))
         /\ SeenVersions(i) = RewrittenBy(Entry(s - 1), SeenVersions(i - 1))
         /\ Fits(Entry(s - 1), SeenPlaces(i - 1))
<1> DEFINE j == s - 1
           e == Entry(j)
           a == AssetOf(s)
           loc == SeenPlaces(i - 1)
           ver == SeenVersions(i - 1)
<1>1. /\ Len(Journal) \in Nat /\ i \in Nat /\ i \in 0..Len(Journal) /\ i - 1 \in 0..Len(Journal)
      /\ Entry(i) \in JournalEntries
  BY PlanTyped
<1>2. s \in Late(i - 1) /\ Entry(i).act = "network_lag_commit" /\ Released(i) = {s}
  BY DEF Released
<1>3. Late(i) = Late(i - 1) \ {s}
  BY <1>2, LateNext
<1>4. /\ j \in DOMAIN Journal /\ e \in JournalEntries /\ j - 1 \in 0..Len(Journal)
      /\ j \in 0..Len(Journal) /\ a \in Assets /\ a = e.asset
      /\ e.act \in PhaseBActions \ {"rename_season"}
  BY <1>1, <1>2, LateEntry, PlanTyped
<1>5. loc \in Places /\ ver \in Versions
  BY <1>1, SeenTyped
<1>6. /\ Oracle(j - 1).loc \in Places /\ Oracle(j - 1).ver \in Versions
      /\ Oracle(i - 1).loc \in Places /\ Oracle(i - 1).ver \in Versions
  BY <1>1, <1>4, WorldsTyped
<1>7. /\ Oracle(j).loc = MovedBy(e, Oracle(j - 1).loc)
      /\ Oracle(j).ver = RewrittenBy(e, Oracle(j - 1).ver)
      /\ Fits(e, Oracle(j - 1).loc)
  BY <1>4, WorldStep
<1>8. loc[a] = Oracle(j - 1).loc[a] /\ ver[a] = Oracle(j - 1).ver[a]
  BY <1>1, <1>2, <1>4, SeenBehind
<1>9. Oracle(i).loc = Oracle(i - 1).loc /\ Oracle(i).ver = Oracle(i - 1).ver
  BY <1>2, WorldStep DEF MovedBy, RewrittenBy, MediaActions
<1>10. \A t \in Late(i) : AssetOf(t) # a
  BY <1>1, <1>2, <1>3, LateIsOne
<1>11. /\ SeenPlaces(i)[a] = Oracle(j).loc[a] /\ SeenVersions(i)[a] = Oracle(j).ver[a]
  <2>1. SeenPlaces(i)[a] = Oracle(i).loc[a] /\ SeenVersions(i)[a] = Oracle(i).ver[a]
    BY <1>1, <1>4, <1>10, SeenAsPlanned
  <2> QED BY <1>2, <1>9, <2>1 DEF Rest
<1>12. ASSUME NEW b \in Assets, b # a
       PROVE  SeenPlaces(i)[b] = loc[b] /\ SeenVersions(i)[b] = ver[b]
  <2>1. CASE \A t \in Late(i - 1) : AssetOf(t) # b
    BY <1>1, <1>3, <1>9, <2>1, SeenAsPlanned
  <2>2. CASE \E t \in Late(i - 1) : AssetOf(t) = b
    <3>1. PICK t \in Late(i - 1) : AssetOf(t) = b
      BY <2>2
    <3>2. t \in Late(i)
      BY <1>3, <1>12, <3>1
    <3> QED BY <1>1, <3>1, <3>2, SeenBehind
  <2> QED BY <2>1, <2>2
<1> HIDE DEF e, loc, ver, a, j
<1>13. ASSUME NEW b \in Assets
       PROVE  SeenPlaces(i)[b] = MovedBy(e, loc)[b] /\ SeenVersions(i)[b] = RewrittenBy(e, ver)[b]
  <2>1. CASE b = a
    BY <1>4, <1>5, <1>6, <1>7, <1>8, <1>11, <2>1, MovesAreLocal
  <2>2. CASE b # a
    BY <1>4, <1>5, <1>12, <2>2, MovesAreLocal
  <2> QED BY <2>1, <2>2
<1>14. /\ SeenPlaces(i) \in Places /\ MovedBy(e, loc) \in Places
       /\ SeenVersions(i) \in Versions /\ RewrittenBy(e, ver) \in Versions
  BY <1>1, <1>4, <1>5, SeenTyped, MovedTyped
<1>15. SeenPlaces(i) = MovedBy(e, loc) /\ SeenVersions(i) = RewrittenBy(e, ver)
  BY <1>13, <1>14 DEF Places, Versions
<1>16. Fits(e, loc)
  BY <1>4, <1>7, <1>8 DEF Fits
<1> QED BY <1>3, <1>15, <1>16 DEF e, loc, ver, a, j

LEMMA RestNext ==
  ASSUME EnginePlans, WithheldRest, CopiesNotWrapped, plan \in Plans, NEW i \in DOMAIN Journal,
         Rest(i - 1)
  PROVE  Rest(i)
<1> SUFFICES ASSUME NEW s \in Late(i)
             PROVE  /\ Oracle(i).loc[AssetOf(s)] = Oracle(s - 1).loc[AssetOf(s)]
                    /\ Oracle(i).ver[AssetOf(s)] = Oracle(s - 1).ver[AssetOf(s)]
  BY DEF Rest
<1>1. /\ Len(Journal) \in Nat /\ i \in Nat /\ i \in 0..Len(Journal) /\ i - 1 \in 0..Len(Journal)
      /\ Entry(i) \in JournalEntries
  BY PlanTyped
<1>2. CASE s \in LagOver(i)
  <2>1. s - 1 = i
    BY <1>1, <1>2, LagOverIsNext
  <2> QED BY <2>1
<1>3. CASE s \in Late(i - 1)
  <2>1. ~ActsOn(Entry(i), AssetOf(s)) /\ AssetOf(s) \in Assets
    BY <1>1, <1>3, LateRests, LateEntry
  <2>2. /\ Oracle(i).loc[AssetOf(s)] = Oracle(i - 1).loc[AssetOf(s)]
        /\ Oracle(i).ver[AssetOf(s)] = Oracle(i - 1).ver[AssetOf(s)]
    BY <1>1, <2>1, WorldStep, WorldsTyped, MovesAreLocal
  <2> QED BY <1>3, <2>2 DEF Rest
<1> QED BY <1>2, <1>3, LateNext

\* The places that the tree shows are apart.
LEMMA SeenApart ==
  ASSUME PlacesAreFree, plan \in Plans, NEW n \in 0..Len(Journal)
  PROVE  Apart(SeenPlaces(n))
  BY DEF PlacesAreFree, Apart, SeenPlaces, Journal

LEMMA NothingLate ==
  ASSUME CopiesNotWrapped, plan \in Plans
  PROVE  Late(0) = {}
<1>1. 0 \in 0..Len(Journal)
  BY PlanTyped
<1> QED BY <1>1, LateEntry

(***************************************************************************)
(* Runs.                                                                   *)
(***************************************************************************)

\* A tree that has the same files outside the temporary ones, whatever their modes.
LEMMA AlikeShows ==
  ASSUME NEW tree, NEW new, NEW T, NEW temps, NEW loc, NEW ver, Shows(tree, T, loc, ver),
         T \subseteq temps, \A a \in Assets : loc[a] # NoPath => loc[a] \notin temps,
         new.cache = tree.cache,
         \A p \in Paths \ temps :
            /\ Present(new, p) <=> Present(tree, p)
            /\ Present(tree, p) => /\ new.files[p].asset = tree.files[p].asset
                                   /\ new.files[p].ver = tree.files[p].ver
  PROVE  Shows(new, temps, loc, ver)
<1>1. ASSUME NEW a \in Assets, loc[a] # NoPath
      PROVE  loc[a] \in Paths \ temps /\ Present(new, loc[a]) /\ new.files[loc[a]].asset = a
  BY <1>1 DEF Shows
<1>2. ASSUME NEW p \in Paths \ temps, Present(new, p)
      PROVE  loc[new.files[p].asset] = p /\ new.files[p].ver = ver[new.files[p].asset]
  BY <1>2 DEF Shows
<1> QED BY <1>1, <1>2 DEF Shows

LEMMA ChmodShows ==
  ASSUME NEW tree \in FileSystem, NEW t, NEW m \in Mode, Exists(tree, t), NEW loc, NEW ver,
         Shows(tree, {}, loc, ver)
  PROVE  Shows(Chmod(tree, t, m), {}, loc, ver)
<1> DEFINE new == Chmod(tree, t, m)
<1>1. new.cache = tree.cache
      /\ \A p \in Paths : /\ Present(new, p) <=> Present(tree, p)
                          /\ Present(tree, p) => /\ new.files[p].asset = tree.files[p].asset
                                                 /\ new.files[p].ver = tree.files[p].ver
  <2>1. CASE t \in Dirs
    BY <2>1 DEF Chmod, FileSystem, Present
  <2>2. CASE t \notin Dirs
    <3>1. t \in Paths /\ tree.files[t] \in File /\ Present(tree, t)
      BY <2>2 DEF Exists, Present, FileSystem
    <3> DEFINE f == [tree.files[t] EXCEPT !.mode = m]
    <3>2. f \in File /\ f.asset = tree.files[t].asset /\ f.ver = tree.files[t].ver /\ f # NoFile
      BY <3>1, NoFileAssumption DEF File
    <3>3. new = [tree EXCEPT !.files[t] = f]
      BY <2>2, <3>1 DEF Chmod, FileSystem
    <3> HIDE DEF f, new
    <3> QED BY <3>1, <3>2, <3>3 DEF FileSystem, Present
  <2> QED BY <2>1, <2>2
<1> HIDE DEF new
<1>2. Shows(new, {}, loc, ver)
  BY <1>1, AlikeShows
<1> QED BY <1>2 DEF new

\* The program is between its baseline and the end of its loops.
Tracking == pc \in {"baseline", "loop", "sleep", "batch", "record", "copies", "lags", "idle"}

\* The source of an open slow copy is the current version of its asset.
CopiesCurrent(n) ==
    \A c \in copies : LET a == Entry(c.start).asset
                      IN  c.source.asset = a /\ c.source.ver = SeenVersions(n)[a]

\* What the runner withholds and what its tree shows after n entries
Follows(n) ==
    /\ deferred = Late(n) /\ Rest(n)
    /\ Shows(fs, Temps, SeenPlaces(n), SeenVersions(n))
    /\ CopiesCurrent(n)

OracleInv == Tracking => Follows(Executed)

LEMMA OracleInitially ==
  ASSUME EnginePlans, WithheldRest, PlacesAreFree, CopiesNotWrapped, Init
  PROVE  OracleInv
<1>1. /\ plan \in Plans /\ cursor = 0 /\ pc = "baseline" /\ fs = InitialTree
      /\ copies = {} /\ deferred = {} /\ Temps = {} /\ Executed = 0
  BY DEF Init, Temps, Executed
<1>2. 0 \in 0..Len(Journal)
  BY <1>1, PlanTyped
<1>3. Late(0) = {}
  BY <1>1, NothingLate
<1>4. Oracle(0).loc = Home /\ Oracle(0).ver = [a \in Assets |-> 0]
  BY <1>1 DEF EnginePlans, Oracle, InitialWorld
<1>5. /\ SeenPlaces(0) \in Places /\ SeenVersions(0) \in Versions /\ Apart(SeenPlaces(0))
      /\ \A a \in Assets : SeenPlaces(0)[a] = Home[a] /\ SeenVersions(0)[a] = 0
  BY <1>1, <1>2, <1>3, <1>4, SeenAsPlanned, SeenTyped, SeenApart
<1>6. \A a \in Assets : Home[a] \in Paths /\ Home[a] # NoPath
  BY TimelineAssumption
<1>7. \A a, b \in Assets : Home[a] = Home[b] => a = b
  BY <1>5, <1>6 DEF Apart
<1>8. ASSUME NEW a \in Assets
      PROVE  /\ Present(InitialTree, Home[a])
             /\ InitialTree.files[Home[a]].asset = a /\ InitialTree.files[Home[a]].ver = 0
  <2>1. (CHOOSE b \in Assets : Home[b] = Home[a]) = a
    BY <1>7
  <2>2. InitialTree.files[Home[a]] = Whole(a, 0)
    BY <1>6, <2>1 DEF InitialTree
  <2> QED BY <2>2, WholeTyped, NoFileAssumption DEF Present, Whole
<1>9. ASSUME NEW p \in Paths, Present(InitialTree, p) PROVE \E a \in Assets : Home[a] = p
  BY <1>9 DEF InitialTree, Present
<1>10. Shows(InitialTree, {}, SeenPlaces(0), SeenVersions(0))
  BY <1>5, <1>6, <1>8, <1>9 DEF Shows
<1> QED BY <1>1, <1>3, <1>10 DEF OracleInv, Follows, Rest, CopiesCurrent

\* Growth changes the temporary file of the open copy alone.
LEMMA GrowthShows ==
  ASSUME TypeInv, CopyInv, OnTrack, pc # "record", NEW loc, NEW ver, Shows(fs, Temps, loc, ver)
  PROVE  Shows(Grown(LogicalNow(now)).fs, Temps, loc, ver)
<1> DEFINE logical == LogicalNow(now)
           g == Grown(logical)
<1>1. logical \in Nat /\ fs \in FileSystem
  BY LogicalNowTyped DEF TypeInv, TypeOK
<1>2. CASE copies = {}
  <2>1. g = Returns(fs)
    BY <1>1, <1>2, NothingGrows
  <2> QED BY <2>1 DEF Returns
<1>3. ASSUME NEW c \in copies PROVE Shows(g.fs, Temps, loc, ver)
  <2> DEFINE temp == Entry(cursor).temp
  <2>1. /\ copies = {c} /\ c.start = cursor /\ temp \in Paths /\ Temps = {temp}
        /\ c \in [start : DOMAIN Journal, source : File] /\ Entry(cursor).act = "slow_copy_start"
    BY OpenCopyIsNext DEF OnTrack
  <2>2. CanGrow(fs, temp)
    BY <2>1 DEF CopyInv, StandsOpen, OnTrack
  <2>3. VisibleSize(c, logical) \in 0..FileBytes
    BY <1>1, <2>1, VisibleSizeTyped DEF TypeInv
  <2> HIDE DEF logical, temp
  <2>4. (\A p \in Paths \ {temp} : g.fs.files[p] = fs.files[p]) /\ g.fs.cache = fs.cache
    BY <1>1, <2>1, <2>2, <2>3, OneGrows DEF temp
  <2> HIDE DEF g
  <2>5. \A a \in Assets : loc[a] # NoPath => loc[a] \notin Temps
    BY DEF Shows
  <2> QED BY <2>1, <2>4, <2>5, AlikeShows DEF Present
<1> QED BY <1>2, <1>3

\* The start of a slow copy writes to a path where no asset is; its commit puts the
\* whole source at the destination and takes away the original.
LEMMA CopyStartShows ==
  ASSUME NEW tree \in FileSystem, NEW loc, NEW ver, Shows(tree, {}, loc, ver),
         NEW temp \in Paths, \A a \in Assets : loc[a] # NoPath => loc[a] # temp, NEW f
  PROVE  Shows(Written(tree, temp, f), {temp}, loc, ver)
<1> DEFINE new == Written(tree, temp, f)
<1>1. /\ \A p \in Paths \ {temp} : new.files[p] = tree.files[p]
      /\ new.cache = tree.cache
  BY DEF Written, FileSystem
<1> HIDE DEF new
<1>2. Shows(new, {temp}, loc, ver)
  BY <1>1, AlikeShows DEF Present
<1> QED BY <1>2 DEF new

LEMMA CopyCommitShows ==
  ASSUME NEW tree \in FileSystem, NEW loc \in Places, NEW ver \in Versions,
         NEW from \in Paths, NEW temp \in Paths, NEW to \in Paths, temp # from,
         Shows(tree, {temp}, loc, ver), NEW a \in Assets, loc[a] = from,
         NEW source \in File, source.asset = a, source.ver = ver[a],
         NEW next \in Places, next = [loc EXCEPT ![a] = to], Apart(next),
         Promote(Written(tree, temp, source), from, temp, to).ok
  PROVE  Shows(Promote(Written(tree, temp, source), from, temp, to).fs, {}, next, ver)
<1> DEFINE full  == Written(tree, temp, source)
           freed == IF from # to THEN [full EXCEPT !.files[from] = NoFile] ELSE full
           new   == Promote(full, from, temp, to).fs
           f     == [source EXCEPT !.mode = IF Present(tree, temp) THEN tree.files[temp].mode
                                            ELSE FileMode]
<1>1. f \in File /\ f.asset = a /\ f.ver = ver[a]
  BY DEF File, FileSystem, Present, FileMode, Mode
<1>2. full = [tree EXCEPT !.files[temp] = f]
  BY DEF Written
<1> HIDE DEF f
<1>3. /\ full \in FileSystem /\ full.cache = tree.cache
      /\ \A p \in Paths : full.files[p] = IF p = temp THEN f ELSE tree.files[p]
  BY <1>1, <1>2 DEF FileSystem
<1>0. Promote(full, from, temp, to).ok
  OBVIOUS
<1> HIDE DEF full
<1>4. /\ freed \in FileSystem /\ freed.cache = tree.cache
      /\ \A p \in Paths : freed.files[p] = IF p = from /\ from # to THEN NoFile ELSE full.files[p]
  BY <1>3 DEF FileSystem
<1>5. new = Replaced(freed, temp, to)
  BY <1>0 DEF Promote, Returns, Raises
<1> HIDE DEF freed, new
<1>6. /\ new.cache = tree.cache /\ new \in FileSystem
      /\ \A p \in Paths : new.files[p] = IF p = to THEN freed.files[temp]
                                         ELSE IF p = temp THEN NoFile ELSE freed.files[p]
  <2>1. new \in FileSystem
    BY <1>4, <1>5, ReplacedTyped
  <2>2. new.cache = freed.cache
    BY <1>4, <1>5 DEF Replaced, FileSystem
  <2>3. new.files = [freed.files EXCEPT ![temp] = NoFile, ![to] = freed.files[temp]]
    BY <1>4, <1>5 DEF Replaced, FileSystem
  <2> QED BY <1>4, <2>1, <2>2, <2>3 DEF FileSystem
<1>7. \A p \in Paths : new.files[p] = IF p = to THEN f
                                       ELSE IF p = loc[a] \/ p \in {temp} THEN NoFile
                                       ELSE tree.files[p]
  BY <1>3, <1>4, <1>6
<1>8. ver = [ver EXCEPT ![a] = f.ver]
  BY <1>1 DEF Versions
<1>9. Relocates(tree, {temp}, loc, ver, a, f, to, new, next, ver)
  BY <1>1, <1>6, <1>7, <1>8 DEF Relocates
<1>10. Shows(new, {}, next, ver)
  BY <1>1, <1>6, <1>9, Relocated
<1> QED BY <1>10 DEF new, full

\* Nothing of the plan changes in a step.
LEMMA PlanStays ==
  ASSUME plan' = plan
  PROVE  /\ \A n : /\ SeenPlaces(n)' = SeenPlaces(n)
                   /\ SeenVersions(n)' = SeenVersions(n) /\ Rest(n)' = Rest(n)
                   /\ Late(n)' = Late(n) /\ Entry(n)' = Entry(n)
         /\ Journal' = Journal
  BY DEF Late, SeenPlaces, SeenVersions, Rest, AssetOf, Oracle, Entry, Journal

\* What an entry executed with no slow copy open has to leave behind.
LEMMA HandlerFollows ==
  ASSUME EnginePlans, WithheldRest, PlacesAreFree, CopiesNotWrapped,
         TypeInv, NEW tree \in FileSystem, HasNext, copies = {},
         deferred = Late(cursor), Rest(cursor),
         Shows(tree, {}, SeenPlaces(cursor), SeenVersions(cursor)),
         Execute(tree, Next1), pc' = "record"
  PROVE  Follows(Next1)'
<1> DEFINE i == Next1
           e == Entry(i)
           loc == SeenPlaces(cursor)
           ver == SeenVersions(cursor)
<1>1. /\ plan \in Plans /\ plan' = plan /\ i \in DOMAIN Journal /\ i \in Nat /\ i - 1 = cursor
      /\ e \in JournalEntries /\ cursor \in 0..Len(Journal) /\ i \in 0..Len(Journal)
      /\ UNCHANGED cursor /\ i' = i
  BY PlanTyped DEF TypeInv, TypeOK, HasNext, Next1, Execute
<1>2. \A r : Proceed(r, "record") => r.ok /\ fs' = r.fs
  BY DEF Proceed
<1>3. \A t : Returns(t).fs = t /\ Raises(t).fs = t /\ Returns(t).ok /\ ~Raises(t).ok
  BY DEF Returns, Raises
<1>4. loc \in Places /\ ver \in Versions
  BY <1>1, SeenTyped
<1>5. Rest(i)
  BY <1>1, RestNext
<1> HIDE DEF i, e, loc, ver
<1>6. ASSUME deferred' = Late(i), Shows(fs', Temps', SeenPlaces(i), SeenVersions(i)),
             CopiesCurrent(i)'
      PROVE  Follows(Next1)'
  <2>1. Follows(i)'
    BY <1>1, <1>5, <1>6, PlanStays DEF Follows
  <2> QED BY <1>1, <2>1 DEF i
<1>7. ASSUME copies' = copies PROVE Temps' = {} /\ \A n : CopiesCurrent(n)'
  BY <1>7 DEF Temps, CopiesCurrent
<1>8. ASSUME LagOver(i) = {}, Released(i) = {}
      PROVE  /\ Late(i) = deferred
             /\ SeenPlaces(i) = MovedBy(e, loc) /\ SeenVersions(i) = RewrittenBy(e, ver)
             /\ Fits(e, loc)
  BY <1>1, <1>8, SeenExecuted DEF e, loc, ver
<1>9. e.act # "network_lag_commit" => Released(i) = {}
  BY DEF Released, e
<1>10. CASE Withhold(tree, i)
  <2>1. deferred' = deferred \cup LagOver(i) /\ fs' = tree /\ copies' = copies /\ LagOver(i) # {}
    BY <1>2, <1>3, <1>10 DEF Withhold
  <2>2. Late(i) = deferred \cup LagOver(i) /\ SeenPlaces(i) = loc /\ SeenVersions(i) = ver
    BY <1>1, <2>1, SeenWithheld DEF loc, ver
  <2> QED BY <1>6, <1>7, <2>1, <2>2 DEF loc, ver
<1>11. CASE StartSlowCopy(tree, i)
  <2> DEFINE source == tree.files[e.from]
             c      == [start |-> i, source |-> source]
             empty  == [source EXCEPT !.bytes = 0]
  <2>1. /\ e.act = "slow_copy_start" /\ LagOver(i) = {} /\ deferred' = deferred
        /\ e.from \in Paths /\ e.temp \in Paths /\ e.asset \in Assets
    BY <1>1, <1>11, EntryAssets DEF StartSlowCopy, LocationActions, e
  <2>2. fs' = Written(tree, e.temp, empty) /\ copies' = {c}
    BY <1>2, <1>3, <1>11 DEF StartSlowCopy, e
  <2>3. /\ Late(i) = deferred /\ SeenPlaces(i) = loc /\ SeenVersions(i) = ver
        /\ loc[e.asset] = e.from
    BY <1>8, <1>9, <2>1 DEF MovedBy, RewrittenBy, MediaActions, Fits, LocationActions
  <2>4. \A a \in Assets : SeenPlaces(i)[a] # e.temp
    BY <1>1, <2>1 DEF PlacesAreFree, SeenPlaces, Journal, Entry, Is, e
  <2>5. Shows(fs', {e.temp}, loc, ver)
    <3> HIDE DEF empty
    <3> QED BY <2>1, <2>2, <2>3, <2>4, CopyStartShows DEF loc, ver
  <2>6. Temps' = {e.temp}
    BY <1>1, <2>2 DEF Temps, Entry, Journal, e
  <2>7. source.asset = e.asset /\ source.ver = ver[e.asset]
    <3>1. PICK a \in Assets, p \in Paths : a = e.asset /\ p = e.from
      BY <2>1
    <3>2. PICK f : IsFileOf(tree, ver, a, loc[a], f)
      BY <1>4, <2>3, <3>1, FileAtPlace DEF loc, ver
    <3> QED BY <2>3, <3>1, <3>2 DEF IsFileOf
  <2>8. CopiesCurrent(i)'
    <3>1. c.start = i /\ c.source = source
      OBVIOUS
    <3> HIDE DEF c, source
    <3>2. PICK x, k, a : x = c /\ k = i /\ a = e.asset
      OBVIOUS
    <3>3. copies' = {x} /\ x.start = k /\ x.source.asset = a /\ x.source.ver = SeenVersions(k)[a]
      BY <2>2, <2>3, <2>7, <3>1, <3>2
    <3>4. Entry(k)'.asset = a /\ SeenVersions(k)' = SeenVersions(k)
      BY <1>1, <3>2, PlanStays DEF e
    <3>5. CopiesCurrent(k)'
      BY <3>3, <3>4 DEF CopiesCurrent
    <3> QED BY <1>1, <3>2, <3>5 DEF i
  <2> QED BY <1>6, <2>1, <2>3, <2>5, <2>6, <2>8
<1>12. CASE CommitSlowCopy(tree, i)
  <2>1. Proceed(Raises(tree), "record")
    BY <1>12 DEF CommitSlowCopy
  <2> QED BY <1>2, <1>3, <2>1
<1>13. CASE StartLag(tree, i)
  <2>1. /\ e.act = "network_lag_start" /\ LagOver(i) = {} /\ fs' = tree /\ copies' = copies
        /\ deferred' = deferred
    BY <1>2, <1>3, <1>13 DEF StartLag, e
  <2>2. Late(i) = deferred /\ SeenPlaces(i) = loc /\ SeenVersions(i) = ver
    BY <1>8, <1>9, <2>1 DEF MovedBy, RewrittenBy, MediaActions
  <2> QED BY <1>6, <1>7, <2>1, <2>2 DEF loc, ver
<1>14. CASE CommitLag(tree, i)
  <2> DEFINE s == e.ref
  <2>1. /\ e.act = "network_lag_commit" /\ LagOver(i) = {} /\ copies' = copies
        /\ deferred' = deferred \ {s}
    BY <1>14 DEF CommitLag, e
  <2>2. CASE s \notin deferred
    <3>1. fs' = tree /\ deferred' = deferred
      BY <1>2, <1>3, <1>14, <2>1, <2>2 DEF CommitLag, e
    <3>2. Released(i) = {}
      BY <1>1, <2>2 DEF Released, e
    <3>3. Late(i) = deferred /\ SeenPlaces(i) = loc /\ SeenVersions(i) = ver
      BY <1>8, <2>1, <3>2 DEF MovedBy, RewrittenBy, MediaActions
    <3> QED BY <1>6, <1>7, <2>1, <3>1, <3>3 DEF loc, ver
  <2>3. CASE s \in deferred
    <3> DEFINE j == s - 1
               d == Entry(j)
    <3>1. s \in Released(i) /\ s \in Late(cursor)
      BY <1>1, <2>1, <2>3 DEF Released, e
    <3>2. /\ Entry(s).ref = j /\ d \in JournalEntries /\ j \in DOMAIN Journal
          /\ d.act \in PhaseBActions
      BY <1>1, <3>1, LateEntry, PlanTyped
    <3>3. /\ Late(i) = deferred \ {s} /\ SeenPlaces(i) = MovedBy(d, loc)
          /\ SeenVersions(i) = RewrittenBy(d, ver) /\ Fits(d, loc)
      BY <1>1, <2>1, <3>1, SeenReleased DEF loc, ver
    <3>4. PICK ran : Proceed(Dispatched(tree, j, ran), "record")
      BY <1>14, <2>3, <3>2 DEF CommitLag, e
    <3>5. Dispatch(tree, j, d).ok /\ fs' = Dispatch(tree, j, d).fs
      BY <1>2, <1>3, <3>4 DEF Dispatched
    <3> HIDE DEF j, d
    <3>6. Apart(MovedBy(d, loc))
      BY <1>1, <3>3, SeenApart
    <3>7. Shows(fs', {}, MovedBy(d, loc), RewrittenBy(d, ver))
      BY <1>4, <3>2, <3>3, <3>5, <3>6, DispatchShows DEF loc, ver
    <3> QED BY <1>6, <1>7, <2>1, <3>3, <3>7
  <2> QED BY <2>2, <2>3
<1>15. CASE RealizeChaos(tree, i)
  <2> DEFINE m == NewMode(tree, e)
             r == Realize(tree, chaos, i, e)
  <2>1. /\ e.act \in ChaosOpenActions \cup ChaosCloseActions /\ LagOver(i) = {} /\ fs' = r.fs
        /\ copies' = copies /\ deferred' = deferred
    BY <1>2, <1>15 DEF RealizeChaos, e
  <2>2. Late(i) = deferred /\ SeenPlaces(i) = loc /\ SeenVersions(i) = ver
    BY <1>8, <1>9, <2>1
       DEF MovedBy, RewrittenBy, MediaActions, ChaosOpenActions, ChaosCloseActions
  <2>3. r.fs = tree \/ (Exists(tree, e.target) /\ r.fs = Chmod(tree, e.target, m))
    <3>1. CASE ExistsRaises(tree, e.target)
      <4>1. ~Exists(tree, e.target)
        BY <3>1, LibraryAssumption DEF Exists, ExistsRaises, StatBlocked
      <4> QED BY <3>1, <4>1 DEF Realize
    <3>2. CASE ~ExistsRaises(tree, e.target)
      BY <3>2 DEF Realize
    <3> QED BY <3>1, <3>2
  <2>4. ASSUME Exists(tree, e.target) PROVE Shows(Chmod(tree, e.target, m), {}, loc, ver)
    BY <1>1, <2>4, NewModeTyped, ChmodShows DEF loc, ver
  <2> HIDE DEF m, r
  <2> QED BY <1>6, <1>7, <2>1, <2>2, <2>3, <2>4 DEF loc, ver
<1>16. CASE DispatchPhaseB(tree, i)
  <2>1. e.act \in PhaseBActions /\ LagOver(i) = {} /\ copies' = copies /\ deferred' = deferred
    BY <1>16 DEF DispatchPhaseB, session, e
  <2>2. PICK ran : Proceed(Dispatched(tree, i, ran), "record")
    BY <1>16 DEF DispatchPhaseB
  <2>3. Dispatch(tree, i, e).ok /\ fs' = Dispatch(tree, i, e).fs
    BY <1>2, <1>3, <2>2 DEF Dispatched, e
  <2>4. /\ Late(i) = deferred /\ SeenPlaces(i) = MovedBy(e, loc)
        /\ SeenVersions(i) = RewrittenBy(e, ver) /\ Fits(e, loc)
    BY <1>8, <1>9, <2>1 DEF PhaseBActions, MediaActions
  <2>5. Apart(MovedBy(e, loc))
    BY <1>1, <2>4, SeenApart
  <2>6. Shows(fs', {}, MovedBy(e, loc), RewrittenBy(e, ver))
    BY <1>1, <1>4, <2>1, <2>3, <2>4, <2>5, DispatchShows DEF loc, ver
  <2> QED BY <1>6, <1>7, <2>1, <2>4, <2>6
<1> QED BY <1>10, <1>11, <1>12, <1>13, <1>14, <1>15, <1>16 DEF Execute, i

\* The commit that follows an open slow copy
LEMMA CommitFollows ==
  ASSUME EnginePlans, WithheldRest, PlacesAreFree, CopiesNotWrapped,
         TypeInv, NEW tree \in FileSystem,
         NEW c, copies = {c}, c.start = cursor, deferred = Late(cursor), Rest(cursor),
         CopiesCurrent(cursor),
         Shows(tree, {Entry(c.start).temp}, SeenPlaces(cursor), SeenVersions(cursor)),
         Execute(tree, Next1), pc' = "record"
  PROVE  Follows(Next1)'
<1> DEFINE i   == Next1
           s   == Entry(cursor)
           loc == SeenPlaces(cursor)
           ver == SeenVersions(cursor)
<1>0. /\ plan \in Plans /\ DOMAIN Journal = 1..Len(Journal) /\ Len(Journal) \in Nat
      /\ \A k \in DOMAIN Journal : Entry(k) \in JournalEntries
      /\ WellPaired(Journal)
  BY PlanTyped DEF TypeInv
<1>1. /\ cursor \in DOMAIN Journal /\ s.act = "slow_copy_start" /\ c.source \in File
      /\ s \in JournalEntries /\ cursor \in Nat /\ cursor \in 0..Len(Journal)
  BY <1>0 DEF TypeInv, TypeOK
<1>2. /\ i \in DOMAIN Journal /\ i \in 0..Len(Journal) /\ i - 1 = cursor
      /\ Entry(i) \in JournalEntries
      /\ Entry(i).act = "slow_copy_commit" /\ Entry(i).ref = cursor
  <2>1. /\ cursor + 1 \in DOMAIN Journal /\ Entry(cursor + 1).ref = cursor
        /\ Entry(cursor + 1).act = "slow_copy_commit"
    BY <1>0, <1>1, StartHasCommit
  <2> QED BY <1>0, <1>1, <2>1 DEF Next1
<1>3. /\ Entry(i).asset = s.asset /\ Entry(i).to = s.to /\ s.temp # s.from
      /\ s.asset \in Assets /\ s.from \in Paths /\ s.temp \in Paths /\ s.to \in Paths
  <2>1. Journal[i] = JournalEntry(plan.worlds, Journal, i)
    BY <1>0, <1>2 DEF EnginePlans, Journal
  <2>2. Journal[i] = [Journal[i] EXCEPT !.asset = Journal[Journal[i].ref].asset,
                                        !.to = Journal[Journal[i].ref].to]
    BY <1>2, <2>1 DEF JournalEntry, Entry
  <2>3. Journal[i] \in JournalEntries /\ Journal[i].ref = cursor /\ Entry(i) = Journal[i]
        /\ s = Journal[cursor]
    BY <1>2 DEF Entry
  <2> HIDE DEF i, s
  <2>4. Entry(i).asset = s.asset /\ Entry(i).to = s.to
    BY <2>2, <2>3 DEF JournalEntries
  <2>5. s.temp # s.from
    BY <1>0, <1>1, <2>3 DEF WellPaired
  <2> QED BY <1>1, <2>4, <2>5, EntryAssets DEF LocationActions
<1>4. LagOver(i) = {} /\ Released(i) = {} /\ LagOver(cursor) = {} /\ Released(cursor) = {}
  BY <1>0, <1>1, <1>2, CopyNotWithheld DEF Released
<1>5. loc \in Places /\ ver \in Versions
  BY <1>0, <1>1, SeenTyped
<1>6. loc[s.asset] = s.from
  <2>1. SeenPlaces(cursor) = MovedBy(s, SeenPlaces(cursor - 1)) /\ Fits(s, SeenPlaces(cursor - 1))
    BY <1>0, <1>1, <1>4, SeenExecuted
  <2> QED BY <1>1, <2>1 DEF MovedBy, Fits, LocationActions
<1>7. CommitSlowCopy(tree, i)
  BY <1>2, <1>4
     DEF Execute, Withhold, StartSlowCopy, StartLag, CommitLag, RealizeChaos, DispatchPhaseB,
         ChaosOpenActions, ChaosCloseActions, PhaseBActions, MediaActions
<1>8. {x \in copies : x.start = Entry(i).ref} = {c} /\ (CHOOSE x \in {c} : TRUE) = c
  BY <1>2
<1>9. /\ copies' = {} /\ deferred' = deferred
      /\ LET done == Promote(Written(tree, s.temp, c.source), s.from, s.temp, s.to)
         IN  done.ok /\ fs' = done.fs
  BY <1>2, <1>7, <1>8 DEF CommitSlowCopy, Proceed, Raises
<1>10. /\ Late(i) = deferred /\ SeenPlaces(i) = MovedBy(Entry(i), loc)
       /\ SeenVersions(i) = RewrittenBy(Entry(i), ver)
  BY <1>0, <1>2, <1>4, SeenExecuted
<1>11. SeenPlaces(i) = [loc EXCEPT ![s.asset] = s.to] /\ SeenVersions(i) = ver
  BY <1>2, <1>3, <1>10 DEF MovedBy, RewrittenBy, MediaActions
<1>12. SeenPlaces(i) \in Places /\ Apart(SeenPlaces(i))
  BY <1>0, <1>2, SeenTyped, SeenApart
<1>13. c.source.asset = s.asset /\ c.source.ver = ver[s.asset]
  BY DEF CopiesCurrent
<1>14. PICK a \in Assets, from \in Paths, temp \in Paths, to \in Paths, source \in File :
            a = s.asset /\ from = s.from /\ temp = s.temp /\ to = s.to /\ source = c.source
  BY <1>1, <1>3
<1>15. Shows(tree, {temp}, loc, ver)
  BY <1>14
<1> HIDE DEF i, s, loc, ver
<1>16. Shows(fs', {}, SeenPlaces(i), ver)
  <2>1. /\ temp # from /\ loc[a] = from /\ source.asset = a /\ source.ver = ver[a]
        /\ SeenPlaces(i) = [loc EXCEPT ![a] = to]
    BY <1>3, <1>6, <1>11, <1>13, <1>14
  <2>2. LET done == Promote(Written(tree, temp, source), from, temp, to)
        IN  done.ok /\ fs' = done.fs
    BY <1>9, <1>14
  <2> QED BY <1>5, <1>12, <1>15, <2>1, <2>2, CopyCommitShows
<1>17. Rest(i)
  BY <1>0, <1>2, RestNext DEF i
<1>18. Temps' = {} /\ CopiesCurrent(i)' /\ plan' = plan /\ Next1' = i /\ i' = i
  BY <1>9 DEF Temps, CopiesCurrent, Execute, Next1, i
<1>19. deferred' = Late(i) /\ Shows(fs', Temps', SeenPlaces(i), SeenVersions(i))
  BY <1>9, <1>10, <1>11, <1>16, <1>18
<1>20. Follows(i)'
  BY <1>17, <1>18, <1>19, PlanStays DEF Follows
<1> QED BY <1>18, <1>20 DEF i

LEMMA HandlerKeepsOracle ==
  ASSUME EnginePlans, WithheldRest, PlacesAreFree, CopiesNotWrapped,
         TypeInv, WindowInv, EndInv, CopyInv, OracleInv,
         RunDue \/ FinishSlowCopy \/ FinishLag, Tracking'
  PROVE  OracleInv'
<1>1. /\ HasNext /\ OnTrack /\ pc \in {"batch", "copies", "lags"}
      /\ pc' \in {"record", "failing"} /\ UNCHANGED <<plan, cursor>>
  BY HandlerRuns
<1>2. pc' = "record" /\ Executed = cursor /\ Executed' = Next1' /\ Next1' = Next1
  BY <1>1 DEF Tracking, Executed, Next1
<1>3. Follows(cursor)
  BY <1>1, <1>2 DEF OracleInv, Tracking
<1>4. PICK tree \in FileSystem :
        Execute(tree, Next1) /\ Shows(tree, Temps, SeenPlaces(cursor), SeenVersions(cursor))
  <2>1. CASE RunDue \/ FinishLag
    BY <1>3, <2>1 DEF RunDue, FinishLag, Follows, TypeInv, TypeOK
  <2>2. CASE FinishSlowCopy
    <3> DEFINE g == Grown(LogicalNow(now))
    <3>1. g.ok /\ g.fs \in FileSystem
      BY <1>1, GrowthKeepsWhole
    <3>2. Shows(g.fs, Temps, SeenPlaces(cursor), SeenVersions(cursor))
      BY <1>1, <1>3, GrowthShows DEF Follows
    <3>3. Execute(g.fs, Next1)
      BY <2>2, <3>1 DEF FinishSlowCopy
    <3> HIDE DEF g
    <3> QED BY <3>1, <3>2, <3>3
  <2> QED BY <2>1, <2>2
<1>5. Follows(Next1)'
  <2>1. CASE copies = {}
    <3>1. Temps = {}
      BY <2>1 DEF Temps
    <3> QED BY <1>1, <1>2, <1>3, <1>4, <2>1, <3>1, HandlerFollows DEF Follows
  <2>2. CASE copies # {}
    <3>1. PICK c \in copies : TRUE
      BY <2>2
    <3>2. copies = {c} /\ c.start = cursor /\ Temps = {Entry(c.start).temp}
      BY <1>1, OpenCopyIsNext
    <3> QED BY <1>2, <1>3, <1>4, <3>2, CommitFollows DEF Follows
  <2> QED BY <2>1, <2>2
<1>6. Follows(Executed)'
  BY <1>2, <1>5 DEF Executed
<1> QED BY <1>6 DEF OracleInv

\* A step that runs no handler withholds nothing and opens no copy.
LEMMA QuietKeepsOracle ==
  ASSUME OracleInv, Tracking, UNCHANGED <<plan, copies, deferred>>, Executed' = Executed,
         \A loc, ver : Shows(fs, Temps, loc, ver) => Shows(fs', Temps, loc, ver)
  PROVE  OracleInv'
<1>1. PICK n : n = Executed
  OBVIOUS
<1>2. Follows(n)
  BY <1>1 DEF OracleInv
<1>3. Temps' = Temps /\ CopiesCurrent(n)'
  BY <1>2 DEF Follows, Temps, CopiesCurrent, Entry, Journal, SeenVersions, Oracle
<1>4. Follows(n)'
  BY <1>2, <1>3, PlanStays DEF Follows
<1>5. Follows(Executed)'
  BY <1>1, <1>4
<1> QED BY <1>5 DEF OracleInv

LEMMA OracleInductive ==
  ASSUME EnginePlans, WithheldRest, PlacesAreFree, CopiesNotWrapped,
         TypeInv, WindowInv, EndInv, CopyInv, OracleInv, [Next]_vars
  PROVE  OracleInv'
<1> SUFFICES ASSUME Tracking' PROVE OracleInv'
  BY DEF OracleInv
<1>1. CASE UNCHANGED vars
  <2>1. UNCHANGED <<plan, copies, deferred, fs>> /\ Executed' = Executed /\ Tracking
    BY <1>1 DEF vars, session, disk, Executed, Next1, Tracking
  <2> QED BY <2>1, QuietKeepsOracle
<1>2. CASE Tick
  <2>1. UNCHANGED <<plan, copies, deferred, fs>> /\ Executed' = Executed /\ Tracking
    BY <1>2 DEF Tick, session, disk, Executed, Next1, Tracking
  <2> QED BY <2>1, QuietKeepsOracle
<1>3. CASE RunDue \/ FinishSlowCopy \/ FinishLag
  BY <1>3, HandlerKeepsOracle
<1>4. CASE TurnDeadline \/ TurnDue \/ TurnSleep
  <2>1. /\ UNCHANGED <<plan, copies, deferred, cursor>> /\ pc = "loop" /\ pc' # "record"
        /\ fs' = Grown(LogicalNow(now)).fs
    BY <1>4 DEF TurnDeadline, TurnDue, TurnSleep, Turn, Proceed, session
  <2>2. OnTrack /\ Tracking /\ Executed' = Executed
    BY <2>1 DEF OnTrack, Tracking, EndInv, RunningPc, Executed
  <2> QED BY <2>1, <2>2, GrowthShows, QuietKeepsOracle
<1>5. CASE Record
  <2>1. /\ UNCHANGED <<plan, copies, deferred, fs>> /\ Tracking
        /\ Executed' = Executed
    BY <1>5 DEF Record, session, Tracking, Executed, Next1, TypeInv, TypeOK
  <2> QED BY <2>1, QuietKeepsOracle
<1>6. CASE \/ LoopEnds \/ Wake \/ BatchEnds \/ Publish \/ SlowCopiesFinished \/ LagsFinished
           \/ IdleOut
  <2>1. /\ UNCHANGED <<plan, copies, deferred, fs, cursor>> /\ Tracking
        /\ pc # "record" /\ pc' # "record"
    BY <1>6 DEF LoopEnds, Wake, BatchEnds, Publish, SlowCopiesFinished, LagsFinished, IdleOut,
                session, disk, Tracking
  <2>2. Executed' = Executed
    BY <2>1 DEF Executed
  <2> QED BY <2>1, <2>2, QuietKeepsOracle
<1>7. CASE \/ RestoreMode \/ RestoreBreaks \/ Succeeds \/ WipeLibrary \/ WriteMetadata \/ Seal
           \/ WriteFault
  BY <1>7 DEF RestoreMode, RestoreBreaks, Succeeds, WipeLibrary, WriteMetadata, Seal, WriteFault,
              Propagates, Finalizing, Tracking
<1> QED BY <1>1, <1>2, <1>3, <1>4, <1>5, <1>6, <1>7 DEF Next, Step, Stopped

THEOREM OracleInvariant ==
  ASSUME EnginePlans, WithheldRest, PlacesAreFree, CopiesNotWrapped
  PROVE  Spec => []OracleInv
<1>1. Init => OracleInv
  BY OracleInitially
<1>2. TypeInv /\ WindowInv /\ EndInv /\ CopyInv /\ OracleInv /\ [Next]_vars => OracleInv'
  BY OracleInductive
<1> QED BY <1>1, <1>2, EndInvariant, WindowInvariant, CopyInvariant, PTL DEF Spec

\* Between two handlers every asset lies, whole and in its current version, where the
\* manifest of the executed prefix places it, or the manifest before its event that
\* is withheld: for every plan of the engine in which no event is about an asset with
\* a withheld event, no file is put where another one lies, and no delayed lag
\* follows the commit of a slow copy.
THEOREM TreesFollowOracles ==
  ASSUME EnginePlans, WithheldRest, PlacesAreFree, CopiesNotWrapped
  PROVE  Spec => []TreeFollowsOracle
<1>1. TypeInv /\ EndInv /\ CopyInv /\ OracleInv => TreeFollowsOracle
  <2> SUFFICES ASSUME TypeInv, EndInv, CopyInv, OracleInv, Between, NEW a \in Assets
               PROVE  LET w == Oracle(Shown(a))
                      IN  /\ PlacesOf(a) = {w.loc[a]} \ {NoPath}
                          /\ \A p \in PlacesOf(a) : /\ fs.files[p].ver = w.ver[a]
                                                    /\ fs.files[p].bytes = FileBytes
    BY DEF TreeFollowsOracle
  <2> DEFINE loc == SeenPlaces(cursor)
             ver == SeenVersions(cursor)
  <2>1. Executed = cursor /\ Tracking /\ OnTrack
    BY DEF Between, Executed, Tracking, OnTrack, EndInv, RunningPc
  <2>2. deferred = Late(cursor) /\ Shows(fs, Temps, loc, ver)
    BY <2>1 DEF OracleInv, Follows
  <2>3. WholeAt(fs, Paths \ Temps)
    BY <2>1 DEF CopyInv
  <2>4. Oracle(Shown(a)).loc[a] = loc[a] /\ Oracle(Shown(a)).ver[a] = ver[a]
    <3>1. Shown(a) = ShownAfter(plan, cursor, a)
      BY <2>2 DEF Shown, Withheld, ShownAfter, Late, Entry, Journal
    <3> QED BY <3>1 DEF SeenPlaces, SeenVersions, PlaceAfter, Oracle
  <2> HIDE DEF loc, ver
  <2>5. PlacesOf(a) = {loc[a]} \ {NoPath}
    <3>1. ASSUME NEW p \in PlacesOf(a) PROVE p = loc[a] /\ p # NoPath
      <4>1. p \in Paths \ Temps /\ Present(fs, p) /\ fs.files[p].asset = a
        BY DEF PlacesOf, Present
      <4> QED BY <2>2, <4>1, TimelineAssumption DEF Shows
    <3>2. ASSUME loc[a] # NoPath PROVE loc[a] \in PlacesOf(a)
      BY <2>2, <3>2 DEF Shows, PlacesOf, Present
    <3> QED BY <3>1, <3>2
  <2>6. ASSUME NEW p \in PlacesOf(a)
        PROVE  fs.files[p].ver = ver[a] /\ fs.files[p].bytes = FileBytes
    <3>1. p \in Paths \ Temps /\ Present(fs, p) /\ fs.files[p].asset = a
      BY DEF PlacesOf, Present
    <3> QED BY <2>2, <2>3, <3>1 DEF Shows, WholeAt
  <2> QED BY <2>4, <2>5, <2>6
<1> QED BY <1>1, EndInvariant, CopyInvariant, OracleInvariant, PTL

(***************************************************************************)
(* Every handler runs: the tree has what its entry reads where it reads    *)
(* it, and no permission is missing.                                       *)
(***************************************************************************)
Permits(tree) ==
    /\ \A p \in Paths : Reachable(tree, p) /\ CanLink(tree, p)
    /\ \A p \in Paths : Present(tree, p) => /\ Allows(tree.files[p].mode, {"r"})
                                            /\ Allows(tree.files[p].mode, {"w"})

LEMMA DefaultsPermit ==
  ASSUME NEW tree, Privileged \/ DefaultBut(tree, {})
  PROVE  Permits(tree)
<1>1. \A p \in Paths : DirOf[p] \in Dirs
  BY LibraryAssumption
<1> QED BY <1>1 DEF Permits, DefaultBut, Reachable, CanLink, Allows, DirMode, FileMode

LEMMA PermittedCalls ==
  ASSUME NEW tree, Permits(tree), NEW p \in Paths
  PROVE  /\ Present(tree, p) => CanRead(tree, p)
         /\ CanWrite(tree, p) /\ CanLink(tree, p)
  BY DEF Permits, CanRead, CanWrite

\* A hierarchy event names an asset once.
MovesOnce(e) == \A m, n \in e.moves : m.asset = n.asset => m = n

LEMMA HierarchyRuns ==
  ASSUME NEW tree \in FileSystem, Permits(tree), NEW loc \in Places, NEW ver,
         Shows(tree, {}, loc, ver), NEW e \in JournalEntries, e.act = "rename_season",
         Fits(e, loc), Apart(MovedBy(e, loc)), MovesOnce(e)
  PROVE  HierarchyMoves(tree, e).ok
<1> DEFINE sources      == {m.from : m \in e.moves}
           destinations == {m.to : m \in e.moves}
           next         == MovedBy(e, loc)
<1>1. \A m \in e.moves : /\ m.from \in Paths /\ m.to \in Paths /\ m.asset \in Assets
                         /\ loc[m.asset] = m.from
  BY EntryAssets DEF Fits
<1>2. NoPath \notin Paths
  BY TimelineAssumption
<1>3. ASSUME NEW m \in e.moves
      PROVE  next[m.asset] = m.to /\ Present(tree, m.from) /\ tree.files[m.from].asset = m.asset
  <2>1. (CHOOSE n \in e.moves : n.asset = m.asset) = m
    BY DEF MovesOnce
  <2>2. next[m.asset] = m.to
    BY <1>1, <2>1 DEF MovedBy
  <2>3. Present(tree, m.from) /\ tree.files[m.from].asset = m.asset
    BY <1>1, <1>2 DEF Shows
  <2> QED BY <2>2, <2>3
<1>4. \A b \in Assets : (\A m \in e.moves : m.asset # b) => next[b] = loc[b]
  BY DEF MovedBy
<1> HIDE DEF next
<1>5. ASSUME NEW m \in e.moves, NEW n \in e.moves, m # n PROVE m.from # n.from /\ m.to # n.to
  <2>1. m.asset # n.asset
    BY <1>5 DEF MovesOnce
  <2>2. m.from # n.from
    BY <1>3, <2>1
  <2>3. m.to # n.to
    BY <1>1, <1>2, <1>3, <2>1 DEF Apart, next
  <2> QED BY <2>2, <2>3
<1>6. ASSUME NEW p \in destinations \ sources, Present(tree, p) PROVE FALSE
  <2>1. PICK m \in e.moves : m.to = p
    OBVIOUS
  <2>2. PICK b \in Assets : b = tree.files[p].asset /\ p \in Paths /\ loc[b] = p
    BY <1>1, <1>6, <2>1 DEF Shows, Present, FileSystem, File
  <2>3. \A n \in e.moves : n.asset # b
    BY <1>1, <1>6, <2>2
  <2>4. next[b] = p /\ next[m.asset] = p /\ b # m.asset /\ m.asset \in Assets
    BY <1>1, <1>3, <1>4, <2>1, <2>2, <2>3
  <2> QED BY <1>2, <2>2, <2>4 DEF Apart, next
<1>7. /\ \A p \in sources : Present(tree, p)
      /\ \A p \in sources \cup destinations : CanLink(tree, p)
  BY <1>1, <1>3, PermittedCalls
<1> QED BY <1>5, <1>6, <1>7 DEF HierarchyMoves, Returns

LEMMA DispatchRuns ==
  ASSUME NEW tree \in FileSystem, Permits(tree), NEW loc \in Places, NEW ver,
         Shows(tree, {}, loc, ver), NEW i, NEW e \in JournalEntries, e.act \in PhaseBActions,
         Fits(e, loc), Apart(MovedBy(e, loc)), MovesOnce(e)
  PROVE  Dispatch(tree, i, e).ok
<1>1. \A t : Returns(t).ok
  BY DEF Returns
<1>2. ASSUME e.act \in LocationActions
      PROVE  e.from \in Paths /\ Present(tree, e.from) /\ CanRead(tree, e.from)
             /\ CanLink(tree, e.from)
  <2>1. e.from \in Paths /\ e.asset \in Assets /\ loc[e.asset] = e.from /\ e.from # NoPath
    BY <1>2, EntryAssets, TimelineAssumption DEF Fits
  <2>2. Present(tree, e.from)
    BY <2>1 DEF Shows
  <2> QED BY <2>1, <2>2, PermittedCalls
<1>3. CASE e.act = "move_asset"
  <2>1. e.to \in Paths
    BY <1>3, EntryAssets
  <2> QED BY <1>1, <1>2, <1>3, <2>1, PermittedCalls
          DEF Dispatch, MediaActions, MoveAsset, CanReplace, LocationActions
<1>4. CASE e.act = "delete_file"
  BY <1>1, <1>2, <1>4 DEF Dispatch, MediaActions, DeleteFile, LocationActions
<1>5. CASE e.act = "add_file"
  <2>1. e.to \in Paths /\ e.asset \in Assets /\ loc[e.asset] = NoPath
    BY <1>5, EntryAssets DEF Fits
  <2>2. tree.cache[e.asset] # NoFile
    BY <2>1 DEF Shows
  <2> QED BY <1>1, <1>5, <2>1, <2>2, PermittedCalls DEF Dispatch, MediaActions, AddFile
<1>6. CASE e.act \in MediaActions
  <2>1. e.to \in Paths
    BY <1>6, EntryAssets DEF MediaActions
  <2>2. RewriteVersion(tree, e).ok
    BY <1>1, <1>2, <1>6, <2>1, PermittedCalls DEF RewriteVersion, LocationActions, MediaActions
  <2> QED BY <1>6, <2>2 DEF Dispatch, MediaActions
<1>7. CASE e.act = "touch_mtime"
  BY <1>1, <1>2, <1>7 DEF Dispatch, TouchMtime, MediaActions, LocationActions
<1>8. CASE e.act = "rename_season"
  BY <1>8, HierarchyRuns DEF Dispatch, MediaActions
<1> QED BY <1>3, <1>4, <1>5, <1>6, <1>7, <1>8 DEF PhaseBActions


\* A handler that runs while no slow copy is open
LEMMA HandlerSucceeds ==
  ASSUME EnginePlans, WithheldRest, PlacesAreFree, CopiesNotWrapped, LocksPaired,
         "tool" \notin Faults,
         TypeInv, NEW tree \in FileSystem, Permits(tree), HasNext, copies = {},
         deferred = Late(cursor), Rest(cursor),
         Shows(tree, {}, SeenPlaces(cursor), SeenVersions(cursor)),
         chaos.open = OpenAfter("acquire_lock", "release_lock", cursor),
         cursor \in DOMAIN Journal => Entry(cursor).act # "slow_copy_start",
         Execute(tree, Next1)
  PROVE  pc' = "record"
<1> DEFINE i == Next1
           e == Entry(i)
           loc == SeenPlaces(cursor)
           ver == SeenVersions(cursor)
<1>1. /\ plan \in Plans /\ i \in DOMAIN Journal /\ i \in Nat /\ i - 1 = cursor /\ i = cursor + 1
      /\ cursor \in Nat
      /\ e \in JournalEntries /\ cursor \in 0..Len(Journal) /\ i \in 0..Len(Journal)
  BY PlanTyped DEF TypeInv, TypeOK, HasNext, Next1
<1>2. \A r : Proceed(r, "record") /\ r.ok => pc' = "record"
  BY DEF Proceed
<1>3. \A t : Returns(t).ok
  BY DEF Returns
<1>4. loc \in Places /\ ver \in Versions
  BY <1>1, SeenTyped
<1>5. \A j \in DOMAIN Journal : MovesOnce(Entry(j))
  BY <1>1 DEF EnginePlans, MovesOnce, Entry, Journal
<1> HIDE DEF i, e, loc, ver
<1>6. ASSUME e.act # "network_lag_commit", LagOver(i) = {}
      PROVE  SeenPlaces(i) = MovedBy(e, loc) /\ Fits(e, loc) /\ Apart(MovedBy(e, loc))
  <2>1. Released(i) = {}
    BY <1>6 DEF Released, e
  <2>2. SeenPlaces(i) = MovedBy(e, loc) /\ Fits(e, loc)
    BY <1>1, <1>6, <2>1, SeenExecuted DEF e, loc, ver
  <2> QED BY <1>1, <2>2, SeenApart
<1>7. ASSUME NEW j, NEW ran \in ToolExits(j) PROVE ran = TRUE
  BY <1>7 DEF ToolExits
<1>8. CASE Withhold(tree, i) \/ StartLag(tree, i)
  BY <1>2, <1>3, <1>8 DEF Withhold, StartLag
<1>9. CASE StartSlowCopy(tree, i)
  <2>1. e.act = "slow_copy_start" /\ LagOver(i) = {}
    BY <1>9 DEF StartSlowCopy, e
  <2>2. e.from \in Paths /\ e.temp \in Paths /\ e.asset \in Assets /\ loc[e.asset] = e.from
    BY <1>1, <1>6, <2>1, EntryAssets DEF LocationActions, Fits
  <2>3. Present(tree, e.from)
    BY <2>2, TimelineAssumption DEF Shows, loc, ver
  <2>4. CanRead(tree, e.from) /\ CanWrite(tree, e.temp)
    BY <2>2, <2>3, PermittedCalls
  <2> QED BY <1>2, <1>3, <1>9, <2>4 DEF StartSlowCopy, e
<1>10. CASE CommitSlowCopy(tree, i)
  <2>1. e.act = "slow_copy_commit"
    BY <1>10 DEF CommitSlowCopy, e
  <2>2. cursor \in DOMAIN Journal /\ Is(Journal, cursor, "slow_copy_start")
    BY <1>1, <2>1, PlanTyped DEF WellPaired, Entry, e
  <2> QED BY <2>2 DEF Is, Entry
<1>11. CASE CommitLag(tree, i)
  <2> DEFINE s == e.ref
             j == s - 1
             d == Entry(j)
  <2>1. e.act = "network_lag_commit" /\ LagOver(i) = {}
    BY <1>11 DEF CommitLag, e
  <2>2. CASE s \notin deferred
    BY <1>2, <1>3, <1>11, <2>2 DEF CommitLag, e
  <2>3. CASE s \in deferred
    <3>1. s \in Released(i) /\ s \in Late(cursor)
      BY <1>1, <2>1, <2>3 DEF Released, e
    <3>2. /\ Entry(s).ref = j /\ d \in JournalEntries /\ j \in DOMAIN Journal
          /\ d.act \in PhaseBActions
      BY <1>1, <3>1, LateEntry, PlanTyped
    <3>3. SeenPlaces(i) = MovedBy(d, loc) /\ Fits(d, loc)
      BY <1>1, <2>1, <3>1, SeenReleased DEF loc, ver
    <3>4. PICK ran \in ToolExits(j) : Proceed(Dispatched(tree, j, ran), "record")
      BY <1>11, <2>3, <3>2 DEF CommitLag, e
    <3>5. Apart(MovedBy(d, loc)) /\ MovesOnce(d)
      BY <1>1, <1>5, <3>2, <3>3, SeenApart
    <3> HIDE DEF j, d
    <3>6. Dispatch(tree, j, d).ok
      BY <1>4, <3>2, <3>3, <3>5, DispatchRuns DEF loc, ver
    <3>7. Dispatched(tree, j, ran) = Dispatch(tree, j, d)
      BY <1>7, <3>4 DEF Dispatched, d
    <3> QED BY <1>2, <3>4, <3>6, <3>7
  <2> QED BY <2>2, <2>3
<1>12. CASE RealizeChaos(tree, i)
  <2>1. ~ExistsRaises(tree, e.target)
    BY DEF ExistsRaises, StatBlocked, Permits
  <2>2. e.act = "release_lock" => e.ref \in chaos.open
    <3> SUFFICES ASSUME e.act = "release_lock" PROVE e.ref \in chaos.open
      OBVIOUS
    <3>1. e.ref \in OpenLocksBefore(Journal, i)
      BY <1>1 DEF LocksPaired, Is, Entry, Journal, e
    <3> QED BY <1>1, <3>1, OpenAfterIsOpenBefore
  <2>3. Realize(tree, chaos, i, e).ok
    <3>1. CASE e.act = "release_lock"
      BY <2>2, <3>1 DEF Realize
    <3>2. CASE e.act = "acquire_lock"
      BY <3>2 DEF Realize
    <3>3. CASE e.act \notin {"acquire_lock", "release_lock"}
      BY <2>1, <3>3 DEF Realize
    <3> QED BY <3>1, <3>2, <3>3
  <2> QED BY <1>2, <1>12, <2>3 DEF RealizeChaos, e
<1>13. CASE DispatchPhaseB(tree, i)
  <2>1. e.act \in PhaseBActions /\ LagOver(i) = {}
    BY <1>13 DEF DispatchPhaseB, e
  <2>2. PICK ran \in ToolExits(i) : Proceed(Dispatched(tree, i, ran), "record")
    BY <1>13 DEF DispatchPhaseB
  <2>3. Fits(e, loc) /\ Apart(MovedBy(e, loc)) /\ MovesOnce(e)
    BY <1>1, <1>5, <1>6, <2>1 DEF PhaseBActions, MediaActions, e
  <2>4. Dispatch(tree, i, e).ok
    BY <1>1, <1>4, <2>1, <2>3, DispatchRuns DEF loc, ver
  <2>5. Dispatched(tree, i, ran) = Dispatch(tree, i, e)
    BY <1>7, <2>2 DEF Dispatched, e
  <2> QED BY <1>2, <2>2, <2>4, <2>5
<1> QED BY <1>8, <1>9, <1>10, <1>11, <1>12, <1>13 DEF Execute, i

\* The commit that follows an open slow copy
LEMMA CommitSucceeds ==
  ASSUME CopiesNotWrapped, TypeInv, NEW tree \in FileSystem, Permits(tree),
         NEW c, copies = {c}, c.start = cursor, CanGrow(tree, Entry(c.start).temp),
         Execute(tree, Next1)
  PROVE  pc' = "record"
<1> DEFINE i == Next1
           s == Entry(cursor)
<1>0. /\ plan \in Plans /\ DOMAIN Journal = 1..Len(Journal) /\ Len(Journal) \in Nat
      /\ \A k \in DOMAIN Journal : Entry(k) \in JournalEntries
      /\ WellPaired(Journal)
  BY PlanTyped DEF TypeInv
<1>1. /\ cursor \in DOMAIN Journal /\ s.act = "slow_copy_start" /\ c.source \in File
      /\ s \in JournalEntries
  BY <1>0 DEF TypeInv, TypeOK
<1>2. Entry(i).act = "slow_copy_commit" /\ Entry(i).ref = cursor /\ i \in DOMAIN Journal
  BY <1>0, <1>1, StartHasCommit DEF Next1
<1>3. CommitSlowCopy(tree, i)
  BY <1>0, <1>2, CopyNotWithheld
     DEF Execute, Withhold, StartSlowCopy, StartLag, CommitLag, RealizeChaos, DispatchPhaseB,
         ChaosOpenActions, ChaosCloseActions, PhaseBActions, MediaActions
<1>4. {x \in copies : x.start = Entry(i).ref} = {c} /\ (CHOOSE x \in {c} : TRUE) = c
  BY <1>2
<1>5. PICK from \in Paths, temp \in Paths, to \in Paths, source \in File :
            from = s.from /\ temp = s.temp /\ to = s.to /\ source = c.source /\ temp # from
  <2>1. s.temp # s.from
    BY <1>0, <1>1 DEF WellPaired, Entry
  <2> QED BY <1>1, <2>1, EntryAssets DEF LocationActions
<1>6. CanGrow(tree, temp)
  BY <1>5
<1>7. Proceed(Promote(Written(tree, temp, source), from, temp, to), "record")
  BY <1>2, <1>3, <1>4, <1>5, <1>6 DEF CommitSlowCopy, CanGrow
<1> DEFINE full  == Written(tree, temp, source)
           freed == IF from # to THEN [full EXCEPT !.files[from] = NoFile] ELSE full
<1>8. full \in FileSystem /\ full.dirs = tree.dirs /\ Present(full, temp)
  <2> DEFINE f == [source EXCEPT !.mode = tree.files[temp].mode]
  <2>1. f \in File /\ f # NoFile
    BY <1>6, NoFileAssumption DEF CanGrow, Present, FileSystem, File
  <2>2. full = [tree EXCEPT !.files[temp] = f]
    BY <1>6 DEF Written, CanGrow
  <2> HIDE DEF f
  <2> QED BY <2>1, <2>2 DEF FileSystem, Present
<1> HIDE DEF full
<1>9. freed.dirs = tree.dirs /\ Present(freed, temp)
  BY <1>5, <1>8 DEF FileSystem, Present
<1> HIDE DEF freed
<1>10. \A p \in Paths : CanLink(full, p) /\ CanLink(freed, p)
  BY <1>8, <1>9 DEF Permits, CanLink
<1>11. Promote(full, from, temp, to).ok
  BY <1>9, <1>10 DEF Promote, CanReplace, Returns, freed
<1> QED BY <1>7, <1>11 DEF Proceed, full

LEMMA NothingFails ==
  ASSUME EnginePlans, WithheldRest, PlacesAreFree, CopiesNotWrapped, LocksPaired,
         "tool" \notin Faults, Privileged \/ (NothingIsChmodded /\ ModeInv),
         TypeInv, WindowInv, EndInv, CopyInv, OpenInv, OracleInv, AcceptedTimelinesRun,
         [Next]_vars
  PROVE  AcceptedTimelinesRun'
<1> USE DEF AcceptedTimelinesRun
<1>1. ASSUME OnTrack PROVE (Privileged \/ DefaultBut(fs, {})) /\ Permits(fs)
  <2>1. Privileged \/ DefaultBut(fs, {})
    <3>1. ASSUME NothingIsChmodded, ModeInv PROVE DefaultBut(fs, {})
      <4>1. TargetsOf(chaos.captured) = {}
        BY <1>1, <3>1, NothingCaptured DEF TargetsOf
      <4> QED BY <1>1, <3>1, <4>1 DEF ModeInv
    <3> QED BY <3>1
  <2> QED BY <2>1, DefaultsPermit
<1>2. CASE RunDue \/ FinishSlowCopy \/ FinishLag
  <2>1. /\ HasNext /\ OnTrack /\ pc \in {"batch", "copies", "lags"}
    BY <1>2, HandlerRuns
  <2>2. Executed = cursor /\ Follows(cursor)
    BY <2>1 DEF OracleInv, Tracking, Executed
  <2>3. PICK tree \in FileSystem :
          /\ Execute(tree, Next1) /\ Permits(tree)
          /\ Shows(tree, Temps, SeenPlaces(cursor), SeenVersions(cursor))
          /\ \A c \in copies : CanGrow(tree, Entry(c.start).temp)
    <3>1. CASE RunDue \/ FinishLag
      <4>1. fs \in FileSystem /\ \A c \in copies : CanGrow(fs, Entry(c.start).temp)
        BY <2>1 DEF TypeInv, TypeOK, CopyInv, StandsOpen
      <4> QED BY <1>1, <2>1, <2>2, <3>1, <4>1 DEF RunDue, FinishLag, Follows
    <3>2. CASE FinishSlowCopy
      <4> DEFINE g == Grown(LogicalNow(now))
      <4>1. /\ g.ok /\ g.fs \in FileSystem
            /\ \A c \in copies : CanGrow(g.fs, Entry(c.start).temp)
        BY <2>1, GrowthKeepsWhole
      <4>2. Shows(g.fs, Temps, SeenPlaces(cursor), SeenVersions(cursor))
        BY <2>1, <2>2, GrowthShows DEF Follows
      <4>3. Execute(g.fs, Next1)
        BY <3>2, <4>1 DEF FinishSlowCopy
      <4>4. Permits(g.fs)
        <5>1. LogicalNow(now) \in Nat
          BY LogicalNowTyped DEF TypeInv, TypeOK
        <5>2. Privileged \/ DefaultBut(g.fs, {})
          BY <1>1, <2>1, <5>1, GrowthKeepsModes
        <5> QED BY <5>2, DefaultsPermit
      <4> HIDE DEF g
      <4> QED BY <4>1, <4>2, <4>3, <4>4
    <3> QED BY <1>2, <3>1, <3>2
  <2>4. CASE copies = {}
    <3>1. Temps = {}
      BY <2>4 DEF Temps
    <3>2. cursor \in DOMAIN Journal => Entry(cursor).act # "slow_copy_start"
      BY <2>1, <2>2, <2>4 DEF CopyInv
    <3>3. chaos.open = OpenAfter("acquire_lock", "release_lock", cursor)
      BY <2>1, <2>2 DEF OpenInv
    <3> QED BY <2>1, <2>2, <2>3, <2>4, <3>1, <3>2, <3>3, HandlerSucceeds DEF Follows
  <2>5. CASE copies # {}
    <3>1. PICK c \in copies : TRUE
      BY <2>5
    <3>2. copies = {c} /\ c.start = cursor
      BY <2>1, OpenCopyIsNext
    <3> QED BY <2>3, <3>2, CommitSucceeds
  <2> QED BY <2>4, <2>5
<1>3. CASE TurnDeadline \/ TurnDue \/ TurnSleep
  <2>1. /\ pc = "loop" /\ Grown(LogicalNow(now)).ok
    <3>1. pc = "loop"
      BY <1>3 DEF TurnDeadline, TurnDue, TurnSleep, Turn
    <3>2. OnTrack
      BY <3>1 DEF OnTrack, EndInv, RunningPc
    <3> QED BY <3>1, <3>2, GrowthKeepsWhole
  <2> QED BY <1>3, <2>1 DEF TurnDeadline, TurnDue, TurnSleep, Turn, Proceed
<1>4. CASE RestoreBreaks
  <2>1. pc = "restore" /\ OnTrack
    BY <1>4 DEF RestoreBreaks, Finalizing, OnTrack, EndInv, RunningPc
  <2>2. Permits(fs)
    BY <1>1, <2>1
  <2>3. ~RestoreRaises(fs, chaos.captured)
    BY <2>2 DEF RestoreRaises, ExistsRaises, StatBlocked, Permits
  <2> QED BY <1>4, <2>3 DEF RestoreBreaks
<1>5. CASE Tick \/ UNCHANGED vars \/ RestoreMode
  BY <1>5 DEF Tick, vars, RestoreMode
<1>6. CASE \/ Publish \/ Record \/ WriteFault \/ LoopEnds \/ Wake \/ BatchEnds \/ SlowCopiesFinished
           \/ LagsFinished \/ IdleOut \/ Succeeds \/ WipeLibrary \/ WriteMetadata \/ Seal
  BY <1>6 DEF Publish, Record, WriteFault, Propagates, LoopEnds, Wake, BatchEnds,
              SlowCopiesFinished, LagsFinished, IdleOut, Succeeds, WipeLibrary, WriteMetadata,
              Seal, TypeInv, TypeOK
<1> QED BY <1>2, <1>3, <1>4, <1>5, <1>6 DEF Next, Step, Stopped

\* Whatever the engine planned of an accepted timeline, the runner can execute: no
\* handler raises, wherever the deadline falls, for plans as above without chmods
\* (or a process that permission bits do not bind) and as long as no media tool fails.
THEOREM AcceptedPlansRun ==
  ASSUME EnginePlans, WithheldRest, PlacesAreFree, CopiesNotWrapped, LocksPaired,
         Privileged \/ NothingIsChmodded, "tool" \notin Faults
  PROVE  Spec => []AcceptedTimelinesRun
<1>1. Init => AcceptedTimelinesRun
  BY DEF Init, AcceptedTimelinesRun
<1>2. CASE Privileged
  <2>1. TypeInv /\ WindowInv /\ EndInv /\ CopyInv /\ OpenInv /\ OracleInv
          /\ AcceptedTimelinesRun /\ [Next]_vars => AcceptedTimelinesRun'
    BY <1>2, NothingFails
  <2> QED BY <1>1, <2>1, EndInvariant, WindowInvariant, CopyInvariant, OpenInvariant,
             OracleInvariant, PTL DEF Spec
<1>3. CASE NothingIsChmodded
  <2>1. ChmodTargetsStay
    BY <1>3 DEF NothingIsChmodded, ChmodTargetsStay
  <2>2. TypeInv /\ WindowInv /\ EndInv /\ CopyInv /\ OpenInv /\ OracleInv /\ ModeInv
          /\ AcceptedTimelinesRun /\ [Next]_vars => AcceptedTimelinesRun'
    BY <1>3, NothingFails
  <2>3. Spec => []ModeInv
    BY <1>3, <2>1, ModesInvariant
  <2> QED BY <1>1, <2>2, <2>3, EndInvariant, WindowInvariant, CopyInvariant, OpenInvariant,
             OracleInvariant, PTL DEF Spec
<1> QED BY <1>2, <1>3

=============================================================================
