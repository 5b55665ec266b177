----------------------------- MODULE RunProofs -----------------------------
(***************************************************************************)
(* Proofs about the wall-clock run, for every plan of a valid scenario,    *)
(* every speed, duration, tree and set of faults.                          *)
(***************************************************************************)
EXTENDS RunProperties, WellFoundedInduction, TLAPS

(***************************************************************************)
(* Every handler, given a journal entry of the contract, takes a library   *)
(* tree to a library tree: no handler invents a path, a size out of bounds *)
(* or a mode.                                                              *)
(***************************************************************************)
Effect == [ok : BOOLEAN, fs : FileSystem]

LEMMA WholeTyped ==
  ASSUME NEW a \in Assets, NEW v \in Nat
  PROVE  Whole(a, v) \in File
  BY LibraryAssumption DEF Whole, File, FileMode, Mode

LEMMA WrittenTyped ==
  ASSUME NEW tree \in FileSystem, NEW p \in Paths, NEW f \in File
  PROVE  Written(tree, p, f) \in FileSystem
<1>1. [f EXCEPT !.mode = IF Present(tree, p) THEN tree.files[p].mode ELSE FileMode] \in File
  BY DEF File, FileSystem, Present, FileMode, Mode
<1> QED BY <1>1 DEF Written, FileSystem

LEMMA ReplacedTyped ==
  ASSUME NEW tree \in FileSystem, NEW p \in Paths, NEW q \in Paths
  PROVE  Replaced(tree, p, q) \in FileSystem
  BY DEF Replaced, FileSystem

LEMMA PromoteTyped ==
  ASSUME NEW tree \in FileSystem, NEW p \in Paths, NEW t \in Paths, NEW q \in Paths
  PROVE  Promote(tree, p, t, q) \in Effect
<1> DEFINE freed == IF p # q THEN [tree EXCEPT !.files[p] = NoFile] ELSE tree
<1>1. freed \in FileSystem
  BY DEF FileSystem
<1>2. Replaced(freed, t, q) \in FileSystem
  BY <1>1, ReplacedTyped
<1> QED BY <1>1, <1>2 DEF Promote, Returns, Raises, Effect

(***************************************************************************)
(* The handlers.                                                           *)
(***************************************************************************)
LEMMA MoveAssetTyped ==
  ASSUME NEW tree \in FileSystem, NEW e, e.from \in Paths, e.to \in Paths
  PROVE  MoveAsset(tree, e) \in Effect
  BY ReplacedTyped DEF MoveAsset, Returns, Raises, Effect

LEMMA DeleteFileTyped ==
  ASSUME NEW tree \in FileSystem, NEW e, e.from \in Paths, e.asset \in Assets
  PROVE  DeleteFile(tree, e) \in Effect
<1>1. [tree EXCEPT !.files[e.from] = NoFile, !.cache[e.asset] = tree.files[e.from]] \in FileSystem
  BY DEF FileSystem
<1> QED BY <1>1 DEF DeleteFile, Returns, Raises, Effect

LEMMA AddFileTyped ==
  ASSUME NEW tree \in FileSystem, NEW e, e.to \in Paths, e.asset \in Assets
  PROVE  AddFile(tree, e) \in Effect
<1>1. CASE tree.cache[e.asset] # NoFile /\ CanWrite(tree, e.to)
  <2>1. tree.cache[e.asset] \in File
    BY <1>1 DEF FileSystem
  <2>2. Written(tree, e.to, tree.cache[e.asset]) \in FileSystem
    BY <2>1, WrittenTyped
  <2>3. [Written(tree, e.to, tree.cache[e.asset]) EXCEPT !.cache[e.asset] = NoFile] \in FileSystem
    BY <2>2 DEF FileSystem
  <2> QED BY <1>1, <2>3 DEF AddFile, Returns, Effect
<1>2. CASE ~(tree.cache[e.asset] # NoFile /\ CanWrite(tree, e.to))
  BY <1>2 DEF AddFile, Raises, Effect
<1> QED BY <1>1, <1>2

LEMMA RewriteVersionTyped ==
  ASSUME NEW tree \in FileSystem, NEW e, e.from \in Paths, e.to \in Paths
  PROVE  RewriteVersion(tree, e) \in Effect
<1>1. CASE CanRead(tree, e.from) /\ CanLink(tree, e.to) /\ CanLink(tree, e.from)
  <2> DEFINE new == Whole(tree.files[e.from].asset, tree.files[e.from].ver + 1)
  <2>1. tree.files[e.from] \in File
    BY <1>1 DEF CanRead, Present, FileSystem
  <2>2. tree.files[e.from].asset \in Assets /\ tree.files[e.from].ver + 1 \in Nat
    BY <2>1 DEF File
  <2>3. new \in File
    BY <2>2, WholeTyped
  <2> HIDE DEF new
  <2>4. [tree EXCEPT !.files = [@ EXCEPT ![e.from] = NoFile, ![e.to] = new]] \in FileSystem
    BY <2>3 DEF FileSystem
  <2> USE DEF new
  <2> QED BY <1>1, <2>4 DEF RewriteVersion, Returns, Effect
<1>2. CASE ~(CanRead(tree, e.from) /\ CanLink(tree, e.to) /\ CanLink(tree, e.from))
  BY <1>2 DEF RewriteVersion, Raises, Effect
<1> QED BY <1>1, <1>2

LEMMA HierarchyMovesTyped ==
  ASSUME NEW tree \in FileSystem, NEW e, \A m \in e.moves : m.from \in Paths /\ m.to \in Paths
  PROVE  HierarchyMoves(tree, e) \in Effect
<1> DEFINE destinations == {m.to : m \in e.moves}
           sources      == {m.from : m \in e.moves}
           arrived(p)   == CHOOSE m \in e.moves : m.to = p
           moved        == [p \in Paths |-> IF p \in destinations THEN tree.files[arrived(p).from]
                                            ELSE IF p \in sources THEN NoFile
                                            ELSE tree.files[p]]
<1>1. \A p \in destinations : arrived(p) \in e.moves
  OBVIOUS
<1>2. moved \in [Paths -> File \cup {NoFile}]
  <2>1. ASSUME NEW p \in Paths PROVE moved[p] \in File \cup {NoFile}
    <3>1. tree.files \in [Paths -> File \cup {NoFile}]
      BY DEF FileSystem
    <3>2. p \in destinations => arrived(p).from \in Paths
      BY <1>1
    <3> HIDE DEF destinations, sources, arrived
    <3> QED BY <3>1, <3>2
  <2> QED BY <2>1
<1> HIDE DEF moved
<1>3. [tree EXCEPT !.files = moved] \in FileSystem
  BY <1>2 DEF FileSystem
<1>4. \/ HierarchyMoves(tree, e) = Returns([tree EXCEPT !.files = moved])
      \/ HierarchyMoves(tree, e) = Raises(tree)
  BY DEF HierarchyMoves, moved
<1>5. Returns([tree EXCEPT !.files = moved]) \in Effect
  BY <1>3 DEF Returns, Effect
<1>6. Raises(tree) \in Effect
  BY DEF Raises, Effect
<1> QED BY <1>4, <1>5, <1>6

LEMMA StageCopyTyped ==
  ASSUME NEW tree \in FileSystem, NEW e, NEW i \in Nat, e.from \in Paths, e.temp \in Paths
  PROVE  StageCopy(tree, i, e) \in Effect
<1>1. CASE CanRead(tree, e.from) /\ CanWrite(tree, e.temp)
  <2>1. tree.files[e.from] \in File
    BY <1>1 DEF CanRead, Present, FileSystem
  <2> DEFINE next == Written(tree, e.temp, tree.files[e.from])
  <2>2. next \in FileSystem
    BY <2>1, WrittenTyped
  <2> HIDE DEF next
  <2>3. [next EXCEPT !.pending = @ \cup {[start |-> i, from |-> e.from, temp |-> e.temp]}]
            \in FileSystem
    BY <2>2 DEF FileSystem, PendingCopy
  <2> USE DEF next
  <2> QED BY <1>1, <2>3 DEF StageCopy, Returns, Effect
<1>2. CASE ~(CanRead(tree, e.from) /\ CanWrite(tree, e.temp))
  BY <1>2 DEF StageCopy, Raises, Effect
<1> QED BY <1>1, <1>2

LEMMA CommitStagedCopyTyped ==
  ASSUME NEW tree \in FileSystem, NEW e, e.to \in Paths
  PROVE  CommitStagedCopy(tree, e) \in Effect
<1> DEFINE staged == {p \in tree.pending : p.start = e.ref}
           copy   == CHOOSE p \in staged : TRUE
           rest   == [tree EXCEPT !.pending = @ \ staged]
<1>1. rest \in FileSystem
  BY DEF FileSystem
<1>2. CASE staged # {}
  <2>1. copy \in staged
    BY <1>2
  <2>2. copy.from \in Paths /\ copy.temp \in Paths
    BY <2>1 DEF FileSystem, PendingCopy
  <2> HIDE DEF rest, copy
  <2>3. Promote(rest, copy.from, copy.temp, e.to) \in Effect
    BY <1>1, <2>2, PromoteTyped
  <2> USE DEF rest, copy
  <2> QED BY <1>2, <2>3 DEF CommitStagedCopy
<1>3. CASE staged = {}
  BY <1>3 DEF CommitStagedCopy, Raises, Effect
<1> QED BY <1>2, <1>3

\* dispatch_phase_b_entry takes a tree to a tree, whether it returns or raises.
LEMMA DispatchTyped ==
  ASSUME NEW tree \in FileSystem, NEW i \in Nat, NEW e \in JournalEntries
  PROVE  Dispatch(tree, i, e) \in Effect
<1>1. CarriesPaths(e)
  BY DEF JournalEntries
<1>2. CASE e.act = "move_asset"
  BY <1>1, <1>2, MoveAssetTyped DEF Dispatch, CarriesPaths, LocationActions, MediaActions
<1>3. CASE e.act = "delete_file"
  BY <1>1, <1>3, DeleteFileTyped DEF Dispatch, CarriesPaths, LocationActions, MediaActions
<1>4. CASE e.act = "add_file"
  BY <1>1, <1>4, AddFileTyped DEF Dispatch, CarriesPaths, MediaActions
<1>5. CASE e.act \in MediaActions
  BY <1>1, <1>5, RewriteVersionTyped DEF Dispatch, CarriesPaths, LocationActions, MediaActions
<1>6. CASE e.act = "touch_mtime"
  BY <1>6 DEF Dispatch, TouchMtime, Returns, Raises, Effect, MediaActions
<1>7. CASE e.act = "rename_season"
  BY <1>1, <1>7, HierarchyMovesTyped DEF Dispatch, CarriesPaths, MediaActions
<1>8. CASE e.act = "slow_copy_start"
  BY <1>1, <1>8, StageCopyTyped DEF Dispatch, CarriesPaths, LocationActions, MediaActions
<1>9. CASE e.act = "slow_copy_commit"
  BY <1>1, <1>9, CommitStagedCopyTyped DEF Dispatch, CarriesPaths, MediaActions
<1>10. CASE e.act \notin {"move_asset", "delete_file", "add_file", "touch_mtime", "rename_season",
                          "slow_copy_start", "slow_copy_commit"} \cup MediaActions
  BY <1>10 DEF Dispatch, Raises, Effect
<1> QED BY <1>2, <1>3, <1>4, <1>5, <1>6, <1>7, <1>8, <1>9, <1>10

(***************************************************************************)
(* The network-fs-chaos effects.                                           *)
(***************************************************************************)
CapturedMode   == [target : Paths \cup Dirs, mode : Mode]
ChaosStates(D) == [captured : Seq(CapturedMode), open : SUBSET D]

LEMMA ChmodTyped ==
  ASSUME NEW tree \in FileSystem, NEW t, NEW m \in Mode, Exists(tree, t)
  PROVE  Chmod(tree, t, m) \in FileSystem
<1>1. CASE t \in Dirs
  BY <1>1 DEF Chmod, FileSystem
<1>2. CASE t \notin Dirs
  <2>1. t \in Paths /\ tree.files[t] \in File
    BY <1>2 DEF Exists, Present, FileSystem
  <2>2. [tree.files[t] EXCEPT !.mode = m] \in File
    BY <2>1 DEF File
  <2> QED BY <1>2, <2>1, <2>2 DEF Chmod, FileSystem
<1> QED BY <1>1, <1>2

LEMMA ModeTyped ==
  ASSUME NEW tree \in FileSystem, NEW t, Exists(tree, t)
  PROVE  t \in Paths \cup Dirs /\ ModeOf(tree, t) \in Mode
  BY DEF ModeOf, Exists, Present, FileSystem, File

LEMMA NewModeTyped ==
  ASSUME NEW tree \in FileSystem, NEW e \in JournalEntries, Exists(tree, e.target)
  PROVE  NewMode(tree, e) \in Mode
<1>1. e.mode \in Mode
  BY DEF JournalEntries
<1>2. ModeOf(tree, e.target) \in Mode
  BY ModeTyped
<1> QED BY <1>1, <1>2 DEF NewMode, Mode

LEMMA CapturedTyped ==
  ASSUME NEW captured \in Seq(CapturedMode), NEW t \in Paths \cup Dirs, NEW m \in Mode
  PROVE  Captured(captured, t, m) \in Seq(CapturedMode)
<1>1. [target |-> t, mode |-> m] \in CapturedMode
  BY DEF CapturedMode
<1> QED BY <1>1 DEF Captured

\* A chmod, a lock or its release keeps both the tree and the chaos state typed.
LEMMA RealizeTyped ==
  ASSUME NEW tree \in FileSystem, NEW D, NEW state \in ChaosStates(D), NEW i \in D,
         NEW e \in JournalEntries
  PROVE  Realize(tree, state, i, e) \in [ok : BOOLEAN, fs : FileSystem, chaos : ChaosStates(D)]
<1> DEFINE r == Realize(tree, state, i, e)
<1>1. CASE e.act = "acquire_lock"
  <2>1. [state EXCEPT !.open = @ \cup {i}] \in ChaosStates(D)
    BY DEF ChaosStates
  <2> QED BY <1>1, <2>1 DEF Realize
<1>2. CASE e.act = "release_lock"
  <2>1. [state EXCEPT !.open = @ \ {e.ref}] \in ChaosStates(D)
    BY DEF ChaosStates
  <2> QED BY <1>2, <2>1 DEF Realize
<1>3. CASE e.act \in {"change_permissions", "toggle_readonly"} /\ ExistsRaises(tree, e.target)
  <2>1. ~Exists(tree, e.target)
    BY <1>3, LibraryAssumption DEF Exists, ExistsRaises, StatBlocked
  <2>2. r = [ok |-> FALSE, fs |-> tree, chaos |-> state]
    BY <1>3, <2>1 DEF Realize
  <2> QED BY <2>2
<1>4. CASE /\ e.act \in {"change_permissions", "toggle_readonly"}
           /\ ~ExistsRaises(tree, e.target) /\ Exists(tree, e.target)
  <2> DEFINE kept == Captured(state.captured, e.target, ModeOf(tree, e.target))
  <2>1. Chmod(tree, e.target, NewMode(tree, e)) \in FileSystem
    BY <1>4, NewModeTyped, ChmodTyped
  <2>2. kept \in Seq(CapturedMode)
    BY <1>4, ModeTyped, CapturedTyped DEF ChaosStates
  <2>3. [state EXCEPT !.captured = Captured(@, e.target, ModeOf(tree, e.target))] \in ChaosStates(D)
    BY <2>2 DEF ChaosStates
  <2> QED BY <1>4, <2>1, <2>3 DEF Realize
<1>5. CASE /\ e.act \notin {"acquire_lock", "release_lock"}
           /\ e.act \in {"change_permissions", "toggle_readonly"} =>
                ~ExistsRaises(tree, e.target) /\ ~Exists(tree, e.target)
  <2>1. r = [ok |-> TRUE, fs |-> tree, chaos |-> state]
    BY <1>5 DEF Realize
  <2> QED BY <2>1
<1> QED BY <1>1, <1>2, <1>3, <1>4, <1>5

LEMMA RestoreTyped ==
  ASSUME NEW tree \in FileSystem, NEW captured \in Seq(CapturedMode), captured # <<>>
  PROVE  RestoreOne(tree, captured) \in FileSystem /\ Tail(captured) \in Seq(CapturedMode)
<1>1. Head(captured) \in CapturedMode
  OBVIOUS
<1>2. Tail(captured) \in Seq(CapturedMode)
  OBVIOUS
<1>3. Head(captured).mode \in Mode
  BY <1>1 DEF CapturedMode
<1> QED BY <1>2, <1>3, ChmodTyped DEF RestoreOne

(***************************************************************************)
(* Sizes.  Every handler leaves whole files: a tree whose files and cached *)
(* bytes are whole is taken to such a tree, whatever paths alias.          *)
(***************************************************************************)
WholeAt(tree, P) == \A p \in P : Present(tree, p) => tree.files[p].bytes = FileBytes
CacheWhole(tree) == \A a \in Assets : tree.cache[a] # NoFile => tree.cache[a].bytes = FileBytes
Intact(tree)     == WholeAt(tree, Paths) /\ CacheWhole(tree)

LEMMA WrittenWhole ==
  ASSUME NEW tree \in FileSystem, NEW p \in Paths, NEW f \in File, f.bytes = FileBytes,
         WholeAt(tree, Paths \ {p}), CacheWhole(tree)
  PROVE  Intact(Written(tree, p, f)) /\ Present(Written(tree, p, f), p)
<1> DEFINE new == [f EXCEPT !.mode = IF Present(tree, p) THEN tree.files[p].mode ELSE FileMode]
<1>1. new.bytes = FileBytes /\ new \in File
  BY DEF File, FileSystem, Present, FileMode, Mode
<1>2. Written(tree, p, f) = [tree EXCEPT !.files[p] = new]
  BY DEF Written
<1>3. new # NoFile
  BY <1>1, NoFileAssumption
<1> HIDE DEF new
<1> QED BY <1>1, <1>2, <1>3 DEF Intact, WholeAt, CacheWhole, Present, FileSystem

LEMMA ReplacedWhole ==
  ASSUME NEW tree \in FileSystem, NEW p \in Paths, NEW q \in Paths, Intact(tree)
  PROVE  Intact(Replaced(tree, p, q))
  BY DEF Replaced, FileSystem, Intact, WholeAt, CacheWhole, Present

LEMMA PromoteWhole ==
  ASSUME NEW tree \in FileSystem, NEW p \in Paths, NEW t \in Paths, NEW q \in Paths, Intact(tree)
  PROVE  Intact(Promote(tree, p, t, q).fs)
<1> DEFINE freed == IF p # q THEN [tree EXCEPT !.files[p] = NoFile] ELSE tree
<1>1. freed \in FileSystem /\ Intact(freed)
  BY DEF FileSystem, Intact, WholeAt, CacheWhole, Present
<1> HIDE DEF freed
<1>2. Intact(Replaced(freed, t, q))
  BY <1>1, ReplacedWhole
<1>3. Promote(tree, p, t, q) \in {Returns(Replaced(freed, t, q)), Raises(tree)}
  BY DEF Promote, freed
<1> QED BY <1>2, <1>3 DEF Returns, Raises

LEMMA HierarchyMovesWhole ==
  ASSUME NEW tree \in FileSystem, Intact(tree),
         NEW e, \A m \in e.moves : m.from \in Paths /\ m.to \in Paths
  PROVE  Intact(HierarchyMoves(tree, e).fs)
<1> DEFINE destinations == {m.to : m \in e.moves}
           sources      == {m.from : m \in e.moves}
           arrived(p)   == CHOOSE m \in e.moves : m.to = p
           moved        == [p \in Paths |-> IF p \in destinations THEN tree.files[arrived(p).from]
                                            ELSE IF p \in sources THEN NoFile
                                            ELSE tree.files[p]]
<1>1. \A p \in destinations : arrived(p) \in e.moves
  OBVIOUS
<1>2. ASSUME NEW p \in Paths
      PROVE  moved[p] # NoFile => moved[p].bytes = FileBytes
  <2>1. p \in destinations => arrived(p).from \in Paths
    BY <1>1
  <2> HIDE DEF destinations, sources, arrived
  <2> QED BY <2>1 DEF Intact, WholeAt, Present
<1> HIDE DEF moved
<1>3. \/ HierarchyMoves(tree, e) = Returns([tree EXCEPT !.files = moved])
      \/ HierarchyMoves(tree, e) = Raises(tree)
  BY DEF HierarchyMoves, moved
<1>4. Intact([tree EXCEPT !.files = moved])
  BY <1>2 DEF Intact, WholeAt, CacheWhole, Present, FileSystem
<1> QED BY <1>3, <1>4 DEF Returns, Raises

\* dispatch_phase_b_entry, when no slow copy is staged.
LEMMA DispatchWhole ==
  ASSUME NEW tree \in FileSystem, Intact(tree), tree.pending = {}, NEW i \in Nat,
         NEW e \in JournalEntries
  PROVE  Intact(Dispatch(tree, i, e).fs)
<1>0. CarriesPaths(e)
  BY DEF JournalEntries
<1>1. \A t : Returns(t).fs = t /\ Raises(t).fs = t
  BY DEF Returns, Raises
<1>2. CASE e.act = "move_asset"
  <2>1. e.from \in Paths /\ e.to \in Paths
    BY <1>0, <1>2 DEF CarriesPaths, LocationActions
  <2>2. Dispatch(tree, i, e) \in {Returns(Replaced(tree, e.from, e.to)), Raises(tree)}
    BY <1>2 DEF Dispatch, MediaActions, MoveAsset
  <2> QED BY <1>1, <2>1, <2>2, ReplacedWhole
<1>3. CASE e.act = "delete_file"
  <2> DEFINE new == [tree EXCEPT !.files[e.from] = NoFile, !.cache[e.asset] = tree.files[e.from]]
  <2>1. e.from \in Paths /\ e.asset \in Assets
    BY <1>0, <1>3 DEF CarriesPaths, LocationActions
  <2>2. Dispatch(tree, i, e) \in {Returns(new), Raises(tree)}
    BY <1>3 DEF Dispatch, MediaActions, DeleteFile
  <2>3. Intact(new)
    BY <2>1 DEF FileSystem, Intact, WholeAt, CacheWhole, Present
  <2> HIDE DEF new
  <2> QED BY <1>1, <2>2, <2>3
<1>4. CASE e.act = "add_file"
  <2> DEFINE out == Written(tree, e.to, tree.cache[e.asset])
             new == [out EXCEPT !.cache[e.asset] = NoFile]
  <2>1. e.to \in Paths /\ e.asset \in Assets
    BY <1>0, <1>4 DEF CarriesPaths
  <2>2. \/ Dispatch(tree, i, e) = Raises(tree)
        \/ tree.cache[e.asset] # NoFile /\ Dispatch(tree, i, e) = Returns(new)
    BY <1>4 DEF Dispatch, MediaActions, AddFile
  <2>3. CASE tree.cache[e.asset] # NoFile
    <3>1. tree.cache[e.asset] \in File /\ tree.cache[e.asset].bytes = FileBytes
      BY <2>1, <2>3 DEF FileSystem, Intact, CacheWhole
    <3>2. WholeAt(tree, Paths \ {e.to}) /\ CacheWhole(tree)
      BY DEF Intact, WholeAt
    <3>3. Intact(out) /\ out \in FileSystem
      BY <2>1, <3>1, <3>2, WrittenWhole, WrittenTyped
    <3> HIDE DEF out
    <3>4. Intact(new)
      BY <2>1, <3>3 DEF FileSystem, Intact, WholeAt, CacheWhole, Present
    <3> HIDE DEF new
    <3> QED BY <1>1, <2>2, <3>4
  <2> HIDE DEF new
  <2> QED BY <1>1, <2>2, <2>3
<1>5. CASE e.act \in MediaActions
  <2> DEFINE new == Whole(tree.files[e.from].asset, tree.files[e.from].ver + 1)
             out == [tree EXCEPT !.files = [@ EXCEPT ![e.from] = NoFile, ![e.to] = new]]
  <2>1. Dispatch(tree, i, e) \in {Returns(out), Raises(tree)}
    BY <1>5 DEF Dispatch, RewriteVersion, MediaActions
  <2>2. e.from \in Paths /\ e.to \in Paths
    BY <1>0, <1>5 DEF CarriesPaths, LocationActions, MediaActions
  <2>3. new.bytes = FileBytes
    BY DEF Whole
  <2> HIDE DEF new
  <2>4. Intact(out)
    BY <2>2, <2>3 DEF FileSystem, Intact, WholeAt, CacheWhole, Present
  <2> HIDE DEF out
  <2> QED BY <1>1, <2>1, <2>4
<1>6. CASE e.act = "touch_mtime"
  BY <1>1, <1>6 DEF Dispatch, MediaActions, TouchMtime
<1>7. CASE e.act = "rename_season"
  <2>1. Dispatch(tree, i, e) = HierarchyMoves(tree, e)
    BY <1>7 DEF Dispatch, MediaActions
  <2>2. \A m \in e.moves : m.from \in Paths /\ m.to \in Paths
    BY <1>0 DEF CarriesPaths
  <2> QED BY <2>1, <2>2, HierarchyMovesWhole
<1>8. CASE e.act = "slow_copy_start"
  <2> DEFINE out == Written(tree, e.temp, tree.files[e.from])
             new == [out EXCEPT !.pending = @ \cup {[start |-> i, from |-> e.from, temp |-> e.temp]}]
  <2>1. e.from \in Paths /\ e.temp \in Paths
    BY <1>0, <1>8 DEF CarriesPaths, LocationActions
  <2>2. \/ Dispatch(tree, i, e) = Raises(tree)
        \/ Present(tree, e.from) /\ Dispatch(tree, i, e) = Returns(new)
    BY <1>8 DEF Dispatch, MediaActions, StageCopy, CanRead
  <2>3. CASE Present(tree, e.from)
    <3>1. tree.files[e.from] \in File /\ tree.files[e.from].bytes = FileBytes
      BY <2>1, <2>3 DEF FileSystem, Intact, WholeAt, Present
    <3>2. WholeAt(tree, Paths \ {e.temp}) /\ CacheWhole(tree)
      BY DEF Intact, WholeAt
    <3>3. Intact(out) /\ out \in FileSystem
      BY <2>1, <3>1, <3>2, WrittenWhole, WrittenTyped
    <3> HIDE DEF out
    <3>4. Intact(new)
      BY <3>3 DEF FileSystem, Intact, WholeAt, CacheWhole, Present
    <3> HIDE DEF new
    <3> QED BY <1>1, <2>2, <3>4
  <2> HIDE DEF new
  <2> QED BY <1>1, <2>2, <2>3
<1>9. CASE e.act = "slow_copy_commit"
  BY <1>1, <1>9 DEF Dispatch, MediaActions, CommitStagedCopy
<1>10. CASE e.act \notin MediaActions \cup {"move_asset", "delete_file", "add_file", "touch_mtime",
                              "rename_season", "slow_copy_start", "slow_copy_commit"}
  BY <1>1, <1>10 DEF Dispatch, MediaActions
<1> QED BY <1>2, <1>3, <1>4, <1>5, <1>6, <1>7, <1>8, <1>9, <1>10

LEMMA ChmodWhole ==
  ASSUME NEW tree \in FileSystem, NEW t, NEW m \in Mode, Exists(tree, t), NEW P \in SUBSET Paths,
         WholeAt(tree, P), CacheWhole(tree)
  PROVE  WholeAt(Chmod(tree, t, m), P) /\ CacheWhole(Chmod(tree, t, m))
<1>1. CASE t \in Dirs
  BY <1>1 DEF Chmod, FileSystem, WholeAt, CacheWhole, Present
<1>2. CASE t \notin Dirs
  <2>1. t \in Paths /\ tree.files[t] \in File
    BY <1>2 DEF Exists, Present, FileSystem
  <2> DEFINE f == [tree.files[t] EXCEPT !.mode = m]
  <2>2. f.bytes = tree.files[t].bytes
    BY <2>1 DEF File
  <2>3. tree.files[t] # NoFile
    BY <1>2 DEF Exists, Present
  <2>4. Chmod(tree, t, m) = [tree EXCEPT !.files[t] = f]
    BY <1>2, <2>1 DEF Chmod, FileSystem
  <2> HIDE DEF f
  <2> QED BY <2>1, <2>2, <2>3, <2>4 DEF FileSystem, WholeAt, CacheWhole, Present
<1> QED BY <1>1, <1>2

(***************************************************************************)
(* Arithmetic of the two clocks.                                           *)
(***************************************************************************)

LEMMA Division ==
  ASSUME NEW a \in Int, NEW b \in Nat \ {0}
  PROVE  /\ a \div b \in Int /\ a % b \in Int
         /\ a = b * (a \div b) + (a % b)
         /\ 0 <= a % b /\ a % b < b
  OBVIOUS

LEMMA DivMonotone ==
  ASSUME NEW a \in Int, NEW c \in Int, NEW b \in Nat \ {0}, a <= c
  PROVE  a \div b <= c \div b
  OBVIOUS

LEMMA TimesMonotone ==
  ASSUME NEW a \in Int, NEW c \in Int, NEW b \in Nat, a <= c
  PROVE  a * b <= c * b
  OBVIOUS

LEMMA DivAtLeast ==
  ASSUME NEW a \in Int, NEW q \in Int, NEW b \in Nat \ {0}, q * b <= a
  PROVE  q <= a \div b
  OBVIOUS

LEMMA LogicalNowTyped ==
  ASSUME NEW t \in Nat
  PROVE  LogicalNow(t) \in Nat
<1>1. t * Num \in Nat
  BY WallClockAssumption
<1>2. 0 <= (t * Num) \div Den
  BY <1>1, DivAtLeast, WallClockAssumption
<1>3. (t * Num) \div Den \in Int
  BY <1>1, Division, WallClockAssumption
<1> QED BY <1>2, <1>3 DEF LogicalNow

LEMMA LogicalNowMonotone ==
  ASSUME NEW t \in Nat, NEW u \in Nat, t <= u
  PROVE  LogicalNow(t) <= LogicalNow(u)
<1>1. t * Num <= u * Num
  BY TimesMonotone, WallClockAssumption
<1>2. t * Num \in Int /\ u * Num \in Int
  BY WallClockAssumption
<1> QED BY <1>1, <1>2, DivMonotone, WallClockAssumption DEF LogicalNow

LEMMA DueWallTyped ==
  ASSUME NEW at \in Nat
  PROVE  DueWall(at) \in Nat
<1>1. at * Den \in Nat
  BY WallClockAssumption
<1>2. 0 <= (at * Den) \div Num /\ (at * Den) \div Num \in Int
  BY <1>1, DivAtLeast, Division, WallClockAssumption
<1> QED BY <1>2 DEF DueWall

\* Waking up at DueWall is late enough: the logical clock, which rounds down,
\* has then reached the time that DueWall rounded up.
LEMMA DueWallIsDue ==
  ASSUME NEW at \in Nat, NEW t \in Nat, t >= DueWall(at)
  PROVE  LogicalNow(t) >= at
<1> DEFINE scaled == at * Den
           q == scaled \div Num
           r == scaled % Num
<1>1. scaled \in Nat
  BY WallClockAssumption
<1>2. q \in Int /\ r \in Int /\ scaled = Num * q + r /\ 0 <= r /\ r < Num
  BY <1>1, Division, WallClockAssumption
<1>3. scaled <= Num * DueWall(at)
  <2>1. CASE r = 0
    <3>1. DueWall(at) = q
      BY <2>1, <1>2 DEF DueWall
    <3> HIDE DEF q, r, scaled
    <3> QED BY <3>1, <2>1, <1>1, <1>2, WallClockAssumption
  <2>2. CASE r # 0
    <3>1. DueWall(at) = q + 1
      BY <2>2 DEF DueWall
    <3> HIDE DEF q, r, scaled
    <3>2. Num * (q + 1) = Num * q + Num
      BY <1>2, WallClockAssumption
    <3> QED BY <3>1, <3>2, <1>1, <1>2, WallClockAssumption
  <2> QED BY <2>1, <2>2
<1>4. Num * DueWall(at) <= t * Num
  <2>1. DueWall(at) * Num <= t * Num
    BY DueWallTyped, TimesMonotone, WallClockAssumption
  <2>2. DueWall(at) * Num = Num * DueWall(at)
    BY DueWallTyped, WallClockAssumption
  <2> QED BY <2>1, <2>2
<1>5. at * Den <= t * Num
  <2>1. Num * DueWall(at) \in Int /\ t * Num \in Int
    BY DueWallTyped, WallClockAssumption
  <2> HIDE DEF q, r
  <2> QED BY <1>1, <1>3, <1>4, <2>1
<1>6. t * Num \in Int
  BY WallClockAssumption
<1> QED BY <1>5, <1>6, DivAtLeast, WallClockAssumption DEF LogicalNow

(***************************************************************************)
(* Types.  TypeOK is not inductive: the cursor must not run past the end   *)
(* of the journal, so what is left of due_count must be counted against    *)
(* it, before the effect of an entry and between effect and record.        *)
(***************************************************************************)
TypeInv ==
    /\ TypeOK
    /\ plan \in Plans
    /\ pc = "batch" => cursor + due <= Len(Journal)
    /\ pc = "record" => cursor < Len(Journal)
    /\ pc = "record" /\ ret = "batch" => cursor + 1 + due <= Len(Journal)
    /\ \A c \in copies : Entry(c.start).act = "slow_copy_start"

\* What every plan of a valid scenario looks like.
LEMMA PlanTyped ==
  ASSUME plan \in Plans
  PROVE  /\ Journal \in Seq(JournalEntries)
         /\ Len(Journal) \in Nat
         /\ DOMAIN Journal = 1..Len(Journal)
         /\ \A i \in 1..Len(Journal) : Entry(i) \in JournalEntries /\ Entry(i).at \in Nat
         /\ WellPaired(Journal)
<1>1. Journal \in Seq(JournalEntries) /\ WellPaired(Journal)
  BY PlansAssumption DEF Journal
<1>2. \A e \in JournalEntries : e.at \in Nat
  BY DEF JournalEntries
<1> HIDE DEF Journal
<1> QED BY <1>1, <1>2 DEF Entry

LEMMA StartHasCommit ==
  ASSUME plan \in Plans, NEW i \in DOMAIN Journal, Entry(i).act = "slow_copy_start"
  PROVE  /\ CommitOf(i) = i + 1
         /\ i + 1 \in DOMAIN Journal
         /\ Entry(i + 1).act = "slow_copy_commit" /\ Entry(i + 1).ref = i
         /\ Entry(i).at < Entry(i + 1).at
<1> USE PlanTyped
<1>1. /\ i + 1 \in DOMAIN Journal /\ Entry(i + 1).act = "slow_copy_commit"
      /\ Entry(i).at < Entry(i + 1).at
  BY DEF WellPaired, Is, Entry
<1>2. \A j \in DOMAIN Journal : Entry(j).act = "slow_copy_commit" => Entry(j).ref = j - 1
  BY DEF WellPaired, Entry
<1>3. \A j \in DOMAIN Journal :
        (Entry(j).act = "slow_copy_commit" /\ Entry(j).ref = i) => j = i + 1
  BY <1>2
<1>4. Entry(i + 1).ref = i
  BY <1>1, <1>2
<1> QED BY <1>1, <1>3, <1>4 DEF CommitOf

LEMMA VisibleSizeTyped ==
  ASSUME plan \in Plans, NEW c \in [start : DOMAIN Journal, source : File],
         Entry(c.start).act = "slow_copy_start", NEW logical \in Nat
  PROVE  VisibleSize(c, logical) \in 0..FileBytes
<1> DEFINE length  == Entry(CommitOf(c.start)).at - Entry(c.start).at
           elapsed == logical - Entry(c.start).at
           clamped == IF elapsed < 0 THEN 0 ELSE Earlier(elapsed, length)
           bytes   == c.source.bytes
<1>1. bytes \in Nat /\ bytes <= FileBytes
  BY LibraryAssumption DEF File
<1>2. length \in Nat \ {0}
  BY StartHasCommit, PlanTyped
<1>3. elapsed \in Int
  BY PlanTyped
<1>4. VisibleSize(c, logical) = (bytes * clamped) \div length
  BY DEF VisibleSize
<1> HIDE DEF length, elapsed, bytes
<1>5. clamped \in Nat /\ clamped <= length
  BY <1>2, <1>3 DEF Earlier
<1> HIDE DEF clamped
<1>6. bytes * clamped \in Nat
  BY <1>1, <1>5
<1>7. 0 <= (bytes * clamped) \div length /\ (bytes * clamped) \div length \in Int
  BY <1>2, <1>6, DivAtLeast, Division
<1>8. (bytes * clamped) \div length <= bytes
  <2>1. clamped * bytes <= length * bytes
    BY <1>1, <1>2, <1>5, TimesMonotone
  <2>2. bytes * clamped <= bytes * length /\ bytes * length \in Nat
    BY <2>1, <1>1, <1>2, <1>5
  <2>3. (bytes * clamped) \div length <= (bytes * length) \div length
    BY <2>2, <1>2, <1>6, DivMonotone
  <2>4. (bytes * length) \div length = bytes
    BY <1>1, <1>2
  <2> QED BY <2>3, <2>4
<1> QED BY <1>1, <1>4, <1>7, <1>8, LibraryAssumption

LEMMA GrownTyped ==
  ASSUME TypeInv, NEW logical \in Nat
  PROVE  Grown(logical) \in Effect
<1> DEFINE temp(c)  == Entry(c.start).temp
           part(c)  == [c.source EXCEPT !.bytes = VisibleSize(c, logical)]
           owner(p) == {c \in copies : temp(c) = p}
           grown(p) == IF owner(p) = {} THEN fs.files[p]
                       ELSE Written(fs, p, part(CHOOSE c \in owner(p) : TRUE)).files[p]
<1>1. fs \in FileSystem
  BY DEF TypeInv, TypeOK
<1>2. ASSUME NEW p \in Paths PROVE grown(p) \in File \cup {NoFile}
  <2>1. CASE owner(p) = {}
    BY <1>1, <2>1 DEF FileSystem
  <2>2. CASE owner(p) # {}
    <3> DEFINE c == CHOOSE x \in owner(p) : TRUE
    <3>1. c \in copies
      BY <2>2
    <3> HIDE DEF c
    <3>2. c \in [start : DOMAIN Journal, source : File] /\ Entry(c.start).act = "slow_copy_start"
      BY <3>1 DEF TypeInv, TypeOK
    <3>3. VisibleSize(c, logical) \in 0..FileBytes
      BY <3>2, VisibleSizeTyped DEF TypeInv
    <3>4. part(c) \in File
      BY <3>2, <3>3 DEF File
    <3> HIDE DEF part
    <3>5. Written(fs, p, part(c)) \in FileSystem
      BY <1>1, <3>4, WrittenTyped
    <3>6. Written(fs, p, part(c)).files[p] \in File \cup {NoFile}
      BY <3>5 DEF FileSystem
    <3> USE DEF c
    <3> QED BY <2>2, <3>6
  <2> QED BY <2>1, <2>2
<1> HIDE DEF grown
<1>3. [p \in Paths |-> grown(p)] \in [Paths -> File \cup {NoFile}]
  BY <1>2
<1>4. [fs EXCEPT !.files = [p \in Paths |-> grown(p)]] \in FileSystem
  BY <1>1, <1>3 DEF FileSystem
<1>5. \/ Grown(logical) = Returns([fs EXCEPT !.files = [p \in Paths |-> grown(p)]])
      \/ Grown(logical) = Raises(fs)
  BY DEF Grown, grown
<1>6. Returns([fs EXCEPT !.files = [p \in Paths |-> grown(p)]]) \in Effect
  BY <1>4 DEF Returns, Effect
<1>7. Raises(fs) \in Effect
  BY <1>1 DEF Raises, Effect
<1> QED BY <1>5, <1>6, <1>7

\* What a handler may do to the tree and the session.
SessionTyped ==
    /\ fs \in FileSystem
    /\ copies \subseteq [start : DOMAIN Journal, source : File]
    /\ \A c \in copies : Entry(c.start).act = "slow_copy_start"
    /\ lags \subseteq DOMAIN Journal /\ deferred \subseteq DOMAIN Journal
    /\ chaos \in ChaosStates(DOMAIN Journal)

LEMMA SessionIsTyped ==
  ASSUME TypeInv
  PROVE  SessionTyped
  BY DEF TypeInv, TypeOK, SessionTyped, ChaosStates, CapturedMode

LEMMA ExecuteTyped ==
  ASSUME TypeInv, NEW tree \in FileSystem, NEW i \in DOMAIN Journal, Execute(tree, i)
  PROVE  SessionTyped' /\ pc' \in {"record", "failing"}
<1> USE PlanTyped DEF TypeInv
<1>1. plan' = plan /\ SessionTyped
  BY SessionIsTyped DEF Execute
<1>2. Entry(i) \in JournalEntries /\ CarriesPaths(Entry(i)) /\ i \in Nat
  BY DEF JournalEntries
<1>3. Raises(tree) \in Effect /\ Returns(tree) \in Effect
  BY DEF Raises, Returns, Effect
<1>4. ASSUME NEW r \in Effect, Proceed(r, "record")
      PROVE  fs' \in FileSystem /\ pc' \in {"record", "failing"}
  BY <1>4 DEF Proceed, Effect
<1>5. LagOver(i) \subseteq DOMAIN Journal
  BY DEF LagOver
<1>6. CASE Withhold(tree, i)
  BY <1>1, <1>3, <1>4, <1>5, <1>6 DEF Withhold, SessionTyped, Entry, Journal
<1>7. CASE StartSlowCopy(tree, i)
  <2> DEFINE e == Entry(i)
             new == [start |-> i, source |-> tree.files[e.from]]
  <2>1. e.act = "slow_copy_start" /\ e.from \in Paths /\ e.temp \in Paths
    BY <1>2, <1>7 DEF StartSlowCopy, CarriesPaths, LocationActions
  <2>2. CASE CanRead(tree, e.from) /\ CanWrite(tree, e.temp)
    <3>1. tree.files[e.from] \in File
      BY <2>1, <2>2 DEF CanRead, Present, FileSystem
    <3>2. [tree.files[e.from] EXCEPT !.bytes = 0] \in File
      BY <3>1, LibraryAssumption DEF File
    <3>3. Returns(Written(tree, e.temp, [tree.files[e.from] EXCEPT !.bytes = 0])) \in Effect
      BY <2>1, <3>2, WrittenTyped DEF Returns, Effect
    <3>4. fs' \in FileSystem /\ pc' \in {"record", "failing"}
      BY <1>4, <1>7, <2>2, <3>3 DEF StartSlowCopy
    <3>5. copies' = copies \cup {new} /\ new \in [start : DOMAIN Journal, source : File]
      BY <1>7, <2>2, <3>1 DEF StartSlowCopy
    <3>6. UNCHANGED <<lags, deferred, chaos>>
      BY <1>7 DEF StartSlowCopy
    <3> QED BY <1>1, <2>1, <3>4, <3>5, <3>6 DEF SessionTyped, Entry, Journal
  <2>3. CASE ~(CanRead(tree, e.from) /\ CanWrite(tree, e.temp))
    BY <1>1, <1>3, <1>4, <1>7, <2>3 DEF StartSlowCopy, SessionTyped, Entry, Journal
  <2> QED BY <2>2, <2>3
<1>8. CASE CommitSlowCopy(tree, i)
  <2> DEFINE e    == Entry(i)
             open == {c \in copies : c.start = e.ref}
             s    == Entry(e.ref)
             c    == CHOOSE x \in open : TRUE
             done == IF open # {} /\ CanWrite(tree, s.temp)
                     THEN Promote(Written(tree, s.temp, c.source), s.from, s.temp, s.to)
                     ELSE Raises(tree)
  <2>1. e.act = "slow_copy_commit"
    BY <1>8 DEF CommitSlowCopy
  <2>2. e.ref \in DOMAIN Journal /\ s.act = "slow_copy_start"
    BY <2>1 DEF WellPaired, Is, Entry
  <2>3. s.from \in Paths /\ s.temp \in Paths /\ s.to \in Paths
    BY <2>2 DEF JournalEntries, CarriesPaths, LocationActions
  <2>4. done \in Effect
    <3>1. CASE open # {} /\ CanWrite(tree, s.temp)
      <4>1. c \in copies
        BY <3>1
      <4>2. c.source \in File
        BY <1>1, <4>1 DEF SessionTyped
      <4> HIDE DEF c
      <4>3. Written(tree, s.temp, c.source) \in FileSystem
        BY <2>3, <4>2, WrittenTyped
      <4>4. Promote(Written(tree, s.temp, c.source), s.from, s.temp, s.to) \in Effect
        BY <2>3, <4>3, PromoteTyped
      <4> QED BY <3>1, <4>4
    <3>2. CASE ~(open # {} /\ CanWrite(tree, s.temp))
      BY <1>3, <3>2
    <3> QED BY <3>1, <3>2
  <2>5. /\ Proceed(done, "record") /\ copies' \subseteq copies
        /\ UNCHANGED <<lags, deferred, chaos>>
    BY <1>8 DEF CommitSlowCopy
  <2> HIDE DEF done
  <2>6. fs' \in FileSystem /\ pc' \in {"record", "failing"}
    BY <1>4, <2>4, <2>5
  <2> QED BY <1>1, <2>5, <2>6 DEF SessionTyped, Entry, Journal
<1>9. CASE StartLag(tree, i)
  BY <1>1, <1>3, <1>4, <1>9 DEF StartLag, SessionTyped, Entry, Journal
<1>10. CASE CommitLag(tree, i)
  <2> DEFINE s == Entry(i).ref
  <2>1. s \in lags /\ Entry(i).act = "network_lag_commit"
    BY <1>10 DEF CommitLag
  <2>2. s \in DOMAIN Journal
    BY <2>1, <1>1 DEF SessionTyped
  <2>3. CASE s \in deferred
    <3>1. PICK ran \in ToolExits(Entry(s).ref) :
                    Proceed(Dispatched(tree, Entry(s).ref, ran), "record")
      BY <1>10, <2>3 DEF CommitLag
    <3>2. Entry(s).act = "network_lag_start"
      BY <2>1 DEF WellPaired, Is, Entry
    <3>3. Entry(s).ref \in DOMAIN Journal
      BY <2>2, <3>2 DEF WellPaired, Entry
    <3>4. Dispatched(tree, Entry(s).ref, ran) \in Effect
      BY <1>3, <3>3, DispatchTyped DEF Dispatched
    <3>5. fs' \in FileSystem /\ pc' \in {"record", "failing"}
      BY <1>4, <3>1, <3>4
    <3> QED BY <1>1, <1>10, <3>5 DEF CommitLag, SessionTyped, Entry, Journal
  <2>4. CASE s \notin deferred
    BY <1>1, <1>3, <1>4, <1>10, <2>4 DEF CommitLag, SessionTyped, Entry, Journal
  <2> QED BY <2>3, <2>4
<1>11. CASE RealizeChaos(tree, i)
  <2> DEFINE r == Realize(tree, chaos, i, Entry(i))
  <2>1. r \in [ok : BOOLEAN, fs : FileSystem, chaos : ChaosStates(DOMAIN Journal)]
    BY <1>1, <1>2, RealizeTyped DEF SessionTyped
  <2>2. Proceed([ok |-> r.ok, fs |-> r.fs], "record") /\ chaos' = r.chaos
    BY <1>11 DEF RealizeChaos
  <2> HIDE DEF r
  <2>3. [ok |-> r.ok, fs |-> r.fs] \in Effect /\ chaos' \in ChaosStates(DOMAIN Journal)
    BY <2>1, <2>2 DEF Effect
  <2>4. fs' \in FileSystem /\ pc' \in {"record", "failing"}
    BY <1>4, <2>2, <2>3
  <2> QED BY <1>1, <1>11, <2>3, <2>4 DEF RealizeChaos, SessionTyped, Entry, Journal
<1>12. CASE DispatchPhaseB(tree, i)
  <2>1. PICK ran \in ToolExits(i) : Proceed(Dispatched(tree, i, ran), "record")
    BY <1>12 DEF DispatchPhaseB
  <2>2. Dispatched(tree, i, ran) \in Effect
    BY <1>2, <1>3, DispatchTyped DEF Dispatched
  <2>3. fs' \in FileSystem /\ pc' \in {"record", "failing"}
    BY <1>4, <2>1, <2>2
  <2> QED BY <1>1, <1>12, <2>3 DEF DispatchPhaseB, session, SessionTyped, Entry, Journal
<1> QED BY <1>6, <1>7, <1>8, <1>9, <1>10, <1>11, <1>12 DEF Execute

\* What the CHOOSE of DueCount rests on: a least element exists.
LEMMA LeastElement ==
  ASSUME NEW S \in SUBSET Nat, S # {}
  PROVE  \E x \in S : \A y \in S : x <= y
<1> DEFINE R == {p \in Nat \X Nat : p[1] < p[2]}
<1>1. R = OpToRel(<, Nat)
  BY Zenon DEF OpToRel
<1>2. IsWellFoundedOn(R, Nat)
  BY NatLessThanWellFounded, <1>1, Zenon
<1>3. \A x, y \in Nat : y < x => <<y, x>> \in R
  OBVIOUS
<1> HIDE DEF R
<1>4. PICK x \in S : \A y \in S : ~(<<y, x>> \in R)
  BY <1>2, WFMin
<1>5. \A y \in S : x <= y
  <2> TAKE y \in S
  <2>1. x \in Nat /\ y \in Nat
    OBVIOUS
  <2>2. ~(y < x)
    BY <1>3, <1>4, <2>1
  <2> QED BY <2>1, <2>2
<1> QED BY <1>5

\* due_event_count counts exactly the due entries that lead the rest of the journal.
LEMMA DueCountIsRun ==
  ASSUME TypeInv, NEW logical \in Nat
  PROVE  /\ DueCount(logical) \in Nat /\ cursor + DueCount(logical) <= Len(Journal)
         /\ \A k \in 1..DueCount(logical) : Entry(cursor + k).at <= logical
         /\ cursor + DueCount(logical) < Len(Journal) =>
                Entry(cursor + DueCount(logical) + 1).at > logical
<1> DEFINE late  == {i \in Next1..Len(Journal) : Entry(i).at > logical}
           first == CHOOSE i \in late : \A j \in late : i <= j
<1>1. cursor \in Nat /\ Len(Journal) \in Nat /\ cursor <= Len(Journal)
  BY PlanTyped DEF TypeInv, TypeOK
<1>2. \A i \in 1..Len(Journal) : Entry(i).at \in Nat
  BY PlanTyped DEF TypeInv
<1>3. CASE late = {}
  <2>1. DueCount(logical) = Len(Journal) - cursor
    BY <1>3 DEF DueCount
  <2>2. \A i \in Next1..Len(Journal) : Entry(i).at <= logical
    BY <1>1, <1>2, <1>3 DEF Next1
  <2> QED BY <1>1, <2>1, <2>2 DEF Next1
<1>4. CASE late # {}
  <2>1. late \in SUBSET Nat
    BY <1>1 DEF Next1
  <2>2. first \in late /\ \A j \in late : first <= j
    <3> HIDE DEF late
    <3>1. \E i \in late : \A j \in late : i <= j
      BY <1>4, <2>1, LeastElement
    <3> QED BY <3>1
  <2>3. DueCount(logical) = first - Next1
    BY <1>4 DEF DueCount
  <2> HIDE DEF first
  <2>4. first \in Next1..Len(Journal) /\ Entry(first).at > logical
    BY <2>2
  <2>5. \A i \in Next1..(first - 1) : Entry(i).at <= logical
    BY <1>1, <1>2, <2>2, <2>4 DEF Next1
  <2> QED BY <1>1, <2>3, <2>4, <2>5 DEF Next1
<1> QED BY <1>3, <1>4

LEMMA NextWakeTyped ==
  ASSUME TypeInv, HasNext
  PROVE  NextWake \in Nat
<1>1. Next1 \in 1..Len(Journal) /\ Entry(Next1).at \in Nat
  BY PlanTyped DEF TypeInv, TypeOK, HasNext, Next1
<1>2. DueWall(Entry(Next1).at) \in Nat
  BY <1>1, DueWallTyped
<1>3. duration \in Nat /\ now \in Nat /\ PollEvery \in Nat
  BY WallClockAssumption DEF TypeInv, TypeOK
<1> QED BY <1>2, <1>3 DEF NextWake, Earlier

LEMMA TypesInitially ==
  ASSUME Init
  PROVE  TypeInv
<1>1. InitialTree \in FileSystem
  <2>1. \A p \in Paths : (\E a \in Assets : Home[a] = p) =>
            Whole(CHOOSE a \in Assets : Home[a] = p, 0) \in File
    BY WholeTyped
  <2> QED BY <2>1 DEF InitialTree, FileSystem, Mode, DirMode
<1>2. NoChaos \in ChaosStates(DOMAIN Journal)
  BY DEF NoChaos, ChaosStates
<1>3. plan \in Plans /\ Len(Journal) \in Nat
  BY PlanTyped DEF Init
<1>4. chaos \in [captured : Seq([target : Paths \cup Dirs, mode : Mode]), open : SUBSET DOMAIN Journal]
  BY <1>2 DEF Init, ChaosStates, CapturedMode
<1>5. now \in 0..MaxNow /\ cursor \in 0..Len(Journal)
  BY <1>3, WallClockAssumption DEF Init
<1>6. fs \in FileSystem
  BY <1>1 DEF Init
<1> QED BY <1>3, <1>4, <1>5, <1>6 DEF Init, TypeInv, TypeOK



\* The steps that execute an entry.
LEMMA ExecutionKeepsTypes ==
  ASSUME TypeInv, NEW tree \in FileSystem, HasNext, Execute(tree, Next1),
         due' \in Nat, ret' \in {"batch", "copies", "lags"}, drained' \in BOOLEAN,
         pc' = "record" /\ ret' = "batch" => cursor + 1 + due' <= Len(Journal)
  PROVE  TypeInv'
<1>1. Next1 \in DOMAIN Journal
  BY PlanTyped DEF TypeInv, TypeOK, HasNext, Next1
<1>2. SessionTyped' /\ pc' \in {"record", "failing"}
  BY <1>1, ExecuteTyped
<1>3. UNCHANGED <<plan, duration, now, wake, cursor, rows, meta, sentinel, outcome>>
  BY DEF Execute
<1> QED BY <1>2, <1>3 DEF TypeInv, TypeOK, SessionTyped, ChaosStates, CapturedMode, HasNext,
             Journal, Entry

LEMMA TypesInductive ==
  ASSUME TypeInv, [Next]_vars
  PROVE  TypeInv'
<1> USE DEF TypeInv, TypeOK, session, disk, Journal, Entry
<1>0. /\ cursor \in Nat /\ Len(Journal) \in Nat /\ now \in Nat
      /\ fs \in FileSystem /\ Returns(fs) \in Effect
  BY PlanTyped DEF Returns, Effect
<1>1. CASE UNCHANGED vars
  BY <1>1 DEF vars
<1>2. CASE Tick
  BY <1>2, WallClockAssumption DEF Tick
<1>3. CASE WriteFault
  BY <1>3 DEF WriteFault, Propagates
<1>4. CASE Publish
  BY <1>4 DEF Publish
<1>5. ASSUME NEW next \in {"batch", "sleep", "copies"}, Turn(next), due' \in Nat, wake' \in Nat,
             next = "batch" => cursor + due' <= Len(Journal)
      PROVE  TypeInv'
  <2>1. Grown(LogicalNow(now)) \in Effect
    BY <1>0, GrownTyped, LogicalNowTyped
  <2>2. fs' \in FileSystem /\ pc' \in {next, "failing"}
    BY <1>5, <2>1 DEF Turn, Proceed, Effect
  <2> QED BY <1>5, <2>2 DEF Turn
<1>6. CASE TurnDeadline
  BY <1>5, <1>6 DEF TurnDeadline
<1>7. CASE TurnDue
  <2>1. due' \in Nat /\ cursor + due' <= Len(Journal)
    BY <1>0, <1>7, DueCountIsRun, LogicalNowTyped DEF TurnDue
  <2> QED BY <1>5, <1>7, <2>1 DEF TurnDue
<1>8. CASE TurnSleep
  BY <1>5, <1>8, NextWakeTyped DEF TurnSleep
<1>9. CASE LoopEnds
  BY <1>9 DEF LoopEnds
<1>10. CASE Wake
  BY <1>10 DEF Wake
<1>11. CASE RunDue
  <2>1. HasNext /\ due - 1 \in Nat /\ cursor + 1 + (due - 1) <= Len(Journal)
    BY <1>0, <1>11 DEF RunDue, HasNext
  <2> QED BY <1>0, <1>11, <2>1, ExecutionKeepsTypes DEF RunDue
<1>12. CASE BatchEnds
  BY <1>12 DEF BatchEnds
<1>13. CASE Record
  BY <1>0, <1>13 DEF Record
<1>14. CASE FinishSlowCopy
  <2>1. Grown(LogicalNow(now)) \in Effect
    BY <1>0, GrownTyped, LogicalNowTyped
  <2>2. HasNext
    BY <1>14 DEF FinishSlowCopy, HeadFinishesCopy
  <2>3. CASE Grown(LogicalNow(now)).ok
    <3>1. Execute(Grown(LogicalNow(now)).fs, Next1) /\ Grown(LogicalNow(now)).fs \in FileSystem
      BY <1>14, <2>1, <2>3 DEF FinishSlowCopy, Effect
    <3> QED BY <1>14, <2>2, <3>1, ExecutionKeepsTypes DEF FinishSlowCopy
  <2>4. CASE ~Grown(LogicalNow(now)).ok
    <3>1. fs' \in FileSystem /\ pc' = "failing"
      BY <1>14, <2>1, <2>4 DEF FinishSlowCopy, Proceed, Effect
    <3>2. UNCHANGED <<plan, duration, now, wake, cursor, session, rows, meta, sentinel, outcome, due>>
      BY <1>14, <2>4 DEF FinishSlowCopy
    <3>3. ret' = "copies" /\ drained' = TRUE
      BY <1>14 DEF FinishSlowCopy
    <3> QED BY <3>1, <3>2, <3>3
  <2> QED BY <2>3, <2>4
<1>15. CASE SlowCopiesFinished
  BY <1>15 DEF SlowCopiesFinished
<1>16. CASE FinishLag
  BY <1>0, <1>16, ExecutionKeepsTypes DEF FinishLag, HeadBelongsToLag
<1>17. CASE LagsFinished
  BY <1>17 DEF LagsFinished
<1>18. CASE IdleOut
  BY <1>18 DEF IdleOut
<1>19. CASE RestoreMode
  <2>1. chaos.captured \in Seq(CapturedMode) /\ chaos.captured # <<>>
    BY <1>19 DEF RestoreMode, HasCaptured, CapturedMode
  <2>2. fs' \in FileSystem /\ Tail(chaos.captured) \in Seq(CapturedMode)
    BY <1>0, <1>19, <2>1, RestoreTyped DEF RestoreMode
  <2>3. chaos' \in [captured : Seq([target : Paths \cup Dirs, mode : Mode]),
                    open : SUBSET DOMAIN Journal]
    BY <1>19, <2>2 DEF RestoreMode, CapturedMode
  <2>4. fs' \in FileSystem
    BY <2>2
  <2> QED BY <1>19, <2>3, <2>4 DEF RestoreMode
<1>20. CASE RestoreBreaks
  <2>1. <<>> \in Seq([target : Paths \cup Dirs, mode : Mode])
    OBVIOUS
  <2> QED BY <1>20, <2>1 DEF RestoreBreaks
<1>21. CASE Succeeds
  BY <1>21 DEF Succeeds
<1>22. CASE WipeLibrary
  <2>1. \A gone : Emptied(fs, gone) \in FileSystem
    BY <1>0 DEF Emptied, FileSystem
  <2> QED BY <1>22, <2>1 DEF WipeLibrary
<1>23. CASE WriteMetadata
  BY <1>23 DEF WriteMetadata
<1>24. CASE Seal
  BY <1>24 DEF Seal
<1> QED BY <1>1, <1>2, <1>3, <1>4, <1>6, <1>7, <1>8, <1>9, <1>10, <1>11, <1>12, <1>13, <1>14,
           <1>15, <1>16, <1>17, <1>18, <1>19, <1>20, <1>21, <1>22, <1>23, <1>24
        DEF Next, Step, Stopped

THEOREM TypesInvariant == Spec => []TypeInv
  BY TypesInitially, TypesInductive, PTL DEF Spec

\* Every variable keeps its type: no handler invents a path, a mode or a size
\* beyond the whole file, and the cursor never leaves the journal.
THEOREM TypeCorrect == Spec => []TypeOK
<1>1. TypeInv => TypeOK
  BY DEF TypeInv
<1> QED BY <1>1, TypesInvariant, PTL

\* Executing an entry ends before its record, or in a failure.
LEMMA ExecuteProceeds ==
  ASSUME NEW tree, NEW i, Execute(tree, i)
  PROVE  pc' \in {"record", "failing"}
  BY DEF Execute, Withhold, StartSlowCopy, CommitSlowCopy, StartLag, CommitLag, RealizeChaos,
         DispatchPhaseB, Proceed

LEMMA HandlerProceeds ==
  ASSUME RunDue \/ FinishSlowCopy \/ FinishLag
  PROVE  pc' \in {"record", "failing"}
  BY ExecuteProceeds DEF RunDue, FinishSlowCopy, FinishLag, Proceed

(***************************************************************************)
(* The schedule.  An entry of a batch was due when the batch was counted,  *)
(* and the logical clock never goes back.                                  *)
(***************************************************************************)
DueInv ==
    /\ pc = "batch" => \A k \in 1..due : Entry(cursor + k).at <= LogicalNow(now)
    /\ pc = "record" /\ ret = "batch" =>
            \A k \in 1..due : Entry(cursor + 1 + k).at <= LogicalNow(now)

LEMMA DueInductive ==
  ASSUME TypeInv, DueInv, [Next]_vars
  PROVE  DueInv'
<1>0. /\ cursor \in Nat /\ Len(Journal) \in Nat /\ now \in Nat /\ due \in Nat
      /\ LogicalNow(now) \in Nat /\ cursor <= Len(Journal)
      /\ \A i \in 1..Len(Journal) : Entry(i).at \in Nat
  BY PlanTyped, LogicalNowTyped DEF TypeInv, TypeOK
<1>1. CASE pc' \notin {"batch", "record"}
  BY <1>1 DEF DueInv
<1>2. CASE UNCHANGED vars
  BY <1>2 DEF vars, DueInv, Entry, Journal, LogicalNow
<1>3. CASE Tick
  <2>0. now' \in Nat /\ now <= now'
    BY <1>0, <1>3 DEF Tick
  <2>1. LogicalNow(now) <= LogicalNow(now')
    BY <1>0, <2>0, LogicalNowMonotone
  <2>2. LogicalNow(now') \in Nat
    BY <2>0, LogicalNowTyped
  <2>3. UNCHANGED <<plan, pc, ret, due, cursor>> /\ LogicalNow(now)' = LogicalNow(now')
    BY <1>3 DEF Tick, LogicalNow
  <2>4. pc = "batch" => \A k \in 1..due : Entry(cursor + k).at <= LogicalNow(now')
    <3> SUFFICES ASSUME pc = "batch", NEW k \in 1..due
                 PROVE  Entry(cursor + k).at <= LogicalNow(now')
      OBVIOUS
    <3>1. cursor + due <= Len(Journal) /\ Entry(cursor + k).at <= LogicalNow(now)
      BY DEF TypeInv, DueInv
    <3>2. cursor + k \in 1..Len(Journal)
      BY <1>0, <3>1
    <3>3. Entry(cursor + k).at \in Nat
      BY <1>0, <3>2
    <3> QED BY <1>0, <2>1, <2>2, <3>1, <3>3
  <2>5. pc = "record" /\ ret = "batch" => \A k \in 1..due : Entry(cursor + 1 + k).at <= LogicalNow(now')
    <3> SUFFICES ASSUME pc = "record", ret = "batch", NEW k \in 1..due
                 PROVE  Entry(cursor + 1 + k).at <= LogicalNow(now')
      OBVIOUS
    <3>1. cursor + 1 + due <= Len(Journal) /\ Entry(cursor + 1 + k).at <= LogicalNow(now)
      BY DEF TypeInv, DueInv
    <3>2. cursor + 1 + k \in 1..Len(Journal)
      BY <1>0, <3>1
    <3>3. Entry(cursor + 1 + k).at \in Nat
      BY <1>0, <3>2
    <3> QED BY <1>0, <2>1, <2>2, <3>1, <3>3
  <2> QED BY <2>3, <2>4, <2>5 DEF DueInv, Entry, Journal
<1>4. CASE TurnDue
  <2>1. \A k \in 1..due' : Entry(cursor + k).at <= LogicalNow(now)
    BY <1>0, <1>4, DueCountIsRun DEF TurnDue
  <2>2. UNCHANGED <<plan, cursor, now>> /\ pc' \in {"batch", "failing"}
    BY <1>4 DEF TurnDue, Turn, Proceed
  <2> QED BY <2>1, <2>2 DEF DueInv, Entry, Journal, LogicalNow
<1>5. CASE RunDue
  <2>1. /\ \A k \in 1..due : Entry(cursor + k).at <= LogicalNow(now)
        /\ due' = due - 1 /\ UNCHANGED <<plan, cursor, now>>
    BY <1>5 DEF RunDue, Execute, DueInv
  <2>2. pc' \in {"record", "failing"}
    BY <1>5, HandlerProceeds DEF RunDue
  <2>3. \A k \in 1..(due - 1) : Entry(cursor + 1 + k).at <= LogicalNow(now)
    BY <1>0, <2>1
  <2> QED BY <2>1, <2>2, <2>3 DEF DueInv, Entry, Journal, LogicalNow
<1>6. CASE Record
  BY <1>0, <1>6 DEF Record, DueInv, Entry, Journal, LogicalNow
<1>7. CASE FinishSlowCopy \/ FinishLag
  <2>1. ret' # "batch" /\ pc' \in {"record", "failing"}
    BY <1>7, HandlerProceeds DEF FinishSlowCopy, FinishLag
  <2> QED BY <2>1 DEF DueInv
<1>8. CASE pc' \in {"batch", "record"} /\ (RestoreMode \/ TurnDeadline \/ TurnSleep)
  BY <1>8 DEF RestoreMode, Finalizing, TurnDeadline, TurnSleep, Turn, Proceed
<1> QED BY <1>1, <1>2, <1>3, <1>4, <1>5, <1>6, <1>7, <1>8
        DEF Next, Step, Stopped, WriteFault, Propagates, Publish, LoopEnds, Wake, BatchEnds,
            SlowCopiesFinished, LagsFinished, IdleOut, RestoreBreaks, Succeeds, WipeLibrary,
            WriteMetadata, Seal, Finalizing

LEMMA DueInitially == Init => DueInv
  BY DEF Init, DueInv

THEOREM DueInvariant == Spec => [](TypeInv /\ DueInv)
<1>1. Init => TypeInv /\ DueInv
  BY TypesInitially, DueInitially
<1>2. TypeInv /\ DueInv /\ [Next]_vars => (TypeInv /\ DueInv)'
  BY TypesInductive, DueInductive
<1> QED BY <1>1, <1>2, PTL DEF Spec

\* The steps in which a handler runs.
LEMMA ExecutingSteps ==
  ASSUME Next, Executing
  PROVE  RunDue \/ FinishSlowCopy \/ FinishLag
<1>1. pc \in {"batch", "copies", "lags"} /\ pc' \in {"record", "failing"}
  BY DEF Executing
<1> QED BY <1>1
        DEF Next, Step, Stopped, WriteFault, Propagates, Publish, Tick, TurnDeadline, TurnDue,
            TurnSleep, Turn, LoopEnds, Wake, BatchEnds, Record, SlowCopiesFinished,
            LagsFinished, IdleOut, RestoreMode, RestoreBreaks, Succeeds, WipeLibrary,
            WriteMetadata, Seal, Finalizing, vars

\* A drain waits for the wake-up time of the head, and by then the head is due.
LEMMA DrainIsDue ==
  ASSUME TypeInv, HasNext, now >= DueWall(Entry(Next1).at)
  PROVE  LogicalNow(now) >= Entry(Next1).at
<1>1. Next1 \in 1..Len(Journal)
  BY PlanTyped DEF TypeInv, TypeOK, HasNext, Next1
<1>2. Entry(Next1).at \in Nat /\ now \in Nat
  BY <1>1, PlanTyped DEF TypeInv, TypeOK
<1> QED BY <1>2, DueWallIsDue

\* No event is executed before its logical time, whatever the speed, the
\* rounding, the length of the batch and the moment the deadline falls.
THEOREM EventsNeverEarly == Spec => NeverEarly
<1>1. TypeInv /\ DueInv /\ [Next]_vars => [Executing => LogicalNow(now) >= Entry(Next1).at]_vars
  <2> SUFFICES ASSUME TypeInv, DueInv, Next, Executing
               PROVE  LogicalNow(now) >= Entry(Next1).at
    OBVIOUS
  <2>1. CASE RunDue
    <3>1. pc = "batch" /\ due > 0
      BY <2>1 DEF RunDue
    <3>2. due \in Nat
      BY DEF TypeInv, TypeOK
    <3>3. 1 \in 1..due
      BY <3>1, <3>2
    <3>4. Entry(cursor + 1).at <= LogicalNow(now)
      BY <3>1, <3>3 DEF DueInv
    <3>5. cursor + 1 \in 1..Len(Journal)
      BY <3>1, <3>2, PlanTyped DEF TypeInv, TypeOK
    <3>6. Entry(cursor + 1).at \in Nat /\ LogicalNow(now) \in Nat
      BY <3>5, PlanTyped, LogicalNowTyped DEF TypeInv, TypeOK
    <3> QED BY <3>4, <3>6 DEF Next1
  <2>2. CASE FinishSlowCopy
    BY <2>2, DrainIsDue DEF FinishSlowCopy, HeadFinishesCopy
  <2>3. CASE FinishLag
    BY <2>3, DrainIsDue DEF FinishLag, HeadBelongsToLag
  <2> QED BY <2>1, <2>2, <2>3, ExecutingSteps
<1> QED BY <1>1, DueInvariant, PTL DEF Spec, NeverEarly

\* A sleep is never empty: the wake-up time rounds up where the logical clock
\* rounds down, so what is not due yet is still ahead.
THEOREM SleepsAreNotEmpty == Spec => NeverSpins
<1>1. TypeInv /\ [Next]_vars => [pc # "sleep" /\ pc' = "sleep" => wake' > now]_vars
  <2> SUFFICES ASSUME TypeInv, Next, pc # "sleep", pc' = "sleep"
               PROVE  wake' > now
    OBVIOUS
  <2>1. TurnSleep
    BY HandlerProceeds
       DEF Next, Step, Stopped, WriteFault, Propagates, Publish, Tick, TurnDeadline, TurnDue,
           Turn, Proceed, LoopEnds, Wake, BatchEnds, Record, SlowCopiesFinished,
           LagsFinished, IdleOut, RestoreMode, RestoreBreaks, Succeeds, WipeLibrary,
           WriteMetadata, Seal, Finalizing, vars, TypeInv, TypeOK
  <2>2. HasNext /\ ~DeadlinePassed /\ DueCount(LogicalNow(now)) = 0 /\ wake' = NextWake
    BY <2>1 DEF TurnSleep
  <2>3. Next1 \in 1..Len(Journal) /\ cursor \in Nat /\ Len(Journal) \in Nat
    BY <2>2, PlanTyped DEF TypeInv, TypeOK, HasNext, Next1
  <2>4. /\ Entry(Next1).at \in Nat /\ DueWall(Entry(Next1).at) \in Nat
        /\ now \in Nat /\ LogicalNow(now) \in Nat /\ duration \in Nat
    <3>1. Entry(Next1).at \in Nat
      BY <2>3, PlanTyped DEF TypeInv
    <3>2. now \in Nat /\ duration \in Nat
      BY WallClockAssumption DEF TypeInv, TypeOK
    <3> QED BY <3>1, <3>2, DueWallTyped, LogicalNowTyped
  <2>5. Entry(Next1).at > LogicalNow(now)
    <3>1. cursor + 0 < Len(Journal)
      BY <2>2, <2>3 DEF HasNext
    <3>2. Entry(cursor + 0 + 1).at > LogicalNow(now)
      BY <2>2, <2>4, <3>1, DueCountIsRun
    <3>3. cursor + 0 + 1 = Next1
      BY <2>3 DEF Next1
    <3> QED BY <3>2, <3>3
  <2>6. DueWall(Entry(Next1).at) > now
    <3>1. SUFFICES ASSUME DueWall(Entry(Next1).at) <= now  PROVE FALSE
      BY <2>4
    <3>2. LogicalNow(now) >= Entry(Next1).at
      BY <2>4, <3>1, DueWallIsDue
    <3> QED BY <2>4, <2>5, <3>2
  <2>7. duration > now
    BY <2>2, <2>4 DEF DeadlinePassed
  <2>8. PollEvery \in Nat /\ now + PollEvery > now
    BY <2>4, WallClockAssumption
  <2> QED BY <2>2, <2>4, <2>6, <2>7, <2>8 DEF NextWake, Earlier
<1> QED BY <1>1, TypesInvariant, PTL DEF Spec, NeverSpins

\* After the deadline an event is executed only while a window is open.
THEOREM LateEventsCloseWindows == Spec => LateOnlyToCloseWindows
<1>1. [Next]_vars => [Executing /\ now >= duration => copies # {} \/ lags # {}]_vars
  <2> SUFFICES ASSUME Next, Executing, now >= duration
               PROVE  copies # {} \/ lags # {}
    OBVIOUS
  <2>1. CASE RunDue
    BY <2>1 DEF RunDue, DeadlinePassed
  <2>2. CASE FinishSlowCopy
    BY <2>2 DEF FinishSlowCopy, HeadFinishesCopy
  <2>3. CASE FinishLag
    BY <2>3 DEF FinishLag, HeadBelongsToLag
  <2> QED BY <2>1, <2>2, <2>3, ExecutingSteps
<1> QED BY <1>1, PTL DEF Spec, LateOnlyToCloseWindows

(***************************************************************************)
(* The run directory.  The runner keeps the promise of RunDirectory: every *)
(* step of it is a step of the abstract directory or leaves the directory  *)
(* alone.                                                                  *)
(***************************************************************************)
RunningPc == {"loop", "sleep", "batch", "record", "copies", "lags", "idle", "restore", "failing"}

\* Where the runner is and how far the directory is described.
DirectoryInv ==
    /\ cursor \in Nat
    /\ rows = [k \in 1..cursor |-> k]
    /\ pc = "baseline" => sentinel = "absent" /\ meta = "baseline"
    /\ pc \in RunningPc => sentinel = "in_progress" /\ meta = "baseline"
    /\ pc = "metadata" => sentinel = "in_progress" /\ meta \in {"baseline", "mixed", "final"}

\* The journal on disk names the executed prefix; one append extends it by one.
LEMMA AppendExtends ==
  ASSUME NEW n \in Nat
  PROVE  LET prefix == [k \in 1..n |-> k]
         IN  /\ Len(prefix) = n
             /\ Append(prefix, n + 1) = [k \in 1..(n + 1) |-> k]
<1> DEFINE prefix == [k \in 1..n |-> k]
           longer == [k \in 1..(n + 1) |-> k]
<1>1. prefix \in Seq(Nat) /\ Len(prefix) = n
  OBVIOUS
<1>2. longer \in Seq(Nat) /\ Len(longer) = n + 1
  OBVIOUS
<1>3. Append(prefix, n + 1) \in Seq(Nat) /\ Len(Append(prefix, n + 1)) = n + 1
  BY <1>1
<1>4. \A k \in 1..(n + 1) : Append(prefix, n + 1)[k] = longer[k]
  BY <1>1
<1> HIDE DEF prefix, longer
<1>5. Append(prefix, n + 1) = longer
  BY <1>2, <1>3, <1>4
<1> QED BY <1>1, <1>5 DEF prefix, longer

\* A handler leaves the directory's description alone.
LEMMA HandlerDescribesNothing ==
  ASSUME RunDue \/ FinishSlowCopy \/ FinishLag
  PROVE  UNCHANGED <<cursor, rows, meta, sentinel>> /\ pc' \in {"record", "failing"}
  BY HandlerProceeds DEF RunDue, FinishSlowCopy, FinishLag, Execute

\* Steps that leave pc in the running part and describe nothing.
QuietStep == /\ UNCHANGED <<cursor, rows, meta, sentinel>>
             /\ pc \in RunningPc
             /\ pc' \in RunningPc \cup {"metadata", "stopped"}

LEMMA StepsOfTheDirectory ==
  ASSUME TypeInv, Next
  PROVE  Publish \/ Record \/ WriteMetadata \/ Seal \/ WriteFault \/ Stopped \/ QuietStep
<1>1. CASE Tick
  BY <1>1 DEF Tick, QuietStep, RunningPc, disk, session
<1>2. CASE RunDue \/ FinishSlowCopy \/ FinishLag
  BY <1>2, HandlerDescribesNothing DEF QuietStep, RunningPc, RunDue, FinishSlowCopy, FinishLag
<1>3. CASE TurnDeadline \/ TurnDue \/ TurnSleep
  BY <1>3 DEF TurnDeadline, TurnDue, TurnSleep, Turn, Proceed, QuietStep, RunningPc
<1>4. CASE LoopEnds \/ Wake \/ BatchEnds \/ SlowCopiesFinished \/ LagsFinished \/ IdleOut
  BY <1>4 DEF LoopEnds, Wake, BatchEnds, SlowCopiesFinished, LagsFinished, IdleOut, QuietStep,
              RunningPc, disk
<1>5. CASE RestoreMode \/ RestoreBreaks \/ Succeeds \/ WipeLibrary
  BY <1>5 DEF RestoreMode, RestoreBreaks, Succeeds, WipeLibrary, Finalizing, QuietStep,
              RunningPc, disk
<1> QED BY <1>1, <1>2, <1>3, <1>4, <1>5 DEF Next, Step

LEMMA DirectoryInitially == Init => DirectoryInv
  BY DEF Init, DirectoryInv, RunningPc

LEMMA DirectoryInductive ==
  ASSUME TypeInv, DirectoryInv, [Next]_vars
  PROVE  DirectoryInv'
<1>1. CASE UNCHANGED vars
  BY <1>1 DEF vars, disk, DirectoryInv
<1>2. CASE Publish
  BY <1>2 DEF Publish, DirectoryInv, RunningPc
<1>3. CASE Record
  <2>1. rows' = [k \in 1..(cursor + 1) |-> k] /\ cursor' = cursor + 1
    BY <1>3, AppendExtends DEF Record, Next1, DirectoryInv
  <2>2. pc' \in RunningPc
    BY <1>3 DEF Record, TypeInv, TypeOK, RunningPc
  <2> QED BY <1>3, <2>1, <2>2 DEF Record, DirectoryInv, RunningPc
<1>4. CASE WriteMetadata \/ Seal
  BY <1>4 DEF WriteMetadata, Seal, DirectoryInv, RunningPc
<1>5. CASE WriteFault
  BY <1>5 DEF WriteFault, Propagates, disk, DirectoryInv, RunningPc
<1>6. CASE Stopped
  BY <1>1, <1>6 DEF Stopped
<1>7. CASE QuietStep
  BY <1>7 DEF QuietStep, DirectoryInv, RunningPc
<1> QED BY <1>1, <1>2, <1>3, <1>4, <1>5, <1>6, <1>7, StepsOfTheDirectory

THEOREM DirectoryInvariant == Spec => [](TypeInv /\ DirectoryInv)
<1>1. Init => TypeInv /\ DirectoryInv
  BY TypesInitially, DirectoryInitially
<1>2. TypeInv /\ DirectoryInv /\ [Next]_vars => (TypeInv /\ DirectoryInv)'
  BY TypesInductive, DirectoryInductive
<1> QED BY <1>1, <1>2, PTL DEF Spec

\* How a run has ended once it writes its metadata, and what the sentinel of a
\* sealed directory vouches for.
EndInv ==
    /\ pc \in RunningPc \cup {"baseline"} => outcome = "none"
    /\ pc = "stopped" => outcome = "raised"
    /\ pc \in {"metadata", "done"} =>
            /\ outcome \in {"success", "failed"} /\ chaos.captured = <<>>
            /\ outcome = "failed" => \A p \in Paths : ~Present(fs, p)
    /\ Sealed => pc = "done" /\ meta = "final"

LEMMA EndInitially == Init => EndInv
  BY DEF Init, EndInv, RunningPc, Sealed

LEMMA EndInductive ==
  ASSUME TypeInv, DirectoryInv, EndInv, [Next]_vars
  PROVE  EndInv'
<1>1. CASE UNCHANGED vars
  BY <1>1 DEF vars, session, disk, EndInv, Sealed, Present
<1>2. CASE Tick
  BY <1>2 DEF Tick, session, disk, EndInv, RunningPc, Sealed
<1>3. CASE RunDue \/ FinishSlowCopy \/ FinishLag
  <2>1. UNCHANGED <<sentinel, outcome>> /\ pc \in RunningPc
    BY <1>3 DEF RunDue, FinishSlowCopy, FinishLag, Execute, RunningPc
  <2> QED BY <1>3, <2>1, HandlerProceeds DEF EndInv, DirectoryInv, RunningPc, Sealed
<1>4. CASE TurnDeadline \/ TurnDue \/ TurnSleep
  BY <1>4 DEF TurnDeadline, TurnDue, TurnSleep, Turn, Proceed, EndInv, RunningPc, Sealed
<1>5. CASE LoopEnds \/ Wake \/ BatchEnds \/ SlowCopiesFinished \/ LagsFinished \/ IdleOut
  BY <1>5 DEF LoopEnds, Wake, BatchEnds, SlowCopiesFinished, LagsFinished, IdleOut, disk, EndInv,
              RunningPc, Sealed
<1>6. CASE Publish \/ Record \/ WriteFault
  BY <1>6 DEF Publish, Record, WriteFault, Propagates, disk, EndInv, DirectoryInv, RunningPc, Sealed,
              TypeInv, TypeOK
<1>7. CASE RestoreMode \/ RestoreBreaks \/ Succeeds
  BY <1>7 DEF RestoreMode, RestoreBreaks, Succeeds, Finalizing, HasCaptured, session, disk, EndInv,
              RunningPc, Sealed
<1>8. CASE WipeLibrary
  <2>1. \A p \in Paths : Emptied(fs, Paths).files[p] = NoFile
    BY DEF Emptied, TypeInv, TypeOK, FileSystem
  <2> QED BY <1>8, <2>1 DEF WipeLibrary, HasCaptured, session, EndInv, RunningPc, Sealed, Present
<1>9. CASE WriteMetadata
  BY <1>9 DEF WriteMetadata, session, EndInv, DirectoryInv, RunningPc, Sealed, Present
<1>10. CASE Seal
  BY <1>10 DEF Seal, session, EndInv, RunningPc, Sealed, Present
<1> QED BY <1>1, <1>2, <1>3, <1>4, <1>5, <1>6, <1>7, <1>8, <1>9, <1>10 DEF Next, Step, Stopped

THEOREM EndInvariant == Spec => [](TypeInv /\ DirectoryInv /\ EndInv)
<1>1. Init => TypeInv /\ DirectoryInv /\ EndInv
  BY TypesInitially, DirectoryInitially, EndInitially
<1>2. TypeInv /\ DirectoryInv /\ EndInv /\ [Next]_vars => (TypeInv /\ DirectoryInv /\ EndInv)'
  BY TypesInductive, DirectoryInductive, EndInductive
<1> QED BY <1>1, <1>2, PTL DEF Spec

\* A step that changes the tree is one of a running program.
LEMMA TreeChangesWhileRunning ==
  ASSUME Publish \/ Record \/ WriteMetadata \/ Seal \/ WriteFault \/ Stopped
  PROVE  fs' = fs
  BY DEF Publish, Record, WriteMetadata, Seal, WriteFault, Propagates, Stopped, disk, vars

LEMMA StepRefines ==
  ASSUME TypeInv, DirectoryInv, [Next]_vars
  PROVE  [Directory!Next]_(Directory!vars)
<1>1. CASE UNCHANGED vars
  BY <1>1 DEF vars, disk, Directory!vars
<1>2. CASE Publish
  <2>1. Directory!Appear
    BY <1>2, TreeChangesWhileRunning DEF Publish, DirectoryInv, Directory!Appear
  <2> QED BY <2>1 DEF Directory!Next
<1>3. CASE Record
  <2>1. rows' = Append(rows, Len(rows) + 1)
    BY <1>3, AppendExtends DEF Record, Next1, DirectoryInv
  <2>2. Directory!AppendRow
    BY <1>3, <2>1, TreeChangesWhileRunning
       DEF Record, DirectoryInv, RunningPc, Directory!AppendRow, Directory!Working
  <2> QED BY <2>2 DEF Directory!Next
<1>4. CASE WriteMetadata
  <2>1. Directory!Describe
    BY <1>4, TreeChangesWhileRunning DEF WriteMetadata, DirectoryInv, Directory!Describe
  <2> QED BY <2>1 DEF Directory!Next
<1>5. CASE Seal
  <2>1. Directory!Seal
    BY <1>5, TreeChangesWhileRunning DEF Seal, DirectoryInv, Directory!Seal
  <2> QED BY <2>1 DEF Directory!Next
<1>6. CASE WriteFault \/ Stopped
  BY <1>6, TreeChangesWhileRunning DEF WriteFault, Propagates, Stopped, vars, disk, Directory!vars
<1>7. CASE QuietStep
  <2>1. Directory!ChangeTree
    BY <1>7 DEF QuietStep, DirectoryInv, Directory!ChangeTree, Directory!Working
  <2> QED BY <2>1 DEF Directory!Next
<1> QED BY <1>1, <1>2, <1>3, <1>4, <1>5, <1>6, <1>7, StepsOfTheDirectory

\* A reader of the run directory sees the journal grow one planned entry at a
\* time, never sees the tree or the journal move once the metadata is being
\* rewritten, and sees the sentinel say "complete" last.
THEOREM DirectoryKept == Spec => DirectorySpec
<1>1. Init => Directory!Init
  BY DEF Init, Directory!Init
<1> QED BY <1>1, StepRefines, DirectoryInvariant, PTL DEF Spec, DirectorySpec, Directory!Spec

(***************************************************************************)
(* Windows.  A run says that one made it overrun only when its deadline    *)
(* passed.  The reason is a fact about every plan: a lag or a slow copy    *)
(* that is still open has something left in the journal that closes it (or *)
(* fails), so a run that reached the end of its journal has nothing open.  *)
(***************************************************************************)


\* A commit of lag s lies beyond entry n.
Closes(s, n) == \E c \in DOMAIN Journal :
                   c > n /\ Entry(c).act = "network_lag_commit" /\ Entry(c).ref = s

\* Every window left open by the first n entries closes later: a slow copy by
\* its own commit or, once a lag has withheld that, by the commit of the lag.
ClosesLater(n) ==
    /\ \A s \in lags : Closes(s, n)
    /\ \A c \in copies : \/ c.start + 1 > n
                         \/ \E s \in LagOver(c.start + 1) \cap deferred : Closes(s, n)

Withholders == {s \in DOMAIN Journal : /\ Entry(s).act = "network_lag_start"
                                       /\ Entry(s).effect # "held_handle"}

WindowInv ==
    /\ fs.pending = {}
    /\ deferred \subseteq Withholders
    /\ pc \in {"baseline", "loop", "sleep", "batch", "copies", "lags", "idle"} => ClosesLater(cursor)
    /\ pc = "record" => ClosesLater(Next1)
    /\ pc \in {"copies", "lags", "idle"} => now >= duration \/ ~HasNext
    /\ pc = "record" /\ ret # "batch" => now >= duration
    /\ OverrunIsReal

\* Only the start of a slow copy that is dispatched as a phase-B entry stages it.
LEMMA DispatchStagesNothing ==
  ASSUME NEW tree \in FileSystem, tree.pending = {}, NEW i, NEW e, e.act # "slow_copy_start"
  PROVE  Dispatch(tree, i, e).fs.pending = {}
<1>1. \A t : Returns(t).fs = t /\ Raises(t).fs = t
  BY DEF Returns, Raises
<1>2. CASE e.act = "move_asset"
  <2>1. Dispatch(tree, i, e) \in {Returns(Replaced(tree, e.from, e.to)), Raises(tree)}
    BY <1>2 DEF Dispatch, MediaActions, MoveAsset
  <2>2. Replaced(tree, e.from, e.to).pending = {}
    BY DEF Replaced, FileSystem
  <2> QED BY <1>1, <2>1, <2>2
<1>3. CASE e.act = "delete_file"
  <2> DEFINE new == [tree EXCEPT !.files[e.from] = NoFile, !.cache[e.asset] = tree.files[e.from]]
  <2>1. Dispatch(tree, i, e) \in {Returns(new), Raises(tree)}
    BY <1>3 DEF Dispatch, MediaActions, DeleteFile
  <2>2. new.pending = {}
    BY DEF FileSystem
  <2> HIDE DEF new
  <2> QED BY <1>1, <2>1, <2>2
<1>4. CASE e.act = "add_file"
  <2> DEFINE new == [Written(tree, e.to, tree.cache[e.asset]) EXCEPT !.cache[e.asset] = NoFile]
  <2>1. Dispatch(tree, i, e) \in {Returns(new), Raises(tree)}
    BY <1>4 DEF Dispatch, AddFile, MediaActions
  <2>2. new.pending = {}
    BY DEF Written, FileSystem
  <2> HIDE DEF new
  <2> QED BY <1>1, <2>1, <2>2
<1>5. CASE e.act \in MediaActions
  <2> DEFINE new == Whole(tree.files[e.from].asset, tree.files[e.from].ver + 1)
             out == [tree EXCEPT !.files = [@ EXCEPT ![e.from] = NoFile, ![e.to] = new]]
  <2>1. Dispatch(tree, i, e) \in {Returns(out), Raises(tree)}
    BY <1>5 DEF Dispatch, RewriteVersion, MediaActions
  <2>2. out.pending = {}
    BY DEF FileSystem
  <2> HIDE DEF out
  <2> QED BY <1>1, <2>1, <2>2
<1>6. CASE e.act = "touch_mtime"
  BY <1>1, <1>6 DEF Dispatch, MediaActions, TouchMtime
<1>7. CASE e.act = "rename_season"
  BY <1>1, <1>7 DEF Dispatch, MediaActions, HierarchyMoves, Returns, Raises, FileSystem
<1>8. CASE e.act = "slow_copy_commit"
  BY <1>1, <1>8 DEF Dispatch, MediaActions, CommitStagedCopy
<1>9. CASE e.act \notin MediaActions \cup {"move_asset", "delete_file", "add_file", "touch_mtime",
                                           "rename_season", "slow_copy_commit"}
  <2>1. Dispatch(tree, i, e) = Raises(tree)
    BY <1>9 DEF Dispatch, MediaActions
  <2> QED BY <1>1, <2>1
<1> QED BY <1>2, <1>3, <1>4, <1>5, <1>6, <1>7, <1>8, <1>9

\* The commit of a slow copy cannot be dispatched as a phase-B entry: nothing
\* was staged for it.
LEMMA DispatchedCommitRaises ==
  ASSUME NEW tree, tree.pending = {}, NEW i, Entry(i).act = "slow_copy_commit", NEW ran
  PROVE  ~Dispatched(tree, i, ran).ok
  BY DEF Dispatched, Dispatch, MediaActions, CommitStagedCopy, Raises

LEMMA GrowthStagesNothing ==
  ASSUME fs \in FileSystem, NEW logical
  PROVE  Grown(logical).fs.pending = fs.pending
  BY DEF Grown, Returns, Raises, FileSystem

LEMMA ChmodStagesNothing ==
  ASSUME NEW tree \in FileSystem, NEW t, NEW m
  PROVE  Chmod(tree, t, m).pending = tree.pending
  BY DEF Chmod, FileSystem

LEMMA PromoteStagesNothing ==
  ASSUME NEW tree \in FileSystem, NEW from, NEW temp, NEW to
  PROVE  Promote(tree, from, temp, to).fs.pending = tree.pending
  BY DEF Promote, Replaced, Returns, Raises, FileSystem

\* The commit of a lag is never withheld itself.
LEMMA LagCommitNotWithheld ==
  ASSUME plan \in Plans, NEW i \in DOMAIN Journal, Entry(i).act = "network_lag_commit"
  PROVE  LagOver(i) = {}
<1>1. ASSUME NEW s \in LagOver(i) PROVE FALSE
  <2>1. /\ s \in DOMAIN Journal /\ Entry(s).act = "network_lag_start"
        /\ Entry(s).effect # "held_handle" /\ Entry(s).ref = i
    BY DEF LagOver
  <2>2. Entry(i).act \in DelayedVisibilityAfter \cup DelayedRenameAfter
    BY <2>1, PlanTyped DEF WellPaired, Entry
  <2> QED BY <2>2 DEF DelayedVisibilityAfter, DelayedRenameAfter
<1> QED BY <1>1

LEMMA LagClosesLater ==
  ASSUME plan \in Plans, NEW i \in DOMAIN Journal, Entry(i).act = "network_lag_start"
  PROVE  Closes(i, i) /\ Entry(i).ref = i - 1
  BY PlanTyped DEF WellPaired, Is, Entry, Closes

(***************************************************************************)
(* One handler.                                                            *)
(***************************************************************************)
LEMMA ExecuteStagesNothing ==
  ASSUME TypeInv, NEW tree \in FileSystem, tree.pending = {}, NEW i \in DOMAIN Journal,
         deferred \subseteq Withholders, Execute(tree, i)
  PROVE  fs'.pending = {}
<1> USE PlanTyped DEF TypeInv
<1>1. \A r, label : Proceed(r, label) => fs' = r.fs
  BY DEF Proceed
<1>2. \A t : Returns(t).fs = t /\ Raises(t).fs = t
  BY DEF Returns, Raises
<1>3. Entry(i) \in JournalEntries
  OBVIOUS
<1>4. CASE Withhold(tree, i) \/ StartLag(tree, i)
  BY <1>1, <1>2, <1>4 DEF Withhold, StartLag
<1>5. CASE StartSlowCopy(tree, i)
  <2> DEFINE e   == Entry(i)
             new == Written(tree, e.temp, [tree.files[e.from] EXCEPT !.bytes = 0])
  <2>1. fs' \in {new, tree}
    BY <1>1, <1>2, <1>5 DEF StartSlowCopy
  <2>2. new.pending = {}
    BY DEF Written, FileSystem
  <2> HIDE DEF new
  <2> QED BY <2>1, <2>2
<1>6. CASE CommitSlowCopy(tree, i)
  <2> DEFINE e    == Entry(i)
             open == {c \in copies : c.start = e.ref}
             s    == Entry(e.ref)
             c    == CHOOSE x \in open : TRUE
             full == Written(tree, s.temp, c.source)
             done == Promote(full, s.from, s.temp, s.to)
  <2>1. \/ fs' = tree
        \/ open # {} /\ fs' = done.fs
    BY <1>1, <1>2, <1>6 DEF CommitSlowCopy
  <2>2. CASE open # {}
    <3>1. c \in copies
      BY <2>2
    <3> HIDE DEF c
    <3>2. c.source \in File
      BY <3>1 DEF TypeOK
    <3>3. s.temp \in Paths
      BY <1>6 DEF CommitSlowCopy, WellPaired, Is, Entry, JournalEntries, CarriesPaths
    <3>4. full \in FileSystem
      BY <3>2, <3>3, WrittenTyped
    <3>5. full.pending = {}
      BY DEF Written, FileSystem
    <3> HIDE DEF full
    <3>6. done.fs.pending = {}
      BY <3>4, <3>5, PromoteStagesNothing
    <3> HIDE DEF done
    <3> QED BY <2>1, <3>6
  <2> QED BY <2>1, <2>2
<1>7. CASE CommitLag(tree, i)
  <2> DEFINE s == Entry(i).ref
             j == Entry(s).ref
  <2>1. CASE s \in deferred
    <3>1. PICK ran : Proceed(Dispatched(tree, j, ran), "record")
      BY <1>7, <2>1 DEF CommitLag
    <3>2. s \in DOMAIN Journal /\ Entry(s).act = "network_lag_start" /\ Entry(s).effect # "held_handle"
      BY <2>1 DEF Withholders
    <3>3. Entry(j).act \in DelayedVisibilityAfter \cup DelayedRenameAfter
      BY <3>2 DEF WellPaired, Entry
    <3>4. Entry(j).act # "slow_copy_start"
      BY <3>3 DEF DelayedVisibilityAfter, DelayedRenameAfter
    <3>5. Dispatched(tree, j, ran) \in {Dispatch(tree, j, Entry(j)), Raises(tree)}
      BY DEF Dispatched
    <3> HIDE DEF s, j
    <3> QED BY <1>1, <1>2, <3>1, <3>4, <3>5, DispatchStagesNothing
  <2>2. CASE s \notin deferred
    BY <1>1, <1>2, <1>7, <2>2 DEF CommitLag
  <2> QED BY <2>1, <2>2
<1>8. CASE RealizeChaos(tree, i)
  <2> DEFINE e == Entry(i)
             m == NewMode(tree, e)
             r == Realize(tree, chaos, i, e)
  <2>1. fs' = r.fs
    BY <1>1, <1>8 DEF RealizeChaos
  <2>2. r.fs \in {tree, Chmod(tree, e.target, m)}
    <3>1. CASE ExistsRaises(tree, e.target)
      <4>1. ~Exists(tree, e.target)
        BY <3>1, LibraryAssumption DEF Exists, ExistsRaises, StatBlocked
      <4> QED BY <3>1, <4>1 DEF Realize
    <3>2. CASE ~ExistsRaises(tree, e.target)
      BY <3>2 DEF Realize
    <3> QED BY <3>1, <3>2
  <2>3. Chmod(tree, e.target, m).pending = {}
    BY ChmodStagesNothing
  <2> HIDE DEF m, r
  <2> QED BY <2>1, <2>2, <2>3
<1>9. CASE DispatchPhaseB(tree, i)
  <2>1. PICK ran : Proceed(Dispatched(tree, i, ran), "record")
    BY <1>9 DEF DispatchPhaseB
  <2>2. Dispatched(tree, i, ran) \in {Dispatch(tree, i, Entry(i)), Raises(tree)}
    BY DEF Dispatched
  <2>3. Entry(i).act # "slow_copy_start"
    BY <1>9 DEF DispatchPhaseB, PhaseBActions, MediaActions
  <2> QED BY <1>1, <1>2, <2>1, <2>2, <2>3, DispatchStagesNothing
<1> QED BY <1>4, <1>5, <1>6, <1>7, <1>8, <1>9 DEF Execute

LEMMA ExecuteWithholds ==
  ASSUME TypeInv, NEW tree, NEW i \in DOMAIN Journal, deferred \subseteq Withholders,
         Execute(tree, i)
  PROVE  deferred' \subseteq Withholders'
<1>1. plan' = plan /\ Withholders' = Withholders
  BY DEF Execute, Withholders, Entry, Journal
<1>2. LagOver(i) \subseteq Withholders
  BY DEF LagOver, Withholders
<1>3. deferred' \subseteq deferred \cup LagOver(i)
  BY DEF Execute, Withhold, StartSlowCopy, CommitSlowCopy, StartLag, CommitLag, RealizeChaos,
         DispatchPhaseB, session
<1> QED BY <1>1, <1>2, <1>3

\* Executing the entry under the cursor keeps every open window's closing ahead
\* of it, unless it fails.
LEMMA ExecuteClosesLater ==
  ASSUME TypeInv, NEW tree, tree.pending = {}, HasNext, deferred \subseteq Withholders,
         ClosesLater(cursor), Execute(tree, Next1), pc' = "record"
  PROVE  ClosesLater(Next1)'
<1> USE PlanTyped DEF TypeInv
<1>1. Next1 \in DOMAIN Journal /\ cursor \in Nat /\ Next1 = cursor + 1 /\ Next1 \in Nat
  BY DEF TypeOK, HasNext, Next1
<1>2. /\ Journal' = Journal /\ cursor' = cursor /\ Next1' = Next1
      /\ \A i : Entry(i)' = Entry(i)
      /\ \A i : LagOver(i)' = LagOver(i)
      /\ \A s, n : Closes(s, n)' = Closes(s, n)
  BY DEF Execute, Journal, Next1, Entry, LagOver, Closes
<1>3. ASSUME NEW s, Closes(s, cursor),
             ~(Entry(Next1).act = "network_lag_commit" /\ Entry(Next1).ref = s)
      PROVE  Closes(s, Next1)
  BY <1>1, <1>3 DEF Closes
<1>4. ASSUME NEW s \in DOMAIN Journal, Entry(s).act = "network_lag_start", s >= Next1
      PROVE  Closes(s, Next1)
  BY <1>1, <1>4, LagClosesLater DEF Closes
<1>5. ASSUME NEW c \in copies, c.start + 1 > cursor
      PROVE  \/ c.start + 1 > Next1
             \/ c.start + 1 = Next1 /\ Entry(Next1).act = "slow_copy_commit" /\ Entry(Next1).ref = c.start
  <2>1. c.start \in DOMAIN Journal /\ Entry(c.start).act = "slow_copy_start" /\ c.start \in Nat
    BY DEF TypeOK
  <2>2. Entry(c.start + 1).act = "slow_copy_commit" /\ Entry(c.start + 1).ref = c.start
    BY <2>1, StartHasCommit
  <2> QED BY <1>1, <1>5, <2>1, <2>2
<1>6. CASE CommitLag(tree, Next1)
  <2> DEFINE s0 == Entry(Next1).ref
  <2>1. /\ Entry(Next1).act = "network_lag_commit"
        /\ lags' = lags \ {s0} /\ deferred' = deferred \ {s0} /\ copies' = copies
    BY <1>6 DEF CommitLag
  <2>2. \A s \in lags' : Closes(s, Next1)
    BY <1>3, <2>1 DEF ClosesLater
  <2>3. ASSUME NEW c \in copies
        PROVE  c.start + 1 > Next1 \/ \E s \in LagOver(c.start + 1) \cap deferred' : Closes(s, Next1)
    <3>1. CASE c.start + 1 > cursor
      BY <1>5, <2>1, <3>1
    <3>2. CASE \E s \in LagOver(c.start + 1) \cap deferred : Closes(s, cursor)
      <4>1. PICK s \in LagOver(c.start + 1) \cap deferred : Closes(s, cursor)
        BY <3>2
      <4>2. CASE s = s0
        <5>1. s0 \in deferred /\ Entry(s0).ref = c.start + 1
          BY <4>1, <4>2 DEF LagOver
        <5>2. PICK ran : Proceed(Dispatched(tree, c.start + 1, ran), "record")
          BY <1>6, <5>1 DEF CommitLag
        <5>3. Entry(c.start + 1).act = "slow_copy_commit"
          BY StartHasCommit DEF TypeOK
        <5>4. ~Dispatched(tree, c.start + 1, ran).ok
          BY <5>3, DispatchedCommitRaises
        <5> QED BY <5>2, <5>4 DEF Proceed
      <4>3. CASE s # s0
        BY <1>3, <2>1, <4>1, <4>3
      <4> QED BY <4>2, <4>3
    <3> QED BY <3>1, <3>2 DEF ClosesLater
  <2> QED BY <1>2, <2>1, <2>2, <2>3 DEF ClosesLater
<1>7. CASE ~CommitLag(tree, Next1)
  <2>1. Entry(Next1).act # "network_lag_commit"
    BY <1>1, <1>7, LagCommitNotWithheld
       DEF Execute, Withhold, StartSlowCopy, CommitSlowCopy, StartLag, RealizeChaos,
           DispatchPhaseB, ChaosOpenActions, ChaosCloseActions, PhaseBActions, MediaActions
  <2>2. deferred \subseteq deferred' /\ lags' \subseteq lags \cup {Next1}
        /\ (lags' # lags => Entry(Next1).act = "network_lag_start")
    BY <1>7 DEF Execute, Withhold, StartSlowCopy, CommitSlowCopy, StartLag, RealizeChaos,
                DispatchPhaseB, session
  <2>3. \A s \in lags' : Closes(s, Next1)
    <3> SUFFICES ASSUME NEW s \in lags' PROVE Closes(s, Next1)
      OBVIOUS
    <3>1. CASE s \in lags
      BY <1>3, <2>1, <3>1 DEF ClosesLater
    <3>2. CASE s \notin lags
      BY <1>1, <1>4, <2>2, <3>2
    <3> QED BY <3>1, <3>2
  <2>4. ASSUME NEW c \in copies \cap copies'
        PROVE  c.start + 1 > Next1 \/ \E s \in LagOver(c.start + 1) \cap deferred' : Closes(s, Next1)
    <3>1. CASE c.start + 1 = Next1 /\ Entry(Next1).act = "slow_copy_commit" /\ Entry(Next1).ref = c.start
      <4>1. ~CommitSlowCopy(tree, Next1)
        BY <3>1 DEF CommitSlowCopy
      <4>2. Withhold(tree, Next1)
        BY <1>7, <3>1, <4>1
           DEF Execute, StartSlowCopy, StartLag, RealizeChaos, DispatchPhaseB, ChaosOpenActions,
               ChaosCloseActions, PhaseBActions, MediaActions
      <4>3. PICK s \in LagOver(Next1) : TRUE
        BY <4>2 DEF Withhold
      <4>4. s \in DOMAIN Journal /\ Entry(s).act = "network_lag_start" /\ Entry(s).ref = Next1
        BY <4>3 DEF LagOver
      <4>5. s >= Next1
        BY <1>1, <4>4, LagClosesLater
      <4>6. Closes(s, Next1)
        BY <1>4, <4>4, <4>5
      <4>7. s \in deferred'
        BY <4>2, <4>3 DEF Withhold
      <4> QED BY <3>1, <4>3, <4>6, <4>7
    <3>2. CASE \E s \in LagOver(c.start + 1) \cap deferred : Closes(s, cursor)
      BY <1>3, <2>1, <2>2, <3>2
    <3> QED BY <1>5, <3>1, <3>2 DEF ClosesLater
  <2>5. ASSUME NEW c \in copies' \ copies PROVE c.start + 1 > Next1
    <3>1. c.start = Next1
      BY <1>7 DEF Execute, Withhold, StartSlowCopy, CommitSlowCopy, StartLag, RealizeChaos,
                  DispatchPhaseB, session
    <3> QED BY <1>1, <3>1
  <2> QED BY <1>2, <2>3, <2>4, <2>5 DEF ClosesLater
<1> QED BY <1>6, <1>7

(***************************************************************************)
(* The induction.                                                          *)
(***************************************************************************)
LEMMA WindowInitially == Init => WindowInv
<1> SUFFICES ASSUME Init PROVE WindowInv
  OBVIOUS
<1>1. fs.pending = {} /\ pc = "baseline" /\ ~drained
  BY DEF Init, InitialTree
<1>2. copies = {} /\ lags = {} /\ deferred = {}
  BY DEF Init
<1> QED BY <1>1, <1>2 DEF WindowInv, ClosesLater, OverrunIsReal

LEMMA HandlerKeepsWindows ==
  ASSUME TypeInv, WindowInv, RunDue \/ FinishSlowCopy \/ FinishLag
  PROVE  WindowInv'
<1>1. /\ cursor < Len(Journal) /\ Next1 \in DOMAIN Journal /\ HasNext
      /\ ClosesLater(cursor) /\ deferred \subseteq Withholders
      /\ fs \in FileSystem /\ fs.pending = {}
      /\ pc \in {"batch", "copies", "lags"}
  <2>1. pc \in {"batch", "copies", "lags"} /\ cursor < Len(Journal)
    <3>1. CASE RunDue
      BY <3>1, PlanTyped DEF RunDue, TypeInv, TypeOK
    <3>2. CASE FinishSlowCopy \/ FinishLag
      BY <3>2 DEF FinishSlowCopy, FinishLag, HeadFinishesCopy, HeadBelongsToLag, HasNext
    <3> QED BY <3>1, <3>2
  <2>2. Next1 \in DOMAIN Journal
    BY <2>1, PlanTyped DEF TypeInv, TypeOK, Next1
  <2> QED BY <2>1, <2>2 DEF WindowInv, TypeInv, TypeOK, HasNext
<1>2. ASSUME NEW tree \in FileSystem, tree.pending = {}, Execute(tree, Next1)
      PROVE  /\ fs'.pending = {} /\ deferred' \subseteq Withholders'
             /\ pc' = "record" => ClosesLater(Next1)'
             /\ now' = now /\ duration' = duration
  <2>1. now' = now /\ duration' = duration
    BY <1>2 DEF Execute
  <2> QED BY <1>1, <1>2, <2>1, ExecuteStagesNothing, ExecuteWithholds, ExecuteClosesLater
<1>3. pc' \in {"record", "failing"}
  BY HandlerProceeds
<1>4. CASE RunDue
  <2>1. Execute(fs, Next1) /\ ret' = "batch" /\ drained' = drained
    BY <1>4 DEF RunDue
  <2> QED BY <1>1, <1>2, <1>3, <2>1 DEF WindowInv, OverrunIsReal
<1>5. CASE FinishLag
  <2>1. Execute(fs, Next1) /\ now >= duration
    BY <1>1, <1>5 DEF FinishLag, WindowInv
  <2> QED BY <1>1, <1>2, <1>3, <2>1 DEF WindowInv, OverrunIsReal
<1>6. CASE FinishSlowCopy
  <2> DEFINE g == Grown(LogicalNow(now))
  <2>1. now >= duration
    BY <1>1, <1>6 DEF FinishSlowCopy, WindowInv
  <2>2. g \in Effect /\ g.fs.pending = {}
    <3>1. LogicalNow(now) \in Nat
      BY LogicalNowTyped DEF TypeInv, TypeOK
    <3> QED BY <1>1, <3>1, GrownTyped, GrowthStagesNothing
  <2> HIDE DEF g
  <2>3. CASE g.ok
    <3>1. Execute(g.fs, Next1)
      BY <1>6, <2>3 DEF FinishSlowCopy, g
    <3>2. g.fs \in FileSystem
      BY <2>2 DEF Effect
    <3> QED BY <1>2, <1>3, <2>1, <2>2, <3>1, <3>2 DEF WindowInv, OverrunIsReal
  <2>4. CASE ~g.ok
    <3>1. Proceed(g, "record") /\ UNCHANGED <<plan, duration, now, cursor, session>>
      BY <1>6, <2>4 DEF FinishSlowCopy, g
    <3>2. fs'.pending = {} /\ pc' = "failing"
      BY <2>2, <2>4, <3>1 DEF Proceed
    <3>3. deferred' \subseteq Withholders'
      BY <1>1, <3>1 DEF session, Withholders, Entry, Journal
    <3> QED BY <2>1, <3>1, <3>2, <3>3 DEF WindowInv, OverrunIsReal
  <2> QED BY <2>3, <2>4
<1> QED BY <1>4, <1>5, <1>6

\* What the rest of the steps leave as it was.
LEMMA QuietKeepsWindows ==
  ASSUME UNCHANGED <<plan, cursor, copies, lags, deferred>>
  PROVE  /\ ClosesLater(cursor)' = ClosesLater(cursor)
         /\ ClosesLater(Next1)' = ClosesLater(Next1)
         /\ Withholders' = Withholders /\ HasNext' = HasNext
  BY DEF ClosesLater, Closes, LagOver, Withholders, HasNext, Entry, Journal, Next1

\* A run at the end of its journal has no window open.
LEMMA NothingOpenAtEnd ==
  ASSUME TypeInv, ClosesLater(cursor), ~HasNext
  PROVE  copies = {} /\ lags = {}
<1>1. cursor = Len(Journal) /\ DOMAIN Journal = 1..Len(Journal) /\ Len(Journal) \in Nat
  <2>1. DOMAIN Journal = 1..Len(Journal) /\ Len(Journal) \in Nat
    BY PlanTyped DEF TypeInv
  <2>2. cursor \in Nat /\ cursor <= Len(Journal) /\ ~(cursor < Len(Journal))
    BY <2>1 DEF TypeInv, TypeOK, HasNext
  <2>3. \A m, n \in Nat : m <= n /\ ~(m < n) => m = n
    OBVIOUS
  <2> QED BY <2>1, <2>2, <2>3
<1>2. \A s : ~Closes(s, cursor)
  <2>1. \A c \in DOMAIN Journal : ~(c > cursor)
    BY <1>1
  <2> QED BY <2>1 DEF Closes
<1>3. \A c \in copies : c.start + 1 \in DOMAIN Journal
  BY StartHasCommit DEF TypeInv, TypeOK
<1>4. \A c \in copies : ~(c.start + 1 > cursor)
  BY <1>1, <1>3
<1>5. \A c \in copies : \E s \in LagOver(c.start + 1) \cap deferred : Closes(s, cursor)
  BY <1>4 DEF ClosesLater
<1>6. \A s \in lags : Closes(s, cursor)
  BY DEF ClosesLater
<1> QED BY <1>2, <1>5, <1>6

LEMMA WindowInductive ==
  ASSUME TypeInv, WindowInv, [Next]_vars
  PROVE  WindowInv'
<1>0. now \in Nat /\ now' \in Nat /\ duration \in Nat /\ fs \in FileSystem
  BY TypesInductive, WallClockAssumption DEF TypeInv, TypeOK
<1>1. CASE UNCHANGED vars
  <2>1. UNCHANGED <<plan, cursor, copies, lags, deferred, fs, pc, ret, now, duration, drained>>
    BY <1>1 DEF vars, session, disk
  <2> QED BY <2>1, QuietKeepsWindows DEF WindowInv, OverrunIsReal
<1>2. CASE Tick
  <2>1. /\ UNCHANGED <<plan, cursor, copies, lags, deferred, fs, pc, ret, duration, drained>>
        /\ now' = now + 1
    BY <1>2 DEF Tick, session, disk
  <2>2. now >= duration => now' >= duration
    BY <1>0, <2>1
  <2> QED BY <2>1, <2>2, QuietKeepsWindows DEF WindowInv, OverrunIsReal
<1>3. CASE RunDue \/ FinishSlowCopy \/ FinishLag
  BY <1>3, HandlerKeepsWindows
<1>4. CASE TurnDeadline \/ TurnDue \/ TurnSleep
  <2>1. /\ UNCHANGED <<plan, cursor, copies, lags, deferred, now, duration, drained>>
        /\ fs' = Grown(LogicalNow(now)).fs
        /\ pc = "loop" /\ pc' \in {"copies", "batch", "sleep", "failing"}
        /\ pc' = "copies" => now >= duration
    BY <1>4 DEF TurnDeadline, TurnDue, TurnSleep, Turn, Proceed, session, DeadlinePassed
  <2>2. fs'.pending = {}
    BY <1>0, <2>1, GrowthStagesNothing DEF WindowInv
  <2> QED BY <2>1, <2>2, QuietKeepsWindows DEF WindowInv, OverrunIsReal
<1>5. CASE Record
  <2>1. /\ UNCHANGED <<plan, copies, lags, deferred, fs, now, duration, drained, ret>>
        /\ cursor' = cursor + 1 /\ pc = "record" /\ pc' = ret
        /\ ret \in {"batch", "copies", "lags"}
    BY <1>5 DEF Record, session, TypeInv, TypeOK
  <2>2. ClosesLater(cursor)'
    BY <2>1 DEF WindowInv, ClosesLater, Closes, LagOver, Entry, Journal, Next1
  <2>3. Withholders' = Withholders
    BY <2>1 DEF Withholders, Entry, Journal
  <2> QED BY <2>1, <2>2, <2>3 DEF WindowInv, OverrunIsReal
<1>6. CASE SlowCopiesFinished \/ LagsFinished
  <2>1. /\ UNCHANGED <<plan, cursor, copies, lags, deferred, fs, now, duration>>
        /\ pc \in {"copies", "lags"} /\ pc' \in {"lags", "idle"}
        /\ drained' => drained \/ copies # {} \/ lags # {}
    BY <1>6 DEF SlowCopiesFinished, LagsFinished, session, disk
  <2>2. now >= duration \/ ~HasNext
    BY <2>1 DEF WindowInv
  <2>3. drained' => now >= duration
    BY <2>1, <2>2, NothingOpenAtEnd DEF WindowInv, OverrunIsReal
  <2> QED BY <2>1, <2>2, <2>3, QuietKeepsWindows DEF WindowInv, OverrunIsReal
<1>7. CASE LoopEnds \/ Wake \/ BatchEnds \/ Publish \/ IdleOut
  <2>1. /\ UNCHANGED <<plan, cursor, copies, lags, deferred, fs, now, duration, drained>>
        /\ pc \in {"loop", "sleep", "batch", "baseline", "idle"}
        /\ pc' \in {"copies", "loop", "restore"}
        /\ pc' = "copies" => ~HasNext
    BY <1>7 DEF LoopEnds, Wake, BatchEnds, Publish, IdleOut, session, disk
  <2> QED BY <2>1, QuietKeepsWindows DEF WindowInv, OverrunIsReal
<1>8. CASE RestoreMode \/ WipeLibrary
  <2>1. /\ UNCHANGED <<plan, cursor, copies, lags, deferred, now, duration, drained>>
        /\ pc' \in {"restore", "failing", "metadata", "stopped"}
    BY <1>8 DEF RestoreMode, WipeLibrary, Finalizing, session
  <2>2. fs'.pending = {}
    <3>1. CASE RestoreMode
      <4>1. \/ fs' = fs
            \/ \E t, m : fs' = Chmod(fs, t, m)
        BY <3>1 DEF RestoreMode, RestoreOne
      <4> QED BY <1>0, <4>1, ChmodStagesNothing DEF WindowInv
    <3>2. CASE WipeLibrary
      <4>1. \E gone : fs' = Emptied(fs, gone)
        BY <3>2 DEF WipeLibrary
      <4>2. \A gone : Emptied(fs, gone).pending = fs.pending
        BY <1>0 DEF Emptied, FileSystem
      <4> QED BY <4>1, <4>2 DEF WindowInv
    <3> QED BY <1>8, <3>1, <3>2
  <2> QED BY <2>1, <2>2, QuietKeepsWindows DEF WindowInv, OverrunIsReal
<1>9. CASE RestoreBreaks \/ Succeeds \/ WriteMetadata \/ Seal \/ WriteFault
  <2>1. /\ UNCHANGED <<plan, cursor, copies, lags, deferred, fs, now, duration, drained>>
        /\ pc' \in {"failing", "metadata", "done", "stopped"}
    BY <1>9 DEF RestoreBreaks, Succeeds, WriteMetadata, Seal, WriteFault, Propagates, session, disk
  <2> QED BY <2>1, QuietKeepsWindows DEF WindowInv, OverrunIsReal
<1> QED BY <1>1, <1>2, <1>3, <1>4, <1>5, <1>6, <1>7, <1>8, <1>9 DEF Next, Step, Stopped

THEOREM WindowInvariant == Spec => [](TypeInv /\ WindowInv)
<1>1. Init => TypeInv /\ WindowInv
  BY TypesInitially, WindowInitially
<1>2. TypeInv /\ WindowInv /\ [Next]_vars => (TypeInv /\ WindowInv)'
  BY TypesInductive, WindowInductive
<1> QED BY <1>1, <1>2, PTL DEF Spec

\* A run reports that a slow copy or a lag made it overrun only if its deadline
\* did pass: a run that came to the end of its journal in time has closed every
\* window it opened.
THEOREM OverrunsAreReal == Spec => []OverrunIsReal
<1>1. WindowInv => OverrunIsReal
  BY DEF WindowInv
<1> QED BY <1>1, WindowInvariant, PTL
=============================================================================
