----------------------------- MODULE EndProofs -----------------------------
(***************************************************************************)
(* What a successful run leaves behind: every mode as it was created, and  *)
(* the tree that a replay of its bundle builds.                            *)
(***************************************************************************)
EXTENDS CopyProofs

(***************************************************************************)
(* Modes.  A handler may change a mode only through Chmod, and moves an    *)
(* inode together with its mode; so outside the targets that are captured, *)
(* and unless one of these is renamed, every mode is the one of creation.  *)
(***************************************************************************)
DefaultMode(t) == IF t \in Dirs THEN DirMode ELSE FileMode

DefaultBut(tree, S) ==
    /\ \A p \in Paths \ S : Present(tree, p) => tree.files[p].mode = FileMode
    /\ \A d \in Dirs \ S : tree.dirs[d] = DirMode

LEMMA InitialModes ==
  ASSUME NEW S
  PROVE  DefaultBut(InitialTree, S)
  BY DEF DefaultBut, InitialTree, Present, Whole

LEMMA WrittenKeepsModes ==
  ASSUME NEW tree \in FileSystem, NEW S, DefaultBut(tree, S), NEW p \in Paths, NEW f \in File
  PROVE  DefaultBut(Written(tree, p, f), S)
<1> DEFINE new == [f EXCEPT !.mode = IF Present(tree, p) THEN tree.files[p].mode ELSE FileMode]
<1>1. new.mode = IF Present(tree, p) THEN tree.files[p].mode ELSE FileMode
  BY DEF File
<1>2. Written(tree, p, f) = [tree EXCEPT !.files[p] = new]
  BY DEF Written
<1> HIDE DEF new
<1> QED BY <1>1, <1>2 DEF FileSystem, DefaultBut, Present

LEMMA ReplacedKeepsModes ==
  ASSUME NEW tree \in FileSystem, NEW S, DefaultBut(tree, S), NEW p \in Paths \ S, NEW q \in Paths
  PROVE  DefaultBut(Replaced(tree, p, q), S)
  BY DEF Replaced, FileSystem, DefaultBut, Present

LEMMA PromoteKeepsModes ==
  ASSUME NEW tree \in FileSystem, NEW S, DefaultBut(tree, S),
         NEW p \in Paths, NEW t \in Paths \ S, NEW q \in Paths
  PROVE  DefaultBut(Promote(tree, p, t, q).fs, S)
<1> DEFINE freed == IF p # q THEN [tree EXCEPT !.files[p] = NoFile] ELSE tree
<1>1. freed \in FileSystem /\ DefaultBut(freed, S)
  BY DEF FileSystem, DefaultBut, Present
<1> HIDE DEF freed
<1>2. DefaultBut(Replaced(freed, t, q), S)
  BY <1>1, ReplacedKeepsModes
<1>3. Promote(tree, p, t, q) \in {Returns(Replaced(freed, t, q)), Raises(tree)}
  BY DEF Promote, freed
<1> QED BY <1>2, <1>3 DEF Returns, Raises

LEMMA HierarchyMovesKeepModes ==
  ASSUME NEW tree \in FileSystem, NEW S, DefaultBut(tree, S),
         NEW e, \A m \in e.moves : m.from \in Paths \ S /\ m.to \in Paths
  PROVE  DefaultBut(HierarchyMoves(tree, e).fs, S)
<1> DEFINE destinations == {m.to : m \in e.moves}
           sources      == {m.from : m \in e.moves}
           arrived(p)   == CHOOSE m \in e.moves : m.to = p
           moved        == [p \in Paths |-> IF p \in destinations THEN tree.files[arrived(p).from]
                                            ELSE IF p \in sources THEN NoFile
                                            ELSE tree.files[p]]
<1>1. \A p \in destinations : arrived(p) \in e.moves
  OBVIOUS
<1>2. ASSUME NEW p \in Paths \ S
      PROVE  moved[p] # NoFile => moved[p].mode = FileMode
  <2>1. p \in destinations => arrived(p).from \in Paths \ S
    BY <1>1
  <2> HIDE DEF destinations, sources, arrived
  <2> QED BY <2>1 DEF DefaultBut, Present
<1> HIDE DEF moved
<1>3. \/ HierarchyMoves(tree, e) = Returns([tree EXCEPT !.files = moved])
      \/ HierarchyMoves(tree, e) = Raises(tree)
  BY DEF HierarchyMoves, moved
<1>4. DefaultBut([tree EXCEPT !.files = moved], S)
  BY <1>2 DEF DefaultBut, Present, FileSystem
<1> QED BY <1>3, <1>4 DEF Returns, Raises

LEMMA DispatchKeepsModes ==
  ASSUME NEW tree \in FileSystem, tree.pending = {}, NEW i \in Nat, NEW e \in JournalEntries,
         NEW S, DefaultBut(tree, S), RenamedBy(e) \cap S = {}
  PROVE  DefaultBut(Dispatch(tree, i, e).fs, S)
<1>0. CarriesPaths(e)
  BY DEF JournalEntries
<1>1. \A t : Returns(t).fs = t /\ Raises(t).fs = t
  BY DEF Returns, Raises
<1>2. CASE e.act = "move_asset"
  <2>1. e.from \in Paths \ S /\ e.to \in Paths
    BY <1>0, <1>2 DEF CarriesPaths, LocationActions, RenamedBy
  <2>2. Dispatch(tree, i, e) \in {Returns(Replaced(tree, e.from, e.to)), Raises(tree)}
    BY <1>2 DEF Dispatch, MediaActions, MoveAsset
  <2> QED BY <1>1, <2>1, <2>2, ReplacedKeepsModes
<1>3. CASE e.act = "delete_file"
  <2> DEFINE new == [tree EXCEPT !.files[e.from] = NoFile, !.cache[e.asset] = tree.files[e.from]]
  <2>1. Dispatch(tree, i, e) \in {Returns(new), Raises(tree)}
    BY <1>3 DEF Dispatch, MediaActions, DeleteFile
  <2>2. DefaultBut(new, S)
    BY DEF FileSystem, DefaultBut, Present
  <2> HIDE DEF new
  <2> QED BY <1>1, <2>1, <2>2
<1>4. CASE e.act = "add_file"
  <2> DEFINE out == Written(tree, e.to, tree.cache[e.asset])
             new == [out EXCEPT !.cache[e.asset] = NoFile]
  <2>1. e.to \in Paths /\ e.asset \in Assets
    BY <1>0, <1>4 DEF CarriesPaths
  <2>2. \/ Dispatch(tree, i, e) = Raises(tree)
        \/ tree.cache[e.asset] # NoFile /\ Dispatch(tree, i, e) = Returns(new)
    BY <1>4 DEF Dispatch, MediaActions, AddFile
  <2>3. CASE tree.cache[e.asset] # NoFile
    <3>1. tree.cache[e.asset] \in File
      BY <2>1, <2>3 DEF FileSystem
    <3>2. DefaultBut(out, S) /\ out \in FileSystem
      BY <2>1, <3>1, WrittenKeepsModes, WrittenTyped
    <3> HIDE DEF out
    <3>3. DefaultBut(new, S)
      BY <3>2 DEF FileSystem, DefaultBut, Present
    <3> HIDE DEF new
    <3> QED BY <1>1, <2>2, <3>3
  <2> HIDE DEF new
  <2> QED BY <1>1, <2>2, <2>3
<1>5. CASE e.act \in MediaActions
  <2> DEFINE new == Whole(tree.files[e.from].asset, tree.files[e.from].ver + 1)
             out == [tree EXCEPT !.files = [@ EXCEPT ![e.from] = NoFile, ![e.to] = new]]
  <2>1. Dispatch(tree, i, e) \in {Returns(out), Raises(tree)}
    BY <1>5 DEF Dispatch, RewriteVersion, MediaActions
  <2>2. e.from \in Paths /\ e.to \in Paths
    BY <1>0, <1>5 DEF CarriesPaths, LocationActions, MediaActions
  <2>3. new.mode = FileMode
    BY DEF Whole
  <2> HIDE DEF new
  <2>4. DefaultBut(out, S)
    BY <2>2, <2>3 DEF FileSystem, DefaultBut, Present
  <2> HIDE DEF out
  <2> QED BY <1>1, <2>1, <2>4
<1>6. CASE e.act = "touch_mtime"
  BY <1>1, <1>6 DEF Dispatch, MediaActions, TouchMtime
<1>7. CASE e.act = "rename_season"
  <2>1. Dispatch(tree, i, e) = HierarchyMoves(tree, e)
    BY <1>7 DEF Dispatch, MediaActions
  <2>2. \A m \in e.moves : m.from \in Paths \ S /\ m.to \in Paths
    BY <1>0, <1>7 DEF CarriesPaths, RenamedBy
  <2> QED BY <2>1, <2>2, HierarchyMovesKeepModes
<1>8. CASE e.act = "slow_copy_start"
  <2> DEFINE out == Written(tree, e.temp, tree.files[e.from])
             new == [out EXCEPT !.pending = @ \cup {[start |-> i, from |-> e.from, temp |-> e.temp]}]
  <2>1. e.from \in Paths /\ e.temp \in Paths
    BY <1>0, <1>8 DEF CarriesPaths, LocationActions
  <2>2. \/ Dispatch(tree, i, e) = Raises(tree)
        \/ Present(tree, e.from) /\ Dispatch(tree, i, e) = Returns(new)
    BY <1>8 DEF Dispatch, MediaActions, StageCopy, CanRead
  <2>3. CASE Present(tree, e.from)
    <3>1. tree.files[e.from] \in File
      BY <2>1, <2>3 DEF FileSystem, Present
    <3>2. DefaultBut(out, S) /\ out \in FileSystem
      BY <2>1, <3>1, WrittenKeepsModes, WrittenTyped
    <3> HIDE DEF out
    <3>3. DefaultBut(new, S)
      BY <3>2 DEF FileSystem, DefaultBut, Present
    <3> HIDE DEF new
    <3> QED BY <1>1, <2>2, <3>3
  <2> HIDE DEF new
  <2> QED BY <1>1, <2>2, <2>3
<1>9. CASE e.act = "slow_copy_commit"
  BY <1>1, <1>9 DEF Dispatch, MediaActions, CommitStagedCopy
<1>10. CASE e.act \notin MediaActions \cup {"move_asset", "delete_file", "add_file", "touch_mtime",
                              "rename_season", "slow_copy_start", "slow_copy_commit"}
  BY <1>1, <1>10 DEF Dispatch, MediaActions
<1> QED BY <1>2, <1>3, <1>4, <1>5, <1>6, <1>7, <1>8, <1>9, <1>10

\* A chmod leaves the modes of everything but its target.
LEMMA ChmodKeepsOthers ==
  ASSUME NEW tree \in FileSystem, NEW t, NEW m, Exists(tree, t), NEW S, DefaultBut(tree, S)
  PROVE  DefaultBut(Chmod(tree, t, m), S \cup {t})
<1>1. CASE t \in Dirs
  BY <1>1 DEF Chmod, FileSystem, DefaultBut, Present
<1>2. CASE t \notin Dirs
  BY <1>2 DEF Chmod, FileSystem, DefaultBut, Present
<1> QED BY <1>1, <1>2

\* Putting the mode of creation back at a target, if it still exists, takes it off
\* the exceptions; only an unanswered exists() could leave one behind.
LEMMA RestoreClears ==
  ASSUME StatRaises \/ Privileged, NEW tree \in FileSystem, NEW t, NEW S,
         DefaultBut(tree, S \cup {t}), ~ExistsRaises(tree, t)
  PROVE  DefaultBut(IF Exists(tree, t) THEN Chmod(tree, t, DefaultMode(t)) ELSE tree, S)
<1>1. CASE t \in Dirs
  <2>1. Exists(tree, t) /\ t \notin Paths
    BY <1>1, LibraryAssumption DEF Exists
  <2> QED BY <1>1, <2>1 DEF Chmod, DefaultMode, FileSystem, DefaultBut, Present
<1>2. CASE t \notin Dirs /\ Exists(tree, t)
  <2>1. t \in Paths /\ tree.files[t] \in File
    BY <1>2 DEF Exists, Present, FileSystem
  <2> DEFINE f == [tree.files[t] EXCEPT !.mode = FileMode]
  <2>2. f.mode = FileMode
    BY <2>1 DEF File
  <2>3. Chmod(tree, t, DefaultMode(t)) = [tree EXCEPT !.files[t] = f]
    BY <1>2, <2>1 DEF Chmod, DefaultMode, FileSystem
  <2> HIDE DEF f
  <2> QED BY <1>2, <2>1, <2>2, <2>3 DEF FileSystem, DefaultBut, Present
<1>3. CASE t \notin Dirs /\ ~Exists(tree, t)
  <2>1. t \in Paths => ~Present(tree, t)
    BY <1>3 DEF Exists, ExistsRaises, StatBlocked, Reachable, Allows
  <2> QED BY <1>3, <2>1 DEF DefaultBut
<1> QED BY <1>1, <1>2, <1>3

\* The growth of open slow copies changes no mode.
LEMMA GrowthKeepsModes ==
  ASSUME TypeInv, NEW S, DefaultBut(fs, S), NEW logical \in Nat
  PROVE  DefaultBut(Grown(logical).fs, S)
<1> DEFINE owner(p) == {c \in copies : Entry(c.start).temp = p}
           part(c)  == [c.source EXCEPT !.bytes = VisibleSize(c, logical)]
           grown(p) == IF owner(p) = {} THEN fs.files[p]
                       ELSE Written(fs, p, part(CHOOSE c \in owner(p) : TRUE)).files[p]
<1>1. fs \in FileSystem
  BY DEF TypeInv, TypeOK
<1>2. ASSUME NEW p \in Paths \ S
      PROVE  grown(p) # NoFile => grown(p).mode = FileMode
  <2>1. CASE owner(p) = {}
    BY <2>1 DEF DefaultBut, Present
  <2>2. CASE owner(p) # {}
    <3> DEFINE c == CHOOSE c \in owner(p) : TRUE
    <3>1. c \in copies
      BY <2>2
    <3>2. c \in [start : DOMAIN Journal, source : File] /\ Entry(c.start).act = "slow_copy_start"
      BY <3>1 DEF TypeInv, TypeOK
    <3>3. VisibleSize(c, logical) \in 0..FileBytes
      BY <3>2, VisibleSizeTyped DEF TypeInv
    <3>4. part(c) \in File
      BY <3>2, <3>3 DEF File
    <3> HIDE DEF part
    <3>5. DefaultBut(Written(fs, p, part(c)), S)
      BY <1>1, <3>4, WrittenKeepsModes
    <3>6. Written(fs, p, part(c)).files[p] # NoFile =>
              Written(fs, p, part(c)).files[p].mode = FileMode
      BY <3>5 DEF DefaultBut, Present
    <3> USE DEF c
    <3> QED BY <2>2, <3>6
  <2> QED BY <2>1, <2>2
<1> HIDE DEF grown
<1>3. DefaultBut([fs EXCEPT !.files = [p \in Paths |-> grown(p)]], S)
  BY <1>1, <1>2 DEF DefaultBut, Present, FileSystem
<1>4. \/ Grown(logical) = Returns([fs EXCEPT !.files = [p \in Paths |-> grown(p)]])
      \/ Grown(logical) = Raises(fs)
  BY DEF Grown, grown
<1> QED BY <1>3, <1>4 DEF Returns, Raises

(***************************************************************************)
(* The invariant: what is captured is the mode of creation of a target of  *)
(* the executed journal, and nothing else has another mode.                *)
(***************************************************************************)
ChmodActions == {"change_permissions", "toggle_readonly"}

TargetsOf(captured) == {captured[k].target : k \in DOMAIN captured}

\* t was chmodded by one of the first n entries.
Chmodded(t, n) == \E i \in DOMAIN Journal :
                     i <= n /\ Entry(i).act \in ChmodActions /\ Entry(i).target = t

CapturedDefaults(captured) ==
    \A k \in DOMAIN captured : captured[k].mode = DefaultMode(captured[k].target)

ModeInv ==
    OnTrack => /\ DefaultBut(fs, TargetsOf(chaos.captured))
               /\ CapturedDefaults(chaos.captured)
               /\ \A t \in TargetsOf(chaos.captured) : Chmodded(t, Executed)

\* No entry that is still to be executed renames what is captured.
LEMMA TargetsStay ==
  ASSUME ChmodTargetsStay, plan \in Plans, NEW n \in Nat, NEW t, Chmodded(t, n),
         NEW j \in DOMAIN Journal, n < j \/ LagOver(j) # {}
  PROVE  t \notin RenamedBy(Entry(j))
<1>1. PICK i \in DOMAIN Journal :
          i <= n /\ Entry(i).act \in ChmodActions /\ Entry(i).target = t
  BY DEF Chmodded
<1>2. i < j \/ \E s \in DOMAIN Journal : Withholds(Journal, s) /\ Journal[s].ref = j
  <2>1. CASE n < j
    BY <1>1, <2>1, PlanTyped
  <2>2. CASE LagOver(j) # {}
    BY <2>2 DEF LagOver, Withholds, Is, Entry
  <2> QED BY <2>1, <2>2
<1> QED BY <1>1, <1>2 DEF ChmodTargetsStay, ChmodActions, Journal, Entry

\* _capture_mode, while every other mode is the one of creation
LEMMA CaptureKeepsDefaults ==
  ASSUME NEW tree \in FileSystem, NEW captured \in Seq(CapturedMode), NEW t, Exists(tree, t),
         CapturedDefaults(captured), DefaultBut(tree, TargetsOf(captured))
  PROVE  LET kept == Captured(captured, t, ModeOf(tree, t))
         IN  TargetsOf(kept) = TargetsOf(captured) \cup {t} /\ CapturedDefaults(kept)
<1> DEFINE kept == Captured(captured, t, ModeOf(tree, t))
<1>1. CASE t \in TargetsOf(captured)
  BY <1>1 DEF Captured, TargetsOf
<1>2. CASE t \notin TargetsOf(captured)
  <2> DEFINE new == [target |-> t, mode |-> ModeOf(tree, t)]
  <2>1. kept = Append(captured, new)
    BY <1>2 DEF Captured, TargetsOf
  <2>2. ModeOf(tree, t) = DefaultMode(t)
    BY <1>2 DEF ModeOf, DefaultMode, DefaultBut, Exists
  <2>3. t \in Paths \cup Dirs /\ ModeOf(tree, t) \in Mode
    BY ModeTyped
  <2>4. new \in CapturedMode /\ new.target = t /\ new.mode = DefaultMode(t)
    BY <2>2, <2>3 DEF CapturedMode
  <2> HIDE DEF new, kept
  <2>5. /\ DOMAIN kept = DOMAIN captured \cup {Len(captured) + 1}
        /\ \A k \in DOMAIN captured : kept[k] = captured[k]
        /\ kept[Len(captured) + 1] = new
    BY <2>1, <2>4
  <2> QED BY <2>4, <2>5 DEF TargetsOf, CapturedDefaults, kept
<1> QED BY <1>1, <1>2

\* One handler, on the tree it meets.
LEMMA HandlerKeepsModes ==
  ASSUME ChmodTargetsStay, TypeInv, deferred \subseteq Withholders, HasNext,
         pc # "record", NEW tree \in FileSystem, tree.pending = {},
         DefaultBut(tree, TargetsOf(chaos.captured)), CapturedDefaults(chaos.captured),
         \A t \in TargetsOf(chaos.captured) : Chmodded(t, cursor),
         Execute(tree, Next1), pc' = "record"
  PROVE  ModeInv'
<1> USE PlanTyped DEF TypeInv, TypeOK
<1>i. PICK i : i = Next1
  OBVIOUS
<1>e. PICK e : e = Entry(i)
  OBVIOUS
<1>S. PICK S : S = TargetsOf(chaos.captured)
  OBVIOUS
<1>0. /\ i \in DOMAIN Journal /\ i \in Nat /\ e \in JournalEntries /\ cursor < i /\ cursor \in Nat
      /\ UNCHANGED <<plan, cursor>> /\ Executed' = i
      /\ \A k : Entry(k)' = Entry(k)
  BY <1>i, <1>e DEF HasNext, Next1, Execute, Executed, Entry, Journal
<1>1. \A r : Proceed(r, "record") => r.ok /\ fs' = r.fs
  BY DEF Proceed
<1>2. \A t : Returns(t).fs = t /\ Raises(t).fs = t /\ Returns(t).ok /\ ~Raises(t).ok
  BY DEF Returns, Raises
<1>3. \A t \in S : Chmodded(t, i)'
  BY <1>0, <1>S DEF Chmodded, Journal
<1>4. ASSUME chaos' = chaos, DefaultBut(fs', S)
      PROVE  ModeInv'
  BY <1>0, <1>3, <1>4, <1>S DEF ModeInv, DefaultBut, Present, TargetsOf, CapturedDefaults
<1>5. CASE Withhold(tree, i) \/ StartLag(tree, i)
  BY <1>1, <1>2, <1>4, <1>5, <1>S DEF Withhold, StartLag
<1>6. CASE StartSlowCopy(tree, i)
  <2> DEFINE empty == [tree.files[e.from] EXCEPT !.bytes = 0]
  <2>1. e.from \in Paths /\ e.temp \in Paths
    BY <1>0, <1>6, <1>e DEF StartSlowCopy, JournalEntries, CarriesPaths, LocationActions
  <2>2. CanRead(tree, e.from) /\ fs' = Written(tree, e.temp, empty) /\ chaos' = chaos
    BY <1>1, <1>2, <1>6, <1>e DEF StartSlowCopy
  <2>3. empty \in File
    BY <2>1, <2>2, LibraryAssumption DEF CanRead, Present, FileSystem, File
  <2> HIDE DEF empty
  <2> QED BY <1>4, <1>S, <2>1, <2>2, <2>3, WrittenKeepsModes
<1>7. CASE CommitSlowCopy(tree, i)
  <2> DEFINE s    == Entry(e.ref)
             open == {c \in copies : c.start = e.ref}
             c    == CHOOSE x \in open : TRUE
             full == Written(tree, s.temp, c.source)
  <2>1. e.act = "slow_copy_commit" /\ chaos' = chaos
    BY <1>7, <1>e DEF CommitSlowCopy
  <2>2. e.ref = i - 1 /\ e.ref \in DOMAIN Journal /\ s.act = "slow_copy_start"
    BY <1>0, <1>e, <2>1 DEF WellPaired, Is, Entry
  <2>3. open # {} /\ fs' = Promote(full, s.from, s.temp, s.to).fs
    BY <1>1, <1>2, <1>7, <1>e DEF CommitSlowCopy
  <2>4. c \in copies
    BY <2>3
  <2>5. s.from \in Paths /\ s.temp \in Paths /\ s.to \in Paths
    BY <2>2 DEF JournalEntries, CarriesPaths, LocationActions
  <2>6. s.temp \notin S
    <3>1. ASSUME NEW t \in S PROVE Chmodded(t, e.ref - 1)
      <4>1. PICK k \in DOMAIN Journal :
                k <= cursor /\ Entry(k).act \in ChmodActions /\ Entry(k).target = t
        BY <1>S DEF Chmodded
      <4>2. k # e.ref
        BY <2>2, <4>1 DEF ChmodActions
      <4>3. k <= e.ref - 1
        BY <1>0, <1>i, <2>2, <4>1, <4>2 DEF Next1
      <4> QED BY <4>1, <4>3 DEF Chmodded
    <3>2. e.ref - 1 \in Nat /\ e.ref - 1 < e.ref
      BY <2>2
    <3>3. \A t \in S : t \notin RenamedBy(s)
      BY <2>2, <3>1, <3>2, TargetsStay
    <3> QED BY <2>2, <3>3 DEF RenamedBy
  <2>7. full \in FileSystem /\ DefaultBut(full, S)
    <3>1. c.source \in File
      BY <2>4
    <3> HIDE DEF c
    <3> QED BY <1>S, <2>5, <3>1, WrittenTyped, WrittenKeepsModes
  <2> HIDE DEF full
  <2> QED BY <1>4, <2>1, <2>3, <2>5, <2>6, <2>7, PromoteKeepsModes
<1>8. ASSUME NEW j \in DOMAIN Journal, i = j \/ LagOver(j) # {}, chaos' = chaos,
             NEW ran, Proceed(Dispatched(tree, j, ran), "record")
      PROVE  ModeInv'
  <2>1. Dispatched(tree, j, ran) \in {Dispatch(tree, j, Entry(j)), Raises(tree)}
    BY DEF Dispatched
  <2>2. \A t \in S : t \notin RenamedBy(Entry(j))
    BY <1>0, <1>i, <1>S, <1>8, TargetsStay DEF Next1
  <2>3. DefaultBut(Dispatch(tree, j, Entry(j)).fs, S)
    BY <1>S, <2>2, DispatchKeepsModes
  <2> QED BY <1>1, <1>2, <1>4, <1>8, <2>1, <2>3
<1>9. CASE CommitLag(tree, i)
  <2> DEFINE s == e.ref
  <2>1. CASE s \in deferred
    <3>1. PICK ran : Proceed(Dispatched(tree, Entry(s).ref, ran), "record")
      BY <1>9, <1>e, <2>1 DEF CommitLag
    <3>2. /\ s \in DOMAIN Journal /\ Entry(s).act = "network_lag_start"
          /\ Entry(s).effect # "held_handle"
      BY <2>1 DEF Withholders
    <3>3. Entry(s).ref \in DOMAIN Journal
      BY <3>2 DEF WellPaired, Entry
    <3>4. s \in LagOver(Entry(s).ref)
      BY <3>2 DEF LagOver
    <3>5. chaos' = chaos
      BY <1>9 DEF CommitLag
    <3> QED BY <1>8, <3>1, <3>3, <3>4, <3>5
  <2>2. CASE s \notin deferred
    BY <1>1, <1>2, <1>4, <1>9, <1>e, <1>S, <2>2 DEF CommitLag
  <2> QED BY <2>1, <2>2
<1>10. CASE RealizeChaos(tree, i)
  <2> DEFINE m == NewMode(tree, e)
             r == Realize(tree, chaos, i, e)
  <2>t. PICK t : t = e.target
    OBVIOUS
  <2>k. PICK kept : kept = Captured(chaos.captured, t, ModeOf(tree, t))
    OBVIOUS
  <2>1. r.ok /\ fs' = r.fs /\ chaos' = r.chaos
    BY <1>1, <1>10, <1>e DEF RealizeChaos
  <2>2. \/ fs' = tree /\ chaos'.captured = chaos.captured
        \/ /\ e.act \in ChmodActions /\ Exists(tree, t)
           /\ fs' = Chmod(tree, t, m) /\ chaos'.captured = kept
    <3>1. ExistsRaises(tree, t) => ~Exists(tree, t)
      BY LibraryAssumption DEF Exists, ExistsRaises, StatBlocked
    <3>2. CASE e.act \in {"acquire_lock", "release_lock"}
      BY <2>1, <3>2 DEF Realize
    <3>3. CASE e.act \in ChmodActions
      BY <2>1, <2>t, <2>k, <3>1, <3>3 DEF Realize, ChmodActions
    <3>4. CASE e.act \notin {"acquire_lock", "release_lock"} \cup ChmodActions
      BY <2>1, <3>4 DEF Realize, ChmodActions
    <3> QED BY <3>2, <3>3, <3>4
  <2>3. CASE fs' = tree /\ chaos'.captured = chaos.captured
    BY <1>0, <1>3, <1>S, <2>3 DEF ModeInv, DefaultBut, Present, TargetsOf, CapturedDefaults
  <2>4. CASE /\ e.act \in ChmodActions /\ Exists(tree, t)
             /\ fs' = Chmod(tree, t, m) /\ chaos'.captured = kept
    <3>1. chaos.captured \in Seq(CapturedMode)
      BY DEF CapturedMode
    <3>2. TargetsOf(kept) = S \cup {t} /\ CapturedDefaults(kept)
      BY <1>S, <2>4, <2>k, <3>1, CaptureKeepsDefaults
    <3>3. DefaultBut(Chmod(tree, t, m), S \cup {t})
      BY <1>S, <2>4, ChmodKeepsOthers
    <3>4. Chmodded(t, i)'
      BY <1>0, <1>e, <2>4, <2>t DEF Chmodded, Journal
    <3> HIDE DEF m
    <3>5. TargetsOf(chaos.captured)' = S \cup {t} /\ CapturedDefaults(chaos.captured)'
      BY <2>4, <3>2 DEF TargetsOf, CapturedDefaults
    <3>6. DefaultBut(fs, TargetsOf(chaos.captured))'
      BY <2>4, <3>3, <3>5 DEF DefaultBut, Present
    <3> QED BY <1>0, <1>3, <3>4, <3>5, <3>6 DEF ModeInv
  <2> QED BY <2>2, <2>3, <2>4
<1>11. CASE DispatchPhaseB(tree, i)
  <2>1. PICK ran : Proceed(Dispatched(tree, i, ran), "record")
    BY <1>11 DEF DispatchPhaseB
  <2>2. chaos' = chaos
    BY <1>11 DEF DispatchPhaseB, session
  <2> QED BY <1>0, <1>8, <2>1, <2>2
<1> QED BY <1>i, <1>5, <1>6, <1>7, <1>9, <1>10, <1>11 DEF Execute

\* What a run that goes on leaves of the invariant when it runs no handler.
LEMMA QuietKeepsModes ==
  ASSUME ModeInv, OnTrack, UNCHANGED <<plan, chaos>>, Executed' = Executed,
         \A S : DefaultBut(fs, S) => DefaultBut(fs', S)
  PROVE  ModeInv'
<1>1. PICK S : S = TargetsOf(chaos.captured)
  OBVIOUS
<1>2. DefaultBut(fs', S) /\ CapturedDefaults(chaos.captured) /\ \A t \in S : Chmodded(t, Executed)
  BY <1>1 DEF ModeInv
<1>3. \A t \in S : Chmodded(t, Executed)'
  BY <1>2 DEF Chmodded, Entry, Journal
<1>4. TargetsOf(chaos.captured)' = S /\ CapturedDefaults(chaos.captured)'
  BY <1>1, <1>2 DEF TargetsOf, CapturedDefaults
<1> QED BY <1>2, <1>3, <1>4 DEF ModeInv, DefaultBut, Present

LEMMA RestoreKeepsModes ==
  ASSUME StatRaises \/ Privileged, TypeInv, ModeInv, OnTrack, RestoreMode
  PROVE  ModeInv'
<1> DEFINE captured == chaos.captured
           oldest   == Head(captured)
           S        == TargetsOf(Tail(captured))
<1>1. captured \in Seq(CapturedMode) /\ captured # <<>> /\ fs \in FileSystem
  BY DEF RestoreMode, HasCaptured, TypeInv, TypeOK, CapturedMode
<1>2. oldest = captured[1]
  BY <1>1
<1>3. /\ DOMAIN Tail(captured) = 1..(Len(captured) - 1)
      /\ \A k \in 1..(Len(captured) - 1) : Tail(captured)[k] = captured[k + 1]
      /\ DOMAIN captured = 1..Len(captured) /\ Len(captured) \in Nat \ {0}
  BY <1>1
<1>4. TargetsOf(captured) = S \cup {oldest.target}
  <2>1. ASSUME NEW k \in DOMAIN captured PROVE captured[k].target \in S \cup {oldest.target}
    <3>1. CASE k = 1
      BY <1>2, <3>1
    <3>2. CASE k # 1
      <4>1. k - 1 \in DOMAIN Tail(captured) /\ Tail(captured)[k - 1] = captured[k]
        BY <1>3, <3>2
      <4> QED BY <4>1 DEF TargetsOf
    <3> QED BY <3>1, <3>2
  <2>2. \A k \in DOMAIN Tail(captured) :
            k + 1 \in DOMAIN captured /\ Tail(captured)[k] = captured[k + 1]
    BY <1>3
  <2> QED BY <1>2, <1>3, <2>1, <2>2 DEF TargetsOf
<1>5. CapturedDefaults(Tail(captured)) /\ oldest.mode = DefaultMode(oldest.target)
  BY <1>2, <1>3 DEF ModeInv, CapturedDefaults
<1>6. ~ExistsRaises(fs, oldest.target)
      /\ fs' = (IF Exists(fs, oldest.target)
                THEN Chmod(fs, oldest.target, DefaultMode(oldest.target)) ELSE fs)
  BY <1>5 DEF RestoreMode, RestoreRaises, RestoreOne
<1>7. DefaultBut(fs, S \cup {oldest.target})
  BY <1>4 DEF ModeInv
<1>8. DefaultBut(fs', S)
  BY <1>1, <1>6, <1>7, RestoreClears
<1>9. chaos'.captured = Tail(captured) /\ Executed' = Executed /\ UNCHANGED plan
  BY DEF RestoreMode, Executed, Next1, TypeInv, TypeOK
<1>10. \A t \in S : Chmodded(t, Executed)'
  BY <1>4, <1>9 DEF ModeInv, Chmodded, Entry, Journal
<1> HIDE DEF captured
<1>11. TargetsOf(chaos.captured)' = S /\ CapturedDefaults(chaos.captured)'
  BY <1>5, <1>9 DEF TargetsOf, CapturedDefaults
<1> QED BY <1>8, <1>10, <1>11 DEF ModeInv, DefaultBut, Present

LEMMA NothingCaptured ==
  ASSUME NothingIsChmodded, TypeInv, ModeInv, OnTrack
  PROVE  chaos.captured = <<>>
<1>1. plan \in Plans /\ chaos.captured \in Seq(CapturedMode)
  BY DEF TypeInv, TypeOK, CapturedMode
<1>2. TargetsOf(chaos.captured) = {}
  BY <1>1 DEF NothingIsChmodded, ModeInv, Chmodded, ChmodActions, Entry, Journal
<1>3. PICK captured \in Seq(CapturedMode) : captured = chaos.captured
  BY <1>1
<1>4. DOMAIN captured = {}
  <2> SUFFICES ASSUME NEW k \in DOMAIN captured PROVE FALSE
    OBVIOUS
  <2>1. captured[k].target \in TargetsOf(chaos.captured)
    BY <1>3 DEF TargetsOf
  <2> QED BY <1>2, <2>1
<1>5. Len(captured) \in Nat /\ DOMAIN captured = 1..Len(captured)
  OBVIOUS
<1>6. Len(captured) = 0
  BY <1>4, <1>5
<1> QED BY <1>3, <1>6

LEMMA ModesInductive ==
  ASSUME ChmodTargetsStay, StatRaises \/ Privileged \/ NothingIsChmodded,
         TypeInv, EndInv, WindowInv, ModeInv, [Next]_vars
  PROVE  ModeInv'
<1>1. CASE ~OnTrack'
  BY <1>1 DEF ModeInv
<1>2. CASE UNCHANGED vars /\ OnTrack'
  <2>1. UNCHANGED <<plan, chaos, fs>> /\ Executed' = Executed /\ OnTrack
    BY <1>2 DEF vars, session, disk, Executed, Next1, OnTrack
  <2> QED BY <2>1, QuietKeepsModes DEF DefaultBut, Present
<1>3. CASE Tick /\ OnTrack'
  <2>1. UNCHANGED <<plan, chaos, fs>> /\ Executed' = Executed /\ OnTrack
    BY <1>3 DEF Tick, session, disk, Executed, Next1, OnTrack
  <2> QED BY <2>1, QuietKeepsModes DEF DefaultBut, Present
<1>4. CASE (RunDue \/ FinishSlowCopy \/ FinishLag) /\ OnTrack'
  <2>1. pc' = "record" /\ pc \in {"batch", "copies", "lags"}
    BY <1>4, HandlerProceeds DEF OnTrack, RunDue, FinishSlowCopy, FinishLag
  <2>2. OnTrack /\ Executed = cursor
    BY <2>1 DEF EndInv, RunningPc, OnTrack, Executed
  <2>3. HasNext
    BY <1>4, PlanTyped DEF RunDue, FinishSlowCopy, FinishLag, HeadFinishesCopy, HeadBelongsToLag,
                           HasNext, TypeInv, TypeOK
  <2>4. /\ fs \in FileSystem /\ fs.pending = {} /\ DefaultBut(fs, TargetsOf(chaos.captured))
        /\ deferred \subseteq Withholders /\ CapturedDefaults(chaos.captured)
        /\ \A t \in TargetsOf(chaos.captured) : Chmodded(t, cursor)
    BY <2>2 DEF TypeInv, TypeOK, WindowInv, ModeInv
  <2>5. \E tree \in FileSystem : /\ Execute(tree, Next1) /\ tree.pending = {}
                                 /\ DefaultBut(tree, TargetsOf(chaos.captured))
    <3>1. CASE RunDue \/ FinishLag
      BY <2>4, <3>1 DEF RunDue, FinishLag
    <3>2. CASE FinishSlowCopy
      <4> DEFINE g == Grown(LogicalNow(now))
      <4>1. LogicalNow(now) \in Nat
        BY LogicalNowTyped DEF TypeInv, TypeOK
      <4>2. /\ g.fs \in FileSystem /\ g.fs.pending = {}
            /\ DefaultBut(g.fs, TargetsOf(chaos.captured))
        BY <2>4, <4>1, GrownTyped, GrowthStagesNothing, GrowthKeepsModes DEF Effect
      <4>3. Execute(g.fs, Next1)
        BY <2>1, <3>2 DEF FinishSlowCopy, Proceed
      <4> HIDE DEF g
      <4> QED BY <4>2, <4>3
    <3> QED BY <1>4, <3>1, <3>2
  <2> QED BY <2>1, <2>3, <2>4, <2>5, HandlerKeepsModes
<1>5. CASE (TurnDeadline \/ TurnDue \/ TurnSleep) /\ OnTrack'
  <2>1. /\ UNCHANGED <<plan, chaos, cursor, outcome>> /\ pc = "loop"
        /\ fs' = Grown(LogicalNow(now)).fs
    BY <1>5 DEF TurnDeadline, TurnDue, TurnSleep, Turn, Proceed, session
  <2>2. LogicalNow(now) \in Nat
    BY LogicalNowTyped DEF TypeInv, TypeOK
  <2>3. OnTrack
    BY <2>1 DEF OnTrack, EndInv, RunningPc
  <2>4. Executed' = Executed
    BY <1>5, <2>1 DEF Executed, TurnDeadline, TurnDue, TurnSleep, Turn, Proceed
  <2> QED BY <2>1, <2>2, <2>3, <2>4, GrowthKeepsModes, QuietKeepsModes
<1>6. CASE Record
  <2>1. /\ UNCHANGED <<plan, fs, chaos>> /\ pc = "record" /\ pc' = ret /\ cursor' = cursor + 1
        /\ ret \in {"batch", "copies", "lags"}
    BY <1>6 DEF Record, session, TypeInv, TypeOK
  <2>2. Executed' = Executed /\ OnTrack
    BY <2>1 DEF Executed, Next1, OnTrack, EndInv, RunningPc
  <2> QED BY <2>1, <2>2, QuietKeepsModes DEF DefaultBut, Present
<1>7. CASE (LoopEnds \/ Wake \/ BatchEnds \/ Publish \/ SlowCopiesFinished \/ LagsFinished \/ IdleOut)
           /\ OnTrack'
  <2>1. /\ UNCHANGED <<plan, fs, chaos, cursor, outcome>>
        /\ pc \in {"loop", "sleep", "batch", "baseline", "copies", "lags", "idle"}
        /\ pc' \in {"copies", "loop", "lags", "idle", "restore"}
    BY <1>7 DEF LoopEnds, Wake, BatchEnds, Publish, SlowCopiesFinished, LagsFinished, IdleOut, session,
                disk
  <2>2. Executed' = Executed /\ OnTrack
    BY <1>7, <2>1 DEF Executed, OnTrack
  <2> QED BY <2>1, <2>2, QuietKeepsModes DEF DefaultBut, Present
<1>8. CASE (Succeeds \/ WriteMetadata \/ Seal) /\ OnTrack'
  <2>1. /\ UNCHANGED <<plan, fs, chaos, cursor>> /\ pc \in {"restore", "metadata"}
        /\ pc' \in {"metadata", "done"} /\ (pc = "metadata" => outcome' = outcome)
    BY <1>8 DEF Succeeds, WriteMetadata, Seal, session, disk
  <2>2. Executed' = Executed /\ OnTrack
    BY <1>8, <2>1 DEF Executed, OnTrack, EndInv, RunningPc
  <2> QED BY <2>1, <2>2, QuietKeepsModes DEF DefaultBut, Present
<1>9. CASE RestoreMode /\ OnTrack'
  <2>1. OnTrack
    BY <1>9 DEF RestoreMode, OnTrack
  <2>2. CASE NothingIsChmodded
    <3>1. chaos.captured = <<>>
      BY <2>1, <2>2, NothingCaptured
    <3> QED BY <1>9, <3>1 DEF RestoreMode, HasCaptured
  <2> QED BY <1>9, <2>1, <2>2, RestoreKeepsModes
<1>10. CASE (RestoreBreaks \/ WipeLibrary \/ WriteFault) /\ OnTrack'
  BY <1>10 DEF RestoreBreaks, WipeLibrary, WriteFault, Propagates, Finalizing, OnTrack
<1> QED BY <1>1, <1>2, <1>3, <1>4, <1>5, <1>6, <1>7, <1>8, <1>9, <1>10 DEF Next, Step, Stopped

THEOREM ModesInvariant ==
  ASSUME ChmodTargetsStay, StatRaises \/ Privileged \/ NothingIsChmodded
  PROVE  Spec => []ModeInv
<1>1. Init => ModeInv
  <2>1. Init => fs = InitialTree /\ chaos.captured = <<>>
    BY DEF Init, NoChaos
  <2>2. TargetsOf(<<>>) = {} /\ CapturedDefaults(<<>>)
    BY DEF TargetsOf, CapturedDefaults
  <2> QED BY <2>1, <2>2, InitialModes DEF ModeInv
<1>2. TypeInv /\ EndInv /\ WindowInv /\ ModeInv /\ [Next]_vars => ModeInv'
  BY ModesInductive
<1> QED BY <1>1, <1>2, EndInvariant, WindowInvariant, PTL DEF Spec

\* restore_chaos_modes leaves no mode behind that the run did not create, on a
\* host where it notices that it cannot reach a path.
THEOREM ModesAreRestored ==
  ASSUME ChmodTargetsStay, StatRaises \/ Privileged
  PROVE  Spec => []ModesRestored
<1>1. EndInv /\ ModeInv => ModesRestored
  <2> SUFFICES ASSUME EndInv, ModeInv, Succeeded PROVE ModesRestored
    BY DEF ModesRestored
  <2>1. pc = "done" /\ OnTrack /\ chaos.captured = <<>>
    BY DEF EndInv, Succeeded, OnTrack
  <2>2. TargetsOf(<<>>) = {}
    BY DEF TargetsOf
  <2> QED BY <2>1, <2>2 DEF ModeInv, DefaultBut, ModesRestored
<1> QED BY <1>1, EndInvariant, ModesInvariant, PTL

(***************************************************************************)
(* The replay of a prefix, entry by entry.                                 *)
(***************************************************************************)
StartOfReplay == [ok |-> TRUE, fs |-> InitialTree, chaos |-> NoChaos]

IsReplay(after, journal, n) ==
    after = [i \in 0..n |-> IF i = 0 THEN StartOfReplay
                            ELSE ReplayEntry(after[i - 1], journal, i)]

\* A least length without such a function could be extended from the one before.
LEMMA ReplayIsDefined ==
  ASSUME NEW journal, NEW n \in Nat
  PROVE  \E after : IsReplay(after, journal, n)
<1> DEFINE Bad == {m \in Nat : ~\E after : IsReplay(after, journal, m)}
<1> SUFFICES ASSUME Bad # {} PROVE FALSE
  OBVIOUS
<1>1. PICK m \in Bad : \A k \in Bad : m <= k
  BY LeastElement
<1>2. CASE m = 0
  <2> DEFINE after == [i \in 0..0 |-> StartOfReplay]
  <2>1. IsReplay(after, journal, 0)
    BY DEF IsReplay
  <2> HIDE DEF after
  <2> QED BY <1>1, <1>2, <2>1
<1>3. CASE m # 0
  <2>1. m - 1 \in Nat /\ m - 1 \notin Bad
    BY <1>1, <1>3
  <2>2. PICK before : IsReplay(before, journal, m - 1)
    BY <2>1
  <2> DEFINE after == [i \in 0..m |-> IF i = m THEN ReplayEntry(before[m - 1], journal, m)
                                      ELSE before[i]]
  <2>3. /\ before[0] = StartOfReplay
        /\ \A i \in 1..(m - 1) : before[i] = ReplayEntry(before[i - 1], journal, i)
    BY <1>1, <1>3, <2>2 DEF IsReplay
  <2>4. IsReplay(after, journal, m)
    <3>1. \A i \in 0..m : after[i] = IF i = 0 THEN StartOfReplay
                                     ELSE ReplayEntry(after[i - 1], journal, i)
      BY <1>1, <1>3, <2>3
    <3>2. after = [i \in 0..m |-> after[i]]
      OBVIOUS
    <3> HIDE DEF after
    <3> QED BY <3>1, <3>2 DEF IsReplay
  <2> QED BY <1>1, <2>4
<1> QED BY <1>2, <1>3

LEMMA ReplayIsReplay ==
  ASSUME NEW journal, NEW n \in Nat
  PROVE  \E after : IsReplay(after, journal, n) /\ ReplayPrefix(journal, n) = after[n]
<1> DEFINE after == CHOOSE g : IsReplay(g, journal, n)
<1>1. IsReplay(after, journal, n)
  BY ReplayIsDefined
<1>2. ReplayPrefix(journal, n) = after[n]
  BY DEF ReplayPrefix, IsReplay, StartOfReplay
<1> QED BY <1>1, <1>2

\* Two replays agree as far as both go.
LEMMA ReplaysAgree ==
  ASSUME NEW journal, NEW m \in Nat, NEW n \in Nat, NEW f, NEW g,
         IsReplay(f, journal, m), IsReplay(g, journal, n), NEW k \in Nat, k <= m, k <= n
  PROVE  f[k] = g[k]
<1> DEFINE Bad == {j \in 0..k : f[j] # g[j]}
<1> SUFFICES ASSUME Bad # {} PROVE FALSE
  OBVIOUS
<1>1. Bad \in SUBSET Nat
  OBVIOUS
<1>2. PICK j \in Bad : \A l \in Bad : j <= l
  BY <1>1, LeastElement
<1>3. j \in 0..m /\ j \in 0..n
  BY <1>2
<1>4. j # 0
  BY <1>2, <1>3 DEF IsReplay
<1>5. j - 1 \in 0..k /\ f[j - 1] = g[j - 1]
  BY <1>2, <1>4
<1>6. f[j] = ReplayEntry(f[j - 1], journal, j) /\ g[j] = ReplayEntry(g[j - 1], journal, j)
  BY <1>3, <1>4 DEF IsReplay
<1> QED BY <1>2, <1>5, <1>6

LEMMA ReplayStarts ==
  ASSUME NEW journal
  PROVE  ReplayPrefix(journal, 0) = StartOfReplay
  BY ReplayIsReplay DEF IsReplay

LEMMA ReplayContinues ==
  ASSUME NEW journal, NEW n \in Nat
  PROVE  ReplayPrefix(journal, n + 1) = ReplayEntry(ReplayPrefix(journal, n), journal, n + 1)
<1>1. PICK f : IsReplay(f, journal, n) /\ ReplayPrefix(journal, n) = f[n]
  BY ReplayIsReplay
<1>2. PICK g : IsReplay(g, journal, n + 1) /\ ReplayPrefix(journal, n + 1) = g[n + 1]
  BY ReplayIsReplay
<1>3. f[n] = g[n]
  BY <1>1, <1>2, ReplaysAgree
<1>4. g[n + 1] = ReplayEntry(g[n], journal, n + 1)
  BY <1>2 DEF IsReplay
<1> QED BY <1>1, <1>2, <1>3, <1>4

\* What a replay carries from one entry to the next
IsOutcome(s) == s = [ok |-> s.ok, fs |-> s.fs, chaos |-> s.chaos]

LEMMA EntryGivesOutcome ==
  ASSUME NEW s, IsOutcome(s), NEW journal, NEW i
  PROVE  IsOutcome(ReplayEntry(s, journal, i))
<1> DEFINE e == journal[i]
           d == Dispatch(s.fs, i, e)
           r == Realize(s.fs, s.chaos, i, e)
<1>1. IsOutcome(r)
  <2>1. CASE e.act \in {"acquire_lock", "release_lock"}
    BY <2>1 DEF Realize, IsOutcome
  <2>2. CASE e.act \notin {"acquire_lock", "release_lock"}
    BY <2>2 DEF Realize, IsOutcome
  <2> QED BY <2>1, <2>2
<1>2. IsOutcome([ok |-> d.ok, fs |-> d.fs, chaos |-> s.chaos])
  BY DEF IsOutcome
<1>3. ReplayEntry(s, journal, i) \in {s, r, [ok |-> d.ok, fs |-> d.fs, chaos |-> s.chaos]}
  BY DEF ReplayEntry
<1> HIDE DEF d, r
<1> QED BY <1>1, <1>2, <1>3

LEMMA ReplayGivesOutcome ==
  ASSUME NEW journal, NEW n \in Nat
  PROVE  IsOutcome(ReplayPrefix(journal, n))
<1> DEFINE Bad == {m \in Nat : ~IsOutcome(ReplayPrefix(journal, m))}
<1> SUFFICES ASSUME Bad # {} PROVE FALSE
  OBVIOUS
<1>1. PICK m \in Bad : \A k \in Bad : m <= k
  BY LeastElement
<1>2. m # 0
  BY <1>1, ReplayStarts DEF StartOfReplay, IsOutcome
<1>3. m - 1 \in Nat /\ m - 1 \notin Bad
  BY <1>1, <1>2
<1>4. IsOutcome(ReplayEntry(ReplayPrefix(journal, m - 1), journal, m))
  BY <1>3, EntryGivesOutcome
<1>5. ReplayPrefix(journal, (m - 1) + 1) =
          ReplayEntry(ReplayPrefix(journal, m - 1), journal, (m - 1) + 1)
  BY <1>3, ReplayContinues
<1>6. (m - 1) + 1 = m
  BY <1>1
<1> QED BY <1>1, <1>4, <1>5, <1>6

\* The turns of the replay's own restoration.
RestoreTurn(s, captured) ==
    IF ~s.ok \/ RestoreRaises(s.fs, captured)
    THEN [s EXCEPT !.ok = FALSE]
    ELSE [s EXCEPT !.fs = RestoreOne(@, captured)]

IsRestoration(left, s, n) ==
    left = [k \in 0..n |-> IF k = 0 THEN s
                           ELSE RestoreTurn(left[k - 1], SubSeq(s.chaos.captured, k,
                                                                Len(s.chaos.captured)))]

LEMMA RestorationsAgree ==
  ASSUME NEW s, NEW n \in Nat, NEW f, NEW g, IsRestoration(f, s, n), IsRestoration(g, s, n)
  PROVE  f[n] = g[n]
<1> DEFINE Bad == {j \in 0..n : f[j] # g[j]}
<1> SUFFICES ASSUME Bad # {} PROVE FALSE
  OBVIOUS
<1>1. Bad \in SUBSET Nat
  OBVIOUS
<1>2. PICK j \in Bad : \A l \in Bad : j <= l
  BY <1>1, LeastElement
<1>3. j # 0
  BY <1>2 DEF IsRestoration
<1>4. j - 1 \in 0..n /\ f[j - 1] = g[j - 1]
  BY <1>2, <1>3
<1> DEFINE rest == SubSeq(s.chaos.captured, j, Len(s.chaos.captured))
<1>5. f[j] = RestoreTurn(f[j - 1], rest) /\ g[j] = RestoreTurn(g[j - 1], rest)
  BY <1>2, <1>3 DEF IsRestoration
<1> QED BY <1>2, <1>4, <1>5

LEMMA RestorationIsResult ==
  ASSUME NEW s, NEW left, s.chaos.captured \in Seq(CapturedMode),
         IsRestoration(left, s, Len(s.chaos.captured))
  PROVE  RestoredReplay(s) = left[Len(s.chaos.captured)]
<1> DEFINE n      == Len(s.chaos.captured)
           chosen == CHOOSE g : IsRestoration(g, s, n)
<1>1. IsRestoration(chosen, s, n)
  OBVIOUS
<1>2. RestoredReplay(s) = chosen[n]
  BY DEF RestoredReplay, IsRestoration, RestoreTurn
<1>3. n \in Nat
  OBVIOUS
<1> HIDE DEF chosen, n
<1>4. chosen[n] = left[n]
  BY <1>1, <1>3, RestorationsAgree DEF n
<1> QED BY <1>2, <1>4 DEF n

(***************************************************************************)
(* A run that withholds nothing and its replay, side by side.              *)
(***************************************************************************)
LEMMA WrittenTwice ==
  ASSUME NEW tree \in FileSystem, NEW p \in Paths, NEW f \in File, NEW g \in File
  PROVE  Written(Written(tree, p, f), p, g) = Written(tree, p, g)
<1> DEFINE mode == IF Present(tree, p) THEN tree.files[p].mode ELSE FileMode
           new  == [f EXCEPT !.mode = mode]
           once == [tree EXCEPT !.files[p] = new]
<1>1. new \in File /\ new.mode = mode
  BY DEF File, FileSystem, Present, FileMode, Mode
<1>2. Written(tree, p, f) = once
  BY DEF Written
<1>3. once.files[p] = new /\ Present(once, p)
  BY <1>1, NoFileAssumption DEF FileSystem, Present
<1>4. Written(once, p, g) = [once EXCEPT !.files[p] = [g EXCEPT !.mode = mode]]
  BY <1>1, <1>3 DEF Written
<1>5. [once EXCEPT !.files[p] = [g EXCEPT !.mode = mode]] =
          [tree EXCEPT !.files[p] = [g EXCEPT !.mode = mode]]
  BY DEF FileSystem
<1> QED BY <1>2, <1>4, <1>5 DEF Written

\* The growth of the only open slow copy writes its temporary file.
LEMMA GrowthWrites ==
  ASSUME fs \in FileSystem, NEW c \in [start : DOMAIN Journal, source : File], copies = {c},
         NEW temp \in Paths, temp = Entry(c.start).temp, CanGrow(fs, temp), NEW logical,
         VisibleSize(c, logical) \in 0..FileBytes
  PROVE  \E f \in File : Grown(logical).fs = Written(fs, temp, f)
<1> DEFINE part == [c.source EXCEPT !.bytes = VisibleSize(c, logical)]
           owner(p) == {x \in copies : Entry(x.start).temp = p}
           grown(p) == IF owner(p) = {} THEN fs.files[p]
                       ELSE Written(fs, p, [(CHOOSE x \in owner(p) : TRUE).source EXCEPT
                              !.bytes = VisibleSize(CHOOSE x \in owner(p) : TRUE, logical)]).files[p]
<1>1. part \in File
  BY DEF File
<1>2. Grown(logical).fs = [fs EXCEPT !.files = [p \in Paths |-> grown(p)]]
  <2>1. \A x \in copies : CanWrite(fs, Entry(x.start).temp)
    BY DEF CanGrow
  <2> QED BY <2>1 DEF Grown, Returns
<1>3. grown(temp) = Written(fs, temp, part).files[temp]
  <2>1. owner(temp) = {c}
    OBVIOUS
  <2>2. (CHOOSE x \in owner(temp) : TRUE) = c
    BY <2>1
  <2> QED BY <2>1, <2>2
<1>4. \A p \in Paths \ {temp} : grown(p) = fs.files[p]
  OBVIOUS
<1> HIDE DEF part, grown
<1>5. Written(fs, temp, part) = [fs EXCEPT !.files = [p \in Paths |-> grown(p)]]
  <2> DEFINE new == [part EXCEPT !.mode = IF Present(fs, temp) THEN fs.files[temp].mode ELSE FileMode]
  <2>1. Written(fs, temp, part) = [fs EXCEPT !.files[temp] = new]
    BY DEF Written
  <2> HIDE DEF new
  <2>2. Written(fs, temp, part).files[temp] = new
    BY <2>1 DEF FileSystem
  <2>3. [p \in Paths |-> grown(p)] = [fs.files EXCEPT ![temp] = new]
    BY <1>3, <1>4, <2>2 DEF FileSystem
  <2> QED BY <2>1, <2>3 DEF FileSystem
<1> QED BY <1>1, <1>2, <1>5

\* The replay has staged the open slow copy c whole; otherwise its tree is the run's.
StagedWhole(tree, c) ==
    LET e == Entry(c.start)
    IN  /\ tree.pending = {[start |-> c.start, from |-> e.from, temp |-> e.temp]}
        /\ [tree EXCEPT !.pending = {}] = Written(fs, e.temp, c.source)

InStep(s) == /\ s.ok /\ s.chaos = chaos
             /\ copies = {} => s.fs = fs
             /\ \A c \in copies : StagedWhole(s.fs, c)

\* The run has put back as many modes as left[k] has.
RestoringInStep(s) ==
    LET all == s.chaos.captured
    IN  \E left : \E k \in 0..Len(all) :
            /\ IsRestoration(left, s, k)
            /\ IsOutcome(left[k]) /\ left[k].ok /\ left[k].fs = fs
            /\ chaos.captured = SubSeq(all, k + 1, Len(all))

ReplayInv ==
    OnTrack => LET s == ReplayPrefix(Journal, Executed)
               IN  IF pc \in {"restore", "metadata", "done"}
                   THEN s.chaos.captured \in Seq(CapturedMode) /\ RestoringInStep(s)
                   ELSE InStep(s)

LEMMA NothingOver ==
  ASSUME NothingIsWithheld, plan \in Plans, NEW i
  PROVE  LagOver(i) = {}
  BY DEF NothingIsWithheld, Withholds, LagOver, Is, Entry, Journal

LEMMA NothingWrapped ==
  ASSUME NothingIsWithheld
  PROVE  CopiesNotWrapped
  BY DEF NothingIsWithheld, CopiesNotWrapped

LEMMA NothingDeferred ==
  ASSUME NothingIsWithheld, plan \in Plans, deferred \subseteq Withholders
  PROVE  deferred = {}
  BY DEF NothingIsWithheld, Withholds, Withholders, Is, Entry, Journal

\* While no slow copy is open a handler meets the tree that the replay has.
LEMMA HandlerInStep ==
  ASSUME NothingIsWithheld, TypeInv, deferred = {}, fs.pending = {}, HasNext, copies = {},
         Execute(fs, Next1), pc' = "record", NEW s, InStep(s)
  PROVE  InStep(ReplayEntry(s, Journal, Next1))'
<1> USE PlanTyped DEF TypeInv, TypeOK
<1>i. PICK i : i = Next1
  OBVIOUS
<1>e. PICK e : e = Entry(i)
  OBVIOUS
<1>0. /\ i \in DOMAIN Journal /\ i \in Nat /\ e \in JournalEntries /\ LagOver(i) = {}
      /\ UNCHANGED <<plan, cursor>> /\ Journal[i] = e
  BY <1>i, <1>e, NothingOver DEF HasNext, Next1, Execute, Entry
<1>j. PICK next : next = ReplayEntry(s, Journal, i)
  OBVIOUS
<1>k. ReplayEntry(s, Journal, Next1)' = next
  BY <1>i, <1>j, <1>0 DEF Next1, Journal
<1>1. \A r : Proceed(r, "record") => r.ok /\ fs' = r.fs
  BY DEF Proceed
<1>2. \A t : Returns(t).fs = t /\ Raises(t).fs = t /\ Returns(t).ok /\ ~Raises(t).ok
  BY DEF Returns, Raises
<1>3. s.ok /\ s.chaos = chaos /\ s.fs = fs
  BY DEF InStep
<1>4. SUFFICES InStep(next)'
  BY <1>k
<1>5. ASSUME copies' = {}, next.ok, next.fs = fs', next.chaos = chaos'
      PROVE  InStep(next)'
  BY <1>5 DEF InStep
<1>6. CASE StartSlowCopy(fs, i)
  <2> DEFINE source == fs.files[e.from]
             empty  == [source EXCEPT !.bytes = 0]
             c      == [start |-> i, source |-> source]
             staged == [start |-> i, from |-> e.from, temp |-> e.temp]
             whole  == Written(fs, e.temp, source)
  <2>1. e.act = "slow_copy_start" /\ e.from \in Paths /\ e.temp \in Paths
    BY <1>0, <1>e, <1>6 DEF StartSlowCopy, JournalEntries, CarriesPaths, LocationActions
  <2>2. /\ CanRead(fs, e.from) /\ CanWrite(fs, e.temp) /\ fs' = Written(fs, e.temp, empty)
        /\ copies' = {c} /\ chaos' = chaos
    BY <1>1, <1>2, <1>e, <1>6 DEF StartSlowCopy
  <2>3. source \in File
    BY <2>1, <2>2 DEF CanRead, Present, FileSystem
  <2>4. empty \in File
    <3> HIDE DEF source
    <3> QED BY <2>3, LibraryAssumption DEF File
  <2>5. next = [ok |-> TRUE, fs |-> [whole EXCEPT !.pending = @ \cup {staged}], chaos |-> chaos]
    BY <1>0, <1>3, <1>j, <2>1, <2>2
       DEF ReplayEntry, ChaosOpenActions, ChaosCloseActions, Dispatch, MediaActions, StageCopy, Returns
  <2>6. whole \in FileSystem /\ whole.pending = {}
    <3>1. whole.pending = fs.pending
      BY DEF Written
    <3> QED BY <2>1, <2>3, <3>1, WrittenTyped
  <2>7. /\ next.ok /\ next.chaos = chaos' /\ next.fs.pending = {staged}
        /\ [next.fs EXCEPT !.pending = {}] = whole
    <3> HIDE DEF whole, staged
    <3>1. [[whole EXCEPT !.pending = {staged}] EXCEPT !.pending = {}] = whole
      BY <2>6 DEF FileSystem
    <3> QED BY <2>2, <2>5, <2>6, <3>1 DEF FileSystem
  <2>8. Written(fs', e.temp, source) = whole
    BY <2>1, <2>2, <2>3, <2>4, WrittenTwice
  <2> PICK new : new = c
    OBVIOUS
  <2>9. copies' = {new} /\ new.start = i /\ new.source = source /\ Entry(i)' = e
    BY <1>0, <1>e, <2>2 DEF Entry, Journal
  <2>10. StagedWhole(next.fs, new)'
    BY <2>7, <2>8, <2>9 DEF StagedWhole
  <2> QED BY <2>7, <2>9, <2>10 DEF InStep
<1>7. CASE CommitSlowCopy(fs, i)
  <2>1. {x \in copies : x.start = e.ref} = {}
    OBVIOUS
  <2>2. Proceed(Raises(fs), "record")
    BY <1>7, <1>e, <2>1 DEF CommitSlowCopy
  <2> QED BY <1>1, <1>2, <2>2
<1>8. CASE StartLag(fs, i) \/ CommitLag(fs, i)
  <2>1. e.act \in {"network_lag_start", "network_lag_commit"}
    BY <1>8, <1>e DEF StartLag, CommitLag
  <2>2. next = s
    BY <1>0, <1>j, <2>1 DEF ReplayEntry, ChaosOpenActions, ChaosCloseActions
  <2>3. fs' = fs /\ copies' = copies /\ chaos' = chaos
    BY <1>1, <1>2, <1>8 DEF StartLag, CommitLag
  <2> QED BY <1>3, <1>5, <2>2, <2>3
<1>9. CASE RealizeChaos(fs, i)
  <2> DEFINE r == Realize(fs, chaos, i, e)
  <2>1. e.act \in ChaosOpenActions \cup ChaosCloseActions
    BY <1>9, <1>e DEF RealizeChaos
  <2>2. r.ok /\ fs' = r.fs /\ chaos' = r.chaos /\ copies' = copies
    BY <1>1, <1>9, <1>e DEF RealizeChaos
  <2>3. next = r
    <3>1. e.act \notin {"network_lag_start", "network_lag_commit"}
      BY <2>1 DEF ChaosOpenActions, ChaosCloseActions
    <3> QED BY <1>0, <1>3, <1>j, <2>1, <3>1 DEF ReplayEntry
  <2> HIDE DEF r
  <2> QED BY <1>5, <2>2, <2>3
<1>10. CASE DispatchPhaseB(fs, i)
  <2> DEFINE d == Dispatch(fs, i, e)
  <2>1. PICK ran : Proceed(Dispatched(fs, i, ran), "record")
    BY <1>10 DEF DispatchPhaseB
  <2>2. d.ok /\ fs' = d.fs
    BY <1>1, <1>2, <1>e, <2>1 DEF Dispatched
  <2>3. copies' = copies /\ chaos' = chaos /\ e.act \in PhaseBActions
    BY <1>10, <1>e DEF DispatchPhaseB, session
  <2>4. next = [ok |-> d.ok, fs |-> d.fs, chaos |-> s.chaos]
    <3>1. e.act \notin {"network_lag_start", "network_lag_commit"} \cup ChaosOpenActions
                            \cup ChaosCloseActions
      BY <2>3 DEF PhaseBActions, MediaActions, ChaosOpenActions, ChaosCloseActions
    <3> QED BY <1>0, <1>3, <1>j, <3>1 DEF ReplayEntry
  <2> HIDE DEF d
  <2> QED BY <1>3, <1>5, <2>2, <2>3, <2>4
<1> QED BY <1>0, <1>i, <1>6, <1>7, <1>8, <1>9, <1>10 DEF Execute, Withhold

\* The commit promotes what both have: the run writes the whole source first, the
\* replay staged it whole at the start.
LEMMA CommitInStep ==
  ASSUME NothingIsWithheld, TypeInv, NEW c, copies = {c}, c.start = cursor, NEW tree,
         Written(tree, Entry(cursor).temp, c.source) = Written(fs, Entry(cursor).temp, c.source),
         Execute(tree, Next1), pc' = "record", NEW s, InStep(s)
  PROVE  InStep(ReplayEntry(s, Journal, Next1))'
<1> USE PlanTyped DEF TypeInv, TypeOK
<1> DEFINE b    == Entry(cursor)
           full == Written(fs, b.temp, c.source)
           d    == Promote(full, b.from, b.temp, b.to)
<1>1. /\ cursor \in DOMAIN Journal /\ b.act = "slow_copy_start"
      /\ Next1 \in DOMAIN Journal /\ Entry(Next1).act = "slow_copy_commit"
      /\ Entry(Next1).ref = cursor /\ Entry(Next1).to = b.to
  <2>1. cursor \in DOMAIN Journal /\ b.act = "slow_copy_start"
    OBVIOUS
  <2>2. Entry(cursor + 1).to = b.to
    BY <2>1 DEF WellPaired, Entry
  <2> QED BY <2>1, <2>2, StartHasCommit DEF Next1
<1>2. CommitSlowCopy(tree, Next1)
  BY <1>1, NothingWrapped, CopyNotWithheld
     DEF Execute, Withhold, StartSlowCopy, StartLag, CommitLag, RealizeChaos, DispatchPhaseB,
         ChaosOpenActions, ChaosCloseActions, PhaseBActions, MediaActions
<1>3. {x \in copies : x.start = Entry(Next1).ref} = {c} /\ (CHOOSE x \in {c} : TRUE) = c
  BY <1>1
<1>4. d.ok /\ fs' = d.fs /\ copies' = {} /\ chaos' = chaos
  <2>1. /\ copies' = {} /\ chaos' = chaos
        /\ Proceed(IF CanWrite(tree, b.temp) THEN d ELSE Raises(tree), "record")
    BY <1>1, <1>2, <1>3 DEF CommitSlowCopy
  <2> HIDE DEF d
  <2> QED BY <2>1 DEF Proceed, Raises
<1>5. ReplayEntry(s, Journal, Next1) = [ok |-> d.ok, fs |-> d.fs, chaos |-> s.chaos]
  <2> DEFINE staged == {p \in s.fs.pending : p.start = cursor}
             copy   == CHOOSE p \in staged : TRUE
             e      == Entry(Next1)
  <2>1. /\ s.fs.pending = {[start |-> c.start, from |-> b.from, temp |-> b.temp]}
        /\ [s.fs EXCEPT !.pending = {}] = full /\ s.ok
    BY DEF InStep, StagedWhole
  <2>2. staged = {[start |-> c.start, from |-> b.from, temp |-> b.temp]}
    BY <2>1
  <2> DEFINE item == [start |-> c.start, from |-> b.from, temp |-> b.temp]
  <2>3. copy.from = b.from /\ copy.temp = b.temp /\ s.fs.pending \ staged = {} /\ staged # {}
    <3>1. staged # {} /\ s.fs.pending \ staged = {}
      BY <2>1, <2>2
    <3>2. copy \in staged
      BY <3>1
    <3>3. copy = item
      BY <2>2, <3>2
    <3>4. item.from = b.from /\ item.temp = b.temp
      OBVIOUS
    <3> HIDE DEF copy, item
    <3> QED BY <3>1, <3>3, <3>4
  <2>4. [s.fs EXCEPT !.pending = @ \ staged] = full
    BY <2>1, <2>3
  <2>5. CommitStagedCopy(s.fs, e) = d
    <3> HIDE DEF full
    <3>1. CommitStagedCopy(s.fs, e) =
              Promote([s.fs EXCEPT !.pending = @ \ staged], copy.from, copy.temp, e.to)
      BY <1>1, <2>3 DEF CommitStagedCopy
    <3> HIDE DEF staged, copy
    <3> QED BY <1>1, <2>3, <2>4, <3>1
  <2> HIDE DEF d
  <2>6. Dispatch(s.fs, Next1, e) = d
    BY <1>1, <2>5 DEF Dispatch, MediaActions
  <2>7. Journal[Next1] = e
    BY DEF Entry
  <2> QED BY <1>1, <2>1, <2>6, <2>7 DEF ReplayEntry, ChaosOpenActions, ChaosCloseActions
<1>j. PICK next : next = ReplayEntry(s, Journal, Next1)
  OBVIOUS
<1>k. ReplayEntry(s, Journal, Next1)' = next
  BY <1>j DEF Execute, Next1, Journal
<1> HIDE DEF d
<1>6. next.ok /\ next.fs = fs' /\ next.chaos = chaos' /\ copies' = {}
  BY <1>4, <1>5, <1>j DEF InStep
<1>7. InStep(next)'
  BY <1>6 DEF InStep
<1> QED BY <1>k, <1>7

LEMMA HandlerKeepsReplay ==
  ASSUME NothingIsWithheld, TypeInv, WindowInv, EndInv, CopyInv, ReplayInv,
         RunDue \/ FinishSlowCopy \/ FinishLag, pc' = "record"
  PROVE  ReplayInv'
<1> DEFINE s == ReplayPrefix(Journal, cursor)
<1>1. /\ pc \in {"batch", "copies", "lags"} /\ OnTrack /\ HasNext /\ Executed = cursor
      /\ cursor \in Nat /\ UNCHANGED <<plan, cursor>>
  BY HandlerRuns, NothingWrapped DEF Executed, TypeInv, TypeOK
<1>2. InStep(s)
  BY <1>1 DEF ReplayInv
<1>3. deferred = {} /\ fs \in FileSystem /\ fs.pending = {}
  BY NothingDeferred DEF WindowInv, TypeInv, TypeOK
<1> DEFINE g == Grown(LogicalNow(now))
<1>4. \E tree \in {fs, g.fs} : Execute(tree, Next1)
  BY DEF RunDue, FinishSlowCopy, FinishLag, Proceed
<1>5. InStep(ReplayEntry(s, Journal, Next1))'
  <2>1. CASE copies = {}
    <3>1. g.fs = fs
      BY <1>3, <2>1, NothingGrows DEF Returns
    <3>2. Execute(fs, Next1)
      BY <1>4, <3>1
    <3> PICK rigid : rigid = s
      OBVIOUS
    <3>3. InStep(ReplayEntry(rigid, Journal, Next1))'
      BY <1>1, <1>2, <1>3, <2>1, <3>2, HandlerInStep
    <3>4. s' = s
      BY <1>1 DEF Journal
    <3> QED BY <3>3, <3>4
  <2>2. ASSUME NEW c \in copies PROVE InStep(ReplayEntry(s, Journal, Next1))'
    <3> DEFINE temp == Entry(cursor).temp
    <3>1. /\ copies = {c} /\ c.start = cursor /\ c \in [start : DOMAIN Journal, source : File]
          /\ c.source \in File /\ Entry(cursor).act = "slow_copy_start" /\ temp \in Paths
      BY <1>1, OpenCopyIsNext DEF OnTrack
    <3>2. CanGrow(fs, temp)
      BY <1>1, <3>1 DEF CopyInv, StandsOpen
    <3>3. VisibleSize(c, LogicalNow(now)) \in 0..FileBytes
      <4>1. LogicalNow(now) \in Nat
        BY LogicalNowTyped DEF TypeInv, TypeOK
      <4> QED BY <3>1, <4>1, VisibleSizeTyped DEF TypeInv
    <3> HIDE DEF temp
    <3>4. PICK f \in File : g.fs = Written(fs, temp, f)
      BY <1>3, <3>1, <3>2, <3>3, GrowthWrites DEF temp
    <3>5. Written(g.fs, temp, c.source) = Written(fs, temp, c.source)
      BY <1>3, <3>1, <3>4, WrittenTwice
    <3> HIDE DEF g
    <3>6. PICK tree : /\ Execute(tree, Next1)
                      /\ Written(tree, temp, c.source) = Written(fs, temp, c.source)
      BY <1>4, <3>5
    <3> PICK rigid : rigid = s
      OBVIOUS
    <3>7. InStep(ReplayEntry(rigid, Journal, Next1))'
      BY <1>2, <3>1, <3>6, CommitInStep DEF temp
    <3>8. s' = s
      BY <1>1 DEF Journal
    <3> QED BY <3>7, <3>8
  <2> QED BY <2>1, <2>2
<1>6. ReplayPrefix(Journal, Executed)' = ReplayEntry(s, Journal, Next1)'
  <2>1. Executed' = (cursor + 1)'
    BY DEF Executed, Next1
  <2>2. /\ ReplayPrefix(Journal, Executed)' = ReplayPrefix(Journal, cursor + 1)
        /\ ReplayEntry(s, Journal, Next1)' = ReplayEntry(s, Journal, cursor + 1)
    BY <1>1, <2>1 DEF Journal, Next1
  <2> QED BY <1>1, <2>2, ReplayContinues
<1> HIDE DEF s
<1> QED BY <1>5, <1>6 DEF ReplayInv

Restored == {"restore", "metadata", "done"}

\* A step that runs no handler and changes neither the tree nor the chaos state.
LEMMA QuietKeepsReplay ==
  ASSUME ReplayInv, OnTrack, UNCHANGED <<plan, chaos, fs, copies>>, Executed' = Executed,
         pc' \in Restored <=> pc \in Restored
  PROVE  ReplayInv'
<1>1. PICK s : s = ReplayPrefix(Journal, Executed)
  OBVIOUS
<1>2. ReplayPrefix(Journal, Executed)' = s
  BY <1>1 DEF Journal
<1>3. CASE pc \in Restored
  <2>1. s.chaos.captured \in Seq(CapturedMode) /\ RestoringInStep(s)
    BY <1>1, <1>3 DEF ReplayInv, Restored
  <2>2. RestoringInStep(s)'
    BY <2>1 DEF RestoringInStep
  <2> QED BY <1>2, <1>3, <2>1, <2>2 DEF ReplayInv, Restored
<1>4. CASE pc \notin Restored
  <2>1. InStep(s)
    BY <1>1, <1>4 DEF ReplayInv, Restored
  <2>2. InStep(s)'
    BY <2>1 DEF InStep, StagedWhole, Entry, Journal
  <2> QED BY <1>2, <1>4, <2>2 DEF ReplayInv, Restored
<1> QED BY <1>3, <1>4

\* The turns of the main loop grow a temporary file that the replay has whole.
LEMMA TurnKeepsReplay ==
  ASSUME NothingIsWithheld, TypeInv, CopyInv, ReplayInv, OnTrack, pc = "loop",
         pc' \in {"batch", "sleep", "copies"}, fs' = Grown(LogicalNow(now)).fs,
         UNCHANGED <<plan, chaos, copies, cursor>>
  PROVE  ReplayInv'
<1>1. Executed = cursor /\ Executed' = Executed
  BY DEF Executed
<1>2. CASE copies = {}
  <2>1. fs' = fs
    BY <1>2, NothingGrows DEF Returns, TypeInv, TypeOK
  <2> QED BY <1>1, <2>1, QuietKeepsReplay DEF Restored
<1>3. ASSUME NEW c \in copies PROVE ReplayInv'
  <2>t. PICK temp : temp = Entry(cursor).temp
    OBVIOUS
  <2>1. /\ copies = {c} /\ c.start = cursor /\ c \in [start : DOMAIN Journal, source : File]
        /\ c.source \in File /\ Entry(cursor).act = "slow_copy_start" /\ temp \in Paths
        /\ temp = Entry(c.start).temp
    BY <2>t, OpenCopyIsNext DEF OnTrack
  <2>2. CanGrow(fs, temp) /\ fs \in FileSystem
    BY <2>1 DEF CopyInv, StandsOpen, TypeInv, TypeOK
  <2>3. VisibleSize(c, LogicalNow(now)) \in 0..FileBytes
    <3>1. LogicalNow(now) \in Nat
      BY LogicalNowTyped DEF TypeInv, TypeOK
    <3> QED BY <2>1, <3>1, VisibleSizeTyped DEF TypeInv
  <2>4. PICK f \in File : fs' = Written(fs, temp, f)
    BY <2>1, <2>2, <2>3, GrowthWrites
  <2>5. Written(fs', temp, c.source) = Written(fs, temp, c.source)
    BY <2>1, <2>2, <2>4, WrittenTwice
  <2>6. PICK s : s = ReplayPrefix(Journal, cursor)
    OBVIOUS
  <2>7. InStep(s)
    BY <1>1, <2>6 DEF ReplayInv
  <2>8. InStep(s)'
    <3>1. s.ok /\ s.chaos = chaos' /\ copies' = {c} /\ Entry(c.start)' = Entry(c.start)
      BY <2>1, <2>7 DEF InStep, Entry, Journal
    <3>2. StagedWhole(s.fs, c)'
      BY <2>1, <2>5, <2>7, <3>1 DEF InStep, StagedWhole
    <3> QED BY <3>1, <3>2 DEF InStep
  <2>9. ReplayPrefix(Journal, Executed)' = s
    BY <1>1, <2>6 DEF Journal
  <2> QED BY <2>8, <2>9 DEF ReplayInv
<1> QED BY <1>2, <1>3

\* The restoration begins with every captured mode still to put back.
LEMMA RestorationBegins ==
  ASSUME TypeInv, CopyInv, ReplayInv, IdleOut, OnTrack
  PROVE  ReplayInv'
<1>1. pc = "idle" /\ pc' = "restore" /\ UNCHANGED <<plan, chaos, fs, cursor>>
  BY DEF IdleOut, session, disk
<1>2. Executed = cursor /\ Executed' = Executed /\ copies = {}
  BY <1>1 DEF Executed, CopyInv
<1>3. PICK s : s = ReplayPrefix(Journal, Executed)
  OBVIOUS
<1>4. s.ok /\ s.chaos = chaos /\ s.fs = fs
  BY <1>1, <1>2, <1>3 DEF ReplayInv, InStep
<1>5. s.chaos.captured \in Seq(CapturedMode)
  BY <1>4 DEF TypeInv, TypeOK, CapturedMode
<1> DEFINE left == [k \in 0..0 |-> s]
           all  == s.chaos.captured
<1>6. IsRestoration(left, s, 0) /\ left[0] = s
  BY DEF IsRestoration
<1>7. all = SubSeq(all, 0 + 1, Len(all)) /\ 0 \in 0..Len(all)
  BY <1>5
<1> HIDE DEF left
<1>o. IsOutcome(s)
  BY <1>2, <1>3, ReplayGivesOutcome, PlanTyped DEF TypeInv, TypeOK
<1>8. RestoringInStep(s)'
  BY <1>o, <1>1, <1>4, <1>6, <1>7 DEF RestoringInStep
<1>9. ReplayPrefix(Journal, Executed)' = s
  BY <1>1, <1>2, <1>3 DEF Journal
<1> QED BY <1>1, <1>5, <1>8, <1>9 DEF ReplayInv

\* One turn of the restoration, in the run and in the replay.
LEMMA RestorationContinues ==
  ASSUME ReplayInv, OnTrack, RestoreMode, UNCHANGED Executed
  PROVE  ReplayInv'
<1>1. /\ pc = "restore" /\ pc' = "restore" /\ UNCHANGED plan
      /\ chaos.captured # <<>> /\ ~RestoreRaises(fs, chaos.captured)
      /\ fs' = RestoreOne(fs, chaos.captured) /\ chaos'.captured = Tail(chaos.captured)
  BY DEF RestoreMode, Finalizing, OnTrack, HasCaptured
<1>2. PICK s : s = ReplayPrefix(Journal, Executed)
  OBVIOUS
<1>3. s.chaos.captured \in Seq(CapturedMode) /\ RestoringInStep(s)
  BY <1>1, <1>2 DEF ReplayInv
<1>4. PICK all : all = s.chaos.captured
  OBVIOUS
<1>5. PICK left, k : /\ k \in 0..Len(all) /\ IsRestoration(left, s, k)
                     /\ IsOutcome(left[k]) /\ left[k].ok /\ left[k].fs = fs
                     /\ chaos.captured = SubSeq(all, k + 1, Len(all))
  BY <1>3, <1>4 DEF RestoringInStep
<1>6. /\ Len(all) \in Nat /\ k \in Nat /\ k + 1 \in 0..Len(all)
      /\ Tail(SubSeq(all, k + 1, Len(all))) = SubSeq(all, k + 2, Len(all))
  <2>1. Len(all) \in Nat /\ all \in Seq(CapturedMode)
    BY <1>3, <1>4
  <2>2. k # Len(all)
    BY <1>1, <1>5, <2>1
  <2>3. k \in Nat /\ k + 1 \in 1..Len(all)
    BY <1>5, <2>1, <2>2
  <2>4. Tail(SubSeq(all, k + 1, Len(all))) = SubSeq(all, k + 2, Len(all))
    BY <2>1, <2>3
  <2> QED BY <2>1, <2>3, <2>4
<1> DEFINE turn == RestoreTurn(left[k], SubSeq(all, k + 1, Len(all)))
           more == [j \in 0..(k + 1) |-> IF j = k + 1 THEN turn ELSE left[j]]
<1>7. IsRestoration(more, s, k + 1)
  <2>1. \A j \in 0..k : left[j] = IF j = 0 THEN s
                                  ELSE RestoreTurn(left[j - 1], SubSeq(all, j, Len(all)))
    BY <1>4, <1>5 DEF IsRestoration
  <2>2. \A j \in 0..(k + 1) : more[j] = IF j = 0 THEN s
                                        ELSE RestoreTurn(more[j - 1], SubSeq(all, j, Len(all)))
    BY <1>6, <2>1
  <2>3. more = [j \in 0..(k + 1) |-> more[j]]
    OBVIOUS
  <2> HIDE DEF more
  <2> QED BY <1>4, <2>2, <2>3 DEF IsRestoration
<1>8. more[k + 1] = turn
  BY <1>6
<1> HIDE DEF more
<1>9. turn.ok /\ turn.fs = fs' /\ IsOutcome(turn)
  <2>1. turn = [left[k] EXCEPT !.fs = RestoreOne(fs, chaos.captured)]
    BY <1>1, <1>5 DEF RestoreTurn
  <2> HIDE DEF turn
  <2> QED BY <1>1, <1>5, <2>1 DEF IsOutcome
<1> HIDE DEF turn
<1>10. chaos'.captured = SubSeq(all, (k + 1) + 1, Len(all))
  BY <1>1, <1>5, <1>6
<1>11. RestoringInStep(s)'
  BY <1>4, <1>6, <1>7, <1>8, <1>9, <1>10 DEF RestoringInStep
<1>12. ReplayPrefix(Journal, Executed)' = s
  BY <1>1, <1>2 DEF Journal
<1> QED BY <1>1, <1>3, <1>11, <1>12 DEF ReplayInv

LEMMA ReplayInductive ==
  ASSUME NothingIsWithheld, TypeInv, WindowInv, EndInv, CopyInv, ReplayInv, [Next]_vars
  PROVE  ReplayInv'
<1>1. CASE ~OnTrack'
  BY <1>1 DEF ReplayInv
<1>2. CASE (UNCHANGED vars \/ Tick) /\ OnTrack'
  <2>1. UNCHANGED <<plan, chaos, fs, copies, pc>> /\ Executed' = Executed /\ OnTrack
    BY <1>2 DEF vars, Tick, session, disk, Executed, Next1, OnTrack
  <2> QED BY <2>1, QuietKeepsReplay
<1>3. CASE (RunDue \/ FinishSlowCopy \/ FinishLag) /\ OnTrack'
  BY <1>3, HandlerProceeds, HandlerKeepsReplay DEF OnTrack
<1>4. CASE (TurnDeadline \/ TurnDue \/ TurnSleep) /\ OnTrack'
  <2>1. /\ UNCHANGED <<plan, chaos, copies, cursor, outcome>> /\ pc = "loop"
        /\ fs' = Grown(LogicalNow(now)).fs /\ pc' \in {"batch", "sleep", "copies", "failing"}
    BY <1>4 DEF TurnDeadline, TurnDue, TurnSleep, Turn, Proceed, session
  <2>2. OnTrack /\ pc' # "failing"
    BY <1>4, <2>1 DEF OnTrack, EndInv, RunningPc
  <2> QED BY <2>1, <2>2, TurnKeepsReplay
<1>5. CASE Record
  <2>1. /\ UNCHANGED <<plan, fs, chaos, copies>> /\ pc = "record" /\ pc' = ret
        /\ cursor' = cursor + 1 /\ ret \in {"batch", "copies", "lags"}
    BY <1>5 DEF Record, session, TypeInv, TypeOK
  <2>2. Executed' = Executed /\ OnTrack /\ pc \notin Restored /\ pc' \notin Restored
    BY <2>1 DEF Executed, Next1, OnTrack, EndInv, RunningPc, Restored
  <2> QED BY <2>1, <2>2, QuietKeepsReplay
<1>6. CASE (LoopEnds \/ Wake \/ BatchEnds \/ Publish \/ SlowCopiesFinished \/ LagsFinished) /\ OnTrack'
  <2>1. /\ UNCHANGED <<plan, fs, chaos, copies, cursor, outcome>>
        /\ pc \in {"loop", "sleep", "batch", "baseline", "copies", "lags"}
        /\ pc' \in {"copies", "loop", "lags", "idle"}
    BY <1>6 DEF LoopEnds, Wake, BatchEnds, Publish, SlowCopiesFinished, LagsFinished, session, disk
  <2>2. Executed' = Executed /\ OnTrack /\ pc \notin Restored /\ pc' \notin Restored
    BY <1>6, <2>1 DEF Executed, OnTrack, Restored
  <2> QED BY <2>1, <2>2, QuietKeepsReplay
<1>7. CASE IdleOut /\ OnTrack'
  <2>1. OnTrack
    BY <1>7 DEF IdleOut, OnTrack
  <2> QED BY <1>7, <2>1, RestorationBegins
<1>8. CASE RestoreMode /\ OnTrack'
  <2>1. OnTrack /\ Executed' = Executed
    BY <1>8 DEF RestoreMode, OnTrack, Executed, Next1
  <2> QED BY <1>8, <2>1, RestorationContinues
<1>9. CASE (Succeeds \/ WriteMetadata \/ Seal) /\ OnTrack'
  <2>1. /\ UNCHANGED <<plan, fs, chaos, copies, cursor>> /\ pc \in {"restore", "metadata"}
        /\ pc' \in {"metadata", "done"} /\ (pc = "metadata" => outcome' = outcome)
    BY <1>9 DEF Succeeds, WriteMetadata, Seal, session, disk
  <2>2. Executed' = Executed /\ OnTrack /\ pc \in Restored /\ pc' \in Restored
    BY <1>9, <2>1 DEF Executed, OnTrack, EndInv, RunningPc, Restored
  <2> QED BY <2>1, <2>2, QuietKeepsReplay
<1>10. CASE (RestoreBreaks \/ WipeLibrary \/ WriteFault) /\ OnTrack'
  BY <1>10 DEF RestoreBreaks, WipeLibrary, WriteFault, Propagates, Finalizing, OnTrack
<1> QED BY <1>1, <1>2, <1>3, <1>4, <1>5, <1>6, <1>7, <1>8, <1>9, <1>10 DEF Next, Step, Stopped

LEMMA ReplayInitially == Init => ReplayInv
<1> SUFFICES ASSUME Init PROVE ReplayInv
  OBVIOUS
<1>1. /\ pc = "baseline" /\ cursor = 0 /\ fs = InitialTree /\ chaos = NoChaos /\ copies = {}
  BY DEF Init
<1>2. ReplayPrefix(Journal, Executed) = StartOfReplay
  BY <1>1, ReplayStarts DEF Executed
<1>3. InStep(StartOfReplay)
  BY <1>1 DEF InStep, StartOfReplay
<1> QED BY <1>1, <1>2, <1>3 DEF ReplayInv

\* Replaying the bundle of a successful run that had nothing to withhold rebuilds
\* the tree it left, file by file and mode by mode: growing a copy under the
\* clock, draining it after the deadline and putting modes back one by one come
\* to the same as replay, which copies at once and does not look at the clock.
THEOREM ReplaysMatchRuns ==
  ASSUME NothingIsWithheld
  PROVE  Spec => []ReplayMatchesRun
<1>1. TypeInv /\ WindowInv /\ EndInv /\ CopyInv /\ ReplayInv /\ [Next]_vars => ReplayInv'
  BY ReplayInductive
<1>2. EndInv /\ ReplayInv => ReplayMatchesRun
  <2> SUFFICES ASSUME EndInv, ReplayInv, Succeeded
               PROVE  LET replay == ReplayRunBundle(Journal, cursor)
                      IN  replay.ok /\ replay.fs.files = fs.files /\ replay.fs.dirs = fs.dirs
    BY DEF ReplayMatchesRun
  <2>1. pc = "done" /\ OnTrack /\ chaos.captured = <<>> /\ Executed = cursor
    BY DEF EndInv, Succeeded, OnTrack, Executed
  <2>2. PICK s : s = ReplayPrefix(Journal, cursor)
    OBVIOUS
  <2>3. s.chaos.captured \in Seq(CapturedMode) /\ RestoringInStep(s)
    BY <2>1, <2>2 DEF ReplayInv
  <2>4. PICK left, k :
            /\ k \in 0..Len(s.chaos.captured)
            /\ IsRestoration(left, s, k) /\ left[k].ok /\ left[k].fs = fs
            /\ chaos.captured = SubSeq(s.chaos.captured, k + 1, Len(s.chaos.captured))
    BY <2>3 DEF RestoringInStep
  <2>5. k = Len(s.chaos.captured)
    BY <2>1, <2>3, <2>4
  <2>6. RestoredReplay(s) = left[k]
    BY <2>3, <2>4, <2>5, RestorationIsResult
  <2> QED BY <2>2, <2>4, <2>6 DEF ReplayRunBundle
<1>3. Spec => [](TypeInv /\ DirectoryInv /\ EndInv /\ WindowInv /\ CopyInv)
  BY CopyInvariant, NothingWrapped
<1> QED BY <1>1, <1>2, <1>3, ReplayInitially, PTL DEF Spec
=============================================================================
