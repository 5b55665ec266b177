----------------------------- MODULE CopyProofs -----------------------------
(***************************************************************************)
(* Slow copies and the state a run is sealed in, for every plan in which   *)
(* no delayed lag follows a slow_copy_commit (CopiesNotWrapped).           *)
(*                                                                         *)
(* The reason is one invariant: a slow copy is open exactly while its      *)
(* commit is the next entry, so nothing else runs beside it, its temporary *)
(* file stays writable and is the one file of the tree that is not whole.  *)
(***************************************************************************)
EXTENDS RunProofs

(***************************************************************************)
(* The size of a growing temporary file.                                   *)
(***************************************************************************)
LEMMA VisibleSizeMonotone ==
  ASSUME plan \in Plans, NEW c \in [start : DOMAIN Journal, source : File],
         Entry(c.start).act = "slow_copy_start",
         NEW early \in Nat, NEW late \in Nat, early <= late
  PROVE  VisibleSize(c, early) <= VisibleSize(c, late)
<1> DEFINE start       == Entry(c.start).at
           length      == Entry(CommitOf(c.start)).at - start
           clamped(at) == IF at - start < 0 THEN 0 ELSE Earlier(at - start, length)
           bytes       == c.source.bytes
<1>1. bytes \in Nat /\ start \in Nat
  BY PlanTyped DEF File
<1>2. length \in Nat \ {0}
  BY StartHasCommit, PlanTyped
<1>3. /\ VisibleSize(c, early) = (bytes * clamped(early)) \div length
      /\ VisibleSize(c, late) = (bytes * clamped(late)) \div length
  BY DEF VisibleSize
<1> HIDE DEF start, length, bytes
<1>4. clamped(early) \in Nat /\ clamped(late) \in Nat /\ clamped(early) <= clamped(late)
  BY <1>1, <1>2 DEF Earlier
<1> HIDE DEF clamped
<1>5. clamped(early) * bytes <= clamped(late) * bytes
  BY <1>1, <1>4, TimesMonotone
<1>6. bytes * clamped(early) <= bytes * clamped(late)
  BY <1>1, <1>4, <1>5
<1>7. bytes * clamped(early) \in Int /\ bytes * clamped(late) \in Int
  BY <1>1, <1>4
<1> QED BY <1>2, <1>3, <1>6, <1>7, DivMonotone

LEMMA TimesPredecessor ==
  ASSUME NEW a \in Int, NEW b \in Int
  PROVE  (a - 1) * b = a * b - b
  OBVIOUS

\* The temporary file is whole no sooner than the commit is due.
LEMMA WholeWhenDue ==
  ASSUME plan \in Plans, NEW c \in [start : DOMAIN Journal, source : File],
         Entry(c.start).act = "slow_copy_start", c.source.bytes = FileBytes,
         NEW logical \in Nat, VisibleSize(c, logical) >= FileBytes
  PROVE  logical >= Entry(CommitOf(c.start)).at
<1> DEFINE start   == Entry(c.start).at
           commit  == Entry(CommitOf(c.start)).at
           length  == commit - start
           clamped == IF logical - start < 0 THEN 0 ELSE Earlier(logical - start, length)
<1>1. FileBytes \in Nat \ {0} /\ start \in Nat
  BY LibraryAssumption, PlanTyped
<1>2. commit \in Nat /\ length \in Nat \ {0}
  BY StartHasCommit, PlanTyped
<1>3. VisibleSize(c, logical) = (FileBytes * clamped) \div length
  BY DEF VisibleSize
<1> SUFFICES ASSUME logical < commit PROVE FALSE
  BY <1>2
<1>4. clamped \in Nat /\ clamped <= length - 1
  BY <1>1, <1>2 DEF Earlier
<1> HIDE DEF start, clamped
<1>5. clamped * FileBytes <= (length - 1) * FileBytes
  BY <1>1, <1>2, <1>4, TimesMonotone
<1> HIDE DEF length, commit
<1>6. (length - 1) * FileBytes = length * FileBytes - FileBytes
  BY <1>1, <1>2, TimesPredecessor
<1>7. FileBytes * clamped < length * FileBytes
  <2>1. clamped * FileBytes \in Int /\ length * FileBytes \in Int
    BY <1>1, <1>2, <1>4
  <2>2. FileBytes * clamped = clamped * FileBytes
    BY <1>1, <1>4
  <2>3. \A a, b, n \in Int : a <= b - n /\ n > 0 => a < b
    OBVIOUS
  <2> QED BY <1>1, <1>5, <1>6, <2>1, <2>2, <2>3
<1> DEFINE grown == FileBytes * clamped
           size  == grown \div length
<1>8. grown \in Nat
  BY <1>1, <1>4
<1>9. size >= FileBytes
  BY <1>3
<1>10. grown < length * FileBytes
  BY <1>7
<1> HIDE DEF grown
<1>11. size \in Int /\ grown % length \in Int /\ grown = length * size + (grown % length)
       /\ 0 <= grown % length
  BY <1>2, <1>8, Division
<1> HIDE DEF size
<1>12. FileBytes * length <= size * length
  BY <1>1, <1>2, <1>9, <1>11, TimesMonotone
<1>13. length * size <= grown
  <2>1. \A a, b, r \in Int : a = b + r /\ 0 <= r => b <= a
    OBVIOUS
  <2>2. length * size \in Int
    BY <1>2, <1>11
  <2> QED BY <1>8, <1>11, <2>1, <2>2
<1>14. length * size = size * length /\ length * FileBytes = FileBytes * length
  BY <1>1, <1>2, <1>11
<1>15. size * length \in Int /\ FileBytes * length \in Int
  BY <1>1, <1>2, <1>11
<1> QED BY <1>8, <1>10, <1>12, <1>13, <1>14, <1>15

(***************************************************************************)
(* The invariant.                                                          *)
(***************************************************************************)

\* The last entry whose handler has run, recorded or not
Executed == IF pc = "record" THEN Next1 ELSE cursor

\* Neither failed, nor failing, nor killed by an error that nothing catches
OnTrack == pc \notin {"failing", "stopped"} /\ outcome # "failed"

\* The temporary file of a slow copy can be grown.
CanGrow(tree, temp) == Present(tree, temp) /\ CanWrite(tree, temp)

\* Slow copy c is open: its start is the last entry executed, so its commit is
\* the next, and a drain of the lags does not end before it.
StandsOpen(c) ==
    /\ copies = {c} /\ c.start = Executed
    /\ pc \in {"loop", "sleep", "batch", "record", "copies", "lags"}
    /\ pc = "lags" \/ (pc = "record" /\ ret = "lags") => lags # {}
    /\ c.source.bytes = FileBytes
    /\ LET temp == Entry(c.start).temp
       IN  /\ CanGrow(fs, temp)
           /\ fs.files[temp].bytes <= VisibleSize(c, LogicalNow(now))

CopyInv ==
    /\ pc # "stopped" => \A c \in copies : StandsOpen(c)
    /\ OnTrack => /\ WholeAt(fs, Paths \ Temps) /\ CacheWhole(fs)
                  /\ Executed \in DOMAIN Journal /\ Entry(Executed).act = "slow_copy_start" =>
                        copies # {}
    /\ OnTrack /\ pc \in {"idle", "restore", "metadata", "done"} => copies = {} /\ lags = {}

(***************************************************************************)
(* Growth.                                                                 *)
(***************************************************************************)
LEMMA NothingGrows ==
  ASSUME fs \in FileSystem, copies = {}, NEW logical
  PROVE  Grown(logical) = Returns(fs)
<1>1. [p \in Paths |-> fs.files[p]] = fs.files
  BY DEF FileSystem
<1>2. [fs EXCEPT !.files = fs.files] = fs
  BY DEF FileSystem
<1>3. Grown(logical) = Returns([fs EXCEPT !.files = [p \in Paths |-> fs.files[p]]])
  BY DEF Grown
<1> QED BY <1>1, <1>2, <1>3

LEMMA OneGrows ==
  ASSUME fs \in FileSystem, NEW c \in [start : DOMAIN Journal, source : File], copies = {c},
         NEW temp \in Paths, temp = Entry(c.start).temp, CanGrow(fs, temp), NEW logical,
         VisibleSize(c, logical) \in 0..FileBytes
  PROVE  /\ Grown(logical).ok
         /\ Grown(logical).fs.files[temp].bytes = VisibleSize(c, logical)
         /\ \A p \in Paths \ {temp} : Grown(logical).fs.files[p] = fs.files[p]
         /\ Grown(logical).fs.cache = fs.cache
         /\ CanGrow(Grown(logical).fs, temp)
<1> DEFINE part == [c.source EXCEPT !.bytes = VisibleSize(c, logical)]
           new  == [part EXCEPT !.mode = fs.files[temp].mode]
           out  == [fs EXCEPT !.files = [fs.files EXCEPT ![temp] = new]]
           owner(p) == {x \in copies : Entry(x.start).temp = p}
           grown(p) == IF owner(p) = {} THEN fs.files[p]
                       ELSE Written(fs, p, [(CHOOSE x \in owner(p) : TRUE).source EXCEPT
                              !.bytes = VisibleSize(CHOOSE x \in owner(p) : TRUE, logical)]).files[p]
<1>1. fs.files[temp] \in File
  BY DEF CanGrow, Present, FileSystem
<1>2. part \in File
  BY DEF File
<1>3. new \in File /\ new.bytes = VisibleSize(c, logical) /\ new.mode = fs.files[temp].mode
  BY <1>1, <1>2 DEF File
<1>4. Grown(logical) = Returns([fs EXCEPT !.files = [p \in Paths |-> grown(p)]])
  <2>1. \A x \in copies : CanWrite(fs, Entry(x.start).temp)
    BY DEF CanGrow
  <2> QED BY <2>1 DEF Grown
<1>5. grown(temp) = new
  <2>1. owner(temp) = {c}
    OBVIOUS
  <2>2. (CHOOSE x \in owner(temp) : TRUE) = c
    BY <2>1
  <2>3. grown(temp) = Written(fs, temp, part).files[temp]
    BY <2>1, <2>2
  <2>4. Written(fs, temp, part).files[temp] = new
    BY DEF Written, FileSystem, CanGrow
  <2> QED BY <2>3, <2>4
<1>6. \A p \in Paths \ {temp} : grown(p) = fs.files[p]
  OBVIOUS
<1> HIDE DEF part, new, grown
<1>7. Grown(logical).ok /\ Grown(logical).fs = [fs EXCEPT !.files = [p \in Paths |-> grown(p)]]
  BY <1>4 DEF Returns
<1>8. /\ Grown(logical).fs.files = [p \in Paths |-> grown(p)]
      /\ Grown(logical).fs.dirs = fs.dirs /\ Grown(logical).fs.cache = fs.cache
  BY <1>7 DEF FileSystem
<1>9. Grown(logical).fs.files[temp] = new
  BY <1>5, <1>8
<1>10. CanGrow(Grown(logical).fs, temp)
  BY <1>3, <1>8, <1>9, NoFileAssumption DEF CanGrow, CanWrite, Present, Reachable
<1> QED BY <1>3, <1>6, <1>7, <1>8, <1>9, <1>10

(***************************************************************************)
(* One handler.                                                            *)
(***************************************************************************)
LEMMA CopyNotWithheld ==
  ASSUME CopiesNotWrapped, plan \in Plans, NEW i \in DOMAIN Journal,
         Entry(i).act \in {"slow_copy_start", "slow_copy_commit"}
  PROVE  LagOver(i) = {}
<1> SUFFICES ASSUME NEW s \in LagOver(i) PROVE FALSE
  OBVIOUS
<1>1. /\ s \in DOMAIN Journal /\ Entry(s).act = "network_lag_start"
      /\ Entry(s).effect # "held_handle" /\ Entry(s).ref = i
  BY DEF LagOver
<1>2. Entry(i).act \in DelayedVisibilityAfter \cup DelayedRenameAfter
  BY <1>1, PlanTyped DEF WellPaired, Entry
<1>3. Entry(i).act # "slow_copy_commit"
  BY <1>1 DEF CopiesNotWrapped, Withholds, Is, Entry, Journal
<1> QED BY <1>2, <1>3 DEF DelayedVisibilityAfter, DelayedRenameAfter

\* The commit that follows an open slow copy completes it, or fails.
LEMMA CommitCompletes ==
  ASSUME CopiesNotWrapped, TypeInv, NEW tree \in FileSystem, CacheWhole(tree),
         NEW c, copies = {c}, c.start = cursor, c.source.bytes = FileBytes,
         WholeAt(tree, Paths \ {Entry(c.start).temp}), Execute(tree, Next1)
  PROVE  /\ copies' = {} /\ Entry(Next1).act = "slow_copy_commit" /\ lags' = lags
         /\ pc' = "record" => Intact(fs')
<1> USE PlanTyped DEF TypeInv, TypeOK
<1> DEFINE s    == Entry(cursor)
           full == Written(tree, s.temp, c.source)
<1>1. cursor \in DOMAIN Journal /\ s.act = "slow_copy_start" /\ c.source \in File
  OBVIOUS
<1>2. /\ Next1 \in DOMAIN Journal
      /\ Entry(Next1).act = "slow_copy_commit" /\ Entry(Next1).ref = cursor
  BY <1>1, StartHasCommit DEF Next1
<1>3. CommitSlowCopy(tree, Next1)
  BY <1>2, CopyNotWithheld
     DEF Execute, Withhold, StartSlowCopy, StartLag, CommitLag, RealizeChaos, DispatchPhaseB,
         ChaosOpenActions, ChaosCloseActions, PhaseBActions, MediaActions
<1>4. {x \in copies : x.start = Entry(Next1).ref} = {c}
  BY <1>2
<1>5. (CHOOSE x \in {c} : TRUE) = c
  OBVIOUS
<1>6. copies' = {} /\ lags' = lags
  BY <1>3, <1>4 DEF CommitSlowCopy
<1>7. \/ pc' = "failing"
      \/ fs' = Promote(full, s.from, s.temp, s.to).fs
  BY <1>2, <1>3, <1>4, <1>5 DEF CommitSlowCopy, Proceed, Raises
<1>8. s.from \in Paths /\ s.temp \in Paths /\ s.to \in Paths
  BY <1>1 DEF JournalEntries, CarriesPaths, LocationActions
<1>9. full \in FileSystem /\ Intact(full)
  BY <1>1, <1>8, WrittenTyped, WrittenWhole
<1> HIDE DEF full
<1>10. Intact(Promote(full, s.from, s.temp, s.to).fs)
  BY <1>8, <1>9, PromoteWhole
<1> QED BY <1>2, <1>6, <1>7, <1>10

\* A handler that runs while no slow copy is open leaves a whole tree, or opens
\* a slow copy with an empty temporary file, or fails.
LEMMA HandlerOpens ==
  ASSUME CopiesNotWrapped, TypeInv, NEW tree \in FileSystem, Intact(tree), tree.pending = {},
         deferred \subseteq Withholders, copies = {}, HasNext, Execute(tree, Next1),
         pc' = "record"
  PROVE  \/ copies' = {} /\ Intact(fs') /\ Entry(Next1).act # "slow_copy_start"
         \/ /\ Entry(Next1).act = "slow_copy_start"
            /\ \E source \in File :
                 /\ source.bytes = FileBytes
                 /\ copies' = {[start |-> Next1, source |-> source]}
            /\ lags' = lags
            /\ LET temp == Entry(Next1).temp
               IN  /\ CanGrow(fs', temp) /\ fs'.files[temp].bytes = 0
                   /\ WholeAt(fs', Paths \ {temp}) /\ CacheWhole(fs')
<1> USE PlanTyped DEF TypeInv, TypeOK
<1> DEFINE i == Next1
           e == Entry(i)
<1>0. i \in DOMAIN Journal /\ i \in Nat /\ e \in JournalEntries
  BY DEF HasNext, Next1
<1>1. \A r : Proceed(r, "record") => r.ok /\ fs' = r.fs
  BY DEF Proceed
<1>2. \A t : Returns(t).fs = t /\ Raises(t).fs = t /\ Returns(t).ok /\ ~Raises(t).ok
  BY DEF Returns, Raises
<1> HIDE DEF i
<1>3. CASE Withhold(tree, i)
  <2>1. e.act # "slow_copy_start"
    BY <1>0, <1>3, CopyNotWithheld DEF Withhold
  <2> QED BY <1>1, <1>2, <1>3, <2>1 DEF Withhold, i
<1>4. CASE StartSlowCopy(tree, i)
  <2> DEFINE source == tree.files[e.from]
             empty  == [source EXCEPT !.bytes = 0]
             out    == Written(tree, e.temp, empty)
  <2>1. e.act = "slow_copy_start" /\ e.from \in Paths /\ e.temp \in Paths
    BY <1>0, <1>4 DEF StartSlowCopy, JournalEntries, CarriesPaths, LocationActions
  <2>2. CanRead(tree, e.from) /\ CanWrite(tree, e.temp) /\ fs' = out
    BY <1>1, <1>2, <1>4 DEF StartSlowCopy
  <2>3. copies' = {[start |-> i, source |-> source]} /\ lags' = lags
    BY <1>4, <2>2 DEF StartSlowCopy
  <2>4. source \in File /\ source.bytes = FileBytes
    BY <2>1, <2>2 DEF CanRead, Present, FileSystem, Intact, WholeAt
  <2>5. empty \in File /\ empty.bytes = 0
    BY <2>4, LibraryAssumption DEF File
  <2> HIDE DEF empty, source
  <2> DEFINE new == [empty EXCEPT !.mode = IF Present(tree, e.temp) THEN tree.files[e.temp].mode
                                           ELSE FileMode]
  <2>6. new \in File /\ new.bytes = 0
        /\ new.mode = IF Present(tree, e.temp) THEN tree.files[e.temp].mode ELSE FileMode
    BY <2>1, <2>5 DEF File, FileSystem, Present, FileMode, Mode
  <2>7. out = [tree EXCEPT !.files[e.temp] = new]
    BY DEF Written
  <2> HIDE DEF new
  <2>8. /\ out.files[e.temp] = new /\ out.dirs = tree.dirs /\ out.cache = tree.cache
        /\ \A p \in Paths \ {e.temp} : out.files[p] = tree.files[p]
    BY <2>1, <2>7 DEF FileSystem
  <2> HIDE DEF out
  <2>9. CanGrow(out, e.temp)
    BY <2>2, <2>6, <2>8, NoFileAssumption
       DEF CanGrow, CanWrite, CanLink, Present, Reachable, Allows, FileMode
  <2>10. WholeAt(out, Paths \ {e.temp}) /\ CacheWhole(out)
    BY <2>8 DEF Intact, WholeAt, CacheWhole, Present
  <2> QED BY <2>1, <2>2, <2>3, <2>4, <2>6, <2>8, <2>9, <2>10 DEF i
<1>5. CASE CommitSlowCopy(tree, i)
  <2>1. {x \in copies : x.start = e.ref} = {}
    OBVIOUS
  <2>2. Proceed(Raises(tree), "record")
    BY <1>5, <2>1 DEF CommitSlowCopy
  <2> QED BY <1>1, <1>2, <2>2
<1>6. CASE StartLag(tree, i)
  BY <1>1, <1>2, <1>6 DEF StartLag, i
<1>7. ASSUME NEW j \in DOMAIN Journal, NEW ran, Proceed(Dispatched(tree, j, ran), "record")
      PROVE  Intact(fs')
  <2>1. Dispatched(tree, j, ran) \in {Dispatch(tree, j, Entry(j)), Raises(tree)}
    BY DEF Dispatched
  <2>2. Intact(Dispatch(tree, j, Entry(j)).fs)
    BY DispatchWhole
  <2> QED BY <1>1, <1>2, <1>7, <2>1, <2>2
<1>8. CASE CommitLag(tree, i)
  <2> DEFINE s == e.ref
  <2>1. e.act = "network_lag_commit" /\ copies' = copies
    BY <1>8 DEF CommitLag
  <2>2. CASE s \in deferred
    <3>1. PICK ran : Proceed(Dispatched(tree, Entry(s).ref, ran), "record")
      BY <1>8, <2>2 DEF CommitLag
    <3>2. Entry(s).ref \in DOMAIN Journal
      BY <2>2 DEF Withholders, WellPaired, Entry
    <3> QED BY <1>7, <2>1, <3>1, <3>2 DEF i
  <2>3. CASE s \notin deferred
    BY <1>1, <1>2, <1>8, <2>1, <2>3 DEF CommitLag, i
  <2> QED BY <2>2, <2>3
<1>9. CASE RealizeChaos(tree, i)
  <2> DEFINE m == NewMode(tree, e)
             r == Realize(tree, chaos, i, e)
  <2>1. fs' = r.fs /\ copies' = copies /\ e.act # "slow_copy_start"
    BY <1>1, <1>9 DEF RealizeChaos, ChaosOpenActions, ChaosCloseActions
  <2>2. r.fs = tree \/ (Exists(tree, e.target) /\ r.fs = Chmod(tree, e.target, m))
    <3>1. CASE ExistsRaises(tree, e.target)
      <4>1. ~Exists(tree, e.target)
        BY <3>1, LibraryAssumption DEF Exists, ExistsRaises, StatBlocked
      <4> QED BY <3>1, <4>1 DEF Realize
    <3>2. CASE ~ExistsRaises(tree, e.target)
      BY <3>2 DEF Realize
    <3> QED BY <3>1, <3>2
  <2>3. ASSUME Exists(tree, e.target) PROVE Intact(Chmod(tree, e.target, m))
    BY <1>0, <2>3, NewModeTyped, ChmodWhole DEF Intact
  <2> HIDE DEF m, r
  <2> QED BY <2>1, <2>2, <2>3 DEF i
<1>10. CASE DispatchPhaseB(tree, i)
  <2>1. PICK ran : Proceed(Dispatched(tree, i, ran), "record")
    BY <1>10 DEF DispatchPhaseB
  <2>2. copies' = copies /\ e.act # "slow_copy_start"
    BY <1>10 DEF DispatchPhaseB, session, PhaseBActions, MediaActions
  <2> QED BY <1>0, <1>7, <2>1, <2>2 DEF i
<1> QED BY <1>3, <1>4, <1>5, <1>6, <1>8, <1>9, <1>10 DEF Execute, i

LEMMA FailureOpensNothing ==
  ASSUME NEW tree, NEW i, copies = {}, Execute(tree, i), pc' = "failing"
  PROVE  copies' = {}
<1>1. ASSUME StartSlowCopy(tree, i) PROVE copies' = copies
  BY <1>1 DEF StartSlowCopy, Proceed, Returns
<1> QED BY <1>1 DEF Execute, Withhold, CommitSlowCopy, StartLag, CommitLag, RealizeChaos,
                    DispatchPhaseB, session

(***************************************************************************)
(* The induction.                                                          *)
(***************************************************************************)
LEMMA CopiesInitially ==
  ASSUME Init
  PROVE  CopyInv
<1>1. \A p \in Paths : Present(InitialTree, p) => InitialTree.files[p].bytes = FileBytes
  BY DEF InitialTree, Present, Whole
<1>2. CacheWhole(InitialTree)
  BY DEF InitialTree, CacheWhole
<1>3. plan \in Plans /\ pc = "baseline" /\ cursor = 0 /\ copies = {} /\ fs = InitialTree
  BY DEF Init
<1>4. Executed \notin DOMAIN Journal
  BY <1>3, PlanTyped DEF Executed
<1> QED BY <1>1, <1>2, <1>3, <1>4 DEF CopyInv, WholeAt

\* What CopyInv says of the entry under the cursor while a slow copy is open.
LEMMA OpenCopyIsNext ==
  ASSUME TypeInv, CopyInv, NEW c \in copies, pc \notin {"record", "stopped"}
  PROVE  /\ copies = {c} /\ c.start = cursor /\ c.source \in File /\ c.source.bytes = FileBytes
         /\ c \in [start : DOMAIN Journal, source : File]
         /\ cursor \in DOMAIN Journal /\ Entry(cursor).act = "slow_copy_start"
         /\ HasNext /\ HeadFinishesCopy
         /\ Entry(cursor).temp \in Paths /\ Temps = {Entry(cursor).temp}
<1> USE PlanTyped DEF TypeInv, TypeOK
<1>1. StandsOpen(c) /\ c.start = cursor /\ copies = {c}
  BY DEF CopyInv, StandsOpen, Executed
<1>2. cursor \in DOMAIN Journal /\ Entry(cursor).act = "slow_copy_start"
  BY <1>1
<1>3. /\ cursor + 1 \in DOMAIN Journal /\ Entry(cursor + 1).act = "slow_copy_commit"
      /\ Entry(cursor + 1).ref = cursor
  BY <1>2, StartHasCommit
<1>4. HasNext
  BY <1>3 DEF HasNext
<1>5. HeadFinishesCopy
  BY <1>1, <1>3, <1>4 DEF HeadFinishesCopy, Next1
<1>6. Entry(cursor).temp \in Paths
  BY <1>2 DEF JournalEntries, CarriesPaths
<1>7. c.source.bytes = FileBytes
  BY <1>1 DEF StandsOpen
<1>8. Temps = {Entry(cursor).temp}
  BY <1>1 DEF Temps
<1> QED BY <1>1, <1>2, <1>4, <1>5, <1>6, <1>7, <1>8

\* Reading the clock again: only the temporary file of the open copy changes.
LEMMA GrowthKeepsWhole ==
  ASSUME TypeInv, CopyInv, OnTrack, pc # "record"
  PROVE  LET g == Grown(LogicalNow(now))
         IN  /\ g.ok /\ g.fs \in FileSystem /\ g.fs.pending = fs.pending
             /\ WholeAt(g.fs, Paths \ Temps) /\ CacheWhole(g.fs)
             /\ \A c \in copies :
                    /\ CanGrow(g.fs, Entry(c.start).temp)
                    /\ g.fs.files[Entry(c.start).temp].bytes = VisibleSize(c, LogicalNow(now))
                    /\ \A p \in Paths \ Temps : g.fs.files[p] = fs.files[p]
<1> DEFINE logical == LogicalNow(now)
           g == Grown(logical)
<1>1. logical \in Nat /\ fs \in FileSystem
  BY LogicalNowTyped DEF TypeInv, TypeOK
<1>2. g \in Effect /\ g.fs.pending = fs.pending
  BY <1>1, GrownTyped, GrowthStagesNothing
<1>3. WholeAt(fs, Paths \ Temps) /\ CacheWhole(fs)
  BY DEF CopyInv
<1>4. CASE copies = {}
  <2>1. g = Returns(fs)
    BY <1>1, <1>4, NothingGrows
  <2> QED BY <1>1, <1>2, <1>3, <1>4, <2>1 DEF Returns
<1>5. ASSUME NEW c \in copies
      PROVE  /\ g.ok /\ g.fs \in FileSystem
             /\ WholeAt(g.fs, Paths \ Temps) /\ CacheWhole(g.fs)
             /\ CanGrow(g.fs, Entry(c.start).temp)
             /\ g.fs.files[Entry(c.start).temp].bytes = VisibleSize(c, logical)
             /\ \A p \in Paths \ Temps : g.fs.files[p] = fs.files[p]
  <2> DEFINE temp == Entry(cursor).temp
  <2>1. /\ copies = {c} /\ c.start = cursor /\ temp \in Paths /\ Temps = {temp}
        /\ c \in [start : DOMAIN Journal, source : File] /\ Entry(cursor).act = "slow_copy_start"
    BY OpenCopyIsNext DEF OnTrack
  <2>2. CanGrow(fs, temp)
    BY <2>1 DEF CopyInv, StandsOpen, OnTrack
  <2>3. VisibleSize(c, logical) \in 0..FileBytes
    BY <1>1, <2>1, VisibleSizeTyped DEF TypeInv
  <2> HIDE DEF logical, temp
  <2>4. /\ g.ok /\ g.fs.files[temp].bytes = VisibleSize(c, logical)
        /\ \A p \in Paths \ {temp} : g.fs.files[p] = fs.files[p]
        /\ g.fs.cache = fs.cache /\ CanGrow(g.fs, temp)
    BY <1>1, <2>1, <2>2, <2>3, OneGrows DEF temp
  <2> HIDE DEF g
  <2>5. WholeAt(g.fs, Paths \ {temp}) /\ CacheWhole(g.fs)
    BY <1>3, <2>1, <2>4 DEF WholeAt, CacheWhole, Present
  <2>6. g.fs \in FileSystem
    BY <1>2 DEF Effect
  <2> QED BY <2>1, <2>4, <2>5, <2>6 DEF temp
<1> HIDE DEF g, logical
<1>6. CASE copies # {}
  BY <1>2, <1>5, <1>6 DEF g, logical
<1> QED BY <1>4, <1>6

\* What RunDue, FinishSlowCopy and FinishLag have in common.
LEMMA HandlerRuns ==
  ASSUME TypeInv, WindowInv, EndInv, CopyInv, RunDue \/ FinishSlowCopy \/ FinishLag
  PROVE  /\ HasNext /\ OnTrack /\ pc \in {"batch", "copies", "lags"}
         /\ ret' = pc /\ (pc = "lags" => lags # {}) /\ UNCHANGED <<plan, now, cursor, outcome>>
         /\ pc' \in {"record", "failing"}
         /\ \E tree \in FileSystem :
                /\ Execute(tree, Next1)
                /\ tree.pending = {} /\ WholeAt(tree, Paths \ Temps) /\ CacheWhole(tree)
<1>1. pc \in {"batch", "copies", "lags"} /\ ret' = pc /\ (pc = "lags" => lags # {})
  BY DEF RunDue, FinishSlowCopy, FinishLag, HeadBelongsToLag
<1>2. HasNext
  BY PlanTyped DEF RunDue, FinishSlowCopy, FinishLag, HeadFinishesCopy, HeadBelongsToLag, HasNext,
                   TypeInv, TypeOK
<1>3. OnTrack
  BY <1>1 DEF EndInv, RunningPc, OnTrack
<1>4. fs \in FileSystem /\ fs.pending = {} /\ WholeAt(fs, Paths \ Temps) /\ CacheWhole(fs)
  BY <1>3 DEF TypeInv, TypeOK, WindowInv, CopyInv
<1>5. \E tree \in FileSystem :
        /\ Execute(tree, Next1)
        /\ tree.pending = {} /\ WholeAt(tree, Paths \ Temps) /\ CacheWhole(tree)
  <2>1. CASE RunDue \/ FinishLag
    BY <1>4, <2>1 DEF RunDue, FinishLag
  <2>2. CASE FinishSlowCopy
    <3> DEFINE g == Grown(LogicalNow(now))
    <3>1. /\ g.ok /\ g.fs \in FileSystem /\ g.fs.pending = {}
          /\ WholeAt(g.fs, Paths \ Temps) /\ CacheWhole(g.fs)
      BY <1>1, <1>3, <1>4, GrowthKeepsWhole
    <3>2. Execute(g.fs, Next1)
      BY <2>2, <3>1 DEF FinishSlowCopy
    <3> HIDE DEF g
    <3> QED BY <3>1, <3>2
  <2> QED BY <2>1, <2>2
<1>6. UNCHANGED <<plan, now, cursor, outcome>>
  BY <1>5 DEF Execute
<1> QED BY <1>1, <1>2, <1>3, <1>5, <1>6, HandlerProceeds

LEMMA HandlerKeepsCopies ==
  ASSUME CopiesNotWrapped, TypeInv, TypeInv', WindowInv, EndInv, CopyInv,
         RunDue \/ FinishSlowCopy \/ FinishLag
  PROVE  CopyInv'
<1>1. /\ HasNext /\ OnTrack /\ pc \in {"batch", "copies", "lags"}
      /\ ret' = pc /\ (pc = "lags" => lags # {}) /\ UNCHANGED <<plan, now, cursor, outcome>>
      /\ pc' \in {"record", "failing"}
  BY HandlerRuns
<1>2. PICK tree \in FileSystem :
        /\ Execute(tree, Next1)
        /\ tree.pending = {} /\ WholeAt(tree, Paths \ Temps) /\ CacheWhole(tree)
  BY HandlerRuns
<1>3. /\ Next1' = Next1 /\ Journal' = Journal /\ \A i : Entry(i)' = Entry(i)
      /\ Next1 \in DOMAIN Journal /\ Next1 # cursor
      /\ deferred \subseteq Withholders
  BY <1>1, PlanTyped DEF Next1, Journal, Entry, HasNext, TypeInv, TypeOK, WindowInv
<1>4. CASE pc' = "failing"
  <2>1. copies' = {}
    <3>1. CASE copies = {}
      BY <1>2, <1>4, <3>1, FailureOpensNothing
    <3>2. ASSUME NEW c \in copies PROVE copies' = {}
      BY <1>1, <1>2, OpenCopyIsNext, CommitCompletes
    <3> QED BY <3>1, <3>2
  <2> QED BY <1>4, <2>1 DEF CopyInv, OnTrack
<1>5. ASSUME pc' = "record", copies' = {}, Intact(fs'), Entry(Next1).act # "slow_copy_start"
      PROVE  CopyInv'
  <2>1. WholeAt(fs, Paths \ Temps)' /\ CacheWhole(fs)'
    BY <1>5 DEF Intact, WholeAt, CacheWhole, Present
  <2>2. Executed' = Next1
    BY <1>3, <1>5 DEF Executed
  <2> QED BY <1>3, <1>5, <2>1, <2>2 DEF CopyInv
<1>6. CASE pc' = "record" /\ copies # {}
  <2>1. PICK c \in copies : TRUE
    BY <1>6
  <2>2. /\ copies = {c} /\ c.start = cursor /\ c.source.bytes = FileBytes
        /\ Temps = {Entry(c.start).temp}
    BY <1>1, OpenCopyIsNext
  <2>3. copies' = {} /\ Entry(Next1).act = "slow_copy_commit" /\ Intact(fs')
    BY <1>2, <1>6, <2>2, CommitCompletes
  <2> QED BY <1>5, <1>6, <2>3
<1>7. CASE pc' = "record" /\ copies = {}
  <2>1. Intact(tree)
    BY <1>2, <1>7 DEF Temps, Intact
  <2>2. CASE copies' = {} /\ Intact(fs') /\ Entry(Next1).act # "slow_copy_start"
    BY <1>5, <1>7, <2>2
  <2>3. CASE /\ Entry(Next1).act = "slow_copy_start"
             /\ \E source \in File :
                  /\ source.bytes = FileBytes
                  /\ copies' = {[start |-> Next1, source |-> source]}
             /\ lags' = lags
             /\ LET temp == Entry(Next1).temp
                IN  /\ CanGrow(fs', temp) /\ fs'.files[temp].bytes = 0
                    /\ WholeAt(fs', Paths \ {temp}) /\ CacheWhole(fs')
    <3>1. PICK c \in [start : DOMAIN Journal, source : File] :
              copies' = {c} /\ c.start = Next1 /\ c.source.bytes = FileBytes
      <4>1. PICK source \in File :
                source.bytes = FileBytes /\ copies' = {[start |-> Next1, source |-> source]}
        BY <2>3
      <4> DEFINE new == [start |-> Next1, source |-> source]
      <4>2. new \in [start : DOMAIN Journal, source : File]
        BY <1>3
      <4>3. copies' = {new} /\ new.start = Next1 /\ new.source.bytes = FileBytes
        BY <4>1
      <4> HIDE DEF new
      <4> QED BY <4>2, <4>3
    <3>2. PICK temp : temp = Entry(c.start).temp
      OBVIOUS
    <3>3. Executed' = Next1 /\ Temps' = {temp} /\ Entry(c.start)'.temp = temp
      BY <1>3, <1>7, <3>1, <3>2 DEF Executed, Temps
    <3>4. VisibleSize(c, LogicalNow(now)) \in 0..FileBytes
      <4>1. Entry(c.start).act = "slow_copy_start"
        BY <1>3, <2>3, <3>1
      <4>2. LogicalNow(now) \in Nat
        BY LogicalNowTyped DEF TypeInv, TypeOK
      <4> QED BY <4>1, <4>2, VisibleSizeTyped DEF TypeInv
    <3>5. VisibleSize(c, LogicalNow(now))' = VisibleSize(c, LogicalNow(now))
      BY <1>1 DEF VisibleSize, LogicalNow, CommitOf, Entry, Journal
    <3>6. CanGrow(fs', temp) /\ fs'.files[temp].bytes = 0
          /\ WholeAt(fs', Paths \ {temp}) /\ CacheWhole(fs')
      BY <2>3, <3>1, <3>2
    <3>7. fs'.files[temp].bytes <= VisibleSize(c, LogicalNow(now))'
      BY <3>4, <3>5, <3>6
    <3>8. WholeAt(fs, Paths \ Temps)' /\ CacheWhole(fs)'
      BY <3>3, <3>6 DEF WholeAt, CacheWhole, Present
    <3>9. (pc = "lags" \/ (pc = "record" /\ ret = "lags") => lags # {})'
      BY <1>1, <1>7, <2>3
    <3>10. CanGrow(fs, Entry(c.start).temp)'
      BY <3>3, <3>6 DEF CanGrow, CanWrite, CanLink, Reachable, Present
    <3>11. StandsOpen(c)'
      BY <1>3, <1>7, <3>1, <3>3, <3>7, <3>9, <3>10 DEF StandsOpen
    <3> QED BY <1>7, <3>1, <3>8, <3>11 DEF CopyInv
  <2> QED BY <1>2, <1>3, <1>7, <1>1, <2>1, <2>2, <2>3, HandlerOpens
<1> QED BY <1>1, <1>4, <1>6, <1>7

\* A step that runs no handler and touches neither the tree nor the clock keeps
\* what CopyInv says of the tree, and an open slow copy open.
LEMMA QuietKeepsCopies ==
  ASSUME CopyInv, OnTrack, UNCHANGED <<plan, copies, lags, fs, now>>, Executed' = Executed,
         \A c \in copies : /\ pc' \in {"loop", "sleep", "batch", "record", "copies", "lags"}
                           /\ pc' = "lags" \/ (pc' = "record" /\ ret' = "lags") => lags # {},
         pc' \in {"idle", "restore", "metadata", "done"} => copies = {} /\ lags = {}
  PROVE  CopyInv'
<1>1. Journal' = Journal /\ \A i : Entry(i)' = Entry(i)
  BY DEF Journal, Entry
<1>2. ASSUME NEW c \in copies PROVE StandsOpen(c)'
  <2>1. StandsOpen(c)
    BY DEF CopyInv, OnTrack
  <2>2. VisibleSize(c, LogicalNow(now))' = VisibleSize(c, LogicalNow(now))
    BY DEF VisibleSize, LogicalNow, CommitOf, Entry, Journal
  <2>3. \A temp : CanGrow(fs, temp)' = CanGrow(fs, temp)
    BY DEF CanGrow, CanWrite, CanLink, Reachable, Present
  <2> QED BY <1>1, <2>1, <2>2, <2>3 DEF StandsOpen
<1>3. Temps' = Temps
  BY <1>1 DEF Temps
<1>4. WholeAt(fs, Paths \ Temps)' /\ CacheWhole(fs)'
  BY <1>3 DEF CopyInv, WholeAt, CacheWhole, Present
<1> QED BY <1>1, <1>2, <1>4 DEF CopyInv, OnTrack

LEMMA CopiesInductive ==
  ASSUME CopiesNotWrapped, TypeInv, WindowInv, EndInv, CopyInv, [Next]_vars
  PROVE  CopyInv'
<1>0. TypeInv' /\ (pc \in RunningPc \cup {"baseline"} => outcome = "none")
  BY TypesInductive DEF EndInv
<1>1. CASE UNCHANGED vars
  <2>1. /\ UNCHANGED <<plan, copies, lags, fs, now, pc, ret, cursor, outcome>>
        /\ Executed' = Executed /\ OnTrack' = OnTrack
    BY <1>1 DEF vars, session, disk, Executed, OnTrack, Next1
  <2>2. CASE OnTrack
    <3>1. /\ \A c \in copies : /\ pc \in {"loop", "sleep", "batch", "record", "copies", "lags"}
                               /\ pc = "lags" \/ (pc = "record" /\ ret = "lags") => lags # {}
          /\ pc \in {"idle", "restore", "metadata", "done"} => copies = {} /\ lags = {}
      BY <2>2 DEF CopyInv, StandsOpen, OnTrack
    <3> QED BY <2>1, <2>2, <3>1, QuietKeepsCopies
  <2>3. CASE ~OnTrack
    <3>1. pc # "stopped" => copies = {}
      BY <1>0, <2>3 DEF CopyInv, StandsOpen, OnTrack, RunningPc
    <3> QED BY <2>1, <2>3, <3>1 DEF CopyInv
  <2> QED BY <2>2, <2>3
<1>2. CASE Tick
  <2>1. /\ UNCHANGED <<plan, copies, lags, fs, pc, ret, cursor, outcome>> /\ now' = now + 1
        /\ Executed' = Executed /\ OnTrack' = OnTrack
        /\ Journal' = Journal /\ \A i : Entry(i)' = Entry(i)
    BY <1>2 DEF Tick, session, disk, Executed, OnTrack, Next1, Journal, Entry
  <2>2. ASSUME NEW c \in copies, pc # "stopped" PROVE StandsOpen(c)'
    <3>1. StandsOpen(c)
      BY <2>2 DEF CopyInv
    <3>2. now \in Nat /\ now' \in Nat /\ now <= now'
      BY <2>1 DEF TypeInv, TypeOK
    <3>3. /\ LogicalNow(now) \in Nat /\ LogicalNow(now') \in Nat
          /\ LogicalNow(now) <= LogicalNow(now')
      BY <3>2, LogicalNowTyped, LogicalNowMonotone
    <3>4. /\ c \in [start : DOMAIN Journal, source : File] /\ Entry(c.start).act = "slow_copy_start"
      BY DEF TypeInv, TypeOK
    <3>5. /\ VisibleSize(c, LogicalNow(now)) \in 0..FileBytes
          /\ VisibleSize(c, LogicalNow(now')) \in 0..FileBytes
          /\ VisibleSize(c, LogicalNow(now)) <= VisibleSize(c, LogicalNow(now'))
      BY <3>3, <3>4, VisibleSizeTyped, VisibleSizeMonotone DEF TypeInv
    <3>6. VisibleSize(c, LogicalNow(now))' = VisibleSize(c, LogicalNow(now'))
      BY <2>1 DEF VisibleSize, LogicalNow, CommitOf, Entry, Journal
    <3>7. \A temp : CanGrow(fs, temp)' = CanGrow(fs, temp)
      BY <2>1 DEF CanGrow, CanWrite, CanLink, Reachable, Present
    <3>8. LET temp == Entry(c.start).temp
          IN  fs.files[temp].bytes \in Nat /\ fs.files[temp].bytes <= VisibleSize(c, LogicalNow(now))
      <4>1. Entry(c.start).temp \in Paths
        BY <3>4, PlanTyped DEF TypeInv, JournalEntries, CarriesPaths
      <4>2. Present(fs, Entry(c.start).temp)
        BY <3>1 DEF StandsOpen, CanGrow
      <4>3. fs.files[Entry(c.start).temp] \in File
        BY <4>1, <4>2 DEF TypeInv, TypeOK, FileSystem, Present
      <4> QED BY <3>1, <4>3, LibraryAssumption DEF StandsOpen, File
    <3>9. LET temp == Entry(c.start).temp
          IN  fs.files[temp].bytes <= VisibleSize(c, LogicalNow(now'))
      BY <3>5, <3>8
    <3> QED BY <2>1, <3>1, <3>6, <3>7, <3>9 DEF StandsOpen
  <2>3. Temps' = Temps
    BY <2>1 DEF Temps
  <2> QED BY <2>1, <2>2, <2>3 DEF CopyInv, WholeAt, CacheWhole, Present
<1>3. CASE RunDue \/ FinishSlowCopy \/ FinishLag
  BY <1>0, <1>3, HandlerKeepsCopies
<1>4. CASE TurnDeadline \/ TurnDue \/ TurnSleep
  <2> DEFINE g == Grown(LogicalNow(now))
  <2>1. /\ UNCHANGED <<plan, copies, lags, now, cursor, outcome>>
        /\ pc = "loop" /\ fs' = g.fs /\ (g.ok => pc' \in {"copies", "batch", "sleep"})
    BY <1>4 DEF TurnDeadline, TurnDue, TurnSleep, Turn, Proceed, session
  <2>2. OnTrack
    BY <1>0, <2>1 DEF OnTrack, RunningPc
  <2>3. /\ g.ok /\ WholeAt(g.fs, Paths \ Temps) /\ CacheWhole(g.fs)
        /\ \A c \in copies :
                /\ CanGrow(g.fs, Entry(c.start).temp)
                /\ g.fs.files[Entry(c.start).temp].bytes = VisibleSize(c, LogicalNow(now))
    BY <2>1, <2>2, GrowthKeepsWhole
  <2> HIDE DEF g
  <2>4. /\ Executed' = Executed /\ OnTrack' /\ Journal' = Journal /\ \A i : Entry(i)' = Entry(i)
        /\ pc' \in {"copies", "batch", "sleep"}
    BY <1>0, <2>1, <2>2, <2>3 DEF Executed, OnTrack, Next1, Journal, Entry
  <2>5. ASSUME NEW c \in copies PROVE StandsOpen(c)'
    <3>1. StandsOpen(c)
      BY <2>1 DEF CopyInv
    <3>2. VisibleSize(c, LogicalNow(now))' = VisibleSize(c, LogicalNow(now))
      BY <2>1 DEF VisibleSize, LogicalNow, CommitOf, Entry, Journal
    <3>3. CanGrow(fs, Entry(c.start).temp)'
      BY <2>1, <2>3, <2>4 DEF CanGrow, CanWrite, CanLink, Reachable, Present
    <3>4. VisibleSize(c, LogicalNow(now)) \in 0..FileBytes
      BY LogicalNowTyped, VisibleSizeTyped DEF TypeInv, TypeOK
    <3>5. LET temp == Entry(c.start).temp IN fs'.files[temp].bytes <= VisibleSize(c, LogicalNow(now))
      BY <2>1, <2>3, <3>4
    <3> QED BY <2>1, <2>4, <3>1, <3>2, <3>3, <3>5 DEF StandsOpen
  <2>6. Temps' = Temps
    BY <2>1, <2>4 DEF Temps
  <2>7. WholeAt(fs, Paths \ Temps)' /\ CacheWhole(fs)'
    BY <2>1, <2>3, <2>6 DEF WholeAt, CacheWhole, Present
  <2> QED BY <2>1, <2>2, <2>4, <2>5, <2>7 DEF CopyInv
<1>5. CASE Record
  <2>1. /\ UNCHANGED <<plan, copies, lags, fs, now, outcome>> /\ pc = "record" /\ OnTrack
        /\ pc' = ret /\ ret' = ret /\ ret \in {"batch", "copies", "lags"} /\ Executed' = Executed
    BY <1>0, <1>5 DEF Record, session, Executed, Next1, OnTrack, RunningPc, TypeInv, TypeOK
  <2>2. \A c \in copies : ret = "lags" => lags # {}
    BY <2>1 DEF CopyInv, StandsOpen
  <2> QED BY <2>1, <2>2, QuietKeepsCopies
<1>6. CASE LoopEnds \/ Wake \/ BatchEnds \/ Publish
  <2>1. /\ UNCHANGED <<plan, copies, lags, fs, now, outcome, cursor>>
        /\ pc \in {"loop", "sleep", "batch", "baseline"} /\ pc' \in {"copies", "loop"}
    BY <1>6 DEF LoopEnds, Wake, BatchEnds, Publish, session, disk
  <2>2. OnTrack /\ Executed' = Executed
    BY <1>0, <2>1 DEF Executed, OnTrack, RunningPc
  <2> QED BY <2>1, <2>2, QuietKeepsCopies
<1>7. CASE SlowCopiesFinished \/ LagsFinished \/ IdleOut \/ Succeeds
  <2>1. /\ UNCHANGED <<plan, copies, lags, fs, now, cursor>> /\ OnTrack
        /\ pc' \in {"lags", "idle", "restore", "metadata"}
        /\ pc \in {"copies", "lags", "idle", "restore"} /\ Executed' = Executed
    BY <1>0, <1>7 DEF SlowCopiesFinished, LagsFinished, IdleOut, Succeeds, session, disk, Executed,
                      OnTrack, RunningPc
  <2>2. copies = {}
    <3>1. CASE SlowCopiesFinished
      BY <2>1, <3>1, OpenCopyIsNext DEF SlowCopiesFinished
    <3>2. CASE LagsFinished
      <4>1. ASSUME NEW c \in copies PROVE FALSE
        <5>1. HasNext /\ lags # {}
          BY <2>1, <3>2, OpenCopyIsNext DEF LagsFinished, CopyInv, StandsOpen
        <5> QED BY <3>2, <5>1 DEF LagsFinished, HeadBelongsToLag
      <4> QED BY <4>1
    <3>3. CASE IdleOut \/ Succeeds
      BY <2>1, <3>3 DEF IdleOut, Succeeds, CopyInv
    <3> QED BY <1>7, <3>1, <3>2, <3>3
  <2>3. pc' \in {"idle", "restore", "metadata"} => lags = {}
    <3>1. CASE SlowCopiesFinished
      BY <3>1 DEF SlowCopiesFinished
    <3>2. CASE LagsFinished
      BY <3>2, NothingOpenAtEnd DEF LagsFinished, HeadBelongsToLag, WindowInv
    <3>3. CASE IdleOut \/ Succeeds
      BY <2>1, <3>3 DEF IdleOut, Succeeds, CopyInv
    <3> QED BY <1>7, <3>1, <3>2, <3>3
  <2> QED BY <2>1, <2>2, <2>3, QuietKeepsCopies
<1>8. CASE WriteMetadata \/ Seal
  <2>1. /\ UNCHANGED <<plan, copies, lags, fs, now, cursor, outcome>>
        /\ pc = "metadata" /\ pc' \in {"metadata", "done"} /\ Executed' = Executed
    BY <1>8 DEF WriteMetadata, Seal, session, Executed
  <2>2. CASE OnTrack
    <3>1. copies = {} /\ lags = {}
      BY <2>1, <2>2 DEF CopyInv
    <3> QED BY <2>1, <2>2, <3>1, QuietKeepsCopies
  <2>3. CASE ~OnTrack
    <3>1. copies = {}
      BY <2>1 DEF CopyInv, StandsOpen
    <3> QED BY <2>1, <2>3, <3>1 DEF CopyInv, OnTrack
  <2> QED BY <2>2, <2>3
<1>9. CASE RestoreMode
  <2>1. /\ UNCHANGED <<plan, copies, lags, now, cursor, outcome, pc>> /\ Executed' = Executed
        /\ pc \in {"restore", "failing"} /\ fs' = RestoreOne(fs, chaos.captured)
        /\ chaos.captured # <<>>
    BY <1>9 DEF RestoreMode, Finalizing, HasCaptured, Executed, Next1
  <2>2. copies = {}
    BY <2>1 DEF CopyInv, StandsOpen
  <2>3. CASE OnTrack
    <3>1. WholeAt(fs, Paths) /\ CacheWhole(fs)
      BY <2>2, <2>3 DEF CopyInv, Temps
    <3>2. chaos.captured \in Seq(CapturedMode) /\ fs \in FileSystem
      BY DEF TypeInv, TypeOK, CapturedMode
    <3>3. Head(chaos.captured) \in CapturedMode
      BY <2>1, <3>2
    <3>4. Head(chaos.captured).mode \in Mode
      BY <3>3 DEF CapturedMode
    <3>5. WholeAt(fs', Paths) /\ CacheWhole(fs')
      BY <2>1, <3>1, <3>2, <3>4, ChmodWhole DEF RestoreOne
    <3>6. WholeAt(fs, Paths \ Temps)' /\ CacheWhole(fs)'
      BY <3>5 DEF WholeAt, CacheWhole, Present
    <3>7. Journal' = Journal /\ \A i : Entry(i)' = Entry(i)
      BY <2>1 DEF Journal, Entry
    <3> QED BY <2>1, <2>2, <2>3, <3>6, <3>7 DEF CopyInv, OnTrack
  <2>4. CASE ~OnTrack
    BY <2>1, <2>2, <2>4 DEF CopyInv, OnTrack
  <2> QED BY <2>3, <2>4
<1>10. CASE RestoreBreaks \/ WipeLibrary \/ WriteFault
  <2>1. \/ pc' = "stopped"
        \/ copies' = copies /\ pc' = "failing" /\ pc = "restore"
        \/ copies' = copies /\ pc' = "metadata" /\ pc = "failing" /\ outcome' = "failed"
    BY <1>10 DEF RestoreBreaks, WipeLibrary, WriteFault, Propagates, Finalizing, session
  <2>2. pc \in {"restore", "failing"} => copies = {}
    BY DEF CopyInv, StandsOpen
  <2> QED BY <2>1, <2>2 DEF CopyInv, OnTrack
<1> QED BY <1>1, <1>2, <1>3, <1>4, <1>5, <1>6, <1>7, <1>8, <1>9, <1>10 DEF Next, Step, Stopped

THEOREM CopyInvariant ==
  ASSUME CopiesNotWrapped
  PROVE  Spec => [](TypeInv /\ DirectoryInv /\ EndInv /\ WindowInv /\ CopyInv)
<1>1. Init => CopyInv
  BY CopiesInitially
<1>2. TypeInv /\ WindowInv /\ EndInv /\ CopyInv /\ [Next]_vars => CopyInv'
  BY CopiesInductive
<1> QED BY <1>1, <1>2, EndInvariant, WindowInvariant, PTL DEF Spec

\* A sealed run directory describes itself, wherever the deadline fell, whatever
\* was withheld and whichever call failed: a success has no session open and no
\* file that is not whole, a failure has no library, and the journal on disk is
\* what was executed.
THEOREM SealedRunsAreWhole ==
  ASSUME CopiesNotWrapped
  PROVE  Spec => []SealedIsWhole
<1>1. DirectoryInv /\ EndInv /\ CopyInv => SealedIsWhole
  <2> SUFFICES ASSUME DirectoryInv, EndInv, CopyInv, Sealed
               PROVE  SealedIsWhole
    BY DEF SealedIsWhole
  <2>1. /\ pc = "done" /\ meta = "final" /\ chaos.captured = <<>>
        /\ outcome = "failed" => \A p \in Paths : ~Present(fs, p)
        /\ rows = [k \in 1..cursor |-> k]
    BY DEF EndInv, DirectoryInv
  <2>2. CASE outcome = "success"
    <3>1. OnTrack
      BY <2>1, <2>2 DEF OnTrack
    <3>2. copies = {} /\ lags = {} /\ WholeAt(fs, Paths \ Temps)
      BY <2>1, <3>1 DEF CopyInv
    <3>3. Temps = {}
      BY <3>2 DEF Temps
    <3> QED BY <2>1, <2>2, <3>2, <3>3 DEF SealedIsWhole, WholeAt
  <2> QED BY <2>1, <2>2 DEF SealedIsWhole
<1> QED BY <1>1, CopyInvariant, PTL

\* While a slow copy stays open only the readings of the clock touch the tree.
LEMMA OpenCopySteps ==
  ASSUME CopiesNotWrapped, TypeInv, WindowInv, EndInv, CopyInv, Next,
         NEW c \in copies \cap copies', pc # "stopped"
  PROVE  \/ UNCHANGED fs
         \/ pc = "loop" /\ fs' = Grown(LogicalNow(now)).fs
<1>1. StandsOpen(c)
  BY DEF CopyInv
<1>2. pc \in {"loop", "sleep", "batch", "record", "copies", "lags"}
  BY <1>1 DEF StandsOpen
<1>3. ~(RunDue \/ FinishSlowCopy \/ FinishLag)
  <2> SUFFICES ASSUME RunDue \/ FinishSlowCopy \/ FinishLag PROVE FALSE
    OBVIOUS
  <2>1. pc \in {"batch", "copies", "lags"}
    BY HandlerRuns
  <2>2. PICK tree \in FileSystem :
          /\ Execute(tree, Next1)
          /\ tree.pending = {} /\ WholeAt(tree, Paths \ Temps) /\ CacheWhole(tree)
    BY HandlerRuns
  <2>3. /\ copies = {c} /\ c.start = cursor /\ c.source.bytes = FileBytes
        /\ Temps = {Entry(c.start).temp}
    BY <2>1, OpenCopyIsNext
  <2>4. copies' = {}
    BY <2>2, <2>3, CommitCompletes
  <2> QED BY <2>4
<1>4. CASE TurnDeadline \/ TurnDue \/ TurnSleep
  BY <1>4 DEF TurnDeadline, TurnDue, TurnSleep, Turn, Proceed
<1> QED BY <1>2, <1>3, <1>4
        DEF Next, Step, Tick, Publish, LoopEnds, Wake, BatchEnds, Record, SlowCopiesFinished,
            LagsFinished, IdleOut, RestoreMode, RestoreBreaks, Succeeds, WipeLibrary, WriteMetadata,
            Seal, Finalizing, WriteFault, Propagates, Stopped, vars, disk

\* The temporary file of a slow copy never shrinks, is whole only once its commit
\* is due, and the source stays as it was: nothing else runs while it is open.
THEOREM SlowCopiesGrow ==
  ASSUME CopiesNotWrapped
  PROVE  Spec => SlowCopyGrows
<1> DEFINE Grows(c) ==
             LET e == Entry(c.start)
             IN  fs'.files[e.temp] # NoFile =>
                 /\ fs.files[e.temp].bytes <= fs'.files[e.temp].bytes
                 /\ fs'.files[e.temp].bytes = FileBytes =>
                        LogicalNow(now) >= Entry(CommitOf(c.start)).at
                 /\ fs'.files[e.from] = fs.files[e.from]
<1>1. TypeInv /\ WindowInv /\ EndInv /\ CopyInv /\ [Next]_vars =>
        [\A c \in copies \cap copies' : Grows(c)]_vars
  <2> SUFFICES ASSUME TypeInv, WindowInv, EndInv, CopyInv, Next, vars' # vars,
                      NEW c \in copies \cap copies'
               PROVE  Grows(c)
    OBVIOUS
  <2> DEFINE e       == Entry(c.start)
             logical == LogicalNow(now)
  <2>1. pc # "stopped"
    BY DEF Next, Step, Stopped, Publish, TurnDeadline, TurnDue, TurnSleep, Turn, LoopEnds, Wake,
           RunDue, BatchEnds, Record, FinishSlowCopy, SlowCopiesFinished, FinishLag, LagsFinished,
           IdleOut, RestoreMode, RestoreBreaks, Succeeds, WipeLibrary, WriteMetadata, Seal,
           Finalizing, Tick, WriteFault
  <2>2. StandsOpen(c)
    BY <2>1 DEF CopyInv
  <2>3. /\ c \in [start : DOMAIN Journal, source : File] /\ e.act = "slow_copy_start"
        /\ fs \in FileSystem /\ logical \in Nat
    BY LogicalNowTyped DEF TypeInv, TypeOK
  <2>4. e.temp \in Paths /\ e.from \in Paths /\ e.temp # e.from
    BY <2>3, PlanTyped DEF TypeInv, JournalEntries, CarriesPaths, LocationActions, WellPaired, Entry
  <2>5. VisibleSize(c, logical) \in 0..FileBytes
    BY <2>3, VisibleSizeTyped DEF TypeInv
  <2>6. fs.files[e.temp].bytes \in Nat /\ fs.files[e.temp].bytes <= VisibleSize(c, logical)
    <3>1. Present(fs, e.temp)
      BY <2>2 DEF StandsOpen, CanGrow
    <3>2. fs.files[e.temp] \in File
      BY <2>3, <2>4, <3>1 DEF FileSystem, Present
    <3> QED BY <2>2, <3>2, LibraryAssumption DEF StandsOpen, File
  <2>7. VisibleSize(c, logical) >= FileBytes => logical >= Entry(CommitOf(c.start)).at
    BY <2>2, <2>3, WholeWhenDue DEF TypeInv, StandsOpen
  <2>8. CASE UNCHANGED fs
    <3>1. fs.files[e.temp].bytes = FileBytes => VisibleSize(c, logical) >= FileBytes
      BY <2>5, <2>6, LibraryAssumption
    <3>2. fs.files[e.temp].bytes <= fs.files[e.temp].bytes
      BY <2>6
    <3> QED BY <2>7, <2>8, <3>1, <3>2
  <2>9. CASE pc = "loop" /\ fs' = Grown(logical).fs
    <3>1. OnTrack /\ pc # "record"
      BY <2>9 DEF OnTrack, EndInv, RunningPc
    <3>2. /\ fs'.files[e.temp].bytes = VisibleSize(c, logical)
          /\ \A p \in Paths \ Temps : fs'.files[p] = fs.files[p]
      BY <2>9, <3>1, GrowthKeepsWhole
    <3>3. Temps = {e.temp}
      BY <2>2 DEF StandsOpen, Temps
    <3>4. fs'.files[e.from] = fs.files[e.from]
      BY <2>4, <3>2, <3>3
    <3>5. fs'.files[e.temp].bytes = FileBytes => VisibleSize(c, logical) >= FileBytes
      BY <2>5, <3>2, LibraryAssumption
    <3> QED BY <2>6, <2>7, <3>2, <3>4, <3>5
  <2> QED BY <2>1, <2>8, <2>9, OpenCopySteps
<1> QED BY <1>1, CopyInvariant, PTL DEF Spec, SlowCopyGrows

(***************************************************************************)
(* The windows that the runner holds open are those the checks of a replay *)
(* count as open in the executed prefix.                                   *)
(***************************************************************************)

\* Windows of a kind that are open after the first n entries
OpenAfter(start, commit, n) ==
    {s \in 1..n : /\ Entry(s).act = start
                  /\ \A c \in (s + 1)..n : ~(Entry(c).act = commit /\ Entry(c).ref = s)}

OpenInv == OnTrack => /\ lags = OpenAfter("network_lag_start", "network_lag_commit", Executed)
                      /\ chaos.open = OpenAfter("acquire_lock", "release_lock", Executed)

LEMMA OpenAfterIsOpenBefore ==
  ASSUME NEW n \in Nat
  PROVE  /\ OpenLagsBefore(Journal, n + 1) = OpenAfter("network_lag_start", "network_lag_commit", n)
         /\ OpenLocksBefore(Journal, n + 1) = OpenAfter("acquire_lock", "release_lock", n)
<1>1. (n + 1) - 1 = n /\ \A s \in 1..n : s < n + 1
  OBVIOUS
<1> QED BY <1>1 DEF OpenLagsBefore, OpenLocksBefore, OpenBefore, OpenAfter, Is, Entry

LEMMA OpenAfterNext ==
  ASSUME NEW n \in Nat, NEW start, NEW commit, start # commit
  PROVE  OpenAfter(start, commit, n + 1) =
           (OpenAfter(start, commit, n) \cup (IF Entry(n + 1).act = start THEN {n + 1} ELSE {}))
              \ (IF Entry(n + 1).act = commit THEN {Entry(n + 1).ref} ELSE {})
<1>1. \A s \in 1..n : (s + 1)..(n + 1) = ((s + 1)..n) \cup {n + 1}
  OBVIOUS
<1>2. ((n + 1) + 1)..(n + 1) = {} /\ 1..(n + 1) = (1..n) \cup {n + 1} /\ n + 1 \notin 1..n
  OBVIOUS
<1> DEFINE stays(s, m) == \A c \in (s + 1)..m : ~(Entry(c).act = commit /\ Entry(c).ref = s)
<1>3. \A s \in 1..n : stays(s, n + 1) <=>
          stays(s, n) /\ ~(Entry(n + 1).act = commit /\ Entry(n + 1).ref = s)
  BY <1>1
<1>4. stays(n + 1, n + 1)
  BY <1>2
<1>5. \A m : OpenAfter(start, commit, m) = {s \in 1..m : Entry(s).act = start /\ stays(s, m)}
  BY DEF OpenAfter
<1> HIDE DEF stays
<1> QED BY <1>2, <1>3, <1>4, <1>5

LEMMA HandlerKeepsOpen ==
  ASSUME TypeInv, OpenInv, OnTrack, pc # "record", HasNext, NEW tree, Execute(tree, Next1),
         pc' = "record"
  PROVE  OpenInv'
<1> USE PlanTyped DEF TypeInv, TypeOK
<1> DEFINE e == Entry(Next1)
<1>1. /\ Next1 \in DOMAIN Journal /\ cursor \in Nat /\ Next1 = cursor + 1
      /\ Executed = cursor /\ Executed' = Next1 /\ \A i : Entry(i)' = Entry(i)
  BY DEF HasNext, Next1, Executed, Execute, Entry, Journal
<1>2. ASSUME NEW s, s \in LagOver(Next1)
      PROVE  e.act \in DelayedVisibilityAfter \cup DelayedRenameAfter
  BY <1>2 DEF LagOver, WellPaired, Entry
<1>3. /\ lags' = (lags \cup (IF e.act = "network_lag_start" THEN {Next1} ELSE {}))
                    \ (IF e.act = "network_lag_commit" THEN {e.ref} ELSE {})
      /\ chaos'.open = (chaos.open \cup (IF e.act = "acquire_lock" THEN {Next1} ELSE {}))
                          \ (IF e.act = "release_lock" THEN {e.ref} ELSE {})
  <2>1. CASE Withhold(tree, Next1)
    <3>1. e.act \in DelayedVisibilityAfter \cup DelayedRenameAfter
      BY <1>2, <2>1 DEF Withhold
    <3> QED BY <2>1, <3>1 DEF Withhold, DelayedVisibilityAfter, DelayedRenameAfter
  <2>2. CASE StartSlowCopy(tree, Next1) \/ CommitSlowCopy(tree, Next1)
    BY <2>2 DEF StartSlowCopy, CommitSlowCopy
  <2>3. CASE StartLag(tree, Next1) \/ CommitLag(tree, Next1)
    BY <2>3 DEF StartLag, CommitLag
  <2>4. CASE RealizeChaos(tree, Next1)
    <3> DEFINE r == Realize(tree, chaos, Next1, e)
    <3>1. /\ lags' = lags /\ chaos' = r.chaos
          /\ e.act \in ChaosOpenActions \cup ChaosCloseActions
      BY <2>4 DEF RealizeChaos
    <3>2. CASE e.act = "acquire_lock"
      BY <3>1, <3>2 DEF Realize
    <3>3. CASE e.act = "release_lock"
      BY <3>1, <3>3 DEF Realize
    <3>4. CASE e.act \notin {"acquire_lock", "release_lock"}
      <4>1. r.chaos.open = chaos.open
        <5>1. CASE ExistsRaises(tree, e.target)
          <6>1. ~Exists(tree, e.target)
            BY <5>1, LibraryAssumption DEF Exists, ExistsRaises, StatBlocked
          <6> QED BY <3>4, <5>1, <6>1 DEF Realize
        <5>2. CASE ~ExistsRaises(tree, e.target)
          BY <3>4, <5>2 DEF Realize
        <5> QED BY <5>1, <5>2
      <4> QED BY <3>1, <3>4, <4>1 DEF ChaosOpenActions, ChaosCloseActions
    <3> QED BY <3>2, <3>3, <3>4
  <2>5. CASE DispatchPhaseB(tree, Next1)
    BY <2>5 DEF DispatchPhaseB, session, PhaseBActions, MediaActions
  <2> QED BY <2>1, <2>2, <2>3, <2>4, <2>5 DEF Execute
<1>4. /\ OpenAfter("network_lag_start", "network_lag_commit", Executed)' =
             OpenAfter("network_lag_start", "network_lag_commit", Next1)
      /\ OpenAfter("acquire_lock", "release_lock", Executed)' =
             OpenAfter("acquire_lock", "release_lock", Next1)
  BY <1>1 DEF OpenAfter
<1>5. /\ lags = OpenAfter("network_lag_start", "network_lag_commit", cursor)
      /\ chaos.open = OpenAfter("acquire_lock", "release_lock", cursor)
  BY <1>1 DEF OpenInv
<1> QED BY <1>1, <1>3, <1>4, <1>5, OpenAfterNext DEF OpenInv

LEMMA OpenInitially ==
  ASSUME Init
  PROVE  OpenInv
<1>1. Executed = 0 /\ lags = {} /\ chaos.open = {}
  BY DEF Init, Executed, NoChaos
<1>2. \A start, commit : OpenAfter(start, commit, 0) = {}
  BY DEF OpenAfter
<1> QED BY <1>1, <1>2 DEF OpenInv

LEMMA OpenInductive ==
  ASSUME TypeInv, EndInv, OpenInv, [Next]_vars
  PROVE  OpenInv'
<1>1. ASSUME UNCHANGED <<plan, lags, chaos.open>>, Executed' = Executed, OnTrack
      PROVE  OpenInv'
  BY <1>1 DEF OpenInv, OpenAfter, Entry, Journal
<1>2. CASE ~OnTrack'
  BY <1>2 DEF OpenInv
<1>3. CASE UNCHANGED vars /\ OnTrack'
  BY <1>1, <1>3 DEF vars, session, disk, Executed, Next1, OnTrack
<1>4. CASE Tick /\ OnTrack'
  BY <1>1, <1>4 DEF Tick, session, disk, Executed, Next1, OnTrack
<1>5. CASE (RunDue \/ FinishSlowCopy \/ FinishLag) /\ OnTrack'
  <2>1. pc' = "record"
    BY <1>5, HandlerProceeds DEF OnTrack
  <2>2. pc \in {"batch", "copies", "lags"}
    BY <1>5 DEF RunDue, FinishSlowCopy, FinishLag
  <2>3. OnTrack /\ pc # "record"
    BY <2>2 DEF EndInv, RunningPc, OnTrack
  <2>4. HasNext
    BY <1>5, PlanTyped DEF RunDue, FinishSlowCopy, FinishLag, HeadFinishesCopy, HeadBelongsToLag,
                           HasNext, TypeInv, TypeOK
  <2>5. \E tree : Execute(tree, Next1)
    BY <1>5, <2>1 DEF RunDue, FinishSlowCopy, FinishLag, Proceed
  <2> QED BY <2>1, <2>3, <2>4, <2>5, HandlerKeepsOpen
<1>6. CASE (TurnDeadline \/ TurnDue \/ TurnSleep) /\ OnTrack'
  BY <1>1, <1>6 DEF TurnDeadline, TurnDue, TurnSleep, Turn, Proceed, session, Executed, OnTrack,
                    EndInv, RunningPc
<1>7. CASE Record
  <2>1. /\ UNCHANGED <<plan, lags, chaos>> /\ pc = "record" /\ pc' = ret /\ cursor' = cursor + 1
        /\ ret \in {"batch", "copies", "lags"}
    BY <1>7 DEF Record, session, TypeInv, TypeOK
  <2>2. Executed' = Executed /\ OnTrack
    BY <2>1 DEF Executed, Next1, OnTrack, EndInv, RunningPc
  <2> QED BY <1>1, <2>1, <2>2
<1>8. CASE (LoopEnds \/ Wake \/ BatchEnds \/ Publish \/ SlowCopiesFinished \/ LagsFinished \/ IdleOut)
           /\ OnTrack'
  <2>1. /\ UNCHANGED <<plan, lags, chaos, cursor, outcome>>
        /\ pc \in {"loop", "sleep", "batch", "baseline", "copies", "lags", "idle"}
        /\ pc' \in {"copies", "loop", "lags", "idle", "restore"}
    BY <1>8 DEF LoopEnds, Wake, BatchEnds, Publish, SlowCopiesFinished, LagsFinished, IdleOut, session,
                disk
  <2>2. Executed' = Executed /\ OnTrack
    BY <1>8, <2>1 DEF Executed, OnTrack
  <2> QED BY <1>1, <2>1, <2>2
<1>9. CASE (Succeeds \/ WriteMetadata \/ Seal) /\ OnTrack'
  <2>1. /\ UNCHANGED <<plan, lags, chaos, cursor>> /\ pc \in {"restore", "metadata"}
        /\ pc' \in {"metadata", "done"} /\ (pc = "metadata" => outcome' = outcome)
    BY <1>9 DEF Succeeds, WriteMetadata, Seal, session
  <2>2. Executed' = Executed /\ OnTrack
    BY <1>9, <2>1 DEF Executed, OnTrack, EndInv, RunningPc
  <2> QED BY <1>1, <2>1, <2>2
<1>10. CASE RestoreMode /\ OnTrack'
  <2>1. /\ UNCHANGED <<plan, lags, cursor, pc, outcome>> /\ pc \in {"restore", "failing"}
        /\ chaos'.open = chaos.open
    BY <1>10 DEF RestoreMode, Finalizing, TypeInv, TypeOK
  <2>2. Executed' = Executed /\ OnTrack
    BY <1>10, <2>1 DEF Executed, OnTrack
  <2> QED BY <1>1, <2>1, <2>2
<1>11. CASE (RestoreBreaks \/ WipeLibrary \/ WriteFault) /\ OnTrack'
  BY <1>11 DEF RestoreBreaks, WipeLibrary, WriteFault, Propagates, Finalizing, OnTrack
<1> QED BY <1>2, <1>3, <1>4, <1>5, <1>6, <1>7, <1>8, <1>9, <1>10, <1>11 DEF Next, Step, Stopped

THEOREM OpenInvariant == Spec => []OpenInv
<1>1. TypeInv /\ EndInv /\ OpenInv /\ [Next]_vars => OpenInv'
  BY OpenInductive
<1>2. Init => OpenInv
  BY OpenInitially
<1> QED BY <1>1, <1>2, EndInvariant, PTL DEF Spec

\* A successful run stands on a step boundary of its journal with every lag
\* closed, so only a lock that is still held makes replay refuse its bundle.
THEOREM OnlyLocksRefuse ==
  ASSUME CopiesNotWrapped
  PROVE  Spec => [](Succeeded => (Accepted(Journal, cursor) <=> chaos.open = {}))
<1>1. TypeInv /\ EndInv /\ CopyInv /\ OpenInv =>
        (Succeeded => (Accepted(Journal, cursor) <=> chaos.open = {}))
  <2> SUFFICES ASSUME TypeInv, EndInv, CopyInv, OpenInv, Succeeded
               PROVE  Accepted(Journal, cursor) <=> chaos.open = {}
    OBVIOUS
  <2>1. pc = "done" /\ OnTrack /\ Executed = cursor
    BY DEF EndInv, Succeeded, OnTrack, Executed
  <2>2. copies = {} /\ lags = {} /\ cursor \in Nat /\ cursor \in 0..Len(Journal)
    BY <2>1, PlanTyped DEF CopyInv, TypeInv, TypeOK
  <2>3. cursor \in StepBoundaries(Journal)
    <3>1. cursor \in DOMAIN Journal => ~Is(Journal, cursor, "slow_copy_start")
      BY <2>1, <2>2 DEF CopyInv, Entry, Is
    <3>2. cursor \in 1..(Len(Journal) - 1) => cursor \in DOMAIN Journal
      BY PlanTyped DEF TypeInv
    <3> QED BY <2>2, <3>1, <3>2 DEF StepBoundaries
  <2>4. /\ OpenLagsBefore(Journal, cursor + 1) = {}
        /\ OpenLocksBefore(Journal, cursor + 1) = chaos.open
    BY <2>1, <2>2, OpenAfterIsOpenBefore DEF OpenInv
  <2> QED BY <2>3, <2>4 DEF Accepted, PairedPrefix
<1> QED BY <1>1, OpenInvariant, CopyInvariant, PTL

\* A run of a plan without lock windows leaves a bundle that replay accepts,
\* wherever its deadline fell.
THEOREM BundlesAreAccepted ==
  ASSUME CopiesNotWrapped, NoLockWindows
  PROVE  Spec => []BundleIsAccepted
<1>1. TypeInv /\ OpenInv /\ OnTrack => chaos.open = {}
  <2> SUFFICES ASSUME TypeInv, OpenInv, OnTrack, NEW s \in chaos.open PROVE FALSE
    OBVIOUS
  <2>1. s \in DOMAIN Journal
    BY DEF TypeInv, TypeOK
  <2>2. Entry(s).act = "acquire_lock"
    BY DEF OpenInv, OpenAfter
  <2> QED BY <2>1, <2>2 DEF NoLockWindows, TypeInv, Is, Entry, Journal
<1>2. EndInv /\ Succeeded => OnTrack
  BY DEF EndInv, Succeeded, OnTrack
<1>3. TypeInv /\ EndInv /\ OpenInv /\ (Succeeded => (Accepted(Journal, cursor) <=> chaos.open = {}))
        => BundleIsAccepted
  BY <1>1, <1>2 DEF BundleIsAccepted
<1> QED BY <1>3, EndInvariant, OpenInvariant, OnlyLocksRefuse, PTL
=============================================================================
