--------------------------- MODULE EmissionProofs ---------------------------
(***************************************************************************)
(* Proofs about files that are written one after the other.  First a       *)
(* plan-only fixture that is stepped and interrupted, for every plan,      *)
(* every set of reports and every number of interruptions; then batches    *)
(* and imports that share a directory, for every number of them, every     *)
(* overlap of their names and media files, and every number of kills.      *)
(***************************************************************************)
EXTENDS Outputs, WellFoundedInduction, TLAPS

\* What the CHOOSE of Cursor rests on: a least element exists.
LEMMA LeastElement ==
  ASSUME NEW S \in SUBSET Nat, S # {}
  PROVE  \E x \in S : \A y \in S : x <= y
<1> DEFINE R == {p \in Nat \X Nat : p[1] < p[2]}
<1>1. R = OpToRel(<, Nat)
  BY Zenon DEF OpToRel
<1>2. IsWellFoundedOn(R, Nat)
  BY NatLessThanWellFounded, <1>1, Zenon
<1>3. \A x, y \in Nat : y < x => <<y, x>> \in R
  OBVIOUS
<1> HIDE DEF R
<1>4. PICK x \in S : \A y \in S : ~(<<y, x>> \in R)
  BY <1>2, WFMin
<1>5. \A y \in S : x <= y
  <2> TAKE y \in S
  <2>1. x \in Nat /\ y \in Nat
    OBVIOUS
  <2>2. ~(y < x)
    BY <1>3, <1>4, <2>1
  <2> QED BY <2>1, <2>2
<1> QED BY <1>5

(***************************************************************************)
(* The boundaries of the plan.                                             *)
(***************************************************************************)

LEMMA BoundaryTyped ==
  ASSUME NEW u \in 0..Units
  PROVE  Boundary[u] \in Nat
  BY PlanAssumption

\* A later step unit has more entries: a least counterexample would differ
\* from its predecessor by less than one entry.
LEMMA BoundaryIncreases ==
  ASSUME NEW u \in 0..Units, NEW v \in 0..Units, u < v
  PROVE  Boundary[u] < Boundary[v]
<1> DEFINE Bad == {w \in 0..Units : u < w /\ ~(Boundary[u] < Boundary[w])}
<1>1. SUFFICES ASSUME Bad # {} PROVE FALSE
  OBVIOUS
<1>2. Bad \in SUBSET Nat
  BY PlanAssumption
<1>3. PICK w \in Bad : \A x \in Bad : w <= x
  BY <1>1, <1>2, LeastElement
<1>4. /\ w \in 1..Units /\ w - 1 \in 0..Units /\ u <= w - 1
      /\ ~(Boundary[u] < Boundary[w])
  BY PlanAssumption
<1>5. w - 1 \notin Bad
  BY <1>3, <1>4
<1>6. Boundary[u] <= Boundary[w - 1]
  <2>1. CASE u = w - 1
    BY <2>1, BoundaryTyped
  <2>2. CASE u < w - 1
    BY <2>2, <1>4, <1>5, BoundaryTyped
  <2> QED BY <1>4, <2>1, <2>2
<1>7. Boundary[w - 1] < Boundary[w]
  <2>1. Boundary[w] - Boundary[w - 1] \in {1, 2}
    BY <1>4, PlanAssumption
  <2>2. Boundary[w] \in Nat /\ Boundary[w - 1] \in Nat
    BY <1>4, BoundaryTyped, PlanAssumption
  <2> QED BY <2>1, <2>2
<1> QED BY <1>4, <1>6, <1>7, BoundaryTyped, PlanAssumption

LEMMA BoundaryMonotone ==
  ASSUME NEW u \in 0..Units, NEW v \in 0..Units, u <= v
  PROVE  Boundary[u] <= Boundary[v]
<1>1. CASE u = v
  BY <1>1, BoundaryTyped
<1>2. CASE u < v
  BY <1>2, BoundaryIncreases, BoundaryTyped
<1> QED BY <1>1, <1>2, PlanAssumption

(***************************************************************************)
(* The inductive invariant.                                                *)
(***************************************************************************)

Active == step.stage # "idle"

Whole == /\ Parses /\ OnBoundary
         /\ current = Entries /\ bundle.applied = Entries
         /\ \A r \in Reports : reports[r] = Entries

StepTypes ==
    /\ current \in Nat
    /\ bundle \in [applied : Nat, digest : Nat]
    /\ reports \in [Reports -> Nat]
    /\ text \in [len : Nat, glued : BOOLEAN]
    /\ step \in [stage : {"idle", "manifest", "bundle", "reports"}, from : Nat, target : Nat,
                 left : SUBSET Reports]
    /\ accepted \in BOOLEAN
    /\ interrupts \in Nat

\* A step at work goes from the unit the journal stands at to a later one,
\* and what it has replaced so far describes the later one.
StepAtWork ==
    Active =>
        /\ ~accepted /\ Parses /\ step.from = Entries
        /\ \E u, v \in 0..Units : u <= v /\ step.from = Boundary[u] /\ step.target = Boundary[v]
        /\ step.stage \in {"bundle", "reports"} => current = step.target
        /\ step.stage # "reports" => step.left = Reports
        /\ step.stage = "reports" =>
              /\ bundle.applied = step.target
              /\ \A r \in Reports \ step.left : reports[r] = step.target

StepInv == /\ StepTypes /\ StepAtWork
           /\ JournalNeverAhead /\ BundleReplays /\ StepLeavesWhole

(***************************************************************************)
(* What an append makes of the journal.                                    *)
(***************************************************************************)

\* k entries added whole to a journal that parses: k more entries, or a glued
\* line and no more entries than before.
LEMMA AppendAll ==
  ASSUME text \in [len : Nat, glued : BOOLEAN], Parses, NEW k \in Nat
  PROVE  LET new == Appended(3 * k)
         IN  /\ new \in [len : Nat, glued : BOOLEAN]
             /\ new.glued => (new.len + 1) \div 3 = Entries
             /\ ~new.glued => (new.len + 1) \div 3 = Entries + k /\ new.len % 3 # 1
<1> DEFINE new == Appended(3 * k)
<1>1. CASE 3 * k > 0 /\ text.len % 3 = 2
  BY <1>1 DEF Appended, Entries
<1>2. CASE ~(3 * k > 0 /\ text.len % 3 = 2)
  <2>1. new = [text EXCEPT !.len = @ + 3 * k]
    BY <1>2 DEF Appended
  <2>2. new.len = text.len + 3 * k /\ new.glued = FALSE
    BY <2>1 DEF Parses
  <2>3. text.len % 3 # 1
    BY DEF Parses
  <2> QED BY <2>1, <2>2, <2>3 DEF Entries
<1> QED BY <1>1, <1>2

\* A part of them: no more than k entries, and none is lost.
LEMMA AppendSome ==
  ASSUME text \in [len : Nat, glued : BOOLEAN], Parses, NEW k \in Nat, NEW w \in 0..(3 * k)
  PROVE  LET new == Appended(w)
         IN  /\ new \in [len : Nat, glued : BOOLEAN]
             /\ Entries <= (new.len + 1) \div 3
             /\ (new.len + 1) \div 3 <= Entries + k
<1> DEFINE new == Appended(w)
<1>1. CASE w > 0 /\ text.len % 3 = 2
  <2>1. new = [text EXCEPT !.glued = TRUE]
    BY <1>1 DEF Appended
  <2>2. new.len = text.len /\ new \in [len : Nat, glued : BOOLEAN]
    BY <2>1
  <2> HIDE DEF new
  <2>3. Entries \in Nat /\ (new.len + 1) \div 3 = Entries
    BY <2>2 DEF Entries
  <2> QED BY <2>2, <2>3 DEF new
<1>2. CASE ~(w > 0 /\ text.len % 3 = 2)
  <2>1. new = [text EXCEPT !.len = @ + w]
    BY <1>2 DEF Appended
  <2>2. new.len = text.len + w /\ new \in [len : Nat, glued : BOOLEAN]
    BY <2>1
  <2>3. w \in Nat /\ w <= 3 * k
    OBVIOUS
  <2> HIDE DEF new
  <2>4. (text.len + 1) \div 3 <= (new.len + 1) \div 3
    BY <2>2, <2>3
  <2>5. (new.len + 1) \div 3 <= (text.len + 1) \div 3 + k
    BY <2>2, <2>3
  <2> QED BY <2>2, <2>4, <2>5 DEF Entries, new
<1> QED BY <1>1, <1>2

(***************************************************************************)
(* The invariant is inductive.                                             *)
(***************************************************************************)

LEMMA InvInit == Init => StepInv
<1> SUFFICES ASSUME Init PROVE StepInv
  OBVIOUS
<1>1. PICK u \in 0..Units : WrittenAt(u)
  BY DEF Init
<1>2. Boundary[u] \in Nat
  BY BoundaryTyped
<1>3. Entries = Boundary[u] /\ text.len % 3 = 0 /\ ~text.glued
  BY <1>1, <1>2 DEF WrittenAt, Entries
<1>4. StepTypes
  BY <1>1, <1>2, PlanAssumption DEF Init, StepTypes, WrittenAt, Idle
<1>5. StepAtWork
  BY DEF Init, StepAtWork, Active, Idle
<1>6. JournalNeverAhead /\ BundleReplays /\ StepLeavesWhole
  BY <1>1, <1>2, <1>3
     DEF JournalNeverAhead, BundleReplays, Replays, StepLeavesWhole, Parses, OnBoundary, WrittenAt
<1> QED BY <1>4, <1>5, <1>6 DEF StepInv

LEMMA InvNext == StepInv /\ [Next]_stepVars => StepInv'
<1> SUFFICES ASSUME StepInv, [Next]_stepVars PROVE StepInv'
  OBVIOUS
<1> USE DEF StepInv
<1>1. ASSUME NEW n \in 1..Units, StartStep(n) PROVE StepInv'
  <2>1. PICK u \in 0..Units :
          /\ Boundary[u] = Entries
          /\ step' = [stage |-> "manifest", from |-> Entries,
                      target |-> Boundary[IF u + n < Units THEN u + n ELSE Units],
                      left |-> Reports]
    BY <1>1 DEF StartStep
  <2> DEFINE v == IF u + n < Units THEN u + n ELSE Units
  <2>2. v \in 0..Units /\ u <= v
    BY PlanAssumption
  <2>3. Boundary[u] \in Nat /\ Boundary[v] \in Nat
    BY <2>2, BoundaryTyped
  <2>4. StepTypes'
    BY <1>1, <2>1, <2>3 DEF StartStep, StepTypes, fixture
  <2>5. StepAtWork'
    BY <1>1, <2>1, <2>2 DEF StartStep, StepAtWork, Active, Parses, Entries, fixture
  <2>6. (JournalNeverAhead /\ BundleReplays /\ StepLeavesWhole)'
    BY <1>1 DEF StartStep, fixture, JournalNeverAhead, BundleReplays, StepLeavesWhole, Entries
  <2> QED BY <2>4, <2>5, <2>6
<1>2. CASE ReplaceManifest
  <2>1. StepTypes'
    BY <1>2 DEF ReplaceManifest, StepTypes
  <2>2. StepAtWork'
    BY <1>2 DEF ReplaceManifest, StepTypes, StepAtWork, Active, Parses, Entries
  <2>3. (JournalNeverAhead /\ BundleReplays /\ StepLeavesWhole)'
    BY <1>2 DEF ReplaceManifest, JournalNeverAhead, BundleReplays, StepLeavesWhole, StepAtWork,
                Active, Entries
  <2> QED BY <2>1, <2>2, <2>3
<1>3. CASE ReplaceBundle
  <2>1. PICK u, v \in 0..Units :
          u <= v /\ step.from = Boundary[u] /\ step.target = Boundary[v]
    BY <1>3 DEF ReplaceBundle, StepAtWork, Active
  <2>2. Boundary[u] \in Nat /\ Boundary[v] \in Nat /\ Boundary[u] <= Boundary[v]
    BY <2>1, BoundaryTyped, BoundaryMonotone
  <2>3. Entries = Boundary[u] /\ ~accepted
    BY <1>3, <2>1 DEF ReplaceBundle, StepAtWork, Active
  <2>4. bundle' = [applied |-> Boundary[v], digest |-> Boundary[v]]
    BY <1>3, <2>1, <2>2, <2>3 DEF ReplaceBundle
  <2>5. StepTypes'
    BY <1>3, <2>2, <2>4 DEF ReplaceBundle, StepTypes
  <2>6. StepAtWork'
    BY <1>3, <2>1, <2>4 DEF ReplaceBundle, StepTypes, StepAtWork, Active, Parses, Entries
  <2>7. (JournalNeverAhead /\ BundleReplays /\ StepLeavesWhole)'
    BY <1>3, <2>2, <2>3, <2>4
       DEF ReplaceBundle, JournalNeverAhead, BundleReplays, Replays, StepLeavesWhole, Entries
  <2> QED BY <2>5, <2>6, <2>7
<1>4. ASSUME NEW r \in Reports, ReplaceReport(r) PROVE StepInv'
  <2>1. StepTypes'
    BY <1>4 DEF ReplaceReport, StepTypes
  <2>2. StepAtWork'
    BY <1>4 DEF ReplaceReport, StepTypes, StepAtWork, Active, Parses, Entries
  <2>3. (JournalNeverAhead /\ BundleReplays /\ StepLeavesWhole)'
    BY <1>4 DEF ReplaceReport, JournalNeverAhead, BundleReplays, StepLeavesWhole, StepAtWork,
                Active, Entries
  <2> QED BY <2>1, <2>2, <2>3
<1>5. CASE AppendLines \/ Interrupt
  <2>1. PICK u, v \in 0..Units :
          u <= v /\ step.from = Boundary[u] /\ step.target = Boundary[v]
    BY <1>5 DEF AppendLines, Interrupt, StepAtWork, Active
  <2>2. Boundary[u] \in Nat /\ Boundary[v] \in Nat /\ Boundary[u] <= Boundary[v]
    BY <2>1, BoundaryTyped, BoundaryMonotone
  <2> DEFINE k == Boundary[v] - Boundary[u]
  <2>3. k \in Nat /\ NewPieces = 3 * k
    BY <2>1, <2>2 DEF NewPieces
  <2>4. Entries = Boundary[u] /\ Parses /\ ~accepted /\ Entries + k = Boundary[v]
    BY <1>5, <2>1, <2>2 DEF AppendLines, Interrupt, StepAtWork, Active
  <2>5. text \in [len : Nat, glued : BOOLEAN]
    BY DEF StepTypes
  <2> HIDE DEF k
  <2>6. CASE AppendLines
    <3>1. text' = Appended(3 * k)
      BY <2>3, <2>6 DEF AppendLines
    <3>2. /\ text' \in [len : Nat, glued : BOOLEAN]
          /\ text'.glued => Entries' = Entries
          /\ ~text'.glued => Entries' = Boundary[v] /\ Parses'
      BY <2>3, <2>4, <2>5, <3>1, AppendAll DEF Entries, Parses
    <3>3. /\ current = Boundary[v] /\ bundle.applied = Boundary[v]
          /\ \A r \in Reports : reports[r] = Boundary[v]
      BY <2>1, <2>6 DEF AppendLines, StepAtWork, Active
    <3>4. StepTypes'
      BY <2>6, <3>2 DEF AppendLines, StepTypes, Idle
    <3>5. StepAtWork'
      BY <2>6 DEF AppendLines, StepAtWork, Active, Idle
    <3>6. JournalNeverAhead'
      BY <2>2, <2>4, <2>6, <3>2, <3>3 DEF AppendLines, JournalNeverAhead
    <3>7. BundleReplays'
      BY <2>6 DEF AppendLines, BundleReplays, Replays
    <3>8. StepLeavesWhole'
      BY <2>6, <3>2, <3>3 DEF AppendLines, StepLeavesWhole, OnBoundary
    <3> QED BY <3>4, <3>5, <3>6, <3>7, <3>8
  <2>7. CASE Interrupt
    <3>1. /\ text' \in [len : Nat, glued : BOOLEAN]
          /\ Entries' <= bundle.applied
      <4>1. CASE UNCHANGED text
        BY <4>1, <2>5 DEF JournalNeverAhead, Entries
      <4>2. CASE ~UNCHANGED text
        <5>1. PICK w \in 0..(3 * k) : text' = Appended(w)
          BY <2>3, <2>7, <4>2 DEF Interrupt
        <5>2. bundle.applied = Boundary[v]
          BY <2>1, <2>7, <4>2 DEF Interrupt, StepAtWork, Active
        <5> QED BY <2>3, <2>4, <2>5, <5>1, <5>2, AppendSome DEF Entries
      <4> QED BY <4>1, <4>2
    <3>2. StepTypes'
      BY <2>7, <3>1 DEF Interrupt, StepTypes, Idle
    <3>3. StepAtWork'
      BY <2>7 DEF Interrupt, StepAtWork, Active, Idle
    <3>4. (JournalNeverAhead /\ BundleReplays /\ StepLeavesWhole)'
      BY <2>4, <2>7, <3>1
         DEF Interrupt, JournalNeverAhead, BundleReplays, Replays, StepLeavesWhole
    <3> QED BY <3>2, <3>3, <3>4
  <2> QED BY <1>5, <2>6, <2>7
<1>6. CASE UNCHANGED stepVars
  BY <1>6 DEF stepVars, fixture, StepTypes, StepAtWork, Active, Parses, Entries, OnBoundary,
              JournalNeverAhead, BundleReplays, Replays, StepLeavesWhole
<1> QED BY <1>1, <1>2, <1>3, <1>4, <1>5, <1>6 DEF Next, Write

(***************************************************************************)
(* The results.                                                            *)
(***************************************************************************)

THEOREM StepInvariant == Spec => []StepInv
  BY InvInit, InvNext, PTL DEF Spec

\* The journal never says more than the replay bundle covers (append_step
\* writes it last), for every plan and every interruption.
THEOREM JournalFollowsBundle == Spec => []JournalNeverAhead
  BY StepInvariant, PTL DEF StepInv

\* The bundle on disk always ends on a step unit and carries the digest of the
\* journal recomputed for it, so replay_plan_bundle accepts it.
THEOREM BundleAlwaysReplays == Spec => []BundleReplays
  BY StepInvariant, PTL DEF StepInv

\* A step that returns leaves the manifest, the bundle, the reports and the
\* journal of one step unit, whatever was interrupted before it.
THEOREM StepsRepair == Spec => []StepLeavesWhole
  BY StepInvariant, PTL DEF StepInv

(***************************************************************************)
(* The cursor: a stepped fixture implements FixtureCursor.                 *)
(***************************************************************************)

\* The last step unit that n entries reach.
IsCursor(c, n) == /\ c \in 0..Units /\ Boundary[c] <= n
                  /\ \A v \in 0..Units : Boundary[v] <= n => v <= c

CursorOf(n) == CHOOSE c \in 0..Units :
                  /\ Boundary[c] <= n
                  /\ \A v \in 0..Units : Boundary[v] <= n => v <= c

LEMMA CursorIsThere ==
  ASSUME NEW n \in Nat
  PROVE  IsCursor(CursorOf(n), n)
<1> DEFINE Rest == {Units - u : u \in {w \in 0..Units : Boundary[w] <= n}}
<1>1. Units - 0 \in Rest
  BY PlanAssumption
<1>2. Rest \in SUBSET Nat
  BY PlanAssumption
<1>3. PICK x \in Rest : \A y \in Rest : x <= y
  BY <1>1, <1>2, LeastElement
<1>4. PICK u \in 0..Units : x = Units - u /\ Boundary[u] <= n
  BY <1>3
<1>5. ASSUME NEW v \in 0..Units, Boundary[v] <= n PROVE v <= u
  <2>1. Units - v \in Rest
    BY <1>5
  <2> HIDE DEF Rest
  <2>2. Units - u <= Units - v
    BY <1>3, <1>4, <2>1
  <2> QED BY <2>2, PlanAssumption
<1> HIDE DEF Rest
<1>6. \E c \in 0..Units :
        /\ Boundary[c] <= n
        /\ \A v \in 0..Units : Boundary[v] <= n => v <= c
  BY <1>4, <1>5
<1> QED BY <1>6 DEF CursorOf, IsCursor

\* A step at work stands on a step unit; the journal only grows.
LEMMA StepMovesForward ==
  ASSUME StepInv, StepInv', [Next]_stepVars
  PROVE  \/ UNCHANGED text
         \/ ~Refused /\ Entries <= Entries'
<1> USE DEF StepInv
<1>1. CASE UNCHANGED text
  BY <1>1
<1>2. CASE ~UNCHANGED text
  <2>1. AppendLines \/ Interrupt
    BY <1>2 DEF Next, Write, StartStep, ReplaceManifest, ReplaceBundle, ReplaceReport, stepVars,
                fixture
  <2>2. PICK u, v \in 0..Units :
          u <= v /\ step.from = Boundary[u] /\ step.target = Boundary[v]
    BY <2>1 DEF AppendLines, Interrupt, StepAtWork, Active
  <2>3. Parses /\ Entries = Boundary[u]
    BY <2>1, <2>2 DEF AppendLines, Interrupt, StepAtWork, Active
  <2>4. ~Refused
    BY <2>3 DEF Refused, OnBoundary
  <2>5. PICK k \in Nat : NewPieces = 3 * k
    BY <2>2, BoundaryTyped, BoundaryMonotone DEF NewPieces
  <2>6. PICK w \in 0..(3 * k) : text' = Appended(w)
    BY <1>2, <2>1, <2>5 DEF AppendLines, Interrupt
  <2>7. Entries <= Entries'
    BY <2>3, <2>5, <2>6, AppendSome DEF StepTypes, Entries
  <2> QED BY <2>4, <2>7
<1> QED BY <1>1, <1>2

LEMMA CursorStep ==
  ASSUME StepInv, StepInv', [Next]_stepVars
  PROVE  [Promise!Advance]_<<Cursor, Refused>>
<1>1. text \in [len : Nat, glued : BOOLEAN] /\ text' \in [len : Nat, glued : BOOLEAN]
  BY DEF StepInv, StepTypes
<1>2. CASE UNCHANGED text
  BY <1>2 DEF Cursor, Refused, Parses, OnBoundary, Entries
<1>3. CASE ~Refused /\ Entries <= Entries'
  <2>1. Entries \in Nat /\ Entries' \in Nat
    BY <1>1 DEF Entries
  <2>2. IsCursor(CursorOf(Entries), Entries) /\ IsCursor(CursorOf(Entries'), Entries')
    BY <2>1, CursorIsThere
  <2> DEFINE c == CursorOf(Entries)
             d == CursorOf(Entries')
  <2>3. c \in 0..Units /\ d \in 0..Units /\ Boundary[c] <= Entries
    BY <2>2 DEF IsCursor
  <2>4. \A v \in 0..Units : Boundary[v] <= Entries' => v <= d
    BY <2>2 DEF IsCursor
  <2>5. Cursor = c /\ Cursor' = d
    BY DEF Cursor, CursorOf
  <2> HIDE DEF c, d
  <2>6. c <= d
    BY <1>3, <2>1, <2>3, <2>4, BoundaryTyped
  <2>7. d \in c..Units
    BY <2>3, <2>6, PlanAssumption
  <2>8. Refused' \in BOOLEAN
    BY DEF Refused, Parses, OnBoundary
  <2> QED BY <1>3, <2>5, <2>7, <2>8 DEF Promise!Advance
<1> QED BY <1>2, <1>3, StepMovesForward

\* A stepped fixture stands at a step unit and only moves forward, or is
\* refused for ever: step_fixture and its recovery implement FixtureCursor.
THEOREM CursorKept == Spec => CursorSpec
<1>1. Init => Promise!Init
  <2> SUFFICES ASSUME Init PROVE Promise!Init
    OBVIOUS
  <2>1. PICK u \in 0..Units : WrittenAt(u)
    BY DEF Init
  <2>2. Entries = Boundary[u] /\ text.len % 3 = 0 /\ ~text.glued
    BY <2>1, BoundaryTyped DEF WrittenAt, Entries
  <2>3. ~Refused
    BY <2>2 DEF Refused, Parses, OnBoundary
  <2>4. IsCursor(CursorOf(Entries), Entries)
    BY <2>2, BoundaryTyped, CursorIsThere
  <2>5. Cursor = CursorOf(Entries)
    BY DEF Cursor, CursorOf
  <2> QED BY <2>3, <2>4, <2>5 DEF Promise!Init, IsCursor
<1>2. StepInv /\ StepInv' /\ [Next]_stepVars => [Promise!Advance]_<<Cursor, Refused>>
  BY CursorStep
<1> QED BY <1>1, <1>2, StepInvariant, PTL DEF Spec, CursorSpec, Promise!Spec

(***************************************************************************)
(* Batches and imports.                                                    *)
(***************************************************************************)

Stages == {"unborn", "writing", "staging", "copying", "written", "rollback", "ok", "failed",
           "killed"}

Jobs == Batches \cup Imports

BatchJob == [stage : Stages, todo : Seq(Names), wrote : SUBSET Names, uses : SUBSET Digests]
ImportJob == [stage : Stages, todo : Seq(Digests), wrote : SUBSET Digests, uses : SUBSET Digests]

EmissionTypes ==
    /\ scenarios \in [Names -> {0} \cup Jobs]
    /\ media \in [Digests -> [by : {0} \cup Imports, whole : BOOLEAN]]
    /\ job = [j \in Jobs |-> job[j]]
    /\ \A b \in Batches : job[b] \in BatchJob
    /\ \A i \in Imports : job[i] \in ImportJob

WrittenBy(b) == {n \in Names : scenarios[n] = b}

\* A batch remembers all there is of it, and each of its names is written or
\* still to be written while it is at work.
BatchInv(b) ==
    /\ job[b].wrote = WrittenBy(b)
    /\ job[b].stage = "failed" => job[b].wrote = {}
    /\ job[b].stage = "ok" => job[b].todo = <<>>
    /\ job[b].stage \in {"writing", "ok"} =>
          \A k \in DOMAIN Targets[b] :
              \/ Targets[b][k] \in job[b].wrote
              \/ \E m \in DOMAIN job[b].todo : job[b].todo[m] = Targets[b][k]

\* An import remembers only copies of its own.
ImportInv(i) == /\ \A d \in job[i].wrote : media[d].by = i
                /\ job[i].stage = "copying" => job[i].todo # <<>>

EmissionInv == /\ EmissionTypes
               /\ \A b \in Batches : BatchInv(b)
               /\ \A i \in Imports : ImportInv(i)

(***************************************************************************)
(* Sequences.                                                              *)
(***************************************************************************)

LEMMA HeadAndTail ==
  ASSUME NEW S, NEW s \in Seq(S), s # <<>>
  PROVE  /\ Head(s) \in S /\ Tail(s) \in Seq(S)
         /\ \A m \in DOMAIN s : s[m] = Head(s) \/ \E l \in DOMAIN Tail(s) : Tail(s)[l] = s[m]
<1>1. Head(s) \in S /\ Tail(s) \in Seq(S)
  OBVIOUS
<1>2. ASSUME NEW m \in DOMAIN s
      PROVE  s[m] = Head(s) \/ \E l \in DOMAIN Tail(s) : Tail(s)[l] = s[m]
  <2>1. CASE m = 1
    BY <2>1
  <2>2. CASE m # 1
    <3>1. m - 1 \in DOMAIN Tail(s) /\ Tail(s)[m - 1] = s[m]
      BY <2>2
    <3> QED BY <3>1
  <2> QED BY <2>1, <2>2
<1> QED BY <1>1, <1>2

(***************************************************************************)
(* The invariant is inductive.                                             *)
(***************************************************************************)

LEMMA EmissionStarts == OutputsInit => EmissionInv
<1> SUFFICES ASSUME OutputsInit PROVE EmissionInv
  OBVIOUS
<1>1. /\ scenarios = [n \in Names |-> 0]
      /\ media = [d \in Digests |-> [by |-> 0, whole |-> FALSE]]
      /\ job = [j \in Jobs |-> [stage |-> "unborn", todo |-> <<>>, wrote |-> {}, uses |-> {}]]
  BY DEF OutputsInit, E!EmissionInit, E!Nobody, E!NoMedia, E!Jobs, Jobs
<1>2. \A j \in Jobs : job[j] = [stage |-> "unborn", todo |-> <<>>, wrote |-> {}, uses |-> {}]
  BY <1>1
<1>3. EmissionTypes
  BY <1>1, <1>2 DEF EmissionTypes, Stages, Jobs, BatchJob, ImportJob
<1>4. ASSUME NEW b \in Batches PROVE BatchInv(b)
  <2>1. b # 0
    BY OutputsAssumption
  <2> QED BY <1>1, <1>2, <2>1 DEF BatchInv, WrittenBy, Jobs
<1>5. ASSUME NEW i \in Imports PROVE ImportInv(i)
  BY <1>2 DEF ImportInv, Jobs
<1> QED BY <1>3, <1>4, <1>5 DEF EmissionInv

\* Only job j changes.
Frame(j) == /\ job' = [k \in Jobs |-> job'[k]]
            /\ \A k \in Jobs \ {j} : job'[k] = job[k]

\* A batch that does not move keeps its invariant while others write.
LEMMA BatchFrame ==
  ASSUME NEW c \in Batches, BatchInv(c), job'[c] = job[c],
         \A n \in Names : scenarios'[n] = c <=> scenarios[n] = c
  PROVE  BatchInv(c)'
<1>1. WrittenBy(c)' = WrittenBy(c)
  BY DEF WrittenBy
<1> QED BY <1>1 DEF BatchInv

\* An import that does not move keeps its invariant while others copy.
LEMMA ImportFrame ==
  ASSUME NEW k \in Imports, ImportInv(k), job'[k] = job[k],
         \A d \in job[k].wrote : media'[d].by = media[d].by
  PROVE  ImportInv(k)'
  BY DEF ImportInv

\* The steps of a batch: what becomes of it decides, the others stand still.
LEMMA BatchMoves ==
  ASSUME EmissionInv, NEW b \in Batches, Frame(b), job'[b] \in BatchJob, BatchInv(b)',
         media' = media, scenarios' \in [Names -> {0} \cup Jobs],
         \A n \in Names :
             scenarios'[n] # scenarios[n] => scenarios[n] \in {0, b} /\ scenarios'[n] \in {0, b}
  PROVE  EmissionInv'
<1>1. b \in Jobs /\ b \notin Imports /\ 0 \notin Jobs
  BY OutputsAssumption DEF Jobs
<1>2. EmissionTypes'
  <2>1. \A c \in Batches : job'[c] \in BatchJob
    BY DEF Frame, Jobs, EmissionInv, EmissionTypes
  <2>2. \A i \in Imports : job'[i] \in ImportJob
    BY <1>1 DEF Frame, Jobs, EmissionInv, EmissionTypes
  <2> QED BY <2>1, <2>2 DEF Frame, EmissionInv, EmissionTypes
<1>3. ASSUME NEW c \in Batches, c # b PROVE BatchInv(c)'
  <2>1. c \in Jobs \ {b} /\ c # 0
    BY <1>1, <1>3 DEF Jobs
  <2>2. \A n \in Names : scenarios'[n] = c <=> scenarios[n] = c
    BY <1>3, <2>1
  <2>3. job'[c] = job[c] /\ BatchInv(c)
    BY <2>1 DEF Frame, EmissionInv
  <2> QED BY <2>2, <2>3, BatchFrame
<1>4. ASSUME NEW i \in Imports PROVE ImportInv(i)'
  <2>1. job'[i] = job[i] /\ ImportInv(i)
    BY <1>1 DEF Jobs, Frame, EmissionInv
  <2> QED BY <2>1 DEF ImportInv
<1> QED BY <1>2, <1>3, <1>4 DEF EmissionInv

LEMMA BatchKeeps ==
  ASSUME EmissionInv, NEW b \in Batches,
         E!StartBatch(b) \/ E!WriteScenario(b) \/ E!EndBatch(b) \/ E!RollbackBatch(b)
  PROVE  EmissionInv'
<1>1. /\ job = [j \in Jobs |-> job[j]] /\ BatchInv(b)
      /\ b \in Jobs /\ b # 0 /\ Targets[b] \in Seq(Names)
      /\ job[b] \in BatchJob /\ scenarios \in [Names -> {0} \cup Jobs]
  BY OutputsAssumption DEF EmissionInv, EmissionTypes, Jobs
<1>2. CASE E!StartBatch(b)
  <2>1. /\ Frame(b) /\ job'[b] \in BatchJob
        /\ job'[b].stage = "writing" /\ job'[b].todo = Targets[b]
        /\ job'[b].wrote = job[b].wrote
    BY <1>1, <1>2 DEF E!StartBatch, E!Starts, Frame, BatchJob, Stages
  <2>2. UNCHANGED <<scenarios, media>>
    BY <1>2 DEF E!StartBatch
  <2>3. BatchInv(b)'
    BY <1>1, <2>1, <2>2 DEF BatchInv, WrittenBy
  <2> QED BY <1>1, <2>1, <2>2, <2>3, BatchMoves
<1>3. CASE E!EndBatch(b)
  <2>1. /\ Frame(b) /\ job'[b] \in BatchJob
        /\ job'[b].stage = "ok" /\ job'[b].todo = job[b].todo /\ job'[b].wrote = job[b].wrote
    BY <1>1, <1>3 DEF E!EndBatch, Frame, BatchJob, Stages
  <2>2. UNCHANGED <<scenarios, media>>
    BY <1>3 DEF E!EndBatch
  <2>3. BatchInv(b)'
    BY <1>1, <1>3, <2>1, <2>2 DEF BatchInv, WrittenBy, E!EndBatch
  <2> QED BY <1>1, <2>1, <2>2, <2>3, BatchMoves
<1>4. ASSUME job[b].stage = "writing", E!Quits(b), UNCHANGED <<scenarios, media>>
      PROVE  EmissionInv'
  <2>1. /\ Frame(b) /\ job'[b] \in BatchJob
        /\ job'[b].stage = "rollback" /\ job'[b].wrote = job[b].wrote
    BY <1>1, <1>4 DEF E!Quits, Frame, BatchJob, Stages
  <2>2. BatchInv(b)'
    BY <1>1, <1>4, <2>1 DEF BatchInv, WrittenBy
  <2> QED BY <1>1, <1>4, <2>1, <2>2, BatchMoves
<1>5. CASE E!WriteScenario(b)
  <2> DEFINE name == Head(job[b].todo)
             rest == Tail(job[b].todo)
  <2>1. job[b].todo \in Seq(Names) /\ job[b].todo # <<>> /\ job[b].stage = "writing"
    BY <1>1, <1>5 DEF E!WriteScenario, BatchJob
  <2>2. /\ name \in Names /\ rest \in Seq(Names)
        /\ \A m \in DOMAIN job[b].todo :
              job[b].todo[m] = name \/ \E l \in DOMAIN rest : rest[l] = job[b].todo[m]
    BY <2>1, HeadAndTail
  <2>3. ASSUME scenarios[name] = 0, scenarios' = [scenarios EXCEPT ![name] = b], media' = media,
               job' = [job EXCEPT ![b].todo = Tail(@), ![b].wrote = @ \cup {name}]
        PROVE  EmissionInv'
    <3>1. /\ Frame(b) /\ job'[b] \in BatchJob
          /\ job'[b].stage = "writing" /\ job'[b].todo = rest
          /\ job'[b].wrote = job[b].wrote \cup {name}
      <4> HIDE DEF name
      <4> QED BY <1>1, <2>1, <2>2, <2>3 DEF Frame, BatchJob
    <3>2. WrittenBy(b)' = WrittenBy(b) \cup {name}
      BY <1>1, <2>2, <2>3 DEF WrittenBy
    <3>3. BatchInv(b)'
      <4> HIDE DEF name, rest
      <4> QED BY <1>1, <2>1, <2>2, <3>1, <3>2 DEF BatchInv
    <3>4. /\ scenarios' \in [Names -> {0} \cup Jobs]
          /\ \A n \in Names : scenarios'[n] # scenarios[n] =>
                scenarios[n] \in {0, b} /\ scenarios'[n] \in {0, b}
      BY <1>1, <2>2, <2>3
    <3> QED BY <2>3, <3>1, <3>3, <3>4, BatchMoves
  <2>4. media' = media
    BY <1>5 DEF E!WriteScenario
  <2> QED BY <1>4, <1>5, <2>1, <2>3, <2>4 DEF E!WriteScenario, E!Nobody
<1>6. CASE E!RollbackBatch(b)
  <2>1. job[b].stage = "rollback" /\ media' = media /\ job[b].wrote = WrittenBy(b)
    BY <1>1, <1>6 DEF E!RollbackBatch, BatchInv
  <2>2. CASE job[b].wrote = {}
    <3>1. /\ Frame(b) /\ job'[b] \in BatchJob /\ UNCHANGED scenarios
          /\ job'[b].stage = "failed" /\ job'[b].wrote = {}
      BY <1>1, <1>6, <2>2 DEF E!RollbackBatch, Frame, BatchJob, Stages
    <3>2. BatchInv(b)'
      BY <2>1, <2>2, <3>1 DEF BatchInv, WrittenBy
    <3> QED BY <1>1, <2>1, <3>1, <3>2, BatchMoves
  <2>3. CASE job[b].wrote # {}
    <3>1. PICK name \in job[b].wrote :
            /\ scenarios' = [scenarios EXCEPT ![name] = 0]
            /\ job' = [job EXCEPT ![b].wrote = @ \ {name}]
      BY <1>6, <2>3 DEF E!RollbackBatch, E!Nobody
    <3>2. /\ Frame(b) /\ job'[b] \in BatchJob
          /\ job'[b].stage = "rollback" /\ job'[b].wrote = job[b].wrote \ {name}
      BY <1>1, <2>1, <3>1 DEF Frame, BatchJob
    <3>3. name \in Names /\ scenarios[name] = b
      BY <2>1, <3>1 DEF WrittenBy
    <3>4. WrittenBy(b)' = WrittenBy(b) \ {name}
      BY <1>1, <3>1, <3>3 DEF WrittenBy
    <3>5. BatchInv(b)'
      BY <2>1, <3>2, <3>4 DEF BatchInv
    <3>6. /\ scenarios' \in [Names -> {0} \cup Jobs]
          /\ \A n \in Names : scenarios'[n] # scenarios[n] =>
                scenarios[n] \in {0, b} /\ scenarios'[n] \in {0, b}
      BY <1>1, <3>1, <3>3
    <3> QED BY <1>1, <2>1, <3>2, <3>5, <3>6, BatchMoves
  <2> QED BY <2>2, <2>3
<1> QED BY <1>2, <1>3, <1>5, <1>6

\* The steps of an import touch only names and media files that are free or
\* its own.
LEMMA ImportMoves ==
  ASSUME EmissionInv, NEW i \in Imports, Frame(i), job'[i] \in ImportJob, ImportInv(i)',
         scenarios' \in [Names -> {0} \cup Jobs],
         media' \in [Digests -> [by : {0} \cup Imports, whole : BOOLEAN]],
         \A n \in Names :
             scenarios'[n] # scenarios[n] => scenarios[n] \in {0, i} /\ scenarios'[n] \in {0, i},
         \A d \in Digests :
             media'[d].by # media[d].by => media[d].by \in {0, i} /\ media'[d].by \in {0, i}
  PROVE  EmissionInv'
<1>1. i \in Jobs /\ i \notin Batches /\ 0 \notin Jobs
  BY OutputsAssumption DEF Jobs
<1>2. EmissionTypes'
  <2>1. \A c \in Batches : job'[c] \in BatchJob
    BY <1>1 DEF Frame, Jobs, EmissionInv, EmissionTypes
  <2>2. \A k \in Imports : job'[k] \in ImportJob
    BY DEF Frame, Jobs, EmissionInv, EmissionTypes
  <2> QED BY <2>1, <2>2 DEF Frame, EmissionTypes
<1>3. ASSUME NEW c \in Batches PROVE BatchInv(c)'
  <2>1. c \in Jobs \ {i} /\ c # 0
    BY <1>1 DEF Jobs
  <2>2. \A n \in Names : scenarios'[n] = c <=> scenarios[n] = c
    BY <2>1
  <2>3. job'[c] = job[c] /\ BatchInv(c)
    BY <2>1 DEF Frame, EmissionInv
  <2> QED BY <2>2, <2>3, BatchFrame
<1>4. ASSUME NEW k \in Imports, k # i PROVE ImportInv(k)'
  <2>1. k \in Jobs \ {i} /\ k # 0
    BY <1>1, <1>4 DEF Jobs
  <2>2. job'[k] = job[k] /\ ImportInv(k) /\ job[k] \in ImportJob
    BY <2>1 DEF Frame, EmissionInv, EmissionTypes
  <2>3. \A d \in job[k].wrote : d \in Digests /\ media[d].by = k
    BY <2>2 DEF ImportInv, ImportJob
  <2>4. \A d \in job[k].wrote : media'[d].by = media[d].by
    BY <1>4, <2>1, <2>3
  <2> QED BY <2>2, <2>4, ImportFrame
<1> QED BY <1>2, <1>3, <1>4 DEF EmissionInv

LEMMA ImportKeeps ==
  ASSUME EmissionInv, NEW i \in Imports,
         \/ E!StartImport(i) \/ E!StageMedia(i) \/ E!CopyMedia(i)
         \/ E!WriteImport(i) \/ E!ReportImport(i) \/ E!RollbackImport(i)
  PROVE  EmissionInv'
<1>1. /\ job = [j \in Jobs |-> job[j]] /\ ImportInv(i)
      /\ i \in Jobs /\ i # 0 /\ E!Needs[i] \in Seq(Digests) /\ OutOf[i] \in Names
      /\ job[i] \in ImportJob /\ scenarios \in [Names -> {0} \cup Jobs]
      /\ media \in [Digests -> [by : {0} \cup Imports, whole : BOOLEAN]]
  BY OutputsAssumption DEF EmissionInv, EmissionTypes, Jobs
\* Steps that write no name and no media file.
<1>2. ASSUME Frame(i), job'[i] \in ImportJob, job'[i].wrote = job[i].wrote,
             job'[i].stage # "copying", UNCHANGED <<scenarios, media>>
      PROVE  EmissionInv'
  <2>1. ImportInv(i)'
    BY <1>1, <1>2 DEF ImportInv
  <2> QED BY <1>1, <1>2, <2>1, ImportMoves
<1>3. ASSUME E!Quits(i), UNCHANGED <<scenarios, media>> PROVE EmissionInv'
  <2>1. /\ Frame(i) /\ job'[i] \in ImportJob /\ job'[i].wrote = job[i].wrote
        /\ job'[i].stage # "copying"
    BY <1>1, <1>3 DEF E!Quits, Frame, ImportJob, Stages
  <2> QED BY <1>2, <1>3, <2>1
<1>4. CASE E!StartImport(i)
  <2>1. /\ Frame(i) /\ job'[i] \in ImportJob /\ job'[i].wrote = job[i].wrote
        /\ job'[i].stage # "copying"
    BY <1>1, <1>4 DEF E!StartImport, E!Starts, Frame, ImportJob, Stages
  <2> QED BY <1>2, <1>4, <2>1 DEF E!StartImport
<1>5. CASE E!StageMedia(i)
  <2> DEFINE d == Head(job[i].todo)
  <2>1. /\ job[i].todo \in Seq(Digests) /\ job[i].todo # <<>> /\ UNCHANGED scenarios
        /\ job[i].stage = "staging"
    BY <1>1, <1>5 DEF E!StageMedia, ImportJob
  <2>2. d \in Digests /\ Tail(job[i].todo) \in Seq(Digests)
    BY <2>1, HeadAndTail
  <2> HIDE DEF d
  <2>3. CASE media[d] = E!NoMedia
    <3>1. /\ media' = [media EXCEPT ![d] = [by |-> i, whole |-> FALSE]]
          /\ job' = [job EXCEPT ![i].stage = "copying", ![i].wrote = @ \cup {d}]
      BY <1>5, <2>3 DEF E!StageMedia, E!NoMedia, d
    <3>2. /\ Frame(i) /\ job'[i] \in ImportJob /\ job'[i].todo # <<>>
          /\ job'[i].wrote = job[i].wrote \cup {d}
      BY <2>1, <1>1, <2>2, <3>1 DEF Frame, ImportJob, Stages
    <3>3. media[d].by = 0
      BY <2>3 DEF E!NoMedia, E!Nobody
    <3>4. /\ media' \in [Digests -> [by : {0} \cup Imports, whole : BOOLEAN]]
          /\ media'[d].by = i /\ \A e \in Digests \ {d} : media'[e] = media[e]
      BY <1>1, <2>2, <3>1
    <3>5. ImportInv(i)'
      BY <1>1, <3>2, <3>4 DEF ImportInv, ImportJob
    <3>6. \A e \in Digests :
             media'[e].by # media[e].by => media[e].by \in {0, i} /\ media'[e].by \in {0, i}
      BY <3>3, <3>4
    <3> QED BY <1>1, <2>1, <3>2, <3>4, <3>5, <3>6, ImportMoves
  <2>4. CASE media[d] # E!NoMedia
    <3>1. \/ /\ job' = [job EXCEPT ![i].todo = Tail(@), ![i].uses = @ \cup {d}]
             /\ UNCHANGED media
          \/ E!Quits(i) /\ UNCHANGED media
      BY <1>5, <2>4 DEF E!StageMedia, d
    <3>2. CASE /\ job' = [job EXCEPT ![i].todo = Tail(@), ![i].uses = @ \cup {d}]
               /\ UNCHANGED media
      <4>1. /\ Frame(i) /\ job'[i] \in ImportJob /\ job'[i].wrote = job[i].wrote
            /\ job'[i].stage # "copying"
        BY <1>1, <2>1, <2>2, <3>2 DEF Frame, ImportJob
      <4> QED BY <1>2, <2>1, <3>2, <4>1
    <3> QED BY <1>3, <2>1, <3>1, <3>2
  <2> QED BY <2>3, <2>4
<1>6. CASE E!CopyMedia(i)
  <2> DEFINE d == Head(job[i].todo)
  <2>1. job[i].stage = "copying" /\ UNCHANGED scenarios
    BY <1>6 DEF E!CopyMedia
  <2>2. d \in Digests /\ Tail(job[i].todo) \in Seq(Digests)
    BY <1>1, <2>1, HeadAndTail DEF ImportInv, ImportJob
  <2>3. \/ /\ media' = [media EXCEPT ![d].whole = TRUE]
           /\ job' = [job EXCEPT ![i].stage = "staging", ![i].todo = Tail(@),
                                 ![i].uses = @ \cup {d}]
        \/ E!Quits(i) /\ UNCHANGED media
    BY <1>6 DEF E!CopyMedia
  <2> HIDE DEF d
  <2>4. CASE /\ media' = [media EXCEPT ![d].whole = TRUE]
             /\ job' = [job EXCEPT ![i].stage = "staging", ![i].todo = Tail(@),
                                   ![i].uses = @ \cup {d}]
    <3>1. /\ media' \in [Digests -> [by : {0} \cup Imports, whole : BOOLEAN]]
          /\ \A e \in Digests : media'[e].by = media[e].by
      BY <1>1, <2>2, <2>4
    <3>2. /\ Frame(i) /\ job'[i] \in ImportJob /\ job'[i].wrote = job[i].wrote
          /\ job'[i].stage = "staging"
      BY <1>1, <2>2, <2>4 DEF Frame, ImportJob, Stages
    <3>3. ImportInv(i)'
      BY <1>1, <3>1, <3>2 DEF ImportInv, ImportJob
    <3> QED BY <1>1, <2>1, <3>1, <3>2, <3>3, ImportMoves
  <2> QED BY <1>3, <2>1, <2>3, <2>4
<1>7. CASE E!WriteImport(i)
  <2>1. media' = media
    BY <1>7 DEF E!WriteImport
  <2>2. CASE /\ scenarios[OutOf[i]] = 0
             /\ scenarios' = [scenarios EXCEPT ![OutOf[i]] = i]
             /\ job' = [job EXCEPT ![i].stage = "written"]
    <3>1. /\ Frame(i) /\ job'[i] \in ImportJob /\ job'[i].wrote = job[i].wrote
          /\ job'[i].stage = "written"
      BY <1>1, <2>2 DEF Frame, ImportJob, Stages
    <3>2. /\ scenarios' \in [Names -> {0} \cup Jobs]
          /\ \A n \in Names : scenarios'[n] # scenarios[n] =>
                scenarios[n] \in {0, i} /\ scenarios'[n] \in {0, i}
      BY <1>1, <2>2
    <3>3. ImportInv(i)'
      BY <1>1, <2>1, <3>1 DEF ImportInv
    <3> QED BY <1>1, <2>1, <3>1, <3>2, <3>3, ImportMoves
  <2> QED BY <1>3, <1>7, <2>1, <2>2 DEF E!WriteImport, E!Nobody
<1>8. CASE E!ReportImport(i)
  <2>1. CASE job' = [job EXCEPT ![i].stage = "ok"]
    <3>1. /\ Frame(i) /\ job'[i] \in ImportJob /\ job'[i].wrote = job[i].wrote
          /\ job'[i].stage # "copying"
      BY <1>1, <2>1 DEF Frame, ImportJob, Stages
    <3> QED BY <1>2, <1>8, <3>1 DEF E!ReportImport
  <2> QED BY <1>3, <1>8, <2>1 DEF E!ReportImport
<1>9. CASE E!RollbackImport(i)
  <2>1. job[i].stage = "rollback"
    BY <1>9 DEF E!RollbackImport
  <2>2. CASE job[i].wrote # {}
    <3>1. PICK d \in job[i].wrote :
            /\ media' = [media EXCEPT ![d] = [by |-> 0, whole |-> FALSE]]
            /\ job' = [job EXCEPT ![i].wrote = @ \ {d}]
            /\ UNCHANGED scenarios
      BY <1>9, <2>2 DEF E!RollbackImport, E!NoMedia, E!Nobody
    <3>2. d \in Digests /\ media[d].by = i
      BY <1>1, <3>1 DEF ImportInv, ImportJob
    <3>3. /\ Frame(i) /\ job'[i] \in ImportJob /\ job'[i].stage = "rollback"
          /\ job'[i].wrote = job[i].wrote \ {d}
      BY <1>1, <2>1, <3>1 DEF Frame, ImportJob
    <3>4. /\ media' \in [Digests -> [by : {0} \cup Imports, whole : BOOLEAN]]
          /\ media'[d].by = 0 /\ \A e \in Digests \ {d} : media'[e] = media[e]
      BY <1>1, <3>1, <3>2
    <3>5. \A e \in Digests :
             media'[e].by # media[e].by => media[e].by \in {0, i} /\ media'[e].by \in {0, i}
      BY <3>2, <3>4
    <3>6. ImportInv(i)'
      BY <1>1, <3>3, <3>4 DEF ImportInv, ImportJob
    <3> QED BY <1>1, <3>1, <3>3, <3>4, <3>5, <3>6, ImportMoves
  <2>3. CASE job[i].wrote = {}
    <3>1. /\ scenarios' = [n \in Names |-> IF scenarios[n] = i THEN 0 ELSE scenarios[n]]
          /\ job' = [job EXCEPT ![i].stage = "failed"]
          /\ UNCHANGED media
      BY <1>9, <2>3 DEF E!RollbackImport, E!Nobody
    <3>2. /\ Frame(i) /\ job'[i] \in ImportJob /\ job'[i].wrote = job[i].wrote
          /\ job'[i].stage = "failed"
      BY <1>1, <3>1 DEF Frame, ImportJob, Stages
    <3>3. /\ scenarios' \in [Names -> {0} \cup Jobs]
          /\ \A n \in Names : scenarios'[n] # scenarios[n] =>
                scenarios[n] \in {0, i} /\ scenarios'[n] \in {0, i}
      BY <1>1, <3>1
    <3>4. ImportInv(i)'
      BY <2>3, <3>2 DEF ImportInv
    <3> QED BY <1>1, <3>1, <3>2, <3>3, <3>4, ImportMoves
  <2> QED BY <2>2, <2>3
<1> QED BY <1>4, <1>5, <1>6, <1>7, <1>8, <1>9

\* A kill: what was written stays, and is remembered.
LEMMA StopKeeps ==
  ASSUME EmissionInv, NEW j \in Jobs, E!Stop(j)
  PROVE  EmissionInv'
<1>1. job = [k \in Jobs |-> job[k]] /\ UNCHANGED <<scenarios, media>>
  BY DEF EmissionInv, EmissionTypes, E!Stop
<1>2. \A b \in Batches : job[b] \in BatchJob
  BY DEF EmissionInv, EmissionTypes
<1>3. \A i \in Imports : job[i] \in ImportJob
  BY DEF EmissionInv, EmissionTypes
<1>4. job' = [job EXCEPT ![j].stage = "killed"]
  BY DEF E!Stop
<1>5. CASE j \in Batches
  <2>1. /\ Frame(j) /\ job'[j] \in BatchJob
        /\ job'[j].stage = "killed" /\ job'[j].wrote = job[j].wrote
    BY <1>1, <1>2, <1>4, <1>5 DEF Frame, BatchJob, Stages
  <2>2. BatchInv(j)'
    BY <1>1, <1>5, <2>1 DEF EmissionInv, BatchInv, WrittenBy
  <2> QED BY <1>1, <1>5, <2>1, <2>2, BatchMoves DEF EmissionInv, EmissionTypes
<1>6. CASE j \in Imports
  <2>1. /\ Frame(j) /\ job'[j] \in ImportJob
        /\ job'[j].stage = "killed" /\ job'[j].wrote = job[j].wrote
    BY <1>1, <1>3, <1>4, <1>6 DEF Frame, ImportJob, Stages
  <2>2. ImportInv(j)'
    BY <1>1, <1>6, <2>1 DEF EmissionInv, ImportInv
  <2> QED BY <1>1, <1>6, <2>1, <2>2, ImportMoves DEF EmissionInv, EmissionTypes
<1> QED BY <1>5, <1>6 DEF Jobs

LEMMA EmissionNextKeeps == EmissionInv /\ [OutputsNext]_vars => EmissionInv'
<1> SUFFICES ASSUME EmissionInv, [OutputsNext]_vars PROVE EmissionInv'
  OBVIOUS
<1>1. CASE UNCHANGED emission
  <2>1. job' = job /\ scenarios' = scenarios /\ media' = media
    BY <1>1 DEF emission
  <2>2. EmissionTypes' /\ \A b \in Batches : WrittenBy(b)' = WrittenBy(b)
    BY <2>1 DEF EmissionInv, EmissionTypes, WrittenBy
  <2>3. ASSUME NEW b \in Batches PROVE BatchInv(b)'
    BY <2>1, <2>2 DEF EmissionInv, BatchInv
  <2>4. ASSUME NEW i \in Imports PROVE ImportInv(i)'
    BY <2>1 DEF EmissionInv, ImportInv
  <2> QED BY <2>2, <2>3, <2>4 DEF EmissionInv
<1>2. CASE E!EmissionNext
  BY <1>2, BatchKeeps, ImportKeeps, StopKeeps DEF E!EmissionNext, E!Jobs, Jobs
<1> QED BY <1>1, <1>2 DEF OutputsNext, vars

(***************************************************************************)
(* The results.                                                            *)
(***************************************************************************)

THEOREM EmissionInvariant == OutputsSpec => []EmissionInv
  BY EmissionStarts, EmissionNextKeeps, PTL DEF OutputsSpec

\* A batch of generated scenarios that returns has written all its files, and
\* one that failed has left none, whatever other invocations wrote to the same
\* directory meanwhile (_write_batch and _rollback of generate).
THEOREM BatchesAreWhole == OutputsSpec => []BatchAllOrNothing
<1>1. EmissionInv => BatchAllOrNothing
  <2> SUFFICES ASSUME EmissionInv, NEW b \in Batches
               PROVE  /\ job[b].stage = "failed" => \A n \in Names : scenarios[n] # b
                      /\ job[b].stage = "ok" =>
                            \A k \in DOMAIN Targets[b] : scenarios[Targets[b][k]] = b
    BY DEF BatchAllOrNothing
  <2> QED BY DEF EmissionInv, BatchInv, WrittenBy
<1> QED BY <1>1, EmissionInvariant, PTL

\* No invocation replaces or removes what another one wrote: a scenario or a
\* media file goes away only while its creator rolls back.
THEOREM RollbackIsOwn == OutputsSpec => OnlyItsOwn
<1> DEFINE Own == /\ \A n \in Names : scenarios[n] # E!Nobody /\ scenarios'[n] # scenarios[n] =>
                        scenarios'[n] = E!Nobody /\ job[scenarios[n]].stage = "rollback"
                  /\ \A d \in Digests : media[d] # E!NoMedia /\ media'[d] = E!NoMedia =>
                        job[media[d].by].stage = "rollback"
<1>1. EmissionInv /\ [OutputsNext]_vars => [Own]_emission
  <2> SUFFICES ASSUME EmissionInv, E!EmissionNext PROVE Own
    BY DEF OutputsNext, vars
  <2>1. /\ scenarios \in [Names -> {0} \cup Jobs]
        /\ media \in [Digests -> [by : {0} \cup Imports, whole : BOOLEAN]]
    BY DEF EmissionInv, EmissionTypes
  <2>2. ASSUME NEW b \in Batches, E!WriteScenario(b) PROVE Own
    BY <2>1, <2>2 DEF E!WriteScenario, E!Nobody, E!NoMedia
  <2>3. ASSUME NEW b \in Batches, E!RollbackBatch(b) PROVE Own
    <3>1. /\ UNCHANGED media /\ job[b].stage = "rollback"
          /\ \A n \in job[b].wrote : n \in Names /\ scenarios[n] = b
      BY <2>3 DEF E!RollbackBatch, EmissionInv, BatchInv, WrittenBy
    <3>2. \A n \in Names : scenarios'[n] # scenarios[n] =>
                              n \in job[b].wrote /\ scenarios'[n] = E!Nobody
      BY <2>1, <2>3 DEF E!RollbackBatch
    <3> QED BY <3>1, <3>2
  <2>4. ASSUME NEW i \in Imports, E!StageMedia(i) \/ E!CopyMedia(i) PROVE Own
    <3>1. UNCHANGED scenarios
      BY <2>4 DEF E!StageMedia, E!CopyMedia
    <3>2. CASE E!StageMedia(i)
      <4>1. \A d \in Digests : media'[d] = media[d] \/ media[d] = E!NoMedia
        BY <2>1, <3>2 DEF E!StageMedia, E!Quits
      <4> QED BY <3>1, <4>1 DEF E!NoMedia, E!Nobody
    <3>3. CASE E!CopyMedia(i)
      <4>1. \A d \in Digests : media'[d] = media[d] \/ media'[d].whole
        BY <2>1, <3>3 DEF E!CopyMedia, E!Quits
      <4> QED BY <3>1, <4>1 DEF E!NoMedia, E!Nobody
    <3> QED BY <2>4, <3>2, <3>3
  <2>5. ASSUME NEW i \in Imports, E!WriteImport(i) PROVE Own
    BY <2>1, <2>5 DEF E!WriteImport, E!Nobody, E!NoMedia
  <2>6. ASSUME NEW i \in Imports, E!RollbackImport(i) PROVE Own
    <3>1. /\ job[i].stage = "rollback"
          /\ \A d \in job[i].wrote : d \in Digests /\ media[d].by = i
      BY <2>6 DEF E!RollbackImport, EmissionInv, EmissionTypes, ImportInv, ImportJob
    <3> QED BY <2>1, <2>6, <3>1 DEF E!RollbackImport, E!Nobody, E!NoMedia
  <2>7. ASSUME UNCHANGED <<scenarios, media>> PROVE Own
    BY <2>7 DEF E!Nobody, E!NoMedia
  <2> QED BY <2>2, <2>3, <2>4, <2>5, <2>6, <2>7
          DEF E!EmissionNext, E!StartBatch, E!EndBatch, E!StartImport, E!ReportImport, E!Stop
<1> QED BY <1>1, EmissionInvariant, PTL DEF OutputsSpec, OnlyItsOwn

(***************************************************************************)
(* What an import stages (compute_staging): the name of every content that *)
(* a work still refers to.                                                 *)
(***************************************************************************)
IsInput(in) == Len(in.files) \in Nat /\ DOMAIN in.files = 1..Len(in.files)

IsStaging(staged, in, n) ==
    staged = [k \in 0..n |-> IF k = 0 THEN <<>>
                             ELSE IF k \in E!Copied(in)
                             THEN Append(staged[k - 1], E!BundleName(in, k))
                             ELSE staged[k - 1]]

\* Every copied file among the first k is in the list.
Holds(list, in, k) ==
    /\ list \in Seq({E!BundleName(in, j) : j \in E!Copied(in)})
    /\ \A j \in E!Copied(in) : j \in 1..k =>
           \E m \in DOMAIN list : list[m] = E!BundleName(in, j)

\* Of each content that is referred to the first file is copied.
LEMMA ContentIsCopied ==
  ASSUME NEW in, IsInput(in), NEW k \in E!ApplyWorkCaps(in)
  PROVE  \E j \in E!Copied(in) : in.files[j].digest = in.files[k].digest
<1> DEFINE same == {j \in E!PlanStaging(in) : in.files[j].digest = in.files[k].digest}
<1>1. \A j \in E!PlanStaging(in) : j \in 1..Len(in.files)
  BY DEF E!PlanStaging, IsInput
<1>2. k \in E!PlanStaging(in)
  BY DEF E!ApplyWorkCaps, E!BuildTopology
<1>3. same \in SUBSET Nat /\ same # {}
  BY <1>1, <1>2 DEF IsInput
<1>4. PICK j \in same : \A l \in same : j <= l
  BY <1>3, LeastElement
<1>5. \A l \in E!PlanStaging(in) : l < j => in.files[l].digest # in.files[j].digest
  <2> TAKE l \in E!PlanStaging(in)
  <2>1. l \in Nat /\ j \in Nat
    BY <1>1, <1>3, <1>4 DEF IsInput
  <2> QED BY <1>4, <2>1
<1>6. j \in E!Copied(in)
  BY <1>4, <1>5 DEF E!Copied
<1> QED BY <1>4, <1>6

LEMMA StagingIsDefined ==
  ASSUME NEW in, NEW n \in Nat
  PROVE  \E staged : IsStaging(staged, in, n)
<1> DEFINE Bad == {m \in Nat : ~\E staged : IsStaging(staged, in, m)}
<1> SUFFICES ASSUME Bad # {} PROVE FALSE
  OBVIOUS
<1>1. PICK m \in Bad : \A k \in Bad : m <= k
  BY LeastElement
<1>2. CASE m = 0
  <2> DEFINE staged == [k \in 0..0 |-> <<>>]
  <2>1. IsStaging(staged, in, 0)
    BY DEF IsStaging
  <2> HIDE DEF staged
  <2> QED BY <1>1, <1>2, <2>1
<1>3. CASE m # 0
  <2>1. m - 1 \in Nat /\ m - 1 \notin Bad
    BY <1>1, <1>3
  <2>2. PICK before : IsStaging(before, in, m - 1)
    BY <2>1
  <2> DEFINE last   == IF m \in E!Copied(in) THEN Append(before[m - 1], E!BundleName(in, m))
                       ELSE before[m - 1]
             staged == [k \in 0..m |-> IF k = m THEN last ELSE before[k]]
  <2>3. \A k \in 0..(m - 1) : before[k] = IF k = 0 THEN <<>>
                                          ELSE IF k \in E!Copied(in)
                                          THEN Append(before[k - 1], E!BundleName(in, k))
                                          ELSE before[k - 1]
    BY <2>2 DEF IsStaging
  <2>4. \A k \in 0..m : staged[k] = IF k = 0 THEN <<>>
                                    ELSE IF k \in E!Copied(in)
                                    THEN Append(staged[k - 1], E!BundleName(in, k))
                                    ELSE staged[k - 1]
    BY <1>1, <1>3, <2>3
  <2>5. staged = [k \in 0..m |-> staged[k]]
    OBVIOUS
  <2> HIDE DEF staged
  <2>6. IsStaging(staged, in, m)
    BY <2>4, <2>5 DEF IsStaging
  <2> QED BY <1>1, <2>6
<1> QED BY <1>2, <1>3

\* After k files the names of those among them that are copied are staged.
LEMMA StagingHolds ==
  ASSUME NEW in, NEW n \in Nat, NEW staged, IsStaging(staged, in, n), NEW k \in 0..n
  PROVE  Holds(staged[k], in, k)
<1> DEFINE names   == {E!BundleName(in, j) : j \in E!Copied(in)}
           Bad     == {l \in 0..n : ~Holds(staged[l], in, l)}
<1> SUFFICES ASSUME Bad # {} PROVE FALSE
  OBVIOUS
<1>1. Bad \in SUBSET Nat
  OBVIOUS
<1>2. PICK l \in Bad : \A j \in Bad : l <= j
  BY <1>1, LeastElement
<1>3. l # 0
  <2>1. staged[0] = <<>>
    BY DEF IsStaging
  <2>2. Holds(staged[0], in, 0)
    BY <2>1 DEF Holds
  <2> QED BY <1>2, <2>2
<1>4. l \in 1..n /\ l - 1 \in 0..n /\ l - 1 \notin Bad
  BY <1>2, <1>3
<1>5. Holds(staged[l - 1], in, l - 1)
  BY <1>4
<1> PICK last : last = staged[l - 1]
  OBVIOUS
<1>6. last \in Seq(names) /\ \A j \in E!Copied(in) : j \in 1..(l - 1) =>
                                \E m \in DOMAIN last : last[m] = E!BundleName(in, j)
  BY <1>5 DEF Holds
<1>7. staged[l] = IF l \in E!Copied(in) THEN Append(last, E!BundleName(in, l)) ELSE last
  <2>1. l \in 0..n /\ l # 0
    BY <1>4
  <2>2. staged[l] = IF l = 0 THEN <<>>
                    ELSE IF l \in E!Copied(in) THEN Append(staged[l - 1], E!BundleName(in, l))
                    ELSE staged[l - 1]
    BY <2>1, Zenon DEF IsStaging
  <2> QED BY <2>1, <2>2
<1>8. CASE l \notin E!Copied(in)
  <2>1. \A j \in E!Copied(in) : j \in 1..l => j \in 1..(l - 1)
    BY <1>4, <1>8
  <2>2. Holds(staged[l], in, l)
    BY <1>6, <1>7, <1>8, <2>1 DEF Holds
  <2> QED BY <1>2, <2>2
<1>9. CASE l \in E!Copied(in)
  <2> PICK name : name = E!BundleName(in, l)
    OBVIOUS
  <2>1. name \in names
    BY <1>9
  <2> HIDE DEF names
  <2>2. /\ Append(last, name) \in Seq(names) /\ Append(last, name)[Len(last) + 1] = name
        /\ Len(last) + 1 \in DOMAIN Append(last, name)
        /\ \A m \in DOMAIN last : m \in DOMAIN Append(last, name)
                                  /\ Append(last, name)[m] = last[m]
    BY <1>6, <2>1
  <2>3. \A j \in 1..l : j # l => j \in 1..(l - 1)
    BY <1>4
  <2>4. Holds(staged[l], in, l)
    BY <1>6, <1>7, <1>9, <2>2, <2>3 DEF Holds, names
  <2> QED BY <1>2, <2>4
<1> QED BY <1>8, <1>9

LEMMA SourceIsStaged ==
  ASSUME NEW in, IsInput(in), NEW k \in E!ApplyWorkCaps(in)
  PROVE  \E d \in E!ImportSource(in, k), m \in DOMAIN E!ComputeStaging(in) :
            E!ComputeStaging(in)[m] = d
<1> DEFINE n      == Len(in.files)
           staged == CHOOSE f : IsStaging(f, in, n)
<1>1. n \in Nat
  BY DEF IsInput
<1>2. IsStaging(staged, in, n)
  BY <1>1, StagingIsDefined
<1>3. E!ComputeStaging(in) = staged[n]
  BY DEF E!ComputeStaging, IsStaging
<1> HIDE DEF staged
<1>4. PICK j \in E!Copied(in) : in.files[j].digest = in.files[k].digest
  BY ContentIsCopied
<1>5. j \in 1..n
  BY DEF E!Copied, E!PlanStaging, IsInput
<1> HIDE DEF n
<1>6. \E m \in DOMAIN staged[n] : staged[n][m] = E!BundleName(in, j)
  <2>1. n \in 0..n
    BY <1>1
  <2>2. Holds(staged[n], in, n)
    BY <1>1, <1>2, <2>1, StagingHolds
  <2> QED BY <1>5, <2>2 DEF Holds
<1>7. E!BundleName(in, j) \in E!ImportSource(in, k)
  BY <1>4 DEF E!ImportSource
<1> QED BY <1>3, <1>6, <1>7

\* While an import is at work, and once it is done, each name it needs is used or
\* still to be staged, and what it uses is whole unless an import took it back.
StagedInv(i) ==
    /\ \A n \in Names : scenarios[n] = i => job[i].stage \in {"written", "ok", "rollback", "killed"}
    /\ job[i].stage = "unborn" => job[i].uses = {}
    /\ job[i].stage \in {"written", "ok"} => job[i].todo = <<>>
    /\ job[i].stage \in {"staging", "copying", "written", "ok"} =>
          /\ \A m \in DOMAIN E!Needs[i] :
                \/ E!Needs[i][m] \in job[i].uses
                \/ \E l \in DOMAIN job[i].todo : job[i].todo[l] = E!Needs[i][m]
          /\ ~lent => \A d \in job[i].uses : media[d].whole

ImportStagingInv == \A i \in Imports : StagedInv(i)

\* An import that does not move stays as it is while others write.
LEMMA StagedFrame ==
  ASSUME NEW i \in Imports, StagedInv(i), job'[i] = job[i],
         \A n \in Names : scenarios'[n] = i => scenarios[n] = i,
         ~lent' => ~lent /\ \A d \in job[i].uses : media[d].whole => media'[d].whole
  PROVE  StagedInv(i)'
  BY DEF StagedInv

\* An import that gives up or is killed has nothing more to keep.
LEMMA StagedUntilGone ==
  ASSUME NEW i \in Imports, job'[i].stage \in {"rollback", "killed"}
  PROVE  StagedInv(i)'
  BY DEF StagedInv

LEMMA BatchKeepsStaged ==
  ASSUME EmissionInv, ImportStagingInv, NEW b \in Batches,
         E!StartBatch(b) \/ E!WriteScenario(b) \/ E!EndBatch(b) \/ E!RollbackBatch(b)
  PROVE  ImportStagingInv'
<1> SUFFICES ASSUME NEW i \in Imports PROVE StagedInv(i)'
  BY DEF ImportStagingInv
<1>1. i # b /\ i # 0 /\ b \in Jobs /\ i \in Jobs
  BY OutputsAssumption DEF Jobs
<1>2. job = [j \in Jobs |-> job[j]] /\ scenarios \in [Names -> {0} \cup Jobs]
  BY DEF EmissionInv, EmissionTypes
<1>3. job'[i] = job[i] /\ UNCHANGED <<media, lent>>
  BY <1>1, <1>2 DEF E!StartBatch, E!Starts, E!WriteScenario, E!Quits, E!EndBatch, E!RollbackBatch
<1>4. ASSUME NEW n \in Names, scenarios'[n] = i PROVE scenarios[n] = i
  BY <1>1, <1>2, <1>4 DEF E!StartBatch, E!WriteScenario, E!EndBatch, E!RollbackBatch, E!Nobody
<1> QED BY <1>3, <1>4, StagedFrame DEF ImportStagingInv

\* What an import does to the others: it takes no name of theirs, and what it
\* removes of the files they use it has lent them.
LEMMA ImportSparesOthers ==
  ASSUME EmissionInv, ImportStagingInv, NEW i \in Imports, NEW k \in Imports \ {i},
         \/ E!StartImport(i) \/ E!StageMedia(i) \/ E!CopyMedia(i)
         \/ E!WriteImport(i) \/ E!ReportImport(i) \/ E!RollbackImport(i)
  PROVE  StagedInv(k)'
<1>1. /\ job = [j \in Jobs |-> job[j]] /\ i \in Jobs /\ k \in Jobs /\ k # 0 /\ k # i
      /\ scenarios \in [Names -> {0} \cup Jobs] /\ job[k].uses \subseteq Digests
      /\ media \in [Digests -> [by : {0} \cup Imports, whole : BOOLEAN]]
  BY OutputsAssumption DEF EmissionInv, EmissionTypes, ImportJob, Jobs
<1>2. job'[k] = job[k]
  <2>1. CASE E!StageMedia(i)
    BY <1>1, <2>1 DEF E!StageMedia, E!Quits
  <2>2. CASE E!RollbackImport(i)
    BY <1>1, <2>2 DEF E!RollbackImport
  <2>3. CASE E!StartImport(i) \/ E!CopyMedia(i) \/ E!WriteImport(i) \/ E!ReportImport(i)
    BY <1>1, <2>3 DEF E!StartImport, E!Starts, E!CopyMedia, E!WriteImport, E!ReportImport, E!Quits
  <2> QED BY <2>1, <2>2, <2>3
<1>3. ASSUME NEW n \in Names, scenarios'[n] = k PROVE scenarios[n] = k
  <2>1. CASE E!RollbackImport(i)
    BY <1>1, <1>3, <2>1 DEF E!RollbackImport, E!Nobody
  <2>2. CASE E!WriteImport(i)
    BY <1>1, <1>3, <2>2 DEF E!WriteImport
  <2> QED BY <1>3, <2>1, <2>2 DEF E!StartImport, E!StageMedia, E!CopyMedia, E!ReportImport
<1>4. ASSUME ~lent'
      PROVE  ~lent /\ \A d \in job[k].uses : media[d].whole => media'[d].whole
  <2>1. CASE E!RollbackImport(i)
    <3>1. CASE job[i].wrote = {}
      BY <1>4, <2>1, <3>1 DEF E!RollbackImport
    <3>2. CASE job[i].wrote # {}
      <4>1. PICK d \in job[i].wrote :
                /\ media' = [media EXCEPT ![d] = E!NoMedia]
                /\ lent' = (lent \/ \E o \in Imports \ {i} : d \in job[o].uses)
        BY <2>1, <3>2 DEF E!RollbackImport
      <4>2. ~lent /\ d \notin job[k].uses
        BY <1>4, <4>1
      <4>3. \A e \in job[k].uses : media'[e] = media[e]
        BY <1>1, <4>1, <4>2
      <4> QED BY <4>2, <4>3
    <3> QED BY <3>1, <3>2
  <2>2. CASE E!StageMedia(i)
    <3>1. \A d \in Digests : media[d].whole => media'[d] = media[d]
      BY <1>1, <2>2 DEF E!StageMedia, E!NoMedia, E!Nobody, E!Quits
    <3> QED BY <1>1, <1>4, <2>2, <3>1 DEF E!StageMedia
  <2>3. CASE E!CopyMedia(i)
    <3>1. \A d \in Digests : media[d].whole => media'[d].whole
      BY <1>1, <2>3 DEF E!CopyMedia, E!Quits
    <3> QED BY <1>1, <1>4, <2>3, <3>1 DEF E!CopyMedia
  <2> QED BY <1>4, <2>1, <2>2, <2>3 DEF E!StartImport, E!WriteImport, E!ReportImport
<1> QED BY <1>2, <1>3, <1>4, StagedFrame DEF ImportStagingInv

\* One more name is used.
LEMMA NameIsUsed ==
  ASSUME EmissionInv, NEW i \in Imports, StagedInv(i), job[i].stage \in {"staging", "copying"},
         job[i].todo # <<>>, NEW d, d = Head(job[i].todo),
         job' = [job EXCEPT ![i].stage = "staging", ![i].todo = Tail(@), ![i].uses = @ \cup {d}],
         UNCHANGED <<scenarios, lent>>, media'[d].whole,
         \A e \in Digests : media[e].whole => media'[e].whole
  PROVE  StagedInv(i)'
<1>1. job[i] \in ImportJob /\ job = [j \in Jobs |-> job[j]] /\ i \in Jobs
  BY DEF EmissionInv, EmissionTypes, Jobs
<1>2. job[i].todo \in Seq(Digests) /\ job[i].uses \subseteq Digests
  BY <1>1 DEF ImportJob
<1>t. PICK todo : todo = job[i].todo
  OBVIOUS
<1>u. PICK rest : rest = Tail(todo)
  OBVIOUS
<1>3. \A m \in DOMAIN todo : todo[m] = d \/ \E l \in DOMAIN rest : rest[l] = todo[m]
  BY <1>2, <1>t, <1>u, HeadAndTail
<1>4. job'[i].stage = "staging" /\ job'[i].todo = rest /\ job'[i].uses = job[i].uses \cup {d}
  BY <1>1, <1>t, <1>u DEF ImportJob
<1>5. \A m \in DOMAIN E!Needs[i] :
          \/ E!Needs[i][m] \in job'[i].uses
          \/ \E l \in DOMAIN rest : rest[l] = E!Needs[i][m]
  <2> SUFFICES ASSUME NEW m \in DOMAIN E!Needs[i]
               PROVE  \/ E!Needs[i][m] \in job'[i].uses
                      \/ \E l \in DOMAIN rest : rest[l] = E!Needs[i][m]
    OBVIOUS
  <2>1. E!Needs[i][m] \in job[i].uses \/ \E l \in DOMAIN todo : todo[l] = E!Needs[i][m]
    BY <1>t DEF StagedInv
  <2>2. CASE E!Needs[i][m] \in job[i].uses
    BY <1>4, <2>2
  <2>3. ASSUME NEW l \in DOMAIN todo, todo[l] = E!Needs[i][m]
        PROVE  \/ E!Needs[i][m] \in job'[i].uses
               \/ \E p \in DOMAIN rest : rest[p] = E!Needs[i][m]
    <3>1. todo[l] = d \/ \E p \in DOMAIN rest : rest[p] = todo[l]
      BY <1>3
    <3>2. d \in job'[i].uses
      BY <1>4
    <3> QED BY <2>3, <3>1, <3>2
  <2> QED BY <2>1, <2>2, <2>3
<1>6. ~lent => \A e \in job'[i].uses : media'[e].whole
  BY <1>2, <1>4 DEF StagedInv
<1>7. \A n \in Names : scenarios'[n] # i
  BY DEF StagedInv
<1>8. job'[i].stage \notin {"unborn", "written", "ok", "rollback", "killed"}
  BY <1>4
<1> DEFINE j2 == job' s2 == scenarios' m2 == media' l2 == lent'
<1>9. /\ \A n \in Names : s2[n] # i
      /\ j2[i].stage \notin {"unborn", "written", "ok", "rollback", "killed"}
      /\ ~l2 => \A e \in j2[i].uses : m2[e].whole
      /\ j2[i].todo = rest
      /\ \A m \in DOMAIN E!Needs[i] :
             E!Needs[i][m] \in j2[i].uses \/ \E l \in DOMAIN rest : rest[l] = E!Needs[i][m]
  BY <1>4, <1>5, <1>6, <1>7, <1>8
<1> QED BY <1>9 DEF StagedInv

LEMMA ImportKeepsStaged ==
  ASSUME EmissionInv, ImportStagingInv, NEW i \in Imports,
         \/ E!StartImport(i) \/ E!StageMedia(i) \/ E!CopyMedia(i)
         \/ E!WriteImport(i) \/ E!ReportImport(i) \/ E!RollbackImport(i)
  PROVE  ImportStagingInv'
<1>1. /\ job = [j \in Jobs |-> job[j]] /\ job[i] \in ImportJob /\ StagedInv(i) /\ ImportInv(i)
      /\ i \in Jobs /\ i # 0 /\ scenarios \in [Names -> {0} \cup Jobs]
      /\ media \in [Digests -> [by : {0} \cup Imports, whole : BOOLEAN]]
  BY OutputsAssumption DEF EmissionInv, EmissionTypes, ImportStagingInv, Jobs
<1> SUFFICES StagedInv(i)'
  BY ImportSparesOthers DEF ImportStagingInv
<1>2. ASSUME E!Quits(i) PROVE StagedInv(i)'
  <2>1. job'[i].stage = "rollback"
    BY <1>1, <1>2 DEF E!Quits, ImportJob
  <2> QED BY <2>1, StagedUntilGone
<1>3. CASE E!StartImport(i)
  <2>1. /\ job[i].stage = "unborn" /\ UNCHANGED <<scenarios, media, lent>>
        /\ job'[i].stage = "staging" /\ job'[i].todo = E!Needs[i] /\ job'[i].uses = job[i].uses
    BY <1>1, <1>3 DEF E!StartImport, E!Starts, ImportJob
  <2>2. job[i].uses = {} /\ \A n \in Names : scenarios[n] # i
    BY <1>1, <2>1 DEF StagedInv
  <2> QED BY <2>1, <2>2 DEF StagedInv, E!Needs
<1>4. CASE E!StageMedia(i)
  <2>d. PICK d : d = Head(job[i].todo)
    OBVIOUS
  <2>1. job[i].stage = "staging" /\ job[i].todo # <<>> /\ UNCHANGED <<scenarios, lent>>
    BY <1>4 DEF E!StageMedia
  <2>2. d \in Digests
    BY <1>1, <2>d, <2>1, HeadAndTail DEF ImportJob
  <2>3. \/ /\ media[d] = E!NoMedia /\ media' = [media EXCEPT ![d] = [by |-> i, whole |-> FALSE]]
           /\ job' = [job EXCEPT ![i].stage = "copying", ![i].wrote = @ \cup {d}]
        \/ /\ media[d].whole /\ UNCHANGED media
           /\ job' = [job EXCEPT ![i].todo = Tail(@), ![i].uses = @ \cup {d}]
        \/ E!Quits(i)
    BY <1>4, <2>d DEF E!StageMedia
  <2>4. CASE /\ media[d] = E!NoMedia /\ media' = [media EXCEPT ![d] = [by |-> i, whole |-> FALSE]]
             /\ job' = [job EXCEPT ![i].stage = "copying", ![i].wrote = @ \cup {d}]
    <3>1. job'[i].stage = "copying" /\ job'[i].todo = job[i].todo /\ job'[i].uses = job[i].uses
      BY <1>1, <2>4 DEF ImportJob
    <3>2. \A e \in Digests : media[e].whole => media'[e].whole
      BY <1>1, <2>2, <2>4 DEF E!NoMedia
    <3>3. job[i].uses \subseteq Digests
      BY <1>1 DEF ImportJob
    <3> QED BY <1>1, <2>1, <3>1, <3>2, <3>3 DEF StagedInv, E!Needs
  <2>5. CASE /\ media[d].whole /\ UNCHANGED media
             /\ job' = [job EXCEPT ![i].todo = Tail(@), ![i].uses = @ \cup {d}]
    <3>1. job' = [job EXCEPT ![i].stage = "staging", ![i].todo = Tail(@), ![i].uses = @ \cup {d}]
      BY <1>1, <2>1, <2>5 DEF ImportJob
    <3> QED BY <1>1, <2>d, <2>1, <2>5, <3>1, NameIsUsed
  <2> QED BY <1>2, <2>3, <2>4, <2>5
<1>5. CASE E!CopyMedia(i)
  <2>d. PICK d : d = Head(job[i].todo)
    OBVIOUS
  <2>1. job[i].stage = "copying" /\ job[i].todo # <<>> /\ UNCHANGED <<scenarios, lent>>
    BY <1>1, <1>5 DEF E!CopyMedia, ImportInv
  <2>2. d \in Digests
    BY <1>1, <2>d, <2>1, HeadAndTail DEF ImportJob
  <2>3. \/ /\ media' = [media EXCEPT ![d].whole = TRUE]
           /\ job' = [job EXCEPT ![i].stage = "staging", ![i].todo = Tail(@),
                                 ![i].uses = @ \cup {d}]
        \/ E!Quits(i)
    BY <1>5, <2>d DEF E!CopyMedia
  <2>4. CASE /\ media' = [media EXCEPT ![d].whole = TRUE]
             /\ job' = [job EXCEPT ![i].stage = "staging", ![i].todo = Tail(@),
                                   ![i].uses = @ \cup {d}]
    <3>1. media'[d].whole /\ \A e \in Digests : media[e].whole => media'[e].whole
      BY <1>1, <2>2, <2>4
    <3> QED BY <1>1, <2>d, <2>1, <2>4, <3>1, NameIsUsed
  <2> QED BY <1>2, <2>3, <2>4
<1>6. CASE E!WriteImport(i)
  <2>1. CASE /\ scenarios' = [scenarios EXCEPT ![OutOf[i]] = i]
             /\ job' = [job EXCEPT ![i].stage = "written"]
    <3>1. /\ job[i].stage = "staging" /\ job[i].todo = <<>> /\ UNCHANGED <<media, lent>>
          /\ job'[i].stage = "written" /\ job'[i].todo = <<>> /\ job'[i].uses = job[i].uses
      BY <1>1, <1>6, <2>1 DEF E!WriteImport, ImportJob
    <3> QED BY <1>1, <3>1 DEF StagedInv, E!Needs
  <2> QED BY <1>2, <1>6, <2>1 DEF E!WriteImport
<1>7. CASE E!ReportImport(i)
  <2>1. CASE job' = [job EXCEPT ![i].stage = "ok"]
    <3>1. /\ job[i].stage = "written" /\ UNCHANGED <<scenarios, media, lent>>
          /\ job'[i].stage = "ok" /\ job'[i].todo = job[i].todo /\ job'[i].uses = job[i].uses
      BY <1>1, <1>7, <2>1 DEF E!ReportImport, ImportJob
    <3> QED BY <1>1, <3>1 DEF StagedInv, E!Needs
  <2> QED BY <1>2, <1>7, <2>1 DEF E!ReportImport
<1>8. CASE E!RollbackImport(i)
  <2>1. CASE job[i].wrote # {}
    <3>1. job'[i].stage = "rollback"
      BY <1>1, <1>8, <2>1 DEF E!RollbackImport, ImportJob
    <3> QED BY <3>1, StagedUntilGone
  <2>2. CASE job[i].wrote = {}
    <3>1. job'[i].stage = "failed" /\ \A n \in Names : scenarios'[n] # i
      BY <1>1, <1>8, <2>2 DEF E!RollbackImport, ImportJob, E!Nobody
    <3> QED BY <3>1 DEF StagedInv
  <2> QED BY <2>1, <2>2
<1> QED BY <1>3, <1>4, <1>5, <1>6, <1>7, <1>8

LEMMA StagingKept == EmissionInv /\ ImportStagingInv /\ [OutputsNext]_vars => ImportStagingInv'
<1> SUFFICES ASSUME EmissionInv, ImportStagingInv, [OutputsNext]_vars PROVE ImportStagingInv'
  OBVIOUS
<1>1. CASE UNCHANGED emission
  <2>1. job' = job /\ scenarios' = scenarios /\ media' = media /\ lent' = lent
    BY <1>1 DEF emission
  <2> QED BY <2>1, StagedFrame DEF ImportStagingInv
<1>2. ASSUME NEW j \in Jobs, E!Stop(j) PROVE ImportStagingInv'
  <2>1. job = [k \in Jobs |-> job[k]] /\ \A i \in Imports : job[i] \in ImportJob /\ i \in Jobs
    BY DEF EmissionInv, EmissionTypes, Jobs
  <2>2. job' = [job EXCEPT ![j].stage = "killed"] /\ UNCHANGED <<scenarios, media, lent>>
    BY <1>2 DEF E!Stop
  <2> SUFFICES ASSUME NEW i \in Imports PROVE StagedInv(i)'
    BY DEF ImportStagingInv
  <2>3. CASE i = j
    <3>1. job'[i].stage = "killed"
      BY <2>1, <2>2, <2>3 DEF ImportJob
    <3> QED BY <3>1, StagedUntilGone
  <2>4. CASE i # j
    <3>1. job'[i] = job[i]
      BY <2>1, <2>2, <2>4
    <3> QED BY <2>2, <3>1, StagedFrame DEF ImportStagingInv
  <2> QED BY <2>3, <2>4
<1>3. CASE E!EmissionNext
  BY <1>2, <1>3, BatchKeepsStaged, ImportKeepsStaged DEF E!EmissionNext, E!Jobs, Jobs
<1> QED BY <1>1, <1>3 DEF OutputsNext, vars

\* An imported scenario refers to whole media files only, whatever became of the
\* imports that copied them, unless one of these took a file back that this one
\* had found there: nothing that caps or deduplication left in the scenario is
\* missing from what was staged.
THEOREM ImportsAreWhole == OutputsSpec => []ImportIsWhole
<1>1. OutputsInit => ImportStagingInv
  <2> SUFFICES ASSUME OutputsInit, NEW i \in Imports PROVE StagedInv(i)
    BY DEF ImportStagingInv
  <2>1. /\ scenarios = [n \in Names |-> 0] /\ i # 0
        /\ job[i] = [stage |-> "unborn", todo |-> <<>>, wrote |-> {}, uses |-> {}]
    BY OutputsAssumption DEF OutputsInit, E!EmissionInit, E!Nobody, E!Jobs
  <2> QED BY <2>1 DEF StagedInv
<1>2. EmissionInv /\ ImportStagingInv => ImportIsWhole
  <2> SUFFICES ASSUME EmissionInv, ImportStagingInv, ~lent, NEW i \in Imports,
                      scenarios[OutOf[i]] = i, job[i].stage \notin {"rollback", "killed"},
                      NEW k \in E!ApplyWorkCaps(Inputs[i])
               PROVE  \E d \in E!ImportSource(Inputs[i], k) : media[d].whole
    BY DEF ImportIsWhole
  <2>1. OutOf[i] \in Names /\ IsInput(Inputs[i]) /\ E!Needs[i] = E!ComputeStaging(Inputs[i])
    BY OutputsAssumption DEF IsInput, E!Needs
  <2>2. StagedInv(i) /\ job[i].stage \in {"written", "ok"} /\ job[i].todo = <<>>
    BY <2>1 DEF ImportStagingInv, StagedInv
  <2>3. \A m \in DOMAIN E!Needs[i] : E!Needs[i][m] \in job[i].uses
    BY <2>2 DEF StagedInv
  <2>4. PICK d \in E!ImportSource(Inputs[i], k), m \in DOMAIN E!ComputeStaging(Inputs[i]) :
            E!ComputeStaging(Inputs[i])[m] = d
    BY <2>1, SourceIsStaged
  <2>5. d \in job[i].uses
    BY <2>1, <2>3, <2>4
  <2> QED BY <2>2, <2>5 DEF StagedInv
<1> QED BY <1>1, <1>2, StagingKept, EmissionInvariant, PTL DEF OutputsSpec
=============================================================================
