---------------------------- MODULE StepFixture ----------------------------
(***************************************************************************)
(* A plan-only fixture on disk while `step` advances it.  A step reads the *)
(* journal, finds its cursor, computes the files of a later step unit and  *)
(* writes them one at a time: the manifest, the replay bundle, the reports *)
(* and at last the new journal lines.  It may be interrupted anywhere.     *)
(*                                                                         *)
(* A file stands for the number of journal entries it describes.  Of the   *)
(* journal's text a model needs its length, in pieces: three per entry,    *)
(* the two halves of a JSON document and the newline.  A text whose last   *)
(* newline is missing parses; the next append then joins two documents on  *)
(* one line (glued), which never parses again.                             *)
(***************************************************************************)
EXTENDS Integers, FiniteSets

CONSTANTS Units,          \* the number of step units of the plan
          Boundary,       \* Boundary[u]: the entries after u units
          Reports,        \* the per-entity report files
          MaxInterrupts   \* bound on interrupted steps

ASSUME PlanAssumption ==
    /\ Units \in Nat /\ MaxInterrupts \in Nat
    /\ Boundary \in [0..Units -> Nat]
    /\ Boundary[0] = 0
    /\ \A u \in 1..Units : Boundary[u] - Boundary[u - 1] \in {1, 2}

VARIABLES current,    \* manifest.current.json
          bundle,     \* replay.json: its applied_events and journal_digest
          reports,    \* reports/<kind>/<id>.json
          text,       \* journal.jsonl
          step,       \* the step at work
          accepted,   \* the last step returned successfully, nothing written since
          interrupts  \* how many steps were interrupted

fixture == <<current, bundle, reports, text>>
stepVars == <<fixture, step, accepted, interrupts>>

Idle == [stage |-> "idle", from |-> 0, target |-> 0, left |-> {}]

Entries == (text.len + 1) \div 3
Parses == ~text.glued /\ text.len % 3 # 1
OnBoundary == \E u \in 0..Units : Boundary[u] = Entries

\* The fixture `plan --steps u` publishes.
WrittenAt(u) ==
    /\ current = Boundary[u]
    /\ bundle = [applied |-> Boundary[u], digest |-> Boundary[u]]
    /\ reports = [r \in Reports |-> Boundary[u]]
    /\ text = [len |-> 3 * Boundary[u], glued |-> FALSE]

Init == /\ \E u \in 0..Units : WrittenAt(u)
        /\ step = Idle /\ accepted = TRUE /\ interrupts = 0

\* Defects: the count of units is taken as one of raw entries; or the step
\* already taken is counted again.
StartStep_Raw(n) ==
    /\ step.stage = "idle" /\ Parses /\ OnBoundary
    /\ LET to == IF Entries + n < Boundary[Units] THEN Entries + n ELSE Boundary[Units]
       IN step' = [stage |-> "manifest", from |-> Entries, target |-> to, left |-> Reports]
    /\ accepted' = FALSE
    /\ UNCHANGED <<fixture, interrupts>>

StartStep_Recounts(n) ==
    /\ step.stage = "idle" /\ Parses
    /\ \E u \in 0..Units :
          /\ Boundary[u] = Entries
          /\ LET to == IF u + n - 1 < Units THEN u + n - 1 ELSE Units
             IN step' = [stage |-> "manifest", from |-> Entries,
                         target |-> Boundary[to], left |-> Reports]
    /\ accepted' = FALSE
    /\ UNCHANGED <<fixture, interrupts>>

\* step_fixture: parse the journal, recover the cursor, aim n units further.
StartStep(n) ==
    /\ step.stage = "idle" /\ Parses
    /\ \E u \in 0..Units :
          /\ Boundary[u] = Entries
          /\ LET to == IF u + n < Units THEN u + n ELSE Units
             IN step' = [stage |-> "manifest", from |-> Entries,
                         target |-> Boundary[to], left |-> Reports]
    /\ accepted' = FALSE
    /\ UNCHANGED <<fixture, interrupts>>

ReplaceManifest ==
    /\ step.stage = "manifest"
    /\ current' = step.target
    /\ step' = [step EXCEPT !.stage = "bundle"]
    /\ UNCHANGED <<bundle, reports, text, accepted, interrupts>>

\* Defect: applied_events is left out of the update.
ReplaceBundle_KeepsApplied ==
    /\ step.stage = "bundle"
    /\ bundle' = [bundle EXCEPT !.digest = Entries + (step.target - step.from)]
    /\ step' = [step EXCEPT !.stage = "reports"]
    /\ UNCHANGED <<current, reports, text, accepted, interrupts>>

ReplaceBundle ==
    /\ step.stage = "bundle"
    /\ bundle' = [applied |-> step.target, digest |-> Entries + (step.target - step.from)]
    /\ step' = [step EXCEPT !.stage = "reports"]
    /\ UNCHANGED <<current, reports, text, accepted, interrupts>>

\* Defect: a report that is there and newer is kept.
ReplaceReport_OnlyNewer(r) ==
    /\ step.stage = "reports" /\ r \in step.left
    /\ reports' = [reports EXCEPT ![r] = IF @ > step.target THEN @ ELSE step.target]
    /\ step' = [step EXCEPT !.left = @ \ {r}]
    /\ UNCHANGED <<current, bundle, text, accepted, interrupts>>

ReplaceReport(r) ==
    /\ step.stage = "reports" /\ r \in step.left
    /\ reports' = [reports EXCEPT ![r] = step.target]
    /\ step' = [step EXCEPT !.left = @ \ {r}]
    /\ UNCHANGED <<current, bundle, text, accepted, interrupts>>

\* Defects: the file is written anew; or the new lines are written twice.
Appended_Rewrites(written) == [text EXCEPT !.len = written]
Appended_Twice(written) == [text EXCEPT !.len = @ + 2 * written]

\* The first `written` pieces of the new lines reach the file.
Appended(written) ==
    IF written > 0 /\ text.len % 3 = 2 THEN [text EXCEPT !.glued = TRUE]
    ELSE [text EXCEPT !.len = @ + written]

NewPieces == 3 * (step.target - step.from)

AppendLines ==
    /\ step.stage = "reports" /\ step.left = {}
    /\ text' = Appended(NewPieces)
    /\ step' = Idle /\ accepted' = TRUE
    /\ UNCHANGED <<current, bundle, reports, interrupts>>

\* A kill or a failed write: what was replaced stays replaced, and part of
\* the journal lines may have been written.
Interrupt ==
    /\ step.stage # "idle" /\ interrupts < MaxInterrupts
    /\ IF step.stage = "reports" /\ step.left = {}
       THEN \E written \in 0..NewPieces : text' = Appended(written)
       ELSE UNCHANGED text
    /\ step' = Idle /\ interrupts' = interrupts + 1
    /\ UNCHANGED <<current, bundle, reports, accepted>>

\* replay_plan_bundle: the events counted end on a step unit, and the journal
\* recomputed for that many has the digest that was recorded.
Replays(b) == \E u \in 0..Units : b.applied = Boundary[u] /\ b.digest = Boundary[u]

Write == \/ ReplaceManifest \/ ReplaceBundle \/ AppendLines
         \/ \E r \in Reports : ReplaceReport(r)

Next == Write \/ Interrupt \/ \E n \in 1..Units : StartStep(n)

Spec == Init /\ [][Next]_stepVars

-----------------------------------------------------------------------------
\* The files are written in an order that lets no reader find a journal entry
\* the replay bundle does not cover: replaying the bundle never stops short
\* of what the journal says has happened.
JournalNeverAhead == Entries <= bundle.applied

\* Whatever was interrupted, the bundle on disk is one that replay accepts.
BundleReplays == Replays(bundle)

\* A step that succeeds after any interruptions leaves the fixture that a
\* plan of as many units would have written: manifest, bundle, reports and
\* journal agree.  (A glued journal is refused by every later step.)
StepLeavesWhole ==
    accepted /\ ~text.glued =>
        /\ Parses /\ OnBoundary
        /\ current = Entries /\ bundle.applied = Entries
        /\ \A r \in Reports : reports[r] = Entries

\* The step unit a fixture stands at, and whether every step refuses it.
Cursor == CHOOSE u \in 0..Units :
             /\ Boundary[u] <= Entries
             /\ \A v \in 0..Units : Boundary[v] <= Entries => v <= u
Refused == ~Parses \/ ~OnBoundary

\* A fixture that is stepped and interrupted keeps the promise of FixtureCursor.
Promise == INSTANCE FixtureCursor WITH cursor <- Cursor, refused <- Refused
CursorSpec == Promise!Spec
=============================================================================
