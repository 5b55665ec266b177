---------------------------- MODULE RunDirectory ----------------------------
(***************************************************************************)
(* What a run directory promises to the programs that read it while `run`  *)
(* is at work (inspect, clean, replay, verify and the consumer under       *)
(* test): the journal only grows, one entry at a time and in the order of  *)
(* the plan; the tree and the journal are at rest before the manifests are *)
(* rewritten; and the sentinel says "complete" last, after which nothing   *)
(* moves.                                                                  *)
(***************************************************************************)
EXTENDS Integers, Sequences

VARIABLES sentinel, rows, meta, tree

vars == <<sentinel, rows, meta, tree>>

Init == sentinel = "absent" /\ rows = <<>> /\ meta = "baseline"

Appear == /\ sentinel = "absent" /\ sentinel' = "in_progress"
          /\ UNCHANGED <<rows, meta, tree>>

\* While metadata is still the baseline's, the tree is the consumer's to watch.
Working == sentinel = "in_progress" /\ meta = "baseline"

ChangeTree == Working /\ UNCHANGED <<sentinel, rows, meta>>

AppendRow == /\ Working
             /\ rows' = Append(rows, Len(rows) + 1)
             /\ UNCHANGED <<sentinel, meta, tree>>

Describe == /\ sentinel = "in_progress"
            /\ <<meta, meta'>> \in {<<"baseline", "mixed">>, <<"mixed", "final">>}
            /\ UNCHANGED <<sentinel, rows, tree>>

Seal == /\ sentinel = "in_progress" /\ meta = "final"
        /\ sentinel' = "complete"
        /\ UNCHANGED <<rows, meta, tree>>

Next == Appear \/ ChangeTree \/ AppendRow \/ Describe \/ Seal

Spec == Init /\ [][Next]_vars
=============================================================================
