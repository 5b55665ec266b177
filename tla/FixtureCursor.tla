--------------------------- MODULE FixtureCursor ---------------------------
(***************************************************************************)
(* What a plan-only fixture promises to the tests that step it: it stands  *)
(* at a step unit of its plan and only ever moves forward, or it is        *)
(* refused by every later step and never moves again.                      *)
(***************************************************************************)
EXTENDS Integers

CONSTANT Units

VARIABLES cursor, refused

Init == cursor \in 0..Units /\ refused = FALSE

Advance == /\ ~refused
           /\ cursor' \in cursor..Units
           /\ refused' \in BOOLEAN

Spec == Init /\ [][Advance]_<<cursor, refused>>
=============================================================================
