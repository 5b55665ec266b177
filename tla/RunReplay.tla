----------------------------- MODULE RunReplay -----------------------------
(***************************************************************************)
(* Replaying the bundle of a wall-clock run (materializer/replay): the     *)
(* checks it makes before it creates a directory, and the tree it builds   *)
(* by dispatching the prefix in order, as fast as possible, without        *)
(* withholding anything.  A journal is a sequence of Timeline entries.     *)
(***************************************************************************)
EXTENDS Timeline

\* Phase A: every asset at its initial path.
InitialTree == [files   |-> [p \in Paths |-> IF \E a \in Assets : Home[a] = p
                                             THEN Whole(CHOOSE a \in Assets : Home[a] = p, 0)
                                             ELSE NoFile],
                dirs    |-> [d \in Dirs |-> DirMode],
                cache   |-> [a \in Assets |-> NoFile],
                pending |-> {}]

\* _preflight_run_replay_pairing
PairedPrefix(journal, n) ==
    /\ OpenLagsBefore(journal, n + 1) = {}
    /\ OpenLocksBefore(journal, n + 1) = {}

\* _verified_run_prefix, for a bundle whose applied_events is n
Accepted(journal, n) == n \in StepBoundaries(journal) /\ PairedPrefix(journal, n)

\* Defect: a replay that, like the run, withholds what a lag follows at once.
ReplayEntry_Withholds(s, journal, i) ==
    LET d == Dispatch(s.fs, i, journal[i])
    IN  IF \/ journal[i].act \in {"network_lag_start", "network_lag_commit"}
           \/ i < Len(journal) /\ Is(journal, i + 1, "network_lag_start")
        THEN s
        ELSE [ok |-> d.ok, fs |-> d.fs, chaos |-> s.chaos]

\* _apply_prefix_phase_b, one entry: network_lag entries only make report rows.
ReplayEntry(s, journal, i) ==
    LET e == journal[i]
        d == Dispatch(s.fs, i, e)
        r == IF e.act \in ChaosOpenActions \cup ChaosCloseActions
             THEN Realize(s.fs, s.chaos, i, e)
             ELSE [ok |-> d.ok, fs |-> d.fs, chaos |-> s.chaos]
    IN  IF s.ok /\ e.act \notin {"network_lag_start", "network_lag_commit"} THEN r ELSE s

ReplayPrefix(journal, n) ==
    LET after[i \in 0..n] == IF i = 0
                             THEN [ok |-> TRUE, fs |-> InitialTree, chaos |-> NoChaos]
                             ELSE ReplayEntry(after[i - 1], journal, i)
    IN  after[n]

\* _restore_replay_chaos
RestoredReplay(s) ==
    LET left[k \in 0..Len(s.chaos.captured)] ==
            IF k = 0 THEN s
            ELSE LET rest == SubSeq(s.chaos.captured, k, Len(s.chaos.captured))
                 IN  IF ~left[k - 1].ok \/ RestoreRaises(left[k - 1].fs, rest)
                     THEN [left[k - 1] EXCEPT !.ok = FALSE]
                     ELSE [left[k - 1] EXCEPT !.fs = RestoreOne(@, rest)]
    IN  left[Len(s.chaos.captured)]

ReplayRunBundle(journal, n) == RestoredReplay(ReplayPrefix(journal, n))
=============================================================================
