---------------------------- MODULE TimelineRules ----------------------------
(***************************************************************************)
(* The rules of validation/rules/timeline and rules/network that look at   *)
(* order, slow copies and windows only: each speaks of event i of a        *)
(* timeline and of the events before it, as the rules' single pass does.   *)
(* An event is a record with at least act, at, asset, target, ref and      *)
(* effect; ref is the index of the event named by `for` or `after`.        *)
(***************************************************************************)
EXTENDS Naturals, Sequences

Is(tl, i, act) == tl[i].act = act

\* _event_target of rules/network: a slow_copy_commit has its start's target
TargetAsset(tl, i) == IF Is(tl, i, "slow_copy_commit") THEN tl[tl[i].ref].asset ELSE tl[i].asset

InOrder(tl, i) == i > 1 => tl[i - 1].at <= tl[i].at

\* Rule 5c, and the runner's own preflight: a start is followed at once by its
\* commit, at a later time.  w is the world before event i.
SlowCopyAccepts(tl, i, w) ==
    /\ Is(tl, i, "slow_copy_start") => tl[i].temp \notin {tl[i].to, w.loc[tl[i].asset]}
    /\ Is(tl, i, "slow_copy_commit") <=>
            (i > 1 /\ Is(tl, i - 1, "slow_copy_start"))
    /\ Is(tl, i, "slow_copy_commit") => tl[i].ref = i - 1 /\ tl[i - 1].at < tl[i].at

DelayedVisibilityAfter == {"add_file", "slow_copy_commit", "edit_metadata", "remux_container"}
DelayedRenameAfter     == {"move_asset"}

Wraps(effect, act) ==
    CASE effect = "delayed_visibility" -> act \in DelayedVisibilityAfter
      [] effect = "delayed_rename"     -> act \in DelayedRenameAfter
      [] effect = "held_handle"        -> TRUE

\* The start event of a window is open before event i.
OpenBefore(tl, i, s, commit) ==
    s < i /\ \A c \in (s + 1)..(i - 1) : ~(Is(tl, c, commit) /\ tl[c].ref = s)

OpenLagsBefore(tl, i) ==
    {s \in 1..(i - 1) : Is(tl, s, "network_lag_start") /\ OpenBefore(tl, i, s, "network_lag_commit")}

NetworkLagAccepts(tl, i) ==
    /\ Is(tl, i, "network_lag_start") =>
            /\ i > 1 /\ tl[i].ref = i - 1
            /\ tl[i - 1].at = tl[i].at
            /\ TargetAsset(tl, i - 1) = tl[i].asset
            /\ Wraps(tl[i].effect, tl[i - 1].act)
    /\ Is(tl, i, "network_lag_commit") =>
            /\ tl[i].ref \in OpenLagsBefore(tl, i)
            /\ tl[tl[i].ref].at < tl[i].at
    /\ \A s \in OpenLagsBefore(tl, i) : TargetAsset(tl, i) # tl[s].asset

OpenLocksBefore(tl, i) ==
    {s \in 1..(i - 1) : Is(tl, s, "acquire_lock") /\ OpenBefore(tl, i, s, "release_lock")}

\* A window forbids other events with the same target string.
ChaosAccepts(tl, i) ==
    /\ Is(tl, i, "release_lock") => tl[i].ref \in OpenLocksBefore(tl, i)
    /\ \A s \in OpenLocksBefore(tl, i) :
            <<tl[i].asset, tl[i].target>> = <<tl[s].asset, tl[s].target>> =>
                tl[i].act \in {"release_lock", "slow_copy_commit", "network_lag_commit"}

\* Every start, open and acquire has its one commit, close or release.
AllPaired(tl) ==
    /\ OpenLagsBefore(tl, Len(tl) + 1) = {}
    /\ OpenLocksBefore(tl, Len(tl) + 1) = {}
    /\ Len(tl) > 0 => ~Is(tl, Len(tl), "slow_copy_start")
=============================================================================
