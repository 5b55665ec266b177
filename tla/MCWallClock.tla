---------------------------- MODULE MCWallClock ----------------------------
(***************************************************************************)
(* Instances of RunProperties.  Every plan is the plan of a timeline that  *)
(* the validation rules accept; an alphabet says which events its author   *)
(* may write, and the bounds are the number of events and the latest time. *)
(* Each asset has paths of its own: what happens when two assets share a   *)
(* path is left to the runs that name it.                                  *)
(***************************************************************************)
EXTENDS RunProperties

CONSTANTS Alphabet, MaxEvents, MaxAt, Gaps

\* Two assets, a file path in each of two directories for each, and a
\* temporary path for the slow copies of "a".
MCAssets == {"a", "b"}
MCPaths  == {"d/a", "e/a", "e/a.part", "d/b", "e/b"}
MCDirs   == {"d", "e"}
MCDirOf  == [p \in MCPaths |-> IF p \in {"d/a", "d/b"} THEN "d" ELSE "e"]
MCHome   == [a \in MCAssets |-> IF a = "a" THEN "d/a" ELSE "d/b"]

Of(act, a) == [Blank EXCEPT !.act = act, !.asset = a]
MoveTo(a, p) == [Of("move_asset", a) EXCEPT !.to = p]
LagStart(i, effect, a) == [Of("network_lag_start", a) EXCEPT !.ref = i, !.effect = effect]
Closing(act, i, a) == [Of(act, a) EXCEPT !.ref = i]
ChmodOf(a, t, m) == [Of("change_permissions", a) EXCEPT !.target = t, !.mode = m]
Renames(to) == [Of("rename_season", NoAsset) EXCEPT !.moves =
                   {[asset |-> a, from |-> NoPath, to |-> to[a]] : a \in DOMAIN to}]
Effects == {"delayed_visibility", "delayed_rename", "held_handle"}

\* The events an author may write after a timeline of n events.
Authored(n) ==
    CASE Alphabet = "wrapped_copies" ->
            {[Of("slow_copy_start", "a") EXCEPT !.temp = "e/a.part", !.to = "e/a"],
             Closing("slow_copy_commit", n, NoAsset), LagStart(n, "delayed_visibility", "a")}
            \cup {Closing("network_lag_commit", i, NoAsset) : i \in 1..n}
      [] Alphabet = "chmod_and_move" ->
            {ChmodOf("a", NoPath, {}), ChmodOf(NoAsset, "e", {"r"}), MoveTo("a", "e/a")}
      [] Alphabet = "lags" ->
            {MoveTo("a", "e/a"), MoveTo("b", "e/b"), Of("delete_file", "a"),
             [Of("add_file", "a") EXCEPT !.to = "d/a"],
             [Of("remux_container", "a") EXCEPT !.to = "e/a"]}
            \cup {LagStart(n, f, a) : f \in Effects, a \in {"a", "b"}}
            \cup {Closing("network_lag_commit", i, NoAsset) : i \in 1..n}
      [] Alphabet = "copies" ->
            {Of("edit_metadata", "a"),
             [Of("slow_copy_start", "a") EXCEPT !.temp = "e/a.part", !.to = "e/a"],
             Closing("slow_copy_commit", n, NoAsset),
             LagStart(n, "held_handle", "a"),
             Renames([a |-> "e/a", b |-> "e/b"]), Renames([a |-> "d/b", b |-> "d/a"])}
            \cup {Closing("network_lag_commit", i, NoAsset) : i \in 1..n}
      [] Alphabet = "progress" ->
            {Of("edit_metadata", "a"), MoveTo("b", "e/b"),
             [Of("slow_copy_start", "a") EXCEPT !.temp = "e/a.part", !.to = "e/a"],
             Closing("slow_copy_commit", n, NoAsset), LagStart(n, "held_handle", "a"),
             LagStart(n, "delayed_visibility", "a")}
            \cup {Closing("network_lag_commit", i, NoAsset) : i \in 1..n}
      [] Alphabet = "chaos" ->
            {ChmodOf("a", NoPath, {}), ChmodOf(NoAsset, "d", {"r"}),
             [ChmodOf("a", NoPath, {}) EXCEPT !.act = "toggle_readonly", !.effect = "readonly"],
             [ChmodOf("a", NoPath, {}) EXCEPT !.act = "toggle_readonly", !.effect = "writable"],
             Of("acquire_lock", "a"),
             Of("touch_mtime", "a"), MoveTo("b", "e/b")}
            \cup {Closing("release_lock", i, "a") : i \in 1..n}

\* A delayed lag over a slow_copy_commit always fails: only one run allows it.
WithholdsCopy(tl, e) == /\ e.act = "network_lag_start" /\ e.effect # "held_handle"
                        /\ tl # <<>> /\ Is(tl, Len(tl), "slow_copy_commit")

Extensions(tl) ==
    {[e EXCEPT !.at = t] : e \in {x \in Authored(Len(tl)) :
                                      WithholdsCopy(tl, x) => Alphabet = "wrapped_copies"},
                           t \in {IF tl = <<>> THEN g ELSE tl[Len(tl)].at + g : g \in Gaps}
                                 \cap 0..MaxAt}

Timelines ==
    LET of[n \in 0..MaxEvents] ==
            IF n = 0 THEN {<<>>}
            ELSE UNION {{tl \in {Append(s, e) : e \in Extensions(s)} :
                            EventAccepted(tl, n, Worlds(s)[n - 1])} : s \in of[n - 1]}
    IN  {tl \in UNION {of[n] : n \in 1..MaxEvents} : AllPaired(tl)}

MCPlans == {PlanOf(tl) : tl \in Timelines}

\* What the theorems ask of the plans, the instances satisfy.
ASSUME MCAssumption == /\ Alphabet # "wrapped_copies" => CopiesNotWrapped
                       /\ Alphabet # "chmod_and_move" => ChmodTargetsStay
                       /\ Alphabet = "copies" => NothingIsWithheld
                       /\ Alphabet \in {"lags", "copies", "progress"} => NoLockWindows
                       /\ EnginePlans /\ LocksPaired
                       /\ Alphabet \in {"lags", "copies", "progress"} =>
                              NothingIsChmodded /\ WithheldRest /\ PlacesAreFree
=============================================================================
