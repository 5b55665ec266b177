------------------------------ MODULE Timeline ------------------------------
(***************************************************************************)
(* Scenario timelines: the events an author writes, the rules `validate`   *)
(* accepts them by (validation/rules/timeline, rules/network and the       *)
(* hierarchy collision rule), and what the engine makes of an accepted     *)
(* timeline: the world after each event (engine/event_handlers) and the    *)
(* journal entry it emits, with the paths phase B later acts on.           *)
(*                                                                         *)
(* An event's id is its position.  One action stands for all that share a  *)
(* handler: move_asset for rename_file, archive_file and                   *)
(* move_between_roots; edit_metadata for every rewrite in place (media and *)
(* corruption); rename_season for every hierarchy action; acquire_lock for *)
(* unmount_path; simulate_quota_exceeded for every event without an effect *)
(* on the tree.                                                            *)
(***************************************************************************)
EXTENDS NetworkFsChaos, TimelineRules

CONSTANTS
    NoAsset,
    Home      \* [Assets -> Paths]: where the initial manifest places each asset

ASSUME TimelineAssumption ==
    /\ Home \in [Assets -> Paths]
    /\ NoPath \notin Paths \cup Dirs
    /\ NoAsset \notin Assets

Actions == {"move_asset", "delete_file", "add_file", "edit_metadata", "remux_container",
            "touch_mtime", "rename_season", "slow_copy_start", "slow_copy_commit",
            "network_lag_start", "network_lag_commit", "change_permissions",
            "toggle_readonly", "acquire_lock", "release_lock", "simulate_quota_exceeded"}

\* _LOCATION_DEPENDENT_PASSTHROUGH and the mutations: they need a placed asset
LocationActions == {"move_asset", "delete_file", "edit_metadata", "remux_container",
                    "touch_mtime", "slow_copy_start"}

\* Events and journal entries share one shape; a field an action does not use
\* keeps its value here.  ref is the index of the event named by `for`/`after`.
Blank == [act |-> "simulate_quota_exceeded", at |-> 0, asset |-> NoAsset, target |-> NoPath,
          from |-> NoPath, to |-> NoPath, temp |-> NoPath, ref |-> 0,
          effect |-> "none", mode |-> {}, moves |-> {}]

\* The asset and the paths that the handler of an entry reads are in it: an event
\* whose handler needs the file of an asset is rejected when it is not placed.
CarriesPaths(e) ==
    /\ e.act \in LocationActions => e.from \in Paths
    /\ e.act \in {"move_asset", "add_file", "edit_metadata", "remux_container",
                  "slow_copy_start", "slow_copy_commit"} => e.to \in Paths
    /\ e.act = "slow_copy_start" => e.temp \in Paths
    /\ e.act \in LocationActions \cup {"add_file", "slow_copy_commit"} => e.asset \in Assets
    /\ \A m \in e.moves : m.from \in Paths /\ m.to \in Paths

JournalEntries ==
    LET path == Paths \cup {NoPath}
    IN  {e \in [act : Actions, at : Nat, asset : Assets \cup {NoAsset}, target : path \cup Dirs,
                from : path, to : path, temp : path, ref : Nat,
                effect : {"none", "delayed_visibility", "delayed_rename", "held_handle",
                          "readonly", "writable"},
                mode : Mode, moves : SUBSET [asset : Assets, from : path, to : path]] :
            CarriesPaths(e)}

(***************************************************************************)
(* The engine.                                                             *)
(***************************************************************************)

\* build_initial_state: every asset placed at its rendered path, version 0
InitialWorld == [loc     |-> Home,
                 ver     |-> [a \in Assets |-> 0],
                 temp    |-> [a \in Assets |-> NoPath],
                 managed |-> Assets]

\* The moves of a hierarchy event: assets that are placed and still rendered
\* by the hierarchy, and whose path changes.
EffectiveMoves(w, e) ==
    {[m EXCEPT !.from = w.loc[m.asset]] :
        m \in {n \in e.moves : /\ n.asset \in w.managed
                               /\ w.loc[n.asset] \notin {NoPath, n.to}}}

\* apply_event: one handler per action
ApplyEvent(w, tl, i) ==
    LET e == tl[i]
        a == e.asset
    IN  CASE e.act = "move_asset"      -> [w EXCEPT !.loc[a] = e.to]
          [] e.act = "delete_file"     -> [w EXCEPT !.loc[a] = NoPath, !.managed = @ \ {a}]
          [] e.act = "add_file"        -> [w EXCEPT !.loc[a] = e.to]
          [] e.act = "edit_metadata"   -> [w EXCEPT !.ver[a] = @ + 1]
          [] e.act = "remux_container" -> [w EXCEPT !.ver[a] = @ + 1, !.loc[a] = e.to]
          [] e.act = "rename_season"   ->
                [w EXCEPT !.loc = [b \in Assets |->
                    IF \E m \in EffectiveMoves(w, e) : m.asset = b
                    THEN (CHOOSE m \in EffectiveMoves(w, e) : m.asset = b).to
                    ELSE w.loc[b]]]
          [] e.act = "slow_copy_start"  -> [w EXCEPT !.temp[a] = e.temp]
          [] e.act = "slow_copy_commit" -> LET s == tl[e.ref]
                                           IN  [w EXCEPT !.loc[s.asset]  = s.to,
                                                         !.temp[s.asset] = NoPath]
          [] OTHER -> w

\* The world the plan computes after each prefix of the timeline.
Worlds(tl) ==
    LET after[n \in 0..Len(tl)] == IF n = 0 THEN InitialWorld
                                   ELSE ApplyEvent(after[n - 1], tl, n)
    IN  after

\* _chaos_resolved_path: where the named asset is, or the path that was named
ChaosPath(w, e) == IF e.asset \in Assets THEN w.loc[e.asset] ELSE e.target

\* The chaos conditions of one event; the path is resolved now, for good.
AtomicChaosEntry(w, e) == [e EXCEPT !.target = ChaosPath(w, e)]

\* acquire_lock resolves its path; release_lock repeats the one its acquire
\* resolved, wherever the asset is by then.
WindowEntry(worlds, tl, i) ==
    LET open == IF Is(tl, i, "release_lock") THEN tl[i].ref ELSE i
    IN  [tl[i] EXCEPT !.target = ChaosPath(worlds[open - 1], tl[open])]

\* The journal entry of event i; worlds[i - 1] is the world before it.
JournalEntry(worlds, tl, i) ==
    LET e == tl[i]
        w == worlds[i - 1]
    IN  CASE e.act \in {"move_asset", "delete_file", "remux_container", "touch_mtime"} ->
                [e EXCEPT !.from = w.loc[e.asset]]
          [] e.act = "edit_metadata" ->
                [e EXCEPT !.from = w.loc[e.asset], !.to = w.loc[e.asset]]
          [] e.act = "rename_season" -> [e EXCEPT !.moves = EffectiveMoves(w, e)]
          [] e.act = "slow_copy_start" -> [e EXCEPT !.from = w.loc[e.asset]]
          [] e.act = "slow_copy_commit" ->
                [e EXCEPT !.asset = tl[e.ref].asset, !.to = tl[e.ref].to]
          [] e.act \in {"change_permissions", "toggle_readonly", "simulate_quota_exceeded"} ->
                AtomicChaosEntry(w, e)
          [] e.act \in {"acquire_lock", "release_lock"} -> WindowEntry(worlds, tl, i)
          [] OTHER -> e

JournalOf(tl) ==
    LET worlds == Worlds(tl)
    IN  [i \in 1..Len(tl) |-> JournalEntry(worlds, tl, i)]

\* Adjacent matching slow_copy_start / slow_copy_commit form one step.
StepBoundaries(tl) ==
    {n \in 0..Len(tl) : ~ /\ n \in 1..(Len(tl) - 1)
                          /\ Is(tl, n, "slow_copy_start")
                          /\ Is(tl, n + 1, "slow_copy_commit")
                          /\ tl[n + 1].ref = n}

(***************************************************************************)
(* The validation rules that need the plan, one per conjunct of            *)
(* EventAccepted; the others are in TimelineRules.                         *)
(***************************************************************************)

\* _LifecycleState.placed and assets_with_pending_copy before event i
PlacedBefore(tl, i, a) ==
    \A d \in 1..(i - 1) : (Is(tl, d, "delete_file") /\ tl[d].asset = a) =>
        \E n \in (d + 1)..(i - 1) : Is(tl, n, "add_file") /\ tl[n].asset = a

PendingCopyBefore(tl, i, a) ==
    \E s \in 1..(i - 1) : /\ Is(tl, s, "slow_copy_start") /\ tl[s].asset = a
                          /\ \A c \in (s + 1)..(i - 1) :
                                ~(Is(tl, c, "slow_copy_commit") /\ tl[c].ref = s)

LifecycleAccepts(tl, i) ==
    LET a == tl[i].asset
    IN  /\ Is(tl, i, "add_file") => ~PlacedBefore(tl, i, a)
        /\ tl[i].act \in LocationActions => /\ PlacedBefore(tl, i, a)
                                            /\ ~PendingCopyBefore(tl, i, a)
        /\ Is(tl, i, "rename_season") =>
                \A m \in tl[i].moves : ~PendingCopyBefore(tl, i, m.asset)

\* E_PATH_COLLISION of a hierarchy event, on the projected paths
CollisionAccepts(tl, i, w) ==
    Is(tl, i, "rename_season") =>
        LET next  == ApplyEvent(w, tl, i).loc
            moved == {m.asset : m \in tl[i].moves}
        IN  \A a \in moved, b \in Assets : a # b /\ next[a] # NoPath => next[a] # next[b]

EventAccepted(tl, i, w) ==
    /\ InOrder(tl, i)
    /\ LifecycleAccepts(tl, i)
    /\ SlowCopyAccepts(tl, i, w)
    /\ NetworkLagAccepts(tl, i)
    /\ ChaosAccepts(tl, i)
    /\ CollisionAccepts(tl, i, w)

\* What these rules and the engine add up to for the journal: the start of a slow
\* copy copies to a path of its own and is followed at once by its commit, to the
\* same destination; a lag follows at once an event it can withhold, and every lag
\* has a later commit of its own.
WellPaired(journal) ==
    \A i \in DOMAIN journal :
        LET e == journal[i]
        IN  /\ e.act = "slow_copy_start" =>
                    /\ i + 1 \in DOMAIN journal
                    /\ Is(journal, i + 1, "slow_copy_commit")
                    /\ e.at < journal[i + 1].at
                    /\ e.temp # e.from /\ journal[i + 1].to = e.to
            /\ e.act = "slow_copy_commit" =>
                    /\ e.ref \in DOMAIN journal /\ e.ref = i - 1
                    /\ Is(journal, e.ref, "slow_copy_start")
            /\ e.act = "network_lag_start" =>
                    /\ e.ref \in DOMAIN journal /\ e.ref = i - 1
                    /\ e.effect # "held_handle" =>
                            journal[e.ref].act \in DelayedVisibilityAfter \cup DelayedRenameAfter
                    /\ \E c \in DOMAIN journal :
                            c > i /\ Is(journal, c, "network_lag_commit") /\ journal[c].ref = i
            /\ e.act = "network_lag_commit" =>
                    /\ e.ref \in DOMAIN journal /\ e.ref < i
                    /\ Is(journal, e.ref, "network_lag_start")
=============================================================================
