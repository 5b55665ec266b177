--------------------------- MODULE NetworkFsChaos ---------------------------
(***************************************************************************)
(* The network-fs-chaos conditions: change_permissions and toggle_readonly *)
(* really chmod a file or a directory of the library and capture the mode  *)
(* it had, acquire_lock .. release_lock (unmount_path .. remount_path is   *)
(* the same code) only open and close a window in memory.                  *)
(* The wall-clock runner and the run replay share it.                      *)
(***************************************************************************)
EXTENDS LibraryTree, Sequences

CONSTANT NoPath  \* the target of an asset that has no path

\* NetworkFsChaosState: captured_modes in the order it is filled, open_locks
NoChaos == [captured |-> <<>>, open |-> {}]

ModeOf(fs, t) == IF t \in Dirs THEN fs.dirs[t] ELSE fs.files[t].mode

Chmod(fs, t, m) == IF t \in Dirs THEN [fs EXCEPT !.dirs[t] = m]
                                 ELSE [fs EXCEPT !.files[t].mode = m]

StatBlocked(fs, t) == t \in Paths /\ ~Reachable(fs, t)
ExistsRaises(fs, t) == StatBlocked(fs, t) /\ StatRaises
Exists(fs, t) == t \in Dirs \/ (t \in Paths /\ Reachable(fs, t) /\ Present(fs, t))

\* Defect: the last touch of a path wins.
Captured_Last(captured, t, m) ==
    Append(SelectSeq(captured, LAMBDA c : c.target # t), [target |-> t, mode |-> m])

\* _capture_mode: the first touch of a path wins
Captured(captured, t, m) ==
    IF \E k \in DOMAIN captured : captured[k].target = t
    THEN captured
    ELSE Append(captured, [target |-> t, mode |-> m])

NewMode(fs, e) ==
    CASE e.act = "change_permissions" -> e.mode
      [] e.effect = "readonly"        -> ModeOf(fs, e.target) \ {"w"}
      [] OTHER                        -> ModeOf(fs, e.target) \cup {"w"}

ChaosOpenActions  == {"change_permissions", "toggle_readonly", "simulate_quota_exceeded",
                      "acquire_lock"}
ChaosCloseActions == {"release_lock"}

\* realize_chaos_entry and realize_chaos_close on the entry e of event i
Realize(fs, chaos, i, e) ==
    CASE e.act = "acquire_lock" ->
            [ok |-> TRUE, fs |-> fs, chaos |-> [chaos EXCEPT !.open = @ \cup {i}]]
      [] e.act = "release_lock" ->
            [ok |-> e.ref \in chaos.open, fs |-> fs, chaos |-> [chaos EXCEPT !.open = @ \ {e.ref}]]
      [] e.act \in {"change_permissions", "toggle_readonly"} /\ ExistsRaises(fs, e.target) ->
            [ok |-> FALSE, fs |-> fs, chaos |-> chaos]
      [] e.act \in {"change_permissions", "toggle_readonly"} /\ Exists(fs, e.target) ->
            [ok    |-> TRUE,
             fs    |-> Chmod(fs, e.target, NewMode(fs, e)),
             chaos |-> [chaos EXCEPT !.captured = Captured(@, e.target, ModeOf(fs, e.target))]]
      [] OTHER -> [ok |-> TRUE, fs |-> fs, chaos |-> chaos]

\* One turn of restore_chaos_modes: the oldest captured mode is put back if its
\* path still exists; if the test itself raises, the caller forgets them all.
RestoreRaises(fs, captured) == ExistsRaises(fs, Head(captured).target)
RestoreOne(fs, captured) ==
    LET oldest == Head(captured)
    IN  IF Exists(fs, oldest.target) THEN Chmod(fs, oldest.target, oldest.mode) ELSE fs
=============================================================================
