------------------------------ MODULE WallClock ------------------------------
(***************************************************************************)
(* `run`: executing a planned journal against the wall clock               *)
(* (materializer/runtime/wall_clock.py over runtime/scheduler.py, the      *)
(* phase-B handlers and the network-fs-chaos effects), from the published  *)
(* baseline to the sealed run directory.                                   *)
(*                                                                         *)
(* The process is one thread, but time passes and every write can fail     *)
(* between any two of its steps, and the run directory is read by other    *)
(* programs all along.  A step of the model is one read of the clock with  *)
(* what is decided from it, one handler, one journal append, one restored  *)
(* mode or one group of metadata writes.  Killing the process leaves the   *)
(* run directory as the last step left it and nothing resumes a run, so    *)
(* what an invariant says of fs, rows, meta and sentinel holds of a killed *)
(* run too.                                                                *)
(***************************************************************************)
EXTENDS RunReplay

CONSTANTS
    Plans,      \* set of [journal, worlds]: what the engine planned for a scenario
    Durations,  \* the values --duration takes
    Num, Den,   \* --speed as a fraction: logical time units per unit of wall time
    PollEvery,  \* _SLOW_COPY_POLL_INTERVAL_NS
    MaxNow,     \* bound on the clock
    Faults      \* the calls that may fail: subset of {"publish","tool","append","write"}

ASSUME WallClockAssumption ==
    /\ Num \in Nat \ {0} /\ Den \in Nat \ {0}
    /\ PollEvery \in Nat \ {0}
    /\ MaxNow \in Nat
    /\ Durations \subseteq Nat \ {0}
    /\ Faults \subseteq {"publish", "tool", "append", "write"}

\* Every plan is the plan of a scenario that passed validation.
ASSUME PlansAssumption ==
    \A p \in Plans : p.journal \in Seq(JournalEntries) /\ WellPaired(p.journal)

PlanOf(tl) == [journal |-> JournalOf(tl), worlds |-> Worlds(tl)]

VARIABLES
    plan,      \* the plan being executed; never changes
    duration,  \* requested_duration_ns; never changes
    now,       \* wall time since start_wall_ns
    pc,        \* where the runner is
    ret,       \* the loop that called _execute_and_record
    due,       \* what is left of due_count
    wake,      \* the end of the current sleep
    cursor,    \* entries executed
    fs,        \* the library tree and FilesystemPhaseBContext
    copies,    \* slow_copies: sessions [start, source]
    lags,      \* network_lags: start indices
    deferred,  \* deferred_network_lag_entries: start indices
    chaos,     \* NetworkFsChaosState
    drained,   \* execution.overran_duration
    rows,      \* journal.jsonl, as indices into the plan's journal
    meta,      \* the other metadata files: "baseline", "mixed" or "final"
    sentinel,  \* state in the run sentinel, "absent" before the publish
    outcome    \* "none", "success", "failed" (recorded) or "raised" (propagated)

session == <<copies, lags, deferred, chaos>>
disk    == <<fs, rows, meta, sentinel>>
vars    == <<plan, duration, now, pc, ret, due, wake, cursor, session, drained, disk, outcome>>

Journal == plan.journal
Oracle(n) == plan.worlds[n]  \* the manifest of the prefix of length n
Entry(i) == Journal[i]
Next1 == cursor + 1     \* the entry under the cursor

(***************************************************************************)
(* Scheduling arithmetic.                                                  *)
(***************************************************************************)
LogicalNow(elapsed) == (elapsed * Num) \div Den

\* Defect: the wake-up time is rounded down.
DueWall_Floor(at) == (at * Den) \div Num

DueWall(at) == LET scaled == at * Den
               IN  scaled \div Num + (IF scaled % Num # 0 THEN 1 ELSE 0)

\* due_event_count: the length of the run of due entries at the cursor
DueCount(logical) ==
    LET late == {i \in Next1..Len(Journal) : Entry(i).at > logical}
    IN  IF late = {} THEN Len(Journal) - cursor
        ELSE (CHOOSE i \in late : \A j \in late : i <= j) - Next1

\* Defects: the deadline is taken one unit early, or one unit late.
DeadlinePassed_Early == now + 1 >= duration
DeadlinePassed_Late  == now > duration

DeadlinePassed == now >= duration

Earlier(a, b) == IF a <= b THEN a ELSE b

Init ==
    /\ plan \in Plans /\ duration \in Durations
    /\ now = 0 /\ pc = "baseline" /\ ret = "batch" /\ due = 0 /\ wake = 0 /\ cursor = 0
    /\ fs = InitialTree
    /\ copies = {} /\ lags = {} /\ deferred = {} /\ chaos = NoChaos
    /\ drained = FALSE
    /\ rows = <<>> /\ meta = "baseline" /\ sentinel = "absent" /\ outcome = "none"

Tick ==
    /\ pc \in {"loop", "sleep", "batch", "copies", "lags", "idle"}
    /\ now < MaxNow
    /\ now' = now + 1
    /\ UNCHANGED <<plan, duration, pc, ret, due, wake, cursor, session, drained, disk, outcome>>

\* _publish_baseline: one rename makes the staged directory visible.
Publish ==
    /\ pc = "baseline"
    /\ sentinel' = "in_progress" /\ pc' = "loop"
    /\ UNCHANGED <<plan, duration, now, ret, due, wake, cursor, session, drained, fs, rows,
                   meta, outcome>>

(***************************************************************************)
(* Active slow copies.                                                     *)
(***************************************************************************)
CommitOf(start) == CHOOSE i \in DOMAIN Journal :
                      Entry(i).act = "slow_copy_commit" /\ Entry(i).ref = start

\* Defect: the size follows the time of the last poll's rounding, not the clamp.
VisibleSize_Ahead(c, logical) ==
    LET length == Entry(CommitOf(c.start)).at - Entry(c.start).at
    IN  Earlier(c.source.bytes,
                (c.source.bytes * (logical + 1 - Entry(c.start).at)) \div length)

VisibleSize(c, logical) ==
    LET length  == Entry(CommitOf(c.start)).at - Entry(c.start).at
        elapsed == logical - Entry(c.start).at
        clamped == IF elapsed < 0 THEN 0 ELSE Earlier(elapsed, length)
    IN  (c.source.bytes * clamped) \div length

\* _grow_active_slow_copies
Grown(logical) ==
    LET temp(c) == Entry(c.start).temp
        part(c) == [c.source EXCEPT !.bytes = VisibleSize(c, logical)]
        owner(p) == {c \in copies : temp(c) = p}
    IN  IF \A c \in copies : CanWrite(fs, temp(c))
        THEN Returns([fs EXCEPT !.files = [p \in Paths |->
                IF owner(p) = {} THEN fs.files[p]
                ELSE Written(fs, p, part(CHOOSE c \in owner(p) : TRUE)).files[p]]])
        ELSE Raises(fs)

\* An effect returned or raised: carry on, or leave for the failure path.
Proceed(result, label) ==
    /\ fs' = result.fs
    /\ pc' = IF result.ok THEN label ELSE "failing"

(***************************************************************************)
(* _execute_entry: one action per kind of entry, on the tree it meets.     *)
(***************************************************************************)

\* network_lag_starts_by_after: the lag that withholds entry i
LagOver(i) == {s \in DOMAIN Journal : /\ Entry(s).act = "network_lag_start"
                                      /\ Entry(s).effect # "held_handle"
                                      /\ Entry(s).ref = i}

Withhold(tree, i) ==
    /\ LagOver(i) # {}
    /\ deferred' = deferred \cup LagOver(i)
    /\ Proceed(Returns(tree), "record")
    /\ UNCHANGED <<copies, lags, chaos>>

StartSlowCopy(tree, i) ==
    LET e  == Entry(i)
        ok == CanRead(tree, e.from) /\ CanWrite(tree, e.temp)
    IN  /\ e.act = "slow_copy_start" /\ LagOver(i) = {}
        /\ IF ok
           THEN /\ Proceed(Returns(Written(tree, e.temp, [tree.files[e.from] EXCEPT !.bytes = 0])),
                           "record")
                /\ copies' = copies \cup {[start |-> i, source |-> tree.files[e.from]]}
           ELSE Proceed(Raises(tree), "record") /\ UNCHANGED copies
        /\ UNCHANGED <<lags, deferred, chaos>>

\* Defect: what has grown so far is promoted, instead of the whole source.
CommitSlowCopy_Partial(tree, i) ==
    LET e    == Entry(i)
        open == {c \in copies : c.start = e.ref}
        s    == Entry(e.ref)
    IN  /\ e.act = "slow_copy_commit" /\ LagOver(i) = {}
        /\ Proceed(Promote(tree, s.from, s.temp, s.to), "record")
        /\ copies' = copies \ open
        /\ UNCHANGED <<lags, deferred, chaos>>

CommitSlowCopy(tree, i) ==
    LET e    == Entry(i)
        open == {c \in copies : c.start = e.ref}
        s    == Entry(e.ref)
        c    == CHOOSE x \in open : TRUE
    IN  /\ e.act = "slow_copy_commit" /\ LagOver(i) = {}
        /\ Proceed(IF open # {} /\ CanWrite(tree, s.temp)
                   THEN Promote(Written(tree, s.temp, c.source), s.from, s.temp, s.to)
                   ELSE Raises(tree),
                   "record")
        /\ copies' = copies \ open
        /\ UNCHANGED <<lags, deferred, chaos>>

StartLag(tree, i) ==
    /\ Entry(i).act = "network_lag_start" /\ LagOver(i) = {}
    /\ lags' = lags \cup {i}
    /\ Proceed(Returns(tree), "record")
    /\ UNCHANGED <<copies, deferred, chaos>>

\* A media tool may exit non-zero whatever it is given.
ToolExits(i) == IF Entry(i).act \in MediaActions /\ "tool" \in Faults THEN BOOLEAN ELSE {TRUE}

Dispatched(tree, i, ran) == IF ran THEN Dispatch(tree, i, Entry(i)) ELSE Raises(tree)

\* Defect: the withheld event is dropped, not dispatched.
CommitLag_Drops(tree, i) ==
    LET s == Entry(i).ref
    IN  /\ Entry(i).act = "network_lag_commit" /\ LagOver(i) = {} /\ s \in lags
        /\ lags' = lags \ {s} /\ deferred' = deferred \ {s}
        /\ Proceed(Returns(tree), "record")
        /\ UNCHANGED <<copies, chaos>>

\* What the lag withheld is dispatched now, against today's tree.
CommitLag(tree, i) ==
    LET s == Entry(i).ref
    IN  /\ Entry(i).act = "network_lag_commit" /\ LagOver(i) = {} /\ s \in lags
        /\ lags' = lags \ {s} /\ deferred' = deferred \ {s}
        /\ IF s \in deferred
           THEN \E ran \in ToolExits(Entry(s).ref) :
                    Proceed(Dispatched(tree, Entry(s).ref, ran), "record")
           ELSE Proceed(Returns(tree), "record")
        /\ UNCHANGED <<copies, chaos>>

RealizeChaos(tree, i) ==
    LET r == Realize(tree, chaos, i, Entry(i))
    IN  /\ Entry(i).act \in ChaosOpenActions \cup ChaosCloseActions /\ LagOver(i) = {}
        /\ Proceed([ok |-> r.ok, fs |-> r.fs], "record")
        /\ chaos' = r.chaos
        /\ UNCHANGED <<copies, lags, deferred>>

PhaseBActions == {"move_asset", "delete_file", "add_file", "touch_mtime", "rename_season"}
                    \cup MediaActions

DispatchPhaseB(tree, i) ==
    /\ Entry(i).act \in PhaseBActions /\ LagOver(i) = {}
    /\ \E ran \in ToolExits(i) : Proceed(Dispatched(tree, i, ran), "record")
    /\ UNCHANGED session

Execute(tree, i) ==
    /\ \/ Withhold(tree, i)      \/ StartSlowCopy(tree, i) \/ CommitSlowCopy(tree, i)
       \/ StartLag(tree, i)      \/ CommitLag(tree, i)
       \/ RealizeChaos(tree, i)  \/ DispatchPhaseB(tree, i)
    /\ UNCHANGED <<plan, duration, now, wake, cursor, rows, meta, sentinel, outcome>>

(***************************************************************************)
(* _execute_and_record: the second half.                                   *)
(***************************************************************************)
Record ==
    /\ pc = "record"
    /\ rows' = Append(rows, Next1)
    /\ cursor' = cursor + 1
    /\ pc' = ret
    /\ UNCHANGED <<plan, duration, now, ret, due, wake, session, drained, fs, meta, sentinel,
                   outcome>>

\* An OSError that nothing between here and the command catches.
Propagates ==
    /\ pc' = "stopped" /\ outcome' = "raised"
    /\ UNCHANGED <<plan, duration, now, ret, due, wake, cursor, session, drained, disk>>

WriteFault ==
    \/ pc = "baseline" /\ "publish" \in Faults /\ Propagates
    \/ pc = "record"   /\ "append" \in Faults /\ Propagates
    \/ pc = "metadata" /\ "write" \in Faults /\ Propagates

(***************************************************************************)
(* _execute_wall_clock_journal.                                            *)
(***************************************************************************)
HasNext == cursor < Len(Journal)

\* One reading of the clock at the top of the loop: growth, then next.
Turn(next) ==
    /\ pc = "loop" /\ HasNext
    /\ Proceed(Grown(LogicalNow(now)), next)
    /\ UNCHANGED <<plan, duration, now, ret, cursor, session, drained, rows, meta, sentinel,
                   outcome>>

TurnDeadline == DeadlinePassed /\ Turn("copies") /\ UNCHANGED <<due, wake>>

TurnDue ==
    /\ ~DeadlinePassed
    /\ due' = DueCount(LogicalNow(now)) /\ due' > 0
    /\ Turn("batch")
    /\ UNCHANGED wake

\* Defect: sleeps until the last whole unit before the event.
NextWake_Short ==
    LET next == Earlier(duration, (Entry(Next1).at * Den) \div Num)
    IN  IF copies = {} THEN next ELSE Earlier(next, now + PollEvery)

NextWake ==
    LET next == Earlier(duration, DueWall(Entry(Next1).at))
    IN  IF copies = {} THEN next ELSE Earlier(next, now + PollEvery)

TurnSleep ==
    /\ ~DeadlinePassed
    /\ HasNext /\ DueCount(LogicalNow(now)) = 0
    /\ wake' = NextWake
    /\ Turn("sleep")
    /\ UNCHANGED due

LoopEnds ==
    /\ pc = "loop" /\ ~HasNext
    /\ pc' = "copies"
    /\ UNCHANGED <<plan, duration, now, ret, due, wake, cursor, session, drained, disk, outcome>>

Wake ==
    /\ pc = "sleep" /\ now >= wake
    /\ pc' = "loop"
    /\ UNCHANGED <<plan, duration, now, ret, due, wake, cursor, session, drained, disk, outcome>>

\* Defect: the batch is not limited to the entries that were due.
RunDue_Unlimited ==
    /\ pc = "batch" /\ HasNext /\ ~DeadlinePassed
    /\ Execute(fs, Next1)
    /\ due' = due - 1 /\ ret' = "batch"
    /\ UNCHANGED drained

RunDue ==
    /\ pc = "batch" /\ due > 0 /\ ~DeadlinePassed
    /\ Execute(fs, Next1)
    /\ due' = due - 1 /\ ret' = "batch"
    /\ UNCHANGED drained

BatchEnds ==
    /\ pc = "batch" /\ (due = 0 \/ DeadlinePassed)
    /\ pc' = "loop"
    /\ UNCHANGED <<plan, duration, now, ret, due, wake, cursor, session, drained, disk, outcome>>

\* Defect: an expired run leaves its slow copy where it is.
HeadFinishesCopy_Never == FALSE

\* _finish_active_slow_copies
HeadFinishesCopy ==
    HasNext /\ Entry(Next1).act = "slow_copy_commit" /\ \E c \in copies : c.start = Entry(Next1).ref

FinishSlowCopy ==
    LET g == Grown(LogicalNow(now))
    IN  /\ pc = "copies" /\ HeadFinishesCopy
        /\ now >= DueWall(Entry(Next1).at)
        /\ IF g.ok
           THEN Execute(g.fs, Next1)
           ELSE /\ Proceed(g, "record")
                /\ UNCHANGED <<plan, duration, now, wake, cursor, session, rows, meta, sentinel,
                               outcome>>
        /\ ret' = "copies" /\ drained' = TRUE
        /\ UNCHANGED due

SlowCopiesFinished ==
    /\ pc = "copies" /\ ~HeadFinishesCopy
    /\ pc' = "lags" /\ drained' = (drained \/ copies # {})
    /\ UNCHANGED <<plan, duration, now, ret, due, wake, cursor, session, disk, outcome>>

\* Defect: the drain stops at the first entry that does not close a lag.
HeadBelongsToLag_Commit == HasNext /\ Entry(Next1).act = "network_lag_commit"

\* _finish_active_network_lags executes whatever comes before the commits too.
HeadBelongsToLag == HasNext /\ lags # {}

FinishLag ==
    /\ pc = "lags" /\ HeadBelongsToLag
    /\ now >= DueWall(Entry(Next1).at)
    /\ Execute(fs, Next1)
    /\ ret' = "lags" /\ drained' = TRUE
    /\ UNCHANGED due

LagsFinished ==
    /\ pc = "lags" /\ ~HeadBelongsToLag
    /\ pc' = "idle" /\ drained' = (drained \/ lags # {})
    /\ UNCHANGED <<plan, duration, now, ret, due, wake, cursor, session, disk, outcome>>

\* Defect: a run that its deadline cut short goes round again.
IdleOut_Again ==
    /\ pc = "idle" /\ (HasNext \/ DeadlinePassed)
    /\ pc' = IF HasNext THEN "loop" ELSE "restore"
    /\ UNCHANGED <<plan, duration, now, ret, due, wake, cursor, session, drained, disk, outcome>>

\* A run that executed everything still lasts as long as it was asked to.
IdleOut ==
    /\ pc = "idle" /\ (HasNext \/ DeadlinePassed)
    /\ pc' = "restore"
    /\ UNCHANGED <<plan, duration, now, ret, due, wake, cursor, session, drained, disk, outcome>>

(***************************************************************************)
(* _finalize_wall_clock_run and _finalize_wall_clock_phase_b_failure.      *)
(***************************************************************************)
Finalizing == pc \in {"restore", "failing"}

\* Defect: modes are not restored.
HasCaptured_Never == FALSE

HasCaptured == chaos.captured # <<>>

RestoreMode ==
    /\ Finalizing /\ HasCaptured /\ ~RestoreRaises(fs, chaos.captured)
    /\ fs' = RestoreOne(fs, chaos.captured)
    /\ chaos' = [chaos EXCEPT !.captured = Tail(@)]
    /\ UNCHANGED <<plan, duration, now, pc, ret, due, wake, cursor, copies, lags, deferred,
                   drained, rows, meta, sentinel, outcome>>

\* On the success path the failure path is tried next; on the failure path the
\* error leaves the run as it is.
RestoreBreaks ==
    /\ Finalizing /\ HasCaptured /\ RestoreRaises(fs, chaos.captured)
    /\ chaos' = [chaos EXCEPT !.captured = <<>>]
    /\ IF pc = "restore" THEN pc' = "failing" /\ UNCHANGED outcome
                         ELSE pc' = "stopped" /\ outcome' = "raised"
    /\ UNCHANGED <<plan, duration, now, ret, due, wake, cursor, copies, lags, deferred, drained,
                   disk>>

Succeeds ==
    /\ pc = "restore" /\ ~HasCaptured
    /\ pc' = "metadata" /\ outcome' = "success"
    /\ UNCHANGED <<plan, duration, now, ret, due, wake, cursor, session, drained, disk>>

Emptied(tree, gone) ==
    [tree EXCEPT !.files = [p \in Paths |-> IF p \in gone THEN NoFile ELSE tree.files[p]]]

\* shutil.rmtree(library): enters and empties every directory, or raises with
\* part of the tree gone.
Removable(tree, p) == Allows(tree.dirs[DirOf[p]], DirMode)
WipesClean(tree)   == \A d \in Dirs : Allows(tree.dirs[d], DirMode)

\* Defect: rmtree(ignore_errors=True).
WipeLibrary_IgnoresErrors ==
    /\ pc = "failing" /\ ~HasCaptured
    /\ fs' = Emptied(fs, {p \in Paths : Removable(fs, p)})
    /\ pc' = "metadata" /\ outcome' = "failed"
    /\ UNCHANGED <<plan, duration, now, ret, due, wake, cursor, session, drained, rows, meta,
                   sentinel>>

WipeLibrary ==
    /\ pc = "failing" /\ ~HasCaptured
    /\ IF WipesClean(fs)
       THEN fs' = Emptied(fs, Paths) /\ pc' = "metadata" /\ outcome' = "failed"
       ELSE /\ \E gone \in SUBSET {p \in Paths : Removable(fs, p)} : fs' = Emptied(fs, gone)
            /\ pc' = "stopped" /\ outcome' = "raised"
    /\ UNCHANGED <<plan, duration, now, ret, due, wake, cursor, session, drained, rows, meta,
                   sentinel>>

\* _write_shared_metadata and _write_reports, file by file; journal.jsonl is
\* rewritten with the entries it already holds.
WriteMetadata ==
    /\ pc = "metadata" /\ meta # "final"
    /\ meta' = IF meta = "baseline" THEN "mixed" ELSE "final"
    /\ rows' = [k \in 1..cursor |-> k]
    /\ UNCHANGED <<plan, duration, now, pc, ret, due, wake, cursor, session, drained, fs,
                   sentinel, outcome>>

\* Defect: the sentinel is flipped before the last files are written.
Seal_Early ==
    /\ pc = "metadata" /\ meta = "mixed"
    /\ sentinel' = "complete" /\ pc' = "done"
    /\ UNCHANGED <<plan, duration, now, ret, due, wake, cursor, session, drained, fs, rows, meta,
                   outcome>>

\* Sentinel last.
Seal ==
    /\ pc = "metadata" /\ meta = "final"
    /\ sentinel' = "complete" /\ pc' = "done"
    /\ UNCHANGED <<plan, duration, now, ret, due, wake, cursor, session, drained, fs, rows, meta,
                   outcome>>

Stopped == pc \in {"done", "stopped"} /\ UNCHANGED vars

Step ==
    \/ Publish \/ TurnDeadline \/ TurnDue \/ TurnSleep \/ LoopEnds \/ Wake
    \/ RunDue \/ BatchEnds \/ Record
    \/ FinishSlowCopy \/ SlowCopiesFinished \/ FinishLag \/ LagsFinished \/ IdleOut
    \/ RestoreMode \/ RestoreBreaks \/ Succeeds \/ WipeLibrary \/ WriteMetadata \/ Seal

Next == Step \/ Tick \/ WriteFault \/ Stopped

Spec == Init /\ [][Next]_vars

\* The thread is scheduled and the monotonic clock advances.
FairSpec == Spec /\ WF_vars(Step) /\ WF_vars(Tick)
=============================================================================
