-------------------------- MODULE OutputDirectory --------------------------
(***************************************************************************)
(* The directory one --out names, while commands that create it (plan and  *)
(* replay, materialize, run, the replay of a run) race for it, fail, are   *)
(* killed, and `clean` removes it.  A command is the list of files it      *)
(* still has to write, where it writes them, and what comes after; a file  *)
(* is the command that wrote it and the number of journal entries, or the  *)
(* state, it stands for.                                                   *)
(***************************************************************************)
EXTENDS Integers, Sequences

CONSTANTS Commands,     \* the commands an operator gives, each once
          Rows,         \* the entries of the scenario's journal
          MaxKills,     \* bound on kills
          NoDir         \* nothing at that path

VARIABLES dir,          \* what is at --out
          staging,      \* the temporary directory of each plan
          runStaging,   \* `.<out>.staging`, whose name every run of --out shares
          command,      \* each command's work
          overEmpty,    \* a rename has replaced an empty directory
          kills

dirVars == <<dir, staging, runStaging, command, overEmpty, kills>>

Files == {"scenario", "initial", "current", "journal", "validation",
          "materialization", "replay", "reports", "library", "sentinel"}
None == [by |-> 0, at |-> -1]
EmptyDir == [f \in Files |-> None]
InProgress == 0
Complete == 1
Failed == 0

\* write_fixture stages everything, the sentinel last, and renames.
PlanScript(k) ==
    <<<<"scenario", 0>>, <<"replay", k>>, <<"initial", 0>>, <<"current", k>>,
      <<"journal", k>>, <<"validation", 0>>, <<"reports", k>>, <<"sentinel", Complete>>>>

\* publish_wall_clock_baseline: the metadata of a prefix of no events.
BaselineScript ==
    <<<<"scenario", 0>>, <<"initial", 0>>, <<"current", 0>>, <<"journal", 0>>,
      <<"validation", 0>>, <<"replay", 0>>, <<"sentinel", InProgress>>>>

SharedMetadata(k, outcome) ==
    <<<<"scenario", 0>>, <<"initial", 0>>, <<"current", k>>, <<"journal", k>>,
      <<"validation", 0>>, <<"materialization", outcome>>, <<"replay", k>>>>

\* Defect: the sentinel is flipped before the reports are written.
SuccessScript_SealsFirst(k) ==
    <<<<"sentinel", Complete>>>> \o SharedMetadata(k, Complete) \o <<<<"reports", k>>>>

SuccessScript(k) ==
    SharedMetadata(k, Complete) \o <<<<"reports", k>>, <<"sentinel", Complete>>>>

\* Defect: a failed run keeps no replay bundle.
FailureScript_NoBundle(k) ==
    SelectSeq(SharedMetadata(k, Failed), LAMBDA w : w[1] # "replay")
        \o <<<<"sentinel", Complete>>>>

\* The failure paths write no reports.
FailureScript(k) == SharedMetadata(k, Failed) \o <<<<"sentinel", Complete>>>>

Unborn == [verb |-> "none", stage |-> "unborn", todo |-> <<>>, rows |-> 0]

DirInit ==
    /\ dir = NoDir /\ runStaging = NoDir
    /\ staging = [c \in Commands |-> NoDir]
    /\ command = [c \in Commands |-> Unborn]
    /\ overEmpty = FALSE /\ kills = 0

Born(c, verb, stage, todo) ==
    /\ command[c].stage = "unborn"
    /\ \A d \in Commands : d < c => command[d].stage # "unborn"
    /\ command' = [command EXCEPT ![c] =
                      [verb |-> verb, stage |-> stage, todo |-> todo, rows |-> 0]]
    /\ UNCHANGED <<overEmpty, kills>>

Ended(c, outcome) == [command EXCEPT ![c].stage = outcome, ![c].todo = <<>>]

\* Every command first checks that nothing is at --out.
StartPlan(c, k) ==
    /\ dir = NoDir /\ Born(c, "plan", "staged", PlanScript(k))
    /\ staging' = [staging EXCEPT ![c] = EmptyDir]
    /\ UNCHANGED <<dir, runStaging>>

\* begin_materialize_run: mkdir, mkdir library, sentinel.
StartMaterialize(c) ==
    /\ dir = NoDir
    /\ Born(c, "materialize", "begun", <<<<"library", 0>>, <<"sentinel", InProgress>>>>)
    /\ dir' = EmptyDir
    /\ UNCHANGED <<staging, runStaging>>

\* _begin_run_replay writes no sentinel.
StartRunReplay(c) ==
    /\ dir = NoDir /\ Born(c, "replay", "begun", <<<<"library", 0>>>>)
    /\ dir' = EmptyDir
    /\ UNCHANGED <<staging, runStaging>>

\* _create_staging_dir: a staging directory that is there already ends the run.
StartRun(c) ==
    /\ dir = NoDir
    /\ IF runStaging = NoDir
       THEN /\ Born(c, "run", "synthesis", <<>>)
            /\ runStaging' = [EmptyDir EXCEPT !["library"] = [by |-> c, at |-> 0]]
       ELSE Born(c, "run", "refused", <<>>) /\ UNCHANGED runStaging
    /\ UNCHANGED <<dir, staging>>

\* The next file of a command's list, in its staging directory or at --out.
WriteFile(c) ==
    /\ command[c].todo # <<>>
    /\ LET f == Head(command[c].todo)[1]
           value == [by |-> c, at |-> Head(command[c].todo)[2]]
       IN CASE command[c].stage = "staged" /\ command[c].verb = "plan" ->
                 /\ staging' = [staging EXCEPT ![c][f] = value]
                 /\ UNCHANGED <<dir, runStaging>>
            [] command[c].stage = "staged" /\ command[c].verb = "run" ->
                 /\ runStaging' = [runStaging EXCEPT ![f] = value]
                 /\ UNCHANGED <<dir, staging>>
            [] OTHER ->
                 /\ f = "library" => dir[f] = None
                 /\ dir' = [dir EXCEPT ![f] = value]
                 /\ UNCHANGED <<staging, runStaging>>
    /\ command' = [command EXCEPT ![c].todo = Tail(@)]
    /\ UNCHANGED <<overEmpty, kills>>

WritingEnds(c) ==
    /\ command[c].stage \in {"begun", "sealing", "sealing failure"}
    /\ command[c].todo = <<>>
    /\ command' = [command EXCEPT ![c].stage =
                      CASE @ = "begun" -> "synthesis" [] @ = "sealing" -> "ok" [] OTHER -> "failed"]
    /\ UNCHANGED <<dir, staging, runStaging, overEmpty, kills>>

\* Defect: the staged files are moved into whatever directory is there.
CanRename_Any == TRUE

\* rename(2): onto nothing or onto an empty directory.
CanRename == dir \in {NoDir, EmptyDir}

\* Path.replace of the staged fixture; a failure removes the staging directory.
PublishPlan(c) ==
    /\ command[c].verb = "plan" /\ command[c].stage = "staged" /\ command[c].todo = <<>>
    /\ staging' = [staging EXCEPT ![c] = NoDir]
    /\ IF CanRename
       THEN /\ dir' = staging[c] /\ overEmpty' = (overEmpty \/ dir = EmptyDir)
            /\ command' = Ended(c, "ok")
       ELSE command' = Ended(c, "refused") /\ UNCHANGED <<dir, overEmpty>>
    /\ UNCHANGED <<runStaging, kills>>

\* Phase A of a run: tools may fail, and nothing then removes the staging
\* directory; otherwise the baseline is staged if --out is still free.
RunPhaseA(c) ==
    /\ command[c].verb = "run" /\ command[c].stage = "synthesis"
    /\ \/ command' = Ended(c, "tool failed") /\ UNCHANGED runStaging
       \/ /\ runStaging' = [runStaging EXCEPT !["library"] = [by |-> c, at |-> 1]]
          /\ command' = IF dir = NoDir
                        THEN [command EXCEPT ![c].stage = "staged", ![c].todo = BaselineScript]
                        ELSE Ended(c, "refused")
    /\ UNCHANGED <<dir, staging, overEmpty, kills>>

PublishRun(c) ==
    /\ command[c].verb = "run" /\ command[c].stage = "staged" /\ command[c].todo = <<>>
    /\ IF CanRename
       THEN /\ dir' = runStaging /\ runStaging' = NoDir
            /\ overEmpty' = (overEmpty \/ dir = EmptyDir)
            /\ command' = [command EXCEPT ![c].stage = "timed"]
       ELSE command' = Ended(c, "refused") /\ UNCHANGED <<dir, runStaging, overEmpty>>
    /\ UNCHANGED <<staging, kills>>

\* The timed phase of a run appends a row per executed event.
AppendRow(c) ==
    /\ command[c].stage = "timed" /\ command[c].rows < Rows
    /\ dir' = [dir EXCEPT !["journal"] = [by |-> c, at |-> command[c].rows + 1]]
    /\ command' = [command EXCEPT ![c].rows = @ + 1]
    /\ UNCHANGED <<staging, runStaging, overEmpty, kills>>

\* _finalize_outputs: what has become of the library, then the writer's files.
Finalize(c, verb, library, sealing, script) ==
    /\ command[c].verb = verb
    /\ command[c].stage = IF verb = "run" THEN "timed" ELSE "synthesis"
    /\ dir' = [dir EXCEPT !["library"] = library]
    /\ command' = [command EXCEPT ![c].stage = sealing, ![c].todo = script]
    /\ UNCHANGED <<staging, runStaging, overEmpty, kills>>

\* The library of a command that did its work; of one whose tools failed, which
\* is emptied; of one whose events failed, which is removed.
Filled(c) == [by |-> c, at |-> 1]
Emptied(c) == [by |-> c, at |-> 0]

\* A materialize and the replay of a run record the whole of their journal, a
\* run the events it executed.
FinalizeSuccess(c) ==
    Finalize(c, "materialize", Filled(c), "sealing", SuccessScript(Rows))
FinalizeRunReplaySuccess(c) ==
    Finalize(c, "replay", Filled(c), "sealing", SuccessScript(Rows))
FinalizeWallClockSuccess(c) ==
    Finalize(c, "run", Filled(c), "sealing", SuccessScript(command[c].rows))

FinalizeFailure(c) ==
    Finalize(c, "materialize", Emptied(c), "sealing failure", FailureScript(Rows))
FinalizeFailurePhaseB(c) ==
    Finalize(c, "materialize", None, "sealing failure", FailureScript(Rows))
FinalizeRunReplayPhaseAFailure(c) ==
    Finalize(c, "replay", Emptied(c), "sealing failure", FailureScript(Rows))
FinalizeRunReplayPhaseBFailure(c) ==
    Finalize(c, "replay", None, "sealing failure", FailureScript(Rows))
FinalizeWallClockPhaseBFailure(c) ==
    Finalize(c, "run", None, "sealing failure", FailureScript(command[c].rows))

\* The work is done, or a tool of phase A or a handler of phase B failed.
WorkEnds(c) ==
    \/ FinalizeSuccess(c) \/ FinalizeRunReplaySuccess(c) \/ FinalizeWallClockSuccess(c)
    \/ FinalizeFailure(c) \/ FinalizeFailurePhaseB(c)
    \/ FinalizeRunReplayPhaseAFailure(c) \/ FinalizeRunReplayPhaseBFailure(c)
    \/ FinalizeWallClockPhaseBFailure(c)

Live(c) == command[c].stage \in {"begun", "synthesis", "staged", "timed", "sealing",
                                 "sealing failure"}

\* A write fails: only a plan cleans up after itself.
WriteFails(c) ==
    /\ Live(c) /\ command[c].todo # <<>>
    /\ staging' = [staging EXCEPT ![c] = NoDir]
    /\ command' = Ended(c, "write failed")
    /\ UNCHANGED <<dir, runStaging, overEmpty, kills>>

Kill(c) ==
    /\ Live(c) /\ kills < MaxKills
    /\ command' = Ended(c, "killed") /\ kills' = kills + 1
    /\ UNCHANGED <<dir, staging, runStaging, overEmpty>>

\* clean wants a sentinel and a replay bundle of the same run id.
Cleanable == /\ dir # NoDir
             /\ dir["sentinel"] # None /\ dir["replay"] # None
             /\ dir["sentinel"].by = dir["replay"].by

\* Nobody cleans a directory that a command is still writing.
Clean ==
    /\ Cleanable /\ \A c \in Commands : ~Live(c)
    /\ dir' = NoDir
    /\ UNCHANGED <<staging, runStaging, command, overEmpty, kills>>

DirNext ==
    \/ \E c \in Commands :
          \/ \E k \in 0..Rows : StartPlan(c, k)
          \/ StartMaterialize(c) \/ StartRunReplay(c) \/ StartRun(c)
          \/ WriteFile(c) \/ WritingEnds(c) \/ PublishPlan(c) \/ RunPhaseA(c) \/ PublishRun(c)
          \/ AppendRow(c) \/ WorkEnds(c) \/ WriteFails(c) \/ Kill(c)
    \/ Clean
=============================================================================
