------------------------------- MODULE Outputs -------------------------------
(***************************************************************************)
(* The programs that write what the tests read, without a clock: steps of  *)
(* a plan-only fixture, the commands that create and remove an output      *)
(* directory, and the two that add files to a shared one.  They share no   *)
(* file, so a behaviour is about one of the three, its scene.              *)
(***************************************************************************)
EXTENDS StepFixture, Sequences

CONSTANTS Commands, Rows, MaxKills, NoDir,
          Batches, Imports, Names, Digests, Targets, Inputs, OutOf, MaxStops

VARIABLES scene, dir, staging, runStaging, command, overEmpty, kills,
          scenarios, media, job, lent, stops

D == INSTANCE OutputDirectory
E == INSTANCE Emission

ASSUME OutputsAssumption ==
    /\ Batches \cap Imports = {} /\ 0 \notin Batches \cup Imports
    /\ \A b \in Batches : Targets[b] \in Seq(Names)
    /\ \A i \in Imports : E!Needs[i] \in Seq(Digests) /\ OutOf[i] \in Names
    /\ \A i \in Imports : /\ Len(Inputs[i].files) \in Nat
                          /\ DOMAIN Inputs[i].files = 1..Len(Inputs[i].files)
    /\ 0 \notin Commands /\ Rows \in Nat
    /\ NoDir \notin [D!Files -> [by : {0} \cup Commands, at : Int]]

directory == <<dir, staging, runStaging, command, overEmpty, kills>>
emission == <<scenarios, media, job, lent, stops>>
vars == <<scene, stepVars, directory, emission>>

OutputsInit ==
    /\ scene \in {"fixture", "directory", "files"}
    /\ D!DirInit /\ E!EmissionInit
    /\ IF scene = "fixture" THEN Init
       ELSE WrittenAt(0) /\ step = Idle /\ accepted = TRUE /\ interrupts = 0

OutputsNext ==
    /\ UNCHANGED scene
    /\ \/ scene = "fixture" /\ Next /\ UNCHANGED <<directory, emission>>
       \/ scene = "directory" /\ D!DirNext /\ UNCHANGED <<stepVars, emission>>
       \/ scene = "files" /\ E!EmissionNext /\ UNCHANGED <<stepVars, directory>>

\* Whoever steps a fixture goes on until it is done or refused, and a step
\* that is not interrupted writes all its files.
OutputsSpec == /\ OutputsInit /\ [][OutputsNext]_vars
               /\ WF_stepVars(scene = "fixture" /\ Write /\ OutputsNext)
               /\ WF_stepVars(scene = "fixture" /\ (\E n \in 1..Units : StartStep(n))
                                 /\ OutputsNext)
-----------------------------------------------------------------------------
TypeOK ==
    /\ current \in 0..Boundary[Units] /\ text \in [len : Nat, glued : BOOLEAN]
    /\ text.len <= 3 * Boundary[Units]
    /\ bundle \in [applied : 0..Boundary[Units], digest : 0..Boundary[Units]]
    /\ step.stage \in {"idle", "manifest", "bundle", "reports"} /\ step.left \subseteq Reports
    /\ \A c \in Commands : D!Live(c) => command[c].rows <= Rows
    /\ \A d \in Digests : media[d].whole => media[d].by \in Imports

\* Stepping ends, interrupted or not: the plan is complete, or the journal is
\* one that every later step refuses.
SteppingEnds == scene = "fixture" ~> (Cursor = Units \/ Refused)

\* Two commands that race for one --out never mix their files in it (short of
\* the one hole of write_fixture and publish_wall_clock_baseline: a rename
\* replaces a directory that materialize has made and not yet filled).
OneAuthor == dir # NoDir /\ ~overEmpty =>
                \E c \in Commands : \A f \in D!Files : dir[f] # D!None => dir[f].by = c

\* A sentinel that says complete is the last thing written: the metadata that
\* inspect, clean and replay read is all there and of one outcome, and a
\* failed run keeps no media.
SealedIsCoherent ==
    dir # NoDir /\ ~overEmpty /\ dir["sentinel"].at = D!Complete =>
        /\ \A f \in {"scenario", "initial", "current", "journal", "validation", "replay"} :
              dir[f] # D!None
        /\ dir["replay"].at = dir["current"].at /\ dir["journal"].at = dir["current"].at
        /\ dir["reports"] # D!None => dir["reports"].at = dir["current"].at
        /\ dir["materialization"].at = D!Failed => dir["library"].at < 1
        /\ dir["materialization"].at = D!Complete => dir["library"].at = 1

\* A command that fails for a reason it catches (a tool, a handler) leaves a
\* directory that clean removes, however it raced: only a kill or a failed
\* write may leave one behind.
CaughtFailureIsCleanable ==
    \A c \in Commands :
        command[c].stage = "failed" /\ dir # NoDir /\ ~overEmpty
            /\ (\E f \in D!Files : dir[f].by = c)
            => D!Cleanable

\* A batch of generated scenarios is written whole or, if it was not killed,
\* not at all, although another batch writes to the same directory.
BatchAllOrNothing ==
    \A b \in Batches :
        /\ job[b].stage = "failed" => \A n \in Names : scenarios[n] # b
        /\ job[b].stage = "ok" => \A k \in DOMAIN Targets[b] : scenarios[Targets[b][k]] = b

\* An imported scenario has a media file, whole, for every asset that the caps
\* and the deduplication left in it, even if the import that copied that file
\* was killed (unless an import that failed took back a file this one had found
\* and used).
ImportIsWhole ==
    ~lent => \A i \in Imports :
        scenarios[OutOf[i]] = i /\ job[i].stage \notin {"rollback", "killed"} =>
            \A k \in E!ApplyWorkCaps(Inputs[i]) :
                \E d \in E!ImportSource(Inputs[i], k) : media[d].whole

\* Nobody removes or replaces a file that someone else wrote: a scenario or a
\* media file goes away only while the invocation that created it rolls back.
OnlyItsOwn ==
    [][/\ \A n \in Names : scenarios[n] # E!Nobody /\ scenarios'[n] # scenarios[n] =>
             scenarios'[n] = E!Nobody /\ job[scenarios[n]].stage = "rollback"
       /\ \A d \in Digests : media[d] # E!NoMedia /\ media'[d] = E!NoMedia =>
             job[media[d].by].stage = "rollback"]_emission
=============================================================================
