------------------------------ MODULE Emission ------------------------------
(***************************************************************************)
(* The two commands that write single files into a directory others write  *)
(* to as well: a batch of generated scenarios, and the import of a library *)
(* whose media files, named by their content, are shared by the imports of *)
(* one directory.  Neither locks anything.  Each takes a name by creating  *)
(* it exclusively, remembers what it created, and on a failure removes     *)
(* exactly that.                                                           *)
(***************************************************************************)
EXTENDS ImportSelection

CONSTANTS Batches, Imports,  \* invocations of generate --count and of import
          Names,             \* scenario file names
          Digests,           \* names of media files: a content and a container
          Targets,           \* Targets[b]: the names of a batch, in order
          Inputs,            \* Inputs[i]: the files an import finds, and its options
          OutOf,             \* OutOf[i]: the scenario file of an import
          MaxStops           \* bound on killed invocations

VARIABLES scenarios,  \* scenarios[n]: the invocation that wrote it, or 0
          media,      \* media[d]: whose copy it is and whether it is whole
          job,        \* what each invocation has still to write, and has written
          lent,       \* an import that failed took back a file another one uses
          stops

emissionVars == <<scenarios, media, job, lent, stops>>

\* The media files an import stages, in order.
Needs == [i \in Imports |-> ComputeStaging(Inputs[i])]

Nobody == 0
NoMedia == [by |-> Nobody, whole |-> FALSE]
Jobs == Batches \cup Imports

EmissionInit ==
    /\ scenarios = [n \in Names |-> Nobody]
    /\ media = [d \in Digests |-> NoMedia]
    /\ job = [j \in Jobs |-> [stage |-> "unborn", todo |-> <<>>, wrote |-> {}, uses |-> {}]]
    /\ lent = FALSE /\ stops = 0

Starts(j, stage, todo) ==
    /\ job[j].stage = "unborn"
    /\ job' = [job EXCEPT ![j].stage = stage, ![j].todo = todo]

Quits(j) == job' = [job EXCEPT ![j].stage = "rollback"]
-----------------------------------------------------------------------------
\* _batch_targets: a batch starts only if none of its names is taken.
StartBatch(b) ==
    /\ \A k \in DOMAIN Targets[b] : scenarios[Targets[b][k]] = Nobody
    /\ Starts(b, "writing", Targets[b])
    /\ UNCHANGED <<scenarios, media, lent, stops>>

\* Defects: the name is taken by a plain rename; or a file is remembered only
\* when the next one is written.
WriteScenario_Overwrites(b) ==
    /\ job[b].stage = "writing" /\ job[b].todo # <<>>
    /\ LET name == Head(job[b].todo)
       IN \/ /\ scenarios' = [scenarios EXCEPT ![name] = b]
             /\ job' = [job EXCEPT ![b].todo = Tail(@), ![b].wrote = @ \cup {name}]
          \/ Quits(b) /\ UNCHANGED scenarios
    /\ UNCHANGED <<media, lent, stops>>

WriteScenario_Late(b) ==
    /\ job[b].stage = "writing" /\ job[b].todo # <<>>
    /\ LET name == Head(job[b].todo)
       IN \/ /\ scenarios[name] = Nobody
             /\ scenarios' = [scenarios EXCEPT ![name] = b]
             /\ job' = [job EXCEPT ![b].todo = Tail(@),
                                   ![b].wrote = {n \in Names : scenarios[n] = b}]
          \/ Quits(b) /\ UNCHANGED scenarios
    /\ UNCHANGED <<media, lent, stops>>

\* Generating one scenario may fail, and so does linking a name that exists.
WriteScenario(b) ==
    /\ job[b].stage = "writing" /\ job[b].todo # <<>>
    /\ LET name == Head(job[b].todo)
       IN \/ /\ scenarios[name] = Nobody
             /\ scenarios' = [scenarios EXCEPT ![name] = b]
             /\ job' = [job EXCEPT ![b].todo = Tail(@), ![b].wrote = @ \cup {name}]
          \/ Quits(b) /\ UNCHANGED scenarios
    /\ UNCHANGED <<media, lent, stops>>

EndBatch(b) ==
    /\ job[b].stage = "writing" /\ job[b].todo = <<>>
    /\ job' = [job EXCEPT ![b].stage = "ok"]
    /\ UNCHANGED <<scenarios, media, lent, stops>>

\* _rollback: unlink each file of this batch.
RollbackBatch(b) ==
    /\ job[b].stage = "rollback"
    /\ IF job[b].wrote = {}
       THEN job' = [job EXCEPT ![b].stage = "failed"] /\ UNCHANGED scenarios
       ELSE \E name \in job[b].wrote :
               /\ scenarios' = [scenarios EXCEPT ![name] = Nobody]
               /\ job' = [job EXCEPT ![b].wrote = @ \ {name}]
    /\ UNCHANGED <<media, lent, stops>>
-----------------------------------------------------------------------------
\* --out must not exist; media/ may.
StartImport(i) ==
    /\ scenarios[OutOf[i]] = Nobody
    /\ Starts(i, "staging", Needs[i])
    /\ UNCHANGED <<scenarios, media, lent, stops>>

\* Defect: a file that exists is trusted by its name.
StageMedia_Trusts(i) ==
    /\ job[i].stage = "staging" /\ job[i].todo # <<>>
    /\ LET d == Head(job[i].todo)
       IN IF media[d] = NoMedia
          THEN /\ media' = [media EXCEPT ![d] = [by |-> i, whole |-> FALSE]]
               /\ job' = [job EXCEPT ![i].stage = "copying", ![i].wrote = @ \cup {d}]
          ELSE /\ job' = [job EXCEPT ![i].todo = Tail(@), ![i].uses = @ \cup {d}]
               /\ UNCHANGED media
    /\ UNCHANGED <<scenarios, lent, stops>>

\* open("xb"): the copy is this import's; a file that exists is used if its
\* content has the digest of its name and ends the import otherwise.
StageMedia(i) ==
    /\ job[i].stage = "staging" /\ job[i].todo # <<>>
    /\ LET d == Head(job[i].todo)
       IN CASE media[d] = NoMedia ->
                 /\ media' = [media EXCEPT ![d] = [by |-> i, whole |-> FALSE]]
                 /\ job' = [job EXCEPT ![i].stage = "copying", ![i].wrote = @ \cup {d}]
            [] media[d].whole ->
                 /\ job' = [job EXCEPT ![i].todo = Tail(@), ![i].uses = @ \cup {d}]
                 /\ UNCHANGED media
            [] OTHER -> Quits(i) /\ UNCHANGED media
    /\ UNCHANGED <<scenarios, lent, stops>>

\* The copy is hashed again: a source that changed while it was copied ends
\* the import, as a failed write does.
CopyMedia(i) ==
    /\ job[i].stage = "copying"
    /\ \/ /\ media' = [media EXCEPT ![Head(job[i].todo)].whole = TRUE]
          /\ job' = [job EXCEPT ![i].stage = "staging", ![i].todo = Tail(@),
                                ![i].uses = @ \cup {Head(job[i].todo)}]
       \/ Quits(i) /\ UNCHANGED media
    /\ UNCHANGED <<scenarios, lent, stops>>

\* The scenario is linked, validated, and the mapping written: the last two
\* may still fail, after which the scenario is removed as well.
WriteImport(i) ==
    /\ job[i].stage = "staging" /\ job[i].todo = <<>>
    /\ IF scenarios[OutOf[i]] = Nobody
       THEN \/ /\ scenarios' = [scenarios EXCEPT ![OutOf[i]] = i]
               /\ job' = [job EXCEPT ![i].stage = "written"]
            \/ Quits(i) /\ UNCHANGED scenarios
       ELSE Quits(i) /\ UNCHANGED scenarios
    /\ UNCHANGED <<media, lent, stops>>

ReportImport(i) ==
    /\ job[i].stage = "written"
    /\ job' = [job EXCEPT ![i].stage = "ok"] \/ Quits(i)
    /\ UNCHANGED <<scenarios, media, lent, stops>>

\* First the media files this import created, then its scenario file.
RollbackImport(i) ==
    /\ job[i].stage = "rollback"
    /\ IF job[i].wrote # {}
       THEN \E d \in job[i].wrote :
               /\ media' = [media EXCEPT ![d] = NoMedia]
               /\ lent' = (lent \/ \E k \in Imports \ {i} : d \in job[k].uses)
               /\ job' = [job EXCEPT ![i].wrote = @ \ {d}]
               /\ UNCHANGED scenarios
       ELSE /\ scenarios' = [n \in Names |-> IF scenarios[n] = i THEN Nobody ELSE scenarios[n]]
            /\ job' = [job EXCEPT ![i].stage = "failed"]
            /\ UNCHANGED <<media, lent>>
    /\ UNCHANGED stops
-----------------------------------------------------------------------------
Stop(j) ==
    /\ job[j].stage \notin {"unborn", "ok", "failed", "killed"} /\ stops < MaxStops
    /\ job' = [job EXCEPT ![j].stage = "killed"]
    /\ stops' = stops + 1
    /\ UNCHANGED <<scenarios, media, lent>>

EmissionNext ==
    \/ \E b \in Batches : StartBatch(b) \/ WriteScenario(b) \/ EndBatch(b) \/ RollbackBatch(b)
    \/ \E i \in Imports : \/ StartImport(i) \/ StageMedia(i) \/ CopyMedia(i)
                          \/ WriteImport(i) \/ ReportImport(i) \/ RollbackImport(i)
    \/ \E j \in Jobs : Stop(j)
=============================================================================
