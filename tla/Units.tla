--------------------------------- MODULE Units ---------------------------------
(****************************************************************************)
(* The Workflow instances of the container pipelines, ios-build and         *)
(* galaxy-build (src/apps/extractor/src/unit.ts, container.ts, errors.ts,   *)
(* apple/workflows.ts, galaxy/workflows.ts).                                *)
(*                                                                          *)
(* An instance runs its steps one after another, each step in attempts.  An *)
(* attempt of a container step posts one job into the container named by    *)
(* the instance, the step and the attempt, and awaits its answer.  A failed *)
(* attempt runs again, a permanent failure ends the instance, and a burst   *)
(* refusal is waited out once and ends the instance the second time.  The   *)
(* last step writes the unit's record and queues it.                        *)
(*                                                                          *)
(* A build's payload is the set of phones listed for it, an IPSW each (the  *)
(* file two phones share is one phone here); a Galaxy build has one.        *)
(****************************************************************************)
EXTENDS Naturals, Sequences, FiniteSets, FiniteSetsExt

CONSTANTS IosBuilds,        \* the builds of the IPSW feed
          GalaxyBuilds,     \* the firmware of the Galaxy feed
          Phones,           \* the phones a build can be listed for
          PhoneOrder,       \* the phones, the newest first: a sequence
          NoPhone,          \* what stands for a phone where a build has no record
          ContainerRetries, \* STEP_RETRIES.container
          StepRetries,      \* STEP_RETRIES.step
          MaxFaults         \* bound: failed attempts, lost answers, failed checks

ASSUME UnitsAssumption ==
    /\ IosBuilds \cap GalaxyBuilds = {}
    /\ NoPhone \notin Phones
    /\ {"csc", "cp", "ap"} \cap Phones = {}
    /\ PhoneOrder \in Seq(Phones)
    /\ \A p \in Phones : \E n \in DOMAIN PhoneOrder : PhoneOrder[n] = p
    /\ \A m, n \in DOMAIN PhoneOrder : PhoneOrder[m] = PhoneOrder[n] => m = n
    /\ ContainerRetries \in Nat /\ StepRetries \in Nat /\ MaxFaults \in Nat

VARIABLES held,   \* per build, the phones of its release record, or Nothing
          inst,   \* per instance id, its instance
          jobs,   \* the jobs running in containers
          faults, \* the faults so far
          late    \* auxiliary: the builds an older instance wrote over a newer

unitVars == <<held, inst, jobs, faults, late>>

Builds == IosBuilds \cup GalaxyBuilds

\* A build with no release record.
Nothing == {NoPhone}

\* What a build's record can hold.
Record == (SUBSET Phones) \cup {Nothing}

(****************************************************************************)
(* Instances.  A planned iOS build is named by the phones its record holds  *)
(* (a digest of them), a Galaxy build by itself.                            *)
(****************************************************************************)
Id == (IosBuilds \X Record) \cup (GalaxyBuilds \X {Nothing})

InstanceId(b, record) == <<b, IF b \in IosBuilds THEN record ELSE Nothing>>

BuildOf(id) == id[1]

Statuses == {"none", "running", "complete", "errored", "refused"}

Instance == [status : Statuses, phones : SUBSET Phones, left : SUBSET Nat,
             again : BOOLEAN, attempt : Nat,
             at : {"ready", "waiting", "asleep", "written"}, restarted : BOOLEAN]

NoInstance == [status |-> "none", phones |-> {}, left |-> {}, again |-> FALSE,
               attempt |-> 1, at |-> "ready", restarted |-> FALSE]

Live(id) == inst[id].status = "running"

(****************************************************************************)
(* Steps: an iOS build's IPSWs in turn, each in a container; a Galaxy       *)
(* build's CSC and CP members in Worker steps its server may refuse, then   *)
(* its AP member in a container.                                            *)
(****************************************************************************)
StepsOf(b) == IF b \in IosBuilds THEN PhoneOrder ELSE <<"csc", "cp", "ap">>

\* The steps of a payload, by their places among them.
StepsLeft(b, phones) ==
    {n \in DOMAIN StepsOf(b) : b \in IosBuilds => StepsOf(b)[n] \in phones}

NewRun(id, phones, restarted) ==
    [NoInstance EXCEPT !.status = "running", !.phones = phones,
                       !.left = StepsLeft(BuildOf(id), phones), !.restarted = restarted]

InContainer(step) == step \notin {"csc", "cp"}

AtLastStep(id) == inst[id].left = {}

StepOf(id) == StepsOf(BuildOf(id))[Min(inst[id].left)]

\* An instance that may still ask for a container.
Extracting(id) == Live(id) /\ ~AtLastStep(id)

Finishing(id) == Live(id) /\ AtLastStep(id)

\* Mutant: the attempt left out of the name.
ContainerNameOfStep(id, step, again, attempt) == <<id, step, again, 1>>

ContainerName(id, step, again, attempt) == <<id, step, again, attempt>>

ContainerOf(id) ==
    ContainerName(id, StepOf(id), inst[id].again, inst[id].attempt)

Job(container, awaited) == [in |-> container, awaited |-> awaited]

(****************************************************************************)
(* How an attempt's outcome moves its instance on.                          *)
(****************************************************************************)
Done(i) == [i EXCEPT !.left = @ \ {Min(@)}, !.again = FALSE, !.attempt = 1, !.at = "ready"]

\* A transient failure: the next attempt, or the error, the retries spent.
Failed(i, retries) ==
    IF i.attempt <= retries
    THEN [i EXCEPT !.attempt = @ + 1, !.at = "ready"]
    ELSE [i EXCEPT !.status = "errored"]

\* A burst refusal: waited out the first time, the second ends the unit.
Refused(i) ==
    IF i.again THEN [i EXCEPT !.status = "refused"]
               ELSE [i EXCEPT !.at = "asleep"]

Permanent(i) == [i EXCEPT !.status = "errored"]

RetriesOf(id) ==
    IF ~AtLastStep(id) /\ InContainer(StepOf(id)) THEN ContainerRetries ELSE StepRetries

Outcome(id, outcome) ==
    CASE outcome = "done"      -> Done(inst[id])
      [] outcome = "transient" -> Failed(inst[id], RetriesOf(id))
      [] outcome = "burst"     -> Refused(inst[id])
      [] outcome = "permanent" -> Permanent(inst[id])

Fault == faults < MaxFaults /\ faults' = faults + 1

--------------------------------------------------------------------------------
InitUnits ==
    /\ held = [b \in Builds |-> Nothing]
    /\ inst = [id \in Id |-> NoInstance]
    /\ jobs = {}
    /\ faults = 0
    /\ late = {}

(****************************************************************************)
(* A Worker step: its whole attempt.                                        *)
(****************************************************************************)
WorkerStep(id, outcome) ==
    /\ Extracting(id) /\ inst[id].at = "ready" /\ ~InContainer(StepOf(id))
    /\ IF outcome = "done" THEN UNCHANGED faults ELSE Fault
    /\ inst' = [inst EXCEPT ![id] = Outcome(id, outcome)]
    /\ UNCHANGED <<held, jobs, late>>

(****************************************************************************)
(* A container step: an attempt posts its job into its own container,       *)
(* which is destroyed once the job answers or at its deadline (transient).  *)
(****************************************************************************)
PostJob(id) ==
    /\ Extracting(id) /\ inst[id].at = "ready" /\ InContainer(StepOf(id))
    /\ jobs' = jobs \cup {Job(ContainerOf(id), TRUE)}
    /\ inst' = [inst EXCEPT ![id].at = "waiting"]
    /\ UNCHANGED <<held, faults, late>>

JobAnswers(id, outcome) ==
    /\ Extracting(id) /\ inst[id].at = "waiting"
    /\ IF outcome = "done" THEN UNCHANGED faults ELSE Fault
    /\ jobs' = {j \in jobs : j.in # ContainerOf(id)}
    /\ inst' = [inst EXCEPT ![id] = Outcome(id, outcome)]
    /\ UNCHANGED <<held, late>>

\* The attempt fails, its object evicted or the call lost, and the job runs on.
JobLost(id) ==
    /\ Extracting(id) /\ inst[id].at = "waiting"
    /\ Fault
    /\ jobs' = (jobs \ {Job(ContainerOf(id), TRUE)}) \cup {Job(ContainerOf(id), FALSE)}
    /\ inst' = [inst EXCEPT ![id] = Outcome(id, "transient")]
    /\ UNCHANGED <<held, late>>

\* A job nobody awaits answers, or its container idles out: the container is
\* destroyed, and with it a job awaited there.
OrphanEnds(job) ==
    /\ job \in jobs /\ ~job.awaited
    /\ jobs' = {j \in jobs : j.in # job.in}
    /\ LET id == job.in[1] IN
       inst' = IF Job(job.in, TRUE) \in jobs
               THEN [inst EXCEPT ![id] = Outcome(id, "transient")]
               ELSE inst
    /\ UNCHANGED <<held, faults, late>>

\* The burst's five minutes pass.
Wake(id) ==
    /\ Live(id) /\ inst[id].at = "asleep"
    /\ inst' = [inst EXCEPT ![id].at = "ready", ![id].again = TRUE, ![id].attempt = 1]
    /\ UNCHANGED <<held, jobs, faults, late>>

(****************************************************************************)
(* The last step writes the record, whole and whatever it holds, and then   *)
(* queues it.  An attempt that failed after the write writes again, as late *)
(* as the step's retries and timeout let it: late keeps the builds whose    *)
(* record then held neither what the instance was named by nor its own.     *)
(****************************************************************************)
WritesLate(id) ==
    /\ BuildOf(id) \in IosBuilds
    /\ held[BuildOf(id)] \notin {id[2], inst[id].phones}

WriteRecord(id) ==
    /\ Finishing(id) /\ inst[id].at = "ready"
    /\ held' = [held EXCEPT ![BuildOf(id)] = inst[id].phones]
    /\ inst' = [inst EXCEPT ![id].at = "written"]
    /\ late' = IF WritesLate(id) THEN late \cup {BuildOf(id)} ELSE late
    /\ UNCHANGED <<jobs, faults>>

QueueRecord(id) ==
    /\ Finishing(id) /\ inst[id].at = "written"
    /\ inst' = [inst EXCEPT ![id].status = "complete"]
    /\ UNCHANGED <<held, jobs, faults, late>>

FinishFails(id, outcome) ==
    /\ Finishing(id)
    /\ Fault
    /\ inst' = [inst EXCEPT ![id] = Outcome(id, outcome)]
    /\ UNCHANGED <<held, jobs, late>>

--------------------------------------------------------------------------------
Outcomes == {"done", "transient", "burst", "permanent"}

\* What an instance does when nothing fails.
Progress(id) ==
    \/ WorkerStep(id, "done")
    \/ PostJob(id)
    \/ JobAnswers(id, "done")
    \/ Wake(id)
    \/ WriteRecord(id)
    \/ QueueRecord(id)

UnitNext(id) ==
    \/ \E outcome \in Outcomes : WorkerStep(id, outcome) \/ JobAnswers(id, outcome)
    \/ PostJob(id)
    \/ JobLost(id)
    \/ Wake(id)
    \/ WriteRecord(id)
    \/ QueueRecord(id)
    \/ \E outcome \in {"transient", "permanent"} : FinishFails(id, outcome)

UnitsTypeOK ==
    /\ held \in [Builds -> Record]
    /\ inst \in [Id -> Instance]
    /\ \A j \in jobs : j.in[1] \in Id /\ j.awaited \in BOOLEAN
    /\ faults \in 0..MaxFaults
    /\ late \subseteq Builds
================================================================================
