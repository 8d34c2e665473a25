------------------------------ MODULE ChecksProofs ------------------------------
(* What the feed checks and their instances keep, for any builds, phones,   *)
(* share and faults: OwnContainer whoever asks for checks, and NeverAgain   *)
(* where one asks for them at a time.                                       *)
EXTENDS Checks, FiniteSetTheorems, WellFoundedInduction, TLAPS

(* One asks for checks. *)
OneAsker == \A a, b \in Askers : a = b

-----------------------------------------------------------------------------
(* Instances and their jobs. *)

Steps == Phones \cup {"csc", "cp", "ap"}

Containers == Id \X Steps \X BOOLEAN \X Nat

Plans == {<<>>} \cup UNION {[D -> Run] : D \in SUBSET DOMAIN BuildOrder}

Checking ==
  [at : {"none", "new", "asked", "planned", "decided", "created"}, rebuild : BOOLEAN,
   only : SUBSET Builds, seen : {<<>>} \cup [Builds -> Record] \cup [Builds -> SUBSET Phones],
   plan : Plans, restart : SUBSET Nat, fresh : SUBSET Nat]

Asking ==
  {[at |-> "idle"]}
    \cup [at : {"asking"}, rebuild : BOOLEAN, only : SUBSET Builds]
    \cup [at : {"created"}, slot : Slots]

UnitTypes ==
  /\ held \in [Builds -> Record]
  /\ inst \in [Id -> Instance]
  /\ jobs \subseteq [in : Containers, awaited : BOOLEAN]
  /\ faults \in 0 .. MaxFaults

CheckTypes ==
  /\ feed \in Feeds
  /\ listed \in [Builds -> SUBSET Phones]
  /\ check \in [Slots -> Checking]
  /\ \A k \in Slots : check[k].at = "asked" =>
       check[k].seen \in IF feed = "ios-build" THEN [Builds -> Record] ELSE [Builds -> SUBSET Phones]
  /\ recorded \in 0 .. CheckSlots
  /\ asker \in [Askers -> Asking]

(* An instance's steps are of its build, and it sleeps only the first time. *)
StepsOwn ==
  \A id \in Id :
    /\ inst[id].left \subseteq DOMAIN StepsOf(BuildOf(id))
    /\ inst[id].at = "asleep" => ~inst[id].again

(* A container's name of an earlier attempt of instance i of build b: of a  *)
(* step it is past, or of its step before the burst, or an attempt before.  *)
Past(b, i, name) ==
  \E n \in DOMAIN StepsOf(b) :
    /\ name[2] = StepsOf(b)[n]
    /\ n \in i.left =>
         /\ n = Min(i.left)
         /\ \/ ~name[3] /\ i.again
            \/ name[3] = i.again /\ name[4] < i.attempt

(* A job awaited is its instance's present attempt's, and of one that runs, *)
(* never restarted, every other job is an earlier attempt's.                *)
JobKept(j) ==
  LET id == j.in[1] IN
  /\ inst[id].status # "none"
  /\ j.awaited => Extracting(id) /\ inst[id].at = "waiting" /\ j.in = ContainerOf(id)
  /\ ~j.awaited /\ Live(id) /\ ~inst[id].restarted => Past(BuildOf(id), inst[id], j.in)

JobsKept == \A j \in jobs : JobKept(j)

(* A plan has its builds by their places, and a check what it is to start   *)
(* only once it decided.                                                    *)
PlansPlaced ==
  \A k \in Slots :
    /\ check[k].fresh \cup check[k].restart \subseteq DOMAIN check[k].plan
    /\ check[k].at # "decided" => check[k].fresh = {}
    /\ check[k].at \notin {"decided", "created"} => check[k].restart = {}
    /\ \A n \in DOMAIN check[k].plan :
         /\ n \in DOMAIN BuildOrder
         /\ \E record \in Record : check[k].plan[n].id = InstanceId(BuildOrder[n], record)

UnitInv == UnitTypes /\ CheckTypes /\ StepsOwn /\ JobsKept /\ PlansPlaced

-----------------------------------------------------------------------------
(* One asker, and so one check. *)

OneCheck ==
  /\ \A k \in Slots :
       CheckLive(k) => recorded = k \/ \E a \in Askers : asker[a] = [at |-> "created", slot |-> k]
  /\ recorded # 0 => \A a \in Askers : asker[a].at = "idle"

(* What a check is to restart ended, and not well. *)
RestartsEnded ==
  \A k \in Slots : \A n \in check[k].restart :
    inst[check[k].plan[n].id].status \in {"refused"} \cup (IF check[k].rebuild THEN {"errored"} ELSE {})

CheckInv == UnitInv /\ OneCheck /\ RestartsEnded

-----------------------------------------------------------------------------
(* The least of some numbers. *)

LEMMA NatWellFounded == IsWellFoundedOn({p \in Nat \X Nat : p[1] < p[2]}, Nat)
  BY NatLessThanWellFounded DEF OpToRel

LEMMA MinIsLeast ==
  ASSUME NEW S \in SUBSET Nat, S # {}
  PROVE  Min(S) \in S /\ \A y \in S : Min(S) <= y
<1>. DEFINE R == {p \in Nat \X Nat : p[1] < p[2]}
<1>1. IsWellFoundedOn(R, Nat)
  BY NatWellFounded
<1>. HIDE DEF R
<1>2. \E x \in S : \A y \in S : ~ (<<y, x>> \in R)
  BY <1>1, WFMin
<1>3. \A x, y \in S : x \in Nat /\ y \in Nat /\ <<y, x>>[1] = y /\ <<y, x>>[2] = x
  OBVIOUS
<1>4. \E x \in S : \A y \in S : ~ (y < x)
  BY <1>2, <1>3 DEF R
<1>5. \E x \in S : \A y \in S : x <= y
  BY <1>3, <1>4
<1> QED BY <1>5 DEF Min

-----------------------------------------------------------------------------
(* How instances move. *)

LEMMA IdOfBuild ==
  ASSUME NEW id \in Id
  PROVE  /\ BuildOf(id) \in Builds /\ id = <<id[1], id[2]>> /\ id[2] \in Record
         /\ BuildOf(id) \in GalaxyBuilds => id[2] = Nothing
  BY UnitsAssumption DEF Id, BuildOf, Builds, Record

LEMMA StepsTyped ==
  ASSUME NEW b \in Builds
  PROVE  /\ DOMAIN StepsOf(b) \subseteq Nat
         /\ \A n \in DOMAIN StepsOf(b) : StepsOf(b)[n] \in Steps
         /\ \A m, n \in DOMAIN StepsOf(b) : StepsOf(b)[m] = StepsOf(b)[n] => m = n
<1>1. CASE b \in IosBuilds
  BY <1>1, UnitsAssumption DEF StepsOf, Steps
<1>2. CASE b \notin IosBuilds
  <2>1. StepsOf(b) = <<"csc", "cp", "ap">> /\ DOMAIN StepsOf(b) = 1 .. 3
    BY <1>2 DEF StepsOf
  <2> QED BY <2>1 DEF Steps
<1> QED BY <1>1, <1>2

(* Instance id alone changed, to this. *)
Runs(id, status, left, again, attempt, at) ==
  /\ inst' \in [Id -> Instance]
  /\ \A x \in Id : x # id => inst'[x] = inst[x]
  /\ inst'[id].status = status /\ inst'[id].left = left /\ inst'[id].again = again
  /\ inst'[id].attempt = attempt /\ inst'[id].at = at
  /\ inst'[id].phones = inst[id].phones /\ inst'[id].restarted = inst[id].restarted

LEMMA SetInst ==
  ASSUME UnitTypes, NEW id \in Id, NEW i \in Instance, inst' = [inst EXCEPT ![id] = i],
         i.phones = inst[id].phones, i.restarted = inst[id].restarted
  PROVE  Runs(id, i.status, i.left, i.again, i.attempt, i.at)
  BY DEF UnitTypes, Runs

LEMMA OutcomeMoves ==
  ASSUME UnitTypes, NEW id \in Id, NEW outcome \in Outcomes,
         inst' = [inst EXCEPT ![id] = Outcome(id, outcome)], NEW i, i = inst[id]
  PROVE  \/ outcome = "done" /\ Runs(id, i.status, i.left \ {Min(i.left)}, FALSE, 1, "ready")
         \/ outcome = "transient" /\ Runs(id, i.status, i.left, i.again, i.attempt + 1, "ready")
         \/ outcome \in {"transient", "permanent"}
               /\ Runs(id, "errored", i.left, i.again, i.attempt, i.at)
         \/ outcome = "burst" /\ i.again /\ Runs(id, "refused", i.left, i.again, i.attempt, i.at)
         \/ outcome = "burst" /\ ~i.again /\ Runs(id, i.status, i.left, i.again, i.attempt, "asleep")
<1>0. i \in Instance
  BY DEF UnitTypes
<1>1. CASE outcome = "done"
  <2> DEFINE j == Done(i)
  <2>1. j \in Instance /\ j.status = i.status /\ j.left = i.left \ {Min(i.left)} /\ j.again = FALSE
        /\ j.attempt = 1 /\ j.at = "ready" /\ j.phones = i.phones /\ j.restarted = i.restarted
    BY <1>0 DEF Done, Instance
  <2>2. inst' = [inst EXCEPT ![id] = j]
    BY <1>1 DEF Outcome
  <2>. HIDE DEF j
  <2> QED BY <1>1, <2>1, <2>2, SetInst
<1>2. CASE outcome = "transient"
  <2>1. CASE i.attempt <= RetriesOf(id)
    <3> DEFINE j == [i EXCEPT !.attempt = @ + 1, !.at = "ready"]
    <3>0. i.attempt \in Nat /\ i.attempt + 1 \in Nat
      BY <1>0 DEF Instance
    <3>1. j \in Instance /\ j.status = i.status /\ j.left = i.left /\ j.again = i.again
          /\ j.attempt = i.attempt + 1 /\ j.at = "ready" /\ j.phones = i.phones /\ j.restarted = i.restarted
      BY <1>0, <3>0 DEF Instance
    <3>2. inst' = [inst EXCEPT ![id] = j]
      BY <1>2, <2>1 DEF Outcome, Failed
    <3>. HIDE DEF j
    <3> QED BY <1>2, <3>1, <3>2, SetInst
  <2>2. CASE ~(i.attempt <= RetriesOf(id))
    <3> DEFINE j == [i EXCEPT !.status = "errored"]
    <3>1. j \in Instance /\ j.status = "errored" /\ j.left = i.left /\ j.again = i.again
          /\ j.attempt = i.attempt /\ j.at = i.at /\ j.phones = i.phones /\ j.restarted = i.restarted
      BY <1>0 DEF Instance, Statuses
    <3>2. inst' = [inst EXCEPT ![id] = j]
      BY <1>2, <2>2 DEF Outcome, Failed
    <3>. HIDE DEF j
    <3> QED BY <1>2, <3>1, <3>2, SetInst
  <2> QED BY <2>1, <2>2
<1>3. CASE outcome = "permanent"
  <2> DEFINE j == Permanent(i)
  <2>1. j \in Instance /\ j.status = "errored" /\ j.left = i.left /\ j.again = i.again
        /\ j.attempt = i.attempt /\ j.at = i.at /\ j.phones = i.phones /\ j.restarted = i.restarted
    BY <1>0 DEF Permanent, Instance, Statuses
  <2>2. inst' = [inst EXCEPT ![id] = j]
    BY <1>3 DEF Outcome
  <2>. HIDE DEF j
  <2> QED BY <1>3, <2>1, <2>2, SetInst
<1>4. CASE outcome = "burst" /\ i.again
  <2> DEFINE j == [i EXCEPT !.status = "refused"]
  <2>1. j \in Instance /\ j.status = "refused" /\ j.left = i.left /\ j.again = i.again
        /\ j.attempt = i.attempt /\ j.at = i.at /\ j.phones = i.phones /\ j.restarted = i.restarted
    BY <1>0 DEF Instance, Statuses
  <2>2. inst' = [inst EXCEPT ![id] = j]
    BY <1>4 DEF Outcome, Refused
  <2>. HIDE DEF j
  <2> QED BY <1>4, <2>1, <2>2, SetInst
<1>5. CASE outcome = "burst" /\ ~i.again
  <2> DEFINE j == [i EXCEPT !.at = "asleep"]
  <2>1. j \in Instance /\ j.status = i.status /\ j.left = i.left /\ j.again = i.again
        /\ j.attempt = i.attempt /\ j.at = "asleep" /\ j.phones = i.phones /\ j.restarted = i.restarted
    BY <1>0 DEF Instance
  <2>2. inst' = [inst EXCEPT ![id] = j]
    BY <1>5 DEF Outcome, Refused
  <2>. HIDE DEF j
  <2> QED BY <1>5, <2>1, <2>2, SetInst
<1> QED BY <1>1, <1>2, <1>3, <1>4, <1>5 DEF Outcomes

(* An instance's other moves: of its job's posting, of a burst waited out,  *)
(* and of its record's writing and queueing.                                *)
LEMMA OtherMoves ==
  ASSUME UnitTypes, NEW id \in Id, NEW i, i = inst[id]
  PROVE  /\ PostJob(id) => Runs(id, i.status, i.left, i.again, i.attempt, "waiting")
         /\ Wake(id) => Runs(id, i.status, i.left, TRUE, 1, "ready")
         /\ WriteRecord(id) => Runs(id, i.status, i.left, i.again, i.attempt, "written")
         /\ QueueRecord(id) => Runs(id, "complete", i.left, i.again, i.attempt, i.at)
<1>0. i \in Instance
  BY DEF UnitTypes
<1>1. ASSUME PostJob(id) PROVE Runs(id, i.status, i.left, i.again, i.attempt, "waiting")
  <2> DEFINE j == [i EXCEPT !.at = "waiting"]
  <2>1. j \in Instance /\ j.status = i.status /\ j.left = i.left /\ j.again = i.again
        /\ j.attempt = i.attempt /\ j.at = "waiting" /\ j.phones = i.phones /\ j.restarted = i.restarted
    BY <1>0 DEF Instance
  <2>2. inst' = [inst EXCEPT ![id] = j]
    BY <1>1 DEF PostJob
  <2>. HIDE DEF j
  <2> QED BY <2>1, <2>2, SetInst
<1>2. ASSUME Wake(id) PROVE Runs(id, i.status, i.left, TRUE, 1, "ready")
  <2> DEFINE j == [i EXCEPT !.at = "ready", !.again = TRUE, !.attempt = 1]
  <2>1. j \in Instance /\ j.status = i.status /\ j.left = i.left /\ j.again = TRUE
        /\ j.attempt = 1 /\ j.at = "ready" /\ j.phones = i.phones /\ j.restarted = i.restarted
    BY <1>0 DEF Instance
  <2>2. inst' = [inst EXCEPT ![id] = j]
    BY <1>2 DEF Wake
  <2>. HIDE DEF j
  <2> QED BY <2>1, <2>2, SetInst
<1>3. ASSUME WriteRecord(id) PROVE Runs(id, i.status, i.left, i.again, i.attempt, "written")
  <2> DEFINE j == [i EXCEPT !.at = "written"]
  <2>1. j \in Instance /\ j.status = i.status /\ j.left = i.left /\ j.again = i.again
        /\ j.attempt = i.attempt /\ j.at = "written" /\ j.phones = i.phones /\ j.restarted = i.restarted
    BY <1>0 DEF Instance
  <2>2. inst' = [inst EXCEPT ![id] = j]
    BY <1>3 DEF WriteRecord
  <2>. HIDE DEF j
  <2> QED BY <2>1, <2>2, SetInst
<1>4. ASSUME QueueRecord(id) PROVE Runs(id, "complete", i.left, i.again, i.attempt, i.at)
  <2> DEFINE j == [i EXCEPT !.status = "complete"]
  <2>1. j \in Instance /\ j.status = "complete" /\ j.left = i.left /\ j.again = i.again
        /\ j.attempt = i.attempt /\ j.at = i.at /\ j.phones = i.phones /\ j.restarted = i.restarted
    BY <1>0 DEF Instance, Statuses
  <2>2. inst' = [inst EXCEPT ![id] = j]
    BY <1>4 DEF QueueRecord
  <2>. HIDE DEF j
  <2> QED BY <2>1, <2>2, SetInst
<1> QED BY <1>1, <1>2, <1>3, <1>4

-----------------------------------------------------------------------------
(* Jobs and the moves of their instances. *)

AJob == [in : Containers, awaited : BOOLEAN]

LEMMA JobOfAnother ==
  ASSUME UnitTypes, NEW id \in Id, \A x \in Id : x # id => inst'[x] = inst[x],
         NEW j \in AJob, JobKept(j), j.in[1] # id
  PROVE  JobKept(j)'
<1>1. j.in[1] \in Id /\ inst'[j.in[1]] = inst[j.in[1]]
  BY DEF AJob, Containers
<1> QED BY <1>1 DEF JobKept, Extracting, Live, AtLastStep, ContainerOf, ContainerName, StepOf

(* An earlier attempt is one still when its instance goes on. *)
GoesOn(id, left, again, attempt) ==
  \/ left = inst[id].left \ {Min(inst[id].left)}
  \/ left = inst[id].left /\ again = inst[id].again /\ attempt >= inst[id].attempt
  \/ left = inst[id].left /\ again /\ ~inst[id].again

LEMMA OrphanOfMover ==
  ASSUME UnitTypes, NEW id \in Id, Live(id), NEW status \in Statuses \ {"none"}, NEW left,
         NEW again \in BOOLEAN, NEW attempt \in Nat, NEW at,
         Runs(id, status, left, again, attempt, at), GoesOn(id, left, again, attempt),
         NEW j \in AJob, JobKept(j), j.in[1] = id, ~j.awaited
  PROVE  JobKept(j)'
<1>1. inst[id] \in Instance /\ inst'[id] \in Instance
  BY DEF UnitTypes, Runs
<1>2. j.in[3] \in BOOLEAN /\ j.in[4] \in Nat
  BY DEF AJob, Containers
<1>3. ASSUME ~inst[id].restarted PROVE Past(BuildOf(id), inst'[id], j.in)
  <2>1. PICK n \in DOMAIN StepsOf(BuildOf(id)) :
          /\ j.in[2] = StepsOf(BuildOf(id))[n]
          /\ n \in inst[id].left =>
               /\ n = Min(inst[id].left)
               /\ \/ ~j.in[3] /\ inst[id].again
                  \/ j.in[3] = inst[id].again /\ j.in[4] < inst[id].attempt
    BY <1>3 DEF JobKept, Past
  <2>2. inst'[id].left = left /\ inst'[id].again = again /\ inst'[id].attempt = attempt
        /\ inst[id].again \in BOOLEAN /\ inst[id].attempt \in Nat
    BY <1>1 DEF Runs, Instance
  <2>3. CASE left = inst[id].left \ {Min(inst[id].left)}
    BY <2>1, <2>2, <2>3 DEF Past
  <2>4. CASE left = inst[id].left /\ again = inst[id].again /\ attempt >= inst[id].attempt
    BY <2>1, <2>2, <2>4, <1>2 DEF Past
  <2>5. CASE left = inst[id].left /\ again /\ ~inst[id].again
    BY <2>1, <2>2, <2>5, <1>2 DEF Past
  <2> QED BY <2>3, <2>4, <2>5 DEF GoesOn
<1> QED BY <1>3 DEF JobKept, Runs, Live

(* The present attempt's job is an earlier attempt's once the next begins. *)
LEMMA LostOfMover ==
  ASSUME UnitTypes, StepsOwn, NEW id \in Id, Extracting(id), NEW status \in Statuses \ {"none"},
         Runs(id, status, inst[id].left, inst[id].again, inst'[id].attempt, inst'[id].at),
         status = "running" => inst'[id].attempt = inst[id].attempt + 1,
         NEW C, C = ContainerOf(id)
  PROVE  JobKept(Job(C, FALSE))'
<1> DEFINE n == Min(inst[id].left)
<1>0. /\ inst[id].left \subseteq DOMAIN StepsOf(BuildOf(id)) /\ inst[id].left # {}
      /\ inst[id].left \subseteq Nat /\ inst[id].attempt \in Nat /\ inst[id].again \in BOOLEAN
  BY DEF UnitTypes, Instance, StepsOwn, Extracting, AtLastStep
<1>1. n \in inst[id].left
  BY <1>0, MinIsLeast
<1>2. C = <<id, StepsOf(BuildOf(id))[n], inst[id].again, inst[id].attempt>>
  BY DEF ContainerOf, ContainerName, StepOf
<1>3. C[1] = id /\ C[2] = StepsOf(BuildOf(id))[n] /\ C[3] = inst[id].again /\ C[4] = inst[id].attempt
  BY <1>2
<1>4. Job(C, FALSE).in = C /\ Job(C, FALSE).awaited = FALSE
  BY DEF Job
<1>. HIDE DEF n
<1>5. ASSUME status = "running" PROVE Past(BuildOf(id), inst'[id], C)
  <2>1. inst'[id].left = inst[id].left /\ inst'[id].again = inst[id].again
        /\ inst'[id].attempt = inst[id].attempt + 1
    BY <1>5 DEF Runs
  <2>2. n = Min(inst'[id].left)
    BY <2>1 DEF n
  <2> QED BY <1>0, <1>1, <1>3, <2>1, <2>2 DEF Past
<1>6. inst'[id].status = status
  BY DEF Runs
<1> QED BY <1>3, <1>4, <1>5, <1>6 DEF JobKept, Live

LEMMA AwaitedIsPresent ==
  ASSUME UnitInv, NEW j \in jobs, j.awaited
  PROVE  LET id == j.in[1] IN
         /\ id \in Id /\ Extracting(id) /\ inst[id].at = "waiting" /\ j = Job(ContainerOf(id), TRUE)
<1>1. j \in [in : Containers, awaited : BOOLEAN] /\ JobKept(j)
  BY DEF UnitInv, UnitTypes, JobsKept
<1>2. j = [in |-> j.in, awaited |-> TRUE] /\ j.in[1] \in Id
  BY <1>1 DEF Containers
<1> QED BY <1>1, <1>2 DEF JobKept, Job

-----------------------------------------------------------------------------
(* Each step of an instance keeps its jobs' invariant. *)

LEMMA PresentIsTyped ==
  ASSUME UnitTypes, StepsOwn, NEW id \in Id, Extracting(id)
  PROVE  ContainerOf(id) \in Containers /\ ContainerOf(id)[1] = id
         /\ Job(ContainerOf(id), TRUE) \in AJob /\ Job(ContainerOf(id), FALSE) \in AJob
         /\ Min(inst[id].left) \in inst[id].left
<1> DEFINE n == Min(inst[id].left)
<1>0. /\ inst[id].left \subseteq DOMAIN StepsOf(BuildOf(id)) /\ inst[id].left # {}
      /\ inst[id].left \subseteq Nat /\ inst[id].attempt \in Nat /\ inst[id].again \in BOOLEAN
  BY DEF UnitTypes, Instance, StepsOwn, Extracting, AtLastStep
<1>1. n \in inst[id].left
  BY <1>0, MinIsLeast
<1>2. StepsOf(BuildOf(id))[n] \in Steps
  BY <1>0, <1>1, IdOfBuild, StepsTyped
<1>3. ContainerOf(id) = <<id, StepsOf(BuildOf(id))[n], inst[id].again, inst[id].attempt>>
  BY DEF ContainerOf, ContainerName, StepOf
<1>. HIDE DEF n
<1>4. ContainerOf(id) \in Containers /\ ContainerOf(id)[1] = id
  BY <1>0, <1>2, <1>3 DEF Containers
<1> QED BY <1>1, <1>4 DEF Job, AJob, n

LEMMA MovedInst ==
  ASSUME UnitTypes, StepsOwn, NEW id \in Id, NEW status, NEW left, NEW again, NEW attempt, NEW at,
         Runs(id, status, left, again, attempt, at),
         left \subseteq inst[id].left, at = "asleep" => ~again
  PROVE  StepsOwn'
  BY DEF Runs, StepsOwn, BuildOf

(* Nothing awaited, all jobs an instance has are earlier attempts'. *)
LEMMA NoneAwaited ==
  ASSUME UnitTypes, JobsKept, NEW id \in Id, Live(id), AtLastStep(id) \/ inst[id].at # "waiting",
         NEW status \in Statuses \ {"none"}, NEW left,
         NEW again \in BOOLEAN, NEW attempt \in Nat, NEW at,
         Runs(id, status, left, again, attempt, at), GoesOn(id, left, again, attempt)
  PROVE  \A j \in jobs : JobKept(j)'
<1> SUFFICES ASSUME NEW j \in jobs PROVE JobKept(j)'
  OBVIOUS
<1>1. j \in AJob /\ JobKept(j) /\ \A x \in Id : x # id => inst'[x] = inst[x]
  BY DEF UnitTypes, JobsKept, AJob, Runs
<1>2. CASE j.in[1] # id
  BY <1>1, <1>2, JobOfAnother
<1>3. CASE j.in[1] = id
  <2>1. ~j.awaited
    BY <1>1, <1>3 DEF JobKept, Extracting
  <2> QED BY <1>1, <1>3, <2>1, OrphanOfMover
<1> QED BY <1>2, <1>3

(* One awaited is its instance's present one, the rest earlier ones. *)
LEMMA OneAwaited ==
  ASSUME UnitTypes, StepsOwn, JobsKept, NEW id \in Id, Extracting(id),
         NEW status \in Statuses \ {"none"}, NEW left,
         NEW again \in BOOLEAN, NEW attempt \in Nat, NEW at,
         Runs(id, status, left, again, attempt, at), GoesOn(id, left, again, attempt)
  PROVE  \A j \in jobs : j = Job(ContainerOf(id), TRUE) \/ JobKept(j)'
<1> SUFFICES ASSUME NEW j \in jobs, j # Job(ContainerOf(id), TRUE) PROVE JobKept(j)'
  OBVIOUS
<1>1. j \in AJob /\ JobKept(j) /\ \A x \in Id : x # id => inst'[x] = inst[x]
  BY DEF UnitTypes, JobsKept, AJob, Runs
<1>2. CASE j.in[1] # id
  BY <1>1, <1>2, JobOfAnother
<1>3. CASE j.in[1] = id
  <2>1. j = [in |-> j.in, awaited |-> j.awaited] /\ j.awaited \in BOOLEAN
    BY <1>1 DEF AJob
  <2>2. ~j.awaited
    BY <1>1, <1>3, <2>1 DEF JobKept, Job
  <2> QED BY <1>1, <1>3, <2>2, OrphanOfMover DEF Extracting
<1> QED BY <1>2, <1>3

UnitKept == UnitTypes' /\ StepsOwn' /\ JobsKept'

Ats == {"ready", "waiting", "asleep", "written"}

Going(id, outcome, status, left, again, attempt, at) ==
  /\ Runs(id, status, left, again, attempt, at)
  /\ GoesOn(id, left, again, attempt)
  /\ left \subseteq inst[id].left
  /\ at = "asleep" => ~again
  /\ outcome = "transient" =>
       /\ left = inst[id].left /\ again = inst[id].again
       /\ status = "running" => attempt = inst[id].attempt + 1

LEMMA OutcomeGoesOn ==
  ASSUME UnitTypes, StepsOwn, NEW id \in Id, Live(id), NEW outcome \in Outcomes,
         outcome = "done" => Extracting(id),
         inst' = [inst EXCEPT ![id] = Outcome(id, outcome)]
  PROVE  \E status \in Statuses \ {"none"}, left \in SUBSET Nat, again \in BOOLEAN,
            attempt \in Nat, at \in Ats :
           Going(id, outcome, status, left, again, attempt, at)
<1> DEFINE i == inst[id]
<1>0. i \in Instance /\ i.status = "running" /\ i.left \in SUBSET Nat /\ i.again \in BOOLEAN
      /\ i.attempt \in Nat /\ (i.at = "asleep" => ~i.again)
      /\ i.at \in Ats /\ "ready" \in Ats /\ "asleep" \in Ats /\ 1 \in Nat
  BY DEF UnitTypes, Instance, Live, StepsOwn, Ats
<1>1. {"running", "errored", "refused"} \subseteq Statuses \ {"none"}
  BY DEF Statuses
<1>2. i = inst[id]
  OBVIOUS
<1>. HIDE DEF i
<1>3. \/ outcome = "done" /\ Runs(id, i.status, i.left \ {Min(i.left)}, FALSE, 1, "ready")
      \/ outcome = "transient" /\ Runs(id, i.status, i.left, i.again, i.attempt + 1, "ready")
      \/ outcome \in {"transient", "permanent"}
               /\ Runs(id, "errored", i.left, i.again, i.attempt, i.at)
      \/ outcome = "burst" /\ i.again /\ Runs(id, "refused", i.left, i.again, i.attempt, i.at)
      \/ outcome = "burst" /\ ~i.again /\ Runs(id, i.status, i.left, i.again, i.attempt, "asleep")
  BY <1>2, OutcomeMoves
<1>6. GoesOn(id, i.left, i.again, i.attempt)
  BY <1>0, <1>2 DEF GoesOn
<1>4. CASE outcome = "done" /\ Runs(id, i.status, i.left \ {Min(i.left)}, FALSE, 1, "ready")
  <2>1. GoesOn(id, i.left \ {Min(i.left)}, FALSE, 1)
    BY <1>2 DEF GoesOn
  <2>2. Going(id, outcome, i.status, i.left \ {Min(i.left)}, FALSE, 1, "ready")
    BY <1>2, <1>4, <2>1 DEF Going
  <2> QED BY <1>0, <1>1, <2>2
<1>5. CASE outcome = "transient" /\ Runs(id, i.status, i.left, i.again, i.attempt + 1, "ready")
  <2>1. GoesOn(id, i.left, i.again, i.attempt + 1) /\ i.attempt + 1 \in Nat
    BY <1>0, <1>2 DEF GoesOn
  <2>2. Going(id, outcome, i.status, i.left, i.again, i.attempt + 1, "ready")
    BY <1>2, <1>5, <2>1 DEF Going
  <2> QED BY <1>0, <1>1, <2>1, <2>2
<1>7. CASE outcome \in {"transient", "permanent"} /\ Runs(id, "errored", i.left, i.again, i.attempt, i.at)
  <2>1. Going(id, outcome, "errored", i.left, i.again, i.attempt, i.at)
    BY <1>0, <1>2, <1>6, <1>7 DEF Going
  <2> QED BY <1>0, <1>1, <2>1
<1>8. CASE outcome = "burst" /\ i.again /\ Runs(id, "refused", i.left, i.again, i.attempt, i.at)
  <2>1. Going(id, outcome, "refused", i.left, i.again, i.attempt, i.at)
    BY <1>0, <1>2, <1>6, <1>8 DEF Going
  <2> QED BY <1>0, <1>1, <2>1
<1>9. CASE outcome = "burst" /\ ~i.again /\ Runs(id, i.status, i.left, i.again, i.attempt, "asleep")
  <2>1. Going(id, outcome, i.status, i.left, i.again, i.attempt, "asleep")
    BY <1>0, <1>2, <1>6, <1>9 DEF Going
  <2> QED BY <1>0, <1>1, <2>1
<1> QED BY <1>3, <1>4, <1>5, <1>7, <1>8, <1>9

LEMMA FaultTyped == UnitTypes /\ Fault => faults' \in 0 .. MaxFaults
  BY UnitsAssumption DEF UnitTypes, Fault

LEMMA UnitStepKeeps ==
  ASSUME UnitTypes, StepsOwn, JobsKept, NEW id \in Id, UnitNext(id)
  PROVE  UnitKept
<1>0. /\ inst[id] \in Instance /\ inst[id].status \in Statuses /\ inst[id].again \in BOOLEAN
      /\ inst[id].attempt \in Nat /\ inst[id].left \subseteq Nat
      /\ (inst[id].at = "asleep" => ~inst[id].again)
  BY DEF UnitTypes, Instance, StepsOwn
<1>00. \A j \in jobs : j \in AJob /\ JobKept(j)
  BY DEF UnitTypes, AJob, JobsKept
<1>000. "running" \in Statuses \ {"none"} /\ "complete" \in Statuses \ {"none"} /\ 1 \in Nat
  BY DEF Statuses
<1>1. ASSUME NEW outcome \in Outcomes, WorkerStep(id, outcome) PROVE UnitKept
  <2>1. Live(id) /\ Extracting(id) /\ inst[id].at # "waiting" /\ UNCHANGED <<held, jobs>>
        /\ inst' = [inst EXCEPT ![id] = Outcome(id, outcome)] /\ faults' \in 0 .. MaxFaults
    BY <1>1, FaultTyped DEF WorkerStep, Extracting, UnitTypes
  <2>2. PICK status \in Statuses \ {"none"}, left \in SUBSET Nat, again \in BOOLEAN,
            attempt \in Nat, at \in Ats :
           Going(id, outcome, status, left, again, attempt, at)
    BY <2>1, OutcomeGoesOn
  <2>3. Runs(id, status, left, again, attempt, at) /\ GoesOn(id, left, again, attempt)
        /\ left \subseteq inst[id].left /\ (at = "asleep" => ~again)
    BY <2>2 DEF Going
  <2>4. \A j \in jobs : JobKept(j)'
    BY <2>1, <2>3, NoneAwaited
  <2>5. StepsOwn'
    BY <2>3, MovedInst
  <2> QED BY <2>1, <2>3, <2>4, <2>5 DEF UnitKept, UnitTypes, JobsKept, Runs
<1>2. ASSUME PostJob(id) PROVE UnitKept
  <2>1. /\ Live(id) /\ Extracting(id) /\ inst[id].at # "waiting" /\ UNCHANGED <<held, faults>>
        /\ jobs' = jobs \cup {Job(ContainerOf(id), TRUE)}
    BY <1>2 DEF PostJob, Extracting
  <2>2. Runs(id, inst[id].status, inst[id].left, inst[id].again, inst[id].attempt, "waiting")
        /\ inst[id].status = "running"
    BY <1>2, <2>1, OtherMoves DEF Live
  <2>3. GoesOn(id, inst[id].left, inst[id].again, inst[id].attempt)
    BY <1>0 DEF GoesOn
  <2>4. \A j \in jobs : JobKept(j)'
    BY <1>0, <1>000, <2>1, <2>2, <2>3, NoneAwaited
  <2>5. StepsOwn'
    BY <2>2, MovedInst
  <2>0. PICK C : C = ContainerOf(id)
    OBVIOUS
  <2>6. C \in Containers /\ C[1] = id /\ Job(C, TRUE) \in AJob
    BY <2>0, <2>1, PresentIsTyped
  <2>7. C = ContainerOf(id)'
    BY <2>0, <2>2 DEF ContainerOf, ContainerName, StepOf, Runs
  <2>8. Extracting(id)' /\ inst'[id].at = "waiting" /\ inst'[id].status # "none"
    BY <2>1, <2>2 DEF Extracting, Live, AtLastStep, Runs
  <2>9. JobKept(Job(C, TRUE))'
    BY <2>6, <2>7, <2>8 DEF JobKept, Job
  <2>10. jobs' \subseteq AJob /\ \A j \in jobs' : JobKept(j)'
    BY <1>00, <2>0, <2>1, <2>4, <2>6, <2>9
  <2> QED BY <2>1, <2>2, <2>5, <2>10 DEF UnitKept, UnitTypes, JobsKept, Runs, AJob
<1>3. ASSUME NEW outcome \in Outcomes, JobAnswers(id, outcome) PROVE UnitKept
  <2>1. /\ Live(id) /\ Extracting(id) /\ UNCHANGED held
        /\ jobs' = {j \in jobs : j.in # ContainerOf(id)}
        /\ inst' = [inst EXCEPT ![id] = Outcome(id, outcome)] /\ faults' \in 0 .. MaxFaults
    BY <1>3, FaultTyped DEF JobAnswers, Extracting, UnitTypes
  <2>2. PICK status \in Statuses \ {"none"}, left \in SUBSET Nat, again \in BOOLEAN,
            attempt \in Nat, at \in Ats :
           Going(id, outcome, status, left, again, attempt, at)
    BY <2>1, OutcomeGoesOn
  <2>3. Runs(id, status, left, again, attempt, at) /\ GoesOn(id, left, again, attempt)
        /\ left \subseteq inst[id].left /\ (at = "asleep" => ~again)
    BY <2>2 DEF Going
  <2>4. \A j \in jobs : j = Job(ContainerOf(id), TRUE) \/ JobKept(j)'
    BY <2>1, <2>3, OneAwaited
  <2>5. StepsOwn'
    BY <2>3, MovedInst
  <2>6. \A j \in jobs' : j # Job(ContainerOf(id), TRUE) /\ j \in jobs
    BY <2>1 DEF Job
  <2> QED BY <2>1, <2>3, <2>4, <2>5, <2>6 DEF UnitKept, UnitTypes, JobsKept, Runs
<1>4. ASSUME JobLost(id) PROVE UnitKept
  <2>1. /\ Live(id) /\ Extracting(id) /\ UNCHANGED held
        /\ jobs' = (jobs \ {Job(ContainerOf(id), TRUE)}) \cup {Job(ContainerOf(id), FALSE)}
        /\ inst' = [inst EXCEPT ![id] = Outcome(id, "transient")] /\ faults' \in 0 .. MaxFaults
    BY <1>4, FaultTyped DEF JobLost, Extracting
  <2>2. PICK status \in Statuses \ {"none"}, left \in SUBSET Nat, again \in BOOLEAN,
            attempt \in Nat, at \in Ats :
           Going(id, "transient", status, left, again, attempt, at)
    <3>1. "transient" \in Outcomes
      BY DEF Outcomes
    <3> QED BY <3>1, <2>1, OutcomeGoesOn
  <2>3. Runs(id, status, left, again, attempt, at) /\ GoesOn(id, left, again, attempt)
        /\ left \subseteq inst[id].left /\ (at = "asleep" => ~again)
    BY <2>2 DEF Going
  <2>4. \A j \in jobs : j = Job(ContainerOf(id), TRUE) \/ JobKept(j)'
    BY <2>1, <2>3, OneAwaited
  <2>5. StepsOwn'
    BY <2>3, MovedInst
  <2>6. PICK C : C = ContainerOf(id)
    OBVIOUS
  <2>7. Runs(id, status, inst[id].left, inst[id].again, inst'[id].attempt, inst'[id].at)
        /\ (status = "running" => inst'[id].attempt = inst[id].attempt + 1)
    BY <2>2 DEF Going, Runs
  <2>8. JobKept(Job(C, FALSE))'
    BY <2>1, <2>6, <2>7, LostOfMover
  <2>9. jobs' \subseteq AJob /\ \A j \in jobs' : JobKept(j)'
    BY <1>00, <2>1, <2>4, <2>6, <2>8, PresentIsTyped
  <2> QED BY <2>1, <2>3, <2>5, <2>9 DEF UnitKept, UnitTypes, JobsKept, Runs, AJob
<1>5. ASSUME Wake(id) PROVE UnitKept
  <2>1. Live(id) /\ inst[id].at = "asleep" /\ inst[id].at # "waiting" /\ UNCHANGED <<held, jobs, faults>>
    BY <1>5 DEF Wake
  <2>2. Runs(id, inst[id].status, inst[id].left, TRUE, 1, "ready") /\ inst[id].status = "running"
    BY <1>5, <2>1, OtherMoves DEF Live
  <2>3. GoesOn(id, inst[id].left, TRUE, 1)
    BY <1>0, <2>1 DEF GoesOn
  <2>4. \A j \in jobs : JobKept(j)'
    BY <1>0, <1>000, <2>1, <2>2, <2>3, NoneAwaited
  <2>5. PICK again \in BOOLEAN : again = TRUE
    OBVIOUS
  <2>6. Runs(id, inst[id].status, inst[id].left, again, 1, "ready")
    BY <2>2, <2>5
  <2>7. StepsOwn'
    BY <2>6, MovedInst
  <2> QED BY <2>1, <2>2, <2>4, <2>7 DEF UnitKept, UnitTypes, JobsKept, Runs
<1>6. ASSUME WriteRecord(id) PROVE UnitKept
  <2>1. /\ Live(id) /\ AtLastStep(id) /\ UNCHANGED <<jobs, faults>>
        /\ held' = [held EXCEPT ![BuildOf(id)] = inst[id].phones]
    BY <1>6 DEF WriteRecord, Finishing
  <2>2. Runs(id, inst[id].status, inst[id].left, inst[id].again, inst[id].attempt, "written")
        /\ inst[id].status = "running"
    BY <1>6, <2>1, OtherMoves DEF Live
  <2>3. GoesOn(id, inst[id].left, inst[id].again, inst[id].attempt)
    BY <1>0 DEF GoesOn
  <2>4. \A j \in jobs : JobKept(j)'
    BY <1>0, <1>000, <2>1, <2>2, <2>3, NoneAwaited
  <2>5. StepsOwn'
    BY <2>2, MovedInst
  <2>6. held' \in [Builds -> Record]
    <3>1. BuildOf(id) \in Builds /\ inst[id].phones \in Record
      BY <1>0, IdOfBuild DEF Record, Instance
    <3> QED BY <2>1, <3>1 DEF UnitTypes
  <2> QED BY <2>1, <2>2, <2>4, <2>5, <2>6 DEF UnitKept, UnitTypes, JobsKept, Runs
<1>7. ASSUME QueueRecord(id) PROVE UnitKept
  <2>1. Live(id) /\ AtLastStep(id) /\ UNCHANGED <<held, jobs, faults>> /\ inst[id].at = "written"
    BY <1>7 DEF QueueRecord, Finishing
  <2>2. Runs(id, "complete", inst[id].left, inst[id].again, inst[id].attempt, inst[id].at)
    BY <1>7, OtherMoves
  <2>3. GoesOn(id, inst[id].left, inst[id].again, inst[id].attempt)
    BY <1>0 DEF GoesOn
  <2>4. \A j \in jobs : JobKept(j)'
    BY <1>0, <1>000, <2>1, <2>2, <2>3, NoneAwaited
  <2>5. StepsOwn'
    BY <2>1, <2>2, MovedInst
  <2> QED BY <2>1, <2>2, <2>4, <2>5 DEF UnitKept, UnitTypes, JobsKept, Runs
<1>8. ASSUME NEW outcome \in {"transient", "permanent"}, FinishFails(id, outcome) PROVE UnitKept
  <2>1. /\ Live(id) /\ AtLastStep(id) /\ UNCHANGED <<held, jobs>> /\ faults' \in 0 .. MaxFaults
        /\ inst' = [inst EXCEPT ![id] = Outcome(id, outcome)] /\ outcome \in Outcomes /\ outcome # "done"
    BY <1>8, FaultTyped DEF FinishFails, Finishing, Outcomes
  <2>2. PICK status \in Statuses \ {"none"}, left \in SUBSET Nat, again \in BOOLEAN,
            attempt \in Nat, at \in Ats :
           Going(id, outcome, status, left, again, attempt, at)
    BY <2>1, OutcomeGoesOn
  <2>3. Runs(id, status, left, again, attempt, at) /\ GoesOn(id, left, again, attempt)
        /\ left \subseteq inst[id].left /\ (at = "asleep" => ~again)
    BY <2>2 DEF Going
  <2>4. \A j \in jobs : JobKept(j)'
    BY <2>1, <2>3, NoneAwaited
  <2>5. StepsOwn'
    BY <2>3, MovedInst
  <2> QED BY <2>1, <2>3, <2>4, <2>5 DEF UnitKept, UnitTypes, JobsKept, Runs
<1> QED BY <1>1, <1>2, <1>3, <1>4, <1>5, <1>6, <1>7, <1>8 DEF UnitNext

(* A job nobody awaits ends, and with it one awaited in its container.      *)
LEMMA OrphanKeeps ==
  ASSUME UnitTypes, StepsOwn, JobsKept, NEW job \in jobs, OrphanEnds(job)
  PROVE  /\ UnitKept /\ UNCHANGED <<held, faults, late>>
         /\ \/ UNCHANGED inst
            \/ /\ job.in[1] \in Id /\ Extracting(job.in[1])
               /\ inst' = [inst EXCEPT ![job.in[1]] = Outcome(job.in[1], "transient")]
<1> DEFINE id == job.in[1]
<1>0. \A j \in jobs : j \in AJob /\ JobKept(j)
  BY DEF UnitTypes, AJob, JobsKept
<1>1. id \in Id /\ jobs' \subseteq jobs /\ UNCHANGED <<held, faults, late>>
      /\ jobs' = {j \in jobs : j.in # job.in}
  BY <1>0 DEF OrphanEnds, AJob, Containers
<1>2. CASE Job(job.in, TRUE) \in jobs
  <2>1. inst' = [inst EXCEPT ![id] = Outcome(id, "transient")]
    BY <1>2 DEF OrphanEnds
  <2>2. Live(id) /\ Extracting(id) /\ job.in = ContainerOf(id)
    BY <1>0, <1>2 DEF JobKept, Job, Extracting
  <2>3. PICK status \in Statuses \ {"none"}, left \in SUBSET Nat, again \in BOOLEAN,
            attempt \in Nat, at \in Ats :
           Going(id, "transient", status, left, again, attempt, at)
    <3>1. "transient" \in Outcomes
      BY DEF Outcomes
    <3> QED BY <1>1, <2>1, <2>2, <3>1, OutcomeGoesOn
  <2>4. Runs(id, status, left, again, attempt, at) /\ GoesOn(id, left, again, attempt)
        /\ left \subseteq inst[id].left /\ (at = "asleep" => ~again)
    BY <2>3 DEF Going
  <2>5. \A j \in jobs : j = Job(ContainerOf(id), TRUE) \/ JobKept(j)'
    BY <1>1, <2>2, <2>4, OneAwaited
  <2>6. StepsOwn'
    BY <1>1, <2>4, MovedInst
  <2>7. \A j \in jobs' : j # Job(ContainerOf(id), TRUE) /\ j \in jobs
    BY <1>1, <2>2 DEF Job
  <2>8. inst' \in [Id -> Instance]
    BY <2>4 DEF Runs
  <2>9. JobsKept'
    BY <2>5, <2>7 DEF JobsKept
  <2>10. UnitTypes'
    BY <1>1, <2>8 DEF UnitTypes
  <2> QED BY <1>1, <2>1, <2>2, <2>6, <2>9, <2>10 DEF UnitKept
<1>3. CASE Job(job.in, TRUE) \notin jobs
  <2>1. UNCHANGED inst
    BY <1>3 DEF OrphanEnds
  <2>2. UnitTypes' /\ StepsOwn'
    BY <1>1, <2>1 DEF UnitTypes, StepsOwn
  <2>3. \A j \in jobs : JobKept(j)'
    BY <1>0, <2>1 DEF JobKept, Extracting, Live, AtLastStep, ContainerOf, StepOf
  <2> QED BY <1>1, <2>1, <2>2, <2>3 DEF UnitKept, JobsKept
<1> QED BY <1>2, <1>3

-----------------------------------------------------------------------------
(* How checks move. *)

(* The check of slot k alone changed, to this. *)
ChecksTo(k, at, seen, plan, restart, fresh) ==
  /\ check' \in [Slots -> Checking]
  /\ \A l \in Slots : l # k => check'[l] = check[l]
  /\ check'[k].at = at /\ check'[k].seen = seen /\ check'[k].plan = plan
  /\ check'[k].restart = restart /\ check'[k].fresh = fresh

LEMMA SetCheck ==
  ASSUME CheckTypes, NEW k \in Slots, NEW c \in Checking, check' = [check EXCEPT ![k] = c]
  PROVE  ChecksTo(k, c.at, c.seen, c.plan, c.restart, c.fresh) /\ check'[k] = c
  BY DEF CheckTypes, ChecksTo

LEMMA EmptyPlan == <<>> \in Plans /\ DOMAIN <<>> = {} /\ NoCheck \in Checking
<1>1. DOMAIN <<>> = {}
  OBVIOUS
<1> QED BY <1>1 DEF Plans, NoCheck, Checking

LEMMA PlanOf ==
  ASSUME NEW record \in [Builds -> Record], NEW phones \in [Builds -> SUBSET Phones], NEW only
  PROVE  /\ Plan(record, phones, only) \in Plans
         /\ DOMAIN Plan(record, phones, only) = Planned(record, phones, only)
         /\ Planned(record, phones, only) \subseteq DOMAIN BuildOrder
         /\ \A n \in Planned(record, phones, only) :
              /\ BuildOrder[n] \in Builds /\ FeedOf(BuildOrder[n]) = feed /\ BuildOrder[n] \in only
              /\ Lacks(BuildOrder[n], record[BuildOrder[n]], phones[BuildOrder[n]])
              /\ Plan(record, phones, only)[n].id = InstanceId(BuildOrder[n], record[BuildOrder[n]])
              /\ Plan(record, phones, only)[n].phones = phones[BuildOrder[n]]
              /\ Plan(record, phones, only)[n] \in Run
         /\ \A n \in DOMAIN BuildOrder :
              /\ BuildOrder[n] \in Builds
              /\ FeedOf(BuildOrder[n]) = feed /\ BuildOrder[n] \in only
              /\ Lacks(BuildOrder[n], record[BuildOrder[n]], phones[BuildOrder[n]])
              => n \in Planned(record, phones, only)
<1> DEFINE D == Planned(record, phones, only)
           p == Plan(record, phones, only)
<1>1. D \subseteq DOMAIN BuildOrder
  BY DEF Planned
<1>2. \A n \in DOMAIN BuildOrder : BuildOrder[n] \in Builds
  BY ChecksAssumption
<1>3. \A n \in D : /\ BuildOrder[n] \in Builds /\ FeedOf(BuildOrder[n]) = feed /\ BuildOrder[n] \in only
                   /\ Lacks(BuildOrder[n], record[BuildOrder[n]], phones[BuildOrder[n]])
  BY <1>2 DEF Planned
<1>4. \A b \in Builds : InstanceId(b, record[b]) \in Id
  BY DEF InstanceId, Id, Builds, Record
<1>5. p = [n \in D |-> [id |-> InstanceId(BuildOrder[n], record[BuildOrder[n]]),
                         phones |-> phones[BuildOrder[n]]]]
  BY DEF Plan
<1>6. \A n \in D : [id |-> InstanceId(BuildOrder[n], record[BuildOrder[n]]),
                     phones |-> phones[BuildOrder[n]]] \in Run
  BY <1>3, <1>4 DEF Run
<1>7. \A n \in DOMAIN BuildOrder :
        /\ FeedOf(BuildOrder[n]) = feed /\ BuildOrder[n] \in only
        /\ Lacks(BuildOrder[n], record[BuildOrder[n]], phones[BuildOrder[n]])
        => n \in D
  BY DEF Planned
<1>. HIDE DEF D, p
<1>8. p \in [D -> Run]
  BY <1>5, <1>6
<1>9. p \in Plans
  BY <1>1, <1>8 DEF Plans
<1>10. \A n \in D : /\ p[n].id = InstanceId(BuildOrder[n], record[BuildOrder[n]])
                    /\ p[n].phones = phones[BuildOrder[n]] /\ p[n] \in Run
  BY <1>5, <1>6
<1>11. DOMAIN p = D
  BY <1>5
<1> QED BY <1>1, <1>2, <1>3, <1>7, <1>9, <1>10, <1>11 DEF D, p

LEMMA PlanTyped ==
  ASSUME NEW p \in Plans
  PROVE  DOMAIN p \subseteq DOMAIN BuildOrder /\ \A n \in DOMAIN p : p[n] \in Run
  BY EmptyPlan DEF Plans

LEMMA DecideOfPlan ==
  ASSUME NEW runs, NEW rebuild, NEW room
  PROVE  /\ Decide(runs, rebuild, room).fresh \subseteq
              {n \in DOMAIN runs : inst[runs[n].id].status = "none"}
         /\ Decide(runs, rebuild, room).restart \subseteq
              {n \in DOMAIN runs : ToRestart(inst[runs[n].id].status, rebuild)}
  BY DEF Decide, First

(* An instance created or started again. *)
Begun(i, id, phones) ==
  /\ i \in Instance /\ i.status = "running" /\ i.phones = phones
  /\ i.left = StepsLeft(BuildOf(id), phones) /\ i.left \subseteq DOMAIN StepsOf(BuildOf(id))
  /\ i.again = FALSE /\ i.at = "ready" /\ i.attempt = 1

LEMMA NewRunTyped ==
  ASSUME NEW id \in Id, NEW phones \in SUBSET Phones
  PROVE  /\ Begun(NewRun(id, phones, FALSE), id, phones)
         /\ Begun(NewRun(id, phones, TRUE), id, phones) /\ NewRun(id, phones, TRUE).restarted
<1>1. StepsLeft(BuildOf(id), phones) \subseteq DOMAIN StepsOf(BuildOf(id))
      /\ DOMAIN StepsOf(BuildOf(id)) \subseteq Nat
  BY IdOfBuild, StepsTyped DEF StepsLeft
<1> QED BY <1>1 DEF NewRun, NoInstance, Instance, Statuses, Begun

SameAsk(k) == check'[k].rebuild = check[k].rebuild /\ check'[k].only = check[k].only

ReadOf == IF feed = "ios-build" THEN held ELSE listed

PlanOfCheck(k) ==
  IF feed = "ios-build" THEN Plan(check[k].seen, listed, check[k].only)
                        ELSE Plan(held, check[k].seen, check[k].only)

DecisionOf(k) == Decide(check[k].plan, check[k].rebuild, Share[feed])

LEMMA CheckMoves ==
  ASSUME UnitTypes, CheckTypes, PlansPlaced, NEW k \in Slots, NEW c, c = check[k]
  PROVE  /\ ReadFirst(k) => ChecksTo(k, "asked", ReadOf, c.plan, c.restart, c.fresh) /\ SameAsk(k)
         /\ PlanRuns(k) => ChecksTo(k, "planned", <<>>, PlanOfCheck(k), c.restart, c.fresh) /\ SameAsk(k)
         /\ ReadStatuses(k) =>
              ChecksTo(k, "decided", c.seen, c.plan, DecisionOf(k).restart, DecisionOf(k).fresh) /\ SameAsk(k)
         /\ CreateBatch(k) => ChecksTo(k, "created", c.seen, c.plan, c.restart, {}) /\ SameAsk(k)
         /\ Restart(k) => /\ ChecksTo(k, "created", c.seen, c.plan, c.restart \ {Min(c.restart)}, c.fresh)
                          /\ SameAsk(k)
         /\ Ended(k) => check' = [check EXCEPT ![k] = NoCheck] /\ ChecksTo(k, "none", <<>>, <<>>, {}, {})
<1>0. c \in Checking /\ c.plan \in Plans /\ held \in [Builds -> Record] /\ listed \in [Builds -> SUBSET Phones]
  BY DEF CheckTypes, UnitTypes, Checking
<1>1. ASSUME ReadFirst(k)
      PROVE  ChecksTo(k, "asked", ReadOf, c.plan, c.restart, c.fresh) /\ SameAsk(k)
  <2> DEFINE j == [c EXCEPT !.at = "asked", !.seen = ReadOf]
  <2>1. j \in Checking /\ j.at = "asked" /\ j.seen = ReadOf /\ j.plan = c.plan /\ j.restart = c.restart
        /\ j.fresh = c.fresh /\ j.rebuild = c.rebuild /\ j.only = c.only
    BY <1>0 DEF Checking, ReadOf
  <2>2. check' = [check EXCEPT ![k] = j]
    BY <1>1 DEF ReadFirst, ReadOf
  <2>. HIDE DEF j
  <2> QED BY <2>1, <2>2, SetCheck DEF SameAsk
<1>2. ASSUME PlanRuns(k)
      PROVE  ChecksTo(k, "planned", <<>>, PlanOfCheck(k), c.restart, c.fresh) /\ SameAsk(k)
  <2>0. PICK runs : runs = PlanOfCheck(k)
    OBVIOUS
  <2> DEFINE j == [c EXCEPT !.at = "planned", !.plan = runs, !.seen = <<>>]
  <2>1. runs \in Plans
    <3>1. c.at = "asked"
      BY <1>2 DEF PlanRuns
    <3>2. c.seen \in IF feed = "ios-build" THEN [Builds -> Record] ELSE [Builds -> SUBSET Phones]
      BY <3>1 DEF CheckTypes
    <3> QED BY <1>0, <2>0, <3>2, PlanOf DEF PlanOfCheck
  <2>2. j \in Checking /\ j.at = "planned" /\ j.seen = <<>> /\ j.plan = runs /\ j.restart = c.restart
        /\ j.fresh = c.fresh /\ j.rebuild = c.rebuild /\ j.only = c.only
    BY <1>0, <2>1 DEF Checking
  <2>3. check' = [check EXCEPT ![k] = j]
    BY <1>2, <2>0 DEF PlanRuns, PlanOfCheck
  <2>. HIDE DEF j
  <2>4. ChecksTo(k, j.at, j.seen, j.plan, j.restart, j.fresh) /\ check'[k] = j
    BY <2>2, <2>3, SetCheck
  <2> QED BY <2>0, <2>2, <2>4 DEF SameAsk
<1>3. ASSUME ReadStatuses(k)
      PROVE  ChecksTo(k, "decided", c.seen, c.plan, DecisionOf(k).restart, DecisionOf(k).fresh) /\ SameAsk(k)
  <2>0. PICK d : d = DecisionOf(k)
    OBVIOUS
  <2> DEFINE j == [c EXCEPT !.at = "decided", !.fresh = d.fresh, !.restart = d.restart]
  <2>1. d.fresh \subseteq DOMAIN c.plan /\ d.restart \subseteq DOMAIN c.plan /\ DOMAIN c.plan \subseteq Nat
    BY <1>0, <2>0, DecideOfPlan, PlanTyped, ChecksAssumption DEF DecisionOf
  <2>2. j \in Checking /\ j.at = "decided" /\ j.seen = c.seen /\ j.plan = c.plan /\ j.restart = d.restart
        /\ j.fresh = d.fresh /\ j.rebuild = c.rebuild /\ j.only = c.only
    BY <1>0, <2>1 DEF Checking
  <2>3. check' = [check EXCEPT ![k] = j]
    BY <1>3, <2>0 DEF ReadStatuses, DecisionOf
  <2>. HIDE DEF j
  <2> QED BY <2>0, <2>2, <2>3, SetCheck DEF SameAsk
<1>4. ASSUME CreateBatch(k)
      PROVE  ChecksTo(k, "created", c.seen, c.plan, c.restart, {}) /\ SameAsk(k)
  <2> DEFINE j == [c EXCEPT !.at = "created", !.fresh = {}]
  <2>1. j \in Checking /\ j.at = "created" /\ j.seen = c.seen /\ j.plan = c.plan /\ j.restart = c.restart
        /\ j.fresh = {} /\ j.rebuild = c.rebuild /\ j.only = c.only
    BY <1>0 DEF Checking
  <2>2. check' = [check EXCEPT ![k] = j]
    BY <1>4 DEF CreateBatch
  <2>. HIDE DEF j
  <2> QED BY <2>1, <2>2, SetCheck DEF SameAsk
<1>5. ASSUME Restart(k)
      PROVE  ChecksTo(k, "created", c.seen, c.plan, c.restart \ {Min(c.restart)}, c.fresh) /\ SameAsk(k)
  <2> DEFINE j == [c EXCEPT !.restart = c.restart \ {Min(c.restart)}]
  <2>1. j \in Checking /\ j.at = c.at /\ j.seen = c.seen /\ j.plan = c.plan
        /\ j.restart = c.restart \ {Min(c.restart)}
        /\ j.fresh = c.fresh /\ j.rebuild = c.rebuild /\ j.only = c.only
    BY <1>0 DEF Checking
  <2>2. check' = [check EXCEPT ![k] = j] /\ c.at = "created"
    BY <1>5 DEF Restart
  <2>3. j.at = "created"
    BY <2>1, <2>2
  <2>. HIDE DEF j
  <2> QED BY <2>1, <2>2, <2>3, SetCheck DEF SameAsk
<1>6. ASSUME Ended(k)
      PROVE  check' = [check EXCEPT ![k] = NoCheck] /\ ChecksTo(k, "none", <<>>, <<>>, {}, {})
  <2>1. NoCheck.at = "none" /\ NoCheck.seen = <<>> /\ NoCheck.plan = <<>> /\ NoCheck.restart = {}
        /\ NoCheck.fresh = {}
    BY DEF NoCheck
  <2> QED BY <1>6, <2>1, EmptyPlan, SetCheck DEF Ended
<1> QED BY <1>1, <1>2, <1>3, <1>4, <1>5, <1>6

(* A check's step that fails leaves it earlier, with its plan, or ends it. *)
Retried(k) ==
  /\ check[k].at # "none"
  /\ \/ ChecksTo(k, "new", <<>>, check[k].plan, {}, {})
     \/ check[k].at = "asked" /\ ChecksTo(k, "asked", check[k].seen, check[k].plan, {}, {})
     \/ /\ check[k].at \in {"planned", "decided", "created"}
        /\ ChecksTo(k, "planned", check[k].seen, check[k].plan, {}, {})

LEMMA FailedCheck ==
  ASSUME UnitTypes, CheckTypes, PlansPlaced, NEW k \in Slots, CheckFails(k)
  PROVE  /\ UNCHANGED <<held, inst, jobs, late, feed, listed, dropped, asker>> /\ Fault
         /\ (Retried(k) /\ SameAsk(k) /\ UNCHANGED recorded) \/ Ended(k)
<1> DEFINE c == check[k]
           at == RetryFrom(c.at)
           j == [c EXCEPT !.at = at, !.seen = IF at = "new" THEN <<>> ELSE c.seen,
                          !.fresh = {}, !.restart = {}]
<1>0. c \in Checking /\ c.at # "none"
  BY DEF CheckTypes, CheckFails, CheckLive
<1>1. UNCHANGED <<held, inst, jobs, late, feed, listed, dropped, asker>> /\ Fault
      /\ ((check' = [check EXCEPT ![k] = j] /\ UNCHANGED recorded) \/ Ended(k))
  BY DEF CheckFails
<1>2. ASSUME check' = [check EXCEPT ![k] = j] PROVE Retried(k) /\ SameAsk(k)
  <2>1. \/ at = "new"
        \/ at = "asked" /\ c.at = "asked"
        \/ at = "planned" /\ c.at \in {"planned", "decided", "created"}
    BY <1>0 DEF RetryFrom, Checking
  <2>2. j \in Checking /\ j.at = at /\ j.seen = (IF at = "new" THEN <<>> ELSE c.seen) /\ j.plan = c.plan
        /\ j.restart = {} /\ j.fresh = {} /\ j.rebuild = c.rebuild /\ j.only = c.only
    BY <1>0, <2>1 DEF Checking
  <2>3. c = check[k]
    OBVIOUS
  <2>. HIDE DEF j, at, c
  <2>4. ChecksTo(k, j.at, j.seen, j.plan, j.restart, j.fresh) /\ SameAsk(k)
    BY <1>2, <2>2, <2>3, SetCheck DEF SameAsk
  <2> QED BY <1>0, <2>1, <2>2, <2>3, <2>4 DEF Retried
<1> QED BY <1>1, <1>2

(* createBatch creates what it is asked for that has no instance. *)
LEMMA BatchMoves ==
  ASSUME UnitTypes, CheckTypes, PlansPlaced, NEW k \in Slots, CreateBatch(k)
  PROVE  /\ inst' \in [Id -> Instance] /\ UNCHANGED <<held, jobs, faults, late, feed, listed, dropped, recorded, asker>>
         /\ \A id \in Id : inst'[id] # inst[id] =>
              /\ inst[id].status = "none"
              /\ \E n \in check[k].fresh :
                   /\ n \in DOMAIN check[k].plan /\ check[k].plan[n].id = id
                   /\ check[k].plan[n].phones \in SUBSET Phones
                   /\ inst'[id] = NewRun(id, check[k].plan[n].phones, FALSE)
<1> DEFINE p == check[k].plan
           named(id) == {n \in check[k].fresh : p[n].id = id}
<1>0. p \in Plans /\ check[k].fresh \subseteq DOMAIN p /\ inst \in [Id -> Instance]
  BY DEF CheckTypes, Checking, PlansPlaced, UnitTypes
<1>1. inst' = [id \in Id |->
                  IF inst[id].status = "none" /\ named(id) # {}
                  THEN NewRun(id, p[CHOOSE n \in named(id) : TRUE].phones, FALSE)
                  ELSE inst[id]]
      /\ UNCHANGED <<held, jobs, faults, late, feed, listed, dropped, recorded, asker>>
  BY DEF CreateBatch
<1>2. ASSUME NEW id \in Id, named(id) # {}
      PROVE  \E n \in check[k].fresh :
               /\ n \in DOMAIN p /\ p[n].id = id /\ p[n].phones \in SUBSET Phones
               /\ n = CHOOSE m \in named(id) : TRUE
  <2>1. (CHOOSE m \in named(id) : TRUE) \in named(id)
    BY <1>2
  <2>2. \A n \in DOMAIN p : p[n].phones \in SUBSET Phones
    BY <1>0, PlanTyped DEF Run
  <2> QED BY <1>0, <2>1, <2>2
<1>. HIDE DEF named
<1>3. ASSUME NEW id \in Id
      PROVE  /\ inst'[id] \in Instance
             /\ inst'[id] # inst[id] =>
                  /\ inst[id].status = "none"
                  /\ \E n \in check[k].fresh :
                       /\ n \in DOMAIN p /\ p[n].id = id
                       /\ p[n].phones \in SUBSET Phones
                       /\ inst'[id] = NewRun(id, p[n].phones, FALSE)
  <2>1. CASE inst[id].status = "none" /\ named(id) # {}
    <3>1. PICK n \in check[k].fresh :
               /\ n \in DOMAIN p /\ p[n].id = id /\ p[n].phones \in SUBSET Phones
               /\ n = CHOOSE m \in named(id) : TRUE
      BY <1>2, <2>1
    <3>2. inst'[id] = NewRun(id, p[n].phones, FALSE)
      BY <1>1, <2>1, <3>1
    <3>3. NewRun(id, p[n].phones, FALSE) \in Instance
      BY <3>1, NewRunTyped DEF Begun
    <3> QED BY <2>1, <3>1, <3>2, <3>3
  <2>2. CASE ~(inst[id].status = "none" /\ named(id) # {})
    BY <1>0, <1>1, <2>2
  <2> QED BY <2>1, <2>2
<1>4. inst' \in [Id -> Instance]
  BY <1>1, <1>3
<1> QED BY <1>1, <1>3, <1>4

LEMMA RestartMoves ==
  ASSUME UnitTypes, CheckTypes, PlansPlaced, NEW k \in Slots, Restart(k)
  PROVE  /\ UNCHANGED <<held, faults, late, feed, listed, dropped, recorded, asker>>
         /\ Min(check[k].restart) \in check[k].restart
         /\ check[k].at = "created"
         /\ LET id == check[k].plan[Min(check[k].restart)].id
                left == {j \in jobs : j.in[1] = id /\ j.awaited} IN
            /\ id \in Id
            /\ inst' \in [Id -> Instance]
            /\ \A x \in Id : x # id => inst'[x] = inst[x]
            /\ inst'[id] = NewRun(id, inst[id].phones, TRUE) /\ inst[id].phones \in SUBSET Phones
            /\ jobs' = (jobs \ left) \cup {Job(j.in, FALSE) : j \in left}
<1> DEFINE n == Min(check[k].restart)
           id == check[k].plan[n].id
<1>0. check[k].plan \in Plans /\ check[k].restart \subseteq DOMAIN check[k].plan
      /\ check[k].restart \subseteq Nat /\ check[k].restart # {} /\ inst \in [Id -> Instance]
  BY DEF CheckTypes, Checking, PlansPlaced, UnitTypes, Restart
<1>1. n \in check[k].restart
  BY <1>0, MinIsLeast
<1>2. id \in Id
  BY <1>0, <1>1, PlanTyped DEF Run
<1>3. inst[id].phones \in SUBSET Phones
  BY <1>0, <1>2 DEF Instance
<1>4. /\ inst' = [inst EXCEPT ![id] = NewRun(id, inst[id].phones, TRUE)]
      /\ jobs' = (jobs \ {j \in jobs : j.in[1] = id /\ j.awaited})
                   \cup {Job(j.in, FALSE) : j \in {j \in jobs : j.in[1] = id /\ j.awaited}}
      /\ UNCHANGED <<held, faults, late, feed, listed, dropped, recorded, asker>> /\ check[k].at = "created"
  BY DEF Restart
<1>5. NewRun(id, inst[id].phones, TRUE) \in Instance
  BY <1>2, <1>3, NewRunTyped DEF Begun
<1>. HIDE DEF n, id
<1>6. /\ inst' \in [Id -> Instance] /\ \A x \in Id : x # id => inst'[x] = inst[x]
      /\ inst'[id] = NewRun(id, inst[id].phones, TRUE)
  BY <1>0, <1>2, <1>4, <1>5
<1> QED BY <1>1, <1>2, <1>3, <1>4, <1>6 DEF id, n

-----------------------------------------------------------------------------
(* Each step of a check and of an asker keeps UnitInv. *)

SeenTyped(k) ==
  check[k].at = "asked" =>
    check[k].seen \in IF feed = "ios-build" THEN [Builds -> Record] ELSE [Builds -> SUBSET Phones]

PlacedIn(plan) ==
  \A n \in DOMAIN plan :
    n \in DOMAIN BuildOrder /\ \E record \in Record : plan[n].id = InstanceId(BuildOrder[n], record)

LEMMA UnitsStay ==
  ASSUME UnitInv, UNCHANGED <<held, inst, jobs>>, faults' \in 0 .. MaxFaults
  PROVE  UnitKept
<1>1. UnitTypes' /\ StepsOwn'
  BY DEF UnitInv, UnitTypes, StepsOwn
<1>2. \A j \in jobs : JobKept(j)'
  BY DEF UnitInv, JobsKept, JobKept, Extracting, Live, AtLastStep, ContainerOf, StepOf
<1> QED BY <1>1, <1>2 DEF UnitKept, JobsKept

LEMMA CheckKept ==
  ASSUME UnitInv, UNCHANGED feed, NEW k \in Slots, NEW at, NEW seen, NEW plan, NEW restart, NEW fresh,
         ChecksTo(k, at, seen, plan, restart, fresh), fresh \cup restart \subseteq DOMAIN plan, PlacedIn(plan),
         at # "decided" => fresh = {}, at \notin {"decided", "created"} => restart = {},
         at = "asked" =>
           seen \in IF feed = "ios-build" THEN [Builds -> Record] ELSE [Builds -> SUBSET Phones]
  PROVE  /\ check' \in [Slots -> Checking] /\ PlansPlaced'
         /\ \A l \in Slots : SeenTyped(l)'
<1>1. check' \in [Slots -> Checking]
  BY DEF ChecksTo
<1>2. \A l \in Slots : SeenTyped(l)'
  BY DEF ChecksTo, SeenTyped, UnitInv, CheckTypes
<1>3. PlansPlaced'
  BY DEF ChecksTo, PlansPlaced, PlacedIn, UnitInv
<1> QED BY <1>1, <1>2, <1>3

LEMMA AskerTyped ==
  ASSUME CheckTypes, NEW a \in Askers
  PROVE  /\ asker[a].at = "asking" => asker[a].rebuild \in BOOLEAN /\ asker[a].only \in SUBSET Builds
         /\ asker[a].at = "created" =>
              asker[a].slot \in Slots /\ asker[a] = [at |-> "created", slot |-> asker[a].slot]
  BY DEF CheckTypes, Asking

LEMMA AskerStepKeeps ==
  ASSUME UnitInv
  PROVE  /\ \A b \in Builds, p \in Phones : List(b, p) \/ Delist(b, p) => UnitInv'
         /\ \A a \in Askers, rebuild \in Rebuilds, only \in Onlys : Ask(a, rebuild, only) => UnitInv'
         /\ \A a \in Askers, k \in Slots : CreateCheck(a, k) => UnitInv'
         /\ \A a \in Askers : RecordCheck(a) => UnitInv'
<1>0. faults \in 0 .. MaxFaults /\ CheckTypes /\ UnitTypes
  BY DEF UnitInv, UnitTypes
<1>1. ASSUME NEW b \in Builds, NEW p \in Phones, List(b, p) \/ Delist(b, p) PROVE UnitInv'
  <2>1. /\ UNCHANGED <<held, inst, jobs, feed, check, recorded, asker>> /\ faults' \in 0 .. MaxFaults
        /\ \E phones \in SUBSET Phones : listed' = [listed EXCEPT ![b] = phones]
    <3>1. CASE List(b, p)
      <4>1. UNCHANGED <<held, inst, jobs, faults, feed, check, recorded, asker>>
            /\ listed' = [listed EXCEPT ![b] = listed[b] \cup {p}]
        BY <3>1 DEF List, unitVars
      <4>2. listed[b] \cup {p} \in SUBSET Phones
        BY <1>0 DEF CheckTypes
      <4> QED BY <1>0, <4>1, <4>2
    <3>2. CASE Delist(b, p)
      <4>1. UNCHANGED <<held, inst, jobs, feed, check, recorded, asker>> /\ Fault
            /\ listed' = [listed EXCEPT ![b] = listed[b] \ {p}]
        BY <3>2 DEF Delist
      <4>2. listed[b] \ {p} \in SUBSET Phones
        BY <1>0 DEF CheckTypes
      <4>3. faults' \in 0 .. MaxFaults
        BY <1>0, <4>1, FaultTyped
      <4> QED BY <4>1, <4>2, <4>3
    <3> QED BY <1>1, <3>1, <3>2
  <2>2. UnitKept
    BY <1>0, <2>1, UnitsStay
  <2>3. listed' \in [Builds -> SUBSET Phones]
    BY <1>0, <2>1 DEF CheckTypes
  <2>4. CheckTypes'
    BY <1>0, <2>1, <2>3 DEF CheckTypes
  <2>5. PlansPlaced'
    BY <2>1 DEF UnitInv, PlansPlaced
  <2> QED BY <2>2, <2>4, <2>5 DEF UnitInv, UnitKept
<1>2. ASSUME NEW a \in Askers, NEW rebuild \in Rebuilds, NEW only \in Onlys, Ask(a, rebuild, only)
      PROVE  UnitInv'
  <2>1. UNCHANGED <<held, inst, jobs, faults, feed, listed, check, recorded>>
        /\ asker' = [asker EXCEPT ![a] = [at |-> "asking", rebuild |-> rebuild, only |-> only]]
    BY <1>2 DEF Ask, unitVars
  <2>2. UnitKept
    BY <1>0, <2>1, UnitsStay
  <2>3. [at |-> "asking", rebuild |-> rebuild, only |-> only] \in Asking
    BY ChecksAssumption DEF Asking
  <2>4. asker' \in [Askers -> Asking]
    BY <1>0, <2>1, <2>3 DEF CheckTypes
  <2>5. CheckTypes'
    BY <1>0, <2>1, <2>4 DEF CheckTypes
  <2>6. PlansPlaced'
    BY <2>1 DEF UnitInv, PlansPlaced
  <2> QED BY <2>2, <2>5, <2>6 DEF UnitInv, UnitKept
<1>3. ASSUME NEW a \in Askers, NEW k \in Slots, CreateCheck(a, k) PROVE UnitInv'
  <2> DEFINE c == NewCheck(asker[a].rebuild, asker[a].only)
  <2>1. UNCHANGED <<held, inst, jobs, faults, feed, listed, recorded>> /\ check' = [check EXCEPT ![k] = c]
        /\ asker' = [asker EXCEPT ![a] = [at |-> "created", slot |-> k]] /\ asker[a].at = "asking"
    BY <1>3 DEF CreateCheck, unitVars
  <2>2. UnitKept
    BY <1>0, <2>1, UnitsStay
  <2>3. c \in Checking /\ c.at = "new" /\ c.plan = <<>> /\ c.restart = {} /\ c.fresh = {}
    BY <1>0, <2>1, AskerTyped, EmptyPlan DEF NewCheck, NoCheck, Checking
  <2>. HIDE DEF c
  <2>4. ChecksTo(k, "new", c.seen, <<>>, {}, {})
    BY <1>0, <2>1, <2>3, SetCheck
  <2>5. PlacedIn(<<>>) /\ {} \cup {} \subseteq DOMAIN <<>>
    BY EmptyPlan DEF PlacedIn
  <2>6. check' \in [Slots -> Checking] /\ PlansPlaced' /\ \A l \in Slots : SeenTyped(l)'
    BY <2>1, <2>4, <2>5, CheckKept
  <2>7. asker' \in [Askers -> Asking]
    <3>1. [at |-> "created", slot |-> k] \in Asking
      BY DEF Asking
    <3> QED BY <1>0, <2>1, <3>1 DEF CheckTypes
  <2>8. CheckTypes'
    BY <1>0, <2>1, <2>6, <2>7 DEF CheckTypes, SeenTyped
  <2> QED BY <2>2, <2>6, <2>8 DEF UnitInv, UnitKept
<1>4. ASSUME NEW a \in Askers, RecordCheck(a) PROVE UnitInv'
  <2>1. UNCHANGED <<held, inst, jobs, faults, feed, listed, check>> /\ asker[a].at = "created"
        /\ recorded' \in {asker[a].slot, 0} /\ asker' = [asker EXCEPT ![a] = [at |-> "idle"]]
    BY <1>4 DEF RecordCheck, unitVars
  <2>2. UnitKept
    BY <1>0, <2>1, UnitsStay
  <2>3. recorded' \in 0 .. CheckSlots
    <3>1. asker[a].slot \in Slots
      BY <1>0, <2>1, AskerTyped
    <3>2. asker[a].slot \in 0 .. CheckSlots /\ 0 \in 0 .. CheckSlots
      BY <3>1, ChecksAssumption DEF Slots
    <3> QED BY <2>1, <3>2
  <2>4. asker' \in [Askers -> Asking]
    <3>1. [at |-> "idle"] \in Asking
      BY DEF Asking
    <3> QED BY <1>0, <2>1, <3>1 DEF CheckTypes
  <2>5. CheckTypes'
    BY <1>0, <2>1, <2>3, <2>4 DEF CheckTypes
  <2>6. PlansPlaced'
    BY <2>1 DEF UnitInv, PlansPlaced
  <2> QED BY <2>2, <2>5, <2>6 DEF UnitInv, UnitKept
<1> QED BY <1>1, <1>2, <1>3, <1>4

LEMMA CheckStepKeeps ==
  ASSUME UnitInv, NEW k \in Slots, CheckStep(k) \/ CheckFails(k)
  PROVE  UnitInv'
<1> DEFINE c == check[k]
<1>0. /\ faults \in 0 .. MaxFaults /\ CheckTypes /\ UnitTypes /\ StepsOwn /\ JobsKept /\ PlansPlaced
      /\ held \in [Builds -> Record] /\ listed \in [Builds -> SUBSET Phones] /\ c.plan \in Plans
      /\ c \in Checking /\ recorded \in 0 .. CheckSlots
  BY DEF UnitInv, UnitTypes, CheckTypes, Checking
<1>1. /\ c.fresh \cup c.restart \subseteq DOMAIN c.plan /\ PlacedIn(c.plan) /\ SeenTyped(k)
      /\ (c.at # "decided" => c.fresh = {}) /\ (c.at \notin {"decided", "created"} => c.restart = {})
  BY <1>0 DEF PlansPlaced, PlacedIn, CheckTypes, SeenTyped
<1>2. ASSUME UNCHANGED <<feed, listed>>, check' \in [Slots -> Checking], \A l \in Slots : SeenTyped(l)',
             recorded' \in 0 .. CheckSlots, UNCHANGED asker
      PROVE  CheckTypes'
  BY <1>0, <1>2 DEF CheckTypes, SeenTyped
<1>. HIDE DEF c
<1>3. c = check[k]
  BY DEF c
<1>4. ASSUME ReadFirst(k) PROVE UnitInv'
  <2>1. UNCHANGED <<held, inst, jobs, faults, feed, listed, recorded, asker>> /\ c.at = "new"
    BY <1>3, <1>4 DEF ReadFirst, unitVars
  <2>2. ChecksTo(k, "asked", ReadOf, c.plan, c.restart, c.fresh)
    BY <1>0, <1>3, <1>4, CheckMoves
  <2>3. ReadOf \in IF feed = "ios-build" THEN [Builds -> Record] ELSE [Builds -> SUBSET Phones]
    BY <1>0 DEF ReadOf
  <2>4. check' \in [Slots -> Checking] /\ PlansPlaced' /\ \A l \in Slots : SeenTyped(l)'
    BY <1>1, <2>1, <2>2, <2>3, CheckKept
  <2> QED BY <1>0, <1>2, <2>1, <2>4, UnitsStay DEF UnitInv, UnitKept
<1>5. ASSUME PlanRuns(k) PROVE UnitInv'
  <2>1. UNCHANGED <<held, inst, jobs, faults, feed, listed, recorded, asker>> /\ c.at = "asked"
    BY <1>3, <1>5 DEF PlanRuns, unitVars
  <2>0. c.restart = {} /\ c.fresh = {}
    BY <1>1, <2>1
  <2>2. ChecksTo(k, "planned", <<>>, PlanOfCheck(k), {}, {})
    <3>1. ChecksTo(k, "planned", <<>>, PlanOfCheck(k), c.restart, c.fresh)
      BY <1>0, <1>3, <1>5, CheckMoves
    <3> QED BY <2>0, <3>1
  <2>3. c.seen \in IF feed = "ios-build" THEN [Builds -> Record] ELSE [Builds -> SUBSET Phones]
    BY <1>1, <1>3, <2>1 DEF SeenTyped
  <2>4. PlacedIn(PlanOfCheck(k))
    <3>1. CASE feed = "ios-build"
      <4>1. PlanOfCheck(k) = Plan(c.seen, listed, c.only) /\ c.seen \in [Builds -> Record]
        BY <1>3, <2>3, <3>1 DEF PlanOfCheck
      <4> QED BY <1>0, <4>1, PlanOf DEF PlacedIn
    <3>2. CASE feed # "ios-build"
      <4>1. PlanOfCheck(k) = Plan(held, c.seen, c.only) /\ c.seen \in [Builds -> SUBSET Phones]
        BY <1>3, <2>3, <3>2 DEF PlanOfCheck
      <4> QED BY <1>0, <4>1, PlanOf DEF PlacedIn
    <3> QED BY <3>1, <3>2
  <2>5. check' \in [Slots -> Checking] /\ PlansPlaced' /\ \A l \in Slots : SeenTyped(l)'
    BY <2>1, <2>2, <2>4, CheckKept
  <2> QED BY <1>0, <1>2, <2>1, <2>5, UnitsStay DEF UnitInv, UnitKept
<1>6. ASSUME ReadStatuses(k) PROVE UnitInv'
  <2>1. UNCHANGED <<held, inst, jobs, faults, feed, listed, recorded, asker>>
    BY <1>6 DEF ReadStatuses, unitVars
  <2>2. ChecksTo(k, "decided", c.seen, c.plan, DecisionOf(k).restart, DecisionOf(k).fresh)
    BY <1>0, <1>3, <1>6, CheckMoves
  <2>3. DecisionOf(k).fresh \cup DecisionOf(k).restart \subseteq DOMAIN c.plan
    BY <1>3, DecideOfPlan DEF DecisionOf
  <2>4. check' \in [Slots -> Checking] /\ PlansPlaced' /\ \A l \in Slots : SeenTyped(l)'
    BY <1>1, <2>1, <2>2, <2>3, CheckKept
  <2> QED BY <1>0, <1>2, <2>1, <2>4, UnitsStay DEF UnitInv, UnitKept
<1>7. ASSUME CreateBatch(k) PROVE UnitInv'
  <2>1. UNCHANGED <<held, jobs, faults, feed, listed, recorded, asker>> /\ inst' \in [Id -> Instance]
        /\ \A id \in Id : inst'[id] # inst[id] =>
             /\ inst[id].status = "none"
             /\ \E phones \in SUBSET Phones : inst'[id] = NewRun(id, phones, FALSE)
    BY <1>0, <1>7, BatchMoves
  <2>2. ChecksTo(k, "created", c.seen, c.plan, c.restart, {})
    BY <1>0, <1>3, <1>7, CheckMoves
  <2>3. check' \in [Slots -> Checking] /\ PlansPlaced' /\ \A l \in Slots : SeenTyped(l)'
    BY <1>1, <2>1, <2>2, CheckKept
  <2>4. UnitTypes'
    BY <1>0, <2>1 DEF UnitTypes
  <2>5. StepsOwn'
    <3> SUFFICES ASSUME NEW id \in Id
                 PROVE  /\ inst'[id].left \subseteq DOMAIN StepsOf(BuildOf(id))
                        /\ inst'[id].at = "asleep" => ~inst'[id].again
      BY DEF StepsOwn
    <3>1. CASE inst'[id] = inst[id]
      BY <1>0, <3>1 DEF StepsOwn
    <3>2. CASE inst'[id] # inst[id]
      <4>1. PICK phones \in SUBSET Phones : inst'[id] = NewRun(id, phones, FALSE)
        BY <2>1, <3>2
      <4>2. Begun(inst'[id], id, phones)
        BY <4>1, NewRunTyped
      <4> QED BY <4>2 DEF Begun
    <3> QED BY <3>1, <3>2
  <2>6. JobsKept'
    <3> SUFFICES ASSUME NEW j \in jobs PROVE JobKept(j)'
      BY <2>1 DEF JobsKept
    <3>1. JobKept(j) /\ j.in[1] \in Id
      BY <1>0 DEF JobsKept, UnitTypes, Containers
    <3>2. inst'[j.in[1]] = inst[j.in[1]]
      BY <2>1, <3>1 DEF JobKept
    <3> QED BY <3>1, <3>2 DEF JobKept, Extracting, Live, AtLastStep, ContainerOf, StepOf
  <2> QED BY <1>0, <1>2, <2>1, <2>3, <2>4, <2>5, <2>6 DEF UnitInv
<1>8. ASSUME Restart(k) PROVE UnitInv'
  <2> DEFINE n == Min(check[k].restart)
             id == check[k].plan[n].id
             left == {j \in jobs : j.in[1] = id /\ j.awaited}
  <2>1. /\ UNCHANGED <<held, faults, feed, listed, recorded, asker>>
        /\ n \in check[k].restart /\ id \in Id /\ inst' \in [Id -> Instance]
        /\ \A x \in Id : x # id => inst'[x] = inst[x]
        /\ inst'[id] = NewRun(id, inst[id].phones, TRUE) /\ inst[id].phones \in SUBSET Phones
        /\ jobs' = (jobs \ left) \cup {Job(j.in, FALSE) : j \in left} /\ check[k].at = "created"
    BY <1>0, <1>8, RestartMoves
  <2>2. ChecksTo(k, "created", c.seen, c.plan, c.restart \ {n}, c.fresh)
    BY <1>0, <1>3, <1>8, CheckMoves
  <2>. HIDE DEF n, id
  <2>4. Begun(inst'[id], id, inst[id].phones) /\ inst'[id].restarted
    BY <2>1, NewRunTyped
  <2>5. check' \in [Slots -> Checking] /\ PlansPlaced' /\ \A l \in Slots : SeenTyped(l)'
    BY <1>1, <1>3, <2>1, <2>2, CheckKept
  <2>6. StepsOwn'
    BY <1>0, <2>1, <2>4 DEF StepsOwn, Begun
  <2>7. \A j \in jobs' : j \in AJob /\ (j.in[1] = id => ~j.awaited)
                         /\ (j.in[1] # id => j \in jobs)
    <3>1. \A j \in jobs : j \in AJob /\ (j.awaited \/ ~j.awaited)
      BY <1>0 DEF UnitTypes, AJob
    <3>2. \A j \in left : Job(j.in, FALSE) \in AJob /\ Job(j.in, FALSE).in[1] = id
                         /\ ~Job(j.in, FALSE).awaited
      BY <3>1 DEF AJob, Job
    <3> QED BY <2>1, <3>1, <3>2
  <2>8. UnitTypes'
    BY <1>0, <2>1, <2>7 DEF UnitTypes, AJob
  <2>9. JobsKept'
    <3> SUFFICES ASSUME NEW j \in jobs' PROVE JobKept(j)'
      BY DEF JobsKept
    <3>1. CASE j.in[1] = id
      BY <2>4, <2>7, <3>1 DEF JobKept, Begun
    <3>2. CASE j.in[1] # id
      BY <1>0, <2>1, <2>7, <3>2, JobOfAnother DEF JobsKept
    <3> QED BY <3>1, <3>2
  <2> QED BY <1>0, <1>2, <2>1, <2>5, <2>6, <2>8, <2>9 DEF UnitInv
<1>9. ASSUME EndCheck(k) PROVE UnitInv'
  <2>1. UNCHANGED <<held, inst, jobs, faults, feed, listed, asker>> /\ Ended(k)
    BY <1>9 DEF EndCheck, unitVars
  <2>2. ChecksTo(k, "none", <<>>, <<>>, {}, {}) /\ recorded' \in {0, recorded}
    BY <1>0, <2>1, CheckMoves DEF Ended
  <2>3. PlacedIn(<<>>) /\ {} \cup {} \subseteq DOMAIN <<>>
    BY EmptyPlan DEF PlacedIn
  <2>4. check' \in [Slots -> Checking] /\ PlansPlaced' /\ \A l \in Slots : SeenTyped(l)'
    BY <2>1, <2>2, <2>3, CheckKept
  <2>5. recorded' \in 0 .. CheckSlots
    BY <1>0, <2>2, ChecksAssumption
  <2> QED BY <1>0, <1>2, <2>1, <2>4, <2>5, UnitsStay DEF UnitInv, UnitKept
<1>10. ASSUME CheckFails(k) PROVE UnitInv'
  <2>1. UNCHANGED <<held, inst, jobs, feed, listed, asker>> /\ faults' \in 0 .. MaxFaults
        /\ ((Retried(k) /\ UNCHANGED recorded) \/ Ended(k))
    BY <1>0, <1>10, FailedCheck, FaultTyped
  <2>2. PICK at, seen, plan : /\ ChecksTo(k, at, seen, plan, {}, {}) /\ PlacedIn(plan)
                              /\ (at = "asked" => seen = c.seen /\ c.at = "asked")
    <3>1. CASE Ended(k)
      <4>1. ChecksTo(k, "none", <<>>, <<>>, {}, {}) /\ PlacedIn(<<>>)
        BY <1>0, <3>1, CheckMoves, EmptyPlan DEF PlacedIn
      <4> QED BY <4>1
    <3>2. CASE Retried(k)
      BY <1>1, <1>3, <3>2 DEF Retried
    <3> QED BY <2>1, <3>1, <3>2
  <2>3. recorded' \in 0 .. CheckSlots
    BY <1>0, <2>1, ChecksAssumption DEF Ended
  <2>4. check' \in [Slots -> Checking] /\ PlansPlaced' /\ \A l \in Slots : SeenTyped(l)'
    BY <1>1, <1>3, <2>1, <2>2, CheckKept DEF SeenTyped
  <2> QED BY <1>0, <1>2, <2>1, <2>3, <2>4, UnitsStay DEF UnitInv, UnitKept
<1> QED BY <1>4, <1>5, <1>6, <1>7, <1>8, <1>9, <1>10 DEF CheckStep

-----------------------------------------------------------------------------
(* UnitInv holds from the start, whoever asks for checks. *)

LEMMA UnitsBegin == Init => UnitInv
<1> SUFFICES ASSUME Init PROVE UnitInv
  OBVIOUS
<1>1. /\ held = [b \in Builds |-> Nothing] /\ inst = [id \in Id |-> NoInstance] /\ jobs = {} /\ faults = 0
      /\ feed \in Feeds /\ listed = [b \in Builds |-> {}] /\ check = [k \in Slots |-> NoCheck]
      /\ recorded = 0 /\ asker = [a \in Askers |-> [at |-> "idle"]]
  BY DEF Init, InitUnits
<1>2. NoInstance \in Instance /\ NoInstance.left = {} /\ NoInstance.at = "ready"
  BY DEF NoInstance, Instance, Statuses
<1>3. UnitTypes
  BY <1>1, <1>2, UnitsAssumption DEF UnitTypes, Record
<1>4. NoCheck \in Checking /\ NoCheck.at = "none" /\ NoCheck.plan = <<>> /\ NoCheck.fresh = {}
      /\ NoCheck.restart = {} /\ DOMAIN <<>> = {}
  BY EmptyPlan DEF NoCheck
<1>5. [at |-> "idle"] \in Asking
  BY DEF Asking
<1>6. CheckTypes
  BY <1>1, <1>4, <1>5, ChecksAssumption DEF CheckTypes
<1>7. StepsOwn /\ JobsKept
  BY <1>1, <1>2 DEF StepsOwn, JobsKept
<1>8. PlansPlaced
  BY <1>1, <1>4 DEF PlansPlaced
<1> QED BY <1>3, <1>6, <1>7, <1>8 DEF UnitInv

LEMMA ChecksStay ==
  ASSUME UnitInv, UNCHANGED checkVars, UnitKept
  PROVE  UnitInv'
<1>1. CheckTypes'
  BY DEF UnitInv, CheckTypes, checkVars
<1>2. PlansPlaced'
  BY DEF UnitInv, PlansPlaced, checkVars
<1> QED BY <1>1, <1>2 DEF UnitInv, UnitKept

LEMMA UnitInvKept == UnitInv /\ [Next]_vars => UnitInv'
<1> SUFFICES ASSUME UnitInv, [Next]_vars PROVE UnitInv'
  OBVIOUS
<1>0. UnitTypes /\ StepsOwn /\ JobsKept
  BY DEF UnitInv
<1>1. ASSUME NEW b \in Builds, NEW p \in Phones, List(b, p) \/ Delist(b, p) PROVE UnitInv'
  BY <1>1, AskerStepKeeps
<1>2. ASSUME NEW a \in Askers, NEW rebuild \in Rebuilds, NEW only \in Onlys, Ask(a, rebuild, only)
      PROVE  UnitInv'
  BY <1>2, AskerStepKeeps
<1>3. ASSUME NEW a \in Askers, AskerStep(a) PROVE UnitInv'
  BY <1>3, AskerStepKeeps DEF AskerStep
<1>4. ASSUME NEW k \in Slots, CheckStep(k) \/ CheckFails(k) PROVE UnitInv'
  BY <1>4, CheckStepKeeps
<1>5. ASSUME NEW id \in Id, UnitNext(id), UNCHANGED checkVars PROVE UnitInv'
  BY <1>0, <1>5, UnitStepKeeps, ChecksStay
<1>6. ASSUME NEW job \in jobs, OrphanEnds(job), UNCHANGED checkVars PROVE UnitInv'
  BY <1>0, <1>6, OrphanKeeps, ChecksStay
<1>7. CASE UNCHANGED vars
  <2>1. UnitKept /\ UNCHANGED checkVars
    BY <1>0, <1>7, UnitsStay DEF vars, unitVars, UnitTypes
  <2> QED BY <2>1, ChecksStay
<1> QED BY <1>1, <1>2, <1>3, <1>4, <1>5, <1>6, <1>7 DEF Next, UnitStep

LEMMA UnitInvHolds == Spec => []UnitInv
  BY UnitsBegin, UnitInvKept, PTL DEF Spec

LEMMA OwnContainers == UnitInv => OwnContainer
<1> SUFFICES ASSUME UnitInv PROVE OwnContainer
  OBVIOUS
<1>0. \A j \in jobs : j = [in |-> j.in, awaited |-> j.awaited] /\ j.awaited \in BOOLEAN
  BY DEF UnitInv, UnitTypes
<1> SUFFICES ASSUME NEW x \in jobs, NEW y \in jobs, x.in = y.in, x.awaited, ~y.awaited,
                    ~inst[x.in[1]].restarted
             PROVE  FALSE
  BY <1>0 DEF OwnContainer
<1> DEFINE id == x.in[1]
           n == Min(inst[id].left)
<1>1. /\ id \in Id /\ Extracting(id) /\ x.in = ContainerOf(id)
      /\ JobKept(y) /\ y \in AJob /\ UnitTypes /\ StepsOwn
  BY DEF UnitInv, JobsKept, JobKept, UnitTypes, Containers, AJob
<1>2. Past(BuildOf(id), inst[id], y.in)
  BY <1>1 DEF JobKept, Extracting
<1>3. n \in inst[id].left /\ inst[id].left \subseteq DOMAIN StepsOf(BuildOf(id)) /\ BuildOf(id) \in Builds
      /\ inst[id].attempt \in Nat
  BY <1>1, PresentIsTyped, IdOfBuild DEF StepsOwn, UnitTypes, Instance
<1>4. y.in[2] = StepsOf(BuildOf(id))[n] /\ y.in[3] = inst[id].again /\ y.in[4] = inst[id].attempt
  BY <1>1 DEF ContainerOf, ContainerName, StepOf
<1>. HIDE DEF id
<1>5. PICK m \in DOMAIN StepsOf(BuildOf(id)) :
        /\ y.in[2] = StepsOf(BuildOf(id))[m]
        /\ m \in inst[id].left =>
             /\ m = Min(inst[id].left)
             /\ \/ ~y.in[3] /\ inst[id].again
                \/ y.in[3] = inst[id].again /\ y.in[4] < inst[id].attempt
  BY <1>2 DEF Past
<1>6. m = n
  BY <1>3, <1>4, <1>5, StepsTyped
<1> QED BY <1>3, <1>4, <1>5, <1>6

(* An attempt's container never runs an earlier attempt's job of the same   *)
(* run (unit.ts containerName), however many ask for checks and whatever    *)
(* fails: OwnContainer.                                                     *)
THEOREM ContainersNeverShared == Spec => []OwnContainer
  BY UnitInvHolds, OwnContainers, PTL

-----------------------------------------------------------------------------
(* What a step of an instance does, of what checks read of it. *)

(* An instance's other steps keep it before its last or take it there; the  *)
(* last is attempted again, ends, or writes the record.                     *)
Moved(id) ==
  /\ inst[id].status = "running"
  /\ \A x \in Id : x # id => inst'[x] = inst[x]
  /\ inst'[id].phones = inst[id].phones
  /\ inst'[id].status \in {"running", "complete", "errored", "refused"}
  /\ inst'[id].attempt \in {1, inst[id].attempt, inst[id].attempt + 1}
  /\ IF inst[id].left = {}
     THEN /\ inst'[id].left = {} /\ inst'[id].status # "refused"
          /\ inst[id].at # "asleep" =>
               /\ inst'[id].at # "asleep"
               /\ inst'[id].status = "running" =>
                    \/ inst'[id].attempt = inst[id].attempt + 1
                    \/ inst'[id].attempt = inst[id].attempt /\ inst'[id].at = "written"
     ELSE /\ inst'[id].status # "complete"
          /\ inst'[id].left = {} =>
               inst'[id].status = "running" /\ inst'[id].at = "ready" /\ inst'[id].attempt = 1
  /\ \/ UNCHANGED <<held, late>> /\ (inst'[id].at = "written" => inst[id].at = "written")
     \/ /\ inst[id].left = {} /\ inst[id].at = "ready"
        /\ inst'[id].status = "running" /\ inst'[id].at = "written"
        /\ inst'[id].attempt = inst[id].attempt
        /\ held' = [held EXCEPT ![BuildOf(id)] = inst[id].phones]
        /\ late' = IF WritesLate(id) THEN late \cup {BuildOf(id)} ELSE late

LEMMA OutcomeMoved ==
  ASSUME UnitTypes, NEW id \in Id, Live(id), NEW outcome \in Outcomes,
         inst' = [inst EXCEPT ![id] = Outcome(id, outcome)], UNCHANGED <<held, late>>,
         inst[id].left = {} => outcome \in {"transient", "permanent"}
  PROVE  Moved(id)
<1> DEFINE i == inst[id]
<1>0. i = inst[id] /\ i.status = "running"
  BY DEF Live
<1>. HIDE DEF i
<1>1. \/ outcome = "done" /\ Runs(id, i.status, i.left \ {Min(i.left)}, FALSE, 1, "ready")
      \/ outcome = "transient" /\ Runs(id, i.status, i.left, i.again, i.attempt + 1, "ready")
      \/ outcome \in {"transient", "permanent"}
               /\ Runs(id, "errored", i.left, i.again, i.attempt, i.at)
      \/ outcome = "burst" /\ i.again /\ Runs(id, "refused", i.left, i.again, i.attempt, i.at)
      \/ outcome = "burst" /\ ~i.again /\ Runs(id, i.status, i.left, i.again, i.attempt, "asleep")
  BY <1>0, OutcomeMoves
<1>2. CASE outcome = "done" /\ Runs(id, i.status, i.left \ {Min(i.left)}, FALSE, 1, "ready")
  BY <1>0, <1>2 DEF Runs, Moved
<1>3. CASE outcome = "transient" /\ Runs(id, i.status, i.left, i.again, i.attempt + 1, "ready")
  BY <1>0, <1>3 DEF Runs, Moved
<1>4. CASE outcome \in {"transient", "permanent"} /\ Runs(id, "errored", i.left, i.again, i.attempt, i.at)
  BY <1>0, <1>4 DEF Runs, Moved
<1>5. CASE outcome = "burst" /\ i.again /\ Runs(id, "refused", i.left, i.again, i.attempt, i.at)
  BY <1>0, <1>5 DEF Runs, Moved
<1>6. CASE outcome = "burst" /\ ~i.again /\ Runs(id, i.status, i.left, i.again, i.attempt, "asleep")
  BY <1>0, <1>6 DEF Runs, Moved
<1> QED BY <1>1, <1>2, <1>3, <1>4, <1>5, <1>6

LEMMA UnitMoves ==
  ASSUME UnitTypes, StepsOwn, JobsKept
  PROVE  /\ \A id \in Id : UnitNext(id) => Moved(id)
         /\ \A job \in jobs : OrphanEnds(job) =>
              \/ UNCHANGED <<held, late, inst>>
              \/ UNCHANGED <<held, late>> /\ \E id \in Id : Moved(id)
<1>1. ASSUME NEW id \in Id, NEW outcome \in Outcomes, WorkerStep(id, outcome) PROVE Moved(id)
  <2>1. /\ Live(id) /\ inst[id].left # {} /\ UNCHANGED <<held, late>>
        /\ inst' = [inst EXCEPT ![id] = Outcome(id, outcome)]
    BY <1>1 DEF WorkerStep, Extracting, AtLastStep
  <2> QED BY <2>1, OutcomeMoved
<1>2. ASSUME NEW id \in Id, PostJob(id) PROVE Moved(id)
  <2>1. /\ inst[id].status = "running" /\ inst[id].left # {} /\ UNCHANGED <<held, late>>
        /\ Runs(id, inst[id].status, inst[id].left, inst[id].again, inst[id].attempt, "waiting")
    BY <1>2, OtherMoves DEF PostJob, Extracting, AtLastStep, Live
  <2> QED BY <2>1 DEF Runs, Moved
<1>3. ASSUME NEW id \in Id, NEW outcome \in Outcomes, JobAnswers(id, outcome) PROVE Moved(id)
  <2>1. /\ Live(id) /\ Extracting(id) /\ inst[id].left # {} /\ UNCHANGED <<held, late>>
        /\ inst' = [inst EXCEPT ![id] = Outcome(id, outcome)]
    BY <1>3 DEF JobAnswers, Extracting, AtLastStep
  <2> QED BY <2>1, OutcomeMoved
<1>4. ASSUME NEW id \in Id, JobLost(id) PROVE Moved(id)
  <2>1. /\ Live(id) /\ Extracting(id) /\ inst[id].left # {} /\ UNCHANGED <<held, late>>
        /\ inst' = [inst EXCEPT ![id] = Outcome(id, "transient")] /\ "transient" \in Outcomes
    BY <1>4 DEF JobLost, Extracting, AtLastStep, Outcomes
  <2> QED BY <2>1, OutcomeMoved
<1>5. ASSUME NEW id \in Id, Wake(id) PROVE Moved(id)
  <2>1. /\ inst[id].status = "running" /\ inst[id].at = "asleep" /\ UNCHANGED <<held, late>>
        /\ Runs(id, inst[id].status, inst[id].left, TRUE, 1, "ready")
    BY <1>5, OtherMoves DEF Wake, Live
  <2> QED BY <2>1 DEF Runs, Moved
<1>6. ASSUME NEW id \in Id, WriteRecord(id) PROVE Moved(id)
  <2>1. /\ inst[id].status = "running" /\ inst[id].left = {} /\ inst[id].at = "ready"
        /\ held' = [held EXCEPT ![BuildOf(id)] = inst[id].phones]
        /\ late' = IF WritesLate(id) THEN late \cup {BuildOf(id)} ELSE late
        /\ Runs(id, inst[id].status, inst[id].left, inst[id].again, inst[id].attempt, "written")
    BY <1>6, OtherMoves DEF WriteRecord, Finishing, AtLastStep, Live
  <2> QED BY <2>1 DEF Runs, Moved
<1>7. ASSUME NEW id \in Id, QueueRecord(id) PROVE Moved(id)
  <2>1. /\ inst[id].status = "running" /\ inst[id].left = {} /\ UNCHANGED <<held, late>>
        /\ Runs(id, "complete", inst[id].left, inst[id].again, inst[id].attempt, inst[id].at)
    BY <1>7, OtherMoves DEF QueueRecord, Finishing, AtLastStep, Live
  <2> QED BY <2>1 DEF Runs, Moved
<1>8. ASSUME NEW id \in Id, NEW outcome \in {"transient", "permanent"}, FinishFails(id, outcome) PROVE Moved(id)
  <2>1. /\ Live(id) /\ inst[id].left = {} /\ UNCHANGED <<held, late>> /\ outcome \in Outcomes
        /\ inst' = [inst EXCEPT ![id] = Outcome(id, outcome)]
    BY <1>8 DEF FinishFails, Finishing, AtLastStep, Outcomes
  <2> QED BY <2>1, OutcomeMoved
<1>9. ASSUME NEW job \in jobs, OrphanEnds(job)
      PROVE  \/ UNCHANGED <<held, late, inst>>
             \/ UNCHANGED <<held, late>> /\ \E id \in Id : Moved(id)
  <2>1. CASE UNCHANGED inst
    BY <1>9, <2>1, OrphanKeeps
  <2>2. CASE ~UNCHANGED inst
    <3>1. PICK id \in Id : Extracting(id) /\ inst' = [inst EXCEPT ![id] = Outcome(id, "transient")]
      BY <1>9, <2>2, OrphanKeeps
    <3>2. Live(id) /\ inst[id].left # {} /\ "transient" \in Outcomes
      BY <3>1 DEF Extracting, AtLastStep, Outcomes
    <3>3. UNCHANGED <<held, late>>
      BY <1>9, OrphanKeeps
    <3>4. Moved(id)
      BY <3>1, <3>2, <3>3, OutcomeMoved
    <3> QED BY <3>3, <3>4
  <2> QED BY <2>1, <2>2
<1> QED BY <1>1, <1>2, <1>3, <1>4, <1>5, <1>6, <1>7, <1>8, <1>9 DEF UnitNext

-----------------------------------------------------------------------------
(* One who asks never has two checks run. *)

LEMMA LiveIsCreated ==
  ASSUME OneAsker, OneCheck, recorded = 0, NEW a \in Askers, NEW k \in Slots, CheckLive(k)
  PROVE  asker[a].at = "created" /\ asker[a].slot = k
<1>1. recorded # k
  BY ChecksAssumption DEF Slots
<1>2. PICK b \in Askers : asker[b] = [at |-> "created", slot |-> k]
  BY <1>1 DEF OneCheck
<1>3. b = a
  BY DEF OneAsker
<1> QED BY <1>2, <1>3

LEMMA OnlyCheck ==
  ASSUME OneAsker, UnitInv, OneCheck, NEW k \in Slots, NEW l \in Slots, CheckLive(k), CheckLive(l)
  PROVE  k = l
<1>1. CASE recorded = 0
  <2>1. PICK a \in Askers : asker[a] = [at |-> "created", slot |-> k]
    <3>1. recorded # k
      BY <1>1, ChecksAssumption DEF Slots
    <3> QED BY <3>1 DEF OneCheck
  <2>2. asker[a].slot = k /\ asker[a].slot = l
    BY <1>1, LiveIsCreated
  <2> QED BY <2>2
<1>2. CASE recorded # 0
  <2>1. ASSUME NEW m \in Slots, CheckLive(m) PROVE recorded = m
    <3>1. ASSUME NEW a \in Askers, asker[a] = [at |-> "created", slot |-> m] PROVE FALSE
      <4>1. asker[a].at = "created"
        BY <3>1
      <4> QED BY <1>2, <4>1 DEF OneCheck
    <3> QED BY <2>1, <3>1 DEF OneCheck
  <2> QED BY <2>1
<1> QED BY <1>1, <1>2

LEMMA PlanBuilds ==
  ASSUME UnitInv, NEW k \in Slots, NEW n \in DOMAIN check[k].plan
  PROVE  /\ check[k].plan[n] \in Run /\ check[k].plan[n].id \in Id
         /\ n \in DOMAIN BuildOrder /\ BuildOf(check[k].plan[n].id) = BuildOrder[n]
         /\ \A m \in DOMAIN check[k].plan : check[k].plan[m].id = check[k].plan[n].id => m = n
<1>1. check[k].plan \in Plans
  BY DEF UnitInv, CheckTypes, Checking
<1>2. \A m \in DOMAIN check[k].plan :
        m \in DOMAIN BuildOrder /\ BuildOf(check[k].plan[m].id) = BuildOrder[m]
  BY DEF UnitInv, PlansPlaced, InstanceId, BuildOf
<1> QED BY <1>1, <1>2, PlanTyped, ChecksAssumption DEF Run

LEMMA NoneToStart ==
  ASSUME UnitInv, NEW k \in Slots, ~CheckLive(k)
  PROVE  check[k].restart = {} /\ check[k].fresh = {}
  BY DEF UnitInv, PlansPlaced, CheckLive

LEMMA OneCheckKept ==
  ASSUME OneAsker, UnitInv, OneCheck, [Next]_vars
  PROVE  OneCheck'
<1>0. CheckTypes /\ UnitTypes /\ PlansPlaced /\ asker \in [Askers -> Asking] /\ check \in [Slots -> Checking]
  BY DEF UnitInv, CheckTypes
<1>1. \A k \in Slots : k # 0
  BY ChecksAssumption DEF Slots
<1>2. \A m : [at |-> "created", slot |-> m].at = "created" /\ [at |-> "created", slot |-> m].slot = m
  OBVIOUS
<1>3. ASSUME UNCHANGED <<recorded, asker>>, \A k \in Slots : CheckLive(k)' => CheckLive(k)
      PROVE  OneCheck'
  BY <1>3 DEF OneCheck
<1>4. ASSUME UNCHANGED <<recorded, asker, check>> PROVE OneCheck'
  BY <1>4 DEF OneCheck, CheckLive
<1>5. ASSUME NEW a \in Askers, NEW rebuild \in Rebuilds, NEW only \in Onlys, Ask(a, rebuild, only)
      PROVE  OneCheck'
  <2>1. asker[a].at = "idle" /\ recorded = 0 /\ recorded' = 0 /\ check' = check
    BY <1>5 DEF Ask
  <2>2. \A k \in Slots : ~CheckLive(k)
    BY <2>1, LiveIsCreated
  <2> QED BY <2>1, <2>2 DEF OneCheck, CheckLive
<1>6. ASSUME NEW a \in Askers, NEW k \in Slots, CreateCheck(a, k) PROVE OneCheck'
  <2>1. /\ asker[a].at = "asking" /\ recorded' = recorded
        /\ check' = [check EXCEPT ![k] = NewCheck(asker[a].rebuild, asker[a].only)]
        /\ asker' = [asker EXCEPT ![a] = [at |-> "created", slot |-> k]]
    BY <1>6 DEF CreateCheck
  <2>2. recorded = 0
    BY <2>1 DEF OneCheck
  <2>3. \A l \in Slots : ~CheckLive(l)
    BY <2>1, <2>2, LiveIsCreated
  <2>4. \A l \in Slots : l # k => check'[l] = check[l]
    BY <1>0, <2>1
  <2>5. asker'[a] = [at |-> "created", slot |-> k]
    BY <1>0, <2>1
  <2> QED BY <2>1, <2>2, <2>3, <2>4, <2>5 DEF OneCheck, CheckLive
<1>7. ASSUME NEW a \in Askers, RecordCheck(a) PROVE OneCheck'
  <2>1. /\ asker[a].at = "created" /\ check' = check
        /\ recorded' = IF CheckLive(asker[a].slot) THEN asker[a].slot ELSE 0
        /\ asker' = [asker EXCEPT ![a] = [at |-> "idle"]]
    BY <1>7 DEF RecordCheck
  <2>2. recorded = 0
    BY <2>1 DEF OneCheck
  <2>3. \A k \in Slots : CheckLive(k) => k = asker[a].slot
    BY <2>2, LiveIsCreated
  <2>4. \A b \in Askers : asker'[b].at = "idle"
    <3>1. asker'[a] = [at |-> "idle"] /\ [at |-> "idle"].at = "idle"
      BY <1>0, <2>1
    <3> QED BY <3>1 DEF OneAsker
  <2> QED BY <2>1, <2>3, <2>4 DEF OneCheck, CheckLive
<1>8. ASSUME NEW k \in Slots, check[k].at # "none", UNCHANGED <<recorded, asker>>,
             \A l \in Slots : l # k => check'[l] = check[l]
      PROVE  OneCheck'
  BY <1>3, <1>8 DEF CheckLive
<1>9. ASSUME NEW k \in Slots, Ended(k), UNCHANGED asker PROVE OneCheck'
  <2>1. ChecksTo(k, "none", <<>>, <<>>, {}, {}) /\ recorded' = IF recorded = k THEN 0 ELSE recorded
    BY <1>0, <1>9, CheckMoves DEF Ended
  <2> QED BY <1>9, <2>1 DEF OneCheck, CheckLive, ChecksTo
<1>10. ASSUME NEW k \in Slots, CheckStep(k) PROVE OneCheck'
  <2>1. CASE ReadFirst(k) \/ PlanRuns(k) \/ ReadStatuses(k) \/ CreateBatch(k) \/ Restart(k)
    <3>1. check[k].at # "none" /\ UNCHANGED <<recorded, asker>>
      BY <2>1 DEF ReadFirst, PlanRuns, ReadStatuses, CreateBatch, Restart
    <3>2. \A l \in Slots : l # k => check'[l] = check[l]
      BY <1>0, <2>1, CheckMoves DEF ChecksTo
    <3> QED BY <1>8, <3>1, <3>2
  <2>2. CASE EndCheck(k)
    BY <1>9, <2>2 DEF EndCheck
  <2> QED BY <1>10, <2>1, <2>2 DEF CheckStep
<1>11. ASSUME NEW k \in Slots, CheckFails(k) PROVE OneCheck'
  <2>1. UNCHANGED asker /\ ((Retried(k) /\ UNCHANGED recorded) \/ Ended(k))
    BY <1>0, <1>11, FailedCheck
  <2>2. CASE Retried(k) /\ UNCHANGED recorded
    BY <1>8, <2>1, <2>2 DEF Retried, ChecksTo
  <2> QED BY <1>9, <2>1, <2>2
<1>12. CASE \E b \in Builds, p \in Phones : List(b, p) \/ Delist(b, p)
  BY <1>4, <1>12 DEF List, Delist
<1>13. CASE UnitStep /\ UNCHANGED checkVars
  BY <1>4, <1>13 DEF checkVars
<1>14. CASE UNCHANGED vars
  BY <1>4, <1>14 DEF vars, checkVars
<1> QED BY <1>5, <1>6, <1>7, <1>10, <1>11, <1>12, <1>13, <1>14 DEF Next, AskerStep

(* An instance that ended moves only where it is restarted, and checks have *)
(* less to restart, of the same plans.                                      *)
LEMMA RestartsStay ==
  ASSUME UnitInv, RestartsEnded,
         \A id \in Id : inst[id].status \in {"refused", "errored"} => inst'[id] = inst[id],
         \A k \in Slots : \/ check'[k].restart = {}
                         \/ /\ check'[k].restart \subseteq check[k].restart
                            /\ check'[k].plan = check[k].plan /\ check'[k].rebuild = check[k].rebuild
  PROVE  RestartsEnded'
<1> SUFFICES ASSUME NEW k \in Slots, NEW n \in check'[k].restart
             PROVE  inst'[check'[k].plan[n].id].status
                      \in {"refused"} \cup (IF check'[k].rebuild THEN {"errored"} ELSE {})
  BY DEF RestartsEnded
<1>1. /\ n \in check[k].restart /\ check'[k].plan = check[k].plan /\ check'[k].rebuild = check[k].rebuild
  OBVIOUS
<1>2. n \in DOMAIN check[k].plan
  BY <1>1 DEF UnitInv, PlansPlaced
<1>3. check[k].plan[n].id \in Id
  BY <1>2, PlanBuilds
<1>4. inst[check[k].plan[n].id].status \in {"refused"} \cup (IF check[k].rebuild THEN {"errored"} ELSE {})
  BY <1>1 DEF RestartsEnded
<1> QED BY <1>1, <1>3, <1>4

LEMMA RestartsEndedKept ==
  ASSUME OneAsker, UnitInv, OneCheck, RestartsEnded, [Next]_vars
  PROVE  RestartsEnded'
<1>0. UnitTypes /\ CheckTypes /\ PlansPlaced /\ StepsOwn /\ JobsKept /\ check \in [Slots -> Checking]
  BY DEF UnitInv, CheckTypes
<1>1. ASSUME UNCHANGED <<inst, check>> PROVE RestartsEnded'
  BY <1>1, RestartsStay
<1>2. ASSUME NEW k \in Slots, UNCHANGED inst, check'[k].restart = {},
             \A l \in Slots : l # k => check'[l] = check[l]
      PROVE  RestartsEnded'
  BY <1>2, RestartsStay
<1>3. CASE \E b \in Builds, p \in Phones : List(b, p) \/ Delist(b, p)
  BY <1>1, <1>3 DEF List, Delist, unitVars
<1>4. ASSUME NEW a \in Askers, NEW rebuild \in Rebuilds, NEW only \in Onlys, Ask(a, rebuild, only)
      PROVE  RestartsEnded'
  BY <1>1, <1>4 DEF Ask, unitVars
<1>5. ASSUME NEW a \in Askers, NEW k \in Slots, CreateCheck(a, k) PROVE RestartsEnded'
  <2>1. check' = [check EXCEPT ![k] = NewCheck(asker[a].rebuild, asker[a].only)] /\ UNCHANGED inst
    BY <1>5 DEF CreateCheck, unitVars
  <2>2. NewCheck(asker[a].rebuild, asker[a].only).restart = {}
    BY DEF NewCheck, NoCheck
  <2> QED BY <1>0, <1>2, <2>1, <2>2
<1>6. ASSUME NEW a \in Askers, RecordCheck(a) PROVE RestartsEnded'
  BY <1>1, <1>6 DEF RecordCheck, unitVars
<1>7. ASSUME NEW k \in Slots, ReadFirst(k) \/ PlanRuns(k) PROVE RestartsEnded'
  <2>1. UNCHANGED inst /\ check[k].at \in {"new", "asked"}
    BY <1>7 DEF ReadFirst, PlanRuns, unitVars
  <2>2. check[k].restart = {}
    BY <1>0, <2>1 DEF PlansPlaced
  <2>3. check'[k].restart = check[k].restart /\ \A l \in Slots : l # k => check'[l] = check[l]
    BY <1>0, <1>7, CheckMoves DEF ChecksTo
  <2> QED BY <1>2, <2>1, <2>2, <2>3
<1>8. ASSUME NEW k \in Slots, ReadStatuses(k) PROVE RestartsEnded'
  <2>1. /\ check'[k].plan = check[k].plan /\ check'[k].restart = DecisionOf(k).restart
        /\ check'[k].rebuild = check[k].rebuild
        /\ \A l \in Slots : l # k => check'[l] = check[l]
    BY <1>0, <1>8, CheckMoves DEF ChecksTo, SameAsk
  <2>2. UNCHANGED inst
    BY <1>8 DEF ReadStatuses, unitVars
  <2>3. \A n \in DecisionOf(k).restart :
          n \in DOMAIN check[k].plan /\ ToRestart(inst[check[k].plan[n].id].status, check[k].rebuild)
    BY DecideOfPlan DEF DecisionOf
  <2>4. \A n \in check'[k].restart :
          inst'[check'[k].plan[n].id].status
            \in {"refused"} \cup (IF check'[k].rebuild THEN {"errored"} ELSE {})
    BY <2>1, <2>2, <2>3 DEF ToRestart
  <2>5. \A l \in Slots : l # k => \A n \in check'[l].restart :
          inst'[check'[l].plan[n].id].status
            \in {"refused"} \cup (IF check'[l].rebuild THEN {"errored"} ELSE {})
    BY <2>1, <2>2 DEF RestartsEnded
  <2> QED BY <2>4, <2>5 DEF RestartsEnded
<1>9. ASSUME NEW k \in Slots, CreateBatch(k) PROVE RestartsEnded'
  <2>1. \A id \in Id : inst'[id] # inst[id] => inst[id].status = "none"
    BY <1>0, <1>9, BatchMoves
  <2>2. /\ check'[k].plan = check[k].plan /\ check'[k].restart = check[k].restart
        /\ check'[k].rebuild = check[k].rebuild
        /\ \A l \in Slots : l # k => check'[l] = check[l]
    BY <1>0, <1>9, CheckMoves DEF ChecksTo, SameAsk
  <2> QED BY <2>1, <2>2, RestartsStay
<1>10. ASSUME NEW k \in Slots, Restart(k) PROVE RestartsEnded'
  <2> DEFINE m == Min(check[k].restart)
             id == check[k].plan[m].id
  <2>1. /\ check'[k].plan = check[k].plan /\ check'[k].restart = check[k].restart \ {m}
        /\ check'[k].rebuild = check[k].rebuild
        /\ \A l \in Slots : l # k => check'[l] = check[l]
    BY <1>0, <1>10, CheckMoves DEF ChecksTo, SameAsk
  <2>2. /\ m \in check[k].restart /\ CheckLive(k)
        /\ \A x \in Id : x # id => inst'[x] = inst[x]
    BY <1>0, <1>10, RestartMoves DEF CheckLive
  <2>3. check[k].restart \subseteq DOMAIN check[k].plan
    BY <1>0 DEF PlansPlaced
  <2>4. \A n \in check[k].restart \ {m} : check[k].plan[n].id \in Id /\ check[k].plan[n].id # id
    BY <2>2, <2>3, PlanBuilds
  <2>5. \A l \in Slots : l # k => check'[l].restart = {}
    BY <2>1, <2>2, OnlyCheck, NoneToStart
  <2>. HIDE DEF m, id
  <2>6. \A n \in check'[k].restart :
          inst'[check'[k].plan[n].id].status
            \in {"refused"} \cup (IF check'[k].rebuild THEN {"errored"} ELSE {})
    BY <2>1, <2>2, <2>4 DEF RestartsEnded
  <2> QED BY <2>5, <2>6 DEF RestartsEnded
<1>11. ASSUME NEW k \in Slots, Ended(k), UNCHANGED inst PROVE RestartsEnded'
  BY <1>0, <1>2, <1>11, CheckMoves DEF ChecksTo
<1>12. ASSUME NEW k \in Slots, CheckFails(k) PROVE RestartsEnded'
  <2>1. UNCHANGED inst /\ (Retried(k) \/ Ended(k))
    BY <1>0, <1>12, FailedCheck
  <2>2. CASE Retried(k)
    BY <1>2, <2>1, <2>2 DEF Retried, ChecksTo
  <2> QED BY <1>11, <2>1, <2>2
<1>13. ASSUME NEW id \in Id, Moved(id), UNCHANGED check PROVE RestartsEnded'
  BY <1>13, RestartsStay DEF Moved
<1>14. CASE UnitStep /\ UNCHANGED checkVars
  <2>1. UNCHANGED check
    BY <1>14 DEF checkVars
  <2>2. CASE \E id \in Id : UnitNext(id)
    BY <1>0, <1>13, <2>1, <2>2, UnitMoves
  <2>3. CASE \E job \in jobs : OrphanEnds(job)
    BY <1>0, <1>1, <1>13, <2>1, <2>3, UnitMoves
  <2> QED BY <1>14, <2>2, <2>3 DEF UnitStep
<1>15. CASE UNCHANGED vars
  BY <1>1, <1>15 DEF vars, unitVars, checkVars
<1>16. ASSUME NEW k \in Slots, EndCheck(k) PROVE RestartsEnded'
  BY <1>11, <1>16 DEF EndCheck, unitVars
<1> QED BY <1>3, <1>4, <1>5, <1>6, <1>7, <1>8, <1>9, <1>10, <1>12, <1>14, <1>15, <1>16
        DEF Next, AskerStep, CheckStep

LEMMA CheckInvHolds == ASSUME OneAsker PROVE Spec => []CheckInv
<1>1. Init => OneCheck /\ RestartsEnded
  <2> SUFFICES ASSUME Init PROVE OneCheck /\ RestartsEnded
    OBVIOUS
  <2>1. \A k \in Slots : check[k] = NoCheck
    BY DEF Init
  <2>2. NoCheck.at = "none" /\ NoCheck.restart = {}
    BY DEF NoCheck
  <2>3. recorded = 0
    BY DEF Init
  <2> QED BY <2>1, <2>2, <2>3 DEF OneCheck, RestartsEnded, CheckLive
<1>2. CheckInv /\ [Next]_vars => CheckInv'
  BY UnitInvKept, OneCheckKept, RestartsEndedKept DEF CheckInv
<1>3. Init => CheckInv
  BY <1>1, UnitsBegin DEF CheckInv
<1> QED BY <1>2, <1>3, PTL DEF Spec

LEMMA CompleteStays ==
  ASSUME CheckInv, [Next]_vars, NEW id \in Id, inst[id].status = "complete"
  PROVE  inst'[id].status = "complete"
<1>0. UnitTypes /\ CheckTypes /\ PlansPlaced /\ StepsOwn /\ JobsKept
  BY DEF CheckInv, UnitInv
<1>1. CASE UNCHANGED inst
  BY <1>1
<1>2. ASSUME NEW k \in Slots, CreateBatch(k) PROVE inst'[id].status = "complete"
  BY <1>0, <1>2, BatchMoves
<1>3. ASSUME NEW k \in Slots, Restart(k) PROVE inst'[id].status = "complete"
  <2>1. /\ Min(check[k].restart) \in check[k].restart
        /\ id # check[k].plan[Min(check[k].restart)].id => inst'[id] = inst[id]
    BY <1>0, <1>3, RestartMoves
  <2>2. inst[check[k].plan[Min(check[k].restart)].id].status # "complete"
    BY <2>1 DEF CheckInv, RestartsEnded
  <2> QED BY <2>1, <2>2
<1>4. ASSUME NEW x \in Id, Moved(x) PROVE inst'[id].status = "complete"
  BY <1>4 DEF Moved
<1>5. CASE UnitStep
  <2>1. CASE \E x \in Id : UnitNext(x)
    BY <1>0, <1>4, <2>1, UnitMoves
  <2>2. CASE \E job \in jobs : OrphanEnds(job)
    BY <1>0, <1>1, <1>4, <2>2, UnitMoves
  <2> QED BY <1>5, <2>1, <2>2 DEF UnitStep
<1>6. ASSUME NEW k \in Slots, ReadFirst(k) \/ PlanRuns(k) \/ ReadStatuses(k) \/ EndCheck(k) \/ CheckFails(k)
      PROVE  UNCHANGED inst
  BY <1>6 DEF ReadFirst, PlanRuns, ReadStatuses, EndCheck, CheckFails, unitVars
<1>7. ASSUME NEW a \in Askers, AskerStep(a) \/ \E rebuild \in Rebuilds, only \in Onlys : Ask(a, rebuild, only)
      PROVE  UNCHANGED inst
  BY <1>7 DEF AskerStep, CreateCheck, RecordCheck, Ask, unitVars
<1>8. (\E b \in Builds, p \in Phones : List(b, p) \/ Delist(b, p)) \/ UNCHANGED vars => UNCHANGED inst
  BY DEF List, Delist, vars, unitVars
<1> QED BY <1>1, <1>2, <1>3, <1>5, <1>6, <1>7, <1>8 DEF Next, CheckStep

(* A unit that completed is never started again (runs.ts): where one asks   *)
(* for checks at a time, a check restarts nothing that it did not see end   *)
(* badly, and creates only what has no instance when it creates it:         *)
(* NeverAgain.                                                              *)
THEOREM CompletedStays == ASSUME OneAsker PROVE Spec => NeverAgain
<1>1. CheckInv /\ [Next]_vars =>
        [\A id \in Id : inst[id].status = "complete" => inst'[id].status = "complete"]_inst
  BY CompleteStays
<1> QED BY <1>1, CheckInvHolds, PTL DEF Spec, NeverAgain

================================================================================
