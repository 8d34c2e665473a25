--------------------------------- MODULE Checks --------------------------------
(****************************************************************************)
(* The feed checks of the container pipelines over their Workflow instances *)
(* (src/apps/extractor/src/runs.ts, workflows.ts CheckWorkflow,             *)
(* apple/plan.ts, apple/check.ts, galaxy/check.ts).                         *)
(*                                                                          *)
(* Cron, and anyone by hand, asks for a check of a feed.  A check plans the *)
(* builds its feed lists that the bucket does not hold, reads the status of *)
(* each one's instance, and creates or restarts instances up to the feed's  *)
(* container share.  Asking, planning, reading and starting are separate    *)
(* steps: records are written and instances move on between them.           *)
(****************************************************************************)
EXTENDS Units

CONSTANTS Askers,      \* who may ask for a check at once: cron, hands
          CheckSlots,  \* bound: the checks of one feed that may run at once
          Share,       \* CONTAINER_SHARE, per feed
          BuildOrder,  \* the builds, the oldest first: a sequence
          ListedPhones,\* the phones the feeds ever list for each build
          Outdated,    \* bound: the builds a feed may cease to list
          Onlys,       \* the filters checks are asked with: sets of builds
          Rebuilds     \* whether checks are asked to rebuild what failed

Feeds == {"ios-build", "galaxy-build"}

FeedOf(b) == IF b \in IosBuilds THEN "ios-build" ELSE "galaxy-build"

ASSUME ChecksAssumption ==
    /\ Share \in [Feeds -> Nat]
    /\ CheckSlots \in Nat
    /\ BuildOrder \in Seq(Builds)
    /\ \A b \in Builds : \E n \in DOMAIN BuildOrder : BuildOrder[n] = b
    /\ \A m, n \in DOMAIN BuildOrder : BuildOrder[m] = BuildOrder[n] => m = n
    /\ ListedPhones \in [Builds -> SUBSET Phones]
    /\ Outdated \subseteq Builds
    /\ Onlys \subseteq SUBSET Builds
    /\ Rebuilds \subseteq BOOLEAN

VARIABLES feed,     \* the feed followed: two feeds share nothing modelled here
          listed,   \* per build, the phones the feed lists it for, to be extracted
          dropped,  \* auxiliary: the builds that were listed for a phone no more
          check,    \* per slot, the check running there
          recorded, \* the slot of the check last recorded, 0 once it ended
          asker     \* per asker, what it is doing

checkVars == <<feed, listed, dropped, check, recorded, asker>>

vars == <<unitVars, checkVars>>

Slots == 1..CheckSlots

\* A planned run: its instance and its payload.
Run == [id : Id, phones : SUBSET Phones]

NoCheck == [at |-> "none", rebuild |-> FALSE, only |-> {}, seen |-> <<>>,
            plan |-> <<>>, restart |-> {}, fresh |-> {}]

NewCheck(rebuild, only) ==
    [NoCheck EXCEPT !.at = "new", !.rebuild = rebuild, !.only = only]

CheckLive(k) == check[k].at # "none"

(****************************************************************************)
(* Planning: the builds listed for a phone their record lacks, of them only *)
(* those asked for, each by its place in BuildOrder and with all its phones.*)
(****************************************************************************)
Lacks(b, record, phones) ==
    IF record = Nothing THEN phones # {} ELSE ~(phones \subseteq record)

Planned(record, phones, only) ==
    {n \in DOMAIN BuildOrder : LET b == BuildOrder[n] IN
        FeedOf(b) = feed /\ b \in only /\ Lacks(b, record[b], phones[b])}

\* Mutant: a run named by the phones it is listed for.
PlanByListed(record, phones, only) ==
    [n \in Planned(record, phones, only) |->
        LET b == BuildOrder[n] IN [id |-> InstanceId(b, phones[b]), phones |-> phones[b]]]

\* Mutant: a run of the phones its record lacks alone.
PlanLacking(record, phones, only) ==
    [n \in Planned(record, phones, only) |->
        LET b == BuildOrder[n] IN
        [id |-> InstanceId(b, record[b]), phones |-> phones[b] \ record[b]]]

Plan(record, phones, only) ==
    [n \in Planned(record, phones, only) |->
        LET b == BuildOrder[n] IN [id |-> InstanceId(b, record[b]), phones |-> phones[b]]]

(****************************************************************************)
(* decide: of the planned runs, those with no instance and then those to    *)
(* restart, as many as the room the live ones leave, the oldest first.      *)
(****************************************************************************)
\* Mutant: whatever ended.
ToRestartEnded(status, rebuild) == status \in {"refused", "complete"}

ToRestart(status, rebuild) == status = "refused" \/ (rebuild /\ status = "errored")

\* The first n places of S.
First(S, n) == {m \in S : Cardinality({k \in S : k < m}) < n}

\* Mutant: the live runs not counted.
FreeOfAll(runs, room) == room

Free(runs, room) ==
    LET live == Cardinality({n \in DOMAIN runs : inst[runs[n].id].status = "running"})
    IN  IF room > live THEN room - live ELSE 0

Decide(runs, rebuild, room) ==
    LET missing == {n \in DOMAIN runs : inst[runs[n].id].status = "none"}
        ended   == {n \in DOMAIN runs : ToRestart(inst[runs[n].id].status, rebuild)}
        free    == Free(runs, room)
        fresh   == First(missing, free)
    IN  [fresh |-> fresh, restart |-> First(ended, free - Cardinality(fresh))]

--------------------------------------------------------------------------------
Init ==
    /\ InitUnits
    /\ listed = [b \in Builds |-> {}]
    /\ dropped = {}
    /\ feed \in Feeds
    /\ check = [k \in Slots |-> NoCheck]
    /\ recorded = 0
    /\ asker = [a \in Askers |-> [at |-> "idle"]]

\* A feed lists a build for one more phone.
List(b, p) ==
    /\ FeedOf(b) = feed
    /\ p \in ListedPhones[b] \ listed[b]
    /\ listed' = [listed EXCEPT ![b] = @ \cup {p}]
    /\ UNCHANGED <<unitVars, feed, dropped, check, recorded, asker>>

\* A feed lists a build for a phone no more, or a plan passes it over: a newer
\* build of the package supersedes it, a newer major ends its betas, or the
\* file is taken down.  The build's instance runs on.  MaxFaults bounds these too.
Delist(b, p) ==
    /\ FeedOf(b) = feed
    /\ b \in Outdated /\ p \in listed[b]
    /\ Fault
    /\ listed' = [listed EXCEPT ![b] = @ \ {p}]
    /\ dropped' = dropped \cup {b}
    /\ UNCHANGED <<held, inst, jobs, late, feed, check, recorded, asker>>

(****************************************************************************)
(* startCheck: gives the last recorded check's id while it runs; else       *)
(* creates a check, and then records it.                                    *)
(****************************************************************************)
Ask(a, rebuild, only) ==
    /\ asker[a].at = "idle"
    /\ recorded = 0
    /\ asker' = [asker EXCEPT ![a] = [at |-> "asking", rebuild |-> rebuild, only |-> only]]
    /\ UNCHANGED <<unitVars, feed, listed, dropped, check, recorded>>

FreeSlot(k) ==
    ~CheckLive(k) /\ \A a \in Askers : asker[a] # [at |-> "created", slot |-> k]

CreateCheck(a, k) ==
    /\ asker[a].at = "asking"
    /\ FreeSlot(k)
    /\ check' = [check EXCEPT ![k] = NewCheck(asker[a].rebuild, asker[a].only)]
    /\ asker' = [asker EXCEPT ![a] = [at |-> "created", slot |-> k]]
    /\ UNCHANGED <<unitVars, feed, listed, dropped, recorded>>

RecordCheck(a) ==
    /\ asker[a].at = "created"
    /\ recorded' = IF CheckLive(asker[a].slot) THEN asker[a].slot ELSE 0
    /\ asker' = [asker EXCEPT ![a] = [at |-> "idle"]]
    /\ UNCHANGED <<unitVars, feed, listed, dropped, check>>

(****************************************************************************)
(* A check.  The IPSW feed's reads the records and then asks the            *)
(* catalogues; the Galaxy feed's asks first and then reads the records.     *)
(****************************************************************************)
ReadFirst(k) ==
    /\ check[k].at = "new"
    /\ check' = [check EXCEPT ![k].at = "asked",
                              ![k].seen = IF feed = "ios-build" THEN held ELSE listed]
    /\ UNCHANGED <<unitVars, feed, listed, dropped, recorded, asker>>

PlanRuns(k) ==
    /\ check[k].at = "asked"
    /\ LET c == check[k]
           runs == IF feed = "ios-build" THEN Plan(c.seen, listed, c.only)
                                      ELSE Plan(held, c.seen, c.only)
       IN  check' = [check EXCEPT ![k].at = "planned", ![k].plan = runs,
                                  ![k].seen = <<>>]
    /\ UNCHANGED <<unitVars, feed, listed, dropped, recorded, asker>>

ReadStatuses(k) ==
    /\ check[k].at = "planned"
    /\ LET d == Decide(check[k].plan, check[k].rebuild, Share[feed])
       IN  check' = [check EXCEPT ![k].at = "decided", ![k].fresh = d.fresh,
                                  ![k].restart = d.restart]
    /\ UNCHANGED <<unitVars, feed, listed, dropped, recorded, asker>>

\* createBatch skips an id already taken.
CreateBatch(k) ==
    /\ check[k].at = "decided"
    /\ LET runs == check[k].plan
           named(id) == {n \in check[k].fresh : runs[n].id = id} IN
       inst' = [id \in Id |->
                  IF inst[id].status = "none" /\ named(id) # {}
                  THEN NewRun(id, runs[CHOOSE n \in named(id) : TRUE].phones, FALSE)
                  ELSE inst[id]]
    /\ check' = [check EXCEPT ![k].at = "created", ![k].fresh = {}]
    /\ UNCHANGED <<held, jobs, faults, late, feed, listed, dropped, recorded, asker>>

\* restart runs an instance again from its first step, with the payload it was
\* created with; a job it awaited is awaited no longer.
Restart(k) ==
    /\ check[k].at = "created" /\ check[k].restart # {}
    /\ LET next == Min(check[k].restart)
           id == check[k].plan[next].id
           left == {j \in jobs : j.in[1] = id /\ j.awaited}
       IN  /\ inst' = [inst EXCEPT ![id] = NewRun(id, @.phones, TRUE)]
           /\ jobs' = (jobs \ left) \cup {Job(j.in, FALSE) : j \in left}
           /\ check' = [check EXCEPT ![k].restart = @ \ {next}]
    /\ UNCHANGED <<held, faults, late, feed, listed, dropped, recorded, asker>>

\* Mutant: an ended check taken for a live one.
EndedLive(k) ==
    /\ check' = [check EXCEPT ![k] = NoCheck]
    /\ UNCHANGED recorded

Ended(k) ==
    /\ check' = [check EXCEPT ![k] = NoCheck]
    /\ recorded' = IF recorded = k THEN 0 ELSE recorded

EndCheck(k) ==
    /\ check[k].at = "created" /\ check[k].restart = {}
    /\ Ended(k)
    /\ UNCHANGED <<unitVars, feed, listed, dropped, asker>>

\* A step of the check fails: it runs again from its start, or ends the check.
\* The IPSW feed plans in one step, the Galaxy feed in steps that are kept.
RetryFrom(at) ==
    CASE at = "new"   -> "new"
      [] at = "asked" -> IF feed = "ios-build" THEN "new" ELSE "asked"
      [] OTHER        -> "planned"

CheckFails(k) ==
    /\ CheckLive(k)
    /\ Fault
    /\ \/ /\ check' = [check EXCEPT ![k].at = RetryFrom(@),
                                     ![k].seen = IF RetryFrom(check[k].at) = "new"
                                                 THEN <<>> ELSE @,
                                     ![k].fresh = {}, ![k].restart = {}]
          /\ UNCHANGED recorded
       \/ Ended(k)
    /\ UNCHANGED <<held, inst, jobs, late, feed, listed, dropped, asker>>

--------------------------------------------------------------------------------
CheckStep(k) ==
    \/ ReadFirst(k)
    \/ PlanRuns(k)
    \/ ReadStatuses(k)
    \/ CreateBatch(k)
    \/ Restart(k)
    \/ EndCheck(k)

UnitStep == \/ \E id \in Id : UnitNext(id)
            \/ \E job \in jobs : OrphanEnds(job)

AskerStep(a) ==
    \/ \E k \in Slots : CreateCheck(a, k)
    \/ RecordCheck(a)

Next ==
    \/ \E b \in Builds, p \in Phones : List(b, p) \/ Delist(b, p)
    \/ \E a \in Askers :
          (\E rebuild \in Rebuilds, only \in Onlys : Ask(a, rebuild, only)) \/ AskerStep(a)
    \/ \E k \in Slots : CheckStep(k) \/ CheckFails(k)
    \/ UnitStep /\ UNCHANGED checkVars

(****************************************************************************)
(* Cron asks again and again, and the Workflow engine carries instances on: *)
(* some one that can go on, which is each, since each has its last step.    *)
(* Nothing is assumed of what the feeds list, of hands or of faults.        *)
(****************************************************************************)
Fairness ==
    /\ \A a \in Askers : WF_vars(Ask(a, FALSE, Builds)) /\ WF_vars(AskerStep(a))
    /\ \A k \in Slots : WF_vars(CheckStep(k))
    /\ WF_vars((\E id \in Id : Progress(id)) /\ UNCHANGED checkVars)
    /\ WF_vars((\E job \in jobs : OrphanEnds(job)) /\ UNCHANGED checkVars)

Spec == Init /\ [][Next]_vars /\ Fairness

--------------------------------------------------------------------------------
\* The types of the state: records hold phones, plans are functions of places.
TypeOK ==
    /\ UnitsTypeOK
    /\ listed \in [Builds -> SUBSET Phones] /\ dropped \subseteq Builds
    /\ recorded \in 0..CheckSlots
    /\ \A k \in Slots :
          /\ check[k].at \in {"none", "new", "asked", "planned", "decided", "created"}
          /\ \A n \in DOMAIN check[k].plan : check[k].plan[n] \in Run
          /\ check[k].fresh \cup check[k].restart \subseteq DOMAIN check[k].plan

(****************************************************************************)
(* No more builds of a feed may still ask for a container than its share    *)
(* (runs.ts roomFor), whatever a check read before it started what it       *)
(* starts, and whichever records were written meanwhile.  A check counts    *)
(* the live instances its plan names, so two kinds of builds are left out:  *)
(* one the feed dropped, and one whose record an older instance wrote over  *)
(* a newer one, whose live instance the plan may name no more.              *)
(****************************************************************************)
WithinShare ==
    Cardinality({id \in Id : Extracting(id) /\ BuildOf(id) \notin dropped \cup late})
        <= Share[feed]

(****************************************************************************)
(* What apps/extractor/README.md says of the iOS backfill ("never more than *)
(* 3 at once"), pipelines.ts of a feed's instances ("a check keeps it to    *)
(* its CONTAINER_SHARE") and runs.ts of roomFor ("How many of a pipeline's  *)
(* instances may be live"): the share bounds every live instance.           *)
(****************************************************************************)
LiveWithinShare ==
    Cardinality({id \in Id : Extracting(id)}) <= Share[feed]

(****************************************************************************)
(* A build has one instance that may still ask for a container, however its *)
(* IPSWs change while it runs, also where they are taken down and listed    *)
(* again, and whenever older instances write their records again (runs.ts   *)
(* iosRun: "a build has one live instance"): two would extract the same     *)
(* files at once.                                                           *)
(****************************************************************************)
OneExtraction ==
    \A x, y \in Id : x # y /\ BuildOf(x) = BuildOf(y) => ~(Extracting(x) /\ Extracting(y))

(****************************************************************************)
(* An attempt never posts its job into a container that still runs the job  *)
(* of an earlier attempt of the same run (unit.ts containerName), though an *)
(* attempt can fail while its job runs on.  A restarted run starts its      *)
(* names again, and is left out.                                            *)
(****************************************************************************)
OwnContainer ==
    \A x, y \in jobs : x.in = y.in /\ x # y => inst[x.in[1]].restarted

(****************************************************************************)
(* A record loses a phone only by a later attempt of an instance's last     *)
(* step: a build listed for another phone is extracted whole again          *)
(* (architecture.md, Units), so the first write of any instance keeps all   *)
(* that every other one wrote, whichever of them wrote last.  A build the   *)
(* feed dropped a phone of is left out: its record follows what is listed.  *)
(****************************************************************************)
WritesAgain(id) == Finishing(id) /\ inst[id].attempt > 1

RecordsGrow ==
    [][\A b \in Builds \ dropped : held[b] # Nothing =>
          \/ held[b] \subseteq held'[b]
          \/ \E id \in Id : /\ BuildOf(id) = b /\ WritesAgain(id)
                            /\ held'[b] = inst[id].phones]_held

(****************************************************************************)
(* A unit that completed is not started again (runs.ts: "a planned unit is  *)
(* never started twice"), even where a check's start step runs again or its *)
(* statuses were read before the unit ended.                                *)
(****************************************************************************)
NeverAgain ==
    [][\A id \in Id : inst[id].status = "complete" => inst'[id].status = "complete"]_inst

(****************************************************************************)
(* What runs.ts says of an instance's id: "a held iOS build adds its held   *)
(* phones' digest, so a phone listed for it plans it again".  A build       *)
(* listed for a phone its record lacks is one whose instance can still be   *)
(* started, or is live, or failed; one that completed never runs again.     *)
(****************************************************************************)
PlannedAgain ==
    \A b \in Builds : Lacks(b, held[b], listed[b]) =>
        inst[InstanceId(b, held[b])].status # "complete"

(****************************************************************************)
(* Every phone a build is listed for is in its record at last, or the       *)
(* build's instance failed for good: no unit waits for room for ever, and   *)
(* one a server's bursts ended is started again.  A build of which a phone  *)
(* was dropped, or whose record was written late, may be one PlannedAgain   *)
(* fails for, and is left out.                                              *)
(****************************************************************************)
HeldOrFailed(b) ==
    \/ ~Lacks(b, held[b], listed[b])
    \/ inst[InstanceId(b, held[b])].status = "errored"

EventuallyHeld == <>[](\A b \in Builds \ (dropped \cup late) : HeldOrFailed(b))

================================================================================
