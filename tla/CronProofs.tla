------------------------------- MODULE CronProofs -------------------------------
(* What the feed checks keep where they are asked for as cron asks, for any *)
(* builds, phones, listings, share and faults: WithinShare, OneExtraction   *)
(* and RecordsGrow.                                                         *)
EXTENDS ChecksProofs

(* One asks for checks at a time, of every build, to rebuild nothing. *)
AsCron == OneAsker /\ Rebuilds \subseteq {FALSE} /\ Onlys \subseteq {Builds}

(* A build of which the feed dropped no phone, and one whose record was not *)
(* written late either.  A build that is not one never is again.            *)
Undropped(b) == b \notin dropped

Steady(b) == b \notin dropped \cup late

(* An instance that had all its steps done. *)
Over(id) == inst[id].status \in {"complete", "errored"} \/ Finishing(id)

(* The instances that WithinShare counts. *)
Counts(id) == Extracting(id) /\ Steady(BuildOf(id))

(* The instance a plan would name for a build. *)
Current(b) == InstanceId(b, held[b])

(* What an instance or a plan has is listed, unless it was dropped, and was *)
(* what its build lacked.                                                   *)
Payload(id, phones) ==
  /\ FeedOf(BuildOf(id)) = feed
  /\ phones \in SUBSET Phones /\ phones # {}
  /\ Undropped(BuildOf(id)) => phones \subseteq listed[BuildOf(id)]
  /\ BuildOf(id) \in IosBuilds => Lacks(BuildOf(id), id[2], phones)

UnitsListed == \A id \in Id : inst[id].status # "none" => Payload(id, inst[id].phones)

(* A steady build's instance that may still ask for a container, or ended   *)
(* by a burst, is the current one.                                          *)
NamedInTime(id) ==
  Steady(BuildOf(id)) /\ (Extracting(id) \/ inst[id].status = "refused") => id = Current(BuildOf(id))

Named == \A id \in Id : NamedInTime(id)

GalaxyHeld ==
  \A b \in GalaxyBuilds : held[b] # Nothing =>
    Over(<<b, Nothing>>) /\ held[b] = inst[<<b, Nothing>>].phones

HeldInv == UnitsListed /\ Named /\ GalaxyHeld

AskedByCron == \A a \in Askers : asker[a].at = "asking" => ~asker[a].rebuild /\ asker[a].only = Builds

(* What a check read of a steady build is what its record holds, or over;   *)
(* it saw every instance that counts.                                       *)
ReadInTime(k) ==
  check[k].at = "asked" =>
    IF feed = "ios-build"
    THEN /\ \A b \in IosBuilds : Steady(b) =>
              check[k].seen[b] = held[b] \/ Over(<<b, check[k].seen[b]>>)
         /\ \A id \in Id : Counts(id) => id[2] = check[k].seen[BuildOf(id)]
    ELSE /\ \A b \in Builds : Undropped(b) => check[k].seen[b] \subseteq listed[b]
         /\ \A id \in Id : Counts(id) => check[k].seen[BuildOf(id)] # {}

(* What a check planned of a steady build is current, or over; it has every *)
(* instance that counts.                                                    *)
PlanCurrent(k) ==
  \A n \in DOMAIN check[k].plan : LET id == check[k].plan[n].id IN
    /\ Payload(id, check[k].plan[n].phones)
    /\ Steady(BuildOf(id)) => id = Current(BuildOf(id)) \/ Over(id)

PlanHasAll(k) ==
  check[k].at \in {"planned", "decided", "created"} =>
    \A id \in Id : Counts(id) => \E n \in DOMAIN check[k].plan : check[k].plan[n].id = id

CheckInTime(k) ==
  /\ CheckLive(k) => ~check[k].rebuild /\ check[k].only = Builds
  /\ ReadInTime(k) /\ PlanCurrent(k) /\ PlanHasAll(k)

ChecksInTime == \A k \in Slots : CheckInTime(k)

(* The instances that count and those being started that will. *)
ToStart(k) == {check[k].plan[n].id : n \in check[k].fresh \cup check[k].restart}

Busy == {id \in {x \in Id : Extracting(x)} \cup UNION {ToStart(k) : k \in Slots} : Steady(BuildOf(id))}

ShareKept == IsFiniteSet(Busy) /\ Cardinality(Busy) <= Share[feed]

InTime == HeldInv /\ AskedByCron /\ ChecksInTime /\ ShareKept

CronInv == CheckInv /\ InTime

-----------------------------------------------------------------------------
(* Steps of instances keep HeldInv. *)

LEMMA TypesOfCron ==
  ASSUME CronInv
  PROVE  /\ UnitTypes /\ CheckTypes /\ StepsOwn /\ JobsKept /\ PlansPlaced /\ UnitInv
         /\ OneCheck /\ RestartsEnded
         /\ held \in [Builds -> Record] /\ inst \in [Id -> Instance]
         /\ check \in [Slots -> Checking] /\ listed \in [Builds -> SUBSET Phones]
  BY DEF CronInv, CheckInv, UnitInv, UnitTypes, CheckTypes

LEMMA CurrentOf ==
  ASSUME NEW b \in Builds, NEW record \in Record
  PROVE  /\ InstanceId(b, record) \in Id /\ BuildOf(InstanceId(b, record)) = b
         /\ b \in IosBuilds => InstanceId(b, record) = <<b, record>> /\ InstanceId(b, record)[2] = record
         /\ b \in GalaxyBuilds => InstanceId(b, record) = <<b, Nothing>>
  BY UnitsAssumption DEF InstanceId, Id, BuildOf, Builds, Record

(* A record changes only by an instance's last step, and a steady build's   *)
(* only by its current instance's.                                          *)
LEMMA Written ==
  ASSUME CronInv, NEW x \in Id, Moved(x), NEW b \in Builds, held'[b] # held[b]
  PROVE  /\ BuildOf(x) = b /\ Finishing(x) /\ inst[x].at = "ready" /\ held'[b] = inst[x].phones
         /\ inst'[x].phones = inst[x].phones /\ inst'[x].status = "running" /\ inst'[x].left = {}
         /\ Steady(b)' => x = Current(b)
<1>1. /\ inst[x].left = {} /\ inst[x].at = "ready" /\ inst'[x].status = "running"
      /\ held' = [held EXCEPT ![BuildOf(x)] = inst[x].phones]
      /\ late' = IF WritesLate(x) THEN late \cup {BuildOf(x)} ELSE late
      /\ inst[x].status = "running" /\ inst'[x].left = {} /\ inst'[x].phones = inst[x].phones
  BY DEF Moved
<1>2. b = BuildOf(x) /\ held'[b] = inst[x].phones
  BY <1>1, TypesOfCron
<1>3. Finishing(x)
  BY <1>1 DEF Finishing, Live, AtLastStep
<1>4. ASSUME b \notin late' PROVE x = Current(b)
  <2>1. ~WritesLate(x)
    BY <1>1, <1>2, <1>4
  <2>2. CASE b \in IosBuilds
    <3>1. held[b] = x[2]
      BY <1>2, <2>1, <2>2 DEF WritesLate
    <3>2. x = <<b, held[b]>>
      BY <1>2, <2>2, <3>1, UnitsAssumption DEF Id, BuildOf
    <3> QED BY <2>2, <3>2 DEF Current, InstanceId
  <2>3. CASE b \in GalaxyBuilds
    <3>1. x = <<b, Nothing>> /\ b \notin IosBuilds
      BY <1>2, <2>3, UnitsAssumption DEF Id, BuildOf
    <3> QED BY <3>1 DEF Current, InstanceId
  <2> QED BY <2>2, <2>3 DEF Builds
<1>5. Steady(b)' => b \notin late'
  BY DEF Steady
<1> QED BY <1>1, <1>2, <1>3, <1>4, <1>5

(* Late builds are late for good. *)
LEMMA LateByMove == ASSUME NEW x \in Id, Moved(x) PROVE late \subseteq late'
  BY DEF Moved

LEMMA OverByMove ==
  ASSUME NEW x \in Id, Moved(x), NEW id \in Id
  PROVE  /\ Over(id) => Over(id)'
         /\ Extracting(id)' => Extracting(id)
         /\ Finishing(id)' => Finishing(id) \/ (id = x /\ Extracting(id))
         /\ inst'[id].phones = inst[id].phones
         /\ inst'[id].status # "none" => inst[id].status # "none"
         /\ inst'[id].status = "refused" => inst[id].status = "refused" \/ Extracting(id)
<1>1. CASE id # x
  <2>1. inst'[id] = inst[id]
    BY <1>1 DEF Moved
  <2> QED BY <2>1 DEF Over, Finishing, Extracting, Live, AtLastStep
<1>2. CASE id = x /\ inst[x].left = {}
  <2>1. /\ inst[x].status = "running" /\ inst'[x].left = {} /\ inst'[x].phones = inst[x].phones
        /\ inst'[x].status \in {"running", "complete", "errored"}
    BY <1>2 DEF Moved
  <2> QED BY <1>2, <2>1 DEF Over, Finishing, Extracting, Live, AtLastStep
<1>3. CASE id = x /\ inst[x].left # {}
  <2>1. inst[x].status = "running" /\ inst'[x].phones = inst[x].phones
    BY <1>3 DEF Moved
  <2> QED BY <1>3, <2>1 DEF Over, Finishing, Extracting, Live, AtLastStep
<1> QED BY <1>1, <1>2, <1>3

LEMMA NamedByMove ==
  ASSUME CronInv, NEW x \in Id, Moved(x), UNCHANGED dropped
  PROVE  Named'
<1> SUFFICES ASSUME NEW id \in Id, Steady(BuildOf(id))', Extracting(id)' \/ inst'[id].status = "refused"
             PROVE  id = Current(BuildOf(id))'
  BY DEF Named, NamedInTime
<1>0. BuildOf(id) \in Builds /\ Steady(BuildOf(id))
  BY IdOfBuild, LateByMove DEF Steady
<1>1. id = Current(BuildOf(id)) /\ (Extracting(id) \/ inst[id].status = "refused")
  BY <1>0, OverByMove DEF CronInv, InTime, HeldInv, Named, NamedInTime
<1>2. held'[BuildOf(id)] = held[BuildOf(id)]
  <2> SUFFICES ASSUME held'[BuildOf(id)] # held[BuildOf(id)] PROVE FALSE
    OBVIOUS
  <2>1. x = Current(BuildOf(id)) /\ Finishing(x)
    BY <1>0, Written
  <2> QED BY <1>1, <2>1 DEF Finishing, Extracting, Live
<1> QED BY <1>1, <1>2 DEF Current

LEMMA HeldInvByMove ==
  ASSUME CronInv, NEW x \in Id, Moved(x), UNCHANGED <<feed, listed, dropped>>
  PROVE  HeldInv'
<1>1. UnitsListed'
  <2> SUFFICES ASSUME NEW id \in Id, inst'[id].status # "none" PROVE Payload(id, inst[id].phones)'
    BY DEF UnitsListed
  <2>1. Payload(id, inst[id].phones) /\ inst'[id].phones = inst[id].phones
    BY OverByMove DEF CronInv, InTime, HeldInv, UnitsListed
  <2> QED BY <2>1 DEF Payload, Undropped
<1>2. Named'
  BY NamedByMove
<1>3. GalaxyHeld'
  <2> SUFFICES ASSUME NEW b \in GalaxyBuilds, held'[b] # Nothing
               PROVE  Over(<<b, Nothing>>)' /\ held'[b] = inst'[<<b, Nothing>>].phones
    BY DEF GalaxyHeld
  <2>0. b \in Builds /\ <<b, Nothing>> \in Id
    BY DEF Builds, Id
  <2>1. CASE held'[b] = held[b]
    BY <2>0, <2>1, OverByMove DEF CronInv, InTime, HeldInv, GalaxyHeld
  <2>2. CASE held'[b] # held[b]
    <3>1. BuildOf(x) = b /\ Finishing(x) /\ held'[b] = inst'[x].phones
      BY <2>0, <2>2, Written
    <3>2. x = <<b, Nothing>>
      BY <3>1, IdOfBuild DEF BuildOf
    <3> QED BY <2>0, <3>1, <3>2, OverByMove DEF Over
  <2> QED BY <2>1, <2>2
<1> QED BY <1>1, <1>2, <1>3 DEF HeldInv

-----------------------------------------------------------------------------
(* What a step is to check k, where what is over stays over, and a record   *)
(* changes only under the instance that is over by it.                      *)

Settles ==
  /\ UNCHANGED feed
  /\ dropped \subseteq dropped' /\ late \subseteq late'
  /\ \A b \in Builds : Undropped(b)' => listed[b] \subseteq listed'[b]
  /\ \A b \in Builds : Steady(b)' => held'[b] = held[b] \/ \E id \in Id : id = Current(b) /\ Over(id)'
  /\ \A id \in Id : Over(id) => Over(id)'

LEMMA SteadyStays ==
  ASSUME Settles, NEW b
  PROVE  (Undropped(b)' => Undropped(b)) /\ (Steady(b)' => Steady(b) /\ Undropped(b)')
  BY DEF Settles, Steady, Undropped

LEMMA PayloadStays ==
  ASSUME Settles, NEW id \in Id, NEW phones, Payload(id, phones)
  PROVE  Payload(id, phones)'
<1>1. BuildOf(id) \in Builds /\ (Undropped(BuildOf(id))' => Undropped(BuildOf(id)))
  BY IdOfBuild, SteadyStays
<1> QED BY <1>1 DEF Payload, Settles

LEMMA CurrentOrOver ==
  ASSUME CronInv, Settles, NEW id \in Id, Steady(BuildOf(id))', id = Current(BuildOf(id)) \/ Over(id)
  PROVE  id = Current(BuildOf(id))' \/ Over(id)'
<1>1. BuildOf(id) \in Builds
  BY IdOfBuild
<1>2. CASE Over(id)
  BY <1>2 DEF Settles
<1>3. CASE id = Current(BuildOf(id)) /\ held'[BuildOf(id)] = held[BuildOf(id)]
  BY <1>3 DEF Current
<1>4. CASE id = Current(BuildOf(id)) /\ held'[BuildOf(id)] # held[BuildOf(id)]
  BY <1>1, <1>4 DEF Settles
<1> QED BY <1>2, <1>3, <1>4

LEMMA PlanStaysCurrent ==
  ASSUME CronInv, Settles, NEW k \in Slots, check'[k].plan = check[k].plan
  PROVE  PlanCurrent(k)'
<1> SUFFICES ASSUME NEW n \in DOMAIN check[k].plan, NEW id, id = check[k].plan[n].id
             PROVE  /\ Payload(id, check[k].plan[n].phones)'
                    /\ Steady(BuildOf(id))' => id = Current(BuildOf(id))' \/ Over(id)'
  BY DEF PlanCurrent
<1>1. id \in Id
  BY PlanBuilds, TypesOfCron
<1>2. /\ Payload(id, check[k].plan[n].phones)
      /\ Steady(BuildOf(id)) => id = Current(BuildOf(id)) \/ Over(id)
  BY DEF CronInv, InTime, ChecksInTime, CheckInTime, PlanCurrent
<1>3. PICK phones : phones = check[k].plan[n].phones
  OBVIOUS
<1>4. Payload(id, phones)'
  BY <1>1, <1>2, <1>3, PayloadStays
<1>5. check'[k].plan[n].phones = phones
  BY <1>3
<1>6. Steady(BuildOf(id))' => id = Current(BuildOf(id))' \/ Over(id)'
  BY <1>1, <1>2, SteadyStays, CurrentOrOver
<1> QED BY <1>4, <1>5, <1>6 DEF Payload

LEMMA SlotStays ==
  ASSUME CronInv, Settles, NEW k \in Slots, check'[k] = check[k],
         check[k].at # "none" => \A id \in Id : Counts(id)' => Counts(id)
  PROVE  CheckInTime(k)'
<1>0. CheckInTime(k) /\ UnitInv /\ feed' = feed /\ held \in [Builds -> Record]
      /\ (check[k].at = "asked" /\ feed = "ios-build" => check[k].seen \in [Builds -> Record])
  BY TypesOfCron DEF CronInv, InTime, ChecksInTime, CheckTypes, Settles
<1>1. ReadInTime(k)'
  <2> SUFFICES ASSUME check[k].at = "asked" PROVE ReadInTime(k)'
    BY DEF ReadInTime
  <2>1. CASE feed = "ios-build"
    <3>1. ASSUME NEW b \in IosBuilds, Steady(b)'
          PROVE  check[k].seen[b] = held'[b] \/ Over(<<b, check[k].seen[b]>>)'
      <4>0. b \in Builds /\ Steady(b)
        BY <3>1, SteadyStays DEF Builds
      <4>1. check[k].seen[b] = held[b] \/ Over(<<b, check[k].seen[b]>>)
        BY <1>0, <2>1, <4>0 DEF CheckInTime, ReadInTime
      <4>2. PICK id \in Id : id = <<b, check[k].seen[b]>> /\ BuildOf(id) = b
        BY <1>0, <2>1, <4>0, CurrentOf
      <4>3. Over(id) => Over(id)'
        BY DEF Settles
      <4>4. held'[b] = held[b] \/ (\E x \in Id : x = <<b, held[b]>> /\ Over(x)')
        BY <1>0, <3>1, <4>0, CurrentOf DEF Settles, Current
      <4> QED BY <4>0, <4>1, <4>2, <4>3, <4>4 DEF Settles
    <3>2. ASSUME NEW id \in Id, Counts(id)' PROVE id[2] = check[k].seen[BuildOf(id)]
      BY <1>0, <2>1, <3>2 DEF CheckInTime, ReadInTime
    <3> QED BY <1>0, <2>1, <3>1, <3>2 DEF ReadInTime
  <2>2. CASE feed # "ios-build"
    <3>1. ASSUME NEW b \in Builds, Undropped(b)' PROVE check[k].seen[b] \subseteq listed'[b]
      <4>1. Undropped(b)
        BY <3>1, SteadyStays
      <4>2. check[k].seen[b] \subseteq listed[b]
        BY <1>0, <2>2, <4>1 DEF CheckInTime, ReadInTime
      <4> QED BY <3>1, <4>2 DEF Settles
    <3>2. ASSUME NEW id \in Id, Counts(id)' PROVE check[k].seen[BuildOf(id)] # {}
      BY <1>0, <2>2, <3>2 DEF CheckInTime, ReadInTime
    <3> QED BY <1>0, <2>2, <3>1, <3>2 DEF ReadInTime
  <2> QED BY <2>1, <2>2
<1>2. PlanCurrent(k)' /\ PlanHasAll(k)'
  <2>1. PlanCurrent(k)'
    BY PlanStaysCurrent
  <2>2. ASSUME check[k].at \in {"planned", "decided", "created"}, NEW id \in Id, Counts(id)'
        PROVE  \E n \in DOMAIN check[k].plan : check[k].plan[n].id = id
    BY <1>0, <2>2 DEF CheckInTime, PlanCurrent, PlanHasAll
  <2> QED BY <2>1, <2>2 DEF PlanHasAll
<1>3. CheckLive(k)' => ~check'[k].rebuild /\ check'[k].only = Builds
  BY <1>0 DEF CheckInTime, CheckLive
<1> QED BY <1>1, <1>2, <1>3 DEF CheckInTime

(* The instances that count and those being started stay among what they    *)
(* were.                                                                    *)
Starting == UNION {ToStart(k) : k \in Slots}

LEMMA ShareStays ==
  ASSUME CronInv, Settles, \A id \in Id : Counts(id)' => Counts(id) \/ id \in Starting,
         \A k \in Slots : \A n \in check'[k].fresh \cup check'[k].restart : check'[k].plan[n].id \in Starting
  PROVE  ShareKept'
<1>0. UNCHANGED feed
  BY DEF Settles
<1>1. Busy' \in SUBSET Busy
  <2> SUFFICES ASSUME NEW id, (id \in Id /\ Extracting(id)') \/ id \in Starting', Steady(BuildOf(id))'
               PROVE  id \in Busy
    BY DEF Busy, Starting
  <2>1. Steady(BuildOf(id))
    BY SteadyStays
  <2>2. (id \in Id /\ Extracting(id)) \/ id \in Starting
    BY DEF Counts, Starting, ToStart
  <2> QED BY <2>1, <2>2 DEF Busy, Starting
<1>2. IsFiniteSet(Busy) /\ Cardinality(Busy) <= Share[feed] /\ Share[feed] \in Nat
  BY ChecksAssumption, TypesOfCron DEF CronInv, InTime, ShareKept, CheckTypes
<1>3. IsFiniteSet(Busy') /\ Cardinality(Busy') <= Cardinality(Busy)
  BY <1>1, <1>2, FS_Subset
<1>4. Cardinality(Busy) \in Nat /\ Cardinality(Busy') \in Nat
  BY <1>2, <1>3, FS_CardinalityType
<1> QED BY <1>0, <1>2, <1>3, <1>4 DEF ShareKept

LEMMA OfStarting ==
  \A k \in Slots : \A n \in check[k].fresh \cup check[k].restart : check[k].plan[n].id \in Starting
  BY DEF Starting, ToStart

LEMMA StillInTime ==
  ASSUME CronInv, UNCHANGED <<held, inst, late, feed>>, dropped \subseteq dropped',
         \A b \in Builds : Undropped(b)' => listed[b] \subseteq listed'[b]
  PROVE  HeldInv' /\ Settles /\ \A id \in Id : Counts(id)' => Counts(id)
<1>1. Settles
  BY DEF Settles, Over, Finishing, Live, AtLastStep
<1>2. \A id \in Id : Counts(id)' => Counts(id)
  BY <1>1, SteadyStays DEF Counts, Extracting, Live, AtLastStep
<1>3. UnitsListed'
  <2>2. ASSUME NEW id \in Id, inst[id].status # "none", NEW phones, phones = inst[id].phones
        PROVE  Payload(id, phones)'
    BY <1>1, <2>2, PayloadStays DEF CronInv, InTime, HeldInv, UnitsListed
  <2>3. ASSUME NEW id \in Id, inst'[id].status # "none" PROVE Payload(id, inst[id].phones)'
    BY <2>2, <2>3 DEF Payload
  <2> QED BY <2>3 DEF UnitsListed
<1>4. Named'
  <2> SUFFICES ASSUME NEW id \in Id, Steady(BuildOf(id))', Extracting(id)' \/ inst'[id].status = "refused"
               PROVE  id = Current(BuildOf(id))'
    BY DEF Named, NamedInTime
  <2>1. Steady(BuildOf(id))
    BY <1>1, SteadyStays
  <2>2. Extracting(id) \/ inst[id].status = "refused"
    BY DEF Extracting, Live, AtLastStep
  <2> QED BY <2>1, <2>2 DEF CronInv, InTime, HeldInv, Named, NamedInTime, Current
<1>5. GalaxyHeld'
  BY DEF CronInv, InTime, HeldInv, GalaxyHeld, Over, Finishing, Live, AtLastStep
<1> QED BY <1>1, <1>2, <1>3, <1>4, <1>5 DEF HeldInv

LEMMA MoveInTime ==
  ASSUME CronInv, UNCHANGED checkVars,
         UNCHANGED <<held, late, inst>> \/ \E x \in Id : Moved(x)
  PROVE  InTime'
<1>0. UNCHANGED <<feed, listed, dropped, check, asker>>
  BY DEF checkVars
<1>1. AskedByCron'
  BY <1>0 DEF CronInv, InTime, AskedByCron
<1>2. ASSUME HeldInv', Settles, \A id \in Id : Counts(id)' => Counts(id) PROVE InTime'
  <2>1. ChecksInTime'
    BY <1>0, <1>2, SlotStays DEF ChecksInTime
  <2>2. ShareKept'
    BY <1>0, <1>2, OfStarting, ShareStays
  <2> QED BY <1>1, <1>2, <2>1, <2>2 DEF InTime
<1>3. CASE UNCHANGED <<held, late, inst>>
  BY <1>0, <1>2, <1>3, StillInTime
<1>4. ASSUME NEW x \in Id, Moved(x) PROVE InTime'
  <2>1. HeldInv'
    BY <1>0, <1>4, HeldInvByMove
  <2>2. Settles
    <3>1. ASSUME NEW b \in Builds, Steady(b)', held'[b] # held[b] PROVE x = Current(b) /\ Over(x)'
      BY <1>4, <3>1, Written, OverByMove DEF Over
    <3>2. late \subseteq late'
      BY <1>4, LateByMove
    <3> QED BY <1>0, <1>4, <3>1, <3>2, OverByMove DEF Settles
  <2>3. \A id \in Id : Counts(id)' => Counts(id)
    BY <1>4, <2>2, OverByMove, SteadyStays DEF Counts
  <2> QED BY <1>2, <2>1, <2>2, <2>3
<1> QED BY <1>3, <1>4

-----------------------------------------------------------------------------
(* Steps that leave instances and records. *)

LEMMA ListInTime ==
  ASSUME CronInv, NEW b \in Builds, NEW p \in Phones, List(b, p) \/ Delist(b, p)
  PROVE  InTime'
<1>1. /\ UNCHANGED <<held, inst, late, feed, check, asker>> /\ dropped \subseteq dropped'
      /\ \A c \in Builds : Undropped(c)' => listed[c] \subseteq listed'[c]
  <2>1. CASE List(b, p)
    <3>1. /\ UNCHANGED <<held, inst, late, feed, dropped, check, asker>>
          /\ listed' = [listed EXCEPT ![b] = listed[b] \cup {p}]
      BY <2>1 DEF List, unitVars
    <3> QED BY <3>1, TypesOfCron
  <2>2. CASE Delist(b, p)
    <3>1. /\ UNCHANGED <<held, inst, late, feed, check, asker>> /\ dropped' = dropped \cup {b}
          /\ listed' = [listed EXCEPT ![b] = listed[b] \ {p}]
      BY <2>2 DEF Delist
    <3> QED BY <3>1, TypesOfCron DEF Undropped
  <2> QED BY <2>1, <2>2
<1>3. HeldInv' /\ Settles /\ \A id \in Id : Counts(id)' => Counts(id)
  BY <1>1, StillInTime
<1>4. ChecksInTime'
  BY <1>1, <1>3, SlotStays DEF ChecksInTime
<1>5. ShareKept'
  BY <1>1, <1>3, OfStarting, ShareStays
<1>6. AskedByCron'
  BY <1>1 DEF CronInv, InTime, AskedByCron
<1> QED BY <1>3, <1>4, <1>5, <1>6 DEF InTime

(* A step of check k alone. *)
LEMMA CheckAlone ==
  ASSUME CronInv, UNCHANGED <<held, inst, late, feed, listed, dropped>>, AskedByCron', NEW k \in Slots,
         CheckInTime(k)', \A l \in Slots : l # k => check'[l] = check[l],
         \A n \in check'[k].fresh \cup check'[k].restart : check'[k].plan[n].id \in Starting
  PROVE  InTime'
<1>1. HeldInv' /\ Settles /\ \A id \in Id : Counts(id)' => Counts(id)
  BY StillInTime
<1>2. ChecksInTime'
  BY <1>1, SlotStays DEF ChecksInTime
<1>3. ShareKept'
  BY <1>1, OfStarting, ShareStays
<1> QED BY <1>1, <1>2, <1>3 DEF InTime

LEMMA AskerInTime ==
  ASSUME AsCron, CronInv, NEW a \in Askers,
         AskerStep(a) \/ \E rebuild \in Rebuilds, only \in Onlys : Ask(a, rebuild, only)
  PROVE  InTime'
<1>0. asker \in [Askers -> Asking] /\ check \in [Slots -> Checking]
  BY TypesOfCron DEF CheckTypes
<1>1. ASSUME UNCHANGED <<unitVars, feed, listed, dropped, check>>, AskedByCron' PROVE InTime'
  <2>1. HeldInv' /\ Settles /\ \A id \in Id : Counts(id)' => Counts(id)
    BY <1>1, StillInTime DEF unitVars
  <2>2. ChecksInTime'
    BY <1>1, <2>1, SlotStays DEF ChecksInTime
  <2>3. ShareKept'
    BY <1>1, <2>1, OfStarting, ShareStays
  <2> QED BY <1>1, <2>1, <2>2, <2>3 DEF InTime
<1>2. ASSUME NEW rebuild \in Rebuilds, NEW only \in Onlys, Ask(a, rebuild, only) PROVE InTime'
  <2>1. /\ UNCHANGED <<unitVars, feed, listed, dropped, check>>
        /\ asker' = [asker EXCEPT ![a] = [at |-> "asking", rebuild |-> rebuild, only |-> only]]
    BY <1>2 DEF Ask
  <2>2. ~rebuild /\ only = Builds
    BY DEF AsCron
  <2>3. [at |-> "asking", rebuild |-> rebuild, only |-> only].rebuild = rebuild
        /\ [at |-> "asking", rebuild |-> rebuild, only |-> only].only = only
    OBVIOUS
  <2>4. \A c \in Askers : asker'[c] = IF c = a THEN [at |-> "asking", rebuild |-> rebuild, only |-> only]
                                               ELSE asker[c]
    BY <1>0, <2>1
  <2>5. AskedByCron'
    BY <2>2, <2>3, <2>4 DEF CronInv, InTime, AskedByCron
  <2> QED BY <1>1, <2>1, <2>5
<1>3. CASE RecordCheck(a)
  <2>1. UNCHANGED <<unitVars, feed, listed, dropped, check>> /\ asker' = [asker EXCEPT ![a] = [at |-> "idle"]]
    BY <1>3 DEF RecordCheck
  <2>2. AskedByCron'
    BY <1>0, <2>1 DEF CronInv, InTime, AskedByCron
  <2> QED BY <1>1, <2>1, <2>2
<1>4. ASSUME NEW k \in Slots, CreateCheck(a, k) PROVE InTime'
  <2>1. /\ UNCHANGED <<held, inst, late, feed, listed, dropped>> /\ asker[a].at = "asking"
        /\ check' = [check EXCEPT ![k] = NewCheck(asker[a].rebuild, asker[a].only)]
        /\ asker' = [asker EXCEPT ![a] = [at |-> "created", slot |-> k]]
    BY <1>4 DEF CreateCheck, unitVars
  <2>2. AskedByCron'
    BY <1>0, <2>1 DEF CronInv, InTime, AskedByCron
  <2>3. ~asker[a].rebuild /\ asker[a].only = Builds
    BY <2>1 DEF CronInv, InTime, AskedByCron
  <2>4. /\ check'[k].at = "new" /\ check'[k].rebuild = asker[a].rebuild
        /\ check'[k].only = asker[a].only /\ DOMAIN check'[k].plan = {}
        /\ check'[k].fresh = {} /\ check'[k].restart = {}
    BY <1>0, <2>1, EmptyPlan DEF NewCheck, NoCheck
  <2>5. CheckInTime(k)'
    BY <2>3, <2>4 DEF CheckInTime, ReadInTime, PlanCurrent, PlanHasAll
  <2>6. \A l \in Slots : l # k => check'[l] = check[l]
    BY <1>0, <2>1
  <2> QED BY <2>1, <2>2, <2>4, <2>5, <2>6, CheckAlone
<1> QED BY <1>2, <1>3, <1>4 DEF AskerStep

LEMMA LaterInTime ==
  ASSUME CronInv, NEW k \in Slots, CheckLive(k), UNCHANGED <<held, inst, late, feed, listed, dropped>>, SameAsk(k),
         check'[k].plan = check[k].plan, ReadInTime(k)',
         check'[k].at \in {"planned", "decided", "created"} =>
           check[k].at \in {"planned", "decided", "created"}
  PROVE  CheckInTime(k)'
<1>0. CheckInTime(k)
  BY DEF CronInv, InTime, ChecksInTime
<1>1. Settles /\ \A id \in Id : Counts(id)' => Counts(id)
  BY StillInTime
<1>2. PlanCurrent(k)'
  BY <1>1, PlanStaysCurrent
<1>3. PlanHasAll(k)'
  BY <1>0, <1>1 DEF CheckInTime, PlanHasAll
<1>4. CheckLive(k)' => ~check'[k].rebuild /\ check'[k].only = Builds
  BY <1>0 DEF CheckInTime, SameAsk
<1> QED BY <1>2, <1>3, <1>4 DEF CheckInTime

LEMMA CountedOf ==
  ASSUME CronInv, NEW id \in Id, Counts(id)
  PROVE  /\ BuildOf(id) \in Builds /\ id = Current(BuildOf(id)) /\ Payload(id, inst[id].phones)
         /\ BuildOf(id) \in IosBuilds <=> feed = "ios-build"
         /\ Undropped(BuildOf(id)) /\ Extracting(id)
<1>1. Payload(id, inst[id].phones) /\ id = Current(BuildOf(id)) /\ BuildOf(id) \in Builds
      /\ Undropped(BuildOf(id)) /\ Extracting(id)
  BY IdOfBuild DEF CronInv, InTime, HeldInv, UnitsListed, Named, NamedInTime, Counts, Extracting, Live,
     Steady, Undropped
<1> QED BY <1>1 DEF Payload, FeedOf

LEMMA ReadInTimeFirst ==
  ASSUME CronInv, AsCron, NEW k \in Slots, ReadFirst(k)
  PROVE  InTime'
<1>1. /\ ChecksTo(k, "asked", ReadOf, check[k].plan, check[k].restart, check[k].fresh) /\ SameAsk(k)
      /\ UNCHANGED <<held, inst, late, feed, listed, dropped, asker>> /\ CheckLive(k)
  BY TypesOfCron, CheckMoves DEF ReadFirst, unitVars, CheckLive
<1>2. check'[k].at = "asked" /\ check'[k].seen = ReadOf
  BY <1>1 DEF ChecksTo
<1>0. \A id \in Id : Counts(id)' => Counts(id)
  BY <1>1, StillInTime
<1>3. ReadInTime(k)'
  <2>1. CASE feed = "ios-build"
    <3>1. check'[k].seen = held /\ feed' = "ios-build" /\ held' = held
      BY <1>1, <1>2, <2>1 DEF ReadOf
    <3>2. ASSUME NEW id \in Id, Counts(id)' PROVE id[2] = held[BuildOf(id)]
      <4>1. BuildOf(id) \in IosBuilds /\ id = Current(BuildOf(id)) /\ BuildOf(id) \in Builds
        BY <1>0, <2>1, <3>2, CountedOf
      <4> QED BY <4>1, CurrentOf, TypesOfCron DEF Current
    <3> QED BY <3>1, <3>2 DEF ReadInTime
  <2>2. CASE feed # "ios-build"
    <3>1. check'[k].seen = listed /\ feed' # "ios-build" /\ listed' = listed
      BY <1>1, <1>2, <2>2 DEF ReadOf
    <3>2. ASSUME NEW id \in Id, Counts(id)' PROVE listed[BuildOf(id)] # {}
      BY <1>0, <3>2, CountedOf DEF Payload
    <3> QED BY <3>1, <3>2 DEF ReadInTime
  <2> QED BY <2>1, <2>2
<1>4. CheckInTime(k)'
  BY <1>1, <1>2, <1>3, LaterInTime DEF ChecksTo
<1>5. AskedByCron'
  BY <1>1 DEF CronInv, InTime, AskedByCron
<1> QED BY <1>1, <1>4, <1>5, OfStarting, CheckAlone DEF ChecksTo

LEMMA PlanInTime ==
  ASSUME CronInv, AsCron, NEW k \in Slots, PlanRuns(k)
  PROVE  InTime'
<1>1. /\ ChecksTo(k, "planned", <<>>, PlanOfCheck(k), check[k].restart, check[k].fresh) /\ SameAsk(k)
      /\ UNCHANGED <<held, inst, late, feed, listed, dropped, asker>> /\ CheckLive(k) /\ check[k].at = "asked"
  BY TypesOfCron, CheckMoves DEF PlanRuns, unitVars, CheckLive
<1>2. CheckInTime(k) /\ ReadInTime(k) /\ check[k].only = Builds /\ ~check[k].rebuild
  BY <1>1 DEF CronInv, InTime, ChecksInTime, CheckInTime
<1>3. check[k].fresh = {} /\ check[k].restart = {}
  BY <1>1, TypesOfCron DEF PlansPlaced
<1>4. check[k].seen \in IF feed = "ios-build" THEN [Builds -> Record] ELSE [Builds -> SUBSET Phones]
  BY <1>1, TypesOfCron DEF CheckTypes
<1>5. \A n \in DOMAIN PlanOfCheck(k) :
        LET id == PlanOfCheck(k)[n].id IN
        /\ Payload(id, PlanOfCheck(k)[n].phones)
        /\ Steady(BuildOf(id)) => id = Current(BuildOf(id)) \/ Over(id)
  <2>1. CASE feed = "ios-build"
    <3> DEFINE plan == Plan(check[k].seen, listed, check[k].only)
               seen == check[k].seen
    <3>0. seen \in [Builds -> Record] /\ listed \in [Builds -> SUBSET Phones] /\ PlanOfCheck(k) = plan
      BY <1>4, <2>1, TypesOfCron DEF PlanOfCheck
    <3> SUFFICES ASSUME NEW n \in DOMAIN plan
                 PROVE  /\ Payload(plan[n].id, plan[n].phones)
                        /\ Steady(BuildOf(plan[n].id)) =>
                             plan[n].id = Current(BuildOf(plan[n].id)) \/ Over(plan[n].id)
      BY <3>0
    <3>1. PICK b \in Builds :
            /\ b = BuildOrder[n] /\ FeedOf(b) = feed /\ Lacks(b, seen[b], listed[b])
            /\ plan[n].id = InstanceId(b, seen[b]) /\ plan[n].phones = listed[b]
      BY <3>0, PlanOf
    <3>2. b \in IosBuilds
      BY <2>1, <3>1 DEF FeedOf
    <3>3. plan[n].id = <<b, seen[b]>> /\ plan[n].id[2] = seen[b] /\ BuildOf(plan[n].id) = b
      BY <3>0, <3>1, <3>2, CurrentOf
    <3>4. Steady(b) => seen[b] = held[b] \/ Over(<<b, seen[b]>>)
      BY <1>1, <1>2, <2>1, <3>2 DEF ReadInTime
    <3>5. listed[b] # {} /\ listed[b] \in SUBSET Phones
      BY <3>0, <3>1 DEF Lacks
    <3>6. Payload(plan[n].id, plan[n].phones)
      BY <3>1, <3>3, <3>5 DEF Payload
    <3>7. seen[b] = held[b] => plan[n].id = Current(b)
      BY <3>1 DEF Current
    <3> QED BY <3>3, <3>4, <3>6, <3>7
  <2>2. CASE feed # "ios-build"
    <3> DEFINE plan == Plan(held, check[k].seen, check[k].only)
               seen == check[k].seen
    <3>0. seen \in [Builds -> SUBSET Phones] /\ held \in [Builds -> Record] /\ PlanOfCheck(k) = plan
      BY <1>4, <2>2, TypesOfCron DEF PlanOfCheck
    <3> SUFFICES ASSUME NEW n \in DOMAIN plan
                 PROVE  /\ Payload(plan[n].id, plan[n].phones)
                        /\ plan[n].id = Current(BuildOf(plan[n].id))
      BY <3>0
    <3>1. PICK b \in Builds :
            /\ b = BuildOrder[n] /\ FeedOf(b) = feed /\ Lacks(b, held[b], seen[b])
            /\ plan[n].id = InstanceId(b, held[b]) /\ plan[n].phones = seen[b]
      BY <3>0, PlanOf
    <3>2. b \notin IosBuilds
      BY <2>2, <3>1 DEF FeedOf
    <3>3. BuildOf(plan[n].id) = b
      BY <3>0, <3>1, CurrentOf
    <3>4. Undropped(b) => seen[b] \subseteq listed[b]
      BY <1>1, <1>2, <2>2 DEF ReadInTime
    <3>5. seen[b] # {} /\ seen[b] \in SUBSET Phones
      BY <3>0, <3>1 DEF Lacks
    <3> QED BY <3>1, <3>2, <3>3, <3>4, <3>5 DEF Payload, Current
  <2> QED BY <2>1, <2>2
<1>6. ASSUME NEW id \in Id, Counts(id) PROVE \E n \in DOMAIN PlanOfCheck(k) : PlanOfCheck(k)[n].id = id
  <2> DEFINE b == BuildOf(id)
  <2>0. /\ b \in Builds /\ id = Current(b) /\ Payload(id, inst[id].phones)
        /\ b \in IosBuilds <=> feed = "ios-build"
        /\ Undropped(b) /\ Extracting(id)
    BY <1>6, CountedOf
  <2>1. PICK n \in DOMAIN BuildOrder : BuildOrder[n] = b
    BY <2>0, ChecksAssumption
  <2>. HIDE DEF b
  <2>2. CASE feed = "ios-build"
    <3>1. check[k].seen \in [Builds -> Record] /\ listed \in [Builds -> SUBSET Phones]
      BY <1>4, <2>2, TypesOfCron
    <3>2. id[2] = check[k].seen[b]
      BY <1>1, <1>2, <1>6, <2>2 DEF ReadInTime, b
    <3>3. Lacks(b, id[2], inst[id].phones) /\ inst[id].phones \subseteq listed[b]
      BY <2>0, <2>2 DEF Payload, b
    <3>4. Lacks(b, check[k].seen[b], listed[b])
      BY <3>2, <3>3 DEF Lacks
    <3>5. id = InstanceId(b, check[k].seen[b])
      BY <2>0, <2>2, <3>1, <3>2, CurrentOf, IdOfBuild DEF b, BuildOf
    <3>6. FeedOf(b) = feed
      BY <2>0 DEF Payload, b
    <3>7. PlanOfCheck(k) = Plan(check[k].seen, listed, check[k].only)
      BY <2>2 DEF PlanOfCheck
    <3>8. n \in Planned(check[k].seen, listed, check[k].only)
      BY <1>2, <2>0, <2>1, <3>1, <3>4, <3>6, PlanOf
    <3> QED BY <2>1, <3>1, <3>5, <3>7, <3>8, PlanOf
  <2>3. CASE feed # "ios-build"
    <3>1. check[k].seen \in [Builds -> SUBSET Phones] /\ held \in [Builds -> Record]
      BY <1>4, <2>3, TypesOfCron
    <3>2. check[k].seen[b] # {}
      BY <1>1, <1>2, <1>6, <2>3 DEF ReadInTime, b
    <3>3. b \in GalaxyBuilds
      BY <2>0, <2>3 DEF Builds
    <3>4. id = <<b, Nothing>>
      BY <2>0, <3>1, <3>3, CurrentOf DEF Current
    <3>5. held[b] = Nothing
      BY <2>0, <3>3, <3>4 DEF CronInv, InTime, HeldInv, GalaxyHeld, Over, Extracting, Finishing, Live, AtLastStep
    <3>6. Lacks(b, held[b], check[k].seen[b])
      BY <3>2, <3>5 DEF Lacks
    <3>7. FeedOf(b) = feed /\ id = InstanceId(b, held[b])
      BY <2>0 DEF Payload, b, Current
    <3>8. PlanOfCheck(k) = Plan(held, check[k].seen, check[k].only)
      BY <2>3 DEF PlanOfCheck
    <3>9. n \in Planned(held, check[k].seen, check[k].only)
      BY <1>2, <2>0, <2>1, <3>1, <3>6, <3>7, PlanOf
    <3> QED BY <2>1, <3>1, <3>7, <3>8, <3>9, PlanOf
  <2> QED BY <2>2, <2>3
<1>7. CheckInTime(k)'
  <2>0. PICK plan : plan = PlanOfCheck(k)
    OBVIOUS
  <2>1. check'[k].plan = plan /\ check'[k].at = "planned"
    BY <1>1, <2>0 DEF ChecksTo
  <2>2. ReadInTime(k)'
    BY <2>1 DEF ReadInTime
  <2>3. PlanHasAll(k)'
    <3>1. \A id \in Id : Counts(id)' => \E n \in DOMAIN plan : plan[n].id = id
      BY <1>1, <1>6, <2>0, StillInTime
    <3> QED BY <2>1, <3>1 DEF PlanHasAll
  <2>4. PlanCurrent(k)'
    <3> SUFFICES ASSUME NEW n \in DOMAIN plan, NEW id, id = plan[n].id
                 PROVE  /\ Payload(id, plan[n].phones)'
                        /\ Steady(BuildOf(id))' => id = Current(BuildOf(id))' \/ Over(id)'
      BY <2>1 DEF PlanCurrent
    <3>1. /\ Payload(id, plan[n].phones)
          /\ Steady(BuildOf(id)) => id = Current(BuildOf(id)) \/ Over(id)
      BY <1>5, <2>0
    <3>2. Payload(id, plan[n].phones)'
      BY <1>1, <3>1 DEF Payload, Undropped
    <3>3. Steady(BuildOf(id))' => id = Current(BuildOf(id))' \/ Over(id)'
      BY <1>1, <3>1 DEF Current, Over, Finishing, Live, AtLastStep, Steady
    <3> QED BY <3>2, <3>3
  <2>5. ~check'[k].rebuild /\ check'[k].only = Builds
    BY <1>1, <1>2 DEF SameAsk
  <2> QED BY <2>2, <2>3, <2>4, <2>5 DEF CheckInTime
<1>8. AskedByCron'
  BY <1>1 DEF CronInv, InTime, AskedByCron
<1> QED BY <1>1, <1>3, <1>7, <1>8, CheckAlone DEF ChecksTo

-----------------------------------------------------------------------------
(* What a check decides to start fits in the room the live runs leave. *)

LEMMA FirstFew ==
  ASSUME NEW L \in Nat, NEW S \in SUBSET (1 .. L), NEW n \in Nat
  PROVE  IsFiniteSet(First(S, n)) /\ Cardinality(First(S, n)) <= n /\ First(S, n) \subseteq S
<1> DEFINE F == First(S, n)
<1>1. F \subseteq S /\ \A m \in F : Cardinality({k \in S : k < m}) < n
  BY DEF First
<1>2. IsFiniteSet(S) /\ IsFiniteSet(F)
  <2>1. IsFiniteSet(1 .. L)
    BY FS_Interval
  <2>2. IsFiniteSet(S)
    BY <2>1, FS_Subset
  <2>. HIDE DEF F
  <2>3. F \in SUBSET S
    BY <1>1
  <2> QED BY <2>2, <2>3, FS_Subset
<1>. HIDE DEF F
<1>3. CASE F = {}
  BY <1>1, <1>2, <1>3, FS_EmptySet DEF F
<1>4. CASE F # {}
  <2> DEFINE U == {u \in Nat : \A m \in F : m <= u}
             u == Min(U)
             below == {k \in S : k < u}
  <2>1. L \in U
    BY <1>1
  <2>2. u \in Nat /\ (\A m \in F : m <= u) /\ \A v \in U : u <= v
    BY <2>1, MinIsLeast
  <2>3. u \in F
    <3> SUFFICES ASSUME u \notin F PROVE FALSE
      OBVIOUS
    <3>1. \A m \in F : m \in Nat /\ m < u
      BY <1>1, <2>2
    <3>2. \A m \in F : u - 1 \in Nat /\ m <= u - 1
      <4>. HIDE DEF u
      <4> QED BY <2>2, <3>1
    <3>3. u - 1 \in U
      BY <1>4, <3>2
    <3>4. u <= u - 1
      BY <2>2, <3>3
    <3>. HIDE DEF u
    <3> QED BY <2>2, <3>4
  <2>. HIDE DEF u, U
  <2>4. F \in SUBSET (below \cup {u})
    BY <1>1, <2>2
  <2>5. IsFiniteSet(below) /\ Cardinality(below) \in Nat /\ Cardinality(below) < n
    BY <1>1, <1>2, <2>3, FS_Subset, FS_CardinalityType
  <2>6. IsFiniteSet(below \cup {u}) /\ Cardinality(below \cup {u}) <= Cardinality(below) + 1
        /\ Cardinality(below \cup {u}) \in Nat
    <3>. HIDE DEF below
    <3>1. /\ IsFiniteSet(below \cup {u})
          /\ Cardinality(below \cup {u}) = IF u \in below THEN Cardinality(below) ELSE Cardinality(below) + 1
      BY <2>5, FS_AddElement
    <3> QED BY <2>5, <3>1, FS_CardinalityType
  <2>7. Cardinality(F) <= Cardinality(below \cup {u}) /\ Cardinality(F) \in Nat
    BY <1>2, <2>4, <2>6, FS_Subset, FS_CardinalityType
  <2>8. Cardinality(F) <= n
    BY <2>5, <2>6, <2>7
  <2> QED BY <1>1, <1>2, <2>8 DEF F
<1> QED BY <1>3, <1>4

Running(plan) == {n \in DOMAIN plan : inst[plan[n].id].status = "running"}

LEMMA DecideFits ==
  ASSUME NEW plan \in Plans, NEW rebuild, NEW room \in Nat, NEW d, d = Decide(plan, rebuild, room)
  PROVE  \/ d.fresh = {} /\ d.restart = {}
         \/ LET started == Running(plan) \cup (d.fresh \cup d.restart) IN
              IsFiniteSet(started) /\ Cardinality(started) <= room
<1> DEFINE L == Len(BuildOrder)
           missing == {n \in DOMAIN plan : inst[plan[n].id].status = "none"}
           ended == {n \in DOMAIN plan : ToRestart(inst[plan[n].id].status, rebuild)}
           live == Cardinality(Running(plan))
           free == Free(plan, room)
           fresh == First(missing, free)
           restart == First(ended, free - Cardinality(fresh))
<1>1. L \in Nat /\ DOMAIN plan \subseteq 1 .. L
  BY PlanTyped, ChecksAssumption
<1>2. missing \in SUBSET (1 .. L) /\ ended \in SUBSET (1 .. L) /\ Running(plan) \in SUBSET (1 .. L)
  BY <1>1 DEF Running
<1>3. d.fresh = fresh /\ d.restart = restart
  BY DEF Decide
<1>4. free = IF room > live THEN room - live ELSE 0
  BY DEF Free, Running
<1>5. IsFiniteSet(Running(plan)) /\ live \in Nat
  <2>1. IsFiniteSet(1 .. L)
    BY <1>1, FS_Interval
  <2>2. IsFiniteSet(Running(plan))
    BY <1>2, <2>1, FS_Subset
  <2> QED BY <2>2, FS_CardinalityType
<1>6. free \in Nat
  BY <1>4, <1>5
<1>. HIDE DEF L, missing, ended, live, free
<1>7. /\ IsFiniteSet(fresh) /\ Cardinality(fresh) <= free /\ Cardinality(fresh) \in Nat
      /\ free - Cardinality(fresh) \in Nat
  <2>1. IsFiniteSet(fresh) /\ Cardinality(fresh) <= free
    BY <1>1, <1>2, <1>6, FirstFew
  <2>. HIDE DEF fresh
  <2>2. Cardinality(fresh) \in Nat
    BY <2>1, FS_CardinalityType
  <2> QED BY <1>6, <2>1, <2>2
<1>. HIDE DEF fresh
<1>8. /\ IsFiniteSet(restart) /\ Cardinality(restart) <= free - Cardinality(fresh)
      /\ Cardinality(restart) \in Nat
  BY <1>1, <1>2, <1>7, FirstFew, FS_CardinalityType
<1>. HIDE DEF restart
<1>9. CASE room > live
  <2>1. IsFiniteSet(fresh \cup restart) /\ Cardinality(fresh \cup restart) \in Nat
    BY <1>7, <1>8, FS_Union, FS_CardinalityType
  <2>2. Cardinality(fresh \cup restart) <= Cardinality(fresh) + Cardinality(restart)
    <3>1. Cardinality(fresh \cap restart) \in Nat
      BY <1>7, FS_Intersection, FS_CardinalityType
    <3> QED BY <1>7, <1>8, <3>1, FS_Union
  <2>3. /\ IsFiniteSet(Running(plan) \cup (fresh \cup restart))
        /\ Cardinality(Running(plan) \cup (fresh \cup restart)) <= live + Cardinality(fresh \cup restart)
        /\ Cardinality(Running(plan) \cup (fresh \cup restart)) \in Nat
    <3>1. Cardinality(Running(plan) \cap (fresh \cup restart)) \in Nat
      BY <1>5, FS_Intersection, FS_CardinalityType
    <3>. DEFINE both == fresh \cup restart
    <3>2. /\ IsFiniteSet(Running(plan) \cup both)
          /\ Cardinality(Running(plan) \cup both) =
               Cardinality(Running(plan)) + Cardinality(both) - Cardinality(Running(plan) \cap both)
      BY <1>5, <2>1, FS_Union
    <3>3. Cardinality(Running(plan) \cup both) \in Nat
      BY <3>2, FS_CardinalityType
    <3>4. live = Cardinality(Running(plan))
      BY DEF live
    <3> QED BY <1>5, <2>1, <3>1, <3>2, <3>3, <3>4
  <2>4. Cardinality(Running(plan) \cup (fresh \cup restart)) <= room
    BY <1>4, <1>5, <1>7, <1>8, <1>9, <2>1, <2>2, <2>3
  <2> QED BY <1>3, <2>3, <2>4
<1>10. CASE ~(room > live)
  <2>1. free = 0
    BY <1>4, <1>10
  <2>2. Cardinality(fresh) = 0 /\ Cardinality(restart) = 0
    BY <1>7, <1>8, <2>1
  <2>3. fresh = {} /\ restart = {}
    BY <1>7, <1>8, <2>2, FS_EmptySet
  <2> QED BY <1>3, <2>3
<1> QED BY <1>9, <1>10

LEMMA StatusesInTime ==
  ASSUME CronInv, AsCron, NEW k \in Slots, ReadStatuses(k)
  PROVE  InTime'
<1> DEFINE plan == check[k].plan
           d == DecisionOf(k)
<1>1. /\ ChecksTo(k, "decided", check[k].seen, plan, d.restart, d.fresh) /\ SameAsk(k)
      /\ UNCHANGED <<held, inst, late, feed, listed, dropped, asker>> /\ CheckLive(k) /\ check[k].at = "planned"
  BY TypesOfCron, CheckMoves DEF ReadStatuses, unitVars, CheckLive
<1>2. check'[k].at = "decided" /\ check'[k].plan = plan
      /\ check'[k].fresh = d.fresh /\ check'[k].restart = d.restart
      /\ \A l \in Slots : l # k => check'[l] = check[l]
  BY <1>1 DEF ChecksTo
<1>3. ReadInTime(k)'
  BY <1>2 DEF ReadInTime
<1>4. CheckInTime(k)'
  BY <1>1, <1>2, <1>3, LaterInTime
<1>5. AskedByCron'
  BY <1>1 DEF CronInv, InTime, AskedByCron
<1>6. plan \in Plans /\ Share[feed] \in Nat
  BY TypesOfCron, ChecksAssumption DEF Checking, CheckTypes
<1>7. CASE d.fresh = {} /\ d.restart = {}
  <2>1. check'[k].fresh \cup check'[k].restart = {}
    BY <1>2, <1>7
  <2> QED BY <1>1, <1>2, <1>4, <1>5, <2>1, CheckAlone
<1>8. ASSUME NEW started, started = Running(plan) \cup (d.fresh \cup d.restart),
             IsFiniteSet(started), Cardinality(started) <= Share[feed]
      PROVE  InTime'
  <2> DEFINE ids == {plan[n].id : n \in started}
             f == [n \in started |-> plan[n].id]
  <2>1. HeldInv' /\ Settles /\ \A id \in Id : Counts(id)' => Counts(id)
    BY <1>1, StillInTime
  <2>2. ChecksInTime'
    BY <1>2, <1>4, <2>1, SlotStays DEF ChecksInTime
  <2>3. f \in Surjection(started, ids)
    BY DEF Surjection
  <2>4. IsFiniteSet(ids) /\ Cardinality(ids) <= Cardinality(started)
    <3>. HIDE DEF f, ids
    <3> QED BY <1>8, <2>3, FS_Surjection
  <2>5. \A id \in Id : Counts(id)' => id \in ids
    <3> SUFFICES ASSUME NEW id \in Id, Counts(id) PROVE id \in ids
      BY <2>1
    <3>1. PICK n \in DOMAIN plan : plan[n].id = id
      BY <1>1 DEF CronInv, InTime, ChecksInTime, CheckInTime, PlanHasAll
    <3>2. n \in started
      BY <1>8, <3>1 DEF Running, Counts, Extracting, Live
    <3> QED BY <3>1, <3>2
  <2>6. \A l \in Slots : ToStart(l)' \subseteq ids
    <3>1. ToStart(k)' \subseteq ids
      BY <1>2, <1>8 DEF ToStart
    <3>2. ASSUME NEW l \in Slots, l # k PROVE ToStart(l)' = {}
      <4>1. ~CheckLive(l)
        BY <1>1, <3>2, OnlyCheck, TypesOfCron DEF AsCron
      <4>2. check'[l].fresh \cup check'[l].restart = {}
        BY <1>2, <3>2, <4>1, NoneToStart, TypesOfCron
      <4> QED BY <4>2 DEF ToStart
    <3> QED BY <3>1, <3>2
  <2>. HIDE DEF ids, f
  <2>7. Busy' \in SUBSET ids
    BY <2>5, <2>6 DEF Busy, Counts
  <2>8. IsFiniteSet(Busy') /\ Cardinality(Busy') <= Cardinality(ids)
    BY <2>4, <2>7, FS_Subset
  <2>9. Cardinality(Busy') \in Nat /\ Cardinality(ids) \in Nat /\ Cardinality(started) \in Nat
    BY <1>8, <2>4, <2>8, FS_CardinalityType
  <2>10. ShareKept'
    BY <1>1, <1>6, <1>8, <2>4, <2>8, <2>9 DEF ShareKept
  <2> QED BY <1>5, <2>1, <2>2, <2>10 DEF InTime
<1>9. \/ d.fresh = {} /\ d.restart = {}
      \/ LET started == Running(plan) \cup (d.fresh \cup d.restart) IN
           IsFiniteSet(started) /\ Cardinality(started) <= Share[feed]
  BY <1>6, DecideFits DEF DecisionOf
<1> QED BY <1>7, <1>8, <1>9

-----------------------------------------------------------------------------
(* Starting what was decided. *)

LEMMA PayloadHasSteps ==
  ASSUME CronInv, NEW id \in Id, NEW phones, Payload(id, phones)
  PROVE  StepsLeft(BuildOf(id), phones) # {}
<1>1. BuildOf(id) \in Builds /\ phones # {} /\ phones \subseteq Phones
  BY IdOfBuild DEF Payload
<1>2. CASE BuildOf(id) \in IosBuilds
  <2>1. PICK p \in phones : p \in Phones
    BY <1>1
  <2>2. PICK n \in DOMAIN PhoneOrder : PhoneOrder[n] = p
    BY <2>1, UnitsAssumption
  <2>3. n \in StepsLeft(BuildOf(id), phones)
    BY <1>2, <2>1, <2>2 DEF StepsLeft, StepsOf
  <2> QED BY <2>3
<1>3. CASE BuildOf(id) \notin IosBuilds
  <2>1. 1 \in DOMAIN <<"csc", "cp", "ap">>
    OBVIOUS
  <2>2. 1 \in StepsLeft(BuildOf(id), phones)
    BY <1>3, <2>1 DEF StepsLeft, StepsOf
  <2> QED BY <2>2
<1> QED BY <1>2, <1>3

(* Check k starts some of what it decided to. *)
Starts(k) ==
  /\ UNCHANGED <<held, late, feed, listed, dropped, asker>> /\ SameAsk(k) /\ CheckLive(k)
  /\ check[k].at \in {"decided", "created"} /\ check'[k].at = "created"
  /\ check'[k].plan = check[k].plan
  /\ check'[k].fresh \subseteq check[k].fresh /\ check'[k].restart \subseteq check[k].restart
  /\ \A l \in Slots : l # k => check'[l] = check[l]
  /\ \A id \in Id : inst'[id] # inst[id] =>
       /\ inst'[id].status = "running" /\ inst'[id].attempt = 1 /\ inst'[id].at = "ready"
       /\ inst'[id].left = StepsLeft(BuildOf(id), inst'[id].phones)
       /\ Payload(id, inst'[id].phones)
       /\ \E n \in check[k].fresh \cup check[k].restart :
            /\ n \in DOMAIN check[k].plan /\ check[k].plan[n].id = id
            /\ \/ inst[id].status = "none" /\ inst'[id].phones = check[k].plan[n].phones
               \/ inst[id].status = "refused" /\ inst'[id].phones = inst[id].phones

LEMMA StartsHeld ==
  ASSUME AsCron, CronInv, NEW k \in Slots, Starts(k)
  PROVE  /\ HeldInv' /\ Settles
         /\ \A id \in Id : Counts(id)' => Counts(id) \/ id \in Starting
         /\ \A id \in Id : Counts(id)' =>
              Counts(id) \/ \E n \in DOMAIN check[k].plan : check[k].plan[n].id = id
<1>0. UNCHANGED <<held, late, feed, listed, dropped>>
  BY DEF Starts
<1>1. ASSUME NEW id \in Id, inst'[id] # inst[id]
      PROVE  /\ inst[id].status \in {"none", "refused"} /\ inst'[id].status = "running"
             /\ inst'[id].left # {} /\ Payload(id, inst'[id].phones)
             /\ Steady(BuildOf(id)) => id = Current(BuildOf(id))
             /\ \E n \in check[k].fresh \cup check[k].restart :
                   n \in DOMAIN check[k].plan /\ check[k].plan[n].id = id
  <2>1. /\ inst[id].status \in {"none", "refused"} /\ inst'[id].status = "running"
        /\ inst'[id].left = StepsLeft(BuildOf(id), inst'[id].phones)
        /\ Payload(id, inst'[id].phones)
    BY <1>1 DEF Starts
  <2>2. PICK n \in DOMAIN check[k].plan :
               n \in check[k].fresh \cup check[k].restart /\ check[k].plan[n].id = id
    BY <1>1 DEF Starts
  <2>3. Steady(BuildOf(id)) => id = Current(BuildOf(id)) \/ Over(id)
    BY <2>2 DEF CronInv, InTime, ChecksInTime, CheckInTime, PlanCurrent
  <2>4. ~Over(id)
    BY <2>1 DEF Over, Finishing, Live
  <2>5. inst'[id].left # {}
    <3>1. PICK phones : phones = inst'[id].phones
      OBVIOUS
    <3> QED BY <2>1, <3>1, PayloadHasSteps
  <2> QED BY <2>1, <2>2, <2>3, <2>4, <2>5
<1>2. \A id \in Id : Over(id) => inst'[id] = inst[id] /\ Over(id)'
  BY <1>1 DEF Over, Finishing, Live, AtLastStep
<1>3. Settles
  BY <1>0, <1>2 DEF Settles
<1>4. ASSUME NEW id \in Id, Counts(id)'
      PROVE  Counts(id) \/ \E n \in check[k].fresh \cup check[k].restart :
                              n \in DOMAIN check[k].plan /\ check[k].plan[n].id = id
  <2>1. CASE inst'[id] = inst[id]
    BY <1>0, <1>4, <2>1 DEF Counts, Steady, Extracting, Live, AtLastStep
  <2> QED BY <1>1, <2>1
<1>5. UnitsListed'
  <2>1. ASSUME NEW id \in Id, inst'[id].status # "none" PROVE Payload(id, inst'[id].phones)
    <3>1. CASE inst'[id] = inst[id]
      BY <2>1, <3>1 DEF CronInv, InTime, HeldInv, UnitsListed
    <3> QED BY <1>1, <3>1
  <2>2. \A id \in Id : inst'[id].status # "none" => Payload(id, inst[id].phones)'
    BY <1>0, <2>1 DEF Payload, Undropped
  <2> QED BY <2>2 DEF UnitsListed
<1>6. Named'
  <2> SUFFICES ASSUME NEW id \in Id PROVE NamedInTime(id)'
    BY DEF Named
  <2>1. CASE inst'[id] = inst[id]
    BY <1>0, <2>1 DEF CronInv, InTime, HeldInv, Named, NamedInTime, Current, Steady, Extracting, Live, AtLastStep
  <2>2. CASE inst'[id] # inst[id]
    BY <1>0, <1>1, <2>2 DEF NamedInTime, Current, Steady
  <2> QED BY <2>1, <2>2
<1>7. GalaxyHeld'
  <2> SUFFICES ASSUME NEW b \in GalaxyBuilds, held[b] # Nothing
               PROVE  Over(<<b, Nothing>>)' /\ held[b] = inst'[<<b, Nothing>>].phones
    BY <1>0 DEF GalaxyHeld
  <2>1. <<b, Nothing>> \in Id
    BY DEF Id
  <2>2. Over(<<b, Nothing>>) /\ held[b] = inst[<<b, Nothing>>].phones
    BY DEF CronInv, InTime, HeldInv, GalaxyHeld
  <2> QED BY <1>2, <2>1, <2>2
<1>8. ASSUME NEW id \in Id, Counts(id)', ~Counts(id) PROVE id \in Starting
  BY <1>4, <1>8, OfStarting
<1> QED BY <1>3, <1>4, <1>5, <1>6, <1>7, <1>8 DEF HeldInv

LEMMA StartsInTime ==
  ASSUME AsCron, CronInv, NEW k \in Slots, Starts(k)
  PROVE  InTime'
<1>1. /\ HeldInv' /\ Settles
      /\ \A id \in Id : Counts(id)' => Counts(id) \/ id \in Starting
      /\ \A id \in Id : Counts(id)' => Counts(id) \/ \E n \in DOMAIN check[k].plan : check[k].plan[n].id = id
  BY StartsHeld
<1>2. AskedByCron'
  BY DEF Starts, CronInv, InTime, AskedByCron
<1>3. ASSUME NEW l \in Slots, l # k PROVE CheckInTime(l)'
  <2>1. ~CheckLive(l) /\ check'[l] = check[l]
    BY <1>3, OnlyCheck, TypesOfCron DEF Starts, AsCron
  <2> QED BY <1>1, <2>1, SlotStays DEF CheckLive
<1>4. CheckInTime(k)'
  <2>0. CheckInTime(k)
    BY DEF CronInv, InTime, ChecksInTime
  <2>1. check'[k].at = "created" /\ check'[k].plan = check[k].plan
    BY DEF Starts
  <2>2. ReadInTime(k)'
    BY <2>1 DEF ReadInTime
  <2>3. PlanHasAll(k)'
    <3>1. \A id \in Id : Counts(id) => \E n \in DOMAIN check[k].plan : check[k].plan[n].id = id
      BY <2>0 DEF CheckInTime, PlanHasAll, Starts
    <3> QED BY <1>1, <2>1, <3>1 DEF PlanHasAll
  <2>4. PlanCurrent(k)'
    BY <1>1, <2>1, PlanStaysCurrent
  <2>5. ~check'[k].rebuild /\ check'[k].only = Builds
    BY <2>0 DEF CheckInTime, Starts, SameAsk
  <2> QED BY <2>2, <2>3, <2>4, <2>5 DEF CheckInTime
<1>5. ChecksInTime'
  BY <1>3, <1>4 DEF ChecksInTime
<1>6. ShareKept'
  <2>1. \A l \in Slots : \A n \in check'[l].fresh \cup check'[l].restart : check'[l].plan[n].id \in Starting
    BY OfStarting DEF Starts
  <2> QED BY <1>1, <2>1, ShareStays
<1> QED BY <1>1, <1>2, <1>5, <1>6 DEF InTime

LEMMA BatchStarts ==
  ASSUME CronInv, NEW k \in Slots, CreateBatch(k)
  PROVE  Starts(k)
<1>1. /\ ChecksTo(k, "created", check[k].seen, check[k].plan, check[k].restart, {}) /\ SameAsk(k)
      /\ check[k].at = "decided" /\ CheckLive(k)
  BY TypesOfCron, CheckMoves DEF CreateBatch, CheckLive
<1>2. /\ UNCHANGED <<held, late, feed, listed, dropped, asker>>
      /\ \A id \in Id : inst'[id] # inst[id] =>
           /\ inst[id].status = "none"
           /\ \E n \in check[k].fresh :
                /\ n \in DOMAIN check[k].plan /\ check[k].plan[n].id = id
                /\ check[k].plan[n].phones \in SUBSET Phones
                /\ inst'[id] = NewRun(id, check[k].plan[n].phones, FALSE)
  BY TypesOfCron, BatchMoves
<1>3. ASSUME NEW id \in Id, inst'[id] # inst[id]
      PROVE  /\ inst'[id].status = "running" /\ inst'[id].attempt = 1 /\ inst'[id].at = "ready"
             /\ inst'[id].left = StepsLeft(BuildOf(id), inst'[id].phones)
             /\ Payload(id, inst'[id].phones)
             /\ \E n \in check[k].fresh \cup check[k].restart :
                  /\ n \in DOMAIN check[k].plan /\ check[k].plan[n].id = id
                  /\ inst[id].status = "none" /\ inst'[id].phones = check[k].plan[n].phones
  <2>1. PICK n \in check[k].fresh :
          /\ inst[id].status = "none"
          /\ n \in DOMAIN check[k].plan /\ check[k].plan[n].id = id
          /\ check[k].plan[n].phones \in SUBSET Phones
          /\ inst'[id] = NewRun(id, check[k].plan[n].phones, FALSE)
    BY <1>2, <1>3
  <2>2. Begun(inst'[id], id, check[k].plan[n].phones)
    BY <2>1, NewRunTyped
  <2>3. Payload(id, check[k].plan[n].phones)
    BY <2>1 DEF CronInv, InTime, ChecksInTime, CheckInTime, PlanCurrent
  <2> QED BY <2>1, <2>2, <2>3 DEF Begun
<1> QED BY <1>1, <1>2, <1>3 DEF ChecksTo, Starts

LEMMA RestartStarts ==
  ASSUME CronInv, NEW k \in Slots, Restart(k)
  PROVE  Starts(k)
<1> DEFINE n == Min(check[k].restart)
           id == check[k].plan[n].id
<1>1. /\ ChecksTo(k, "created", check[k].seen, check[k].plan, check[k].restart \ {n}, check[k].fresh)
      /\ SameAsk(k) /\ check[k].at = "created" /\ CheckLive(k)
  BY TypesOfCron, CheckMoves, RestartMoves DEF CheckLive
<1>2. /\ UNCHANGED <<held, late, feed, listed, dropped, asker>> /\ n \in check[k].restart /\ id \in Id
      /\ \A x \in Id : x # id => inst'[x] = inst[x]
      /\ inst'[id] = NewRun(id, inst[id].phones, TRUE) /\ inst[id].phones \in SUBSET Phones
  BY TypesOfCron, RestartMoves
<1>3. n \in DOMAIN check[k].plan
  BY <1>2, TypesOfCron DEF PlansPlaced
<1>4. inst[id].status = "refused"
  <2>1. ~check[k].rebuild
    BY <1>1 DEF CronInv, InTime, ChecksInTime, CheckInTime
  <2> QED BY <1>2, <2>1, TypesOfCron DEF RestartsEnded
<1>. HIDE DEF n, id
<1>5. Begun(inst'[id], id, inst[id].phones)
  BY <1>2, NewRunTyped
<1>6. Payload(id, inst[id].phones)
  BY <1>2, <1>4 DEF CronInv, InTime, HeldInv, UnitsListed
<1>7. ASSUME NEW x \in Id, inst'[x] # inst[x]
      PROVE  /\ inst'[x].status = "running" /\ inst'[x].attempt = 1 /\ inst'[x].at = "ready"
             /\ inst'[x].left = StepsLeft(BuildOf(x), inst'[x].phones)
             /\ Payload(x, inst'[x].phones)
             /\ \E m \in check[k].fresh \cup check[k].restart :
                  /\ m \in DOMAIN check[k].plan /\ check[k].plan[m].id = x
                  /\ inst[x].status = "refused" /\ inst'[x].phones = inst[x].phones
  <2>1. x = id
    BY <1>2, <1>7
  <2>2. check[k].plan[n].id = id
    BY DEF id
  <2> QED BY <1>2, <1>3, <1>4, <1>5, <1>6, <2>1, <2>2 DEF Begun
<1> QED BY <1>1, <1>2, <1>7 DEF ChecksTo, Starts

-----------------------------------------------------------------------------
(* A check's end, and its failures. *)

LEMMA EndedInTime ==
  ASSUME AsCron, CronInv, NEW k \in Slots, Ended(k), UNCHANGED <<held, inst, late, feed, listed, dropped, asker>>
  PROVE  InTime'
<1>1. ChecksTo(k, "none", <<>>, <<>>, {}, {})
  BY TypesOfCron, CheckMoves
<1>2. /\ check'[k].at = "none" /\ DOMAIN check'[k].plan = {}
      /\ check'[k].fresh \cup check'[k].restart = {}
  BY <1>1, EmptyPlan DEF ChecksTo
<1>3. CheckInTime(k)'
  BY <1>2 DEF CheckInTime, CheckLive, ReadInTime, PlanCurrent, PlanHasAll
<1>4. AskedByCron'
  BY DEF CronInv, InTime, AskedByCron
<1> QED BY <1>1, <1>2, <1>3, <1>4, CheckAlone DEF ChecksTo

LEMMA FailsInTime ==
  ASSUME AsCron, CronInv, NEW k \in Slots, CheckFails(k)
  PROVE  InTime'
<1>1. /\ UNCHANGED <<held, inst, late, feed, listed, dropped, asker>>
      /\ (Retried(k) /\ SameAsk(k) /\ UNCHANGED recorded) \/ Ended(k)
  BY TypesOfCron, FailedCheck
<1>2. CASE Retried(k) /\ SameAsk(k)
  <2>1. /\ CheckLive(k) /\ check'[k].plan = check[k].plan
        /\ check'[k].fresh \cup check'[k].restart = {}
        /\ \A l \in Slots : l # k => check'[l] = check[l]
        /\ check'[k].at = "asked" => check[k].at = "asked" /\ check'[k].seen = check[k].seen
        /\ check'[k].at \in {"planned", "decided", "created"} =>
             check[k].at \in {"planned", "decided", "created"}
    BY <1>2 DEF Retried, ChecksTo, CheckLive
  <2>2. ReadInTime(k)'
    <3> SUFFICES ASSUME check'[k].at = "asked" PROVE ReadInTime(k)'
      BY DEF ReadInTime
    <3>1. check[k].at = "asked" /\ check'[k].seen = check[k].seen /\ ReadInTime(k)
      BY <2>1 DEF CronInv, InTime, ChecksInTime, CheckInTime
    <3> QED BY <1>1, <3>1 DEF ReadInTime, Over, Counts, Steady, Undropped, Finishing, Extracting, Live, AtLastStep
  <2>3. CheckInTime(k)'
    BY <1>1, <1>2, <2>1, <2>2, LaterInTime
  <2>4. AskedByCron'
    BY <1>1 DEF CronInv, InTime, AskedByCron
  <2> QED BY <1>1, <2>1, <2>3, <2>4, CheckAlone
<1> QED BY <1>1, <1>2, EndedInTime

-----------------------------------------------------------------------------

LEMMA BeginsInTime == ASSUME Init, CheckInv PROVE CronInv
<1>1. /\ \A id \in Id : inst[id] = NoInstance
      /\ \A b \in Builds : held[b] = Nothing
      /\ \A k \in Slots : check[k] = NoCheck
      /\ \A a \in Askers : asker[a] = [at |-> "idle"]
      /\ feed \in Feeds
  BY DEF Init, InitUnits
<1>2. NoInstance.status = "none" /\ NoCheck.at = "none" /\ DOMAIN NoCheck.plan = {}
      /\ NoCheck.fresh \cup NoCheck.restart = {} /\ [at |-> "idle"].at = "idle"
  BY EmptyPlan DEF NoInstance, NoCheck
<1>3. HeldInv
  BY <1>1, <1>2 DEF HeldInv, UnitsListed, Named, NamedInTime, GalaxyHeld,
     Extracting, Live, Builds
<1>4. AskedByCron
  BY <1>1, <1>2 DEF AskedByCron
<1>5. ChecksInTime
  BY <1>1, <1>2 DEF ChecksInTime, CheckInTime, CheckLive, ReadInTime, PlanCurrent, PlanHasAll
<1>6. ShareKept
  <2>1. \A id \in Id : ~Extracting(id)
    BY <1>1, <1>2 DEF Extracting, Live
  <2>2. \A k \in Slots : ToStart(k) = {}
    BY <1>1, <1>2 DEF ToStart
  <2>3. Busy = {}
    BY <2>1, <2>2 DEF Busy
  <2>4. Share[feed] \in Nat
    BY <1>1, ChecksAssumption
  <2> QED BY <2>3, <2>4, FS_EmptySet DEF ShareKept
<1> QED BY <1>3, <1>4, <1>5, <1>6 DEF CronInv, InTime

LEMMA CronInvKept ==
  ASSUME AsCron, CronInv, CheckInv', [Next]_vars
  PROVE  CronInv'
<1>1. CASE UNCHANGED vars
  BY <1>1, MoveInTime DEF CronInv, vars, unitVars
<1>2. CASE UnitStep /\ UNCHANGED checkVars
  <2>1. UNCHANGED <<held, late, inst>> \/ \E x \in Id : Moved(x)
    BY <1>2, TypesOfCron, UnitMoves DEF UnitStep
  <2> QED BY <1>2, <2>1, MoveInTime DEF CronInv
<1>3. ASSUME NEW b \in Builds, NEW p \in Phones, List(b, p) \/ Delist(b, p) PROVE CronInv'
  BY <1>3, ListInTime DEF CronInv
<1>4. ASSUME NEW a \in Askers,
             AskerStep(a) \/ \E rebuild \in Rebuilds, only \in Onlys : Ask(a, rebuild, only)
      PROVE  CronInv'
  BY <1>4, AskerInTime DEF CronInv
<1>5. ASSUME NEW k \in Slots, CheckStep(k) PROVE CronInv'
  <2>1. CASE EndCheck(k)
    BY <2>1, EndedInTime DEF EndCheck, unitVars, CronInv
  <2> QED BY <1>5, <2>1, ReadInTimeFirst, PlanInTime, StatusesInTime, BatchStarts, RestartStarts,
          StartsInTime
          DEF CheckStep, CronInv
<1>6. ASSUME NEW k \in Slots, CheckFails(k) PROVE CronInv'
  BY <1>6, FailsInTime DEF CronInv
<1> QED BY <1>1, <1>2, <1>3, <1>4, <1>5, <1>6 DEF Next

LEMMA CronInvHolds == ASSUME AsCron PROVE Spec => []CronInv
<1>1. Spec => []CheckInv
  BY CheckInvHolds DEF AsCron
<1>2. Init /\ CheckInv => CronInv
  BY BeginsInTime
<1>3. CronInv /\ CheckInv' /\ [Next]_vars => CronInv'
  BY CronInvKept
<1> QED BY <1>1, <1>2, <1>3, PTL DEF Spec

(* No more builds of a feed may ask for a container than its share, though  *)
(* a check starts what it decided to after it read the statuses; but for    *)
(* builds dropped or written late, whose live instances the plans may name  *)
(* no more: WithinShare.                                                    *)
THEOREM ShareNeverExceeded == ASSUME AsCron PROVE Spec => []WithinShare
<1>1. CronInv => WithinShare
  <2> SUFFICES ASSUME CronInv PROVE WithinShare
    OBVIOUS
  <2> DEFINE X == {id \in Id : Extracting(id) /\ BuildOf(id) \notin dropped \cup late}
  <2>1. X \in SUBSET Busy
    BY DEF Busy, Steady
  <2>2. IsFiniteSet(Busy) /\ Cardinality(Busy) <= Share[feed] /\ Share[feed] \in Nat
    BY ChecksAssumption, TypesOfCron DEF CronInv, InTime, ShareKept, CheckTypes
  <2>. HIDE DEF X
  <2>3. IsFiniteSet(X) /\ Cardinality(X) <= Cardinality(Busy)
    BY <2>1, <2>2, FS_Subset
  <2>4. Cardinality(X) \in Nat /\ Cardinality(Busy) \in Nat
    BY <2>2, <2>3, FS_CardinalityType
  <2> QED BY <2>2, <2>3, <2>4 DEF WithinShare, X
<1> QED BY <1>1, CronInvHolds, PTL

-----------------------------------------------------------------------------
(* The chain of a build's instances, each named by what one before wrote:   *)
(* whatever the listing drops and in whichever order the records are        *)
(* written, the next is started only once all before came to write.         *)

Started(id) == inst[id].status # "none"

(* An instance that attempted to write its record, or may have.             *)
Attempted(id) ==
  /\ inst[id].status \in {"running", "complete", "errored"} /\ inst[id].left = {}
  /\ inst[id].status = "running" => inst[id].attempt # 1 \/ inst[id].at # "ready"

Pending(id) == Started(id) /\ ~Attempted(id)

(* What a build's record holds, or held. *)
Wrote(b, record) ==
  record = Nothing \/ \E z \in Id : BuildOf(z) = b /\ Attempted(z) /\ record = inst[z].phones

(* The instance that what z writes names. *)
Follower(z) == <<BuildOf(z), inst[z].phones>>

Tried == \A id \in Id : inst[id].attempt >= 1 /\ (inst[id].at = "asleep" => inst[id].left # {})

FirstStarted ==
  \A x \in Id : BuildOf(x) \in IosBuilds /\ Started(x) => Started(<<BuildOf(x), Nothing>>)

OnePending == \A x, y \in Id : BuildOf(x) = BuildOf(y) /\ Pending(x) /\ Pending(y) => x = y

(* One that did not attempt to write yet is the last of its build's: every  *)
(* other's follower was started.                                            *)
PendingLast ==
  \A x, z \in Id : BuildOf(x) \in IosBuilds /\ BuildOf(x) = BuildOf(z) /\ Pending(x) /\ Attempted(z) =>
    Started(Follower(z))

OneFollower ==
  \A y, z \in Id :
    /\ BuildOf(y) \in IosBuilds /\ BuildOf(y) = BuildOf(z) /\ Attempted(y) /\ Attempted(z)
    /\ ~Started(Follower(y)) /\ ~Started(Follower(z))
    => inst[y].phones = inst[z].phones

HeldWrote == \A b \in Builds : Wrote(b, held[b])

PhonesGrow ==
  \A x, z \in Id :
    BuildOf(x) \in IosBuilds \ dropped /\ BuildOf(x) = BuildOf(z) /\ Pending(x) /\ Attempted(z) =>
      inst[z].phones \subseteq inst[x].phones

(* What a check read of a record, or named an instance by, was written.     *)
ReadWrote(k) ==
  /\ check[k].at = "asked" /\ feed = "ios-build" => \A b \in IosBuilds : Wrote(b, check[k].seen[b])
  /\ \A n \in DOMAIN check[k].plan : LET id == check[k].plan[n].id IN
       BuildOf(id) \in IosBuilds => Wrote(BuildOf(id), id[2])

(* What a check planned has what every instance of its build has.           *)
PlanGrows(k) ==
  CheckLive(k) => \A n \in DOMAIN check[k].plan : LET id == check[k].plan[n].id IN
    BuildOf(id) \in IosBuilds \ dropped =>
      \A z \in Id : BuildOf(z) = BuildOf(id) /\ Started(z) => inst[z].phones \subseteq check[k].plan[n].phones

UnitsChain ==
  Tried /\ FirstStarted /\ OnePending /\ PendingLast /\ OneFollower /\ HeldWrote /\ PhonesGrow

ChecksChain == \A k \in Slots : ReadWrote(k) /\ PlanGrows(k)

ChainInv == UnitsChain /\ ChecksChain

(* Instances only go on, and keep what they have. *)
Grown ==
  /\ UNCHANGED feed /\ dropped \subseteq dropped'
  /\ \A id \in Id : /\ Attempted(id) => Attempted(id)'
                    /\ Started(id) => Started(id)' /\ inst'[id].phones = inst[id].phones

LEMMA WroteStays ==
  ASSUME Grown, NEW b, NEW record, Wrote(b, record)
  PROVE  Wrote(b, record)'
<1>1. CASE record = Nothing
  BY <1>1 DEF Wrote, Nothing
<1>2. ASSUME NEW z \in Id, BuildOf(z) = b, Attempted(z), record = inst[z].phones PROVE Wrote(b, record)'
  <2>1. Attempted(z)' /\ inst'[z].phones = inst[z].phones
    BY <1>2 DEF Grown, Started, Attempted
  <2> QED BY <1>2, <2>1 DEF Wrote, BuildOf
<1> QED BY <1>1, <1>2 DEF Wrote

LEMMA FollowerIsId ==
  ASSUME CronInv, NEW z \in Id, BuildOf(z) \in IosBuilds
  PROVE  Follower(z) \in Id
  BY TypesOfCron DEF Follower, Id, Record, Instance

LEMMA ReadStays ==
  ASSUME CronInv, ChainInv, Grown, NEW k \in Slots, check'[k].plan = check[k].plan,
         check'[k].at = "asked" =>
           check'[k].seen = held \/ (check[k].at = "asked" /\ check'[k].seen = check[k].seen)
  PROVE  ReadWrote(k)'
<1>0. ReadWrote(k)
  BY DEF ChainInv, ChecksChain
<1>1. ASSUME check'[k].at = "asked", feed' = "ios-build", NEW b \in IosBuilds, NEW record,
             record = check'[k].seen[b]
      PROVE  Wrote(b, record)'
  <2>1. feed = "ios-build" /\ b \in Builds
    BY <1>1 DEF Grown, Builds
  <2>2. Wrote(b, record)
    BY <1>0, <1>1, <2>1 DEF ReadWrote, ChainInv, UnitsChain, HeldWrote
  <2> QED BY <2>2, WroteStays
<1>2. ASSUME NEW n \in DOMAIN check[k].plan, NEW id, id = check[k].plan[n].id, BuildOf(id) \in IosBuilds
      PROVE  Wrote(BuildOf(id), id[2])'
  <2>1. PICK b, record : b = BuildOf(id) /\ record = id[2]
    OBVIOUS
  <2>2. Wrote(b, record)
    BY <1>0, <1>2, <2>1 DEF ReadWrote
  <2>3. Wrote(b, record)'
    BY <2>2, WroteStays
  <2> QED BY <2>1, <2>3
<1>3. check'[k].at = "asked" /\ feed' = "ios-build" => \A b \in IosBuilds : Wrote(b, check[k].seen[b])'
  BY <1>1 DEF Wrote
<1>4. \A n \in DOMAIN check[k].plan : LET id == check[k].plan[n].id IN
        BuildOf(id) \in IosBuilds => Wrote(BuildOf(id), id[2])'
  BY <1>2
<1> QED BY <1>3, <1>4 DEF ReadWrote, BuildOf

LEMMA PlanStays ==
  ASSUME ChainInv, Grown, NEW k \in Slots, check'[k].plan = check[k].plan, CheckLive(k)' => CheckLive(k),
         CheckLive(k) => \A id \in Id : Started(id)' => Started(id)
  PROVE  PlanGrows(k)'
<1> SUFFICES ASSUME CheckLive(k), NEW n \in DOMAIN check[k].plan, NEW id, id = check[k].plan[n].id,
                    BuildOf(id) \in IosBuilds \ dropped',
                    NEW z \in Id, BuildOf(z) = BuildOf(id), Started(z)'
             PROVE  inst'[z].phones \subseteq check[k].plan[n].phones
  BY DEF PlanGrows, BuildOf
<1>1. Started(z) /\ inst'[z].phones = inst[z].phones /\ BuildOf(id) \in IosBuilds \ dropped
  BY DEF Grown
<1> QED BY <1>1 DEF ChainInv, ChecksChain, PlanGrows

(* A check that has planned nothing. *)
LEMMA NothingPlanned ==
  ASSUME NEW k \in Slots, DOMAIN check'[k].plan = {}, check'[k].at # "asked"
  PROVE  ReadWrote(k)' /\ PlanGrows(k)'
  BY DEF ReadWrote, PlanGrows

(* Where nothing of instances changed that the chain tells apart.           *)
LEMMA UnitsStayChained ==
  ASSUME CronInv, ChainInv, Tried', UNCHANGED held, Grown,
         \A id \in Id : (Started(id)' => Started(id)) /\ (Attempted(id)' => Attempted(id))
                        /\ inst'[id].phones = inst[id].phones
  PROVE  UnitsChain'
<1>0. \A id \in Id : /\ Started(id)' <=> Started(id)
                     /\ Attempted(id)' <=> Attempted(id)
                     /\ Pending(id)' <=> Pending(id)
  BY DEF Grown, Pending
<1>1. \A id \in Id : Follower(id)' = Follower(id)
  BY DEF Follower, BuildOf
<1>2. FirstStarted'
  <2>1. \A x \in Id : BuildOf(x) \in IosBuilds => <<BuildOf(x), Nothing>> \in Id
    BY DEF Id, Record
  <2> QED BY <1>0, <2>1 DEF ChainInv, UnitsChain, FirstStarted, BuildOf
<1>3. OnePending'
  BY <1>0 DEF ChainInv, UnitsChain, OnePending, BuildOf
<1>4. PendingLast'
  BY <1>0, <1>1, FollowerIsId DEF ChainInv, UnitsChain, PendingLast, BuildOf
<1>5. OneFollower'
  BY <1>0, <1>1, FollowerIsId DEF ChainInv, UnitsChain, OneFollower, BuildOf
<1>6. HeldWrote'
  <2>1. ASSUME NEW b \in Builds, NEW record, record = held[b] PROVE Wrote(b, record)'
    BY <2>1, WroteStays DEF ChainInv, UnitsChain, HeldWrote
  <2>2. \A b \in Builds : Wrote(b, held[b])'
    BY <2>1 DEF Wrote
  <2> QED BY <2>2 DEF HeldWrote
<1>7. PhonesGrow'
  BY <1>0 DEF ChainInv, UnitsChain, PhonesGrow, BuildOf, Grown
<1> QED BY <1>2, <1>3, <1>4, <1>5, <1>6, <1>7 DEF UnitsChain

(* A step of an instance before its last one. *)
LEMMA EarlierStep ==
  ASSUME CronInv, ChainInv, NEW x \in Id, Moved(x), inst[x].left # {}, UNCHANGED <<feed, dropped>>
  PROVE  UnitsChain' /\ Grown /\ \A id \in Id : Started(id)' => Started(id)
<1>0. inst[x].attempt \in Nat /\ inst[x].attempt >= 1
  BY TypesOfCron DEF Instance, ChainInv, UnitsChain, Tried
<1>1. ~Attempted(x) /\ ~Attempted(x)' /\ Started(x) /\ Started(x)' /\ inst'[x].phones = inst[x].phones
      /\ held' = held
  BY DEF Moved, Attempted, Started
<1>2. \A id \in Id : id # x => inst'[id] = inst[id]
  BY DEF Moved
<1>3. \A id \in Id : /\ Attempted(id)' <=> Attempted(id)
                     /\ Started(id)' <=> Started(id)
                     /\ inst'[id].phones = inst[id].phones
  BY <1>1, <1>2 DEF Attempted, Started
<1>4. Tried'
  <2>1. inst'[x].attempt >= 1 /\ (inst'[x].at = "asleep" => inst'[x].left # {})
    BY <1>0 DEF Moved
  <2> QED BY <1>2, <2>1 DEF ChainInv, UnitsChain, Tried
<1>5. Grown
  BY <1>3 DEF Grown
<1> QED BY <1>1, <1>3, <1>4, <1>5, UnitsStayChained

(* A step of an instance's last one: it attempts to write its record. *)
LEMMA LastStep ==
  ASSUME CronInv, ChainInv, NEW x \in Id, Moved(x), inst[x].left = {}, UNCHANGED <<feed, dropped>>
  PROVE  UnitsChain' /\ Grown /\ \A id \in Id : Started(id)' => Started(id)
<1>0. /\ inst[x].attempt \in Nat /\ inst[x].attempt >= 1 /\ inst[x].at # "asleep"
      /\ inst[x].status = "running"
  BY TypesOfCron DEF Instance, ChainInv, UnitsChain, Tried, Moved
<1>1. Attempted(x)' /\ Started(x) /\ Started(x)' /\ inst'[x].phones = inst[x].phones
  <2>1. /\ inst'[x].left = {} /\ inst'[x].status \in {"running", "complete", "errored"}
        /\ inst'[x].status = "running" =>
             \/ inst'[x].attempt = inst[x].attempt + 1
             \/ inst'[x].at = "written"
        /\ inst'[x].phones = inst[x].phones
    BY <1>0 DEF Moved
  <2>2. inst[x].attempt + 1 # 1
    BY <1>0
  <2> QED BY <1>0, <2>1, <2>2 DEF Attempted, Started
<1>2. \A id \in Id : id # x => inst'[id] = inst[id]
  BY DEF Moved
<1>3. \A id \in Id : /\ Attempted(id)' <=> Attempted(id) \/ id = x
                     /\ Started(id)' <=> Started(id)
                     /\ inst'[id].phones = inst[id].phones
  BY <1>1, <1>2 DEF Attempted, Started
<1>4. Grown
  BY <1>3 DEF Grown
<1>5. Tried'
  <2>1. inst'[x].attempt >= 1 /\ inst'[x].at # "asleep"
    BY <1>0 DEF Moved
  <2> QED BY <1>2, <2>1 DEF ChainInv, UnitsChain, Tried
<1>6. \A id \in Id : Pending(id)' => Pending(id) /\ id # x
  BY <1>3 DEF Pending
<1>7. \A id \in Id : Follower(id)' = Follower(id)
  BY <1>3 DEF Follower, BuildOf
<1>8. FirstStarted'
  <2>1. \A y \in Id : BuildOf(y) \in IosBuilds => <<BuildOf(y), Nothing>> \in Id
    BY DEF Id, Record
  <2> QED BY <1>3, <2>1 DEF ChainInv, UnitsChain, FirstStarted, BuildOf
<1>9. OnePending'
  BY <1>6 DEF ChainInv, UnitsChain, OnePending, BuildOf
<1>10. ASSUME NEW y \in Id, NEW z \in Id, BuildOf(y) = BuildOf(z), Pending(y)', Attempted(z)'
       PROVE  Pending(y) /\ Attempted(z)
  <2>1. Pending(y) /\ y # x
    BY <1>6, <1>10
  <2>2. CASE z = x /\ ~Attempted(x)
    <3>1. Pending(x)
      BY <1>1, <2>2 DEF Pending
    <3> QED BY <1>10, <2>1, <2>2, <3>1 DEF ChainInv, UnitsChain, OnePending
  <2> QED BY <1>3, <1>10, <2>1, <2>2
<1>11. PendingLast'
  BY <1>3, <1>7, <1>10, FollowerIsId DEF ChainInv, UnitsChain, PendingLast, BuildOf
<1>12. PhonesGrow'
  BY <1>3, <1>10 DEF ChainInv, UnitsChain, PhonesGrow, BuildOf
<1>13. OneFollower'
  <2> SUFFICES ASSUME NEW y \in Id, NEW z \in Id, BuildOf(y) \in IosBuilds, BuildOf(y) = BuildOf(z),
                      Attempted(y)', Attempted(z)', ~Started(Follower(y)), ~Started(Follower(z))
               PROVE  inst[y].phones = inst[z].phones
    BY <1>3, <1>7, FollowerIsId DEF OneFollower, BuildOf
  <2>1. CASE Attempted(y) /\ Attempted(z)
    BY <2>1 DEF ChainInv, UnitsChain, OneFollower
  <2>2. CASE Attempted(x)
    BY <1>3, <2>1, <2>2
  <2>3. CASE ~Attempted(x)
    <3>1. Pending(x)
      BY <1>1, <2>3 DEF Pending
    <3>2. ~(y = x /\ Attempted(z)) /\ ~(z = x /\ Attempted(y))
      BY <3>1 DEF ChainInv, UnitsChain, PendingLast
    <3> QED BY <1>3, <2>1, <3>2
  <2> QED BY <2>2, <2>3
<1>14. HeldWrote'
  <2>1. \A b \in Builds : held'[b] = held[b] \/ (b = BuildOf(x) /\ held'[b] = inst[x].phones)
    BY TypesOfCron DEF Moved
  <2>2. ASSUME NEW b \in Builds, NEW record, record = held'[b] PROVE Wrote(b, record)'
    <3>1. CASE record = held[b]
      BY <3>1, <1>4, WroteStays DEF ChainInv, UnitsChain, HeldWrote
    <3>2. CASE b = BuildOf(x) /\ record = inst[x].phones
      BY <1>1, <3>2 DEF Wrote, BuildOf
    <3> QED BY <2>1, <2>2, <3>1, <3>2
  <2>3. \A b \in Builds : Wrote(b, held[b])'
    BY <2>2 DEF Wrote
  <2> QED BY <2>3 DEF HeldWrote
<1> QED BY <1>3, <1>4, <1>5, <1>8, <1>9, <1>11, <1>12, <1>13, <1>14 DEF UnitsChain

(* What a check created of an iOS build: none of its build's is pending,    *)
(* and it is what the unstarted follower of any other is.                   *)
LEMMA NewFollows ==
  ASSUME CronInv, ChainInv, NEW y \in Id, BuildOf(y) \in IosBuilds, ~Started(y), Wrote(BuildOf(y), y[2])
  PROVE  /\ \A x \in Id : BuildOf(x) = BuildOf(y) => ~Pending(x)
         /\ \A z \in Id : BuildOf(z) = BuildOf(y) /\ Attempted(z) => Started(Follower(z)) \/ Follower(z) = y
         /\ y = <<BuildOf(y), Nothing>> \/ Started(<<BuildOf(y), Nothing>>)
<1>0. y = <<BuildOf(y), y[2]>>
  BY IdOfBuild DEF BuildOf
<1>1. \A z \in Id : Attempted(z) => Started(z)
  BY DEF Attempted, Started
<1>2. CASE y[2] = Nothing
  <2>1. \A x \in Id : BuildOf(x) = BuildOf(y) => ~Started(x)
    BY <1>0, <1>2 DEF ChainInv, UnitsChain, FirstStarted
  <2> QED BY <1>0, <1>1, <1>2, <2>1 DEF Pending
<1>3. ASSUME NEW z \in Id, BuildOf(z) = BuildOf(y), Attempted(z), y[2] = inst[z].phones
      PROVE  /\ \A x \in Id : BuildOf(x) = BuildOf(y) => ~Pending(x)
             /\ \A w \in Id : BuildOf(w) = BuildOf(y) /\ Attempted(w) => Started(Follower(w)) \/ Follower(w) = y
             /\ Started(<<BuildOf(y), Nothing>>)
  <2>1. Follower(z) = y
    BY <1>0, <1>3 DEF Follower
  <2>2. \A x \in Id : BuildOf(x) = BuildOf(y) => ~Pending(x)
    BY <1>3, <2>1 DEF ChainInv, UnitsChain, PendingLast
  <2>3. ASSUME NEW w \in Id, BuildOf(w) = BuildOf(y), Attempted(w), ~Started(Follower(w)) PROVE Follower(w) = y
    <3>1. inst[w].phones = inst[z].phones
      BY <1>3, <2>1, <2>3 DEF ChainInv, UnitsChain, OneFollower
    <3> QED BY <1>3, <2>1, <2>3, <3>1 DEF Follower
  <2>4. Started(<<BuildOf(y), Nothing>>)
    BY <1>1, <1>3 DEF ChainInv, UnitsChain, FirstStarted
  <2> QED BY <2>2, <2>3, <2>4
<1> QED BY <1>2, <1>3 DEF Wrote

(* What the instances of check k's start are: new ones of its plan, or ones *)
(* started again; none attempted to write since.                            *)
Created(k, id) ==
  /\ inst[id].status = "none"
  /\ \E n \in DOMAIN check[k].plan : check[k].plan[n].id = id /\ inst'[id].phones = check[k].plan[n].phones

LEMMA StartsWhat ==
  ASSUME CronInv, ChainInv, NEW k \in Slots, Starts(k)
  PROVE  /\ Tried' /\ Grown
         /\ \A id \in Id : /\ Attempted(id)' <=> Attempted(id)
                           /\ Started(id)' => Started(id) \/ Created(k, id)
                           /\ Started(id) => inst'[id].phones = inst[id].phones
                           /\ Pending(id)' => Pending(id) \/ Created(k, id)
<1>1. ASSUME NEW id \in Id, inst'[id] # inst[id]
      PROVE  /\ ~Attempted(id) /\ ~Attempted(id)' /\ Started(id)'
             /\ Created(k, id) \/ (Started(id) /\ inst'[id].phones = inst[id].phones)
             /\ inst'[id].attempt = 1 /\ inst'[id].at = "ready"
  <2>1. /\ inst'[id].status = "running" /\ inst'[id].attempt = 1 /\ inst'[id].at = "ready"
        /\ \E n \in DOMAIN check[k].plan :
             /\ check[k].plan[n].id = id
             /\ \/ inst[id].status = "none" /\ inst'[id].phones = check[k].plan[n].phones
                \/ inst[id].status = "refused" /\ inst'[id].phones = inst[id].phones
    BY <1>1 DEF Starts
  <2> QED BY <2>1 DEF Attempted, Started, Created
<1>2. ASSUME NEW id \in Id
      PROVE  /\ Attempted(id)' <=> Attempted(id)
             /\ Started(id) => Started(id)'
             /\ Started(id)' => Started(id) \/ Created(k, id)
             /\ Started(id) => inst'[id].phones = inst[id].phones
             /\ Pending(id)' => Pending(id) \/ Created(k, id)
             /\ inst'[id].attempt >= 1 /\ (inst'[id].at = "asleep" => inst'[id].left # {})
  <2>1. CASE inst'[id] = inst[id]
    BY <2>1 DEF Attempted, Started, Pending, ChainInv, UnitsChain, Tried
  <2>2. CASE inst'[id] # inst[id]
    BY <1>1, <2>2 DEF Pending, Created, Started
  <2> QED BY <2>1, <2>2
<1>3. Tried'
  BY <1>2 DEF Tried
<1>4. Grown
  BY <1>2 DEF Grown, Starts
<1> QED BY <1>2, <1>3, <1>4

LEMMA CreatedOne ==
  ASSUME CronInv, ChainInv, NEW k \in Slots, Starts(k), NEW x \in Id, Created(k, x)
  PROVE  /\ ~Started(x)
         /\ BuildOf(x) \in IosBuilds => Wrote(BuildOf(x), x[2])
         /\ \A y \in Id : Created(k, y) /\ BuildOf(y) = BuildOf(x) => y = x
         /\ \A n \in DOMAIN check[k].plan :
              BuildOf(check[k].plan[n].id) = BuildOf(x) => inst'[x].phones = check[k].plan[n].phones
         /\ BuildOf(x) \in IosBuilds \ dropped => \A z \in Id :
              BuildOf(z) = BuildOf(x) /\ Started(z) => inst[z].phones \subseteq inst'[x].phones
<1>1. PICK n \in DOMAIN check[k].plan : check[k].plan[n].id = x /\ inst'[x].phones = check[k].plan[n].phones
  BY DEF Created
<1>2. ASSUME NEW m \in DOMAIN check[k].plan, BuildOf(check[k].plan[m].id) = BuildOf(x) PROVE m = n
  <2>1. BuildOrder[m] = BuildOrder[n] /\ m \in DOMAIN BuildOrder /\ n \in DOMAIN BuildOrder
    BY <1>1, <1>2, PlanBuilds, TypesOfCron
  <2> QED BY <2>1, ChecksAssumption
<1>3. ReadWrote(k) /\ PlanGrows(k) /\ CheckLive(k)
  BY DEF ChainInv, ChecksChain, Starts
<1>4. ~Started(x) /\ (BuildOf(x) \in IosBuilds => Wrote(BuildOf(x), x[2]))
  BY <1>1, <1>3 DEF ReadWrote, Created, Started
<1>5. \A y \in Id : Created(k, y) /\ BuildOf(y) = BuildOf(x) => y = x
  BY <1>1, <1>2 DEF Created
<1>6. BuildOf(x) \in IosBuilds \ dropped => \A z \in Id :
         BuildOf(z) = BuildOf(x) /\ Started(z) => inst[z].phones \subseteq inst'[x].phones
  BY <1>1, <1>3 DEF PlanGrows
<1> QED BY <1>1, <1>2, <1>4, <1>5, <1>6

LEMMA StartsChained ==
  ASSUME AsCron, CronInv, ChainInv, NEW k \in Slots, Starts(k)
  PROVE  ChainInv'
<1>0. /\ Tried' /\ Grown
      /\ \A id \in Id : /\ Attempted(id)' <=> Attempted(id)
                        /\ Started(id) => Started(id)'
                        /\ Started(id)' => Started(id) \/ Created(k, id)
                        /\ Started(id) => inst'[id].phones = inst[id].phones
                        /\ Pending(id)' => Pending(id) \/ Created(k, id)
  BY StartsWhat DEF Grown
<1>1. \A id \in Id : Attempted(id) => Started(id) /\ Follower(id)' = Follower(id)
  BY <1>0 DEF Attempted, Started, Follower, BuildOf
<1>2. ASSUME NEW y \in Id, Created(k, y), BuildOf(y) \in IosBuilds
      PROVE  /\ \A x \in Id : BuildOf(x) = BuildOf(y) => ~Pending(x)
             /\ \A z \in Id : BuildOf(z) = BuildOf(y) /\ Attempted(z) => Started(Follower(z)) \/ Follower(z) = y
             /\ y = <<BuildOf(y), Nothing>> \/ Started(<<BuildOf(y), Nothing>>)
  BY <1>2, CreatedOne, NewFollows
<1>3. FirstStarted'
  <2> SUFFICES ASSUME NEW x \in Id, BuildOf(x) \in IosBuilds, Started(x)'
               PROVE  Started(<<BuildOf(x), Nothing>>)'
    BY DEF FirstStarted, BuildOf
  <2>1. <<BuildOf(x), Nothing>> \in Id
    BY DEF Id, Record
  <2>2. CASE Started(x)
    BY <1>0, <2>1, <2>2 DEF ChainInv, UnitsChain, FirstStarted
  <2>3. CASE Created(k, x)
    BY <1>0, <1>2, <2>1, <2>3
  <2> QED BY <1>0, <2>2, <2>3
<1>4. OnePending'
  <2> SUFFICES ASSUME NEW x \in Id, NEW y \in Id, BuildOf(x) = BuildOf(y), Pending(x)', Pending(y)'
               PROVE  x = y
    BY DEF OnePending, BuildOf
  <2>1. CASE BuildOf(x) \notin IosBuilds
    BY <2>1, IdOfBuild DEF Builds, BuildOf
  <2>2. CASE BuildOf(x) \in IosBuilds
    <3>1. CASE Pending(x) /\ Pending(y)
      BY <3>1 DEF ChainInv, UnitsChain, OnePending
    <3>2. ~(Created(k, x) /\ Pending(y)) /\ ~(Created(k, y) /\ Pending(x))
      BY <1>2, <2>2
    <3>3. CASE Created(k, x) /\ Created(k, y)
      BY <3>3, CreatedOne
    <3> QED BY <1>0, <3>1, <3>2, <3>3
  <2> QED BY <2>1, <2>2
<1>5. PendingLast'
  <2> SUFFICES ASSUME NEW x \in Id, NEW z \in Id, BuildOf(x) \in IosBuilds, BuildOf(x) = BuildOf(z),
                      Pending(x)', Attempted(z)
               PROVE  Started(Follower(z))'
    BY <1>0, <1>1, FollowerIsId DEF PendingLast, BuildOf
  <2>0. Follower(z) \in Id /\ Follower(z)' = Follower(z)
    BY <1>1, FollowerIsId
  <2>1. PICK f \in Id : f = Follower(z)
    BY <2>0
  <2>2. Started(f)'
    <3>1. CASE Pending(x)
      BY <1>0, <2>1, <3>1 DEF ChainInv, UnitsChain, PendingLast
    <3>2. CASE Created(k, x)
      <4>1. Started(f) \/ f = x
        BY <1>2, <2>1, <3>2
      <4>2. Started(x)'
        BY DEF Pending
      <4> QED BY <1>0, <4>1, <4>2
    <3> QED BY <1>0, <3>1, <3>2
  <2> QED BY <2>0, <2>1, <2>2 DEF Started
<1>6. OneFollower'
  <2> SUFFICES ASSUME NEW y \in Id, NEW z \in Id, BuildOf(y) \in IosBuilds, BuildOf(y) = BuildOf(z),
                      Attempted(y), Attempted(z), ~Started(Follower(y))', ~Started(Follower(z))'
               PROVE  inst[y].phones = inst[z].phones
    BY <1>0, <1>1 DEF OneFollower, BuildOf
  <2>1. PICK f \in Id, g \in Id : f = Follower(y) /\ g = Follower(z)
    BY FollowerIsId
  <2>2. Follower(y)' = f /\ Follower(z)' = g
    BY <1>1, <2>1
  <2>3. ~Started(f)' /\ ~Started(g)'
    BY <2>2 DEF Started
  <2>4. ~Started(f) /\ ~Started(g)
    BY <1>0, <2>3
  <2> QED BY <2>1, <2>4 DEF ChainInv, UnitsChain, OneFollower
<1>7. HeldWrote'
  <2>1. ASSUME NEW b \in Builds, NEW record, record = held[b] PROVE Wrote(b, record)'
    BY <1>0, <2>1, WroteStays DEF ChainInv, UnitsChain, HeldWrote
  <2>2. held' = held
    BY DEF Starts
  <2>3. \A b \in Builds : Wrote(b, held[b])'
    BY <2>1, <2>2 DEF Wrote
  <2> QED BY <2>3 DEF HeldWrote
<1>8. PhonesGrow'
  <2> SUFFICES ASSUME NEW x \in Id, NEW z \in Id, BuildOf(x) \in IosBuilds \ dropped, BuildOf(x) = BuildOf(z),
                      Pending(x)', Attempted(z)
               PROVE  inst'[z].phones \subseteq inst'[x].phones
    BY <1>0 DEF PhonesGrow, BuildOf, Grown
  <2>1. inst'[z].phones = inst[z].phones /\ Started(z)
    BY <1>0, <1>1
  <2>2. CASE Pending(x)
    <3>1. Started(x)
      BY <2>2 DEF Pending
    <3> QED BY <1>0, <2>1, <2>2, <3>1 DEF ChainInv, UnitsChain, PhonesGrow
  <2>3. CASE Created(k, x)
    BY <2>1, <2>3, CreatedOne
  <2> QED BY <1>0, <2>2, <2>3
<1>9. ASSUME NEW l \in Slots PROVE ReadWrote(l)' /\ PlanGrows(l)'
  <2>1. /\ check'[l].plan = check[l].plan
        /\ check'[l].at = "asked" => check[l].at = "asked" /\ check'[l].seen = check[l].seen
    BY DEF Starts
  <2>2. ReadWrote(l)'
    BY <1>0, <2>1, ReadStays
  <2>3. CASE l # k
    <3>1. ~CheckLive(l) /\ check'[l] = check[l]
      BY <2>3, OnlyCheck, TypesOfCron DEF Starts, AsCron
    <3>2. ~CheckLive(l)'
      BY <3>1 DEF CheckLive
    <3> QED BY <2>2, <3>2 DEF PlanGrows
  <2>4. CASE l = k
    <3> SUFFICES ASSUME NEW n \in DOMAIN check[k].plan, NEW id, id = check[k].plan[n].id,
                        BuildOf(id) \in IosBuilds \ dropped,
                        NEW z \in Id, BuildOf(z) = BuildOf(id), Started(z)'
                 PROVE  inst'[z].phones \subseteq check[k].plan[n].phones
      BY <1>0, <2>1, <2>2, <2>4 DEF PlanGrows, BuildOf, Grown
    <3>1. PlanGrows(k) /\ CheckLive(k)
      BY DEF ChainInv, ChecksChain, Starts
    <3>2. CASE Started(z)
      BY <1>0, <3>1, <3>2 DEF PlanGrows
    <3>3. CASE Created(k, z)
      BY <3>3, CreatedOne
    <3> QED BY <1>0, <3>2, <3>3
  <2> QED BY <2>3, <2>4
<1> QED BY <1>0, <1>3, <1>4, <1>5, <1>6, <1>7, <1>8, <1>9 DEF ChainInv, UnitsChain, ChecksChain

(* Steps that leave instances and records. *)
LEMMA QuietUnits ==
  ASSUME CronInv, ChainInv, UNCHANGED <<held, inst, feed>>, dropped \subseteq dropped'
  PROVE  UnitsChain' /\ Grown /\ \A id \in Id : Started(id)' => Started(id)
<1>1. /\ \A id \in Id : /\ Started(id)' <=> Started(id)
                        /\ Attempted(id)' <=> Attempted(id)
      /\ Tried'
  BY DEF Started, Attempted, ChainInv, UnitsChain, Tried
<1>2. Grown
  BY <1>1 DEF Grown
<1> QED BY <1>1, <1>2, UnitsStayChained

(* A check that planned nothing since, and read nothing but the records. *)
PlansNothing(k) ==
  \/ DOMAIN check'[k].plan = {} /\ check'[k].at # "asked"
  \/ /\ check'[k].plan = check[k].plan /\ (CheckLive(k)' => CheckLive(k))
     /\ check'[k].at = "asked" =>
          check'[k].seen = held \/ (check[k].at = "asked" /\ check'[k].seen = check[k].seen)

LEMMA PlansNothingChained ==
  ASSUME CronInv, ChainInv, Grown, \A id \in Id : Started(id)' => Started(id), NEW k \in Slots, PlansNothing(k)
  PROVE  ReadWrote(k)' /\ PlanGrows(k)'
<1>1. CASE DOMAIN check'[k].plan = {} /\ check'[k].at # "asked"
  BY <1>1, NothingPlanned
<1>2. CASE /\ check'[k].plan = check[k].plan /\ (CheckLive(k)' => CheckLive(k))
           /\ check'[k].at = "asked" =>
                check'[k].seen = held \/ (check[k].at = "asked" /\ check'[k].seen = check[k].seen)
  BY <1>2, ReadStays, PlanStays
<1> QED BY <1>1, <1>2 DEF PlansNothing

LEMMA NothingElse ==
  ASSUME NEW k \in Slots, check'[k] = check[k]
  PROVE  PlansNothing(k)
  BY DEF PlansNothing, CheckLive

LEMMA QuietChained ==
  ASSUME CronInv, ChainInv, UNCHANGED <<held, inst, feed>>, dropped \subseteq dropped',
         \A k \in Slots : PlansNothing(k)
  PROVE  ChainInv'
  BY QuietUnits, PlansNothingChained DEF ChainInv, ChecksChain

(* A step of an instance. *)
LEMMA MoveChained ==
  ASSUME CronInv, ChainInv, NEW x \in Id, Moved(x), UNCHANGED checkVars
  PROVE  ChainInv'
<1>1. UNCHANGED <<feed, dropped, check>>
  BY DEF checkVars
<1>2. UnitsChain' /\ Grown /\ \A id \in Id : Started(id)' => Started(id)
  BY <1>1, EarlierStep, LastStep
<1>3. \A k \in Slots : PlansNothing(k)
  BY <1>1, NothingElse
<1> QED BY <1>2, <1>3, PlansNothingChained DEF ChainInv, ChecksChain

(* Planning. *)
LEMMA PlanChained ==
  ASSUME CronInv, ChainInv, NEW k \in Slots, PlanRuns(k)
  PROVE  ChainInv'
<1>1. /\ ChecksTo(k, "planned", <<>>, PlanOfCheck(k), check[k].restart, check[k].fresh)
      /\ UNCHANGED <<held, inst, late, feed, listed, dropped>> /\ check[k].at = "asked"
  BY TypesOfCron, CheckMoves DEF PlanRuns, unitVars
<1>2. UnitsChain' /\ Grown /\ \A id \in Id : Started(id)' => Started(id)
  BY <1>1, QuietUnits
<1>3. ASSUME NEW l \in Slots, l # k PROVE ReadWrote(l)' /\ PlanGrows(l)'
  <2>1. check'[l] = check[l]
    BY <1>1, <1>3 DEF ChecksTo
  <2> QED BY <1>2, <2>1, NothingElse, PlansNothingChained
<1>4. check[k].seen \in IF feed = "ios-build" THEN [Builds -> Record] ELSE [Builds -> SUBSET Phones]
  BY <1>1, TypesOfCron DEF CheckTypes
<1>5. PICK plan : plan = PlanOfCheck(k)
  OBVIOUS
<1>6. check'[k].plan = plan /\ check'[k].at = "planned"
  BY <1>1, <1>5 DEF ChecksTo
<1>7. ASSUME NEW n \in DOMAIN plan, BuildOf(plan[n].id) \in IosBuilds
      PROVE  /\ Wrote(BuildOf(plan[n].id), plan[n].id[2])
             /\ plan[n].phones = listed[BuildOf(plan[n].id)]
  <2>1. CASE feed = "ios-build"
    <3>1. check[k].seen \in [Builds -> Record] /\ listed \in [Builds -> SUBSET Phones]
          /\ plan = Plan(check[k].seen, listed, check[k].only)
      BY <1>4, <1>5, <2>1, TypesOfCron DEF PlanOfCheck
    <3>2. PICK b \in Builds : plan[n].id = InstanceId(b, check[k].seen[b]) /\ plan[n].phones = listed[b]
      BY <1>7, <3>1, PlanOf
    <3>3. BuildOf(plan[n].id) = b /\ b \in IosBuilds /\ plan[n].id[2] = check[k].seen[b]
      BY <1>7, <3>1, <3>2, CurrentOf
    <3>4. Wrote(b, check[k].seen[b])
      BY <1>1, <2>1, <3>3 DEF ChainInv, ChecksChain, ReadWrote
    <3> QED BY <3>2, <3>3, <3>4
  <2>2. CASE feed # "ios-build"
    <3>1. check[k].seen \in [Builds -> SUBSET Phones] /\ held \in [Builds -> Record]
          /\ plan = Plan(held, check[k].seen, check[k].only)
      BY <1>4, <1>5, <2>2, TypesOfCron DEF PlanOfCheck
    <3>2. PICK b \in Builds : plan[n].id = InstanceId(b, held[b]) /\ FeedOf(b) = feed
      BY <1>7, <3>1, PlanOf
    <3>3. BuildOf(plan[n].id) = b
      BY <3>1, <3>2, CurrentOf
    <3> QED BY <1>7, <2>2, <3>2, <3>3 DEF FeedOf
  <2> QED BY <2>1, <2>2
<1>8. ReadWrote(k)'
  <2>1. ASSUME NEW n \in DOMAIN plan, NEW id, id = plan[n].id, BuildOf(id) \in IosBuilds
        PROVE  Wrote(BuildOf(id), id[2])'
    <3>1. PICK b, record : b = BuildOf(id) /\ record = id[2]
      OBVIOUS
    <3>2. Wrote(b, record)'
      BY <1>2, <1>7, <2>1, <3>1, WroteStays
    <3> QED BY <3>1, <3>2
  <2> QED BY <1>6, <2>1 DEF ReadWrote, BuildOf
<1>9. PlanGrows(k)'
  <2> SUFFICES ASSUME NEW n \in DOMAIN plan, BuildOf(plan[n].id) \in IosBuilds \ dropped,
                      NEW z \in Id, BuildOf(z) = BuildOf(plan[n].id), Started(z)
               PROVE  inst[z].phones \subseteq plan[n].phones
    BY <1>1, <1>6 DEF PlanGrows, BuildOf, Started
  <2>1. Payload(z, inst[z].phones)
    BY DEF Started, CronInv, InTime, HeldInv, UnitsListed
  <2> QED BY <1>7, <2>1 DEF Payload, Undropped
<1> QED BY <1>2, <1>3, <1>8, <1>9 DEF ChainInv, ChecksChain

(* The other steps of a check. *)
LEMMA CheckChained ==
  ASSUME AsCron, CronInv, ChainInv, NEW k \in Slots, CheckStep(k) \/ CheckFails(k)
  PROVE  ChainInv'
<1>1. ASSUME UNCHANGED <<held, inst, feed, dropped>>, NEW at, NEW seen, NEW plan, NEW restart, NEW fresh,
             ChecksTo(k, at, seen, plan, restart, fresh),
             \/ DOMAIN plan = {} /\ at # "asked"
             \/ /\ plan = check[k].plan /\ (at # "none" => CheckLive(k))
                /\ at = "asked" => seen = held \/ (check[k].at = "asked" /\ seen = check[k].seen)
                                   \/ feed # "ios-build"
      PROVE  ChainInv'
  <2>1. \A l \in Slots : l # k => PlansNothing(l)
    BY <1>1, NothingElse DEF ChecksTo
  <2>2. CASE PlansNothing(k)
    BY <1>1, <2>1, <2>2, QuietChained
  <2>3. CASE ~PlansNothing(k)
    <3>0. check'[k].plan = plan /\ check'[k].at = at /\ check'[k].seen = seen
          /\ (CheckLive(k)' <=> at # "none")
      BY <1>1 DEF ChecksTo, CheckLive
    <3>1. check'[k].plan = check[k].plan /\ (CheckLive(k)' => CheckLive(k)) /\ feed # "ios-build"
      BY <1>1, <2>3, <3>0 DEF PlansNothing
    <3>2. UnitsChain' /\ Grown /\ \A id \in Id : Started(id)' => Started(id)
      BY <1>1, QuietUnits
    <3>3. PlanGrows(k)'
      BY <3>1, <3>2, PlanStays
    <3>4. ReadWrote(k)'
      <4>1. ASSUME NEW n \in DOMAIN check[k].plan, NEW id, id = check[k].plan[n].id
            PROVE  BuildOf(id) \notin IosBuilds
        <5>1. Payload(id, check[k].plan[n].phones)
          BY <4>1 DEF CronInv, InTime, ChecksInTime, CheckInTime, PlanCurrent
        <5> QED BY <3>1, <5>1 DEF Payload, FeedOf
      <4> QED BY <1>1, <3>1, <4>1 DEF ReadWrote, BuildOf
    <3>5. \A l \in Slots : l # k => ReadWrote(l)' /\ PlanGrows(l)'
      BY <2>1, <3>2, PlansNothingChained
    <3> QED BY <3>2, <3>3, <3>4, <3>5 DEF ChainInv, ChecksChain
  <2> QED BY <2>2, <2>3
<1>2. CASE ReadFirst(k)
  <2>1. ChecksTo(k, "asked", ReadOf, check[k].plan, check[k].restart, check[k].fresh) /\ CheckLive(k)
        /\ UNCHANGED <<held, inst, feed, dropped>>
    BY <1>2, TypesOfCron, CheckMoves DEF ReadFirst, unitVars, CheckLive
  <2>2. ReadOf = held \/ feed # "ios-build"
    BY DEF ReadOf
  <2> QED BY <1>1, <2>1, <2>2
<1>3. CASE PlanRuns(k)
  BY <1>3, PlanChained
<1>4. CASE ReadStatuses(k)
  <2>1. ChecksTo(k, "decided", check[k].seen, check[k].plan, DecisionOf(k).restart, DecisionOf(k).fresh)
        /\ CheckLive(k) /\ UNCHANGED <<held, inst, feed, dropped>>
    BY <1>4, TypesOfCron, CheckMoves DEF ReadStatuses, unitVars, CheckLive
  <2> QED BY <1>1, <2>1
<1>5. CASE CreateBatch(k) \/ Restart(k)
  BY <1>5, BatchStarts, RestartStarts, StartsChained
<1>6. ASSUME Ended(k), UNCHANGED <<held, inst, feed, dropped>> PROVE ChainInv'
  <2>1. ChecksTo(k, "none", <<>>, <<>>, {}, {})
    BY <1>6, TypesOfCron, CheckMoves
  <2> QED BY <1>1, <1>6, <2>1, EmptyPlan
<1>7. CASE EndCheck(k)
  BY <1>6, <1>7 DEF EndCheck, unitVars
<1>8. CASE CheckFails(k)
  <2>1. UNCHANGED <<held, inst, feed, dropped>> /\ (Retried(k) \/ Ended(k))
    BY <1>8, TypesOfCron, FailedCheck
  <2>2. CASE Retried(k)
    BY <1>1, <2>1, <2>2 DEF Retried, CheckLive
  <2> QED BY <1>6, <2>1, <2>2
<1> QED BY <1>2, <1>3, <1>4, <1>5, <1>7, <1>8 DEF CheckStep

LEMMA ChainBegins == ASSUME Init, CronInv PROVE ChainInv
<1>1. /\ \A id \in Id : inst[id] = NoInstance
      /\ \A b \in Builds : held[b] = Nothing
      /\ \A k \in Slots : check[k] = NoCheck
  BY DEF Init, InitUnits
<1>2. /\ NoInstance.status = "none" /\ NoInstance.attempt = 1 /\ NoInstance.at = "ready"
      /\ NoCheck.at = "none" /\ DOMAIN NoCheck.plan = {}
  BY EmptyPlan DEF NoInstance, NoCheck
<1>3. \A id \in Id : ~Started(id) /\ ~Attempted(id) /\ ~Pending(id)
  BY <1>1, <1>2 DEF Started, Attempted, Pending
<1>4. Tried
  BY <1>1, <1>2 DEF Tried
<1>5. UnitsChain
  BY <1>1, <1>3, <1>4
     DEF UnitsChain, FirstStarted, OnePending, PendingLast, OneFollower, HeldWrote, Wrote, PhonesGrow
<1>6. ChecksChain
  BY <1>1, <1>2 DEF ChecksChain, ReadWrote, PlanGrows, CheckLive
<1> QED BY <1>5, <1>6 DEF ChainInv

LEMMA ChainKept ==
  ASSUME AsCron, CronInv, ChainInv, [Next]_vars
  PROVE  ChainInv'
<1>1. CASE UNCHANGED <<held, inst, feed, dropped, check>>
  BY <1>1, QuietChained, NothingElse
<1>2. CASE UnitStep /\ UNCHANGED checkVars
  <2>1. UNCHANGED <<held, late, inst>> \/ \E x \in Id : Moved(x)
    BY <1>2, TypesOfCron, UnitMoves DEF UnitStep
  <2> QED BY <1>1, <1>2, <2>1, MoveChained DEF checkVars
<1>3. ASSUME NEW b \in Builds, NEW p \in Phones, List(b, p) \/ Delist(b, p) PROVE ChainInv'
  <2>1. UNCHANGED <<held, inst, feed, check>> /\ dropped \subseteq dropped'
    BY <1>3 DEF List, Delist, unitVars
  <2> QED BY <2>1, QuietChained, NothingElse
<1>4. ASSUME NEW a \in Askers,
             AskerStep(a) \/ \E rebuild \in Rebuilds, only \in Onlys : Ask(a, rebuild, only)
      PROVE  ChainInv'
  <2>1. ASSUME NEW k \in Slots, CreateCheck(a, k) PROVE ChainInv'
    <3>1. /\ UNCHANGED <<held, inst, feed, dropped>>
          /\ check' = [check EXCEPT ![k] = NewCheck(asker[a].rebuild, asker[a].only)]
      BY <2>1 DEF CreateCheck, unitVars
    <3>2. check \in [Slots -> Checking]
      BY TypesOfCron
    <3>3. PlansNothing(k)
      <4>1. DOMAIN check'[k].plan = {} /\ check'[k].at = "new"
        BY <3>1, <3>2, EmptyPlan DEF NewCheck, NoCheck
      <4> QED BY <4>1 DEF PlansNothing
    <3>4. \A l \in Slots : l # k => PlansNothing(l)
      BY <3>1, <3>2, NothingElse
    <3> QED BY <3>1, <3>3, <3>4, QuietChained
  <2> QED BY <1>1, <1>4, <2>1 DEF AskerStep, RecordCheck, Ask, unitVars
<1>5. ASSUME NEW k \in Slots, CheckStep(k) \/ CheckFails(k) PROVE ChainInv'
  BY <1>5, CheckChained
<1>6. CASE UNCHANGED vars
  BY <1>1, <1>6 DEF vars, unitVars, checkVars
<1> QED BY <1>2, <1>3, <1>4, <1>5, <1>6 DEF Next

LEMMA ChainInvHolds == ASSUME AsCron PROVE Spec => [](CronInv /\ ChainInv)
<1>1. Spec => []CronInv
  BY CronInvHolds
<1>2. Init /\ CronInv => ChainInv
  BY ChainBegins
<1>3. CronInv /\ ChainInv /\ [Next]_vars => ChainInv'
  BY ChainKept
<1> QED BY <1>1, <1>2, <1>3, PTL DEF Spec

(* No two instances of a build may ask for containers, whatever the feed    *)
(* lists it for, drops or lists again, and whenever older instances write   *)
(* its record again: OneExtraction.                                         *)
THEOREM BuildsExtractedOnce == ASSUME AsCron PROVE Spec => []OneExtraction
<1>1. ChainInv => OneExtraction
  <2>1. \A id \in Id : Extracting(id) => Pending(id)
    BY DEF Extracting, Live, AtLastStep, Pending, Started, Attempted
  <2> QED BY <2>1 DEF ChainInv, UnitsChain, OnePending, OneExtraction
<1> QED BY <1>1, ChainInvHolds, PTL

(* What the step of an instance that writes a record leaves of it. *)
LEMMA WrittenGrows ==
  ASSUME CronInv, ChainInv, NEW x \in Id, Moved(x), NEW b \in Builds \ dropped,
         held'[b] # held[b], held[b] # Nothing
  PROVE  held[b] \subseteq held'[b] \/ (BuildOf(x) = b /\ WritesAgain(x) /\ held'[b] = inst[x].phones)
<1>1. /\ BuildOf(x) = b /\ Finishing(x) /\ inst[x].at = "ready" /\ held'[b] = inst[x].phones
      /\ inst[x].status = "running" /\ inst[x].attempt \in Nat /\ inst[x].attempt >= 1
  BY Written, TypesOfCron DEF Finishing, Live, Instance, ChainInv, UnitsChain, Tried
<1>2. CASE inst[x].attempt > 1
  BY <1>1, <1>2 DEF WritesAgain
<1>3. CASE inst[x].attempt = 1
  <2>1. Pending(x)
    BY <1>1, <1>3 DEF Pending, Started, Attempted
  <2>2. Wrote(b, held[b])
    BY DEF ChainInv, UnitsChain, HeldWrote
  <2>3. PICK z \in Id : BuildOf(z) = b /\ Attempted(z) /\ held[b] = inst[z].phones
    BY <2>2 DEF Wrote
  <2>4. CASE b \in IosBuilds
    BY <1>1, <2>1, <2>3, <2>4 DEF ChainInv, UnitsChain, PhonesGrow
  <2>5. CASE b \notin IosBuilds
    <3>1. z = x
      BY <1>1, <2>3, <2>5, IdOfBuild DEF Builds, BuildOf
    <3> QED BY <2>1, <2>3, <3>1 DEF Pending
  <2> QED BY <2>4, <2>5
<1> QED BY <1>1, <1>2, <1>3

(* A record loses a phone only by a later attempt of an instance's last     *)
(* step, or once the feed dropped the build's phones: what every first      *)
(* write has, every one after it has, in whichever order: RecordsGrow.      *)
THEOREM LostOnlyByLaterAttempts == ASSUME AsCron PROVE Spec => RecordsGrow
<1>1. CronInv /\ ChainInv /\ [Next]_vars =>
        [\A b \in Builds \ dropped : held[b] # Nothing =>
           \/ held[b] \subseteq held'[b]
           \/ \E id \in Id : /\ BuildOf(id) = b /\ WritesAgain(id)
                             /\ held'[b] = inst[id].phones]_held
  <2> SUFFICES ASSUME CronInv, ChainInv, [Next]_vars, held' # held, NEW b \in Builds \ dropped, held[b] # Nothing
               PROVE  \/ held[b] \subseteq held'[b]
                      \/ \E id \in Id : BuildOf(id) = b /\ WritesAgain(id) /\ held'[b] = inst[id].phones
    OBVIOUS
  <2>1. CASE UnitStep
    <3>1. PICK x \in Id : Moved(x)
      BY <2>1, TypesOfCron, UnitMoves DEF UnitStep
    <3> QED BY <3>1, WrittenGrows
  <2>2. ASSUME NEW c \in Builds, NEW p \in Phones, List(c, p) \/ Delist(c, p) PROVE FALSE
    BY <2>2 DEF List, Delist, unitVars
  <2>3. ASSUME NEW a \in Askers,
               AskerStep(a) \/ \E rebuild \in Rebuilds, only \in Onlys : Ask(a, rebuild, only)
        PROVE  FALSE
    BY <2>3 DEF AskerStep, CreateCheck, RecordCheck, Ask, unitVars
  <2>4. ASSUME NEW k \in Slots, CheckStep(k) \/ CheckFails(k) PROVE FALSE
    BY <2>4 DEF CheckStep, ReadFirst, PlanRuns, ReadStatuses, CreateBatch, Restart, EndCheck, CheckFails, unitVars
  <2>5. CASE UNCHANGED vars
    BY <2>5 DEF vars, unitVars
  <2> QED BY <2>1, <2>2, <2>3, <2>4, <2>5 DEF Next
<1>2. Spec => [](CronInv /\ ChainInv)
  BY ChainInvHolds
<1> QED BY <1>1, <1>2, PTL DEF Spec, RecordsGrow

================================================================================
