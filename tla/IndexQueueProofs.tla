-------------------------- MODULE IndexQueueProofs --------------------------
(***************************************************************************)
(* The index queue, for every number of platforms, records, sources,       *)
(* failures and duplicates.  TypeOK is not inductive alone: what a job's   *)
(* step says of its message is needed too.  Then a stale row always has a  *)
(* message in flight that will rewrite it: SourcesCovered, ChangesCovered. *)
(***************************************************************************)
EXTENDS IndexQueue, TLAPS

(* What the consumer holds at each step of a message: a facts message's own  *)
(* record, or one of a reindex's platform.                                  *)
OfMessage(m, r) ==
  /\ r \in Records
  /\ \/ m.kind = "facts" /\ r = m.record
     \/ m.kind = "reindex" /\ PlatformOf[r] = m.platform

JobShape ==
  /\ IF job.at = "idle" THEN job.m = None ELSE job.m \in Message
  /\ job.at = "countHeld" => job.m.kind = "reindex"
  /\ job.at = "count" => job.m.kind = "facts"
  /\ job.at \in {"derive", "changes"} => job.m.kind = "derive"
  /\ \/ job.at \in {"countHeld", "profiles", "copies", "rows", "count"}
     \/ job.at = "route" /\ job.m.kind # "routes"
     => OfMessage(job.m, job.rec)
  /\ job.m.kind = "facts" => job.rec = job.m.record
  /\ job.at = "link" => job.m.kind \in {"facts", "reindex", "routes", "derive"}
  /\ job.at = "link" /\ job.m.kind \in {"facts", "reindex"} => OfMessage(job.m, job.rec)

LEMMA RecordsNat == \A r \in Records \cup {0} : r \in Nat
  BY RecordsAssumption

LEMMA IdleType == Idle \in Job
  BY BoundAssumption DEF Idle, Job, Steps, None

(* Slices are subsets. *)
LEMMA SliceSubset ==
  ASSUME NEW S, NEW k, NEW T \in Slices(S, k)
  PROVE  T \subseteq S
  BY DEF Slices

LEMMA TypeFeed == TypeOK /\ Feed => TypeOK'
  <1> SUFFICES ASSUME TypeOK, Feed PROVE TypeOK'
    OBVIOUS
  <1>1. ASSUME NEW r \in Records, WriteRecord(r) PROVE TypeOK'
    BY <1>1, BoundAssumption DEF TypeOK, WriteRecord, factVars, derivedVars, routeVars
  <1>2. ASSUME NEW r \in Records, QueueRecord(r) PROVE TypeOK'
    BY <1>2 DEF TypeOK, QueueRecord, bucketVars, factVars, derivedVars, routeVars, Facts, Message
  <1>3. ASSUME NEW r \in Records, UnitFails(r) PROVE TypeOK'
    BY <1>3 DEF TypeOK, UnitFails, bucketVars, factVars, derivedVars, routeVars
  <1>4. ASSUME NEW p \in Platforms, SyncDevices(p) PROVE TypeOK'
    BY <1>4 DEF TypeOK, SyncDevices, bucketVars, factVars, derivedVars, routeVars
  <1>5. ASSUME NEW p \in Platforms, QueueRederive(p) PROVE TypeOK'
    BY <1>5 DEF TypeOK, QueueRederive, bucketVars, factVars, derivedVars, routeVars, Rederive, Message
  <1>6. ASSUME NEW p \in Platforms, PurgeDevices(p) PROVE TypeOK'
    BY <1>6 DEF TypeOK, PurgeDevices, bucketVars, factVars, derivedVars, routeVars
  <1>7. ASSUME NEW p \in Platforms, CheckFails(p) PROVE TypeOK'
    BY <1>7 DEF TypeOK, CheckFails, bucketVars, factVars, derivedVars, routeVars
  <1>8. ASSUME PublishManifest PROVE TypeOK'
    BY <1>8 DEF TypeOK, PublishManifest, workflowVars, factVars, derivedVars, routeVars, Routes, Message
  <1>9. ASSUME NEW p \in Platforms, AskRederive(p) \/ AskReindex(p) PROVE TypeOK'
    BY <1>9 DEF TypeOK, AskRederive, AskReindex, Ask, Rederive, Reindex, Message,
                bucketVars, workflowVars, factVars, derivedVars, routeVars
  <1>10. ASSUME NEW r \in Records, AskRecord(r) PROVE TypeOK'
    BY <1>10 DEF TypeOK, AskRecord, Ask, Facts, Message,
                 bucketVars, workflowVars, factVars, derivedVars, routeVars
  <1>11. QED
    BY <1>1, <1>2, <1>3, <1>4, <1>5, <1>6, <1>7, <1>8, <1>9, <1>10 DEF Feed

LEMMA NextType ==
  /\ \A r \in Records : Facts(r) \in Message
  /\ \A p \in Platforms, n \in Nat : Settle(p, n) \in Message /\ Reindex(p, n) \in Message
  /\ \A n \in Nat : Routes(n) \in Message
  /\ \A p \in Platforms : Rederive(p) \in Message
  /\ \A p \in Platforms, S \in SUBSET Sources, C \in SUBSET Releases : Derive(p, S, C) \in Message
  BY DEF Facts, Settle, Reindex, Routes, Rederive, Derive, Message

LEMMA JobStart ==
  ASSUME NEW j \in Job, NEW a \in Steps, NEW m \in Message, NEW n \in Nat,
         NEW S \in SUBSET Sources, NEW R \in SUBSET Sources,
         NEW C \in SUBSET Releases, NEW L \in SUBSET Releases
  PROVE  [j EXCEPT !.at = a, !.m = m, !.seen = n, !.todo = S, !.rest = R,
                   !.redo = C, !.later = L] \in Job
  BY DEF Job

LEMMA TypeTake == TypeOK /\ TakeMessage => TypeOK'
  <1> SUFFICES ASSUME TypeOK, TakeMessage PROVE TypeOK'
    OBVIOUS
  <1> USE DEF Take, bucketVars, workflowVars, factVars, derivedVars, routeVars
  <1>a. ASSUME NEW m \in queue, NEW started \in Job, Take(m, started),
               lostRederive' \in [Platforms -> BOOLEAN]
        PROVE  TypeOK'
    BY <1>a DEF TypeOK
  <1>1. ASSUME NEW m \in queue, m.kind = "facts", TakeFacts(m.record) PROVE TypeOK'
    <2>1. m.record \in Records
      BY <1>1 DEF TypeOK, Message
    <2>2. [Idle EXCEPT !.at = "profiles", !.m = Facts(m.record), !.rec = m.record,
                       !.ver = record[m.record]] \in Job
      BY <2>1, IdleType, NextType DEF Job, Steps, TypeOK
    <2>3. QED
      BY <1>1, <2>1, <2>2, <1>a DEF TakeFacts, TypeOK
  <1>2. ASSUME NEW m \in queue, m.kind = "routes", TakeRoutes(m.manifest) PROVE TypeOK'
    <2>1. m.manifest \in Nat
      BY <1>2 DEF TypeOK, Message
    <2>2. [Idle EXCEPT !.at = "route", !.m = Routes(m.manifest)] \in Job
      BY <2>1, IdleType, NextType DEF Job, Steps
    <2>3. QED
      BY <1>2, <2>1, <2>2, <1>a DEF TakeRoutes, TypeOK
  <1>3. ASSUME NEW m \in queue, m.kind = "settle", TakeSettle(m.platform, m.facts) PROVE TypeOK'
    <2>1. m.platform \in Platforms /\ m.facts \in Nat
      BY <1>3 DEF TypeOK, Message
    <2>2. [Idle EXCEPT !.at = "send", !.m = Settle(m.platform, m.facts),
             !.next = IF counted[m.platform] = m.facts THEN Rederive(m.platform) ELSE None] \in Job
      BY <2>1, IdleType, NextType DEF Job, Steps
    <2>3. QED
      BY <1>3, <2>1, <2>2, <1>a DEF TakeSettle, TypeOK
  <1>4. ASSUME NEW m \in queue, m.kind = "rederive", TakeRederive(m.platform) PROVE TypeOK'
    <2>1. m.platform \in Platforms
      BY <1>4 DEF TypeOK, Message
    <2>2. /\ SourcesOf(m.platform) \in SUBSET Sources /\ ReleasesOf(m.platform) \in SUBSET Releases
      BY DEF SourcesOf, ReleasesOf
    <2>3. Derive(m.platform, SourcesOf(m.platform), ReleasesOf(m.platform)) \in Message
      BY <2>1, <2>2, NextType
    <2>4. [Idle EXCEPT !.at = "send", !.m = Rederive(m.platform),
             !.next = Derive(m.platform, SourcesOf(m.platform), ReleasesOf(m.platform))] \in Job
      BY <2>1, <2>3, IdleType, NextType DEF Job, Steps
    <2>5. QED
      BY <1>4, <2>1, <2>4, <1>a DEF TakeRederive, TypeOK
  <1>5. ASSUME NEW m \in queue, m.kind = "reindex", TakeReindex(m.platform, m.after) PROVE TypeOK'
    <2>1. m.platform \in Platforms /\ m.after \in Nat
      BY <1>5 DEF TypeOK, Message
    <2>2. [Idle EXCEPT !.at = "send", !.m = Reindex(m.platform, m.after),
                       !.next = Rederive(m.platform)] \in Job
      BY <2>1, IdleType, NextType DEF Job, Steps
    <2>3. \A r \in HeldAfter(m.platform, m.after) :
            [Idle EXCEPT !.at = "countHeld", !.m = Reindex(m.platform, m.after), !.rec = r] \in Job
      BY <2>1, IdleType, NextType DEF Job, Steps, HeldAfter, Of
    <2>4. lostRederive' \in [Platforms -> BOOLEAN]
      BY <1>5 DEF TakeReindex, TypeOK
    <2>5. CASE /\ HeldAfter(m.platform, m.after) = {}
               /\ Take(Reindex(m.platform, m.after),
                       [Idle EXCEPT !.at = "send", !.m = Reindex(m.platform, m.after),
                                    !.next = Rederive(m.platform)])
      <3>1. Reindex(m.platform, m.after) \in queue
        BY <2>5
      <3>2. QED
        BY <2>5, <2>2, <2>4, <3>1, <1>a
    <2>6. CASE \E r \in HeldAfter(m.platform, m.after) :
                 /\ \A q \in HeldAfter(m.platform, m.after) : KeyOf[r] <= KeyOf[q]
                 /\ Take(Reindex(m.platform, m.after),
                         [Idle EXCEPT !.at = "countHeld", !.m = Reindex(m.platform, m.after),
                                      !.rec = r])
      <3>1. Reindex(m.platform, m.after) \in queue
        BY <2>6
      <3>2. QED
        BY <2>6, <2>3, <2>4, <3>1, <1>a
    <2>7. QED
      BY <1>5, <2>5, <2>6 DEF TakeReindex
  <1>6. ASSUME NEW m \in queue, TakeDerive(m) PROVE TypeOK'
    <2>1. /\ m \in Message /\ m.platform \in Platforms
          /\ m.sources \subseteq Sources /\ m.changes \subseteq Releases
      BY <1>6 DEF TypeOK, Message, TakeDerive
    <2>2. PICK now \in Slices(m.sources, DerivedSources) :
            \E redo \in IF now = m.sources THEN Slices(m.changes, ChangedReleases) ELSE {{}} :
              Take(m, [Idle EXCEPT !.at = IF now = {} THEN "changes" ELSE "derive", !.m = m,
                                   !.seen = devices[m.platform],
                                   !.todo = now, !.rest = m.sources \ now,
                                   !.redo = redo, !.later = m.changes \ redo])
      BY <1>6 DEF TakeDerive
    <2>3. PICK redo \in IF now = m.sources THEN Slices(m.changes, ChangedReleases) ELSE {{}} :
            Take(m, [Idle EXCEPT !.at = IF now = {} THEN "changes" ELSE "derive", !.m = m,
                                 !.seen = devices[m.platform],
                                 !.todo = now, !.rest = m.sources \ now,
                                 !.redo = redo, !.later = m.changes \ redo])
      BY <2>2
    <2>4. now \subseteq m.sources /\ redo \subseteq m.changes
      BY SliceSubset
    <2>5. [Idle EXCEPT !.at = IF now = {} THEN "changes" ELSE "derive", !.m = m,
                       !.seen = devices[m.platform],
                       !.todo = now, !.rest = m.sources \ now,
                       !.redo = redo, !.later = m.changes \ redo] \in Job
      <3>1. devices[m.platform] \in Nat
        BY <2>1 DEF TypeOK
      <3>2. QED
        <4>1. /\ now \in SUBSET Sources /\ m.sources \ now \in SUBSET Sources
              /\ redo \in SUBSET Releases /\ m.changes \ redo \in SUBSET Releases
          BY <2>1, <2>4
        <4>2. (IF now = {} THEN "changes" ELSE "derive") \in Steps
          BY DEF Steps
        <4>3. m \in Message
          BY <2>1
        <4> DEFINE a == IF now = {} THEN "changes" ELSE "derive"
                   R == m.sources \ now
                   L == m.changes \ redo
        <4>4. /\ a \in Steps /\ now \in SUBSET Sources /\ R \in SUBSET Sources
              /\ redo \in SUBSET Releases /\ L \in SUBSET Releases
          BY <4>1, <4>2
        <4> HIDE DEF a, R, L
        <4>5. [Idle EXCEPT !.at = a, !.m = m, !.seen = devices[m.platform], !.todo = now,
                           !.rest = R, !.redo = redo, !.later = L] \in Job
          BY <3>1, <4>3, <4>4, IdleType, JobStart
        <4>6. QED
          BY <4>5 DEF a, R, L
    <2>6. QED
      BY <1>6, <2>3, <2>5, <1>a DEF TakeDerive, TypeOK
  <1>7. QED
    BY <1>1, <1>2, <1>3, <1>4, <1>5, <1>6 DEF TakeMessage

(* A job's step, flags and next message changed leave it a job. *)
LEMMA JobUpdate ==
  ASSUME NEW j \in Job, NEW a \in Steps, NEW l \in BOOLEAN, NEW w \in BOOLEAN,
         NEW n \in Message \cup {None}
  PROVE  /\ [j EXCEPT !.at = a] \in Job
         /\ [j EXCEPT !.at = a, !.wrote = w] \in Job
         /\ [j EXCEPT !.at = a, !.relink = l, !.wrote = w] \in Job
         /\ [j EXCEPT !.at = a, !.next = n] \in Job
         /\ [j EXCEPT !.at = a, !.wrote = w, !.next = n] \in Job
  BY DEF Job

LEMMA WroteType ==
  ASSUME TypeOK, NEW b \in BOOLEAN
  PROVE  Wrote(b) \in BOOLEAN /\ AfterFacts \in Steps /\ (Dirty(b) => unpurged' \in BOOLEAN)
  BY DEF Wrote, AfterFacts, Dirty, TypeOK, Job, Steps

LEMMA TypeFacts == TypeOK /\ JobShape /\ (WriteFacts \/ SyncRoutes) => TypeOK'
  <1> SUFFICES ASSUME TypeOK, JobShape, WriteFacts \/ SyncRoutes PROVE TypeOK'
    OBVIOUS
  <1> USE DEF consumerOnly, bucketVars, workflowVars, factVars, derivedVars, routeVars
  <1>a. job.rec \in Records \cup {0} /\ job.ver \in 0 .. MaxVersion /\ job \in Job
    BY DEF TypeOK, Job
  <1>1. CASE CountHeld
    <2>1. job.rec \in Records /\ job.m.platform \in Platforms
      BY <1>1 DEF CountHeld, JobShape, OfMessage, TypeOK, Message
    <2>2. KeyOf[job.rec] \in Nat
      BY <2>1, RecordsAssumption
    <2>3. Reindex(job.m.platform, KeyOf[job.rec]) \in Message
      BY <2>1, <2>2, NextType
    <2>4. counted' \in [Platforms -> Nat]
      BY <1>1, <2>1 DEF CountHeld, TypeOK
    <2>5. job' \in Job
      BY <1>1, <2>1, <2>3, <1>a DEF CountHeld, TypeOK, Job, Steps
    <2>6. QED
      BY <1>1, <2>4, <2>5 DEF CountHeld, TypeOK
  <1>2. CASE PutSomeProfiles
    <2>1. 2 * job.ver - 1 \in Nat /\ job.rec \in Records
      BY <1>2, BoundAssumption DEF PutSomeProfiles, JobShape, OfMessage, TypeOK, Job
    <2>2. profiles' \in [Records -> Nat]
      BY <1>2, <2>1 DEF PutSomeProfiles, TypeOK
    <2>3. job' \in Job
      <3>1. job.m \in Message /\ "send" \in Steps
        BY <1>2 DEF PutSomeProfiles, JobShape, Steps
      <3>2. QED
        BY <1>2, <1>a, <3>1, JobUpdate DEF PutSomeProfiles
    <2>4. QED
      BY <1>2, <2>2, <2>3, WroteType DEF PutSomeProfiles, TypeOK
  <1>3. CASE PutProfiles
    <2>1. 2 * job.ver \in Nat
      BY <1>a, BoundAssumption
    <2>2. profiles' \in [Records -> Nat]
      BY <1>3, <2>1 DEF PutProfiles, TypeOK
    <2>3. job' \in Job
      <3>1. Wrote(profiles[job.rec] < 2 * job.ver) \in BOOLEAN
        BY <1>a DEF Wrote, Job
      <3>2. QED
        BY <1>3, <1>a, <3>1, WroteType, JobUpdate DEF PutProfiles, Steps
    <2>4. unpurged' \in BOOLEAN
      BY <1>3 DEF PutProfiles, Dirty, TypeOK
    <2>5. QED
      BY <1>3, <2>2, <2>3, <2>4 DEF PutProfiles, TypeOK
  <1>4. CASE SyncCopies
    <2>1. copies' \in [Records -> 0 .. MaxVersion]
      BY <1>4, <1>a DEF SyncCopies, TypeOK
    <2>2. job' \in Job
      <3>1. Wrote(copies[job.rec] # job.ver) \in BOOLEAN
        BY <1>a DEF Wrote, Job
      <3>2. (IF job.rec \in Releases THEN "rows" ELSE AfterFacts) \in Steps
        BY WroteType DEF Steps
      <3>3. QED
        BY <1>4, <1>a, <3>1, <3>2, JobUpdate DEF SyncCopies
    <2>3. QED
      BY <1>4, <2>1, <2>2, WroteType DEF SyncCopies, TypeOK
  <1>5. CASE PutRow
    <2>1. rows' \in [Records -> 0 .. MaxVersion]
      BY <1>5, <1>a DEF PutRow, TypeOK
    <2>2. job' \in Job
      <3>1. Wrote(rows[job.rec] # job.ver) \in BOOLEAN
        BY <1>a DEF Wrote, Job
      <3>2. PICK a \in Steps : job' = [job EXCEPT !.at = a,
                                                  !.wrote = Wrote(rows[job.rec] # job.ver)]
        BY <1>5, <1>a, WroteType DEF PutRow, Steps, Job
      <3>3. QED
        BY <1>a, <3>1, <3>2, JobUpdate
    <2>3. QED
      BY <1>5, <2>1, <2>2, WroteType DEF PutRow, TypeOK
  <1>6. CASE RoutePixels
    <2>1. <<job.rec, job.ver>> \in Nat \X Nat
      <3>1. job.rec \in Nat
        BY <1>a, RecordsNat
      <3>2. job.ver \in Nat
        BY <1>a, BoundAssumption
      <3>3. QED
        BY <3>1, <3>2
    <2>2. carrierList' \in Nat \X Nat
      BY <1>6, <2>1 DEF RoutePixels, TypeOK
    <2>3. job' \in Job
      <3> DEFINE list == IF NextRelease(job.rec) = {} THEN <<job.rec, job.ver>> ELSE carrierList
      <3>1. Wrote(list # carrierList) \in BOOLEAN /\ (list # carrierList) \in BOOLEAN
        BY <1>a DEF Wrote, Job
      <3>2. (IF list # carrierList THEN "link" ELSE AfterFacts) \in Steps
        BY WroteType DEF Steps
      <3>3. job' = [job EXCEPT !.at = IF list # carrierList THEN "link" ELSE AfterFacts,
                              !.relink = list # carrierList, !.wrote = Wrote(list # carrierList)]
        BY <1>6 DEF RoutePixels
      <3> HIDE DEF list
      <3>4. QED
        BY <1>a, <3>1, <3>2, <3>3, JobUpdate
    <2>4. QED
      BY <1>6, <2>2, <2>3, WroteType DEF RoutePixels, TypeOK
  <1>7. CASE Count
    <2>1. job.rec \in Records /\ PlatformOf[job.rec] \in Platforms
      BY <1>7, RecordsAssumption DEF Count, JobShape, OfMessage
    <2>2. Settle(PlatformOf[job.rec], counted[PlatformOf[job.rec]] + 1) \in Message
      BY <2>1, NextType DEF TypeOK
    <2>3. job' \in Job
      BY <1>7, <1>a, <2>2, JobUpdate DEF Count, Steps
    <2>4. counted' \in [Platforms -> Nat]
      BY <1>7, <2>1 DEF Count, TypeOK
    <2>5. QED
      BY <1>7, <2>3, <2>4 DEF Count, TypeOK
  <1>8. CASE SyncRoutes
    <2>1. job.m.manifest \in Nat
      BY <1>8 DEF SyncRoutes, JobShape, Message
    <2>2. job' \in Job
      BY <1>8, <1>a, WroteType, JobUpdate DEF SyncRoutes, Steps
    <2>3. QED
      BY <1>8, <2>1, <2>2, WroteType DEF SyncRoutes, TypeOK
  <1>9. QED
    BY <1>1, <1>2, <1>3, <1>4, <1>5, <1>6, <1>7, <1>8 DEF WriteFacts

LEMMA TypeDerive == TypeOK /\ JobShape /\ (DeriveStep \/ Link) => TypeOK'
  <1> SUFFICES ASSUME TypeOK, JobShape, DeriveStep \/ Link PROVE TypeOK'
    OBVIOUS
  <1> USE DEF consumerOnly, bucketVars, workflowVars, factVars, derivedVars, routeVars
  <1>a. job \in Job
    BY DEF TypeOK
  <1>1. ASSUME NEW s \in Sources, DeriveSource(s) PROVE TypeOK'
    <2>1. DOMAIN derived' = Sources
      BY <1>1 DEF DeriveSource, TypeOK
    <2>2. job' \in Job
      <3>1. (job.relink \/ derived[s].head # View(s, job.seen).head) \in BOOLEAN
        OBVIOUS
      <3>2. Wrote(derived[s] # View(s, job.seen)) \in BOOLEAN
        BY WroteType
      <3>3. job.todo \ {s} \in SUBSET Sources
        BY <1>a DEF Job
      <3>4. (IF job.todo = {s} THEN "changes" ELSE "derive") \in Steps
        BY DEF Steps
      <3>5. QED
        <4> DEFINE rl == job.relink \/ derived[s].head # View(s, job.seen).head
                   wr == Wrote(derived[s] # View(s, job.seen))
                   td == job.todo \ {s}
                   st == IF job.todo = {s} THEN "changes" ELSE "derive"
        <4>1. job' = [job EXCEPT !.at = st, !.todo = td, !.wrote = wr, !.relink = rl]
          BY <1>1 DEF DeriveSource
        <4>2. rl \in BOOLEAN /\ wr \in BOOLEAN /\ td \in SUBSET Sources /\ st \in Steps
          BY <3>1, <3>2, <3>3, <3>4
        <4>. HIDE DEF rl, wr, td, st
        <4>3. QED
          BY <1>a, <4>1, <4>2 DEF Job
    <2>3. unpurged' \in BOOLEAN
      BY <1>1, WroteType DEF DeriveSource
    <2>4. QED
      BY <1>1, <2>1, <2>2, <2>3 DEF DeriveSource, TypeOK
  <1>2. ASSUME NEW r \in Releases, DeriveChanges(r) PROVE TypeOK'
    <2>1. DOMAIN changes' = Releases
      BY <1>2 DEF DeriveChanges
    <2>2. job' \in Job
      <3> DEFINE b == \E x \in {r} \cup NextRelease(r) : changes[x] # ChangesView(PlatformOf[r], job.seen)
      <3>1. Wrote(b) \in BOOLEAN
        BY WroteType
      <3>2. job.redo \ {r} \in SUBSET Releases
        BY <1>a DEF Job
      <3>3. job' = [job EXCEPT !.redo = job.redo \ {r}, !.wrote = Wrote(b)]
        BY <1>2 DEF DeriveChanges
      <3>4. QED
        BY <1>a, <3>1, <3>2, <3>3 DEF Job
    <2>3. unpurged' \in BOOLEAN
      BY <1>2, WroteType DEF DeriveChanges
    <2>4. QED
      BY <1>2, <2>1, <2>2, <2>3 DEF DeriveChanges, TypeOK
  <1>3. CASE EndDerive
    <2>1. job.m \in Message /\ job.m.kind = "derive"
      BY <1>3 DEF EndDerive, JobShape
    <2>2. /\ job.m.platform \in Platforms /\ job.m.changes \in SUBSET Releases
          /\ job.rest \in SUBSET Sources /\ job.later \in SUBSET Releases
      BY <2>1, <1>a DEF Message, Job
    <2>3. /\ Derive(job.m.platform, job.rest, job.m.changes) \in Message
          /\ Derive(job.m.platform, {}, job.later) \in Message
      BY <2>2, NextType
    <2>4. job' \in Job
      BY <1>3, <1>a, <2>3, JobUpdate DEF EndDerive, Steps
    <2>5. QED
      BY <1>3, <2>4 DEF EndDerive, TypeOK
  <1>4. CASE Link
    <2>1. job' \in Job
      BY <1>4, <1>a, WroteType, JobUpdate DEF Link
    <2>2. unpurged' \in BOOLEAN
      BY <1>4, WroteType DEF Link
    <2>3. QED
      BY <1>4, <2>1, <2>2 DEF Link, TypeOK
  <1>5. QED
    BY <1>1, <1>2, <1>3, <1>4 DEF DeriveStep

LEMMA TypeEnd ==
  TypeOK /\ JobShape /\ (Send \/ Ack \/ AckLost \/ Fail \/ ThrowRetried \/ ThrowDead) => TypeOK'
  <1> SUFFICES ASSUME TypeOK, JobShape,
                      Send \/ Ack \/ AckLost \/ Fail \/ ThrowRetried \/ ThrowDead
               PROVE  TypeOK'
    OBVIOUS
  <1> USE DEF bucketVars, workflowVars, factVars, derivedVars, routeVars
  <1>a. job \in Job
    BY DEF TypeOK
  <1>1. CASE Send
    <2>1. job' \in Job
      BY <1>1, <1>a, JobUpdate DEF Send, Steps
    <2>2. queue' \subseteq Message
      BY <1>1, <1>a DEF Send, TypeOK, Job
    <2>3. QED
      BY <1>1, <2>1, <2>2 DEF Send, TypeOK
  <1>2. CASE Ack
    BY <1>2, IdleType DEF Ack, Finish, TypeOK
  <1>3. CASE AckLost
    <2>1. job.m \in Message
      BY <1>3 DEF AckLost, Finish, JobShape
    <2>2. QED
      BY <1>3, <2>1, IdleType DEF AckLost, Finish, TypeOK
  <1>4. ASSUME job.at # "idle", EndAttempt, Retry \/ DeadLetter, failures' \in Nat PROVE TypeOK'
    <2>1. job.m \in Message
      BY <1>4 DEF JobShape
    <2>2. lostLink' \in BOOLEAN
      BY <1>4 DEF EndAttempt, TypeOK
    <2>3. QED
      BY <1>4, <2>1, <2>2, IdleType DEF EndAttempt, Retry, DeadLetter, TypeOK
  <1>5. CASE Fail
    BY <1>5, <1>4 DEF Fail, TypeOK
  <1>6. CASE ThrowRetried \/ ThrowDead
    BY <1>6, <1>4 DEF ThrowRetried, ThrowDead, Throws, TypeOK
  <1>7. QED
    BY <1>1, <1>2, <1>3, <1>5, <1>6

-----------------------------------------------------------------------------
(* The shape of a job. *)

LEMMA ShapeTake == TypeOK /\ JobShape /\ TakeMessage => JobShape'
  <1> SUFFICES ASSUME TypeOK, JobShape, TakeMessage PROVE JobShape'
    OBVIOUS
  <1> USE DEF Take
  <1>1. ASSUME NEW m \in queue, m.kind = "facts", TakeFacts(m.record) PROVE JobShape'
    <2>1. m.record \in Records /\ Facts(m.record) \in Message
      BY <1>1, NextType DEF TypeOK, Message
    <2>2. QED
      BY <1>1, <2>1 DEF TakeFacts, JobShape, OfMessage, Idle, Facts
  <1>2. ASSUME NEW m \in queue, m.kind = "routes", TakeRoutes(m.manifest) PROVE JobShape'
    <2>1. Routes(m.manifest) \in Message
      BY <1>2, NextType DEF TypeOK, Message
    <2>2. QED
      BY <1>2, <2>1 DEF TakeRoutes, JobShape, Idle, Routes
  <1>3. ASSUME NEW m \in queue, m.kind = "settle", TakeSettle(m.platform, m.facts) PROVE JobShape'
    <2>1. Settle(m.platform, m.facts) \in Message
      BY <1>3, NextType DEF TypeOK, Message
    <2>2. QED
      BY <1>3, <2>1 DEF TakeSettle, JobShape, Idle, Settle
  <1>4. ASSUME NEW m \in queue, m.kind = "rederive", TakeRederive(m.platform) PROVE JobShape'
    <2>1. Rederive(m.platform) \in Message
      BY <1>4, NextType DEF TypeOK, Message
    <2>2. QED
      BY <1>4, <2>1 DEF TakeRederive, JobShape, Idle, Rederive
  <1>5. ASSUME NEW m \in queue, m.kind = "reindex", TakeReindex(m.platform, m.after) PROVE JobShape'
    <2>1. Reindex(m.platform, m.after) \in Message
      BY <1>5, NextType DEF TypeOK, Message
    <2>2. CASE job'.at = "send"
      <3>1. job'.m = Reindex(m.platform, m.after)
        BY <1>5 DEF TakeReindex, Idle
      <3>2. QED
        BY <2>1, <2>2, <3>1 DEF JobShape, Reindex
    <2>3. CASE job'.at = "countHeld"
      <3>1. PICK r \in HeldAfter(m.platform, m.after) :
              job' = [Idle EXCEPT !.at = "countHeld", !.m = Reindex(m.platform, m.after), !.rec = r]
        BY <1>5, <2>3 DEF TakeReindex, Idle
      <3>2. OfMessage(job'.m, job'.rec)
        BY <3>1 DEF OfMessage, HeldAfter, Of, Idle, Reindex
      <3>3. QED
        BY <2>1, <2>3, <3>1, <3>2 DEF JobShape, Idle, Reindex
    <2>4. QED
      BY <1>5, <2>2, <2>3 DEF TakeReindex, Idle
  <1>6. ASSUME NEW m \in queue, TakeDerive(m) PROVE JobShape'
    <2>1. /\ job'.at \in {"changes", "derive"} /\ job'.m = m /\ m.kind = "derive" /\ m \in Message
      BY <1>6 DEF TakeDerive, Idle, TypeOK
    <2>2. QED
      BY <2>1 DEF JobShape
  <1>7. QED
    BY <1>1, <1>2, <1>3, <1>4, <1>5, <1>6 DEF TakeMessage

LEMMA ShapeWork ==
  TypeOK /\ JobShape /\ (WriteFacts \/ SyncRoutes \/ DeriveStep \/ Link \/ Send) => JobShape'
  <1> SUFFICES ASSUME TypeOK, JobShape, WriteFacts \/ SyncRoutes \/ DeriveStep \/ Link \/ Send
               PROVE  JobShape'
    OBVIOUS
  <1> USE DEF JobShape, AfterFacts
  <1>a. job \in Job
    BY DEF TypeOK
  <1>1. CASE CountHeld
    BY <1>1, <1>a DEF CountHeld, Job
  <1>2. CASE PutSomeProfiles
    BY <1>2, <1>a DEF PutSomeProfiles, Job
  <1>3. CASE PutProfiles
    BY <1>3, <1>a DEF PutProfiles, Job
  <1>4. CASE SyncCopies
    BY <1>4, <1>a DEF SyncCopies, OfMessage, Job
  <1>5. CASE PutRow
    BY <1>5, <1>a DEF PutRow, OfMessage, Job
  <1>6. CASE RoutePixels
    BY <1>6, <1>a DEF RoutePixels, OfMessage, Job
  <1>7. CASE Count
    BY <1>7, <1>a DEF Count, Job
  <1>8. CASE SyncRoutes
    BY <1>8, <1>a DEF SyncRoutes, Job
  <1>9. ASSUME NEW s \in Sources, DeriveSource(s) PROVE JobShape'
    BY <1>9, <1>a DEF DeriveSource, Job
  <1>10. ASSUME NEW r \in Releases, DeriveChanges(r) PROVE JobShape'
    BY <1>10, <1>a DEF DeriveChanges, Job
  <1>11. CASE EndDerive
    BY <1>11, <1>a DEF EndDerive, Job
  <1>12. CASE Link
    BY <1>12, <1>a DEF Link, Job
  <1>13. CASE Send
    BY <1>13, <1>a DEF Send, Job
  <1>14. QED
    BY <1>1, <1>2, <1>3, <1>4, <1>5, <1>6, <1>7, <1>8, <1>9, <1>10, <1>11, <1>12, <1>13
       DEF WriteFacts, DeriveStep

LEMMA ShapeIdle == JobShape' \/ job' # Idle
  BY DEF JobShape, Idle, None

THEOREM TypeInvariant == Spec => [](TypeOK /\ JobShape)
  <1>1. Init => TypeOK /\ JobShape
    <2> SUFFICES ASSUME Init PROVE TypeOK /\ JobShape
      OBVIOUS
    <2>1. JobShape
      BY DEF Init, JobShape, Idle, None
    <2>2. TypeOK
      <3>1. 0 \in 0 .. MaxVersion
        BY BoundAssumption
      <3>2. job \in Job
        BY IdleType DEF Init
      <3>3. /\ record \in [Records -> 0 .. MaxVersion] /\ manifest \in Nat
            /\ unit \in [Records -> {"idle", "written", "failed"}]
            /\ check \in [Platforms -> {"idle", "synced", "queued"}]
            /\ profiles \in [Records -> Nat]
            /\ copies \in [Records -> 0 .. MaxVersion] /\ rows \in [Records -> 0 .. MaxVersion]
            /\ devices \in [Platforms -> Nat] /\ counted \in [Platforms -> Nat]
        BY <3>1 DEF Init
      <3>4. /\ DOMAIN derived = Sources /\ DOMAIN changes = Releases
            /\ appleRoutes \in Nat /\ carrierList \in Nat \X Nat
            /\ queue \subseteq Message /\ dead \subseteq Message
            /\ unpurged \in BOOLEAN /\ lostLink \in BOOLEAN
            /\ lostRederive \in [Platforms -> BOOLEAN]
            /\ failures \in Nat /\ dups \in Nat /\ asks \in Nat
        BY DEF Init
      <3>5. QED
        BY <3>2, <3>3, <3>4 DEF TypeOK
    <2>3. QED
      BY <2>1, <2>2
  <1>2. TypeOK /\ JobShape /\ [Next]_vars => (TypeOK /\ JobShape)'
    <2> SUFFICES ASSUME TypeOK, JobShape, [Next]_vars PROVE (TypeOK /\ JobShape)'
      OBVIOUS
    <2>1. CASE Feed
      <3>1. job' = job
        BY <2>1 DEF Feed, WriteRecord, QueueRecord, UnitFails, SyncDevices, QueueRederive,
           PurgeDevices, CheckFails, PublishManifest, AskRederive, AskReindex, AskRecord, Ask
      <3>2. JobShape'
        BY <3>1 DEF JobShape
      <3>3. QED
        BY <2>1, <3>2, TypeFeed
    <2>2. CASE TakeMessage
      BY <2>2, TypeTake, ShapeTake
    <2>3. CASE WriteFacts \/ SyncRoutes
      BY <2>3, TypeFacts, ShapeWork
    <2>4. CASE DeriveStep \/ Link
      BY <2>4, TypeDerive, ShapeWork
    <2>5. CASE Send
      BY <2>5, TypeEnd, ShapeWork
    <2>6. CASE Ack \/ AckLost \/ Fail \/ ThrowRetried \/ ThrowDead
      <3>1. job' = Idle
        BY <2>6 DEF Ack, AckLost, Finish, Fail, ThrowRetried, ThrowDead, Throws, EndAttempt
      <3>2. QED
        BY <2>6, <3>1, TypeEnd, ShapeIdle
    <2>7. CASE UNCHANGED vars
      BY <2>7 DEF vars, bucketVars, workflowVars, factVars, derivedVars, routeVars, TypeOK, JobShape
    <2>8. QED
      BY <2>1, <2>2, <2>3, <2>4, <2>5, <2>6, <2>7 DEF Next, Consume
  <1>3. QED
    BY <1>1, <1>2, PTL DEF Spec

(* TypeOK: every variable holds what its declaration says. *)
THEOREM TypeCorrect == Spec => []TypeOK
  BY TypeInvariant, PTL


-----------------------------------------------------------------------------
(* Coverage.  What is in flight, and what the job has yet to do, is enough  *)
(* to make every stale row fresh.                                           *)

(* A derive message's sources and releases are its platform's. *)
OfOnePlatform(m) ==
  m.kind = "derive" =>
    /\ \A s \in m.sources : Family[s] = m.platform
    /\ \A r \in m.changes : PlatformOf[r] = m.platform
Families == \A m \in InFlight \cup {job.next} : OfOnePlatform(m)

(* How far a derive job is. *)
DeriveShape ==
  job.m.kind = "derive" =>
    /\ job.at \in {"derive", "changes", "link", "send", "purge"}
    /\ job.todo \subseteq job.m.sources /\ job.rest \subseteq job.m.sources
    /\ job.redo \subseteq job.m.changes /\ job.later \subseteq job.m.changes
    /\ job.at # "derive" => job.todo = {}
    /\ job.at = "derive" => job.m.changes \subseteq job.redo \cup job.later
    /\ job.at \in {"link", "send", "purge"} => job.redo = {}
    /\ job.rest # {} => job.later = job.m.changes

(* What a job hands on, by the time it is to be sent. *)
RestOf(j) ==
  IF j.rest # {} THEN Derive(j.m.platform, j.rest, j.m.changes)
  ELSE IF j.later = {} THEN None ELSE Derive(j.m.platform, {}, j.later)
Handed ==
  /\ job.m.kind \in {"settle", "rederive"} => job.at \in {"send", "purge"}
  /\ job.m.kind = "facts" /\ job.at \in {"send", "purge"} =>
       LET q == PlatformOf[job.m.record] IN job.next = job.m \/ job.next = Settle(q, counted[q])
  /\ job.m.kind = "settle" /\ job.m.facts = counted[job.m.platform] =>
       job.next = Rederive(job.m.platform)
  /\ job.m.kind = "rederive" =>
       LET q == job.m.platform IN job.next = Derive(q, SourcesOf(q), ReleasesOf(q))
  /\ job.m.kind = "reindex" /\ job.at # "countHeld" =>
       job.next.kind \in {"reindex", "rederive"} /\ job.next.platform = job.m.platform
  /\ job.m.kind = "derive" /\ job.at \in {"link", "send", "purge"} => job.next = RestOf(job)
  /\ job.at = "purge" /\ job.next # None => job.next \in queue

(* What a derive job has done is fresh, unless its platform is to be derived *)
(* again anyway.                                                            *)
DoneIsFresh ==
  \A p \in Platforms : Derives(job.m, p) /\ ~Owed(p) =>
    /\ job.seen = devices[p]
    /\ \A s \in job.m.sources \ (job.todo \cup job.rest) : ~SourceStale(s)
    /\ \A r \in job.m.changes \ (job.redo \cup job.later) : ~ChangesStale(r)

Coverage ==
  /\ TypeOK /\ JobShape /\ Families /\ DeriveShape /\ Handed /\ DoneIsFresh
  /\ SourcesCovered /\ ChangesCovered

-----------------------------------------------------------------------------
(* What leaves a platform's rows, and how stale they are, as they were. *)

SourcesCoveredAt(p) ==
  Owed(p) \/ \A s \in SourcesOf(p) : SourceStale(s) =>
    \E m \in InFlight : Derives(m, p) /\ s \in m.sources /\ ReleasesOf(p) \subseteq m.changes
ChangesCoveredAt(p) ==
  Owed(p) \/ \A r \in ReleasesOf(p) : ChangesStale(r) =>
    \E m \in InFlight : Derives(m, p) /\ r \in m.changes

LEMMA CoveredAt ==
  /\ SourcesCovered <=> \A p \in Platforms : SourcesCoveredAt(p)
  /\ ChangesCovered <=> \A p \in Platforms : ChangesCoveredAt(p)
  BY DEF SourcesCovered, ChangesCovered, SourcesCoveredAt, ChangesCoveredAt

LEMMA FactsSame ==
  ASSUME UNCHANGED <<copies, rows>>
  PROVE  /\ \A p : SourcesOf(p)' = SourcesOf(p)
         /\ \A p : ReleasesOf(p)' = ReleasesOf(p)
         /\ \A p : FactsOf(p)' = FactsOf(p)
         /\ \A s : CopiesOf(s)' = CopiesOf(s)
  BY DEF SourcesOf, ReleasesOf, FactsOf, CopiesOf, Holds

(* Facts of one platform's record say nothing of another platform. *)
LEMMA FactsElsewhere ==
  ASSUME TypeOK, TypeOK', NEW r \in Records, NEW p \in Platforms, p # PlatformOf[r],
         \A q \in Records \ {r} : copies'[q] = copies[q] /\ rows'[q] = rows[q]
  PROVE  /\ SourcesOf(p)' = SourcesOf(p)
         /\ ReleasesOf(p)' = ReleasesOf(p)
         /\ FactsOf(p)' = FactsOf(p)
         /\ \A s \in Sources : Family[s] = p => CopiesOf(s)' = CopiesOf(s)
  <1>1. ASSUME NEW q \in Records, NEW s \in Sources, Family[s] = p
        PROVE  Holds(q, s)' <=> Holds(q, s)
    <2>1. CASE q = r
      <3>1. ASSUME NEW v \in 0 .. MaxVersion, v > 0 PROVE s \notin Ships[r][v]
        <4>1. v \in 1 .. MaxVersion
          BY <3>1, BoundAssumption
        <4>2. QED
          BY <4>1, <1>1, RecordsAssumption
      <3>2. copies[r] \in 0 .. MaxVersion /\ copies'[r] \in 0 .. MaxVersion
        BY DEF TypeOK
      <3>3. ~Holds(r, s) /\ ~Holds(r, s)'
        BY <3>1, <3>2 DEF Holds
      <3>4. QED
        BY <2>1, <3>3
    <2>2. CASE q # r
      BY <2>2 DEF Holds
    <2>3. QED
      BY <2>1, <2>2
  <1>2. SourcesOf(p)' = SourcesOf(p)
    BY <1>1 DEF SourcesOf
  <1>3. ReleasesOf(p)' = ReleasesOf(p)
    BY RecordsAssumption DEF ReleasesOf
  <1>4. FactsOf(p)' = FactsOf(p)
    BY DEF FactsOf
  <1>5. ASSUME NEW s \in Sources, Family[s] = p PROVE CopiesOf(s)' = CopiesOf(s)
    <2>1. ASSUME NEW q \in Records
          PROVE (IF Holds(q, s)' THEN copies'[q] ELSE 0) = (IF Holds(q, s) THEN copies[q] ELSE 0)
      <3>1. CASE Holds(q, s)
        <4>1. s \in Ships[q][copies[q]] /\ copies[q] \in 1 .. MaxVersion
          BY <3>1, BoundAssumption DEF Holds, TypeOK
        <4>2. PlatformOf[q] = p
          BY <4>1, <1>5, RecordsAssumption
        <4>3. q # r
          BY <4>2
        <4>4. QED
          BY <3>1, <4>3, <1>1, <1>5
      <3>2. CASE ~Holds(q, s)
        BY <3>2, <1>1, <1>5
      <3>3. QED
        BY <3>1, <3>2
    <2>2. QED
      BY <2>1 DEF CopiesOf
  <1>6. QED
    BY <1>2, <1>3, <1>4, <1>5

(* A platform's rows as they were. *)
RowsKept(p) ==
  /\ SourcesOf(p)' = SourcesOf(p) /\ ReleasesOf(p)' = ReleasesOf(p) /\ FactsOf(p)' = FactsOf(p)
  /\ devices'[p] = devices[p]
  /\ \A s \in Sources : Family[s] = p => CopiesOf(s)' = CopiesOf(s) /\ derived'[s] = derived[s]
  /\ \A r \in Releases : PlatformOf[r] = p => changes'[r] = changes[r]

LEMMA StaleKept ==
  ASSUME NEW p \in Platforms, RowsKept(p)
  PROVE  /\ \A s \in Sources : Family[s] = p => (SourceStale(s)' <=> SourceStale(s))
         /\ \A r \in Releases : PlatformOf[r] = p => (ChangesStale(r)' <=> ChangesStale(r))
  <1>1. \A s \in Sources : Family[s] = p => (SourceStale(s)' <=> SourceStale(s))
    BY DEF RowsKept, SourceStale, View
  <1>2. Timelines(p)' = Timelines(p)
    BY DEF RowsKept, Timelines
  <1>3. \A r \in Releases : PlatformOf[r] = p => (ChangesStale(r)' <=> ChangesStale(r))
    BY <1>2 DEF RowsKept, ChangesStale, ChangesView
  <1>4. QED
    BY <1>1, <1>3

(* A derive job's sources and releases are its platform's. *)
LEMMA DeriveMessage ==
  ASSUME TypeOK, Families, NEW p \in Platforms, Derives(job.m, p)
  PROVE  /\ job.m \in Message /\ job.m.kind = "derive" /\ job.m.platform = p
         /\ \A s \in job.m.sources : s \in Sources /\ Family[s] = p
         /\ \A r \in job.m.changes : r \in Releases /\ PlatformOf[r] = p
  <1>1. job.m \in Message /\ job.m.kind = "derive" /\ job.m.platform = p
    BY DEF Derives, TypeOK, Job, None
  <1>2. job.m.sources \subseteq Sources /\ job.m.changes \subseteq Releases
    BY <1>1 DEF Message
  <1>3. OfOnePlatform(job.m)
    BY DEF Families, InFlight
  <1>4. QED
    BY <1>1, <1>2, <1>3 DEF OfOnePlatform

(* What is in flight stays, so what it covers stays covered. *)
FlightKept == \A m \in InFlight : m # None => m \in InFlight'

LEMMA CoverKept ==
  ASSUME NEW p \in Platforms, RowsKept(p), FlightKept, Owed(p) => Owed(p)'
  PROVE  /\ SourcesCoveredAt(p) => SourcesCoveredAt(p)'
         /\ ChangesCoveredAt(p) => ChangesCoveredAt(p)'
  <1>1. \A m \in InFlight : Derives(m, p) => m \in InFlight'
    BY DEF FlightKept, Derives, None
  <1>2. \A s \in SourcesOf(p) : s \in Sources /\ Family[s] = p
    BY DEF SourcesOf
  <1>3. \A r \in ReleasesOf(p) : r \in Releases /\ PlatformOf[r] = p
    BY DEF ReleasesOf
  <1>4. SourcesOf(p)' = SourcesOf(p) /\ ReleasesOf(p)' = ReleasesOf(p)
    BY DEF RowsKept
  <1>5. \A m : Derives(m, p)' <=> Derives(m, p)
    BY DEF Derives
  <1>6. SourcesCoveredAt(p) => SourcesCoveredAt(p)'
    BY <1>1, <1>2, <1>4, <1>5, StaleKept DEF SourcesCoveredAt
  <1>7. ChangesCoveredAt(p) => ChangesCoveredAt(p)'
    BY <1>1, <1>3, <1>4, <1>5, StaleKept DEF ChangesCoveredAt
  <1>8. QED
    BY <1>6, <1>7

LEMMA PromiseKept ==
  ASSUME NEW p \in Platforms, FlightKept, counted'[p] = counted[p]
  PROVE  Promised(p) => Promised(p)'
  BY DEF Promised, Promises, FlightKept, None

-----------------------------------------------------------------------------
(* What feeds the queue.  A device change owes its platform a derivation.  *)

FedOnly ==
  /\ UNCHANGED <<copies, rows, counted, derived, changes, job, dead>>
  /\ queue \subseteq queue' /\ \A m \in queue' \ queue : m.kind # "derive"
  /\ \A p \in Platforms : Owed(p) => Owed(p)'
  /\ \A p \in Platforms : Owed(p)' \/ devices'[p] = devices[p]

LEMMA FeedFeeds == TypeOK /\ Feed => FedOnly
  <1> SUFFICES ASSUME TypeOK, Feed PROVE FedOnly
    OBVIOUS
  <1> USE DEF bucketVars, workflowVars, factVars, derivedVars, routeVars
  <1>1. UNCHANGED <<copies, rows, counted, derived, changes, job, dead>>
    BY DEF Feed, WriteRecord, QueueRecord, UnitFails, SyncDevices, QueueRederive,
           PurgeDevices, CheckFails, PublishManifest, AskRederive, AskReindex, AskRecord, Ask
  <1>2. queue \subseteq queue' /\ \A m \in queue' \ queue : m.kind # "derive"
    BY DEF Feed, WriteRecord, QueueRecord, UnitFails, SyncDevices, QueueRederive,
           PurgeDevices, CheckFails, PublishManifest, AskRederive, AskReindex, AskRecord, Ask,
           Facts, Rederive, Reindex, Routes
  <1>3. FlightKept
    BY <1>1, <1>2 DEF FlightKept, InFlight
  <1>4. ASSUME NEW p \in Platforms PROVE Promised(p) => Promised(p)'
    BY <1>1, <1>3, PromiseKept
  <1>5. ASSUME NEW p \in Platforms PROVE (Owed(p) => Owed(p)') /\ (Owed(p)' \/ devices'[p] = devices[p])
    <2>1. CASE UNCHANGED <<check, lostRederive, devices>>
      BY <2>1, <1>4 DEF Owed
    <2>2. ASSUME NEW q \in Platforms, SyncDevices(q) PROVE (Owed(p) => Owed(p)') /\ (Owed(p)' \/ devices'[p] = devices[p])
      BY <2>2, <1>4 DEF SyncDevices, Owed, TypeOK
    <2>3. ASSUME NEW q \in Platforms, QueueRederive(q) PROVE (Owed(p) => Owed(p)') /\ (Owed(p)' \/ devices'[p] = devices[p])
      <3>1. CASE p = q
        <4>1. Rederive(p) \in InFlight'
          BY <2>3, <3>1 DEF QueueRederive, InFlight
        <4>2. Promised(p)'
          BY <4>1 DEF Promised, Promises, Rederive
        <4>3. QED
          BY <4>2 DEF Owed
      <3>2. CASE p # q
        BY <2>3, <3>2, <1>4 DEF QueueRederive, Owed, TypeOK
      <3>3. QED
        BY <3>1, <3>2
    <2>4. ASSUME NEW q \in Platforms, PurgeDevices(q) PROVE (Owed(p) => Owed(p)') /\ (Owed(p)' \/ devices'[p] = devices[p])
      BY <2>4, <1>4 DEF PurgeDevices, Owed, TypeOK
    <2>5. ASSUME NEW q \in Platforms, CheckFails(q) PROVE (Owed(p) => Owed(p)') /\ (Owed(p)' \/ devices'[p] = devices[p])
      BY <2>5, <1>4 DEF CheckFails, Owed, TypeOK
    <2>6. QED
      BY <2>1, <2>2, <2>3, <2>4, <2>5 DEF Feed, WriteRecord, QueueRecord, UnitFails,
         PublishManifest, AskRederive, AskReindex, AskRecord, Ask
  <1>6. QED
    BY <1>1, <1>2, <1>5 DEF FedOnly

LEMMA CoverFeed == Coverage /\ FedOnly /\ TypeOK' /\ JobShape' => Coverage'
  <1> SUFFICES ASSUME Coverage, FedOnly, TypeOK', JobShape' PROVE Coverage'
    OBVIOUS
  <1>1. FlightKept /\ \A m \in InFlight' : m \in InFlight \/ m.kind # "derive"
    BY DEF FedOnly, FlightKept, InFlight
  <1>2. ASSUME NEW p \in Platforms, ~Owed(p)' PROVE ~Owed(p) /\ RowsKept(p)
    <2>1. devices'[p] = devices[p] /\ ~Owed(p)
      BY <1>2 DEF FedOnly
    <2>2. QED
      BY <2>1, FactsSame DEF FedOnly, RowsKept
  <1>3. ASSUME NEW p \in Platforms PROVE SourcesCoveredAt(p)' /\ ChangesCoveredAt(p)'
    <2>1. CASE Owed(p)'
      BY <2>1 DEF SourcesCoveredAt, ChangesCoveredAt
    <2>2. CASE ~Owed(p)'
      <3>1. ~Owed(p) /\ RowsKept(p)
        BY <2>2, <1>2
      <3>2. SourcesCoveredAt(p) /\ ChangesCoveredAt(p)
        BY CoveredAt DEF Coverage
      <3>3. QED
        BY <3>1, <3>2, <1>1, CoverKept
    <2>3. QED
      BY <2>1, <2>2
  <1>4. SourcesCovered' /\ ChangesCovered'
    BY <1>3 DEF SourcesCovered, ChangesCovered, SourcesCoveredAt, ChangesCoveredAt
  <1>5. Families' /\ DeriveShape'
    BY <1>1 DEF Coverage, FedOnly, Families, OfOnePlatform, DeriveShape
  <1>6. Handed'
    BY FactsSame DEF Coverage, FedOnly, Handed, RestOf
  <1>7. DoneIsFresh'
    <2> SUFFICES ASSUME NEW p \in Platforms, Derives(job.m, p), ~Owed(p)'
                 PROVE  /\ job.seen = devices'[p]
                        /\ \A s \in job.m.sources \ (job.todo \cup job.rest) : ~SourceStale(s)'
                        /\ \A r \in job.m.changes \ (job.redo \cup job.later) : ~ChangesStale(r)'
      BY DEF FedOnly, DoneIsFresh, Derives
    <2>1. /\ \A s \in job.m.sources : s \in Sources /\ Family[s] = p
          /\ \A r \in job.m.changes : r \in Releases /\ PlatformOf[r] = p
      BY DeriveMessage DEF Coverage
    <2>2. ~Owed(p) /\ RowsKept(p)
      BY <1>2
    <2>3. QED
      BY <2>1, <2>2, StaleKept DEF Coverage, DoneIsFresh, RowsKept
  <1>8. QED
    BY <1>4, <1>5, <1>6, <1>7 DEF Coverage

-----------------------------------------------------------------------------
(* The consumer takes a message, which stays in flight. *)

Taken(m) ==
  /\ UNCHANGED <<copies, rows, counted, derived, changes, devices, check, dead>>
  /\ job.at = "idle" /\ m \in queue /\ queue' = queue \ {m} /\ job'.m = m
  /\ \/ lostRederive' = lostRederive
     \/ \E q \in Platforms : m = Rederive(q) /\ lostRederive' = [lostRederive EXCEPT ![q] = FALSE]

LEMMA CoverTaken ==
  ASSUME Coverage, NEW m \in queue, Taken(m), TypeOK', JobShape'
  PROVE  /\ FlightKept /\ \A x \in InFlight' : x \in InFlight
         /\ SourcesCovered' /\ ChangesCovered'
  <1>1. job.m = None
    BY DEF Coverage, JobShape, Taken
  <1>2. FlightKept /\ \A x \in InFlight' : x \in InFlight
    BY <1>1 DEF FlightKept, InFlight, Taken
  <1>3. ASSUME NEW p \in Platforms PROVE RowsKept(p)
    BY FactsSame DEF RowsKept, Taken
  <1>4. ASSUME NEW p \in Platforms PROVE Owed(p) => Owed(p)'
    <2>1. Promised(p) => Promised(p)'
      BY <1>2, PromiseKept DEF Taken
    <2>2. CASE lostRederive' = lostRederive
      BY <2>1, <2>2 DEF Owed, Taken
    <2>3. ASSUME NEW q \in Platforms, m = Rederive(q),
                 lostRederive' = [lostRederive EXCEPT ![q] = FALSE]
          PROVE  Owed(p) => Owed(p)'
      <3>1. CASE p = q
        <4>1. Promises(m, p)'
          BY <2>3, <3>1 DEF Promises, Rederive
        <4>2. QED
          BY <4>1 DEF Owed, Promised, InFlight, Taken
      <3>2. CASE p # q
        BY <2>1, <2>3, <3>2 DEF Owed, Taken, Coverage, TypeOK
      <3>3. QED
        BY <3>1, <3>2
    <2>4. QED
      BY <2>2, <2>3 DEF Taken
  <1>5. ASSUME NEW p \in Platforms PROVE SourcesCoveredAt(p)' /\ ChangesCoveredAt(p)'
    <2>1. SourcesCoveredAt(p) /\ ChangesCoveredAt(p)
      BY CoveredAt DEF Coverage
    <2>2. QED
      BY <2>1, <1>2, <1>3, <1>4, CoverKept
  <1>6. QED
    BY <1>2, <1>5 DEF SourcesCovered, ChangesCovered, SourcesCoveredAt, ChangesCoveredAt

LEMMA CoverTake == Coverage /\ TakeMessage /\ TypeOK' /\ JobShape' => Coverage'
  <1> SUFFICES ASSUME Coverage, TakeMessage, TypeOK', JobShape' PROVE Coverage'
    OBVIOUS
  <1> USE DEF bucketVars, workflowVars, factVars, derivedVars, routeVars
  <1>a. ASSUME NEW m \in queue, Taken(m), m.kind # "derive", OfOnePlatform(job'.next), Handed'
        PROVE  Coverage'
    <2>1. FlightKept /\ (\A x \in InFlight' : x \in InFlight) /\ SourcesCovered' /\ ChangesCovered'
      BY <1>a, CoverTaken
    <2>2. Families'
      BY <1>a, <2>1 DEF Families, OfOnePlatform, Coverage
    <2>3. DeriveShape' /\ DoneIsFresh'
      BY <1>a DEF DeriveShape, DoneIsFresh, Taken, Derives
    <2>4. QED
      BY <1>a, <2>1, <2>2, <2>3 DEF Coverage
  <1>1. ASSUME NEW m \in queue, m.kind = "facts", TakeFacts(m.record) PROVE Coverage'
    <2>1. Facts(m.record) \in queue /\ Taken(Facts(m.record))
      BY <1>1 DEF TakeFacts, Take, Taken, Idle
    <2>2. OfOnePlatform(job'.next) /\ Handed'
      BY <1>1 DEF TakeFacts, Take, Idle, None, OfOnePlatform, Handed, Facts
    <2>3. QED
      BY <2>1, <2>2, <1>a DEF Facts
  <1>2. ASSUME NEW m \in queue, m.kind = "routes", TakeRoutes(m.manifest) PROVE Coverage'
    <2>1. Routes(m.manifest) \in queue /\ Taken(Routes(m.manifest))
      BY <1>2 DEF TakeRoutes, Take, Taken, Idle
    <2>2. OfOnePlatform(job'.next) /\ Handed'
      BY <1>2 DEF TakeRoutes, Take, Idle, None, OfOnePlatform, Handed, Routes
    <2>3. QED
      BY <2>1, <2>2, <1>a DEF Routes
  <1>3. ASSUME NEW m \in queue, m.kind = "settle", TakeSettle(m.platform, m.facts) PROVE Coverage'
    <2>1. Settle(m.platform, m.facts) \in queue /\ Taken(Settle(m.platform, m.facts))
      BY <1>3 DEF TakeSettle, Take, Taken, Idle
    <2>2. OfOnePlatform(job'.next) /\ Handed'
      BY <1>3 DEF TakeSettle, Take, Idle, None, OfOnePlatform, Handed, Settle, Rederive
    <2>3. QED
      BY <2>1, <2>2, <1>a DEF Settle
  <1>4. ASSUME NEW m \in queue, m.kind = "rederive", TakeRederive(m.platform) PROVE Coverage'
    <2>1. m.platform \in Platforms
      BY <1>4 DEF Coverage, TypeOK, Message
    <2>2. Rederive(m.platform) \in queue /\ Taken(Rederive(m.platform))
      BY <1>4, <2>1 DEF TakeRederive, Take, Taken, Idle
    <2>3. PICK q \in Platforms : q = m.platform
      BY <2>1
    <2>4. job'.next = Derive(q, SourcesOf(q), ReleasesOf(q)) /\ job'.m = Rederive(q) /\ job'.at = "send"
      BY <1>4, <2>3 DEF TakeRederive, Take, Idle
    <2>5. OfOnePlatform(job'.next)
      BY <2>4 DEF OfOnePlatform, Derive, SourcesOf, ReleasesOf
    <2>6. SourcesOf(q)' = SourcesOf(q) /\ ReleasesOf(q)' = ReleasesOf(q)
      BY <2>2, FactsSame DEF Taken
    <2>7. Handed'
      <3>1. job'.m.kind = "rederive" /\ job'.m.platform = q
        BY <2>4 DEF Rederive
      <3>2. (LET x == job.m.platform IN job.next = Derive(x, SourcesOf(x), ReleasesOf(x)))'
        BY <2>4, <3>1, <1>4 DEF SourcesOf, ReleasesOf, Holds, TakeRederive, Take
      <3>3. QED
        BY <2>4, <3>1, <3>2 DEF Handed
    <2>8. QED
      BY <2>2, <2>5, <2>7, <1>a DEF Rederive
  <1>5. ASSUME NEW m \in queue, m.kind = "reindex", TakeReindex(m.platform, m.after) PROVE Coverage'
    <2>1. Reindex(m.platform, m.after) \in queue /\ Taken(Reindex(m.platform, m.after))
      BY <1>5 DEF TakeReindex, Take, Taken, Idle
    <2>2. \/ job'.at = "send" /\ job'.next = Rederive(m.platform)
          \/ job'.at = "countHeld" /\ job'.next = None
      BY <1>5 DEF TakeReindex, Take, Idle
    <2>3. OfOnePlatform(job'.next) /\ Handed'
      BY <2>1, <2>2 DEF Taken, None, OfOnePlatform, Handed, Reindex, Rederive
    <2>4. QED
      BY <2>1, <2>3, <1>a DEF Reindex
  <1>6. ASSUME NEW m \in queue, TakeDerive(m) PROVE Coverage'
    <2>1. PICK now \in Slices(m.sources, DerivedSources) :
            \E redo \in IF now = m.sources THEN Slices(m.changes, ChangedReleases) ELSE {{}} :
              Take(m, [Idle EXCEPT !.at = IF now = {} THEN "changes" ELSE "derive", !.m = m,
                                   !.seen = devices[m.platform],
                                   !.todo = now, !.rest = m.sources \ now,
                                   !.redo = redo, !.later = m.changes \ redo])
      BY <1>6 DEF TakeDerive
    <2>2. PICK redo \in IF now = m.sources THEN Slices(m.changes, ChangedReleases) ELSE {{}} :
            Take(m, [Idle EXCEPT !.at = IF now = {} THEN "changes" ELSE "derive", !.m = m,
                                 !.seen = devices[m.platform],
                                 !.todo = now, !.rest = m.sources \ now,
                                 !.redo = redo, !.later = m.changes \ redo])
      BY <2>1
    <2>3. now \subseteq m.sources /\ redo \subseteq m.changes /\ (now # m.sources => redo = {})
      BY SliceSubset
    <2>4. /\ job'.at = (IF now = {} THEN "changes" ELSE "derive") /\ job'.m = m
          /\ job'.seen = devices[m.platform] /\ job'.todo = now /\ job'.rest = m.sources \ now
          /\ job'.redo = redo /\ job'.later = m.changes \ redo /\ job'.next = None
      BY <2>2 DEF Take, Idle
    <2>5. Taken(m) /\ m.kind = "derive"
      BY <1>6, <2>2, <2>4 DEF TakeDerive, Take, Taken
    <2>6. FlightKept /\ (\A x \in InFlight' : x \in InFlight) /\ SourcesCovered' /\ ChangesCovered'
      BY <2>5, CoverTaken
    <2>7. Families'
      BY <2>4, <2>6 DEF Families, OfOnePlatform, Coverage, None
    <2>8. DeriveShape'
      <3>1. (m.sources \ now) # {} => redo = {} /\ m.changes \ redo = m.changes
        BY <2>3
      <3>2. QED
        BY <2>3, <2>4, <3>1 DEF DeriveShape
    <2>9. Handed'
      BY <2>4, <2>5 DEF Handed
    <2>10. DoneIsFresh'
      <3> SUFFICES ASSUME NEW p \in Platforms, Derives(job'.m, p)
                   PROVE  /\ job'.seen = devices'[p]
                          /\ job'.m.sources \ (job'.todo \cup job'.rest) = {}
                          /\ job'.m.changes \ (job'.redo \cup job'.later) = {}
        BY DEF DoneIsFresh, Derives
      <3>1. job'.seen = devices'[p]
        BY <2>4, <2>5 DEF Derives, Taken
      <3>2. QED
        BY <2>3, <2>4, <3>1
    <2>11. QED
      BY <2>6, <2>7, <2>8, <2>9, <2>10 DEF Coverage
  <1>7. QED
    BY <1>1, <1>2, <1>3, <1>4, <1>5, <1>6 DEF TakeMessage

-----------------------------------------------------------------------------
(* A step of a facts message or a reindex changes what its own platform is  *)
(* derived from, and stays in flight: that platform is still owed.          *)

FactsStep ==
  /\ OfMessage(job.m, job.rec) /\ job'.m = job.m
  /\ UNCHANGED <<devices, derived, changes, queue, dead, check, lostRederive>>
  /\ \A r \in Records \ {job.rec} : copies'[r] = copies[r] /\ rows'[r] = rows[r]
  /\ \A p \in Platforms : p # PlatformOf[job.rec] => counted'[p] = counted[p]
  /\ OfOnePlatform(job'.next) /\ Handed'

LEMMA CoverFacts == Coverage /\ FactsStep /\ TypeOK' /\ JobShape' => Coverage'
  <1> SUFFICES ASSUME Coverage, FactsStep, TypeOK', JobShape' PROVE Coverage'
    OBVIOUS
  <1>1. PICK own \in Platforms : own = PlatformOf[job.rec]
    BY RecordsAssumption DEF FactsStep, OfMessage
  <1>2. FlightKept /\ \A x \in InFlight' : x \in InFlight
    BY DEF FactsStep, FlightKept, InFlight
  <1>3. Promised(own)'
    <2>1. job'.m \in InFlight'
      BY DEF InFlight
    <2>2. PICK m : m = job'.m
      OBVIOUS
    <2>3. m.kind \in {"facts", "reindex"} /\ (m.kind = "facts" => PlatformOf[m.record] = own)
          /\ (m.kind = "reindex" => m.platform = own)
      BY <1>1, <2>2 DEF FactsStep, OfMessage
    <2>4. Promises(m, own)'
      BY <2>3 DEF Promises
    <2>5. QED
      BY <2>1, <2>2, <2>4 DEF Promised
  <1>4. ASSUME NEW p \in Platforms PROVE SourcesCoveredAt(p)' /\ ChangesCoveredAt(p)'
    <2>1. CASE p = own
      BY <2>1, <1>3 DEF SourcesCoveredAt, ChangesCoveredAt, Owed
    <2>2. CASE p # own
      <3>1. RowsKept(p)
        <4>1. job.rec \in Records
          BY DEF FactsStep, OfMessage
        <4>2. TypeOK /\ p # PlatformOf[job.rec]
          BY <2>2, <1>1 DEF Coverage
        <4>3. PICK r \in Records : r = job.rec
          BY <4>1
        <4>4. \A q \in Records \ {r} : copies'[q] = copies[q] /\ rows'[q] = rows[q]
          BY <4>3 DEF FactsStep
        <4>5. /\ SourcesOf(p)' = SourcesOf(p)
              /\ ReleasesOf(p)' = ReleasesOf(p)
              /\ FactsOf(p)' = FactsOf(p)
              /\ \A s \in Sources : Family[s] = p => CopiesOf(s)' = CopiesOf(s)
          BY <4>2, <4>3, <4>4, FactsElsewhere
        <4>6. QED
          BY <4>5 DEF RowsKept, FactsStep
      <3>2. Owed(p) => Owed(p)'
        BY <2>2, <1>1, <1>2, PromiseKept DEF FactsStep, Owed
      <3>3. SourcesCoveredAt(p) /\ ChangesCoveredAt(p)
        BY CoveredAt DEF Coverage
      <3>4. QED
        BY <3>1, <3>2, <3>3, <1>2, CoverKept
    <2>3. QED
      BY <2>1, <2>2
  <1>5. SourcesCovered' /\ ChangesCovered'
    BY <1>4 DEF SourcesCovered, ChangesCovered, SourcesCoveredAt, ChangesCoveredAt
  <1>6. Families'
    BY <1>2 DEF Families, OfOnePlatform, Coverage, FactsStep
  <1>7. DeriveShape' /\ DoneIsFresh'
    BY DEF FactsStep, OfMessage, DeriveShape, DoneIsFresh, Derives
  <1>8. QED
    BY <1>5, <1>6, <1>7 DEF Coverage, FactsStep

(* Where each step of a facts message or a reindex leads, and what it hands on. *)
LEMMA FactsMoves ==
  ASSUME TypeOK, JobShape, WriteFacts \/ Link
  PROVE  /\ job'.m = job.m
         /\ \/ job.at = "countHeld" /\ job'.at = "profiles"
               /\ job'.next = Reindex(job.m.platform, KeyOf[job.rec])
            \/ job.at = "profiles" /\ job'.at = "send" /\ job'.next = job.m
            \/ job.at = "count" /\ job'.at = "send"
               /\ job'.next = Settle(PlatformOf[job.rec], counted'[PlatformOf[job.rec]])
            \/ job.at \notin {"countHeld", "count"} /\ job'.next = job.next
               /\ (job'.at \in {"copies", "rows", "route", "link"} \/ job'.at = AfterFacts)
  <1>a. job \in Job
    BY DEF TypeOK
  <1> USE <1>a DEF Job
  <1>1. CASE CountHeld
    BY <1>1 DEF CountHeld
  <1>2. CASE PutSomeProfiles
    BY <1>2 DEF PutSomeProfiles
  <1>3. CASE PutProfiles
    BY <1>3 DEF PutProfiles
  <1>4. CASE SyncCopies
    BY <1>4 DEF SyncCopies
  <1>5. CASE PutRow
    BY <1>5 DEF PutRow
  <1>6. CASE RoutePixels
    BY <1>6 DEF RoutePixels
  <1>7. CASE Count
    <2>1. PICK p \in Platforms : p = PlatformOf[job.rec]
      BY <1>7, RecordsAssumption DEF Count, JobShape, OfMessage
    <2>2. counted' = [counted EXCEPT ![p] = @ + 1]
      BY <1>7, <2>1 DEF Count
    <2>3. counted'[p] = counted[p] + 1
      BY <2>2 DEF TypeOK
    <2>4. job.at = "count" /\ job'.m = job.m /\ job'.at = "send"
          /\ job'.next = Settle(p, counted[p] + 1)
      BY <1>7, <2>1 DEF Count
    <2>5. QED
      BY <2>1, <2>3, <2>4
  <1>8. CASE Link
    BY <1>8 DEF Link
  <1>9. QED
    BY <1>1, <1>2, <1>3, <1>4, <1>5, <1>6, <1>7, <1>8 DEF WriteFacts

LEMMA WriteFactsStep ==
  Coverage /\ (WriteFacts \/ (Link /\ job.m.kind \in {"facts", "reindex"})) => FactsStep
  <1> SUFFICES ASSUME Coverage, WriteFacts \/ (Link /\ job.m.kind \in {"facts", "reindex"})
               PROVE  FactsStep
    OBVIOUS
  <1> USE DEF consumerOnly, bucketVars, workflowVars, factVars, derivedVars, routeVars
  <1>a. job \in Job /\ JobShape /\ TypeOK /\ Handed /\ Families
    BY DEF Coverage, TypeOK
  <1>1. OfMessage(job.m, job.rec)
    BY <1>a DEF JobShape, WriteFacts, CountHeld, PutSomeProfiles, PutProfiles, SyncCopies,
           PutRow, RoutePixels, Count, Link
  <1>2. UNCHANGED <<devices, derived, changes, queue, dead, check, lostRederive>>
    BY DEF WriteFacts, CountHeld, PutSomeProfiles, PutProfiles, SyncCopies,
           PutRow, RoutePixels, Count, Link
  <1>b. /\ job'.m = job.m
        /\ \/ job.at = "countHeld" /\ job'.at = "profiles"
              /\ job'.next = Reindex(job.m.platform, KeyOf[job.rec])
           \/ job.at = "profiles" /\ job'.at = "send" /\ job'.next = job.m
           \/ job.at = "count" /\ job'.at = "send"
              /\ job'.next = Settle(PlatformOf[job.rec], counted'[PlatformOf[job.rec]])
           \/ job.at \notin {"countHeld", "count"} /\ job'.next = job.next
              /\ (job'.at \in {"copies", "rows", "route", "link"} \/ job'.at = AfterFacts)
    BY <1>a, FactsMoves
  <1>3. \A r \in Records \ {job.rec} : copies'[r] = copies[r] /\ rows'[r] = rows[r]
    BY <1>a DEF TypeOK, WriteFacts, CountHeld, PutSomeProfiles, PutProfiles, SyncCopies,
           PutRow, RoutePixels, Count, Link
  <1>4. \A p \in Platforms : p # PlatformOf[job.rec] => counted'[p] = counted[p]
    <2>1. CASE CountHeld
      <3>1. job.m.platform = PlatformOf[job.rec]
        BY <2>1, <1>a, <1>1 DEF CountHeld, JobShape, OfMessage
      <3>2. QED
        BY <2>1, <3>1, <1>a DEF CountHeld, TypeOK
    <2>2. CASE Count
      BY <2>2, <1>a DEF Count, TypeOK
    <2>3. QED
      BY <2>1, <2>2 DEF WriteFacts, PutSomeProfiles, PutProfiles, SyncCopies, PutRow, RoutePixels, Link
  <1>6. OfOnePlatform(job'.next)
    <2>1. OfOnePlatform(job.next) /\ OfOnePlatform(job.m)
      BY <1>a DEF Families, InFlight
    <2>2. QED
      BY <1>b, <2>1 DEF OfOnePlatform, Reindex, Settle
  <1>7. Handed'
    <2>1. CASE job.m.kind = "facts"
      <3>1. PICK q \in Platforms : q = PlatformOf[job.rec] /\ job.rec = job.m.record
        BY <1>1, <2>1, RecordsAssumption DEF OfMessage
      <3>2. job'.at # "purge" /\ job.at # "countHeld"
        BY <1>a, <1>b, <2>1 DEF AfterFacts, JobShape
      <3>3. job'.at = "send" => job'.next = job.m \/ job'.next = Settle(q, counted'[q])
        BY <1>b, <2>1, <3>1, <3>2 DEF AfterFacts
      <3>4. QED
        BY <1>b, <2>1, <3>1, <3>2, <3>3 DEF Handed
    <2>2. CASE job.m.kind = "reindex"
      <3>1. job'.at # "purge" /\ job.at # "count"
        BY <1>a, <1>b, <2>2 DEF AfterFacts, JobShape
      <3>2. job'.next.kind \in {"reindex", "rederive"} /\ job'.next.platform = job.m.platform
        BY <1>a, <1>b, <2>2, <3>1 DEF Handed, Reindex
      <3>3. QED
        BY <1>b, <2>2, <3>1, <3>2 DEF Handed
    <2>3. QED
      BY <1>1, <2>1, <2>2 DEF OfMessage
  <1>8. QED
    BY <1>1, <1>2, <1>b, <1>3, <1>4, <1>6, <1>7 DEF FactsStep

-----------------------------------------------------------------------------
(* Steps that change no row that is derived or derived from. *)

KeptStep ==
  /\ job'.m = job.m /\ job'.seen = job.seen
  /\ job'.todo = job.todo /\ job'.rest = job.rest /\ job'.redo = job.redo /\ job'.later = job.later
  /\ UNCHANGED <<copies, rows, counted, devices, derived, changes, dead, check, lostRederive>>
  /\ queue \subseteq queue' /\ queue' \subseteq queue \cup {job.next}
  /\ OfOnePlatform(job'.next) /\ DeriveShape' /\ Handed'

LEMMA CoverKeptStep == Coverage /\ KeptStep /\ TypeOK' /\ JobShape' => Coverage'
  <1> SUFFICES ASSUME Coverage, KeptStep, TypeOK', JobShape' PROVE Coverage'
    OBVIOUS
  <1>1. FlightKept /\ \A x \in InFlight' : x \in InFlight \cup {job.next}
    BY DEF KeptStep, FlightKept, InFlight
  <1>2. ASSUME NEW p \in Platforms PROVE RowsKept(p) /\ (Owed(p) => Owed(p)')
    <2>1. RowsKept(p)
      BY FactsSame DEF RowsKept, KeptStep
    <2>2. Promised(p) => Promised(p)'
      BY <1>1, PromiseKept DEF KeptStep
    <2>3. QED
      BY <2>1, <2>2 DEF Owed, KeptStep
  <1>3. ASSUME NEW p \in Platforms PROVE SourcesCoveredAt(p)' /\ ChangesCoveredAt(p)'
    <2>1. SourcesCoveredAt(p) /\ ChangesCoveredAt(p)
      BY CoveredAt DEF Coverage
    <2>2. QED
      BY <2>1, <1>1, <1>2, CoverKept
  <1>4. SourcesCovered' /\ ChangesCovered'
    BY <1>3 DEF SourcesCovered, ChangesCovered, SourcesCoveredAt, ChangesCoveredAt
  <1>5. Families'
    BY <1>1 DEF Families, OfOnePlatform, Coverage, KeptStep
  <1>6. DoneIsFresh'
    <2> SUFFICES ASSUME NEW p \in Platforms, Derives(job.m, p), ~Owed(p)'
                 PROVE  /\ job.seen = devices'[p]
                        /\ \A s \in job.m.sources \ (job.todo \cup job.rest) : ~SourceStale(s)'
                        /\ \A r \in job.m.changes \ (job.redo \cup job.later) : ~ChangesStale(r)'
      BY DEF KeptStep, DoneIsFresh, Derives
    <2>1. /\ \A s \in job.m.sources : s \in Sources /\ Family[s] = p
          /\ \A r \in job.m.changes : r \in Releases /\ PlatformOf[r] = p
      BY DeriveMessage DEF Coverage
    <2>2. ~Owed(p) /\ RowsKept(p)
      BY <1>2
    <2>3. QED
      BY <2>1, <2>2, StaleKept DEF Coverage, DoneIsFresh, RowsKept
  <1>7. QED
    BY <1>4, <1>5, <1>6 DEF Coverage, KeptStep

LEMMA RoutesKept == Coverage /\ SyncRoutes => KeptStep
  <1> SUFFICES ASSUME Coverage, SyncRoutes PROVE KeptStep
    OBVIOUS
  <1> USE DEF consumerOnly, bucketVars, workflowVars, factVars, derivedVars
  <1>a. job \in Job /\ Handed /\ Families
    BY DEF Coverage, TypeOK
  <1>1. /\ job'.m = job.m /\ job'.seen = job.seen /\ job'.todo = job.todo /\ job'.rest = job.rest
        /\ job'.redo = job.redo /\ job'.later = job.later /\ job'.next = job.next
        /\ job'.at \in {"link", "send"} /\ job.m.kind = "routes"
    BY <1>a DEF SyncRoutes, Job
  <1>2. UNCHANGED <<copies, rows, counted, devices, derived, changes, queue, dead, check, lostRederive>>
    BY DEF SyncRoutes
  <1>3. OfOnePlatform(job'.next) /\ DeriveShape' /\ Handed'
    BY <1>1, <1>a DEF Families, OfOnePlatform, DeriveShape, Handed
  <1>4. QED
    BY <1>1, <1>2, <1>3 DEF KeptStep

LEMMA LinkKept == Coverage /\ Link /\ job.m.kind \notin {"facts", "reindex"} => KeptStep
  <1> SUFFICES ASSUME Coverage, Link, job.m.kind \notin {"facts", "reindex"} PROVE KeptStep
    OBVIOUS
  <1> USE DEF consumerOnly, bucketVars, workflowVars, factVars, derivedVars, routeVars
  <1>a. job \in Job /\ Handed /\ Families /\ JobShape /\ DeriveShape
    BY DEF Coverage, TypeOK
  <1>1. /\ job'.m = job.m /\ job'.seen = job.seen /\ job'.todo = job.todo /\ job'.rest = job.rest
        /\ job'.redo = job.redo /\ job'.later = job.later /\ job'.next = job.next
        /\ job.at = "link" /\ job'.at = "send" /\ job.m.kind \in {"routes", "derive"}
    BY <1>a DEF Link, Job, AfterFacts, JobShape
  <1>2. UNCHANGED <<copies, rows, counted, devices, derived, changes, queue, dead, check, lostRederive>>
    BY DEF Link
  <1>3. OfOnePlatform(job'.next) /\ DeriveShape'
    BY <1>1, <1>a DEF Families, OfOnePlatform, DeriveShape
  <1>4. RestOf(job)' = RestOf(job)
    BY <1>1 DEF RestOf
  <1>5. Handed'
    BY <1>1, <1>4, <1>a DEF Handed
  <1>6. QED
    BY <1>1, <1>2, <1>3, <1>5 DEF KeptStep

LEMMA EndKept == Coverage /\ EndDerive => KeptStep
  <1> SUFFICES ASSUME Coverage, EndDerive PROVE KeptStep
    OBVIOUS
  <1> USE DEF consumerOnly, bucketVars, workflowVars, factVars, derivedVars, routeVars
  <1>a. job \in Job /\ TypeOK /\ Families /\ DeriveShape
    BY DEF Coverage, TypeOK
  <1>b. job.m.kind = "derive" /\ job.m \in Message
    BY DEF Coverage, JobShape, EndDerive
  <1>1. /\ job'.m = job.m /\ job'.seen = job.seen /\ job'.todo = job.todo /\ job'.rest = job.rest
        /\ job'.redo = job.redo /\ job'.later = job.later /\ job'.next = RestOf(job)
        /\ job'.at \in {"link", "send"} /\ job.at = "changes" /\ job.redo = {}
    BY <1>a DEF EndDerive, Job, RestOf, Last
  <1>2. UNCHANGED <<copies, rows, counted, devices, derived, changes, queue, dead, check, lostRederive>>
    BY DEF EndDerive
  <1>3. OfOnePlatform(RestOf(job))
    <2>1. job.m.platform \in Platforms
      BY <1>b DEF Message
    <2>2. /\ \A s \in job.m.sources : Family[s] = job.m.platform
          /\ \A r \in job.m.changes : PlatformOf[r] = job.m.platform
      BY <1>a, <1>b DEF Families, OfOnePlatform, InFlight
    <2>3. job.rest \subseteq job.m.sources /\ job.later \subseteq job.m.changes
      BY <1>a, <1>b DEF DeriveShape
    <2>4. QED
      BY <2>2, <2>3 DEF RestOf, OfOnePlatform, Derive, None
  <1>4. DeriveShape'
    BY <1>1, <1>a DEF DeriveShape
  <1>5. RestOf(job)' = RestOf(job)
    BY <1>1 DEF RestOf
  <1>6. Handed'
    BY <1>1, <1>5, <1>b DEF Handed
  <1>7. QED
    BY <1>1, <1>2, <1>3, <1>4, <1>6 DEF KeptStep

LEMMA SendKept == Coverage /\ Send => KeptStep
  <1> SUFFICES ASSUME Coverage, Send PROVE KeptStep
    OBVIOUS
  <1> USE DEF bucketVars, workflowVars, factVars, derivedVars, routeVars
  <1>a. job \in Job /\ Handed /\ Families /\ JobShape /\ DeriveShape
    BY DEF Coverage, TypeOK
  <1>1. /\ job'.m = job.m /\ job'.seen = job.seen /\ job'.todo = job.todo /\ job'.rest = job.rest
        /\ job'.redo = job.redo /\ job'.later = job.later /\ job'.next = job.next
        /\ job.at = "send" /\ job'.at = "purge"
    BY <1>a DEF Send, Job
  <1>2. /\ UNCHANGED <<copies, rows, counted, devices, derived, changes, dead, check, lostRederive>>
        /\ queue' = queue \cup (IF job.next = None THEN {} ELSE {job.next})
    BY DEF Send
  <1>3. OfOnePlatform(job'.next) /\ DeriveShape'
    BY <1>1, <1>a DEF Families, OfOnePlatform, DeriveShape
  <1>4. RestOf(job)' = RestOf(job)
    BY <1>1 DEF RestOf
  <1>5. \A q : SourcesOf(q)' = SourcesOf(q) /\ ReleasesOf(q)' = ReleasesOf(q)
    BY <1>2, FactsSame
  <1>6. Handed'
    <2>1. job'.at = "purge" /\ job'.next # None => job'.next \in queue'
      BY <1>1, <1>2
    <2>2. CASE job.m.kind = "rederive"
      <3>1. PICK q : q = job.m.platform
        OBVIOUS
      <3>2. job.next = Derive(q, SourcesOf(q), ReleasesOf(q))
        BY <2>2, <3>1, <1>a DEF Handed
      <3>3. (LET x == job.m.platform IN job.next = Derive(x, SourcesOf(x), ReleasesOf(x)))'
        BY <3>1, <3>2, <1>1, <1>2 DEF SourcesOf, ReleasesOf, Holds
      <3>4. QED
        BY <1>1, <2>1, <2>2, <3>3 DEF Handed
    <2>3. CASE job.m.kind # "rederive"
      BY <1>1, <1>2, <1>4, <2>1, <2>3, <1>a DEF Handed
    <2>4. QED
      BY <2>2, <2>3
  <1>7. QED
    BY <1>1, <1>2, <1>3, <1>6 DEF KeptStep

-----------------------------------------------------------------------------
(* Deriving.  What a derive job writes is fresh unless its platform is owed *)
(* again: it read its devices as they are now.                              *)

DeriveJobStep ==
  /\ UNCHANGED <<copies, rows, counted, devices, queue, dead, check, lostRederive>>
  /\ job'.m = job.m /\ job'.seen = job.seen /\ job'.next = job.next
  /\ job'.rest = job.rest /\ job'.later = job.later

LEMMA DeriveJobKept ==
  ASSUME Coverage, DeriveJobStep
  PROVE  /\ FlightKept /\ InFlight' = InFlight
         /\ \A p \in Platforms : Owed(p) => Owed(p)'
  <1>1. FlightKept /\ InFlight' = InFlight
    BY DEF DeriveJobStep, FlightKept, InFlight
  <1>2. ASSUME NEW p \in Platforms PROVE Owed(p) => Owed(p)'
    BY <1>1, PromiseKept DEF Owed, DeriveJobStep
  <1>3. QED
    BY <1>1, <1>2

LEMMA CoverDeriveSource ==
  ASSUME Coverage, NEW s \in Sources, DeriveSource(s), TypeOK', JobShape'
  PROVE  Coverage'
  <1> USE DEF consumerOnly, bucketVars, workflowVars, factVars, derivedVars, routeVars
  <1>a. job \in Job /\ TypeOK /\ Families /\ DeriveShape /\ Handed /\ JobShape
        /\ SourcesCovered /\ ChangesCovered /\ DoneIsFresh
    BY DEF Coverage, TypeOK
  <1>b. job.at = "derive" /\ job.m.kind = "derive" /\ job.m \in Message /\ s \in job.todo /\ Derivable(s)
    BY <1>a DEF DeriveSource, JobShape
  <1>c. PICK own \in Platforms : own = job.m.platform
    BY <1>b DEF Message
  <1>d. Derives(job.m, own)
    BY <1>b, <1>c DEF Derives
  <1>e. /\ \A x \in job.m.sources : x \in Sources /\ Family[x] = own
        /\ \A r \in job.m.changes : r \in Releases /\ PlatformOf[r] = own
    BY <1>a, <1>d, DeriveMessage
  <1>f. s \in job.m.sources /\ Family[s] = own
    BY <1>a, <1>b, <1>e DEF DeriveShape
  <1>1. /\ UNCHANGED <<copies, rows, counted, devices, queue, dead, check, lostRederive, changes>>
        /\ derived' = [derived EXCEPT ![s] = View(s, job.seen)]
    BY DEF DeriveSource
  <1>2. /\ job'.m = job.m /\ job'.seen = job.seen /\ job'.next = job.next
        /\ job'.rest = job.rest /\ job'.later = job.later /\ job'.redo = job.redo
        /\ job'.todo = job.todo \ {s}
        /\ job'.at = (IF job.todo = {s} THEN "changes" ELSE "derive")
    BY <1>a DEF DeriveSource, Job
  <1>3. FlightKept /\ InFlight' = InFlight /\ \A p \in Platforms : Owed(p) => Owed(p)'
    BY <1>1, <1>2, DeriveJobKept DEF DeriveJobStep
  <1>4. derived'[s] = View(s, job.seen) /\ \A x \in Sources \ {s} : derived'[x] = derived[x]
    BY <1>1, <1>a DEF TypeOK
  <1>5. ASSUME NEW p \in Platforms, p # own \/ derived[s] = View(s, job.seen) PROVE RowsKept(p)
    BY <1>1, <1>4, <1>5, <1>f, FactsSame DEF RowsKept
  <1>6. View(s, job.seen)' = View(s, job.seen)
    BY <1>1, <1>2 DEF View, FactsOf, CopiesOf, Holds
  <1>7. ASSUME ~Owed(own)'
        PROVE  /\ ~SourceStale(s)' /\ ~Owed(own) /\ job.seen = devices[own]
               /\ \A x \in Sources \ {s} : Family[x] = own => (SourceStale(x)' <=> SourceStale(x))
    <2>1. ~Owed(own) /\ job.seen = devices[own]
      BY <1>7, <1>3, <1>a, <1>d DEF DoneIsFresh
    <2>2. ~SourceStale(s)'
      BY <2>1, <1>1, <1>2, <1>4, <1>6, <1>f DEF SourceStale
    <2>3. \A x \in Sources \ {s} : View(x, devices[Family[x]])' = View(x, devices[Family[x]])
      BY <1>1, FactsSame DEF View, FactsOf, CopiesOf, Holds
    <2>4. QED
      BY <2>1, <2>2, <2>3, <1>4 DEF SourceStale
  <1>8. ASSUME NEW p \in Platforms PROVE SourcesCoveredAt(p)' /\ ChangesCoveredAt(p)'
    <2>0. SourcesCoveredAt(p) /\ ChangesCoveredAt(p)
      BY <1>a, CoveredAt
    <2>1. CASE p # own \/ derived[s] = View(s, job.seen)
      BY <2>0, <2>1, <1>3, <1>5, CoverKept
    <2>2. CASE p = own /\ Owed(own)'
      BY <2>2 DEF SourcesCoveredAt, ChangesCoveredAt
    <2>3. CASE p = own /\ ~Owed(own)' /\ derived[s] # View(s, job.seen)
      <3>1. ~SourceStale(s)' /\ ~Owed(own) /\ job.seen = devices[own]
            /\ \A x \in Sources \ {s} : Family[x] = own => (SourceStale(x)' <=> SourceStale(x))
        BY <2>3, <1>7
      <3>2. SourcesOf(own)' = SourcesOf(own) /\ ReleasesOf(own)' = ReleasesOf(own)
        BY <1>1, FactsSame
      <3>3. \A x \in SourcesOf(own) : x \in Sources /\ Family[x] = own
        BY DEF SourcesOf
      <3>4. SourcesCoveredAt(own)'
        <4>1. \A m : Derives(m, own)' <=> Derives(m, own)
          BY DEF Derives
        <4>2. QED
          BY <2>0, <2>3, <3>1, <3>2, <3>3, <4>1, <1>3 DEF SourcesCoveredAt
      <3>5. SourceStale(s) /\ s \in SourcesOf(own)
        BY <2>3, <3>1, <1>b, <1>f DEF SourceStale, SourcesOf, Derivable
      <3>6. PICK m \in InFlight : Derives(m, own) /\ ReleasesOf(own) \subseteq m.changes
        BY <2>0, <2>3, <3>1, <3>5 DEF SourcesCoveredAt
      <3>7. ChangesCoveredAt(own)'
        BY <3>2, <3>6, <1>3 DEF ChangesCoveredAt, Derives
      <3>8. QED
        BY <2>3, <3>4, <3>7
    <2>4. QED
      BY <2>1, <2>2, <2>3
  <1>9. SourcesCovered' /\ ChangesCovered'
    BY <1>8 DEF SourcesCovered, ChangesCovered, SourcesCoveredAt, ChangesCoveredAt
  <1>10. Families'
    BY <1>2, <1>3, <1>a DEF Families, OfOnePlatform
  <1>11. DeriveShape'
    BY <1>2, <1>a, <1>b DEF DeriveShape
  <1>12. Handed'
    BY <1>2, <1>b DEF Handed
  <1>13. DoneIsFresh'
    <2> SUFFICES ASSUME NEW p \in Platforms, Derives(job.m, p), ~Owed(p)'
                 PROVE  /\ job'.seen = devices'[p]
                        /\ \A x \in job.m.sources \ (job'.todo \cup job.rest) : ~SourceStale(x)'
                        /\ \A r \in job.m.changes \ (job'.redo \cup job'.later) : ~ChangesStale(r)'
      BY <1>2 DEF DoneIsFresh, Derives
    <2>1. p = own
      BY <1>c DEF Derives
    <2>2. ~SourceStale(s)' /\ ~Owed(own) /\ job.seen = devices[own]
          /\ \A x \in Sources \ {s} : Family[x] = own => (SourceStale(x)' <=> SourceStale(x))
      BY <2>1, <1>7
    <2>3. \A x \in job.m.sources \ (job.todo \cup job.rest) : ~SourceStale(x)
      BY <2>2, <1>a, <1>d DEF DoneIsFresh
    <2>4. \A x \in job.m.sources \ (job'.todo \cup job.rest) : ~SourceStale(x)'
      BY <2>2, <2>3, <1>2, <1>e
    <2>5. job.m.changes \ (job'.redo \cup job'.later) = {}
      BY <1>2, <1>a, <1>b DEF DeriveShape
    <2>6. QED
      BY <2>1, <2>2, <2>4, <2>5, <1>1, <1>2
  <1>14. QED
    BY <1>9, <1>10, <1>11, <1>12, <1>13 DEF Coverage

LEMMA CoverDeriveChanges ==
  ASSUME Coverage, NEW r \in Releases, DeriveChanges(r), TypeOK', JobShape'
  PROVE  Coverage'
  <1> USE DEF consumerOnly, bucketVars, workflowVars, factVars, derivedVars, routeVars
  <1>a. job \in Job /\ TypeOK /\ Families /\ DeriveShape /\ Handed /\ JobShape
        /\ SourcesCovered /\ ChangesCovered /\ DoneIsFresh
    BY DEF Coverage, TypeOK
  <1>b. job.at = "changes" /\ job.m.kind = "derive" /\ job.m \in Message /\ r \in job.redo
    BY <1>a DEF DeriveChanges, JobShape
  <1>c. PICK own \in Platforms : own = job.m.platform
    BY <1>b DEF Message
  <1>d. Derives(job.m, own)
    BY <1>b, <1>c DEF Derives
  <1>e. /\ \A x \in job.m.sources : x \in Sources /\ Family[x] = own
        /\ \A x \in job.m.changes : x \in Releases /\ PlatformOf[x] = own
    BY <1>a, <1>d, DeriveMessage
  <1>f. r \in job.m.changes /\ PlatformOf[r] = own
    BY <1>a, <1>b, <1>e DEF DeriveShape
  <1> DEFINE both == {r} \cup NextRelease(r)
  <1>1. /\ UNCHANGED <<copies, rows, counted, devices, queue, dead, check, lostRederive, derived>>
        /\ changes' = [x \in Releases |-> IF x \in both THEN ChangesView(own, job.seen) ELSE changes[x]]
    BY <1>f DEF DeriveChanges
  <1>2. /\ job'.m = job.m /\ job'.seen = job.seen /\ job'.next = job.next
        /\ job'.rest = job.rest /\ job'.later = job.later /\ job'.todo = job.todo
        /\ job'.redo = job.redo \ {r} /\ job'.at = "changes"
    BY <1>a DEF DeriveChanges, Job
  <1>3. FlightKept /\ InFlight' = InFlight /\ \A p \in Platforms : Owed(p) => Owed(p)'
    BY <1>1, <1>2, DeriveJobKept DEF DeriveJobStep
  <1>4. \A x \in both : x \in Releases /\ PlatformOf[x] = own
    BY <1>f DEF NextRelease, ReleasesOf
  <1> HIDE DEF both
  <1>5. ASSUME NEW p \in Platforms, p # own PROVE RowsKept(p)
    BY <1>1, <1>4, <1>5, FactsSame DEF RowsKept
  <1>6. \A s \in Sources : SourceStale(s)' <=> SourceStale(s)
    BY <1>1, FactsSame DEF SourceStale, View, FactsOf, CopiesOf, Holds
  <1>7. ChangesView(own, devices[own])' = ChangesView(own, devices[own])
    BY <1>1 DEF ChangesView, FactsOf, Timelines
  <1>8. ASSUME ~Owed(own)'
        PROVE  /\ \A x \in both : ~ChangesStale(x)'
               /\ \A x \in Releases : PlatformOf[x] = own /\ ChangesStale(x)' => ChangesStale(x)
    <2>1. job.seen = devices[own]
      BY <1>8, <1>3, <1>a, <1>d DEF DoneIsFresh
    <2>2. \A x \in Releases : PlatformOf[x] = own =>
            (ChangesView(PlatformOf[x], devices[PlatformOf[x]]))' = ChangesView(own, devices[own])
      BY <1>7
    <2>3. ASSUME NEW x \in both PROVE ~ChangesStale(x)'
      BY <1>1, <1>4, <2>1, <2>2, <2>3 DEF ChangesStale
    <2>4. ASSUME NEW x \in Releases, PlatformOf[x] = own, ChangesStale(x)' PROVE ChangesStale(x)
      <3>1. x \notin both
        BY <2>3, <2>4
      <3>2. changes'[x] = changes[x]
        BY <1>1, <2>4, <3>1
      <3>3. QED
        BY <2>2, <2>4, <3>2 DEF ChangesStale
    <2>5. QED
      BY <2>3, <2>4
  <1>9. ASSUME NEW p \in Platforms PROVE SourcesCoveredAt(p)' /\ ChangesCoveredAt(p)'
    <2>0. SourcesCoveredAt(p) /\ ChangesCoveredAt(p)
      BY <1>a, CoveredAt
    <2>1. CASE p # own
      BY <2>0, <2>1, <1>3, <1>5, CoverKept
    <2>2. CASE p = own
      <3>1. SourcesOf(own)' = SourcesOf(own) /\ ReleasesOf(own)' = ReleasesOf(own)
        BY <1>1, FactsSame
      <3>2. \A m : Derives(m, own)' <=> Derives(m, own)
        BY DEF Derives
      <3>3. (\A x \in SourcesOf(own) : x \in Sources)
            /\ (\A x \in ReleasesOf(own) : x \in Releases /\ PlatformOf[x] = own)
        BY DEF SourcesOf, ReleasesOf
      <3>4. SourcesCoveredAt(own)'
        BY <2>0, <2>2, <3>1, <3>2, <3>3, <1>3, <1>6 DEF SourcesCoveredAt
      <3>5. ChangesCoveredAt(own)'
        <4>1. CASE Owed(own)'
          BY <4>1 DEF ChangesCoveredAt
        <4>2. CASE ~Owed(own)'
          BY <4>2, <2>0, <2>2, <3>1, <3>2, <3>3, <1>3, <1>8 DEF ChangesCoveredAt
        <4>3. QED
          BY <4>1, <4>2
      <3>6. QED
        BY <2>2, <3>4, <3>5
    <2>3. QED
      BY <2>1, <2>2
  <1>10. SourcesCovered' /\ ChangesCovered'
    BY <1>9 DEF SourcesCovered, ChangesCovered, SourcesCoveredAt, ChangesCoveredAt
  <1>11. Families' /\ DeriveShape'
    BY <1>2, <1>3, <1>a, <1>b DEF Families, OfOnePlatform, DeriveShape
  <1>12. Handed'
    BY <1>2, <1>b DEF Handed
  <1>13. DoneIsFresh'
    <2> SUFFICES ASSUME NEW p \in Platforms, Derives(job.m, p), ~Owed(p)'
                 PROVE  /\ job.seen = devices'[p]
                        /\ \A s \in job.m.sources \ (job.todo \cup job.rest) : ~SourceStale(s)'
                        /\ \A x \in job.m.changes \ ((job.redo \ {r}) \cup job.later) : ~ChangesStale(x)'
      BY <1>2 DEF DoneIsFresh, Derives
    <2>1. p = own
      BY <1>c DEF Derives
    <2>2. /\ job.seen = devices[own] /\ ~Owed(own)'
          /\ \A s \in job.m.sources \ (job.todo \cup job.rest) : ~SourceStale(s)
          /\ \A x \in job.m.changes \ (job.redo \cup job.later) : ~ChangesStale(x)
      BY <2>1, <1>3, <1>a, <1>d DEF DoneIsFresh
    <2>3. \A s \in job.m.sources \ (job.todo \cup job.rest) : ~SourceStale(s)'
      BY <2>2, <1>6, <1>e
    <2>4. ASSUME NEW x \in job.m.changes \ ((job.redo \ {r}) \cup job.later) PROVE ~ChangesStale(x)'
      <3>1. CASE x = r
        BY <3>1, <2>2, <1>8 DEF both
      <3>2. CASE x # r
        BY <3>2, <2>2, <1>8, <1>e
      <3>3. QED
        BY <3>1, <3>2
    <2>5. QED
      BY <2>1, <2>2, <2>3, <2>4, <1>1
  <1>14. QED
    BY <1>10, <1>11, <1>12, <1>13 DEF Coverage

-----------------------------------------------------------------------------
(* A message is acknowledged: what it promised its next message does, and   *)
(* what it did not derive its next message has.                             *)

Ended ==
  /\ UNCHANGED <<copies, rows, counted, devices, derived, changes, check, lostRederive>>
  /\ job.at # "idle" /\ job' = Idle
  /\ queue \subseteq queue' /\ dead \subseteq dead'
  /\ queue' \subseteq queue \cup {job.m} /\ dead' \subseteq dead \cup {job.m}

LEMMA EndedRows ==
  ASSUME Coverage, Ended
  PROVE  /\ Families' /\ DeriveShape' /\ Handed' /\ DoneIsFresh'
         /\ \A x \in queue \cup dead : x \in InFlight'
         /\ \A p \in Platforms : RowsKept(p)
  <1>1. job'.m = None /\ job'.next = None /\ job'.at = "idle"
    BY DEF Ended, Idle
  <1>2. \A x \in InFlight' : x \in InFlight \cup {None}
    BY <1>1 DEF Ended, InFlight
  <1>3. Families'
    BY <1>1, <1>2 DEF Families, OfOnePlatform, None, Coverage
  <1>4. DeriveShape' /\ Handed' /\ DoneIsFresh'
    BY <1>1 DEF DeriveShape, Handed, DoneIsFresh, Derives, None
  <1>5. \A x \in queue \cup dead : x \in InFlight'
    BY DEF Ended, InFlight
  <1>6. \A p \in Platforms : RowsKept(p)
    BY FactsSame DEF RowsKept, Ended
  <1>7. QED
    BY <1>3, <1>4, <1>5, <1>6

LEMMA CoverRetried ==
  Coverage /\ Ended /\ (job.m \in queue' \/ job.m \in dead') /\ TypeOK' /\ JobShape' => Coverage'
  <1> SUFFICES ASSUME Coverage, Ended, job.m \in queue' \/ job.m \in dead', TypeOK', JobShape'
               PROVE  Coverage'
    OBVIOUS
  <1>1. FlightKept
    BY DEF FlightKept, InFlight, Ended
  <1>2. ASSUME NEW p \in Platforms PROVE SourcesCoveredAt(p)' /\ ChangesCoveredAt(p)'
    <2>1. Owed(p) => Owed(p)'
      BY <1>1, PromiseKept DEF Owed, Ended
    <2>2. SourcesCoveredAt(p) /\ ChangesCoveredAt(p)
      BY CoveredAt DEF Coverage
    <2>3. QED
      BY <2>1, <2>2, <1>1, EndedRows, CoverKept
  <1>3. QED
    BY <1>2, EndedRows
       DEF Coverage, SourcesCovered, ChangesCovered, SourcesCoveredAt, ChangesCoveredAt

(* What was promised is still promised, or its rederive's derive is queued. *)
LEMMA PromiseHandedOn ==
  ASSUME Coverage, Ended, job.at = "purge", NEW p \in Platforms, Promised(p)
  PROVE  Promised(p)' \/ Derive(p, SourcesOf(p), ReleasesOf(p)) \in queue
  <1>a. \A x : Promises(x, p)' <=> Promises(x, p)
    BY DEF Promises, Ended
  <1>b. Handed /\ JobShape /\ TypeOK
    BY DEF Coverage
  <1>1. ASSUME NEW x \in queue \cup dead, Promises(x, p) PROVE Promised(p)'
    BY <1>1, <1>a, EndedRows DEF Promised
  <1>2. CASE Promises(job.m, p)
    <2>1. job.next # None => job.next \in queue
      BY <1>b DEF Handed
    <2>2. CASE job.m.kind = "facts"
      <3>1. PlatformOf[job.m.record] = p
        BY <1>2, <2>2 DEF Promises, Settle
      <3>2. job.next = job.m \/ job.next = Settle(p, counted[p])
        BY <1>b, <2>2, <3>1 DEF Handed
      <3>3. Promises(job.next, p) /\ job.next # None
        BY <1>2, <3>2, <2>2 DEF Promises, Settle, None
      <3>4. QED
        BY <2>1, <3>3, <1>1
    <2>3. CASE job.m.kind = "settle"
      <3>1. job.m = Settle(p, counted[p])
        BY <1>2, <2>3 DEF Promises
      <3>2. job.m.platform = p /\ job.m.facts = counted[p]
        BY <3>1 DEF Settle
      <3>3. job.next = Rederive(p)
        BY <1>b, <2>3, <3>2 DEF Handed
      <3>4. Promises(job.next, p) /\ job.next # None
        BY <3>3 DEF Promises, Rederive, None
      <3>5. QED
        BY <2>1, <3>4, <1>1
    <2>4. CASE job.m.kind = "rederive"
      <3>1. job.m.platform = p
        BY <1>2, <2>4 DEF Promises, Settle
      <3>2. job.next = Derive(p, SourcesOf(p), ReleasesOf(p))
        BY <1>b, <2>4, <3>1 DEF Handed
      <3>3. QED
        BY <2>1, <3>2 DEF Derive, None
    <2>5. CASE job.m.kind = "reindex"
      <3>1. job.m.platform = p
        BY <1>2, <2>5 DEF Promises, Settle
      <3>2. job.next.kind \in {"reindex", "rederive"} /\ job.next.platform = p
        BY <1>b, <2>5, <3>1 DEF Handed
      <3>3. Promises(job.next, p) /\ job.next # None
        BY <3>2 DEF Promises, None
      <3>4. QED
        BY <2>1, <3>3, <1>1
    <2>6. QED
      BY <1>2, <2>2, <2>3, <2>4, <2>5 DEF Promises
  <1>3. QED
    BY <1>1, <1>2 DEF Promised, InFlight

LEMMA OwedHandedOn ==
  ASSUME Coverage, Ended, job.at = "purge", NEW p \in Platforms, Owed(p)
  PROVE  Owed(p)' \/ Derive(p, SourcesOf(p), ReleasesOf(p)) \in queue
  <1>1. CASE check[p] = "synced" \/ lostRederive[p]
    BY <1>1 DEF Ended, Owed
  <1>2. CASE Promised(p)
    BY <1>2, PromiseHandedOn DEF Owed
  <1>3. QED
    BY <1>1, <1>2 DEF Owed

(* A stale row that a derive job was to derive is its next message's. *)
LEMMA RestHandedOn ==
  ASSUME Coverage, Ended, job.at = "purge", NEW p \in Platforms, Derives(job.m, p), ~Owed(p)
  PROVE  /\ \A s \in job.m.sources : SourceStale(s) =>
              \E m \in queue : Derives(m, p) /\ s \in m.sources /\ m.changes = job.m.changes
         /\ \A r \in job.m.changes : ChangesStale(r) =>
              \E m \in queue : Derives(m, p) /\ r \in m.changes
  <1>a. Handed /\ DeriveShape /\ DoneIsFresh
    BY DEF Coverage
  <1>b. job.m.kind = "derive" /\ job.m.platform = p
    BY DEF Derives
  <1>1. job.next = RestOf(job) /\ (job.next # None => job.next \in queue)
    BY <1>a, <1>b DEF Handed
  <1>2. job.todo = {} /\ job.redo = {} /\ (job.rest # {} => job.later = job.m.changes)
    BY <1>a, <1>b DEF DeriveShape
  <1>3. /\ \A s \in job.m.sources \ job.rest : ~SourceStale(s)
        /\ \A r \in job.m.changes \ job.later : ~ChangesStale(r)
    BY <1>2, <1>a DEF DoneIsFresh
  <1>4. ASSUME NEW s \in job.m.sources, SourceStale(s)
        PROVE  \E m \in queue : Derives(m, p) /\ s \in m.sources /\ m.changes = job.m.changes
    <2>1. s \in job.rest
      BY <1>3, <1>4
    <2>2. job.next = Derive(p, job.rest, job.m.changes)
      BY <1>1, <1>b, <2>1 DEF RestOf
    <2>3. job.next \in queue
      BY <1>1, <2>2 DEF Derive, None
    <2>4. QED
      BY <2>1, <2>2, <2>3 DEF Derives, Derive
  <1>5. ASSUME NEW r \in job.m.changes, ChangesStale(r)
        PROVE  \E m \in queue : Derives(m, p) /\ r \in m.changes
    <2>1. r \in job.later
      BY <1>3, <1>5
    <2>2. \E S : job.next = Derive(p, S, job.later)
      BY <1>1, <1>2, <1>b, <2>1 DEF RestOf
    <2>3. job.next \in queue
      BY <1>1, <2>2 DEF Derive, None
    <2>4. QED
      BY <2>1, <2>2, <2>3 DEF Derives, Derive
  <1>6. QED
    BY <1>4, <1>5

LEMMA CoverEnd ==
  Coverage /\ Ended /\ job.at = "purge" /\ TypeOK' /\ JobShape' => Coverage'
  <1> SUFFICES ASSUME Coverage, Ended, job.at = "purge", TypeOK', JobShape' PROVE Coverage'
    OBVIOUS
  <1>1. ASSUME NEW p \in Platforms PROVE SourcesCoveredAt(p)' /\ ChangesCoveredAt(p)'
    <2>a. \A x : Derives(x, p)' <=> Derives(x, p)
      BY DEF Derives
    <2>b. RowsKept(p) /\ \A x \in queue \cup dead : x \in InFlight'
      BY EndedRows
    <2>c. /\ SourcesOf(p)' = SourcesOf(p) /\ ReleasesOf(p)' = ReleasesOf(p)
          /\ \A s \in SourcesOf(p) : SourceStale(s)' <=> SourceStale(s)
          /\ \A r \in ReleasesOf(p) : ChangesStale(r)' <=> ChangesStale(r)
      BY <2>b, StaleKept DEF RowsKept, SourcesOf, ReleasesOf
    <2>1. CASE Owed(p)'
      BY <2>1 DEF SourcesCoveredAt, ChangesCoveredAt
    <2>2. CASE Derive(p, SourcesOf(p), ReleasesOf(p)) \in queue
      <3>1. PICK m \in queue : m.kind = "derive" /\ m.platform = p
                               /\ m.sources = SourcesOf(p) /\ m.changes = ReleasesOf(p)
        BY <2>2 DEF Derive
      <3>2. QED
        BY <3>1, <2>b, <2>c, <2>a DEF Derives, SourcesCoveredAt, ChangesCoveredAt
    <2>3. CASE ~Owed(p)
      <3>1. SourcesCoveredAt(p) /\ ChangesCoveredAt(p)
        BY CoveredAt DEF Coverage
      <3>2. ASSUME NEW s \in SourcesOf(p), SourceStale(s)
            PROVE  \E m \in InFlight' : Derives(m, p) /\ s \in m.sources /\ ReleasesOf(p) \subseteq m.changes
        <4>1. PICK m \in InFlight : Derives(m, p) /\ s \in m.sources /\ ReleasesOf(p) \subseteq m.changes
          BY <2>3, <3>1, <3>2 DEF SourcesCoveredAt
        <4>2. CASE m \in queue \cup dead
          BY <4>1, <4>2, <2>b
        <4>3. CASE m = job.m
          BY <4>1, <4>3, <2>3, <2>b, <3>2, RestHandedOn
        <4>4. QED
          BY <4>2, <4>3 DEF InFlight
      <3>3. ASSUME NEW r \in ReleasesOf(p), ChangesStale(r)
            PROVE  \E m \in InFlight' : Derives(m, p) /\ r \in m.changes
        <4>1. PICK m \in InFlight : Derives(m, p) /\ r \in m.changes
          BY <2>3, <3>1, <3>3 DEF ChangesCoveredAt
        <4>2. CASE m \in queue \cup dead
          BY <4>1, <4>2, <2>b
        <4>3. CASE m = job.m
          BY <4>1, <4>3, <2>3, <2>b, <3>3, RestHandedOn
        <4>4. QED
          BY <4>2, <4>3 DEF InFlight
      <3>4. QED
        BY <3>2, <3>3, <2>a, <2>c DEF SourcesCoveredAt, ChangesCoveredAt
    <2>4. QED
      BY <2>1, <2>2, <2>3, OwedHandedOn
  <1>2. QED
    BY <1>1, EndedRows
       DEF Coverage, SourcesCovered, ChangesCovered, SourcesCoveredAt, ChangesCoveredAt

-----------------------------------------------------------------------------
LEMMA CoverInit == Init /\ TypeOK /\ JobShape => Coverage
  <1> SUFFICES ASSUME Init, TypeOK, JobShape PROVE Coverage
    OBVIOUS
  <1>1. job.m = None /\ job.next = None /\ job.at = "idle" /\ InFlight = {None}
    BY DEF Init, Idle, InFlight
  <1>2. \A p \in Platforms : SourcesOf(p) = {} /\ ReleasesOf(p) = {}
    <2>1. \A r \in Records : copies[r] = 0 /\ rows[r] = 0
      BY DEF Init
    <2>2. \A r \in Releases : r \in Records
      BY RecordsAssumption
    <2>3. QED
      BY <2>1, <2>2 DEF SourcesOf, ReleasesOf, Holds
  <1>3. SourcesCovered /\ ChangesCovered
    BY <1>2 DEF SourcesCovered, ChangesCovered
  <1>4. Families /\ DeriveShape /\ Handed /\ DoneIsFresh
    BY <1>1 DEF Families, OfOnePlatform, DeriveShape, Handed, DoneIsFresh, Derives, None
  <1>5. QED
    BY <1>3, <1>4 DEF Coverage

LEMMA CoverStutter == Coverage /\ UNCHANGED vars => Coverage'
  <1> SUFFICES ASSUME Coverage, UNCHANGED vars PROVE Coverage'
    OBVIOUS
  <1> USE DEF vars, bucketVars, workflowVars, factVars, derivedVars, routeVars
  <1>1. FedOnly
    <2>1. \A p \in Platforms : Owed(p) => Owed(p)'
      BY DEF Owed, Promised, Promises, InFlight
    <2>2. QED
      BY <2>1 DEF FedOnly
  <1>2. TypeOK' /\ JobShape'
    BY DEF Coverage, TypeOK, JobShape
  <1>3. QED
    BY <1>1, <1>2, CoverFeed

LEMMA CoverStep == Coverage /\ [Next]_vars /\ (TypeOK /\ JobShape)' => Coverage'
  <1> SUFFICES ASSUME Coverage, [Next]_vars, (TypeOK /\ JobShape)' PROVE Coverage'
    OBVIOUS
  <1>1. CASE Feed
    BY <1>1, FeedFeeds, CoverFeed DEF Coverage
  <1>2. CASE TakeMessage
    BY <1>2, CoverTake
  <1>3. CASE WriteFacts
    BY <1>3, WriteFactsStep, CoverFacts
  <1>4. CASE Link
    BY <1>4, WriteFactsStep, CoverFacts, LinkKept, CoverKeptStep
  <1>5. CASE SyncRoutes \/ EndDerive \/ Send
    BY <1>5, RoutesKept, EndKept, SendKept, CoverKeptStep
  <1>6. ASSUME NEW s \in Sources, DeriveSource(s) PROVE Coverage'
    BY <1>6, CoverDeriveSource
  <1>7. ASSUME NEW r \in Releases, DeriveChanges(r) PROVE Coverage'
    BY <1>7, CoverDeriveChanges
  <1>8. CASE Ack \/ AckLost
    <2>1. Ended /\ job.at = "purge"
      BY <1>8 DEF Ack, AckLost, Finish, Ended, bucketVars, workflowVars, factVars, derivedVars, routeVars
    <2>2. QED
      BY <2>1, CoverEnd
  <1>9. CASE Fail \/ ThrowRetried \/ ThrowDead
    <2>1. Ended /\ (job.m \in queue' \/ job.m \in dead')
      BY <1>9 DEF Fail, ThrowRetried, ThrowDead, Throws, EndAttempt, Retry, DeadLetter, Ended,
                  bucketVars, workflowVars, factVars, derivedVars, routeVars
    <2>2. QED
      BY <2>1, CoverRetried
  <1>10. CASE UNCHANGED vars
    BY <1>10, CoverStutter
  <1>11. QED
    BY <1>1, <1>2, <1>3, <1>4, <1>5, <1>6, <1>7, <1>8, <1>9, <1>10 DEF Next, Consume, DeriveStep

(* Coverage, the invariant the theorems below are parts of: it says besides *)
(* what a job hands on (Handed) and that what it has derived is fresh       *)
(* (DoneIsFresh), without which an acknowledgement would not keep it.       *)
THEOREM CoverageInvariant == Spec => []Coverage
  <1>1. Init /\ (TypeOK /\ JobShape) => Coverage
    BY CoverInit
  <1>2. Coverage /\ [Next]_vars /\ (TypeOK /\ JobShape)' => Coverage'
    BY CoverStep
  <1>3. QED
    BY <1>1, <1>2, TypeInvariant, PTL DEF Spec

(* SourcesCovered: however messages are delayed, repeated, reordered,       *)
(* retried and dead-lettered, and however units and checks fail, a source   *)
(* whose rows are stale has a message in flight, or dead-lettered, that     *)
(* derives it and then its platform's every release, unless a check failed  *)
(* between its device sync and its rederive message.                        *)
THEOREM SourcesAlwaysCovered == Spec => []SourcesCovered
  <1>1. Coverage => SourcesCovered
    BY DEF Coverage
  <1>2. QED
    BY <1>1, CoverageInvariant, PTL

(* ChangesCovered: and a release whose changes are stale has a message in   *)
(* flight, or dead-lettered, that derives them.                             *)
THEOREM ChangesAlwaysCovered == Spec => []ChangesCovered
  <1>1. Coverage => ChangesCovered
    BY DEF Coverage
  <1>2. QED
    BY <1>1, CoverageInvariant, PTL

=============================================================================
