------------------------------ MODULE IndexRecords -----------------------------
(***************************************************************************)
(* The index follows the bucket: RecordsCovered, HalfIndexedOwned and      *)
(* LinkCovered of IndexQueue, and that IndexQueue implements RecordIndex,   *)
(* for every number of records, failures and duplicates.                    *)
(***************************************************************************)
EXTENDS IndexQueueProofs

(* A message that writes a record's rows, and its record is known. *)
OfRecord == job.m.kind \in {"facts", "reindex"} /\ job.rec # 0

(* Both halves are written, unless the message carries on as itself. *)
PastRows ==
  /\ OfRecord
  /\ \/ job.at \in {"route", "link", "count"}
     \/ job.at \in {"send", "purge"} /\ job.next # job.m

(* The version a job writes is no newer than the bucket's, no older than    *)
(* what the index holds, and its halves are written one after the other.    *)
Versions == \A r \in Records : copies[r] <= record[r] /\ rows[r] <= record[r]
JobVersions ==
  /\ OfRecord => job.ver <= record[job.rec]
  /\ job.at \in {"profiles", "copies", "rows"} =>
       copies[job.rec] <= job.ver /\ rows[job.rec] <= job.ver
  /\ job.at = "copies" /\ job.rec \notin Releases => rows[job.rec] = job.ver
  /\ job.at = "rows" /\ job.rec \in Releases => copies[job.rec] = job.ver
  /\ PastRows => copies[job.rec] = job.ver /\ rows[job.rec] = job.ver

(* A facts message's version is the bucket's, or its record was written     *)
(* since, and that version is its unit's to queue, or is queued.            *)
Queued(r) == Facts(r) \in queue \cup dead
FactsNewest ==
  job.m.kind = "facts" =>
    record[job.rec] = job.ver \/ unit[job.rec] # "idle" \/ Queued(job.rec)

(* A reindex passes over no record whose halves differ. *)
Half(r) == copies[r] # rows[r]
Ahead(r) == PlatformOf[r] = job.m.platform /\ KeyOf[r] > job.m.after
ReindexPasses ==
  job.m.kind = "reindex" =>
    /\ job.rec = 0 => job.at \in {"send", "purge"} /\ \A r \in Records : Ahead(r) => ~Half(r)
    /\ job.rec # 0 =>
         /\ Ahead(job.rec)
         /\ \A r \in Records : Ahead(r) /\ Half(r) => KeyOf[job.rec] <= KeyOf[r]
         /\ job.at # "countHeld" =>
              job.next = job.m \/ job.next = Reindex(job.m.platform, KeyOf[job.rec])

RecordsInv ==
  /\ Versions /\ JobVersions /\ FactsNewest /\ ReindexPasses
  /\ RecordsCovered /\ HalfIndexedOwned

-----------------------------------------------------------------------------
(* Messages in flight, and what their records' positions say. *)

LEMMA RecordNotZero == \A r \in Records : r # 0
  BY RecordsAssumption

LEMMA KeysApart == \A q, r \in Records : KeyOf[q] = KeyOf[r] => q = r
  BY RecordsAssumption

LEMMA KeyNat == \A r \in Records : KeyOf[r] \in Nat
  BY RecordsAssumption

LEMMA FactsMessage ==
  ASSUME TypeOK, JobShape, job.m.kind = "facts"
  PROVE  job.rec \in Records /\ job.m = Facts(job.rec) /\ OfRecord
  <1>1. job.m \in Message
    BY DEF TypeOK, Job, None
  <1>2. job.m.record \in Records /\ job.m = Facts(job.m.record)
    BY <1>1 DEF Message, Facts
  <1>3. job.rec = job.m.record
    BY DEF JobShape
  <1>4. QED
    BY <1>2, <1>3, RecordNotZero DEF OfRecord

LEMMA ReindexMessage ==
  ASSUME TypeOK, job.m.kind = "reindex"
  PROVE  /\ job.m.platform \in Platforms /\ job.m.after \in Nat
         /\ job.rec # 0 => job.rec \in Records
  BY DEF TypeOK, Job, None, Message

(* The message in hand owns the record it writes while it is half-indexed. *)
LEMMA JobOwns ==
  ASSUME TypeOK, JobShape, ReindexPasses, OfRecord
  PROVE  /\ job.rec \in Records
         /\ \/ job.m = Facts(job.rec)
            \/ job.m.kind = "reindex" /\ job.m.platform = PlatformOf[job.rec]
                                     /\ job.m.after < KeyOf[job.rec]
  <1>1. CASE job.m.kind = "facts"
    BY <1>1, FactsMessage
  <1>2. CASE job.m.kind = "reindex"
    <2>1. job.rec \in Records
      BY <1>2, ReindexMessage DEF OfRecord
    <2>2. Ahead(job.rec)
      BY <1>2 DEF ReindexPasses, OfRecord
    <2>3. job.m.after < KeyOf[job.rec]
      BY <1>2, <2>1, <2>2, KeyNat, ReindexMessage DEF Ahead
    <2>4. QED
      BY <1>2, <2>1, <2>2, <2>3 DEF Ahead
  <1>3. QED
    BY <1>1, <1>2 DEF OfRecord

(* The record a step writes rows of is its message's. *)
LEMMA WritesOfRecord ==
  ASSUME TypeOK, JobShape,
         \/ job.at \in {"countHeld", "profiles", "copies", "rows", "count"}
         \/ job.at = "route" /\ job.m.kind # "routes"
         \/ job.at = "link" /\ job.m.kind \in {"facts", "reindex"}
  PROVE  OfRecord /\ job.rec \in Records
  <1>1. OfMessage(job.m, job.rec)
    BY DEF JobShape
  <1>2. QED
    BY <1>1, RecordNotZero DEF OfMessage, OfRecord

-----------------------------------------------------------------------------
(* What feeds the queue. *)

FeedsRecords ==
  /\ UNCHANGED <<copies, rows, job, dead>> /\ queue \subseteq queue'
  /\ \A r \in Records :
       /\ record'[r] = record[r] \/ (record'[r] > record[r] /\ unit'[r] # "idle")
       /\ unit'[r] = "idle" => unit[r] = "idle" \/ Facts(r) \in queue'

LEMMA FeedRecords == TypeOK /\ Feed => FeedsRecords
  <1> SUFFICES ASSUME TypeOK, Feed PROVE FeedsRecords
    OBVIOUS
  <1>1. UNCHANGED <<copies, rows, job, dead>> /\ queue \subseteq queue'
    BY FeedFeeds DEF FedOnly
  <1>t. /\ record \in [Records -> Nat]
        /\ unit \in [Records -> {"idle", "written", "failed"}]
    <2>1. \A r \in Records : record[r] \in Nat
      BY BoundAssumption DEF TypeOK
    <2>2. QED
      BY <2>1 DEF TypeOK
  <1>2. ASSUME NEW q \in Records, WriteRecord(q) PROVE FeedsRecords
    <2>1. record' = [record EXCEPT ![q] = @ + 1] /\ unit' = [unit EXCEPT ![q] = "written"]
      BY <1>2 DEF WriteRecord
    <2>2. ASSUME NEW r \in Records
          PROVE  /\ record'[r] = record[r] \/ (record'[r] > record[r] /\ unit'[r] # "idle")
                 /\ unit'[r] = "idle" => unit[r] = "idle" \/ Facts(r) \in queue'
      BY <2>1, <1>t
    <2>3. QED
      BY <1>1, <2>2 DEF FeedsRecords
  <1>3. ASSUME NEW q \in Records, QueueRecord(q) PROVE FeedsRecords
    <2>1. record' = record /\ unit' = [unit EXCEPT ![q] = "idle"] /\ Facts(q) \in queue'
      BY <1>3 DEF QueueRecord, bucketVars
    <2>2. ASSUME NEW r \in Records
          PROVE  /\ record'[r] = record[r] \/ (record'[r] > record[r] /\ unit'[r] # "idle")
                 /\ unit'[r] = "idle" => unit[r] = "idle" \/ Facts(r) \in queue'
      BY <2>1, <1>t
    <2>3. QED
      BY <1>1, <2>2 DEF FeedsRecords
  <1>4. ASSUME NEW q \in Records, UnitFails(q) PROVE FeedsRecords
    <2>1. record' = record /\ unit' = [unit EXCEPT ![q] = "failed"]
      BY <1>4 DEF UnitFails, bucketVars
    <2>2. ASSUME NEW r \in Records
          PROVE  /\ record'[r] = record[r] \/ (record'[r] > record[r] /\ unit'[r] # "idle")
                 /\ unit'[r] = "idle" => unit[r] = "idle" \/ Facts(r) \in queue'
      BY <2>1, <1>t
    <2>3. QED
      BY <1>1, <2>2 DEF FeedsRecords
  <1>5. CASE UNCHANGED <<record, unit>>
    BY <1>1, <1>5 DEF FeedsRecords
  <1>6. QED
    BY <1>2, <1>3, <1>4, <1>5 DEF Feed, SyncDevices, QueueRederive, PurgeDevices, CheckFails,
       PublishManifest, AskRederive, AskReindex, AskRecord, Ask, bucketVars, workflowVars

LEMMA RecordsFeed == TypeOK /\ JobShape /\ TypeOK' /\ RecordsInv /\ FeedsRecords => RecordsInv'
  <1> SUFFICES ASSUME TypeOK, JobShape, TypeOK', RecordsInv, FeedsRecords PROVE RecordsInv'
    OBVIOUS
  <1> USE DEF RecordsInv
  <1>a. \A r \in Records : record[r] \in Nat /\ record'[r] \in Nat /\ copies[r] \in Nat /\ rows[r] \in Nat
    BY BoundAssumption DEF TypeOK
  <1>b. InFlight \subseteq InFlight' /\ \A r \in Records : Queued(r) => Queued(r)'
    BY DEF FeedsRecords, InFlight, Queued
  <1>c. OfRecord => job.rec \in Records /\ job.ver \in Nat
    BY JobOwns, BoundAssumption DEF TypeOK, Job
  <1>1. Versions'
    BY <1>a DEF Versions, FeedsRecords
  <1>2. JobVersions'
    BY <1>a, <1>c DEF JobVersions, FeedsRecords, OfRecord, PastRows
  <1>3. FactsNewest'
    <2> SUFFICES ASSUME job.m.kind = "facts"
                 PROVE  record'[job.rec] = job.ver \/ unit'[job.rec] # "idle" \/ Queued(job.rec)'
      BY DEF FactsNewest, FeedsRecords
    <2>1. job.rec \in Records
      BY FactsMessage
    <2>2. QED
      BY <2>1, <1>b DEF FactsNewest, FeedsRecords, Queued
  <1>4. ReindexPasses'
    BY DEF ReindexPasses, Ahead, Half, FeedsRecords
  <1>5. RecordsCovered'
    <2> SUFFICES ASSUME NEW r \in Records, record'[r] # copies[r] \/ record'[r] # rows[r],
                        unit'[r] = "idle"
                 PROVE  Facts(r) \in InFlight'
      BY DEF RecordsCovered, FeedsRecords
    <2>1. record'[r] = record[r]
      BY DEF FeedsRecords
    <2>2. unit[r] # "idle" \/ Facts(r) \in InFlight
      BY <2>1 DEF RecordsCovered
    <2>3. QED
      BY <2>2, <1>b DEF FeedsRecords, InFlight
  <1>6. HalfIndexedOwned'
    BY <1>b DEF HalfIndexedOwned, FeedsRecords
  <1>7. QED
    BY <1>1, <1>2, <1>3, <1>4, <1>5, <1>6

-----------------------------------------------------------------------------
(* The consumer takes a message. *)

LEMMA NoJob ==
  ASSUME TypeOK, JobShape, job.at = "idle"
  PROVE  job.m = None /\ ~OfRecord /\ job.m.kind \notin {"facts", "reindex"}
  BY DEF JobShape, None, OfRecord

(* A message taken stays in flight, and only the consumer has changed. *)
TookOne ==
  /\ UNCHANGED <<bucketVars, workflowVars, factVars, devices, derivedVars, routeVars, linked, dead,
                 unpurged, lostLink>>
  /\ job.at = "idle" /\ job'.m \in queue /\ queue' = queue \ {job'.m}

LEMMA TakesOne == TakeMessage => TookOne
  <1> SUFFICES ASSUME TakeMessage PROVE TookOne
    OBVIOUS
  <1>1. ASSUME NEW m, NEW j, Take(m, j), j.m = m PROVE TookOne
    BY <1>1 DEF Take, TookOne
  <1>2. ASSUME NEW r, TakeFacts(r) PROVE TookOne
    BY <1>2, <1>1 DEF TakeFacts, Idle
  <1>3. ASSUME NEW n, TakeRoutes(n) PROVE TookOne
    BY <1>3, <1>1 DEF TakeRoutes, Idle
  <1>4. ASSUME NEW p, NEW n, TakeSettle(p, n) PROVE TookOne
    BY <1>4, <1>1 DEF TakeSettle, Idle
  <1>5. ASSUME NEW p, TakeRederive(p) PROVE TookOne
    BY <1>5, <1>1 DEF TakeRederive, Idle
  <1>6. ASSUME NEW p, NEW n, TakeReindex(p, n) PROVE TookOne
    BY <1>6, <1>1 DEF TakeReindex, Idle
  <1>7. ASSUME NEW m, TakeDerive(m) PROVE TookOne
    BY <1>7, <1>1 DEF TakeDerive, Idle
  <1>8. QED
    BY <1>2, <1>3, <1>4, <1>5, <1>6, <1>7 DEF TakeMessage

LEMMA RecordsTake == Coverage /\ TypeOK' /\ JobShape' /\ RecordsInv /\ TakeMessage => RecordsInv'
  <1> SUFFICES ASSUME Coverage, TypeOK', JobShape', RecordsInv, TakeMessage PROVE RecordsInv'
    OBVIOUS
  <1> USE DEF RecordsInv
  <1>a. UNCHANGED <<record, unit, copies, rows, dead>>
    BY TakesOne DEF TookOne, bucketVars, workflowVars, factVars
  <1>b. TypeOK /\ JobShape
    BY DEF Coverage
  <1>c. \A r \in Records : record[r] \in Nat /\ copies[r] \in Nat /\ rows[r] \in Nat
    BY <1>b, BoundAssumption DEF TypeOK
  <1>d. job.m = None /\ InFlight \subseteq InFlight' \cup {None}
    <2>1. job.at = "idle" /\ queue \subseteq queue' \cup {job'.m}
      BY TakesOne DEF TookOne
    <2>2. QED
      BY <2>1, <1>a, <1>b, NoJob DEF InFlight
  <1>1. Versions'
    BY <1>a DEF Versions
  <1>2. RecordsCovered' /\ HalfIndexedOwned'
    BY <1>a, <1>d DEF RecordsCovered, HalfIndexedOwned, Facts, None
  <1>3. ASSUME job'.m.kind \notin {"facts", "reindex"}, job'.at \notin {"profiles", "copies", "rows"}
        PROVE  RecordsInv'
    BY <1>3, <1>1, <1>2 DEF JobVersions, PastRows, OfRecord, FactsNewest, ReindexPasses
  <1>4. ASSUME NEW m \in queue, m.kind = "facts", TakeFacts(m.record) PROVE RecordsInv'
    <2>1. /\ job'.at = "profiles" /\ job'.m = Facts(m.record) /\ job'.rec = m.record
          /\ job'.ver = record[m.record]
      BY <1>4 DEF TakeFacts, Take, Idle
    <2>2. m.record \in Records
      BY <1>4, <1>b DEF TypeOK, Message
    <2>3. JobVersions'
      BY <2>1, <2>2, <1>a, <1>c DEF JobVersions, PastRows, Versions
    <2>4. FactsNewest' /\ ReindexPasses'
      BY <2>1, <1>a DEF FactsNewest, ReindexPasses, Facts
    <2>5. QED
      BY <1>1, <1>2, <2>3, <2>4
  <1>5. ASSUME NEW m \in queue, m.kind = "reindex", TakeReindex(m.platform, m.after) PROVE RecordsInv'
    <2> DEFINE p == m.platform
               held == HeldAfter(m.platform, m.after)
    <2>1. job'.m = Reindex(m.platform, m.after)
      BY <1>5 DEF TakeReindex, Take, Idle
    <2>2. \A r \in Records : Ahead(r)' /\ Half(r) => r \in held
      <3>1. \A r \in Records : Half(r) => record[r] > 0
        BY <1>c DEF Half, Versions
      <3>2. QED
        BY <2>1, <3>1 DEF Ahead, Reindex, HeldAfter, Of
    <2>3. CASE held = {} /\ job'.at = "send" /\ job'.rec = 0
      <3>1. JobVersions' /\ FactsNewest' /\ ReindexPasses'
        BY <2>1, <2>2, <2>3, <1>a
           DEF JobVersions, OfRecord, PastRows, FactsNewest, ReindexPasses, Half, Reindex
      <3>2. QED
        BY <1>1, <1>2, <3>1
    <2>4. ASSUME NEW r \in held, \A q \in held : KeyOf[r] <= KeyOf[q],
                 job'.at = "countHeld", job'.rec = r, job'.ver = 0
          PROVE  RecordsInv'
      <3>1. r \in Records /\ PlatformOf[r] = m.platform /\ KeyOf[r] > m.after
        BY DEF HeldAfter, Of
      <3>2. JobVersions'
        BY <2>4, <3>1, <1>a, <1>c DEF JobVersions, OfRecord, PastRows
      <3>3. ReindexPasses'
        BY <2>1, <2>2, <2>4, <3>1, <1>a, RecordNotZero DEF ReindexPasses, Ahead, Half, Reindex
      <3>4. FactsNewest'
        BY <2>1 DEF FactsNewest, Reindex
      <3>5. QED
        BY <1>1, <1>2, <3>2, <3>3, <3>4
    <2>5. QED
      BY <1>5, <2>3, <2>4 DEF TakeReindex, Take, Idle
  <1>6. CASE job'.m.kind \in {"routes", "settle", "rederive", "derive"}
    <2>1. job'.at \notin {"profiles", "copies", "rows"}
      BY <1>6 DEF JobShape, OfMessage
    <2>2. QED
      BY <1>3, <1>6, <2>1
  <1>7. ASSUME NEW m \in queue, TakeDerive(m) PROVE job'.m.kind = "derive"
    BY <1>7 DEF TakeDerive, Take, Idle
  <1>8. QED
    <2>1. ASSUME NEW m \in queue, m.kind = "routes", TakeRoutes(m.manifest) PROVE RecordsInv'
      BY <2>1, <1>6 DEF TakeRoutes, Take, Idle, Routes
    <2>2. ASSUME NEW m \in queue, m.kind = "settle", TakeSettle(m.platform, m.facts) PROVE RecordsInv'
      BY <2>2, <1>6 DEF TakeSettle, Take, Idle, Settle
    <2>3. ASSUME NEW m \in queue, m.kind = "rederive", TakeRederive(m.platform) PROVE RecordsInv'
      BY <2>3, <1>6 DEF TakeRederive, Take, Idle, Rederive
    <2>4. QED
      BY <2>1, <2>2, <2>3, <1>4, <1>5, <1>6, <1>7 DEF TakeMessage

-----------------------------------------------------------------------------
(* The consumer's writes. *)

(* A step that leaves the record's rows, in a message that stays. *)
LeavesRows ==
  /\ UNCHANGED <<record, unit, copies, rows>>
  /\ job'.m = job.m /\ job'.rec = job.rec /\ job'.ver = job.ver
  /\ InFlight \subseteq InFlight' /\ \A r \in Records : Queued(r) => Queued(r)'

LEMMA LeftRows ==
  ASSUME TypeOK, JobShape, RecordsInv, LeavesRows,
         JobVersions', ReindexPasses'
  PROVE  RecordsInv'
  <1> USE DEF RecordsInv
  <1>1. Versions' /\ RecordsCovered' /\ HalfIndexedOwned'
    BY DEF Versions, RecordsCovered, HalfIndexedOwned, LeavesRows
  <1>2. FactsNewest'
    BY FactsMessage DEF FactsNewest, LeavesRows
  <1>3. QED
    BY <1>1, <1>2

(* A step of rows: another record's stay as they are, and the message in    *)
(* hand owns this one's.                                                    *)
WritesRows ==
  /\ UNCHANGED <<record, unit, queue, dead>> /\ job.at # "countHeld"
  /\ job'.m = job.m /\ job'.rec = job.rec /\ job'.ver = job.ver
  /\ \A r \in Records : r # job.rec => copies'[r] = copies[r] /\ rows'[r] = rows[r]
  /\ copies[job.rec] <= copies'[job.rec] /\ rows[job.rec] <= rows'[job.rec]

LEMMA WroteRows ==
  ASSUME TypeOK, JobShape, TypeOK', RecordsInv, WritesRows, OfRecord, Versions', JobVersions',
         job'.next = job.next \/ (job'.at \in {"send", "purge"} /\ job'.next = job.m)
  PROVE  RecordsInv'
  <1> USE DEF RecordsInv
  <1>a. /\ job.rec \in Records
        /\ \/ job.m = Facts(job.rec)
           \/ job.m.kind = "reindex" /\ job.m.platform = PlatformOf[job.rec]
                                    /\ job.m.after < KeyOf[job.rec]
    BY JobOwns
  <1>b. InFlight' = InFlight
    BY DEF WritesRows, InFlight
  <1>1. FactsNewest'
    BY DEF FactsNewest, WritesRows, Queued
  <1>2. ReindexPasses'
    <2> SUFFICES ASSUME job.m.kind = "reindex" PROVE ReindexPasses'
      BY DEF ReindexPasses, WritesRows
    <2>1. \A r \in Records : r # job.rec => (Half(r)' <=> Half(r))
      BY DEF Half, WritesRows
    <2>2. \A r : Ahead(r)' <=> Ahead(r)
      BY DEF Ahead, WritesRows
    <2>3. KeyOf[job.rec] <= KeyOf[job.rec]
      BY <1>a, KeyNat
    <2>4. job.rec # 0
      BY DEF OfRecord
    <2>5. \A r \in Records : Ahead(r)' /\ Half(r)' => KeyOf[job.rec] <= KeyOf[r]
      BY <2>1, <2>2, <2>3, <2>4 DEF ReindexPasses
    <2>6. job.at # "countHeld" => job.next = job.m \/ job.next = Reindex(job.m.platform, KeyOf[job.rec])
      BY <2>4 DEF ReindexPasses
    <2>7. QED
      BY <2>2, <2>4, <2>5, <2>6 DEF ReindexPasses, WritesRows
  <1>3. RecordsCovered'
    <2> SUFFICES ASSUME NEW r \in Records, record[r] # copies'[r] \/ record[r] # rows'[r],
                        unit[r] = "idle"
                 PROVE  Facts(r) \in InFlight
      BY <1>b DEF RecordsCovered, WritesRows
    <2>1. CASE r # job.rec
      BY <2>1 DEF RecordsCovered, WritesRows
    <2>2. CASE r = job.rec /\ job.m = Facts(r)
      BY <2>2 DEF InFlight
    <2>3. CASE r = job.rec /\ (record[r] # copies[r] \/ record[r] # rows[r])
      BY <2>3 DEF RecordsCovered
    <2>4. CASE r = job.rec /\ record[r] = copies[r] /\ record[r] = rows[r]
      <3>1. record[r] \in Nat /\ copies'[r] \in Nat /\ rows'[r] \in Nat
        BY BoundAssumption DEF TypeOK, WritesRows
      <3>2. record[r] <= copies'[r] /\ record[r] <= rows'[r]
        BY <2>4 DEF WritesRows
      <3>3. copies'[r] <= record[r] /\ rows'[r] <= record[r]
        BY DEF Versions, WritesRows
      <3>4. QED
        BY <3>1, <3>2, <3>3
    <2>5. QED
      BY <2>1, <2>2, <2>3, <2>4
  <1>4. HalfIndexedOwned'
    <2> SUFFICES ASSUME NEW r \in Records, copies'[r] # rows'[r]
                 PROVE  \/ Facts(r) \in InFlight
                        \/ \E m \in InFlight : m.kind = "reindex" /\ m.platform = PlatformOf[r] /\ m.after < KeyOf[r]
      BY <1>b DEF HalfIndexedOwned
    <2>1. CASE r # job.rec
      BY <2>1 DEF HalfIndexedOwned, WritesRows
    <2>2. CASE r = job.rec
      BY <2>2, <1>a DEF InFlight
    <2>3. QED
      BY <2>1, <2>2
  <1>5. QED
    BY <1>1, <1>2, <1>3, <1>4

LEMMA RecordsFacts ==
  Coverage /\ TypeOK' /\ RecordsInv /\ WriteFacts => RecordsInv' /\ (WritesRows \/ UNCHANGED <<copies, rows>>)
  <1> SUFFICES ASSUME Coverage, TypeOK', RecordsInv, WriteFacts
               PROVE  RecordsInv' /\ (WritesRows \/ UNCHANGED <<copies, rows>>)
    OBVIOUS
  <1> USE DEF RecordsInv, consumerOnly, bucketVars, workflowVars
  <1>a. TypeOK /\ JobShape
    BY DEF Coverage
  <1>b. \A r \in Records : record[r] \in Nat /\ copies[r] \in Nat /\ rows[r] \in Nat
    BY <1>a, BoundAssumption DEF TypeOK
  <1>c. OfRecord /\ job.rec \in Records /\ job.ver \in Nat /\ job.ver <= record[job.rec]
    <2>1. OfRecord /\ job.rec \in Records
      BY <1>a, WritesOfRecord DEF WriteFacts, CountHeld, PutSomeProfiles, PutProfiles, SyncCopies,
         PutRow, RoutePixels, Count
    <2>2. job.ver \in Nat
      BY <1>a, BoundAssumption DEF TypeOK, Job
    <2>3. QED
      BY <2>1, <2>2 DEF JobVersions
  <1>j. job \in Job
    BY <1>a DEF TypeOK
  <1>1. CASE CountHeld
    <2>1. /\ UNCHANGED <<record, unit, copies, rows, queue, dead>> /\ job.at = "countHeld"
          /\ job'.at = "profiles" /\ job'.m = job.m /\ job'.rec = job.rec /\ job'.ver = record[job.rec]
          /\ job'.next = Reindex(job.m.platform, KeyOf[job.rec])
      BY <1>1, <1>j DEF CountHeld, Job
    <2>2. job.m.kind = "reindex"
      BY <2>1, <1>a DEF JobShape
    <2>3. Versions' /\ RecordsCovered' /\ HalfIndexedOwned'
      BY <2>1 DEF Versions, RecordsCovered, HalfIndexedOwned, InFlight
    <2>4. JobVersions'
      BY <2>1, <1>b, <1>c DEF JobVersions, PastRows, Versions
    <2>5. FactsNewest' /\ ReindexPasses'
      BY <2>1, <2>2, <1>c DEF FactsNewest, ReindexPasses, OfRecord, Ahead, Half
    <2>6. QED
      BY <2>1, <2>3, <2>4, <2>5
  <1>2. CASE PutSomeProfiles
    <2>1. /\ UNCHANGED <<record, unit, copies, rows, queue, dead>> /\ job.at = "profiles"
          /\ job'.at = "send" /\ job'.m = job.m /\ job'.rec = job.rec /\ job'.ver = job.ver
          /\ job'.next = job.m
      BY <1>2, <1>j DEF PutSomeProfiles, Job
    <2>2. WritesRows
      BY <2>1, <1>b, <1>c DEF WritesRows
    <2>3. Versions'
      BY <2>1 DEF Versions
    <2>4. JobVersions'
      BY <2>1, <1>c DEF JobVersions, PastRows
    <2>5. QED
      BY <2>1, <2>2, <2>3, <2>4, <1>a, <1>c, WroteRows
  <1>3. CASE PutProfiles
    <2>1. /\ UNCHANGED <<record, unit, copies, rows, queue, dead>> /\ job.at = "profiles"
          /\ job'.at = (IF job.rec \in Releases THEN "copies" ELSE "rows")
          /\ job'.m = job.m /\ job'.rec = job.rec /\ job'.ver = job.ver /\ job'.next = job.next
      BY <1>3, <1>j DEF PutProfiles, Job
    <2>2. WritesRows
      BY <2>1, <1>b, <1>c DEF WritesRows
    <2>3. Versions'
      BY <2>1 DEF Versions
    <2>4. JobVersions'
      BY <2>1, <1>c DEF JobVersions, PastRows
    <2>5. QED
      BY <2>1, <2>2, <2>3, <2>4, <1>a, <1>c, WroteRows
  <1>4. CASE SyncCopies
    <2>1. /\ UNCHANGED <<record, unit, rows, queue, dead>> /\ job.at = "copies"
          /\ copies' = [copies EXCEPT ![job.rec] = job.ver]
          /\ job'.at = (IF job.rec \in Releases THEN "rows" ELSE AfterFacts)
          /\ job'.m = job.m /\ job'.rec = job.rec /\ job'.ver = job.ver /\ job'.next = job.next
      BY <1>4, <1>j DEF SyncCopies, Job
    <2>2. copies'[job.rec] = job.ver /\ \A r \in Records : r # job.rec => copies'[r] = copies[r]
      BY <2>1, <1>a, <1>c DEF TypeOK
    <2>3. WritesRows
      BY <2>1, <2>2, <1>b, <1>c DEF WritesRows, JobVersions
    <2>4. Versions'
      BY <2>1, <2>2, <1>c DEF Versions
    <2>5. JobVersions'
      BY <2>1, <2>2, <1>c DEF JobVersions, PastRows, AfterFacts
    <2>6. QED
      BY <2>1, <2>3, <2>4, <2>5, <1>a, <1>c, WroteRows
  <1>5. CASE PutRow
    <2>1. /\ UNCHANGED <<record, unit, copies, queue, dead>> /\ job.at = "rows"
          /\ rows' = [rows EXCEPT ![job.rec] = job.ver]
          /\ job'.at = (IF job.rec \notin Releases THEN "copies"
                        ELSE IF PlatformOf[job.rec] \in CarrierLists THEN "route" ELSE AfterFacts)
          /\ job'.m = job.m /\ job'.rec = job.rec /\ job'.ver = job.ver /\ job'.next = job.next
      BY <1>5, <1>j DEF PutRow, Job
    <2>2. rows'[job.rec] = job.ver /\ \A r \in Records : r # job.rec => rows'[r] = rows[r]
      BY <2>1, <1>a, <1>c DEF TypeOK
    <2>3. WritesRows
      BY <2>1, <2>2, <1>b, <1>c DEF WritesRows, JobVersions
    <2>4. Versions'
      BY <2>1, <2>2, <1>c DEF Versions
    <2>5. JobVersions'
      BY <2>1, <2>2, <1>c DEF JobVersions, PastRows, AfterFacts
    <2>6. QED
      BY <2>1, <2>3, <2>4, <2>5, <1>a, <1>c, WroteRows
  <1>6. CASE RoutePixels
    <2>1. /\ UNCHANGED <<record, unit, copies, rows, queue, dead>> /\ job.at = "route"
          /\ job'.at \in {"link", AfterFacts}
          /\ job'.m = job.m /\ job'.rec = job.rec /\ job'.ver = job.ver /\ job'.next = job.next
      BY <1>6, <1>j DEF RoutePixels, Job, factVars
    <2>2. WritesRows
      BY <2>1, <1>b, <1>c DEF WritesRows
    <2>3. Versions'
      BY <2>1 DEF Versions
    <2>4. JobVersions'
      BY <2>1, <1>c DEF JobVersions, PastRows, AfterFacts
    <2>5. QED
      BY <2>1, <2>2, <2>3, <2>4, <1>a, <1>c, WroteRows
  <1>7. CASE Count
    <2>1. /\ UNCHANGED <<record, unit, copies, rows, queue, dead>> /\ job.at = "count"
          /\ job'.at = "send" /\ job'.m = job.m /\ job'.rec = job.rec /\ job'.ver = job.ver
      BY <1>7, <1>j DEF Count, Job
    <2>2. LeavesRows
      BY <2>1 DEF LeavesRows, InFlight, Queued
    <2>3. JobVersions'
      BY <2>1, <1>c DEF JobVersions, PastRows
    <2>4. ReindexPasses'
      BY <2>1, <1>a DEF ReindexPasses, JobShape
    <2>5. QED
      BY <2>1, <2>2, <2>3, <2>4, <1>a, LeftRows
  <1>8. QED
    BY <1>1, <1>2, <1>3, <1>4, <1>5, <1>6, <1>7 DEF WriteFacts

(* The rest of a message's work. *)
LEMMA RecordsRest ==
  Coverage /\ TypeOK' /\ RecordsInv /\ (SyncRoutes \/ DeriveStep \/ Link \/ Send)
    => RecordsInv' /\ UNCHANGED <<record, copies, rows>>
  <1> SUFFICES ASSUME Coverage, TypeOK', RecordsInv, SyncRoutes \/ DeriveStep \/ Link \/ Send
               PROVE  RecordsInv' /\ UNCHANGED <<record, copies, rows>>
    OBVIOUS
  <1> USE DEF consumerOnly, bucketVars, workflowVars, factVars
  <1>a. TypeOK /\ JobShape /\ job \in Job
    BY DEF Coverage, TypeOK
  <1>1. ASSUME LeavesRows, job.m.kind \notin {"facts", "reindex"}, job'.at \notin {"profiles", "copies", "rows"}
        PROVE  RecordsInv' /\ UNCHANGED <<record, copies, rows>>
    <2>1. JobVersions' /\ ReindexPasses'
      BY <1>1 DEF JobVersions, OfRecord, PastRows, ReindexPasses, LeavesRows
    <2>2. QED
      BY <2>1, <1>1, <1>a, LeftRows DEF LeavesRows
  <1>2. ASSUME LeavesRows, job'.next = job.next, job.at \in {"link", "send"},
               job'.at \in {"count", "send", "purge"},
               job.at = "link" /\ job.m.kind \in {"facts", "reindex"} => OfRecord,
               job.at = "send" => job'.at = "purge"
        PROVE  RecordsInv' /\ UNCHANGED <<record, copies, rows>>
    <2>1. JobVersions'
      BY <1>2 DEF RecordsInv, JobVersions, OfRecord, PastRows, LeavesRows
    <2>2. ReindexPasses'
      BY <1>2 DEF RecordsInv, ReindexPasses, Ahead, Half, LeavesRows
    <2>3. QED
      BY <2>1, <2>2, <1>2, <1>a, LeftRows DEF LeavesRows
  <1>3. CASE SyncRoutes
    <2>1. LeavesRows /\ job.m.kind = "routes" /\ job'.at \in {"link", "send"}
      BY <1>3, <1>a DEF SyncRoutes, Job, LeavesRows, InFlight, Queued
    <2>2. QED
      BY <2>1, <1>1
  <1>4. ASSUME NEW s \in Sources, DeriveSource(s) PROVE RecordsInv' /\ UNCHANGED <<record, copies, rows>>
    <2>1. LeavesRows /\ job.m.kind = "derive" /\ job'.at \in {"changes", "derive"}
      BY <1>4, <1>a DEF DeriveSource, Job, JobShape, LeavesRows, InFlight, Queued
    <2>2. QED
      BY <2>1, <1>1
  <1>5. ASSUME NEW r \in Releases, DeriveChanges(r) PROVE RecordsInv' /\ UNCHANGED <<record, copies, rows>>
    <2>1. LeavesRows /\ job.m.kind = "derive" /\ job'.at = "changes"
      BY <1>5, <1>a DEF DeriveChanges, Job, JobShape, LeavesRows, InFlight, Queued
    <2>2. QED
      BY <2>1, <1>1
  <1>6. CASE EndDerive
    <2>1. LeavesRows /\ job.m.kind = "derive" /\ job'.at \in {"link", "send"}
      BY <1>6, <1>a DEF EndDerive, Job, JobShape, LeavesRows, InFlight, Queued
    <2>2. QED
      BY <2>1, <1>1
  <1>7. CASE Link
    <2>1. /\ LeavesRows /\ job'.next = job.next /\ job.at = "link" /\ job'.at \in {"count", "send"}
      BY <1>7, <1>a DEF Link, Job, AfterFacts, LeavesRows, InFlight, Queued
    <2>2. job.m.kind \in {"facts", "reindex"} => OfRecord
      BY <2>1, <1>a, WritesOfRecord
    <2>3. QED
      BY <2>1, <2>2, <1>2
  <1>8. CASE Send
    <2>1. /\ LeavesRows /\ job'.next = job.next /\ job.at = "send" /\ job'.at = "purge"
      BY <1>8, <1>a DEF Send, Job, LeavesRows, InFlight, Queued
    <2>2. QED
      BY <2>1, <1>2
  <1>9. QED
    BY <1>3, <1>4, <1>5, <1>6, <1>7, <1>8 DEF DeriveStep

-----------------------------------------------------------------------------
(* A message ends: acknowledged, and its next one owns what it leaves       *)
(* unfinished; or it stays in flight.                                       *)

EndedRecords == Ended /\ UNCHANGED <<record, unit>>

LEMMA EndsRecords ==
  /\ Ack \/ AckLost => EndedRecords /\ job.at = "purge"
  /\ Fail \/ ThrowRetried \/ ThrowDead => EndedRecords /\ (job.m \in queue' \/ job.m \in dead')
  BY DEF Ack, AckLost, Finish, Fail, ThrowRetried, ThrowDead, Throws, EndAttempt, Retry,
         DeadLetter, EndedRecords, Ended, bucketVars, workflowVars, factVars, derivedVars, routeVars

(* What of RecordsInv is about the job holds of none. *)
LEMMA EndedJob ==
  ASSUME RecordsInv, EndedRecords
  PROVE  Versions' /\ JobVersions' /\ FactsNewest' /\ ReindexPasses'
  <1>1. job'.m = None /\ job'.at = "idle"
    BY DEF EndedRecords, Ended, Idle
  <1>2. QED
    BY <1>1 DEF RecordsInv, EndedRecords, Ended, Versions, JobVersions, OfRecord, PastRows,
                FactsNewest, ReindexPasses, None

LEMMA RecordsRetried ==
  RecordsInv /\ EndedRecords /\ (job.m \in queue' \/ job.m \in dead') => RecordsInv'
  <1> SUFFICES ASSUME RecordsInv, EndedRecords, job.m \in queue' \/ job.m \in dead' PROVE RecordsInv'
    OBVIOUS
  <1>1. InFlight \subseteq InFlight'
    BY DEF EndedRecords, Ended, InFlight
  <1>2. RecordsCovered' /\ HalfIndexedOwned'
    BY <1>1 DEF RecordsInv, EndedRecords, Ended, RecordsCovered, HalfIndexedOwned
  <1>3. QED
    BY <1>2, EndedJob DEF RecordsInv

(* A facts message acknowledged leaves its record as the bucket holds it,   *)
(* or its unit, or a message of it, to go.                                  *)
LEMMA FactsHandedOn ==
  ASSUME Coverage, RecordsInv, job.at = "purge", job.m.kind = "facts"
  PROVE  \/ job.m \in queue
         \/ /\ copies[job.rec] = rows[job.rec]
            /\ \/ record[job.rec] = copies[job.rec]
               \/ unit[job.rec] # "idle" \/ Queued(job.rec)
  <1>1. TypeOK /\ JobShape /\ Handed
    BY DEF Coverage
  <1>2. job.rec \in Records /\ job.m = Facts(job.rec) /\ OfRecord
    BY <1>1, FactsMessage
  <1>3. CASE job.next = job.m
    BY <1>1, <1>2, <1>3 DEF Handed, Facts, None
  <1>4. CASE job.next # job.m
    BY <1>2, <1>4 DEF RecordsInv, PastRows, JobVersions, FactsNewest
  <1>5. QED
    BY <1>3, <1>4

(* A reindex acknowledged hands on the records it was to pass, but the one  *)
(* whose halves it wrote.                                                   *)
LEMMA ReindexHandedOn ==
  ASSUME Coverage, RecordsInv, job.at = "purge", job.m.kind = "reindex",
         NEW r \in Records, Half(r), Ahead(r)
  PROVE  \E m \in queue : m.kind = "reindex" /\ m.platform = PlatformOf[r] /\ m.after < KeyOf[r]
  <1>1. TypeOK /\ JobShape /\ Handed
    BY DEF Coverage
  <1>2. job.rec # 0 /\ job.rec \in Records
    BY <1>1, ReindexMessage DEF RecordsInv, ReindexPasses
  <1>3. KeyOf[job.rec] <= KeyOf[r] /\ PlatformOf[r] = job.m.platform /\ KeyOf[r] > job.m.after
    BY <1>2 DEF RecordsInv, ReindexPasses, Ahead
  <1>4. job.next = job.m \/ job.next = Reindex(job.m.platform, KeyOf[job.rec])
    BY <1>2 DEF RecordsInv, ReindexPasses
  <1>5. CASE job.next = job.m
    <2>1. job.m \in queue
      BY <1>1, <1>5 DEF Handed, None
    <2>2. job.m.after < KeyOf[r]
      BY <1>1, <1>3, KeyNat, ReindexMessage
    <2>3. QED
      BY <2>1, <2>2, <1>3
  <1>6. CASE job.next # job.m
    <2>1. job.next = Reindex(job.m.platform, KeyOf[job.rec]) /\ job.next \in queue
      BY <1>1, <1>4, <1>6 DEF Handed, Reindex, None
    <2>2. job.rec # r
      BY <1>2, <1>6 DEF RecordsInv, PastRows, OfRecord, JobVersions, Half
    <2>3. KeyOf[job.rec] < KeyOf[r]
      BY <2>2, <1>2, <1>3, KeyNat, KeysApart
    <2>4. QED
      BY <2>1, <2>3, <1>3 DEF Reindex
  <1>7. QED
    BY <1>5, <1>6

LEMMA RecordsEnd == Coverage /\ RecordsInv /\ EndedRecords /\ job.at = "purge" => RecordsInv'
  <1> SUFFICES ASSUME Coverage, RecordsInv, EndedRecords, job.at = "purge" PROVE RecordsInv'
    OBVIOUS
  <1>1. queue \cup dead \subseteq InFlight' /\ UNCHANGED <<record, unit, copies, rows>>
    BY DEF EndedRecords, Ended, InFlight
  <1>2. TypeOK /\ JobShape
    BY DEF Coverage
  <1>3. ASSUME NEW r \in Records, job.m = Facts(r) PROVE job.m.kind = "facts" /\ job.rec = r
    BY <1>2, <1>3 DEF JobShape, Facts
  <1>4. RecordsCovered'
    <2> SUFFICES ASSUME NEW r \in Records, record[r] # copies[r] \/ record[r] # rows[r], unit[r] = "idle"
                 PROVE  Facts(r) \in InFlight'
      BY <1>1 DEF RecordsCovered
    <2>1. Facts(r) \in InFlight
      BY DEF RecordsInv, RecordsCovered
    <2>2. CASE Facts(r) \in queue \cup dead
      BY <2>2, <1>1
    <2>3. CASE job.m = Facts(r)
      <3>1. Queued(r)
        BY <2>3, <1>3, FactsHandedOn DEF Queued
      <3>2. QED
        BY <3>1, <1>1 DEF Queued
    <2>4. QED
      BY <2>1, <2>2, <2>3 DEF InFlight
  <1>5. HalfIndexedOwned'
    <2> SUFFICES ASSUME NEW r \in Records, Half(r)
                 PROVE  \/ Facts(r) \in InFlight'
                        \/ \E m \in InFlight' : m.kind = "reindex" /\ m.platform = PlatformOf[r] /\ m.after < KeyOf[r]
      BY <1>1 DEF HalfIndexedOwned, Half
    <2>1. \/ Facts(r) \in InFlight
          \/ \E m \in InFlight : m.kind = "reindex" /\ m.platform = PlatformOf[r] /\ m.after < KeyOf[r]
      BY DEF RecordsInv, HalfIndexedOwned, Half
    <2>2. CASE Facts(r) \in queue \cup dead
      BY <2>2, <1>1
    <2>3. CASE job.m = Facts(r)
      BY <2>3, <1>1, <1>3, FactsHandedOn DEF Half
    <2>4. ASSUME NEW m \in queue \cup dead, m.kind = "reindex", m.platform = PlatformOf[r], m.after < KeyOf[r]
          PROVE  \E x \in InFlight' : x.kind = "reindex" /\ x.platform = PlatformOf[r] /\ x.after < KeyOf[r]
      BY <2>4, <1>1
    <2>5. CASE job.m.kind = "reindex" /\ job.m.platform = PlatformOf[r] /\ job.m.after < KeyOf[r]
      <3>1. Ahead(r)
        BY <2>5, <1>2, KeyNat, ReindexMessage DEF Ahead
      <3>2. QED
        BY <2>5, <3>1, <1>1, ReindexHandedOn
    <2>6. QED
      BY <2>1, <2>2, <2>3, <2>4, <2>5 DEF InFlight
  <1>6. QED
    BY <1>4, <1>5, EndedJob DEF RecordsInv

-----------------------------------------------------------------------------
LEMMA RecordsInit == Init => RecordsInv
  <1> SUFFICES ASSUME Init PROVE RecordsInv
    OBVIOUS
  <1>1. job.m = None /\ job.at = "idle"
    BY DEF Init, Idle
  <1>2. \A r \in Records : record[r] = 0 /\ copies[r] = 0 /\ rows[r] = 0
    BY DEF Init
  <1>3. QED
    BY <1>1, <1>2 DEF RecordsInv, Versions, JobVersions, OfRecord, PastRows, FactsNewest,
                      ReindexPasses, RecordsCovered, HalfIndexedOwned, None

LEMMA RecordsStep == Coverage /\ RecordsInv /\ [Next]_vars /\ Coverage' => RecordsInv'
  <1> SUFFICES ASSUME Coverage, RecordsInv, [Next]_vars, Coverage' PROVE RecordsInv'
    OBVIOUS
  <1>1. TypeOK /\ JobShape /\ TypeOK' /\ JobShape'
    BY DEF Coverage
  <1>2. CASE Feed
    BY <1>1, <1>2, FeedRecords, RecordsFeed
  <1>3. CASE TakeMessage
    BY <1>1, <1>3, RecordsTake
  <1>4. CASE WriteFacts
    BY <1>1, <1>4, RecordsFacts
  <1>5. CASE SyncRoutes \/ DeriveStep \/ Link \/ Send
    BY <1>1, <1>5, RecordsRest
  <1>6. CASE Ack \/ AckLost
    BY <1>6, EndsRecords, RecordsEnd
  <1>7. CASE Fail \/ ThrowRetried \/ ThrowDead
    BY <1>7, EndsRecords, RecordsRetried
  <1>8. CASE UNCHANGED vars
    <2>1. FeedsRecords
      BY <1>8 DEF FeedsRecords, vars, bucketVars, workflowVars, factVars
    <2>2. QED
      BY <2>1, <1>1, RecordsFeed
  <1>9. QED
    BY <1>2, <1>3, <1>4, <1>5, <1>6, <1>7, <1>8 DEF Next, Consume

(* RecordsInv, the invariant the theorems below are parts of.  It says      *)
(* besides how far the message in hand has written its record (JobVersions) *)
(* and that a reindex has passed no half-indexed record (ReindexPasses).    *)
THEOREM RecordsInvariant == Spec => []RecordsInv
  <1>1. Init => RecordsInv
    BY RecordsInit
  <1>2. Coverage /\ RecordsInv /\ [Next]_vars /\ Coverage' => RecordsInv'
    BY RecordsStep
  <1>3. QED
    BY <1>1, <1>2, CoverageInvariant, PTL DEF Spec

(* RecordsCovered: a record the index does not hold as the bucket does is   *)
(* its unit's to queue or has a facts message in flight or dead-lettered,   *)
(* however its unit runs again while its messages are handled in parts,     *)
(* repeated, reordered and retried (finish, releaseRows, otaRows).          *)
THEOREM RecordsAlwaysCovered == Spec => []RecordsCovered
  <1>1. RecordsInv => RecordsCovered
    BY DEF RecordsInv
  <1>2. QED
    BY <1>1, RecordsInvariant, PTL

(* HalfIndexedOwned: no acknowledged message leaves a record's copies and   *)
(* its row of different versions with nothing in flight to write them; a    *)
(* reindex passes only the records it has written whole.                    *)
THEOREM HalfIndexedAlwaysOwned == Spec => []HalfIndexedOwned
  <1>1. RecordsInv => HalfIndexedOwned
    BY DEF RecordsInv
  <1>2. QED
    BY <1>1, RecordsInvariant, PTL

-----------------------------------------------------------------------------
(* IndexQueue implements RecordIndex. *)

IndexStep == [Index!Next]_(Index!indexVars)

LEMMA IndexStutters == UNCHANGED <<record, copies, rows>> => IndexStep
  BY DEF IndexStep, Index!indexVars

(* A step of one half to the job's version. *)
LEMMA WritesLead ==
  Coverage /\ RecordsInv /\ (SyncCopies \/ PutRow) => IndexStep
  <1> SUFFICES ASSUME Coverage, RecordsInv, SyncCopies \/ PutRow PROVE IndexStep
    OBVIOUS
  <1> DEFINE r == job.rec
  <1>1. TypeOK /\ JobShape
    BY DEF Coverage
  <1>2. r \in Records /\ OfRecord
    BY <1>1, WritesOfRecord DEF SyncCopies, PutRow
  <1>3. /\ job.ver \in Nat /\ record[r] \in Nat /\ copies[r] \in Nat /\ rows[r] \in Nat
        /\ copies \in [Records -> Nat] /\ rows \in [Records -> Nat]
    <2>1. \A q \in Records : record[q] \in Nat /\ copies[q] \in Nat /\ rows[q] \in Nat
      BY <1>1, BoundAssumption DEF TypeOK
    <2>2. QED
      BY <2>1, <1>1, <1>2, BoundAssumption DEF TypeOK, Job
  <1>4. job.ver <= record[r]
    BY <1>2 DEF RecordsInv, JobVersions
  <1>5. CASE SyncCopies
    <2>1. /\ job.at = "copies" /\ UNCHANGED <<record, rows>>
          /\ copies' = [copies EXCEPT ![r] = job.ver]
      BY <1>5 DEF SyncCopies, consumerOnly, bucketVars
    <2>2. copies[r] <= job.ver
      BY <2>1 DEF RecordsInv, JobVersions
    <2>3. CASE job.ver = copies[r]
      <3>1. copies' = copies
        BY <2>1, <2>3, <1>2, <1>3
      <3>2. QED
        BY <3>1, <2>1, IndexStutters
    <2>4. CASE r \in Releases /\ job.ver # copies[r]
      <3>1. job.ver \in copies[r] + 1 .. record[r]
        BY <2>2, <2>4, <1>3, <1>4
      <3>2. Index!LeadCopies(r)
        BY <2>1, <2>4, <3>1 DEF Index!LeadCopies
      <3>3. QED
        BY <3>2, <1>2 DEF IndexStep, Index!Next
    <2>5. CASE r \notin Releases
      <3>1. rows[r] = job.ver
        BY <2>1, <2>5 DEF RecordsInv, JobVersions
      <3>2. Index!FollowCopies(r)
        BY <2>1, <2>5, <3>1 DEF Index!FollowCopies
      <3>3. QED
        BY <3>2, <1>2 DEF IndexStep, Index!Next
    <2>6. QED
      BY <2>3, <2>4, <2>5
  <1>6. CASE PutRow
    <2>1. /\ job.at = "rows" /\ UNCHANGED <<record, copies>>
          /\ rows' = [rows EXCEPT ![r] = job.ver]
      BY <1>6 DEF PutRow, consumerOnly, bucketVars
    <2>2. rows[r] <= job.ver
      BY <2>1 DEF RecordsInv, JobVersions
    <2>3. CASE job.ver = rows[r]
      <3>1. rows' = rows
        BY <2>1, <2>3, <1>2, <1>3
      <3>2. QED
        BY <3>1, <2>1, IndexStutters
    <2>4. CASE r \notin Releases /\ job.ver # rows[r]
      <3>1. job.ver \in rows[r] + 1 .. record[r]
        BY <2>2, <2>4, <1>3, <1>4
      <3>2. Index!LeadRow(r)
        BY <2>1, <2>4, <3>1 DEF Index!LeadRow
      <3>3. QED
        BY <3>2, <1>2 DEF IndexStep, Index!Next
    <2>5. CASE r \in Releases
      <3>1. copies[r] = job.ver
        BY <2>1, <2>5 DEF RecordsInv, JobVersions
      <3>2. Index!FollowRow(r)
        BY <2>1, <2>5, <3>1 DEF Index!FollowRow
      <3>3. QED
        BY <3>2, <1>2 DEF IndexStep, Index!Next
    <2>6. QED
      BY <2>3, <2>4, <2>5
  <1>7. QED
    BY <1>5, <1>6

LEMMA StepsIndex == Coverage /\ RecordsInv /\ [Next]_vars /\ Coverage' => IndexStep
  <1> SUFFICES ASSUME Coverage, RecordsInv, [Next]_vars, Coverage' PROVE IndexStep
    OBVIOUS
  <1> USE DEF vars, bucketVars, workflowVars, factVars, consumerOnly
  <1>1. TypeOK /\ TypeOK'
    BY DEF Coverage
  <1>2. ASSUME NEW r \in Records, WriteRecord(r) PROVE IndexStep
    <2>1. Index!Store(r)
      BY <1>2 DEF WriteRecord, Index!Store
    <2>2. QED
      BY <2>1 DEF IndexStep, Index!Next
  <1>3. CASE Feed
    <2>1. CASE UNCHANGED <<record, copies, rows>>
      BY <2>1, IndexStutters
    <2>2. QED
      BY <1>2, <1>3, <2>1 DEF Feed, QueueRecord, UnitFails, SyncDevices, QueueRederive, PurgeDevices,
         CheckFails, PublishManifest, AskRederive, AskReindex, AskRecord, Ask
  <1>4. CASE TakeMessage
    BY <1>4, TakesOne, IndexStutters DEF TookOne
  <1>5. CASE SyncCopies \/ PutRow
    BY <1>5, WritesLead
  <1>6. CASE CountHeld \/ PutSomeProfiles \/ PutProfiles \/ RoutePixels \/ Count
    BY <1>6, IndexStutters DEF CountHeld, PutSomeProfiles, PutProfiles, RoutePixels, Count
  <1>7. CASE SyncRoutes \/ DeriveStep \/ Link \/ Send
    BY <1>7, <1>1, RecordsRest, IndexStutters
  <1>8. CASE Ack \/ AckLost \/ Fail \/ ThrowRetried \/ ThrowDead
    <2>1. EndedRecords
      BY <1>8, EndsRecords
    <2>2. QED
      BY <2>1, IndexStutters DEF EndedRecords, Ended
  <1>9. CASE UNCHANGED vars
    BY <1>9, IndexStutters
  <1>10. QED
    BY <1>3, <1>4, <1>5, <1>6, <1>7, <1>8, <1>9 DEF Next, Consume, WriteFacts

(* IndexesRecords: whatever is repeated, reordered, retried or handled in   *)
(* parts, a record's two halves in the index only ever move forward to a    *)
(* version the bucket has held, a release's copies before its row and an    *)
(* OTA file's row before its copies, and the second half only to the first. *)
THEOREM ImplementsRecordIndex == Spec => IndexesRecords
  <1>1. Init => Index!Init
    BY DEF Init, Index!Init
  <1>2. Coverage /\ RecordsInv /\ [Next]_vars /\ Coverage' => [Index!Next]_(Index!indexVars)
    BY StepsIndex DEF IndexStep
  <1>3. QED
    BY <1>1, <1>2, CoverageInvariant, RecordsInvariant, PTL DEF Spec, IndexesRecords, Index!Spec

-----------------------------------------------------------------------------
(* Linking.  Carriers whose identities or routes have changed have a link to *)
(* come: LinkCovered.                                                       *)

(* A link is owed only by the steps that change what it reads, and its own. *)
RelinkSteps == job.relink => job.at \in {"derive", "changes", "link"}

(* A message of a record is of one the bucket holds, so the row it writes   *)
(* is one; and only a release's has routes, so its platform has a release.  *)
HeldRecords ==
  /\ \A r \in Records : unit[r] = "written" \/ Queued(r) => record[r] > 0
  /\ OfRecord => record[job.rec] > 0 /\ (job.at # "countHeld" => job.ver > 0)
  /\ job.at \in {"route", "link"} /\ OfRecord => job.rec \in Releases
  /\ job.next.kind = "facts" => job.next = job.m

(* The last message of a derive chain with a release has linked by its end. *)
LinkedLast ==
  job.m.kind = "derive" /\ job.at \in {"send", "purge"} =>
    \/ job.m.changes = {} \/ job.rest # {} \/ job.later # {}
    \/ linked = LinkView

LinkInv == RelinkSteps /\ HeldRecords /\ LinkedLast /\ LinkCovered

-----------------------------------------------------------------------------
(* Records that have messages, and the rows of releases. *)

LEMMA HeldFeed == TypeOK /\ JobShape /\ HeldRecords /\ Feed => HeldRecords'
  <1> SUFFICES ASSUME TypeOK, JobShape, HeldRecords, Feed PROVE HeldRecords'
    OBVIOUS
  <1>1. FeedsRecords
    BY FeedRecords
  <1>2. \A r \in Records : record[r] \in Nat /\ record'[r] \in Nat
    <2>1. \A r \in Records : record[r] \in Nat
      BY BoundAssumption DEF TypeOK
    <2>2. ASSUME NEW q \in Records, WriteRecord(q), NEW r \in Records PROVE record'[r] \in Nat
      BY <2>1, <2>2 DEF WriteRecord, TypeOK
    <2>3. QED
      BY <2>1, <2>2 DEF Feed, QueueRecord, UnitFails, SyncDevices, QueueRederive, PurgeDevices,
         CheckFails, PublishManifest, AskRederive, AskReindex, AskRecord, Ask, bucketVars
  <1>3. \A r \in Records : record[r] > 0 => record'[r] > 0
    BY <1>1, <1>2 DEF FeedsRecords
  <1>4. ASSUME NEW r \in Records, unit'[r] = "written" \/ Queued(r)' PROVE record'[r] > 0
    <2> SUFFICES ASSUME ~(unit[r] = "written" \/ Queued(r)) PROVE record'[r] > 0
      BY <1>3 DEF HeldRecords
    <2>a. /\ unit \in [Records -> {"idle", "written", "failed"}]
          /\ dead' = dead /\ Facts(r) \notin queue /\ Facts(r) \notin dead
      BY <1>1 DEF TypeOK, FeedsRecords, Queued
    <2>1. ASSUME NEW q \in Records, WriteRecord(q) PROVE record'[r] > 0
      <3>1. record' = [record EXCEPT ![q] = @ + 1] /\ unit' = [unit EXCEPT ![q] = "written"]
            /\ queue' = queue
        BY <2>1 DEF WriteRecord
      <3>2. q = r
        BY <3>1, <2>a, <1>4 DEF Queued
      <3>3. QED
        BY <3>1, <3>2, <1>2 DEF TypeOK
    <2>2. ASSUME NEW q \in Records, QueueRecord(q) PROVE record'[r] > 0
      <3>1. unit' = [unit EXCEPT ![q] = "idle"] /\ queue' = queue \cup {Facts(q)} /\ unit[q] = "written"
        BY <2>2 DEF QueueRecord
      <3>2. Facts(r) = Facts(q)
        BY <3>1, <2>a, <1>4 DEF Queued
      <3>3. QED
        BY <3>1, <3>2 DEF Facts
    <2>3. ASSUME NEW q \in Records, UnitFails(q) PROVE record'[r] > 0
      BY <2>3, <2>a, <1>4 DEF UnitFails, Queued
    <2>4. ASSUME NEW q \in Records, AskRecord(q) PROVE record'[r] > 0
      <3>1. unit' = unit /\ queue' = queue \cup {Facts(q)} /\ record[q] > 0
        BY <2>4 DEF AskRecord, Ask, workflowVars
      <3>2. Facts(r) = Facts(q)
        BY <3>1, <2>a, <1>4 DEF Queued
      <3>3. QED
        BY <3>1, <3>2, <1>3 DEF Facts
    <2>5. CASE UNCHANGED unit /\ Facts(r) \notin queue'
      BY <2>5, <2>a, <1>4 DEF Queued
    <2>6. ASSUME NEW p \in Platforms, SyncDevices(p) \/ QueueRederive(p) \/ PurgeDevices(p)
                   \/ CheckFails(p) \/ AskRederive(p) \/ AskReindex(p)
          PROVE  UNCHANGED unit /\ Facts(r) \notin queue'
      BY <2>6, <2>a DEF SyncDevices, QueueRederive, PurgeDevices, CheckFails,
         AskRederive, AskReindex, Ask, workflowVars, Facts, Rederive, Reindex
    <2>7. PublishManifest => UNCHANGED unit /\ Facts(r) \notin queue'
      BY <2>a DEF PublishManifest, workflowVars, Facts, Routes
    <2>8. QED
      BY <2>1, <2>2, <2>3, <2>4, <2>5, <2>6, <2>7 DEF Feed
  <1>5. OfRecord => job.rec \in Records
    BY FactsMessage, ReindexMessage DEF OfRecord
  <1>6. QED
    BY <1>1, <1>3, <1>4, <1>5 DEF HeldRecords, FeedsRecords, OfRecord

LEMMA HeldTake == Coverage /\ HeldRecords /\ TakeMessage => HeldRecords'
  <1> SUFFICES ASSUME Coverage, HeldRecords, TakeMessage PROVE HeldRecords'
    OBVIOUS
  <1>1. UNCHANGED <<record, unit, dead>> /\ queue' \subseteq queue
    BY TakesOne DEF TookOne, bucketVars, workflowVars
  <1>2. \A r \in Records : unit'[r] = "written" \/ Queued(r)' => record'[r] > 0
    BY <1>1 DEF HeldRecords, Queued
  <1>3. ASSUME ~OfRecord', job'.next.kind # "facts" PROVE HeldRecords'
    BY <1>2, <1>3 DEF HeldRecords
  <1>4. ASSUME NEW m \in queue, m.kind = "facts", TakeFacts(m.record) PROVE HeldRecords'
    <2>1. job'.at = "profiles" /\ job'.rec = m.record /\ job'.ver = record[m.record] /\ job'.next = None
      BY <1>4 DEF TakeFacts, Take, Idle
    <2>2. m.record \in Records /\ m = Facts(m.record)
      BY <1>4 DEF Coverage, TypeOK, Message, Facts
    <2>3. record[m.record] > 0
      BY <2>2 DEF HeldRecords, Queued
    <2>4. QED
      BY <1>1, <1>2, <2>1, <2>3 DEF HeldRecords, None
  <1>5. ASSUME NEW m \in queue, m.kind = "reindex", TakeReindex(m.platform, m.after) PROVE HeldRecords'
    <2>1. CASE job'.rec = 0 /\ job'.next = Rederive(m.platform)
      BY <2>1, <1>3 DEF OfRecord, Rederive
    <2>2. ASSUME NEW r \in HeldAfter(m.platform, m.after), job'.rec = r, job'.at = "countHeld", job'.next = None
          PROVE  HeldRecords'
      BY <1>1, <1>2, <2>2 DEF HeldAfter, HeldRecords, None
    <2>3. QED
      BY <1>5, <2>1, <2>2 DEF TakeReindex, Take, Idle
  <1>6. ASSUME NEW m \in queue, TakeDerive(m) PROVE HeldRecords'
    <2>1. job'.rec = 0 /\ job'.next = None
      BY <1>6 DEF TakeDerive, Take, Idle
    <2>2. QED
      BY <2>1, <1>3 DEF OfRecord, None
  <1>7. ASSUME NEW m \in queue, TakeRoutes(m.manifest) PROVE HeldRecords'
    BY <1>7, <1>3 DEF TakeRoutes, Take, Idle, OfRecord, None
  <1>8. ASSUME NEW m \in queue, TakeSettle(m.platform, m.facts) PROVE HeldRecords'
    BY <1>8, <1>3 DEF TakeSettle, Take, Idle, OfRecord, None, Rederive
  <1>9. ASSUME NEW m \in queue, TakeRederive(m.platform) PROVE HeldRecords'
    BY <1>9, <1>3 DEF TakeRederive, Take, Idle, OfRecord, Derive
  <1>10. QED
    BY <1>4, <1>5, <1>6, <1>7, <1>8, <1>9 DEF TakeMessage

LEMMA HeldFacts == Coverage /\ HeldRecords /\ WriteFacts => HeldRecords' /\ OfRecord
  <1> SUFFICES ASSUME Coverage, HeldRecords, WriteFacts PROVE HeldRecords' /\ OfRecord
    OBVIOUS
  <1>a. TypeOK /\ JobShape /\ job \in Job
    BY DEF Coverage, TypeOK
  <1>1. OfRecord
    BY <1>a, WritesOfRecord DEF WriteFacts, CountHeld, PutSomeProfiles, PutProfiles, SyncCopies,
       PutRow, RoutePixels, Count
  <1>2. UNCHANGED <<record, unit, queue, dead>>
    BY DEF WriteFacts, CountHeld, PutSomeProfiles, PutProfiles, SyncCopies, PutRow, RoutePixels,
           Count, consumerOnly, bucketVars, workflowVars
  <1>3. /\ job'.m = job.m /\ job'.rec = job.rec
        /\ \/ job.at = "countHeld" /\ job'.ver = record[job.rec]
           \/ job.at # "countHeld" /\ job'.ver = job.ver
        /\ \/ job'.at \notin {"route", "link"}
           \/ job.at = "rows" /\ job.rec \in Releases
           \/ job.at = "route"
    <2>0. AfterFacts \notin {"route", "link"}
      BY DEF AfterFacts
    <2>1. CASE CountHeld
      BY <1>a, <2>1 DEF CountHeld, Job
    <2>2. CASE PutSomeProfiles
      BY <1>a, <2>2 DEF PutSomeProfiles, Job
    <2>3. CASE PutProfiles
      BY <1>a, <2>3 DEF PutProfiles, Job
    <2>4. CASE SyncCopies
      BY <1>a, <2>0, <2>4 DEF SyncCopies, Job
    <2>5. CASE PutRow
      BY <1>a, <2>0, <2>5 DEF PutRow, Job
    <2>6. CASE RoutePixels
      BY <1>a, <2>0, <2>6 DEF RoutePixels, Job
    <2>7. CASE Count
      BY <1>a, <2>7 DEF Count, Job
    <2>8. QED
      BY <2>1, <2>2, <2>3, <2>4, <2>5, <2>6, <2>7 DEF WriteFacts
  <1>4. job'.next.kind = "facts" => job'.next = job'.m
    BY <1>a, <1>3, FactsMoves DEF HeldRecords, Reindex, Settle
  <1>5. QED
    BY <1>1, <1>2, <1>3, <1>4 DEF HeldRecords, Queued, OfRecord

LEMMA HeldRest ==
  Coverage /\ HeldRecords /\ (SyncRoutes \/ DeriveStep \/ Link \/ Send) => HeldRecords'
  <1> SUFFICES ASSUME Coverage, HeldRecords, SyncRoutes \/ DeriveStep \/ Link \/ Send PROVE HeldRecords'
    OBVIOUS
  <1> USE DEF consumerOnly, bucketVars, workflowVars
  <1>a. TypeOK /\ JobShape /\ job \in Job
    BY DEF Coverage, TypeOK
  <1>1. UNCHANGED <<record, unit, dead>> /\ (queue' = queue \/ (Send /\ queue' \subseteq queue \cup {job.next}))
    BY DEF SyncRoutes, DeriveStep, DeriveSource, DeriveChanges, EndDerive, Link, Send
  <1>2. \A r \in Records : unit'[r] = "written" \/ Queued(r)' => record'[r] > 0
    <2>1. ASSUME NEW r \in Records, Facts(r) = job.next PROVE record[r] > 0
      <3>1. job.m = Facts(r)
        BY <2>1 DEF HeldRecords, Facts
      <3>2. job.rec = r /\ OfRecord
        BY <3>1, <1>a, FactsMessage DEF Facts
      <3>3. QED
        BY <3>2 DEF HeldRecords
    <2>2. QED
      BY <1>1, <2>1 DEF HeldRecords, Queued
  <1>3. /\ job'.m = job.m /\ job'.rec = job.rec /\ job'.ver = job.ver
        /\ job'.next = job.next \/ (EndDerive /\ job'.next = RestOf(job))
        /\ \/ job'.at \notin {"route", "link", "countHeld"}
           \/ job.m.kind = "routes" \/ job.m.kind = "derive"
        /\ job.at # "countHeld"
    <2>1. CASE SyncRoutes
      BY <1>a, <2>1 DEF SyncRoutes, Job
    <2>2. ASSUME NEW s \in Sources, DeriveSource(s) PROVE job.m.kind = "derive"
                 /\ job'.m = job.m /\ job'.rec = job.rec /\ job'.ver = job.ver /\ job'.next = job.next
                 /\ job.at # "countHeld"
      BY <1>a, <2>2 DEF DeriveSource, Job, JobShape
    <2>3. ASSUME NEW r \in Releases, DeriveChanges(r) PROVE job.m.kind = "derive"
                 /\ job'.m = job.m /\ job'.rec = job.rec /\ job'.ver = job.ver /\ job'.next = job.next
                 /\ job.at # "countHeld"
      BY <1>a, <2>3 DEF DeriveChanges, Job, JobShape
    <2>4. CASE EndDerive
      BY <1>a, <2>4 DEF EndDerive, Job, JobShape, RestOf, Last
    <2>5. CASE Link
      BY <1>a, <2>5 DEF Link, Job, AfterFacts
    <2>6. CASE Send
      BY <1>a, <2>6 DEF Send, Job
    <2>7. QED
      BY <2>1, <2>2, <2>3, <2>4, <2>5, <2>6 DEF DeriveStep
  <1>4. job'.next.kind = "facts" => job'.next = job'.m
    BY <1>3 DEF HeldRecords, RestOf, Derive, None
  <1>5. QED
    BY <1>1, <1>2, <1>3, <1>4 DEF HeldRecords, OfRecord

LEMMA HeldEnd == Coverage /\ HeldRecords /\ EndedRecords => HeldRecords'
  <1> SUFFICES ASSUME Coverage, HeldRecords, EndedRecords PROVE HeldRecords'
    OBVIOUS
  <1>1. ~OfRecord' /\ job'.next = None /\ job'.at = "idle" /\ UNCHANGED <<record, unit>>
    BY DEF EndedRecords, Ended, Idle, OfRecord
  <1>2. \A r \in Records : Queued(r)' => Queued(r) \/ job.m = Facts(r)
    BY DEF EndedRecords, Ended, Queued
  <1>3. \A r \in Records : job.m = Facts(r) => OfRecord /\ job.rec = r
    BY FactsMessage DEF Coverage, Facts
  <1>4. QED
    BY <1>1, <1>2, <1>3 DEF HeldRecords, None

LEMMA HeldStep == Coverage /\ HeldRecords /\ [Next]_vars => HeldRecords'
  <1> SUFFICES ASSUME Coverage, HeldRecords, [Next]_vars PROVE HeldRecords'
    OBVIOUS
  <1>1. CASE Feed
    BY <1>1, HeldFeed DEF Coverage
  <1>2. CASE TakeMessage
    BY <1>2, HeldTake
  <1>3. CASE WriteFacts
    BY <1>3, HeldFacts
  <1>4. CASE SyncRoutes \/ DeriveStep \/ Link \/ Send
    BY <1>4, HeldRest
  <1>5. CASE Ack \/ AckLost \/ Fail \/ ThrowRetried \/ ThrowDead
    BY <1>5, EndsRecords, HeldEnd
  <1>6. CASE UNCHANGED vars
    BY <1>6 DEF vars, bucketVars, workflowVars, HeldRecords, Queued, OfRecord
  <1>7. QED
    BY <1>1, <1>2, <1>3, <1>4, <1>5, <1>6 DEF Next, Consume

(* A platform's releases only grow. *)
LEMMA ReleasesGrow ==
  ASSUME Coverage, RecordsInv, [Next]_vars, Coverage'
  PROVE  \A p : ReleasesOf(p) \subseteq ReleasesOf(p)'
  <1>1. TypeOK /\ TypeOK'
    BY DEF Coverage
  <1>2. CASE UNCHANGED rows
    BY <1>2 DEF ReleasesOf
  <1>3. CASE WritesRows
    <2>1. \A r \in Records : rows[r] \in Nat /\ rows'[r] \in Nat
      BY <1>1, BoundAssumption DEF TypeOK
    <2>2. \A r \in Records : rows[r] > 0 => rows'[r] > 0
      BY <1>3, <2>1 DEF WritesRows
    <2>3. QED
      BY <2>2, RecordsAssumption DEF ReleasesOf
  <1>4. CASE Feed
    BY <1>1, <1>2, <1>4, FeedRecords DEF FeedsRecords
  <1>5. CASE TakeMessage
    BY <1>2, <1>5, TakesOne DEF TookOne, factVars
  <1>6. CASE WriteFacts
    BY <1>1, <1>2, <1>3, <1>6, RecordsFacts
  <1>7. CASE SyncRoutes \/ DeriveStep \/ Link \/ Send
    BY <1>1, <1>2, <1>7, RecordsRest
  <1>8. CASE Ack \/ AckLost \/ Fail \/ ThrowRetried \/ ThrowDead
    BY <1>2, <1>8, EndsRecords DEF EndedRecords, Ended
  <1>9. CASE UNCHANGED vars
    BY <1>2, <1>9 DEF vars, factVars
  <1>10. QED
    BY <1>4, <1>5, <1>6, <1>7, <1>8, <1>9 DEF Next, Consume

-----------------------------------------------------------------------------
(* What covers a link to come, but for the attempt in hand. *)

LinkToCome ==
  \/ \E m \in InFlight : m.kind = "derive" /\ m.changes # {}
  \/ \E p \in Platforms : Promised(p) /\ ReleasesOf(p) # {}

(* A step that keeps it. *)
Passes ==
  /\ FlightKept
  /\ \A p \in Platforms : Promised(p) => Promised(p)'
  /\ \A p \in Platforms : ReleasesOf(p) \subseteq ReleasesOf(p)'

LEMMA ToComeKept == Passes /\ LinkToCome => LinkToCome'
  <1>1. None.kind # "derive"
    BY DEF None
  <1>2. QED
    BY <1>1 DEF Passes, LinkToCome, FlightKept

(* A step that leaves what linking reads, and the attempt's own link. *)
LeavesLink ==
  /\ UNCHANGED <<derivedVars, routeVars, linked>>
  /\ lostLink => lostLink'

LEMMA LinkViewSame == UNCHANGED <<derivedVars, routeVars>> => LinkView' = LinkView
  BY DEF LinkView, derivedVars, routeVars

LEMMA LinkLeft ==
  ASSUME LinkCovered, LeavesLink, Passes, job.relink => job'.relink
  PROVE  LinkCovered'
  <1>1. LinkView' = LinkView /\ linked' = linked
    BY LinkViewSame DEF LeavesLink
  <1>2. LinkCovered <=> (linked # LinkView => job.relink \/ lostLink \/ LinkToCome)
    BY DEF LinkCovered, LinkToCome
  <1>3. LinkCovered' <=> (linked' # LinkView' => job'.relink \/ lostLink' \/ LinkToCome')
    BY DEF LinkCovered, LinkToCome
  <1>4. QED
    BY <1>1, <1>2, <1>3, ToComeKept DEF LeavesLink

(* Promises stay, but for those of the message that ends. *)
LEMMA PromisesStay ==
  ASSUME FlightKept, counted' = counted
  PROVE  \A p \in Platforms : Promised(p) => Promised(p)'
  BY PromiseKept

LEMMA FactsPromises ==
  ASSUME FactsStep
  PROVE  FlightKept /\ \A p \in Platforms : Promised(p) => Promised(p)'
  <1>1. FlightKept
    BY DEF FactsStep, FlightKept, InFlight
  <1>2. ASSUME NEW p \in Platforms, p = PlatformOf[job.rec] PROVE Promised(p)'
    <2>1. PICK m : m = job'.m
      OBVIOUS
    <2>2. m.kind \in {"facts", "reindex"} /\ (m.kind = "facts" => PlatformOf[m.record] = p)
          /\ (m.kind = "reindex" => m.platform = p)
      BY <1>2, <2>1 DEF FactsStep, OfMessage
    <2>3. Promises(m, p)' /\ job'.m \in InFlight'
      BY <2>2 DEF Promises, InFlight
    <2>4. QED
      BY <2>1, <2>3 DEF Promised
  <1>3. ASSUME NEW p \in Platforms, p # PlatformOf[job.rec] PROVE Promised(p) => Promised(p)'
    BY <1>1, <1>3, PromiseKept DEF FactsStep
  <1>4. QED
    BY <1>1, <1>2, <1>3

-----------------------------------------------------------------------------
(* The steps.  LinkRest is LinkInv but HeldRecords, which HeldStep keeps.   *)

LinkRest == RelinkSteps /\ LinkedLast /\ LinkCovered

LEMMA LinkFeed ==
  ASSUME Coverage, LinkInv, Feed, \A p : ReleasesOf(p) \subseteq ReleasesOf(p)'
  PROVE  LinkRest'
  <1>1. FedOnly
    BY FeedFeeds DEF Coverage
  <1>2. FlightKept /\ job' = job
    BY <1>1 DEF FedOnly, FlightKept, InFlight
  <1>3. Passes
    BY <1>1, <1>2, PromiseKept DEF Passes, FedOnly
  <1>4. LeavesLink
    BY DEF LeavesLink, Feed, WriteRecord, QueueRecord, UnitFails, SyncDevices, QueueRederive,
       PurgeDevices, CheckFails, PublishManifest, AskRederive, AskReindex, AskRecord, Ask
  <1>5. LinkCovered'
    BY <1>2, <1>3, <1>4, LinkLeft DEF LinkInv
  <1>6. QED
    BY <1>2, <1>4, <1>5, LinkViewSame DEF LinkInv, LinkRest, RelinkSteps, LinkedLast, LeavesLink

LEMMA LinkTake ==
  ASSUME Coverage, LinkInv, TakeMessage, \A p : ReleasesOf(p) \subseteq ReleasesOf(p)'
  PROVE  LinkRest'
  <1>1. TookOne
    BY TakesOne
  <1>2. job.m = None /\ ~job.relink
    BY <1>1, NoJob DEF Coverage, LinkInv, RelinkSteps, TookOne
  <1>3. FlightKept
    BY <1>1, <1>2 DEF FlightKept, InFlight, TookOne
  <1>4. Passes /\ LeavesLink
    BY <1>1, <1>3, PromiseKept DEF Passes, LeavesLink, TookOne, factVars
  <1>5. LinkCovered'
    BY <1>2, <1>4, LinkLeft DEF LinkInv
  <1>6. ~job'.relink /\ (job'.m.kind = "derive" => job'.at \notin {"send", "purge"})
    <2>1. ASSUME NEW m, TakeFacts(m.record) \/ TakeRoutes(m.manifest) PROVE ~job'.relink /\ job'.at \notin {"send", "purge"}
      BY <2>1 DEF TakeFacts, TakeRoutes, Take, Idle
    <2>2. ASSUME NEW m, TakeSettle(m.platform, m.facts) PROVE ~job'.relink /\ job'.m.kind # "derive"
      BY <2>2 DEF TakeSettle, Take, Idle, Settle
    <2>3. ASSUME NEW m, TakeRederive(m.platform) PROVE ~job'.relink /\ job'.m.kind # "derive"
      BY <2>3 DEF TakeRederive, Take, Idle, Rederive
    <2>4. ASSUME NEW m, TakeReindex(m.platform, m.after) PROVE ~job'.relink /\ job'.m.kind # "derive"
      <3>1. CASE job' = [Idle EXCEPT !.at = "send", !.m = Reindex(m.platform, m.after),
                                     !.next = Rederive(m.platform)]
        BY <3>1 DEF Idle, Reindex
      <3>2. ASSUME NEW r, job' = [Idle EXCEPT !.at = "countHeld", !.m = Reindex(m.platform, m.after), !.rec = r]
            PROVE  ~job'.relink /\ job'.m.kind # "derive"
        BY <3>2 DEF Idle, Reindex
      <3>3. QED
        BY <2>4, <3>1, <3>2 DEF TakeReindex, Take
    <2>5. ASSUME NEW m, TakeDerive(m) PROVE ~job'.relink /\ job'.at \notin {"send", "purge"}
      BY <2>5 DEF TakeDerive, Take, Idle
    <2>6. QED
      BY <2>1, <2>2, <2>3, <2>4, <2>5 DEF TakeMessage
  <1>7. QED
    BY <1>5, <1>6 DEF LinkRest, RelinkSteps, LinkedLast

LEMMA LinkFacts ==
  ASSUME Coverage, LinkInv, WriteFacts, \A p : ReleasesOf(p) \subseteq ReleasesOf(p)'
  PROVE  LinkRest'
  <1>a. TypeOK /\ JobShape /\ job \in Job
    BY DEF Coverage, TypeOK
  <1>1. FactsStep /\ job'.m = job.m /\ job'.m.kind # "derive"
    BY WriteFactsStep DEF FactsStep, OfMessage
  <1>2. Passes
    BY <1>1, FactsPromises DEF Passes
  <1>3. ~job.relink
    BY DEF LinkInv, RelinkSteps, WriteFacts, CountHeld, PutSomeProfiles, PutProfiles, SyncCopies,
           PutRow, RoutePixels, Count
  <1>4. CASE RoutePixels /\ job'.relink
    BY <1>1, <1>4, <1>a DEF LinkRest, LinkCovered, RelinkSteps, LinkedLast, RoutePixels, Job
  <1>5. CASE LeavesLink /\ ~job'.relink
    BY <1>1, <1>2, <1>3, <1>5, LinkLeft DEF LinkInv, LinkRest, RelinkSteps, LinkedLast
  <1>6. CASE RoutePixels /\ ~job'.relink
    <2>1. UNCHANGED <<derivedVars, routeVars, linked, lostLink>>
      BY <1>6, <1>a DEF RoutePixels, Job, routeVars, derivedVars
    <2>2. QED
      BY <2>1, <1>5, <1>6 DEF LeavesLink
  <1>7. CASE CountHeld \/ PutSomeProfiles \/ PutProfiles \/ SyncCopies \/ PutRow \/ Count
    <2>1. ~job'.relink
      <3>1. CASE CountHeld \/ Count
        BY <3>1, <1>3, <1>a DEF CountHeld, Count, Job
      <3>2. CASE PutSomeProfiles \/ PutProfiles
        BY <3>2, <1>3, <1>a DEF PutSomeProfiles, PutProfiles, Job
      <3>3. CASE SyncCopies
        BY <3>3, <1>3, <1>a DEF SyncCopies, Job
      <3>4. CASE PutRow
        BY <3>4, <1>3, <1>a DEF PutRow, Job
      <3>5. QED
        BY <3>1, <3>2, <3>3, <3>4, <1>7
    <2>2. LeavesLink
      <3>1. CASE CountHeld \/ Count
        BY <3>1 DEF LeavesLink, CountHeld, Count
      <3>2. CASE PutProfiles
        BY <3>2 DEF LeavesLink, PutProfiles
      <3>3. CASE SyncCopies
        BY <3>3 DEF LeavesLink, SyncCopies
      <3>4. CASE PutRow
        BY <3>4 DEF LeavesLink, PutRow
      <3>5. CASE PutSomeProfiles
        BY <3>5 DEF LeavesLink, PutSomeProfiles
      <3>6. QED
        BY <3>1, <3>2, <3>3, <3>4, <3>5, <1>7
    <2>3. QED
      BY <2>1, <2>2, <1>5
  <1>8. QED
    BY <1>4, <1>6, <1>7 DEF WriteFacts

LEMMA LinkRoutes ==
  ASSUME Coverage, LinkInv, SyncRoutes, \A p : ReleasesOf(p) \subseteq ReleasesOf(p)'
  PROVE  LinkRest'
  <1>a. job \in Job
    BY DEF Coverage, TypeOK
  <1>1. job.m.kind = "routes" /\ job'.m = job.m /\ ~job.relink
    BY <1>a DEF SyncRoutes, Job, LinkInv, RelinkSteps
  <1>2. Passes
    BY RoutesKept, PromiseKept DEF Passes, KeptStep, FlightKept, InFlight
  <1>3. CASE job'.relink
    BY <1>1, <1>3, <1>a DEF LinkRest, LinkCovered, RelinkSteps, LinkedLast, SyncRoutes, Job
  <1>4. CASE ~job'.relink
    <2>1. UNCHANGED <<derivedVars, routeVars, linked, lostLink>>
      BY <1>4, <1>a DEF SyncRoutes, Job, routeVars, derivedVars
    <2>2. LinkCovered'
      BY <2>1, <1>1, <1>2, LinkLeft DEF LeavesLink, LinkInv
    <2>3. QED
      BY <2>2, <1>1, <1>4 DEF LinkRest, RelinkSteps, LinkedLast
  <1>5. QED
    BY <1>3, <1>4

(* A derive job's steps leave every message in flight, and every promise.   *)
LEMMA DeriveLeaves ==
  ASSUME Coverage, DeriveStep \/ Send
  PROVE  FlightKept /\ \A p \in Platforms : Promised(p) => Promised(p)'
  <1>a. job \in Job
    BY DEF Coverage, TypeOK
  <1>1. job'.m = job.m
    <2>1. ASSUME NEW s \in Sources, DeriveSource(s) PROVE job'.m = job.m
      BY <1>a, <2>1 DEF DeriveSource, Job
    <2>2. ASSUME NEW r \in Releases, DeriveChanges(r) PROVE job'.m = job.m
      BY <1>a, <2>2 DEF DeriveChanges, Job
    <2>3. CASE EndDerive \/ Send
      BY <1>a, <2>3 DEF EndDerive, Send, Job
    <2>4. QED
      BY <2>1, <2>2, <2>3 DEF DeriveStep
  <1>2. queue \subseteq queue' /\ UNCHANGED <<dead, counted>>
    BY DEF DeriveStep, DeriveSource, DeriveChanges, EndDerive, Send, consumerOnly, factVars
  <1>3. FlightKept
    BY <1>1, <1>2 DEF FlightKept, InFlight
  <1>4. QED
    BY <1>2, <1>3, PromiseKept

LEMMA LinkDerive ==
  ASSUME Coverage, LinkInv, DeriveStep \/ Send, \A p : ReleasesOf(p) \subseteq ReleasesOf(p)'
  PROVE  LinkRest'
  <1>a. TypeOK /\ JobShape /\ job \in Job
    BY DEF Coverage, TypeOK
  <1>1. Passes
    BY DeriveLeaves DEF Passes
  <1>2. ASSUME NEW s \in Sources, DeriveSource(s) PROVE LinkRest'
    <2>1. /\ derived' = [derived EXCEPT ![s] = View(s, job.seen)] /\ job'.at \in {"derive", "changes"}
          /\ job'.relink = (job.relink \/ derived[s].head # View(s, job.seen).head)
          /\ UNCHANGED <<routeVars, linked, lostLink>>
      BY <1>2, <1>a DEF DeriveSource, Job
    <2>2. CASE derived[s].head # View(s, job.seen).head
      BY <2>1, <2>2 DEF LinkRest, RelinkSteps, LinkedLast, LinkCovered
    <2>3. CASE derived[s].head = View(s, job.seen).head
      <3>1. \A t \in Sources : derived'[t].head = derived[t].head
        BY <2>1, <2>3, <1>a DEF TypeOK
      <3>2. LinkView' = LinkView
        BY <3>1, <2>1 DEF LinkView, routeVars
      <3>3. LinkCovered'
        <4>1. LinkCovered <=> (linked # LinkView => job.relink \/ lostLink \/ LinkToCome)
          BY DEF LinkCovered, LinkToCome
        <4>2. LinkCovered' <=> (linked' # LinkView' => job'.relink \/ lostLink' \/ LinkToCome')
          BY DEF LinkCovered, LinkToCome
        <4>3. QED
          BY <4>1, <4>2, <3>2, <2>1, <1>1, ToComeKept DEF LinkInv
      <3>4. QED
        BY <3>3, <2>1 DEF LinkRest, RelinkSteps, LinkedLast
    <2>4. QED
      BY <2>2, <2>3
  <1>3. ASSUME NEW r \in Releases, DeriveChanges(r) PROVE LinkRest'
    <2>1. /\ job'.at = "changes" /\ job'.relink = job.relink
          /\ UNCHANGED <<derived, routeVars, linked, lostLink>>
      BY <1>3, <1>a DEF DeriveChanges, Job
    <2>2. LinkView' = LinkView
      BY <2>1 DEF LinkView, routeVars
    <2>3. LinkCovered'
      <3>1. LinkCovered <=> (linked # LinkView => job.relink \/ lostLink \/ LinkToCome)
        BY DEF LinkCovered, LinkToCome
      <3>2. LinkCovered' <=> (linked' # LinkView' => job'.relink \/ lostLink' \/ LinkToCome')
        BY DEF LinkCovered, LinkToCome
      <3>3. QED
        BY <3>1, <3>2, <2>1, <2>2, <1>1, ToComeKept DEF LinkInv
    <2>4. QED
      BY <2>1, <2>3 DEF LinkRest, RelinkSteps, LinkedLast
  <1>4. CASE EndDerive \/ Send
    <2>1. /\ job'.relink = job.relink /\ job'.m = job.m /\ job'.rest = job.rest /\ job'.later = job.later
          /\ LeavesLink
          /\ \/ job.at = "changes" /\ job'.at = IF job.relink \/ (Last /\ job.m.changes # {}) THEN "link" ELSE "send"
             \/ job.at = "send" /\ job'.at = "purge"
      <3>1. LeavesLink
        BY <1>4 DEF EndDerive, Send, LeavesLink
      <3>2. CASE EndDerive
        BY <3>1, <3>2, <1>a DEF EndDerive, Job
      <3>3. CASE Send
        BY <3>1, <3>3, <1>a DEF Send, Job
      <3>4. QED
        BY <3>2, <3>3, <1>4
    <2>2. LinkCovered'
      BY <2>1, <1>1, LinkLeft DEF LinkInv
    <2>3. LinkView' = LinkView /\ linked' = linked
      BY <2>1, LinkViewSame DEF LeavesLink
    <2>4. RelinkSteps'
      BY <2>1 DEF LinkInv, RelinkSteps
    <2>5. LinkedLast'
      BY <2>1, <2>3 DEF LinkInv, LinkedLast, Last
    <2>6. QED
      BY <2>2, <2>4, <2>5 DEF LinkRest
  <1>5. QED
    BY <1>2, <1>3, <1>4 DEF DeriveStep

LEMMA LinkLink ==
  ASSUME Coverage, LinkInv, Link
  PROVE  LinkRest'
  <1>1. ~job'.relink
    BY DEF Link, Coverage, TypeOK, Job
  <1>2. linked' = LinkView'
    BY LinkViewSame DEF Link
  <1>3. QED
    BY <1>1, <1>2 DEF LinkRest, RelinkSteps, LinkedLast, LinkCovered

(* An attempt that ends with its link owed: lostLink, or its message is of  *)
(* a platform with a release, or derives one, and stays in flight.          *)
LEMMA LinkRetried ==
  ASSUME Coverage, RecordsInv, LinkInv, Fail \/ ThrowRetried \/ ThrowDead
  PROVE  LinkRest'
  <1>a. TypeOK /\ JobShape
    BY DEF Coverage
  <1>1. EndedRecords /\ (job.m \in queue' \/ job.m \in dead')
    BY EndsRecords
  <1>2. /\ UNCHANGED <<derivedVars, routeVars, linked>>
        /\ lostLink' = (lostLink \/ ForgetsLink)
    BY DEF Fail, ThrowRetried, ThrowDead, Throws, EndAttempt
  <1>3. FlightKept /\ job.m \in InFlight'
    BY <1>1 DEF EndedRecords, Ended, FlightKept, InFlight
  <1>4. Passes
    BY <1>1, <1>3, FactsSame, PromiseKept DEF Passes, EndedRecords, Ended
  <1>5. ~job'.relink /\ job'.m.kind # "derive"
    BY <1>1 DEF EndedRecords, Ended, Idle, None
  <1>6. CASE ~job.relink
    BY <1>2, <1>4, <1>6, LinkLeft, <1>5 DEF LeavesLink, LinkInv, LinkRest, RelinkSteps, LinkedLast
  <1>7. ASSUME job.relink PROVE lostLink' \/ LinkToCome'
    <2>1. job.m.kind \in {"facts", "reindex", "routes", "derive"}
      BY <1>7, <1>a DEF LinkInv, RelinkSteps, JobShape
    <2>2. CASE job.m.kind = "routes"
      BY <2>2, <1>2, <1>7 DEF ForgetsLink
    <2>3. CASE job.m.kind = "derive"
      BY <2>3, <1>2, <1>3, <1>7 DEF ForgetsLink, LinkToCome
    <2>4. CASE job.m.kind \in {"facts", "reindex"}
      <3>1. job.at = "link" /\ OfMessage(job.m, job.rec)
        BY <1>7, <1>a, <2>4 DEF LinkInv, RelinkSteps, JobShape
      <3>2. OfRecord /\ job.rec \in Releases
        BY <1>a, <2>4, <3>1, WritesOfRecord DEF LinkInv, HeldRecords
      <3>3. job.ver > 0 /\ rows[job.rec] = job.ver
        BY <3>1, <3>2 DEF RecordsInv, JobVersions, PastRows, LinkInv, HeldRecords
      <3>4. PICK p \in Platforms : p = PlatformOf[job.rec]
        BY <3>1, RecordsAssumption DEF OfMessage
      <3>5. ReleasesOf(p) # {}
        BY <3>2, <3>3, <3>4 DEF ReleasesOf
      <3>6. Promised(p)
        BY <3>1, <3>4 DEF Promised, Promises, InFlight, OfMessage
      <3>7. QED
        BY <3>5, <3>6, <1>4, ToComeKept DEF LinkToCome
    <2>5. QED
      BY <2>1, <2>2, <2>3, <2>4
  <1>8. CASE job.relink
    BY <1>5, <1>7, <1>8 DEF LinkRest, RelinkSteps, LinkedLast, LinkCovered, LinkToCome
  <1>9. QED
    BY <1>6, <1>8

(* An acknowledged message owes no link: what it promised its next message  *)
(* does, and a derive chain with a release links by its last.               *)
LEMMA LinkEnd ==
  ASSUME Coverage, LinkInv, Ack \/ AckLost
  PROVE  LinkRest'
  <1>a. TypeOK /\ JobShape /\ Handed
    BY DEF Coverage
  <1>1. EndedRecords /\ Ended /\ job.at = "purge"
    BY EndsRecords DEF EndedRecords
  <1>2. UNCHANGED <<derivedVars, routeVars, linked, lostLink>>
    BY DEF Ack, AckLost, Finish
  <1>3. ~job.relink /\ ~job'.relink /\ job'.m.kind # "derive"
    BY <1>1 DEF Ended, Idle, None, LinkInv, RelinkSteps
  <1>4. LinkView' = LinkView /\ linked' = linked
    BY <1>2, LinkViewSame
  <1>5. \A x \in queue \cup dead : x \in InFlight'
    BY <1>1 DEF Ended, InFlight
  <1>6. \A p \in Platforms : ReleasesOf(p)' = ReleasesOf(p)
    BY <1>1, FactsSame DEF Ended
  <1>7. ASSUME linked # LinkView, LinkToCome PROVE LinkToCome'
    <2>1. ASSUME NEW m \in InFlight, m.kind = "derive", m.changes # {} PROVE LinkToCome'
      <3>1. CASE m \in queue \cup dead
        BY <3>1, <2>1, <1>5 DEF LinkToCome
      <3>2. CASE m = job.m
        <4>1. job.rest # {} \/ job.later # {}
          BY <3>2, <2>1, <1>1, <1>7 DEF LinkInv, LinkedLast
        <4>2. job.next = RestOf(job)
          BY <3>2, <2>1, <1>1, <1>a DEF Handed
        <4>3. job.next.kind = "derive" /\ job.next.changes # {} /\ job.next # None
          BY <4>1, <4>2, <3>2, <2>1 DEF RestOf, Derive, None
        <4>4. job.next \in queue
          BY <4>3, <1>1, <1>a DEF Handed
        <4>5. QED
          BY <4>3, <4>4, <1>5 DEF LinkToCome
      <3>3. QED
        BY <3>1, <3>2 DEF InFlight
    <2>2. ASSUME NEW p \in Platforms, Promised(p), ReleasesOf(p) # {} PROVE LinkToCome'
      <3>1. CASE Promised(p)'
        BY <3>1, <2>2, <1>6 DEF LinkToCome
      <3>2. CASE Derive(p, SourcesOf(p), ReleasesOf(p)) \in queue
        <4>1. Derive(p, SourcesOf(p), ReleasesOf(p)) \in InFlight'
          BY <3>2, <1>5
        <4>2. QED
          BY <4>1, <2>2 DEF LinkToCome, Derive
      <3>3. QED
        BY <3>1, <3>2, <1>1, <2>2, PromiseHandedOn
    <2>3. QED
      BY <1>7, <2>1, <2>2 DEF LinkToCome
  <1>8. LinkCovered'
    BY <1>2, <1>3, <1>4, <1>7 DEF LinkInv, LinkCovered, LinkToCome
  <1>9. QED
    BY <1>3, <1>8 DEF LinkRest, RelinkSteps, LinkedLast

-----------------------------------------------------------------------------
LEMMA LinkInit == Init => LinkInv
  <1> SUFFICES ASSUME Init PROVE LinkInv
    OBVIOUS
  <1>1. /\ job = Idle /\ linked = LinkView /\ queue = {} /\ dead = {}
        /\ \A r \in Records : unit[r] = "idle"
    BY DEF Init
  <1>2. QED
    BY <1>1 DEF LinkInv, RelinkSteps, HeldRecords, LinkedLast, LinkCovered, Idle, None, OfRecord, Queued

LEMMA LinkStep == Coverage /\ RecordsInv /\ LinkInv /\ [Next]_vars /\ Coverage' => LinkInv'
  <1> SUFFICES ASSUME Coverage, RecordsInv, LinkInv, [Next]_vars, Coverage' PROVE LinkInv'
    OBVIOUS
  <1>1. \A p : ReleasesOf(p) \subseteq ReleasesOf(p)'
    BY ReleasesGrow
  <1>2. HeldRecords'
    BY HeldStep DEF LinkInv
  <1>3. LinkRest'
    <2>1. CASE Feed
      BY <2>1, <1>1, LinkFeed
    <2>2. CASE TakeMessage
      BY <2>2, <1>1, LinkTake
    <2>3. CASE WriteFacts
      BY <2>3, <1>1, LinkFacts
    <2>4. CASE SyncRoutes
      BY <2>4, <1>1, LinkRoutes
    <2>5. CASE DeriveStep \/ Send
      BY <2>5, <1>1, LinkDerive
    <2>6. CASE Link
      BY <2>6, LinkLink
    <2>7. CASE Ack \/ AckLost
      BY <2>7, LinkEnd
    <2>8. CASE Fail \/ ThrowRetried \/ ThrowDead
      BY <2>8, LinkRetried
    <2>9. CASE UNCHANGED vars
      <3>1. Passes /\ LeavesLink /\ job' = job
        BY <2>9, FactsSame DEF vars, Passes, LeavesLink, FlightKept, InFlight, Promised, Promises,
           factVars, derivedVars, routeVars
      <3>2. LinkCovered'
        BY <3>1, LinkLeft DEF LinkInv
      <3>3. QED
        BY <3>1, <3>2, LinkViewSame DEF LinkInv, LinkRest, RelinkSteps, LinkedLast, LeavesLink
    <2>10. QED
      BY <2>1, <2>2, <2>3, <2>4, <2>5, <2>6, <2>7, <2>8, <2>9 DEF Next, Consume
  <1>4. QED
    BY <1>2, <1>3 DEF LinkInv, LinkRest

(* LinkInv: LinkCovered, with what an attempt that fails before its link    *)
(* leaves to cover it: the record of a message in flight is one the bucket  *)
(* holds, so its platform has a release and a chain that links.             *)
THEOREM LinkInvariant == Spec => []LinkInv
  <1>1. Init => LinkInv
    BY LinkInit
  <1>2. Coverage /\ RecordsInv /\ LinkInv /\ [Next]_vars /\ Coverage' => LinkInv'
    BY LinkStep
  <1>3. QED
    BY <1>1, <1>2, CoverageInvariant, RecordsInvariant, PTL DEF Spec

(* LinkCovered: carriers that differ from what linking makes of the head    *)
(* identities and the routes have a link to come, this attempt's or a       *)
(* derive chain's, unless a routes message or a chain with no release       *)
(* failed between its write and its link (indexDerive, indexRoutes).        *)
THEOREM LinksAlwaysCovered == Spec => []LinkCovered
  <1>1. LinkInv => LinkCovered
    BY DEF LinkInv
  <1>2. QED
    BY <1>1, LinkInvariant, PTL

=============================================================================
