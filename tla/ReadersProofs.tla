----------------------------- MODULE ReadersProofs -----------------------------
(***************************************************************************)
(* No page outlives its rows at the edge: EdgeCurrent of Readers, for every *)
(* number of requests, writes and tries of a purge, every grain of time and *)
(* every lag and render that PURGE_DELAY leaves room for.                   *)
(***************************************************************************)
EXTENDS Readers, TLAPS

Message == [tries : 0 .. MaxTries - 1, wait : 0 .. PURGE_DELAY]

Progress == [at : {"idle", "asked", "open", "read"}, of : Readers,
             bookmark : Versions, shows : Versions, age : 0 .. MaxRender]

Types ==
  /\ index \in Versions /\ age \in [Versions -> 0 .. MaxLag] /\ unpurged \in BOOLEAN
  /\ lost \in BOOLEAN
  /\ queue \subseteq Message /\ dead \in BOOLEAN
  /\ batch \in [messages : SUBSET Message, todo : SUBSET Readers, refused : BOOLEAN]
  /\ latest \in [bookmark : Versions, age : 0 .. BOOKMARK]
  /\ derived \in [Versions -> Versions \cup {None}]
  /\ edge \in [Readers -> Versions \cup {None}]
  /\ request \in [Requests -> Progress]

(* A purge is yet to be queued, or at least d ticks away, or one was lost.  *)
Covered(d) == unpurged \/ lost \/ \E m \in queue : m.wait >= d

(* How far its purge is when a replica last shows a stale index, and when a *)
(* request opens at another's bookmark for the last time.                   *)
Unseen == IF MaxLag = 0 THEN PURGE_DELAY ELSE PURGE_DELAY - MaxLag + 1
Unused == Unseen - MaxRender - BOOKMARK + 1

(* Bookmarks and values are of writes made, and a value is no older than the *)
(* bookmark it is kept under.                                               *)
Made ==
  /\ latest.bookmark <= index
  /\ \A q \in Requests : request[q].bookmark <= index
  /\ \A b \in Versions : derived[b] # None => b <= derived[b] /\ derived[b] <= index

(* While a replica may lag the last write, its purge has all but that lag to *)
(* wait.                                                                    *)
LagCovered == index > 0 /\ age[index] < MaxLag => Covered(PURGE_DELAY - age[index])

LatestCovered ==
  latest.age < BOOKMARK /\ latest.bookmark # index => Covered(Unseen - MaxRender - latest.age)

RequestCovered(q) ==
  LET r == request[q] IN
  /\ r.at = "asked" /\ r.bookmark # index => Covered(Unseen - r.age)
  /\ r.at = "open" /\ r.bookmark # index => Covered(Unused - r.age)
  /\ r.at = "read" /\ r.shows # index => Covered(Unused - r.age)

(* A stale answer has a purge to come for its own reader, or one was lost.  *)
EdgeOwed(x) ==
  edge[x] \in {None, index} \/ unpurged \/ lost \/ queue # {} \/ x \in batch.todo \/ batch.refused \/ dead

Inv ==
  /\ Types /\ Made /\ (batch = NoBatch \/ batch.messages # {})
  /\ LagCovered /\ LatestCovered
  /\ \A q \in Requests : RequestCovered(q)
  /\ \A x \in Readers : EdgeOwed(x)

-----------------------------------------------------------------------------
(* What the window leaves, and which purges stay.                           *)

LEMMA Window ==
  /\ MaxLag \in Nat /\ MaxRender \in Nat \ {0} /\ MaxTries \in Nat \ {0} /\ MaxWrites \in Nat
  /\ BOOKMARK \in Nat \ {0} /\ PURGE_DELAY \in Nat \ {0} /\ RETRY_DELAY = PURGE_DELAY
  /\ Unseen \in Nat /\ Unseen <= PURGE_DELAY /\ Unused \in Nat /\ Unused <= Unseen
  /\ PURGE_DELAY - MaxLag + 1 >= Unseen \/ MaxLag = 0
  /\ Unused - MaxRender >= 1
  BY InWindow DEF BOOKMARK, PURGE_DELAY, RETRY_DELAY, Unseen, Unused

LEMMA MinMax ==
  ASSUME NEW i \in Int, NEW j \in Int
  PROVE  /\ Min({i, j}) = IF i <= j THEN i ELSE j
         /\ Max({i, j}) = IF i <= j THEN j ELSE i
<1>1. ASSUME NEW k, k \in {i, j}, \A y \in {i, j} : k <= y PROVE k = IF i <= j THEN i ELSE j
  BY <1>1
<1>2. ASSUME NEW k, k \in {i, j}, \A y \in {i, j} : k >= y PROVE k = IF i <= j THEN j ELSE i
  BY <1>2
<1>3. \E k \in {i, j} : \A y \in {i, j} : k <= y
  OBVIOUS
<1>4. \E k \in {i, j} : \A y \in {i, j} : k >= y
  OBVIOUS
<1>5. Min({i, j}) \in {i, j} /\ \A y \in {i, j} : Min({i, j}) <= y
  BY <1>3 DEF Min
<1>6. Max({i, j}) \in {i, j} /\ \A y \in {i, j} : Max({i, j}) >= y
  BY <1>4 DEF Max
<1> QED BY <1>1, <1>2, <1>5, <1>6

(* A purge that is not due stays until it is; a write owes another.         *)
LEMMA CoverKept ==
  ASSUME Types, NEW d \in 1 .. PURGE_DELAY, Covered(d),
         \/ UNCHANGED <<unpurged, lost, queue>> \/ unpurged'
         \/ QueuePurge \/ LosePurge \/ TakeBatch \/ EndBatch
  PROVE  Covered(d)'
<1>1. CASE UNCHANGED <<unpurged, lost, queue>> \/ unpurged' \/ LosePurge
  BY <1>1 DEF Covered, LosePurge
<1>2. CASE QueuePurge
  <2>1. [tries |-> 0, wait |-> PURGE_DELAY] \in queue'
    BY <1>2 DEF QueuePurge, SendPurge
  <2> QED BY <2>1, Window DEF Covered
<1>3. CASE TakeBatch
  <2>1. unpurged' = unpurged /\ lost' = lost /\ queue' = queue \ {m \in queue : m.wait = 0}
    BY <1>3 DEF TakeBatch
  <2> QED BY <2>1 DEF Covered, Types
<1>4. CASE EndBatch
  <2>1. unpurged' = unpurged /\ lost' = lost /\ queue \subseteq queue'
    BY <1>4 DEF EndBatch
  <2> QED BY <2>1 DEF Covered
<1> QED BY <1>1, <1>2, <1>3, <1>4

LEMMA CoverTicks ==
  ASSUME Types, NEW d \in Nat \ {0}, Covered(d), Tick
  PROVE  Covered(d - 1)'
<1>1. CASE unpurged \/ lost
  BY <1>1 DEF Covered, Tick
<1>2. ASSUME NEW m \in queue, m.wait >= d PROVE Covered(d - 1)'
  <2>1. m.wait \in Nat
    BY <1>2, Window DEF Types, Message
  <2>2. Max({0, m.wait - 1}) = m.wait - 1
    <3>1. m.wait - 1 \in Int /\ 0 <= m.wait - 1 /\ 0 \in Int
      BY <2>1, <1>2
    <3> QED BY <3>1, MinMax
  <2>3. PICK n \in queue' : n = [m EXCEPT !.wait = Max({0, m.wait - 1})]
    BY <1>2 DEF Tick
  <2>4. n.wait = m.wait - 1
    BY <1>2, <2>2, <2>3 DEF Types, Message
  <2>5. n.wait >= d - 1
    BY <2>1, <2>4, <1>2
  <2> QED BY <2>5 DEF Covered
<1> QED BY <1>1, <1>2 DEF Covered

(* What a query sees is a write made, no older than its bookmark; and when  *)
(* it is not the last, the last one's purge is far.                         *)
LEMMA SeenCovered ==
  ASSUME Types, LagCovered, NEW b \in Versions, NEW v \in Seen(b)
  PROVE  v \in Versions /\ b <= v /\ v <= index /\ (v # index => Covered(Unseen))
<1>1. /\ v \in Versions /\ v \in Int /\ index \in Int /\ b <= v /\ v <= index /\ index \in Versions
      /\ \A w \in v + 1 .. index : age[w] < MaxLag
  BY Window DEF Seen, Types, Versions
<1>2. ASSUME v # index PROVE Covered(Unseen)
  <2>1. index > 0 /\ age[index] < MaxLag
    BY <1>1, <1>2 DEF Versions
  <2>2. age[index] \in 0 .. MaxLag
    BY <1>1 DEF Types
  <2>3. Covered(PURGE_DELAY - age[index])
    BY <2>1 DEF LagCovered
  <2>4. PURGE_DELAY - age[index] \in Int /\ PURGE_DELAY - age[index] >= Unseen
    BY <2>1, <2>2, Window
  <2>5. \A m \in queue : m.wait \in Int
    BY Window DEF Types, Message
  <2> QED BY <2>3, <2>4, <2>5, Window DEF Covered
<1> QED BY <1>1, <1>2

-----------------------------------------------------------------------------
(* Types, and what is kept is of writes made.                               *)

LEMMA TypesStep == Types /\ ReadersNext => Types'
<1> SUFFICES ASSUME Types, ReadersNext PROVE Types'
  OBVIOUS
<1>w. MaxTries \in Nat \ {0} /\ PURGE_DELAY \in Nat \ {0} /\ RETRY_DELAY = PURGE_DELAY
      /\ BOOKMARK \in Nat \ {0} /\ MaxLag \in Nat /\ MaxRender \in Nat \ {0} /\ MaxWrites \in Nat
  BY Window
<1>1. CASE Write
  BY <1>1, <1>w DEF Write, Types, Versions
<1>2. CASE QueuePurge \/ LosePurge
  <2>1. [tries |-> 0, wait |-> PURGE_DELAY] \in Message
    BY <1>w DEF Message
  <2> QED BY <1>2, <2>1 DEF QueuePurge, SendPurge, LosePurge, Types
<1>3. CASE TakeBatch
  BY <1>3 DEF TakeBatch, Types
<1>4. ASSUME NEW x \in Readers, PurgeReader(x) PROVE Types'
  BY <1>4 DEF PurgeReader, Types
<1>5. ASSUME NEW x \in Readers, RefusePurge(x) PROVE Types'
  BY <1>5 DEF RefusePurge, Types
<1>6. CASE EndBatch
  <2> DEFINE Tried(m) == [m EXCEPT !.tries = @ + 1, !.wait = RETRY_DELAY]
  <2>1. batch' = NoBatch /\ NoBatch \in [messages : SUBSET Message, todo : SUBSET Readers, refused : BOOLEAN]
    BY <1>6 DEF EndBatch, NoBatch
  <2>2. ASSUME NEW m \in batch.messages, Tried(m).tries < MaxTries PROVE Tried(m) \in Message
    <3>1. m \in Message
      BY DEF Types
    <3>2. PICK t \in 0 .. MaxTries - 1, w \in 0 .. PURGE_DELAY : m = [tries |-> t, wait |-> w]
      BY <3>1 DEF Message
    <3>3. Tried(m) = [tries |-> t + 1, wait |-> PURGE_DELAY]
      <4>1. PICK r : r = [m EXCEPT !.tries = @ + 1]
        OBVIOUS
      <4>2. r = [tries |-> t + 1, wait |-> w]
        BY <3>2, <4>1
      <4>3. Tried(m) = [r EXCEPT !.wait = PURGE_DELAY]
        BY <4>1, <1>w
      <4> QED BY <4>2, <4>3
    <3>4. t + 1 < MaxTries
      BY <2>2, <3>3
    <3> QED BY <3>2, <3>3, <3>4, <1>w DEF Message
  <2>3. \A m \in queue' \ queue :
          \E n \in batch.messages : m = Tried(n) /\ m.tries < MaxTries
    BY <1>6 DEF EndBatch
  <2>. HIDE DEF Tried
  <2>4. queue' \subseteq Message
    BY <2>2, <2>3 DEF Types
  <2>5. dead' \in BOOLEAN
    BY <1>6 DEF EndBatch, Types
  <2> QED BY <1>6, <2>1, <2>4, <2>5 DEF EndBatch, Types
<1>7. ASSUME NEW q \in Requests, OpenKnown(q) PROVE Types'
  BY <1>7, <1>w DEF OpenKnown, Ask, IdleRequest, Readers, Types, Progress
<1>8. ASSUME NEW q \in Requests, OpenAsk(q) PROVE Types'
  <2>1. PICK v \in Seen(latest.bookmark) : request' = [request EXCEPT ![q] = [IdleRequest EXCEPT !.at = "asked", !.bookmark = v]]
    BY <1>8 DEF OpenAsk, Ask
  <2>2. v \in Versions
    BY <1>w DEF Seen, Types, Versions
  <2> QED BY <1>8, <2>1, <2>2, <1>w DEF OpenAsk, IdleRequest, Readers, Types, Progress, Versions
<1>9. ASSUME NEW q \in Requests, ReadApi(q) PROVE Types'
  <2>1. PICK v \in Seen(0) : request' = [request EXCEPT ![q] = [IdleRequest EXCEPT !.at = "read", !.of = "api", !.shows = v]]
    BY <1>9 DEF ReadApi, Ask
  <2>2. v \in Versions
    BY <1>w DEF Seen, Types, Versions
  <2> QED BY <1>9, <2>1, <2>2, <1>w DEF ReadApi, IdleRequest, Readers, Types, Progress, Versions
<1>10. ASSUME NEW q \in Requests, OpenSet(q) PROVE Types'
  BY <1>10, <1>w DEF OpenSet, Ask, Types, Progress
<1>11. ASSUME NEW q \in Requests, ReadSite(q) PROVE Types'
  <2> DEFINE b == request[q].bookmark
  <2>1. PICK v \in IF derived[b] # None THEN {derived[b]} ELSE Session(q) :
          /\ derived' = [derived EXCEPT ![b] = v]
          /\ request' = [request EXCEPT ![q] = [request[q] EXCEPT !.at = "read", !.shows = v]]
    BY <1>11 DEF ReadSite, Ask
  <2>2. b \in Versions /\ v \in Versions
    <3>1. b \in Versions /\ derived[b] \in Versions \cup {None}
      BY DEF Types, Progress
    <3>2. Session(q) \subseteq Versions
      <4>1. Session(q) \subseteq b .. index
        BY DEF Seen, Session
      <4>2. b .. index \subseteq 0 .. MaxWrites
        <5>1. b \in 0 .. MaxWrites /\ index \in 0 .. MaxWrites
          BY <3>1 DEF Types, Versions
        <5>. HIDE DEF b
        <5> QED BY <5>1, <1>w
      <4> QED BY <4>1, <4>2 DEF Versions
    <3> QED BY <2>1, <3>1, <3>2
  <2>3. derived' \in [Versions -> Versions \cup {None}]
    BY <2>1, <2>2 DEF Types
  <2>4. request' \in [Requests -> Progress]
    <3>1. PICK r : r = [request[q] EXCEPT !.at = "read", !.shows = v]
      OBVIOUS
    <3>2. r \in Progress
      <4>1. PICK s : s = [request[q] EXCEPT !.at = "read"]
        OBVIOUS
      <4>2. s \in Progress
        BY <4>1 DEF Types, Progress
      <4>3. r = [s EXCEPT !.shows = v]
        BY <3>1, <4>1
      <4> QED BY <2>2, <4>2, <4>3 DEF Progress
    <3> QED BY <2>1, <3>1, <3>2 DEF Types
  <2> QED BY <1>11, <2>3, <2>4 DEF ReadSite, Types
<1>12. ASSUME NEW q \in Requests, StoreAnswer(q) PROVE Types'
  <2>1. request[q].of \in Readers /\ request[q].shows \in Versions /\ IdleRequest \in Progress
    BY <1>w DEF Types, Progress, IdleRequest, Readers, Versions
  <2>2. edge' \in [Readers -> Versions \cup {None}]
    BY <1>12, <2>1 DEF StoreAnswer, Types
  <2>3. request' \in [Requests -> Progress]
    BY <1>12, <2>1 DEF StoreAnswer, Ask, Types
  <2> QED BY <1>12, <2>2, <2>3 DEF StoreAnswer, Types
<1>13. ASSUME NEW x \in Readers, Expire(x) PROVE Types'
  BY <1>13 DEF Expire, Types
<1>14. CASE Tick
  <2>1. age' \in [Versions -> 0 .. MaxLag]
    <3>1. ASSUME NEW v \in Versions PROVE Min({MaxLag, age[v] + 1}) \in 0 .. MaxLag
      <4>1. age[v] \in 0 .. MaxLag /\ age[v] + 1 \in Int /\ MaxLag \in Int
        BY <1>w DEF Types
      <4> QED BY <4>1, <1>w, MinMax
    <3> QED BY <1>14, <3>1, <1>w DEF Tick
  <2>2. queue' \subseteq Message
    <3>1. ASSUME NEW m \in queue PROVE [m EXCEPT !.wait = Max({0, m.wait - 1})] \in Message
      <4>1. m \in Message /\ m.wait \in 0 .. PURGE_DELAY /\ m.wait - 1 \in Int /\ 0 \in Int
        BY <1>w DEF Types, Message
      <4>2. Max({0, m.wait - 1}) = IF 0 <= m.wait - 1 THEN m.wait - 1 ELSE 0
        BY <4>1, MinMax
      <4>3. Max({0, m.wait - 1}) \in 0 .. PURGE_DELAY
        BY <4>1, <4>2, <1>w
      <4> QED BY <4>1, <4>3 DEF Message
    <3> QED BY <1>14, <3>1 DEF Tick
  <2>3. latest' \in [bookmark : Versions, age : 0 .. BOOKMARK]
    <3>1. latest.age \in 0 .. BOOKMARK /\ latest.age + 1 \in Int /\ BOOKMARK \in Int
      BY <1>w DEF Types
    <3>2. Min({BOOKMARK, latest.age + 1}) \in 0 .. BOOKMARK
      BY <3>1, <1>w, MinMax
    <3> QED BY <1>14, <3>2 DEF Tick, Types
  <2>4. request' \in [Requests -> Progress]
    <3>1. IdleRequest \in Progress
      BY <1>w DEF Progress, IdleRequest, Readers, Versions
    <3>2. ASSUME NEW q \in Requests, request[q].at # "idle"
          PROVE  [request[q] EXCEPT !.age = @ + 1] \in Progress
      <4>1. request[q] \in Progress /\ request[q].age + 1 \in 0 .. MaxRender
        BY <1>14, <3>2, <1>w DEF Tick, Types, Progress
      <4> QED BY <4>1 DEF Progress
    <3> QED BY <1>14, <3>1, <3>2 DEF Tick
  <2> QED BY <1>14, <2>1, <2>2, <2>3, <2>4 DEF Tick, Types
<1> QED
  BY <1>1, <1>2, <1>3, <1>4, <1>5, <1>6, <1>7, <1>8, <1>9, <1>10, <1>11, <1>12, <1>13, <1>14
  DEF ReadersNext, ConsumePurge, Serve

(* Only a write makes anything stale, and only time brings a purge nearer.  *)
LEMMA Moves ==
  ASSUME ReadersNext
  PROVE  \/ Write /\ unpurged'
         \/ Tick /\ index' = index
         \/ /\ ~Tick /\ UNCHANGED <<index, age>>
            /\ UNCHANGED <<unpurged, lost, queue>> \/ QueuePurge \/ LosePurge \/ TakeBatch \/ EndBatch
<1>1. CASE Write
  BY <1>1 DEF Write
<1>2. CASE QueuePurge \/ LosePurge \/ ConsumePurge \/ \E x \in Readers : RefusePurge(x)
  BY <1>2 DEF QueuePurge, SendPurge, LosePurge, ConsumePurge, TakeBatch, PurgeReader, EndBatch, RefusePurge
<1>3. CASE (\E q \in Requests : OpenKnown(q) \/ OpenAsk(q) \/ ReadApi(q) \/ Serve(q))
           \/ \E x \in Readers : Expire(x)
  BY <1>3 DEF OpenKnown, OpenAsk, ReadApi, Serve, OpenSet, ReadSite, StoreAnswer, Expire
<1>4. CASE Tick
  BY <1>4 DEF Tick
<1> QED BY <1>1, <1>2, <1>3, <1>4 DEF ReadersNext

LEMMA CoverLess ==
  ASSUME Types, NEW d \in Int, NEW e \in Int, e <= d, Covered(d)
  PROVE  Covered(e)
<1>1. \A m \in queue : m.wait \in Int
  BY Window DEF Types, Message
<1> QED BY <1>1 DEF Covered

LEMMA MadeStep == ASSUME Types, LagCovered, Made, ReadersNext PROVE Made'
<1>t. index \in Int /\ 0 <= index /\ \A v \in Versions : v \in Int /\ 0 <= v
  BY Window DEF Types, Versions
<1>a. 0 \in Versions
  BY Window DEF Versions
<1>1. CASE Write
  <2>1. index' = index + 1 /\ UNCHANGED <<latest, derived, request>>
    BY <1>1 DEF Write
  <2>2. \A v \in Versions : v <= index => v <= index + 1
    BY <1>t
  <2>3. latest.bookmark \in Versions /\ \A q \in Requests : request[q].bookmark \in Versions
    BY DEF Types, Progress
  <2>4. \A b \in Versions : derived[b] # None => derived[b] \in Versions
    BY DEF Types
  <2> QED BY <2>1, <2>2, <2>3, <2>4 DEF Made
<1>2. CASE QueuePurge \/ LosePurge \/ ConsumePurge \/ \E x \in Readers : RefusePurge(x)
  BY <1>2 DEF QueuePurge, SendPurge, LosePurge, ConsumePurge, TakeBatch, PurgeReader, EndBatch, RefusePurge, Made
<1>3. ASSUME NEW q \in Requests, OpenKnown(q) PROVE Made'
  BY <1>3, <1>t DEF OpenKnown, Ask, Made, Types, Progress, IdleRequest
<1>4. ASSUME NEW q \in Requests, OpenAsk(q) PROVE Made'
  <2>1. PICK v \in Seen(latest.bookmark) : request' = [request EXCEPT ![q] = [IdleRequest EXCEPT !.at = "asked", !.bookmark = v]]
    BY <1>4 DEF OpenAsk, Ask
  <2>2. latest.bookmark \in Versions
    BY DEF Types
  <2>3. v <= index
    BY <2>2, SeenCovered
  <2> QED BY <1>4, <2>1, <2>3 DEF OpenAsk, Made, Types, IdleRequest
<1>5. ASSUME NEW q \in Requests, ReadApi(q) PROVE Made'
  BY <1>5, <1>t DEF ReadApi, Ask, Made, Types, IdleRequest
<1>6. ASSUME NEW q \in Requests, OpenSet(q) PROVE Made'
  BY <1>6 DEF OpenSet, Ask, Made, Types, Progress
<1>7. ASSUME NEW q \in Requests, ReadSite(q) PROVE Made'
  <2> DEFINE b == request[q].bookmark
  <2>0. b \in Versions /\ b <= index
    BY DEF Types, Progress, Made
  <2>1. PICK v \in IF derived[b] # None THEN {derived[b]} ELSE Session(q) :
          /\ derived' = [derived EXCEPT ![b] = v]
          /\ request' = [request EXCEPT ![q] = [request[q] EXCEPT !.at = "read", !.shows = v]]
    BY <1>7 DEF ReadSite, Ask
  <2>2. b <= v /\ v <= index
    <3>1. CASE derived[b] # None
      BY <2>0, <2>1, <3>1 DEF Made
    <3>2. CASE derived[b] = None
      BY <2>0, <2>1, <3>2, SeenCovered DEF Session
    <3> QED BY <3>1, <3>2
  <2>3. \A p \in Requests : request'[p].bookmark = request[p].bookmark
    BY <2>1 DEF Types, Progress
  <2>. HIDE DEF b
  <2> QED BY <1>7, <2>0, <2>1, <2>2, <2>3 DEF ReadSite, Made, Types
<1>8. ASSUME NEW q \in Requests, StoreAnswer(q) PROVE Made'
  BY <1>8, <1>t DEF StoreAnswer, Ask, Made, Types, IdleRequest
<1>9. ASSUME NEW x \in Readers, Expire(x) PROVE Made'
  BY <1>9 DEF Expire, Made
<1>10. CASE Tick
  <2>1. UNCHANGED <<index, derived>> /\ latest'.bookmark = latest.bookmark
    BY <1>10 DEF Tick, Types
  <2>2. \A q \in Requests : request'[q].bookmark <= index
    BY <1>10, <1>t DEF Tick, Types, Progress, IdleRequest, Made
  <2> QED BY <2>1, <2>2 DEF Made
<1> QED BY <1>1, <1>2, <1>3, <1>4, <1>5, <1>6, <1>7, <1>8, <1>9, <1>10 DEF ReadersNext, Serve

-----------------------------------------------------------------------------
(* What is stale and may still be stored has its purge far enough away.     *)

LEMMA LagStep == ASSUME Types, LagCovered, ReadersNext PROVE LagCovered'
<1> SUFFICES ASSUME index' > 0, age'[index'] < MaxLag PROVE Covered(PURGE_DELAY - age[index])'
  BY DEF LagCovered
<1>1. CASE Write /\ unpurged'
  BY <1>1 DEF Covered
<1>2. CASE Tick /\ index' = index
  <2> DEFINE a == age[index]
  <2>1. index \in Versions /\ index \in 1 .. index /\ a \in 0 .. MaxLag /\ a + 1 \in Int /\ MaxLag \in Int
    BY <1>2, Window DEF Types, Versions
  <2>2. age'[index] = Min({MaxLag, a + 1})
    BY <1>2, <2>1 DEF Tick
  <2>3. a < MaxLag /\ age'[index] = a + 1
    BY <1>2, <2>1, <2>2, MinMax
  <2>4. Covered(PURGE_DELAY - a)
    BY <1>2, <2>1, <2>3 DEF LagCovered
  <2>5. PICK d \in Nat \ {0} : d = PURGE_DELAY - a /\ d - 1 = PURGE_DELAY - (a + 1)
    BY <2>1, <2>3, InWindow DEF BOOKMARK, PURGE_DELAY
  <2>6. Covered(d - 1)'
    <3>1. Covered(d)
      BY <2>4, <2>5
    <3> QED BY <1>2, <3>1, CoverTicks
  <2> QED BY <1>2, <2>3, <2>5, <2>6 DEF Covered
<1>3. CASE /\ ~Tick /\ UNCHANGED <<index, age>>
           /\ UNCHANGED <<unpurged, lost, queue>> \/ QueuePurge \/ LosePurge \/ TakeBatch \/ EndBatch
  <2>1. index \in Versions /\ index > 0 /\ age[index] < MaxLag /\ age[index] \in 0 .. MaxLag
    BY <1>3 DEF Types
  <2>2. Covered(PURGE_DELAY - age[index])
    BY <2>1 DEF LagCovered
  <2>3. PURGE_DELAY - age[index] \in 1 .. PURGE_DELAY
    BY <2>1, InWindow DEF BOOKMARK, PURGE_DELAY
  <2>4. PICK d \in 1 .. PURGE_DELAY : d = PURGE_DELAY - age[index]
    BY <2>3
  <2>5. Covered(d)'
    BY <1>3, <2>2, <2>4, CoverKept
  <2> QED BY <1>3, <2>4, <2>5 DEF Covered
<1> QED BY <1>1, <1>2, <1>3, Moves

LEMMA LatestStep ==
  ASSUME Types, LatestCovered, \A q \in Requests : RequestCovered(q), ReadersNext
  PROVE  LatestCovered'
<1> SUFFICES ASSUME latest'.age < BOOKMARK, latest'.bookmark # index'
             PROVE  Covered(Unseen - MaxRender - latest.age)'
  BY DEF LatestCovered
<1>1. CASE Write /\ unpurged'
  BY <1>1 DEF Covered
<1>2. CASE Tick /\ index' = index
  <2>1. latest.age \in 0 .. BOOKMARK /\ latest.age + 1 \in Int /\ BOOKMARK \in Int
    BY Window DEF Types
  <2>2. latest' = [latest EXCEPT !.age = Min({BOOKMARK, latest.age + 1})]
    BY <1>2 DEF Tick
  <2>3. latest'.bookmark = latest.bookmark /\ latest'.age = Min({BOOKMARK, latest.age + 1})
    BY <2>2 DEF Types
  <2>4. latest.age < BOOKMARK /\ latest'.age = latest.age + 1
    BY <2>1, <2>3, MinMax
  <2>5. PICK d \in Nat \ {0} : d = Unseen - MaxRender - latest.age /\ d - 1 = Unseen - MaxRender - latest'.age
    BY <2>1, <2>4, Window DEF Unused
  <2>6. Covered(d - 1)'
    <3>1. Covered(d)
      BY <1>2, <2>3, <2>4, <2>5 DEF LatestCovered
    <3> QED BY <1>2, <3>1, CoverTicks
  <2> QED BY <2>5, <2>6 DEF Covered
<1>3. CASE /\ ~Tick /\ UNCHANGED <<index, age>>
           /\ UNCHANGED <<unpurged, lost, queue>> \/ QueuePurge \/ LosePurge \/ TakeBatch \/ EndBatch
  <2>1. CASE UNCHANGED latest
    <3>1. latest.age \in 0 .. BOOKMARK
      BY DEF Types
    <3>2. PICK d \in 1 .. PURGE_DELAY : d = Unseen - MaxRender - latest.age
      BY <2>1, <3>1, Window DEF Unused
    <3>3. Covered(d)
      BY <1>3, <2>1, <3>2 DEF LatestCovered
    <3>4. Covered(d)'
      BY <1>3, <3>3, CoverKept
    <3> QED BY <2>1, <3>2, <3>4 DEF Covered
  <2>2. ASSUME NEW q \in Requests, OpenSet(q) PROVE Covered(Unseen - MaxRender - latest.age)'
    <3>1. /\ request[q].at = "asked" /\ latest' = [bookmark |-> request[q].bookmark, age |-> 0]
          /\ UNCHANGED <<unpurged, lost, queue>> /\ request[q].age \in 0 .. MaxRender
      BY <2>2 DEF OpenSet, Types, Progress
    <3>2. latest'.age = 0 /\ request[q].bookmark # index
      BY <1>3, <3>1
    <3>3. Covered(Unseen - request[q].age)
      BY <3>1, <3>2 DEF RequestCovered
    <3>4. PICK d \in Int, e \in Int : d = Unseen - request[q].age /\ e = Unseen - MaxRender /\ e <= d
      BY <3>1, Window
    <3>5. Covered(e)
      BY <3>3, <3>4, CoverLess
    <3>6. Unseen - MaxRender - 0 = Unseen - MaxRender
      BY Window
    <3> QED BY <3>1, <3>2, <3>4, <3>5, <3>6 DEF Covered
  <2>3. UNCHANGED latest \/ \E q \in Requests : OpenSet(q)
    <3>1. CASE QueuePurge \/ LosePurge \/ ConsumePurge \/ Write \/ \E x \in Readers : RefusePurge(x) \/ Expire(x)
      BY <3>1 DEF QueuePurge, SendPurge, LosePurge, ConsumePurge, TakeBatch, PurgeReader, EndBatch, RefusePurge, Expire, Write
    <3>2. CASE \E q \in Requests : OpenKnown(q) \/ OpenAsk(q) \/ ReadApi(q) \/ ReadSite(q) \/ StoreAnswer(q)
      BY <3>2 DEF OpenKnown, OpenAsk, ReadApi, ReadSite, StoreAnswer
    <3>3. CASE Tick
      BY <1>3, <3>3
    <3> QED BY <3>1, <3>2, <3>3 DEF ReadersNext, Serve
  <2> QED BY <2>1, <2>2, <2>3
<1> QED BY <1>1, <1>2, <1>3, Moves

LEMMA RequestStep ==
  ASSUME Types, Made, LagCovered, LatestCovered, NEW q \in Requests, RequestCovered(q), ReadersNext
  PROVE  RequestCovered(q)'
<1> DEFINE r == request[q]
<1>r. r \in Progress /\ r.age \in 0 .. MaxRender /\ r.bookmark \in Versions /\ r.bookmark <= index
  BY DEF Types, Progress, Made
<1>1. CASE Write /\ unpurged'
  BY <1>1 DEF RequestCovered, Covered
<1>2. CASE Tick /\ index' = index
  <2>1. CASE r.at = "idle"
    BY <1>2, <2>1 DEF Tick, RequestCovered, IdleRequest
  <2>2. CASE r.at # "idle"
    <3>1. request'[q] = [r EXCEPT !.age = @ + 1] /\ r.age < MaxRender
      BY <1>2, <2>2 DEF Tick
    <3>2. /\ request'[q].at = r.at /\ request'[q].bookmark = r.bookmark /\ request'[q].shows = r.shows
          /\ request'[q].age = r.age + 1
      BY <3>1, <1>r DEF Progress
    <3>3. /\ Unseen - r.age \in Nat \ {0} /\ Unused - r.age \in Nat \ {0}
          /\ (Unseen - r.age) - 1 = Unseen - (r.age + 1)
          /\ (Unused - r.age) - 1 = Unused - (r.age + 1)
      BY <3>1, <1>r, Window
    <3>d. PICK d \in Nat \ {0} : d = Unseen - r.age /\ d - 1 = Unseen - (r.age + 1)
      BY <3>3
    <3>e. PICK e \in Nat \ {0} : e = Unused - r.age /\ e - 1 = Unused - (r.age + 1)
      BY <3>3
    <3>4. (Covered(d) => Covered(d - 1)') /\ (Covered(e) => Covered(e - 1)')
      BY <1>2, CoverTicks
    <3> QED BY <1>2, <3>2, <3>d, <3>e, <3>4 DEF RequestCovered, Covered
  <2> QED BY <2>1, <2>2
<1>3. CASE /\ ~Tick /\ UNCHANGED <<index, age>>
           /\ UNCHANGED <<unpurged, lost, queue>> \/ QueuePurge \/ LosePurge \/ TakeBatch \/ EndBatch
  <2>0. /\ Unseen - r.age \in 1 .. PURGE_DELAY /\ Unused - r.age \in 1 .. PURGE_DELAY
        /\ Unseen \in 1 .. PURGE_DELAY /\ Unused \in 1 .. PURGE_DELAY
    BY <1>r, Window
  <2>1. \A d \in 1 .. PURGE_DELAY : Covered(d) => Covered(d)'
    BY <1>3, CoverKept
  <2>2. CASE request'[q] = r
    BY <1>3, <2>0, <2>1, <2>2 DEF RequestCovered, Covered
  <2>3. CASE OpenKnown(q)
    <3>1. /\ request'[q].at = "open" /\ request'[q].bookmark = latest.bookmark /\ request'[q].age = 0
          /\ latest.age < BOOKMARK
      BY <2>3 DEF OpenKnown, Ask, IdleRequest, FreshBookmark, Types
    <3>2. ASSUME latest.bookmark # index PROVE Covered(Unused)
      <4>1. Covered(Unseen - MaxRender - latest.age)
        BY <3>1, <3>2 DEF LatestCovered
      <4>2. latest.age \in 0 .. BOOKMARK /\ BOOKMARK \in Int
        BY Window DEF Types
      <4>3. PICK d \in Int, e \in Int : d = Unseen - MaxRender - latest.age /\ e = Unused /\ e <= d
        BY <2>0, <3>1, <4>2, Window DEF Unused
      <4> QED BY <4>1, <4>3, CoverLess
    <3>3. ASSUME latest.bookmark # index PROVE Covered(Unused)'
      BY <2>0, <2>1, <3>2, <3>3 DEF Covered, Unused, Unseen
    <3>4. Unused - 0 = Unused
      BY Window
    <3> QED BY <1>3, <3>1, <3>3, <3>4 DEF RequestCovered, Covered
  <2>4. ASSUME NEW v \in Seen(latest.bookmark), Ask(q, [IdleRequest EXCEPT !.at = "asked", !.bookmark = v])
        PROVE  RequestCovered(q)'
    <3>1. request'[q].at = "asked" /\ request'[q].bookmark = v /\ request'[q].age = 0
      BY <2>4 DEF Ask, IdleRequest, Types
    <3>2. latest.bookmark \in Versions
      BY DEF Types
    <3>3. v # index => Covered(Unseen)
      BY <3>2, SeenCovered
    <3>4. v # index => Covered(Unseen)'
      BY <2>0, <2>1, <3>3 DEF Covered, Unseen
    <3>5. Unseen - 0 = Unseen
      BY Window
    <3> QED BY <1>3, <3>1, <3>4, <3>5 DEF RequestCovered, Covered
  <2>5. ASSUME NEW v \in Seen(0), Ask(q, [IdleRequest EXCEPT !.at = "read", !.of = "api", !.shows = v])
        PROVE  RequestCovered(q)'
    <3>1. request'[q].at = "read" /\ request'[q].shows = v /\ request'[q].age = 0
      BY <2>5 DEF Ask, IdleRequest, Types
    <3>2. 0 \in Versions
      BY Window DEF Versions
    <3>3. ASSUME v # index PROVE Covered(Unused)
      <4>1. Covered(Unseen)
        BY <3>2, <3>3, SeenCovered
      <4> QED BY <2>0, <4>1, Window, CoverLess
    <3>4. v # index => Covered(Unused)'
      BY <2>0, <2>1, <3>3 DEF Covered, Unused, Unseen
    <3>5. Unused - 0 = Unused
      BY Window
    <3> QED BY <1>3, <3>1, <3>4, <3>5 DEF RequestCovered, Covered
  <2>6. CASE OpenSet(q)
    <3>1. r.at = "asked" /\ request'[q] = [r EXCEPT !.at = "open"]
      BY <2>6 DEF OpenSet, Ask, Types
    <3>2. request'[q].at = "open" /\ request'[q].bookmark = r.bookmark /\ request'[q].age = r.age
      BY <3>1, <1>r DEF Progress
    <3>3. ASSUME r.bookmark # index PROVE Covered(Unused - r.age)
      <4>1. Covered(Unseen - r.age)
        BY <3>1, <3>3 DEF RequestCovered
      <4> QED BY <2>0, <4>1, <1>r, Window, CoverLess
    <3>4. PICK e \in 1 .. PURGE_DELAY : e = Unused - r.age
      BY <2>0
    <3> QED BY <1>3, <2>1, <3>2, <3>3, <3>4 DEF RequestCovered, Covered
  <2>7. CASE ReadSite(q)
    <3> DEFINE b == r.bookmark
    <3>1. PICK v \in IF derived[b] # None THEN {derived[b]} ELSE Session(q) :
            request' = [request EXCEPT ![q] = [r EXCEPT !.at = "read", !.shows = v]]
      BY <2>7 DEF ReadSite, Ask
    <3>2. request'[q].at = "read" /\ request'[q].shows = v /\ request'[q].age = r.age /\ r.at = "open"
      BY <3>1, <1>r, <2>7 DEF Progress, Types, ReadSite
    <3>3. b <= v /\ v <= index /\ v \in Int /\ index \in Int /\ b \in Int
      <4>1. CASE derived[b] # None
        <5>1. derived[b] \in Versions
          BY <1>r, <4>1 DEF Types
        <5> QED BY <1>r, <3>1, <4>1, <5>1 DEF Made, Types, Versions
      <4>2. CASE derived[b] = None
        BY <1>r, <3>1, <4>2, SeenCovered DEF Session, Types, Versions
      <4> QED BY <4>1, <4>2
    <3>4. v # index => b # index
      BY <3>3
    <3>5. PICK e \in 1 .. PURGE_DELAY : e = Unused - r.age
      BY <2>0
    <3>6. v # index => Covered(e)
      BY <3>2, <3>4, <3>5 DEF RequestCovered
    <3> QED BY <1>3, <2>1, <3>2, <3>5, <3>6 DEF RequestCovered, Covered
  <2>8. CASE StoreAnswer(q)
    BY <2>8 DEF StoreAnswer, Ask, RequestCovered, IdleRequest, Types
  <2>9. \/ request'[q] = r \/ OpenKnown(q) \/ OpenAsk(q) \/ ReadApi(q) \/ OpenSet(q) \/ ReadSite(q) \/ StoreAnswer(q)
    <3>1. CASE \E p \in Requests \ {q} : OpenKnown(p) \/ OpenAsk(p) \/ ReadApi(p) \/ Serve(p)
      BY <3>1 DEF OpenKnown, OpenAsk, ReadApi, Serve, OpenSet, ReadSite, StoreAnswer, Ask, Types
    <3>2. CASE QueuePurge \/ LosePurge \/ ConsumePurge \/ Write \/ \E x \in Readers : RefusePurge(x) \/ Expire(x)
      BY <3>2 DEF QueuePurge, SendPurge, LosePurge, ConsumePurge, TakeBatch, PurgeReader, EndBatch, RefusePurge, Expire, Write
    <3> QED BY <1>3, <3>1, <3>2 DEF ReadersNext, Serve
  <2>10. CASE OpenAsk(q)
    BY <2>4, <2>10 DEF OpenAsk
  <2>11. CASE ReadApi(q)
    BY <2>5, <2>11 DEF ReadApi
  <2> QED BY <2>2, <2>3, <2>6, <2>7, <2>8, <2>9, <2>10, <2>11
<1> QED BY <1>1, <1>2, <1>3, Moves

LEMMA EdgeStep ==
  ASSUME Types, batch = NoBatch \/ batch.messages # {}, \A q \in Requests : RequestCovered(q),
         NEW x \in Readers, EdgeOwed(x), ReadersNext
  PROVE  EdgeOwed(x)' /\ (batch = NoBatch \/ batch.messages # {})'
<1>1. CASE Write \/ QueuePurge \/ LosePurge
  BY <1>1 DEF Write, QueuePurge, SendPurge, LosePurge, EdgeOwed
<1>2. CASE TakeBatch
  <2>1. batch' = [messages |-> {m \in queue : m.wait = 0}, todo |-> Readers, refused |-> FALSE]
        /\ {m \in queue : m.wait = 0} # {}
    BY <1>2 DEF TakeBatch
  <2> QED BY <2>1 DEF EdgeOwed
<1>3. ASSUME NEW y \in Readers, PurgeReader(y)
      PROVE  EdgeOwed(x)' /\ (batch = NoBatch \/ batch.messages # {})'
  <2>1. batch # NoBatch
    BY <1>3 DEF PurgeReader, NoBatch
  <2>2. /\ batch'.todo = batch.todo \ {y} /\ batch'.refused = batch.refused
        /\ batch'.messages = batch.messages /\ edge' = [edge EXCEPT ![y] = None]
        /\ UNCHANGED <<index, unpurged, lost, queue, dead>>
    BY <1>3 DEF PurgeReader, Types
  <2> QED BY <2>1, <2>2 DEF EdgeOwed, Types
<1>4. ASSUME NEW y \in Readers, RefusePurge(y)
      PROVE  EdgeOwed(x)' /\ (batch = NoBatch \/ batch.messages # {})'
  <2>1. batch # NoBatch
    BY <1>4 DEF RefusePurge, NoBatch
  <2>2. batch'.refused /\ batch'.messages = batch.messages
    BY <1>4 DEF RefusePurge, Types
  <2> QED BY <2>1, <2>2 DEF EdgeOwed
<1>5. CASE EndBatch
  <2>1. /\ batch' = NoBatch /\ batch.todo = {} /\ batch.messages # {} /\ batch.messages \subseteq Message
        /\ queue \subseteq queue' /\ index' = index /\ edge' = edge
        /\ (unpurged => unpurged') /\ (lost => lost') /\ (dead => dead')
    BY <1>5 DEF EndBatch, Types
  <2>2. CASE ~batch.refused
    <3>1. edge[x] \in {None, index} \/ unpurged \/ lost \/ queue # {} \/ dead
      BY <2>1, <2>2 DEF EdgeOwed
    <3>2. edge'[x] \in {None, index'} \/ unpurged' \/ lost' \/ queue' # {} \/ dead'
      BY <2>1, <3>1
    <3> QED BY <2>1, <3>2 DEF EdgeOwed
  <2>3. CASE batch.refused
    <3>1. PICK m : m \in batch.messages
      BY <2>1
    <3>2. PICK t \in 0 .. MaxTries - 1, w \in 0 .. PURGE_DELAY : m = [tries |-> t, wait |-> w]
      BY <2>1, <3>1 DEF Message
    <3>3. PICK n : n = [m EXCEPT !.tries = @ + 1, !.wait = RETRY_DELAY]
      OBVIOUS
    <3>4. n.tries = t + 1
      BY <3>2, <3>3
    <3>5. n.tries < MaxTries \/ n.tries = MaxTries
      BY <3>2, <3>4, Window
    <3>6. (n.tries < MaxTries => n \in queue') /\ (n.tries = MaxTries => dead')
      BY <1>5, <2>3, <3>1, <3>3 DEF EndBatch, Purged
    <3> QED BY <2>1, <3>5, <3>6 DEF EdgeOwed
  <2> QED BY <2>1, <2>2, <2>3
<1>6. ASSUME NEW q \in Requests, OpenKnown(q) \/ OpenAsk(q) \/ ReadApi(q) \/ OpenSet(q) \/ ReadSite(q)
      PROVE  EdgeOwed(x)' /\ (batch = NoBatch \/ batch.messages # {})'
  BY <1>6 DEF OpenKnown, OpenAsk, ReadApi, OpenSet, ReadSite, EdgeOwed
<1>7. ASSUME NEW q \in Requests, StoreAnswer(q)
      PROVE  EdgeOwed(x)' /\ (batch = NoBatch \/ batch.messages # {})'
  <2>1. /\ request[q].at = "read" /\ UNCHANGED <<index, unpurged, lost, queue, batch, dead>>
        /\ edge'[x] \in {edge[x], request[q].shows}
    BY <1>7 DEF StoreAnswer, Types
  <2>2. CASE edge'[x] = edge[x] \/ request[q].shows = index
    BY <2>1, <2>2 DEF EdgeOwed
  <2>3. CASE request[q].shows # index
    <3>1. Covered(Unused - request[q].age)
      BY <2>1, <2>3 DEF RequestCovered
    <3> QED BY <2>1, <3>1 DEF Covered, EdgeOwed
  <2> QED BY <2>1, <2>2, <2>3
<1>8. ASSUME NEW y \in Readers, Expire(y)
      PROVE  EdgeOwed(x)' /\ (batch = NoBatch \/ batch.messages # {})'
  BY <1>8 DEF Expire, EdgeOwed, Types
<1>9. CASE Tick
  BY <1>9 DEF Tick, EdgeOwed
<1> QED BY <1>1, <1>2, <1>3, <1>4, <1>5, <1>6, <1>7, <1>8, <1>9 DEF ReadersNext, ConsumePurge, Serve

-----------------------------------------------------------------------------
LEMMA InvInit == ReadersInit => Inv
<1> SUFFICES ASSUME ReadersInit PROVE Inv
  OBVIOUS
<1>1. 0 \in Versions /\ 0 \in 0 .. MaxLag /\ BOOKMARK \in 0 .. BOOKMARK /\ 0 \in 0 .. MaxRender
  BY Window DEF Versions
<1>2. Types
  BY <1>1 DEF ReadersInit, Types, NoBatch, IdleRequest, Progress, Readers
<1>3. Made
  BY <1>1 DEF ReadersInit, Made, IdleRequest
<1>4. LagCovered /\ LatestCovered
  BY Window DEF ReadersInit, LagCovered, LatestCovered
<1>5. \A q \in Requests : RequestCovered(q)
  BY DEF ReadersInit, RequestCovered, IdleRequest
<1>6. \A x \in Readers : EdgeOwed(x)
  BY DEF ReadersInit, EdgeOwed
<1> QED BY <1>2, <1>3, <1>4, <1>5, <1>6 DEF Inv, ReadersInit

LEMMA InvNext == Inv /\ [ReadersNext]_readerVars => Inv'
<1> SUFFICES ASSUME Inv, [ReadersNext]_readerVars PROVE Inv'
  OBVIOUS
<1>1. CASE ReadersNext
  <2>1. Types' /\ Made' /\ LagCovered' /\ LatestCovered'
    BY <1>1, TypesStep, MadeStep, LagStep, LatestStep DEF Inv
  <2>2. \A q \in Requests : RequestCovered(q)'
    BY <1>1, RequestStep DEF Inv
  <2>3. \A x \in Readers : EdgeOwed(x)' /\ (batch = NoBatch \/ batch.messages # {})'
    BY <1>1, EdgeStep DEF Inv
  <2> QED BY <2>1, <2>2, <2>3 DEF Inv, Readers
<1>2. CASE UNCHANGED readerVars
  BY <1>2 DEF readerVars, Inv, Types, Made, LagCovered, LatestCovered, RequestCovered, EdgeOwed, Covered
<1> QED BY <1>1, <1>2

(* A stale answer the edge keeps always has a purge to come, whatever       *)
(* replicas lag, isolates share a bookmark and renders overlap the purge:   *)
(* what the comments on PURGE_DELAY_S and BOOKMARK_MS promise each other.   *)
(* A purge an attempt lost is made up for by the next that is queued.       *)
THEOREM EdgeStaysCurrent == ReadersSpec => []EdgeCurrent
<1>1. Inv => EdgeCurrent
  <2> SUFFICES ASSUME Inv, NEW x \in Readers PROVE edge[x] \in {None, index} \/ PurgePending \/ lost
    BY DEF EdgeCurrent
  <2>1. EdgeOwed(x) /\ (x \in batch.todo \/ batch.refused => batch # NoBatch)
    BY DEF Inv, NoBatch
  <2> QED BY <2>1 DEF EdgeOwed, PurgePending
<1> QED BY <1>1, InvInit, InvNext, PTL DEF ReadersSpec

(* What the edge keeps is of the index as some write left it.               *)
THEOREM ReadersTypes == ReadersSpec => []Types
<1>1. Inv => Types
  BY DEF Inv
<1> QED BY <1>1, InvInit, InvNext, PTL DEF ReadersSpec
=============================================================================
