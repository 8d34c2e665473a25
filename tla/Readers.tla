------------------------------ MODULE Readers ------------------------------
(* The readers' caches and the purge queue: what a page kept at the edge    *)
(* shows of an index that goes on changing under it.                        *)
(*                                                                          *)
(* The index is the number of its last write.  A reader's isolate keys what *)
(* it derives by a bookmark it may use again for BOOKMARK ticks; every write*)
(* queues a purge delivered after PURGE_DELAY, which empties the edge.      *)
(* A tick is 15 seconds or, where Quarter > 1, a part of them.              *)
EXTENDS Integers, FiniteSets, FiniteSetsExt

CONSTANTS Requests,    \* concurrent requests that reach a reader's Worker
          MaxWrites,   \* index messages that write
          MaxLag,      \* ticks a D1 replica may be behind the primary
          MaxRender,   \* ticks from a request's first query to its stored answer
          Quarter,     \* ticks in 15 seconds
          MaxTries     \* attempts of a purge batch before it is dead-lettered

Readers == {"site", "api"}
None == -1

(* BOOKMARK_MS, PURGE_DELAY_S and the purge consumer's retry_delay.         *)
BOOKMARK == 2 * Quarter
PURGE_DELAY == 4 * Quarter
RETRY_DELAY == 4 * Quarter

(* What the comment on PURGE_DELAY_S leaves to a replica and to a render,   *)
(* which may read the bookmark another request then goes on using.          *)
ASSUME InWindow ==
  /\ Quarter \in Nat \ {0}
  /\ MaxLag \in Nat /\ MaxRender \in Nat \ {0} /\ MaxWrites \in Nat /\ MaxTries \in Nat \ {0}
  /\ MaxLag + 2 * MaxRender + BOOKMARK <= PURGE_DELAY + 1

VARIABLES
  index,      \* writes so far
  age,        \* version -> ticks since it was written, up to MaxLag
  unpurged,   \* the attempt that wrote has yet to queue its purge
  lost,       \* auxiliary: a write's purge was not queued, nor a later one's
  queue,      \* purge messages, which name nothing: their tries and delay left
  batch,      \* the purge batch being consumed: its messages, readers to ask
  dead,       \* a purge was dead-lettered
  latest,     \* the site isolate's bookmark and its age; `at` BOOKMARK: too old
  derived,    \* colo cache: bookmark -> the version its value was read at
  edge,       \* reader -> the version its cached answer shows, or None
  request     \* request -> its progress

readerVars ==
  <<index, age, unpurged, lost, queue, batch, dead, latest, derived, edge, request>>

Versions == 0 .. MaxWrites
IdleRequest == [at |-> "idle", of |-> "site", bookmark |-> 0, shows |-> 0, age |-> 0]
NoBatch == [messages |-> {}, todo |-> {}, refused |-> FALSE]

(* What a D1 query may see: a replica's state, no older than the session's  *)
(* bookmark.                                                                *)
Seen(bookmark) == {v \in bookmark .. index : \A w \in v + 1 .. index : age[w] < MaxLag}

ReadersInit ==
  /\ index = 0 /\ age = [v \in Versions |-> 0] /\ unpurged = FALSE /\ lost = FALSE
  /\ queue = {} /\ batch = NoBatch /\ dead = FALSE
  /\ latest = [bookmark |-> 0, age |-> BOOKMARK]
  /\ derived = [v \in Versions |-> None]
  /\ edge = [x \in Readers |-> None]
  /\ request = [q \in Requests |-> IdleRequest]

-----------------------------------------------------------------------------
(* The writer and the purge queue. *)

(* An index message writes rows; one message at a time.                     *)
Write ==
  /\ index < MaxWrites /\ ~unpurged
  /\ index' = index + 1 /\ unpurged' = TRUE
  /\ UNCHANGED <<age, lost, queue, batch, dead, latest, derived, edge, request>>

SendPurge(wait) ==
  /\ unpurged
  /\ unpurged' = FALSE /\ lost' = FALSE
  /\ queue' = queue \cup {[tries |-> 0, wait |-> wait]}
  /\ UNCHANGED <<index, age, batch, dead, latest, derived, edge, request>>

\* Mutant: sent without its delay.
QueuePurgeAtOnce == SendPurge(0)
(* queuePurge, once the message's last row is written.                      *)
QueuePurge == SendPurge(PURGE_DELAY)

(* The attempt fails between its last row and queuePurge, or the message is *)
(* dead-lettered half written.  A retry finds every row equal, and queues   *)
(* no purge; one that had rows left to write is QueuePurge.                 *)
LosePurge ==
  /\ unpurged
  /\ unpurged' = FALSE /\ lost' = TRUE
  /\ UNCHANGED <<index, age, queue, batch, dead, latest, derived, edge, request>>

(* A batch: whatever is due, one batch at a time (max_concurrency 1).       *)
TakeBatch ==
  /\ batch = NoBatch
  /\ LET due == {m \in queue : m.wait = 0} IN
       /\ due # {}
       /\ queue' = queue \ due
       /\ batch' = [messages |-> due, todo |-> Readers, refused |-> FALSE]
  /\ UNCHANGED <<index, age, unpurged, lost, dead, latest, derived, edge, request>>

(* purgeReaders: each reader's POST, side by side.                          *)
PurgeReader(x) ==
  /\ x \in batch.todo
  /\ edge' = [edge EXCEPT ![x] = None]
  /\ batch' = [batch EXCEPT !.todo = @ \ {x}]
  /\ UNCHANGED <<index, age, unpurged, lost, queue, dead, latest, derived, request>>

(* A reader out of purges, unreachable or refusing: the POST is not ok.     *)
RefusePurge(x) ==
  /\ x \in batch.todo
  /\ batch' = [batch EXCEPT !.todo = @ \ {x}, !.refused = TRUE]
  /\ UNCHANGED <<index, age, unpurged, lost, queue, dead, latest, derived, edge, request>>

(* consumePurge: acknowledged whole, or retried whole.                      *)
\* Mutant: acknowledged whatever the readers answered.
PurgedSettled == TRUE
Purged == ~batch.refused
EndBatch ==
  /\ batch # NoBatch /\ batch.todo = {}
  /\ LET again == IF Purged THEN {}
                  ELSE {[m EXCEPT !.tries = @ + 1, !.wait = RETRY_DELAY] : m \in batch.messages}
     IN /\ queue' = queue \cup {m \in again : m.tries < MaxTries}
        /\ dead' = (dead \/ \E m \in again : m.tries = MaxTries)
  /\ batch' = NoBatch
  /\ UNCHANGED <<index, age, unpurged, lost, latest, derived, edge, request>>

-----------------------------------------------------------------------------
(* The readers. *)

Ask(q, to) == request' = [request EXCEPT ![q] = to]

(* opened: a bookmark read within the window is used again.                 *)
FreshBookmark == latest.age < BOOKMARK
OpenKnown(q) ==
  /\ request[q] = IdleRequest /\ FreshBookmark
  /\ Ask(q, [IdleRequest EXCEPT !.at = "open", !.bookmark = latest.bookmark])
  /\ UNCHANGED <<index, age, unpurged, lost, queue, batch, dead, latest, derived, edge>>

(* An older one only bounds the replica asked for a new one...              *)
OpenAsk(q) ==
  /\ request[q] = IdleRequest /\ ~FreshBookmark
  /\ \E v \in Seen(latest.bookmark) :
       Ask(q, [IdleRequest EXCEPT !.at = "asked", !.bookmark = v])
  /\ UNCHANGED <<index, age, unpurged, lost, queue, batch, dead, latest, derived, edge>>

(* ...which becomes the isolate's when the answer comes, perhaps after one  *)
(* another request asked for later.                                         *)
OpenSet(q) ==
  /\ request[q].at = "asked"
  /\ latest' = [bookmark |-> request[q].bookmark, age |-> 0]
  /\ Ask(q, [request[q] EXCEPT !.at = "open"])
  /\ UNCHANGED <<index, age, unpurged, lost, queue, batch, dead, derived, edge>>

(* The session a page reads by: opened at its bookmark.                     *)
Session(q) == Seen(request[q].bookmark)

(* cached: the colo's value under the bookmark, or one read now and kept.   *)
ReadSite(q) ==
  /\ request[q].at = "open"
  /\ LET b == request[q].bookmark IN
     \E v \in IF derived[b] # None THEN {derived[b]} ELSE Session(q) :
       /\ derived' = [derived EXCEPT ![b] = v]
       /\ Ask(q, [request[q] EXCEPT !.at = "read", !.shows = v])
  /\ UNCHANGED <<index, age, unpurged, lost, queue, batch, dead, latest, edge>>

(* The API's session: any replica, nothing kept between requests.           *)
ReadApi(q) ==
  /\ request[q] = IdleRequest
  /\ \E v \in Seen(0) : Ask(q, [IdleRequest EXCEPT !.at = "read", !.of = "api", !.shows = v])
  /\ UNCHANGED <<index, age, unpurged, lost, queue, batch, dead, latest, derived, edge>>

(* applyPolicy: the answer is kept at the edge, or is one no cache keeps.   *)
StoreAnswer(q) ==
  /\ request[q].at = "read"
  /\ edge' \in {edge, [edge EXCEPT ![request[q].of] = request[q].shows]}
  /\ Ask(q, IdleRequest)
  /\ UNCHANGED <<index, age, unpurged, lost, queue, batch, dead, latest, derived>>

(* A cached answer outlives its TTL; a derived value's is a month.          *)
Expire(x) ==
  /\ edge[x] # None
  /\ edge' = [edge EXCEPT ![x] = None]
  /\ UNCHANGED <<index, age, unpurged, lost, queue, batch, dead, latest, derived, request>>

(* A tick passes, and no render lasts more than MaxRender.                  *)
Tick ==
  /\ \A q \in Requests : request[q].at # "idle" => request[q].age < MaxRender
  /\ age' = [v \in Versions |-> IF v \in 1 .. index THEN Min({MaxLag, age[v] + 1}) ELSE 0]
  /\ queue' = {[m EXCEPT !.wait = Max({0, @ - 1})] : m \in queue}
  /\ latest' = [latest EXCEPT !.age = Min({BOOKMARK, @ + 1})]
  /\ request' = [q \in Requests |->
       IF request[q].at = "idle" THEN IdleRequest ELSE [request[q] EXCEPT !.age = @ + 1]]
  /\ UNCHANGED <<index, unpurged, lost, batch, dead, derived, edge>>

ConsumePurge == TakeBatch \/ (\E x \in Readers : PurgeReader(x)) \/ EndBatch
Serve(q) == OpenSet(q) \/ ReadSite(q) \/ StoreAnswer(q)
ReadersNext ==
  \/ Write \/ QueuePurge \/ LosePurge
  \/ ConsumePurge \/ \E x \in Readers : RefusePurge(x)
  \/ \E q \in Requests : OpenKnown(q) \/ OpenAsk(q) \/ ReadApi(q) \/ Serve(q)
  \/ (\E x \in Readers : Expire(x)) \/ Tick

(* A message's attempts end, its purge queued or lost; the platform delivers *)
(* a purge in time, a reader asked to purge answers for good or ill, and a  *)
(* Worker ends its request.                                                 *)
ReadersFairness ==
  /\ WF_readerVars(QueuePurge \/ LosePurge) /\ WF_readerVars(TakeBatch) /\ WF_readerVars(EndBatch) /\ WF_readerVars(Tick)
  /\ \A x \in Readers : WF_readerVars(PurgeReader(x) \/ RefusePurge(x))
  /\ \A q \in Requests : WF_readerVars(Serve(q))
ReadersSpec == ReadersInit /\ [][ReadersNext]_readerVars /\ ReadersFairness

-----------------------------------------------------------------------------
(* Properties. *)

PurgePending == unpurged \/ queue # {} \/ batch # NoBatch \/ dead

(* An answer the edge keeps that no longer shows the index has a purge to   *)
(* come: none is stored behind the purge that should have dropped it, by a  *)
(* request that read an old replica, took a bookmark another request set    *)
(* late, or was rendering when the purge came (PURGE_DELAY_S, BOOKMARK_MS). *)
(* The one exception, lost, is a write whose purge was never queued, as     *)
(* WritesPurged of IndexQueue shows, until a later write's is: that purge   *)
(* drops every answer.                                                      *)
EdgeCurrent == \A x \in Readers : edge[x] \in {None, index} \/ PurgePending \/ lost

(* Once writes stop, the edge comes to show the index and goes on doing so, *)
(* though each reader may refuse its purge and the batch be retried, unless *)
(* a purge was dead-lettered (consumePurge) or the last one lost            *)
(* (consumeIndex): an earlier one lost is made up for by the next write's.  *)
EventuallyFresh == <>[](dead \/ lost \/ \A x \in Readers : edge[x] \in {None, index})
=============================================================================
