----------------------------- MODULE IndexQueue -----------------------------
(***************************************************************************)
(* The index queue of the extractor Worker and its one consumer            *)
(* (apps/extractor/src/indexing.ts, queues.ts), with what feeds it: a      *)
(* unit's last step (unit.ts finish), a feed check's device sync           *)
(* (queues.ts devicesSynced), a manifest snapshot's routes message, and    *)
(* reindexes and rederives asked for by hand (http.ts).                    *)
(*                                                                         *)
(* The queue promises at-least-once delivery in no order; the consumer     *)
(* handles one message at a time (max_batch_size 1, max_concurrency 1).    *)
(* Every database or queue call of a handler that another actor or a       *)
(* failure can fall between is a step of its own; a failed attempt leaves  *)
(* what it wrote, and its message is delivered again or, its retries       *)
(* spent, dead-lettered.                                                   *)
(*                                                                         *)
(* Data.  A record in the bucket and its rows in the index are a version   *)
(* number.  What is derived is kept as what it was derived FROM (the       *)
(* versions of the facts read), so "stale" is a comparison.                *)
(***************************************************************************)
EXTENDS Naturals, FiniteSets

CONSTANTS
  Platforms,     \* release platforms (ios, android, samsung)
  Records,       \* unit records in the bucket, numbered in release order
  Releases,      \* those that are release records; the others are OTA files
  KeyOf,         \* a record's place in the bucket's key order
  PlatformOf,    \* the release platform whose facts a record's message counts
  Sources,       \* carrier bundles and their like
  Family,        \* the release platform whose rederive derives a source
  Ships,         \* Ships[r][v]: the sources version v of record r has copies of
  CarrierLists,  \* platforms whose newest release's record is their routing
  DerivedSources,   \* INDEX_BATCH.derivedSources
  ChangedReleases,  \* INDEX_BATCH.changedReleases
  (* Bounds of the model, each in the guard of the action it limits. *)
  MaxVersion,    \* times a unit writes one record
  MaxDevices,    \* device changes a platform's checks find
  MaxManifest,   \* snapshots of Apple's OTA manifest
  MaxAsks,       \* reindexes and rederives asked for by hand
  MaxFailures,   \* attempts of consumer, unit and check steps that fail
  MaxDups        \* acknowledged messages delivered again

ASSUME RecordsAssumption ==
  /\ Records \subseteq Nat \ {0}
  /\ Releases \subseteq Records
  /\ KeyOf \in [Records -> Nat \ {0}]
  /\ \A q, r \in Records : KeyOf[q] = KeyOf[r] => q = r
  /\ PlatformOf \in [Records -> Platforms]
  /\ Family \in [Sources -> Platforms]
  /\ CarrierLists \subseteq Platforms
  /\ \A r \in Records, v \in 1 .. MaxVersion :
       Ships[r][v] \subseteq {s \in Sources : Family[s] = PlatformOf[r]}

ASSUME BatchAssumption ==
  /\ DerivedSources \in Nat \ {0}
  /\ ChangedReleases \in Nat \ {0}

ASSUME BoundAssumption ==
  /\ MaxVersion \in Nat /\ MaxDevices \in Nat /\ MaxManifest \in Nat
  /\ MaxAsks \in Nat /\ MaxFailures \in Nat /\ MaxDups \in Nat

VARIABLES
  (* the bucket *)
  record,    \* record[r]: the version the bucket holds, 0 before any
  manifest,  \* the manifest snapshot the current pointer names
  (* workflows *)
  unit,      \* unit[r]: where the last step of r's unit is
  check,     \* check[p]: where the device sync of p's feed check is
  (* the index *)
  profiles,  \* profiles[r]: 2v once version v's content rows are written, 2v-1 when some are
  copies,    \* copies[r]: the version whose copies the index holds
  rows,      \* rows[r]: the version whose release or OTA file row it holds
  devices,   \* devices[p]: the devices the checks have synced, as a version
  counted,   \* counted[p]: facts_written.messages
  derived,   \* derived[s]: what s's timeline, head and phone states were derived from
  changes,   \* changes[r]: what release r's changes were derived from
  appleRoutes, carrierList,  \* the two routing tables, by what they were read from
  linked,    \* what carriers were linked from
  (* the queue and its consumer *)
  queue, dead, job,
  unpurged,  \* rows were written and no purge queued since
  (* what failures cost: each names work the code owes and nothing will do *)
  lostRederive, lostLink,
  failures, dups, asks

bucketVars == <<record, manifest>>
factVars == <<profiles, copies, rows, counted>>
derivedVars == <<derived, changes>>
routeVars == <<appleRoutes, carrierList>>
workflowVars == <<unit, check>>
vars == <<bucketVars, workflowVars, factVars, devices, derivedVars, routeVars, linked,
          queue, dead, job, unpurged, lostRederive, lostLink, failures, dups, asks>>

-----------------------------------------------------------------------------
(* Messages, indexMessageSchema.  A derive message's keys all come from one *)
(* rederive, so it carries that platform here.                              *)

Facts(r) == [kind |-> "facts", record |-> r]
Settle(p, n) == [kind |-> "settle", platform |-> p, facts |-> n]
Routes(n) == [kind |-> "routes", manifest |-> n]
Rederive(p) == [kind |-> "rederive", platform |-> p]
Reindex(p, after) == [kind |-> "reindex", platform |-> p, after |-> after]
Derive(p, S, C) == [kind |-> "derive", platform |-> p, sources |-> S, changes |-> C]

Message ==
  [kind : {"facts"}, record : Records]
  \cup [kind : {"settle"}, platform : Platforms, facts : Nat]
  \cup [kind : {"routes"}, manifest : Nat]
  \cup [kind : {"rederive"}, platform : Platforms]
  \cup [kind : {"reindex"}, platform : Platforms, after : Nat]
  \cup [kind : {"derive"}, platform : Platforms, sources : SUBSET Sources, changes : SUBSET Releases]

None == [kind |-> "none"]

(* The consumer between messages, and a message as it starts on it. *)
Idle == [at |-> "idle", m |-> None, rec |-> 0, ver |-> 0, seen |-> 0,
         todo |-> {}, rest |-> {}, redo |-> {}, later |-> {},
         relink |-> FALSE, wrote |-> FALSE, next |-> None]

Steps == {"idle", "countHeld", "profiles", "copies", "rows", "route", "derive",
          "changes", "link", "count", "send", "purge"}

-----------------------------------------------------------------------------
(* What the index says of facts. *)

Of(p) == {r \in Records : PlatformOf[r] = p}
(* Mutant: every record's row taken for a release's. *)
ReleasesOfAnyRecord(p) == {r \in Records : PlatformOf[r] = p /\ rows[r] > 0}
ReleasesOf(p) == {r \in Releases : PlatformOf[r] = p /\ rows[r] > 0}
Holds(r, s) == copies[r] > 0 /\ s \in Ships[r][copies[r]]
SourcesOf(p) == {s \in Sources : Family[s] = p /\ \E r \in Records : Holds(r, s)}

(* A source derives when it has a copy, and every copy's origin its row. *)
Derivable(s) ==
  /\ \E r \in Records : Holds(r, s)
  /\ \A r \in Records : Holds(r, s) => rows[r] > 0

(* The versions of a platform's facts, and those of one source's copies. *)
FactsOf(p) == [r \in Records |-> IF PlatformOf[r] = p THEN <<copies[r], rows[r]>> ELSE <<0, 0>>]
CopiesOf(s) == [r \in Records |-> IF Holds(r, s) THEN copies[r] ELSE 0]

(* A source derived with devices in the order `seen`: its head (identity), *)
(* by its own copies; its phone states, by the platform's releases too.     *)
View(s, seen) == [head |-> <<CopiesOf(s), seen>>, facts |-> FactsOf(Family[s])]

(* A release's changes, by the platform's copies, releases and timelines,   *)
(* the devices in the order `seen`: the newest one's line is the entry a    *)
(* change links to (releaseChanges).                                        *)
NoCopies == [r \in Records |-> 0]
Timelines(p) == [s \in Sources |-> IF Family[s] = p THEN derived[s].head[1] ELSE NoCopies]
ChangesView(p, seen) == [facts |-> FactsOf(p), timelines |-> Timelines(p), order |-> seen]

(* Head identities and routes, which linking reads. *)
LinkView == <<[s \in Sources |-> derived[s].head], appleRoutes, carrierList>>

NextRelease(r) ==
  {q \in ReleasesOf(PlatformOf[r]) :
     q > r /\ \A x \in ReleasesOf(PlatformOf[r]) : x > r => x >= q}

(* The first `k` of an array whose order nothing here depends on. *)
Slices(S, k) ==
  {T \in SUBSET S : Cardinality(T) = IF Cardinality(S) < k THEN Cardinality(S) ELSE k}

-----------------------------------------------------------------------------
NoFacts == [r \in Records |-> <<0, 0>>]
NoHead == <<NoCopies, 0>>

Init ==
  /\ record = [r \in Records |-> 0] /\ manifest = 0
  /\ unit = [r \in Records |-> "idle"] /\ check = [p \in Platforms |-> "idle"]
  /\ profiles = [r \in Records |-> 0]
  /\ copies = [r \in Records |-> 0] /\ rows = [r \in Records |-> 0]
  /\ devices = [p \in Platforms |-> 0] /\ counted = [p \in Platforms |-> 0]
  /\ derived = [s \in Sources |-> [head |-> NoHead, facts |-> NoFacts]]
  /\ changes = [r \in Releases |-> ChangesView(PlatformOf[r], 0)]
  /\ appleRoutes = 0 /\ carrierList = <<0, 0>>
  /\ linked = LinkView
  /\ queue = {} /\ dead = {} /\ job = Idle
  /\ unpurged = FALSE
  /\ lostRederive = [p \in Platforms |-> FALSE] /\ lostLink = FALSE
  /\ failures = 0 /\ dups = 0 /\ asks = 0

-----------------------------------------------------------------------------
(* What feeds the queue. *)

(* A unit's last step writes its record, then queues it (finish).  Its      *)
(* retries write the same record again; once they are spent the instance    *)
(* ends in error with its record written and nothing queued.  A unit runs   *)
(* again for a held record only when it now covers more (iosRun).           *)
WriteRecord(r) ==
  /\ unit[r] \in {"idle", "failed"} /\ record[r] < MaxVersion
  /\ record' = [record EXCEPT ![r] = @ + 1]
  /\ unit' = [unit EXCEPT ![r] = "written"]
  /\ UNCHANGED <<manifest, check, factVars, devices, derivedVars, routeVars, linked, queue, dead,
                 job, unpurged, lostRederive, lostLink, failures, dups, asks>>

QueueRecord(r) ==
  /\ unit[r] = "written"
  /\ queue' = queue \cup {Facts(r)}
  /\ unit' = [unit EXCEPT ![r] = "idle"]
  /\ UNCHANGED <<bucketVars, check, factVars, devices, derivedVars, routeVars, linked, dead,
                 job, unpurged, lostRederive, lostLink, failures, dups, asks>>

UnitFails(r) ==
  /\ unit[r] = "written" /\ failures < MaxFailures
  /\ unit' = [unit EXCEPT ![r] = "failed"]
  /\ failures' = failures + 1
  /\ UNCHANGED <<bucketVars, check, factVars, devices, derivedVars, routeVars, linked, queue, dead,
                 job, unpurged, lostRederive, lostLink, dups, asks>>

(* A snapshot unit's pointer, and the routes message it queues first. *)
PublishManifest ==
  /\ manifest < MaxManifest
  /\ manifest' = manifest + 1
  /\ queue' = queue \cup {Routes(manifest + 1)}
  /\ UNCHANGED <<record, workflowVars, factVars, devices, derivedVars, routeVars, linked, dead,
                 job, unpurged, lostRederive, lostLink, failures, dups, asks>>

(* A feed check writes the devices that changed, then queues the platform's *)
(* rederive, then a purge.  All three are one Workflow step: when it fails  *)
(* between them its retry finds no device changed, so it queues nothing.    *)
SyncDevices(p) ==
  /\ check[p] = "idle" /\ devices[p] < MaxDevices
  /\ devices' = [devices EXCEPT ![p] = @ + 1]
  /\ check' = [check EXCEPT ![p] = "synced"]
  /\ unpurged' = TRUE
  /\ UNCHANGED <<bucketVars, unit, factVars, derivedVars, routeVars, linked, queue, dead,
                 job, lostRederive, lostLink, failures, dups, asks>>

QueueRederive(p) ==
  /\ check[p] = "synced"
  /\ queue' = queue \cup {Rederive(p)}
  /\ check' = [check EXCEPT ![p] = "queued"]
  /\ UNCHANGED <<bucketVars, unit, factVars, devices, derivedVars, routeVars, linked, dead,
                 job, unpurged, lostRederive, lostLink, failures, dups, asks>>

PurgeDevices(p) ==
  /\ check[p] = "queued"
  /\ check' = [check EXCEPT ![p] = "idle"]
  /\ unpurged' = FALSE
  /\ UNCHANGED <<bucketVars, unit, factVars, devices, derivedVars, routeVars, linked, queue, dead,
                 job, lostRederive, lostLink, failures, dups, asks>>

CheckFails(p) ==
  /\ check[p] # "idle" /\ failures < MaxFailures
  /\ check' = [check EXCEPT ![p] = "idle"]
  /\ lostRederive' = [lostRederive EXCEPT ![p] = @ \/ check[p] = "synced"]
  /\ failures' = failures + 1
  /\ UNCHANGED <<bucketVars, unit, factVars, devices, derivedVars, routeVars, linked, queue, dead,
                 job, unpurged, lostLink, dups, asks>>

(* By hand: POST /run, and the last step of a reindex asked for so, of one   *)
(* held record or of a platform's all.                                      *)
Ask(m) ==
  /\ asks < MaxAsks
  /\ asks' = asks + 1
  /\ queue' = queue \cup {m}
  /\ UNCHANGED <<bucketVars, workflowVars, factVars, devices, derivedVars, routeVars, linked, dead,
                 job, unpurged, lostRederive, lostLink, failures, dups>>
AskRederive(p) == Ask(Rederive(p))
AskReindex(p) == Ask(Reindex(p, 0))
AskRecord(r) == record[r] > 0 /\ Ask(Facts(r))

-----------------------------------------------------------------------------
(* The consumer takes a message: what its handler reads before it writes.   *)

Take(m, started) ==
  /\ job.at = "idle" /\ m \in queue
  /\ queue' = queue \ {m}
  /\ job' = started
  /\ UNCHANGED <<bucketVars, workflowVars, factVars, devices, derivedVars, routeVars, linked, dead,
                 unpurged, lostLink, failures, dups, asks>>

(* A facts message names its record; what it writes is the version the      *)
(* bucket holds when it is read.                                            *)
TakeFacts(r) ==
  /\ Take(Facts(r), [Idle EXCEPT !.at = "profiles", !.m = Facts(r), !.rec = r, !.ver = record[r]])
  /\ UNCHANGED lostRederive

TakeRoutes(n) ==
  /\ Take(Routes(n), [Idle EXCEPT !.at = "route", !.m = Routes(n)])
  /\ UNCHANGED lostRederive

TakeSettle(p, n) ==
  /\ Take(Settle(p, n),
          [Idle EXCEPT !.at = "send", !.m = Settle(p, n),
                       !.next = IF counted[p] = n THEN Rederive(p) ELSE None])
  /\ UNCHANGED lostRederive

TakeRederive(p) ==
  /\ Take(Rederive(p),
          [Idle EXCEPT !.at = "send", !.m = Rederive(p),
                       !.next = Derive(p, SourcesOf(p), ReleasesOf(p))])
  /\ lostRederive' = [lostRederive EXCEPT ![p] = FALSE]

(* The held record after `after`, in key order; past the last, the rederive. *)
HeldAfter(p, after) == {r \in Of(p) : record[r] > 0 /\ KeyOf[r] > after}

TakeReindex(p, after) ==
  /\ \/ /\ HeldAfter(p, after) = {}
        /\ Take(Reindex(p, after),
                [Idle EXCEPT !.at = "send", !.m = Reindex(p, after), !.next = Rederive(p)])
     \/ \E r \in HeldAfter(p, after) :
          /\ \A q \in HeldAfter(p, after) : KeyOf[r] <= KeyOf[q]
          /\ Take(Reindex(p, after),
                  [Idle EXCEPT !.at = "countHeld", !.m = Reindex(p, after), !.rec = r])
  /\ UNCHANGED lostRederive

(* The devices' order is read once a message (Reads). *)
TakeDerive(m) ==
  /\ m.kind = "derive"
  /\ \E now \in Slices(m.sources, DerivedSources) :
       \E redo \in IF now = m.sources THEN Slices(m.changes, ChangedReleases) ELSE {{}} :
         Take(m, [Idle EXCEPT !.at = IF now = {} THEN "changes" ELSE "derive", !.m = m,
                              !.seen = devices[m.platform],
                              !.todo = now, !.rest = m.sources \ now,
                              !.redo = redo, !.later = m.changes \ redo])
  /\ UNCHANGED lostRederive

-----------------------------------------------------------------------------
(* A facts message's record, or a reindex's next: content rows, then the    *)
(* copies and the release row (an OTA file's row first), then routes.       *)

consumerOnly == <<bucketVars, workflowVars, devices, queue, dead, lostRederive,
                  failures, dups, asks>>

Wrote(b) == job.wrote \/ b
Dirty(b) == unpurged' = (unpurged \/ b)
AfterFacts == IF job.m.kind = "facts" THEN "count" ELSE "send"

(* A reindex counts itself before it writes. *)
CountHeld ==
  /\ job.at = "countHeld"
  /\ counted' = [counted EXCEPT ![job.m.platform] = @ + 1]
  /\ job' = [job EXCEPT !.at = "profiles", !.ver = record[job.rec],
                        !.next = Reindex(job.m.platform, KeyOf[job.rec])]
  /\ UNCHANGED <<consumerOnly, profiles, copies, rows, derivedVars, routeVars, linked,
                 unpurged, lostLink>>

(* Some content rows, up to a message's share of bytes: the message carries *)
(* on as itself.                                                            *)
PutSomeProfiles ==
  /\ job.at = "profiles" /\ profiles[job.rec] + 1 < 2 * job.ver
  /\ profiles' = [profiles EXCEPT ![job.rec] = 2 * job.ver - 1]
  /\ job' = [job EXCEPT !.at = "send", !.wrote = TRUE, !.next = job.m]
  /\ Dirty(TRUE)
  /\ UNCHANGED <<consumerOnly, copies, rows, counted, derivedVars, routeVars, linked, lostLink>>

PutProfiles ==
  LET missing == profiles[job.rec] < 2 * job.ver IN
  /\ job.at = "profiles"
  /\ profiles' = [profiles EXCEPT ![job.rec] = IF missing THEN 2 * job.ver ELSE @]
  /\ job' = [job EXCEPT !.at = IF job.rec \in Releases THEN "copies" ELSE "rows",
                        !.wrote = Wrote(missing)]
  /\ Dirty(missing)
  /\ UNCHANGED <<consumerOnly, copies, rows, counted, derivedVars, routeVars, linked, lostLink>>

(* Mutants: copies equal taken for a record wholly indexed, and copies of a  *)
(* record already held taken for its newest version's.                      *)
SyncCopiesThenDone ==
  LET differs == copies[job.rec] # job.ver IN
  /\ job.at = "copies"
  /\ copies' = [copies EXCEPT ![job.rec] = job.ver]
  /\ job' = [job EXCEPT !.at = IF job.rec \in Releases /\ differs THEN "rows" ELSE AfterFacts,
                        !.wrote = Wrote(differs)]
  /\ Dirty(differs)
  /\ UNCHANGED <<consumerOnly, profiles, rows, counted, derivedVars, routeVars, linked, lostLink>>

SyncCopiesOnce ==
  /\ job.at = "copies"
  /\ copies' = [copies EXCEPT ![job.rec] = IF @ = 0 THEN job.ver ELSE @]
  /\ job' = [job EXCEPT !.at = IF job.rec \in Releases THEN "rows" ELSE AfterFacts,
                        !.wrote = Wrote(copies[job.rec] = 0)]
  /\ Dirty(copies[job.rec] = 0)
  /\ UNCHANGED <<consumerOnly, profiles, rows, counted, derivedVars, routeVars, linked, lostLink>>

SyncCopies ==
  LET differs == copies[job.rec] # job.ver IN
  /\ job.at = "copies"
  /\ copies' = [copies EXCEPT ![job.rec] = job.ver]
  /\ job' = [job EXCEPT !.at = IF job.rec \in Releases THEN "rows" ELSE AfterFacts,
                        !.wrote = Wrote(differs)]
  /\ Dirty(differs)
  /\ UNCHANGED <<consumerOnly, profiles, rows, counted, derivedVars, routeVars, linked, lostLink>>

(* Mutant: the record read again for its row. *)
PutRowReread ==
  LET differs == rows[job.rec] # record[job.rec] IN
  /\ job.at = "rows"
  /\ rows' = [rows EXCEPT ![job.rec] = record[job.rec]]
  /\ job' = [job EXCEPT !.at = CASE job.rec \notin Releases -> "copies"
                                 [] job.rec \in Releases /\ PlatformOf[job.rec] \in CarrierLists -> "route"
                                 [] OTHER -> AfterFacts,
                        !.wrote = Wrote(differs)]
  /\ Dirty(differs)
  /\ UNCHANGED <<consumerOnly, profiles, copies, counted, derivedVars, routeVars, linked, lostLink>>

(* The row's count of sources is of the copies just synced, and the 5G it    *)
(* decides for its devices is the row's own: a retry writes either again.   *)
PutRow ==
  LET differs == rows[job.rec] # job.ver IN
  /\ job.at = "rows"
  /\ rows' = [rows EXCEPT ![job.rec] = job.ver]
  /\ job' = [job EXCEPT !.at = CASE job.rec \notin Releases -> "copies"
                                 [] job.rec \in Releases /\ PlatformOf[job.rec] \in CarrierLists -> "route"
                                 [] OTHER -> AfterFacts,
                        !.wrote = Wrote(differs)]
  /\ Dirty(differs)
  /\ UNCHANGED <<consumerOnly, profiles, copies, counted, derivedVars, routeVars, linked, lostLink>>

(* The newest release's carrier list is its platform's routing (routePixels). *)
RoutePixels ==
  LET list == IF NextRelease(job.rec) = {} THEN <<job.rec, job.ver>> ELSE carrierList
      differs == list # carrierList
  IN
  /\ job.at = "route" /\ job.m.kind # "routes"
  /\ carrierList' = list
  /\ job' = [job EXCEPT !.at = IF differs THEN "link" ELSE AfterFacts,
                        !.relink = differs, !.wrote = Wrote(differs)]
  /\ Dirty(differs)
  /\ UNCHANGED <<consumerOnly, factVars, derivedVars, appleRoutes, linked, lostLink>>

(* The manifest snapshot the message names is Apple's routing (indexRoutes). *)
SyncRoutes ==
  LET differs == appleRoutes # job.m.manifest IN
  /\ job.at = "route" /\ job.m.kind = "routes"
  /\ appleRoutes' = job.m.manifest
  /\ job' = [job EXCEPT !.at = IF differs THEN "link" ELSE "send",
                        !.relink = differs, !.wrote = Wrote(differs)]
  /\ Dirty(differs)
  /\ UNCHANGED <<consumerOnly, factVars, derivedVars, carrierList, linked, lostLink>>

(* Mutant: the settle message says the count before its own. *)
CountBefore ==
  LET p == PlatformOf[job.rec] IN
  /\ job.at = "count"
  /\ counted' = [counted EXCEPT ![p] = @ + 1]
  /\ job' = [job EXCEPT !.at = "send", !.next = Settle(p, counted[p])]
  /\ UNCHANGED <<consumerOnly, profiles, copies, rows, derivedVars, routeVars, linked,
                 unpurged, lostLink>>

(* A facts message counts itself once its facts are written. *)
Count ==
  LET p == PlatformOf[job.rec] IN
  /\ job.at = "count"
  /\ counted' = [counted EXCEPT ![p] = @ + 1]
  /\ job' = [job EXCEPT !.at = "send", !.next = Settle(p, counted[p] + 1)]
  /\ UNCHANGED <<consumerOnly, profiles, copies, rows, derivedVars, routeVars, linked,
                 unpurged, lostLink>>

-----------------------------------------------------------------------------
(* A derive message's sources, then its releases' changes. *)

DeriveSource(s) ==
  LET view == View(s, job.seen) IN
  /\ job.at = "derive" /\ s \in job.todo /\ Derivable(s)
  /\ derived' = [derived EXCEPT ![s] = view]
  /\ job' = [job EXCEPT !.todo = @ \ {s},
                        !.at = IF job.todo = {s} THEN "changes" ELSE "derive",
                        !.relink = @ \/ derived[s].head # view.head,
                        !.wrote = Wrote(derived[s] # view)]
  /\ Dirty(derived[s] # view)
  /\ UNCHANGED <<consumerOnly, factVars, changes, routeVars, linked, lostLink>>

(* The release's own changes, and those of the release after it. *)
DeriveChanges(r) ==
  LET view == ChangesView(PlatformOf[r], job.seen)
      both == {r} \cup NextRelease(r)
      differs == \E x \in both : changes[x] # view
  IN
  /\ job.at = "changes" /\ r \in job.redo
  /\ changes' = [x \in Releases |-> IF x \in both THEN view ELSE changes[x]]
  /\ job' = [job EXCEPT !.redo = @ \ {r}, !.wrote = Wrote(differs)]
  /\ Dirty(differs)
  /\ UNCHANGED <<consumerOnly, factVars, derived, routeVars, linked, lostLink>>

(* Mutant: a chain ends with its sources. *)
LastSources == job.rest = {}
Last == job.rest = {} /\ job.later = {}

(* Mutants: a chain carries on with what it was given; a chain links only  *)
(* when its last message changed an identity.                               *)
EndDeriveAgain ==
  /\ job.at = "changes" /\ job.redo = {}
  /\ job' = [job EXCEPT
       !.at = IF job.relink \/ (Last /\ job.m.changes # {}) THEN "link" ELSE "send",
       !.next = IF job.rest # {} THEN job.m
                ELSE IF Last THEN None ELSE Derive(job.m.platform, {}, job.later)]
  /\ UNCHANGED <<consumerOnly, factVars, derivedVars, routeVars, linked, unpurged, lostLink>>

EndDeriveUnlinked ==
  /\ job.at = "changes" /\ job.redo = {}
  /\ job' = [job EXCEPT
       !.at = IF job.relink THEN "link" ELSE "send",
       !.next = IF job.rest # {} THEN Derive(job.m.platform, job.rest, job.m.changes)
                ELSE IF Last THEN None ELSE Derive(job.m.platform, {}, job.later)]
  /\ UNCHANGED <<consumerOnly, factVars, derivedVars, routeVars, linked, unpurged, lostLink>>

EndDerive ==
  /\ job.at = "changes" /\ job.redo = {}
  /\ job' = [job EXCEPT
       !.at = IF job.relink \/ (Last /\ job.m.changes # {}) THEN "link" ELSE "send",
       !.next = IF job.rest # {} THEN Derive(job.m.platform, job.rest, job.m.changes)
                ELSE IF Last THEN None ELSE Derive(job.m.platform, {}, job.later)]
  /\ UNCHANGED <<consumerOnly, factVars, derivedVars, routeVars, linked, unpurged, lostLink>>

Link ==
  LET differs == linked # LinkView IN
  /\ job.at = "link"
  /\ linked' = LinkView
  /\ job' = [job EXCEPT !.at = AfterFacts, !.relink = FALSE, !.wrote = Wrote(differs)]
  /\ Dirty(differs)
  /\ lostLink' = FALSE
  /\ UNCHANGED <<consumerOnly, factVars, derivedVars, routeVars>>

-----------------------------------------------------------------------------
(* What a handled message hands on and changed is queued, then it is        *)
(* acknowledged (consumeIndex).                                             *)

Send ==
  /\ job.at = "send"
  /\ queue' = queue \cup (IF job.next = None THEN {} ELSE {job.next})
  /\ job' = [job EXCEPT !.at = "purge"]
  /\ UNCHANGED <<bucketVars, workflowVars, factVars, devices, derivedVars, routeVars, linked, dead,
                 unpurged, lostRederive, lostLink, failures, dups, asks>>

Finish ==
  /\ job.at = "purge"
  /\ unpurged' = (unpurged /\ ~job.wrote)
  /\ job' = Idle
  /\ UNCHANGED <<bucketVars, workflowVars, factVars, devices, derivedVars, routeVars, linked, dead,
                 lostRederive, lostLink, failures, asks>>

Ack == Finish /\ UNCHANGED <<queue, dups>>

(* The acknowledgement is lost: the message is delivered again. *)
AckLost ==
  /\ dups < MaxDups
  /\ dups' = dups + 1
  /\ Finish
  /\ queue' = queue \cup {job.m}

(* A link owed by this attempt that no other message will run: its retry    *)
(* finds the rows it wrote equal, so it does not link again.                *)
ForgetsLink ==
  job.relink /\ (job.m.kind = "routes" \/ (job.m.kind = "derive" /\ job.m.changes = {}))

(* An attempt ends: its message is retried or, its retries spent, dead. *)
EndAttempt ==
  /\ job' = Idle
  /\ lostLink' = (lostLink \/ ForgetsLink)
  /\ UNCHANGED <<bucketVars, workflowVars, factVars, devices, derivedVars, routeVars, linked,
                 unpurged, lostRederive, dups, asks>>
Retry == queue' = queue \cup {job.m} /\ UNCHANGED dead
DeadLetter == dead' = dead \cup {job.m} /\ UNCHANGED queue

(* Any call of an attempt may fail, or its isolate end. *)
Fail ==
  /\ job.at # "idle" /\ failures < MaxFailures
  /\ failures' = failures + 1
  /\ EndAttempt
  /\ Retry \/ DeadLetter

(* A source with no copy left to head it, or a copy whose release has no    *)
(* row, throws on every try until other facts are written.                  *)
Throws ==
  /\ job.at = "derive" /\ \E s \in job.todo : ~Derivable(s)
  /\ EndAttempt
  /\ UNCHANGED failures
ThrowRetried == Throws /\ Retry
ThrowDead == Throws /\ DeadLetter

-----------------------------------------------------------------------------
Feed ==
  \/ \E r \in Records : WriteRecord(r) \/ QueueRecord(r) \/ UnitFails(r)
  \/ \E p \in Platforms : SyncDevices(p) \/ QueueRederive(p) \/ PurgeDevices(p) \/ CheckFails(p)
  \/ PublishManifest
  \/ \E p \in Platforms : AskRederive(p) \/ AskReindex(p)
  \/ \E r \in Records : AskRecord(r)

TakeMessage ==
  \E m \in queue :
    \/ m.kind = "facts" /\ TakeFacts(m.record)
    \/ m.kind = "routes" /\ TakeRoutes(m.manifest)
    \/ m.kind = "settle" /\ TakeSettle(m.platform, m.facts)
    \/ m.kind = "rederive" /\ TakeRederive(m.platform)
    \/ m.kind = "reindex" /\ TakeReindex(m.platform, m.after)
    \/ TakeDerive(m)

WriteFacts ==
  CountHeld \/ PutSomeProfiles \/ PutProfiles \/ SyncCopies \/ PutRow \/ RoutePixels \/ Count

DeriveStep ==
  \/ \E s \in Sources : DeriveSource(s)
  \/ \E r \in Releases : DeriveChanges(r)
  \/ EndDerive

Consume == TakeMessage \/ WriteFacts \/ SyncRoutes \/ DeriveStep \/ Link \/ Send \/ Ack

Next == Feed \/ Consume \/ AckLost \/ Fail \/ ThrowRetried \/ ThrowDead

Spec == Init /\ [][Next]_vars

(* The platform delivers every message in time, a Workflow goes on with its *)
(* step, and a message that always throws is dead-lettered after its        *)
(* retries (max_retries), whatever is delivered between them.               *)
Fairness ==
  /\ WF_vars(Consume) /\ SF_vars(ThrowDead)
  /\ \A r \in Records : WF_vars(QueueRecord(r))
  /\ \A p \in Platforms : WF_vars(QueueRederive(p)) /\ WF_vars(PurgeDevices(p))
FairSpec == Spec /\ Fairness

-----------------------------------------------------------------------------
(* Properties. *)

Job == [at : Steps, m : Message \cup {None}, rec : Records \cup {0}, ver : 0 .. MaxVersion,
        seen : Nat, todo : SUBSET Sources, rest : SUBSET Sources, redo : SUBSET Releases,
        later : SUBSET Releases, relink : BOOLEAN, wrote : BOOLEAN, next : Message \cup {None}]

(* Every variable holds what its declaration says. *)
TypeOK ==
  /\ record \in [Records -> 0 .. MaxVersion] /\ manifest \in Nat
  /\ unit \in [Records -> {"idle", "written", "failed"}]
  /\ check \in [Platforms -> {"idle", "synced", "queued"}]
  /\ profiles \in [Records -> Nat]
  /\ copies \in [Records -> 0 .. MaxVersion] /\ rows \in [Records -> 0 .. MaxVersion]
  /\ devices \in [Platforms -> Nat] /\ counted \in [Platforms -> Nat]
  /\ DOMAIN derived = Sources /\ DOMAIN changes = Releases
  /\ appleRoutes \in Nat /\ carrierList \in Nat \X Nat
  /\ queue \subseteq Message /\ dead \subseteq Message /\ job \in Job
  /\ unpurged \in BOOLEAN /\ lostLink \in BOOLEAN
  /\ lostRederive \in [Platforms -> BOOLEAN]
  /\ failures \in Nat /\ dups \in Nat /\ asks \in Nat

InFlight == queue \cup dead \cup {job.m}

(* A message that ends in the platform being derived again, whole. *)
Promises(m, p) ==
  \/ m.kind = "facts" /\ PlatformOf[m.record] = p
  \/ m.kind = "settle" /\ m = Settle(p, counted[p])
  \/ m.kind = "rederive" /\ m.platform = p
  \/ m.kind = "reindex" /\ m.platform = p
Promised(p) == \E m \in InFlight : Promises(m, p)
Owed(p) == Promised(p) \/ check[p] = "synced" \/ lostRederive[p]

SourceStale(s) == derived[s] # View(s, devices[Family[s]])
ChangesStale(r) == changes[r] # ChangesView(PlatformOf[r], devices[PlatformOf[r]])

Derives(m, p) == m.kind = "derive" /\ m.platform = p

(* However messages are delayed, repeated, reordered and retried, a source  *)
(* whose timeline, head or phone states differ from what the facts and      *)
(* devices say has a message in flight (or dead-lettered) that derives it,  *)
(* and then every release's changes: a settle message dropped because it is *)
(* not the last is always covered by a later one (indexSettle), a reindex   *)
(* chain and a facts message carried on in parts by their next message.     *)
(* The one exception, lostRederive, is a check step failing after its sync. *)
SourcesCovered ==
  \A p \in Platforms : Owed(p) \/
    \A s \in SourcesOf(p) : SourceStale(s) =>
      \E m \in InFlight : Derives(m, p) /\ s \in m.sources /\ ReleasesOf(p) \subseteq m.changes

(* Likewise a release whose changes differ from what its platform's copies, *)
(* timelines and devices say: a derive chain ends with every release's changes,     *)
(* after every source's timeline (indexDerive).                             *)
ChangesCovered ==
  \A p \in Platforms : Owed(p) \/
    \A r \in ReleasesOf(p) : ChangesStale(r) =>
      \E m \in InFlight : Derives(m, p) /\ r \in m.changes

(* Carriers that differ from what linking makes of the head identities and  *)
(* routes have a link to come: this attempt's, or that of the last message  *)
(* of a derive chain (indexDerive), which a promise becomes on a platform   *)
(* with a release.  lostLink: a routes message, or a chain with no release, *)
(* whose attempt failed before its link.                                    *)
LinkCovered ==
  linked # LinkView =>
    \/ job.relink \/ lostLink
    \/ \E m \in InFlight : m.kind = "derive" /\ m.changes # {}
    \/ \E p \in Platforms : Promised(p) /\ ReleasesOf(p) # {}

(* A record the index does not hold as the bucket does is its unit's to     *)
(* queue, or has its message in flight; only an errored unit leaves one     *)
(* behind (finish, releaseRows).                                            *)
RecordsCovered ==
  \A r \in Records : record[r] # copies[r] \/ record[r] # rows[r] =>
    unit[r] # "idle" \/ Facts(r) \in InFlight

(* A release's copies and its row are of one version, but for one whose     *)
(* message, or a reindex that has yet to pass it, is in flight: no acknowledged *)
(* message leaves a release half-indexed (releaseRows).                     *)
HalfIndexedOwned ==
  \A r \in Records : copies[r] # rows[r] =>
    \/ Facts(r) \in InFlight
    \/ \E m \in InFlight : m.kind = "reindex" /\ m.platform = PlatformOf[r] /\ m.after < KeyOf[r]

(* The queue and its consumer implement RecordIndex: a record's two halves  *)
(* follow the bucket forward, and only one behind the other, though records *)
(* are written again while their messages are repeated, reordered and       *)
(* retried, and handled in parts (releaseRows, otaRows).                    *)
Index == INSTANCE RecordIndex WITH stored <- record, copied <- copies, rowed <- rows
IndexesRecords == Index!Spec

Quiet ==
  /\ queue = {} /\ job.at = "idle"
  /\ \A p \in Platforms : check[p] = "idle"
  /\ \A r \in Records : unit[r] # "written"
NothingLost ==
  /\ dead = {} /\ ~lostLink
  /\ \A p \in Platforms : ~lostRederive[p]
  /\ \A r \in Records : unit[r] # "failed"

Current ==
  /\ \A r \in Records : copies[r] = record[r] /\ rows[r] = record[r]
  /\ \A p \in Platforms :
       /\ \A s \in SourcesOf(p) : ~SourceStale(s)
       /\ \A r \in ReleasesOf(p) : ~ChangesStale(r)
  /\ linked = LinkView

(* Once units, checks and requests stop, the queue empties, and unless      *)
(* something was dead-lettered or a step failed for good, every row then    *)
(* says what the bucket and the devices say: chains of next messages end,   *)
(* and no debounced settle starves the derivation.                          *)
EventuallyCurrent == <>[](Quiet /\ (NothingLost => Current))

-----------------------------------------------------------------------------
(* What the repository says of itself that the code does not do. *)

(* docs/architecture.md: "A message that wrote anything queues a purge." *)
WritesPurged == Quiet /\ dead = {} => ~unpurged

(* docs/architecture.md: "Every message writes only rows that differ, so    *)
(* messages may repeat or reorder": once the routes messages of every       *)
(* snapshot are handled, whatever their order and retries, the table is the *)
(* newest one's and carriers are linked from it.                            *)
RoutesCurrent == Quiet /\ dead = {} => appleRoutes = manifest /\ linked = LinkView
=============================================================================
