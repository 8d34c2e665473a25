# carrier-explode in TLA+

carrier-explode reads phone firmware and over-the-air files, extracts the carrier
settings in them into a bucket, and indexes those into a database that a site and a
public API read. Order, failure and repetition decide whether a page is right in the
**extractor Worker** (`apps/extractor`): feed checks start *units* (durable Workflows), a
unit writes a *record* into the bucket and queues it, and one consumer of the **index
queue** turns records into rows and derives everything pages show from them; the readers
keep what they answered until a *purge* drops it. These modules model that path, from the
bytes a unit fetches to the page kept at the edge.

## 1. Inventory

| Component (source) | State | Operations | Interacts with | What is hard | What makes it correct | Module |
|---|---|---|---|---|---|---|
| **Index queue and its consumer** (`indexing.ts`, `queues.ts`) | messages queued and dead-lettered, the message in hand | `consumeIndex`; `releaseRows`, `otaRows`, `indexFacts`, `indexSettle`, `indexRederive`, `indexDerive`, `indexRoutes`, `indexHeld` | units, checks and `/run` feed it; it writes the index and queues purges | at-least-once, unordered delivery; an attempt may end at any call; work handed on by a next message; units and checks write between its steps | no stale row without a message that rewrites it; no half-indexed record; every chain ends | `IndexQueue`, `RecordIndex` |
| **Facts** (`records.ts`; `db` `sources.ts`, `releases.ts`, `profiles.ts`, `facts-written.ts`) | rows of copies, releases, OTA files, profiles, modems; the facts counter | `syncCopies`, `putRelease`, `withPart`, `judgeRadios`, `routePixels`, `countFacts` | the consumer | separate writes of one record; a Pixel build's parts in any order | a release's rows end as its records say, in whatever order parts come | `IndexQueue`, `PixelParts` |
| **Derivation** (`schema/timeline.ts`, `release-changes.ts`, `phone-states.ts`) | entries, heads, phone states, changes | `sourceTimeline`, `head`, `versionOn`, `releaseChanges` | facts, devices | ties between contents and days, reused versions, betas | a slug names one content; the head is what shipped | `Timelines` |
| **Linking** (`schema/identity.ts`, `ids.ts`, `db/carriers.ts`) | carriers, each source's carrier | `linkSources`, `linkCarriers`, `assignIds` | heads, routes, people's rules | transitive keys, splits, stable ids | a partition that respects every rule; ids kept | `Linking` |
| **Unit steps** (`unit.ts`, `container.ts`, `errors.ts`) | a unit's step and attempt, its burst wait, the containers | `doStep`, `refusableStep`, `pastBurst`, `containerStep`, `finish` | containers, the bucket, the index queue | deadlines racing late answers, refusals, instances lost between steps | a job has its container to itself; a unit ends held or failed for good | `Units` |
| **Checks** (`runs.ts`, `pipelines.ts`, `apple/plan.ts`, `galaxy/plan.ts`) | check and unit instances by id | `startCheck`, `checkFeed`, `decide`, `startRuns` | feeds, Workflow instances, the bucket | records and instances change between a plan and its start | one extraction per build, within the share; what is listed is held at last | `Checks` |
| **OTA snapshots** (`apple/ota.ts`, `ota-manifest.ts`, `pixel/ota.ts`, `unit.ts`) | snapshot instances, file records, the pointer | plan, `otaFile`, `otaSnapshot` | the feed's answer, the index queue | two snapshots at once, files taken down, a feed that goes back | every record written is indexed; records come to agree with the feed | `OtaSnapshots` |
| **Normalization** (`store.ts`, `normalize.ts`, `reindex.ts`, `storage`) | `obj/` and `norm/` objects | `storeModemConfigs`, `normalizeRun`, `reindexArtifacts` | units, reindexes, the index | an artifact is several objects, a run shares them, the schema is bumped | what is held is whole; held records stay readable | `Normalization` |
| **Ranged reads** (`http`, `container/jobs`) | the stream's place, its failures | `streamRange`, `fetchWithRetry` | a server, a consumer | bodies cut short, too long or empty; a consumer that fails | the range's bytes, once each; every read ends | `Transfers` |
| **Purges and readers** (`queues.ts`; `site/lib/server`; `api`) | queued purges, bookmarks, derived values, the edge | `queuePurge`, `consumePurge`, `cached`, `opened` | the consumer, D1's replicas | a page read before a write and cached after its purge | no page outlives its rows | `Readers` |
| **Labels** (`workflows.ts`, `db/labels.ts`) | names by origin, searches missed | `LabelsWorkflow`, `labelCandidates`, `writeLabels` | feeds, people, a search | few places a week, searches that fail | every code is searched in turn; names written are purged | `Labels` |
| **Paged lists, the dataset** (`api/page.ts`, `dataset/build.ts`) | a reader's cursor | `paged`, `windowOf`, `whole` | the index | rows written, dropped and moved between two pages | a row that stays is given once, in order | `Pages` |
| Decoders, firmware readers, the rest of schema, values, networks, site and API | none | parsing, rendering, queries | | pure functions over bytes and rows | unit-tested against real files | not modelled (section 5) |

How they meet: a *unit* writes a record and sends `facts`; a *check* writes `devices`,
sends `rederive` and starts units; a *snapshot* writes the pointer and sends `routes` and
`facts`; the *consumer* writes rows, sends to its own queue `settle`, `rederive`, `derive`,
`reindex` and the rest of a message that did part of its work, and queues purges. Nothing
locks: what protects the index is that one consumer handles one message at a time, that
every write compares first, and that counts and chains owe work forward. `PROJECT.json`
lists under `hazards` the places, at their line, where this can go wrong and a test would
hardly reach.

## 2. What is modelled

### `IndexQueue`

The whole message protocol of the index queue. Its state, and the code it stands for:

| Variables | Code |
|---|---|
| `record`, `manifest` | the bucket: a record's version; the snapshot the pointer names |
| `unit`, `check` | how far a unit's last step (`finish`) and a check's device sync (`syncDevices` then `devicesSynced`) are |
| `profiles`, `copies`, `rows` | per record, the version whose content rows, copies and release or OTA row the index has |
| `devices`, `counted` | the devices table as a version; `facts_written.messages` |
| `derived`, `changes`, `linked` | what a source, a release's changes and the carriers were derived **from** |
| `appleRoutes`, `carrierList` | the routing tables, by what they were read from |
| `queue`, `dead`, `job` | messages, dead letters, the message being handled and how far |
| `unpurged` | rows written and no purge queued since |
| `lostRederive`, `lostLink` | work a failure cost that nothing will redo (ghosts, read by properties only) |

A derived row is kept as the versions it was read from, so *stale* is a comparison with
what deriving now would read (`View`, `ChangesView`, `LinkView`): which facts, timelines,
device order and routes each derivation reads is taken from the code, the values are not.
This is coarse in one direction: an input that changed makes a row stale even if the
output would be the same.

A handler is a sequence of actions, one per database or queue call that another actor or a
failure can fall between:

| Message | Actions |
|---|---|
| `facts` (`release`, `ota`) | `TakeFacts`, `PutSomeProfiles` or `PutProfiles`, `SyncCopies`, `PutRow` (row first for an OTA file), `RoutePixels`, `Link`, `Count` |
| `settle` | `TakeSettle` |
| `rederive` | `TakeRederive` |
| `derive` | `TakeDerive`, `DeriveSource`..., `DeriveChanges`..., `EndDerive`, `Link` |
| `routes` | `TakeRoutes`, `SyncRoutes`, `Link` |
| `reindex` | `TakeReindex`, `CountHeld`, then as `facts` |
| any | `Send` (the next message), then `Ack` (with its purge) or `AckLost`; `Fail` at any point, retried or dead; `ThrowRetried`, `ThrowDead` for a source nothing can derive |

Feeding it: `WriteRecord`, `QueueRecord`, `UnitFails` (a unit's last step, split where its
instance may end), `SyncDevices`, `QueueRederive`, `PurgeDevices`, `CheckFails`,
`PublishManifest`, and `AskRederive`, `AskReindex`, `AskRecord` for `POST /run`.

Choices worth knowing:

- The queue is a **set**: equal messages in it are one, since the handler cannot tell them
  apart; a second delivery of a handled message is `AckLost`.
- A `derive` message holds one platform's sources and releases, as `indexRederive` makes
  them, and carries the platform. Which of its sources a message takes (the first
  `derivedSources`) is any subset of that size: keys mean nothing here.
- Delays are not modelled: a `settle` may come at once or last. The code's delay only makes
  the debounce effective, it is not what correctness may rest on.
- A release is one record: the several records a Pixel build joins are in `PixelParts`.
- An OTA message names one file; `sourceCount` and a device's 5G (`judgeRadios`) are part of
  `PutRow`, since they are functions of what was just written and a retry writes them again.
- A source with no copy left keeps the rows it had, in the code as in the model, and says
  nothing of its platform; properties are of `SourcesOf`, the sources some record has.
- `indexing.ts:437` links at a chain's end only when it had releases; a platform with
  sources and no release is linked only by an identity that changed. `LinkCovered` counts
  a promise only where there is a release.

### `RecordIndex`

What the index promises of each record whatever its queue does: the half written first
(a release's copies, an OTA file's row) moves forward to a version the bucket has held,
the other only ever comes to say what the first already does. `IndexQueue` implements it
under `stored <- record, copied <- copies, rowed <- rows` (`IndexesRecords`).

### `Units` and `Checks`

`Units` is one build's instance: steps in containers and in the Worker, retries, a burst
refusal waited out once, the last step's record and message. A container job is a
`[in, awaited]` record named by instance, step and attempt: `JobLost` gives up waiting
(`withinDeadline`, a lost connection), and the job goes on as an orphan until `OrphanEnds`.
`Checks` adds the feed, its listing, `startCheck`'s record of the last check, and a check's
steps: `ReadFirst`, `PlanRuns`, `ReadStatuses` (`decide`), `CreateBatch`, `Restart`. A build's
instance id is its build and what its record held when it was planned (`iosRun`), so a
phone listed once the record is written makes another instance. `listed` is what a plan
takes of a feed: `List` adds a phone to it, `Delist` takes one out, for a newer build of the
package (`candidates`, `planGalaxy`), a newer major or a file taken down, while the build's
instance runs on. The last step is two actions, `WriteRecord` and `QueueRecord`, so that an
attempt may fail between them and the next one write the record again, however late: nothing
keeps it from coming after a newer instance's. Two ghosts say when that or a drop happened:
`late`, the builds whose record an older instance wrote over a newer one's (`WritesLate`), and
`dropped`. `UnitsTypeOK` and `Checks.TypeOK` state the types for proofs.

### `OtaSnapshots`

Apple's manifests and Pixel's snapshots: a feed that moves among snapshots, a check that
asks and starts an instance named by the snapshot's digest, instances that plan the files
whose record differs, write each one's record in a step of its own, then the pointer and
the messages in the last step. A file's record is the listing it was written from; a file
may be taken down (`GoneFile`). `hasty` is a ghost: the feed moved while a check or an
instance was under way, or went back to a snapshot already run. Feeds "ship a few times a
month" (`wrangler.jsonc`) and are checked hourly, so convergence is claimed without it.

### `PixelParts`

A build's rows joined from one record per device. A message is taken with the device order
of that moment and the rows joined then (`TakePart`), written in three transactions
(`PutTable`), then the 5G of devices it is newest for, then routes. `RefusePart` is the
`DataError` of a part that disagrees with the others, dead-lettered. Row columns are
abstracted to what must agree (header), what a modem is told apart by (firmware) and its
configurations. Builds are numbered by their sort keys, the release day first, by which a
device is judged; routes go by `VersionRank`, the version first, and the two may differ.

### `Timelines`, `Linking`, `Sorting`

Pure functions of `schema`, over a state of copies (or heads) that changes a step at a
time. `Timelines`: contents of a line ordered by version and first appearance, slugs, the
head, `versionOn`. `Linking`: edges between sources of different platforms by shared SIM
rules, people's links and splits, the union that refuses a bridge between two kept apart,
and `assignIds` over the ids held before; `PlatformFirst` is what `localeCompare` makes of
the names. `Sorting` is `toSorted`.

### `Normalization`, `Transfers`

`Normalization` has the puts of modem configurations, each with a base and combination
lists, by units and a reindex at once; `AtOnce` is that configurations are normalized one
at a time while other kinds go side by side. A failed step's sent put may land yet.
`Transfers` is `streamRange`: a byte is its place in the file, a chunk a run of places, the
server may refuse, cut short, hand out too much or empty chunks; the consumer may throw
into the generator (`Readable.from`) or return from it.

### `Readers`

The index is the number of its last write; a replica answers with any version not older
than `MaxLag` nor than the session's bookmark. The site's bookmark, what is derived under
it, each reader's edge, and the purge queue with its delay, batch and retries. A tick is
15 s or a part of it (`Quarter`), so the code's 30 s window is 2 ticks and its 60 s delay
4; `InWindow` is what the comment on `PURGE_DELAY_S` leaves to lag and rendering. A
write's purge is queued (`QueuePurge`) or, its attempt failing first, is not
(`LosePurge`): the ghost `lost` holds until a later write's is, which drops every answer.

### `Labels`, `Pages`

`Labels` is the weekly instance over codes of two kinds: which are listed in which order,
the attempts of each one's step, what a failed attempt may have written, the purge, the
error at the end; feeds and people name codes meanwhile. A code is of one platform.
`Pages` is a list by keyset or by window, read page by page while rows are put, dropped
and moved.

## 3. What is checked

Each `.cfg` is one question; `MC*` modules give the instances. `MCDerivation` and `MCEnds` put
several small instances side by side: a behaviour is one of them (`part`), the others stand
still. `MCIndexQueue.TwoAtMost`, a state constraint, bounds what comes together in
`index_pairs`: of rewrites, repeats and moved devices, no more than two.

| Run | Instance | Properties |
|---|---|---|
| `index_reindex` | two iOS releases in reverse key order, one request by hand, one failure | `SourcesCovered`, `ChangesCovered`, `HalfIndexedOwned` |
| `index_pairs` | one release, two sources, one derived a message; any two of: written again with a source less, devices moved, a delivery repeated; one failure, fair | `RecordsCovered`, `IndexesRecords`, `EventuallyCurrent` |
| `index_platforms` | iOS with an OTA file, Android routed by its newest release's list, a manifest; one failure | `TypeOK`, `LinkCovered` |
| `builds` | two iOS builds and a Galaxy's, one listed for a second phone, two that may be dropped; a share of one, two faults or drops | `WithinShare`, `OneExtraction`, `OwnContainer`, `RecordsGrow`, `NeverAgain`, `EventuallyHeld` |
| `ota` | three snapshots of two files, two moves of the feed, one fault, either feed | `FilesOwed`, `PointerHeld`, `EventuallyAgrees` |
| `derivation` | six sources of five platforms linked again as heads change; ten copies of one source; three parts of two Pixel builds; three codes over three weeks; lists of four rows | `SplitsHold`, `WeakestDropped`, `IdsNamed`, `IdKept`; `ClashesOnlyAlike`, `SlugsResolve`, `HeadShipped`, `DatedSlugsPinned`; `PartsWhole`, `RadiosTrue`, `RoutesOfNewest`; `SearchedInTurn`, `NamesPurged`; `PagedWhole` |
| `ends` | two units sharing an artifact, a base and a list, a reindex, a bump, one failure; a range of three bytes; two requests, one write, lag and render of a tick, two tries of a purge | `NormWhole`, `RecordsReadable`; `Delivered`, `StreamAlwaysEnds`; `EdgeCurrent`, `EventuallyFresh` |
| `writes_purged`, `routes`, `failed_snapshot`, `superseded`, `late_finish` | the smallest instance that shows it | one sentence of the docs each, that the code does not keep |

What they show, in words:

- **The debounce covers.** `SourcesCovered`, `ChangesCovered`: a stale row has a message in
  flight that makes it fresh. A settle drops itself when the count has moved on, because a
  later one, or the facts message or reindex about to count, stands for it; a rederive's
  list is made at one instant and derived over many messages.
- **Nothing is half-indexed for good.** `RecordsCovered`, `HalfIndexedOwned`,
  `IndexesRecords`: what the index lacks is on its way, and rows only go forward.
- **`LinkCovered`**: carriers not linked from the present heads and routes have a link to
  come, though links are triggered by a comparison a retry does not see again.
- **`EventuallyCurrent`**: when inputs stop, the queue empties and, unless something was
  dead-lettered or a step failed for good, every row is current.
- **Builds**: a build has one instance that may ask for a container, though checks plan from
  records that units are writing and write again; an instance that completed is not run
  again; the record of a build of which no phone was dropped loses one only to a later
  attempt of a last step. Builds neither
  dropped nor written over late stay within the share, and every phone they are listed for
  is held at last or their instance failed for good. What becomes of the others, the code
  does not promise: `superseded` and `late_finish`.
- **Snapshots**: whatever overlaps, a record written is indexed or owed, but for a failed
  instance's; the pointer is written after its files; records agree with the feed it
  settles on.
- **Rows** do not depend on the order facts came in: a Pixel build is its parts, its 5G and
  routes are the newest's, a dated slug is never another content's, a split holds whatever
  bridges it, an id stays with the carrier that had it.
- **The edge** never keeps an answer behind the purge that should have dropped it, with the
  bookmark's window, a bookmark set late and a refusing reader; and becomes current, unless
  the last write's purge was lost.
- **Extraction**: a held modem configuration is whole though its puts fail between; a
  stream gives its range once and in order, and ends.
- **Codes wait their turn**, and **a paged read is whole** for rows that stay in place.

**Disagreements** (`PROJECT.json`, `findings`), each found by a run of its own:

- `WritesPurged`: a retry of an attempt that wrote and failed queues no purge.
- `RoutesCurrent`: two snapshots' routes in the wrong order leave the older one's.
- `HeldIndexed`: a file's record is written in its own step and queued in the instance's
  last, so one that fails in between leaves it held and unindexed. Nobody need rebuild for
  that; the trace does, to let the snapshot settle, which is when the property asks.
- `LiveWithinShare`: a build dropped while its instance runs is no live one to the next check.
- `PlannedAgain`: a last step's retry, after a newer instance's, takes a phone from the
  record, and the phone's own instance completed and is never started again.

In the passing properties such losses are named (`lost`, `lostLink`, `lostRederive`, `dropped`,
`late`, `excused`), not hidden.

**Bounds.** `Max*` and `CheckSlots` limit the environment only (requests, versions,
failures, moves; `MaxFaults` in `Checks` also the drops) and are guards of its actions. A
handler's state comes from one message and what is in flight, so the interesting histories
are *two things at once*: two versions, a change during a chain, a failure, a duplicate,
an orphan and a retry. Two sources with one derived a message and two releases with one a
message give chains of several messages; two phones and three builds give a listing that
grows under a running instance, one that is dropped under it and a build that waits for
room; three snapshots give one overtaken by another and a return to the first. `ends` has
one write: that a later write's purge makes up for a lost one is proved
(`EdgeStaysCurrent`), not run. Copies, heads and rows of lists range over **every** set
their instance allows. In `derivation` a source of ten copies has reused versions, a
content that comes back, a beta that ships, files without a day. What section 4 lists does
not depend on bounds: it is proved.

**Fairness.** `index_pairs`: `WF` of the consumer (the platform delivers and the Worker
runs), `SF` of `ThrowDead` (a message that always throws is dead-lettered after
`max_retries`), `WF` of a Workflow's next write. `builds`: `WF` of cron asking, of each
check's next step, of some instance's next step (one condition for all: each has its last
step, so none starves), of an orphan's end; `ota`: of each check's and instance's next
step and of delivery; none of hands, feeds or faults. `ends`: for readers, `WF` of a
write's attempts ending, its purge queued or lost (`QueuePurge \/ LosePurge`; the code
promises no more), of delivery, of a batch's end, of a reader's answer, good or ill, of a
request's next step, of time; for a stream, of its next step, each of whose awaits settles
(a request within its timeout; a body within the container's deadline). Deadlock is not
checked: inputs are bounded and the system stops, which the liveness properties say it
does well.

**Remarks**: what the models leave out or excuse because the code does not promise it.

- A check's step that fails after writing devices is retried, finds none changed and
  queues no rederive (`lostRederive`; `architecture.md:91`).
- Builds asked for by hand (`only`) are counted against the share by themselves
  (`runs.ts:256`), and two checks asked for at one moment each take it whole; `builds` has
  one who asks, so that race is not run. A check asked to *rebuild* restarts failed instances
  with the payload they had, while another plan's may run: `WithinShare`, `OneExtraction` and
  `RecordsGrow` are of checks that do not (`Rebuilds = {FALSE}`).
- `late` is told from the record, not from clocks: an instance's write counts as late where the
  record holds neither what the instance was named by nor what it writes.
- An instance that writes its record and then fails for good leaves it held and unindexed
  (`RecordsCovered` excuses it; `failed_snapshot` shows it for OTA files, whose file steps
  make it likelier).
- A carrier that chooses before another (it is larger) may take an id that is also its own
  source's name, though `ids.ts:1` says ids are kept; `IdKept` says exactly when.
- A bare version slug names a reused version's *newest* content, though `api.ts:30` says "a
  version slug never changes"; only dated slugs are pinned.
- A part whose header disagrees dead-letters itself and each retry of it; a part that
  fails between tables leaves a modem split until its retry. A device listed after its
  newest release was indexed stays unjudged (5G `null`) until its next; devices that move
  do not reroute Pixels, nor reorder a release row (`moved`).
- A unit that runs across both a schema bump and a reindex's listing stores under the old
  schema and is missed (`listing.clear`). Readers fall back to the previous schema
  (`readModem`), the index does not.
- A modem family two platforms ship is searched for once for each (`labels.ts:184`), two places
  of its week's few; `SearchedInTurn` is of codes of one platform.
- A code whose search always throws notes no miss and stays first in line each week. A
  listing that fails after names were written, or an attempt that wrote one and whose retry
  finds none, ends the week without a purge (`excused`).
- A windowed list (devices, a line's versions) whose cursor's row moved skips or repeats
  the rows between (`slid`), and the dataset publishes what it read.
- A file replaced on its server while it is streamed is not noticed by `streamRange`; zip
  members have checksums, AEA images their own authentication.

## 4. What is proved

By TLAPS, for every value of the constants that the named assumptions of each module
allow. The assumptions say what the code's data is (record keys are distinct, a build is
of one feed, `PhoneOrder` lists each phone once, a unit's artifacts are a sequence, bounds
are naturals) and TLC evaluates them on every run. Each proof checks its inductive
invariant's three facts (`Init`, each action, what it implies), with one lemma or step for
each action that can disturb a conjunct.

| Module | Theorems | Invariant |
|---|---|---|
| `IndexQueueProofs` | `TypeCorrect`, `SourcesAlwaysCovered`, `ChangesAlwaysCovered` | `TypeOK /\ JobShape`, `Coverage` |
| `IndexRecords` | `RecordsAlwaysCovered`, `HalfIndexedAlwaysOwned`, `ImplementsRecordIndex`, `LinksAlwaysCovered` | `RecordsInv`, `LinkInv` |
| `OtaProofs` | `OtaTypes`, `PointerAlwaysHeld`; `FilesAlwaysOwed` where no check rebuilds | `HeldInv`, `OwedInv` |
| `ExtractionProofs` | `StreamDelivers`, `HeldIsWhole`, `RecordsAlwaysReadable` | `StreamInv`, `NormInv` |
| `ChecksProofs` | `ContainersNeverShared`; `CompletedStays` where one asks at a time | `UnitInv`, `CheckInv` |
| `CronProofs` | `ShareNeverExceeded`, `BuildsExtractedOnce`, `LostOnlyByLaterAttempts`, under `AsCron` | `CronInv`, `ChainInv` |
| `ReadersProofs` | `EdgeStaysCurrent` | `Inv` |
| `DerivationProofs` | `SplitsAlwaysHold`, `WeakestAlwaysDropped`, `IdsAlwaysNamed`, `IdsAlwaysKept`; `AlwaysClashesOnlyAlike`, `AlwaysDatedSlugsPinned`, `AlwaysSlugsResolve`, `AlwaysHeadShipped`; `PartsAlwaysWhole`, `RadiosAlwaysTrue`, `RoutesAlwaysNewest`; `AlwaysSearchedInTurn`, `NamesAlwaysPurged`; `AlwaysPagedWhole` | `CarriersInv`; `Contained`; `PartsInv`, `RadiosInv`, `RoutesInv`; `LabelsInv`, `PurgeHeld`; `PagesInv` |

**Derived rows are owed.** `TypeOK` is not inductive: that `Count` adds to a platform's
counter needs the job to be of a facts message; `JobShape` says what message and record
each step of the consumer has. `Coverage` adds to `SourcesCovered` and `ChangesCovered`

- `Families`: every derive message holds only its platform's sources and releases, so no
  step touches another platform's rows;
- `DeriveShape`: what a derive job still has to do, and that releases wait for the last
  source;
- `Handed`: what a job will send: a facts job its settle of the *present* count or itself, a
  rederive job the present sources and releases, a derive job exactly what it did not do;
- `DoneIsFresh`: what a derive job has done is fresh. It fails while the platform is owed
  another derivation, and only there: facts can only change by a message, and one message
  is handled at a time, but devices change under it, with `check[p] = "synced"`.

The acknowledgement (`CoverEnd`) is the only step that lets go of a message, and `Handed`
and `DoneIsFresh` say that nothing is lost with it.

**Records are owed.** `RecordsInv` says how far the message in hand has written its record
(`JobVersions`): the halves in their order, of a version between the index's and the
bucket's, `next` itself until both are written; and that a reindex has passed no
half-indexed record (`ReindexPasses`), for which records' keys must be distinct: two
records of one key would both be passed when one is listed. The refinement of
`RecordIndex` follows step by step: every other action leaves both halves alone. `LinkInv`
adds that a message in flight is of a record the bucket holds, so its platform has a
release and a chain that ends in a link: without it a chain of sources alone would owe a
link nobody makes.

**Snapshots.** `HeldInv` says what an instance between its files and its pointer has made
sure of, with the plans of the others that may write the same file. `FilesOwed` excepts what
an instance that failed wrote, which nothing will queue (`failed_snapshot`), for as long as it
is failed; a rebuild passes over those files and ends well, so the property is of checks that
do not rebuild.

**Streams and configurations.** `StreamInv` relates the open body, the chunk and what was
taken. `NormInv` has, besides wholeness, that each unit's task puts its keys in an order in
which whatever a configuration names goes before it (`PutsShape`), that a failed step's put
still to land is of such a prefix, and what a reindex's listing has met.

**Containers and checks.** `UnitInv` says a job in a container is of its instance's present
or an earlier attempt and never another's, unconditionally. `CompletedStays` needs
`OneAsker`: two checks that both saw an instance refused can both restart it, the second
after the first's run completed; `cron` asks for one check of a feed at a time. `AsCron` adds
that a check is of every build and rebuilds nothing; nothing is assumed of what feeds list and
drop, nor of when a last step's attempts come. `CronInv` says, of builds neither dropped nor
written late (`Steady`), that an instance which may ask for a container is named by what its
build's record holds (`HeldInv`), that what a check has read is what the record holds or
belongs to an instance that is over (`ReadInTime`), that its plan names every such instance
(`PlanHasAll`), and that what runs or is being started stays within the share (`ShareKept`),
counted by cardinalities of sets of instances. A record written late names an older instance
again, so of every build another argument is needed: `ChainInv` says that a build's instances
form one chain, each named by what the one before it writes (`OneFollower`), that whatever the
record holds one of them wrote (`HeldWrote`), that only the last has a first attempt of its
last step to come (`PendingLast`, `OnePending`), and that along the chain phones only grow
(`PhonesGrow`). So a plan made from a record written back names an instance that is started
already, and starts none; and a first write, the last in the chain, has all that any other has.

**The edge.** `Inv` bounds, for whatever stale thing may still be stored, how far its
purge is, unless `lost`: a replica that lags (`LagCovered`), the isolate's bookmark
(`LatestCovered`), a request that asked, opened or read (`RequestCovered`). The least of
those distances is `PURGE_DELAY - MaxLag - 2 * MaxRender - BOOKMARK + 2`, positive by
`InWindow`: twice a render, since a bookmark read by a slow request is used by another. A
tick may be any part of 15 s (`Quarter`), so the theorem is not of a coarse clock's.

**Sorting and recursion.** What rows say is computed by sorting and by going through what
was sorted. `Sorted` picks by rank, without recursion: `RanksCover` (a total order of a
finite set gives its elements the ranks `0 .. n - 1`) and `PicksInOrder` make it the one
sequence in order. A recursive function is shown to have a value, and its value a property,
by the least number at which it would not (`LeastOf`).

**Carriers.** `Joined` joins by an edge only groups no pair kept apart bridges (`Parted`,
kept by `JoinParted`), for any edges in any order. An earlier carrier was given one of its
own sources' names, so a carrier's platform and name together are always free to it
(`QualifiedOwn`, from one source to a platform and name), by which `assignIds` never
throws (`Assigned`); `CarriersInv` keeps what linking made until a head changes. That the
weakest bridge is dropped is shown along the groups made before an edge (`JoinsOf`): the
edges that joined them are no weaker and hold to the end, since groups only grow
(`GroupsGrow`), so whatever set of sources none of those edges leaves has all or nothing
of such a group (`GroupsReached`); an edge then dropped is dropped for a pair kept apart
within reach of its ends. The condition that no person links a country bundle is
`WeakestDropped`'s own: such a bundle joins groups and is no carrier's, so what it bridged
cannot be told from the carriers.

**Timelines.** A source's rows are a function of its copies, so `Contained` is what any set of
copies gives; `Newer` is a total order of a line's contents unless two are alike.

**Pixel builds and codes.** `RowsHeld` is `PartsWhole` without its condition that nothing is
owed; `JobHeld` and `JobModems` say what the message in hand has joined and has yet to write.
`RadiosHeld` and `RoutesHeld` add that a judgement or a route is of the record in hand till
its message ends. `TurnsHeld` says whom a search has let by: a code searched while another
waits has missed since, and so comes after it.

**Pages.** `PassedGiven`: of the rows that stayed where they were, those given are those not
after the cursor, while no row a cursor was of has moved (`slid`). A window takes the first of
what is after the cursor in order (`PageRows`), so what is given grows by what the cursor
passes, whatever rows are written, dropped and moved in between (`PagesRewrite`).

**Only model-checked**: liveness under fairness (`EventuallyCurrent`, `EventuallyHeld`,
`EventuallyAgrees`, `EventuallyFresh`, `StreamAlwaysEnds`), which is out of the prover's reach.
Every invariant and action property of a passing run is a theorem, some under the conditions
the table names.

## 5. Not modelled

- **Decoders, firmware containers and filesystems** (most of the source): pure functions
  from bytes to values, and tables of field names. No state and no order of steps; what
  could be wrong is a field's meaning, which real files test and a model would repeat.
- **Values, networks, most of schema**: types, tables, formatting.
- **The readers' queries and pages**, beyond caching and paging.
- **Phone states and release changes** as values: when they are derived and from what is in
  `IndexQueue`.
- **The dataset's archive**, its one object a day. Its build step retried after its put
  finds the object unchanged and queues no purge, as in `writes_purged`.
- **FUS, the update service, AppleDB**: protocols and listings are inputs. So is what a
  search answers and how a reply is believed (`nameCode`).
- **Wall-clock delays**: the settle delay (messages come in any order), backoffs. Only the
  purge's delays are timed.

## 6. Plan

Done: `IndexQueue` with its proofs, `RecordIndex` and its refinement, `Units` and `Checks`,
`OtaSnapshots`, `PixelParts`, `Timelines`, `Linking`, `Normalization`, `Transfers`, `Readers`,
`Labels`, `Pages`.

Proved: see section 4. Left: more of the code outside the index (section 5).
