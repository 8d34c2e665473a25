------------------------------ MODULE OtaSnapshots -----------------------------
(****************************************************************************)
(* The OTA feeds, Apple's carrier manifest and Google's Pixel update        *)
(* service (src/apps/extractor/src/unit.ts otaSnapshot, apple/ota.ts,       *)
(* apple/ota-manifest.ts, pixel/ota.ts, runs.ts).                           *)
(*                                                                          *)
(* A check fetches the feed's answer; unless the pointer names it, its      *)
(* snapshot is a unit.  The unit's instance plans the files whose records   *)
(* list them differently, writes each one's record in a step of its own,    *)
(* then writes the pointer and queues the files it wrote for indexing.      *)
(*                                                                          *)
(* Instances of two snapshots may run at once: nothing limits the room of a *)
(* pipeline without containers.  A snapshot's instance is named by it, so   *)
(* one the feed returns to is not run again.                                *)
(*                                                                          *)
(* A file's record is the listing its live listings make up, Unlisted when  *)
(* none is live, Missing when it has no record.                             *)
(****************************************************************************)
EXTENDS Naturals, FiniteSets

CONSTANTS Snapshots,  \* the answers the feed gives
          Urls,       \* the files they list
          Lists,      \* Lists[s][u]: how snapshot s lists file u
          Unlisted,   \* not at all
          Outside,    \* of Apple's: listed, but not one the scope takes
          Missing,    \* a file with no record
          NoSnapshot, \* the pointer before its first, and a check with none
          FirstAnswers, \* the snapshots the feed may start with
          MayGo,      \* the files their server may take down or replace
          Rebuilds,   \* whether checks are asked to rebuild what failed
          MaxMoves,   \* bound: times the feed changes its answer
          MaxFaults   \* bound: failed attempts of an instance's steps

ASSUME OtaAssumption ==
    /\ NoSnapshot \notin Snapshots
    /\ Missing \notin {Unlisted, Outside} /\ Unlisted # Outside
    /\ DOMAIN Lists = Snapshots
    /\ \A s \in Snapshots : DOMAIN Lists[s] = Urls /\ \A u \in Urls : Lists[s][u] # Missing
    /\ FirstAnswers \subseteq Snapshots /\ MayGo \subseteq Urls
    /\ Rebuilds \subseteq BOOLEAN
    /\ MaxMoves \in Nat /\ MaxFaults \in Nat

VARIABLES feed,     \* "apple" or "pixel": they share nothing
          gone,     \* the files their server took down or replaced
          current,  \* the snapshot the feed answers with
          check,    \* the check running, and the snapshot it plans
          inst,     \* inst[s]: the instance of s
          files,    \* files[u]: u's record in the bucket
          pointer,  \* ota/<feed>/current.json
          queued,   \* the files index messages in the queue name
          indexed,  \* indexed[u]: the record of u the index was written from
          hasty,    \* the feed moved under a check or an instance, or back to a snapshot already run
          moves, faults

vars == <<feed, gone, current, check, inst, files, pointer, queued, indexed, hasty, moves, faults>>

Listing == {Lists[s][u] : s \in Snapshots, u \in Urls} \cup {Unlisted, Missing}

NoInstance == [status |-> "none", at |-> "plan", todo |-> {}, now |-> {}, done |-> {}]

NewRun == [NoInstance EXCEPT !.status = "running"]

Instance == [status : {"none", "running", "complete", "errored"},
             at : {"plan", "files", "wrote", "pointed"},
             todo : SUBSET Urls, now : SUBSET Urls, done : SUBSET Urls]

NoCheck == [at |-> "none", snapshot |-> NoSnapshot, rebuild |-> FALSE]

Live(s) == inst[s].status = "running"

(****************************************************************************)
(* Planning.  Apple's takes the files in scope listed otherwise than their  *)
(* records say, and those held as live that are no longer listed at all;    *)
(* the Pixel service's only files it lists.                                 *)
(****************************************************************************)
Wanted(s, u) ==
    IF feed = "apple" THEN Lists[s][u] \notin {Unlisted, Outside} ELSE Lists[s][u] # Unlisted

Changed(s) == {u \in Urls : Wanted(s, u) /\ files[u] # Lists[s][u]}

\* Mutant: a file no longer listed is left as it is.
DroppedNever(s) == {}

Dropped(s) ==
    {u \in Urls : feed = "apple" /\ Lists[s][u] = Unlisted /\ files[u] \notin {Missing, Unlisted}}

\* What the file step makes of u's record.
Listed(s, u) == IF Wanted(s, u) THEN Lists[s][u] ELSE Unlisted

\* Whether the step has to download the file: Apple's only when it is new.
Downloads(s, u) == Wanted(s, u) /\ (feed = "pixel" \/ files[u] = Missing)

--------------------------------------------------------------------------------
Init ==
    /\ feed \in {"apple", "pixel"}
    /\ gone \in SUBSET MayGo
    /\ current \in FirstAnswers
    /\ check = NoCheck
    /\ inst = [s \in Snapshots |-> NoInstance]
    /\ files = [u \in Urls |-> Missing]
    /\ pointer = NoSnapshot
    /\ queued = {}
    /\ indexed = [u \in Urls |-> Missing]
    /\ hasty = FALSE /\ moves = 0 /\ faults = 0

\* The feed answers with another snapshot.
Move(s) ==
    /\ s # current /\ moves < MaxMoves
    /\ moves' = moves + 1
    /\ current' = s
    /\ hasty' = (hasty \/ check.at # "none" \/ inst[s].status # "none"
                     \/ \E t \in Snapshots : Live(t))
    /\ UNCHANGED <<feed, gone, check, inst, files, pointer, queued, indexed, faults>>

(****************************************************************************)
(* A check: the answer compared with the pointer, and its unit started      *)
(* unless it has an instance.                                               *)
(****************************************************************************)
Fetch(rebuild) ==
    /\ check.at = "none" /\ current # pointer
    /\ check' = [at |-> "planned", snapshot |-> current, rebuild |-> rebuild]
    /\ UNCHANGED <<feed, gone, current, inst, files, pointer, queued, indexed, hasty, moves, faults>>

Starts(status, rebuild) == status = "none" \/ (rebuild /\ status = "errored")

Start ==
    /\ check.at = "planned"
    /\ LET s == check.snapshot IN
       inst' = IF Starts(inst[s].status, check.rebuild)
               THEN [inst EXCEPT ![s] = NewRun] ELSE inst
    /\ check' = NoCheck
    /\ UNCHANGED <<feed, gone, current, files, pointer, queued, indexed, hasty, moves, faults>>

(****************************************************************************)
(* An instance's steps.                                                     *)
(****************************************************************************)
stepOnly == <<feed, gone, current, check, hasty, moves>>

PlanFiles(s) ==
    /\ Live(s) /\ inst[s].at = "plan"
    /\ inst' = [inst EXCEPT ![s].at = "files", ![s].todo = Changed(s) \cup Dropped(s)]
    /\ UNCHANGED <<stepOnly, files, pointer, queued, indexed, faults>>

\* A file step writes the record last, and then says that the file is held.
WriteFile(s, u) ==
    /\ Live(s) /\ inst[s].at = "files" /\ u \in inst[s].todo
    /\ Downloads(s, u) => u \notin gone
    /\ files' = [files EXCEPT ![u] = Listed(s, u)]
    /\ inst' = [inst EXCEPT ![s].at = "wrote", ![s].now = {u}]
    /\ UNCHANGED <<stepOnly, pointer, queued, indexed, faults>>

\* Mutant: a file taken off the list is not indexed.
FileDoneLive(s) ==
    /\ Live(s) /\ inst[s].at = "wrote"
    /\ inst' = [inst EXCEPT ![s].at = "files", ![s].todo = @ \ inst[s].now, ![s].now = {},
                            ![s].done = @ \cup {u \in inst[s].now : Wanted(s, u)}]
    /\ UNCHANGED <<stepOnly, files, pointer, queued, indexed, faults>>

FileDone(s) ==
    /\ Live(s) /\ inst[s].at = "wrote"
    /\ inst' = [inst EXCEPT ![s].at = "files", ![s].todo = @ \ inst[s].now,
                            ![s].now = {}, ![s].done = @ \cup inst[s].now]
    /\ UNCHANGED <<stepOnly, files, pointer, queued, indexed, faults>>

\* A file that is gone: Apple's is not held, a Pixel's ends the instance.
GoneFile(s, u) ==
    /\ Live(s) /\ inst[s].at = "files" /\ u \in inst[s].todo
    /\ Downloads(s, u) /\ u \in gone
    /\ inst' = IF feed = "apple" THEN [inst EXCEPT ![s].todo = @ \ {u}]
                                 ELSE [inst EXCEPT ![s].status = "errored"]
    /\ UNCHANGED <<stepOnly, files, pointer, queued, indexed, faults>>

\* The pointer, and in the same step the files to index.
WritePointer(s) ==
    /\ Live(s) /\ inst[s].at = "files" /\ inst[s].todo = {}
    /\ pointer' = s
    /\ inst' = [inst EXCEPT ![s].at = "pointed"]
    /\ UNCHANGED <<stepOnly, files, queued, indexed, faults>>

QueueFiles(s) ==
    /\ Live(s) /\ inst[s].at = "pointed"
    /\ queued' = queued \cup inst[s].done
    /\ inst' = [inst EXCEPT ![s].status = "complete"]
    /\ UNCHANGED <<stepOnly, files, pointer, indexed, faults>>

\* Mutant: a file step whose attempt failed goes on to the next file.
RetriedStepSkips(i) ==
    CASE i.at = "pointed" -> [i EXCEPT !.at = "files"]
      [] i.at = "wrote"   -> [i EXCEPT !.at = "files", !.todo = @ \ i.now, !.now = {}]
      [] OTHER            -> [i EXCEPT !.todo = {}]

\* The step whose attempt failed, from its start.
RetriedStep(i) ==
    IF i.at \in {"wrote", "pointed"} THEN [i EXCEPT !.at = "files", !.now = {}] ELSE i

\* An attempt fails: its step runs again, or ends the instance.
StepFails(s) ==
    /\ Live(s) /\ faults < MaxFaults
    /\ faults' = faults + 1
    /\ \/ inst' = [inst EXCEPT ![s] = RetriedStep(@)]
       \/ inst' = [inst EXCEPT ![s].status = "errored"]
    /\ UNCHANGED <<stepOnly, files, pointer, queued, indexed>>

\* The index consumer writes a file's facts from its record as it is now.
IndexFile(u) ==
    /\ u \in queued
    /\ queued' = queued \ {u}
    /\ indexed' = [indexed EXCEPT ![u] = files[u]]
    /\ UNCHANGED <<feed, gone, current, check, inst, files, pointer, hasty, moves, faults>>

--------------------------------------------------------------------------------
FileStep(s, u) == WriteFile(s, u) \/ GoneFile(s, u)

Progress(s) ==
    \/ PlanFiles(s)
    \/ \E u \in Urls : FileStep(s, u)
    \/ FileDone(s)
    \/ WritePointer(s)
    \/ QueueFiles(s)

Next ==
    \/ \E s \in Snapshots : Move(s) \/ Progress(s) \/ StepFails(s)
    \/ \E rebuild \in Rebuilds : Fetch(rebuild)
    \/ Start
    \/ \E u \in Urls : IndexFile(u)

(****************************************************************************)
(* Cron checks again and again, the Workflow engine carries instances on,   *)
(* and the queue delivers; nothing is assumed of the feed or of faults.     *)
(****************************************************************************)
Fairness ==
    /\ WF_vars(Fetch(FALSE)) /\ WF_vars(Start)
    /\ \A s \in Snapshots : WF_vars(Progress(s))
    /\ \A u \in Urls : WF_vars(IndexFile(u))

Spec == Init /\ [][Next]_vars /\ Fairness

--------------------------------------------------------------------------------
\* The types of the state.
TypeOK ==
    /\ feed \in {"apple", "pixel"} /\ gone \subseteq Urls
    /\ current \in Snapshots /\ pointer \in Snapshots \cup {NoSnapshot}
    /\ check \in [at : {"none", "planned"}, snapshot : Snapshots \cup {NoSnapshot}, rebuild : BOOLEAN]
    /\ inst \in [Snapshots -> Instance]
    /\ files \in [Urls -> Listing] /\ indexed \in [Urls -> Listing]
    /\ queued \subseteq Urls
    /\ hasty \in BOOLEAN /\ moves \in Nat /\ faults \in Nat

(****************************************************************************)
(* A file whose record the index was not written from has its message       *)
(* queued, or is to be queued by an instance that wrote it, or was written  *)
(* by one that failed (unit.ts otaSnapshot): a file step retried after its  *)
(* write, two snapshots writing one file and a file only taken off the list *)
(* included.                                                                *)
(****************************************************************************)
WrittenBy(s) == inst[s].done \cup inst[s].now

FilesOwed ==
    \A u \in Urls : indexed[u] # files[u] =>
        \/ u \in queued
        \/ \E s \in Snapshots : /\ inst[s].status \in {"running", "errored"}
                                /\ u \in WrittenBy(s) \cup inst[s].todo

(****************************************************************************)
(* unit.ts, otaSnapshot: "the snapshot is held once every file it lists     *)
(* is".  Whichever instances overlapped, each file the pointer's snapshot   *)
(* lists has a record, or could not be had.                                 *)
(****************************************************************************)
PointerHeld ==
    pointer # NoSnapshot =>
        \A u \in Urls : Wanted(pointer, u) => files[u] # Missing \/ u \in gone

(****************************************************************************)
(* Every record says how the snapshot lists its file.  A Pixel file no      *)
(* answer lists is never planned, so its record keeps its listings.         *)
(****************************************************************************)
Agrees(s) ==
    \A u \in Urls :
        \/ files[u] = Listed(s, u)
        \/ files[u] = Missing /\ (~Wanted(s, u) \/ u \in gone)
        \/ ~Wanted(s, u) /\ (feed = "pixel" \/ Lists[s][u] = Outside)

(****************************************************************************)
(* Once the feed stays as it is, the records agree with it and the index    *)
(* with the records, unless an instance failed for good, or the feed had    *)
(* moved while a check or an instance ran, or gone back to a snapshot       *)
(* already run: then only its next answer repairs them.                     *)
(****************************************************************************)
EventuallyAgrees ==
    <>[](\/ pointer = current /\ Agrees(current) /\ indexed = files
         \/ hasty \/ \E s \in Snapshots : inst[s].status = "errored")

(****************************************************************************)
(* What the repository says of itself that the code does not do.  site      *)
(* wiki, overview.md: "The record is written last, so a failed unit is      *)
(* planned again by the next check"; architecture.md: "a failed unit is     *)
(* neither held nor half-indexed".  Once the pointer is the feed's answer,  *)
(* no instance is left failed and nothing is under way, every file held is  *)
(* indexed as it is held.                                                   *)
(****************************************************************************)
Settled ==
    /\ pointer = current /\ check.at = "none" /\ queued = {}
    /\ \A s \in Snapshots : inst[s].status \in {"none", "complete"}

HeldIndexed == Settled => indexed = files
================================================================================
