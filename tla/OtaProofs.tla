------------------------------- MODULE OtaProofs -------------------------------
(****************************************************************************)
(* What OtaSnapshots keeps, for any number of snapshots and files, and any  *)
(* failures: its types, PointerHeld, and, as long as no check is asked to   *)
(* rebuild, FilesOwed, with which HeldIndexed holds too.                    *)
(****************************************************************************)
EXTENDS OtaSnapshots, TLAPS

(* How far an instance is, of what it planned. *)
Shape(i) ==
    /\ i.status = "none" => i.at = "plan"
    /\ i.at = "plan" => i.todo = {} /\ i.now = {} /\ i.done = {}
    /\ i.at = "files" => i.now = {}
    /\ i.at = "wrote" => i.now \subseteq i.todo
    /\ i.at = "pointed" => i.todo = {} /\ i.now = {}

(* Of the files its snapshot lists, those with no record, still to be had.  *)
PlansAll(s) ==
    inst[s].at # "plan" =>
        \A u \in Urls : Wanted(s, u) => files[u] # Missing \/ u \in gone \/ u \in inst[s].todo

WroteHeld(s) == inst[s].at = "wrote" => \A u \in inst[s].now : files[u] # Missing

HeldInv ==
    /\ \A s \in Snapshots : Shape(inst[s]) /\ PlansAll(s) /\ WroteHeld(s)
    /\ PointerHeld

(* A record once written is never taken away, so the index has none of a    *)
(* file without.                                                            *)
NoneIndexed == \A u \in Urls : files[u] = Missing => indexed[u] = Missing

(* No check is asked to rebuild: a rebuild forgets what a failed instance   *)
(* wrote.                                                                   *)
NoRebuild == TRUE \notin Rebuilds
NoneRebuilt == NoRebuild => ~check.rebuild

OwedInv == NoneIndexed /\ NoneRebuilt /\ (NoRebuild => FilesOwed)

--------------------------------------------------------------------------------
LEMMA ListsListing ==
    /\ \A s \in Snapshots, u \in Urls : Lists[s][u] \in Listing /\ Lists[s][u] # Missing
    /\ Unlisted \in Listing /\ Missing \in Listing /\ Unlisted # Missing
    BY OtaAssumption DEF Listing

LEMMA ListedHeld ==
    ASSUME NEW s \in Snapshots, NEW u \in Urls
    PROVE  Listed(s, u) \in Listing /\ Listed(s, u) # Missing
    BY ListsListing DEF Listed

(* What a step makes of one instance. *)
RunsOn(s, status, at, todo, now, done) ==
    /\ inst' \in [Snapshots -> Instance] /\ \A t \in Snapshots \ {s} : inst'[t] = inst[t]
    /\ inst'[s].status = status /\ inst'[s].at = at
    /\ inst'[s].todo = todo /\ inst'[s].now = now /\ inst'[s].done = done

LEMMA SetRun ==
    ASSUME TypeOK, NEW s \in Snapshots, NEW j \in Instance, inst' = [inst EXCEPT ![s] = j]
    PROVE  RunsOn(s, j.status, j.at, j.todo, j.now, j.done)
    BY DEF TypeOK, RunsOn

LEMMA PlannedUrls == \A s : Changed(s) \cup Dropped(s) \subseteq Urls
    BY DEF Changed, Dropped

LEMMA InstanceMoves ==
    ASSUME TypeOK, NEW s \in Snapshots, NEW i, i = inst[s]
    PROVE  /\ PlanFiles(s) => RunsOn(s, "running", "files", Changed(s) \cup Dropped(s), i.now, i.done)
           /\ FileDone(s) => RunsOn(s, "running", "files", i.todo \ i.now, {}, i.done \cup i.now)
           /\ WritePointer(s) => RunsOn(s, "running", "pointed", {}, i.now, i.done)
           /\ QueueFiles(s) => RunsOn(s, "complete", "pointed", i.todo, i.now, i.done)
           /\ StepFails(s) =>
                \/ RunsOn(s, "errored", i.at, i.todo, i.now, i.done)
                \/ RunsOn(s, "running", i.at, i.todo, i.now, i.done) /\ i.at \notin {"wrote", "pointed"}
                \/ RunsOn(s, "running", "files", i.todo, {}, i.done) /\ i.at \in {"wrote", "pointed"}
           /\ \A u \in Urls : WriteFile(s, u) => RunsOn(s, "running", "wrote", i.todo, {u}, i.done)
           /\ \A u \in Urls : GoneFile(s, u) =>
                \/ feed = "apple" /\ RunsOn(s, "running", "files", i.todo \ {u}, i.now, i.done)
                \/ RunsOn(s, "errored", "files", i.todo, i.now, i.done)
  <1>1. i \in Instance
      BY DEF TypeOK
  <1>2. ASSUME PlanFiles(s) PROVE RunsOn(s, "running", "files", Changed(s) \cup Dropped(s), i.now, i.done)
    <2> DEFINE j == [i EXCEPT !.at = "files", !.todo = Changed(s) \cup Dropped(s)]
    <2>1. inst' = [inst EXCEPT ![s] = j] /\ i.status = "running"
        BY <1>2 DEF PlanFiles, Live
    <2>2. j \in Instance /\ j.status = "running" /\ j.at = "files" /\ j.todo = Changed(s) \cup Dropped(s) /\ j.now = i.now /\ j.done = i.done
        BY <1>1, <2>1, PlannedUrls DEF Instance
    <2> HIDE DEF j
    <2>3. QED
        BY <2>1, <2>2, SetRun
  <1>3. ASSUME FileDone(s) PROVE RunsOn(s, "running", "files", i.todo \ i.now, {}, i.done \cup i.now)
    <2> DEFINE j == [i EXCEPT !.at = "files", !.todo = i.todo \ i.now, !.now = {}, !.done = i.done \cup i.now]
    <2>1. inst' = [inst EXCEPT ![s] = j] /\ i.status = "running"
        BY <1>3 DEF FileDone, Live
    <2>2. j \in Instance /\ j.status = "running" /\ j.at = "files" /\ j.todo = i.todo \ i.now /\ j.now = {} /\ j.done = i.done \cup i.now
        BY <1>1, <2>1 DEF Instance
    <2> HIDE DEF j
    <2>3. QED
        BY <2>1, <2>2, SetRun
  <1>4. ASSUME WritePointer(s) PROVE RunsOn(s, "running", "pointed", {}, i.now, i.done)
    <2> DEFINE j == [i EXCEPT !.at = "pointed"]
    <2>1. inst' = [inst EXCEPT ![s] = j] /\ i.status = "running" /\ i.todo = {}
        BY <1>4 DEF WritePointer, Live
    <2>2. j \in Instance /\ j.status = "running" /\ j.at = "pointed" /\ j.todo = {} /\ j.now = i.now /\ j.done = i.done
        BY <1>1, <2>1 DEF Instance
    <2> HIDE DEF j
    <2>3. QED
        BY <2>1, <2>2, SetRun
  <1>5. ASSUME QueueFiles(s) PROVE RunsOn(s, "complete", "pointed", i.todo, i.now, i.done)
    <2> DEFINE j == [i EXCEPT !.status = "complete"]
    <2>1. inst' = [inst EXCEPT ![s] = j] /\ i.status = "running" /\ i.at = "pointed"
        BY <1>5 DEF QueueFiles, Live
    <2>2. j \in Instance /\ j.status = "complete" /\ j.at = "pointed" /\ j.todo = i.todo /\ j.now = i.now /\ j.done = i.done
        BY <1>1, <2>1 DEF Instance
    <2> HIDE DEF j
    <2>3. QED
        BY <2>1, <2>2, SetRun
  <1>6. ASSUME NEW u \in Urls, WriteFile(s, u) PROVE RunsOn(s, "running", "wrote", i.todo, {u}, i.done)
    <2> DEFINE j == [i EXCEPT !.at = "wrote", !.now = {u}]
    <2>1. inst' = [inst EXCEPT ![s] = j] /\ i.status = "running"
        BY <1>6 DEF WriteFile, Live
    <2>2. j \in Instance /\ j.status = "running" /\ j.at = "wrote" /\ j.todo = i.todo /\ j.now = {u} /\ j.done = i.done
        BY <1>1, <2>1 DEF Instance
    <2> HIDE DEF j
    <2>3. QED
        BY <2>1, <2>2, SetRun
  <1>7. ASSUME StepFails(s)
        PROVE  \/ RunsOn(s, "errored", i.at, i.todo, i.now, i.done)
               \/ RunsOn(s, "running", i.at, i.todo, i.now, i.done) /\ i.at \notin {"wrote", "pointed"}
               \/ RunsOn(s, "running", "files", i.todo, {}, i.done) /\ i.at \in {"wrote", "pointed"}
    <2>1. i.status = "running" /\ \/ inst' = [inst EXCEPT ![s] = RetriedStep(i)]
                                  \/ inst' = [inst EXCEPT ![s] = [i EXCEPT !.status = "errored"]]
        BY <1>7 DEF StepFails, Live
    <2>2. CASE inst' = [inst EXCEPT ![s] = [i EXCEPT !.status = "errored"]]
      <3> DEFINE j == [i EXCEPT !.status = "errored"]
      <3>1. j \in Instance /\ j.status = "errored" /\ j.at = i.at /\ j.todo = i.todo
            /\ j.now = i.now /\ j.done = i.done
          BY <1>1 DEF Instance
      <3>2. QED
          BY <2>2, <3>1, SetRun
    <2>3. CASE inst' = [inst EXCEPT ![s] = i] /\ i.at \notin {"wrote", "pointed"}
        BY <2>1, <2>3, <1>1, SetRun
    <2>4. CASE inst' = [inst EXCEPT ![s] = [i EXCEPT !.at = "files", !.now = {}]] /\ i.at \in {"wrote", "pointed"}
      <3> DEFINE j == [i EXCEPT !.at = "files", !.now = {}]
      <3>1. j \in Instance /\ j.status = "running" /\ j.at = "files" /\ j.todo = i.todo
            /\ j.now = {} /\ j.done = i.done
          BY <2>1, <1>1 DEF Instance
      <3>2. QED
          BY <2>4, <3>1, SetRun
    <2>5. QED
        BY <2>1, <2>2, <2>3, <2>4 DEF RetriedStep
  <1>8. ASSUME NEW u \in Urls, GoneFile(s, u)
        PROVE  \/ feed = "apple" /\ RunsOn(s, "running", "files", i.todo \ {u}, i.now, i.done)
               \/ RunsOn(s, "errored", "files", i.todo, i.now, i.done)
    <2>1. i.status = "running" /\ i.at = "files"
          /\ \/ feed = "apple" /\ inst' = [inst EXCEPT ![s] = [i EXCEPT !.todo = i.todo \ {u}]]
             \/ inst' = [inst EXCEPT ![s] = [i EXCEPT !.status = "errored"]]
        BY <1>8 DEF GoneFile, Live
    <2>2. CASE feed = "apple" /\ inst' = [inst EXCEPT ![s] = [i EXCEPT !.todo = i.todo \ {u}]]
      <3> DEFINE j == [i EXCEPT !.todo = i.todo \ {u}]
      <3>1. j \in Instance /\ j.status = "running" /\ j.at = "files" /\ j.todo = i.todo \ {u}
            /\ j.now = i.now /\ j.done = i.done
          BY <2>1, <1>1 DEF Instance
      <3>2. QED
          BY <2>2, <3>1, SetRun
    <2>3. CASE inst' = [inst EXCEPT ![s] = [i EXCEPT !.status = "errored"]]
      <3> DEFINE j == [i EXCEPT !.status = "errored"]
      <3>1. j \in Instance /\ j.status = "errored" /\ j.at = "files" /\ j.todo = i.todo
            /\ j.now = i.now /\ j.done = i.done
          BY <2>1, <1>1 DEF Instance
      <3>2. QED
          BY <2>3, <3>1, SetRun
    <2>4. QED
        BY <2>1, <2>2, <2>3
  <1>9. QED
      BY <1>2, <1>3, <1>4, <1>5, <1>6, <1>7, <1>8

(* A check starts an instance anew, and forgets its last. *)
LEMMA StartMoves ==
    ASSUME TypeOK, Start
    PROVE  \/ inst' = inst
           \/ \E s \in Snapshots : /\ RunsOn(s, "running", "plan", {}, {}, {})
                                   /\ inst[s].status = "none" \/ check.rebuild
  <1>1. NewRun \in Instance /\ NewRun.status = "running" /\ NewRun.at = "plan"
        /\ NewRun.todo = {} /\ NewRun.now = {} /\ NewRun.done = {}
      BY DEF NewRun, NoInstance, Instance
  <1>2. PICK s : /\ s = check.snapshot
                 /\ inst' = IF Starts(inst[s].status, check.rebuild)
                            THEN [inst EXCEPT ![s] = NewRun] ELSE inst
      BY DEF Start
  <1>3. CASE s \in Snapshots
      BY <1>1, <1>2, <1>3, SetRun DEF Starts
  <1>4. CASE s \notin Snapshots
      BY <1>2, <1>4 DEF TypeOK
  <1>5. QED
      BY <1>3, <1>4

LEMMA TypeInit == Init => TypeOK
  <1> SUFFICES ASSUME Init PROVE TypeOK
      OBVIOUS
  <1>1. /\ feed \in {"apple", "pixel"} /\ gone \subseteq Urls
        /\ current \in Snapshots /\ pointer \in Snapshots \cup {NoSnapshot}
      BY OtaAssumption DEF Init
  <1>2. check \in [at : {"none", "planned"}, snapshot : Snapshots \cup {NoSnapshot}, rebuild : BOOLEAN]
      BY DEF Init, NoCheck
  <1>3. inst \in [Snapshots -> Instance]
      BY DEF Init, NoInstance, Instance
  <1>4. files \in [Urls -> Listing] /\ indexed \in [Urls -> Listing]
      BY ListsListing DEF Init
  <1>5. QED
      BY <1>1, <1>2, <1>3, <1>4 DEF Init, TypeOK

LEMMA TypeStep == TypeOK /\ [Next]_vars => TypeOK'
  <1> SUFFICES ASSUME TypeOK, [Next]_vars PROVE TypeOK'
      OBVIOUS
  <1> USE DEF TypeOK, stepOnly
  <1>1. ASSUME NEW s \in Snapshots, Move(s) PROVE TypeOK'
      BY <1>1 DEF Move, Live
  <1>2. ASSUME NEW rebuild \in Rebuilds, Fetch(rebuild) PROVE TypeOK'
      BY <1>2, OtaAssumption DEF Fetch
  <1>3. CASE Start
    <2>1. inst' \in [Snapshots -> Instance]
        BY <1>3, StartMoves DEF RunsOn
    <2>2. QED
        BY <1>3, <2>1 DEF Start, NoCheck
  <1>4. ASSUME NEW s \in Snapshots, NEW u \in Urls, WriteFile(s, u) PROVE TypeOK'
    <2>1. inst' \in [Snapshots -> Instance]
        BY <1>4, InstanceMoves DEF RunsOn
    <2>2. QED
        BY <1>4, <2>1, ListedHeld DEF WriteFile
  <1>5. ASSUME NEW s \in Snapshots, NEW u \in Urls, GoneFile(s, u) PROVE TypeOK'
    <2>1. inst' \in [Snapshots -> Instance]
        BY <1>5, InstanceMoves DEF RunsOn
    <2>2. QED
        BY <1>5, <2>1 DEF GoneFile
  <1>6. ASSUME NEW s \in Snapshots, PlanFiles(s) PROVE TypeOK'
    <2>1. Changed(s) \cup Dropped(s) \subseteq Urls
        BY DEF Changed, Dropped
    <2>2. inst' \in [Snapshots -> Instance]
        BY <1>6, InstanceMoves DEF RunsOn
    <2>3. QED
        BY <1>6, <2>2 DEF PlanFiles
  <1>7. ASSUME NEW s \in Snapshots, FileDone(s) PROVE TypeOK'
    <2>1. inst' \in [Snapshots -> Instance]
        BY <1>7, InstanceMoves DEF RunsOn
    <2>2. QED
        BY <1>7, <2>1 DEF FileDone
  <1>8. ASSUME NEW s \in Snapshots, WritePointer(s) PROVE TypeOK'
    <2>1. inst' \in [Snapshots -> Instance]
        BY <1>8, InstanceMoves DEF RunsOn
    <2>2. QED
        BY <1>8, <2>1 DEF WritePointer
  <1>9. ASSUME NEW s \in Snapshots, QueueFiles(s) PROVE TypeOK'
    <2>1. inst' \in [Snapshots -> Instance]
        BY <1>9, InstanceMoves DEF RunsOn
    <2>2. inst[s].done \subseteq Urls
        BY DEF Instance
    <2>3. QED
        BY <1>9, <2>1, <2>2 DEF QueueFiles
  <1>10. ASSUME NEW s \in Snapshots, StepFails(s) PROVE TypeOK'
    <2>1. inst' \in [Snapshots -> Instance]
        BY <1>10, InstanceMoves DEF RunsOn
    <2>2. QED
        BY <1>10, <2>1 DEF StepFails
  <1>11. ASSUME NEW u \in Urls, IndexFile(u) PROVE TypeOK'
      BY <1>11 DEF IndexFile
  <1>12. CASE UNCHANGED vars
      BY <1>12 DEF vars
  <1>13. QED
      BY <1>1, <1>2, <1>3, <1>4, <1>5, <1>6, <1>7, <1>8, <1>9, <1>10, <1>11, <1>12
         DEF Next, Progress, FileStep

(* Every variable holds what it is declared to. *)
THEOREM OtaTypes == Spec => []TypeOK
    BY TypeInit, TypeStep, PTL DEF Spec

--------------------------------------------------------------------------------
(* A file with a record keeps one, and the feed and what is gone stay. *)
Kept ==
    /\ feed' = feed /\ gone' = gone
    /\ \A u \in Urls : files[u] # Missing => files'[u] # Missing

LEMMA KeptStep == TypeOK /\ [Next]_vars => Kept
  <1> SUFFICES ASSUME TypeOK, [Next]_vars PROVE Kept
      OBVIOUS
  <1>1. ASSUME NEW s \in Snapshots, NEW u \in Urls, WriteFile(s, u) PROVE Kept
      BY <1>1, ListedHeld DEF WriteFile, Kept, stepOnly, TypeOK
  <1>2. CASE UNCHANGED <<feed, gone, files>>
      BY <1>2 DEF Kept
  <1>3. ASSUME NEW s \in Snapshots, Move(s) \/ StepFails(s) \/ PlanFiles(s) \/ FileDone(s)
                                    \/ WritePointer(s) \/ QueueFiles(s)
        PROVE  UNCHANGED <<feed, gone, files>>
      BY <1>3 DEF Move, StepFails, PlanFiles, FileDone, WritePointer, QueueFiles, stepOnly
  <1>4. QED
      BY <1>1, <1>2, <1>3 DEF Next, Fetch, Start, Progress, FileStep, GoneFile, IndexFile, stepOnly, vars

LEMMA WantedKept == Kept => \A s, u : Wanted(s, u)' <=> Wanted(s, u)
    BY DEF Kept, Wanted

(* An instance a step leaves as it is. *)
HeldAt(s) == Shape(inst[s]) /\ PlansAll(s) /\ WroteHeld(s)

LEMMA HeldLeft ==
    ASSUME TypeOK, Kept, NEW s \in Snapshots, HeldAt(s), inst'[s] = inst[s]
    PROVE  HeldAt(s)'
  <1>1. inst[s].now \subseteq Urls
      BY DEF TypeOK, Instance
  <1>2. QED
      BY <1>1, WantedKept DEF HeldAt, Shape, PlansAll, WroteHeld, Kept

LEMMA PointerLeft == TypeOK /\ Kept /\ pointer' = pointer /\ PointerHeld => PointerHeld'
    BY WantedKept DEF Kept, PointerHeld

LEMMA HeldInit == Init => HeldInv
    BY DEF Init, HeldInv, Shape, PlansAll, WroteHeld, PointerHeld, NoInstance

(* One instance's step keeps its own part. *)
LEMMA HeldMoves ==
    ASSUME TypeOK, Kept, NEW s \in Snapshots, HeldAt(s), Progress(s) \/ StepFails(s)
    PROVE  HeldAt(s)' /\ \A t \in Snapshots \ {s} : inst'[t] = inst[t]
  <1> DEFINE i == inst[s]
  <1>1. i.now \subseteq Urls /\ i.todo \subseteq Urls
      BY DEF TypeOK, Instance
  <1>w. \A u : Wanted(s, u)' <=> Wanted(s, u)
      BY WantedKept
  <1> USE DEF HeldAt, Shape, PlansAll, WroteHeld
  <1>2. CASE PlanFiles(s)
    <2>1. RunsOn(s, "running", "files", Changed(s) \cup Dropped(s), i.now, i.done) /\ i.at = "plan" /\ files' = files
        BY <1>2, InstanceMoves DEF PlanFiles
    <2>2. \A u \in Urls : Wanted(s, u) /\ files[u] = Missing => u \in Changed(s)
        BY ListsListing DEF Changed
    <2>3. QED
        BY <2>1, <2>2, <1>w DEF RunsOn
  <1>3. ASSUME NEW u \in Urls, WriteFile(s, u) PROVE HeldAt(s)' /\ \A t \in Snapshots \ {s} : inst'[t] = inst[t]
    <2>1. RunsOn(s, "running", "wrote", i.todo, {u}, i.done) /\ i.at = "files" /\ u \in i.todo
        BY <1>3, InstanceMoves DEF WriteFile
    <2>2. files'[u] # Missing
        BY <1>3, ListedHeld DEF WriteFile, TypeOK
    <2>3. QED
        BY <2>1, <2>2, <1>w DEF RunsOn, Kept
  <1>4. ASSUME NEW u \in Urls, GoneFile(s, u) PROVE HeldAt(s)' /\ \A t \in Snapshots \ {s} : inst'[t] = inst[t]
    <2>1. /\ u \in gone /\ files' = files /\ i.at = "files"
          /\ \/ RunsOn(s, "running", "files", i.todo \ {u}, i.now, i.done)
             \/ RunsOn(s, "errored", "files", i.todo, i.now, i.done)
        BY <1>4, InstanceMoves DEF GoneFile
    <2>2. QED
        BY <2>1, <1>w DEF RunsOn, Kept
  <1>5. CASE FileDone(s)
    <2>1. RunsOn(s, "running", "files", i.todo \ i.now, {}, i.done \cup i.now) /\ i.at = "wrote" /\ files' = files
        BY <1>5, InstanceMoves DEF FileDone
    <2>2. QED
        BY <2>1, <1>1, <1>w DEF RunsOn, Kept
  <1>6. CASE WritePointer(s)
    <2>1. RunsOn(s, "running", "pointed", {}, i.now, i.done) /\ i.at = "files" /\ i.todo = {} /\ files' = files
        BY <1>6, InstanceMoves DEF WritePointer
    <2>2. QED
        BY <2>1, <1>w DEF RunsOn, Kept
  <1>7. CASE QueueFiles(s)
    <2>1. RunsOn(s, "complete", "pointed", i.todo, i.now, i.done) /\ i.at = "pointed" /\ files' = files
        BY <1>7, InstanceMoves DEF QueueFiles
    <2>2. QED
        BY <2>1, <1>w DEF RunsOn, Kept
  <1>8. CASE StepFails(s)
    <2>1. /\ files' = files /\ i.status = "running"
          /\ \/ RunsOn(s, "errored", i.at, i.todo, i.now, i.done)
             \/ RunsOn(s, "running", i.at, i.todo, i.now, i.done) /\ i.at \notin {"wrote", "pointed"}
             \/ RunsOn(s, "running", "files", i.todo, {}, i.done) /\ i.at \in {"wrote", "pointed"}
        BY <1>8, InstanceMoves DEF StepFails, Live
    <2>2. QED
        BY <2>1, <1>w DEF RunsOn, Kept
  <1>9. QED
      BY <1>2, <1>3, <1>4, <1>5, <1>6, <1>7, <1>8 DEF Progress, FileStep

LEMMA HeldStep == TypeOK /\ HeldInv /\ [Next]_vars => HeldInv'
  <1> SUFFICES ASSUME TypeOK, HeldInv, [Next]_vars PROVE HeldInv'
      OBVIOUS
  <1>1. Kept
      BY KeptStep
  <1>2. \A s \in Snapshots : HeldAt(s)
      BY DEF HeldInv, HeldAt
  <1>3. CASE UNCHANGED <<inst, pointer>>
      BY <1>1, <1>2, <1>3, HeldLeft, PointerLeft DEF HeldInv, HeldAt
  <1>4. CASE Start
    <2>1. pointer' = pointer
        BY <1>4 DEF Start
    <2>2. ASSUME NEW s \in Snapshots, RunsOn(s, "running", "plan", {}, {}, {}) PROVE HeldInv'
      <3>1. HeldAt(s)'
          BY <2>2 DEF RunsOn, HeldAt, Shape, PlansAll, WroteHeld
      <3>2. \A t \in Snapshots \ {s} : HeldAt(t)'
          BY <2>2, <1>1, <1>2, HeldLeft DEF RunsOn
      <3>3. QED
          BY <3>1, <3>2, <2>1, <1>1, PointerLeft DEF HeldInv, HeldAt
    <2>3. QED
        BY <1>4, <2>1, <2>2, <1>3, StartMoves
  <1>5. ASSUME NEW s \in Snapshots, Progress(s) \/ StepFails(s) PROVE HeldInv'
    <2>1. HeldAt(s)' /\ \A t \in Snapshots \ {s} : inst'[t] = inst[t]
        BY <1>5, <1>1, <1>2, HeldMoves
    <2>2. \A t \in Snapshots : HeldAt(t)'
        BY <2>1, <1>1, <1>2, HeldLeft
    <2>3. PointerHeld'
      <3>1. CASE pointer' = pointer
          BY <3>1, <1>1, PointerLeft DEF HeldInv
      <3>2. CASE WritePointer(s)
        <4>1. pointer' = s /\ inst[s].at = "files" /\ inst[s].todo = {} /\ UNCHANGED <<files, feed, gone>>
            BY <3>2 DEF WritePointer, stepOnly
        <4>2. QED
            BY <4>1, <1>1, <1>2, WantedKept DEF HeldAt, PlansAll, PointerHeld
      <3>3. QED
          BY <3>1, <3>2, <1>5 DEF Progress, FileStep, PlanFiles, WriteFile, GoneFile, FileDone, QueueFiles, StepFails
    <2>4. QED
        BY <2>2, <2>3 DEF HeldInv, HeldAt
  <1>6. QED
      BY <1>3, <1>4, <1>5 DEF Next, Move, Fetch, IndexFile, vars

(* PointerHeld: whichever instances of snapshots overlap, fail, are retried *)
(* or rebuilt, every file the pointer's snapshot lists has a record, or its *)
(* server had taken it down (unit.ts otaSnapshot).                          *)
THEOREM PointerAlwaysHeld == Spec => []PointerHeld
  <1>1. HeldInv => PointerHeld
      BY DEF HeldInv
  <1>2. QED
      BY <1>1, HeldInit, HeldStep, OtaTypes, PTL DEF Spec

--------------------------------------------------------------------------------
(* An instance that is to queue a file, or was and has failed. *)
Owes(s, u) ==
    /\ inst[s].status \in {"running", "errored"}
    /\ u \in WrittenBy(s) \cup inst[s].todo

LEMMA OwedBy ==
    FilesOwed <=> \A u \in Urls : indexed[u] # files[u] =>
                      u \in queued \/ \E s \in Snapshots : Owes(s, u)
    BY DEF FilesOwed, Owes

LEMMA OwesMoves ==
    ASSUME TypeOK, HeldInv, NoneIndexed, NEW s \in Snapshots, Progress(s) \/ StepFails(s),
           NEW u \in Urls, indexed'[u] # files'[u]
    PROVE  /\ files'[u] = files[u] \/ Owes(s, u)'
           /\ Owes(s, u) => Owes(s, u)' \/ u \in queued'
  <1> DEFINE i == inst[s]
  <1>a. Shape(i) /\ indexed' = indexed
      BY DEF HeldInv, Progress, FileStep, PlanFiles, WriteFile, GoneFile, FileDone, WritePointer,
             QueueFiles, StepFails
  <1> USE DEF Owes, WrittenBy
  <1>1. CASE PlanFiles(s)
    <2>1. RunsOn(s, "running", "files", Changed(s) \cup Dropped(s), i.now, i.done) /\ i.at = "plan" /\ files' = files
        BY <1>1, InstanceMoves DEF PlanFiles
    <2>2. QED
        BY <2>1, <1>a DEF RunsOn, Shape
  <1>2. ASSUME NEW v \in Urls, WriteFile(s, v)
        PROVE  /\ files'[u] = files[u] \/ Owes(s, u)'
               /\ (Owes(s, u) => Owes(s, u)' \/ u \in queued')
    <2>1. /\ RunsOn(s, "running", "wrote", i.todo, {v}, i.done) /\ i.at = "files"
          /\ files' = [files EXCEPT ![v] = Listed(s, v)]
        BY <1>2, InstanceMoves DEF WriteFile
    <2>2. u # v => files'[u] = files[u]
        BY <2>1 DEF TypeOK
    <2>3. QED
        BY <2>1, <2>2, <1>a DEF RunsOn, Shape
  <1>3. ASSUME NEW v \in Urls, GoneFile(s, v)
        PROVE  files'[u] = files[u] /\ (Owes(s, u) => Owes(s, u)' \/ u \in queued')
    <2>1. /\ Downloads(s, v) /\ files' = files /\ i.at = "files"
          /\ \/ feed = "apple" /\ RunsOn(s, "running", "files", i.todo \ {v}, i.now, i.done)
             \/ RunsOn(s, "errored", "files", i.todo, i.now, i.done)
        BY <1>3, InstanceMoves DEF GoneFile
    <2>2. feed = "apple" => files[v] = Missing /\ indexed[v] = Missing
        BY <2>1 DEF Downloads, NoneIndexed
    <2>3. feed = "apple" => u # v
        BY <2>1, <2>2, <1>a
    <2>4. QED
        BY <2>1, <2>3 DEF RunsOn
  <1>4. CASE FileDone(s)
    <2>1. RunsOn(s, "running", "files", i.todo \ i.now, {}, i.done \cup i.now) /\ files' = files
        BY <1>4, InstanceMoves DEF FileDone
    <2>2. QED
        BY <2>1 DEF RunsOn
  <1>5. CASE WritePointer(s)
    <2>1. RunsOn(s, "running", "pointed", {}, i.now, i.done) /\ i.todo = {} /\ files' = files
        BY <1>5, InstanceMoves DEF WritePointer
    <2>2. QED
        BY <2>1 DEF RunsOn
  <1>6. CASE QueueFiles(s)
      BY <1>6, <1>a DEF QueueFiles, Shape
  <1>7. CASE StepFails(s)
    <2>1. /\ files' = files
          /\ \/ RunsOn(s, "errored", i.at, i.todo, i.now, i.done)
             \/ RunsOn(s, "running", i.at, i.todo, i.now, i.done)
             \/ RunsOn(s, "running", "files", i.todo, {}, i.done) /\ i.at \in {"wrote", "pointed"}
        BY <1>7, InstanceMoves DEF StepFails
    <2>2. QED
        BY <2>1, <1>a DEF RunsOn, Shape
  <1>8. QED
      BY <1>1, <1>2, <1>3, <1>4, <1>5, <1>6, <1>7 DEF Progress, FileStep

LEMMA OwedInit == Init => OwedInv
    BY DEF Init, OwedInv, NoneIndexed, NoneRebuilt, FilesOwed, NoCheck

LEMMA OwedStep == TypeOK /\ HeldInv /\ OwedInv /\ [Next]_vars => OwedInv'
  <1> SUFFICES ASSUME TypeOK, HeldInv, OwedInv, [Next]_vars PROVE OwedInv'
      OBVIOUS
  <1>1. Kept
      BY KeptStep
  <1>2. ASSUME NEW u \in Urls, IndexFile(u)
        PROVE  /\ indexed'[u] = files[u] /\ \A v \in Urls \ {u} : indexed'[v] = indexed[v]
               /\ queued' = queued \ {u} /\ UNCHANGED <<files, inst, check>>
      BY <1>2 DEF IndexFile, TypeOK
  <1>3. NoneIndexed'
    <2>1. CASE indexed' = indexed
        BY <2>1, <1>1 DEF OwedInv, NoneIndexed, Kept
    <2>2. ASSUME NEW u \in Urls, IndexFile(u) PROVE NoneIndexed'
        BY <1>2, <2>2 DEF OwedInv, NoneIndexed
    <2>3. QED
        BY <2>1, <2>2 DEF Next, Move, Progress, StepFails, Fetch, Start, FileStep, PlanFiles,
           WriteFile, GoneFile, FileDone, WritePointer, QueueFiles, vars
  <1>4. NoneRebuilt'
    <2>1. ASSUME NEW rebuild \in Rebuilds, Fetch(rebuild) PROVE NoneRebuilt'
        BY <2>1, OtaAssumption DEF Fetch, NoneRebuilt, NoRebuild
    <2>2. CASE Start
        BY <2>2 DEF Start, NoCheck, NoneRebuilt
    <2>3. CASE UNCHANGED check
        BY <2>3 DEF OwedInv, NoneRebuilt
    <2>4. QED
        BY <2>1, <2>2, <2>3 DEF Next, Move, Progress, StepFails, FileStep, PlanFiles, WriteFile,
           GoneFile, FileDone, WritePointer, QueueFiles, IndexFile, vars, stepOnly
  <1>5. ASSUME NoRebuild PROVE FilesOwed'
    <2>1. \A u \in Urls : indexed[u] # files[u] => u \in queued \/ \E s \in Snapshots : Owes(s, u)
        BY <1>5, OwedBy DEF OwedInv
    <2>2. SUFFICES ASSUME NEW u \in Urls, indexed'[u] # files'[u]
                   PROVE  u \in queued' \/ \E s \in Snapshots : Owes(s, u)'
        BY DEF FilesOwed, Owes
    <2>3. CASE UNCHANGED <<inst, files, indexed, queued>>
        BY <2>1, <2>2, <2>3 DEF Owes, WrittenBy
    <2>4. CASE Start
      <3>1. UNCHANGED <<files, indexed, queued>> /\ ~check.rebuild
          BY <2>4, <1>5 DEF Start, OwedInv, NoneRebuilt
      <3>2. ASSUME NEW s \in Snapshots, inst[s].status = "none", RunsOn(s, "running", "plan", {}, {}, {})
            PROVE  u \in queued' \/ \E t \in Snapshots : Owes(t, u)'
        <4>1. \A t \in Snapshots \ {s} : inst'[t] = inst[t]
            BY <3>2 DEF RunsOn
        <4>2. QED
            BY <4>1, <3>1, <3>2, <2>1, <2>2 DEF Owes, WrittenBy
      <3>3. QED
          BY <2>4, <2>3, <3>1, <3>2, StartMoves
    <2>5. ASSUME NEW s \in Snapshots, Progress(s) \/ StepFails(s)
          PROVE  u \in queued' \/ \E t \in Snapshots : Owes(t, u)'
      <3>1. /\ files'[u] = files[u] \/ Owes(s, u)'
            /\ Owes(s, u) => Owes(s, u)' \/ u \in queued'
          BY <2>2, <2>5, OwesMoves DEF OwedInv
      <3>2. \A t \in Snapshots \ {s} : inst'[t] = inst[t]
          BY <2>5, <1>1, HeldMoves DEF HeldInv, HeldAt
      <3>3. queued \subseteq queued' /\ indexed' = indexed
          BY <2>5 DEF Progress, FileStep, PlanFiles, WriteFile, GoneFile, FileDone, WritePointer,
                      QueueFiles, StepFails
      <3>4. CASE files'[u] = files[u] /\ u \notin queued
        <4>1. PICK t \in Snapshots : Owes(t, u)
            BY <3>3, <3>4, <2>1, <2>2
        <4>2. QED
            BY <4>1, <3>1, <3>2 DEF Owes, WrittenBy
      <3>5. QED
          BY <3>1, <3>3, <3>4
    <2>6. ASSUME NEW v \in Urls, IndexFile(v)
          PROVE  u \in queued' \/ \E t \in Snapshots : Owes(t, u)'
        BY <2>1, <2>2, <2>6, <1>2 DEF Owes, WrittenBy
    <2>7. QED
        BY <2>3, <2>4, <2>5, <2>6 DEF Next, Move, Fetch, vars
  <1>6. QED
      BY <1>3, <1>4, <1>5 DEF OwedInv

LEMMA OwedInvariant == Spec => []OwedInv
    BY OwedInit, OwedStep, HeldInit, HeldStep, OtaTypes, PTL DEF Spec

(* FilesOwed, as long as no check is asked to rebuild: a file the index was *)
(* not written from is queued, or an instance has it yet to queue, or one   *)
(* that ended in failure wrote it, whatever of an instance's steps fail,    *)
(* and whichever instances write one file.                                  *)
THEOREM FilesAlwaysOwed ==
    ASSUME NoRebuild
    PROVE  Spec => []FilesOwed
  <1>1. OwedInv => FilesOwed
      BY DEF OwedInv
  <1>2. QED
      BY <1>1, OwedInvariant, PTL

================================================================================
