------------------------------- MODULE Labels -------------------------------
(* The weekly instance that names codes no feed names: of each kind, the    *)
(* next few unnamed codes are searched for, one step each, and named or     *)
(* noted as missed, while a feed or a person may name one meanwhile.  A     *)
(* code is of one platform: a modem family two platforms ship is listed     *)
(* once for each, takes two places and is searched for twice, which is left *)
(* out.                                                                     *)
EXTENDS Naturals, Sequences, FiniteSets, SequencesExt, Sorting

CONSTANTS Codes,        \* naturals, in a query's order
          KindOf,       \* code -> its kind
          KindOrder,    \* LABEL_CANDIDATE_KINDS
          PerKind,      \* LABELLER.perKind
          AgainAfter,   \* SEARCH_AGAIN_AFTER_DAYS, in weeks
          StepTries,    \* a step's attempts
          MaxWeeks, MaxStepFailures

ASSUME LabelsAssumption ==
  /\ Codes \subseteq Nat /\ IsFiniteSet(Codes) /\ KindOf \in [Codes -> {KindOrder[i] : i \in DOMAIN KindOrder}]
  /\ {PerKind, AgainAfter, StepTries} \subseteq Nat \ {0} /\ {MaxWeeks, MaxStepFailures} \subseteq Nat

VARIABLES
  week,       \* of the last instance
  label,      \* code -> the origin of its name, or "none"
  missed,     \* code -> the week of its last search in vain, 0 for none
  inst,       \* the instance: where it is, its kind, what is left and listed of it
  unpurged,   \* names were written since the last purge
  excused,    \* ...by an attempt that failed, or before a listing or purge that did
  passed,     \* code -> code -> ends of its searches while this one waits
  failed      \* attempts failed so far

labelVars == <<week, label, missed, inst, unpurged, excused, passed, failed>>

Ended == [at |-> "ended", kind |-> 1, todo |-> <<>>, listed |-> {}, attempt |-> 1,
          named |-> FALSE, failures |-> FALSE]
NoPasses == [d \in Codes |-> 0]

LabelsInit ==
  /\ week = 0 /\ inst = Ended /\ unpurged = FALSE /\ excused = FALSE /\ failed = 0
  /\ label = [c \in Codes |-> "none"] /\ missed = [c \in Codes |-> 0]
  /\ passed = [c \in Codes |-> NoPasses]

-----------------------------------------------------------------------------
(* Which codes are searched for. *)

(* Unnamed, and never searched for or not lately.                           *)
Wanted(c) == label[c] = "none" /\ (missed[c] = 0 \/ missed[c] + AgainAfter <= week)

\* Mutant: by code alone.
SearchedBeforeByCode(c, d) == c < d
(* A query's order: never searched first, then the oldest miss, then code.  *)
SearchedBefore(c, d) == missed[c] < missed[d] \/ (missed[c] = missed[d] /\ c < d)

LabelCandidates(k) ==
  LET wanted == Sorted({c \in Codes : KindOf[c] = k /\ Wanted(c)}, SearchedBefore)
  IN SubSeq(wanted, 1, IF Len(wanted) < PerKind THEN Len(wanted) ELSE PerKind)

-----------------------------------------------------------------------------
(* What is written. *)

(* An origin's trust: a name's; a carrier's only swaps the first two.       *)
TrustRank == [o \in {"feed", "human", "model", "none"} |->
                CASE o = "feed" -> 0 [] o = "human" -> 1 [] o = "model" -> 2 [] o = "none" -> 3]

(* Unless what is held is trusted more.                                     *)
WriteLabels(c, origin) ==
  label' = IF TrustRank[origin] <= TrustRank[label[c]] THEN [label EXCEPT ![c] = origin] ELSE label

(* A check's syncLabels, or a person's own writeLabels.                     *)
NamedElsewhere(c, origin) ==
  /\ TrustRank[origin] < TrustRank[label[c]]
  /\ WriteLabels(c, origin)
  /\ passed' = [passed EXCEPT ![c] = NoPasses]
  /\ UNCHANGED <<week, missed, inst, unpurged, excused, failed>>

-----------------------------------------------------------------------------
(* The instance. *)

StartWeek ==
  /\ inst.at = "ended" /\ week < MaxWeeks
  /\ week' = week + 1
  /\ inst' = [Ended EXCEPT !.at = "list"]
  /\ UNCHANGED <<label, missed, unpurged, excused, passed, failed>>

ListUnnamed ==
  /\ inst.at = "list"
  /\ LET todo == LabelCandidates(KindOrder[inst.kind]) IN
       /\ inst' = [inst EXCEPT !.at = "name", !.todo = todo, !.listed = ToSet(todo), !.attempt = 1]
       /\ passed' = [c \in Codes |-> IF c \in ToSet(todo) THEN NoPasses ELSE passed[c]]
  /\ UNCHANGED <<week, label, missed, unpurged, excused, failed>>

(* A candidate's step is over: its result is kept, or its failure caught.   *)
NextCandidate == [inst EXCEPT !.todo = Tail(@), !.attempt = 1]

(* Its search came to an end: who waits has let it by.                      *)
LetBy(d) ==
  passed' = [c \in Codes |->
    IF label'[c] # "none" THEN NoPasses
    ELSE IF KindOf[c] = KindOf[d] /\ c \notin inst.listed /\ Wanted(c)
         THEN [passed[c] EXCEPT ![d] = @ + 1] ELSE passed[c]]

(* nameCode finds a name...                                                 *)
Name(c) ==
  /\ inst.at = "name" /\ inst.todo # <<>> /\ c = Head(inst.todo)
  /\ WriteLabels(c, "model") /\ unpurged' = (unpurged \/ label' # label)
  /\ inst' = [NextCandidate EXCEPT !.named = TRUE]
  /\ LetBy(c)
  /\ UNCHANGED <<week, missed, excused, failed>>

(* ...or none.                                                              *)
Miss(c) ==
  /\ inst.at = "name" /\ inst.todo # <<>> /\ c = Head(inst.todo)
  /\ missed' = [missed EXCEPT ![c] = week]
  /\ inst' = NextCandidate
  /\ UNCHANGED <<week, label, unpurged, excused, failed>>
  /\ LetBy(c)

(* An attempt fails, perhaps once it wrote; the last one's failure is kept  *)
(* for the end.                                                             *)
FailName(c, wrote) ==
  /\ inst.at = "name" /\ inst.todo # <<>> /\ c = Head(inst.todo) /\ failed < MaxStepFailures
  /\ failed' = failed + 1
  /\ IF wrote = "name" THEN WriteLabels(c, "model") ELSE UNCHANGED label
  /\ missed' = IF wrote = "miss" THEN [missed EXCEPT ![c] = week] ELSE missed
  /\ unpurged' = (unpurged \/ label' # label) /\ excused' = (excused \/ label' # label)
  /\ passed' = IF label' # label THEN [passed EXCEPT ![c] = NoPasses] ELSE passed
  /\ inst' = IF inst.attempt < StepTries THEN [inst EXCEPT !.attempt = @ + 1]
             ELSE [NextCandidate EXCEPT !.failures = TRUE]
  /\ UNCHANGED week

(* A listing or a purge fails for good: the instance errors.                *)
FailStep ==
  /\ inst.at \in {"list", "purge"} /\ failed < MaxStepFailures
  /\ failed' = failed + 1 /\ excused' = unpurged
  /\ inst' = Ended
  /\ UNCHANGED <<week, label, missed, unpurged, passed>>

\* Mutant: an instance with failures ends in error at once.
PurgesUnlessFailed == inst.named /\ ~inst.failures
Purges == inst.named

EndKind ==
  /\ inst.at = "name" /\ inst.todo = <<>>
  /\ inst' = IF inst.kind < Len(KindOrder) THEN [inst EXCEPT !.at = "list", !.kind = @ + 1]
             ELSE IF Purges THEN [inst EXCEPT !.at = "purge"] ELSE Ended
  /\ UNCHANGED <<week, label, missed, unpurged, excused, passed, failed>>

Purge ==
  /\ inst.at = "purge"
  /\ inst' = Ended /\ unpurged' = FALSE /\ excused' = FALSE
  /\ UNCHANGED <<week, label, missed, passed, failed>>

LabelsNext ==
  \/ \E c \in Codes, o \in {"feed", "human"} : NamedElsewhere(c, o)
  \/ StartWeek \/ ListUnnamed \/ FailStep \/ EndKind \/ Purge
  \/ \E c \in Codes : Name(c) \/ Miss(c) \/ \E wrote \in {"nothing", "name", "miss"} : FailName(c, wrote)

LabelsSpec == LabelsInit /\ [][LabelsNext]_labelVars

-----------------------------------------------------------------------------
(* Properties. *)

(* While a code waits, unnamed and due, each other code of its kind comes   *)
(* to the end of a search once at most: however many there are to each      *)
(* week's few places, and however searches fail, all are searched in turn   *)
(* but for those that go on failing (labelCandidates's order).              *)
SearchedInTurn == \A c, d \in Codes : passed[c][d] <= 1

(* An instance that ends, in error too, leaves no name unpurged, unless the *)
(* step that wrote one failed, or a listing or the purge did (the failures  *)
(* a week collects, and throws last).                                       *)
NamesPurged == unpurged /\ inst.at = "ended" => excused
=============================================================================
