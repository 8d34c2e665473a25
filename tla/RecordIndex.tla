---------------------------- MODULE RecordIndex ----------------------------
(* What the index promises of each record in the bucket, whatever its queue *)
(* does: its copies and its row follow the record forward, one after the    *)
(* other, and the one that follows only ever comes to say what the other    *)
(* already does.  A release's copies lead its row (releaseRows); an OTA     *)
(* file's row leads its copies (otaRows).                                   *)
EXTENDS Naturals

CONSTANTS Records, Releases

VARIABLES stored,  \* record -> the version the bucket holds
          copied,  \* record -> the version whose copies the index holds
          rowed    \* record -> the version whose row it holds

indexVars == <<stored, copied, rowed>>

Init ==
  /\ stored = [r \in Records |-> 0]
  /\ copied = [r \in Records |-> 0]
  /\ rowed = [r \in Records |-> 0]

Store(r) ==
  /\ stored' = [stored EXCEPT ![r] = @ + 1]
  /\ UNCHANGED <<copied, rowed>>

(* The half written first moves on to a version the bucket has held since.  *)
LeadCopies(r) ==
  /\ r \in Releases
  /\ copied' \in {[copied EXCEPT ![r] = v] : v \in copied[r] + 1 .. stored[r]}
  /\ UNCHANGED <<stored, rowed>>
LeadRow(r) ==
  /\ r \notin Releases
  /\ rowed' \in {[rowed EXCEPT ![r] = v] : v \in rowed[r] + 1 .. stored[r]}
  /\ UNCHANGED <<stored, copied>>

FollowRow(r) ==
  /\ r \in Releases
  /\ rowed' = [rowed EXCEPT ![r] = copied[r]]
  /\ UNCHANGED <<stored, copied>>
FollowCopies(r) ==
  /\ r \notin Releases
  /\ copied' = [copied EXCEPT ![r] = rowed[r]]
  /\ UNCHANGED <<stored, rowed>>

Next == \E r \in Records : Store(r) \/ LeadCopies(r) \/ LeadRow(r) \/ FollowRow(r) \/ FollowCopies(r)

Spec == Init /\ [][Next]_indexVars
=============================================================================
