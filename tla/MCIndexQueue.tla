---------------------------- MODULE MCIndexQueue ----------------------------
(* Instances of IndexQueue for TLC: who ships what, on which platform. *)
EXTENDS IndexQueue

CONSTANTS ios, android, s1, s2

OnePlatform == {ios}
TwoPlatforms == {ios, android}

(* Every record is an iOS one. *)
AllIos == [r \in Records |-> ios]
SourcesIos == [s \in Sources |-> ios]

(* The bucket's key order: release order, or its reverse. *)
InOrder == [r \in Records |-> r]
Reversed == [r \in Records |-> 10 - r]

(* Odd records and s1 are iOS's, even ones and s2 Android's. *)
Alternate == [r \in Records |-> IF r % 2 = 1 THEN ios ELSE android]
SourcesApart == [s \in Sources |-> IF s = s1 THEN ios ELSE android]

(* A record's first version ships every source of its platform; its second, *)
(* when it has one, only s1.                                                *)
ShipsFewer ==
  [r \in Records |-> [v \in 1 .. MaxVersion |->
     {s \in Sources : Family[s] = PlatformOf[r] /\ (v = 1 \/ s = s1)}]]

(* Rewritten records, repeated deliveries and moved devices in any pairs: a *)
(* bound, no more than two of these things happening in a behaviour.  No    *)
(* action that Fairness names is one of them.                               *)
Rewrites == Cardinality({r \in Records : record[r] > 1})
TwoAtMost == Rewrites + dups + Cardinality({p \in Platforms : devices[p] > 0}) <= 2

=============================================================================
