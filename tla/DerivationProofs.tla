--------------------------- MODULE DerivationProofs ---------------------------
(****************************************************************************)
(* What rows say once derived, for any sources, builds, codes and rows.     *)
(****************************************************************************)
EXTENDS Linking, Timelines, PixelParts, Labels, Pages, FiniteSetTheorems, SequenceTheorems,
        WellFoundedInduction, TLAPS

(* A strict total order of S, as the set of its pairs.                      *)
Orders(R, S) ==
  /\ \A x \in S : <<x, x>> \notin R
  /\ \A x, y \in S : x = y \/ <<x, y>> \in R \/ <<y, x>> \in R
  /\ \A x, y, z \in S : <<x, y>> \in R /\ <<y, z>> \in R => <<x, z>> \in R

Below(R, S, x) == {y \in S : <<y, x>> \in R}

(* A sequence of S under R: every element once, in order.                   *)
InOrder(s, R, S) ==
  /\ s \in [1 .. Cardinality(S) -> S] /\ Cardinality(S) \in Nat
  /\ \A x \in S : \E i \in 1 .. Cardinality(S) : s[i] = x
  /\ \A i, j \in 1 .. Cardinality(S) : i < j <=> <<s[i], s[j]>> \in R

-----------------------------------------------------------------------------
(* The least of some numbers. *)

LEMMA NatWellFounded == IsWellFoundedOn({p \in Nat \X Nat : p[1] < p[2]}, Nat)
  BY NatLessThanWellFounded DEF OpToRel

LEMMA LeastOf ==
  ASSUME NEW S \in SUBSET Nat, S # {}
  PROVE  \E x \in S : \A y \in S : x <= y
<1>. DEFINE R == {p \in Nat \X Nat : p[1] < p[2]}
<1>1. IsWellFoundedOn(R, Nat)
  BY NatWellFounded
<1>. HIDE DEF R
<1>2. \E x \in S : \A y \in S : ~ (<<y, x>> \in R)
  BY <1>1, WFMin
<1>3. \A x, y \in S : x \in Nat /\ y \in Nat /\ <<y, x>>[1] = y /\ <<y, x>>[2] = x
  OBVIOUS
<1>4. \E x \in S : \A y \in S : ~ (y < x)
  BY <1>2, <1>3 DEF R
<1> QED BY <1>3, <1>4

-----------------------------------------------------------------------------
(* Sorted puts a finite set in order. *)

LEMMA RanksRise ==
  ASSUME NEW S, IsFiniteSet(S), NEW R, Orders(R, S),
         NEW x \in S, NEW y \in S, <<x, y>> \in R
  PROVE  Cardinality(Below(R, S, x)) < Cardinality(Below(R, S, y))
<1>. DEFINE X == Below(R, S, x)
            Y == Below(R, S, y)
<1>1. X \in SUBSET Y /\ Y \in SUBSET S /\ x \in Y /\ x \notin X
  BY DEF Below, Orders
<1>2. IsFiniteSet(Y)
  BY <1>1, FS_Subset
<1>3. Cardinality(X) \in Nat /\ Cardinality(Y) \in Nat /\ Cardinality(X) <= Cardinality(Y)
  BY <1>1, <1>2, FS_Subset, FS_CardinalityType
<1>4. Cardinality(X) # Cardinality(Y)
  BY <1>1, <1>2, FS_Subset
<1> QED BY <1>3, <1>4

(* Every place is one element's. *)
LEMMA RanksCover ==
  ASSUME NEW S, IsFiniteSet(S), NEW R, Orders(R, S)
  PROVE  /\ Cardinality(S) \in Nat
         /\ \A x \in S : Cardinality(Below(R, S, x)) \in 0 .. Cardinality(S) - 1
         /\ \A i \in 1 .. Cardinality(S) : \E x \in S : Cardinality(Below(R, S, x)) = i - 1
<1>. DEFINE N == Cardinality(S)
            T == 0 .. N - 1
            rank == [x \in S |-> Cardinality(Below(R, S, x))]
<1>1. N \in Nat
  BY FS_CardinalityType
<1>2. ASSUME NEW x \in S PROVE Cardinality(Below(R, S, x)) \in T
  <2>1. Below(R, S, x) \in SUBSET S /\ x \notin Below(R, S, x)
    BY DEF Below, Orders
  <2>2. Cardinality(Below(R, S, x)) \in Nat /\ Cardinality(Below(R, S, x)) <= N
    BY <2>1, FS_Subset, FS_CardinalityType
  <2>3. Cardinality(Below(R, S, x)) # N
    BY <2>1, FS_Subset
  <2> QED BY <1>1, <2>2, <2>3
<1>3. rank \in [S -> T]
  BY <1>2
<1>4. \A x, y \in S : rank[x] = rank[y] => x = y
  <2> SUFFICES ASSUME NEW x \in S, NEW y \in S, x # y PROVE rank[x] # rank[y]
    OBVIOUS
  <2>1. rank[x] \in Int /\ rank[y] \in Int
    BY <1>1, <1>2
  <2>2. CASE <<x, y>> \in R
    BY <2>1, <2>2, RanksRise
  <2>3. CASE <<y, x>> \in R
    BY <2>1, <2>3, RanksRise
  <2> QED BY <2>2, <2>3 DEF Orders
<1>5. IsFiniteSet(T) /\ Cardinality(T) = N
  <2>1. IsFiniteSet(T) /\ Cardinality(T) = IF 0 > N - 1 THEN 0 ELSE N - 1 - 0 + 1
    <3>1. 0 \in Int /\ N - 1 \in Int
      BY <1>1
    <3> QED BY <3>1, FS_Interval
  <2> QED BY <1>1, <2>1
<1>6. rank \in Injection(S, T)
  <2> HIDE DEF rank, T
  <2>1. IsInjective(rank)
    BY <1>3, <1>4 DEF IsInjective
  <2> QED BY <1>3, <2>1 DEF Injection
<1>7. rank \in Surjection(S, T)
  <2> HIDE DEF rank, T
  <2> QED BY <1>5, <1>6, FS_Injection
<1>8. ASSUME NEW i \in 1 .. N PROVE \E x \in S : Cardinality(Below(R, S, x)) = i - 1
  <2>1. i - 1 \in T
    BY <1>1
  <2>2. \A t \in T : \E x \in S : rank[x] = t
    <3> HIDE DEF rank, T
    <3> QED BY <1>7 DEF Surjection
  <2>3. PICK x \in S : rank[x] = i - 1
    BY <2>1, <2>2
  <2> QED BY <2>3
<1> QED BY <1>1, <1>2, <1>8

(* Some element comes before every other. *)
LEMMA FirstIn ==
  ASSUME NEW S, IsFiniteSet(S), S # {}, NEW R, Orders(R, S)
  PROVE  \E x \in S : \A y \in S \ {x} : <<x, y>> \in R
<1>1. Cardinality(S) \in Nat /\ Cardinality(S) # 0
  BY FS_CardinalityType, FS_EmptySet
<1>2. 1 \in 1 .. Cardinality(S) /\ 1 - 1 = 0
  BY <1>1
<1>3. PICK x \in S : Cardinality(Below(R, S, x)) = 0
  BY <1>2, RanksCover
<1>4. Below(R, S, x) \in SUBSET S
  BY DEF Below
<1>5. IsFiniteSet(Below(R, S, x))
  BY <1>4, FS_Subset
<1>6. Below(R, S, x) = {}
  BY <1>3, <1>5, FS_EmptySet
<1>7. \A y \in S : <<y, x>> \notin R
  BY <1>6 DEF Below
<1> QED BY <1>7 DEF Orders

(* Elements picked by their places are in order. *)
LEMMA PicksInOrder ==
  ASSUME NEW S, IsFiniteSet(S), NEW R, Orders(R, S), NEW s,
         s \in [1 .. Cardinality(S) -> S],
         \A i \in 1 .. Cardinality(S) : Cardinality(Below(R, S, s[i])) = i - 1
  PROVE  InOrder(s, R, S)
<1>. DEFINE N == Cardinality(S)
            B(x) == Cardinality(Below(R, S, x))
<1>1. N \in Nat /\ \A x \in S : B(x) \in 0 .. N - 1
  BY RanksCover
<1>2. \A i \in 1 .. N : s[i] \in S /\ B(s[i]) = i - 1
  OBVIOUS
<1>3. \A x, y \in S : <<x, y>> \in R => B(x) < B(y)
  BY RanksRise
<1>. HIDE DEF B, N
<1>4. \A x, y \in S : x = y \/ <<x, y>> \in R \/ <<y, x>> \in R
  BY DEF Orders
<1>5. ASSUME NEW i \in 1 .. N, NEW j \in 1 .. N PROVE i < j <=> <<s[i], s[j]>> \in R
  <2>1. s[i] \in S /\ s[j] \in S /\ B(s[i]) = i - 1 /\ B(s[j]) = j - 1 /\ i \in Int /\ j \in Int
    BY <1>1, <1>2
  <2>2. <<s[i], s[j]>> \in R => i < j
    BY <2>1, <1>3
  <2>3. <<s[j], s[i]>> \in R => j < i
    BY <2>1, <1>3
  <2>4. s[i] = s[j] => i = j
    BY <2>1
  <2> QED BY <2>1, <2>2, <2>3, <2>4, <1>4
<1>6. ASSUME NEW x \in S PROVE \E i \in 1 .. N : s[i] = x
  <2>1. B(x) \in 0 .. N - 1
    BY <1>1
  <2>. DEFINE i == B(x) + 1
  <2>2. i \in 1 .. N /\ i - 1 = B(x)
    BY <1>1, <2>1
  <2>. HIDE DEF i
  <2>3. s[i] \in S /\ B(s[i]) = B(x)
    BY <1>2, <2>2
  <2>4. B(x) \in Int /\ ~(B(x) < B(x))
    BY <1>1, <2>1
  <2>5. s[i] = x
    BY <2>3, <2>4, <1>3, <1>4
  <2> QED BY <2>2, <2>5
<1>7. s \in [1 .. N -> S]
  BY DEF N
<1> QED BY <1>1, <1>5, <1>6, <1>7 DEF InOrder, N

-----------------------------------------------------------------------------
(* Pixel builds: types. *)

Tables == {"release", "modems", "configs"}
Modem == [firmware : {c.firmware : c \in Bodies}, devices : SUBSET Devices]
Configurations == {c.configs : c \in Bodies} \cup {0}
PartJob == [part : Parts, record : Bodies, devices : Seq(Devices), modems : SUBSET Modem,
            todo : SUBSET Tables, at : {"rows", "routes"}]

PartTypes ==
  /\ day \in [Devices -> Nat] /\ has5g \in [Devices -> {"null", "yes", "no"}]
  /\ record \in [Parts -> Bodies \cup {NoRecord}]
  /\ messages \subseteq Parts /\ \A p \in messages : record[p] # NoRecord
  /\ listed \in [Builds -> Seq(Devices)] /\ modems \in [Builds -> SUBSET Modem]
  /\ configs \in [Builds -> [Devices -> Configurations]]
  /\ job # NoJob => job \in PartJob
  /\ moved \in BOOLEAN

DayOrder == {p \in Devices \X Devices : NewestFirst(p[1], p[2])}

LEMMA PartOf ==
  ASSUME NEW p \in Parts
  PROVE  p[1] \in Builds /\ p[2] \in Devices /\ p = <<p[1], p[2]>> /\ p[1] \in Nat /\ p[2] \in Nat
  BY PixelPartsAssumption DEF Builds, Devices

LEMMA BuildsDevicesNat == Builds \subseteq Nat /\ Devices \subseteq Nat
  BY PixelPartsAssumption DEF Builds, Devices

LEMMA DaysOrder ==
  ASSUME day \in [Devices -> Nat], NEW S \in SUBSET Devices
  PROVE  Orders(DayOrder, S)
<1>1. \A x, y \in S : <<x, y>> \in DayOrder <=> NewestFirst(x, y)
  BY DEF DayOrder
<1>2. \A x \in S : x \in Nat /\ day[x] \in Nat
  BY BuildsDevicesNat
<1>3. \A x \in S : ~NewestFirst(x, x)
  BY <1>2 DEF NewestFirst
<1>4. \A x, y \in S : x = y \/ NewestFirst(x, y) \/ NewestFirst(y, x)
  BY <1>2 DEF NewestFirst
<1>5. \A x, y, z \in S : NewestFirst(x, y) /\ NewestFirst(y, z) => NewestFirst(x, z)
  BY <1>2 DEF NewestFirst
<1> QED BY <1>1, <1>3, <1>4, <1>5 DEF Orders

LEMMA DevicesSorted ==
  ASSUME day \in [Devices -> Nat], NEW S \in SUBSET Devices, IsFiniteSet(S)
  PROVE  InOrder(Sorted(S, NewestFirst), DayOrder, S)
<1>. DEFINE N == Cardinality(S)
            B(x) == {y \in S : NewestFirst(y, x)}
            s == [n \in 1 .. N |-> CHOOSE x \in S : Cardinality(B(x)) = n - 1]
<1>1. Orders(DayOrder, S)
  BY DaysOrder
<1>2. \A x \in S : B(x) = Below(DayOrder, S, x)
  BY DEF Below, DayOrder
<1>3. Sorted(S, NewestFirst) = s
  BY DEF Sorted
<1>. HIDE DEF B
<1>4. \A i \in 1 .. N : \E x \in S : Cardinality(B(x)) = i - 1
  BY <1>1, <1>2, RanksCover
<1>5. \A i \in 1 .. N : s[i] \in S /\ Cardinality(B(s[i])) = i - 1
  BY <1>4
<1>6. s \in [1 .. N -> S]
  BY <1>5
<1>. HIDE DEF s
<1>7. \A i \in 1 .. N : Cardinality(Below(DayOrder, S, s[i])) = i - 1
  BY <1>2, <1>5
<1>8. InOrder(s, DayOrder, S)
  BY <1>1, <1>6, <1>7, PicksInOrder
<1> QED BY <1>3, <1>8

LEMMA ListedFinite ==
  ASSUME NEW s \in Seq(Devices)
  PROVE  /\ ToSet(s) \in SUBSET Devices
         /\ IsFiniteSet(ToSet(s))
<1>. DEFINE T == {s[i] : i \in DOMAIN s}
<1>1. s \in [1 .. Len(s) -> Devices] /\ Len(s) \in Nat
  OBVIOUS
<1>2. s \in Surjection(1 .. Len(s), T)
  BY <1>1 DEF Surjection
<1>3. IsFiniteSet(1 .. Len(s))
  BY <1>1, FS_Interval
<1> QED BY <1>1, <1>2, <1>3, FS_Surjection DEF ToSet

(* What is sorted of a build's devices and one more. *)
LEMMA JoinedDevices ==
  ASSUME PartTypes, NEW b \in Builds, NEW d \in Devices,
         NEW s, s = Sorted(DevicesOf(b) \cup {d}, NewestFirst)
  PROVE  /\ InOrder(s, DayOrder, DevicesOf(b) \cup {d})
         /\ s \in Seq(Devices) /\ s # <<>>
         /\ ToSet(s) = DevicesOf(b) \cup {d}
<1>. DEFINE S == DevicesOf(b) \cup {d}
<1>1. DevicesOf(b) \in SUBSET Devices /\ IsFiniteSet(DevicesOf(b))
  BY ListedFinite DEF PartTypes, DevicesOf, ToSet
<1>2. S \in SUBSET Devices /\ IsFiniteSet(S)
  BY <1>1, FS_AddElement
<1>3. InOrder(s, DayOrder, S)
  BY <1>2, DevicesSorted DEF PartTypes
<1>4. d \in S
  OBVIOUS
<1>. HIDE DEF S
<1>5. s \in [1 .. Cardinality(S) -> S] /\ Cardinality(S) \in Nat
      /\ \A x \in S : \E i \in 1 .. Cardinality(S) : s[i] = x
  BY <1>3 DEF InOrder
<1>6. s \in Seq(Devices) /\ DOMAIN s = 1 .. Cardinality(S)
  <2>. DEFINE N == Cardinality(S)
  <2>1. N \in Nat /\ s \in [1 .. N -> S]
    BY <1>5
  <2>. HIDE DEF N
  <2>2. s \in [1 .. N -> Devices]
    BY <1>2, <2>1
  <2>3. s \in Seq(Devices) /\ DOMAIN s = 1 .. N
    BY <2>1, <2>2, SeqDef
  <2> QED BY <2>3 DEF N
<1>7. s # <<>>
  BY <1>4, <1>5
<1>8. ToSet(s) = S
  BY <1>5, <1>6 DEF ToSet
<1> QED BY <1>3, <1>6, <1>7, <1>8 DEF S

(* A device is in one modem, of some firmware. *)
InOneModem(e, mods, firmware) ==
  /\ \E m \in mods : e \in m.devices
  /\ \A m \in mods : e \in m.devices => m.firmware = firmware
  /\ \A m, n \in mods : e \in m.devices /\ e \in n.devices => m = n

LEMMA LeftModems ==
  ASSUME PartTypes, NEW b \in Builds, NEW d \in Devices
  PROVE  /\ Left(b, d) \in SUBSET Modem
         /\ \A n \in Left(b, d) : d \notin n.devices /\ n.devices # {}
         /\ \A n \in Left(b, d) : \E m \in modems[b] :
              n = [firmware |-> m.firmware, devices |-> m.devices \ {d}]
         /\ \A m \in modems[b] : m.devices \ {d} # {} =>
              [firmware |-> m.firmware, devices |-> m.devices \ {d}] \in Left(b, d)
<1>1. modems[b] \in SUBSET Modem
  BY DEF PartTypes
<1>2. \A m \in modems[b] : /\ [m EXCEPT !.devices = @ \ {d}] = [firmware |-> m.firmware, devices |-> m.devices \ {d}]
                           /\ [firmware |-> m.firmware, devices |-> m.devices \ {d}] \in Modem
  BY <1>1 DEF Modem
<1>3. Left(b, d) = {n \in {[firmware |-> m.firmware, devices |-> m.devices \ {d}] : m \in modems[b]} : n.devices # {}}
  BY <1>2 DEF Left
<1>4. Left(b, d) \in SUBSET Modem
  BY <1>2, <1>3
<1>5. \A n \in Left(b, d) : \E m \in modems[b] :
        n = [firmware |-> m.firmware, devices |-> m.devices \ {d}] /\ n.devices # {}
  BY <1>3
<1>6. \A n \in Left(b, d) : d \notin n.devices /\ n.devices # {}
  BY <1>5
<1>7. \A m \in modems[b] : m.devices \ {d} # {} =>
        [firmware |-> m.firmware, devices |-> m.devices \ {d}] \in Left(b, d)
  BY <1>3
<1> QED BY <1>4, <1>5, <1>6, <1>7

(* What becomes of a build's modems when a device joins them. *)
LEMMA JoinedModems ==
  ASSUME PartTypes, NEW b \in Builds, NEW d \in Devices, NEW c \in Bodies, NEW joined \in WithPart(b, d, c)
  PROVE  /\ joined \in SUBSET Modem
         /\ InOneModem(d, joined, c.firmware)
         /\ \A m \in joined : d \in m.devices => \A e \in m.devices \ {d} : configs[b][e] = c.configs
         /\ \A m \in joined : m.devices = {d} \/ \E n \in modems[b] : m.devices \ {d} \subseteq n.devices
         /\ \A e \in Devices \ {d} : \A firmware :
              InOneModem(e, modems[b], firmware) => InOneModem(e, joined, firmware)
<1>. DEFINE left == Left(b, d)
            own == [firmware |-> c.firmware, devices |-> {d}]
            same == {m \in left : Shares(b, m, c)}
<1>1. /\ left \in SUBSET Modem
      /\ \A n \in left : d \notin n.devices /\ n.devices # {}
      /\ \A n \in left : \E m \in modems[b] : n = [firmware |-> m.firmware, devices |-> m.devices \ {d}]
      /\ \A m \in modems[b] : m.devices \ {d} # {} => [firmware |-> m.firmware, devices |-> m.devices \ {d}] \in left
  BY LeftModems
<1>2. own \in Modem
  BY DEF Modem
<1>3. \A m, n \in Modem : m.firmware = n.firmware /\ m.devices = n.devices => m = n
  BY DEF Modem
<1>4. modems[b] \in SUBSET Modem
  BY DEF PartTypes
<1>5. \/ joined = left \cup {own}
      \/ \E m \in same : joined = (left \ {m}) \cup {[m EXCEPT !.devices = @ \cup {d}]}
  BY DEF WithPart
<1>. HIDE DEF left
<1>6. ASSUME NEW e \in Devices \ {d}, NEW firmware, InOneModem(e, modems[b], firmware)
      PROVE  InOneModem(e, left, firmware)
  <2>1. PICK m \in modems[b] : e \in m.devices
    BY <1>6 DEF InOneModem
  <2>2. [firmware |-> m.firmware, devices |-> m.devices \ {d}] \in left
    BY <1>1, <2>1
  <2>3. \E n \in left : e \in n.devices
    BY <2>1, <2>2
  <2>4. \A n \in left : e \in n.devices => n.firmware = firmware
    BY <1>1, <1>6 DEF InOneModem
  <2>5. ASSUME NEW n \in left, NEW o \in left, e \in n.devices, e \in o.devices PROVE n = o
    <3>1. PICK m1 \in modems[b] : n = [firmware |-> m1.firmware, devices |-> m1.devices \ {d}]
      BY <1>1
    <3>2. PICK m2 \in modems[b] : o = [firmware |-> m2.firmware, devices |-> m2.devices \ {d}]
      BY <1>1
    <3>3. e \in m1.devices /\ e \in m2.devices
      BY <2>5, <3>1, <3>2
    <3>4. m1 = m2
      BY <1>6, <3>3 DEF InOneModem
    <3> QED BY <3>1, <3>2, <3>4
  <2> QED BY <2>3, <2>4, <2>5 DEF InOneModem
<1>7. CASE joined = left \cup {own}
  <2>1. joined \in SUBSET Modem
    BY <1>1, <1>2, <1>7
  <2>3. \A m \in joined : d \in m.devices => m = own
    BY <1>1, <1>7
  <2>2. InOneModem(d, joined, c.firmware)
    <3>1. own \in joined /\ d \in own.devices /\ own.firmware = c.firmware
      BY <1>7
    <3> HIDE DEF own
    <3> QED BY <2>3, <3>1 DEF InOneModem
  <2>4. \A m \in joined : m.devices = {d} \/ \E n \in modems[b] : m.devices \ {d} \subseteq n.devices
    BY <1>1, <1>7
  <2>5. ASSUME NEW e \in Devices \ {d}, NEW firmware, InOneModem(e, modems[b], firmware)
        PROVE  InOneModem(e, joined, firmware)
    <3>1. InOneModem(e, left, firmware)
      BY <1>6, <2>5
    <3>2. e \notin own.devices
      OBVIOUS
    <3> HIDE DEF own
    <3> QED BY <1>7, <3>1, <3>2 DEF InOneModem
  <2> QED BY <2>1, <2>2, <2>3, <2>4, <2>5
<1>8. CASE \E m \in same : joined = (left \ {m}) \cup {[m EXCEPT !.devices = @ \cup {d}]}
  <2>. PICK m \in same : joined = (left \ {m}) \cup {[m EXCEPT !.devices = @ \cup {d}]}
    BY <1>8
  <2>. DEFINE wide == [firmware |-> m.firmware, devices |-> m.devices \cup {d}]
  <2>1. m \in left /\ m \in Modem /\ m.firmware = c.firmware /\ \A e \in m.devices : configs[b][e] = c.configs
    BY <1>1 DEF Shares
  <2>2. wide \in Modem /\ joined = (left \ {m}) \cup {wide}
    BY <2>1 DEF Modem
  <2>3. joined \in SUBSET Modem
    BY <1>1, <2>2
  <2>4. \A n \in joined : d \in n.devices => n = wide
    BY <1>1, <2>2
  <2>5. wide \in joined /\ d \in wide.devices /\ wide.firmware = c.firmware
    BY <2>1, <2>2
  <2>6. InOneModem(d, joined, c.firmware)
    <3> HIDE DEF wide
    <3> QED BY <2>4, <2>5 DEF InOneModem
  <2>7. \A n \in joined : d \in n.devices => \A e \in n.devices \ {d} : configs[b][e] = c.configs
    BY <2>1, <2>4
  <2>8. \A n \in joined : n.devices = {d} \/ \E o \in modems[b] : n.devices \ {d} \subseteq o.devices
    BY <1>1, <2>1, <2>2
  <2>9. ASSUME NEW e \in Devices \ {d}, NEW firmware, InOneModem(e, modems[b], firmware)
        PROVE  InOneModem(e, joined, firmware)
    <3>1. InOneModem(e, left, firmware)
      BY <1>6, <2>9
    <3>2. e \in wide.devices <=> e \in m.devices
      OBVIOUS
    <3>3. wide.firmware = m.firmware
      OBVIOUS
    <3> HIDE DEF wide
    <3> QED BY <2>1, <2>2, <3>1, <3>2, <3>3 DEF InOneModem
  <2> QED BY <2>3, <2>6, <2>7, <2>8, <2>9
<1> QED BY <1>5, <1>7, <1>8

-----------------------------------------------------------------------------
(* Pixel builds: every part's rows, once nothing is owed for it. *)

JobBuild == job.part[1]
JobDevice == job.part[2]

(* How far the message in hand is. *)
JobHeld == job # NoJob =>
  /\ job.part \in messages
  /\ ToSet(job.devices) = DevicesOf(JobBuild) \cup {JobDevice}
  /\ job.devices # <<>>
  /\ job.at = "routes" => job.todo = {}
  /\ "release" \notin job.todo => listed[JobBuild] = job.devices
  /\ "modems" \notin job.todo => modems[JobBuild] = job.modems
  /\ "configs" \notin job.todo => configs[JobBuild][JobDevice] = job.record.configs

Unowed(p) == record[p] # NoRecord /\ p \notin messages \cup dead

(* A modem's devices have records, and those not owed the same              *)
(* configurations.                                                          *)
Agreed(b, mods) ==
  \A m \in mods : \A d \in m.devices :
    /\ <<b, d>> \in Parts /\ record[<<b, d>>] # NoRecord
    /\ \A e \in m.devices :
         Unowed(<<b, d>>) /\ Unowed(<<b, e>>) => configs[b][d] = configs[b][e]

RowsHeld ==
  /\ \A p \in Parts : Unowed(p) =>
       /\ p[2] \in DevicesOf(p[1]) /\ configs[p[1]][p[2]] = record[p].configs
       /\ InOneModem(p[2], modems[p[1]], record[p].firmware)
  /\ \A b \in Builds : Agreed(b, modems[b])

(* What is to be written keeps what other messages wrote, and is true of    *)
(* this one's record once its configurations are.                           *)
JobModems == job # NoJob =>
  /\ Agreed(JobBuild, job.modems)
  /\ \A q \in Parts : q[1] = JobBuild /\ Unowed(q) => InOneModem(q[2], job.modems, record[q].firmware)
  /\ InOneModem(JobDevice, job.modems, job.record.firmware)
  /\ \A m \in job.modems : JobDevice \in m.devices =>
       \A e \in m.devices \ {JobDevice} : configs[JobBuild][e] = job.record.configs

PartsInv == PartTypes /\ JobHeld /\ RowsHeld /\ JobModems

(* A message's job keeps its type and the rows it was taken with. *)
LEMMA JobShape ==
  ASSUME PartTypes, job # NoJob
  PROVE  /\ job \in PartJob /\ job.part \in Parts /\ JobBuild \in Builds /\ JobDevice \in Devices
         /\ job.part = <<JobBuild, JobDevice>> /\ job.record \in Bodies /\ job.devices \in Seq(Devices)
         /\ job.modems \in SUBSET Modem
<1>1. job \in PartJob /\ job.part \in Parts /\ job.record \in Bodies /\ job.devices \in Seq(Devices)
      /\ job.modems \in SUBSET Modem
  BY DEF PartTypes, PartJob
<1> QED BY <1>1, PartOf DEF JobBuild, JobDevice

LEMMA RowsUnchanged ==
  ASSUME UNCHANGED listed, NEW b \in Builds PROVE DevicesOf(b)' = DevicesOf(b)
BY DEF DevicesOf

LEMMA JobUnchanged ==
  ASSUME PartTypes, JobHeld, UNCHANGED <<job, listed, modems, configs>>, messages \subseteq messages'
  PROVE  JobHeld'
<1> SUFFICES ASSUME job # NoJob PROVE JobHeld'
  BY DEF JobHeld
<1>1. JobBuild' = JobBuild /\ JobDevice' = JobDevice
  BY DEF JobBuild, JobDevice
<1>2. DevicesOf(JobBuild)' = DevicesOf(JobBuild)
  BY <1>1 DEF DevicesOf
<1>. HIDE DEF JobBuild, JobDevice
<1> QED BY <1>1, <1>2 DEF JobHeld

LEMMA TypesSyncDevices ==
  ASSUME PartTypes, JobHeld, NEW d \in Devices, SyncDevices(d) PROVE PartTypes' /\ JobHeld'
<1>1. day' \in [Devices -> Nat] /\ moved' \in BOOLEAN
  <2>1. PICK to \in LaunchDays[d] : day' = [day EXCEPT ![d] = to]
    BY DEF SyncDevices
  <2>2. to \in Nat
    BY PixelPartsAssumption
  <2> QED BY <2>1, <2>2 DEF SyncDevices, PartTypes
<1>2. UNCHANGED <<has5g, record, messages, job, listed, modems, configs>>
  BY DEF SyncDevices
<1>3. PartTypes'
  BY <1>1, <1>2 DEF PartTypes
<1> QED BY <1>2, <1>3, JobUnchanged

LEMMA TypesWritePart ==
  ASSUME PartTypes, JobHeld, NEW p \in Parts, WritePart(p) PROVE PartTypes' /\ JobHeld'
<1>1. PICK c \in Bodies \ {record[p]} : record' = [record EXCEPT ![p] = c]
  BY DEF WritePart
<1>2. record' \in [Parts -> Bodies \cup {NoRecord}] /\ record'[p] # NoRecord
  BY <1>1, PixelPartsAssumption DEF PartTypes
<1>3. \A q \in Parts \ {p} : record'[q] = record[q]
  BY <1>1 DEF PartTypes
<1>4. UNCHANGED <<day, has5g, job, listed, modems, configs, moved>> /\ messages' = messages \cup {p}
  BY DEF WritePart
<1>5. PartTypes'
  BY <1>2, <1>3, <1>4 DEF PartTypes
<1> QED BY <1>4, <1>5, JobUnchanged

LEMMA TypesTakePart ==
  ASSUME PartTypes, NEW p \in Parts, TakePart(p) PROVE PartTypes' /\ JobHeld'
<1>1. p \in messages /\ UNCHANGED <<day, has5g, record, messages, listed, modems, configs, moved>>
  BY DEF TakePart
<1>2. PICK joined \in WithPart(p[1], p[2], record[p]) :
        job' = [part |-> p, record |-> record[p], devices |-> Sorted(DevicesOf(p[1]) \cup {p[2]}, NewestFirst),
                modems |-> joined, todo |-> {"release", "modems", "configs"}, at |-> "rows"]
  BY DEF TakePart
<1>. DEFINE s == Sorted(DevicesOf(p[1]) \cup {p[2]}, NewestFirst)
<1>3. p[1] \in Builds /\ p[2] \in Devices /\ record[p] \in Bodies
  BY <1>1, PartOf DEF PartTypes
<1>4. s \in Seq(Devices) /\ s # <<>> /\ ToSet(s) = DevicesOf(p[1]) \cup {p[2]}
  BY <1>3, JoinedDevices
<1>5. joined \in SUBSET Modem
  BY <1>2, <1>3, JoinedModems
<1>. HIDE DEF s
<1>6. job' = [part |-> p, record |-> record[p], devices |-> s, modems |-> joined,
              todo |-> {"release", "modems", "configs"}, at |-> "rows"]
  BY <1>2 DEF s
<1>7. job' \in PartJob
  BY <1>3, <1>4, <1>5, <1>6 DEF PartJob, Tables
<1>8. PartTypes'
  BY <1>1, <1>7 DEF PartTypes
<1>9. JobHeld'
  <2>1. JobBuild' = p[1] /\ JobDevice' = p[2]
    BY <1>6 DEF JobBuild, JobDevice
  <2>2. DevicesOf(JobBuild)' = DevicesOf(p[1])
    BY <1>1, <2>1 DEF DevicesOf
  <2> QED BY <1>1, <1>4, <1>6, <2>1, <2>2 DEF JobHeld
<1> QED BY <1>8, <1>9

LEMMA TypesRefusePart ==
  ASSUME PartTypes, NEW p \in Parts, RefusePart(p) PROVE PartTypes' /\ JobHeld'
BY DEF PartTypes, JobHeld, RefusePart

(* What a table's transaction leaves of the rows and of the job. *)
LEMMA TablePut ==
  ASSUME PartTypes, NEW table \in Tables, PutTable(table)
  PROVE  /\ job # NoJob /\ job.at = "rows" /\ table \in job.todo
         /\ job' = [job EXCEPT !.todo = @ \ {table}] /\ job' \in PartJob /\ job' # NoJob
         /\ job'.part = job.part /\ job'.record = job.record /\ job'.devices = job.devices
         /\ job'.modems = job.modems /\ job'.todo = job.todo \ {table} /\ job'.at = job.at
         /\ \A b \in Builds : listed'[b] = IF table = "release" /\ b = JobBuild THEN job.devices ELSE listed[b]
         /\ \A b \in Builds : modems'[b] = IF table = "modems" /\ b = JobBuild THEN job.modems ELSE modems[b]
         /\ \A b \in Builds : \A d \in Devices :
              configs'[b][d] = IF table = "configs" /\ b = JobBuild /\ d = JobDevice
                               THEN job.record.configs ELSE configs[b][d]
         /\ PartTypes'
         /\ UNCHANGED <<day, has5g, record, messages, routes, dead, moved>>
<1>1. /\ job # NoJob /\ job.at = "rows" /\ table \in job.todo
      /\ job' = [job EXCEPT !.todo = @ \ {table}]
      /\ UNCHANGED <<day, has5g, record, messages, routes, dead, moved>>
  BY DEF PutTable
<1>2. /\ job \in PartJob /\ job.part \in Parts /\ JobBuild \in Builds /\ JobDevice \in Devices
      /\ job.record \in Bodies /\ job.devices \in Seq(Devices) /\ job.modems \in SUBSET Modem
  BY <1>1, JobShape
<1>3. /\ job' \in PartJob
      /\ job'.part = job.part /\ job'.record = job.record /\ job'.devices = job.devices
      /\ job'.modems = job.modems /\ job'.todo = job.todo \ {table} /\ job'.at = job.at
  BY <1>1, <1>2 DEF PartJob
<1>4. job' # NoJob
  <2>1. job'.part \in Parts /\ NoJob.part = <<>>
    BY <1>2, <1>3 DEF NoJob
  <2>2. <<>> \notin Parts
    <3>1. Parts \subseteq Nat \X Nat
      BY PixelPartsAssumption
    <3> QED BY <3>1
  <2> QED BY <2>1, <2>2
<1>5. /\ listed' = IF table = "release" THEN [listed EXCEPT ![JobBuild] = job.devices] ELSE listed
      /\ modems' = IF table = "modems" THEN [modems EXCEPT ![JobBuild] = job.modems] ELSE modems
      /\ configs' = IF table = "configs" THEN [configs EXCEPT ![JobBuild][JobDevice] = job.record.configs] ELSE configs
  BY DEF PutTable, JobBuild, JobDevice
<1>6. job.record.configs \in Configurations
  BY <1>2 DEF Configurations
<1>. HIDE DEF Configurations
<1>7. \A b \in Builds : listed'[b] = IF table = "release" /\ b = JobBuild THEN job.devices ELSE listed[b]
  BY <1>2, <1>5 DEF PartTypes
<1>8. \A b \in Builds : modems'[b] = IF table = "modems" /\ b = JobBuild THEN job.modems ELSE modems[b]
  BY <1>2, <1>5 DEF PartTypes
<1>9. \A b \in Builds : \A d \in Devices :
        configs'[b][d] = IF table = "configs" /\ b = JobBuild /\ d = JobDevice
                         THEN job.record.configs ELSE configs[b][d]
  BY <1>2, <1>5 DEF PartTypes
<1>10. listed' \in [Builds -> Seq(Devices)] /\ modems' \in [Builds -> SUBSET Modem]
  BY <1>2, <1>5 DEF PartTypes
<1>11. configs' \in [Builds -> [Devices -> Configurations]]
  BY <1>2, <1>5, <1>6 DEF PartTypes
<1>12. PartTypes'
  BY <1>1, <1>3, <1>10, <1>11 DEF PartTypes
<1> QED BY <1>1, <1>3, <1>4, <1>7, <1>8, <1>9, <1>12

LEMMA TypesPutTable ==
  ASSUME PartTypes, JobHeld, NEW table \in Tables, PutTable(table) PROVE PartTypes' /\ JobHeld'
<1>1. /\ job # NoJob /\ job.at = "rows" /\ table \in job.todo /\ JobBuild \in Builds /\ JobDevice \in Devices
      /\ job.devices \in Seq(Devices)
  BY TablePut, JobShape
<1>2. JobBuild' = JobBuild /\ JobDevice' = JobDevice
  BY TablePut DEF JobBuild, JobDevice
<1>3. DevicesOf(JobBuild)' = IF table = "release" THEN DevicesOf(JobBuild) \cup {JobDevice} ELSE DevicesOf(JobBuild)
  <2>1. listed'[JobBuild] = IF table = "release" THEN job.devices ELSE listed[JobBuild]
    BY <1>1, TablePut
  <2> QED BY <1>1, <1>2, <2>1 DEF DevicesOf, JobHeld, ToSet
<1>4. ToSet(job.devices)' = (DevicesOf(JobBuild) \cup {JobDevice})'
  <2>1. ToSet(job.devices)' = ToSet(job.devices)
    BY TablePut
  <2>2. ToSet(job.devices) = DevicesOf(JobBuild) \cup {JobDevice}
    BY <1>1 DEF JobHeld
  <2> QED BY <1>2, <1>3, <2>1, <2>2
<1>5. JobHeld'
  BY <1>1, <1>2, <1>4, TablePut DEF JobHeld
<1> QED BY <1>5, TablePut

LEMMA TypesJudgeRadios ==
  ASSUME PartTypes, JobHeld, JudgeRadios PROVE PartTypes' /\ JobHeld'
<1>1. /\ job # NoJob /\ job.at = "rows" /\ job.todo = {} /\ job' = [job EXCEPT !.at = "routes"]
      /\ UNCHANGED <<day, record, messages, listed, modems, configs, moved>>
  BY DEF JudgeRadios
<1>2. /\ job' \in PartJob
      /\ job'.part = job.part /\ job'.record = job.record /\ job'.devices = job.devices
      /\ job'.modems = job.modems /\ job'.todo = job.todo /\ job'.at = "routes"
  BY <1>1, JobShape DEF PartJob
<1>3. has5g' \in [Devices -> {"null", "yes", "no"}]
  BY DEF JudgeRadios, PartTypes, Radio
<1>4. JobBuild' = JobBuild /\ JobDevice' = JobDevice
  BY <1>2 DEF JobBuild, JobDevice
<1>5. DevicesOf(JobBuild)' = DevicesOf(JobBuild)
  BY <1>1, <1>4 DEF DevicesOf
<1>6. PartTypes'
  BY <1>1, <1>2, <1>3 DEF PartTypes
<1> QED BY <1>1, <1>2, <1>4, <1>5, <1>6 DEF JobHeld

LEMMA TypesRoutePixels ==
  ASSUME PartTypes, JobHeld, RoutePixels PROVE PartTypes' /\ JobHeld'
<1>1. /\ job' = NoJob /\ messages' \in SUBSET messages
      /\ UNCHANGED <<day, has5g, record, listed, modems, configs, moved>>
  BY DEF RoutePixels
<1> QED BY <1>1 DEF PartTypes, JobHeld

LEMMA TypesFailPart ==
  ASSUME PartTypes, JobHeld, FailPart PROVE PartTypes' /\ JobHeld'
BY DEF PartTypes, JobHeld, FailPart

LEMMA TypesInit == PartsInit => PartTypes /\ JobHeld
<1> SUFFICES ASSUME PartsInit PROVE PartTypes /\ JobHeld
  OBVIOUS
<1>1. /\ day \in [Devices -> Nat] /\ has5g \in [Devices -> {"null", "yes", "no"}]
      /\ record \in [Parts -> Bodies \cup {NoRecord}] /\ messages = {} /\ job = NoJob /\ moved \in BOOLEAN
  BY DEF PartsInit
<1>2. modems \in [Builds -> SUBSET Modem]
  BY DEF PartsInit
<1>3. configs \in [Builds -> [Devices -> Configurations]]
  BY DEF PartsInit, Configurations
<1>4. listed \in [Builds -> Seq(Devices)]
  BY DEF PartsInit
<1> QED BY <1>1, <1>2, <1>3, <1>4 DEF PartTypes, JobHeld

LEMMA TypesStutter == PartTypes /\ JobHeld /\ UNCHANGED partVars => PartTypes' /\ JobHeld'
<1> SUFFICES ASSUME PartTypes, JobHeld, UNCHANGED partVars PROVE PartTypes' /\ JobHeld'
  OBVIOUS
<1>1. PartTypes'
  BY DEF partVars, PartTypes
<1> QED BY <1>1, JobUnchanged DEF partVars

LEMMA TypesNext == PartTypes /\ JobHeld /\ [PartsNext]_partVars => PartTypes' /\ JobHeld'
<1> SUFFICES ASSUME PartTypes, JobHeld, PartsNext PROVE PartTypes' /\ JobHeld'
  BY TypesStutter
<1>1. CASE \E d \in Devices : SyncDevices(d)
  BY <1>1, TypesSyncDevices
<1>2. CASE \E p \in Parts : WritePart(p) \/ TakePart(p) \/ RefusePart(p)
  BY <1>2, TypesWritePart, TypesTakePart, TypesRefusePart
<1>3. CASE \E table \in {"release", "modems", "configs"} : PutTable(table)
  BY <1>3, TypesPutTable DEF Tables
<1>4. CASE JudgeRadios \/ RoutePixels \/ FailPart
  BY <1>4, TypesJudgeRadios, TypesRoutePixels, TypesFailPart
<1> QED BY <1>1, <1>2, <1>3, <1>4 DEF PartsNext

(* Owing more takes nothing from what is held. *)
OwesMore ==
  \A p \in Parts :
    /\ record[p] # NoRecord => record'[p] # NoRecord
    /\ Unowed(p)' => Unowed(p) /\ record'[p] = record[p]

LEMMA RowsStillHeld ==
  ASSUME PartTypes, RowsHeld, OwesMore, UNCHANGED <<listed, modems, configs>>
  PROVE  RowsHeld'
<1>1. ASSUME NEW b \in Builds PROVE Agreed(b, modems[b])'
  <2>1. Agreed(b, modems[b])
    BY DEF RowsHeld
  <2>. DEFINE mods == modems[b]
  <2>2. mods' = mods
    OBVIOUS
  <2> QED BY <2>1, <2>2 DEF OwesMore, Agreed
<1>2. ASSUME NEW p \in Parts, Unowed(p)'
      PROVE  (/\ p[2] \in DevicesOf(p[1]) /\ configs[p[1]][p[2]] = record[p].configs
              /\ InOneModem(p[2], modems[p[1]], record[p].firmware))'
  <2>1. Unowed(p) /\ record'[p] = record[p]
    BY <1>2 DEF OwesMore
  <2>2. /\ p[2] \in DevicesOf(p[1]) /\ configs[p[1]][p[2]] = record[p].configs
        /\ InOneModem(p[2], modems[p[1]], record[p].firmware)
    BY <2>1 DEF RowsHeld
  <2>3. DevicesOf(p[1])' = DevicesOf(p[1])
    BY DEF DevicesOf
  <2> QED BY <2>1, <2>2, <2>3
<1> QED BY <1>1, <1>2 DEF RowsHeld

LEMMA JobStillHeld ==
  ASSUME PartTypes, JobModems, OwesMore, UNCHANGED configs,
         job' # NoJob => /\ job # NoJob /\ job'.part = job.part /\ job'.record = job.record
                         /\ job'.modems = job.modems
  PROVE  JobModems'
<1> SUFFICES ASSUME job' # NoJob PROVE JobModems'
  BY DEF JobModems
<1>1. job # NoJob /\ job'.record = job.record /\ job'.modems = job.modems
      /\ JobBuild' = JobBuild /\ JobDevice' = JobDevice /\ JobBuild \in Builds
  BY JobShape DEF JobBuild, JobDevice
<1>. HIDE DEF JobBuild, JobDevice
<1>2. Agreed(JobBuild, job.modems)'
  <2>1. Agreed(JobBuild, job.modems)
    BY <1>1 DEF JobModems
  <2>. DEFINE b == JobBuild
              mods == job.modems
  <2>2. b' = b /\ mods' = mods
    BY <1>1
  <2> QED BY <2>1, <2>2 DEF OwesMore, Agreed
<1>3. ASSUME NEW q \in Parts, q[1] = JobBuild, Unowed(q)'
      PROVE  InOneModem(q[2], job.modems, record[q].firmware)'
  <2>1. Unowed(q) /\ record'[q] = record[q]
    BY <1>3 DEF OwesMore
  <2>2. InOneModem(q[2], job.modems, record[q].firmware)
    BY <1>1, <1>3, <2>1 DEF JobModems
  <2> QED BY <1>1, <2>1, <2>2
<1>4. InOneModem(JobDevice, job.modems, job.record.firmware)'
  <2>1. InOneModem(JobDevice, job.modems, job.record.firmware)
    BY <1>1 DEF JobModems
  <2> QED BY <1>1, <2>1
<1> QED BY <1>1, <1>2, <1>3, <1>4 DEF JobModems

(* Nothing but a message's end settles what is owed. *)
LEMMA OwesMoreFeed ==
  ASSUME PartTypes,
         \/ \E d \in Devices : SyncDevices(d)
         \/ \E p \in Parts : WritePart(p) \/ TakePart(p) \/ RefusePart(p)
         \/ \E table \in Tables : PutTable(table)
         \/ JudgeRadios \/ FailPart \/ UNCHANGED partVars
  PROVE  OwesMore
<1>1. ASSUME UNCHANGED <<record, messages, dead>> PROVE OwesMore
  BY <1>1 DEF OwesMore, Unowed
<1>2. ASSUME NEW p \in Parts, WritePart(p) PROVE OwesMore
  <2>1. PICK c \in Bodies \ {record[p]} : record' = [record EXCEPT ![p] = c]
    BY <1>2 DEF WritePart
  <2>2. record'[p] # NoRecord /\ \A q \in Parts \ {p} : record'[q] = record[q]
    BY <2>1, PixelPartsAssumption DEF PartTypes
  <2>3. messages' = messages \cup {p} /\ dead' = dead
    BY <1>2 DEF WritePart
  <2> QED BY <2>2, <2>3 DEF OwesMore, Unowed
<1>3. ASSUME NEW p \in Parts, RefusePart(p) PROVE OwesMore
  BY <1>3 DEF RefusePart, OwesMore, Unowed
<1>4. ASSUME NEW d \in Devices, SyncDevices(d) PROVE OwesMore
  BY <1>1, <1>4 DEF SyncDevices
<1>5. ASSUME NEW p \in Parts, TakePart(p) PROVE OwesMore
  BY <1>1, <1>5 DEF TakePart
<1>6. ASSUME NEW table \in Tables, PutTable(table) PROVE OwesMore
  BY <1>1, <1>6 DEF PutTable
<1>7. JudgeRadios \/ FailPart \/ UNCHANGED partVars => OwesMore
  BY <1>1 DEF JudgeRadios, FailPart, partVars
<1> QED BY <1>2, <1>3, <1>4, <1>5, <1>6, <1>7

LEMMA RowsTakePart ==
  ASSUME PartsInv, NEW p \in Parts, TakePart(p) PROVE RowsHeld' /\ JobModems'
<1>1. /\ p \in messages /\ p[1] \in Builds /\ p[2] \in Devices /\ record[p] \in Bodies
      /\ UNCHANGED <<record, messages, dead, listed, modems, configs>>
  BY PartOf DEF TakePart, PartsInv, PartTypes
<1>2. RowsHeld'
  BY OwesMoreFeed, RowsStillHeld, <1>1 DEF PartsInv
<1>3. PICK joined \in WithPart(p[1], p[2], record[p]) :
        job' = [part |-> p, record |-> record[p], devices |-> Sorted(DevicesOf(p[1]) \cup {p[2]}, NewestFirst),
                modems |-> joined, todo |-> {"release", "modems", "configs"}, at |-> "rows"]
  BY DEF TakePart
<1>. DEFINE b == p[1]
            d == p[2]
            c == record[p]
<1>4. JobBuild' = b /\ JobDevice' = d /\ job'.modems = joined /\ job'.record = c
  BY <1>3 DEF JobBuild, JobDevice
<1>5. /\ joined \in SUBSET Modem
      /\ InOneModem(d, joined, c.firmware)
      /\ \A m \in joined : d \in m.devices => \A e \in m.devices \ {d} : configs[b][e] = c.configs
      /\ \A m \in joined : m.devices = {d} \/ \E n \in modems[b] : m.devices \ {d} \subseteq n.devices
      /\ \A e \in Devices \ {d} : \A firmware :
           InOneModem(e, modems[b], firmware) => InOneModem(e, joined, firmware)
  BY <1>1, <1>3, JoinedModems DEF PartsInv
<1>6. p = <<b, d>> /\ ~Unowed(p) /\ record[p] # NoRecord
  BY <1>1, PartOf DEF Unowed, PartsInv, PartTypes
<1>7. Agreed(b, modems[b])
  BY <1>1 DEF PartsInv, RowsHeld
<1>8. \A q \in Parts : Unowed(q)' <=> Unowed(q)
  BY <1>1 DEF Unowed
<1>. HIDE DEF b, d, c
<1>9. Agreed(b, joined)
  <2> SUFFICES ASSUME NEW m \in joined, NEW x \in m.devices
               PROVE  /\ <<b, x>> \in Parts /\ record[<<b, x>>] # NoRecord
                      /\ \A e \in m.devices :
                           Unowed(<<b, x>>) /\ Unowed(<<b, e>>) => configs[b][x] = configs[b][e]
    BY DEF Agreed
  <2>1. m.devices = {d} \/ \E n \in modems[b] : m.devices \ {d} \subseteq n.devices
    BY <1>5
  <2>2. \A n \in modems[b] : \A y \in n.devices :
          /\ <<b, y>> \in Parts /\ record[<<b, y>>] # NoRecord
          /\ \A e \in n.devices : Unowed(<<b, y>>) /\ Unowed(<<b, e>>) => configs[b][y] = configs[b][e]
    BY <1>7 DEF Agreed
  <2> QED BY <1>6, <2>1, <2>2
<1>10. Agreed(JobBuild, job.modems)'
  <2>1. Agreed(b, joined)'
    BY <1>1, <1>8, <1>9 DEF Agreed
  <2> QED BY <1>4, <2>1
<1>11. ASSUME NEW q \in Parts, q[1] = b, Unowed(q)'
       PROVE  InOneModem(q[2], joined, record'[q].firmware)
  <2>1. Unowed(q) /\ q # p
    BY <1>6, <1>8, <1>11
  <2>2. q[2] \in Devices \ {d}
    BY <1>6, <1>11, <2>1, PartOf
  <2>3. InOneModem(q[2], modems[b], record[q].firmware)
    BY <1>11, <2>1 DEF PartsInv, RowsHeld
  <2> QED BY <1>1, <1>5, <2>2, <2>3
<1>12. JobModems'
  BY <1>1, <1>4, <1>5, <1>10, <1>11 DEF JobModems
<1> QED BY <1>2, <1>12

LEMMA RowsPutTable ==
  ASSUME PartsInv, NEW table \in Tables, PutTable(table) PROVE RowsHeld' /\ JobModems'
<1>1. /\ job # NoJob /\ JobBuild \in Builds /\ JobDevice \in Devices /\ job.part = <<JobBuild, JobDevice>>
      /\ job.part \in messages
  BY TablePut, JobShape DEF PartsInv, JobHeld
<1>2. JobBuild' = JobBuild /\ JobDevice' = JobDevice
  BY TablePut DEF PartsInv, JobBuild, JobDevice
<1>3. ~Unowed(job.part)
  BY <1>1 DEF Unowed
<1>4. /\ UNCHANGED <<record, messages, dead>> /\ job'.modems = job.modems /\ job'.record = job.record
      /\ \A q \in Parts : Unowed(q)' <=> Unowed(q)
  BY TablePut DEF PartsInv, Unowed
<1>. DEFINE b == JobBuild
            d == JobDevice
<1>5. /\ b \in Builds /\ d \in Devices /\ ~Unowed(<<b, d>>) /\ b' = b /\ d' = d
      /\ job.part = <<b, d>>
  BY <1>1, <1>2, <1>3
<1>6. \A a \in Builds : \A e \in Devices : (a # b \/ e # d) => configs'[a][e] = configs[a][e]
  BY TablePut DEF PartsInv
<1>7. \A a \in Builds : modems'[a] = modems[a] \/ (a = b /\ modems'[a] = job.modems)
  BY TablePut DEF PartsInv
<1>8. \A a \in Builds : DevicesOf(a) \subseteq DevicesOf(a)'
  <2>1. \A a \in Builds : listed'[a] = listed[a] \/ (a = b /\ listed'[a] = job.devices)
    BY TablePut DEF PartsInv
  <2>2. ToSet(job.devices) = DevicesOf(b) \cup {d}
    BY <1>1 DEF PartsInv, JobHeld
  <2> HIDE DEF b, d
  <2> QED BY <2>1, <2>2 DEF DevicesOf, ToSet
<1>9. JobModems /\ RowsHeld
  BY DEF PartsInv
<1>10. job' # NoJob
  BY TablePut DEF PartsInv
<1>11. \A a \in Builds : modems[a] \in SUBSET Modem
  BY DEF PartsInv, PartTypes
<1>12. job.modems \in SUBSET Modem
  BY <1>1, JobShape DEF PartsInv
<1>. DEFINE AgreedNow(a, mods) ==
              \A m \in mods : \A x \in m.devices :
                /\ <<a, x>> \in Parts /\ record'[<<a, x>>] # NoRecord
                /\ \A e \in m.devices :
                     Unowed(<<a, x>>)' /\ Unowed(<<a, e>>)' => configs'[a][x] = configs'[a][e]
<1>. HIDE DEF b, d
<1>13. ASSUME NEW a \in Builds, NEW mods \in SUBSET Modem, Agreed(a, mods) PROVE AgreedNow(a, mods)
  <2> SUFFICES ASSUME NEW m \in mods, NEW x \in m.devices
               PROVE  /\ <<a, x>> \in Parts /\ record[<<a, x>>] # NoRecord
                      /\ \A e \in m.devices :
                           Unowed(<<a, x>>) /\ Unowed(<<a, e>>) => configs'[a][x] = configs'[a][e]
    BY <1>4
  <2>1. m.devices \in SUBSET Devices
    BY DEF Modem
  <2>2. /\ <<a, x>> \in Parts /\ record[<<a, x>>] # NoRecord
        /\ \A e \in m.devices :
             Unowed(<<a, x>>) /\ Unowed(<<a, e>>) => configs[a][x] = configs[a][e]
    BY <1>13 DEF Agreed
  <2>3. ASSUME NEW e \in m.devices, Unowed(<<a, e>>) PROVE configs'[a][e] = configs[a][e]
    BY <1>5, <1>6, <2>1, <2>3
  <2> QED BY <2>2, <2>3
<1>14. ASSUME NEW a \in Builds PROVE Agreed(a, modems[a])'
  <2>1. Agreed(a, modems[a]) /\ (a = b => Agreed(a, job.modems))
    BY <1>1, <1>9 DEF RowsHeld, JobModems, b
  <2>2. Agreed(a, modems'[a]) /\ modems'[a] \in SUBSET Modem
    BY <1>7, <1>11, <1>12, <2>1
  <2>. HIDE DEF AgreedNow
  <2>3. AgreedNow(a, modems'[a])
    BY <1>13, <2>2
  <2> QED BY <2>3 DEF Agreed, AgreedNow
<1>15. ASSUME NEW p \in Parts, Unowed(p)'
       PROVE  (/\ p[2] \in DevicesOf(p[1]) /\ configs[p[1]][p[2]] = record[p].configs
               /\ InOneModem(p[2], modems[p[1]], record[p].firmware))'
  <2>1. /\ p[1] \in Builds /\ p[2] \in Devices /\ Unowed(p) /\ p = <<p[1], p[2]>>
    BY <1>4, <1>15, PartOf
  <2>2. /\ p[2] \in DevicesOf(p[1]) /\ configs[p[1]][p[2]] = record[p].configs
        /\ InOneModem(p[2], modems[p[1]], record[p].firmware)
    BY <1>9, <2>1 DEF RowsHeld
  <2>3. p[1] = b => InOneModem(p[2], job.modems, record[p].firmware)
    BY <1>1, <1>9, <2>1 DEF JobModems, b
  <2>4. configs'[p[1]][p[2]] = configs[p[1]][p[2]]
    BY <1>5, <1>6, <2>1
  <2>5. InOneModem(p[2], modems'[p[1]], record[p].firmware)
    BY <1>7, <2>1, <2>2, <2>3
  <2>6. p[2] \in DevicesOf(p[1])'
    BY <1>8, <2>1, <2>2
  <2> QED BY <1>4, <2>2, <2>4, <2>5, <2>6
<1>16. RowsHeld'
  BY <1>14, <1>15 DEF RowsHeld
<1>17. JobModems'
  <2>1. /\ Agreed(b, job.modems) /\ InOneModem(d, job.modems, job.record.firmware)
        /\ \A q \in Parts : q[1] = b /\ Unowed(q) => InOneModem(q[2], job.modems, record[q].firmware)
        /\ \A m \in job.modems : d \in m.devices =>
             \A e \in m.devices \ {d} : configs[b][e] = job.record.configs
    BY <1>1, <1>9 DEF JobModems, b, d
  <2>2. Agreed(b, job.modems)'
    <3>. HIDE DEF AgreedNow
    <3>1. AgreedNow(b, job.modems)
      BY <1>5, <1>12, <1>13, <2>1
    <3>2. AgreedNow(b, job'.modems)
      BY <1>4, <3>1
    <3> QED BY <1>5, <3>2 DEF Agreed, AgreedNow
  <2>3. \A m \in job.modems : d \in m.devices =>
          \A e \in m.devices \ {d} : configs'[b][e] = job.record.configs
    <3>1. \A m \in job.modems : m.devices \in SUBSET Devices
      BY <1>12 DEF Modem
    <3> QED BY <1>5, <1>6, <2>1, <3>1
  <2> QED BY <1>4, <1>5, <2>1, <2>2, <2>3 DEF JobModems, b, d
<1> QED BY <1>16, <1>17

LEMMA RowsRoutePixels ==
  ASSUME PartsInv, RoutePixels PROVE RowsHeld' /\ JobModems'
<1>1. /\ job # NoJob /\ job.at = "routes" /\ job' = NoJob
      /\ UNCHANGED <<record, listed, modems, configs, dead>>
      /\ messages' = IF record[job.part] = job.record THEN messages \ {job.part} ELSE messages
  BY DEF RoutePixels
<1>. DEFINE b == JobBuild
            d == JobDevice
<1>2. /\ job.part \in Parts /\ b \in Builds /\ d \in Devices /\ job.part = <<b, d>>
  BY <1>1, JobShape DEF PartsInv
<1>3. /\ d \in DevicesOf(b) /\ modems[b] = job.modems /\ configs[b][d] = job.record.configs
  <2>1. job.todo = {} /\ listed[b] = job.devices /\ ToSet(job.devices) = DevicesOf(b) \cup {d}
    BY <1>1 DEF PartsInv, JobHeld
  <2>2. modems[b] = job.modems /\ configs[b][d] = job.record.configs
    BY <1>1, <2>1 DEF PartsInv, JobHeld
  <2>3. DevicesOf(b) = ToSet(job.devices)
    BY <2>1 DEF DevicesOf, ToSet
  <2> QED BY <2>1, <2>2, <2>3
<1>4. /\ InOneModem(d, modems[b], job.record.firmware)
      /\ \A m \in modems[b] : d \in m.devices => \A e \in m.devices \ {d} : configs[b][e] = job.record.configs
  BY <1>1, <1>3 DEF PartsInv, JobModems
<1>. HIDE DEF b, d
<1>5. \A q \in Parts : Unowed(q)' => Unowed(q) \/ (q = <<b, d>> /\ record[q] = job.record)
  BY <1>1, <1>2 DEF Unowed
<1>6. ASSUME NEW q \in Parts, Unowed(q)'
      PROVE  (/\ q[2] \in DevicesOf(q[1]) /\ configs[q[1]][q[2]] = record[q].configs
              /\ InOneModem(q[2], modems[q[1]], record[q].firmware))'
  <2>1. /\ q[2] \in DevicesOf(q[1]) /\ configs[q[1]][q[2]] = record[q].configs
        /\ InOneModem(q[2], modems[q[1]], record[q].firmware)
    <3>1. CASE Unowed(q)
      BY <3>1 DEF PartsInv, RowsHeld
    <3>2. CASE q = <<b, d>> /\ record[q] = job.record
      BY <1>3, <1>4, <3>2
    <3> QED BY <1>5, <1>6, <3>1, <3>2
  <2>2. DevicesOf(q[1])' = DevicesOf(q[1])
    BY <1>1 DEF DevicesOf
  <2> QED BY <1>1, <2>1, <2>2
<1>7. ASSUME NEW a \in Builds, NEW m \in modems[a], NEW x \in m.devices
      PROVE  /\ <<a, x>> \in Parts /\ record[<<a, x>>] # NoRecord
             /\ \A e \in m.devices : Unowed(<<a, x>>)' /\ Unowed(<<a, e>>)' => configs[a][x] = configs[a][e]
  <2>1. \A y \in m.devices :
          /\ <<a, y>> \in Parts /\ record[<<a, y>>] # NoRecord
          /\ \A e \in m.devices : Unowed(<<a, y>>) /\ Unowed(<<a, e>>) => configs[a][y] = configs[a][e]
    BY DEF PartsInv, RowsHeld, Agreed
  <2>2. a = b /\ d \in m.devices => \A e \in m.devices : configs[a][e] = job.record.configs
    BY <1>3, <1>4
  <2>3. ASSUME NEW e \in m.devices, Unowed(<<a, x>>)', Unowed(<<a, e>>)'
        PROVE  configs[a][x] = configs[a][e]
    <3>1. CASE Unowed(<<a, x>>) /\ Unowed(<<a, e>>)
      BY <2>1, <3>1
    <3>2. CASE <<a, x>> = <<b, d>> \/ <<a, e>> = <<b, d>>
      <4>1. a = b /\ d \in m.devices
        BY <3>2
      <4> QED BY <2>2, <4>1
    <3> QED BY <1>5, <2>1, <2>3, <3>1, <3>2
  <2> QED BY <2>1, <2>3
<1>8. ASSUME NEW a \in Builds PROVE Agreed(a, modems[a])'
  BY <1>1, <1>7 DEF Agreed
<1>9. RowsHeld'
  BY <1>6, <1>8 DEF RowsHeld
<1>10. JobModems'
  BY <1>1 DEF JobModems
<1> QED BY <1>9, <1>10

LEMMA RowsNext == PartsInv /\ [PartsNext]_partVars => RowsHeld' /\ JobModems'
<1> SUFFICES ASSUME PartsInv, [PartsNext]_partVars PROVE RowsHeld' /\ JobModems'
  OBVIOUS
<1>1. CASE RoutePixels
  BY <1>1, RowsRoutePixels
<1>2. CASE \E table \in Tables : PutTable(table)
  BY <1>2, RowsPutTable
<1>3. CASE \E p \in Parts : TakePart(p)
  BY <1>3, RowsTakePart
<1>4. ASSUME OwesMore, UNCHANGED <<listed, modems, configs>>,
             job' = job \/ job' = NoJob \/ (job # NoJob /\ job' = [job EXCEPT !.at = "routes"])
      PROVE  RowsHeld' /\ JobModems'
  <2>1. job' # NoJob => /\ job # NoJob /\ job'.part = job.part /\ job'.record = job.record
                        /\ job'.modems = job.modems
    <3>1. CASE job # NoJob /\ job' = [job EXCEPT !.at = "routes"]
      BY <3>1, JobShape DEF PartsInv, PartJob
    <3> QED BY <1>4, <3>1
  <2> QED BY <1>4, <2>1, RowsStillHeld, JobStillHeld DEF PartsInv
<1>5. CASE \E d \in Devices : SyncDevices(d)
  BY <1>4, <1>5, OwesMoreFeed DEF PartsInv, SyncDevices
<1>6. CASE \E p \in Parts : WritePart(p) \/ RefusePart(p)
  BY <1>4, <1>6, OwesMoreFeed DEF PartsInv, WritePart, RefusePart
<1>7. CASE JudgeRadios
  BY <1>4, <1>7, OwesMoreFeed DEF PartsInv, JudgeRadios
<1>8. CASE FailPart
  BY <1>4, <1>8, OwesMoreFeed DEF PartsInv, FailPart
<1>9. CASE UNCHANGED partVars
  BY <1>4, <1>9, OwesMoreFeed DEF PartsInv, partVars
<1> QED BY <1>1, <1>2, <1>3, <1>5, <1>6, <1>7, <1>8, <1>9 DEF PartsNext, Tables

LEMMA RowsInit == PartsInit => RowsHeld /\ JobModems
  BY PartOf DEF PartsInit, RowsHeld, JobModems, Unowed, Agreed

LEMMA PartsInvariant == PartsSpec => []PartsInv
<1>1. PartsInit => PartsInv
  BY TypesInit, RowsInit DEF PartsInv
<1>2. PartsInv /\ [PartsNext]_partVars => PartsInv'
  BY TypesNext, RowsNext DEF PartsInv
<1> QED BY <1>1, <1>2, PTL DEF PartsSpec

(* PartsWhole: however a Pixel build's messages are ordered, repeated, cut  *)
(* short between its tables and refused, once none is owed its rows list    *)
(* every device once, with its record's firmware and configurations.        *)
THEOREM PartsAlwaysWhole == PartsSpec => []PartsWhole
<1>1. PartsInv => PartsWhole
  <2> SUFFICES ASSUME PartsInv, NEW b \in Builds, Owed(b) = {}, listed[b] # <<>>,
                      NEW p \in Parts, p[1] = b, record[p] # NoRecord
               PROVE  /\ p[2] \in DevicesOf(b)
                      /\ configs[b][p[2]] = record[p].configs
                      /\ {m.firmware : m \in {n \in modems[b] : p[2] \in n.devices}} = {record[p].firmware}
                      /\ \A m, n \in modems[b] : p[2] \in m.devices \cap n.devices => m = n
                      /\ \A m \in modems[b] : p[2] \in m.devices =>
                           \A e \in m.devices : configs[b][e] = record[p].configs
    BY DEF PartsWhole
  <2>1. \A q \in Parts : q[1] = b /\ record[q] # NoRecord => Unowed(q)
    BY DEF Owed, Unowed
  <2>2. /\ p[2] \in DevicesOf(b) /\ configs[b][p[2]] = record[p].configs
        /\ InOneModem(p[2], modems[b], record[p].firmware)
    BY <2>1 DEF PartsInv, RowsHeld
  <2>3. ASSUME NEW m \in modems[b], p[2] \in m.devices, NEW e \in m.devices
        PROVE  configs[b][e] = record[p].configs
    <3>1. Agreed(b, modems[b])
      BY DEF PartsInv, RowsHeld
    <3>2. /\ <<b, e>> \in Parts /\ record[<<b, e>>] # NoRecord
          /\ <<b, p[2]>> \in Parts /\ record[<<b, p[2]>>] # NoRecord
          /\ Unowed(<<b, p[2]>>) /\ Unowed(<<b, e>>) => configs[b][p[2]] = configs[b][e]
      BY <2>3, <3>1 DEF Agreed
    <3>3. <<b, e>>[1] = b /\ <<b, p[2]>>[1] = b
      OBVIOUS
    <3> QED BY <2>1, <2>2, <3>2, <3>3
  <2>4. {m.firmware : m \in {n \in modems[b] : p[2] \in n.devices}} = {record[p].firmware}
    BY <2>2 DEF InOneModem
  <2> QED BY <2>2, <2>3, <2>4 DEF InOneModem
<1> QED BY <1>1, PartsInvariant, PTL

-----------------------------------------------------------------------------
(* The 5G each device is judged to have. *)

RowsTyped == PartTypes /\ JobHeld

LEMMA RowsTypedAlways == PartsSpec => []RowsTyped
  BY PartsInvariant, PTL DEF PartsInv, RowsTyped

NewestListing(b, d) == d \in DevicesOf(b) /\ Judged(b, d)

(* Only a listed device is judged, and a judgement is the record's in hand  *)
(* until its message ends.                                                  *)
RadiosHeld ==
  /\ \A d \in Devices : has5g[d] # "null" => day[d] # 0
  /\ job # NoJob /\ job.at = "routes" /\ Judged(JobBuild, JobDevice) =>
       has5g[JobDevice] \in {"null", Radio(job.record)}

RadiosInv == RowsTyped /\ RadiosTrue /\ RadiosHeld

(* A judgement stands while it is owed, or its record and rows are.         *)
LEMMA RadiosKept ==
  ASSUME RadiosTrue, UNCHANGED <<has5g, listed>>,
         \A b \in Builds : \A d \in Devices : NewestListing(b, d) /\ has5g[d] # "null" /\
            (<<b, d>> \in messages \cup dead \/ has5g[d] = Radio(record[<<b, d>>])) =>
            <<b, d>> \in messages' \cup dead' \/ has5g[d] = Radio(record'[<<b, d>>])
  PROVE  RadiosTrue'
<1> SUFFICES ASSUME NEW d \in Devices, has5g'[d] # "null"
             PROVE  \E b \in Builds : (/\ d \in DevicesOf(b) /\ \A c \in Builds : c > b => d \notin DevicesOf(c)
                                       /\ <<b, d>> \in Owed(b) \/ has5g[d] = Radio(record[<<b, d>>]))'
  BY DEF RadiosTrue
<1>1. PICK b \in Builds : /\ d \in DevicesOf(b) /\ \A c \in Builds : c > b => d \notin DevicesOf(c)
                          /\ <<b, d>> \in Owed(b) \/ has5g[d] = Radio(record[<<b, d>>])
  BY DEF RadiosTrue
<1>2. <<b, d>> \in messages' \cup dead' \/ has5g[d] = Radio(record'[<<b, d>>])
  BY <1>1 DEF Owed, NewestListing, Judged
<1>3. \A c \in Builds : DevicesOf(c)' = DevicesOf(c)
  BY DEF DevicesOf
<1>4. (<<b, d>> \in Owed(b))' \/ has5g'[d] = Radio(record'[<<b, d>>])
  BY <1>2 DEF Owed
<1>5. (has5g[d] = Radio(record[<<b, d>>]))' <=> has5g'[d] = Radio(record'[<<b, d>>])
  BY DEF Radio
<1> QED BY <1>1, <1>3, <1>4, <1>5

LEMMA RadiosPutTable ==
  ASSUME RadiosInv, NEW table \in Tables, PutTable(table) PROVE RadiosTrue' /\ RadiosHeld'
<1>0. job # NoJob /\ JobBuild \in Builds /\ JobDevice \in Devices
  BY TablePut, JobShape DEF RadiosInv, RowsTyped
<1>. PICK b \in Builds, d \in Devices : b = JobBuild /\ d = JobDevice
  BY <1>0
<1>1. /\ job # NoJob /\ b \in Builds /\ d \in Devices /\ job.part = <<b, d>> /\ job.part \in messages
      /\ ToSet(job.devices) = DevicesOf(b) \cup {d}
  BY TablePut, JobShape DEF RadiosInv, RowsTyped, JobHeld
<1>2. /\ UNCHANGED <<day, has5g, record, messages, dead>> /\ job'.at = "rows"
      /\ \A a \in Builds : listed'[a] = listed[a] \/ (a = b /\ listed'[a] = job.devices)
  BY TablePut DEF RadiosInv, RowsTyped
<1>3. RadiosHeld'
  BY <1>2 DEF RadiosInv, RadiosHeld
<1>4. \A a \in Builds : DevicesOf(a)' = DevicesOf(a) \/ (a = b /\ DevicesOf(a)' = DevicesOf(b) \cup {d})
  BY <1>1, <1>2 DEF DevicesOf, ToSet
<1>5. ASSUME NEW e \in Devices, has5g'[e] # "null"
      PROVE  \E a \in Builds : /\ e \in DevicesOf(a)' /\ \A c \in Builds : c > a => e \notin DevicesOf(c)'
                               /\ <<a, e>> \in messages \cup dead \/ has5g[e] = Radio(record[<<a, e>>])
  <2>1. PICK a \in Builds : /\ e \in DevicesOf(a) /\ \A c \in Builds : c > a => e \notin DevicesOf(c)
                            /\ <<a, e>> \in messages \cup dead \/ has5g[e] = Radio(record[<<a, e>>])
    BY <1>2, <1>5 DEF RadiosInv, RadiosTrue, Owed
  <2>2. a \in Nat /\ b \in Nat
    BY <1>1, BuildsDevicesNat
  <2>3. CASE b > a /\ e \in DevicesOf(b)'
    <3>1. e = d
      BY <1>1, <1>4, <2>1, <2>3
    <3>2. \A c \in Builds : c > b => e \notin DevicesOf(c)'
      <4> SUFFICES ASSUME NEW c \in Builds, c > b PROVE e \notin DevicesOf(c)'
        OBVIOUS
      <4>1. c \in Nat
        BY BuildsDevicesNat
      <4>2. c > a /\ c # b
        BY <2>2, <2>3, <4>1
      <4> QED BY <1>4, <2>1, <4>2
    <3> QED BY <1>1, <2>3, <3>1, <3>2
  <2>4. CASE ~(b > a /\ e \in DevicesOf(b)')
    <3>1. e \in DevicesOf(a)'
      BY <1>4, <2>1
    <3>2. \A c \in Builds : c > a => e \notin DevicesOf(c)'
      BY <1>4, <2>1, <2>4
    <3> QED BY <2>1, <3>1, <3>2
  <2> QED BY <2>3, <2>4
<1>6. RadiosTrue'
  <2> SUFFICES ASSUME NEW e \in Devices, has5g'[e] # "null"
               PROVE  \E a \in Builds : (/\ e \in DevicesOf(a) /\ \A c \in Builds : c > a => e \notin DevicesOf(c)
                                         /\ <<a, e>> \in Owed(a) \/ has5g[e] = Radio(record[<<a, e>>]))'
    BY DEF RadiosTrue
  <2>1. PICK a \in Builds : /\ e \in DevicesOf(a)' /\ \A c \in Builds : c > a => e \notin DevicesOf(c)'
                            /\ <<a, e>> \in messages \cup dead \/ has5g[e] = Radio(record[<<a, e>>])
    BY <1>5
  <2>2. (<<a, e>> \in Owed(a) \/ has5g[e] = Radio(record[<<a, e>>]))'
    BY <1>2, <2>1 DEF Owed, Radio
  <2> QED BY <2>1, <2>2
<1> QED BY <1>3, <1>6

LEMMA RadiosJudgeRadios ==
  ASSUME RadiosInv, JudgeRadios PROVE RadiosTrue' /\ RadiosHeld'
<1>0. job # NoJob /\ JobBuild \in Builds /\ JobDevice \in Devices
  BY JobShape DEF JudgeRadios, RadiosInv, RowsTyped
<1>. PICK b \in Builds, d \in Devices : b = JobBuild /\ d = JobDevice
  BY <1>0
<1>1. /\ job # NoJob /\ job.todo = {} /\ job' = [job EXCEPT !.at = "routes"]
      /\ has5g' = IF Judged(b, d) /\ day[d] # 0 THEN [has5g EXCEPT ![d] = Radio(job.record)] ELSE has5g
      /\ UNCHANGED <<day, record, messages, listed, dead>>
  BY DEF JudgeRadios, JobBuild, JobDevice
<1>2. /\ b \in Builds /\ d \in Devices /\ job.part = <<b, d>> /\ job.part \in messages
      /\ d \in DevicesOf(b)
  <2>1. /\ job.part \in messages /\ ToSet(job.devices) = DevicesOf(b) \cup {d} /\ listed[b] = job.devices
    BY <1>1 DEF RadiosInv, RowsTyped, JobHeld
  <2>2. d \in DevicesOf(b)
    BY <2>1 DEF DevicesOf, ToSet
  <2> QED BY <1>1, <2>1, <2>2, JobShape DEF RadiosInv, RowsTyped
<1>3. JobBuild' = b /\ JobDevice' = d /\ job'.record = job.record
  BY <1>1, JobShape DEF RadiosInv, RowsTyped, PartJob, JobBuild, JobDevice
<1>4. has5g \in [Devices -> {"null", "yes", "no"}]
  BY DEF RadiosInv, RowsTyped, PartTypes
<1>5. \A c \in Builds : DevicesOf(c)' = DevicesOf(c)
  BY <1>1 DEF DevicesOf
<1>6. RadiosHeld
  BY DEF RadiosInv
<1>7. Judged(b, d)' <=> Judged(b, d)
  BY <1>5 DEF Judged
<1>8. RadiosHeld'
  <2>1. \A e \in Devices : has5g'[e] # "null" => day'[e] # 0
    BY <1>1, <1>4, <1>6 DEF RadiosHeld
  <2>2. Judged(b, d) => has5g'[d] \in {"null", Radio(job.record)}
    BY <1>1, <1>2, <1>4, <1>6 DEF RadiosHeld
  <2>3. Radio(job.record)' = Radio(job.record)
    BY <1>3 DEF Radio
  <2> QED BY <1>3, <1>7, <2>1, <2>2, <2>3 DEF RadiosHeld
<1>9. RadiosTrue'
  <2> SUFFICES ASSUME NEW e \in Devices, has5g'[e] # "null"
               PROVE  \E a \in Builds : (/\ e \in DevicesOf(a) /\ \A c \in Builds : c > a => e \notin DevicesOf(c)
                                         /\ <<a, e>> \in Owed(a) \/ has5g[e] = Radio(record[<<a, e>>]))'
    BY DEF RadiosTrue
  <2>1. CASE e = d /\ Judged(b, d)
    <3>1. <<b, d>> \in Owed(b)'
      BY <1>1, <1>2 DEF Owed
    <3>2. d \in DevicesOf(b)' /\ \A c \in Builds : c > b => d \notin DevicesOf(c)'
      BY <1>2, <1>5, <2>1 DEF Judged
    <3> QED BY <1>2, <2>1, <3>1, <3>2
  <2>2. CASE ~(e = d /\ Judged(b, d))
    <3>1. has5g'[e] = has5g[e]
      BY <1>1, <1>4, <2>2
    <3>2. PICK a \in Builds : /\ e \in DevicesOf(a) /\ \A c \in Builds : c > a => e \notin DevicesOf(c)
                              /\ <<a, e>> \in Owed(a) \/ has5g[e] = Radio(record[<<a, e>>])
      BY <3>1 DEF RadiosInv, RadiosTrue
    <3>3. (<<a, e>> \in Owed(a) \/ has5g[e] = Radio(record[<<a, e>>]))'
      BY <1>1, <3>1, <3>2 DEF Owed, Radio
    <3> QED BY <1>5, <3>2, <3>3
  <2> QED BY <2>1, <2>2
<1> QED BY <1>8, <1>9

LEMMA RadiosRoutePixels ==
  ASSUME RadiosInv, RoutePixels PROVE RadiosTrue' /\ RadiosHeld'
<1>1. /\ job # NoJob /\ job.at = "routes" /\ job' = NoJob
      /\ UNCHANGED <<day, has5g, record, listed, dead>>
      /\ messages' = IF record[job.part] = job.record THEN messages \ {job.part} ELSE messages
  BY DEF RoutePixels
<1>2. JobBuild \in Builds /\ JobDevice \in Devices /\ job.part = <<JobBuild, JobDevice>>
  BY <1>1, JobShape DEF RadiosInv, RowsTyped
<1>3. ASSUME NEW b \in Builds, NEW d \in Devices, NewestListing(b, d), has5g[d] # "null",
             <<b, d>> \in messages \cup dead \/ has5g[d] = Radio(record[<<b, d>>])
      PROVE  <<b, d>> \in messages' \cup dead' \/ has5g[d] = Radio(record'[<<b, d>>])
  <2>1. CASE <<b, d>> = job.part /\ record[job.part] = job.record
    <3>1. b = JobBuild /\ d = JobDevice
      BY <1>2, <2>1
    <3>2. has5g[d] = Radio(job.record)
      BY <1>1, <1>3, <3>1 DEF RadiosInv, RadiosHeld, NewestListing
    <3> QED BY <1>1, <2>1, <3>2
  <2>2. CASE ~(<<b, d>> = job.part /\ record[job.part] = job.record)
    BY <1>1, <1>3, <2>2
  <2> QED BY <2>1, <2>2
<1>4. RadiosTrue'
  BY <1>1, <1>3, RadiosKept DEF RadiosInv
<1>5. RadiosHeld'
  BY <1>1 DEF RadiosInv, RadiosHeld
<1> QED BY <1>4, <1>5

LEMMA RadiosSyncDevices ==
  ASSUME RadiosInv, NEW d \in Devices, SyncDevices(d) PROVE RadiosTrue' /\ RadiosHeld'
<1>1. UNCHANGED <<has5g, record, messages, job, listed, dead>>
  BY DEF SyncDevices
<1>2. RadiosTrue'
  BY <1>1, RadiosKept DEF RadiosInv
<1>3. \A e \in Devices : day[e] # 0 => day'[e] # 0
  <2>1. PICK to \in LaunchDays[d] : day' = [day EXCEPT ![d] = to]
    BY DEF SyncDevices
  <2>2. to # 0
    BY PixelPartsAssumption
  <2> QED BY <2>1, <2>2 DEF RadiosInv, RowsTyped, PartTypes
<1>4. RadiosHeld'
  BY <1>1, <1>3 DEF RadiosInv, RadiosHeld, JobBuild, JobDevice, Judged, DevicesOf, Radio
<1> QED BY <1>2, <1>4

LEMMA RadiosRest ==
  ASSUME RadiosInv,
         \/ \E p \in Parts : WritePart(p) \/ TakePart(p) \/ RefusePart(p)
         \/ FailPart \/ UNCHANGED partVars
  PROVE  RadiosTrue' /\ RadiosHeld'
<1>1. /\ UNCHANGED <<day, has5g, listed>>
      /\ job' = job \/ job' = NoJob \/ job'.at = "rows"
  <2>1. ASSUME NEW p \in Parts, TakePart(p) PROVE UNCHANGED <<day, has5g, listed>> /\ job'.at = "rows"
    BY <2>1 DEF TakePart
  <2> QED BY <2>1 DEF WritePart, RefusePart, FailPart, partVars
<1>3. \A q : q \in messages \cup dead => q \in messages' \cup dead'
  BY DEF WritePart, TakePart, RefusePart, FailPart, partVars
<1>4. \A q : record'[q] = record[q] \/ q \in messages' \cup dead'
  <2>1. ASSUME NEW p \in Parts, WritePart(p), NEW q PROVE record'[q] = record[q] \/ q \in messages'
    BY <2>1 DEF WritePart, RadiosInv, RowsTyped, PartTypes
  <2> QED BY <2>1 DEF TakePart, RefusePart, FailPart, partVars
<1>5. RadiosTrue'
  BY <1>1, <1>3, <1>4, RadiosKept DEF RadiosInv
<1>6. RadiosHeld'
  <2>1. CASE job' = NoJob \/ job'.at = "rows"
    BY <1>1, <2>1 DEF RadiosInv, RadiosHeld
  <2>2. CASE job' = job
    <3>1. JobBuild' = JobBuild /\ JobDevice' = JobDevice /\ Radio(job.record)' = Radio(job.record)
      BY <2>2 DEF JobBuild, JobDevice, Radio
    <3>2. Judged(JobBuild, JobDevice)' <=> Judged(JobBuild, JobDevice)
      BY <1>1, <3>1 DEF Judged, DevicesOf
    <3> QED BY <1>1, <2>2, <3>1, <3>2 DEF RadiosInv, RadiosHeld
  <2> QED BY <1>1, <2>1, <2>2
<1> QED BY <1>5, <1>6

(* RadiosTrue: a device's 5G is what the newest build it is listed in says, *)
(* though older builds are indexed later, unless that message is owed.      *)
THEOREM RadiosAlwaysTrue == PartsSpec => []RadiosTrue
<1>1. PartsInit => RadiosTrue /\ RadiosHeld
  BY DEF PartsInit, RadiosTrue, RadiosHeld
<1>2. RadiosInv /\ [PartsNext]_partVars => RadiosTrue' /\ RadiosHeld'
  BY RadiosPutTable, RadiosJudgeRadios, RadiosRoutePixels, RadiosSyncDevices, RadiosRest DEF PartsNext, Tables
<1> QED BY <1>1, <1>2, RowsTypedAlways, PTL DEF RadiosInv, PartsSpec

-----------------------------------------------------------------------------
(* What Android is routed by. *)

HeadRouted(b) ==
  \/ <<b, listed[b][1]>> \in messages \cup dead
  \/ routes = <<<<b, listed[b][1]>>, record[<<b, listed[b][1]>>]>>

(* As long as no check moves devices, rows list them in the order they have.*)
RoutesHeld == ~moved =>
  /\ \A b \in Builds : listed[b] # <<>> => InOrder(listed[b], DayOrder, DevicesOf(b))
  /\ job # NoJob => InOrder(job.devices, DayOrder, ToSet(job.devices))
  /\ \A b \in Builds : listed[b] # <<>> /\ NewestBuild(b) => HeadRouted(b)

RoutesInv == RowsTyped /\ RoutesHeld

LEMMA SameOrder == UNCHANGED day => DayOrder' = DayOrder
<1> SUFFICES ASSUME UNCHANGED day PROVE DayOrder' = DayOrder
  OBVIOUS
<1>1. \A x, y : NewestFirst(x, y)' <=> NewestFirst(x, y)
  BY DEF NewestFirst
<1> QED BY <1>1 DEF DayOrder

LEMMA NotEmpty ==
  ASSUME NEW s \in Seq(Devices), s # <<>>
  PROVE  1 \in DOMAIN s /\ s[1] \in ToSet(s) /\ ToSet(s) \in SUBSET Devices
BY DEF ToSet

(* The first of a set in order, once one more joins it. *)
LEMMA FirstOfMore ==
  ASSUME NEW R, NEW S, NEW d, NEW s, NEW t, Orders(R, S \cup {d}), S # {},
         InOrder(s, R, S), InOrder(t, R, S \cup {d})
  PROVE  t[1] \in {d, s[1]}
<1>. DEFINE N == Cardinality(S)
            M == Cardinality(S \cup {d})
<1>1. /\ N \in Nat /\ s \in [1 .. N -> S] /\ \A x \in S : \E i \in 1 .. N : s[i] = x
      /\ \A i, j \in 1 .. N : i < j <=> <<s[i], s[j]>> \in R
  BY DEF InOrder
<1>2. /\ M \in Nat /\ t \in [1 .. M -> S \cup {d}] /\ \A x \in S \cup {d} : \E i \in 1 .. M : t[i] = x
      /\ \A i, j \in 1 .. M : i < j <=> <<t[i], t[j]>> \in R
  BY DEF InOrder
<1>. HIDE DEF N, M
<1>3. 1 \in 1 .. N /\ 1 \in 1 .. M
  BY <1>1, <1>2
<1> SUFFICES ASSUME t[1] # d, t[1] # s[1] PROVE FALSE
  OBVIOUS
<1>4. s[1] \in S /\ t[1] \in S
  BY <1>1, <1>2, <1>3
<1>5. PICK i \in 1 .. N : s[i] = t[1]
  BY <1>1, <1>4
<1>6. PICK j \in 1 .. M : t[j] = s[1]
  BY <1>2, <1>4
<1>7. 1 < i /\ 1 < j
  BY <1>1, <1>2, <1>5, <1>6
<1>8. <<s[1], t[1]>> \in R /\ <<t[1], s[1]>> \in R
  BY <1>1, <1>2, <1>3, <1>5, <1>6, <1>7
<1> QED BY <1>4, <1>8 DEF Orders

LEMMA RoutesKept ==
  ASSUME RoutesInv, UNCHANGED <<day, listed, routes, moved>>,
         job' # NoJob => job # NoJob /\ job'.devices = job.devices,
         \A q : q \in messages \cup dead => q \in messages' \cup dead',
         \A q : record'[q] = record[q] \/ q \in messages' \cup dead'
  PROVE  RoutesHeld'
<1> SUFFICES ASSUME ~moved PROVE RoutesHeld'
  BY DEF RoutesHeld
<1>1. DayOrder' = DayOrder
  BY SameOrder
<1>2. ASSUME NEW b \in Builds, listed[b] # <<>> PROVE InOrder(listed[b], DayOrder, DevicesOf(b))'
  <2>1. DevicesOf(b)' = DevicesOf(b)
    BY DEF DevicesOf
  <2>2. InOrder(listed[b], DayOrder, DevicesOf(b))
    BY <1>2 DEF RoutesInv, RoutesHeld
  <2> QED BY <1>1, <2>1, <2>2
<1>3. ASSUME job' # NoJob PROVE InOrder(job.devices, DayOrder, ToSet(job.devices))'
  <2>1. InOrder(job.devices, DayOrder, ToSet(job.devices))
    BY <1>3 DEF RoutesInv, RoutesHeld
  <2> QED BY <1>1, <1>3, <2>1
<1>4. ASSUME NEW b \in Builds, listed[b] # <<>>, NewestBuild(b)' PROVE HeadRouted(b)'
  <2>1. NewestBuild(b)
    BY <1>4 DEF NewestBuild
  <2>2. HeadRouted(b)
    BY <1>4, <2>1 DEF RoutesInv, RoutesHeld
  <2> QED BY <2>2 DEF HeadRouted
<1> QED BY <1>2, <1>3, <1>4 DEF RoutesHeld

LEMMA RoutesTakePart ==
  ASSUME RoutesInv, NEW p \in Parts, TakePart(p) PROVE RoutesHeld'
<1> SUFFICES ASSUME ~moved PROVE RoutesHeld'
  BY DEF TakePart, RoutesHeld
<1>. DEFINE s == Sorted(DevicesOf(p[1]) \cup {p[2]}, NewestFirst)
<1>1. UNCHANGED <<day, record, messages, listed, routes, dead, moved>> /\ job'.devices = s
  BY DEF TakePart
<1>2. InOrder(s, DayOrder, ToSet(s))
  <2>1. p[1] \in Builds /\ p[2] \in Devices
    BY PartOf
  <2>2. InOrder(s, DayOrder, DevicesOf(p[1]) \cup {p[2]}) /\ ToSet(s) = DevicesOf(p[1]) \cup {p[2]}
    BY <2>1, JoinedDevices DEF RoutesInv, RowsTyped
  <2> QED BY <2>2
<1>. HIDE DEF s
<1>3. DayOrder' = DayOrder
  BY <1>1, SameOrder
<1>4. InOrder(job.devices, DayOrder, ToSet(job.devices))'
  BY <1>1, <1>2, <1>3
<1>5. ASSUME NEW b \in Builds, listed[b] # <<>> PROVE InOrder(listed[b], DayOrder, DevicesOf(b))'
  <2>1. DevicesOf(b)' = DevicesOf(b)
    BY <1>1 DEF DevicesOf
  <2>2. InOrder(listed[b], DayOrder, DevicesOf(b))
    BY <1>5 DEF RoutesInv, RoutesHeld
  <2> QED BY <1>1, <1>3, <2>1, <2>2
<1>6. ASSUME NEW b \in Builds, listed[b] # <<>>, NewestBuild(b)' PROVE HeadRouted(b)'
  BY <1>1, <1>6 DEF NewestBuild, HeadRouted, RoutesInv, RoutesHeld
<1> QED BY <1>1, <1>4, <1>5, <1>6 DEF RoutesHeld

LEMMA RoutesPutTable ==
  ASSUME RoutesInv, NEW table \in Tables, PutTable(table) PROVE RoutesHeld'
<1> SUFFICES ASSUME ~moved PROVE RoutesHeld'
  BY TablePut DEF RoutesInv, RowsTyped, RoutesHeld
<1>0. job # NoJob /\ JobBuild \in Builds /\ JobDevice \in Devices
  BY TablePut, JobShape DEF RoutesInv, RowsTyped
<1>. PICK b \in Builds, d \in Devices : b = JobBuild /\ d = JobDevice
  BY <1>0
<1>1. /\ job.part = <<b, d>> /\ job.part \in messages /\ ToSet(job.devices) = DevicesOf(b) \cup {d}
      /\ job.devices # <<>> /\ job.devices \in Seq(Devices) /\ InOrder(job.devices, DayOrder, ToSet(job.devices))
  BY <1>0, JobShape DEF RoutesInv, RowsTyped, JobHeld, RoutesHeld
<1>2. /\ UNCHANGED <<day, record, messages, routes, dead, moved>> /\ job'.devices = job.devices
      /\ \A a \in Builds : listed'[a] = listed[a] \/ (a = b /\ listed'[a] = job.devices)
  BY TablePut DEF RoutesInv, RowsTyped
<1>3. DayOrder' = DayOrder
  BY <1>2, SameOrder
<1>4. InOrder(job.devices, DayOrder, ToSet(job.devices))'
  BY <1>1, <1>2, <1>3
<1>5. ASSUME NEW a \in Builds, listed'[a] # <<>> PROVE InOrder(listed[a], DayOrder, DevicesOf(a))'
  <2>1. CASE listed'[a] = listed[a]
    <3>1. DevicesOf(a)' = DevicesOf(a)
      BY <2>1 DEF DevicesOf
    <3>2. InOrder(listed[a], DayOrder, DevicesOf(a))
      BY <1>5, <2>1 DEF RoutesInv, RoutesHeld
    <3> QED BY <1>3, <2>1, <3>1, <3>2
  <2>2. CASE listed'[a] = job.devices
    <3>1. DevicesOf(a)' = ToSet(job.devices)
      BY <2>2 DEF DevicesOf, ToSet
    <3> QED BY <1>1, <1>3, <2>2, <3>1
  <2> QED BY <1>2, <2>1, <2>2
<1>6. ASSUME NEW a \in Builds, listed'[a] # <<>>, NewestBuild(a)' PROVE HeadRouted(a)'
  <2>1. NewestBuild(a)
    BY <1>1, <1>2, <1>6 DEF NewestBuild
  <2>2. CASE listed'[a] = listed[a]
    <3>1. HeadRouted(a)
      BY <1>6, <2>1, <2>2 DEF RoutesInv, RoutesHeld
    <3> QED BY <1>2, <2>2, <3>1 DEF HeadRouted
  <2>3. CASE a = b /\ listed'[a] = job.devices /\ listed[a] = <<>>
    <3>1. DevicesOf(b) = {}
      BY <2>3 DEF DevicesOf
    <3>2. job.devices[1] = d
      BY <1>1, <3>1, NotEmpty
    <3> QED BY <1>1, <1>2, <2>3, <3>2 DEF HeadRouted
  <2>4. CASE a = b /\ listed'[a] = job.devices /\ listed[a] # <<>>
    <3>1. listed[b] \in Seq(Devices)
      BY DEF RoutesInv, RowsTyped, PartTypes
    <3>2. DevicesOf(b) = ToSet(listed[b])
      BY DEF DevicesOf, ToSet
    <3>3. DevicesOf(b) # {} /\ DevicesOf(b) \in SUBSET Devices
      BY <2>4, <3>1, <3>2, NotEmpty
    <3>4. Orders(DayOrder, DevicesOf(b) \cup {d})
      BY <3>3, DaysOrder DEF RoutesInv, RowsTyped, PartTypes
    <3>5. InOrder(listed[b], DayOrder, DevicesOf(b)) /\ HeadRouted(b)
      BY <2>1, <2>4 DEF RoutesInv, RoutesHeld
    <3>6. InOrder(job.devices, DayOrder, DevicesOf(b) \cup {d})
      BY <1>1
    <3>7. job.devices[1] = d \/ job.devices[1] = listed[b][1]
      <4>. DEFINE S == DevicesOf(b)
                  R == DayOrder
                  s == listed[b]
                  t == job.devices
      <4>1. Orders(R, S \cup {d}) /\ S # {} /\ InOrder(s, R, S) /\ InOrder(t, R, S \cup {d})
        BY <3>3, <3>4, <3>5, <3>6
      <4>. HIDE DEF S, R, s, t
      <4>2. t[1] \in {d, s[1]}
        BY <4>1, FirstOfMore
      <4> QED BY <4>2 DEF s, t
    <3>8. <<b, job.devices[1]>> \in messages \cup dead \/
            routes = <<<<b, job.devices[1]>>, record[<<b, job.devices[1]>>]>>
      BY <1>1, <3>5, <3>7 DEF HeadRouted
    <3> QED BY <1>2, <2>4, <3>8 DEF HeadRouted
  <2> QED BY <1>2, <2>2, <2>3, <2>4
<1> QED BY <1>2, <1>4, <1>5, <1>6 DEF RoutesHeld

LEMMA RoutesRoutePixels ==
  ASSUME RoutesInv, RoutePixels PROVE RoutesHeld'
<1> SUFFICES ASSUME ~moved PROVE RoutesHeld'
  BY DEF RoutePixels, RoutesHeld
<1>1. /\ job # NoJob /\ job.at = "routes" /\ job' = NoJob
      /\ UNCHANGED <<day, record, listed, dead, moved>>
      /\ messages' = IF record[job.part] = job.record THEN messages \ {job.part} ELSE messages
      /\ routes' = IF job.devices[1] = JobDevice /\ NewestBuild(JobBuild)
                     THEN <<job.part, job.record>> ELSE routes
  BY DEF RoutePixels, JobBuild, JobDevice
<1>2. /\ JobBuild \in Builds /\ JobDevice \in Devices /\ job.part = <<JobBuild, JobDevice>>
      /\ listed[JobBuild] = job.devices /\ job.devices # <<>> /\ job.part \in messages
  BY <1>1, JobShape DEF RoutesInv, RowsTyped, JobHeld
<1>3. DayOrder' = DayOrder
  BY <1>1, SameOrder
<1>4. ASSUME NEW a \in Builds, listed[a] # <<>> PROVE InOrder(listed[a], DayOrder, DevicesOf(a))'
  <2>1. DevicesOf(a)' = DevicesOf(a)
    BY <1>1 DEF DevicesOf
  <2>2. InOrder(listed[a], DayOrder, DevicesOf(a))
    BY <1>4 DEF RoutesInv, RoutesHeld
  <2> QED BY <1>1, <1>3, <2>1, <2>2
<1>5. ASSUME NEW a \in Builds, listed[a] # <<>>, NewestBuild(a)' PROVE HeadRouted(a)'
  <2>1. NewestBuild(a) /\ HeadRouted(a)
    BY <1>1, <1>5 DEF NewestBuild, RoutesInv, RoutesHeld
  <2>2. VersionRank[a] \in Nat /\ VersionRank[JobBuild] \in Nat
    BY <1>2, PixelPartsAssumption
  <2>3. NewestBuild(JobBuild) => a = JobBuild
    BY <1>2, <1>5, <2>1, <2>2, PixelPartsAssumption DEF NewestBuild
  <2>4. CASE <<a, listed[a][1]>> = job.part
    <3>1. a = JobBuild /\ job.devices[1] = JobDevice
      BY <1>2, <2>4
    <3>2. routes' = <<job.part, job.record>>
      BY <1>1, <2>1, <3>1
    <3> QED BY <1>1, <1>2, <2>4, <3>2 DEF HeadRouted
  <2>5. CASE <<a, listed[a][1]>> # job.part
    <3>1. routes' = routes
      BY <1>1, <1>2, <2>3, <2>5
    <3> QED BY <1>1, <2>1, <2>5, <3>1 DEF HeadRouted
  <2> QED BY <2>4, <2>5
<1> QED BY <1>1, <1>4, <1>5 DEF RoutesHeld

LEMMA RoutesNext == RoutesInv /\ [PartsNext]_partVars => RoutesHeld'
<1> SUFFICES ASSUME RoutesInv, [PartsNext]_partVars PROVE RoutesHeld'
  OBVIOUS
<1>1. CASE \E d \in Devices : SyncDevices(d)
  <2>1. PICK d \in Devices : SyncDevices(d)
    BY <1>1
  <2>2. moved' \/ (job' = NoJob /\ \A b \in Builds : listed'[b] = <<>>)
    BY <2>1 DEF SyncDevices
  <2> QED BY <2>2 DEF RoutesHeld
<1>2. CASE \E p \in Parts : TakePart(p)
  BY <1>2, RoutesTakePart
<1>3. CASE \E table \in Tables : PutTable(table)
  BY <1>3, RoutesPutTable
<1>4. CASE RoutePixels
  BY <1>4, RoutesRoutePixels
<1>5. CASE \E p \in Parts : WritePart(p)
  <2>1. PICK p \in Parts : WritePart(p)
    BY <1>5
  <2>2. \A q : record'[q] = record[q] \/ q \in messages'
    BY <2>1 DEF WritePart, RoutesInv, RowsTyped, PartTypes
  <2> QED BY <2>1, <2>2, RoutesKept DEF WritePart
<1>6. CASE JudgeRadios
  <2>1. job # NoJob /\ job' = [job EXCEPT !.at = "routes"]
    BY <1>6 DEF JudgeRadios
  <2>2. job'.devices = job.devices
    BY <2>1, JobShape DEF RoutesInv, RowsTyped, PartJob
  <2> QED BY <1>6, <2>1, <2>2, RoutesKept DEF JudgeRadios
<1>7. CASE (\E p \in Parts : RefusePart(p)) \/ FailPart \/ UNCHANGED partVars
  BY <1>7, RoutesKept DEF RefusePart, FailPart, partVars
<1> QED BY <1>1, <1>2, <1>3, <1>4, <1>5, <1>6, <1>7 DEF PartsNext, Tables

(* RoutesOfNewest: until a check moves devices, Android is routed by what   *)
(* the newest indexed build's newest device's record now says, whichever of *)
(* its messages and of older builds' came last.                             *)
THEOREM RoutesAlwaysNewest == PartsSpec => []RoutesOfNewest
<1>1. PartsInit => RoutesHeld
  BY DEF PartsInit, RoutesHeld
<1>2. RoutesInv => RoutesOfNewest
  BY DEF RoutesInv, RoutesHeld, RoutesOfNewest, HeadRouted, Owed
<1> QED BY <1>1, <1>2, RoutesNext, RowsTypedAlways, PTL DEF RoutesInv, PartsSpec

-----------------------------------------------------------------------------
(* The weekly search for names: a step's fields. *)

Origins == {"feed", "human", "model", "none"}
WeekInst == [at : {"ended", "list", "name", "purge"}, kind : Nat, todo : Seq(Codes), listed : SUBSET Codes,
             attempt : Nat, named : BOOLEAN, failures : BOOLEAN]

LabelTypes ==
  /\ week \in Nat /\ label \in [Codes -> Origins] /\ missed \in [Codes -> 0 .. week]
  /\ inst \in WeekInst /\ unpurged \in BOOLEAN /\ excused \in BOOLEAN
  /\ passed \in [Codes -> [Codes -> Nat]]

(* What is left of a listing is of it, each code once.                      *)
TodoListed ==
  /\ ToSet(inst.todo) \subseteq inst.listed
  /\ \A i, j \in DOMAIN inst.todo : inst.todo[i] = inst.todo[j] => i = j
  /\ inst.at # "ended" => week # 0

TurnOrder == {p \in Codes \X Codes : SearchedBefore(p[1], p[2])}

LEMMA TurnsOrder ==
  ASSUME LabelTypes, NEW S \in SUBSET Codes PROVE Orders(TurnOrder, S)
<1>1. \A x, y \in S : <<x, y>> \in TurnOrder <=> SearchedBefore(x, y)
  BY DEF TurnOrder
<1>2. \A x \in S : x \in Nat /\ missed[x] \in Nat
  <2>1. Codes \subseteq Nat
    BY LabelsAssumption
  <2>2. \A x \in Codes : missed[x] \in 0 .. week
    BY DEF LabelTypes
  <2> QED BY <2>1, <2>2
<1>3. /\ \A x \in S : ~SearchedBefore(x, x)
      /\ \A x, y \in S : x = y \/ SearchedBefore(x, y) \/ SearchedBefore(y, x)
      /\ \A x, y, z \in S : SearchedBefore(x, y) /\ SearchedBefore(y, z) => SearchedBefore(x, z)
  BY <1>2 DEF SearchedBefore
<1> QED BY <1>1, <1>3 DEF Orders

LEMMA CodesSorted ==
  ASSUME LabelTypes, NEW S \in SUBSET Codes
  PROVE  InOrder(Sorted(S, SearchedBefore), TurnOrder, S)
<1>. DEFINE N == Cardinality(S)
            B(x) == {y \in S : SearchedBefore(y, x)}
            s == [n \in 1 .. N |-> CHOOSE x \in S : Cardinality(B(x)) = n - 1]
<1>0. IsFiniteSet(S)
  BY LabelsAssumption, FS_Subset
<1>1. Orders(TurnOrder, S)
  BY TurnsOrder
<1>2. \A x \in S : B(x) = Below(TurnOrder, S, x)
  BY DEF Below, TurnOrder
<1>3. Sorted(S, SearchedBefore) = s
  BY DEF Sorted
<1>. HIDE DEF B
<1>4. \A i \in 1 .. N : \E x \in S : Cardinality(B(x)) = i - 1
  BY <1>0, <1>1, <1>2, RanksCover
<1>5. \A i \in 1 .. N : s[i] \in S /\ Cardinality(B(s[i])) = i - 1
  BY <1>4
<1>6. s \in [1 .. N -> S]
  BY <1>5
<1>. HIDE DEF s
<1>7. \A i \in 1 .. N : Cardinality(Below(TurnOrder, S, s[i])) = i - 1
  BY <1>2, <1>5
<1>8. InOrder(s, TurnOrder, S)
  BY <1>0, <1>1, <1>6, <1>7, PicksInOrder
<1> QED BY <1>3, <1>8

(* The first few in turn: with a code, whoever is before it. *)
LEMMA Candidates ==
  ASSUME LabelTypes, NEW k, NEW todo, todo = LabelCandidates(k)
  PROVE  /\ todo \in Seq(Codes)
         /\ \A i, j \in DOMAIN todo : todo[i] = todo[j] => i = j
         /\ \A d \in ToSet(todo) : KindOf[d] = k /\ Wanted(d)
         /\ \A d \in ToSet(todo) : \A c \in Codes :
              KindOf[c] = k /\ Wanted(c) /\ SearchedBefore(c, d) => c \in ToSet(todo)
<1>. DEFINE S == {c \in Codes : KindOf[c] = k /\ Wanted(c)}
            s == Sorted(S, SearchedBefore)
            N == Cardinality(S)
            n == IF Len(s) < PerKind THEN Len(s) ELSE PerKind
<1>1. S \in SUBSET Codes
  OBVIOUS
<1>2. todo = SubSeq(s, 1, n)
  BY DEF LabelCandidates
<1>3. InOrder(s, TurnOrder, S)
  BY <1>1, CodesSorted
<1>. HIDE DEF S, s
<1>4. /\ N \in Nat /\ s \in [1 .. N -> S] /\ \A x \in S : \E i \in 1 .. N : s[i] = x
      /\ \A i, j \in 1 .. N : i < j <=> <<s[i], s[j]>> \in TurnOrder
  BY <1>3 DEF InOrder
<1>. HIDE DEF N
<1>5. s \in Seq(S) /\ Len(s) = N
  BY <1>4, SeqDef
<1>6. n \in Nat /\ n <= N
  BY <1>4, <1>5, LabelsAssumption
<1>. HIDE DEF n
<1>7. \A i \in 1 .. n : s[i] \in S
  BY <1>4, <1>6
<1>8. /\ todo \in Seq(S) /\ Len(todo) = n /\ DOMAIN todo = 1 .. n
      /\ \A i \in 1 .. n : todo[i] = s[i]
  <2>1. /\ todo \in Seq(S) /\ Len(todo) = (IF 1 <= n THEN n - 1 + 1 ELSE 0)
        /\ \A i \in 1 .. n - 1 + 1 : todo[i] = s[1 + i - 1]
    BY <1>2, <1>6, <1>7, SubSeqProperties
  <2>2. Len(todo) = n
    BY <1>6, <2>1
  <2>3. \A i \in 1 .. n : i \in 1 .. n - 1 + 1 /\ 1 + i - 1 = i
    BY <1>6
  <2> QED BY <2>1, <2>2, <2>3
<1>9. todo \in Seq(Codes)
  BY <1>1, <1>8
<1>10. Orders(TurnOrder, S)
  BY <1>1, TurnsOrder
<1>11. \A i, j \in 1 .. n : todo[i] = todo[j] => i = j
  <2> SUFFICES ASSUME NEW i \in 1 .. n, NEW j \in 1 .. n, todo[i] = todo[j], i # j PROVE FALSE
    OBVIOUS
  <2>1. i \in 1 .. N /\ j \in 1 .. N /\ s[i] = s[j] /\ s[i] \in S
    BY <1>4, <1>6, <1>7, <1>8
  <2>2. <<s[i], s[i]>> \in TurnOrder
    BY <1>4, <2>1
  <2> QED BY <1>10, <2>1, <2>2 DEF Orders
<1>12. \A d \in ToSet(todo) : d \in S
  BY <1>7, <1>8 DEF ToSet
<1>13. ASSUME NEW d \in ToSet(todo), NEW c \in S, <<c, d>> \in TurnOrder PROVE c \in ToSet(todo)
  <2>1. PICK i \in 1 .. n : d = s[i]
    BY <1>8 DEF ToSet
  <2>2. PICK j \in 1 .. N : c = s[j]
    BY <1>4
  <2>3. j < i
    BY <1>4, <1>6, <1>13, <2>1, <2>2
  <2>4. j \in 1 .. n
    BY <1>4, <1>6, <2>3
  <2> QED BY <1>8, <2>2, <2>4 DEF ToSet
<1>14. \A d \in ToSet(todo) : \A c \in Codes :
         KindOf[c] = k /\ Wanted(c) /\ SearchedBefore(c, d) => c \in ToSet(todo)
  BY <1>1, <1>12, <1>13 DEF S, TurnOrder
<1> QED BY <1>8, <1>9, <1>11, <1>12, <1>14 DEF S

-----------------------------------------------------------------------------
(* Who waits is searched for in turn. *)

(* Who has let a code by is unnamed, due, of its kind and before it in the  *)
(* order, unless it was named, and not in this instance's listing, in which *)
(* that code is not left.                                                   *)
Waited(c, d) ==
  /\ passed[c][d] = 1 /\ c \notin inst.listed /\ Wanted(c) /\ KindOf[c] = KindOf[d]
  /\ d \notin ToSet(inst.todo)
  /\ label[d] # "none" \/ missed[c] < missed[d]

TurnsHeld == \A c, d \in Codes : passed[c][d] # 0 => Waited(c, d)

LabelsInv == LabelTypes /\ TodoListed /\ TurnsHeld

LEMMA LabelsStart == LabelsInit => LabelsInv
<1> SUFFICES ASSUME LabelsInit PROVE LabelsInv
  OBVIOUS
<1>1. inst \in WeekInst /\ inst.at = "ended" /\ inst.todo = <<>> /\ inst.listed = {}
  BY DEF LabelsInit, Ended, WeekInst
<1>2. passed \in [Codes -> [Codes -> Nat]] /\ \A c, d \in Codes : passed[c][d] = 0
  BY DEF LabelsInit, NoPasses
<1>3. week \in Nat /\ label \in [Codes -> Origins] /\ missed \in [Codes -> 0 .. week]
      /\ unpurged \in BOOLEAN /\ excused \in BOOLEAN
  <2>1. label \in [Codes -> Origins]
    BY DEF LabelsInit, Origins
  <2>2. week = 0 /\ missed \in [Codes -> {0}] /\ 0 \in 0 .. 0
    BY DEF LabelsInit
  <2>3. missed \in [Codes -> 0 .. 0]
    BY <2>2
  <2>4. unpurged \in BOOLEAN /\ excused \in BOOLEAN
    BY DEF LabelsInit
  <2> QED BY <2>1, <2>2, <2>3, <2>4
<1> QED BY <1>1, <1>2, <1>3 DEF LabelsInv, LabelTypes, TodoListed, TurnsHeld, ToSet

LEMMA TrustOrigins ==
  \A o, p \in Origins : /\ TrustRank[o] \in Nat
                        /\ TrustRank[o] <= TrustRank[p] <=> p = "none" \/ o = p \/ o = "feed" \/ (o = "human" /\ p = "model")
BY DEF Origins, TrustRank

(* Labels are given, and taken from none. *)
LEMMA Labelled ==
  ASSUME LabelTypes, NEW c \in Codes, NEW o \in {"feed", "human", "model"}, WriteLabels(c, o)
  PROVE  /\ label' \in [Codes -> Origins] /\ label'[c] # "none"
         /\ \A d \in Codes \ {c} : label'[d] = label[d]
         /\ \A d \in Codes : label[d] # "none" => label'[d] # "none"
<1>1. label[c] \in Origins /\ o \in Origins
  BY DEF LabelTypes, Origins
<1>2. TrustRank[o] <= TrustRank[label[c]] \/ label[c] # "none"
  BY <1>1, TrustOrigins
<1>3. CASE TrustRank[o] <= TrustRank[label[c]]
  BY <1>1, <1>3 DEF WriteLabels, LabelTypes
<1>4. CASE ~(TrustRank[o] <= TrustRank[label[c]])
  BY <1>2, <1>4 DEF WriteLabels, LabelTypes
<1> QED BY <1>3, <1>4

(* The rest of a listing, once its first is over. *)
LEMMA NextTyped ==
  ASSUME LabelTypes, TodoListed, inst.todo # <<>>, NEW next,
         next \in [at : {inst.at}, kind : {inst.kind}, todo : {Tail(inst.todo)}, listed : {inst.listed},
                   attempt : Nat, named : BOOLEAN, failures : BOOLEAN]
  PROVE  /\ next \in WeekInst /\ next.listed = inst.listed /\ next.at = inst.at
         /\ ToSet(next.todo) = ToSet(inst.todo) \ {Head(inst.todo)}
         /\ Head(inst.todo) \in inst.listed /\ Head(inst.todo) \in Codes /\ Head(inst.todo) \in ToSet(inst.todo)
         /\ \A i, j \in DOMAIN next.todo : next.todo[i] = next.todo[j] => i = j
<1>. DEFINE s == inst.todo
            t == next.todo
<1>1. s \in Seq(Codes) /\ s # <<>> /\ t = Tail(s) /\ inst \in WeekInst
      /\ \A i, j \in DOMAIN s : s[i] = s[j] => i = j
  BY DEF LabelTypes, WeekInst, TodoListed
<1>2. next.listed = inst.listed /\ next.at = inst.at
  OBVIOUS
<1>3. inst.listed \in SUBSET Codes /\ ToSet(s) \subseteq inst.listed
  BY DEF LabelTypes, WeekInst, TodoListed
<1>. HIDE DEF s, t
<1>4. /\ t \in Seq(Codes) /\ Head(s) = s[1] /\ Len(s) \in Nat /\ Len(s) >= 1 /\ Len(t) = Len(s) - 1
      /\ \A i \in 1 .. Len(t) : t[i] = s[i + 1]
      /\ DOMAIN s = 1 .. Len(s) /\ DOMAIN t = 1 .. Len(t)
  BY <1>1, HeadTailProperties
<1>5. \A i, j \in DOMAIN t : t[i] = t[j] => i = j
  <2> SUFFICES ASSUME NEW i \in DOMAIN t, NEW j \in DOMAIN t, t[i] = t[j] PROVE i = j
    OBVIOUS
  <2>1. i + 1 \in DOMAIN s /\ j + 1 \in DOMAIN s /\ s[i + 1] = s[j + 1]
    BY <1>4
  <2>2. i + 1 = j + 1
    BY <1>1, <2>1
  <2> QED BY <1>4, <2>2
<1>6. ToSet(t) = ToSet(s) \ {Head(s)}
  <2>1. ASSUME NEW i \in DOMAIN t PROVE t[i] \in ToSet(s) \ {s[1]}
    <3>1. i + 1 \in DOMAIN s /\ 1 \in DOMAIN s /\ i + 1 # 1 /\ t[i] = s[i + 1]
      BY <1>4
    <3> QED BY <1>1, <3>1 DEF ToSet
  <2>2. ASSUME NEW i \in DOMAIN s, s[i] # s[1] PROVE s[i] \in ToSet(t)
    <3>1. i - 1 \in DOMAIN t /\ t[i - 1] = s[i - 1 + 1] /\ i - 1 + 1 = i
      BY <1>4, <2>2
    <3> QED BY <3>1 DEF ToSet
  <2>3. ToSet(s) = {s[i] : i \in DOMAIN s} /\ ToSet(t) = {t[i] : i \in DOMAIN t} /\ Head(s) = s[1]
    BY <1>4 DEF ToSet
  <2> QED BY <2>1, <2>2, <2>3
<1>7. Head(s) \in ToSet(s)
  BY <1>4 DEF ToSet
<1>8. next \in WeekInst
  <2>1. Tail(inst.todo) \in Seq(Codes)
    BY <1>1, <1>4 DEF s
  <2> QED BY <1>1, <2>1 DEF WeekInst
<1> QED BY <1>2, <1>3, <1>5, <1>6, <1>7, <1>8 DEF s, t

(* A search that came to its end: the code it was for is named or missed.   *)
LEMMA TurnsLetBy ==
  ASSUME LabelsInv, inst.at # "ended", inst.todo # <<>>, NEW d, d = Head(inst.todo),
         label' \in [Codes -> Origins], \A c \in Codes : label[c] # "none" => label'[c] # "none",
         missed' = missed \/ missed' = [missed EXCEPT ![d] = week],
         label'[d] # "none" \/ missed'[d] = week,
         UNCHANGED <<week, excused>>, unpurged' \in BOOLEAN,
         inst' \in [at : {inst.at}, kind : {inst.kind}, todo : {Tail(inst.todo)}, listed : {inst.listed},
                    attempt : Nat, named : BOOLEAN, failures : BOOLEAN],
         LetBy(d)
  PROVE  LabelsInv'
<1>1. /\ inst' \in WeekInst /\ inst'.listed = inst.listed /\ inst'.at = inst.at
      /\ ToSet(inst'.todo) = ToSet(inst.todo) \ {d}
      /\ d \in inst.listed /\ d \in Codes /\ d \in ToSet(inst.todo)
      /\ \A i, j \in DOMAIN inst'.todo : inst'.todo[i] = inst'.todo[j] => i = j
  BY NextTyped DEF LabelsInv
<1>2. TodoListed'
  BY <1>1 DEF LabelsInv, TodoListed
<1>3. /\ \A c \in Codes : missed[c] \in 0 .. week /\ week \in Nat /\ missed \in [Codes -> 0 .. week]
      /\ passed \in [Codes -> [Codes -> Nat]] /\ inst.listed \in SUBSET Codes
  BY DEF LabelsInv, LabelTypes, WeekInst
<1>4. passed' \in [Codes -> [Codes -> Nat]]
  <2>1. \A c \in Codes : passed[c] \in [Codes -> Nat] /\ NoPasses \in [Codes -> Nat]
    BY <1>3 DEF NoPasses
  <2>2. \A c \in Codes : [passed[c] EXCEPT ![d] = @ + 1] \in [Codes -> Nat]
    BY <1>1, <2>1
  <2> HIDE DEF NoPasses
  <2> QED BY <2>1, <2>2 DEF LetBy
<1>5. missed' \in [Codes -> 0 .. week']
  <2>1. week \in Nat
    BY DEF LabelsInv, LabelTypes
  <2>2. week \in 0 .. week
    BY <2>1
  <2> QED BY <1>1, <1>3, <2>2
<1>6. LabelTypes'
  BY <1>1, <1>3, <1>4, <1>5 DEF LabelsInv, LabelTypes
<1>7. ASSUME NEW c \in Codes, NEW e \in Codes, passed'[c][e] # 0 PROVE Waited(c, e)'
  <2>1. label'[c] = "none" /\ label[c] = "none"
    BY <1>3, <1>7 DEF LetBy, NoPasses, LabelsInv, LabelTypes
  <2>2. CASE passed'[c][e] = passed[c][e]
    <3>1. Waited(c, e)
      BY <1>7, <2>2 DEF LabelsInv, TurnsHeld
    <3>2. c # d
      BY <1>1, <3>1 DEF Waited
    <3>3. missed'[c] = missed[c] /\ (missed'[e] = missed[e] \/ e = d)
      BY <1>3, <3>2
    <3>4. e # d
      BY <1>1, <3>1 DEF Waited
    <3> QED BY <1>1, <2>1, <2>2, <3>1, <3>3, <3>4 DEF Waited, Wanted
  <2>3. CASE /\ e = d /\ passed'[c][e] = passed[c][e] + 1
             /\ KindOf[c] = KindOf[d] /\ c \notin inst.listed /\ Wanted(c)
    <3>1. passed[c][d] = 0
      BY <1>1 DEF LabelsInv, TurnsHeld, Waited
    <3>2. c # d
      BY <1>1, <2>3
    <3>3. missed'[c] = missed[c]
      BY <1>3, <3>2
    <3>4. AgainAfter \in Nat \ {0}
      BY LabelsAssumption
    <3>5. week # 0
      BY DEF LabelsInv, TodoListed
    <3>6. missed[c] < week
      BY <1>3, <2>3, <3>4, <3>5 DEF Wanted
    <3>7. d \notin ToSet(inst'.todo)
      BY <1>1
    <3> QED BY <1>1, <1>3, <2>1, <2>3, <3>1, <3>3, <3>6, <3>7 DEF Waited, Wanted
  <2>4. \/ passed'[c][e] = passed[c][e]
        \/ /\ e = d /\ passed'[c][e] = passed[c][e] + 1
           /\ KindOf[c] = KindOf[d] /\ c \notin inst.listed /\ Wanted(c)
    <3>1. passed'[c] = IF KindOf[c] = KindOf[d] /\ c \notin inst.listed /\ Wanted(c)
                       THEN [passed[c] EXCEPT ![d] = @ + 1] ELSE passed[c]
      BY <2>1 DEF LetBy
    <3>2. passed[c] \in [Codes -> Nat] /\ passed[c][e] \in Nat
      BY <1>3
    <3>3. CASE KindOf[c] = KindOf[d] /\ c \notin inst.listed /\ Wanted(c)
      BY <1>1, <3>1, <3>2, <3>3
    <3>4. CASE ~(KindOf[c] = KindOf[d] /\ c \notin inst.listed /\ Wanted(c))
      BY <3>1, <3>4
    <3> QED BY <3>3, <3>4
  <2> QED BY <2>2, <2>3, <2>4
<1> QED BY <1>2, <1>6, <1>7 DEF LabelsInv, TurnsHeld

LEMMA TurnsKept ==
  ASSUME LabelsInv, LabelTypes', week <= week',
         \A c \in Codes : label[c] # "none" => label'[c] # "none",
         \A c \in Codes : missed[c] <= missed'[c],
         \A c, e \in Codes : passed'[c][e] # 0 =>
           /\ passed'[c][e] = passed[c][e]
           /\ Waited(c, e) => /\ label'[c] = "none" /\ missed'[c] = missed[c]
                              /\ c \notin inst'.listed /\ e \notin ToSet(inst'.todo)
  PROVE  TurnsHeld'
<1> SUFFICES ASSUME NEW c \in Codes, NEW e \in Codes, passed'[c][e] # 0 PROVE Waited(c, e)'
  BY DEF TurnsHeld
<1>1. passed'[c][e] = passed[c][e] /\ Waited(c, e)
  BY DEF LabelsInv, TurnsHeld
<1>2. /\ label'[c] = "none" /\ missed'[c] = missed[c] /\ c \notin inst'.listed /\ e \notin ToSet(inst'.todo)
  BY <1>1
<1>3. /\ week \in Nat /\ week' \in Nat /\ missed[c] \in Nat /\ missed[e] \in Nat /\ missed'[e] \in Nat
      /\ missed[e] <= missed'[e] /\ AgainAfter \in Nat
  BY LabelsAssumption DEF LabelsInv, LabelTypes
<1>4. Wanted(c)'
  BY <1>1, <1>2, <1>3 DEF Waited, Wanted
<1>5. label'[e] # "none" \/ missed'[c] < missed'[e]
  BY <1>1, <1>2, <1>3 DEF Waited
<1> QED BY <1>1, <1>2, <1>4, <1>5 DEF Waited

LEMMA TurnsName ==
  ASSUME LabelsInv, NEW c \in Codes, Name(c) PROVE LabelsInv'
<1>1. /\ inst.at = "name" /\ inst.todo # <<>> /\ c = Head(inst.todo) /\ WriteLabels(c, "model")
      /\ inst' = [NextCandidate EXCEPT !.named = TRUE] /\ LetBy(c)
      /\ UNCHANGED <<week, missed, excused>> /\ unpurged' \in BOOLEAN
  BY DEF Name, LabelsInv, LabelTypes
<1>2. /\ label' \in [Codes -> Origins] /\ label'[c] # "none"
      /\ \A d \in Codes : label[d] # "none" => label'[d] # "none"
  BY <1>1, Labelled DEF LabelsInv
<1>3. inst' \in [at : {inst.at}, kind : {inst.kind}, todo : {Tail(inst.todo)}, listed : {inst.listed},
                 attempt : Nat, named : BOOLEAN, failures : BOOLEAN]
  BY <1>1 DEF NextCandidate, LabelsInv, LabelTypes, WeekInst
<1> QED BY <1>1, <1>2, <1>3, TurnsLetBy

LEMMA TurnsMiss ==
  ASSUME LabelsInv, NEW c \in Codes, Miss(c) PROVE LabelsInv'
<1>1. /\ inst.at = "name" /\ inst.todo # <<>> /\ c = Head(inst.todo) /\ missed' = [missed EXCEPT ![c] = week]
      /\ inst' = NextCandidate /\ LetBy(c)
      /\ UNCHANGED <<week, label, unpurged, excused>>
  BY DEF Miss
<1>2. label' \in [Codes -> Origins] /\ unpurged' \in BOOLEAN /\ missed'[c] = week
  BY <1>1 DEF LabelsInv, LabelTypes
<1>3. inst' \in [at : {inst.at}, kind : {inst.kind}, todo : {Tail(inst.todo)}, listed : {inst.listed},
                 attempt : Nat, named : BOOLEAN, failures : BOOLEAN]
  BY <1>1 DEF NextCandidate, LabelsInv, LabelTypes, WeekInst
<1> QED BY <1>1, <1>2, <1>3, TurnsLetBy

LEMMA TurnsFailName ==
  ASSUME LabelsInv, NEW c \in Codes, NEW wrote \in {"nothing", "name", "miss"}, FailName(c, wrote)
  PROVE  LabelsInv'
<1>1. /\ inst.at = "name" /\ inst.todo # <<>> /\ c = Head(inst.todo)
      /\ IF wrote = "name" THEN WriteLabels(c, "model") ELSE UNCHANGED label
      /\ missed' = IF wrote = "miss" THEN [missed EXCEPT ![c] = week] ELSE missed
      /\ unpurged' \in BOOLEAN /\ excused' \in BOOLEAN
      /\ passed' = IF label' # label THEN [passed EXCEPT ![c] = NoPasses] ELSE passed
      /\ inst' = IF inst.attempt < StepTries THEN [inst EXCEPT !.attempt = @ + 1]
                 ELSE [NextCandidate EXCEPT !.failures = TRUE]
      /\ UNCHANGED week
  BY DEF FailName, LabelsInv, LabelTypes
<1>2. /\ label' \in [Codes -> Origins]
      /\ \A d \in Codes : label[d] # "none" => label'[d] # "none"
      /\ \A d \in Codes \ {c} : label'[d] = label[d]
  <2>1. CASE wrote = "name"
    BY <1>1, <2>1, Labelled DEF LabelsInv
  <2>2. CASE wrote # "name"
    BY <1>1, <2>2 DEF LabelsInv, LabelTypes
  <2> QED BY <2>1, <2>2
<1>3. /\ inst \in WeekInst /\ passed \in [Codes -> [Codes -> Nat]] /\ week \in Nat
      /\ missed \in [Codes -> 0 .. week] /\ inst.listed \in SUBSET Codes /\ TodoListed
  BY DEF LabelsInv, LabelTypes, WeekInst
<1>4. /\ inst' \in WeekInst /\ inst'.listed = inst.listed /\ inst'.at = inst.at
      /\ ToSet(inst'.todo) \subseteq ToSet(inst.todo)
      /\ \A i, j \in DOMAIN inst'.todo : inst'.todo[i] = inst'.todo[j] => i = j
  <2>1. CASE inst' = [inst EXCEPT !.attempt = @ + 1]
    <3>1. inst.attempt + 1 \in Nat
      BY <1>3 DEF WeekInst
    <3>2. inst' \in WeekInst
      BY <1>3, <2>1, <3>1 DEF WeekInst
    <3>3. inst'.listed = inst.listed /\ inst'.at = inst.at /\ inst'.todo = inst.todo
      BY <1>3, <2>1 DEF WeekInst
    <3> QED BY <1>3, <3>2, <3>3 DEF TodoListed
  <2>2. CASE inst' = [NextCandidate EXCEPT !.failures = TRUE]
    <3>1. inst' \in [at : {inst.at}, kind : {inst.kind}, todo : {Tail(inst.todo)}, listed : {inst.listed},
                     attempt : Nat, named : BOOLEAN, failures : BOOLEAN]
      BY <1>3, <2>2 DEF NextCandidate, WeekInst
    <3>2. /\ inst' \in WeekInst /\ inst'.listed = inst.listed /\ inst'.at = inst.at
          /\ ToSet(inst'.todo) = ToSet(inst.todo) \ {Head(inst.todo)}
          /\ \A i, j \in DOMAIN inst'.todo : inst'.todo[i] = inst'.todo[j] => i = j
      <4>1. LabelTypes /\ TodoListed /\ inst.todo # <<>>
        BY <1>1 DEF LabelsInv
      <4> QED BY <3>1, <4>1, NextTyped
    <3>3. ToSet(inst'.todo) \subseteq ToSet(inst.todo)
      BY <3>2
    <3> QED BY <3>2, <3>3
  <2> QED BY <1>1, <2>1, <2>2
<1>5. /\ c \in inst.listed
  <2>1. inst.todo \in Seq(Codes) /\ 1 \in DOMAIN inst.todo /\ c = inst.todo[1]
    BY <1>1, <1>3 DEF WeekInst
  <2> QED BY <1>3, <2>1 DEF TodoListed, ToSet
<1>6. /\ missed' \in [Codes -> 0 .. week'] /\ \A e \in Codes \ {c} : missed'[e] = missed[e]
      /\ missed[c] <= missed'[c]
  <2>1. week \in 0 .. week /\ missed[c] \in 0 .. week /\ missed[c] <= week
    BY <1>3
  <2> QED BY <1>1, <1>3, <2>1
<1>7. /\ passed' \in [Codes -> [Codes -> Nat]]
      /\ \A d, e \in Codes : passed'[d][e] = passed[d][e] \/ (d = c /\ passed'[d][e] = 0)
  <2>1. NoPasses \in [Codes -> Nat] /\ \A e \in Codes : NoPasses[e] = 0
    BY DEF NoPasses
  <2> HIDE DEF NoPasses
  <2> QED BY <1>1, <1>3, <2>1
<1>8. LabelTypes'
  BY <1>1, <1>2, <1>3, <1>4, <1>6, <1>7 DEF LabelTypes
<1>9. TodoListed'
  BY <1>1, <1>3, <1>4 DEF TodoListed
<1>10. TurnsHeld'
  <2>1. \A d \in Codes : missed[d] <= missed'[d]
    <3>1. \A d \in Codes : missed[d] \in Nat
      BY <1>3
    <3> QED BY <1>6, <3>1
  <2>2. ASSUME NEW d \in Codes, NEW e \in Codes, passed'[d][e] # 0, Waited(d, e)
        PROVE  /\ label'[d] = "none" /\ missed'[d] = missed[d]
               /\ d \notin inst'.listed /\ e \notin ToSet(inst'.todo)
    <3>1. d \notin inst.listed /\ label[d] = "none" /\ e \notin ToSet(inst.todo)
      BY <2>2 DEF Waited, Wanted
    <3>2. d # c
      BY <1>5, <3>1
    <3> QED BY <1>2, <1>4, <1>6, <3>1, <3>2
  <2>3. week <= week'
    BY <1>1, <1>3
  <2> QED BY <1>2, <1>7, <1>8, <2>1, <2>2, <2>3, TurnsKept
<1> QED BY <1>8, <1>9, <1>10 DEF LabelsInv

LEMMA TurnsNamedElsewhere ==
  ASSUME LabelsInv, NEW c \in Codes, NEW o \in {"feed", "human"}, NamedElsewhere(c, o) PROVE LabelsInv'
<1>1. /\ WriteLabels(c, o) /\ passed' = [passed EXCEPT ![c] = NoPasses]
      /\ UNCHANGED <<week, missed, inst, unpurged, excused>>
  BY DEF NamedElsewhere
<1>2. /\ label' \in [Codes -> Origins]
      /\ \A d \in Codes \ {c} : label'[d] = label[d]
      /\ \A d \in Codes : label[d] # "none" => label'[d] # "none"
  BY <1>1, Labelled DEF LabelsInv
<1>3. /\ passed \in [Codes -> [Codes -> Nat]] /\ week \in Nat /\ missed \in [Codes -> 0 .. week]
  BY DEF LabelsInv, LabelTypes
<1>4. /\ passed' \in [Codes -> [Codes -> Nat]]
      /\ \A d, e \in Codes : passed'[d][e] = passed[d][e] \/ (d = c /\ passed'[d][e] = 0)
      /\ \A e \in Codes : passed'[c][e] = 0
  <2>1. NoPasses \in [Codes -> Nat] /\ \A e \in Codes : NoPasses[e] = 0
    BY DEF NoPasses
  <2> HIDE DEF NoPasses
  <2> QED BY <1>1, <1>3, <2>1
<1>5. LabelTypes' /\ TodoListed'
  BY <1>1, <1>2, <1>4 DEF LabelsInv, LabelTypes, TodoListed
<1>6. TurnsHeld'
  <2>1. ASSUME NEW d \in Codes, NEW e \in Codes, passed'[d][e] # 0, Waited(d, e)
        PROVE  /\ label'[d] = "none" /\ missed'[d] = missed[d]
               /\ d \notin inst'.listed /\ e \notin ToSet(inst'.todo)
    BY <1>1, <1>2, <1>4, <2>1 DEF Waited, Wanted
  <2>2. week <= week' /\ \A d \in Codes : missed[d] <= missed'[d]
    <3>1. \A d \in Codes : missed[d] \in Nat
      BY <1>3
    <3> QED BY <1>1, <1>3, <3>1
  <2> QED BY <1>2, <1>4, <1>5, <2>1, <2>2, TurnsKept
<1> QED BY <1>5, <1>6 DEF LabelsInv

LEMMA TurnsListUnnamed ==
  ASSUME LabelsInv, ListUnnamed PROVE LabelsInv'
<1>. DEFINE k == KindOrder[inst.kind]
            todo == LabelCandidates(k)
<1>1. /\ inst.at = "list" /\ UNCHANGED <<week, label, missed, unpurged, excused>>
      /\ inst' = [inst EXCEPT !.at = "name", !.todo = todo, !.listed = ToSet(todo), !.attempt = 1]
      /\ passed' = [c \in Codes |-> IF c \in ToSet(todo) THEN NoPasses ELSE passed[c]]
  BY DEF ListUnnamed
<1>2. /\ todo \in Seq(Codes)
      /\ \A i, j \in DOMAIN todo : todo[i] = todo[j] => i = j
      /\ \A d \in ToSet(todo) : KindOf[d] = k /\ Wanted(d)
      /\ \A d \in ToSet(todo) : \A c \in Codes :
           KindOf[c] = k /\ Wanted(c) /\ SearchedBefore(c, d) => c \in ToSet(todo)
  BY Candidates DEF LabelsInv
<1>. HIDE DEF todo, k
<1>3. /\ inst \in WeekInst /\ passed \in [Codes -> [Codes -> Nat]] /\ week \in Nat
      /\ missed \in [Codes -> 0 .. week]
  BY DEF LabelsInv, LabelTypes
<1>4. ToSet(todo) \in SUBSET Codes
  BY <1>2 DEF ToSet
<1>5. inst' \in WeekInst /\ inst'.todo = todo /\ inst'.listed = ToSet(todo)
  BY <1>1, <1>2, <1>3, <1>4 DEF WeekInst
<1>6. /\ passed' \in [Codes -> [Codes -> Nat]]
      /\ \A c, e \in Codes : IF c \in ToSet(todo) THEN passed'[c][e] = 0 ELSE passed'[c][e] = passed[c][e]
  <2>1. NoPasses \in [Codes -> Nat] /\ \A e \in Codes : NoPasses[e] = 0
    BY DEF NoPasses
  <2> HIDE DEF NoPasses
  <2> QED BY <1>1, <1>3, <2>1
<1>7. LabelTypes'
  BY <1>1, <1>5, <1>6 DEF LabelsInv, LabelTypes
<1>8. TodoListed'
  BY <1>1, <1>2, <1>5 DEF LabelsInv, TodoListed
<1>9. TurnsHeld'
  <2>1. ASSUME NEW d \in Codes, NEW e \in Codes, passed'[d][e] # 0, Waited(d, e)
        PROVE  /\ label'[d] = "none" /\ missed'[d] = missed[d]
               /\ d \notin inst'.listed /\ e \notin ToSet(inst'.todo)
    <3>1. d \notin ToSet(todo)
      BY <1>6, <2>1
    <3>2. ASSUME e \in ToSet(todo) PROVE FALSE
      <4>1. KindOf[d] = k /\ Wanted(e) /\ Wanted(d)
        BY <1>2, <2>1, <3>2 DEF Waited
      <4>2. SearchedBefore(d, e)
        BY <2>1, <4>1 DEF Waited, Wanted, SearchedBefore
      <4> QED BY <1>2, <3>1, <3>2, <4>1, <4>2
    <3> QED BY <1>1, <1>5, <2>1, <3>1, <3>2 DEF Waited, Wanted
  <2>2. week <= week' /\ \A d \in Codes : missed[d] <= missed'[d]
    <3>1. \A d \in Codes : missed[d] \in Nat
      BY <1>3
    <3> QED BY <1>1, <1>3, <3>1
  <2> QED BY <1>1, <1>6, <1>7, <2>1, <2>2, TurnsKept
<1> QED BY <1>7, <1>8, <1>9 DEF LabelsInv

LEMMA TurnsRest ==
  ASSUME LabelsInv, StartWeek \/ FailStep \/ EndKind \/ Purge \/ UNCHANGED labelVars PROVE LabelsInv'
<1>1. UNCHANGED <<label, missed, passed>> /\ week' \in {week, week + 1}
  BY DEF StartWeek, FailStep, EndKind, Purge, labelVars
<1>2. inst \in WeekInst /\ week \in Nat /\ missed \in [Codes -> 0 .. week]
  BY DEF LabelsInv, LabelTypes
<1>3. Ended \in WeekInst /\ Ended.todo = <<>> /\ Ended.listed = {} /\ Ended.at = "ended"
  BY DEF Ended, WeekInst
<1>4. /\ inst' \in WeekInst
      /\ \/ inst'.todo = <<>> /\ inst'.listed = {}
         \/ inst'.todo = inst.todo /\ inst'.listed = inst.listed
      /\ inst'.at # "ended" => week' # 0
  <2>1. CASE StartWeek
    <3>1. inst' = [Ended EXCEPT !.at = "list"] /\ week' = week + 1
      BY <2>1 DEF StartWeek
    <3>2. inst' \in WeekInst /\ inst'.todo = <<>> /\ inst'.listed = {}
      BY <1>3, <3>1 DEF WeekInst
    <3>3. week' # 0
      BY <1>2, <3>1
    <3> QED BY <3>2, <3>3
  <2>2. CASE FailStep \/ Purge
    BY <1>3, <2>2 DEF FailStep, Purge
  <2>3. CASE EndKind
    <3>1. /\ \/ inst' = [inst EXCEPT !.at = "list", !.kind = @ + 1]
             \/ inst' = [inst EXCEPT !.at = "purge"]
             \/ inst' = Ended
          /\ inst.at = "name" /\ week' = week
      BY <2>3 DEF EndKind
    <3>2. week # 0
      BY <3>1 DEF LabelsInv, TodoListed
    <3> HIDE DEF Ended
    <3>3. CASE inst' = [inst EXCEPT !.at = "list", !.kind = @ + 1]
      <4>1. inst.kind + 1 \in Nat
        BY <1>2 DEF WeekInst
      <4>2. inst' \in WeekInst
        BY <1>2, <3>3, <4>1 DEF WeekInst
      <4>3. inst'.todo = inst.todo /\ inst'.listed = inst.listed
        BY <1>2, <3>3 DEF WeekInst
      <4> QED BY <3>1, <3>2, <4>2, <4>3
    <3>4. CASE inst' = [inst EXCEPT !.at = "purge"]
      BY <1>2, <3>1, <3>2, <3>4 DEF WeekInst
    <3>5. CASE inst' = Ended
      BY <1>3, <3>5
    <3> QED BY <3>1, <3>3, <3>4, <3>5
  <2>4. CASE UNCHANGED labelVars
    BY <1>2, <2>4 DEF labelVars, LabelsInv, TodoListed
  <2> QED BY <2>1, <2>2, <2>3, <2>4
<1>5. unpurged' \in BOOLEAN /\ excused' \in BOOLEAN
  BY DEF StartWeek, FailStep, EndKind, Purge, labelVars, LabelsInv, LabelTypes
<1>6. missed' \in [Codes -> 0 .. week'] /\ week' \in Nat /\ week <= week'
  <2>1. 0 .. week \subseteq 0 .. week' /\ week' \in Nat /\ week <= week'
    BY <1>1, <1>2
  <2> QED BY <1>1, <1>2, <2>1
<1>7. LabelTypes'
  BY <1>1, <1>4, <1>5, <1>6 DEF LabelsInv, LabelTypes
<1>8. TodoListed'
  BY <1>4 DEF LabelsInv, TodoListed, ToSet
<1>9. TurnsHeld'
  <2>1. ASSUME NEW d \in Codes, NEW e \in Codes, Waited(d, e)
        PROVE  /\ label'[d] = "none" /\ missed'[d] = missed[d]
               /\ d \notin inst'.listed /\ e \notin ToSet(inst'.todo)
    BY <1>1, <1>4, <2>1 DEF Waited, Wanted, ToSet
  <2>2. \A d \in Codes : missed[d] <= missed'[d]
    <3>1. \A d \in Codes : missed[d] \in Nat
      BY <1>2
    <3> QED BY <1>1, <3>1
  <2> QED BY <1>1, <1>6, <1>7, <2>1, <2>2, TurnsKept
<1> QED BY <1>7, <1>8, <1>9 DEF LabelsInv

LEMMA LabelsInvariant == LabelsSpec => []LabelsInv
<1>1. LabelsInv /\ [LabelsNext]_labelVars => LabelsInv'
  BY TurnsName, TurnsMiss, TurnsFailName, TurnsNamedElsewhere, TurnsListUnnamed, TurnsRest DEF LabelsNext
<1> QED BY <1>1, LabelsStart, PTL DEF LabelsSpec

(* SearchedInTurn: while a code waits, unnamed and due, each other code of  *)
(* its kind comes to the end of a search once at most, whatever fails.      *)
THEOREM AlwaysSearchedInTurn == LabelsSpec => []SearchedInTurn
<1>1. LabelsInv => SearchedInTurn
  <2> SUFFICES ASSUME LabelsInv, NEW c \in Codes, NEW d \in Codes PROVE passed[c][d] <= 1
    BY DEF SearchedInTurn
  <2>1. passed[c][d] = 0 \/ passed[c][d] = 1
    BY DEF LabelsInv, TurnsHeld, Waited
  <2> QED BY <2>1
<1> QED BY <1>1, LabelsInvariant, PTL

-----------------------------------------------------------------------------
(* Names are purged. *)

(* What is unpurged is excused, or an instance's to purge yet.              *)
PurgeHeld == unpurged => excused \/ (inst.at # "ended" /\ inst.named)

LEMMA PurgeStep ==
  ASSUME inst \in WeekInst, PurgeHeld, [LabelsNext]_labelVars PROVE PurgeHeld'
<1>1. CASE StartWeek \/ FailStep \/ Purge \/ UNCHANGED labelVars
  <2>1. CASE StartWeek
    BY <2>1 DEF PurgeHeld, StartWeek
  <2>2. CASE FailStep
    BY <2>2 DEF PurgeHeld, FailStep
  <2>3. CASE Purge
    BY <2>3 DEF PurgeHeld, Purge
  <2>4. CASE UNCHANGED labelVars
    BY <2>4 DEF PurgeHeld, labelVars
  <2> QED BY <1>1, <2>1, <2>2, <2>3, <2>4
<1>2. CASE EndKind
  <2>1. /\ inst.at = "name" /\ UNCHANGED <<unpurged, excused>>
        /\ \/ inst' = [inst EXCEPT !.at = "list", !.kind = @ + 1]
           \/ inst' = [inst EXCEPT !.at = "purge"]
           \/ inst' = Ended /\ ~inst.named
    BY <1>2 DEF EndKind, Purges
  <2>2. (inst'.at # "ended" /\ inst'.named = inst.named) \/ ~inst.named
    BY <2>1 DEF WeekInst
  <2> QED BY <2>1, <2>2 DEF PurgeHeld
<1>3. ASSUME NEW c \in Codes, Name(c) PROVE PurgeHeld'
  <2>1. inst'.at # "ended" /\ inst'.named = TRUE
    BY <1>3 DEF Name, NextCandidate, WeekInst
  <2> QED BY <2>1 DEF PurgeHeld
<1>4. ASSUME NEW c \in Codes, Miss(c) PROVE PurgeHeld'
  <2>1. inst'.at = inst.at /\ inst'.named = inst.named
    BY <1>4 DEF Miss, NextCandidate, WeekInst
  <2> QED BY <1>4, <2>1 DEF PurgeHeld, Miss
<1>5. ASSUME NEW c \in Codes, NEW wrote \in {"nothing", "name", "miss"}, FailName(c, wrote)
      PROVE  PurgeHeld'
  <2>1. inst' \in {[inst EXCEPT !.attempt = @ + 1], [NextCandidate EXCEPT !.failures = TRUE]}
    BY <1>5 DEF FailName
  <2>2. inst'.at = inst.at /\ inst'.named = inst.named
    BY <2>1 DEF NextCandidate, WeekInst
  <2>3. unpurged' = (unpurged \/ label' # label) /\ excused' = (excused \/ label' # label)
    BY <1>5 DEF FailName
  <2> QED BY <2>2, <2>3 DEF PurgeHeld
<1>6. ASSUME NEW c \in Codes, NEW o \in {"feed", "human"}, NamedElsewhere(c, o)
      PROVE  PurgeHeld'
  BY <1>6 DEF NamedElsewhere, PurgeHeld
<1>7. CASE LabelsNext
  <2>1. \/ \E c \in Codes, o \in {"feed", "human"} : NamedElsewhere(c, o)
        \/ StartWeek \/ FailStep \/ EndKind \/ Purge \/ ListUnnamed
        \/ \E c \in Codes : Name(c) \/ Miss(c) \/ \E wrote \in {"nothing", "name", "miss"} : FailName(c, wrote)
    BY <1>7 DEF LabelsNext
  <2>2. CASE ListUnnamed
    BY <2>2 DEF ListUnnamed, PurgeHeld, WeekInst
  <2> QED BY <1>1, <1>2, <1>3, <1>4, <1>5, <1>6, <2>1, <2>2
<1> QED BY <1>1, <1>7

(* NamesPurged: an instance that ends, in error too, leaves no name         *)
(* unpurged, unless the step that wrote one failed, or a listing or the     *)
(* purge did.                                                               *)
THEOREM NamesAlwaysPurged == LabelsSpec => []NamesPurged
<1>1. LabelsInit => PurgeHeld
  BY DEF LabelsInit, PurgeHeld
<1>2. LabelsInv /\ PurgeHeld /\ [LabelsNext]_labelVars => PurgeHeld'
  BY PurgeStep DEF LabelsInv, LabelTypes
<1>3. PurgeHeld => NamesPurged
  BY DEF PurgeHeld, NamesPurged
<1> QED BY <1>1, <1>2, <1>3, LabelsInvariant, PTL DEF LabelsSpec

-----------------------------------------------------------------------------
(* Timelines: what contents say. *)

LEMMA GreatestOf ==
  ASSUME NEW S \in SUBSET Nat, S # {}, IsFiniteSet(S)
  PROVE  \E x \in S : \A y \in S : x >= y
<1>. DEFINE R == {p \in S \X S : p[1] > p[2]}
<1>1. \A x, y \in S : x \in Nat /\ y \in Nat /\ (<<x, y>> \in R <=> x > y)
  OBVIOUS
<1>. HIDE DEF R
<1>2. Orders(R, S)
  BY <1>1 DEF Orders
<1>3. Cardinality(S) \in Nat /\ Cardinality(S) # 0
  BY FS_CardinalityType, FS_EmptySet
<1>4. 1 \in 1 .. Cardinality(S) /\ 1 - 1 = 0
  BY <1>3
<1>5. PICK x \in S : Cardinality(Below(R, S, x)) = 0
  BY <1>2, <1>4, RanksCover
<1>6. Below(R, S, x) \in SUBSET S
  BY DEF Below
<1>7. Below(R, S, x) = {}
  <2>1. IsFiniteSet(Below(R, S, x))
    BY <1>6, FS_Subset
  <2> QED BY <1>5, <2>1, FS_EmptySet
<1>8. \A y \in S : <<y, x>> \notin R
  BY <1>7 DEF Below
<1>9. \A y \in S : y \in Nat /\ x \in Nat /\ ~(y > x)
  BY <1>1, <1>8
<1> QED BY <1>9

(* Some appearance is first. *)
LEMMA FirstOf ==
  ASSUME NEW A, A # {}, \A a \in A : a.day \in Nat /\ a.text \in Nat
  PROVE  \E a \in A : \A b \in A : b = a \/ ~Earlier(b, a)
<1>. DEFINE dated == {a \in A : a.day # 0}
<1>1. ASSUME NEW B \in SUBSET A, B # {} PROVE \E a \in B : \A b \in B : a.text <= b.text
  <2>1. \E t \in {a.text : a \in B} : \A u \in {a.text : a \in B} : t <= u
    <3> DEFINE T == {a.text : a \in B}
    <3>1. T \in SUBSET Nat /\ T # {}
      BY <1>1
    <3> HIDE DEF T
    <3>2. \E t \in T : \A u \in T : t <= u
      BY <3>1, LeastOf
    <3> QED BY <3>2 DEF T
  <2> QED BY <2>1
<1>2. CASE dated = {}
  <2>1. PICK a \in A : \A b \in A : a.text <= b.text
    BY <1>1
  <2>2. \A b \in A : a.day = 0 /\ b.day = 0 /\ a.text \in Nat /\ b.text \in Nat
    BY <1>2
  <2> QED BY <2>1, <2>2 DEF Earlier
<1>3. CASE dated # {}
  <2>1. PICK m \in {a.day : a \in dated} : \A n \in {a.day : a \in dated} : m <= n
    BY <1>3, LeastOf
  <2>2. {a \in dated : a.day = m} \in SUBSET A /\ {a \in dated : a.day = m} # {}
    BY <2>1
  <2>3. PICK a \in dated : a.day = m /\ \A b \in dated : b.day = m => a.text <= b.text
    BY <1>1, <2>2
  <2>4. ASSUME NEW b \in A, Earlier(b, a) PROVE FALSE
    <3>1. a.day # 0 /\ a.day \in Nat /\ b.day \in Nat /\ a.text \in Nat /\ b.text \in Nat
      OBVIOUS
    <3>2. b.day # 0 /\ (b.day < a.day \/ (b.day = a.day /\ b.text < a.text))
      BY <2>4, <3>1 DEF Earlier
    <3>3. b \in dated /\ a.day <= b.day
      BY <2>1, <2>3, <3>2
    <3> QED BY <2>3, <3>1, <3>2, <3>3
  <2> QED BY <2>4
<1> QED BY <1>2, <1>3

(* The copies of a content. *)
Same(line, sha, version) == {d \in OnLine(line) : d.sha = sha /\ d.version = version}

LEMMA ContentSays ==
  ASSUME copies \in SUBSET Copies, NEW line, NEW sha, NEW version, NEW same,
         same = Same(line, sha, version), same # {}
  PROVE  /\ ContentOf(same).sha = sha /\ ContentOf(same).version = version
         /\ ContentOf(same).lastDay \in Nat
         /\ ContentOf(same).beta = OnlyBetas(same)
         /\ \E x \in same : ContentOf(same).firstSeen = SeenOf(x.at)
<1>. DEFINE c == CHOOSE c \in same : TRUE
            A == {d.at : d \in same}
            first == CHOOSE a \in A : \A d \in same : d.at = a \/ ~Earlier(d.at, a)
            days == {d.at.day : d \in same} \ {0}
<1>1. ContentOf(same) =
        [sha |-> c.sha, version |-> c.version, firstSeen |-> SeenOf(first),
         firstDay |-> IF days = {} THEN 0 ELSE Min(days),
         lastDay |-> IF days = {} THEN 0 ELSE Max(days),
         beta |-> OnlyBetas(same)]
  BY DEF ContentOf
<1>2. /\ \A d \in same : d \in Copies /\ d.sha = sha /\ d.version = version
                         /\ d.at.day \in Nat /\ d.at.text \in Nat
      /\ IsFiniteSet(same)
  BY TimelinesAssumption, FS_Subset DEF Same, OnLine
<1>3. c.sha = sha /\ c.version = version
  BY <1>2
<1>4. \E x \in same : first = x.at
  <2>1. A # {} /\ \A a \in A : a.day \in Nat /\ a.text \in Nat
    BY <1>2
  <2>2. \E a \in A : \A b \in A : b = a \/ ~Earlier(b, a)
    <3> HIDE DEF A
    <3> QED BY <2>1, FirstOf
  <2>3. \E a \in A : \A d \in same : d.at = a \/ ~Earlier(d.at, a)
    BY <2>2
  <2>4. first \in A
    <3> HIDE DEF A
    <3> QED BY <2>3
  <2> HIDE DEF first
  <2> QED BY <2>4
<1>5. (IF days = {} THEN 0 ELSE Max(days)) \in Nat
  <2>1. days \in SUBSET Nat
    BY <1>2
  <2>2. IsFiniteSet(days)
    <3>1. IsFiniteSet({d.at.day : d \in same})
      <4> DEFINE D == {d.at.day : d \in same}
                 f == [d \in same |-> d.at.day]
      <4>1. f \in Surjection(same, D)
        BY DEF Surjection
      <4> HIDE DEF f, D
      <4>2. IsFiniteSet(D)
        BY <1>2, <4>1, FS_Surjection
      <4> QED BY <4>2 DEF D
    <3> QED BY <3>1, FS_Subset
  <2>3. days # {} => \E x \in days : \A y \in days : x >= y
    <3> HIDE DEF days
    <3> QED BY <2>1, <2>2, GreatestOf
  <2>4. days # {} => Max(days) \in days
    <3> HIDE DEF days
    <3> QED BY <2>3 DEF Max
  <2> QED BY <2>1, <2>4
<1>. HIDE DEF c, first, days
<1> QED BY <1>1, <1>3, <1>4, <1>5

(* A content is told by its sha and version, and says of its copies what    *)
(* every copy's content does.                                               *)
Contained ==
  /\ copies \in SUBSET Copies
  /\ \A line \in Lines : \A c \in Contents(line) :
       /\ c.sha \in Nat /\ c.version \in Nat /\ c.lastDay \in Nat
       /\ c = ContentOf(Same(line, c.sha, c.version))
       /\ \E x \in Same(line, c.sha, c.version) : c.firstSeen = SeenOf(x.at)
       /\ c.beta = OnlyBetas(Same(line, c.sha, c.version))
  /\ \A x \in copies : \E c \in Contents(x.line) : c.sha = x.sha /\ c.version = x.version

LEMMA CopiesContained ==
  ASSUME copies \in SUBSET Copies PROVE Contained
<1>1. ASSUME NEW x \in copies
      PROVE  LET c == ContentOf(Same(x.line, x.sha, x.version))
             IN /\ c \in Contents(x.line) /\ c.sha = x.sha /\ c.version = x.version /\ c.lastDay \in Nat
                /\ \E y \in Same(x.line, x.sha, x.version) : c.firstSeen = SeenOf(y.at)
                /\ c.beta = OnlyBetas(Same(x.line, x.sha, x.version))
  <2>1. x \in Same(x.line, x.sha, x.version) /\ x \in OnLine(x.line)
    BY DEF Same, OnLine
  <2>2. ContentOf(Same(x.line, x.sha, x.version)) \in Contents(x.line)
    BY <2>1 DEF Contents, Same
  <2> QED BY <2>1, <2>2, ContentSays
<1>2. ASSUME NEW line \in Lines, NEW c \in Contents(line)
      PROVE  \E x \in copies : x.line = line /\ c = ContentOf(Same(line, x.sha, x.version))
  BY DEF Contents, OnLine, Same
<1>3. \A x \in copies : x.sha \in Nat /\ x.version \in Nat
  BY TimelinesAssumption
<1> QED BY <1>1, <1>2, <1>3 DEF Contained

LEMMA AlwaysContained == TimelineSpec => []Contained
<1>1. TimelineInit => copies \in SUBSET Copies
  BY DEF TimelineInit
<1>2. copies \in SUBSET Copies /\ [TimelineNext]_copies => (copies \in SUBSET Copies)'
  BY DEF TimelineNext, AddCopy, DropCopy
<1> QED BY <1>1, <1>2, CopiesContained, PTL DEF TimelineSpec

(* Two contents of a line, in the line's order. *)
NewerOrder(line) == {p \in Contents(line) \X Contents(line) : Newer(p[1], p[2])}

LEMMA LineOrdered ==
  ASSUME Contained, NEW line \in Lines PROVE Orders(NewerOrder(line), Contents(line))
<1>. DEFINE S == Contents(line)
<1>1. \A c, d \in S : <<c, d>> \in NewerOrder(line) <=> Newer(c, d)
  BY DEF NewerOrder
<1>2. \A c \in S : c.sha \in Nat /\ c.version \in Nat /\ c.lastDay \in Nat
  BY DEF Contained
<1>3. \A c, d \in S : c.sha = d.sha /\ c.version = d.version => c = d
  BY DEF Contained
<1>. HIDE DEF S
<1>4. \A c \in S : ~Newer(c, c)
  BY <1>2 DEF Newer
<1>5. \A c, d \in S : c = d \/ Newer(c, d) \/ Newer(d, c)
  BY <1>2, <1>3 DEF Newer
<1>6. \A c, d, e \in S : Newer(c, d) /\ Newer(d, e) => Newer(c, e)
  BY <1>2 DEF Newer
<1> QED BY <1>1, <1>4, <1>5, <1>6 DEF Orders, S

(* ClashesOnlyAlike: the derivation of a source fails only over contents    *)
(* first appearance cannot tell apart.                                      *)
THEOREM AlwaysClashesOnlyAlike == TimelineSpec => []ClashesOnlyAlike
<1>1. ASSUME Contained, NEW line \in Lines, Clash(line), Alike(OnLine(line)) = {} PROVE FALSE
  <2>1. PICK c \in Contents(line), d \in Contents(line) : c # d /\ Slug(c, line) = Slug(d, line)
    BY <1>1 DEF Clash
  <2>2. PICK x \in OnLine(line) : x.sha = c.sha /\ x.version = c.version /\ c.firstSeen = SeenOf(x.at)
    BY <1>1 DEF Contained, Same
  <2>3. PICK y \in OnLine(line) : y.sha = d.sha /\ y.version = d.version /\ d.firstSeen = SeenOf(y.at)
    BY <1>1 DEF Contained, Same
  <2>4. x.line = y.line /\ c.firstSeen # <<>> /\ d.firstSeen # <<>>
        /\ ~(x.version = y.version /\ x.sha # y.sha /\ SeenOf(x.at) = SeenOf(y.at))
    BY <1>1, <2>2, <2>3 DEF Alike, OnLine
  <2>5. c.version = d.version
    BY <2>1 DEF Slug
  <2>6. c.sha # d.sha
    BY <1>1, <2>1, <2>5 DEF Contained
  <2>7. Older(c, line) \/ Older(d, line)
    <3>1. Newer(c, d) \/ Newer(d, c)
      BY <1>1, <2>1, LineOrdered DEF Orders, NewerOrder
    <3> QED BY <2>5, <3>1 DEF Older
  <2>8. c.firstSeen = d.firstSeen
    BY <2>1, <2>4, <2>7 DEF Slug
  <2> QED BY <2>2, <2>3, <2>4, <2>5, <2>6, <2>8
<1>2. Contained => ClashesOnlyAlike
  BY <1>1 DEF ClashesOnlyAlike
<1> QED BY <1>2, AlwaysContained, PTL

(* DatedSlugsPinned: the slug of an older content never comes to name       *)
(* another, but for contents first appearance cannot tell apart.            *)
THEOREM AlwaysDatedSlugsPinned == TimelineSpec => DatedSlugsPinned
<1>1. ASSUME Contained, Contained', Alike(copies \cup copies') = {} PROVE Pinned
  <2> SUFFICES ASSUME NEW line \in Lines \cap Lines', NEW c \in Contents(line), NEW d \in Contents(line)',
                      Len(Slug(c, line)) = 2, Slug(c, line) = Slug(d, line)'
               PROVE  c.sha = d.sha
    BY DEF Pinned
  <2>1. PICK x \in OnLine(line) : x.sha = c.sha /\ x.version = c.version /\ c.firstSeen = SeenOf(x.at)
    BY <1>1 DEF Contained, Same
  <2>2. PICK y \in OnLine(line)' : y.sha = d.sha /\ y.version = d.version /\ d.firstSeen = SeenOf(y.at)
    BY <1>1 DEF Contained, Same
  <2>3. Slug(c, line) = <<c.version, c.firstSeen>>
    BY DEF Slug
  <2>4. Slug(d, line)' \in {<<d.version, d.firstSeen>>, <<d.version>>}
    BY DEF Slug
  <2>5. c.version = d.version /\ c.firstSeen = d.firstSeen
    BY <2>3, <2>4
  <2>6. x \in copies /\ y \in copies' /\ x.line = line /\ y.line = line
    BY <2>1, <2>2 DEF OnLine
  <2> QED BY <1>1, <2>1, <2>2, <2>5, <2>6 DEF Alike
<1>2. Contained /\ Contained' => [Alike(copies \cup copies') = {} => Pinned]_copies
  BY <1>1
<1> QED BY <1>2, AlwaysContained, PTL DEF DatedSlugsPinned

(* A line's entries: its contents, every one once, the newest first.        *)
LEMMA LineSorted ==
  ASSUME Contained, NEW line \in Lines
  PROVE  \E s : /\ InOrder(s, NewerOrder(line), Contents(line))
                /\ s = Sorted(Contents(line), Newer)
                /\ LineEntries(line) =
                     [i \in DOMAIN s |->
                        [slug |-> Slug(s[i], line), version |-> s[i].version, sha |-> s[i].sha,
                         beta |-> s[i].beta, day |-> s[i].firstDay,
                         changed |-> i = Len(s) \/ s[i + 1].sha # s[i].sha]]
<1>. DEFINE S == Contents(line)
            N == Cardinality(S)
            B(x) == {y \in S : Newer(y, x)}
            s == [n \in 1 .. N |-> CHOOSE x \in S : Cardinality(B(x)) = n - 1]
<1>0. IsFiniteSet(S)
  <2>. DEFINE f == [c \in OnLine(line) |-> ContentOf({d \in OnLine(line) : d.sha = c.sha /\ d.version = c.version})]
  <2>1. IsFiniteSet(OnLine(line))
    <3>1. OnLine(line) \in SUBSET Copies
      BY DEF Contained, OnLine
    <3>2. IsFiniteSet(Copies)
      BY TimelinesAssumption
    <3> QED BY <3>1, <3>2, FS_Subset
  <2>2. f \in Surjection(OnLine(line), S)
    BY DEF Surjection, Contents
  <2>. HIDE DEF f, S
  <2> QED BY <2>1, <2>2, FS_Surjection
<1>1. Orders(NewerOrder(line), S)
  BY LineOrdered
<1>2. \A x \in S : B(x) = Below(NewerOrder(line), S, x)
  BY DEF Below, NewerOrder
<1>3. Sorted(S, Newer) = s
  BY DEF Sorted
<1>. HIDE DEF B, S
<1>4. \A i \in 1 .. N : \E x \in S : Cardinality(B(x)) = i - 1
  BY <1>0, <1>1, <1>2, RanksCover
<1>5. \A i \in 1 .. N : s[i] \in S /\ Cardinality(B(s[i])) = i - 1
  BY <1>4
<1>6. s \in [1 .. N -> S]
  BY <1>5
<1>. HIDE DEF s
<1>7. \A i \in 1 .. N : Cardinality(Below(NewerOrder(line), S, s[i])) = i - 1
  BY <1>2, <1>5
<1>8. InOrder(s, NewerOrder(line), S)
  BY <1>0, <1>1, <1>6, <1>7, PicksInOrder
<1>9. LineEntries(line) =
        [i \in DOMAIN s |->
           [slug |-> Slug(s[i], line), version |-> s[i].version, sha |-> s[i].sha,
            beta |-> s[i].beta, day |-> s[i].firstDay,
            changed |-> i = Len(s) \/ s[i + 1].sha # s[i].sha]]
  BY <1>3 DEF LineEntries, S
<1> QED BY <1>3, <1>8, <1>9 DEF S

(* What a line's N entries say, of its contents s.                          *)
Entered(line, N, s) ==
  /\ N \in Nat /\ s \in [1 .. N -> Contents(line)]
  /\ \A c \in Contents(line) : \E i \in 1 .. N : s[i] = c
  /\ \A i, j \in 1 .. N : i < j <=> Newer(s[i], s[j])
  /\ DOMAIN LineEntries(line) = 1 .. N /\ Len(LineEntries(line)) = N
  /\ \A i \in 1 .. N : LET e == LineEntries(line)[i] IN
       /\ e.slug = Slug(s[i], line) /\ e.version = s[i].version /\ e.sha = s[i].sha
       /\ e.beta = s[i].beta

LEMMA Entries ==
  ASSUME Contained, NEW line \in Lines
  PROVE  \E N, s : Entered(line, N, s)
<1>1. PICK s : /\ InOrder(s, NewerOrder(line), Contents(line))
               /\ LineEntries(line) =
                     [i \in DOMAIN s |->
                        [slug |-> Slug(s[i], line), version |-> s[i].version, sha |-> s[i].sha,
                         beta |-> s[i].beta, day |-> s[i].firstDay,
                         changed |-> i = Len(s) \/ s[i + 1].sha # s[i].sha]]
  BY LineSorted
<1>. DEFINE N == Cardinality(Contents(line))
<1>2. /\ s \in [1 .. N -> Contents(line)] /\ N \in Nat
      /\ \A x \in Contents(line) : \E i \in 1 .. N : s[i] = x
      /\ \A i, j \in 1 .. N : i < j <=> <<s[i], s[j]>> \in NewerOrder(line)
  BY <1>1 DEF InOrder
<1>. HIDE DEF N
<1>3. DOMAIN LineEntries(line) = 1 .. N
  BY <1>1, <1>2
<1>4. LineEntries(line) = [i \in 1 .. N |-> LineEntries(line)[i]]
  BY <1>1, <1>3
<1>5. Len(LineEntries(line)) = N
  BY <1>2, <1>4
<1>6. \A i, j \in 1 .. N : i < j <=> Newer(s[i], s[j])
  BY <1>2 DEF NewerOrder
<1>7. \A i \in 1 .. N : LET e == LineEntries(line)[i] IN
                /\ e.slug = Slug(s[i], line) /\ e.version = s[i].version /\ e.sha = s[i].sha
                /\ e.beta = s[i].beta
  BY <1>1, <1>2
<1>8. Entered(line, N, s)
  BY <1>2, <1>3, <1>5, <1>6, <1>7 DEF Entered
<1> QED BY <1>8

LEMMA MinOf ==
  ASSUME NEW S \in SUBSET Nat, S # {} PROVE Min(S) \in S /\ \A i \in S : Min(S) <= i
<1>1. \E x \in S : \A y \in S : x <= y
  BY LeastOf
<1> QED BY <1>1 DEF Min

(* SlugsResolve: every content a line holds is found under its own slug,    *)
(* with the entry after it as its previous version.                         *)
THEOREM AlwaysSlugsResolve == TimelineSpec => []SlugsResolve
<1>1. ASSUME Contained, NEW line \in Lines, ~Clash(line), NEW c \in Contents(line)
      PROVE  LET at == VersionOn(line, Slug(c, line))
                 later == {d \in Contents(line) : Newer(c, d)}
             IN /\ at.found /\ at.entry.sha = c.sha /\ at.entry.version = c.version
                /\ IF later = {} THEN at.previous = <<>>
                   ELSE \E d \in later : /\ at.previous.sha = d.sha /\ at.previous.version = d.version
                                         /\ \A x \in later \ {d} : Newer(d, x)
  <2>. DEFINE entries == LineEntries(line)
              later == {d \in Contents(line) : Newer(c, d)}
              slug == Slug(c, line)
  <2>0. PICK N, s : Entered(line, N, s)
    BY <1>1, Entries
  <2>1. /\ N \in Nat /\ s \in [1 .. N -> Contents(line)]
        /\ \A d \in Contents(line) : \E j \in 1 .. N : s[j] = d
        /\ \A j, k \in 1 .. N : j < k <=> Newer(s[j], s[k])
        /\ DOMAIN entries = 1 .. N /\ Len(entries) = N
        /\ \A j \in 1 .. N : /\ entries[j].slug = Slug(s[j], line) /\ entries[j].version = s[j].version
                             /\ entries[j].sha = s[j].sha
    BY <2>0 DEF Entered
  <2>2. PICK i \in 1 .. N : s[i] = c
    BY <2>1
  <2>. HIDE DEF entries
  <2>3. \A j \in 1 .. N : entries[j].slug = slug => j = i
    <3> SUFFICES ASSUME NEW j \in 1 .. N, entries[j].slug = slug, j # i PROVE FALSE
      OBVIOUS
    <3>1. s[j] = c
      BY <1>1, <2>1 DEF Clash
    <3>2. ~(i < i) /\ (i < j \/ j < i)
      BY <2>1
    <3> QED BY <2>1, <2>2, <3>1, <3>2
  <2>4. At(entries, slug) = i
    <3>. DEFINE I == {j \in 1 .. Len(entries) : entries[j].slug = slug}
    <3>1. I = {i}
      BY <2>1, <2>2, <2>3
    <3>2. At(entries, slug) = IF I # {} THEN Min(I) ELSE 0
      BY DEF At, SelectInSeq
    <3>. HIDE DEF I
    <3>3. Min(I) \in I
      BY <3>1, MinOf
    <3> QED BY <3>1, <3>2, <3>3
  <2>5. slug # <<>>
    BY DEF Slug
  <2>6. VersionOn(line, slug) =
          [found |-> i # 0, entry |-> IF i = 0 THEN <<>> ELSE entries[i],
           previous |-> IF i = 0 \/ i = Len(entries) THEN <<>> ELSE entries[i + 1]]
    BY <2>4, <2>5 DEF VersionOn, entries
  <2>. HIDE DEF slug
  <2>7. /\ VersionOn(line, slug).found /\ VersionOn(line, slug).entry = entries[i]
        /\ VersionOn(line, slug).previous = IF i = N THEN <<>> ELSE entries[i + 1]
    <3>1. i # 0 /\ Len(entries) = N
      BY <2>1, <2>2
    <3>2. VersionOn(line, slug) =
            [found |-> TRUE, entry |-> entries[i], previous |-> IF i = N THEN <<>> ELSE entries[i + 1]]
      BY <2>6, <3>1
    <3> QED BY <3>2
  <2>8. CASE i = N
    <3>1. later = {}
      <4> SUFFICES ASSUME NEW d \in Contents(line), Newer(c, d) PROVE FALSE
        OBVIOUS
      <4>1. PICK j \in 1 .. N : s[j] = d
        BY <2>1
      <4>2. i < j
        BY <2>1, <2>2, <4>1
      <4> QED BY <2>8, <4>2
    <3> QED BY <2>1, <2>2, <2>7, <2>8, <3>1 DEF slug
  <2>9. CASE i # N
    <3>1. i + 1 \in 1 .. N /\ i < i + 1
      BY <2>1, <2>9
    <3>. DEFINE d == s[i + 1]
    <3>2. d \in later
      BY <2>1, <2>2, <3>1
    <3>3. ASSUME NEW x \in later \ {d} PROVE Newer(d, x)
      <4>1. PICK j \in 1 .. N : s[j] = x
        BY <2>1
      <4>2. i < j /\ j # i + 1
        BY <2>1, <2>2, <4>1
      <4>3. i + 1 < j
        BY <4>2
      <4> QED BY <2>1, <3>1, <4>1, <4>3
    <3>4. VersionOn(line, slug).previous.sha = d.sha /\ VersionOn(line, slug).previous.version = d.version
      BY <2>1, <2>7, <2>9, <3>1
    <3>. HIDE DEF d
    <3> QED BY <2>1, <2>2, <2>7, <3>2, <3>3, <3>4 DEF slug
  <2> QED BY <2>8, <2>9
<1>2. Contained => SlugsResolve
  BY <1>1 DEF SlugsResolve
<1> QED BY <1>2, AlwaysContained, PTL

(* HeadShipped: the version shown where none is named is one some release   *)
(* that is no beta shipped, and none so shipped is of a later version.      *)
THEOREM AlwaysHeadShipped == TimelineSpec => []HeadShipped
<1>1. ASSUME Contained, NEW line,
             NEW shipped, shipped = {c \in OnLine(line) : ~(c.at.kind = "release" /\ c.at.beta)}, shipped # {}
      PROVE  \E c \in shipped : /\ c.sha = VersionOn(line, <<>>).entry.sha
                                /\ c.version = VersionOn(line, <<>>).entry.version
                                /\ \A d \in shipped : d.version <= c.version
  <2>. DEFINE entries == LineEntries(line)
              final == {i \in DOMAIN entries : ~entries[i].beta}
  <2>1. line \in Lines
    BY <1>1 DEF Lines, OnLine
  <2>0. PICK N, s : Entered(line, N, s)
    BY <1>1, <2>1, Entries
  <2>2. /\ N \in Nat /\ s \in [1 .. N -> Contents(line)]
        /\ \A d \in Contents(line) : \E j \in 1 .. N : s[j] = d
        /\ \A j, k \in 1 .. N : j < k <=> Newer(s[j], s[k])
        /\ DOMAIN entries = 1 .. N
        /\ \A j \in 1 .. N : /\ entries[j].beta = s[j].beta /\ entries[j].version = s[j].version
                             /\ entries[j].sha = s[j].sha
    BY <2>0 DEF Entered
  <2>. HIDE DEF entries
  <2>3. ASSUME NEW d \in shipped PROVE \E j \in final : s[j].version = d.version
    <3>1. d \in copies /\ d.line = line /\ ~(d.at.kind = "release" /\ d.at.beta)
      BY <1>1 DEF OnLine
    <3>2. PICK c \in Contents(line) : c.sha = d.sha /\ c.version = d.version
      BY <1>1, <3>1 DEF Contained
    <3>3. d \in Same(line, c.sha, c.version)
      BY <3>1, <3>2 DEF Same, OnLine
    <3>4. ~c.beta
      <4>1. c.beta = OnlyBetas(Same(line, c.sha, c.version))
        BY <1>1, <2>1 DEF Contained
      <4> QED BY <3>1, <3>3, <4>1 DEF OnlyBetas
    <3>5. PICK j \in 1 .. N : s[j] = c
      BY <2>2
    <3> QED BY <2>2, <3>2, <3>4, <3>5
  <2>4. final \in SUBSET Nat /\ final # {}
    BY <1>1, <2>2, <2>3
  <2>. DEFINE i == Min(final)
  <2>5. i \in final /\ \A j \in final : i <= j
    <3> HIDE DEF final
    <3> QED BY <2>4, MinOf
  <2>6. HeadAt(line) = i
    BY <2>4 DEF HeadAt, entries
  <2>. HIDE DEF i
  <2>7. i \in 1 .. N /\ ~s[i].beta /\ i # 0
    BY <2>2, <2>5
  <2>8. VersionOn(line, <<>>).entry = entries[i]
    BY <2>6, <2>7 DEF VersionOn, entries
  <2>9. PICK c \in shipped : c.sha = s[i].sha /\ c.version = s[i].version
    <3>1. s[i] \in Contents(line)
      BY <2>2, <2>7
    <3>2. s[i].beta = OnlyBetas(Same(line, s[i].sha, s[i].version))
      BY <1>1, <2>1, <3>1 DEF Contained
    <3>3. PICK c \in Same(line, s[i].sha, s[i].version) : ~(c.at.kind = "release" /\ c.at.beta)
      BY <2>7, <3>2 DEF OnlyBetas
    <3> QED BY <1>1, <3>3 DEF Same
  <2>10. ASSUME NEW d \in shipped PROVE d.version <= c.version
    <3>1. PICK j \in final : s[j].version = d.version
      BY <2>3
    <3>2. j \in 1 .. N /\ i <= j
      BY <2>2, <2>5, <3>1
    <3>3. s[i].version \in Nat /\ s[j].version \in Nat
      <4>1. s[i] \in Contents(line) /\ s[j] \in Contents(line)
        BY <2>2, <2>7, <3>2
      <4> QED BY <1>1, <2>1, <4>1 DEF Contained
    <3>4. CASE i = j
      BY <2>9, <3>1, <3>3, <3>4
    <3>5. CASE i < j
      <4>1. Newer(s[i], s[j])
        BY <2>2, <2>7, <3>2, <3>5
      <4> QED BY <2>9, <3>1, <3>3, <4>1 DEF Newer
    <3>6. i = j \/ i < j
      BY <2>7, <3>2
    <3> QED BY <3>4, <3>5, <3>6
  <2> QED BY <2>2, <2>7, <2>8, <2>9, <2>10
<1>2. Contained => HeadShipped
  BY <1>1 DEF HeadShipped
<1> QED BY <1>2, AlwaysContained, PTL

-----------------------------------------------------------------------------
(* Linking: keys, edges and their order. *)

LEMMA KeyRanks ==
  /\ \A s \in Sources : KeyRank[s] \in Nat \ {0} /\ KeyOrder[KeyRank[s]] = s
  /\ \A s, t \in Sources : KeyRank[s] = KeyRank[t] => s = t
  /\ IsFiniteSet(Sources)
<1>1. /\ KeyOrder \in Seq(Sources) /\ Len(KeyOrder) \in Nat /\ DOMAIN KeyOrder = 1 .. Len(KeyOrder)
      /\ Sources = {KeyOrder[i] : i \in DOMAIN KeyOrder}
  BY LinkingAssumption DEF Range
<1>2. ASSUME NEW s \in Sources PROVE KeyRank[s] \in DOMAIN KeyOrder /\ KeyOrder[KeyRank[s]] = s
  <2>1. \E i \in DOMAIN KeyOrder : KeyOrder[i] = s
    BY <1>1
  <2>2. KeyRank[s] = CHOOSE i \in DOMAIN KeyOrder : KeyOrder[i] = s
    BY DEF KeyRank
  <2> QED BY <2>1, <2>2
<1>3. IsFiniteSet(Sources)
  <2>1. IsFiniteSet(1 .. Len(KeyOrder))
    <3>1. 1 \in Int /\ Len(KeyOrder) \in Int
      BY <1>1
    <3> QED BY <3>1, FS_Interval
  <2>2. KeyOrder \in Surjection(1 .. Len(KeyOrder), Sources)
    BY <1>1 DEF Surjection
  <2> QED BY <2>1, <2>2, FS_Surjection
<1>4. \A s \in Sources : KeyRank[s] \in Nat \ {0}
  BY <1>1, <1>2
<1> QED BY <1>2, <1>3, <1>4

Ruled == \A s \in Known : head[s] \subseteq Rules

LEMMA SimsFinite ==
  ASSUME Ruled, NEW s \in Known PROVE Sims(s) \in SUBSET Rules /\ IsFiniteSet(Sims(s)) /\ Cardinality(Sims(s)) \in Nat
<1>1. Sims(s) \in SUBSET Rules /\ IsFiniteSet(Rules)
  BY LinkingAssumption DEF Ruled, Sims
<1>2. IsFiniteSet(Sims(s))
  BY <1>1, FS_Subset
<1> QED BY <1>1, <1>2, FS_CardinalityType

(* Two known sources, so strongly. *)
EdgeOf(e) ==
  /\ \E s, t \in Known : s # t /\ e.between = {s, t}
  /\ e.strength \in 0 .. Cardinality(Rules) + 1
  /\ e = [between |-> e.between, strength |-> e.strength]

LEMMA EdgesJoin ==
  ASSUME Ruled, NEW e \in Edges PROVE EdgeOf(e)
<1>0. IsFiniteSet(Rules) /\ Cardinality(Rules) \in Nat
  BY LinkingAssumption, FS_CardinalityType
<1>1. CASE e \in Manual
  <2>1. PICK l \in Links : l \subseteq Known /\ e = [between |-> l, strength |-> Cardinality(Rules) + 1]
    BY <1>1 DEF Manual
  <2>2. PICK s \in Sources, t \in Sources : s # t /\ l = {s, t}
    BY LinkingAssumption
  <2>3. Cardinality(Rules) + 1 \in 0 .. Cardinality(Rules) + 1
    BY <1>0
  <2> QED BY <2>1, <2>2, <2>3 DEF EdgeOf
<1>2. CASE e \in SimEdges
  <2>. DEFINE shared == SharedKeys
              best == Best(shared)
  <2>1. PICK p \in Carriers \X Carriers :
          Chooses(p[1], p[2], shared, best) /\ e = [between |-> {p[1], p[2]}, strength |-> shared[p]]
    BY <1>2 DEF SimEdges
  <2>2. p = <<p[1], p[2]>> /\ p[1] \in Carriers /\ p[2] \in Carriers
    OBVIOUS
  <2>. HIDE DEF best
  <2>3. p[2] \in best[p[1]]
    BY <2>1 DEF Chooses
  <2>4. shared[<<p[1], p[2]>>] > 0
    BY <2>2, <2>3 DEF best, Best
  <2>5. shared[<<p[1], p[2]>>] = IF p[1].platform = p[2].platform THEN 0 ELSE Cardinality(Sims(p[1]) \cap Sims(p[2]))
    BY <2>2 DEF SharedKeys
  <2>6. p[1] # p[2]
    BY <2>4, <2>5
  <2>7. shared[p] = shared[<<p[1], p[2]>>]
    BY <2>2
  <2>8. shared[<<p[1], p[2]>>] \in 0 .. Cardinality(Rules) + 1
    <3>1. Sims(p[1]) \cap Sims(p[2]) \in SUBSET Rules
      BY <2>2, SimsFinite DEF Carriers
    <3>2. Cardinality(Sims(p[1]) \cap Sims(p[2])) \in Nat /\ Cardinality(Sims(p[1]) \cap Sims(p[2])) <= Cardinality(Rules)
      BY <1>0, <3>1, FS_Subset, FS_CardinalityType
    <3> QED BY <1>0, <2>5, <3>2
  <2>9. p[1] \in Known /\ p[2] \in Known
    BY <2>2 DEF Carriers
  <2>. HIDE DEF shared
  <2> QED BY <2>1, <2>6, <2>7, <2>8, <2>9 DEF EdgeOf
<1> QED BY <1>1, <1>2 DEF Edges

EdgeOrder == {p \in Edges \X Edges : Stronger(p[1], p[2])}

(* An edge's two keys tell it. *)
LEMMA EdgeKeys ==
  ASSUME NEW e, EdgeOf(e)
  PROVE  /\ FirstKey(e) \in Nat /\ LastKey(e) \in Nat
         /\ e.between = {KeyOrder[FirstKey(e)], KeyOrder[LastKey(e)]}
<1>1. PICK s \in Known, t \in Known : s # t /\ e.between = {s, t}
  BY DEF EdgeOf
<1>2. s \in Sources /\ t \in Sources
  BY DEF Known
<1>. DEFINE m == KeyRank[s]
            n == KeyRank[t]
            K == {KeyRank[x] : x \in e.between}
<1>3. m \in Nat /\ n \in Nat /\ KeyOrder[m] = s /\ KeyOrder[n] = t
  BY <1>2, KeyRanks
<1>4. K = {m, n}
  BY <1>1
<1>. HIDE DEF m, n, K
<1>5. Min(K) \in K /\ \A i \in K : Min(K) <= i
  BY <1>3, <1>4, MinOf
<1>6. Max(K) \in K /\ \A i \in K : Max(K) >= i
  <2>1. \E x \in K : \A y \in K : x >= y
    BY <1>3, <1>4
  <2> QED BY <2>1 DEF Max
<1>7. {Min(K), Max(K)} = {m, n}
  BY <1>3, <1>4, <1>5, <1>6
<1>8. e.between = {KeyOrder[Min(K)], KeyOrder[Max(K)]}
  BY <1>1, <1>3, <1>7
<1>9. FirstKey(e) = Min(K) /\ LastKey(e) = Max(K)
  BY DEF FirstKey, LastKey, K
<1> QED BY <1>3, <1>4, <1>5, <1>6, <1>8, <1>9

LEMMA EdgesOrder ==
  ASSUME Ruled PROVE Orders(EdgeOrder, Edges)
<1>1. \A e, f \in Edges : <<e, f>> \in EdgeOrder <=> Stronger(e, f)
  BY DEF EdgeOrder
<1>2. \A e \in Edges : EdgeOf(e) /\ FirstKey(e) \in Nat /\ LastKey(e) \in Nat
  BY EdgesJoin, EdgeKeys
<1>3. Cardinality(Rules) \in Nat
  BY LinkingAssumption, FS_CardinalityType
<1>4. \A e \in Edges : e.strength \in Nat
  BY <1>2, <1>3 DEF EdgeOf
<1>5. \A e, f \in Edges : e.strength = f.strength /\ FirstKey(e) = FirstKey(f) /\ LastKey(e) = LastKey(f) => e = f
  <2> SUFFICES ASSUME NEW e \in Edges, NEW f \in Edges,
                      e.strength = f.strength, FirstKey(e) = FirstKey(f), LastKey(e) = LastKey(f)
               PROVE  e = f
    OBVIOUS
  <2>1. e.between = f.between
    BY <1>2, EdgeKeys
  <2>2. e = [between |-> e.between, strength |-> e.strength] /\ f = [between |-> f.between, strength |-> f.strength]
    BY <1>2 DEF EdgeOf
  <2> QED BY <2>1, <2>2
<1>6. \A e \in Edges : ~Stronger(e, e)
  BY <1>2, <1>4 DEF Stronger
<1>7. \A e, f \in Edges : e = f \/ Stronger(e, f) \/ Stronger(f, e)
  BY <1>2, <1>4, <1>5 DEF Stronger
<1>8. \A e, f, g \in Edges : Stronger(e, f) /\ Stronger(f, g) => Stronger(e, g)
  BY <1>2, <1>4 DEF Stronger
<1> QED BY <1>1, <1>6, <1>7, <1>8 DEF Orders

LEMMA EdgesFinite ==
  ASSUME Ruled PROVE IsFiniteSet(Edges)
<1>. DEFINE P == (SUBSET Sources) \X (0 .. Cardinality(Rules) + 1)
            edge == [p \in P |-> [between |-> p[1], strength |-> p[2]]]
            E == {edge[p] : p \in P}
<1>1. IsFiniteSet(P)
  <2>1. IsFiniteSet(SUBSET Sources)
    BY KeyRanks, FS_SUBSET
  <2>2. IsFiniteSet(0 .. Cardinality(Rules) + 1)
    <3>1. 0 \in Int /\ Cardinality(Rules) + 1 \in Int
      BY LinkingAssumption, FS_CardinalityType
    <3> QED BY <3>1, FS_Interval
  <2> QED BY <2>1, <2>2, FS_Product
<1>2. edge \in Surjection(P, E)
  <2>. HIDE DEF P
  <2> QED BY DEF Surjection
<1>3. ASSUME NEW e \in Edges PROVE e \in E
  <2>1. EdgeOf(e)
    BY EdgesJoin
  <2>2. <<e.between, e.strength>> \in P
    BY <2>1 DEF EdgeOf, Known
  <2>3. e = edge[<<e.between, e.strength>>]
    BY <2>1, <2>2 DEF EdgeOf
  <2>. HIDE DEF edge, P
  <2> QED BY <2>2, <2>3
<1>. HIDE DEF edge, P, E
<1>4. IsFiniteSet(E)
  BY <1>1, <1>2, FS_Surjection
<1> QED BY <1>3, <1>4, FS_Subset

LEMMA EdgesInOrder ==
  ASSUME Ruled PROVE InOrder(Sorted(Edges, Stronger), EdgeOrder, Edges)
<1>. DEFINE S == Edges
            N == Cardinality(S)
            B(x) == {y \in S : Stronger(y, x)}
            s == [n \in 1 .. N |-> CHOOSE x \in S : Cardinality(B(x)) = n - 1]
<1>1. IsFiniteSet(S) /\ Orders(EdgeOrder, S)
  BY EdgesFinite, EdgesOrder
<1>2. \A x \in S : B(x) = Below(EdgeOrder, S, x)
  BY DEF Below, EdgeOrder
<1>3. Sorted(S, Stronger) = s
  BY DEF Sorted
<1>. HIDE DEF B, S
<1>4. \A i \in 1 .. N : \E x \in S : Cardinality(B(x)) = i - 1
  BY <1>1, <1>2, RanksCover
<1>5. \A i \in 1 .. N : s[i] \in S /\ Cardinality(B(s[i])) = i - 1
  BY <1>4
<1>6. s \in [1 .. N -> S]
  BY <1>5
<1>. HIDE DEF s
<1>7. \A i \in 1 .. N : Cardinality(Below(EdgeOrder, S, s[i])) = i - 1
  BY <1>2, <1>5
<1>8. InOrder(s, EdgeOrder, S)
  BY <1>1, <1>6, <1>7, PicksInOrder
<1> QED BY <1>3, <1>8 DEF S

-----------------------------------------------------------------------------
(* Linking: groups. *)

(* Groups of what is known: disjoint, with no pair kept apart in one.       *)
Parted(groups) ==
  /\ UNION groups = Known
  /\ \A g, h \in groups : g = h \/ g \cap h = {}
  /\ \A g \in groups : \A p \in Apart : p[1] \in g /\ p[2] \in g => p[1] = p[2]

LEMMA SinglesParted == Parted(Singles)
<1>1. UNION Singles = Known
  BY DEF Singles
<1>2. \A g, h \in Singles : g = h \/ g \cap h = {}
  BY DEF Singles
<1>3. \A g \in Singles : \A x, y \in g : x = y
  BY DEF Singles
<1> QED BY <1>1, <1>2, <1>3 DEF Parted

LEMMA JoinParted ==
  ASSUME NEW groups, Parted(groups), NEW e, EdgeOf(e)
  PROVE  Parted(JoinEnds(groups, e))
<1>. DEFINE a == CHOOSE s \in e.between : TRUE
            b == CHOOSE s \in e.between : s # a
            g == In(groups, a)
            h == In(groups, b)
<1>1. PICK s \in Known, t \in Known : s # t /\ e.between = {s, t}
  BY DEF EdgeOf
<1>2. a \in e.between
  BY <1>1
<1>. HIDE DEF a
<1>3. b \in e.between /\ b # a
  <2>1. \E x \in e.between : x # a
    BY <1>1
  <2> QED BY <2>1
<1>4. JoinEnds(groups, e) =
        IF g = h \/ Bridges(g, h, e) THEN groups ELSE (groups \ {g, h}) \cup {g \cup h}
  BY DEF JoinEnds, a
<1>. HIDE DEF b
<1>5. a \in Known /\ b \in Known
  BY <1>1, <1>2, <1>3
<1>6. g \in groups /\ h \in groups
  <2>1. \A x \in Known : \E k \in groups : x \in k
    BY DEF Parted
  <2>2. \A x \in Known : In(groups, x) \in groups
    BY <2>1 DEF In
  <2> QED BY <1>5, <2>2
<1>. HIDE DEF g, h
<1>7. CASE g = h \/ Bridges(g, h, e)
  BY <1>4, <1>7
<1>8. CASE ~(g = h \/ Bridges(g, h, e))
  <2>. DEFINE joined == (groups \ {g, h}) \cup {g \cup h}
  <2>1. UNION joined = UNION groups
    BY <1>6
  <2>2. \A k, l \in joined : k = l \/ k \cap l = {}
    <3>1. \A k \in groups \ {g, h} : k \cap (g \cup h) = {}
      BY <1>6 DEF Parted
    <3> QED BY <3>1 DEF Parted
  <2>3. ASSUME NEW p \in Apart, p[1] \in g \cup h, p[2] \in g \cup h PROVE p[1] = p[2]
    <3>1. ~(p[1] \in g /\ p[2] \in h) /\ ~(p[1] \in h /\ p[2] \in g)
      BY <1>8 DEF Bridges
    <3>2. (p[1] \in g /\ p[2] \in g) \/ (p[1] \in h /\ p[2] \in h)
      BY <2>3, <3>1
    <3> QED BY <1>6, <3>2 DEF Parted
  <2>4. \A k \in joined : \A p \in Apart : p[1] \in k /\ p[2] \in k => p[1] = p[2]
    BY <2>3 DEF Parted
  <2>5. Parted(joined)
    BY <2>1, <2>2, <2>4 DEF Parted
  <2> QED BY <1>4, <1>8, <2>5
<1> QED BY <1>7, <1>8

(* The recursion over the edges has a value. *)
LEMMA JoinedBy ==
  ASSUME NEW edges, NEW N \in Nat, Len(edges) = N
  PROVE  \E f : /\ f = [i \in 0 .. N |-> IF i = 0 THEN Singles ELSE JoinEnds(f[i - 1], edges[i])]
                /\ Joined(edges) = f[N]
<1>. DEFINE P(f, n) == f = [i \in 0 .. n |-> IF i = 0 THEN Singles ELSE JoinEnds(f[i - 1], edges[i])]
            bad == {n \in Nat : ~(\E f : P(f, n))}
<1>1. \E f : P(f, N)
  <2> SUFFICES ASSUME bad # {} PROVE FALSE
    OBVIOUS
  <2>1. PICK n \in bad : \A m \in bad : n <= m
    <3>1. bad \in SUBSET Nat
      OBVIOUS
    <3> HIDE DEF bad
    <3> QED BY <3>1, LeastOf
  <2>2. n \in Nat /\ \A f : ~P(f, n)
    OBVIOUS
  <2>3. CASE n = 0
    <3>. DEFINE f == [i \in 0 .. 0 |-> Singles]
    <3>1. P(f, 0)
      <4>1. \A i \in 0 .. 0 : i = 0
        OBVIOUS
      <4> QED BY <4>1
    <3> QED BY <2>2, <2>3, <3>1
  <2>4. CASE n # 0
    <3>1. n - 1 \in Nat /\ ~(n <= n - 1)
      BY <2>2, <2>4
    <3>2. n - 1 \notin bad
      <4> HIDE DEF bad
      <4> QED BY <2>1, <3>1
    <3>3. PICK f : P(f, n - 1)
      BY <3>1, <3>2
    <3>. DEFINE g == [i \in 0 .. n |-> IF i = n THEN JoinEnds(f[n - 1], edges[n]) ELSE f[i]]
    <3>4. ASSUME NEW i \in 0 .. n PROVE g[i] = IF i = 0 THEN Singles ELSE JoinEnds(g[i - 1], edges[i])
      <4>1. CASE i = n
        <5>1. n - 1 \in 0 .. n /\ n - 1 # n
          BY <3>1
        <5>2. g[n - 1] = f[n - 1] /\ g[n] = JoinEnds(f[n - 1], edges[n])
          BY <5>1
        <5> QED BY <2>4, <4>1, <5>2
      <4>2. CASE i # n
        <5>1. i \in 0 .. n - 1
          BY <2>2, <4>2
        <5>2. f[i] = IF i = 0 THEN Singles ELSE JoinEnds(f[i - 1], edges[i])
          BY <3>3, <5>1
        <5>3. g[i] = f[i]
          BY <4>2
        <5>4. i # 0 => i - 1 \in 0 .. n /\ i - 1 # n
          BY <5>1
        <5>5. i # 0 => g[i - 1] = f[i - 1]
          BY <5>4
        <5> HIDE DEF g
        <5> QED BY <5>2, <5>3, <5>5
      <4> QED BY <4>1, <4>2
    <3>5. P(g, n)
      <4>1. g = [i \in 0 .. n |-> g[i]]
        OBVIOUS
      <4> HIDE DEF g
      <4> QED BY <3>4, <4>1
    <3> QED BY <2>2, <3>5
  <2> QED BY <2>3, <2>4
<1>. DEFINE joined == CHOOSE f : P(f, N)
<1>2. P(joined, N)
  <2> HIDE DEF P
  <2> QED BY <1>1
<1>3. Joined(edges) = joined[N]
  BY DEF Joined
<1>. HIDE DEF joined
<1> QED BY <1>2, <1>3

(* The groups after each edge in turn, the strongest first. *)
JoinsOf(s, f, N) ==
  /\ N \in Nat /\ DOMAIN s = 1 .. N
  /\ \A i \in 1 .. N : s[i] \in Edges
  /\ \A e \in Edges : \E i \in 1 .. N : s[i] = e
  /\ \A i, j \in 1 .. N : i < j => s[i].strength >= s[j].strength
  /\ f[0] = Singles /\ \A i \in 1 .. N : f[i] = JoinEnds(f[i - 1], s[i])
  /\ f[N] = Joined(Sorted(Edges, Stronger))
  /\ \A i \in 0 .. N : Parted(f[i])

LEMMA NoneBad ==
  ASSUME NEW N \in Nat, NEW bad \in SUBSET (0 .. N), 0 \notin bad,
         \A n \in 1 .. N : n - 1 \notin bad => n \notin bad
  PROVE  bad = {}
<1> SUFFICES ASSUME bad # {} PROVE FALSE
  OBVIOUS
<1>1. bad \in SUBSET Nat
  OBVIOUS
<1>2. PICK n \in bad : \A m \in bad : n <= m
  BY <1>1, LeastOf
<1>3. n \in 1 .. N /\ ~(n <= n - 1)
  <2>1. n \in 0 .. N /\ n # 0
    OBVIOUS
  <2> QED BY <2>1
<1>4. n - 1 \notin bad
  BY <1>2, <1>3
<1> QED BY <1>3, <1>4

LEMMA EdgesJoined ==
  ASSUME Ruled PROVE \E s, f, N : JoinsOf(s, f, N)
<1>. DEFINE s == Sorted(Edges, Stronger)
            N == Cardinality(Edges)
<1>1. InOrder(s, EdgeOrder, Edges)
  BY EdgesInOrder
<1>. HIDE DEF s
<1>2. /\ N \in Nat /\ s \in [1 .. N -> Edges] /\ \A e \in Edges : \E i \in 1 .. N : s[i] = e
      /\ \A i, j \in 1 .. N : i < j <=> <<s[i], s[j]>> \in EdgeOrder
  BY <1>1 DEF InOrder
<1>. HIDE DEF N
<1>3. Len(s) = N /\ DOMAIN s = 1 .. N
  <2>1. s \in Seq(Edges) /\ Len(s) = N
    BY <1>2, SeqDef
  <2> QED BY <1>2, <2>1
<1>4. PICK f : /\ f = [i \in 0 .. N |-> IF i = 0 THEN Singles ELSE JoinEnds(f[i - 1], s[i])]
               /\ Joined(s) = f[N]
  BY <1>2, <1>3, JoinedBy
<1>5. f[0] = Singles /\ \A i \in 1 .. N : f[i] = JoinEnds(f[i - 1], s[i])
  <2>1. \A i \in 0 .. N : f[i] = IF i = 0 THEN Singles ELSE JoinEnds(f[i - 1], s[i])
    BY <1>4
  <2>2. 0 \in 0 .. N /\ \A i \in 1 .. N : i \in 0 .. N /\ i # 0
    BY <1>2
  <2> QED BY <2>1, <2>2
<1>6. \A i \in 1 .. N : EdgeOf(s[i])
  BY <1>2, EdgesJoin
<1>7. \A i, j \in 1 .. N : i < j => s[i].strength >= s[j].strength
  <2> SUFFICES ASSUME NEW i \in 1 .. N, NEW j \in 1 .. N, i < j PROVE s[i].strength >= s[j].strength
    OBVIOUS
  <2>1. Stronger(s[i], s[j])
    BY <1>2 DEF EdgeOrder
  <2>2. s[i].strength \in Nat /\ s[j].strength \in Nat
    <3>1. Cardinality(Rules) \in Nat
      BY LinkingAssumption, FS_CardinalityType
    <3>2. EdgeOf(s[i]) /\ EdgeOf(s[j])
      BY <1>6
    <3>3. s[i].strength \in 0 .. Cardinality(Rules) + 1 /\ s[j].strength \in 0 .. Cardinality(Rules) + 1
      BY <3>2 DEF EdgeOf
    <3> QED BY <3>1, <3>3
  <2> QED BY <2>1, <2>2 DEF Stronger
<1>. DEFINE bad == {n \in 0 .. N : ~Parted(f[n])}
<1>8. bad = {}
  <2>1. 0 \notin bad
    BY <1>5, SinglesParted
  <2>2. \A n \in 1 .. N : n - 1 \notin bad => n \notin bad
    <3> SUFFICES ASSUME NEW n \in 1 .. N, n - 1 \notin bad PROVE Parted(f[n])
      OBVIOUS
    <3>1. n - 1 \in 0 .. N
      BY <1>2
    <3>2. Parted(f[n - 1])
      BY <3>1
    <3> QED BY <1>5, <1>6, <3>2, JoinParted
  <2>3. bad \in SUBSET (0 .. N)
    OBVIOUS
  <2>. HIDE DEF bad
  <2> QED BY <1>2, <2>1, <2>2, <2>3, NoneBad
<1>9. \A i \in 0 .. N : Parted(f[i])
  BY <1>8
<1>10. JoinsOf(s, f, N)
  BY <1>2, <1>3, <1>4, <1>5, <1>7, <1>9 DEF JoinsOf, s
<1> QED BY <1>10

LEMMA JoinedParted ==
  ASSUME Ruled PROVE Parted(Joined(Sorted(Edges, Stronger)))
<1>1. PICK s, f, N : JoinsOf(s, f, N)
  BY EdgesJoined
<1>2. N \in 0 .. N
  BY <1>1 DEF JoinsOf
<1> QED BY <1>1, <1>2 DEF JoinsOf

(* Carriers: their sources, known ones that are no country bundles.         *)
Carried(groups) ==
  /\ groups \in SUBSET SUBSET {s \in Known : s.kind # "country"} /\ {} \notin groups
  /\ \A g, h \in groups : g = h \/ g \cap h = {}
  /\ \A g \in groups : \A p \in Apart : p[1] \in g /\ p[2] \in g => p[1] = p[2]

LEMMA GroupsCarried ==
  ASSUME Ruled PROVE Carried(Groups)
<1>. DEFINE joined == Joined(Sorted(Edges, Stronger))
<1>1. Parted(joined)
  BY JoinedParted
<1>2. \A g \in Groups : g # {} /\ \E k \in joined : g = {s \in k : s.kind # "country"}
  BY DEF Groups
<1>. HIDE DEF joined
<1>3. \A k \in joined : k \subseteq Known
  BY <1>1 DEF Parted
<1>4. Groups \in SUBSET SUBSET {s \in Known : s.kind # "country"} /\ {} \notin Groups
  <2>1. ASSUME NEW g \in Groups PROVE g \in SUBSET {s \in Known : s.kind # "country"} /\ g # {}
    BY <1>2, <1>3
  <2> QED BY <2>1
<1>5. ASSUME NEW g \in Groups, NEW h \in Groups PROVE g = h \/ g \cap h = {}
  <2>1. PICK k \in joined : g = {s \in k : s.kind # "country"}
    BY <1>2
  <2>2. PICK l \in joined : h = {s \in l : s.kind # "country"}
    BY <1>2
  <2>3. k = l \/ k \cap l = {}
    BY <1>1 DEF Parted
  <2> QED BY <2>1, <2>2, <2>3
<1>6. ASSUME NEW g \in Groups, NEW p \in Apart, p[1] \in g, p[2] \in g PROVE p[1] = p[2]
  <2>1. PICK k \in joined : g = {s \in k : s.kind # "country"}
    BY <1>2
  <2> QED BY <1>1, <1>6, <2>1 DEF Parted
<1> QED BY <1>4, <1>5, <1>6 DEF Carried

-----------------------------------------------------------------------------
(* Linking: names, and which are preferred. *)

LEMMA GroupFinite ==
  ASSUME NEW g \in SUBSET Known PROVE g \in SUBSET Sources /\ IsFiniteSet(g) /\ Cardinality(g) \in Nat
<1>1. g \in SUBSET Sources
  BY DEF Known
<1>2. IsFiniteSet(g)
  BY <1>1, KeyRanks, FS_Subset
<1> QED BY <1>1, <1>2, FS_CardinalityType

LEMMA Names ==
  ASSUME NEW g, NEW id \in Own(g)
  PROVE  /\ \E s \in g : id \in NamesOf(s)
         /\ id # NoId
<1>1. PICK s \in g : id \in NamesOf(s)
  BY DEF Own
<1>2. id # <<>>
  BY <1>1 DEF NamesOf
<1> QED BY <1>1, <1>2 DEF NoId

LEMMA PrimaryIn ==
  ASSUME Ruled, NEW g \in SUBSET Known, g # {} PROVE Primary(g) \in g
<1>. DEFINE R == {p \in g \X g : Before(p[1], p[2])}
<1>1. \A x, y \in g : <<x, y>> \in R <=> Before(x, y)
  OBVIOUS
<1>. HIDE DEF R
<1>2. g \in SUBSET Sources /\ IsFiniteSet(g)
  BY GroupFinite
<1>3. \A x \in g : PlatformRank[x] \in Nat
  <2> SUFFICES ASSUME NEW x \in g PROVE PlatformRank[x] \in Nat
    OBVIOUS
  <2>1. x \in Sources /\ x.platform \in {"ios", "ipados", "watchos", "android", "samsung"}
    BY <1>2, LinkingAssumption
  <2>2. PLATFORMS = <<"ios", "ipados", "watchos", "android", "samsung">> /\ DOMAIN PLATFORMS = 1 .. 5
    BY DEF PLATFORMS
  <2>3. \E i \in 1 .. 5 : PLATFORMS[i] = x.platform
    <3>1. PLATFORMS[1] = "ios" /\ PLATFORMS[2] = "ipados" /\ PLATFORMS[3] = "watchos"
          /\ PLATFORMS[4] = "android" /\ PLATFORMS[5] = "samsung"
      BY <2>2
    <3>2. 1 \in 1 .. 5 /\ 2 \in 1 .. 5 /\ 3 \in 1 .. 5 /\ 4 \in 1 .. 5 /\ 5 \in 1 .. 5
      OBVIOUS
    <3> QED BY <2>1, <3>1, <3>2
  <2>4. PlatformRank[x] = CHOOSE i \in DOMAIN PLATFORMS : PLATFORMS[i] = x.platform
    BY <2>1 DEF PlatformRank
  <2>5. PlatformRank[x] \in 1 .. 5
    BY <2>2, <2>3, <2>4
  <2> QED BY <2>5
<1>4. \A x \in g : Cardinality(Sims(x)) \in Nat
  BY SimsFinite
<1>5. \A x, y \in g : KeyRank[x] \in Nat /\ (KeyRank[x] = KeyRank[y] => x = y)
  BY <1>2, KeyRanks
<1>6. \A x \in g : ~Before(x, x)
  BY <1>3, <1>4, <1>5 DEF Before
<1>7. \A x, y \in g : x = y \/ Before(x, y) \/ Before(y, x)
  BY <1>3, <1>4, <1>5 DEF Before
<1>8. \A x, y, z \in g : Before(x, y) /\ Before(y, z) => Before(x, z)
  BY <1>3, <1>4, <1>5 DEF Before
<1>9. Orders(R, g)
  BY <1>1, <1>6, <1>7, <1>8 DEF Orders
<1>10. \E x \in g : \A y \in g \ {x} : Before(x, y)
  <2>1. PICK x \in g : \A y \in g \ {x} : <<x, y>> \in R
    BY <1>2, <1>9, FirstIn
  <2> QED BY <1>1, <2>1
<1> QED BY <1>10 DEF Primary

LEMMA IdRanks ==
  ASSUME Ruled, NEW g \in SUBSET Known, g # {}, NEW id \in Own(g)
  PROVE  /\ IdRank(g, id) \in Nat
         /\ \E s \in g : id \in NamesOf(s) /\ IdRank(g, id) = MemberRank(g, s)
<1>. DEFINE S == {MemberRank(g, s) : s \in {t \in g : id \in NamesOf(t)}}
<1>1. \A s \in g : MemberRank(g, s) \in Nat
  BY GroupFinite, KeyRanks DEF MemberRank
<1>2. S # {} /\ S \in SUBSET Nat
  BY <1>1, Names
<1>3. IdRank(g, id) = Min(S)
  BY DEF IdRank
<1>4. Min(S) \in S
  <2> HIDE DEF S
  <2> QED BY <1>2, MinOf
<1> QED BY <1>2, <1>3, <1>4

LEMMA MemberRanks ==
  ASSUME NEW g \in SUBSET Known, NEW s \in g, NEW t \in g, MemberRank(g, s) = MemberRank(g, t)
  PROVE  s = t
<1>1. s \in Sources /\ t \in Sources
  BY GroupFinite
<1>2. KeyRank[s] \in Nat \ {0} /\ KeyRank[t] \in Nat \ {0} /\ (KeyRank[s] = KeyRank[t] => s = t)
  BY <1>1, KeyRanks
<1> QED BY <1>2 DEF MemberRank

LEMMA VotesCount ==
  ASSUME NEW g \in SUBSET Known, NEW id
  PROVE  /\ Votes(g, id) \in Nat
         /\ Votes(g, id) > 0 <=> \E s \in g : carrier[s] = id
<1>. DEFINE S == {s \in g : carrier[s] = id}
<1>1. S \in SUBSET g /\ IsFiniteSet(g)
  BY GroupFinite
<1>2. IsFiniteSet(S)
  BY <1>1, FS_Subset
<1>. HIDE DEF S
<1>3. Cardinality(S) \in Nat /\ (Cardinality(S) = 0 <=> S = {})
  BY <1>2, FS_CardinalityType, FS_EmptySet
<1>4. Cardinality(S) > 0 <=> S # {}
  BY <1>3
<1> QED BY <1>3, <1>4 DEF Votes, S

PreferredOrder(g) == {p \in Own(g) \X Own(g) : Preferred(g, p[1], p[2])}

LEMMA PreferredOrders ==
  ASSUME Ruled, NEW g \in SUBSET Known, g # {}, NEW S \in SUBSET Own(g)
  PROVE  Orders(PreferredOrder(g), S)
<1>1. \A x, y \in S : <<x, y>> \in PreferredOrder(g) <=> Preferred(g, x, y)
  BY DEF PreferredOrder
<1>2. \A x \in S : Votes(g, x) \in Nat /\ IdRank(g, x) \in Nat
  BY IdRanks, VotesCount
<1>3. \A x \in S : Len(x) \in {1, 2}
  <2> SUFFICES ASSUME NEW x \in S PROVE Len(x) \in {1, 2}
    OBVIOUS
  <2>1. PICK s \in g : x \in NamesOf(s)
    BY Names
  <2> QED BY <2>1 DEF NamesOf
<1>4. ASSUME NEW x \in S, NEW y \in S, IdRank(g, x) = IdRank(g, y), Len(x) = Len(y) PROVE x = y
  <2>1. PICK s \in g : x \in NamesOf(s) /\ IdRank(g, x) = MemberRank(g, s)
    BY IdRanks
  <2>2. PICK t \in g : y \in NamesOf(t) /\ IdRank(g, y) = MemberRank(g, t)
    BY IdRanks
  <2>3. s = t
    BY <1>4, <2>1, <2>2, MemberRanks
  <2>4. x \in {<<s.name>>, <<s.platform, s.name>>} /\ y \in {<<s.name>>, <<s.platform, s.name>>}
    BY <2>1, <2>2, <2>3 DEF NamesOf
  <2>. DEFINE u == <<s.name>>
              v == <<s.platform, s.name>>
  <2>5. Len(u) # Len(v)
    OBVIOUS
  <2>6. (x = u \/ x = v) /\ (y = u \/ y = v)
    BY <2>4
  <2>7. Len(x) = Len(y)
    BY <1>4
  <2>. HIDE DEF u, v
  <2> QED BY <2>5, <2>6, <2>7
<1>5. \A x \in S : ~Preferred(g, x, x)
  BY <1>2, <1>3 DEF Preferred, TextBefore
<1>6. \A x, y \in S : x = y \/ Preferred(g, x, y) \/ Preferred(g, y, x)
  BY <1>2, <1>3, <1>4 DEF Preferred, TextBefore
<1>7. ASSUME NEW x \in S, NEW y \in S, NEW z \in S, Preferred(g, x, y), Preferred(g, y, z)
      PROVE  Preferred(g, x, z)
  <2>1. CASE IdRank(g, x) = IdRank(g, y) /\ IdRank(g, y) = IdRank(g, z)
    <3>1. x = y \/ y = z \/ x = z
      BY <1>3, <1>4, <2>1
    <3>2. x # y /\ y # z
      BY <1>5, <1>7
    <3>3. ~Preferred(g, z, y)
      BY <1>2, <1>3, <1>7 DEF Preferred, TextBefore
    <3> QED BY <1>7, <3>1, <3>2, <3>3
  <2>2. CASE ~(IdRank(g, x) = IdRank(g, y) /\ IdRank(g, y) = IdRank(g, z))
    BY <1>2, <1>7, <2>2 DEF Preferred
  <2> QED BY <2>1, <2>2
<1> QED BY <1>1, <1>5, <1>6, <1>7 DEF Orders

LEMMA OwnFinite ==
  ASSUME NEW g \in SUBSET Known PROVE IsFiniteSet(Own(g))
<1>. DEFINE P == g \X {0, 1}
            name == [p \in P |-> IF p[2] = 0 THEN <<p[1].name>> ELSE <<p[1].platform, p[1].name>>]
<1>1. IsFiniteSet(g)
  BY GroupFinite
<1>2. IsFiniteSet({0, 1})
  <2>1. IsFiniteSet(0 .. 1)
    <3>1. 0 \in Int /\ 1 \in Int
      OBVIOUS
    <3> QED BY <3>1, FS_Interval
  <2>2. {0, 1} = 0 .. 1
    OBVIOUS
  <2> QED BY <2>1, <2>2
<1>3. IsFiniteSet(P)
  BY <1>1, <1>2, FS_Product
<1>4. Own(g) = {name[p] : p \in P}
  <2>1. ASSUME NEW id \in Own(g) PROVE \E p \in P : id = name[p]
    <3>1. PICK s \in g : id \in NamesOf(s)
      BY Names
    <3>2. CASE id = <<s.name>>
      <4>1. <<s, 0>> \in P /\ name[<<s, 0>>] = <<s.name>>
        OBVIOUS
      <4> QED BY <3>2, <4>1
    <3>3. CASE id = <<s.platform, s.name>>
      <4>1. <<s, 1>> \in P /\ name[<<s, 1>>] = <<s.platform, s.name>>
        OBVIOUS
      <4> QED BY <3>3, <4>1
    <3> QED BY <3>1, <3>2, <3>3 DEF NamesOf
  <2>2. ASSUME NEW p \in P PROVE name[p] \in Own(g)
    <3>1. p[1] \in g /\ name[p] \in NamesOf(p[1])
      BY DEF NamesOf
    <3> QED BY <3>1 DEF Own
  <2>. HIDE DEF P, name
  <2> QED BY <2>1, <2>2
<1>5. name \in Surjection(P, Own(g))
  <2>1. DOMAIN name = P /\ name = [p \in P |-> name[p]]
    OBVIOUS
  <2>. HIDE DEF P, name
  <2> QED BY <1>4, <2>1 DEF Surjection
<1>. HIDE DEF P, name
<1> QED BY <1>3, <1>5, FS_Surjection

(* The names kept, the preferred first. *)
LEMMA KeptInOrder ==
  ASSUME Ruled, NEW g \in SUBSET Known, g # {}
  PROVE  InOrder(Kept(g), PreferredOrder(g), {id \in Own(g) : Votes(g, id) > 0})
<1>. DEFINE S == {id \in Own(g) : Votes(g, id) > 0}
            N == Cardinality(S)
            B(x) == {y \in S : Preferred(g, y, x)}
            s == [n \in 1 .. N |-> CHOOSE x \in S : Cardinality(B(x)) = n - 1]
<1>0. S \in SUBSET Own(g) /\ IsFiniteSet(S)
  BY OwnFinite, FS_Subset
<1>1. Orders(PreferredOrder(g), S)
  BY <1>0, PreferredOrders
<1>2. \A x \in S : B(x) = Below(PreferredOrder(g), S, x)
  BY DEF Below, PreferredOrder
<1>3. Kept(g) = s
  BY DEF Kept, Sorted
<1>. HIDE DEF B, S
<1>4. \A i \in 1 .. N : \E x \in S : Cardinality(B(x)) = i - 1
  BY <1>0, <1>1, <1>2, RanksCover
<1>5. \A i \in 1 .. N : s[i] \in S /\ Cardinality(B(s[i])) = i - 1
  BY <1>4
<1>6. s \in [1 .. N -> S]
  BY <1>5
<1>. HIDE DEF s
<1>7. \A i \in 1 .. N : Cardinality(Below(PreferredOrder(g), S, s[i])) = i - 1
  BY <1>2, <1>5
<1>8. InOrder(s, PreferredOrder(g), S)
  BY <1>0, <1>1, <1>6, <1>7, PicksInOrder
<1> QED BY <1>3, <1>8 DEF S

(* The name no other carrier has. *)
Qualified(g) == <<Primary(g).platform, Primary(g).name>>

(* What the choice among a carrier's names comes to. *)
LEMMA FreeIds ==
  ASSUME Ruled, NEW g \in SUBSET Known, g # {}, NEW taken
  PROVE  /\ Qualified(g) \notin taken => FreeId(g, taken) \in Own(g) /\ FreeId(g, taken) \notin taken
         /\ \A id \in Own(g) : (\A s \in g : carrier[s] = id) /\ id \notin taken => FreeId(g, taken) = id
<1>. DEFINE kept == Kept(g)
            names == kept \o HeadNames(g)
            I == {i \in 1 .. Len(names) : names[i] \notin taken}
            S == {id \in Own(g) : Votes(g, id) > 0}
            K == Cardinality(S)
<1>1. InOrder(kept, PreferredOrder(g), S)
  BY KeptInOrder
<1>. HIDE DEF kept, S
<1>2. /\ K \in Nat /\ kept \in [1 .. K -> S] /\ \A x \in S : \E i \in 1 .. K : kept[i] = x
      /\ \A i, j \in 1 .. K : i < j <=> <<kept[i], kept[j]>> \in PreferredOrder(g)
  BY <1>1 DEF InOrder
<1>. HIDE DEF K
<1>3. kept \in Seq(Own(g)) /\ Len(kept) = K
  <2>1. kept \in Seq(S) /\ Len(kept) = K
    BY <1>2, SeqDef
  <2> QED BY <2>1 DEF S
<1>4. HeadNames(g) \in Seq(Own(g)) /\ Len(HeadNames(g)) = 2 /\ HeadNames(g)[2] = Qualified(g)
  <2>1. Primary(g) \in g
    BY PrimaryIn
  <2>2. <<Primary(g).name>> \in Own(g) /\ <<Primary(g).platform, Primary(g).name>> \in Own(g)
    BY <2>1 DEF Own, NamesOf
  <2> QED BY <2>2 DEF HeadNames, Qualified
<1>5. /\ names \in Seq(Own(g)) /\ Len(names) = K + 2
      /\ \A i \in 1 .. K : names[i] = kept[i]
      /\ names[K + 2] = Qualified(g)
  <2>1. names \in Seq(Own(g)) /\ Len(names) = Len(kept) + Len(HeadNames(g))
    BY <1>3, <1>4, ConcatProperties
  <2>2. \A i \in 1 .. Len(kept) + Len(HeadNames(g)) :
          names[i] = IF i <= Len(kept) THEN kept[i] ELSE HeadNames(g)[i - Len(kept)]
    BY <1>3, <1>4, ConcatProperties
  <2>. HIDE DEF names
  <2>3. Len(kept) + Len(HeadNames(g)) = K + 2
    BY <1>3, <1>4
  <2>4. \A i \in 1 .. K : i \in 1 .. K + 2 /\ i <= K
    BY <1>2
  <2>5. K + 2 \in 1 .. K + 2 /\ ~(K + 2 <= K) /\ K + 2 - K = 2
    BY <1>2
  <2> QED BY <1>3, <1>4, <2>1, <2>2, <2>3, <2>4, <2>5
<1>6. FreeId(g, taken) = LET i == IF I # {} THEN Min(I) ELSE 0 IN IF i = 0 THEN NoId ELSE names[i]
  BY DEF FreeId, SelectInSeq, kept
<1>. HIDE DEF names
<1>7. \A i \in 1 .. Len(names) : names[i] \in Own(g)
  BY <1>5
<1>8. ASSUME I # {} PROVE /\ Min(I) \in I /\ \A i \in I : Min(I) <= i
                          /\ FreeId(g, taken) = names[Min(I)]
  <2>1. I \in SUBSET Nat
    OBVIOUS
  <2>2. Min(I) \in I /\ \A i \in I : Min(I) <= i
    <3> HIDE DEF I
    <3> QED BY <1>8, <2>1, MinOf
  <2>3. Min(I) # 0
    BY <2>2
  <2>. HIDE DEF I
  <2> QED BY <1>6, <1>8, <2>2, <2>3
<1>9. ASSUME Qualified(g) \notin taken PROVE FreeId(g, taken) \in Own(g) /\ FreeId(g, taken) \notin taken
  <2>1. K + 2 \in I
    BY <1>2, <1>5, <1>9
  <2>2. Min(I) \in I /\ FreeId(g, taken) = names[Min(I)]
    <3> HIDE DEF I
    <3> QED BY <1>8, <2>1
  <2> QED BY <1>7, <2>2
<1>10. ASSUME NEW id \in Own(g), \A s \in g : carrier[s] = id, id \notin taken PROVE FreeId(g, taken) = id
  <2>1. \A x \in Own(g) : Votes(g, x) > 0 <=> x = id
    BY <1>10, VotesCount
  <2>2. S = {id}
    BY <2>1 DEF S
  <2>3. PICK i \in 1 .. K : kept[i] = id
    BY <1>2, <2>2
  <2>4. 1 \in 1 .. K /\ kept[1] = id
    <3>1. 1 \in 1 .. K
      BY <1>2, <2>3
    <3>2. kept[1] \in S
      BY <1>2, <3>1
    <3> QED BY <2>2, <3>1, <3>2
  <2>5. names[1] = id /\ 1 \in 1 .. Len(names)
    BY <1>2, <1>5, <2>4
  <2>6. 1 \in I
    BY <1>10, <2>5
  <2>7. Min(I) \in I /\ Min(I) <= 1 /\ FreeId(g, taken) = names[Min(I)]
    <3> HIDE DEF I
    <3> QED BY <1>8, <2>6
  <2>8. Min(I) = 1
    BY <2>7
  <2> QED BY <2>5, <2>7, <2>8
<1> QED BY <1>9, <1>10

-----------------------------------------------------------------------------
(* Linking: who chooses first, and what each is assigned. *)

ChoosingOrder == {p \in Groups \X Groups : ChoosesFirst(p[1], p[2])}

LEMMA GroupsOrder ==
  ASSUME Ruled PROVE Orders(ChoosingOrder, Groups) /\ IsFiniteSet(Groups)
<1>. DEFINE least(g) == Min({KeyRank[s] : s \in g})
<1>1. Carried(Groups)
  BY GroupsCarried
<1>2. \A g \in Groups : g # {} /\ g \in SUBSET Known /\ g \in SUBSET Sources /\ Cardinality(g) \in Nat
  BY <1>1, GroupFinite DEF Carried
<1>3. ASSUME NEW g \in Groups PROVE least(g) \in Nat /\ \E s \in g : least(g) = KeyRank[s]
  <2>. DEFINE S == {KeyRank[s] : s \in g}
  <2>1. S # {} /\ S \in SUBSET Nat
    BY <1>2, KeyRanks
  <2>2. Min(S) \in S
    <3> HIDE DEF S
    <3> QED BY <2>1, MinOf
  <2> QED BY <2>1, <2>2
<1>4. \A g, h \in Groups : ChoosesFirst(g, h) <=>
        \/ Cardinality(g) > Cardinality(h)
        \/ Cardinality(g) = Cardinality(h) /\ least(g) < least(h)
  BY DEF ChoosesFirst
<1>. HIDE DEF least
<1>5. ASSUME NEW g \in Groups, NEW h \in Groups, least(g) = least(h) PROVE g = h
  <2>1. PICK s \in g : least(g) = KeyRank[s]
    BY <1>3
  <2>2. PICK t \in h : least(h) = KeyRank[t]
    BY <1>3
  <2>3. s \in Sources /\ t \in Sources /\ KeyRank[s] = KeyRank[t]
    BY <1>2, <1>5, <2>1, <2>2
  <2>4. s = t
    BY <2>3, KeyRanks
  <2>5. g \cap h # {}
    BY <2>4
  <2> QED BY <1>1, <2>5 DEF Carried
<1>6. \A g, h \in Groups : <<g, h>> \in ChoosingOrder <=> ChoosesFirst(g, h)
  BY DEF ChoosingOrder
<1>7. \A g \in Groups : Cardinality(g) \in Nat /\ least(g) \in Nat
  BY <1>2, <1>3
<1>8. \A g \in Groups : ~ChoosesFirst(g, g)
  BY <1>4, <1>7
<1>9. \A g, h \in Groups : g = h \/ ChoosesFirst(g, h) \/ ChoosesFirst(h, g)
  BY <1>4, <1>5, <1>7
<1>10. \A g, h, k \in Groups : ChoosesFirst(g, h) /\ ChoosesFirst(h, k) => ChoosesFirst(g, k)
  BY <1>4, <1>7
<1>11. Orders(ChoosingOrder, Groups)
  BY <1>6, <1>8, <1>9, <1>10 DEF Orders
<1>12. IsFiniteSet(Groups)
  <2>1. IsFiniteSet(SUBSET Sources)
    BY KeyRanks, FS_SUBSET
  <2>2. Groups \in SUBSET SUBSET Sources
    BY <1>2
  <2> QED BY <2>1, <2>2, FS_Subset
<1> QED BY <1>11, <1>12

LEMMA GroupsInOrder ==
  ASSUME Ruled PROVE InOrder(Sorted(Groups, ChoosesFirst), ChoosingOrder, Groups)
<1>. DEFINE S == Groups
            N == Cardinality(S)
            B(x) == {y \in S : ChoosesFirst(y, x)}
            s == [n \in 1 .. N |-> CHOOSE x \in S : Cardinality(B(x)) = n - 1]
<1>1. Orders(ChoosingOrder, S) /\ IsFiniteSet(S)
  BY GroupsOrder
<1>2. \A x \in S : B(x) = Below(ChoosingOrder, S, x)
  BY DEF Below, ChoosingOrder
<1>3. Sorted(S, ChoosesFirst) = s
  BY DEF Sorted
<1>. HIDE DEF B, S
<1>4. \A i \in 1 .. N : \E x \in S : Cardinality(B(x)) = i - 1
  BY <1>1, <1>2, RanksCover
<1>5. \A i \in 1 .. N : s[i] \in S /\ Cardinality(B(s[i])) = i - 1
  BY <1>4
<1>6. s \in [1 .. N -> S]
  BY <1>5
<1>. HIDE DEF s
<1>7. \A i \in 1 .. N : Cardinality(Below(ChoosingOrder, S, s[i])) = i - 1
  BY <1>2, <1>5
<1>8. InOrder(s, ChoosingOrder, S)
  BY <1>1, <1>6, <1>7, PicksInOrder
<1> QED BY <1>3, <1>8 DEF S

(* The recursion over the carriers has a value. *)
LEMMA ChosenBy ==
  ASSUME NEW order, NEW N \in Nat, Len(order) = N
  PROVE  \E f : /\ f = [i \in 0 .. N |-> IF i = 0 THEN <<>>
                                         ELSE Append(f[i - 1], FreeId(order[i], Range(f[i - 1])))]
                /\ Chosen(order) = f[N]
<1>. DEFINE P(f, n) == f = [i \in 0 .. n |-> IF i = 0 THEN <<>>
                                             ELSE Append(f[i - 1], FreeId(order[i], Range(f[i - 1])))]
            bad == {n \in Nat : ~(\E f : P(f, n))}
<1>1. bad = {}
  <2> SUFFICES ASSUME bad # {} PROVE FALSE
    OBVIOUS
  <2>1. PICK n \in bad : \A m \in bad : n <= m
    <3>1. bad \in SUBSET Nat
      OBVIOUS
    <3> HIDE DEF bad
    <3> QED BY <3>1, LeastOf
  <2>2. n \in Nat /\ \A f : ~P(f, n)
    <3> HIDE DEF P
    <3> QED OBVIOUS
  <2>3. CASE n = 0
    <3>. DEFINE f == [i \in 0 .. 0 |-> <<>>]
    <3>1. P(f, 0)
      <4>1. \A i \in 0 .. 0 : i = 0
        OBVIOUS
      <4> QED BY <4>1
    <3> QED BY <2>2, <2>3, <3>1
  <2>4. CASE n # 0
    <3>1. n - 1 \in Nat /\ ~(n <= n - 1)
      BY <2>2, <2>4
    <3>2. n - 1 \notin bad
      <4> HIDE DEF bad
      <4> QED BY <2>1, <3>1
    <3>3. PICK f : P(f, n - 1)
      <4> HIDE DEF P
      <4> QED BY <3>1, <3>2
    <3>. DEFINE last == Append(f[n - 1], FreeId(order[n], Range(f[n - 1])))
                g == [i \in 0 .. n |-> IF i = n THEN last ELSE f[i]]
    <3>4. ASSUME NEW i \in 0 .. n
          PROVE  g[i] = IF i = 0 THEN <<>> ELSE Append(g[i - 1], FreeId(order[i], Range(g[i - 1])))
      <4>1. CASE i = n
        <5>1. n - 1 \in 0 .. n /\ n - 1 # n
          BY <3>1
        <5>2. g[n - 1] = f[n - 1] /\ g[n] = last
          BY <5>1
        <5> HIDE DEF g
        <5> QED BY <2>4, <4>1, <5>2
      <4>2. CASE i # n
        <5>1. i \in 0 .. n - 1
          BY <2>2, <4>2
        <5>2. f[i] = IF i = 0 THEN <<>> ELSE Append(f[i - 1], FreeId(order[i], Range(f[i - 1])))
          BY <3>3, <5>1
        <5>3. g[i] = f[i]
          BY <4>2
        <5>4. i # 0 => i - 1 \in 0 .. n /\ i - 1 # n
          BY <5>1
        <5>5. i # 0 => g[i - 1] = f[i - 1]
          BY <5>4
        <5> HIDE DEF g
        <5> QED BY <5>2, <5>3, <5>5
      <4> QED BY <4>1, <4>2
    <3>5. P(g, n)
      <4>1. g = [i \in 0 .. n |-> g[i]]
        OBVIOUS
      <4> HIDE DEF g
      <4> QED BY <3>4, <4>1
    <3> QED BY <2>2, <3>5
  <2> QED BY <2>3, <2>4
<1>. DEFINE chosen == CHOOSE f : P(f, N)
<1>2. P(chosen, N)
  <2> HIDE DEF P
  <2>1. \E f : P(f, N)
    BY <1>1
  <2> QED BY <2>1
<1>3. Chosen(order) = chosen[N]
  BY DEF Chosen
<1>. HIDE DEF chosen
<1> QED BY <1>2, <1>3

(* Each in turn is given an id those before it left free. *)
LEMMA ChosenInTurn ==
  ASSUME NEW order, NEW N \in Nat, Len(order) = N
  PROVE  /\ DOMAIN Chosen(order) = 1 .. N
         /\ \A i \in 1 .. N : Chosen(order)[i] = FreeId(order[i], {Chosen(order)[j] : j \in 1 .. i - 1})
<1>1. PICK f : /\ f = [i \in 0 .. N |-> IF i = 0 THEN <<>>
                                        ELSE Append(f[i - 1], FreeId(order[i], Range(f[i - 1])))]
               /\ Chosen(order) = f[N]
  BY ChosenBy
<1>. DEFINE pick == [i \in 1 .. N |-> FreeId(order[i], Range(f[i - 1]))]
            S == {pick[i] : i \in 1 .. N}
            part(n) == [i \in 1 .. n |-> pick[i]]
            wrong == {n \in 0 .. N : f[n] # part(n)}
<1>2. pick \in [1 .. N -> S]
  OBVIOUS
<1>3. \A n \in 0 .. N : f[n] = IF n = 0 THEN <<>> ELSE Append(f[n - 1], pick[n])
  <2> SUFFICES ASSUME NEW n \in 0 .. N PROVE f[n] = IF n = 0 THEN <<>> ELSE Append(f[n - 1], pick[n])
    OBVIOUS
  <2>1. f[n] = IF n = 0 THEN <<>> ELSE Append(f[n - 1], FreeId(order[n], Range(f[n - 1])))
    BY <1>1
  <2>2. n # 0 => n \in 1 .. N
    OBVIOUS
  <2>3. n # 0 => pick[n] = FreeId(order[n], Range(f[n - 1]))
    BY <2>2
  <2>. HIDE DEF pick
  <2> QED BY <2>1, <2>3
<1>. HIDE DEF pick, S
<1>4. part(0) = <<>>
  OBVIOUS
<1>5. ASSUME NEW n \in 1 .. N PROVE Append(part(n - 1), pick[n]) = part(n)
  <2>1. part(n - 1) \in Seq(S) /\ Len(part(n - 1)) = n - 1 /\ pick[n] \in S /\ n \in Nat
    BY <1>2
  <2> QED BY <2>1
<1>6. wrong = {}
  <2> SUFFICES ASSUME wrong # {} PROVE FALSE
    OBVIOUS
  <2>1. wrong \in SUBSET Nat
    OBVIOUS
  <2>2. PICK n \in wrong : \A m \in wrong : n <= m
    <3> HIDE DEF wrong
    <3> QED BY <2>1, LeastOf
  <2>3. n \in 0 .. N /\ f[n] # part(n)
    OBVIOUS
  <2>4. CASE n = 0
    BY <1>3, <1>4, <2>3, <2>4
  <2>5. CASE n # 0
    <3>1. n - 1 \in 0 .. N /\ n \in 1 .. N /\ ~(n <= n - 1)
      BY <2>3, <2>5
    <3>2. n - 1 \notin wrong
      <4> HIDE DEF wrong
      <4> QED BY <2>2, <3>1
    <3>3. f[n - 1] = part(n - 1)
      <4> HIDE DEF part
      <4> QED BY <3>1, <3>2
    <3>4. f[n] = Append(part(n - 1), pick[n])
      <4> HIDE DEF part
      <4> QED BY <1>3, <2>3, <2>5, <3>3
    <3> HIDE DEF part
    <3> QED BY <1>5, <2>3, <3>1, <3>4
  <2> QED BY <2>4, <2>5
<1>7. Chosen(order) = pick
  <2>1. N \in 0 .. N
    OBVIOUS
  <2>2. f[N] = part(N)
    <3> HIDE DEF part
    <3> QED BY <1>6, <2>1
  <2>3. part(N) = pick
    BY <1>2
  <2> QED BY <1>1, <2>2, <2>3
<1>8. ASSUME NEW i \in 1 .. N PROVE pick[i] = FreeId(order[i], {pick[j] : j \in 1 .. i - 1})
  <2>1. i - 1 \in 0 .. N
    OBVIOUS
  <2>2. f[i - 1] = part(i - 1)
    <3> HIDE DEF part
    <3> QED BY <1>6, <2>1
  <2>3. Range(part(i - 1)) = {pick[j] : j \in 1 .. i - 1}
    BY DEF Range
  <2>. HIDE DEF part
  <2> QED BY <2>2, <2>3 DEF pick
<1> QED BY <1>2, <1>7, <1>8

(* A name of one carrier's primary and platform is no other carrier's.      *)
LEMMA QualifiedOwn ==
  ASSUME Ruled, NEW g \in Groups, NEW h \in Groups, Qualified(g) \in Own(h) PROVE g = h
<1>1. Carried(Groups)
  BY GroupsCarried
<1>2. /\ g \in SUBSET Known /\ g # {} /\ h \in SUBSET Known
      /\ \A s \in g \cup h : s \in Sources /\ s.kind # "country"
  BY <1>1 DEF Carried, Known
<1>3. Primary(g) \in g
  BY <1>2, PrimaryIn
<1>4. PICK s \in h : Qualified(g) \in NamesOf(s)
  BY Names
<1>5. Qualified(g) # <<s.name>>
  BY DEF Qualified
<1>6. s.platform = Primary(g).platform /\ s.name = Primary(g).name
  BY <1>4, <1>5 DEF NamesOf, Qualified
<1>7. s = Primary(g)
  BY <1>2, <1>3, <1>6, LinkingAssumption
<1>8. g \cap h # {}
  BY <1>3, <1>7
<1> QED BY <1>1, <1>8 DEF Carried

(* An id of its own for each carrier, and the one its sources had unless a  *)
(* carrier as large has a source so named.                                  *)
LEMMA Assigned ==
  ASSUME Ruled
  PROVE  /\ DOMAIN AssignedIds = Groups
         /\ \A g \in Groups : AssignedIds[g] \in Own(g)
         /\ \A g, h \in Groups : AssignedIds[g] = AssignedIds[h] => g = h
         /\ \A g \in Groups : \A id \in Own(g) :
              /\ \A s \in g : carrier[s] = id
              /\ \A h \in Groups \ {g} : Cardinality(h) >= Cardinality(g) => id \notin Own(h)
              => AssignedIds[g] = id
<1>. DEFINE order == Sorted(Groups, ChoosesFirst)
            ids == Chosen(order)
            N == Cardinality(Groups)
<1>1. InOrder(order, ChoosingOrder, Groups)
  BY GroupsInOrder
<1>2. AssignedIds = [g \in Range(order) |-> ids[CHOOSE i \in DOMAIN order : order[i] = g]]
  BY DEF AssignedIds
<1>. HIDE DEF order
<1>3. /\ N \in Nat /\ order \in [1 .. N -> Groups] /\ \A g \in Groups : \E i \in 1 .. N : order[i] = g
      /\ \A i, j \in 1 .. N : i < j <=> <<order[i], order[j]>> \in ChoosingOrder
  BY <1>1 DEF InOrder
<1>. HIDE DEF N
<1>4. Len(order) = N /\ DOMAIN order = 1 .. N
  <2>1. order \in Seq(Groups) /\ Len(order) = N
    BY <1>3, SeqDef
  <2> QED BY <1>3, <2>1
<1>5. \A i \in 1 .. N : ids[i] = FreeId(order[i], {ids[j] : j \in 1 .. i - 1})
  <2>1. N \in Nat /\ Len(order) = N
    BY <1>3, <1>4
  <2> HIDE DEF N
  <2> QED BY <2>1, ChosenInTurn
<1>. HIDE DEF ids
<1>6. \A g \in Groups : g \in SUBSET Known /\ g # {}
  BY GroupsCarried DEF Carried
<1>7. \A i, j \in 1 .. N : order[i] = order[j] => i = j
  <2> SUFFICES ASSUME NEW i \in 1 .. N, NEW j \in 1 .. N, order[i] = order[j], i # j PROVE FALSE
    OBVIOUS
  <2>1. i < j \/ j < i
    BY <1>3
  <2>2. <<order[i], order[i]>> \in ChoosingOrder
    BY <1>3, <2>1
  <2>3. order[i] \in Groups
    BY <1>3
  <2> QED BY <2>2, <2>3, GroupsOrder DEF Orders
<1>. DEFINE bad == {i \in 1 .. N : ids[i] \notin Own(order[i])}
<1>8. ASSUME NEW i \in 1 .. N, \A j \in 1 .. i - 1 : ids[j] \in Own(order[j])
      PROVE  ids[i] \in Own(order[i]) /\ ids[i] \notin {ids[j] : j \in 1 .. i - 1}
  <2>. DEFINE taken == {ids[j] : j \in 1 .. i - 1}
  <2>1. Qualified(order[i]) \notin taken
    <3> SUFFICES ASSUME NEW j \in 1 .. i - 1, Qualified(order[i]) = ids[j] PROVE FALSE
      OBVIOUS
    <3>1. j \in 1 .. N /\ j # i
      BY <1>3
    <3>2. order[i] = order[j]
      BY <1>3, <1>8, <3>1, QualifiedOwn
    <3> QED BY <1>7, <3>1, <3>2
  <2>2. ids[i] = FreeId(order[i], taken)
    BY <1>5
  <2>3. order[i] \in SUBSET Known /\ order[i] # {}
    BY <1>3, <1>6
  <2>. HIDE DEF taken
  <2>4. ids[i] \in Own(order[i]) /\ ids[i] \notin taken
    BY <2>1, <2>2, <2>3, FreeIds
  <2> QED BY <2>4 DEF taken
<1>9. bad = {}
  <2> SUFFICES ASSUME bad # {} PROVE FALSE
    OBVIOUS
  <2>1. bad \in SUBSET Nat
    OBVIOUS
  <2>2. PICK n \in bad : \A m \in bad : n <= m
    <3> HIDE DEF bad
    <3> QED BY <2>1, LeastOf
  <2>3. n \in 1 .. N /\ ids[n] \notin Own(order[n])
    OBVIOUS
  <2>4. ASSUME NEW j \in 1 .. n - 1 PROVE ids[j] \in Own(order[j])
    <3>1. j \in 1 .. N /\ ~(n <= j)
      BY <1>3, <2>3
    <3>2. j \notin bad
      <4> HIDE DEF bad
      <4> QED BY <2>2, <3>1
    <3> QED BY <3>1, <3>2
  <2> QED BY <1>8, <2>3, <2>4
<1>10. \A i \in 1 .. N : ids[i] \in Own(order[i])
  BY <1>9
<1>11. \A i, j \in 1 .. N : ids[i] = ids[j] => i = j
  <2>1. ASSUME NEW i \in 1 .. N, NEW j \in 1 .. N, i < j PROVE ids[i] # ids[j]
    <3>1. i \in 1 .. j - 1 /\ \A k \in 1 .. j - 1 : k \in 1 .. N
      BY <1>3, <2>1
    <3>2. ids[j] \notin {ids[k] : k \in 1 .. j - 1}
      BY <1>8, <1>10, <3>1
    <3> QED BY <3>1, <3>2
  <2>2. \A i, j \in 1 .. N : i = j \/ i < j \/ j < i
    BY <1>3
  <2> QED BY <2>1, <2>2
<1>12. Range(order) = Groups
  BY <1>3 DEF Range
<1>13. ASSUME NEW g \in Groups PROVE \E i \in 1 .. N : order[i] = g /\ AssignedIds[g] = ids[i]
  <2>. DEFINE i == CHOOSE i \in DOMAIN order : order[i] = g
  <2>1. i \in 1 .. N /\ order[i] = g
    BY <1>3, <1>4
  <2>2. AssignedIds[g] = ids[i]
    BY <1>2, <1>12
  <2>. HIDE DEF i
  <2> QED BY <2>1, <2>2
<1>14. DOMAIN AssignedIds = Groups
  BY <1>2, <1>12
<1>15. \A g \in Groups : AssignedIds[g] \in Own(g)
  BY <1>10, <1>13
<1>16. \A g, h \in Groups : AssignedIds[g] = AssignedIds[h] => g = h
  BY <1>11, <1>13
<1>17. ASSUME NEW g \in Groups, NEW id \in Own(g), \A s \in g : carrier[s] = id,
              \A h \in Groups \ {g} : Cardinality(h) >= Cardinality(g) => id \notin Own(h)
       PROVE  AssignedIds[g] = id
  <2>1. PICK i \in 1 .. N : order[i] = g /\ AssignedIds[g] = ids[i]
    BY <1>13
  <2>. DEFINE taken == {ids[j] : j \in 1 .. i - 1}
  <2>2. id \notin taken
    <3> SUFFICES ASSUME NEW j \in 1 .. i - 1, id = ids[j] PROVE FALSE
      OBVIOUS
    <3>1. j \in 1 .. N /\ j < i /\ j # i
      BY <1>3
    <3>2. order[j] \in Groups /\ order[j] # g /\ id \in Own(order[j])
      BY <1>3, <1>7, <1>10, <2>1, <3>1
    <3>3. <<order[j], g>> \in ChoosingOrder
      BY <1>3, <2>1, <3>1
    <3>4. ChoosesFirst(order[j], g)
      BY <3>3 DEF ChoosingOrder
    <3>5. Cardinality(order[j]) \in Nat /\ Cardinality(g) \in Nat
      BY <1>6, <3>2, GroupFinite
    <3>6. Cardinality(order[j]) >= Cardinality(g)
      BY <3>4, <3>5 DEF ChoosesFirst
    <3> QED BY <1>17, <3>2, <3>6
  <2>3. ids[i] = FreeId(g, taken)
    BY <1>5, <2>1
  <2>. HIDE DEF taken
  <2>4. g \in SUBSET Known /\ g # {}
    BY <1>6
  <2> QED BY <1>17, <2>1, <2>2, <2>3, <2>4, FreeIds
<1> QED BY <1>14, <1>15, <1>16, <1>17

-----------------------------------------------------------------------------
(* Linking: what holds of carriers linked. *)

(* Groups are the heads' alone. *)
LEMMA SameGroups ==
  ASSUME UNCHANGED head PROVE Groups' = Groups
<1>1. Known' = Known
  BY DEF Known
<1>2. \A s : Sims(s)' = Sims(s)
  BY DEF Sims
<1>3. Carriers' = Carriers
  BY <1>1 DEF Carriers
<1>4. SharedKeys' = SharedKeys
  BY <1>2, <1>3 DEF SharedKeys
<1>5. \A shared : Best(shared)' = Best(shared)
  BY <1>3 DEF Best
<1>6. \A a, platform : ClaimedOn(a, platform)' = ClaimedOn(a, platform)
  BY <1>2, <1>3 DEF ClaimedOn
<1>7. \A m, t, shared, best : Chooses(m, t, shared, best)' <=> Chooses(m, t, shared, best)
  BY <1>2, <1>6 DEF Chooses
<1>8. Best(SharedKeys)' = Best(SharedKeys)
  BY <1>4, <1>5
<1>9. SimEdges' = SimEdges
  BY <1>3, <1>4, <1>7, <1>8 DEF SimEdges
<1>10. Manual' = Manual
  BY <1>1 DEF Manual
<1>11. Edges' = Edges
  BY <1>9, <1>10 DEF Edges
<1>12. Singles' = Singles
  BY <1>1 DEF Singles
<1>13. Sorted(Edges, Stronger)' = Sorted(Edges, Stronger)
  BY <1>11 DEF Sorted
<1>14. Joined(Sorted(Edges, Stronger))' = Joined(Sorted(Edges, Stronger))
  BY <1>12, <1>13 DEF Joined
<1> QED BY <1>14 DEF Groups

HeadTyped == head \in [Sources -> (SUBSET Rules) \cup {Absent}]

(* Each carrier's sources have its id, one of their names, which is no      *)
(* other's; a source of none has none.                                      *)
CarriersNamed ==
  /\ \A g \in Groups : \A s \in g : carrier[s] \in Own(g)
  /\ \A g, h \in Groups : \A s \in g, t \in h : carrier[s] = carrier[t] <=> g = h
  /\ \A s \in Sources : s \notin UNION Groups => carrier[s] = NoId

CarriersInv == HeadTyped /\ linked \in {"stale", "linked"} /\ (Linked => CarriersNamed)

LEMMA HeadRuled == HeadTyped => Ruled
  BY DEF HeadTyped, Ruled, Known

LEMMA LinkStart == LinkInit => CarriersInv
<1> SUFFICES ASSUME LinkInit PROVE CarriersInv
  OBVIOUS
<1>1. HeadTyped
  BY DEF LinkInit, HeadTyped
<1> QED BY <1>1 DEF LinkInit, CarriersInv, Linked

LEMMA LinkGives ==
  ASSUME CarriersInv, Link
  PROVE  linked' = "linked" /\ UNCHANGED head
         /\ carrier' = [s \in Sources |->
              IF \E g \in Groups : s \in g THEN AssignedIds[In(Groups, s)] ELSE NoId]
<1>1. Ruled
  BY HeadRuled DEF CarriersInv
<1>2. DOMAIN AssignedIds = Groups /\ \A g \in Groups : AssignedIds[g] # NoId
  BY <1>1, Assigned, Names
<1>3. NoId \notin {AssignedIds[g] : g \in DOMAIN AssignedIds}
  BY <1>2
<1> QED BY <1>2, <1>3 DEF Link

LEMMA LinkNames ==
  ASSUME CarriersInv, Link PROVE CarriersInv'
<1>1. Ruled /\ HeadTyped
  BY HeadRuled DEF CarriersInv
<1>2. /\ linked' = "linked" /\ UNCHANGED head
      /\ carrier' = [s \in Sources |->
           IF \E g \in Groups : s \in g THEN AssignedIds[In(Groups, s)] ELSE NoId]
  BY LinkGives
<1>3. Groups' = Groups
  BY <1>2, SameGroups
<1>4. Carried(Groups)
  BY <1>1, GroupsCarried
<1>5. \A g \in Groups : g \in SUBSET Sources /\ AssignedIds[g] \in Own(g)
  BY <1>1, <1>4, Assigned DEF Carried, Known
<1>6. \A g \in Groups : \A s \in g : In(Groups, s) = g
  <2> SUFFICES ASSUME NEW g \in Groups, NEW s \in g PROVE In(Groups, s) = g
    OBVIOUS
  <2>1. \A h \in Groups : s \in h => h = g
    BY <1>4 DEF Carried
  <2> QED BY <2>1 DEF In
<1>7. \A g \in Groups : \A s \in g : carrier'[s] = AssignedIds[g]
  <2> SUFFICES ASSUME NEW g \in Groups, NEW s \in g PROVE carrier'[s] = AssignedIds[g]
    OBVIOUS
  <2>1. s \in Sources
    BY <1>5
  <2> QED BY <1>2, <1>6, <2>1
<1>8. \A s \in Sources : s \notin UNION Groups => carrier'[s] = NoId
  BY <1>2
<1>9. \A g, h \in Groups : \A s \in g, t \in h : carrier'[s] = carrier'[t] <=> g = h
  <2>1. \A g, h \in Groups : AssignedIds[g] = AssignedIds[h] => g = h
    BY <1>1, Assigned
  <2> QED BY <1>7, <2>1
<1>10. \A g \in Groups : \A s \in g : carrier'[s] \in Own(g)
  BY <1>5, <1>7
<1>11. CarriersNamed'
  BY <1>3, <1>8, <1>9, <1>10 DEF CarriersNamed
<1> QED BY <1>1, <1>2, <1>11 DEF CarriersInv, HeadTyped

LEMMA LinkInvariant == LinkSpec => []CarriersInv
<1>1. ASSUME CarriersInv, [LinkNext]_linkVars PROVE CarriersInv'
  <2>1. CASE Link
    BY <1>1, <2>1, LinkNames
  <2>2. CASE \E s \in Sources : Identify(s)
    <3>1. PICK s \in Sources : Identify(s)
      BY <2>2
    <3>2. PICK rules \in Heads[s] : head' = [head EXCEPT ![s] = rules]
      BY <3>1 DEF Identify
    <3>3. rules \in SUBSET Rules
      BY <3>2, LinkingAssumption
    <3>4. HeadTyped'
      BY <1>1, <3>2, <3>3 DEF CarriersInv, HeadTyped
    <3>5. linked' = "stale"
      BY <3>1 DEF Identify
    <3> QED BY <3>4, <3>5 DEF CarriersInv, Linked
  <2>3. CASE UNCHANGED linkVars
    <3>1. UNCHANGED head /\ UNCHANGED carrier /\ UNCHANGED linked
      BY <2>3 DEF linkVars
    <3>2. Groups' = Groups
      BY <3>1, SameGroups
    <3>3. CarriersNamed => CarriersNamed'
      BY <3>1, <3>2 DEF CarriersNamed
    <3> QED BY <1>1, <3>1, <3>3 DEF CarriersInv, HeadTyped, Linked
  <2> QED BY <1>1, <2>1, <2>2, <2>3 DEF LinkNext
<1> QED BY <1>1, LinkStart, PTL DEF LinkSpec

(* No two sources people keep apart are in one carrier, whatever bridges    *)
(* them (Groups.join, namesakes).                                           *)
THEOREM SplitsAlwaysHold == LinkSpec => []SplitsHold
<1>1. CarriersInv => SplitsHold
  <2> SUFFICES ASSUME CarriersInv, Linked, NEW p \in Apart, p[1] # p[2], Together(p[1], p[2]) PROVE FALSE
    BY DEF SplitsHold
  <2>1. CarriersNamed /\ Carried(Groups)
    BY HeadRuled, GroupsCarried DEF CarriersInv
  <2>2. p[1] \in Sources /\ p[2] \in Sources
    <3>1. PICK q \in Splits : p \in Namesakes(q[1]) \X Namesakes(q[2])
      BY DEF Apart
    <3>2. q[1] \in Sources /\ q[2] \in Sources
      BY <3>1, LinkingAssumption
    <3>3. Namesakes(q[1]) \in SUBSET Sources /\ Namesakes(q[2]) \in SUBSET Sources
      BY <3>2 DEF Namesakes
    <3> QED BY <3>1, <3>3
  <2>3. carrier[p[1]] # NoId /\ carrier[p[1]] = carrier[p[2]]
    BY DEF Together
  <2>4. PICK g \in Groups, h \in Groups : p[1] \in g /\ p[2] \in h
    BY <2>1, <2>2, <2>3 DEF CarriersNamed
  <2>5. g = h
    BY <2>1, <2>3, <2>4 DEF CarriersNamed
  <2> QED BY <2>1, <2>4, <2>5 DEF Carried
<1> QED BY <1>1, LinkInvariant, PTL

(* A carrier's id is its own alone and one of its sources' names, and one   *)
(* is always free: linking never fails (assignIds).                         *)
THEOREM IdsAlwaysNamed == LinkSpec => []IdsNamed
<1>1. CarriersInv => IdsNamed
  <2> SUFFICES ASSUME CarriersInv PROVE IdsNamed
    OBVIOUS
  <2>1. linked # "threw"
    BY DEF CarriersInv
  <2>2. ASSUME Linked, NEW g \in Groups, NEW s \in g
        PROVE  carrier[s] \in Own(g) /\ {t \in Known : Together(s, t)} = g
    <3>1. CarriersNamed /\ Carried(Groups)
      BY <2>2, HeadRuled, GroupsCarried DEF CarriersInv
    <3>2. carrier[s] \in Own(g) /\ carrier[s] # NoId
      <4>1. carrier[s] \in Own(g)
        BY <3>1 DEF CarriersNamed
      <4> QED BY <4>1, Names
    <3>3. g \in SUBSET Known
      BY <3>1 DEF Carried
    <3>4. ASSUME NEW t \in g PROVE Together(s, t)
      BY <3>1, <3>2 DEF CarriersNamed, Together
    <3>5. ASSUME NEW t \in Known, Together(s, t) PROVE t \in g
      <4>1. carrier[t] = carrier[s] /\ carrier[t] # NoId /\ t \in Sources
        BY <3>5 DEF Together, Known
      <4>2. PICK h \in Groups : t \in h
        BY <3>1, <4>1 DEF CarriersNamed
      <4>3. h = g
        BY <3>1, <4>1, <4>2 DEF CarriersNamed
      <4> QED BY <4>2, <4>3
    <3> QED BY <3>2, <3>3, <3>4, <3>5
  <2> QED BY <2>1, <2>2 DEF IdsNamed
<1> QED BY <1>1, LinkInvariant, PTL

(* A carrier whose sources all had one id keeps it while it is one of its   *)
(* names and no carrier that chooses before it has a source so named        *)
(* (assignIds).                                                             *)
THEOREM IdsAlwaysKept == LinkSpec => IdKept
<1>. DEFINE Keeps ==
       linked' = "linked" => \A groups \in {Groups} : \A g \in groups : \A id \in Own(g) :
         /\ \A s \in g : carrier[s] = id
         /\ \A h \in groups \ {g} : Cardinality(h) >= Cardinality(g) => id \notin Own(h)
         => \A s \in g : carrier'[s] = id
<1>1. ASSUME CarriersInv, [LinkNext]_linkVars PROVE [Keeps]_linkVars
  <2>1. CASE Link
    <3> SUFFICES ASSUME NEW g \in Groups, NEW id \in Own(g), \A s \in g : carrier[s] = id,
                        \A h \in Groups \ {g} : Cardinality(h) >= Cardinality(g) => id \notin Own(h),
                        NEW s \in g
                 PROVE  carrier'[s] = id
      OBVIOUS
    <3>1. Ruled /\ Carried(Groups)
      BY <1>1, HeadRuled, GroupsCarried DEF CarriersInv
    <3>2. AssignedIds[g] = id
      BY <3>1, Assigned
    <3>3. s \in Sources
      BY <3>1 DEF Carried, Known
    <3>4. In(Groups, s) = g
      <4>1. \A h \in Groups : s \in h => h = g
        BY <3>1 DEF Carried
      <4> QED BY <4>1 DEF In
    <3>5. carrier' = [x \in Sources |->
            IF \E h \in Groups : x \in h THEN AssignedIds[In(Groups, x)] ELSE NoId]
      BY <1>1, <2>1, LinkGives
    <3> QED BY <3>2, <3>3, <3>4, <3>5
  <2>2. CASE \E s \in Sources : Identify(s)
    BY <2>2 DEF Identify
  <2>3. CASE UNCHANGED linkVars
    BY <2>3
  <2> QED BY <1>1, <2>1, <2>2, <2>3 DEF LinkNext
<1>2. LinkSpec => [][Keeps]_linkVars
  <2>. HIDE DEF Keeps
  <2> QED BY <1>1, LinkInvariant, PTL DEF LinkSpec
<1> QED BY <1>2 DEF IdKept

-----------------------------------------------------------------------------
(* Linking: which bridge is dropped. *)

(* What one edge does to the groups of its ends. *)
LEMMA JoinStep ==
  ASSUME NEW groups, Parted(groups), NEW e, EdgeOf(e), NEW a \in e.between, NEW b \in e.between, a # b
  PROVE  \E g, h \in groups :
           /\ a \in g /\ b \in h
           /\ \/ /\ JoinEnds(groups, e) = groups
                 /\ g = h \/ \E p \in Apart : (p[1] \in g /\ p[2] \in h) \/ (p[1] \in h /\ p[2] \in g)
              \/ JoinEnds(groups, e) = (groups \ {g, h}) \cup {g \cup h}
<1>. DEFINE x == CHOOSE s \in e.between : TRUE
            y == CHOOSE s \in e.between : s # x
            g == In(groups, x)
            h == In(groups, y)
<1>1. PICK s \in Known, t \in Known : s # t /\ e.between = {s, t}
  BY DEF EdgeOf
<1>2. x \in e.between
  BY <1>1
<1>. HIDE DEF x
<1>3. y \in e.between /\ y # x
  <2>1. \E z \in e.between : z # x
    BY <1>1
  <2> QED BY <2>1
<1>4. JoinEnds(groups, e) =
        IF g = h \/ Bridges(g, h, e) THEN groups ELSE (groups \ {g, h}) \cup {g \cup h}
  BY DEF JoinEnds, x
<1>. HIDE DEF y
<1>5. x \in Known /\ y \in Known
  BY <1>1, <1>2, <1>3
<1>6. g \in groups /\ h \in groups /\ x \in g /\ y \in h
  <2>1. \A z \in Known : \E k \in groups : z \in k
    BY DEF Parted
  <2>2. \A z \in Known : In(groups, z) \in groups /\ z \in In(groups, z)
    BY <2>1 DEF In
  <2> QED BY <1>5, <2>2
<1>. HIDE DEF g, h
<1>7. (a = x /\ b = y) \/ (a = y /\ b = x)
  BY <1>1, <1>2, <1>3
<1>8. Bridges(g, h, e) <=> \E p \in Apart : (p[1] \in g /\ p[2] \in h) \/ (p[1] \in h /\ p[2] \in g)
  BY DEF Bridges
<1>9. CASE a = x /\ b = y
  BY <1>4, <1>6, <1>8, <1>9
<1>10. CASE a = y /\ b = x
  <2>1. {h, g} = {g, h} /\ h \cup g = g \cup h
    OBVIOUS
  <2> QED BY <1>4, <1>6, <1>8, <1>10, <2>1
<1> QED BY <1>7, <1>9, <1>10

(* Groups only grow. *)
LEMMA GroupsGrow ==
  ASSUME Ruled, NEW s, NEW f, NEW N, JoinsOf(s, f, N), NEW n \in 0 .. N, NEW k \in f[n]
  PROVE  \E l \in f[N] : k \subseteq l
<1>. DEFINE bad == {m \in 0 .. N : m >= n /\ ~(\E l \in f[m] : k \subseteq l)}
<1>0. N \in Nat
  BY DEF JoinsOf
<1>1. ASSUME NEW m \in 1 .. N, m - 1 \notin bad, m >= n PROVE \E l \in f[m] : k \subseteq l
  <2>1. CASE m = n
    BY <2>1
  <2>2. CASE m # n
    <3>1. m - 1 \in 0 .. N /\ m - 1 >= n
      <4>1. m \in Nat /\ m <= N /\ m >= 1 /\ n \in Nat
        BY <1>0, <1>1
      <4> QED BY <1>0, <1>1, <2>2, <4>1
    <3>2. PICK l \in f[m - 1] : k \subseteq l
      BY <1>1, <3>1
    <3>3. Parted(f[m - 1]) /\ s[m] \in Edges /\ f[m] = JoinEnds(f[m - 1], s[m])
      BY <3>1 DEF JoinsOf
    <3>4. EdgeOf(s[m])
      BY <3>3, EdgesJoin
    <3>5. PICK a \in s[m].between, b \in s[m].between : a # b
      BY <3>4 DEF EdgeOf
    <3>6. PICK g \in f[m - 1], h \in f[m - 1] :
            \/ f[m] = f[m - 1]
            \/ f[m] = (f[m - 1] \ {g, h}) \cup {g \cup h}
      BY <3>3, <3>4, <3>5, JoinStep
    <3>7. CASE f[m] = f[m - 1]
      BY <3>2, <3>7
    <3>8. CASE f[m] = (f[m - 1] \ {g, h}) \cup {g \cup h}
      <4>1. CASE l \in {g, h}
        <5>1. k \subseteq g \cup h /\ g \cup h \in f[m]
          BY <3>2, <3>8, <4>1
        <5> QED BY <5>1
      <4>2. CASE l \notin {g, h}
        BY <3>2, <3>8, <4>2
      <4> QED BY <4>1, <4>2
    <3> QED BY <3>6, <3>7, <3>8
  <2> QED BY <2>1, <2>2
<1>2. bad = {}
  <2>1. 0 \notin bad
    <3> SUFFICES ASSUME 0 >= n PROVE \E l \in f[0] : k \subseteq l
      OBVIOUS
    <3>1. n = 0
      OBVIOUS
    <3> QED BY <3>1
  <2>2. \A m \in 1 .. N : m - 1 \notin bad => m \notin bad
    BY <1>1
  <2>3. bad \in SUBSET (0 .. N)
    OBVIOUS
  <2>. HIDE DEF bad
  <2> QED BY <1>0, <2>1, <2>2, <2>3, NoneBad
<1>3. N \in 0 .. N /\ N >= n
  BY <1>0
<1> QED BY <1>2, <1>3

(* What no held edge crosses parts no group made before a weaker edge.      *)
Uncrossed(S, edges) == \A e \in edges : e.between \subseteq S \/ S \cap e.between = {}

(* All the edges before one that join in the end are held.                  *)
HeldBefore(s, f, N, n, held) ==
  \A i \in 1 .. n - 1 : (\E k \in f[N] : s[i].between \subseteq k) => s[i] \in held

LEMMA GroupsReached ==
  ASSUME Ruled, NEW s, NEW f, NEW N, JoinsOf(s, f, N), NEW n \in 1 .. N, NEW held,
         HeldBefore(s, f, N, n, held),
         NEW S, Uncrossed(S, held), NEW g \in f[n - 1], S \cap g # {}
  PROVE  g \subseteq S
<1>. DEFINE bad == {m \in 0 .. n - 1 : ~(\A k \in f[m] : S \cap k # {} => k \subseteq S)}
<1>0. N \in Nat /\ n - 1 \in Nat /\ n - 1 \in 0 .. N
  BY DEF JoinsOf
<1>1. ASSUME NEW m \in 1 .. n - 1, m - 1 \notin bad, NEW k \in f[m], S \cap k # {} PROVE k \subseteq S
  <2>1. m - 1 \in 0 .. n - 1 /\ m - 1 \in 0 .. N /\ m \in 1 .. N /\ m \in 0 .. N
    BY <1>0
  <2>2. \A l \in f[m - 1] : S \cap l # {} => l \subseteq S
    BY <1>1, <2>1
  <2>3. Parted(f[m - 1]) /\ s[m] \in Edges /\ f[m] = JoinEnds(f[m - 1], s[m])
    BY <2>1 DEF JoinsOf
  <2>4. EdgeOf(s[m])
    BY <2>3, EdgesJoin
  <2>5. PICK a \in s[m].between, b \in s[m].between : a # b /\ s[m].between = {a, b}
    BY <2>4 DEF EdgeOf
  <2>6. PICK g1 \in f[m - 1], h1 \in f[m - 1] :
          /\ a \in g1 /\ b \in h1
          /\ f[m] = f[m - 1] \/ f[m] = (f[m - 1] \ {g1, h1}) \cup {g1 \cup h1}
    <3>1. a \in s[m].between /\ b \in s[m].between /\ a # b
      BY <2>5
    <3>2. \E g1, h1 \in f[m - 1] :
            /\ a \in g1 /\ b \in h1
            /\ \/ /\ JoinEnds(f[m - 1], s[m]) = f[m - 1]
                  /\ g1 = h1 \/ \E p \in Apart : (p[1] \in g1 /\ p[2] \in h1) \/ (p[1] \in h1 /\ p[2] \in g1)
               \/ JoinEnds(f[m - 1], s[m]) = (f[m - 1] \ {g1, h1}) \cup {g1 \cup h1}
      BY <2>3, <2>4, <3>1, JoinStep
    <3> QED BY <2>3, <3>2
  <2>7. CASE k \in f[m - 1]
    BY <1>1, <2>2, <2>7
  <2>8. CASE k \notin f[m - 1]
    <3>1. k = g1 \cup h1
      BY <1>1, <2>6, <2>8
    <3>2. PICK l \in f[N] : k \subseteq l
      BY <2>1, GroupsGrow
    <3>3. s[m].between \subseteq l
      BY <2>5, <2>6, <3>1, <3>2
    <3>4. s[m] \in held
      BY <3>3 DEF HeldBefore
    <3>5. a \in S <=> b \in S
      BY <2>5, <3>4 DEF Uncrossed
    <3>6. (S \cap g1 # {} => g1 \subseteq S) /\ (S \cap h1 # {} => h1 \subseteq S)
      BY <2>2, <2>6
    <3>7. S \cap g1 # {} \/ S \cap h1 # {}
      BY <1>1, <3>1
    <3>8. a \in S /\ b \in S
      BY <2>6, <3>5, <3>6, <3>7
    <3>9. g1 \subseteq S /\ h1 \subseteq S
      BY <2>6, <3>6, <3>8
    <3> QED BY <3>1, <3>9
  <2> QED BY <2>7, <2>8
<1>2. bad = {}
  <2>1. 0 \notin bad
    <3>1. f[0] = Singles
      BY DEF JoinsOf
    <3>2. \A k \in Singles : S \cap k # {} => k \subseteq S
      BY DEF Singles
    <3> QED BY <3>1, <3>2
  <2>2. \A m \in 1 .. n - 1 : m - 1 \notin bad => m \notin bad
    BY <1>1
  <2>3. bad \in SUBSET (0 .. n - 1)
    OBVIOUS
  <2>. HIDE DEF bad
  <2> QED BY <1>0, <2>1, <2>2, <2>3, NoneBad
<1>3. n - 1 \in 0 .. n - 1
  BY <1>0
<1> QED BY <1>2, <1>3

(* Of one carrier: of one group. *)
LEMMA TogetherJoined ==
  ASSUME CarriersInv, Linked, NEW s \in Known, NEW t \in Known, s.kind # "country", t.kind # "country"
  PROVE  Together(s, t) <=> \E k \in Joined(Sorted(Edges, Stronger)) : s \in k /\ t \in k
<1>. DEFINE joined == Joined(Sorted(Edges, Stronger))
            carried(k) == {x \in k : x.kind # "country"}
<1>1. CarriersNamed
  BY DEF CarriersInv
<1>2. Groups = {carried(k) : k \in joined} \ {{}}
  BY DEF Groups
<1>. HIDE DEF joined
<1>3. ASSUME NEW k \in joined, s \in k, t \in k PROVE Together(s, t)
  <2>1. carried(k) \in Groups /\ s \in carried(k) /\ t \in carried(k)
    BY <1>2, <1>3
  <2>. HIDE DEF carried
  <2>2. carrier[s] = carrier[t]
    BY <1>1, <2>1 DEF CarriersNamed
  <2>3. carrier[s] \in Own(carried(k))
    BY <1>1, <2>1 DEF CarriersNamed
  <2>4. carrier[s] # NoId
    BY <2>3, Names
  <2> QED BY <2>2, <2>4 DEF Together
<1>4. ASSUME Together(s, t) PROVE \E k \in joined : s \in k /\ t \in k
  <2>1. carrier[s] # NoId /\ carrier[s] = carrier[t] /\ s \in Sources /\ t \in Sources
    BY <1>4 DEF Together, Known
  <2>2. PICK g \in Groups, h \in Groups : s \in g /\ t \in h
    BY <1>1, <2>1 DEF CarriersNamed
  <2>3. g = h
    BY <1>1, <2>1, <2>2 DEF CarriersNamed
  <2>4. PICK k \in joined : g = carried(k)
    BY <1>2
  <2> QED BY <2>2, <2>3, <2>4
<1> QED BY <1>3, <1>4 DEF joined

(* "A split drops the weakest bridge": two sources an edge joins are parted *)
(* only where that edge would complete a path between a pair kept apart of  *)
(* which no other edge is weaker (strength, linkSources).                   *)
THEOREM WeakestAlwaysDropped == LinkSpec => []WeakestDropped
<1>1. ASSUME CarriersInv, Linked, \A l \in Links : \A s \in l : s.kind # "country",
             NEW e \in Edges, NEW a \in e.between, NEW b \in e.between, a # b, ~Together(a, b)
      PROVE  LET held == {f \in Edges : f.strength >= e.strength /\ \A s, t \in f.between : Together(s, t)}
             IN \E p \in Apart : \/ p[1] \in Reach(a, held) /\ p[2] \in Reach(b, held)
                                 \/ p[1] \in Reach(b, held) /\ p[2] \in Reach(a, held)
  <2>. DEFINE held == {f \in Edges : f.strength >= e.strength /\ \A s, t \in f.between : Together(s, t)}
  <2>1. Ruled
    BY <1>1, HeadRuled DEF CarriersInv
  <2>2. PICK s, f, N : JoinsOf(s, f, N)
    BY <2>1, EdgesJoined
  <2>3. PICK n \in 1 .. N : s[n] = e
    BY <2>2 DEF JoinsOf
  <2>4. /\ N \in Nat /\ n - 1 \in 0 .. N /\ n \in 0 .. N
        /\ Parted(f[n - 1]) /\ f[n] = JoinEnds(f[n - 1], e)
    <3>1. N \in Nat
      BY <2>2 DEF JoinsOf
    <3>2. n - 1 \in 0 .. N /\ n \in 0 .. N
      BY <3>1
    <3> QED BY <2>2, <2>3, <3>1, <3>2 DEF JoinsOf
  <2>5. ASSUME NEW x \in Edges PROVE \A y \in x.between : y \in Known /\ y.kind # "country"
    <3>1. EdgeOf(x)
      BY <2>1, EdgesJoin
    <3>2. \A y \in x.between : y \in Known
      BY <3>1 DEF EdgeOf
    <3>3. CASE x \in Manual
      <4>1. x.between \in Links
        BY <3>3 DEF Manual
      <4> QED BY <1>1, <3>2, <4>1
    <3>4. CASE x \in SimEdges
      <4>1. x.between \subseteq Carriers
        BY <3>4 DEF SimEdges
      <4> QED BY <3>2, <4>1 DEF Carriers
    <3> QED BY <3>3, <3>4 DEF Edges
  <2>6. \A x \in Edges : \A y, z \in x.between :
          Together(y, z) <=> \E k \in f[N] : y \in k /\ z \in k
    <3>1. f[N] = Joined(Sorted(Edges, Stronger))
      BY <2>2 DEF JoinsOf
    <3> QED BY <1>1, <2>5, <3>1, TogetherJoined
  <2>7. PICK g \in f[n - 1], h \in f[n - 1] :
          /\ a \in g /\ b \in h
          /\ \/ /\ f[n] = f[n - 1]
                /\ g = h \/ \E p \in Apart : (p[1] \in g /\ p[2] \in h) \/ (p[1] \in h /\ p[2] \in g)
             \/ f[n] = (f[n - 1] \ {g, h}) \cup {g \cup h}
    <3>1. EdgeOf(e)
      BY <2>1, EdgesJoin
    <3> QED BY <1>1, <2>4, <3>1, JoinStep
  <2>8. ~(\E k \in f[n] : a \in k /\ b \in k)
    <3> SUFFICES ASSUME NEW k \in f[n], a \in k, b \in k PROVE FALSE
      OBVIOUS
    <3>1. PICK l \in f[N] : k \subseteq l
      BY <2>1, <2>2, <2>4, GroupsGrow
    <3> QED BY <1>1, <2>6, <3>1
  <2>9. PICK p \in Apart : (p[1] \in g /\ p[2] \in h) \/ (p[1] \in h /\ p[2] \in g)
    BY <2>7, <2>8
  <2>10. HeldBefore(s, f, N, n, held)
    <3> SUFFICES ASSUME NEW i \in 1 .. n - 1, NEW k \in f[N], s[i].between \subseteq k PROVE s[i] \in held
      BY DEF HeldBefore
    <3>1. i \in 1 .. N /\ i < n
      BY <2>4
    <3>2. s[i] \in Edges /\ s[i].strength >= e.strength
      BY <2>2, <2>3, <3>1 DEF JoinsOf
    <3>3. \A y, z \in s[i].between : Together(y, z)
      BY <2>6, <3>2
    <3> QED BY <3>2, <3>3
  <2>. HIDE DEF held
  <2>11. ASSUME NEW x, NEW k \in f[n - 1], x \in k PROVE k \subseteq Reach(x, held)
    <3>1. k \subseteq Known
      BY <2>4 DEF Parted
    <3>2. ASSUME NEW S \in SUBSET Known, x \in S, Uncrossed(S, held) PROVE k \subseteq S
      <4>1. S \cap k # {}
        BY <2>11, <3>2
      <4> QED BY <2>1, <2>2, <2>10, <3>2, <4>1, GroupsReached
    <3> QED BY <3>1, <3>2 DEF Reach, Uncrossed
  <2>12. g \subseteq Reach(a, held) /\ h \subseteq Reach(b, held)
    BY <2>7, <2>11
  <2> QED BY <2>9, <2>12 DEF held
<1>2. CarriersInv => WeakestDropped
  BY <1>1 DEF WeakestDropped
<1> QED BY <1>2, LinkInvariant, PTL

-----------------------------------------------------------------------------
(* Pages: the rows after the cursor. *)

PageTypes ==
  /\ windowed \in BOOLEAN /\ limit \in Nat \ {0}
  /\ DOMAIN place \in SUBSET Keys /\ place \in [DOMAIN place -> Places]
  /\ stayed \in SUBSET DOMAIN place /\ slid \in BOOLEAN
  /\ after \in SUBSET Keys /\ (\A a, b \in after : a = b)
  /\ given \in Seq(Keys)

Rows == {k \in DOMAIN place : \A a \in after : Precedes(a, k)}
Placed == IF windowed THEN DOMAIN place ELSE Keys
PageOrder == {p \in Placed \X Placed : Precedes(p[1], p[2])}

LEMMA PlacedOrder ==
  ASSUME PageTypes
  PROVE  /\ \A k \in Placed : ~Precedes(k, k)
         /\ \A k, l \in Placed : k = l \/ Precedes(k, l) \/ Precedes(l, k)
         /\ \A k, l, m \in Placed : Precedes(k, l) /\ Precedes(l, m) => Precedes(k, m)
         /\ DOMAIN place \subseteq Placed
<1>1. \A k \in Placed : k \in Nat
  BY PagesAssumption DEF Placed, PageTypes
<1>2. windowed => \A k \in Placed : place[k] \in Nat
  BY PagesAssumption DEF Placed, PageTypes
<1>3. DOMAIN place \subseteq Placed
  BY DEF Placed, PageTypes
<1>4. CASE windowed
  <2>1. \A k \in Placed : k \in Nat /\ place[k] \in Nat
    BY <1>1, <1>2, <1>4
  <2> QED BY <1>3, <1>4, <2>1 DEF Precedes
<1>5. CASE ~windowed
  BY <1>1, <1>3, <1>5 DEF Precedes
<1> QED BY <1>4, <1>5

LEMMA RowsSorted ==
  ASSUME PageTypes
  PROVE  InOrder(Sorted(Rows, Precedes), PageOrder, Rows)
<1>. DEFINE S == Rows
            N == Cardinality(S)
            B(x) == {y \in S : Precedes(y, x)}
            s == [n \in 1 .. N |-> CHOOSE x \in S : Cardinality(B(x)) = n - 1]
<1>0. IsFiniteSet(S)
  <2>1. S \in SUBSET Keys
    BY DEF Rows, PageTypes
  <2> QED BY <2>1, PagesAssumption, FS_Subset
<1>1. S \subseteq Placed
  BY PlacedOrder DEF Rows
<1>2. \A x, y \in S : <<y, x>> \in PageOrder <=> Precedes(y, x)
  BY <1>1 DEF PageOrder
<1>3. Sorted(S, Precedes) = s
  BY DEF Sorted
<1>4. \A x \in S : B(x) = Below(PageOrder, S, x)
  BY <1>2 DEF Below
<1>. HIDE DEF B, S
<1>5. Orders(PageOrder, S)
  BY <1>1, <1>2, PlacedOrder DEF Orders
<1>6. \A i \in 1 .. N : \E x \in S : Cardinality(B(x)) = i - 1
  BY <1>0, <1>4, <1>5, RanksCover
<1>7. \A i \in 1 .. N : s[i] \in S /\ Cardinality(B(s[i])) = i - 1
  BY <1>6
<1>8. s \in [1 .. N -> S]
  BY <1>7
<1>. HIDE DEF s
<1>9. \A i \in 1 .. N : Cardinality(Below(PageOrder, S, s[i])) = i - 1
  BY <1>4, <1>7
<1>10. InOrder(s, PageOrder, S)
  BY <1>0, <1>5, <1>8, <1>9, PicksInOrder
<1> QED BY <1>3, <1>10 DEF S

LEMMA Taken ==
  ASSUME NEW S, NEW s \in Seq(S), NEW n \in Nat
  PROVE  /\ Take(n, s) \in Seq(S) /\ Len(Take(n, s)) = (IF Len(s) < n THEN Len(s) ELSE n)
         /\ \A i \in 1 .. Len(Take(n, s)) : Take(n, s)[i] = s[i]
<1>. DEFINE m == IF Len(s) < n THEN Len(s) ELSE n
<1>1. m \in Nat /\ m <= Len(s) /\ Take(n, s) = SubSeq(s, 1, m)
  BY DEF Take
<1>. HIDE DEF m
<1>2. \A i \in 1 .. m : s[i] \in S
  BY <1>1
<1>3. /\ SubSeq(s, 1, m) \in Seq(S) /\ Len(SubSeq(s, 1, m)) = (IF 1 <= m THEN m - 1 + 1 ELSE 0)
      /\ \A i \in 1 .. m - 1 + 1 : SubSeq(s, 1, m)[i] = s[1 + i - 1]
  BY <1>1, <1>2, SubSeqProperties
<1>4. Len(SubSeq(s, 1, m)) = m
  BY <1>1, <1>3
<1>5. \A i \in 1 .. m : i \in 1 .. m - 1 + 1 /\ 1 + i - 1 = i
  BY <1>1
<1>6. \A i \in 1 .. m : SubSeq(s, 1, m)[i] = s[i]
  BY <1>3, <1>5
<1> QED BY <1>1, <1>3, <1>4, <1>6 DEF m

LEMMA Appended ==
  ASSUME NEW S, NEW u \in Seq(S), NEW v \in Seq(S)
  PROVE  /\ u \o v \in Seq(S) /\ DOMAIN (u \o v) = 1 .. Len(u) + Len(v)
         /\ \A i \in 1 .. Len(u) : (u \o v)[i] = u[i]
         /\ \A i \in 1 .. Len(v) : (u \o v)[Len(u) + i] = v[i]
         /\ Range(u \o v) = Range(u) \cup Range(v)
<1>. DEFINE w == u \o v
            m == Len(u)
            n == Len(v)
<1>1. /\ w \in Seq(S) /\ Len(w) = m + n
      /\ \A i \in 1 .. m + n : w[i] = IF i <= m THEN u[i] ELSE v[i - m]
  BY ConcatProperties
<1>2. m \in Nat /\ n \in Nat /\ DOMAIN u = 1 .. m /\ DOMAIN v = 1 .. n
  OBVIOUS
<1>. HIDE DEF w, m, n
<1>3. DOMAIN w = 1 .. m + n
  BY <1>1
<1>4. \A i \in 1 .. m : i \in 1 .. m + n /\ w[i] = u[i]
  BY <1>1, <1>2
<1>5. \A i \in 1 .. n : m + i \in 1 .. m + n /\ w[m + i] = v[i]
  <2> SUFFICES ASSUME NEW i \in 1 .. n PROVE m + i \in 1 .. m + n /\ w[m + i] = v[i]
    OBVIOUS
  <2>. DEFINE k == m + i
  <2>1. k \in 1 .. m + n /\ ~(k <= m) /\ k - m = i
    BY <1>2
  <2>. HIDE DEF k
  <2>2. w[k] = v[k - m]
    BY <1>1, <2>1
  <2>3. w[k] = v[i]
    BY <2>1, <2>2
  <2> QED BY <2>1, <2>3 DEF k
<1>6. \A i \in 1 .. m + n : i \in 1 .. m \/ \E j \in 1 .. n : i = m + j
  <2> SUFFICES ASSUME NEW i \in 1 .. m + n, i \notin 1 .. m PROVE \E j \in 1 .. n : i = m + j
    OBVIOUS
  <2>1. i - m \in 1 .. n /\ i = m + (i - m)
    BY <1>2
  <2> QED BY <2>1
<1>7. Range(w) = Range(u) \cup Range(v)
  <2>1. ASSUME NEW i \in 1 .. m + n PROVE w[i] \in Range(u) \cup Range(v)
    <3>1. CASE i \in 1 .. m
      BY <1>2, <1>4, <3>1 DEF Range
    <3>2. CASE \E j \in 1 .. n : i = m + j
      <4>1. PICK j \in 1 .. n : i = m + j
        BY <3>2
      <4>2. w[i] = v[j]
        BY <1>5, <4>1
      <4> QED BY <1>2, <4>2 DEF Range
    <3> QED BY <1>6, <3>1, <3>2
  <2>2. \A x \in Range(u) : x \in Range(w)
    BY <1>2, <1>3, <1>4 DEF Range
  <2>3. \A x \in Range(v) : x \in Range(w)
    BY <1>2, <1>3, <1>5 DEF Range
  <2>4. \A x \in Range(w) : x \in Range(u) \cup Range(v)
    BY <1>3, <2>1 DEF Range
  <2> QED BY <2>2, <2>3, <2>4
<1> QED BY <1>1, <1>3, <1>4, <1>5, <1>7 DEF w, m, n

(* A page t: the first n rows after the cursor, all N of them on the last   *)
(* page, and up to the next cursor on any other.                            *)
PageOf(t, s, N, n) ==
  /\ N \in Nat /\ s \in [1 .. N -> Rows] /\ \A k \in Rows : \E i \in 1 .. N : s[i] = k
  /\ \A i, j \in 1 .. N : i < j <=> Precedes(s[i], s[j])
  /\ n \in 0 .. N /\ t \in Seq(Keys) /\ Len(t) = n /\ \A i \in 1 .. n : t[i] = s[i]
  /\ Len(WindowOf) <= limit => n = N
  /\ ~(Len(WindowOf) <= limit) => n = limit /\ WindowOf[limit] = s[n]

LEMMA PageRows ==
  ASSUME PageTypes PROVE \E s, N, n : PageOf(Take(limit, WindowOf), s, N, n)
<1>. DEFINE s == Sorted(Rows, Precedes)
            N == Cardinality(Rows)
            w == Take(limit + 1, s)
            t == Take(limit, w)
<1>1. InOrder(s, PageOrder, Rows)
  BY RowsSorted
<1>2. WindowOf = w
  BY DEF WindowOf, Rows
<1>3. limit \in Nat /\ limit # 0 /\ limit + 1 \in Nat
  BY DEF PageTypes
<1>. HIDE DEF s
<1>4. /\ N \in Nat /\ s \in [1 .. N -> Rows] /\ \A k \in Rows : \E i \in 1 .. N : s[i] = k
      /\ \A i, j \in 1 .. N : i < j <=> <<s[i], s[j]>> \in PageOrder
  BY <1>1 DEF InOrder
<1>. HIDE DEF N
<1>5. s \in Seq(Rows) /\ Len(s) = N
  BY <1>4, SeqDef
<1>6. \A i, j \in 1 .. N : i < j <=> Precedes(s[i], s[j])
  <2>1. \A i \in 1 .. N : s[i] \in Placed
    BY <1>4, PlacedOrder DEF Rows
  <2> QED BY <1>4, <2>1 DEF PageOrder
<1>7. /\ w \in Seq(Rows) /\ Len(w) = (IF N < limit + 1 THEN N ELSE limit + 1)
      /\ \A i \in 1 .. Len(w) : w[i] = s[i]
  BY <1>3, <1>5, Taken
<1>. HIDE DEF w
<1>8. /\ t \in Seq(Rows) /\ Len(t) = (IF Len(w) < limit THEN Len(w) ELSE limit)
      /\ \A i \in 1 .. Len(t) : t[i] = w[i]
  BY <1>3, <1>7, Taken
<1>9. Rows \subseteq Keys
  BY DEF Rows, PageTypes
<1>10. t \in Seq(Keys)
  <2>. HIDE DEF t
  <2> QED BY <1>8, <1>9
<1>. HIDE DEF t
<1>11. Len(t) \in 0 .. N /\ Len(t) <= Len(w)
  BY <1>3, <1>4, <1>7, <1>8
<1>12. \A i \in 1 .. Len(t) : t[i] = s[i]
  <2>1. \A i \in 1 .. Len(t) : i \in 1 .. Len(w)
    BY <1>7, <1>11
  <2> QED BY <1>7, <1>8, <2>1
<1>13. Len(w) <= limit => Len(t) = N
  BY <1>3, <1>4, <1>7, <1>8
<1>14. ~(Len(w) <= limit) => Len(t) = limit /\ limit \in 1 .. Len(w)
  BY <1>3, <1>4, <1>7, <1>8
<1>15. ~(Len(w) <= limit) => w[limit] = s[Len(t)]
  BY <1>7, <1>14
<1>16. /\ WindowOf = w /\ Take(limit, WindowOf) = t
  BY <1>2 DEF t
<1>17. PageOf(t, s, N, Len(t))
  BY <1>4, <1>6, <1>10, <1>11, <1>12, <1>13, <1>14, <1>15, <1>16 DEF PageOf
<1> QED BY <1>16, <1>17

-----------------------------------------------------------------------------
(* What was given, and what is after the cursor. *)

GivenInOrder == ~slid =>
  \A i, j \in DOMAIN given : i < j /\ {given[i], given[j]} \subseteq stayed => Precedes(given[i], given[j])

(* Of the rows that stayed in place, those given are those not after the    *)
(* cursor, whose own row is where it was.                                   *)
PassedGiven == reading = "pages" /\ ~slid =>
  /\ windowed => after \subseteq DOMAIN place
  /\ \A k \in stayed : k \in Range(given) <=> k \notin Rows

PagesInv ==
  /\ PageTypes /\ GivenInOrder /\ PassedGiven
  /\ reading = "ended" /\ ~slid => stayed \subseteq Range(given)

LEMMA PagesStart == PagesInit => PagesInv
<1> SUFFICES ASSUME PagesInit PROVE PagesInv
  OBVIOUS
<1>1. PICK held \in SUBSET Keys : place \in [held -> Places]
  BY DEF PagesInit
<1>2. DOMAIN place = held
  BY <1>1
<1>3. PageTypes
  <2>1. windowed \in BOOLEAN /\ limit \in Nat \ {0} /\ stayed = DOMAIN place /\ slid = FALSE
    BY DEF PagesInit
  <2>2. after = {} /\ given \in Seq(Keys)
    BY DEF PagesInit
  <2> QED BY <1>1, <1>2, <2>1, <2>2 DEF PageTypes
<1>4. given = <<>> /\ DOMAIN given = {} /\ Range(given) = {}
  BY DEF PagesInit, Range
<1>5. Rows = DOMAIN place
  BY DEF PagesInit, Rows
<1> QED BY <1>3, <1>4, <1>5 DEF PagesInit, PagesInv, GivenInOrder, PassedGiven

LEMMA PagesRewrite ==
  ASSUME PagesInv, NEW k \in Keys, NEW to, Rewrite(k, to),
         \A l \in DOMAIN place \ {k} : l \in DOMAIN to /\ to[l] = place[l],
         DOMAIN to \in SUBSET Keys, to \in [DOMAIN to -> Places]
  PROVE  PagesInv'
<1>1. /\ reading = "pages" /\ place' = to /\ stayed' = stayed \ {k}
      /\ slid' = (slid \/ (windowed /\ k \in after))
      /\ UNCHANGED <<windowed, limit, after, given, reading>>
  BY DEF Rewrite
<1>2. PageTypes /\ GivenInOrder /\ PassedGiven
  BY DEF PagesInv
<1>3. PageTypes'
  <2>1. stayed' \in SUBSET DOMAIN place'
    BY <1>1, <1>2 DEF PageTypes
  <2>2. slid' \in BOOLEAN
    BY <1>1, <1>2 DEF PageTypes
  <2> QED BY <1>1, <1>2, <2>1, <2>2 DEF PageTypes
<1>4. \A l \in stayed' : l \in stayed /\ l # k /\ l \in DOMAIN place
  BY <1>1, <1>2 DEF PageTypes
<1>5. \A l \in stayed' : l \in DOMAIN place' /\ place'[l] = place[l]
  BY <1>1, <1>4
<1>6. CASE slid'
  BY <1>1, <1>3, <1>6 DEF PagesInv, GivenInOrder, PassedGiven
<1>7. CASE ~slid'
  <2>1. ~slid /\ (windowed => k \notin after)
    BY <1>1, <1>7
  <2>2. \A l, m \in stayed' : Precedes(l, m)' <=> Precedes(l, m)
    BY <1>1, <1>5 DEF Precedes
  <2>3. GivenInOrder'
    <3> SUFFICES ASSUME NEW i \in DOMAIN given, NEW j \in DOMAIN given,
                        i < j, given[i] \in stayed', given[j] \in stayed'
                 PROVE  Precedes(given[i], given[j])'
      BY <1>1 DEF GivenInOrder
    <3>1. Precedes(given[i], given[j])
      BY <1>2, <1>4, <2>1 DEF GivenInOrder
    <3> QED BY <1>1, <1>5, <3>1 DEF Precedes
  <2>4. windowed => after \subseteq DOMAIN place' /\ \A a \in after : place'[a] = place[a]
    BY <1>1, <1>2, <2>1 DEF PassedGiven
  <2>5. \A l \in stayed' : \A a \in after : Precedes(a, l)' <=> Precedes(a, l)
    BY <1>1, <1>5, <2>4 DEF Precedes
  <2>6. \A l \in stayed' : l \in Rows' <=> l \in Rows
    BY <1>1, <1>4, <1>5, <2>5 DEF Rows
  <2>7. PassedGiven'
    BY <1>1, <1>2, <1>4, <2>1, <2>4, <2>6 DEF PassedGiven
  <2> QED BY <1>1, <1>3, <2>3, <2>7 DEF PagesInv
<1> QED BY <1>6, <1>7

LEMMA PagesPaged ==
  ASSUME PagesInv, Paged PROVE PagesInv'
<1>1. PageTypes /\ GivenInOrder /\ PassedGiven
  BY DEF PagesInv
<1>. DEFINE t == Take(limit, WindowOf)
<1>0. PICK s, N, n : PageOf(t, s, N, n)
  BY <1>1, PageRows
<1>. HIDE DEF t
<1>2. /\ N \in Nat /\ s \in [1 .. N -> Rows] /\ \A k \in Rows : \E i \in 1 .. N : s[i] = k
      /\ \A i, j \in 1 .. N : i < j <=> Precedes(s[i], s[j])
      /\ n \in 0 .. N /\ t \in Seq(Keys) /\ Len(t) = n /\ \A i \in 1 .. n : t[i] = s[i]
      /\ Len(WindowOf) <= limit => n = N
      /\ ~(Len(WindowOf) <= limit) => n = limit /\ WindowOf[limit] = s[n]
  BY <1>0 DEF PageOf
<1>3. /\ reading = "pages" /\ (windowed => after \subseteq DOMAIN place)
      /\ given' = given \o t
      /\ UNCHANGED <<windowed, limit, place, stayed, slid>>
      /\ IF Len(WindowOf) <= limit THEN reading' = "ended" /\ UNCHANGED after
         ELSE after' = {WindowOf[limit]} /\ UNCHANGED reading
  BY DEF Paged, Cursor, t
<1>4. /\ given \in Seq(Keys) /\ t \in Seq(Keys) /\ Len(given) \in Nat /\ Len(t) = n /\ n \in Nat
      /\ DOMAIN given = 1 .. Len(given)
  BY <1>1, <1>2 DEF PageTypes
<1>5. /\ given' \in Seq(Keys) /\ DOMAIN given' = 1 .. Len(given) + n
      /\ \A i \in 1 .. Len(given) : given'[i] = given[i]
      /\ \A i \in 1 .. n : given'[Len(given) + i] = s[i]
      /\ Range(given') = Range(given) \cup Range(t)
  <2>1. given' = given \o t
    BY <1>3
  <2>2. \A i \in 1 .. n : (given \o t)[Len(given) + i] = t[i]
    BY <1>4, Appended
  <2>3. /\ given \o t \in Seq(Keys) /\ DOMAIN (given \o t) = 1 .. Len(given) + n
        /\ \A i \in 1 .. Len(given) : (given \o t)[i] = given[i]
        /\ Range(given \o t) = Range(given) \cup Range(t)
    BY <1>4, Appended
  <2> QED BY <1>2, <2>1, <2>2, <2>3
<1>6. Range(given') = Range(given) \cup {s[i] : i \in 1 .. n}
  <2>1. Range(t) = {s[i] : i \in 1 .. n}
    <3>1. DOMAIN t = 1 .. n
      BY <1>4
    <3>2. \A i \in 1 .. n : t[i] = s[i]
      BY <1>2
    <3> QED BY <3>1, <3>2 DEF Range
  <2> QED BY <1>5, <2>1
<1>7. \A i \in 1 .. n : i \in 1 .. N /\ s[i] \in Rows /\ s[i] \in DOMAIN place /\ s[i] \in Keys
  BY <1>1, <1>2 DEF Rows, PageTypes
<1>8. \A k, l : Precedes(k, l)' <=> Precedes(k, l)
  BY <1>3 DEF Precedes
<1>9. after \subseteq Placed /\ Rows \subseteq Placed /\ stayed \subseteq Placed /\ stayed \subseteq DOMAIN place
  BY <1>1, <1>3 DEF PageTypes, Placed, Rows
<1>10. \A k \in stayed \ Rows : \E a \in after : k = a \/ Precedes(k, a)
  <2> SUFFICES ASSUME NEW k \in stayed \ Rows PROVE \E a \in after : k = a \/ Precedes(k, a)
    OBVIOUS
  <2>1. PICK a \in after : ~Precedes(a, k)
    BY <1>9 DEF Rows
  <2> QED BY <1>1, <1>9, <2>1, PlacedOrder
<1>11. \A k \in stayed \ Rows : \A l \in Rows : Precedes(k, l)
  <2> SUFFICES ASSUME NEW k \in stayed \ Rows, NEW l \in Rows PROVE Precedes(k, l)
    OBVIOUS
  <2>1. PICK a \in after : k = a \/ Precedes(k, a)
    BY <1>10
  <2>2. Precedes(a, l)
    BY DEF Rows
  <2> QED BY <1>1, <1>9, <2>1, <2>2, PlacedOrder
<1>12. PageTypes'
  <2>1. after' \in SUBSET Keys /\ \A a, b \in after' : a = b
    <3>1. CASE Len(WindowOf) <= limit
      BY <1>1, <1>3, <3>1 DEF PageTypes
    <3>2. CASE ~(Len(WindowOf) <= limit)
      <4>1. n = limit /\ limit \in Nat \ {0}
        BY <1>1, <1>2, <3>2 DEF PageTypes
      <4>2. n \in 1 .. n
        BY <1>4, <4>1
      <4>3. after' = {s[n]}
        BY <1>2, <1>3, <3>2
      <4> QED BY <1>7, <4>2, <4>3
    <3> QED BY <3>1, <3>2
  <2> QED BY <1>1, <1>3, <1>5, <2>1 DEF PageTypes
<1>13. GivenInOrder'
  <2> SUFFICES ASSUME ~slid, NEW i \in 1 .. Len(given) + n, NEW j \in 1 .. Len(given) + n,
                      i < j, given'[i] \in stayed, given'[j] \in stayed
               PROVE  Precedes(given'[i], given'[j])
    BY <1>3, <1>5, <1>8 DEF GivenInOrder
  <2>1. CASE j <= Len(given)
    <3>1. i \in 1 .. Len(given) /\ j \in 1 .. Len(given)
      BY <1>4, <2>1
    <3> QED BY <1>1, <1>4, <1>5, <3>1 DEF GivenInOrder
  <2>2. CASE i <= Len(given) /\ ~(j <= Len(given))
    <3>1. i \in 1 .. Len(given) /\ j - Len(given) \in 1 .. n /\ j = Len(given) + (j - Len(given))
      BY <1>4, <2>2
    <3>2. given'[j] \in Rows
      BY <1>5, <1>7, <3>1
    <3>3. given'[i] \in Range(given)
      BY <1>4, <1>5, <3>1 DEF Range
    <3>4. given'[i] \notin Rows
      BY <1>1, <1>3, <3>3 DEF PassedGiven
    <3> QED BY <1>11, <3>2, <3>4
  <2>3. CASE ~(i <= Len(given))
    <3>1. /\ i - Len(given) \in 1 .. n /\ i = Len(given) + (i - Len(given))
          /\ j - Len(given) \in 1 .. n /\ j = Len(given) + (j - Len(given))
          /\ i - Len(given) < j - Len(given)
      BY <1>4, <2>3
    <3>2. given'[i] = s[i - Len(given)] /\ given'[j] = s[j - Len(given)]
      BY <1>5, <3>1
    <3> QED BY <1>2, <1>7, <3>1, <3>2
  <2> QED BY <2>1, <2>2, <2>3
<1>14. CASE Len(WindowOf) <= limit
  <2>1. n = N /\ reading' = "ended"
    BY <1>2, <1>3, <1>14
  <2>2. ~slid => stayed \subseteq Range(given')
    <3> SUFFICES ASSUME ~slid, NEW k \in stayed, k \notin Range(given) PROVE k \in {s[i] : i \in 1 .. n}
      BY <1>6
    <3>1. k \in Rows
      BY <1>1, <1>3 DEF PassedGiven
    <3> QED BY <1>2, <2>1, <3>1
  <2> QED BY <1>3, <1>12, <1>13, <2>1, <2>2 DEF PagesInv, PassedGiven
<1>15. CASE ~(Len(WindowOf) <= limit)
  <2>1. n = limit /\ after' = {s[n]} /\ reading' = "pages"
    BY <1>2, <1>3, <1>15
  <2>2. n \in 1 .. n /\ n \in 1 .. N
    BY <1>1, <1>2, <1>4, <2>1 DEF PageTypes
  <2>3. windowed => after' \subseteq DOMAIN place'
    BY <1>3, <1>7, <2>1, <2>2
  <2>4. ASSUME ~slid, NEW k \in stayed PROVE k \in Range(given') <=> ~Precedes(s[n], k)
    <3>1. CASE k \in Range(given)
      <4>1. k \in stayed \ Rows
        BY <1>1, <1>3, <2>4, <3>1 DEF PassedGiven
      <4>2. Precedes(k, s[n])
        BY <1>7, <1>11, <2>2, <4>1
      <4>3. ~Precedes(s[n], k)
        BY <1>1, <1>7, <1>9, <2>2, <4>2, PlacedOrder
      <4> QED BY <1>6, <3>1, <4>3
    <3>2. CASE k \notin Range(given)
      <4>1. k \in Rows
        BY <1>1, <1>3, <2>4, <3>2 DEF PassedGiven
      <4>2. PICK j \in 1 .. N : s[j] = k
        BY <1>2, <4>1
      <4>3. Precedes(s[n], k) <=> n < j
        BY <1>2, <2>2, <4>2
      <4>4. j \in 1 .. n <=> ~(n < j)
        BY <1>4
      <4>5. k \in {s[i] : i \in 1 .. n} <=> j \in 1 .. n
        <5>1. \A i \in 1 .. N : s[i] = s[j] => ~(i < j) /\ ~(j < i)
          <6>1. ~Precedes(s[j], s[j])
            BY <1>2
          <6> QED BY <1>2, <6>1
        <5>2. \A i \in 1 .. N : s[i] = s[j] => i = j
          BY <1>2, <5>1
        <5> QED BY <1>7, <4>2, <5>2
      <4> QED BY <1>6, <3>2, <4>3, <4>4, <4>5
    <3> QED BY <3>1, <3>2
  <2>5. \A k \in stayed : k \in Rows' <=> Precedes(s[n], k)
    BY <1>3, <1>8, <1>9, <2>1 DEF Rows
  <2>6. PassedGiven'
    BY <1>3, <2>3, <2>4, <2>5 DEF PassedGiven
  <2> QED BY <1>12, <1>13, <2>1, <2>6 DEF PagesInv
<1> QED BY <1>14, <1>15

(* PagedWhole: however rows come, go and move between two pages, a read to  *)
(* the end has each row that stayed in its place, once and in order; in a   *)
(* windowed list unless a cursor's own row moved under it.                  *)
THEOREM AlwaysPagedWhole == PagesSpec => []PagedWhole
<1>1. ASSUME PagesInv, [PagesNext]_pageVars PROVE PagesInv'
  <2>1. PageTypes
    BY <1>1 DEF PagesInv
  <2>2. ASSUME NEW k \in Keys, PutRow(k) PROVE PagesInv'
    <3>1. PICK p \in Places : Rewrite(k, [l \in DOMAIN place \cup {k} |-> IF l = k THEN p ELSE place[l]])
      BY <2>2 DEF PutRow
    <3>. DEFINE to == [l \in DOMAIN place \cup {k} |-> IF l = k THEN p ELSE place[l]]
    <3>2. /\ DOMAIN to \in SUBSET Keys /\ to \in [DOMAIN to -> Places]
          /\ \A l \in DOMAIN place \ {k} : l \in DOMAIN to /\ to[l] = place[l]
      BY <2>1 DEF PageTypes
    <3>. HIDE DEF to
    <3>3. Rewrite(k, to)
      BY <3>1 DEF to
    <3> QED BY <1>1, <3>2, <3>3, PagesRewrite
  <2>3. ASSUME NEW k \in Keys, DropRow(k) PROVE PagesInv'
    <3>. DEFINE to == [l \in DOMAIN place \ {k} |-> place[l]]
    <3>1. Rewrite(k, to)
      BY <2>3 DEF DropRow
    <3>2. /\ DOMAIN to \in SUBSET Keys /\ to \in [DOMAIN to -> Places]
          /\ \A l \in DOMAIN place \ {k} : l \in DOMAIN to /\ to[l] = place[l]
      BY <2>1 DEF PageTypes
    <3>. HIDE DEF to
    <3> QED BY <1>1, <3>1, <3>2, PagesRewrite
  <2>4. CASE Paged
    BY <1>1, <2>4, PagesPaged
  <2>5. CASE Refuse
    BY <1>1, <2>5 DEF Refuse, PagesInv, PageTypes, GivenInOrder, PassedGiven, Precedes
  <2>6. CASE UNCHANGED pageVars
    BY <1>1, <2>6 DEF pageVars, PagesInv, PageTypes, GivenInOrder, PassedGiven, Precedes, Rows
  <2> QED BY <1>1, <2>2, <2>3, <2>4, <2>5, <2>6 DEF PagesNext
<1>2. PagesInv => PagedWhole
  BY DEF PagesInv, GivenInOrder, PagedWhole
<1> QED BY <1>1, <1>2, PagesStart, PTL DEF PagesSpec
=============================================================================
