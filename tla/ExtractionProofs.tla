--------------------------- MODULE ExtractionProofs ---------------------------
(* What Transfers and Normalization keep, for every range and every budget  *)
(* of a stream, and for any units, artifacts, bases and combination lists,  *)
(* whatever fails between: Delivered, NormWhole and RecordsReadable.        *)
EXTENDS Normalization, Transfers, FiniteSetTheorems, SequenceTheorems, TLAPS

-----------------------------------------------------------------------------
(* A ranged stream. *)

StreamTypes ==
  /\ {at, failures, attempt, sent} \subseteq Nat
  /\ phase \in {"request", "body", "yield", "backoff", "done", "thrown", "closed"}
  /\ consumer \in {"reads", "failed"}
  /\ chunk \in Seq(Nat) /\ taken \in Seq(Nat)

(* A body delivers from the first byte not passed on, and a chunk ends with  *)
(* the body's or with the range.                                            *)
InPlace ==
  /\ Start <= at /\ at <= End + 1
  /\ phase = "body" => sent = at
  /\ phase = "yield" =>
       /\ at + Len(chunk) <= End + 1
       /\ at + Len(chunk) <= End => sent = at + Len(chunk)

(* What a reading consumer has is what was passed on and the chunk it is at. *)
Taken ==
  /\ consumer = "reads" =>
       Len(taken) = IF phase = "yield" THEN at - Start + Len(chunk) ELSE at - Start
  /\ phase = "done" => at = End + 1 /\ consumer = "reads"

StreamInv == StreamTypes /\ InPlace /\ Taken /\ Delivered

LEMMA ChunkLength ==
  ASSUME NEW n \in Nat, NEW m \in Nat
  PROVE  /\ Min({n, m}) \in Nat /\ Min({n, m}) <= n /\ Min({n, m}) <= m
         /\ Min({n, m}) < m => Min({n, m}) = n
<1>1. \E x \in {n, m} : \A y \in {n, m} : x <= y
  OBVIOUS
<1> QED BY <1>1 DEF Min

LEMMA StreamBegins == StreamInit => StreamInv
<1> SUFFICES ASSUME StreamInit PROVE StreamInv OBVIOUS
<1>1. StreamTypes /\ InPlace /\ Taken
  BY TransfersAssumption DEF StreamInit, StreamTypes, InPlace, Taken, End
<1>2. Len(taken) = 0 /\ taken = [i \in 1 .. Len(taken) |-> Start + i - 1]
  BY DEF StreamInit
<1> QED BY <1>1, <1>2, TransfersAssumption DEF StreamInit, StreamInv, Delivered

(* A chunk is the bytes after those passed on, so a reading consumer's go on *)
(* where they ended.                                                        *)
LEMMA ChunkKeeps ==
  ASSUME StreamInv, NEW n \in 1 .. MaxChunk, Chunk(n)
  PROVE  StreamInv'
<1>. DEFINE m == Min({n, End - at + 1})
<1>0. n \in Nat /\ MaxChunk \in Nat /\ Start \in Nat /\ Length \in Nat /\ at \in Nat /\ sent \in Nat
      /\ End = Start + Length - 1 /\ sent = at /\ at <= End + 1 /\ Start <= at
  BY TransfersAssumption DEF StreamInv, StreamTypes, InPlace, Chunk, End
<1>1. m \in Nat /\ m <= n /\ m <= End - at + 1 /\ (m < End - at + 1 => m = n)
  BY <1>0, ChunkLength
<1>2. chunk' = [i \in 1 .. m |-> sent + i - 1]
  BY DEF Chunk
<1>. HIDE DEF m
<1>3. chunk' \in Seq(Nat) /\ Len(chunk') = m /\ \A i \in 1 .. m : chunk'[i] = at + i - 1
  BY <1>0, <1>1, <1>2, IsASeq
<1>4. /\ phase' = "yield" /\ sent' = sent + n
      /\ taken' = IF consumer = "reads" THEN taken \o chunk' ELSE taken
      /\ UNCHANGED <<at, failures, attempt, consumer>> /\ phase = "body"
  BY DEF Chunk
<1>5. taken \in Seq(Nat) /\ taken' \in Seq(Nat)
      /\ (consumer = "reads" => Len(taken') = Len(taken) + m)
  BY <1>3, <1>4, ConcatProperties DEF StreamInv, StreamTypes
<1>6. StreamTypes' /\ InPlace'
  BY <1>0, <1>1, <1>3, <1>4, <1>5 DEF StreamInv, StreamTypes, InPlace, End
<1>7. consumer = "reads" => Len(taken) = at - Start
  BY <1>4 DEF StreamInv, Taken
<1>8. Taken'
  BY <1>0, <1>3, <1>4, <1>5, <1>7 DEF Taken, End
<1>9. taken = [i \in 1 .. Len(taken) |-> Start + i - 1] /\ Len(taken) \in Nat /\ Len(taken) <= Length
  BY <1>5, LenProperties DEF StreamInv, Delivered
<1>10. taken' = [i \in 1 .. Len(taken') |-> Start + i - 1]
  <2>1. CASE consumer = "reads"
    <3>1. \A i \in 1 .. Len(taken') : taken'[i] = Start + i - 1
      BY <2>1, <1>0, <1>1, <1>3, <1>4, <1>5, <1>7, <1>9, ConcatProperties
    <3>2. taken' \in [1 .. Len(taken') -> Nat]
      BY <1>5, LenProperties
    <3> QED BY <3>1, <3>2
  <2>2. CASE consumer # "reads"
    BY <2>2, <1>4, <1>9
  <2> QED BY <2>1, <2>2
<1>11. Len(taken') <= Length
  BY <1>0, <1>1, <1>4, <1>5, <1>7, <1>9
<1> QED BY <1>4, <1>6, <1>8, <1>10, <1>11 DEF StreamInv, Delivered

LEMMA ResumeKeeps ==
  ASSUME StreamInv, Resume
  PROVE  StreamInv'
<1>0. /\ Start \in Nat /\ Length \in Nat /\ at \in Nat /\ sent \in Nat /\ Len(chunk) \in Nat
      /\ End = Start + Length - 1 /\ Length # 0
  BY TransfersAssumption, LenProperties DEF StreamInv, StreamTypes, End
<1>1. /\ phase = "yield" /\ consumer = "reads" /\ at' = at + Len(chunk) /\ failures' = 0
      /\ phase' = IF at' > End THEN "done" ELSE "body"
      /\ UNCHANGED <<attempt, sent, chunk, consumer, taken>>
  BY DEF Resume
<1>2. at + Len(chunk) <= End + 1 /\ (at + Len(chunk) <= End => sent = at + Len(chunk))
      /\ Start <= at /\ Len(taken) = at - Start + Len(chunk)
  BY <1>1 DEF StreamInv, InPlace, Taken
<1>3. StreamTypes'
  BY <1>0, <1>1 DEF StreamInv, StreamTypes
<1>4. InPlace'
  BY <1>0, <1>1, <1>2 DEF InPlace, End
<1>5. Taken'
  BY <1>0, <1>1, <1>2 DEF Taken, End
<1>6. Delivered'
  <2>1. phase' = "done" => Len(taken) = Length
    BY <1>0, <1>1, <1>2
  <2>2. taken' = [i \in 1 .. Len(taken') |-> Start + i - 1] /\ Len(taken') <= Length
    BY <1>1 DEF StreamInv, Delivered
  <2> QED BY <1>1, <2>1, <2>2 DEF Delivered
<1> QED BY <1>3, <1>4, <1>5, <1>6 DEF StreamInv

LEMMA StreamKept == StreamInv /\ [StreamNext]_streamVars => StreamInv'
<1> SUFFICES ASSUME StreamInv, [StreamNext]_streamVars PROVE StreamInv' OBVIOUS
<1> USE DEF StreamInv, StreamTypes, InPlace, Taken, Delivered, End
<1>1. CASE Answer
  BY <1>1, TransfersAssumption DEF Answer, From
<1>2. CASE Refuse
  BY <1>2, TransfersAssumption DEF Refuse
<1>3. CASE FailRequest
  <2>1. attempt' \in Nat /\ phase' \in {"request", "thrown"} /\ phase = "request"
        /\ UNCHANGED <<at, failures, sent, chunk, consumer, taken>>
    BY <1>3 DEF FailRequest
  <2> QED BY <2>1, TransfersAssumption
<1>4. ASSUME NEW n \in 1 .. MaxChunk, Chunk(n) PROVE StreamInv'
  BY <1>4, ChunkKeeps
<1>5. CASE EmptyChunk \/ UNCHANGED streamVars
  BY <1>5 DEF EmptyChunk, streamVars
<1>6. CASE Resume
  BY <1>6, ResumeKeeps
<1>7. CASE CutShort
  BY <1>7, TransfersAssumption DEF CutShort, Broken
<1>8. CASE Backoff
  BY <1>8, TransfersAssumption DEF Backoff
<1>9. CASE ConsumerThrows
  <2>1. /\ phase' \in {"thrown", "backoff"} /\ consumer' = "failed" /\ failures' \in Nat
        /\ UNCHANGED <<at, attempt, sent, chunk, taken>>
    BY <1>9 DEF ConsumerThrows, Broken
  <2>2. StreamTypes' /\ InPlace' /\ Taken'
    BY <2>1
  <2>3. Delivered'
    BY <2>1
  <2> QED BY <2>2, <2>3
<1>10. CASE ConsumerReturns
  BY <1>10, TransfersAssumption DEF ConsumerReturns
<1> QED
  BY <1>1, <1>2, <1>3, <1>4, <1>5, <1>6, <1>7, <1>8, <1>9, <1>10 DEF StreamNext

(* Whatever requests fail and bodies break, are short or too long, and      *)
(* however the consumer fails, a stream of any range gives its bytes in     *)
(* order, each once, and all of them if it ends by itself (streamRange).    *)
THEOREM StreamDelivers == StreamSpec => []Delivered
<1>1. StreamInv => Delivered
  BY DEF StreamInv
<1> QED BY StreamBegins, StreamKept, <1>1, PTL DEF StreamSpec

-----------------------------------------------------------------------------
(* Normalized artifacts. *)

Names == Artifacts \cup Bases \cup UNION {CombosOf[n] : n \in Artifacts \cup (Bases \ {NoBase})}
Keys == [kind : {"obj", "config", "combos"}, name : Names, schema : Nat]
Work == [puts : Seq(Keys), sent : BOOLEAN]
Workers == Units \cup {Reindexer}

Works == UNION {[D -> Work] : D \in SUBSET Artifacts}
Task == [at : {"idle", "store", "stored"}, code : Nat, all : Seq(Artifacts), todo : Seq(Artifacts),
         doing : Works, written : SUBSET Keys]

NormTypes ==
  /\ schema \in Nat /\ schema # 0
  /\ listing \in [schema : Nat, clear : BOOLEAN] /\ listing.schema <= schema
  /\ rows \subseteq Artifacts \X Nat /\ records \subseteq Units
  /\ task \in [Workers -> Task]

(* What is left to put of an artifact is the end of its puts, and all before *)
(* is held.                                                                 *)
LeftOf(all, left, held) ==
  \E n \in 0 .. Len(all) :
    /\ left = SubSeq(all, n + 1, Len(all))
    /\ \A i \in 1 .. n : all[i] \in held

(* One artifact at a time, its puts in order; what the step has written is  *)
(* held but for what it waits for.                                          *)
InOrder(x, t, held) ==
  /\ \A a, b \in DOMAIN t.doing : a = b
  /\ \A a \in DOMAIN t.doing :
       /\ LeftOf(Puts(x, a, t.code), t.doing[a].puts, held)
       /\ t.doing[a].sent => t.doing[a].puts # <<>>
  /\ \A k \in t.written : k \in held \/ \E a \in DOMAIN t.doing : t.doing[a].sent /\ k = Head(t.doing[a].puts)

(* Every artifact of a step waits, is under way, or has its configuration.  *)
NoneSkipped(t, held) ==
  /\ t.at = "idle" => t.all = <<>> /\ t.todo = <<>> /\ t.doing = NoWork
  /\ t.at = "stored" => t.todo = <<>> /\ t.doing = NoWork
  /\ Range(t.todo) \cup DOMAIN t.doing \subseteq Range(t.all)
  /\ \A a \in Range(t.all) :
       a \in Range(t.todo) \/ a \in DOMAIN t.doing \/ Config(a, t.code) \in held

(* A unit stores what its firmware gives, a reindex what units stored.      *)
OfFirmware ==
  /\ \A u \in Units : task[u].at # "idle" => task[u].all = ArtifactsOf[u]
  /\ \A a \in Range(task[Reindexer].all) : Obj(a) \in bucket
  /\ \A u \in records : task[u].at = "stored"
  /\ \A r \in rows : Config(r[1], r[2]) \in bucket

(* Since a clear listing with no deploy after it, units have stored under   *)
(* its schema, or the reindex has what they lacked.                         *)
ListedWhole ==
  listing.schema = schema =>
    /\ task[Reindexer].code = schema
    /\ listing.clear => \A u \in Units :
         \/ task[u].at = "idle" \/ task[u].code = schema
         \/ u \in records /\ \A a \in Range(ArtifactsOf[u]) :
              HeldNorm(a) \/ a \in Range(task[Reindexer].all)

NormInv ==
  /\ NormTypes /\ (\A x \in Workers : InOrder(x, task[x], bucket) /\ NoneSkipped(task[x], bucket))
  /\ OfFirmware /\ ListedWhole /\ NormWhole

Lists(a, s) == Combos(a, s) \cup IF HasBase(a) THEN Combos(BaseOf[a], s) ELSE {}
Before(q, n) == {q[j] : j \in 1 .. n - 1}

LEMMA SetToSeqOf ==
  ASSUME NEW S, IsFiniteSet(S)
  PROVE  SetToSeq(S) \in Seq(S) /\ Range(SetToSeq(S)) = S
<1>. DEFINE n == Cardinality(S)  f == SetToSeq(S)
<1>1. n \in Nat /\ \E g : g \in Bijection(1 .. n, S)
  BY FS_CardinalityType DEF ExistsBijection
<1>2. f \in [1 .. n -> S] /\ IsInjective(f)
  BY <1>1 DEF SetToSeq, Bijection, Injection
<1>. HIDE DEF f
<1>3. f \in Injection(1 .. n, S)
  BY <1>2 DEF Injection
<1>4. IsFiniteSet(1 .. n) /\ Cardinality(1 .. n) = n
  BY <1>1, FS_Interval
<1>5. f \in Surjection(1 .. n, S)
  BY <1>3, <1>4, FS_Injection
<1>6. f \in Seq(S) /\ Range(f) = S
  BY <1>1, <1>2, <1>5 DEF Surjection, Range
<1> QED BY <1>6 DEF f

LEMMA ListsFinite ==
  ASSUME NEW a \in Artifacts, NEW s \in Nat
  PROVE  IsFiniteSet(Lists(a, s)) /\ Lists(a, s) \subseteq Keys
<1>1. ASSUME NEW n \in Artifacts \cup (Bases \ {NoBase})
      PROVE  IsFiniteSet(Combos(n, s)) /\ Combos(n, s) \subseteq Keys
  <2>1. IsFiniteSet(CombosOf[n])
    BY NormalizationAssumption
  <2>2. IsFiniteSet({Key("combos", c, s) : c \in CombosOf[n]})
    <3>. DEFINE g == [c \in CombosOf[n] |-> Key("combos", c, s)]
    <3>1. g \in Surjection(CombosOf[n], {Key("combos", c, s) : c \in CombosOf[n]})
      BY DEF Surjection
    <3> QED BY <3>1, <2>1, FS_Surjection
  <2>3. \A c \in CombosOf[n] : c \in Names
    BY DEF Names
  <2> QED BY <2>2, <2>3 DEF Combos, Keys, Key
<1>2. HasBase(a) => BaseOf[a] \in Bases \ {NoBase}
  BY DEF HasBase, Bases
<1>3. IsFiniteSet(Combos(a, s)) /\ Combos(a, s) \subseteq Keys
  BY <1>1
<1>4. CASE HasBase(a)
  <2>1. IsFiniteSet(Combos(BaseOf[a], s)) /\ Combos(BaseOf[a], s) \subseteq Keys
    BY <1>1, <1>2, <1>4
  <2>2. IsFiniteSet(Combos(a, s) \cup Combos(BaseOf[a], s))
    BY <1>3, <2>1, FS_Union
  <2> QED BY <1>3, <1>4, <2>1, <2>2 DEF Lists
<1>5. CASE ~HasBase(a)
  BY <1>3, <1>5 DEF Lists
<1> QED BY <1>4, <1>5

(* Two sequences one after the other.                                        *)
LEMMA TwoParts ==
  ASSUME NEW K, NEW A \in Seq(K), NEW B \in Seq(K), NEW q, q = A \o B, NEW a, a = Len(A)
  PROVE  /\ a \in Nat /\ Len(B) \in Nat /\ q \in Seq(K) /\ Len(q) = a + Len(B)
         /\ \A i \in 1 .. a : q[i] = A[i]
         /\ \A i \in 1 .. Len(B) : q[a + i] = B[i]
<1>1. a \in Nat /\ Len(B) \in Nat
  BY LenProperties
<1>2. /\ q \in Seq(K) /\ Len(q) = a + Len(B)
      /\ \A i \in 1 .. a + Len(B) : q[i] = IF i <= a THEN A[i] ELSE B[i - a]
  BY ConcatProperties
<1>3. ASSUME NEW i \in 1 .. a PROVE q[i] = A[i]
  BY <1>1, <1>2
<1>4. ASSUME NEW i \in 1 .. Len(B) PROVE q[a + i] = B[i]
  <2>1. a + i \in 1 .. a + Len(B) /\ ~(a + i <= a) /\ (a + i) - a = i
    BY <1>1
  <2> QED BY <1>2, <2>1
<1> QED BY <1>1, <1>2, <1>3, <1>4

(* A configuration's puts: before a base all lists, before the configuration *)
(* its base too, and first the artifact, but by a reindex.                  *)
LEMMA PutsShape ==
  ASSUME NEW x \in Workers, NEW a \in Artifacts, NEW s \in Nat
  PROVE  /\ Puts(x, a, s) \in Seq(Keys) /\ Len(Puts(x, a, s)) \in Nat \ {0}
         /\ Puts(x, a, s)[Len(Puts(x, a, s))] = Config(a, s)
         /\ \A n \in 1 .. Len(Puts(x, a, s)) :
              \/ Puts(x, a, s)[n] = Obj(a)
              \/ Puts(x, a, s)[n] \in Lists(a, s)
              \/ /\ HasBase(a) /\ Puts(x, a, s)[n] = Config(BaseOf[a], s)
                 /\ Lists(a, s) \subseteq Before(Puts(x, a, s), n)
              \/ /\ Puts(x, a, s)[n] = Config(a, s)
                 /\ Lists(a, s) \subseteq Before(Puts(x, a, s), n)
                 /\ HasBase(a) => Config(BaseOf[a], s) \in Before(Puts(x, a, s), n)
                 /\ x # Reindexer => Obj(a) \in Before(Puts(x, a, s), n)
<1>. DEFINE A == IF x = Reindexer THEN <<>> ELSE <<Obj(a)>>
            B == SetToSeq(Lists(a, s))
            C == IF HasBase(a) THEN <<Config(BaseOf[a], s)>> ELSE <<>>
            D == <<Config(a, s)>>
            q == Puts(x, a, s)
            la == Len(A)  lb == la + Len(B)  lc == lb + Len(C)
<1>1. q = A \o B \o C \o D
  BY DEF Puts, Lists
<1>2. a \in Names /\ BaseOf[a] \in Names
  BY DEF Names, Bases
<1>3. Obj(a) \in Keys /\ Config(a, s) \in Keys /\ Config(BaseOf[a], s) \in Keys
  BY <1>2 DEF Obj, Config, Key, Keys
<1>4. A \in Seq(Keys) /\ (x = Reindexer => la = 0) /\ (x # Reindexer => la = 1 /\ A[1] = Obj(a))
  BY <1>3
<1>5. C \in Seq(Keys) /\ (~HasBase(a) => Len(C) = 0)
      /\ (HasBase(a) => Len(C) = 1 /\ C[1] = Config(BaseOf[a], s))
  BY <1>3
<1>6. B \in Seq(Keys) /\ Range(B) = Lists(a, s)
  <2>1. B \in Seq(Lists(a, s)) /\ Range(B) = Lists(a, s) /\ Lists(a, s) \subseteq Keys
    BY ListsFinite, SetToSeqOf
  <2>. HIDE DEF B
  <2> QED BY <2>1, SeqMonotonic
<1>7. D \in Seq(Keys) /\ Len(D) = 1 /\ D[1] = Config(a, s)
  BY <1>3
<1>. HIDE DEF A, B, C, D, q
<1>8. /\ la \in Nat /\ Len(B) \in Nat /\ Len(C) \in Nat /\ lb = la + Len(B) /\ lc = lb + Len(C)
      /\ DOMAIN B = 1 .. Len(B) /\ la = Len(A) /\ lb \in Nat /\ lc \in Nat
  BY <1>4, <1>5, <1>6, LenProperties
<1>. HIDE DEF la, lb, lc
<1>9. /\ q \in Seq(Keys) /\ Len(q) = lc + 1 /\ q[lc + 1] = Config(a, s)
      /\ x # Reindexer => q[1] = Obj(a)
      /\ HasBase(a) => q[lb + 1] = Config(BaseOf[a], s)
      /\ \A i \in 1 .. Len(B) : q[la + i] = B[i]
  <2>1. /\ q \in Seq(Keys) /\ Len(q) = lc + Len(D)
        /\ \A i \in 1 .. la : q[i] = A[i]
        /\ \A i \in 1 .. Len(B) : q[la + i] = B[i]
        /\ \A i \in 1 .. Len(C) : q[lb + i] = C[i]
        /\ \A i \in 1 .. Len(D) : q[lc + i] = D[i]
    <3>1. PICK ab, abc : ab = A \o B /\ abc = ab \o C /\ q = abc \o D
      BY <1>1
    <3>2. /\ ab \in Seq(Keys) /\ Len(ab) = lb /\ \A i \in 1 .. la : ab[i] = A[i]
          /\ \A i \in 1 .. Len(B) : ab[la + i] = B[i]
      BY <3>1, <1>4, <1>6, <1>8, TwoParts
    <3>3. /\ abc \in Seq(Keys) /\ Len(abc) = lc /\ \A i \in 1 .. lb : abc[i] = ab[i]
          /\ \A i \in 1 .. Len(C) : abc[lb + i] = C[i]
      BY <3>1, <3>2, <1>5, <1>8, TwoParts
    <3>4. /\ q \in Seq(Keys) /\ Len(q) = lc + Len(D) /\ \A i \in 1 .. lc : q[i] = abc[i]
          /\ \A i \in 1 .. Len(D) : q[lc + i] = D[i]
      <4>1. abc \in Seq(Keys) /\ D \in Seq(Keys) /\ q = abc \o D /\ lc = Len(abc)
        BY <3>1, <3>3, <1>7
      <4> QED BY ONLY <4>1, TwoParts
    <3>5. ASSUME NEW i \in 1 .. la PROVE q[i] = A[i]
      <4>1. i \in 1 .. lb /\ i \in 1 .. lc
        BY <1>8
      <4> QED BY <3>2, <3>3, <3>4, <4>1
    <3>6. ASSUME NEW i \in 1 .. Len(B) PROVE q[la + i] = B[i]
      <4>1. la + i \in 1 .. lb /\ la + i \in 1 .. lc
        BY <1>8
      <4> QED BY <3>2, <3>3, <3>4, <4>1
    <3>7. ASSUME NEW i \in 1 .. Len(C) PROVE q[lb + i] = C[i]
      <4>1. lb + i \in 1 .. lc
        BY <1>8
      <4> QED BY <3>3, <3>4, <4>1
    <3> QED BY <3>4, <3>5, <3>6, <3>7
  <2>2. q[lc + 1] = Config(a, s)
    BY <2>1, <1>7
  <2>3. x # Reindexer => q[1] = Obj(a)
    BY <2>1, <1>4
  <2>4. HasBase(a) => q[lb + 1] = Config(BaseOf[a], s)
    BY <2>1, <1>5 DEF HasBase
  <2> QED BY <2>1, <2>2, <2>3, <2>4, <1>7
<1>10. ASSUME NEW n \in Nat, n > lb PROVE Lists(a, s) \subseteq Before(q, n)
  <2>1. ASSUME NEW k \in Lists(a, s) PROVE k \in Before(q, n)
    <3>1. PICK i \in 1 .. Len(B) : k = B[i]
      BY <1>6, <1>8 DEF Range
    <3>2. la + i \in 1 .. n - 1 /\ q[la + i] = k
      BY <3>1, <1>8, <1>9, <1>10
    <3> QED BY <3>2 DEF Before
  <2> QED BY <2>1
<1>11. HasBase(a) => Config(BaseOf[a], s) \in Before(q, lc + 1)
  <2>1. HasBase(a) => lb + 1 \in 1 .. (lc + 1) - 1 /\ q[lb + 1] = Config(BaseOf[a], s)
    BY <1>5, <1>8, <1>9 DEF HasBase
  <2> QED BY <2>1 DEF Before
<1>12. x # Reindexer => Obj(a) \in Before(q, lc + 1)
  <2>1. x # Reindexer => 1 \in 1 .. (lc + 1) - 1 /\ q[1] = Obj(a)
    BY <1>4, <1>8, <1>9
  <2> QED BY <2>1 DEF Before
<1>13. ASSUME NEW n \in 1 .. Len(q)
       PROVE  \/ q[n] = Obj(a)
              \/ q[n] \in Lists(a, s)
              \/ /\ HasBase(a) /\ q[n] = Config(BaseOf[a], s)
                 /\ Lists(a, s) \subseteq Before(q, n)
              \/ /\ q[n] = Config(a, s)
                 /\ Lists(a, s) \subseteq Before(q, n)
                 /\ HasBase(a) => Config(BaseOf[a], s) \in Before(q, n)
                 /\ x # Reindexer => Obj(a) \in Before(q, n)
  <2>1. CASE n \in 1 .. la
    <3>1. x # Reindexer /\ n = 1
      BY <2>1, <1>4
    <3> QED BY <3>1, <1>9
  <2>2. CASE n \in la + 1 .. lb
    <3>1. n - la \in 1 .. Len(B) /\ n = la + (n - la)
      BY <2>2, <1>8
    <3>2. q[n] = B[n - la] /\ n - la \in DOMAIN B
      BY <3>1, <1>8, <1>9
    <3> QED BY <3>2, <1>6 DEF Range
  <2>3. CASE n \in lb + 1 .. lc
    <3>1. HasBase(a) /\ n = lb + 1
      <4>1. Len(C) # 0
        BY <2>3, <1>8
      <4>2. HasBase(a) /\ Len(C) = 1
        BY <4>1, <1>5, Zenon
      <4>3. n = lb + 1
        BY <4>2, <2>3, <1>8
      <4> QED BY <4>2, <4>3
    <3>2. q[n] = Config(BaseOf[a], s) /\ n \in Nat /\ n > lb
      BY <3>1, <1>8, <1>9
    <3> QED BY <3>1, <3>2, <1>10
  <2>4. CASE n = lc + 1
    <3>1. n \in Nat /\ n > lb /\ q[n] = Config(a, s)
      BY <2>4, <1>8, <1>9
    <3> QED BY <2>4, <3>1, <1>10, <1>11, <1>12
  <2>5. n \in 1 .. la \/ n \in la + 1 .. lb \/ n \in lb + 1 .. lc \/ n = lc + 1
    BY <1>8, <1>9
  <2> QED BY <2>1, <2>2, <2>3, <2>4, <2>5
<1>14. q \in Seq(Keys) /\ Len(q) \in Nat \ {0} /\ q[Len(q)] = Config(a, s)
  BY <1>8, <1>9
<1> QED BY <1>13, <1>14 DEF q

-----------------------------------------------------------------------------
(* What is left of a sequence of puts. *)

LEMMA LeftGrows ==
  ASSUME NEW all, NEW left, NEW B, NEW C, B \subseteq C, LeftOf(all, left, B)
  PROVE  LeftOf(all, left, C)
BY DEF LeftOf

LEMMA LeftAll ==
  ASSUME NEW all \in Seq(Keys), NEW B
  PROVE  LeftOf(all, all, B)
<1>1. Len(all) \in Nat /\ SubSeq(all, 1, Len(all)) = all
  BY LenProperties, SubSeqFull
<1> QED BY <1>1 DEF LeftOf

LEMMA LeftNone ==
  ASSUME NEW all \in Seq(Keys), NEW B
  PROVE  LeftOf(all, <<>>, B) <=> \A i \in 1 .. Len(all) : all[i] \in B
<1>0. Len(all) \in Nat
  BY LenProperties
<1>1. ASSUME LeftOf(all, <<>>, B) PROVE \A i \in 1 .. Len(all) : all[i] \in B
  <2>1. PICK n \in 0 .. Len(all) : <<>> = SubSeq(all, n + 1, Len(all)) /\ \A i \in 1 .. n : all[i] \in B
    BY <1>1 DEF LeftOf
  <2>2. CASE n = Len(all)
    BY <2>1, <2>2
  <2>3. CASE n # Len(all)
    <3>1. n + 1 \in 1 .. Len(all) + 1 /\ n + 1 \in 1 .. Len(all)
      BY <1>0, <2>3
    <3>2. Len(SubSeq(all, n + 1, Len(all))) = Len(all) - (n + 1) + 1
      BY <1>0, <3>1, SubSeqProperties
    <3>3. Len(<<>>) = 0
      OBVIOUS
    <3>4. Len(SubSeq(all, n + 1, Len(all))) = 0
      BY <2>1, <3>3, Zenon
    <3> QED BY <1>0, <2>3, <3>2, <3>4
  <2> QED BY <2>2, <2>3
<1>2. ASSUME \A i \in 1 .. Len(all) : all[i] \in B PROVE LeftOf(all, <<>>, B)
  <2>1. SubSeq(all, Len(all) + 1, Len(all)) = <<>>
    BY <1>0, SubSeqEmpty
  <2>2. Len(all) \in 0 .. Len(all)
    BY <1>0
  <2> QED BY <1>2, <2>1, <2>2 DEF LeftOf
<1> QED BY <1>1, <1>2

LEMMA LeftNext ==
  ASSUME NEW all \in Seq(Keys), NEW left, NEW B, LeftOf(all, left, B), left # <<>>
  PROVE  /\ left \in Seq(Keys)
         /\ \E n \in 1 .. Len(all) :
              /\ Head(left) = all[n] /\ Before(all, n) \subseteq B
              /\ LeftOf(all, Tail(left), B \cup {all[n]})
<1>0. Len(all) \in Nat
  BY LenProperties
<1>1. PICK m \in 0 .. Len(all) : left = SubSeq(all, m + 1, Len(all)) /\ \A i \in 1 .. m : all[i] \in B
  BY DEF LeftOf
<1>2. m # Len(all)
  <2>1. SubSeq(all, Len(all) + 1, Len(all)) = <<>>
    BY <1>0, SubSeqEmpty
  <2> QED BY <1>1, <2>1
<1>. DEFINE n == m + 1
<1>3. n \in 1 .. Len(all) /\ n - 1 = m /\ Len(all) \in n .. Len(all)
  BY <1>0, <1>2
<1>4. Head(left) = all[n] /\ Tail(left) = SubSeq(all, n + 1, Len(all))
  BY <1>1, <1>3, HeadTailOfSubSeq
<1>5. Before(all, n) \subseteq B
  BY <1>1, <1>3 DEF Before
<1>6. LeftOf(all, Tail(left), B \cup {all[n]})
  <2>1. \A i \in 1 .. n : all[i] \in B \cup {all[n]}
    BY <1>1
  <2>2. n \in 0 .. Len(all)
    BY <1>3
  <2> QED BY <1>4, <2>1, <2>2 DEF LeftOf
<1>7. left \in Seq(Keys)
  BY <1>0, <1>1, <1>3, SubSeqProperties
<1> QED BY <1>3, <1>4, <1>5, <1>6, <1>7

(* What NormWhole asks of one key.                                          *)
Whole(k, held) ==
  k.kind = "config" =>
    /\ Combos(k.name, k.schema) \subseteq held
    /\ k.name \in Artifacts =>
         Obj(k.name) \in held /\ (HasBase(k.name) => Config(BaseOf[k.name], k.schema) \in held)

LEMMA KeyFacts ==
  /\ \A n, s : Config(n, s).kind = "config" /\ Config(n, s).name = n /\ Config(n, s).schema = s
  /\ \A n : Obj(n).kind = "obj"
  /\ \A n, s : \A k \in Combos(n, s) : k.kind = "combos"
BY DEF Config, Obj, Combos, Key

LEMMA BaseIsNoArtifact == \A a \in Artifacts : BaseOf[a] \notin Artifacts
BY NormalizationAssumption DEF Bases

(* A put that comes in order is of a key whose references are held.          *)
LEMMA PutWhole ==
  ASSUME NEW x \in Workers, NEW a \in Artifacts, NEW s \in Nat, NEW n \in 1 .. Len(Puts(x, a, s)),
         NEW B, Before(Puts(x, a, s), n) \subseteq B, x = Reindexer => Obj(a) \in B
  PROVE  Whole(Puts(x, a, s)[n], B)
<1>. DEFINE k == Puts(x, a, s)[n]
<1>1. \/ k = Obj(a)
      \/ k \in Lists(a, s)
      \/ HasBase(a) /\ k = Config(BaseOf[a], s) /\ Lists(a, s) \subseteq B
      \/ /\ k = Config(a, s) /\ Lists(a, s) \subseteq B
         /\ HasBase(a) => Config(BaseOf[a], s) \in B
         /\ x # Reindexer => Obj(a) \in B
  <2>1. Before(Puts(x, a, s), n) \subseteq B
    OBVIOUS
  <2> QED BY <2>1, PutsShape
<1>. HIDE DEF k
<1>2. Whole(k, B)
  <2>1. CASE k = Obj(a)
    BY <2>1, KeyFacts DEF Whole
  <2>2. CASE k \in Lists(a, s)
    <3>1. k.kind = "combos"
      BY <2>2, KeyFacts DEF Lists
    <3> QED BY <3>1 DEF Whole
  <2>3. CASE HasBase(a) /\ k = Config(BaseOf[a], s) /\ Lists(a, s) \subseteq B
    <3>1. Combos(BaseOf[a], s) \subseteq Lists(a, s)
      BY <2>3 DEF Lists
    <3> QED BY <2>3, <3>1, KeyFacts, BaseIsNoArtifact DEF Whole
  <2>4. CASE /\ k = Config(a, s) /\ Lists(a, s) \subseteq B
             /\ HasBase(a) => Config(BaseOf[a], s) \in B
             /\ x # Reindexer => Obj(a) \in B
    <3>1. Combos(a, s) \subseteq B
      BY <2>4 DEF Lists
    <3> QED BY <2>4, <3>1, KeyFacts DEF Whole
  <2> QED BY <1>1, <2>1, <2>2, <2>3, <2>4
<1> QED BY <1>2 DEF k

(* A held configuration's puts are all held.                                *)
LEMMA HeldPuts ==
  ASSUME NormWhole, NEW x \in Workers, NEW a \in Artifacts, NEW s \in Nat, Config(a, s) \in bucket
  PROVE  /\ Obj(a) \in bucket /\ (HasBase(a) => Config(BaseOf[a], s) \in bucket)
         /\ \A n \in 1 .. Len(Puts(x, a, s)) : Puts(x, a, s)[n] \in bucket
<1>1. /\ Combos(a, s) \subseteq bucket /\ Obj(a) \in bucket
      /\ HasBase(a) => Config(BaseOf[a], s) \in bucket
  BY KeyFacts DEF NormWhole
<1>2. HasBase(a) => Combos(BaseOf[a], s) \subseteq bucket
  BY <1>1, KeyFacts DEF NormWhole
<1>3. Lists(a, s) \subseteq bucket
  BY <1>1, <1>2 DEF Lists
<1>4. ASSUME NEW n \in 1 .. Len(Puts(x, a, s)) PROVE Puts(x, a, s)[n] \in bucket
  <2>1. \/ Puts(x, a, s)[n] = Obj(a) \/ Puts(x, a, s)[n] \in Lists(a, s)
        \/ HasBase(a) /\ Puts(x, a, s)[n] = Config(BaseOf[a], s)
        \/ Puts(x, a, s)[n] = Config(a, s)
    BY PutsShape
  <2> QED BY <1>1, <1>3, <2>1
<1> QED BY <1>1, <1>4

-----------------------------------------------------------------------------
(* The steps that store. *)

LEMMA OrderGrows ==
  ASSUME NEW x, NEW t, NEW B, NEW C, B \subseteq C
  PROVE  /\ InOrder(x, t, B) => InOrder(x, t, C)
         /\ NoneSkipped(t, B) => NoneSkipped(t, C)
<1>1. InOrder(x, t, B) => InOrder(x, t, C)
  BY LeftGrows DEF InOrder
<1>2. NoneSkipped(t, B) => NoneSkipped(t, C)
  BY DEF NoneSkipped
<1> QED BY <1>1, <1>2

LEMMA BucketGrows ==
  ASSUME NormWhole, bucket \subseteq bucket', \A k \in bucket' \ bucket : Whole(k, bucket)
  PROVE  NormWhole'
<1>1. \A k \in bucket' : Whole(k, bucket)
  BY DEF NormWhole, Whole
<1>2. \A k \in bucket' : Whole(k, bucket')
  BY <1>1 DEF Whole
<1> QED BY <1>2 DEF NormWhole, Whole

(* A step of a worker that stores: what it may change, and what it must keep.*)
LEMMA StoreStep ==
  ASSUME NormInv, NEW x \in Workers, NEW t, Step(x, t), UNCHANGED <<schema, rows, records, listing>>,
         task[x].at = "store", t.at \in {"store", "stored"}, t.all = task[x].all,
         t.code = task[x].code \/ t.code = schema,
         t \in Task, InOrder(x, t, bucket'), NoneSkipped(t, bucket'),
         bucket \subseteq bucket', \A k \in bucket' \ bucket : Whole(k, bucket)
  PROVE  NormInv'
<1>0. /\ task \in [Workers -> Task]
      /\ task' = [task EXCEPT ![x] = t] /\ task'[x] = t
      /\ \A y \in Workers : y # x => task'[y] = task[y]
  BY DEF Step, NormInv, NormTypes
<1>1. NormTypes'
  <2>1. task' \in [Workers -> Task]
    BY <1>0 DEF NormInv, NormTypes
  <2> QED BY <2>1 DEF NormInv, NormTypes
<1>2. (\A y \in Workers : InOrder(y, task[y], bucket) /\ NoneSkipped(task[y], bucket))'
  <2>1. ASSUME NEW y \in Workers
        PROVE  InOrder(y, task'[y], bucket') /\ NoneSkipped(task'[y], bucket')
    <3>1. CASE y = x
      BY <3>1, <1>0
    <3>2. CASE y # x
      BY <3>2, <1>0, OrderGrows DEF NormInv
    <3> QED BY <3>1, <3>2
  <2> QED BY <2>1
<1>3. OfFirmware'
  <2>1. \A u \in Units : u \in Workers /\ u # Reindexer
    BY NormalizationAssumption DEF Workers
  <2>2. \A u \in Units : task'[u].at # "idle" => task'[u].all = ArtifactsOf[u]
    BY <1>0, <2>1 DEF NormInv, OfFirmware
  <2>3. \A a \in Range(task'[Reindexer].all) : Obj(a) \in bucket'
    <3>1. task'[Reindexer].all = task[Reindexer].all
      BY <1>0 DEF Workers
    <3> QED BY <3>1 DEF NormInv, OfFirmware
  <2>4. \A u \in records' : task'[u].at = "stored"
    <3>1. \A u \in records : u \in Workers /\ u # x
      BY <2>1 DEF NormInv, OfFirmware, NormTypes
    <3> QED BY <3>1, <1>0 DEF NormInv, OfFirmware
  <2>5. \A r \in rows' : Config(r[1], r[2]) \in bucket'
    BY DEF NormInv, OfFirmware
  <2> QED BY <2>2, <2>3, <2>4, <2>5 DEF OfFirmware
<1>4. ListedWhole'
  <2>1. SUFFICES ASSUME listing.schema = schema
                 PROVE  /\ task'[Reindexer].code = schema
                        /\ listing.clear => \A u \in Units :
                             \/ task'[u].at = "idle" \/ task'[u].code = schema
                             \/ u \in records /\ \A a \in Range(ArtifactsOf[u]) :
                                  HeldNorm(a)' \/ a \in Range(task'[Reindexer].all)
    BY DEF ListedWhole
  <2>2. /\ task[Reindexer].code = schema
        /\ listing.clear => \A u \in Units :
             \/ task[u].at = "idle" \/ task[u].code = schema
             \/ u \in records /\ \A a \in Range(ArtifactsOf[u]) :
                  HeldNorm(a) \/ a \in Range(task[Reindexer].all)
    BY <2>1 DEF NormInv, ListedWhole
  <2>3. task'[Reindexer].code = schema /\ task'[Reindexer].all = task[Reindexer].all
    BY <1>0, <2>2 DEF Workers
  <2>4. \A a : HeldNorm(a) => HeldNorm(a)'
    BY DEF HeldNorm
  <2>5. ASSUME listing.clear, NEW u \in Units
        PROVE  \/ task'[u].at = "idle" \/ task'[u].code = schema
               \/ u \in records /\ \A a \in Range(ArtifactsOf[u]) :
                    HeldNorm(a)' \/ a \in Range(task'[Reindexer].all)
    <3>1. u \in Workers
      BY DEF Workers
    <3>2. CASE u = x
      <4>1. u \notin records
        BY <3>2 DEF NormInv, OfFirmware
      <4>2. task[u].code = schema
        BY <2>2, <2>5, <3>2, <4>1
      <4> QED BY <3>2, <4>2, <1>0
    <3>3. CASE u # x
      <4>1. task'[u] = task[u]
        BY <1>0, <3>1, <3>3
      <4> QED BY <2>2, <2>3, <2>4, <2>5, <4>1
    <3> QED BY <3>2, <3>3
  <2> QED BY <2>3, <2>5
<1>5. NormWhole'
  BY BucketGrows DEF NormInv
<1> QED BY <1>1, <1>2, <1>3, <1>4, <1>5 DEF NormInv

LEMMA WorksAre == \A f : f \in Works <=> f \in [DOMAIN f -> Work] /\ DOMAIN f \subseteq Artifacts
BY DEF Works

(* A step (begun or tried again) with everything still to do.               *)
LEMMA AttemptShape ==
  ASSUME NEW all \in Seq(Artifacts), NEW x, NEW B, schema \in Nat
  PROVE  /\ Attempt(all, "store") \in Task /\ InOrder(x, Attempt(all, "store"), B)
         /\ NoneSkipped(Attempt(all, "store"), B)
         /\ Attempt(all, "store").all = all /\ Attempt(all, "store").code = schema
         /\ Attempt(all, "store").at = "store"
<1>1. DOMAIN NoWork = {} /\ NoWork \in [{} -> Work]
  BY DEF NoWork
<1>2. Attempt(all, "store") \in Task
  BY <1>1, WorksAre DEF Task, Attempt
<1>3. InOrder(x, Attempt(all, "store"), B)
  BY <1>1 DEF InOrder, Attempt
<1>4. NoneSkipped(Attempt(all, "store"), B)
  BY <1>1 DEF NoneSkipped, Attempt
<1> QED BY <1>2, <1>3, <1>4 DEF Attempt

LEMMA TaskFacts ==
  ASSUME NormInv, NEW x \in Workers
  PROVE  /\ task[x] \in Task /\ InOrder(x, task[x], bucket) /\ NoneSkipped(task[x], bucket)
         /\ schema \in Nat
         /\ \A a \in DOMAIN task[x].doing : a \in Artifacts /\ (x = Reindexer => Obj(a) \in bucket)
<1>1. task[x] \in Task /\ InOrder(x, task[x], bucket) /\ NoneSkipped(task[x], bucket) /\ schema \in Nat
  BY DEF NormInv, NormTypes
<1>2. DOMAIN task[x].doing \subseteq Artifacts /\ DOMAIN task[x].doing \subseteq Range(task[x].all)
  BY <1>1, WorksAre DEF Task, NoneSkipped
<1>3. x = Reindexer => \A a \in Range(task[x].all) : Obj(a) \in bucket
  BY DEF NormInv, OfFirmware
<1> QED BY <1>1, <1>2, <1>3

LEMMA HeadPut ==
  ASSUME NormInv, NEW x \in Workers, NEW a \in DOMAIN task[x].doing, task[x].doing[a].puts # <<>>
  PROVE  LET puts == task[x].doing[a].puts IN
         /\ puts \in Seq(Keys) /\ Head(puts) \in Keys /\ Tail(puts) \in Seq(Keys)
         /\ Whole(Head(puts), bucket)
         /\ LeftOf(Puts(x, a, task[x].code), Tail(puts), bucket \cup {Head(puts)})
<1>. DEFINE puts == task[x].doing[a].puts  s == task[x].code  q == Puts(x, a, s)
<1>1. /\ LeftOf(q, puts, bucket) /\ a \in Artifacts /\ s \in Nat
      /\ x = Reindexer => Obj(a) \in bucket
  BY TaskFacts DEF InOrder, Task
<1>2. q \in Seq(Keys)
  BY <1>1, PutsShape
<1>3. puts # <<>>
  OBVIOUS
<1>. HIDE DEF puts, q
<1>4. /\ puts \in Seq(Keys)
      /\ \E n \in 1 .. Len(q) :
           /\ Head(puts) = q[n] /\ Before(q, n) \subseteq bucket
           /\ LeftOf(q, Tail(puts), bucket \cup {q[n]})
  BY <1>1, <1>2, <1>3, LeftNext
<1>5. PICK n \in 1 .. Len(q) :
           /\ Head(puts) = q[n] /\ Before(q, n) \subseteq bucket
           /\ LeftOf(q, Tail(puts), bucket \cup {q[n]})
  BY <1>4
<1>6. Whole(q[n], bucket)
  BY <1>1, <1>5, PutWhole DEF q
<1>7. Head(puts) \in Keys /\ Tail(puts) \in Seq(Keys)
  BY <1>3, <1>4, HeadTailProperties
<1> QED BY <1>4, <1>5, <1>6, <1>7 DEF puts, q

LEMMA HeadAndRest ==
  ASSUME NEW S, NEW s \in Seq(S), s # <<>>
  PROVE  Head(s) \in S /\ Tail(s) \in Seq(S) /\ Range(s) = {Head(s)} \cup Range(Tail(s))
<1>. DEFINE r == Tail(s)
<1>1. /\ Head(s) \in S /\ r \in Seq(S) /\ Len(r) = Len(s) - 1
      /\ \A i \in 1 .. Len(r) : r[i] = s[i + 1]
  BY HeadTailProperties
<1>. HIDE DEF r
<1>2. /\ Head(s) = s[1] /\ Len(s) \in Nat /\ Len(s) # 0 /\ DOMAIN s = 1 .. Len(s)
      /\ DOMAIN r = 1 .. Len(r)
  BY <1>1, LenProperties, EmptySeq
<1>3. ASSUME NEW e \in Range(s) PROVE e = Head(s) \/ e \in Range(r)
  <2>1. PICK i \in 1 .. Len(s) : e = s[i]
    BY <1>2 DEF Range
  <2>2. CASE i = 1
    BY <1>2, <2>1, <2>2
  <2>3. CASE i # 1
    <3>1. i - 1 \in DOMAIN r /\ e = r[i - 1]
      BY <1>1, <1>2, <2>1, <2>3
    <3> QED BY <3>1 DEF Range
  <2> QED BY <2>2, <2>3
<1>4. Head(s) \in Range(s)
  <2>1. 1 \in DOMAIN s
    BY <1>2
  <2> QED BY <1>2, <2>1 DEF Range
<1>5. ASSUME NEW e \in Range(r) PROVE e \in Range(s)
  <2>1. PICK i \in 1 .. Len(r) : e = r[i]
    BY <1>2 DEF Range
  <2>2. i + 1 \in DOMAIN s /\ e = s[i + 1]
    BY <1>1, <1>2, <2>1
  <2> QED BY <2>2 DEF Range
<1>6. Range(s) = {Head(s)} \cup Range(r)
  BY <1>3, <1>4, <1>5
<1> QED BY <1>1, <1>6 DEF r

LEMMA NextArtifactKeeps ==
  ASSUME NormInv, NEW x \in Workers, NextArtifact(x)
  PROVE  NormInv'
<1>. DEFINE t == task[x]
            a == Head(t.todo)
            puts == IF Passes(x, a) THEN <<>> ELSE Puts(x, a, t.code)
            doing == [b \in DOMAIN t.doing \cup {a} |-> IF b = a THEN [puts |-> puts, sent |-> FALSE] ELSE t.doing[b]]
            r == [t EXCEPT !.todo = Tail(t.todo), !.doing = doing]
<1>1. /\ t.at = "store" /\ t.todo # <<>> /\ Cardinality(DOMAIN t.doing) < AtOnce
      /\ UNCHANGED <<schema, bucket, rows, records, listing>>
  BY DEF NextArtifact
<1>2. Step(x, r)
  BY DEF NextArtifact
<1>3. t \in Task /\ InOrder(x, t, bucket) /\ NoneSkipped(t, bucket)
  BY TaskFacts
<1>4. DOMAIN t.doing = {}
  <2>1. \A b, c \in DOMAIN t.doing : b = c
    BY <1>3 DEF InOrder
  <2>2. CASE \E b : b \in DOMAIN t.doing
    <3>1. PICK b : DOMAIN t.doing = {b}
      BY <2>1, <2>2
    <3>2. Cardinality(DOMAIN t.doing) = 1
      BY <3>1, FS_Singleton
    <3> QED BY <3>2, <1>1 DEF AtOnce
  <2> QED BY <2>2
<1>5. /\ t.todo \in Seq(Artifacts) /\ t.code \in Nat /\ t.all \in Seq(Artifacts) /\ t.written \subseteq Keys
  BY <1>3 DEF Task
<1>6. /\ a \in Artifacts /\ Tail(t.todo) \in Seq(Artifacts)
      /\ Range(t.todo) = {a} \cup Range(Tail(t.todo))
  BY <1>1, <1>5, HeadAndRest
<1>7. puts \in Seq(Keys) /\ LeftOf(Puts(x, a, t.code), puts, bucket)
  <2>1. Puts(x, a, t.code) \in Seq(Keys)
    BY <1>5, <1>6, PutsShape
  <2>2. CASE Passes(x, a)
    <3>1. <<a, t.code>> \in rows
      BY <2>2 DEF Passes
    <3>2. Config(a, t.code) \in bucket
      <4>1. \A q \in rows : Config(q[1], q[2]) \in bucket
        BY DEF NormInv, OfFirmware
      <4>2. <<a, t.code>>[1] = a /\ <<a, t.code>>[2] = t.code
        OBVIOUS
      <4> QED BY <3>1, <4>1, <4>2
    <3>3. \A n \in 1 .. Len(Puts(x, a, t.code)) : Puts(x, a, t.code)[n] \in bucket
      BY <1>5, <1>6, <3>2, HeldPuts DEF NormInv
    <3>4. LeftOf(Puts(x, a, t.code), <<>>, bucket)
      BY <2>1, <3>3, LeftNone
    <3> QED BY <2>2, <3>4
  <2>3. CASE ~Passes(x, a)
    BY <2>1, <2>3, LeftAll
  <2> QED BY <2>2, <2>3
<1>. HIDE DEF puts, a
<1>8. DOMAIN doing = {a} /\ doing[a] = [puts |-> puts, sent |-> FALSE] /\ doing \in [{a} -> Work]
  BY <1>4, <1>7 DEF Work
<1>9. /\ r \in Task /\ r.todo = Tail(t.todo) /\ r.doing = doing
      /\ r.at = "store" /\ r.code = t.code /\ r.all = t.all /\ r.written = t.written
  <2>1. t \in Task /\ Tail(t.todo) \in Seq(Artifacts)
    BY <1>3, <1>6
  <2>2. doing \in Works
    BY <1>6, <1>8, WorksAre
  <2>. HIDE DEF doing
  <2> QED BY <1>1, <2>1, <2>2 DEF Task
<1>. HIDE DEF doing, r
<1>10. r \in Task
  BY <1>9
<1>11. InOrder(x, r, bucket)
  <2>1. \A k \in r.written : k \in bucket
    BY <1>3, <1>4, <1>9 DEF InOrder
  <2>2. \A b, c \in DOMAIN r.doing : b = c
    BY <1>8, <1>9
  <2>3. \A b \in DOMAIN r.doing : b = a /\ r.code = t.code /\ r.doing[b].puts = puts /\ ~r.doing[b].sent
    BY <1>8, <1>9
  <2> QED BY <2>1, <2>2, <2>3, <1>7 DEF InOrder
<1>12. NoneSkipped(r, bucket)
  BY <1>3, <1>4, <1>6, <1>8, <1>9 DEF NoneSkipped
<1>13. bucket' = bucket
  BY <1>1
<1>14. r.at = "store" /\ r.all = t.all /\ r.code = t.code
  BY <1>9
<1> QED BY <1>1, <1>2, <1>10, <1>11, <1>12, <1>13, <1>14, StoreStep

(* A put under way moves on: what is left of it, and what was written.      *)
LEMMA PutMoves ==
  ASSUME NormInv, NEW x \in Workers, NEW a \in DOMAIN task[x].doing, NEW w \in Work,
         NEW written \in SUBSET Keys, task[x].at = "store",
         NEW r, r = [task[x] EXCEPT !.doing = [task[x].doing EXCEPT ![a] = w], !.written = written],
         Step(x, r), UNCHANGED <<schema, rows, records, listing>>,
         bucket \subseteq bucket', \A k \in bucket' \ bucket : Whole(k, bucket),
         LeftOf(Puts(x, a, task[x].code), w.puts, bucket'), w.sent => w.puts # <<>>,
         \A k \in written : k \in bucket' \/ (w.sent /\ k = Head(w.puts))
  PROVE  NormInv'
<1>. DEFINE t == task[x]  doing == [t.doing EXCEPT ![a] = w]
<1>1. t \in Task /\ InOrder(x, t, bucket) /\ NoneSkipped(t, bucket)
  BY TaskFacts
<1>2. t.doing \in [DOMAIN t.doing -> Work] /\ DOMAIN t.doing \subseteq Artifacts
  BY <1>1, WorksAre DEF Task
<1>3. DOMAIN doing = DOMAIN t.doing /\ doing[a] = w /\ doing \in [DOMAIN t.doing -> Work]
  BY <1>2
<1>4. doing \in Works
  BY <1>2, <1>3, WorksAre
<1>. HIDE DEF doing
<1>5. /\ r \in Task /\ r.todo = t.todo /\ r.doing = doing
      /\ r.at = "store" /\ r.code = t.code /\ r.all = t.all /\ r.written = written
  <2>1. r = [t EXCEPT !.doing = doing, !.written = written]
    BY DEF doing
  <2> QED BY <1>1, <1>4, <2>1 DEF Task
<1>6. \A b, c \in DOMAIN t.doing : b = c
  BY <1>1 DEF InOrder
<1>7. InOrder(x, r, bucket')
  <2>1. \A b \in DOMAIN r.doing : b = a /\ r.doing[b] = w
    BY <1>3, <1>5, <1>6
  <2>2. a \in DOMAIN r.doing
    BY <1>3, <1>5
  <2> QED BY <1>5, <2>1, <2>2 DEF InOrder
<1>8. NoneSkipped(r, bucket')
  BY <1>1, <1>3, <1>5 DEF NoneSkipped
<1> QED BY <1>5, <1>7, <1>8, StoreStep

LEMMA SendKeeps ==
  ASSUME NormInv, NEW x \in Workers, NEW a \in Artifacts, Send(x, a)
  PROVE  NormInv'
<1>. DEFINE t == task[x]  w == t.doing[a]
<1>1. /\ t.at = "store" /\ a \in DOMAIN t.doing /\ w.puts # <<>> /\ ~w.sent
      /\ UNCHANGED <<schema, bucket, rows, records, listing>>
  BY DEF Send
<1>2. t \in Task /\ InOrder(x, t, bucket) /\ t.written \in SUBSET Keys
  BY TaskFacts DEF Task
<1>3. t.doing \in [DOMAIN t.doing -> Work] /\ w \in Work
  BY <1>1, <1>2, WorksAre DEF Task
<1>4. /\ Head(w.puts) \in Keys /\ Tail(w.puts) \in Seq(Keys) /\ LeftOf(Puts(x, a, t.code), w.puts, bucket)
      /\ LeftOf(Puts(x, a, t.code), Tail(w.puts), bucket \cup {Head(w.puts)})
  BY <1>1, <1>2, HeadPut DEF InOrder
<1>5. \A k \in t.written : k \in bucket
  BY <1>1, <1>2 DEF InOrder
<1>6. CASE Head(w.puts) \in t.written
  <2>. DEFINE v == [w EXCEPT !.puts = Tail(w.puts)]
             r == [t EXCEPT !.doing = [t.doing EXCEPT ![a] = v], !.written = t.written]
  <2>1. v \in Work /\ v.puts = Tail(w.puts) /\ ~v.sent
    BY <1>1, <1>3, <1>4 DEF Work
  <2>2. Step(x, r)
    <3>1. Step(x, [t EXCEPT !.doing[a].puts = Tail(@)])
      BY <1>6 DEF Send
    <3>2. [t EXCEPT !.doing[a].puts = Tail(@)] = r
      BY <1>1, <1>2, <1>3 DEF Task, Work
    <3> QED BY <3>1, <3>2
  <2>3. LeftOf(Puts(x, a, t.code), v.puts, bucket')
    <3>1. bucket \cup {Head(w.puts)} = bucket'
      BY <1>1, <1>5, <1>6
    <3> QED BY <1>4, <2>1, <3>1
  <2>. HIDE DEF v
  <2> QED BY <1>1, <1>2, <1>5, <2>1, <2>2, <2>3, PutMoves
<1>7. CASE Head(w.puts) \notin t.written
  <2>. DEFINE v == [w EXCEPT !.sent = TRUE]
             r == [t EXCEPT !.doing = [t.doing EXCEPT ![a] = v], !.written = t.written \cup {Head(w.puts)}]
  <2>1. v \in Work /\ v.puts = w.puts /\ v.sent
    BY <1>3 DEF Work
  <2>2. Step(x, r)
    <3>1. Step(x, [t EXCEPT !.doing[a].sent = TRUE, !.written = @ \cup {Head(w.puts)}])
      BY <1>7 DEF Send
    <3>2. [t EXCEPT !.doing[a].sent = TRUE, !.written = @ \cup {Head(w.puts)}] = r
      BY <1>1, <1>2, <1>3 DEF Task, Work
    <3> QED BY <3>1, <3>2
  <2>3. LeftOf(Puts(x, a, t.code), v.puts, bucket') /\ v.puts # <<>>
    BY <1>1, <1>4, <2>1
  <2>4. t.written \cup {Head(w.puts)} \in SUBSET Keys
    BY <1>2, <1>4
  <2>5. \A k \in t.written \cup {Head(w.puts)} : k \in bucket' \/ (v.sent /\ k = Head(v.puts))
    BY <1>1, <1>5, <2>1
  <2>. HIDE DEF v
  <2> QED BY <1>1, <2>1, <2>2, <2>3, <2>4, <2>5, PutMoves
<1> QED BY <1>6, <1>7

LEMMA LandKeeps ==
  ASSUME NormInv, NEW x \in Workers, NEW a \in Artifacts, Land(x, a)
  PROVE  NormInv'
<1>. DEFINE t == task[x]  w == t.doing[a]
            v == [puts |-> Tail(w.puts), sent |-> FALSE]
            r == [t EXCEPT !.doing = [t.doing EXCEPT ![a] = v], !.written = t.written]
<1>1. /\ t.at = "store" /\ a \in DOMAIN t.doing /\ w.sent
      /\ bucket' = bucket \cup {Head(w.puts)}
      /\ UNCHANGED <<schema, rows, records, listing>>
  BY DEF Land
<1>2. t \in Task /\ InOrder(x, t, bucket) /\ t.written \in SUBSET Keys
  BY TaskFacts DEF Task
<1>3. t.doing \in [DOMAIN t.doing -> Work] /\ w.puts # <<>>
  BY <1>1, <1>2, WorksAre DEF Task, InOrder
<1>4. /\ Tail(w.puts) \in Seq(Keys) /\ Whole(Head(w.puts), bucket)
      /\ LeftOf(Puts(x, a, t.code), Tail(w.puts), bucket')
  BY <1>1, <1>3, HeadPut
<1>5. \A k \in t.written : k \in bucket'
  <2>1. \A b \in DOMAIN t.doing : b = a
    BY <1>1, <1>2 DEF InOrder
  <2> QED BY <1>1, <1>2, <2>1 DEF InOrder
<1>6. v \in Work /\ v.puts = Tail(w.puts) /\ ~v.sent
  BY <1>4 DEF Work
<1>7. Step(x, r)
  <2>1. Step(x, [t EXCEPT !.doing[a] = [puts |-> Tail(@.puts), sent |-> FALSE]])
    BY DEF Land
  <2>2. [t EXCEPT !.doing[a] = [puts |-> Tail(@.puts), sent |-> FALSE]] = r
    BY <1>1, <1>2, <1>3 DEF Task, Work
  <2> QED BY <2>1, <2>2
<1>8. \A k \in bucket' \ bucket : Whole(k, bucket)
  BY <1>1, <1>4
<1>. HIDE DEF v
<1> QED BY <1>1, <1>2, <1>4, <1>5, <1>6, <1>7, <1>8, PutMoves

(* An artifact with nothing left to put has its configuration.              *)
LEMMA StoredKeeps ==
  ASSUME NormInv, NEW x \in Workers, NEW a \in Artifacts, Stored(x, a)
  PROVE  NormInv'
<1>. DEFINE t == task[x]
            doing == [b \in DOMAIN t.doing \ {a} |-> t.doing[b]]
            r == [t EXCEPT !.doing = doing]
<1>1. /\ t.at = "store" /\ a \in DOMAIN t.doing /\ t.doing[a].puts = <<>>
      /\ Step(x, r) /\ UNCHANGED <<schema, bucket, rows, records, listing>>
  BY DEF Stored
<1>2. t \in Task /\ InOrder(x, t, bucket) /\ NoneSkipped(t, bucket)
  BY TaskFacts
<1>3. t.doing \in [DOMAIN t.doing -> Work] /\ DOMAIN t.doing \subseteq Artifacts
  BY <1>2, WorksAre DEF Task
<1>4. DOMAIN t.doing = {a} /\ DOMAIN doing = {}
  BY <1>1, <1>2 DEF InOrder
<1>5. doing \in Works
  BY <1>3, <1>4, WorksAre
<1>. HIDE DEF doing
<1>6. /\ r \in Task /\ r.doing = doing
      /\ r.at = "store" /\ r.code = t.code /\ r.all = t.all /\ r.todo = t.todo /\ r.written = t.written
  BY <1>1, <1>2, <1>5 DEF Task
<1>7. InOrder(x, r, bucket)
  <2>1. \A k \in t.written : k \in bucket
    BY <1>1, <1>2, <1>4 DEF InOrder
  <2> QED BY <1>4, <1>6, <2>1 DEF InOrder
<1>8. Config(a, t.code) \in bucket
  <2>1. LeftOf(Puts(x, a, t.code), <<>>, bucket)
    BY <1>1, <1>2 DEF InOrder
  <2>2. /\ Puts(x, a, t.code) \in Seq(Keys) /\ Len(Puts(x, a, t.code)) \in 1 .. Len(Puts(x, a, t.code))
        /\ Puts(x, a, t.code)[Len(Puts(x, a, t.code))] = Config(a, t.code)
    <3>1. t.code \in Nat
      BY <1>2 DEF Task
    <3>2. /\ Puts(x, a, t.code) \in Seq(Keys) /\ Len(Puts(x, a, t.code)) \in Nat \ {0}
          /\ Puts(x, a, t.code)[Len(Puts(x, a, t.code))] = Config(a, t.code)
      BY <3>1, PutsShape
    <3> QED BY <3>2
  <2> QED BY <2>1, <2>2, LeftNone
<1>9. NoneSkipped(r, bucket)
  <2>1. \A b \in Range(t.all) : b \in Range(t.todo) \/ Config(b, t.code) \in bucket
    BY <1>2, <1>4, <1>8 DEF NoneSkipped
  <2>2. Range(t.todo) \subseteq Range(t.all)
    BY <1>2 DEF NoneSkipped
  <2> QED BY <1>4, <1>6, <2>1, <2>2 DEF NoneSkipped
<1>10. bucket' = bucket
  BY <1>1
<1> QED BY <1>1, <1>6, <1>7, <1>9, <1>10, StoreStep

(* What was sent may land, and the step begins again.                       *)
LEMMA FailStepKeeps ==
  ASSUME NormInv, NEW x \in Workers, FailStep(x)
  PROVE  NormInv'
<1>. DEFINE t == task[x]
            puts == {Head(t.doing[a].puts) : a \in {b \in DOMAIN t.doing : t.doing[b].sent}}
            r == Attempt(t.all, "store")
<1>1. t.at = "store" /\ Step(x, r) /\ UNCHANGED <<schema, rows, records, listing>>
  BY DEF FailStep
<1>2. PICK S \in SUBSET puts : bucket' = bucket \cup S
  BY DEF FailStep
<1>3. t \in Task /\ InOrder(x, t, bucket) /\ schema \in Nat /\ t.all \in Seq(Artifacts)
  BY TaskFacts DEF Task
<1>4. ASSUME NEW k \in puts PROVE Whole(k, bucket)
  <2>1. PICK a \in DOMAIN t.doing : t.doing[a].sent /\ k = Head(t.doing[a].puts)
    BY <1>4
  <2>2. t.doing[a].puts # <<>>
    BY <1>3, <2>1 DEF InOrder
  <2> QED BY <2>1, <2>2, HeadPut
<1>5. \A k \in bucket' \ bucket : Whole(k, bucket)
  BY <1>2, <1>4
<1>6. /\ r \in Task /\ InOrder(x, r, bucket') /\ NoneSkipped(r, bucket')
      /\ r.all = t.all /\ r.code = schema /\ r.at = "store"
  BY <1>3, AttemptShape
<1>7. bucket \subseteq bucket'
  BY <1>2
<1>. HIDE DEF r
<1> QED BY <1>1, <1>5, <1>6, <1>7, StoreStep

LEMMA EndStepKeeps ==
  ASSUME NormInv, NEW x \in Workers, EndStep(x)
  PROVE  NormInv'
<1>. DEFINE t == task[x]  r == [t EXCEPT !.at = "stored"]
<1>1. /\ t.at = "store" /\ t.todo = <<>> /\ t.doing = NoWork
      /\ Step(x, r) /\ UNCHANGED <<schema, bucket, rows, records, listing>>
  BY DEF EndStep
<1>2. t \in Task /\ InOrder(x, t, bucket) /\ NoneSkipped(t, bucket)
  BY TaskFacts
<1>3. /\ r \in Task /\ r.at = "stored" /\ r.doing = t.doing
      /\ r.code = t.code /\ r.all = t.all /\ r.todo = t.todo /\ r.written = t.written
  BY <1>2 DEF Task
<1>. HIDE DEF r
<1>4. InOrder(x, r, bucket)
  BY <1>2, <1>3 DEF InOrder
<1>5. NoneSkipped(r, bucket)
  BY <1>1, <1>2, <1>3 DEF NoneSkipped
<1>6. bucket' = bucket
  BY <1>1
<1> QED BY <1>1, <1>3, <1>4, <1>5, <1>6, StoreStep

LEMMA StoringKeeps ==
  ASSUME NormInv, NEW x \in Workers, Storing(x)
  PROVE  NormInv'
BY NextArtifactKeeps, FailStepKeeps, EndStepKeeps, SendKeeps, LandKeeps, StoredKeeps DEF Storing

-----------------------------------------------------------------------------
(* Units, the index, deploys and listings. *)

LEMMA BeginUnitKeeps ==
  ASSUME NormInv, NEW u \in Units, BeginUnit(u)
  PROVE  NormInv'
<1>. DEFINE r == Attempt(ArtifactsOf[u], "store")
<1>1. /\ task[u].at = "idle" /\ task' = [task EXCEPT ![u] = r]
      /\ UNCHANGED <<schema, bucket, rows, records, listing>>
  BY DEF BeginUnit, Step
<1>2. /\ task \in [Workers -> Task] /\ schema \in Nat
      /\ u \in Workers /\ u # Reindexer /\ Reindexer \in Workers /\ Units \subseteq Workers
  BY NormalizationAssumption DEF NormInv, NormTypes, Workers
<1>3. ArtifactsOf[u] \in Seq(Artifacts)
  BY NormalizationAssumption
<1>4. /\ r \in Task /\ InOrder(u, r, bucket) /\ NoneSkipped(r, bucket)
      /\ r.all = ArtifactsOf[u] /\ r.code = schema /\ r.at = "store"
  BY <1>2, <1>3, AttemptShape
<1>. HIDE DEF r
<1>5. task' \in [Workers -> Task] /\ task'[u] = r /\ \A y \in Workers : y # u => task'[y] = task[y]
  BY <1>1, <1>2, <1>4
<1>6. NormTypes'
  BY <1>1, <1>5 DEF NormInv, NormTypes
<1>7. (\A y \in Workers : InOrder(y, task[y], bucket) /\ NoneSkipped(task[y], bucket))'
  <2>1. ASSUME NEW y \in Workers
        PROVE  InOrder(y, task'[y], bucket') /\ NoneSkipped(task'[y], bucket')
    <3>1. bucket' = bucket
      BY <1>1
    <3>2. CASE y = u
      BY <3>1, <3>2, <1>4, <1>5
    <3>3. CASE y # u
      BY <3>1, <3>3, <1>5 DEF NormInv
    <3> QED BY <3>2, <3>3
  <2> QED BY <2>1
<1>8. u \notin records
  BY <1>1 DEF NormInv, OfFirmware
<1>9. OfFirmware'
  BY <1>1, <1>2, <1>4, <1>5, <1>8 DEF NormInv, OfFirmware, NormTypes
<1>10. ListedWhole'
  BY <1>1, <1>2, <1>4, <1>5 DEF NormInv, ListedWhole, HeldNorm
<1>11. NormWhole'
  BY <1>1 DEF NormInv, NormWhole
<1> QED BY <1>6, <1>7, <1>9, <1>10, <1>11 DEF NormInv

LEMMA RecordKeeps ==
  ASSUME NormInv, NEW u \in Units, WriteRecord(u)
  PROVE  NormInv'
BY DEF NormInv, WriteRecord, NormTypes, OfFirmware, ListedWhole, HeldNorm, NormWhole

LEMMA BumpKeeps ==
  ASSUME NormInv, Bump
  PROVE  NormInv'
<1>1. /\ schema' = schema + 1 /\ schema \in Nat /\ listing.schema \in Nat /\ listing.schema <= schema
      /\ UNCHANGED <<bucket, rows, records, task, listing>>
  BY DEF Bump, NormInv, NormTypes
<1>2. NormTypes' /\ ListedWhole'
  BY <1>1 DEF NormInv, NormTypes, ListedWhole
<1>3. OfFirmware' /\ NormWhole'
  BY <1>1 DEF NormInv, OfFirmware, NormWhole
<1>4. (\A y \in Workers : InOrder(y, task[y], bucket) /\ NoneSkipped(task[y], bucket))'
  BY <1>1 DEF NormInv
<1> QED BY <1>2, <1>3, <1>4 DEF NormInv

(* What a stored unit's firmware gave is held, under the schema of its code. *)
LEMMA StoredHeld ==
  ASSUME NormInv, NEW u \in Units, task[u].at = "stored", NEW a \in Range(ArtifactsOf[u])
  PROVE  a \in Artifacts /\ Config(a, task[u].code) \in bucket /\ Obj(a) \in bucket
<1>1. u \in Workers
  BY DEF Workers
<1>2. task[u] \in Task /\ NoneSkipped(task[u], bucket) /\ task[u].all = ArtifactsOf[u]
  BY <1>1, TaskFacts DEF NormInv, OfFirmware
<1>3. task[u].todo = <<>> /\ DOMAIN task[u].doing = {}
  BY <1>2 DEF NoneSkipped, NoWork
<1>4. Range(task[u].todo) = {}
  BY <1>3 DEF Range
<1>5. Config(a, task[u].code) \in bucket
  BY <1>2, <1>3, <1>4 DEF NoneSkipped
<1>6. a \in Artifacts
  <2>1. ArtifactsOf[u] \in Seq(Artifacts)
    BY NormalizationAssumption
  <2> QED BY <2>1, LenProperties DEF Range
<1>7. Obj(a) \in bucket
  BY <1>1, <1>2, <1>5, <1>6, HeldPuts DEF NormInv, Task
<1> QED BY <1>5, <1>6, <1>7

LEMMA IndexKeeps ==
  ASSUME NormInv, NEW u \in Units, IndexRecord(u)
  PROVE  NormInv'
<1>1. /\ u \in records /\ \A a \in Range(ArtifactsOf[u]) : <<a, schema>> \in rows \/ Readable(a)
      /\ rows' = rows \cup {<<a, schema>> : a \in Range(ArtifactsOf[u])}
      /\ UNCHANGED <<schema, bucket, records, task, listing>>
  BY DEF IndexRecord
<1>2. \A r \in rows : Config(r[1], r[2]) \in bucket
  BY DEF NormInv, OfFirmware
<1>3. ASSUME NEW a \in Range(ArtifactsOf[u]) PROVE a \in Artifacts /\ Config(a, schema) \in bucket
  <2>1. a \in Artifacts
    BY <1>1, <1>3, StoredHeld DEF NormInv, OfFirmware
  <2>2. CASE <<a, schema>> \in rows
    <3>1. <<a, schema>>[1] = a /\ <<a, schema>>[2] = schema
      OBVIOUS
    <3> QED BY <1>2, <2>1, <2>2, <3>1
  <2>3. CASE Readable(a)
    BY <2>1, <2>3 DEF Readable
  <2> QED BY <1>1, <1>3, <2>2, <2>3
<1>4. schema \in Nat /\ rows \subseteq Artifacts \X Nat
  BY DEF NormInv, NormTypes
<1>5. NormTypes'
  <2>1. rows' \subseteq Artifacts \X Nat
    BY <1>1, <1>3, <1>4
  <2> QED BY <1>1, <2>1 DEF NormInv, NormTypes
<1>6. OfFirmware'
  <2>1. \A r \in rows' : Config(r[1], r[2]) \in bucket'
    BY <1>1, <1>2, <1>3
  <2> QED BY <1>1, <2>1 DEF NormInv, OfFirmware
<1>7. ListedWhole' /\ NormWhole'
  BY <1>1 DEF NormInv, ListedWhole, HeldNorm, NormWhole
<1>8. (\A y \in Workers : InOrder(y, task[y], bucket) /\ NoneSkipped(task[y], bucket))'
  BY <1>1 DEF NormInv
<1> QED BY <1>5, <1>6, <1>7, <1>8 DEF NormInv

LEMMA ListedFinite ==
  ASSUME NormInv
  PROVE  IsFiniteSet(UNION {Range(ArtifactsOf[u]) : u \in records})
<1>1. ASSUME NEW u \in Units PROVE IsFiniteSet(Range(ArtifactsOf[u]))
  <2>. DEFINE f == ArtifactsOf[u]
  <2>1. Len(f) \in Nat /\ f \in [1 .. Len(f) -> Artifacts] /\ DOMAIN f = 1 .. Len(f)
    BY NormalizationAssumption, LenProperties
  <2>2. IsFiniteSet(1 .. Len(f))
    BY <2>1, FS_Interval
  <2>. HIDE DEF f
  <2>3. f \in Surjection(1 .. Len(f), Range(f))
    BY <2>1 DEF Surjection, Range
  <2>4. IsFiniteSet(Range(f))
    BY <2>2, <2>3, FS_Surjection
  <2> QED BY <2>4 DEF f
<1>2. IsFiniteSet(records) /\ records \subseteq Units
  BY NormalizationAssumption, FS_Subset DEF NormInv, NormTypes
<1>. DEFINE T == {Range(ArtifactsOf[u]) : u \in records}
            g == [u \in records |-> Range(ArtifactsOf[u])]
<1>3. g \in Surjection(records, T)
  BY DEF Surjection
<1>. HIDE DEF g
<1>4. IsFiniteSet(T)
  BY <1>2, <1>3, FS_Surjection
<1>5. \A R \in T : IsFiniteSet(R)
  BY <1>1, <1>2
<1>. HIDE DEF T
<1>6. IsFiniteSet(UNION T)
  BY <1>4, <1>5, FS_UNION
<1> QED BY <1>6 DEF T

(* What a reindex is to store is of held records; what it is not is held.   *)
LEMMA ListKeeps ==
  ASSUME NormInv, ListArtifacts
  PROVE  NormInv'
<1>. DEFINE held == UNION {Range(ArtifactsOf[u]) : u \in records}
            lacking == {a \in held : ~HeldNorm(a)}
            r == Attempt(SetToSeq(lacking), "store")
<1>1. /\ task[Reindexer].at # "store" /\ task' = [task EXCEPT ![Reindexer] = r]
      /\ listing' = [schema |-> schema,
                     clear |-> \A u \in Units \ records : task[u].at = "idle" \/ task[u].code = schema]
      /\ UNCHANGED <<schema, bucket, rows, records>>
  BY DEF ListArtifacts, Step
<1>2. /\ task \in [Workers -> Task] /\ schema \in Nat /\ records \subseteq Units
      /\ Reindexer \notin Units /\ Reindexer \in Workers /\ Units \subseteq Workers
      /\ \A u \in records : task[u].at = "stored"
  BY NormalizationAssumption DEF NormInv, NormTypes, OfFirmware, Workers
<1>3. \A a \in held : a \in Artifacts /\ Obj(a) \in bucket
  <2>1. ASSUME NEW u \in records, NEW a \in Range(ArtifactsOf[u])
        PROVE  a \in Artifacts /\ Obj(a) \in bucket
    BY <1>2, StoredHeld
  <2> QED BY <2>1
<1>4. IsFiniteSet(lacking)
  <2>1. lacking \in SUBSET held /\ IsFiniteSet(held)
    BY ListedFinite
  <2>. HIDE DEF lacking, held
  <2> QED BY <2>1, FS_Subset
<1>5. SetToSeq(lacking) \in Seq(lacking) /\ Range(SetToSeq(lacking)) = lacking
  BY <1>4, SetToSeqOf
<1>6. lacking \subseteq Artifacts
  BY <1>3
<1>7. SetToSeq(lacking) \in Seq(Artifacts)
  <2>. HIDE DEF lacking
  <2> QED BY <1>5, <1>6, SeqMonotonic
<1>8. /\ r \in Task /\ InOrder(Reindexer, r, bucket) /\ NoneSkipped(r, bucket)
      /\ r.code = schema /\ r.at = "store" /\ Range(r.all) = lacking
  <2>. HIDE DEF lacking
  <2> QED BY <1>2, <1>5, <1>7, AttemptShape
<1>. HIDE DEF r
<1>9. /\ task' \in [Workers -> Task] /\ task'[Reindexer] = r
      /\ \A y \in Workers : y # Reindexer => task'[y] = task[y]
  BY <1>1, <1>2, <1>8
<1>10. NormTypes'
  <2>1. listing' \in [schema : Nat, clear : BOOLEAN] /\ listing'.schema = schema
    BY <1>1, <1>2
  <2> QED BY <1>1, <1>2, <1>9, <2>1 DEF NormInv, NormTypes
<1>11. (\A y \in Workers : InOrder(y, task[y], bucket) /\ NoneSkipped(task[y], bucket))'
  <2>1. ASSUME NEW y \in Workers
        PROVE  InOrder(y, task'[y], bucket') /\ NoneSkipped(task'[y], bucket')
    <3>1. bucket' = bucket
      BY <1>1
    <3>2. CASE y = Reindexer
      BY <3>1, <3>2, <1>8, <1>9
    <3>3. CASE y # Reindexer
      BY <3>1, <3>3, <1>9 DEF NormInv
    <3> QED BY <3>2, <3>3
  <2> QED BY <2>1
<1>12. OfFirmware'
  <2>1. \A u \in Units : task'[u] = task[u]
    BY <1>2, <1>9
  <2>2. \A a \in Range(task'[Reindexer].all) : Obj(a) \in bucket'
    BY <1>1, <1>3, <1>8, <1>9
  <2> QED BY <1>1, <1>2, <2>1, <2>2 DEF NormInv, OfFirmware
<1>13. ListedWhole'
  <2>1. task'[Reindexer].code = schema' /\ Range(task'[Reindexer].all) = lacking
    BY <1>1, <1>8, <1>9
  <2>2. ASSUME listing'.clear, NEW u \in Units
        PROVE  \/ task'[u].at = "idle" \/ task'[u].code = schema'
               \/ u \in records' /\ \A a \in Range(ArtifactsOf[u]) :
                    HeldNorm(a)' \/ a \in Range(task'[Reindexer].all)
    <3>1. task'[u] = task[u] /\ schema' = schema /\ records' = records
      BY <1>1, <1>2, <1>9
    <3>2. CASE u \notin records
      BY <2>2, <3>1, <3>2, <1>1
    <3>3. CASE u \in records
      <4>1. \A a \in Range(ArtifactsOf[u]) : HeldNorm(a) \/ a \in lacking
        BY <3>3
      <4>2. \A a : HeldNorm(a) => HeldNorm(a)'
        BY <1>1 DEF HeldNorm
      <4> QED BY <3>1, <3>3, <4>1, <4>2, <2>1
    <3> QED BY <3>2, <3>3
  <2> QED BY <2>1, <2>2 DEF ListedWhole
<1>14. NormWhole'
  BY <1>1 DEF NormInv, NormWhole
<1> QED BY <1>10, <1>11, <1>12, <1>13, <1>14 DEF NormInv

LEMMA NormBegins == NormInit => NormInv
<1> SUFFICES ASSUME NormInit PROVE NormInv OBVIOUS
<1>0. DOMAIN NoWork = {} /\ NoWork \in Works
  <2>1. DOMAIN NoWork = {} /\ NoWork \in [{} -> Work]
    BY DEF NoWork
  <2> QED BY <2>1, WorksAre
<1>1. Idle \in Task
  BY <1>0 DEF Idle, Task
<1>2. /\ schema = 1 /\ bucket = {} /\ rows = {} /\ records = {} /\ listing = NoListing
      /\ task = [x \in Workers |-> Idle]
  BY DEF NormInit, Workers
<1>3. NormTypes
  BY <1>1, <1>2 DEF NormTypes, NoListing
<1>4. \A x \in Workers : InOrder(x, task[x], bucket) /\ NoneSkipped(task[x], bucket)
  <2>1. \A x : InOrder(x, Idle, {}) /\ NoneSkipped(Idle, {})
    BY <1>0 DEF InOrder, NoneSkipped, Idle, Range
  <2> QED BY <1>2, <2>1
<1>5. OfFirmware
  <2>1. Range(Idle.all) = {} /\ Idle.at = "idle"
    BY DEF Range, Idle
  <2> QED BY <1>2, <2>1 DEF OfFirmware, Workers
<1>6. ListedWhole
  BY <1>2 DEF ListedWhole, NoListing
<1>7. NormWhole
  BY <1>2 DEF NormWhole
<1> QED BY <1>3, <1>4, <1>5, <1>6, <1>7 DEF NormInv

LEMMA NormKept == NormInv /\ [NormNext]_normVars => NormInv'
<1> SUFFICES ASSUME NormInv, [NormNext]_normVars PROVE NormInv' OBVIOUS
<1>1. ASSUME NEW u \in Units, BeginUnit(u) \/ WriteRecord(u) \/ IndexRecord(u) PROVE NormInv'
  BY <1>1, BeginUnitKeeps, RecordKeeps, IndexKeeps
<1>2. ASSUME NEW x \in Workers, Storing(x) PROVE NormInv'
  BY <1>2, StoringKeeps
<1>3. CASE Bump
  BY <1>3, BumpKeeps
<1>4. CASE ListArtifacts
  BY <1>4, ListKeeps
<1>5. CASE UNCHANGED normVars
  <2>1. UNCHANGED <<schema, bucket, rows, records, task, listing, faults>>
    BY <1>5 DEF normVars
  <2>2. NormTypes' /\ OfFirmware'
    BY <2>1 DEF NormInv, NormTypes, OfFirmware
  <2>3. ListedWhole' /\ NormWhole'
    BY <2>1 DEF NormInv, ListedWhole, HeldNorm, NormWhole
  <2>4. (\A y \in Workers : InOrder(y, task[y], bucket) /\ NoneSkipped(task[y], bucket))'
    BY <2>1 DEF NormInv
  <2> QED BY <2>2, <2>3, <2>4 DEF NormInv
<1> QED BY <1>1, <1>2, <1>3, <1>4, <1>5 DEF NormNext, Workers

(* A record that its unit's code, or a reindex since, has stored under the  *)
(* deployed schema can be indexed.                                          *)
LEMMA StoredReadable == NormInv => RecordsReadable
<1> SUFFICES ASSUME NormInv, NEW u \in records, task[u].code = schema \/ Reindexed,
                    NEW a \in Range(ArtifactsOf[u])
             PROVE  Readable(a)
  BY DEF RecordsReadable
<1>1. /\ u \in Units /\ task[u].at = "stored" /\ schema \in Nat
      /\ Reindexer \in Workers
  BY DEF NormInv, NormTypes, OfFirmware, Workers
<1>2. a \in Artifacts /\ Config(a, task[u].code) \in bucket
  BY <1>1, StoredHeld
<1>3. Config(a, schema) \in bucket
  <2>1. CASE task[u].code = schema
    BY <1>2, <2>1
  <2>2. CASE Reindexed /\ task[u].code # schema
    <3>1. /\ task[Reindexer].at = "stored" /\ task[Reindexer].code = schema
          /\ HeldNorm(a) \/ a \in Range(task[Reindexer].all)
      BY <1>1, <2>2 DEF NormInv, ListedWhole, Reindexed
    <3>2. /\ Range(task[Reindexer].todo) = {} /\ DOMAIN task[Reindexer].doing = {}
          /\ NoneSkipped(task[Reindexer], bucket)
      <4>1. NoneSkipped(task[Reindexer], bucket)
        BY <1>1, TaskFacts
      <4>2. task[Reindexer].todo = <<>> /\ DOMAIN task[Reindexer].doing = {}
        BY <3>1, <4>1 DEF NoneSkipped, NoWork
      <4> QED BY <4>1, <4>2 DEF Range
    <3> QED BY <3>1, <3>2 DEF NoneSkipped, HeldNorm
  <2> QED BY <2>1, <2>2
<1>4. HasBase(a) => Config(BaseOf[a], schema) \in bucket
  BY <1>1, <1>2, <1>3, HeldPuts DEF NormInv
<1> QED BY <1>3, <1>4 DEF Readable

(* Whatever puts fail and steps are tried again, and whichever deploys and   *)
(* reindexes come between, a held configuration means its artifact, its     *)
(* base and every combination list either names are held (modemConfigOf).   *)
THEOREM HeldIsWhole == NormSpec => []NormWhole
<1>1. NormInv => NormWhole
  BY DEF NormInv
<1> QED BY NormBegins, NormKept, <1>1, PTL DEF NormSpec

(* A held record's configurations can be read by the deployed code if its   *)
(* unit stored them by that code, or a reindex whose listing no unit ran     *)
(* across has ended since the deploy (reindexArtifacts).                    *)
THEOREM RecordsAlwaysReadable == NormSpec => []RecordsReadable
BY NormBegins, NormKept, StoredReadable, PTL DEF NormSpec
=============================================================================
