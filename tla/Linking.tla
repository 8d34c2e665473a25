------------------------------ MODULE Linking ------------------------------
(* Linking: which sources are one carrier, and which id the carrier keeps.  *)
(*                                                                          *)
(* Sources on different platforms that share SIM rules are joined, strongest*)
(* bridge first, but for what people's rules keep apart (linkSources); each *)
(* carrier then takes an id, one it had where it can (assignIds).  Names,   *)
(* countries and displays are left out: they decide no membership.          *)
EXTENDS Integers, Sequences, FiniteSets, FiniteSetsExt, SequencesExt, Sorting

CONSTANTS Sources,      \* every source that may be indexed: [platform, kind, name]
          KeyOrder,     \* Sources by their keys
          Rules,        \* SIM rules (matcher keys)
          TestRules,    \* those on a test PLMN
          Heads,        \* source -> the rule sets its head and routes may give it
          UnnamedRule,  \* Pixel carriers named only by the rule that selects them
          Links, Splits,\* people's rules: pairs of sources
          PlatformFirst \* ids <<platform, name>> whose text sorts before the name's

ASSUME LinkingAssumption ==
  /\ KeyOrder \in Seq(Sources) /\ Range(KeyOrder) = Sources /\ Len(KeyOrder) = Cardinality(Sources)
  /\ TestRules \subseteq Rules /\ IsFiniteSet(Rules) /\ Heads \in [Sources -> SUBSET SUBSET Rules]
  /\ UnnamedRule \subseteq Sources
  /\ \A l \in Links : \E s, t \in Sources : s # t /\ l = {s, t}
  /\ Splits \subseteq Sources \X Sources
  /\ PlatformFirst \subseteq {<<s.platform, s.name>> : s \in Sources}
  /\ \A s \in Sources : s.platform \in {"ios", "ipados", "watchos", "android", "samsung"}
  /\ \A s, t \in {x \in Sources : x.kind # "country"} : s.platform = t.platform /\ s.name = t.name => s = t

PLATFORMS == <<"ios", "ipados", "watchos", "android", "samsung">>
APPLE_PLATFORMS == {"ios", "ipados", "watchos"}
NoId == <<>>
Absent == {"absent"}

VARIABLES head,     \* source -> the SIM rules it is known by, or Absent
          carrier,  \* source -> its carrier's id, or NoId
          linked    \* "linked", "stale" once a head changed, "threw" with no id free

linkVars == <<head, carrier, linked>>

KeyRank == [s \in Sources |-> CHOOSE i \in DOMAIN KeyOrder : KeyOrder[i] = s]
PlatformRank == [s \in Sources |-> CHOOSE i \in DOMAIN PLATFORMS : PLATFORMS[i] = s.platform]

-----------------------------------------------------------------------------
(* simEdges: the pairs SIM rules say are one carrier. *)

Known == {s \in Sources : head[s] # Absent}
Sims(s) == head[s] \ TestRules
Carriers == {s \in Known : s.kind = "carrier"}

(* sharedKeys: how many rules each two sources share; one platform never    *)
(* links to itself.                                                         *)
SharedKeys ==
  [p \in Carriers \X Carriers |->
     IF p[1].platform = p[2].platform THEN 0 ELSE Cardinality(Sims(p[1]) \cap Sims(p[2]))]

(* On each other platform, the sources sharing the most rules with this one.*)
Best(shared) ==
  [a \in Carriers |-> {b \in Carriers :
     /\ shared[<<a, b>>] > 0
     /\ \A c \in Carriers : c.platform = b.platform => shared[<<a, c>>] <= shared[<<a, b>>]}]

ClaimedOn(a, platform) ==
  Cardinality({k \in Sims(a) : \E c \in Carriers \ UnnamedRule : c.platform = platform /\ k \in Sims(c)})

(* Whether m takes t for its own: the one best match, mutual or for half of *)
(* m's rules, and half of what either shares with the other's platform.     *)
Chooses(m, t, shared, best) ==
  LET twice == 2 * shared[<<m, t>>]
      onlyBest(x, y) == {c \in best[x] : c.platform = y.platform} = {y}
  IN /\ onlyBest(m, t)
     /\ onlyBest(t, m) \/ twice >= Cardinality(Sims(m))
     /\ twice >= ClaimedOn(t, m.platform) /\ twice >= ClaimedOn(m, t.platform)

(* Manual links are stronger than any number of shared rules.               *)
SimEdges ==
  LET shared == SharedKeys
      best == Best(shared)
  IN {[between |-> {p[1], p[2]}, strength |-> shared[p]] :
        p \in {q \in Carriers \X Carriers : Chooses(q[1], q[2], shared, best)}}
Manual == {[between |-> e, strength |-> Cardinality(Rules) + 1] : e \in {l \in Links : l \subseteq Known}}
Edges == SimEdges \cup Manual

FirstKey(e) == Min({KeyRank[s] : s \in e.between})
LastKey(e) == Max({KeyRank[s] : s \in e.between})

\* Mutant: the weakest first.
StrongerWeakest(e, f) ==
  \/ e.strength < f.strength
  \/ /\ e.strength = f.strength
     /\ FirstKey(e) < FirstKey(f) \/ (FirstKey(e) = FirstKey(f) /\ LastKey(e) < LastKey(f))

(* The strongest first, then by the keys they join.                         *)
Stronger(e, f) ==
  \/ e.strength > f.strength
  \/ /\ e.strength = f.strength
     /\ FirstKey(e) < FirstKey(f) \/ (FirstKey(e) = FirstKey(f) /\ LastKey(e) < LastKey(f))

-----------------------------------------------------------------------------
(* Groups: union-find that never bridges a pair kept apart. *)

(* A split naming an Apple bundle covers its iPhone, iPad and Watch files.  *)
Namesakes(s) ==
  IF s.platform \in APPLE_PLATFORMS
  THEN {t \in Sources : t.platform \in APPLE_PLATFORMS /\ t.kind = s.kind /\ t.name = s.name}
  ELSE {s}
Apart == UNION {Namesakes(p[1]) \X Namesakes(p[2]) : p \in Splits}

In(groups, s) == CHOOSE g \in groups : s \in g

\* Mutant: only the two sources joined are looked up among the splits.
BridgesEnds(g, h, e) == e.between \in {{p[1], p[2]} : p \in Apart}

Bridges(g, h, e) == \E p \in Apart : (p[1] \in g /\ p[2] \in h) \/ (p[1] \in h /\ p[2] \in g)

JoinEnds(groups, e) ==
  LET a == CHOOSE s \in e.between : TRUE
      b == CHOOSE s \in e.between : s # a
      g == In(groups, a)
      h == In(groups, b)
  IN IF g = h \/ Bridges(g, h, e) THEN groups ELSE (groups \ {g, h}) \cup {g \cup h}

Singles == {{s} : s \in Known}

Joined(edges) ==
  LET joined[i \in 0 .. Len(edges)] ==
        IF i = 0 THEN Singles ELSE LET groups == joined[i - 1] IN JoinEnds(groups, edges[i])
  IN joined[Len(edges)]

(* linkSources: country bundles are no carriers.                            *)
Groups == {{s \in g : s.kind # "country"} : g \in Joined(Sorted(Edges, Stronger))} \ {{}}

-----------------------------------------------------------------------------
(* assignIds. *)

NamesOf(s) == {<<s.name>>, <<s.platform, s.name>>}
Own(g) == UNION {NamesOf(s) : s \in g}

(* byPrimacy: the member a carrier is named after comes first.              *)
Before(x, y) ==
  \/ PlatformRank[x] < PlatformRank[y]
  \/ /\ PlatformRank[x] = PlatformRank[y]
     /\ \/ Cardinality(Sims(x)) > Cardinality(Sims(y))
        \/ Cardinality(Sims(x)) = Cardinality(Sims(y)) /\ KeyRank[x] < KeyRank[y]
Primary(g) == CHOOSE x \in g : \A y \in g \ {x} : Before(x, y)

(* The primary first, the others by key.                                    *)
MemberRank(g, s) == IF s = Primary(g) THEN 0 ELSE KeyRank[s]
IdRank(g, id) == Min({MemberRank(g, s) : s \in {t \in g : id \in NamesOf(t)}})

Votes(g, id) == Cardinality({s \in g : carrier[s] = id})

(* localeCompare, of one source's two ids: which is first depends on both.  *)
TextBefore(x, y) ==
  IF Len(x) < Len(y) THEN y \notin PlatformFirst ELSE Len(y) < Len(x) /\ x \in PlatformFirst

(* Most votes, then nearest the primary, then in the order of their text.   *)
Preferred(g, x, y) ==
  \/ Votes(g, x) > Votes(g, y)
  \/ /\ Votes(g, x) = Votes(g, y)
     /\ IdRank(g, x) < IdRank(g, y) \/ (IdRank(g, x) = IdRank(g, y) /\ TextBefore(x, y))

(* The ids the carrier's members had that still name one of them.           *)
Kept(g) == Sorted({id \in Own(g) : Votes(g, id) > 0}, LAMBDA x, y : Preferred(g, x, y))

HeadNames(g) == <<<<Primary(g).name>>, <<Primary(g).platform, Primary(g).name>>>>

\* Mutant: in the order of their keys alone.
ChoosesFirstByKey(g, h) == Min({KeyRank[s] : s \in g}) < Min({KeyRank[s] : s \in h})

(* Larger carriers choose first, those of one size in the order of keys.    *)
ChoosesFirst(g, h) ==
  \/ Cardinality(g) > Cardinality(h)
  \/ Cardinality(g) = Cardinality(h) /\ Min({KeyRank[s] : s \in g}) < Min({KeyRank[s] : s \in h})

\* Mutant: an id kept is given though an earlier carrier took it.
FreeIdOrKept(g, taken) ==
  LET names == Kept(g) \o HeadNames(g)
      i == IF Kept(g) # <<>> THEN 1 ELSE SelectInSeq(names, LAMBDA id : id \notin taken)
  IN IF i = 0 THEN NoId ELSE names[i]

(* The first no earlier carrier took; NoId where there is none.             *)
FreeId(g, taken) ==
  LET names == Kept(g) \o HeadNames(g)
      i == SelectInSeq(names, LAMBDA id : id \notin taken)
  IN IF i = 0 THEN NoId ELSE names[i]

Chosen(order) ==
  LET chosen[i \in 0 .. Len(order)] ==
        IF i = 0 THEN <<>>
        ELSE LET ids == chosen[i - 1] IN Append(ids, FreeId(order[i], Range(ids)))
  IN chosen[Len(order)]

(* Each carrier's id; NoId where the code throws: no free id.               *)
AssignedIds ==
  LET order == Sorted(Groups, ChoosesFirst)
      ids == Chosen(order)
  IN [g \in Range(order) |-> ids[CHOOSE i \in DOMAIN order : order[i] = g]]

-----------------------------------------------------------------------------
LinkInit == head = [s \in Sources |-> Absent] /\ carrier = [s \in Sources |-> NoId] /\ linked = "stale"

(* A source is new, or its head or routes give it other rules.              *)
Identify(s) ==
  /\ \E rules \in Heads[s] \ {head[s]} : head' = [head EXCEPT ![s] = rules]
  /\ linked' = "stale" /\ UNCHANGED carrier

(* link: linkCarriers, then writeLinked.                                    *)
Link ==
  /\ linked # "threw"
  /\ \E ids \in {AssignedIds} :
       LET of(s) == IF \E g \in DOMAIN ids : s \in g THEN ids[In(DOMAIN ids, s)] ELSE NoId
           threw == NoId \in {ids[g] : g \in DOMAIN ids}
       IN /\ linked' = IF threw THEN "threw" ELSE "linked"
          /\ carrier' = IF threw THEN carrier ELSE [s \in Sources |-> of(s)]
  /\ UNCHANGED head

LinkNext == Link \/ \E s \in Sources : Identify(s)

LinkSpec == LinkInit /\ [][LinkNext]_linkVars

-----------------------------------------------------------------------------
(* Properties of carriers just linked. *)

Linked == linked = "linked"
Together(s, t) == carrier[s] # NoId /\ carrier[s] = carrier[t]

(* No chain of shared rules and links puts two sources people keep apart,   *)
(* nor their iPad and Watch namesakes, into one carrier, whatever bridges   *)
(* them (Groups.join, namesakes).                                           *)
SplitsHold == Linked => \A p \in Apart : p[1] # p[2] => ~Together(p[1], p[2])

(* The sources on a path of edges from s: whatever holds s and is crossed   *)
(* by none of them holds these.                                             *)
Reach(s, edges) ==
  {t \in Known : \A S \in SUBSET Known :
     s \in S /\ (\A e \in edges : e.between \subseteq S \/ S \cap e.between = {}) => t \in S}

(* "A split drops the weakest bridge": two sources an edge joins are parted *)
(* only where that edge would complete a path between a pair kept apart of  *)
(* which no other edge is weaker (strength, linkSources).  Country bundles, *)
(* which are no carrier's, are taken to be linked by nobody.                *)
WeakestDropped == Linked /\ (\A l \in Links : \A s \in l : s.kind # "country") =>
  LET edges == Edges IN
  \A e \in edges : \A a, b \in e.between : a # b /\ ~Together(a, b) =>
    LET held == {f \in edges : f.strength >= e.strength /\ \A s, t \in f.between : Together(s, t)}
    IN \E p \in Apart : \/ p[1] \in Reach(a, held) /\ p[2] \in Reach(b, held)
                        \/ p[1] \in Reach(b, held) /\ p[2] \in Reach(a, held)

(* Carriers are the groups: an id is one carrier's alone and one of its     *)
(* sources' names, and however ids pass between merging and splitting       *)
(* carriers, one is always free (assignIds).                                *)
IdsNamed ==
  /\ linked # "threw"
  /\ Linked => LET groups == Groups IN \A g \in groups : \A s \in g :
        carrier[s] \in Own(g) /\ {t \in Known : Together(s, t)} = g

(* A carrier whose sources all had one id, as the larger part of a split,   *)
(* keeps it while it is one of its names, unless a carrier that chooses     *)
(* before it has a source so named (assignIds).                             *)
IdKept ==
  [][linked' = "linked" => \A groups \in {Groups} : \A g \in groups : \A id \in Own(g) :
        /\ \A s \in g : carrier[s] = id
        /\ \A h \in groups \ {g} : Cardinality(h) >= Cardinality(g) => id \notin Own(h)
        => \A s \in g : carrier'[s] = id]_linkVars
=============================================================================
