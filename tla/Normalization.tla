--------------------------- MODULE Normalization ---------------------------
(* What units and a reindex write of a modem's configurations: an artifact  *)
(* under its sha256, then what is normalized from its bytes, under the      *)
(* schema of the code that reads them, each key once and in an order that   *)
(* makes a held configuration mean everything it refers to is held.         *)
EXTENDS Naturals, Sequences, FiniteSets, SequencesExt

CONSTANTS Units,
          Reindexer,    \* the reindex started by hand after a schema bump
          ArtifactsOf,  \* unit -> the artifacts its firmware gives, in order
          BaseOf,       \* artifact -> the base its configuration is built on, or NoBase
          CombosOf,     \* artifact or base -> the band-combination lists it names
          NoBase,
          MaxSchema, MaxFailures

Artifacts == DOMAIN BaseOf
Bases == {BaseOf[a] : a \in Artifacts}

(* A base is named by its content, which is no artifact's (modem/index.ts).  *)
ASSUME NormalizationAssumption ==
  /\ Reindexer \notin Units /\ MaxSchema \in Nat
  /\ IsFiniteSet(Units) /\ ArtifactsOf \in [Units -> Seq(Artifacts)]
  /\ Bases \cap Artifacts = {}
  /\ \A n \in Artifacts \cup (Bases \ {NoBase}) : IsFiniteSet(CombosOf[n])

VARIABLES
  schema,   \* the deployed code's MODEM_SCHEMA
  bucket,   \* the obj/ and norm/ keys held
  rows,     \* <<artifact, schema>>: those the index has rows for
  records,  \* the units whose record is held
  task,     \* unit or reindexer -> its step
  listing,  \* what the last reindex's listing met
  faults

normVars == <<schema, bucket, rows, records, task, listing, faults>>

Key(kind, name, s) == [kind |-> kind, name |-> name, schema |-> s]
Obj(a) == Key("obj", a, 0)
Config(a, s) == Key("config", a, s)
Combos(name, s) == {Key("combos", c, s) : c \in CombosOf[name]}
HasBase(a) == BaseOf[a] # NoBase

NoListing == [schema |-> 0, clear |-> FALSE]
NoWork == [a \in {} |-> <<>>]
Idle == [at |-> "idle", code |-> 0, all |-> <<>>, todo |-> <<>>, doing |-> NoWork, written |-> {}]

NormInit ==
  /\ schema = 1 /\ bucket = {} /\ rows = {} /\ records = {}
  /\ task = [x \in Units \cup {Reindexer} |-> Idle]
  /\ listing = NoListing /\ faults = 0

-----------------------------------------------------------------------------
(* One step of a unit or a reindex: NormWriter, storeNormalized, normalize. *)

\* Mutant: modem configurations at once, as a settings file's are.
AtOnceAll == 6
(* NORMALIZE's atOnce of an android.modem-config.                           *)
AtOnce == 1

(* storeNormalized and modemConfigOf: the artifact, every combination list  *)
(* it or its base names, the base, and last the configuration.              *)
Puts(x, a, s) ==
  LET stored == IF x = Reindexer THEN <<>> ELSE <<Obj(a)>>
      base == IF HasBase(a) THEN <<Config(BaseOf[a], s)>> ELSE <<>>
      lists == Combos(a, s) \cup IF HasBase(a) THEN Combos(BaseOf[a], s) ELSE {}
  IN stored \o SetToSeq(lists) \o base \o <<Config(a, s)>>

Attempt(all, at) ==
  [at |-> at, code |-> schema, all |-> all, todo |-> all, doing |-> NoWork, written |-> {}]
Step(x, t) == task' = [task EXCEPT ![x] = t]

BeginUnit(u) ==
  /\ task[u].at = "idle"
  /\ Step(u, Attempt(ArtifactsOf[u], "store"))
  /\ UNCHANGED <<schema, bucket, rows, records, listing, faults>>

(* storeModemConfigs passes over an artifact the index has rows for.        *)
Passes(x, a) == x # Reindexer /\ <<a, task[x].code>> \in rows
NextArtifact(x) ==
  /\ task[x].at = "store" /\ task[x].todo # <<>>
  /\ Cardinality(DOMAIN task[x].doing) < AtOnce
  /\ LET t == task[x]
         a == Head(t.todo)
         puts == IF Passes(x, a) THEN <<>> ELSE Puts(x, a, t.code)
     IN Step(x, [t EXCEPT !.todo = Tail(@),
                   !.doing = [b \in DOMAIN @ \cup {a} |-> IF b = a THEN [puts |-> puts, sent |-> FALSE] ELSE @[b]]])
  /\ UNCHANGED <<schema, bucket, rows, records, listing, faults>>

(* once: a key this step has begun to write is not waited for again.        *)
Send(x, a) ==
  /\ task[x].at = "store" /\ a \in DOMAIN task[x].doing
  /\ LET t == task[x]  w == t.doing[a] IN
       /\ w.puts # <<>> /\ ~w.sent
       /\ Step(x, IF Head(w.puts) \in t.written
                    THEN [t EXCEPT !.doing[a].puts = Tail(@)]
                    ELSE [t EXCEPT !.doing[a].sent = TRUE, !.written = @ \cup {Head(w.puts)}])
  /\ UNCHANGED <<schema, bucket, rows, records, listing, faults>>

Land(x, a) ==
  /\ task[x].at = "store" /\ a \in DOMAIN task[x].doing
  /\ task[x].doing[a].sent
  /\ bucket' = bucket \cup {Head(task[x].doing[a].puts)}
  /\ Step(x, [task[x] EXCEPT !.doing[a] = [puts |-> Tail(@.puts), sent |-> FALSE]])
  /\ UNCHANGED <<schema, rows, records, listing, faults>>

Stored(x, a) ==
  /\ task[x].at = "store" /\ a \in DOMAIN task[x].doing
  /\ task[x].doing[a].puts = <<>>
  /\ Step(x, [task[x] EXCEPT !.doing = [b \in DOMAIN @ \ {a} |-> @[b]]])
  /\ UNCHANGED <<schema, bucket, rows, records, listing, faults>>

(* A put fails, or the instance is replaced: what was sent may land yet, and*)
(* the step is tried again from its start, by the code deployed then.       *)
FailStep(x) ==
  /\ task[x].at = "store" /\ faults < MaxFailures
  /\ faults' = faults + 1
  /\ LET sent == {Head(task[x].doing[a].puts) : a \in {b \in DOMAIN task[x].doing : task[x].doing[b].sent}}
     IN \E S \in SUBSET sent : bucket' = bucket \cup S
  /\ Step(x, Attempt(task[x].all, "store"))
  /\ UNCHANGED <<schema, rows, records, listing>>

EndStep(x) ==
  /\ task[x].at = "store" /\ task[x].todo = <<>> /\ task[x].doing = NoWork
  /\ Step(x, [task[x] EXCEPT !.at = "stored"])
  /\ UNCHANGED <<schema, bucket, rows, records, listing, faults>>

-----------------------------------------------------------------------------
(* Records, the index, and a reindex. *)

WriteRecord(u) ==
  /\ u \notin records /\ task[u].at = "stored"
  /\ records' = records \cup {u}
  /\ UNCHANGED <<schema, bucket, rows, task, listing, faults>>

(* putNew: each configuration without rows read, and the base under it, and *)
(* its rows put; one that is missing throws.                                *)
Readable(a) ==
  Config(a, schema) \in bucket /\ (HasBase(a) => Config(BaseOf[a], schema) \in bucket)
IndexRecord(u) ==
  /\ u \in records
  /\ \A a \in Range(ArtifactsOf[u]) : <<a, schema>> \in rows \/ Readable(a)
  /\ rows' = rows \cup {<<a, schema>> : a \in Range(ArtifactsOf[u])}
  /\ UNCHANGED <<schema, bucket, records, task, listing, faults>>

(* A deploy of code that normalizes otherwise.                              *)
Bump ==
  /\ schema < MaxSchema
  /\ schema' = schema + 1
  /\ UNCHANGED <<bucket, rows, records, task, listing, faults>>

(* reindexArtifacts: every held record's artifacts without their norm/      *)
(* object.                                                                  *)
\* Mutant: held under any schema.
HeldNormAny(a) == \E s \in 1 .. schema : Config(a, s) \in bucket
HeldNorm(a) == Config(a, schema) \in bucket
ListArtifacts ==
  /\ task[Reindexer].at # "store"
  /\ LET held == UNION {Range(ArtifactsOf[u]) : u \in records}
     IN Step(Reindexer, Attempt(SetToSeq({a \in held : ~HeldNorm(a)}), "store"))
  /\ listing' = [schema |-> schema,
                 clear |-> \A u \in Units \ records : task[u].at = "idle" \/ task[u].code = schema]
  /\ UNCHANGED <<schema, bucket, rows, records, faults>>

Storing(x) ==
  NextArtifact(x) \/ FailStep(x) \/ EndStep(x) \/ \E a \in Artifacts : Send(x, a) \/ Land(x, a) \/ Stored(x, a)
NormNext ==
  \/ \E u \in Units : BeginUnit(u) \/ WriteRecord(u) \/ IndexRecord(u)
  \/ \E x \in Units \cup {Reindexer} : Storing(x)
  \/ Bump \/ ListArtifacts

NormSpec == NormInit /\ [][NormNext]_normVars

-----------------------------------------------------------------------------
(* Properties. *)

(* A held configuration means everything it was read from and refers to is  *)
(* held, though puts fail and steps are tried again: planning and a reindex *)
(* pass over it, so nothing else would write the rest (modemConfigOf, once).*)
NormWhole ==
  \A k \in bucket : k.kind = "config" =>
    /\ Combos(k.name, k.schema) \subseteq bucket
    /\ k.name \in Artifacts =>
         Obj(k.name) \in bucket /\ (HasBase(k.name) => Config(BaseOf[k.name], k.schema) \in bucket)

(* A held record can be indexed: by the code that stored it, and after a    *)
(* schema bump once a reindex has ended, but for a unit that ran across     *)
(* both the bump and the reindex's listing (reindexArtifacts, heldShas).    *)
Reindexed ==
  task[Reindexer].at = "stored" /\ listing.schema = schema /\ listing.clear
RecordsReadable ==
  \A u \in records : task[u].code = schema \/ Reindexed =>
    \A a \in Range(ArtifactsOf[u]) : Readable(a)
=============================================================================
