------------------------------- MODULE MCEnds -------------------------------
(* The two ends of the system, each on a small instance of its own: how     *)
(* bytes come into an extraction (a behaviour is one ranged stream's), what *)
(* it leaves in the bucket (the modem configurations of a few units' and a  *)
(* reindex's), and what readers are shown while the index changes.          *)
EXTENDS Normalization, Transfers, Readers

VARIABLE part
allVars == <<normVars, streamVars, readerVars, part>>

CONSTANTS u1, u2, a1, a2, a3, b1, c1, c2, q1, q2

MCArtifactsOf == [u \in {u1, u2} |-> IF u = u1 THEN <<a1, a2>> ELSE <<a2, a3>>]
MCBaseOf == [a \in {a1, a2, a3} |-> IF a = a3 THEN NoBase ELSE b1]
MCCombosOf == [n \in {a1, a2, a3, b1} |-> IF n = a3 THEN {} ELSE IF n = b1 THEN {c2} ELSE {c1}]

Init == part \in {"stream", "norm", "readers"} /\ NormInit /\ StreamInit /\ ReadersInit
Next ==
  /\ UNCHANGED part
  /\ \/ part = "stream" /\ StreamNext /\ UNCHANGED <<normVars, readerVars>>
     \/ part = "norm" /\ NormNext /\ UNCHANGED <<streamVars, readerVars>>
     \/ part = "readers" /\ ReadersNext /\ UNCHANGED <<normVars, streamVars>>

(* Each of a stream's awaits settles: a request within its timeout, a       *)
(* body's next chunk, the consumer's next call.  Readers' fairness is       *)
(* ReadersFairness, asked of the behaviours that are theirs.                *)
OfStream == part = "stream" /\ UNCHANGED <<normVars, readerVars, part>>
OfReaders == part = "readers" /\ UNCHANGED <<normVars, streamVars, part>>
Fairness ==
  /\ WF_allVars(StreamNext /\ OfStream)
  /\ WF_allVars((QueuePurge \/ LosePurge) /\ OfReaders)
  /\ WF_allVars(TakeBatch /\ OfReaders) /\ WF_allVars(EndBatch /\ OfReaders)
  /\ \A x \in Readers : WF_allVars((PurgeReader(x) \/ RefusePurge(x)) /\ OfReaders)
  /\ \A q \in Requests : WF_allVars(Serve(q) /\ OfReaders)
  /\ WF_allVars(Tick /\ OfReaders)
Spec == Init /\ [][Next]_allVars /\ Fairness

(* Every behaviour that reads a stream ends it (StreamEnds, streamRange).   *)
StreamAlwaysEnds == part = "stream" => StreamEnds
=============================================================================
