----------------------------- MODULE Transfers -----------------------------
(* streamRange over fetchWithRetry: a long byte range read from a server    *)
(* that refuses, fails, cuts bodies short or hands out more than was asked, *)
(* for a consumer that may fail between two chunks.  A byte is its place in *)
(* the file, which stays the same while it is read.                         *)
EXTENDS Naturals, Sequences, FiniteSetsExt

CONSTANTS Start, Length,   \* the range
          RequestTries,    \* fetchWithRetry's attempts
          BodyTries,       \* bodies in a row that bring nothing
          MaxChunk         \* what a body delivers at once

ASSUME TransfersAssumption ==
  /\ Start \in Nat /\ MaxChunk \in Nat
  /\ {Length, RequestTries, BodyTries} \subseteq Nat \ {0}

VARIABLES
  at,        \* the first byte not yet passed on
  failures,  \* bodies in a row without progress
  phase,     \* "request", "body", "yield" or "backoff"; "done", "thrown" or "closed"
  attempt,   \* of the request
  sent,      \* the byte the open body delivers next
  chunk,     \* what was yielded
  consumer,  \* "reads" or "failed"
  taken      \* the bytes the consumer was given while it read

streamVars == <<at, failures, phase, attempt, sent, chunk, consumer, taken>>

End == Start + Length - 1

StreamInit ==
  /\ at = Start /\ failures = 0 /\ phase = "request" /\ attempt = 1
  /\ sent = Start /\ chunk = <<>> /\ consumer = "reads" /\ taken = <<>>

-----------------------------------------------------------------------------
(* fetchWithRetry: up to the headers. *)

\* Mutant: every request asks from the range's start.
FromStart == Start

(* The first byte a request asks for.                                       *)
From == at

(* 206 with the Content-Range asked for.                                    *)
Answer ==
  /\ phase = "request"
  /\ phase' = "body" /\ sent' = From
  /\ UNCHANGED <<at, failures, attempt, chunk, consumer, taken>>

(* Any other 2xx, or a status not worth retrying.                           *)
Refuse ==
  /\ phase = "request"
  /\ phase' = "thrown"
  /\ UNCHANGED <<at, failures, attempt, sent, chunk, consumer, taken>>

(* 429, 5xx, a network error or no answer in time: one budget.              *)
FailRequest ==
  /\ phase = "request"
  /\ IF attempt >= RequestTries THEN phase' = "thrown" /\ UNCHANGED attempt
     ELSE attempt' = attempt + 1 /\ UNCHANGED phase
  /\ UNCHANGED <<at, failures, sent, chunk, consumer, taken>>

-----------------------------------------------------------------------------
(* The body's loop. *)

(* A chunk is yielded without what exceeds the range.                       *)
Chunk(n) ==
  /\ phase = "body" /\ phase' = "yield"
  /\ chunk' = [i \in 1 .. Min({n, End - at + 1}) |-> sent + i - 1]
  /\ sent' = sent + n
  /\ taken' = IF consumer = "reads" THEN taken \o chunk' ELSE taken
  /\ UNCHANGED <<at, failures, attempt, consumer>>

\* Mutant: taken for progress.
EmptyChunkCounts ==
  /\ phase = "body" /\ failures' = 0
  /\ UNCHANGED <<at, phase, attempt, sent, chunk, consumer, taken>>

(* An empty chunk is passed over.                                           *)
EmptyChunk == phase = "body" /\ UNCHANGED streamVars

(* The consumer asks for more.                                              *)
Resume ==
  /\ phase = "yield" /\ consumer = "reads"
  /\ at' = at + Len(chunk) /\ failures' = 0
  /\ phase' = IF at' > End THEN "done" ELSE "body"
  /\ UNCHANGED <<attempt, sent, chunk, consumer, taken>>

(* ++failures >= tries, else a backoff.                                     *)
Broken ==
  /\ failures' = failures + 1
  /\ phase' = IF failures' >= BodyTries THEN "thrown" ELSE "backoff"

(* The body ends early or breaks.                                           *)
CutShort ==
  /\ phase = "body"
  /\ Broken
  /\ UNCHANGED <<at, attempt, sent, chunk, consumer, taken>>

Backoff ==
  /\ phase = "backoff"
  /\ phase' = "request" /\ attempt' = 1
  /\ UNCHANGED <<at, failures, sent, chunk, consumer, taken>>

(* A pipeline that fails throws into the generator (Readable.from), whose   *)
(* catch takes it for a broken body; a generator that fails returns it.     *)
ConsumerThrows ==
  /\ phase = "yield" /\ consumer = "reads"
  /\ consumer' = "failed"
  /\ Broken
  /\ UNCHANGED <<at, attempt, sent, chunk, taken>>

ConsumerReturns ==
  /\ phase = "yield"
  /\ consumer' = "failed" /\ phase' = "closed"
  /\ UNCHANGED <<at, failures, attempt, sent, chunk, taken>>

StreamNext ==
  \/ Answer \/ Refuse \/ FailRequest
  \/ \E n \in 1 .. MaxChunk : Chunk(n)
  \/ EmptyChunk \/ Resume \/ CutShort \/ Backoff
  \/ ConsumerThrows \/ ConsumerReturns

StreamSpec == StreamInit /\ [][StreamNext]_streamVars

-----------------------------------------------------------------------------
(* Properties. *)

(* Whatever requests fail and bodies break, are short or too long, a        *)
(* consumer is given the range's bytes in order, each once, and all of them *)
(* when the stream ends by itself (streamRange's contract; its checksum is  *)
(* only of a zip member, not of an AEA image).                              *)
Delivered ==
  /\ taken = [i \in 1 .. Len(taken) |-> Start + i - 1]
  /\ Len(taken) <= Length
  /\ phase = "done" => Len(taken) = Length

(* A stream ends, though bodies break for ever, bring empty chunks, or the  *)
(* consumer's failure is taken for the server's (failures, tries).          *)
StreamEnds == <>(phase \in {"done", "thrown", "closed"})
=============================================================================
