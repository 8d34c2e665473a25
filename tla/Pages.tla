------------------------------- MODULE Pages --------------------------------
(* A list read page by page while it changes: one read by keyset resumes    *)
(* after a key, one the index answers whole resumes after the cursor's row, *)
(* wherever that has moved.                                                 *)
EXTENDS Naturals, Sequences, FiniteSets, Functions, Sorting

CONSTANTS Keys,       \* naturals: rows by key, in a keyset's order
          Places,     \* naturals: what a windowed list is ordered by, first
          MaxChanges

ASSUME PagesAssumption ==
  Keys \subseteq Nat /\ IsFiniteSet(Keys) /\ Places \subseteq Nat /\ MaxChanges \in Nat

VARIABLES
  windowed,  \* the list is a window of one read whole
  limit,     \* items a page
  place,     \* the list: key -> the place of its row; a key without one is not held
  after,     \* the cursor, {} for a read from the start
  given,     \* the keys of every item answered
  reading,   \* "pages", "ended" or "refused"
  stayed,    \* rows held, in place, since the read began
  slid,      \* a cursor's own row moved
  changes

pageVars == <<windowed, limit, place, after, given, reading, stayed, slid, changes>>

PagesInit ==
  /\ windowed \in BOOLEAN /\ limit \in 1 .. 2
  /\ place \in UNION {[held -> Places] : held \in SUBSET Keys}
  /\ stayed = DOMAIN place /\ slid = FALSE
  /\ after = {} /\ given = <<>> /\ reading = "pages" /\ changes = 0

-----------------------------------------------------------------------------
(* The index. *)

(* A row is written, written otherwise or dropped.                          *)
Rewrite(k, to) ==
  /\ reading = "pages" /\ changes < MaxChanges
  /\ to # place
  /\ place' = to /\ changes' = changes + 1
  /\ stayed' = stayed \ {k}
  /\ slid' = (slid \/ (windowed /\ k \in after))
  /\ UNCHANGED <<windowed, limit, after, given, reading>>
PutRow(k) == \E p \in Places :
  Rewrite(k, [l \in DOMAIN place \cup {k} |-> IF l = k THEN p ELSE place[l]])
DropRow(k) == Rewrite(k, [l \in DOMAIN place \ {k} |-> place[l]])

-----------------------------------------------------------------------------
(* The API, and who reads all of a list by it. *)

Precedes(k, l) ==
  IF windowed THEN place[k] < place[l] \/ (place[k] = place[l] /\ k < l) ELSE k < l

(* What `read` answers: the rows after the cursor, one past the page.       *)
Take(n, rows) == SubSeq(rows, 1, IF Len(rows) < n THEN Len(rows) ELSE n)
WindowOf == Take(limit + 1, Sorted({k \in DOMAIN place : \A a \in after : Precedes(a, k)}, Precedes))

\* Mutant: the cursor is the row past the page.
CursorPast(rows) == {rows[Len(rows)]}
Cursor(rows) == {rows[limit]}

Paged ==
  /\ reading = "pages" /\ (windowed => after \subseteq DOMAIN place)
  /\ given' = given \o Take(limit, WindowOf)
  /\ IF Len(WindowOf) <= limit THEN reading' = "ended" /\ UNCHANGED after
     ELSE after' = Cursor(WindowOf) /\ UNCHANGED reading
  /\ UNCHANGED <<windowed, limit, place, stayed, slid, changes>>

(* The cursor's row is gone: a 400, which fails a whole read.               *)
Refuse ==
  /\ reading = "pages" /\ windowed /\ ~(after \subseteq DOMAIN place)
  /\ reading' = "refused"
  /\ UNCHANGED <<windowed, limit, place, after, given, stayed, slid, changes>>

PagesNext == (\E k \in Keys : PutRow(k) \/ DropRow(k)) \/ Paged \/ Refuse

PagesSpec == PagesInit /\ [][PagesNext]_pageVars

-----------------------------------------------------------------------------
(* Properties. *)

(* However rows come, go and move between two pages, a read to the end has  *)
(* each row that stayed in its place, once and in order; in a windowed list *)
(* unless a cursor's own row moved under it (paged, windowOf; the dataset's *)
(* `whole` publishes what it read).                                         *)
PagedWhole ==
  reading = "ended" /\ ~slid =>
    /\ stayed \subseteq Range(given)
    /\ \A i, j \in DOMAIN given :
         i < j /\ {given[i], given[j]} \subseteq stayed => Precedes(given[i], given[j])
=============================================================================
