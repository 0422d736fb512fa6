------------------------------ MODULE EventStore ------------------------------
(***************************************************************************)
(* internal/event: the bounded event store as operators on its state, a    *)
(* record with the ring's contents in insertion order, the last sequence   *)
(* handed out and the commit cursor.  The ring's head never moves (nothing *)
(* is ever popped), so its circular buffer is a bounded sequence.  Every   *)
(* method holds s.mu throughout: one operator is one atomic step.          *)
(***************************************************************************)
EXTENDS Naturals, Sequences, FiniteSets

CONSTANT Capacity   \* cap of the ring; NewRing raises it to at least 1

ASSUME CapacityAssumption == Capacity \in Nat \ {0}

NewStore == [ring |-> <<>>, seq |-> 0, committed |-> 0]

\* Variant: the ring takes one event more than its capacity.
FullLate(st) == Len(st.ring) > Capacity

Full(st) == Len(st.ring) = Capacity

\* Variant: a full ring drops its oldest event to make room.
AppendEvicting(st, ev) ==
  LET entry == [sequence |-> st.seq + 1, event |-> ev]
  IN  [ring |-> Append(IF Full(st) THEN Tail(st.ring) ELSE st.ring, entry),
       seq |-> st.seq + 1,
       committed |-> st.committed]

\* Store.Append and Ring.Push: the sequence is spent even when the ring is full.
AppendEvent(st, ev) ==
  LET entry == [sequence |-> st.seq + 1, event |-> ev]
  IN  [ring |-> IF Full(st) THEN st.ring ELSE Append(st.ring, entry),
       seq |-> st.seq + 1,
       committed |-> st.committed]

\* Store.Commit: refused for a sequence never handed out, and never backwards.
Commit(st, n) ==
  IF n > st.seq \/ n <= st.committed THEN st ELSE [st EXCEPT !.committed = n]

CommitRefused(st, n) == n > st.seq

FirstOf(positions) == CHOOSE i \in positions : \A j \in positions : i <= j

\* Ring.Get: the first retained event with that sequence, as a sequence of at
\* most one event.
Get(st, n) ==
  LET at == {i \in DOMAIN st.ring : st.ring[i].sequence = n}
  IN  IF at = {} THEN <<>> ELSE <<st.ring[FirstOf(at)]>>

\* The events retained under a range of sequences, in sequence order; a sequence
\* that is not retained is passed over.
Collect(st, range) ==
  LET hits   == {n \in range : Get(st, n) # <<>>}
      Nth(k) == CHOOSE n \in hits : Cardinality({m \in hits : m <= n}) = k
  IN  [k \in 1..Cardinality(hits) |-> Get(st, Nth(k))[1]]

\* Variant: events that are not committed yet are returned too.
SinceUncommitted(st, after) == Collect(st, (after + 1)..st.seq)

\* Store.Since: the committed events after a position.
Since(st, after) == Collect(st, (after + 1)..st.committed)

\* Store.Pending: the positions of the appended events above the cursor.
Pending(st) == {i \in DOMAIN st.ring : st.ring[i].sequence > st.committed}
===============================================================================
