----------------------------- MODULE PublishProofs -----------------------------
(***************************************************************************)
(* Proofs about Publish, for any set of requests and any capacity: the     *)
(* retained sequences have no gap, an acknowledged event stays replayable, *)
(* and the progress cursor never passes the commit cursor.                 *)
(***************************************************************************)
EXTENDS Publish, FiniteSetTheorems, TLAPS

\* The entry a request appended is still where its sequence says.
OwnEntry ==
  \A r \in Requests :
    Appended(r) =>
      /\ seq[r] \in 1..Len(store.ring)
      /\ store.ring[seq[r]] = [sequence |-> seq[r], event |-> r]

\* How far a request has come bounds both cursors from below.
CursorsReached ==
  \A r \in Requests :
    /\ pc[r] \in {"advance", "count", "ok"} => seq[r] <= store.committed
    /\ pc[r] \in {"count", "ok"} => seq[r] <= progress

\* What the status request has read stays true of the store as it moves on: the
\* store only grows, and the cursor only takes events over from the pending ones.
ReportSoFar ==
  /\ reader # "idle" => report.atStart <= Len(store.ring)
  /\ reader \in {"committed", "retained", "done"} =>
       /\ report.pending <= Len(store.ring)
       /\ report.atStart <= report.pending + store.committed
  /\ reader \in {"retained", "done"} =>
       /\ report.committed <= store.committed
       /\ report.atStart <= report.pending + report.committed
  /\ ReportMissesNothing

PublishInv ==
  /\ TypeOK
  /\ StoreDense
  /\ OwnEntry
  /\ CursorsReached
  /\ progress <= store.committed
  /\ ReportSoFar
-------------------------------------------------------------------------------
Stores == [ring : Seq(Entries), seq : Nat, committed : Nat]

\* What Append does to each part of the store.
LEMMA AppendFields ==
  ASSUME NEW st \in Stores, Len(st.ring) <= Capacity, NEW r \in Requests
  PROVE  /\ AppendEvent(st, r) \in Stores
         /\ AppendEvent(st, r).seq = st.seq + 1
         /\ AppendEvent(st, r).committed = st.committed
         /\ Full(st) => AppendEvent(st, r).ring = st.ring
         /\ ~Full(st) =>
              /\ Len(AppendEvent(st, r).ring) = Len(st.ring) + 1
              /\ AppendEvent(st, r).ring[Len(st.ring) + 1] = [sequence |-> st.seq + 1, event |-> r]
         /\ \A i \in 1..Len(st.ring) : AppendEvent(st, r).ring[i] = st.ring[i]
         /\ Len(AppendEvent(st, r).ring) <= Capacity
<1> DEFINE entry == [sequence |-> st.seq + 1, event |-> r]
           after == AppendEvent(st, r)
<1>1. /\ st.ring \in Seq(Entries) /\ st.seq \in Nat /\ st.committed \in Nat
      /\ entry \in Entries
  BY DEF Stores, Entries
<1>2. after = [ring |-> IF Full(st) THEN st.ring ELSE Append(st.ring, entry),
               seq |-> st.seq + 1, committed |-> st.committed]
  BY DEF AppendEvent
<1>3. after.ring \in Seq(Entries)
  BY <1>1, <1>2
<1>4. after \in Stores
  BY <1>1, <1>2, <1>3 DEF Stores
<1>5. Len(after.ring) = (IF Full(st) THEN Len(st.ring) ELSE Len(st.ring) + 1)
  BY <1>1, <1>2
<1>6. Len(after.ring) <= Capacity
  BY <1>1, <1>5, CapacityAssumption DEF Full
<1>7. ~Full(st) => after.ring[Len(st.ring) + 1] = entry
  BY <1>1, <1>2
<1>8. \A i \in 1..Len(st.ring) : after.ring[i] = st.ring[i]
  BY <1>1, <1>2
<1> HIDE DEF after
<1> QED
  BY <1>2, <1>4, <1>5, <1>6, <1>7, <1>8 DEF after

\* What Commit does to each part of the store.
LEMMA CommitFields ==
  ASSUME NEW st \in Stores, NEW n \in Nat
  PROVE  /\ Commit(st, n) \in Stores
         /\ Commit(st, n).ring = st.ring /\ Commit(st, n).seq = st.seq
         /\ st.committed <= Commit(st, n).committed
         /\ n <= st.seq => n <= Commit(st, n).committed
         /\ Commit(st, n).committed \in {st.committed, n}
<1>1. CASE n > st.seq \/ n <= st.committed
  BY <1>1 DEF Commit, Stores
<1>2. CASE ~(n > st.seq \/ n <= st.committed)
  BY <1>2 DEF Commit, Stores
<1> QED
  BY <1>1, <1>2

\* Without gaps, looking a sequence up finds the entry at that position.
LEMMA GetDense ==
  ASSUME NEW st, st.ring \in Seq(Entries),
         \A i \in 1..Len(st.ring) : st.ring[i].sequence = i,
         NEW n \in 1..Len(st.ring)
  PROVE  Get(st, n) = <<st.ring[n]>>
<1>1. DOMAIN st.ring = 1..Len(st.ring)
  OBVIOUS
<1>2. {i \in DOMAIN st.ring : st.ring[i].sequence = n} = {n}
  BY <1>1
<1>3. (CHOOSE i \in {n} : \A j \in {n} : i <= j) = n
  OBVIOUS
<1>4. FirstOf({n}) = n
  BY <1>3 DEF FirstOf
<1> QED
  BY <1>2, <1>4 DEF Get

\* A span of natural numbers has as many members as its ends are apart.
LEMMA SpanSize ==
  ASSUME NEW a \in Nat, NEW b \in Nat, a <= b
  PROVE  Cardinality((a + 1)..b) = b - a
<1>1. Cardinality((a + 1)..b) = IF a + 1 > b THEN 0 ELSE b - (a + 1) + 1
  BY FS_Interval
<1> QED
  BY <1>1

\* Without gaps, the pending events are the ones after the cursor.
LEMMA PendingDense ==
  ASSUME NEW st, st.ring \in Seq(Entries), st.committed \in Nat, st.committed <= Len(st.ring),
         \A i \in 1..Len(st.ring) : st.ring[i].sequence = i
  PROVE  /\ Cardinality(Pending(st)) = Len(st.ring) - st.committed
         /\ Pending(st) # {} => /\ FirstOf(Pending(st)) \in 1..Len(st.ring)
                                /\ st.ring[FirstOf(Pending(st))].sequence = st.committed + 1
<1>1. Pending(st) = (st.committed + 1)..Len(st.ring)
  BY DEF Pending
<1>2. Cardinality(Pending(st)) = Len(st.ring) - st.committed
  <2>1. Len(st.ring) \in Nat
    OBVIOUS
  <2> QED
    BY <1>1, <2>1, SpanSize
<1>3. ASSUME Pending(st) # {} PROVE FirstOf(Pending(st)) = st.committed + 1
  <2>1. /\ st.committed + 1 \in Pending(st)
        /\ \A j \in Pending(st) : j \in Nat /\ st.committed + 1 <= j
    BY <1>1, <1>3
  <2> QED
    BY <2>1 DEF FirstOf
<1> QED
  BY <1>1, <1>2, <1>3

\* Without gaps, a look through a range of retained sequences finds all of them,
\* each at its place in the range.
Span(st, from, to) == [k \in 1..(to - from) |-> st.ring[from + k]]

LEMMA CollectDense ==
  ASSUME NEW st, st.ring \in Seq(Entries),
         \A i \in 1..Len(st.ring) : st.ring[i].sequence = i,
         NEW from \in Nat, NEW to \in Nat, from <= to, to <= Len(st.ring)
  PROVE  Collect(st, (from + 1)..to) = Span(st, from, to)
<1> DEFINE range == (from + 1)..to
           hits  == {n \in range : Get(st, n) # <<>>}
           Nth(k) == CHOOSE n \in hits : Cardinality({m \in hits : m <= n}) = k
<1>1. \A n \in range : n \in 1..Len(st.ring) /\ Get(st, n) = <<st.ring[n]>>
  BY GetDense
<1>2. hits = range
  <2>1. \A n \in range : Get(st, n) # <<>>
    <3>1. \A x : <<x>> # <<>>
      OBVIOUS
    <3> QED
      BY <1>1, <3>1
  <2> QED
    BY <2>1
<1>3. Cardinality(range) = to - from
  BY SpanSize
<1>4. \A n \in range : Cardinality({m \in range : m <= n}) = n - from
  <2>1. ASSUME NEW n \in range PROVE Cardinality({m \in range : m <= n}) = n - from
    <3>1. {m \in range : m <= n} = (from + 1)..n
      OBVIOUS
    <3>2. Cardinality((from + 1)..n) = n - from
      BY SpanSize
    <3> QED
      BY <3>1, <3>2
  <2> QED
    BY <2>1
<1>5. ASSUME NEW k \in 1..(to - from) PROVE Nth(k) = from + k
  <2>1. from + k \in range /\ Cardinality({m \in range : m <= from + k}) = k
    BY <1>4
  <2>2. ASSUME NEW n \in range, Cardinality({m \in range : m <= n}) = k
        PROVE  n = from + k
    <3>1. n - from = k /\ n \in Nat
      BY <1>4, <2>2
    <3> QED
      BY <3>1
  <2>3. Nth(k) = CHOOSE n \in range : Cardinality({m \in range : m <= n}) = k
    BY <1>2
  <2> HIDE DEF range, hits, Nth
  <2>4. \E n \in range : Cardinality({m \in range : m <= n}) = k
    BY <2>1
  <2>5. Nth(k) \in range /\ Cardinality({m \in range : m <= Nth(k)}) = k
    BY <2>3, <2>4
  <2> QED
    BY <2>2, <2>5
<1>6. Collect(st, range) = [k \in 1..Cardinality(hits) |-> Get(st, Nth(k))[1]]
  BY DEF Collect
<1>7. ASSUME NEW k \in 1..(to - from) PROVE Get(st, Nth(k))[1] = st.ring[from + k]
  <2>1. Get(st, from + k) = <<st.ring[from + k]>>
    BY <1>1
  <2>2. Nth(k) = from + k
    BY <1>5
  <2> HIDE DEF range, hits, Nth
  <2> QED
    BY <2>1, <2>2
<1>8. Cardinality(hits) = to - from
  BY <1>2, <1>3
<1> HIDE DEF range, hits, Nth
<1>9. Collect(st, range) = [k \in 1..(to - from) |-> st.ring[from + k]]
  BY <1>6, <1>7, <1>8
<1> QED
  BY <1>9 DEF range, Span

LEMMA InitInv == Init => PublishInv
<1> SUFFICES ASSUME Init PROVE PublishInv
  OBVIOUS
<1>1. store = [ring |-> <<>>, seq |-> 0, committed |-> 0] /\ Len(store.ring) = 0
  BY DEF Init, NewStore
<1>2. TypeOK
  BY <1>1, CapacityAssumption DEF Init, TypeOK, EmptyReport
<1>3. StoreDense /\ OwnEntry /\ CursorsReached /\ progress <= store.committed
  BY <1>1 DEF Init, StoreDense, OwnEntry, CursorsReached, Appended
<1>4. ReportSoFar
  BY DEF Init, ReportSoFar, ReportMissesNothing
<1> QED
  BY <1>2, <1>3, <1>4 DEF PublishInv

\* A status request only reads the pipeline.
LEMMA StatusPreserves == PublishInv /\ StatusStep => PublishInv'
<1> SUFFICES ASSUME PublishInv, StatusStep PROVE PublishInv'
  OBVIOUS
<1> USE DEF ReadStep
<1>1. UNCHANGED <<store, progress, metricVars, requestVars>>
  BY DEF StatusStep, ReadMetrics, ReadNext, ReadFirstPending, ReadPending,
         ReadCommitted, ReadRetained, Respond
<1>2. StoreDense' /\ OwnEntry' /\ CursorsReached' /\ (progress <= store.committed)'
  BY <1>1 DEF PublishInv, StoreDense, OwnEntry, CursorsReached, Appended, requestVars
<1>3. Len(store.ring) \in Nat /\ store.seq \in Nat /\ store.committed \in Nat
  BY DEF PublishInv, TypeOK
<1>4. /\ Cardinality(Pending(store)) = Len(store.ring) - store.committed
      /\ Cardinality(Pending(store)) \in Nat
      /\ Pending(store) # {} => store.ring[FirstOf(Pending(store))].sequence \in Nat
  BY <1>3, PendingDense DEF PublishInv, TypeOK, StoreDense
<1> DEFINE Reports == [published : Nat, next : Nat, pending : Nat, committed : Nat,
                       retained : Nat, atStart : Nat]
<1>5. /\ report \in Reports /\ published \in Nat
  BY DEF PublishInv, TypeOK
<1> DEFINE Good == report' \in Reports /\ ReportSoFar'
<1>6. Good /\ reader' \in {"idle", "next", "first", "pending", "committed", "retained", "done"}
  <2>1. store' = store
    BY <1>1
  <2>2. ReportSoFar /\ store.committed <= Len(store.ring)
    BY DEF PublishInv, StoreDense
  <2> USE DEF ReportSoFar, ReportMissesNothing
  <2>3. CASE ReadMetrics
    <3>1. report' \in Reports /\ reader' = "next"
      BY <1>3, <1>5, <2>3 DEF ReadMetrics, EmptyReport
    <3>2. report'.atStart = Len(store.ring)
      BY <2>3 DEF ReadMetrics, EmptyReport
    <3> QED
      BY <1>3, <2>1, <3>1, <3>2
  <2>4. CASE ReadNext
    <3>1. report' \in Reports /\ reader' = "first"
      BY <1>3, <1>5, <2>4 DEF ReadNext
    <3>2. report'.atStart = report.atStart /\ reader # "idle"
      BY <1>5, <2>4 DEF ReadNext
    <3> QED
      BY <2>1, <2>2, <3>1, <3>2
  <2>5. CASE ReadFirstPending
    BY <1>4, <1>5, <2>1, <2>2, <2>5 DEF ReadFirstPending
  <2>6. CASE ReadPending
    <3>1. report' \in Reports /\ reader = "pending" /\ reader' = "committed"
      BY <1>4, <1>5, <2>6 DEF ReadPending
    <3>2. /\ report'.pending = Len(store.ring) - store.committed
          /\ report'.atStart = report.atStart
      BY <1>4, <1>5, <2>6 DEF ReadPending
    <3>3. report.atStart \in Nat /\ report.atStart <= Len(store.ring)
      BY <1>5, <2>2, <3>1
    <3> QED
      BY <1>3, <2>1, <2>2, <3>1, <3>2, <3>3
  <2>7. CASE ReadCommitted
    BY <1>3, <1>5, <2>1, <2>2, <2>7 DEF ReadCommitted
  <2>8. CASE ReadRetained
    <3>1. report' \in Reports /\ reader = "retained" /\ reader' = "done"
      BY <1>3, <1>5, <2>8 DEF ReadRetained
    <3>2. /\ report'.retained = Len(store.ring)
          /\ report'.atStart = report.atStart
          /\ report'.pending = report.pending
          /\ report'.committed = report.committed
      BY <1>5, <2>8 DEF ReadRetained
    <3> QED
      BY <1>3, <1>5, <2>1, <2>2, <3>1, <3>2
  <2>9. CASE Respond
    BY <2>9 DEF Respond, EmptyReport
  <2> QED
    BY <2>3, <2>4, <2>5, <2>6, <2>7, <2>8, <2>9 DEF StatusStep
<1>7. TypeOK'
  BY <1>1, <1>6 DEF PublishInv, TypeOK, metricVars, requestVars
<1> QED
  BY <1>2, <1>6, <1>7 DEF PublishInv

\* The steps of a request: only AppendStep changes the ring, only CommitStep the
\* commit cursor, only Advance the progress.
LEMMA RequestTypes ==
  ASSUME TypeOK, NEW r \in Requests, RequestStep(r)
  PROVE  TypeOK'
<1> USE DEF TypeOK, Goto, metricVars, statusVars
<1>1. CASE Reject(r)
  BY <1>1 DEF Reject
<1>2. CASE AppendStep(r)
  <2>1. store' \in Stores /\ Len(store'.ring) <= Capacity
    BY <1>2, AppendFields DEF AppendStep, Stores
  <2> QED
    BY <1>2, <2>1 DEF AppendStep, Stores
<1>3. CASE DispatchOK(r)
  BY <1>3 DEF DispatchOK
<1>4. CASE DispatchFails(r)
  BY <1>4 DEF DispatchFails
<1>5. CASE CommitStep(r)
  BY <1>5, CommitFields DEF CommitStep, Stores
<1>6. CASE Advance(r)
  BY <1>6 DEF Advance
<1>7. CASE Return(r)
  BY <1>7 DEF Return
<1> QED
  BY <1>1, <1>2, <1>3, <1>4, <1>5, <1>6, <1>7 DEF RequestStep

LEMMA RequestPreserves ==
  ASSUME PublishInv, NEW r \in Requests, RequestStep(r)
  PROVE  PublishInv'
<1> USE DEF Goto, metricVars, statusVars
<1>1. TypeOK /\ TypeOK'
  BY RequestTypes DEF PublishInv
<1>2. /\ Len(store.ring) \in Nat /\ store.seq \in Nat /\ store.committed \in Nat
      /\ progress \in Nat /\ Len(store.ring) <= Capacity /\ store \in Stores
  BY <1>1 DEF TypeOK, Stores
<1>3. CASE AppendStep(r) /\ ~Full(store)
  <2> DEFINE entry == [sequence |-> store.seq + 1, event |-> r]
  <2>1. /\ store'.seq = store.seq + 1 /\ store'.committed = store.committed
        /\ Len(store'.ring) = Len(store.ring) + 1
        /\ store'.ring[Len(store.ring) + 1] = entry
        /\ \A i \in 1..Len(store.ring) : store'.ring[i] = store.ring[i]
    BY <1>2, <1>3, AppendFields DEF AppendStep
  <2>2. store.seq = Len(store.ring) /\ Len(store.ring) < Capacity
    BY <1>2, <1>3, CapacityAssumption DEF Full, PublishInv, StoreDense
  <2>3. entry.sequence = Len(store.ring) + 1
    BY <2>2
  <2>4. \A i \in 1..Len(store'.ring) : store'.ring[i].sequence = i
    <3> SUFFICES ASSUME NEW i \in 1..Len(store'.ring) PROVE store'.ring[i].sequence = i
      OBVIOUS
    <3>1. CASE i \in 1..Len(store.ring)
      BY <2>1, <3>1 DEF PublishInv, StoreDense
    <3>2. CASE i = Len(store.ring) + 1
      BY <2>1, <2>3, <3>2
    <3> QED
      BY <1>2, <2>1, <3>1, <3>2
  <2>5. StoreDense'
    BY <1>2, <2>1, <2>2, <2>4 DEF PublishInv, StoreDense
  <2>6. OwnEntry'
    <3>1. /\ pc' = [pc EXCEPT ![r] = "dispatch"]
          /\ seq' = [seq EXCEPT ![r] = store.seq + 1]
      BY <1>3, <2>1 DEF AppendStep
    <3>2. ASSUME NEW q \in Requests, Appended(q)'
          PROVE  /\ seq'[q] \in 1..Len(store'.ring)
                 /\ store'.ring[seq'[q]] = [sequence |-> seq'[q], event |-> q]
      <4>1. CASE q = r
        BY <1>1, <1>2, <2>1, <2>2, <3>1, <4>1 DEF TypeOK
      <4>2. CASE q # r
        <5>1. Appended(q) /\ seq'[q] = seq[q]
          BY <1>1, <3>1, <3>2, <4>2 DEF Appended, TypeOK
        <5>2. seq[q] \in 1..Len(store.ring) /\ store.ring[seq[q]] = [sequence |-> seq[q], event |-> q]
          BY <5>1 DEF PublishInv, OwnEntry
        <5> QED
          BY <1>2, <2>1, <5>1, <5>2
      <4> QED
        BY <4>1, <4>2
    <3> QED
      BY <3>2 DEF OwnEntry
  <2>7. CursorsReached' /\ (progress <= store.committed)'
    BY <1>1, <1>3, <2>1 DEF AppendStep, PublishInv, CursorsReached, TypeOK
  <2>8. ReportSoFar'
    BY <1>1, <1>2, <1>3, <2>1 DEF AppendStep, PublishInv, ReportSoFar, ReportMissesNothing, TypeOK
  <2> QED
    BY <1>1, <2>5, <2>6, <2>7, <2>8 DEF PublishInv
<1>4. CASE AppendStep(r) /\ Full(store)
  <2>1. /\ store'.seq = store.seq + 1 /\ store'.committed = store.committed
        /\ store'.ring = store.ring
    BY <1>2, <1>4, AppendFields DEF AppendStep
  <2>2. StoreDense'
    BY <1>2, <1>4, <2>1, CapacityAssumption DEF PublishInv, StoreDense, Full
  <2>3. OwnEntry' /\ CursorsReached' /\ (progress <= store.committed)' /\ ReportSoFar'
    BY <1>1, <1>4, <2>1 DEF AppendStep, PublishInv, OwnEntry, Appended, CursorsReached,
       ReportSoFar, ReportMissesNothing, TypeOK
  <2> QED
    BY <1>1, <2>2, <2>3 DEF PublishInv
<1>5. CASE Reject(r) \/ DispatchOK(r) \/ DispatchFails(r) \/ Return(r)
  <2>1. UNCHANGED <<store, progress, seq, statusVars>>
    BY <1>5 DEF Reject, DispatchOK, DispatchFails, Return
  <2>2. StoreDense' /\ ReportSoFar' /\ (progress <= store.committed)'
    BY <2>1 DEF PublishInv, StoreDense, ReportSoFar, ReportMissesNothing
  <2>3. OwnEntry' /\ CursorsReached'
    BY <1>1, <1>5, <2>1 DEF Reject, DispatchOK, DispatchFails, Return, PublishInv, OwnEntry,
       Appended, CursorsReached, TypeOK
  <2> QED
    BY <1>1, <2>2, <2>3 DEF PublishInv
<1>6. CASE CommitStep(r)
  <2>1. seq[r] \in 1..Len(store.ring) /\ seq[r] \in Nat /\ seq[r] <= store.seq
    <3>1. seq[r] \in 1..Len(store.ring)
      BY <1>6 DEF CommitStep, PublishInv, OwnEntry, Appended
    <3>2. Len(store.ring) <= store.seq
      BY DEF PublishInv, StoreDense
    <3> QED
      BY <1>2, <3>1, <3>2
  <2>2. /\ store'.ring = store.ring /\ store'.seq = store.seq
        /\ store'.committed \in {store.committed, seq[r]}
        /\ store.committed <= store'.committed /\ seq[r] <= store'.committed
    BY <1>2, <1>6, <2>1, CommitFields DEF CommitStep
  <2>3. UNCHANGED <<progress, seq, statusVars>> /\ ~CommitRefused(store, seq[r])
    BY <1>2, <1>6, <2>1 DEF CommitStep, CommitRefused, PublishInv, StoreDense
  <2>4. store'.committed \in Nat /\ store.committed <= store'.committed /\ seq[r] <= store'.committed
    BY <1>2, <2>1, <2>2
  <2>5. StoreDense' /\ (progress <= store.committed)'
    BY <1>2, <2>1, <2>2, <2>3, <2>4 DEF PublishInv, StoreDense
  <2>6. OwnEntry'
    BY <1>1, <1>6, <2>2, <2>3 DEF CommitStep, PublishInv, OwnEntry, Appended, TypeOK
  <2>7. CursorsReached'
    BY <1>1, <1>2, <1>6, <2>3, <2>4 DEF CommitStep, PublishInv, CursorsReached, TypeOK
  <2>8. ReportSoFar'
    BY <1>1, <1>2, <2>2, <2>3, <2>4 DEF PublishInv, ReportSoFar, ReportMissesNothing, TypeOK
  <2> QED
    BY <1>1, <2>5, <2>6, <2>7, <2>8 DEF PublishInv
<1>7. CASE Advance(r)
  <2>1. seq[r] <= store.committed /\ seq[r] \in Nat
    BY <1>1, <1>7 DEF Advance, PublishInv, CursorsReached, TypeOK
  <2>2. UNCHANGED <<store, seq, statusVars>> /\ progress <= progress' /\ seq[r] <= progress'
        /\ progress' <= store.committed /\ progress' \in Nat
    BY <1>2, <1>7, <2>1 DEF Advance, PublishInv
  <2>3. StoreDense' /\ ReportSoFar' /\ (progress <= store.committed)'
    BY <2>2 DEF PublishInv, StoreDense, ReportSoFar, ReportMissesNothing
  <2>4. OwnEntry' /\ CursorsReached'
    BY <1>1, <1>2, <1>7, <2>2 DEF Advance, PublishInv, OwnEntry, Appended, CursorsReached, TypeOK
  <2> QED
    BY <1>1, <2>3, <2>4 DEF PublishInv
<1> QED
  BY <1>3, <1>4, <1>5, <1>6, <1>7 DEF RequestStep
-------------------------------------------------------------------------------
\* The inductive invariant of the pipeline and of the status request beside it.
THEOREM PublishInvariant == Spec => []PublishInv
<1>1. PublishInv /\ UNCHANGED vars => PublishInv'
  BY DEF PublishInv, TypeOK, StoreDense, OwnEntry, Appended, CursorsReached, ReportSoFar,
         ReportMissesNothing, vars, metricVars, requestVars, statusVars
<1>2. PublishInv /\ [Next]_vars => PublishInv'
  BY <1>1, StatusPreserves, RequestPreserves DEF Next
<1> QED
  BY <1>2, InitInv, PTL DEF Spec

\* publish.go:39-55, ring.go:14-32: every cursor, counter and entry of the store and
\* of the requests keeps its type, and the ring its capacity.
THEOREM TypeCorrect == Spec => []TypeOK
<1>1. PublishInv => TypeOK
  BY DEF PublishInv
<1> QED
  BY <1>1, PublishInvariant, PTL

\* event.go:36-45, ring.go:25-32: the retained events carry sequences without a
\* gap and the commit cursor stays within them, for any number of requests.
THEOREM StoreDenseAlways == Spec => []StoreDense
<1>1. PublishInv => StoreDense
  BY DEF PublishInv
<1> QED
  BY <1>1, PublishInvariant, PTL

\* event.go:66-79, ring.go:35-43: for any number of requests, any capacity and
\* whatever was refused, failed or committed out of order, a replay meets every
\* sequence after its position up to the cursor, in order, and none beyond it.
THEOREM SinceCompleteAlways == Spec => []SinceIsComplete
<1>1. PublishInv => SinceIsComplete
  <2> SUFFICES ASSUME PublishInv, NEW after \in 0..store.committed
               PROVE  [i \in DOMAIN Since(store, after) |-> Since(store, after)[i].sequence] =
                        [i \in 1..(store.committed - after) |-> after + i]
    BY DEF SinceIsComplete
  <2>1. /\ store.ring \in Seq(Entries) /\ store.committed \in Nat
        /\ store.committed <= Len(store.ring)
        /\ \A i \in 1..Len(store.ring) : store.ring[i].sequence = i
    BY DEF PublishInv, TypeOK, StoreDense
  <2>2. Since(store, after) = Span(store, after, store.committed)
    <3>1. after \in Nat /\ after <= store.committed
      BY <2>1
    <3> QED
      BY <2>1, <3>1, CollectDense DEF Since
  <2>3. \A i \in 1..(store.committed - after) : store.ring[after + i].sequence = after + i
    BY <2>1
  <2> QED
    BY <2>2, <2>3 DEF Span
<1> QED
  BY <1>1, PublishInvariant, PTL

\* publish.go:39-55: an event whose sequence the client was told stays where a
\* replay looks for it.
THEOREM AcknowledgedAlways == Spec => []AcknowledgedIsReplayable
<1>1. PublishInv => AcknowledgedIsReplayable
  <2> SUFFICES ASSUME PublishInv, NEW r \in Requests, pc[r] = "ok"
               PROVE  /\ seq[r] <= store.committed
                      /\ Get(store, seq[r]) = <<[sequence |-> seq[r], event |-> r]>>
    BY DEF AcknowledgedIsReplayable
  <2>1. /\ seq[r] \in 1..Len(store.ring)
        /\ store.ring[seq[r]] = [sequence |-> seq[r], event |-> r]
    BY DEF PublishInv, OwnEntry, Appended
  <2>2. Get(store, seq[r]) = <<store.ring[seq[r]]>>
    BY <2>1, GetDense DEF PublishInv, TypeOK, StoreDense
  <2> QED
    BY <2>1, <2>2 DEF PublishInv, CursorsReached
<1> QED
  BY <1>1, PublishInvariant, PTL

\* publish.go:51-52: the broker's progress lies between what clients were told and
\* what the store has committed.
THEOREM ProgressAlways == Spec => []ProgressIsCommitted
<1>1. PublishInv => ProgressIsCommitted
  BY DEF PublishInv, CursorsReached, ProgressIsCommitted
<1> QED
  BY <1>1, PublishInvariant, PTL

\* store.go:15-29: a status report assembled under five separate locks, beside any
\* number of requests, misses no event and contradicts itself nowhere.
THEOREM ReportAlways == Spec => []ReportMissesNothing
<1>1. PublishInv => ReportMissesNothing
  BY DEF PublishInv, ReportSoFar
<1> QED
  BY <1>1, PublishInvariant, PTL

\* No step takes anything off the ring, replaces an entry or moves the cursor back.
LEMMA RingGrows ==
  ASSUME PublishInv, [Next]_vars
  PROVE  /\ store.committed <= store'.committed
         /\ Len(store.ring) <= Len(store'.ring)
         /\ \A n \in 1..Len(store.ring) : store'.ring[n] = store.ring[n]
<1>0. /\ store.ring \in Seq(Entries) /\ store.committed \in Nat /\ store.seq \in Nat
  BY DEF PublishInv, TypeOK
<1>1. CASE store' = store
  BY <1>0, <1>1
<1>2. ASSUME NEW r \in Requests, AppendStep(r)
      PROVE  /\ store'.committed = store.committed
             /\ Len(store.ring) <= Len(store'.ring)
             /\ \A n \in 1..Len(store.ring) : store'.ring[n] = store.ring[n]
  <2>1. store \in Stores /\ Len(store.ring) <= Capacity /\ Len(store.ring) \in Nat
    BY DEF PublishInv, TypeOK, Stores
  <2>2. store' = AppendEvent(store, r)
    BY <1>2 DEF AppendStep
  <2>3. /\ AppendEvent(store, r).committed = store.committed
        /\ \A n \in 1..Len(store.ring) : AppendEvent(store, r).ring[n] = store.ring[n]
    BY <2>1, AppendFields
  <2>4. \/ AppendEvent(store, r).ring = store.ring
        \/ Len(AppendEvent(store, r).ring) = Len(store.ring) + 1
    BY <2>1, AppendFields
  <2> QED
    BY <2>1, <2>2, <2>3, <2>4
<1>3. ASSUME NEW r \in Requests, CommitStep(r)
      PROVE  store'.ring = store.ring /\ store.committed <= store'.committed
  BY <1>0, <1>3, CommitFields DEF CommitStep, PublishInv, TypeOK, Stores
<1>4. \/ store' = store
      \/ \E r \in Requests : AppendStep(r) \/ CommitStep(r)
  BY DEF Next, RequestStep, Reject, DispatchOK, DispatchFails, Advance, Return, StatusStep,
     ReadStep, ReadMetrics, ReadNext, ReadFirstPending, ReadPending, ReadCommitted,
     ReadRetained, Respond, vars
<1> QED
  BY <1>0, <1>1, <1>2, <1>3, <1>4

\* event.go:47-57: no step moves the commit cursor back, or loses or replaces an
\* event a replay could already see.
THEOREM VisibleGrowsAlways == Spec => VisibleGrowsOnly
<1>1. PublishInv /\ PublishInv' /\ [Next]_vars => VisibleGrows
  <2> SUFFICES ASSUME PublishInv, PublishInv', [Next]_vars PROVE VisibleGrows
    OBVIOUS
  <2>1. /\ store.ring \in Seq(Entries) /\ store'.ring \in Seq(Entries)
        /\ store.committed \in Nat /\ store'.committed \in Nat /\ store.seq \in Nat
        /\ store.committed <= Len(store.ring)
        /\ \A i \in 1..Len(store.ring) : store.ring[i].sequence = i
        /\ \A i \in 1..Len(store'.ring) : store'.ring[i].sequence = i
    BY DEF PublishInv, TypeOK, StoreDense
  <2>2. /\ store.committed <= store'.committed
        /\ Len(store.ring) <= Len(store'.ring)
        /\ \A n \in 1..Len(store.ring) : store'.ring[n] = store.ring[n]
    BY RingGrows
  <2>3. ASSUME NEW n \in 1..store.committed
        PROVE  Get(store', n) = Get(store, n) /\ Get(store, n) # <<>>
    <3>1. n \in 1..Len(store.ring) /\ n \in 1..Len(store'.ring)
      BY <2>1, <2>2
    <3>2. Get(store, n) = <<store.ring[n]>> /\ Get(store', n) = <<store'.ring[n]>>
      BY <2>1, <3>1, GetDense
    <3> QED
      BY <2>2, <3>1, <3>2
  <2> QED
    BY <2>2, <2>3 DEF VisibleGrows
<1> QED
  BY <1>1, PublishInvariant, PTL DEF Spec, VisibleGrowsOnly
-------------------------------------------------------------------------------
(* What a status report says of sequences and publications *)

\* What the report has read of the next sequence, as the store moves on.
NextSoFar ==
  /\ reader = "first" => (report.next <= Len(store.ring) + 1 \/ report.next > Capacity + 1)
  /\ reader \in {"pending", "committed"} =>
       (report.next <= store.committed + 1 \/ report.next > Capacity + 1)
  /\ reader \in {"retained", "done"} =>
       (report.next <= report.committed + 1 \/ report.next > Capacity + 1)

\* Every retained entry belongs to the request that appended it.
EntryOwned ==
  \A i \in 1..Len(store.ring) :
    Appended(store.ring[i].event) /\ seq[store.ring[i].event] = i

\* The positions whose request has been answered.
Answered == {i \in 1..Len(store.ring) : pc[store.ring[i].event] = "ok"}

\* The counter of publications counts them, and each is committed.
PublishedCounts == IsFiniteSet(Answered) /\ published = Cardinality(Answered)

CountSoFar ==
  /\ reader \in {"next", "first", "pending", "committed"} => report.published <= store.committed
  /\ reader \in {"retained", "done"} => report.published <= report.committed

\* A report's next sequence stays within reach while the pipeline moves on.
LEMMA NextPreserved ==
  ASSUME PublishInv, PublishInv', NextSoFar, [Next]_vars
  PROVE  NextSoFar'
<1>1. /\ Len(store.ring) \in Nat /\ store.seq \in Nat /\ store.committed \in Nat
      /\ report \in [published : Nat, next : Nat, pending : Nat, committed : Nat,
                     retained : Nat, atStart : Nat]
      /\ store.committed <= Len(store.ring) /\ Len(store.ring) <= Capacity
      /\ Len(store.ring) < Capacity => store.seq = Len(store.ring)
      /\ Len(store.ring) <= store.seq
      /\ Len(store'.ring) \in Nat /\ store'.committed \in Nat
  <2>1. /\ store.ring \in Seq(Entries) /\ store'.ring \in Seq(Entries)
        /\ store.seq \in Nat /\ store.committed \in Nat /\ store'.committed \in Nat
        /\ Len(store.ring) <= Capacity
    BY DEF PublishInv, TypeOK
  <2>2. report \in [published : Nat, next : Nat, pending : Nat, committed : Nat,
                   retained : Nat, atStart : Nat]
    BY DEF PublishInv, TypeOK
  <2> QED
    BY <2>1, <2>2 DEF PublishInv, StoreDense
<1>2. CASE UNCHANGED vars
  BY <1>2 DEF NextSoFar, vars, statusVars
<1>3. ASSUME NEW r \in Requests, RequestStep(r) PROVE NextSoFar'
  <2>1. UNCHANGED statusVars
    BY <1>3 DEF RequestStep, Reject, AppendStep, DispatchOK, DispatchFails, CommitStep, Advance,
         Return
  <2>2. Len(store.ring) <= Len(store'.ring) /\ store.committed <= store'.committed
    <3>1. CASE AppendStep(r)
      <4>1. store \in Stores /\ Len(store.ring) <= Capacity
        BY DEF PublishInv, TypeOK, Stores
      <4>2. store' = AppendEvent(store, r)
        BY <3>1 DEF AppendStep
      <4>3. /\ AppendEvent(store, r).committed = store.committed
            /\ \/ AppendEvent(store, r).ring = store.ring
               \/ Len(AppendEvent(store, r).ring) = Len(store.ring) + 1
        BY <4>1, AppendFields
      <4>4. /\ store'.committed = store.committed
            /\ store'.ring = store.ring \/ Len(store'.ring) = Len(store.ring) + 1
        BY <4>2, <4>3
      <4> QED
        BY <1>1, <4>4
    <3>2. CASE CommitStep(r)
      <4>1. store \in Stores /\ seq[r] \in Nat /\ store' = Commit(store, seq[r])
        BY <3>2 DEF CommitStep, PublishInv, TypeOK, Stores
      <4>2. /\ Commit(store, seq[r]).ring = store.ring
            /\ store.committed <= Commit(store, seq[r]).committed
        BY <4>1, CommitFields
      <4> QED
        BY <1>1, <4>1, <4>2
    <3>3. CASE ~AppendStep(r) /\ ~CommitStep(r)
      <4>1. store' = store
        BY <1>3, <3>3 DEF RequestStep, Reject, DispatchOK, DispatchFails, Advance, Return
      <4> QED
        BY <1>1, <4>1
    <3> QED
      BY <3>1, <3>2, <3>3
  <2>3. /\ report' = report /\ reader' = reader
        /\ report.next \in Nat /\ report.committed \in Nat
    BY <1>1, <2>1, CapacityAssumption DEF statusVars
  <2>4. /\ reader' = "first" => (report'.next <= Len(store'.ring) + 1 \/ report'.next > Capacity + 1)
        /\ reader' \in {"pending", "committed"} =>
             (report'.next <= store'.committed + 1 \/ report'.next > Capacity + 1)
    <3> DEFINE n == report.next
               before == Len(store.ring)
               after == Len(store'.ring)
    <3>1. n \in Nat /\ before \in Nat /\ after \in Nat /\ before <= after /\ Capacity \in Nat
      BY <1>1, <2>2, <2>3, CapacityAssumption
    <3> HIDE DEF n, before, after
    <3>2. n <= before + 1 => n <= after + 1
      BY <3>1
    <3>3. n <= store.committed + 1 => n <= store'.committed + 1
      BY <1>1, <2>2, <3>1
    <3> QED
      BY <2>3, <3>2, <3>3 DEF NextSoFar, n, before, after
  <2>5. reader' \in {"retained", "done"} =>
          (report'.next <= report'.committed + 1 \/ report'.next > Capacity + 1)
    BY <2>3 DEF NextSoFar
  <2> QED
    BY <2>4, <2>5 DEF NextSoFar
<1>4. CASE StatusStep
  <2> USE DEF ReadStep, NextSoFar
  <2>1. CASE ReadMetrics \/ ReadPending \/ ReadRetained \/ Respond
    BY <1>1, <2>1 DEF ReadMetrics, ReadPending, ReadRetained, Respond
  <2>2. CASE ReadNext
    <3>1. reader' = "first" /\ report'.next = store.seq + 1 /\ store' = store
      BY <1>1, <2>2 DEF ReadNext
    <3>2. store.seq <= Len(store.ring) \/ store.seq > Capacity
      BY <1>1, CapacityAssumption
    <3> QED
      BY <1>1, <3>1, <3>2, CapacityAssumption
  <2>3. CASE ReadFirstPending
    <3>1. reader = "first" /\ reader' = "pending" /\ store' = store
      BY <2>3 DEF ReadFirstPending
    <3>2. CASE Pending(store) = {}
      <4>1. store.committed = Len(store.ring)
        <5>1. Cardinality(Pending(store)) = 0
          BY <3>2, FS_EmptySet
        <5>2. Cardinality(Pending(store)) = Len(store.ring) - store.committed
          BY <1>1, PendingDense DEF PublishInv, TypeOK, StoreDense
        <5> QED
          BY <1>1, <5>1, <5>2
      <4>2. report'.next = report.next
        BY <1>1, <2>3, <3>2 DEF ReadFirstPending
      <4> QED
        BY <3>1, <4>1, <4>2
    <3>3. CASE Pending(store) # {}
      <4>1. store.ring[FirstOf(Pending(store))].sequence = store.committed + 1
        BY <1>1, <3>3, PendingDense DEF PublishInv, TypeOK, StoreDense
      <4>2. report'.next = store.committed + 1
        BY <1>1, <2>3, <3>3, <4>1 DEF ReadFirstPending
      <4> QED
        BY <1>1, <3>1, <4>2
    <3> QED
      BY <3>2, <3>3
  <2>4. CASE ReadCommitted
    BY <1>1, <2>4 DEF ReadCommitted
  <2> QED
    BY <1>4, <2>1, <2>2, <2>3, <2>4 DEF StatusStep
<1> QED
  BY <1>2, <1>3, <1>4 DEF Next

\* store.go:18-22: a report never says that the next event to commit lies beyond
\* one it leaves uncommitted, unless the full store has burnt sequences.
THEOREM ReportNextAlways == Spec => []ReportNextUncommitted
<1>1. Init => NextSoFar
  BY DEF Init, NextSoFar
<1>2. PublishInv /\ PublishInv' /\ NextSoFar /\ [Next]_vars => NextSoFar'
  BY NextPreserved
<1>3. NextSoFar => ReportNextUncommitted
  BY DEF NextSoFar, ReportNextUncommitted
<1> QED
  BY <1>1, <1>2, <1>3, PublishInvariant, PTL DEF Spec
-------------------------------------------------------------------------------
(* The publications a report counts are committed *)

CountInv == PublishInv /\ EntryOwned /\ PublishedCounts /\ CountSoFar

\* Each answered publication has a position of its own within the cursor.
LEMMA AnsweredCommitted ==
  ASSUME PublishInv, EntryOwned, PublishedCounts
  PROVE  published <= store.committed
<1>1. store.committed \in Nat /\ store.ring \in Seq(Entries)
  BY DEF PublishInv, TypeOK
<1>2. Answered \subseteq 1..store.committed
  <2> SUFFICES ASSUME NEW i \in Answered PROVE i \in 1..store.committed
    OBVIOUS
  <2>1. i \in 1..Len(store.ring) /\ pc[store.ring[i].event] = "ok"
    BY DEF Answered
  <2>2. store.ring[i].event \in Requests
    <3>1. store.ring[i] \in Entries
      BY <1>1, <2>1
    <3> QED
      BY <3>1 DEF Entries
  <2>3. seq[store.ring[i].event] = i /\ seq[store.ring[i].event] <= store.committed
    BY <2>1, <2>2 DEF EntryOwned, PublishInv, CursorsReached
  <2> QED
    BY <1>1, <2>1, <2>3
<1>3. IsFiniteSet(1..store.committed) /\ Cardinality(1..store.committed) = store.committed
  <2>1. CASE store.committed = 0
    <3>1. 1..store.committed = {}
      BY <2>1
    <3> QED
      BY <2>1, <3>1, FS_EmptySet
  <2>2. CASE store.committed # 0
    BY <1>1, <2>2, FS_Interval
  <2> QED
    BY <2>1, <2>2
<1> QED
  BY <1>2, <1>3, FS_Subset DEF PublishedCounts

\* The steps of a request leave the entries with their owners, and the counter
\* moves with the answers.
LEMMA OwnersPreserved ==
  ASSUME PublishInv, EntryOwned, PublishedCounts, NEW r \in Requests, RequestStep(r)
  PROVE  EntryOwned' /\ PublishedCounts'
<1> USE DEF Goto
<1>1. /\ store \in Stores /\ Len(store.ring) \in Nat /\ Len(store.ring) <= Capacity
      /\ store.seq \in Nat /\ store.ring \in Seq(Entries)
      /\ pc \in [Requests -> {"new", "rejected", "refused", "dispatch", "failed",
                              "commit", "advance", "count", "ok"}]
      /\ seq \in [Requests -> Nat] /\ published \in Nat
  BY DEF PublishInv, TypeOK, Stores
<1>2. \A i \in 1..Len(store.ring) : store.ring[i].event \in Requests
  <2>1. \A i \in 1..Len(store.ring) : store.ring[i] \in Entries
    BY <1>1
  <2> QED
    BY <2>1 DEF Entries
<1>3. CASE AppendStep(r) /\ ~Full(store)
  <2> DEFINE end == Len(store.ring) + 1
  <2>1. /\ Len(store'.ring) = end
        /\ store'.ring[end] = [sequence |-> store.seq + 1, event |-> r]
        /\ store'.seq = store.seq + 1
        /\ \A i \in 1..Len(store.ring) : store'.ring[i] = store.ring[i]
    BY <1>1, <1>3, AppendFields DEF AppendStep
  <2>2. /\ pc[r] = "new" /\ pc' = [pc EXCEPT ![r] = "dispatch"]
        /\ seq' = [seq EXCEPT ![r] = store.seq + 1] /\ published' = published
    BY <1>3, <2>1 DEF AppendStep, metricVars
  <2>3. store.seq + 1 = end
    BY <1>1, <1>3, CapacityAssumption DEF Full, PublishInv, StoreDense
  <2>4. \A i \in 1..Len(store.ring) : store.ring[i].event # r
    BY <2>2 DEF EntryOwned, Appended
  <2>5. 1..Len(store'.ring) = 1..Len(store.ring) \cup {end}
    BY <1>1, <2>1
  <2>6. store'.ring[end].event = r /\ pc'[r] = "dispatch" /\ seq'[r] = end
    BY <1>1, <2>1, <2>2, <2>3
  <2>7. \A i \in 1..Len(store.ring) :
          /\ store'.ring[i].event = store.ring[i].event
          /\ pc'[store.ring[i].event] = pc[store.ring[i].event]
          /\ seq'[store.ring[i].event] = seq[store.ring[i].event]
    BY <1>1, <1>2, <2>1, <2>2, <2>4
  <2>8. EntryOwned'
    BY <2>5, <2>6, <2>7 DEF EntryOwned, Appended
  <2>9. Answered' = Answered
    BY <2>5, <2>6, <2>7 DEF Answered
  <2> QED
    BY <2>2, <2>8, <2>9 DEF PublishedCounts
<1>4. CASE ~(AppendStep(r) /\ ~Full(store))
  <2>1. seq' = seq /\ store'.ring = store.ring
    <3>1. CASE CommitStep(r)
      BY <1>1, <3>1, CommitFields DEF CommitStep
    <3>2. CASE AppendStep(r)
      BY <1>1, <1>4, <3>2, AppendFields DEF AppendStep
    <3>3. CASE ~CommitStep(r) /\ ~AppendStep(r)
      BY <3>3 DEF RequestStep, Reject, DispatchOK, DispatchFails, Advance, Return
    <3> QED
      BY <3>1, <3>2, <3>3
  <2>2. \A q \in Requests : q # r => pc'[q] = pc[q]
    BY <1>1 DEF RequestStep, Reject, AppendStep, DispatchOK, DispatchFails, CommitStep, Advance,
         Return
  <2>3. Appended(r) => Appended(r)'
    <3>1. CASE CommitStep(r)
      <4>1. ASSUME Appended(r) PROVE ~CommitRefused(store, seq[r])
        <5>1. seq[r] \in 1..Len(store.ring)
          BY <4>1 DEF PublishInv, OwnEntry
        <5>2. Len(store.ring) <= store.seq
          BY DEF PublishInv, StoreDense
        <5> QED
          BY <1>1, <5>1, <5>2 DEF CommitRefused
      <4> QED
        BY <1>1, <3>1, <4>1 DEF CommitStep, Appended
    <3>2. CASE ~CommitStep(r)
      BY <1>1, <3>2 DEF RequestStep, Reject, AppendStep, DispatchOK, DispatchFails, Advance, Return,
           Appended
    <3> QED
      BY <3>1, <3>2
  <2>4. EntryOwned'
    BY <1>2, <2>1, <2>2, <2>3 DEF EntryOwned, Appended
  <2>5. CASE Return(r)
    <3>1. /\ pc[r] = "count" /\ pc' = [pc EXCEPT ![r] = "ok"] /\ published' = published + 1
      BY <2>5 DEF Return
    <3>2. seq[r] \in 1..Len(store.ring) /\ store.ring[seq[r]].event = r
      <4>1. Appended(r)
        BY <3>1 DEF Appended
      <4>2. /\ seq[r] \in 1..Len(store.ring)
            /\ store.ring[seq[r]] = [sequence |-> seq[r], event |-> r]
        BY <4>1 DEF PublishInv, OwnEntry
      <4> QED
        BY <4>2
    <3>3. \A i \in 1..Len(store.ring) : store.ring[i].event = r <=> i = seq[r]
      BY <3>2 DEF EntryOwned
    <3>4. \A i \in 1..Len(store.ring) :
            pc'[store.ring[i].event] = "ok" <=> (i = seq[r] \/ pc[store.ring[i].event] = "ok")
      BY <1>1, <1>2, <3>1, <3>3
    <3>5. Answered' = Answered \cup {seq[r]} /\ seq[r] \notin Answered
      BY <2>1, <3>1, <3>2, <3>4 DEF Answered
    <3> QED
      BY <2>4, <3>1, <3>5, FS_AddElement DEF PublishedCounts
  <2>6. CASE ~Return(r)
    <3>1. published' = published /\ pc[r] # "ok" /\ pc'[r] # "ok"
      BY <1>1, <2>6 DEF RequestStep, Reject, AppendStep, DispatchOK, DispatchFails, CommitStep,
           Advance, metricVars
    <3>2. Answered' = Answered
      BY <1>2, <2>1, <2>2, <3>1 DEF Answered
    <3> QED
      BY <2>4, <3>1, <3>2 DEF PublishedCounts
  <2> QED
    BY <2>5, <2>6
<1> QED
  BY <1>3, <1>4

LEMMA CountPreserved ==
  ASSUME CountInv, PublishInv', [Next]_vars
  PROVE  CountInv'
<1>1. /\ store.committed \in Nat /\ store'.committed \in Nat /\ published \in Nat
      /\ report \in [published : Nat, next : Nat, pending : Nat, committed : Nat,
                     retained : Nat, atStart : Nat]
      /\ store.seq \in Nat /\ store.ring \in Seq(Entries) /\ store \in Stores
      /\ Len(store.ring) <= Capacity /\ seq \in [Requests -> Nat]
  BY DEF CountInv, PublishInv, TypeOK, Stores
<1>2. published <= store.committed
  BY AnsweredCommitted DEF CountInv
<1>3. CASE UNCHANGED vars
  BY <1>3 DEF CountInv, EntryOwned, PublishedCounts, Answered, CountSoFar, Appended, vars,
       requestVars, metricVars, statusVars
<1>4. ASSUME NEW r \in Requests, RequestStep(r) PROVE CountInv'
  <2>1. EntryOwned' /\ PublishedCounts'
    BY <1>4, OwnersPreserved DEF CountInv
  <2>2. report' = report /\ reader' = reader
    BY <1>4 DEF RequestStep, Reject, AppendStep, DispatchOK, DispatchFails, CommitStep, Advance,
         Return, statusVars
  <2>3. store.committed <= store'.committed
    <3>1. CASE CommitStep(r)
      BY <1>1, <3>1, CommitFields DEF CommitStep
    <3>2. CASE AppendStep(r)
      <4>1. store'.committed = store.committed
        BY <1>1, <3>2, AppendFields DEF AppendStep
      <4> QED
        BY <1>1, <4>1
    <3>3. CASE ~CommitStep(r) /\ ~AppendStep(r)
      BY <1>1, <1>4, <3>3 DEF RequestStep, Reject, DispatchOK, DispatchFails, Advance, Return
    <3> QED
      BY <3>1, <3>2, <3>3
  <2>4. CountSoFar'
    <3>1. report.published \in Nat
      BY <1>1
    <3> QED
      BY <1>1, <2>2, <2>3, <3>1 DEF CountInv, CountSoFar
  <2> QED
    BY <2>1, <2>4 DEF CountInv
<1>5. CASE StatusStep
  <2> USE DEF ReadStep
  <2>1. UNCHANGED <<store, progress, metricVars, requestVars>>
    BY <1>5 DEF StatusStep, ReadMetrics, ReadNext, ReadFirstPending, ReadPending, ReadCommitted,
         ReadRetained, Respond
  <2>2. EntryOwned' /\ PublishedCounts'
    BY <2>1 DEF CountInv, EntryOwned, PublishedCounts, Answered, Appended, requestVars, metricVars
  <2>3. CountSoFar'
    <3> USE DEF CountInv, CountSoFar
    <3>1. CASE ReadMetrics
      BY <1>2, <2>1, <3>1 DEF ReadMetrics, EmptyReport
    <3>2. CASE ReadNext
      BY <1>1, <2>1, <3>2 DEF ReadNext
    <3>3. CASE ReadFirstPending
      BY <1>1, <2>1, <3>3 DEF ReadFirstPending
    <3>4. CASE ReadPending
      BY <1>1, <2>1, <3>4 DEF ReadPending
    <3>5. CASE ReadCommitted
      BY <1>1, <2>1, <3>5 DEF ReadCommitted
    <3>6. CASE ReadRetained
      BY <1>1, <2>1, <3>6 DEF ReadRetained
    <3>7. CASE Respond
      BY <3>7 DEF Respond
    <3> QED
      BY <1>5, <3>1, <3>2, <3>3, <3>4, <3>5, <3>6, <3>7 DEF StatusStep
  <2> QED
    BY <2>2, <2>3 DEF CountInv
<1> QED
  BY <1>3, <1>4, <1>5 DEF Next

THEOREM CountInvariant == Spec => []CountInv
<1>1. Init => EntryOwned /\ PublishedCounts /\ CountSoFar
  <2> SUFFICES ASSUME Init PROVE EntryOwned /\ PublishedCounts /\ CountSoFar
    OBVIOUS
  <2>1. Len(store.ring) = 0
    BY DEF Init, NewStore
  <2>2. Answered = {}
    BY <2>1 DEF Answered
  <2> QED
    BY <2>1, <2>2, FS_EmptySet DEF Init, EntryOwned, PublishedCounts, CountSoFar
<1>2. CountInv /\ PublishInv' /\ [Next]_vars => CountInv'
  BY CountPreserved
<1>3. CountInv <=> PublishInv /\ EntryOwned /\ PublishedCounts /\ CountSoFar
  BY DEF CountInv
<1> QED
  BY <1>1, <1>2, <1>3, PublishInvariant, PTL DEF Spec

\* server.go:109-110: a report never counts more publications than its cursor
\* covers, for every number of requests.
THEOREM ReportCountsAlways == Spec => []ReportCountsCommitted
<1>1. CountInv => ReportCountsCommitted
  BY DEF CountInv, CountSoFar, ReportCountsCommitted
<1> QED
  BY <1>1, CountInvariant, PTL

\* publish.go:45-49: whatever requests fail or overtake each other, the commit cursor
\* stands at an event that was delivered.
THEOREM CursorDeliveredAlways == Spec => []CursorIsDelivered
<1>1. Init => CursorIsDelivered
  BY DEF Init, NewStore, CursorIsDelivered
<1>2. PublishInv /\ CursorIsDelivered /\ [Next]_vars => CursorIsDelivered'
  <2> SUFFICES ASSUME PublishInv, CursorIsDelivered, [Next]_vars PROVE CursorIsDelivered'
    OBVIOUS
  <2>1. TypeOK /\ store \in Stores /\ store.committed \in Nat
    BY DEF PublishInv, TypeOK, Stores
  <2>2. CASE UNCHANGED <<store, requestVars>>
    BY <2>2 DEF CursorIsDelivered, requestVars
  <2>3. CASE StatusStep
    BY <2>2, <2>3 DEF StatusStep, ReadStep, ReadMetrics, ReadNext, ReadFirstPending, ReadPending,
       ReadCommitted, ReadRetained, Respond
  <2>4. ASSUME NEW r \in Requests, RequestStep(r), ~CommitStep(r)
        PROVE  CursorIsDelivered'
    <3>1. store'.committed = store.committed
      <4>1. AppendEvent(store, r).committed = store.committed
        BY <2>1, AppendFields DEF TypeOK
      <4>2. store' = store \/ store' = AppendEvent(store, r)
        BY <2>4 DEF RequestStep, Reject, AppendStep, DispatchOK, DispatchFails, Advance, Return
      <4> QED
        BY <4>1, <4>2
    <3>2. \A q \in Requests :
            pc[q] \in {"advance", "count", "ok"} =>
              seq'[q] = seq[q] /\ pc'[q] \in {"advance", "count", "ok"}
      BY <2>1, <2>4 DEF RequestStep, Reject, AppendStep, DispatchOK, DispatchFails, Advance,
         Return, Goto, TypeOK
    <3> QED
      BY <3>1, <3>2 DEF CursorIsDelivered
  <2>5. ASSUME NEW r \in Requests, CommitStep(r)
        PROVE  CursorIsDelivered'
    <3>1. seq[r] \in Nat /\ store'.committed \in {store.committed, seq[r]}
      BY <2>1, <2>5, CommitFields DEF CommitStep, TypeOK
    <3>2. /\ seq' = seq
          /\ ~CommitRefused(store, seq[r])
      <4>1. seq[r] \in 1..Len(store.ring) /\ Len(store.ring) <= store.seq
        BY <2>5 DEF CommitStep, PublishInv, OwnEntry, Appended, StoreDense
      <4> QED
        BY <2>1, <2>5, <4>1 DEF CommitStep, CommitRefused, TypeOK
    <3>3. pc' = [pc EXCEPT ![r] = "advance"]
      BY <2>5, <3>2 DEF CommitStep, Goto
    <3>4. CASE store'.committed = seq[r]
      BY <2>1, <3>2, <3>3, <3>4 DEF CursorIsDelivered, TypeOK
    <3>5. CASE store'.committed = store.committed
      BY <2>1, <2>5, <3>2, <3>3, <3>5 DEF CursorIsDelivered, CommitStep, TypeOK
    <3> QED
      BY <3>1, <3>4, <3>5
  <2> QED
    BY <2>2, <2>3, <2>4, <2>5 DEF Next, vars, requestVars
<1> QED
  BY <1>1, <1>2, PublishInvariant, PTL DEF Spec
-------------------------------------------------------------------------------
(* The pipeline implements the abstract log *)

\* On a store without gaps, the log a replay sees is the committed part of the ring.
LEMMA VisibleDense ==
  ASSUME NEW st \in Stores,
         \A i \in 1..Len(st.ring) : st.ring[i].sequence = i,
         st.committed <= Len(st.ring),
         NEW n \in 1..st.committed
  PROVE  Get(st, n)[1].event = st.ring[n].event /\ st.ring[n].event \in Requests
<1>1. st.ring \in Seq(Entries) /\ st.committed \in Nat
  BY DEF Stores
<1>2. n \in 1..Len(st.ring)
  BY <1>1
<1>3. Get(st, n) = <<st.ring[n]>>
  BY <1>1, <1>2, GetDense
<1>4. st.ring[n] \in Entries
  BY <1>1, <1>2
<1> QED
  BY <1>3, <1>4 DEF Entries

\* The same for the state before and after a step.
LEMMA VisibleIs ==
  ASSUME PublishInv
  PROVE  /\ Visible \in Seq(Requests) /\ Len(Visible) = store.committed
         /\ \A n \in 1..store.committed : Visible[n] = store.ring[n].event
<1>1. /\ store \in Stores /\ store.committed <= Len(store.ring) /\ store.committed \in Nat
      /\ \A i \in 1..Len(store.ring) : store.ring[i].sequence = i
  BY DEF PublishInv, TypeOK, StoreDense, Stores
<1>2. \A n \in 1..store.committed :
        Get(store, n)[1].event = store.ring[n].event /\ store.ring[n].event \in Requests
  BY <1>1, VisibleDense
<1> QED
  BY <1>1, <1>2 DEF Visible

LEMMA VisibleWillBe ==
  ASSUME PublishInv'
  PROVE  /\ Visible' \in Seq(Requests) /\ Len(Visible') = store'.committed
         /\ \A n \in 1..store'.committed : Visible'[n] = store'.ring[n].event
<1>1. /\ store' \in Stores /\ store'.committed <= Len(store'.ring) /\ store'.committed \in Nat
      /\ \A i \in 1..Len(store'.ring) : store'.ring[i].sequence = i
  BY DEF PublishInv, TypeOK, StoreDense, Stores
<1>2. \A n \in 1..store'.committed :
        Get(store', n)[1].event = store'.ring[n].event /\ store'.ring[n].event \in Requests
  BY <1>1, VisibleDense
<1> QED
  BY <1>1, <1>2 DEF Visible

LEMMA LogInit == Init => Log!Init
<1> SUFFICES ASSUME Init PROVE Log!Init
  OBVIOUS
<1>1. Visible = <<>>
  BY DEF Init, NewStore, Visible
<1>2. Told = {}
  BY DEF Init, Told
<1> QED
  BY <1>1, <1>2 DEF Log!Init

\* A commit that moves the cursor reveals, the return of a sequence tells, and
\* nothing else changes what clients see.
LEMMA LogStep == CountInv /\ CountInv' /\ [Next]_vars => [Log!Next]_Log!logVars
<1> SUFFICES ASSUME CountInv, CountInv', [Next]_vars PROVE [Log!Next]_Log!logVars
  OBVIOUS
<1>0. PublishInv /\ PublishInv' /\ EntryOwned'
  BY DEF CountInv
<1>1. /\ store.committed \in Nat /\ store'.committed \in Nat
      /\ store.committed <= Len(store.ring) /\ store'.committed <= Len(store'.ring)
      /\ Len(store.ring) \in Nat /\ Len(store'.ring) \in Nat
      /\ pc \in [Requests -> {"new", "rejected", "refused", "dispatch", "failed",
                              "commit", "advance", "count", "ok"}]
  <2>1. /\ store \in Stores /\ store' \in Stores
        /\ store.committed <= Len(store.ring) /\ store'.committed <= Len(store'.ring)
        /\ pc \in [Requests -> {"new", "rejected", "refused", "dispatch", "failed",
                                "commit", "advance", "count", "ok"}]
    BY <1>0 DEF PublishInv, TypeOK, StoreDense, Stores
  <2>2. \A st \in Stores : st.committed \in Nat /\ Len(st.ring) \in Nat
    BY DEF Stores
  <2> QED
    BY <2>1, <2>2
<1>2. /\ store.committed <= store'.committed
      /\ \A n \in 1..store.committed : store'.ring[n] = store.ring[n]
  <2>1. /\ store.committed <= store'.committed
        /\ \A n \in 1..Len(store.ring) : store'.ring[n] = store.ring[n]
    BY <1>0, RingGrows
  <2> QED
    BY <1>1, <2>1
<1>3. /\ Visible' \in Seq(Requests) /\ Len(Visible') = store'.committed
      /\ \A n \in 1..store'.committed : Visible'[n] = store'.ring[n].event
  BY <1>0, VisibleWillBe
<1>4. /\ Visible \in Seq(Requests) /\ Len(Visible) = store.committed
      /\ \A n \in 1..store.committed : Visible[n] = store.ring[n].event
  BY <1>0, VisibleIs
<1>5. \A n \in 1..store.committed : Visible'[n] = Visible[n]
  <2> SUFFICES ASSUME NEW n \in 1..store.committed PROVE Visible'[n] = Visible[n]
    OBVIOUS
  <2>1. n \in 1..store'.committed
    BY <1>1, <1>2
  <2>2. Visible'[n] = store'.ring[n].event /\ Visible[n] = store.ring[n].event
    BY <1>3, <1>4, <2>1
  <2> QED
    BY <1>2, <2>2
<1>6. \A i, j \in 1..store'.committed : Visible'[i] = Visible'[j] => i = j
  <2>1. \A i \in 1..store'.committed : seq'[Visible'[i]] = i
    BY <1>0, <1>1, <1>3 DEF EntryOwned
  <2> QED
    BY <2>1
<1>7. CASE store'.committed > store.committed
  <2>1. PICK r \in Requests : CommitStep(r)
    <3>1. ASSUME NEW r \in Requests, AppendStep(r) PROVE FALSE
      <4>1. store \in Stores /\ Len(store.ring) <= Capacity
        BY <1>0 DEF PublishInv, TypeOK, Stores
      <4>2. AppendEvent(store, r).committed = store.committed
        BY <4>1, AppendFields
      <4> QED
        BY <1>1, <1>7, <3>1, <4>2 DEF AppendStep
    <3>2. store' # store
      BY <1>1, <1>7
    <3> QED
      BY <3>1, <3>2 DEF Next, RequestStep, Reject, DispatchOK, DispatchFails, Advance, Return,
         StatusStep, ReadStep, ReadMetrics, ReadNext, ReadFirstPending, ReadPending,
         ReadCommitted, ReadRetained, Respond, vars
  <2>2. Told' = Told
    BY <1>1, <2>1 DEF Told, CommitStep, Goto
  <2>3. Log!Extension(Visible, Visible')
    BY <1>1, <1>3, <1>4, <1>5, <1>6, <1>7 DEF Log!Extension
  <2> QED
    BY <2>2, <2>3 DEF Log!Reveal, Log!Next
<1>8. CASE store'.committed = store.committed
  <2>1. Visible' = Visible
    <3>1. /\ Visible = [n \in 1..Len(Visible) |-> Visible[n]]
          /\ Visible' = [n \in 1..Len(Visible') |-> Visible'[n]]
      BY <1>3, <1>4
    <3> QED
      BY <1>3, <1>4, <1>5, <1>8, <3>1
  <2>2. ASSUME NEW r \in Requests, Return(r) PROVE Log!Next
    <3>1. /\ pc[r] = "count" /\ pc' = [pc EXCEPT ![r] = "ok"]
      BY <2>2 DEF Return, Goto
    <3>2. r \notin Told /\ Told' = Told \cup {r}
      BY <1>1, <3>1 DEF Told
    <3>3. /\ seq[r] \in 1..Len(store.ring) /\ seq[r] <= store.committed
          /\ store.ring[seq[r]] = [sequence |-> seq[r], event |-> r]
      BY <1>0, <3>1 DEF PublishInv, OwnEntry, CursorsReached, Appended
    <3>4. seq[r] \in 1..Len(Visible) /\ Visible[seq[r]] = r
      BY <1>1, <1>4, <3>3
    <3> QED
      BY <2>1, <3>2, <3>4 DEF Log!Tell, Log!Next
  <2>3. CASE \A r \in Requests : ~Return(r)
    <3>1. \A r \in Requests : pc'[r] = "ok" <=> pc[r] = "ok"
      BY <1>1, <2>3 DEF Next, RequestStep, Reject, AppendStep, DispatchOK, DispatchFails,
         CommitStep, Advance, StatusStep, ReadStep, ReadMetrics, ReadNext, ReadFirstPending,
         ReadPending, ReadCommitted, ReadRetained, Respond, vars, requestVars, Goto
    <3> QED
      BY <2>1, <3>1 DEF Told, Log!logVars
  <2> QED
    BY <2>2, <2>3
<1> QED
  BY <1>1, <1>2, <1>7, <1>8

\* event.go:36-79, publish.go:24-57: to its clients the pipeline is an append-only
\* log with every event in one place, for any number of requests and any capacity.
THEOREM LogRefinement == Spec => ImplementsLog
<1> QED
  BY LogInit, LogStep, CountInvariant, PTL DEF Spec, ImplementsLog, Log!Spec
===============================================================================
