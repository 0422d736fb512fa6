----------------------------- MODULE SessionProofs -----------------------------
(***************************************************************************)
(* Proofs about Session: what holds for any number of connections that     *)
(* join or replace each other, and what holds until the first takeover.    *)
(***************************************************************************)
EXTENDS Session, TLAPS

USE DEF historyVars

\* The event whose Deliver holds s.mu is on the wire already.
RecordingWasSent == recording # 0 => recording \in Sent(cur, {"live"})

\* Sequences start at 1, also those a replay writes.
ReplayFromOne == \A c \in Conns : pc[c] = "write" => next[c] >= 1

\* A flush that has read its writer has an event to enqueue.
FlushHasEvent ==
  \A c \in Conns :
    /\ target[c] # NoConn => flush[c] # <<>>
    /\ flush[c] # <<>> => pc[c] = "flush"

LocalInv == TypeOK /\ ReplayFromOne /\ FlushHasEvent

SessionInv == LocalInv /\ RecordingWasSent /\ PendingWereSent /\ BufferHasFlusher

Outputs == Seq([seq : Seqs, kind : {"live", "replay", "flushed"}])
-------------------------------------------------------------------------------
\* What Append, Head and Tail do to the members of a sequence.
LEMMA RangeOfQueue ==
  ASSUME NEW S, NEW q \in Seq(S)
  PROVE  /\ \A x \in S : Range(Append(q, x)) = Range(q) \cup {x}
         /\ q # <<>> => Range(q) = {Head(q)} \cup Range(Tail(q))
<1>1. ASSUME NEW x \in S PROVE Range(Append(q, x)) = Range(q) \cup {x}
  <2>1. /\ DOMAIN q = 1..Len(q) /\ DOMAIN Append(q, x) = 1..(Len(q) + 1) /\ Len(q) \in Nat
        /\ \A i \in 1..Len(q) : Append(q, x)[i] = q[i]
        /\ Append(q, x)[Len(q) + 1] = x
    OBVIOUS
  <2>2. \A i \in 1..(Len(q) + 1) : i \in 1..Len(q) \/ i = Len(q) + 1
    BY <2>1
  <2>3. Range(Append(q, x)) \subseteq Range(q) \cup {x}
    BY <2>1, <2>2 DEF Range
  <2>4. Range(q) \subseteq Range(Append(q, x)) /\ x \in Range(Append(q, x))
    BY <2>1 DEF Range
  <2> QED
    BY <2>3, <2>4
<1>2. ASSUME q # <<>> PROVE Range(q) = {Head(q)} \cup Range(Tail(q))
  <2>1. /\ DOMAIN q = 1..Len(q) /\ Len(q) \in Nat \ {0} /\ Head(q) = q[1]
        /\ DOMAIN Tail(q) = 1..(Len(q) - 1)
        /\ \A i \in 1..(Len(q) - 1) : Tail(q)[i] = q[i + 1]
    BY <1>2
  <2>2. \A i \in 1..Len(q) : i = 1 \/ (i - 1 \in 1..(Len(q) - 1) /\ Tail(q)[i - 1] = q[i])
    BY <2>1
  <2>3. \A i \in 1..(Len(q) - 1) : i + 1 \in 1..Len(q)
    BY <2>1
  <2>4. Range(q) \subseteq {Head(q)} \cup Range(Tail(q))
    <3> SUFFICES ASSUME NEW i \in 1..Len(q) PROVE q[i] \in {Head(q)} \cup Range(Tail(q))
      BY <2>1 DEF Range
    <3>1. CASE i = 1
      BY <2>1, <3>1
    <3>2. CASE i # 1
      <4>1. i - 1 \in DOMAIN Tail(q) /\ Tail(q)[i - 1] = q[i]
        BY <2>1, <2>2, <3>2
      <4> QED
        BY <4>1 DEF Range
    <3> QED
      BY <3>1, <3>2
  <2>5. {Head(q)} \cup Range(Tail(q)) \subseteq Range(q)
    BY <2>1, <2>3 DEF Range
  <2> QED
    BY <2>4, <2>5
<1> QED
  BY <1>1, <1>2

\* What an accepted event adds to, and never takes from, a writer's output.
LEMMA SentGrows ==
  ASSUME TypeOK, NEW w \in Conns, NEW n \in Seqs, NEW k \in {"live", "replay", "flushed"},
         Accept(w, n, k)
  PROVE  /\ out' \in [Conns -> Outputs]
         /\ Range(out'[w]) = Range(out[w]) \cup {Entry(n, k)}
         /\ \A c \in Conns : c # w => out'[c] = out[c]
<1>1. out \in [Conns -> Outputs] /\ Entry(n, k) \in [seq : Seqs, kind : {"live", "replay", "flushed"}]
  BY DEF TypeOK, Outputs, Entry
<1>2. out' = [out EXCEPT ![w] = Append(out[w], Entry(n, k))]
  BY DEF Accept
<1>3. out' \in [Conns -> Outputs]
  <2>1. out[w] \in Outputs
    BY <1>1
  <2>2. Append(out[w], Entry(n, k)) \in Outputs
    BY <1>1, <2>1 DEF Outputs
  <2> QED
    BY <1>1, <1>2, <2>2
<1>4. Range(Append(out[w], Entry(n, k))) = Range(out[w]) \cup {Entry(n, k)}
  <2> DEFINE Entries == [seq : Seqs, kind : {"live", "replay", "flushed"}]
  <2>1. out[w] \in Seq(Entries) /\ Entry(n, k) \in Entries
    BY <1>1 DEF Outputs
  <2> HIDE DEF Entries
  <2>2. \A x \in Entries : Range(Append(out[w], x)) = Range(out[w]) \cup {x}
    BY <2>1, RangeOfQueue
  <2> QED
    BY <2>1, <2>2
<1>5. \A c \in Conns : out'[c] = IF c = w THEN Append(out[w], Entry(n, k)) ELSE out[c]
  BY <1>1, <1>2
<1> QED
  BY <1>1, <1>3, <1>4, <1>5

LEMMA InitInv == Init => SessionInv
<1> SUFFICES ASSUME Init PROVE SessionInv
  OBVIOUS
<1>1. TypeOK
  <2>1. buffer \in Seq(Seqs)
    BY DEF Init
  <2>2. out \in [Conns -> Seq([seq : Seqs, kind : {"live", "replay", "flushed"}])]
    BY DEF Init
  <2>3. flush \in [Conns -> Seq(Seqs)]
    BY DEF Init
  <2>4. /\ pc \in [Conns -> {"absent", "found", "attached", "resume", "fetch", "write", "end",
                             "flush", "done"}]
        /\ event \in [Seqs -> {"none", "dispatch", "commit", "done", "failed"}]
        /\ target \in [Conns -> Conns \cup {NoConn}]
    BY DEF Init
  <2>5. tracker \in [acked : 0..MaxSeq, pending : SUBSET Seqs]
    BY MaxSeqAssumption DEF Init, NewTracker
  <2>6. 0 \in 0..MaxSeq /\ 0 \in 0..(MaxSeq + 1) /\ 0 \in 0..(MaxSeq + 2)
    BY MaxSeqAssumption
  <2> QED
    BY <2>1, <2>2, <2>3, <2>4, <2>5, <2>6 DEF Init, TypeOK
<1>2. ReplayFromOne /\ FlushHasEvent
  BY DEF Init, ReplayFromOne, FlushHasEvent
<1>3. RecordingWasSent /\ PendingWereSent /\ BufferHasFlusher
  BY DEF Init, RecordingWasSent, PendingWereSent, BufferHasFlusher, NewTracker
<1> QED
  BY <1>1, <1>2, <1>3 DEF SessionInv, LocalInv
-------------------------------------------------------------------------------
(* The types, and the goroutines' own variables *)

\* LocalInv is kept by the steps of publishers and by confirmations.
LEMMA PublishTypes ==
  ASSUME LocalInv, NEW n \in Seqs, PublishStep(n) \/ Confirm(n)
  PROVE  LocalInv'
<1> USE DEF LocalInv, ReplayFromOne, FlushHasEvent, storeVars, sessionVars, writerVars, replayVars
<1>1. UNCHANGED <<shut, pc, from, next, limit, flush, target, closer, dropped, first, cur, state,
                  replaying>>
  BY DEF PublishStep, AppendEvent, DeliverRefused, DeliverSkipped, DeliverBuffered,
         DeliverAccepted, DeliverRecord, Commit, Confirm
<1>2. event' \in [Seqs -> {"none", "dispatch", "commit", "done", "failed"}]
  BY DEF TypeOK, PublishStep, AppendEvent, DeliverRefused, DeliverSkipped, DeliverBuffered,
         DeliverAccepted, DeliverRecord, Commit, Confirm
<1>3. tracker' \in [acked : 0..MaxSeq, pending : SUBSET Seqs]
  <2>1. /\ tracker \in [acked : 0..MaxSeq, pending : SUBSET Seqs]
        /\ tracker' \in {tracker, [tracker EXCEPT !.pending = tracker.pending \cup {n}],
                        Confirmed(tracker, n)}
    BY DEF TypeOK, PublishStep, AppendEvent, DeliverRefused, DeliverSkipped, DeliverBuffered,
           DeliverAccepted, DeliverRecord, Commit, Confirm, Record
  <2>2. n \in 0..MaxSeq
    BY MaxSeqAssumption DEF Seqs
  <2>3. Confirmed(tracker, n) \in [acked : 0..MaxSeq, pending : SUBSET Seqs]
    BY <2>1, <2>2 DEF Confirmed
  <2>4. [tracker EXCEPT !.pending = tracker.pending \cup {n}]
          \in [acked : 0..MaxSeq, pending : SUBSET Seqs]
    BY <2>1
  <2> QED
    BY <2>1, <2>3, <2>4
<1>4. recording' \in 0..MaxSeq /\ committed' \in 0..MaxSeq
  <2>1. n \in 0..MaxSeq /\ 0 \in 0..MaxSeq
    BY MaxSeqAssumption DEF Seqs
  <2>2. recording' \in {recording, n, 0} /\ committed' \in {committed, n}
    BY DEF PublishStep, AppendEvent, DeliverRefused, DeliverSkipped, DeliverBuffered,
           DeliverAccepted, DeliverRecord, Commit, Confirm
  <2> QED
    BY <2>1, <2>2 DEF TypeOK
<1>5. buffer' \in Seq(Seqs)
  <2>1. buffer \in Seq(Seqs) /\ (buffer' = buffer \/ buffer' = Append(buffer, n))
    BY DEF TypeOK, PublishStep, AppendEvent, DeliverRefused, DeliverSkipped, DeliverBuffered,
           DeliverAccepted, DeliverRecord, Commit, Confirm
  <2> QED
    BY <2>1
<1>6. out' \in [Conns -> Outputs]
  <2>1. CASE DeliverAccepted(n)
    BY <2>1, SentGrows DEF DeliverAccepted, TypeOK
  <2>2. CASE ~DeliverAccepted(n)
    <3>1. out' = out
      BY <2>2 DEF PublishStep, AppendEvent, DeliverRefused, DeliverSkipped, DeliverBuffered,
                  DeliverRecord, Commit, Confirm
    <3> QED
      BY <3>1 DEF TypeOK, Outputs
  <2> QED
    BY <2>1, <2>2
<1>7. TypeOK'
  BY <1>1, <1>2, <1>3, <1>4, <1>5, <1>6 DEF TypeOK, Outputs
<1> QED
  BY <1>1, <1>7

LEMMA ConnectionTypes ==
  ASSUME LocalInv, NEW c \in Conns, ConnectionStep(c)
  PROVE  LocalInv'
<1> USE DEF LocalInv, ReplayFromOne, FlushHasEvent, storeVars, sessionVars, writerVars, Goto
<1>1. CASE FindSession(c) \/ BindFinds(c)
  BY <1>1 DEF FindSession, BindFinds, TypeOK
<1>2. CASE Reconnect(c)
  <2>1. <<>> \in Seq(Seqs) /\ NewTracker \in [acked : 0..MaxSeq, pending : SUBSET Seqs]
    BY MaxSeqAssumption DEF NewTracker
  <2> QED
    BY <1>2, <2>1 DEF Reconnect, TypeOK
<1>3. CASE BeginReplay(c)
  <2>1. <<>> \in Seq(Seqs)
    OBVIOUS
  <2> QED
    BY <1>3, <2>1 DEF BeginReplay, TypeOK
<1>4. CASE ResumeFrom(c)
  <2>0. tracker.acked \in 0..MaxSeq
    BY DEF TypeOK
  <2>1. tracker.acked + 1 \in 0..(MaxSeq + 1)
    BY <2>0, MaxSeqAssumption
  <2> QED
    BY <1>4, <2>1 DEF ResumeFrom, TypeOK
<1>5. CASE FetchSince(c)
  <2>0. from[c] \in 0..(MaxSeq + 1)
    BY DEF TypeOK
  <2>1. from[c] + 1 \in 0..(MaxSeq + 2) /\ from[c] + 1 >= 1
    BY <2>0, MaxSeqAssumption
  <2> QED
    BY <1>5, <2>1 DEF FetchSince, TypeOK
<1>6. CASE ReplayWrite(c)
  <2>0. /\ next[c] \in 0..(MaxSeq + 2) /\ limit[c] \in 0..MaxSeq
        /\ next[c] <= limit[c] /\ next[c] >= 1
    BY <1>6 DEF ReplayWrite, TypeOK
  <2>1. next[c] \in Seqs /\ next[c] + 1 \in 0..(MaxSeq + 2) /\ next[c] + 1 >= 1
    BY <2>0, MaxSeqAssumption DEF Seqs
  <2>2. out' \in [Conns -> Outputs]
    <3>1. cur \in Conns
      BY DEF TypeOK
    <3> QED
      BY <1>6, <2>1, <3>1, SentGrows DEF ReplayWrite
  <2>3. /\ next' \in [Conns -> 0..(MaxSeq + 2)]
        /\ \A d \in Conns : pc'[d] = "write" => next'[d] >= 1
    BY <1>6, <2>1 DEF ReplayWrite, TypeOK
  <2>4. UNCHANGED <<sessionVars, shut, storeVars, pc, from, limit, flush, target, closer, historyVars>>
    BY <1>6 DEF ReplayWrite
  <2> QED
    BY <2>2, <2>3, <2>4 DEF TypeOK, Outputs
<1>7. CASE ReplayReturns(c)
  <2>1. 0 \in 0..MaxSeq /\ 0 \in 0..(MaxSeq + 1) /\ 0 \in 0..(MaxSeq + 2)
    BY MaxSeqAssumption
  <2> QED
    BY <1>7, <2>1 DEF ReplayReturns, DropLocals, TypeOK
<1>8. CASE EndReplay(c)
  <2>1. <<>> \in Seq(Seqs) /\ target[c] = NoConn
    BY <1>8 DEF EndReplay
  <2> QED
    BY <1>8, <2>1 DEF EndReplay, TypeOK
<1>9. CASE FlushReads(c)
  BY <1>9 DEF FlushReads, TypeOK
<1>10. CASE Flush(c)
  <2>1. /\ flush[c] \in Seq(Seqs) /\ flush[c] # <<>> /\ target[c] \in Conns
    BY <1>10 DEF Flush, TypeOK
  <2>2. Head(flush[c]) \in Seqs /\ Tail(flush[c]) \in Seq(Seqs)
    BY <2>1
  <2>3. out' \in [Conns -> Outputs]
    <3>1. CASE Accept(target[c], Head(flush[c]), "flushed")
      BY <2>1, <2>2, <3>1, SentGrows
    <3>2. CASE out' = out
      BY <3>2 DEF TypeOK, Outputs
    <3> QED
      BY <1>10, <3>1, <3>2 DEF Flush
  <2>4. dropped' \subseteq Seqs
    BY <1>10, <2>2 DEF Flush, TypeOK
  <2> QED
    BY <1>10, <2>1, <2>2, <2>3, <2>4 DEF Flush, TypeOK, Outputs
<1>11. CASE FlushEnds(c)
  BY <1>11 DEF FlushEnds, TypeOK
<1> QED
  BY <1>1, <1>2, <1>3, <1>4, <1>5, <1>6, <1>7, <1>8, <1>9, <1>10, <1>11
     DEF ConnectionStep, ReplayStep

LEMMA CloseTypes ==
  ASSUME LocalInv, CloseStep
  PROVE  LocalInv'
<1> USE DEF LocalInv, ReplayFromOne, FlushHasEvent, storeVars, sessionVars, writerVars, replayVars
<1>1. <<>> \in Seq(Seqs)
  OBVIOUS
<1> QED
  BY <1>1 DEF CloseStep, Suspect, BeginClose, EvictShutdown, ReadFails, FinishClose,
              ReleaseWriter, TypeOK

LEMMA LocalPreserved == LocalInv /\ [Next]_vars => LocalInv'
<1>1. LocalInv /\ UNCHANGED vars => LocalInv'
  BY DEF vars, sessionVars, writerVars, storeVars, replayVars, LocalInv, TypeOK, ReplayFromOne,
         FlushHasEvent
<1> QED
  BY <1>1, PublishTypes, ConnectionTypes, CloseTypes DEF Next
-------------------------------------------------------------------------------
(* What the writers have accepted *)

\* What an accepted event adds to the sequences sent.
LEMMA SentAfter ==
  ASSUME TypeOK, NEW w \in Conns, NEW n \in Seqs, NEW k \in {"live", "replay", "flushed"},
         Accept(w, n, k), NEW K
  PROVE  /\ \A c \in Conns : Sent(c, K) \subseteq Sent(c, K)'
         /\ k \in K => n \in Sent(w, K)'
<1>1. /\ Range(out'[w]) = Range(out[w]) \cup {Entry(n, k)}
      /\ \A c \in Conns : c # w => out'[c] = out[c]
  BY SentGrows
<1>2. Entry(n, k).kind = k /\ Entry(n, k).seq = n
  BY DEF Entry
<1> QED
  BY <1>1, <1>2 DEF Sent

\* Nothing an output holds is ever taken back.
LEMMA SentStays ==
  ASSUME LocalInv, Next, NEW K
  PROVE  \A c \in Conns : Sent(c, K) \subseteq Sent(c, K)'
<1>1. ASSUME NEW n \in Seqs, DeliverAccepted(n) PROVE \A c \in Conns : Sent(c, K) \subseteq Sent(c, K)'
  BY <1>1, SentAfter DEF LocalInv, TypeOK, DeliverAccepted
<1>2. ASSUME NEW d \in Conns, ReplayWrite(d) PROVE \A c \in Conns : Sent(c, K) \subseteq Sent(c, K)'
  <2>0. /\ next[d] \in 0..(MaxSeq + 2) /\ limit[d] \in 0..MaxSeq
        /\ next[d] <= limit[d] /\ next[d] >= 1
    BY <1>2 DEF ReplayWrite, LocalInv, TypeOK, ReplayFromOne
  <2>1. next[d] \in Seqs /\ cur \in Conns
    BY <2>0, MaxSeqAssumption DEF LocalInv, TypeOK, Seqs
  <2> QED
    BY <1>2, <2>1, SentAfter DEF LocalInv, ReplayWrite
<1>3. ASSUME NEW d \in Conns, Flush(d) PROVE \A c \in Conns : Sent(c, K) \subseteq Sent(c, K)'
  <2>1. flush[d] \in Seq(Seqs) /\ flush[d] # <<>> /\ target[d] \in Conns
    BY <1>3 DEF Flush, LocalInv, TypeOK, FlushHasEvent
  <2>2. Head(flush[d]) \in Seqs
    BY <2>1
  <2>3. CASE Accept(target[d], Head(flush[d]), "flushed")
    BY <2>1, <2>2, <2>3, SentAfter DEF LocalInv
  <2>4. CASE out' = out
    BY <2>4 DEF Sent
  <2> QED
    BY <1>3, <2>3, <2>4 DEF Flush
<1>4. CASE /\ \A n \in Seqs : ~DeliverAccepted(n)
           /\ \A d \in Conns : ~ReplayWrite(d) /\ ~Flush(d)
  <2>1. out' = out
    BY <1>4 DEF Next, PublishStep, AppendEvent, DeliverRefused, DeliverSkipped, DeliverBuffered,
         DeliverRecord, Commit, Confirm, ConnectionStep, BindFinds, FindSession, Reconnect, ReplayStep,
         BeginReplay, ResumeFrom, FetchSince, ReplayReturns, EndReplay, FlushReads, FlushEnds,
         CloseStep, Suspect, BeginClose, EvictShutdown, ReadFails, FinishClose, ReleaseWriter,
         writerVars
  <2> QED
    BY <2>1 DEF Sent
<1> QED
  BY <1>1, <1>2, <1>3, <1>4

\* The tracker and the event it is about to record, against the present writer.
LEMMA TrackerPreserved ==
  ASSUME LocalInv, RecordingWasSent, PendingWereSent, Next
  PROVE  RecordingWasSent' /\ PendingWereSent'
<1> DEFINE Live == Sent(cur, {"live"})
<1>1. cur \in Conns /\ \A c \in Conns : Sent(c, {"live"}) \subseteq Sent(c, {"live"})'
  BY SentStays DEF LocalInv, TypeOK
<1>2. CASE UNCHANGED <<cur, recording, tracker>>
  BY <1>1, <1>2 DEF RecordingWasSent, PendingWereSent, Sent
<1>3. ASSUME NEW n \in Seqs, DeliverAccepted(n) PROVE RecordingWasSent' /\ PendingWereSent'
  <2>1. n \in Sent(cur, {"live"})'
    BY <1>1, <1>3, SentAfter DEF LocalInv, DeliverAccepted
  <2> QED
    BY <1>1, <1>3, <2>1 DEF DeliverAccepted, RecordingWasSent, PendingWereSent, Sent
<1>4. ASSUME NEW n \in Seqs, DeliverRecord(n) PROVE RecordingWasSent' /\ PendingWereSent'
  <2>1. n # 0 /\ recording = n /\ recording' = 0 /\ cur' = cur /\ out' = out
    BY <1>4, MaxSeqAssumption DEF DeliverRecord, Seqs, writerVars
  <2>2. tracker'.pending = tracker.pending \cup {n}
    BY <1>4 DEF DeliverRecord, Record, LocalInv, TypeOK
  <2> QED
    BY <2>1, <2>2 DEF RecordingWasSent, PendingWereSent, Sent
<1>5. ASSUME NEW n \in Seqs, Confirm(n) PROVE RecordingWasSent' /\ PendingWereSent'
  BY <1>5 DEF Confirm, Confirmed, RecordingWasSent, PendingWereSent, Sent, writerVars
<1>6. ASSUME NEW c \in Conns, Reconnect(c) PROVE RecordingWasSent' /\ PendingWereSent'
  BY <1>6 DEF Reconnect, Unlocked, NewTracker, RecordingWasSent, PendingWereSent
<1>7. CASE /\ \A n \in Seqs : ~DeliverAccepted(n) /\ ~DeliverRecord(n) /\ ~Confirm(n)
           /\ \A c \in Conns : ~Reconnect(c)
  <2>1. UNCHANGED <<cur, recording, tracker>>
    BY <1>7 DEF Next, PublishStep, AppendEvent, DeliverRefused, DeliverSkipped, DeliverBuffered,
         Commit, ConnectionStep, BindFinds, FindSession, ReplayStep, BeginReplay, ResumeFrom, FetchSince,
         ReplayWrite, ReplayReturns, EndReplay, FlushReads, Flush, FlushEnds, CloseStep, Suspect,
         BeginClose, EvictShutdown, ReadFails, FinishClose, ReleaseWriter, sessionVars
  <2> QED
    BY <1>2, <2>1
<1> QED
  BY <1>3, <1>4, <1>5, <1>6, <1>7

\* The window and its buffer against the replay goroutines.
LEMMA FlusherPreserved ==
  ASSUME LocalInv, BufferHasFlusher, Next
  PROVE  BufferHasFlusher'
<1> USE DEF BufferHasFlusher, InWindow, Goto, LocalInv, TypeOK
<1>1. CASE replaying' = FALSE /\ buffer' = <<>>
  BY <1>1
<1>2. ASSUME NEW n \in Seqs, PublishStep(n) \/ Confirm(n) PROVE BufferHasFlusher'
  <2>1. pc' = pc /\ replaying' = replaying /\ (buffer' = buffer \/ replaying)
    BY <1>2 DEF PublishStep, AppendEvent, DeliverRefused, DeliverSkipped, DeliverBuffered,
         DeliverAccepted, DeliverRecord, Commit, Confirm, sessionVars, replayVars
  <2> QED
    BY <2>1
<1>3. ASSUME NEW c \in Conns, BeginReplay(c) PROVE BufferHasFlusher'
  BY <1>3 DEF BeginReplay
<1>4. ASSUME NEW c \in Conns, Reconnect(c) \/ EndReplay(c) PROVE BufferHasFlusher'
  BY <1>1, <1>4 DEF Reconnect, EndReplay
<1>5. ASSUME NEW c \in Conns,
             \/ BindFinds(c) \/ FindSession(c) \/ ResumeFrom(c) \/ FetchSince(c) \/ ReplayWrite(c)
             \/ ReplayReturns(c) \/ FlushReads(c) \/ Flush(c) \/ FlushEnds(c)
      PROVE BufferHasFlusher'
  <2>1. replaying' = replaying /\ buffer' = buffer
    BY <1>5 DEF BindFinds, FindSession, ResumeFrom, FetchSince, ReplayWrite, ReplayReturns, FlushReads,
         Flush, FlushEnds, sessionVars
  <2>2. \A d \in Conns : InWindow(d) => InWindow(d)'
    BY <1>5 DEF BindFinds, FindSession, ResumeFrom, FetchSince, ReplayWrite, ReplayReturns, FlushReads,
         Flush, FlushEnds
  <2> QED
    BY <2>1, <2>2
<1>6. CASE CloseStep
  <2>1. CASE FinishClose
    BY <1>1, <2>1 DEF FinishClose
  <2>2. CASE ~FinishClose
    BY <1>6, <2>2 DEF CloseStep, Suspect, BeginClose, EvictShutdown, ReadFails, ReleaseWriter,
                      sessionVars, replayVars
  <2> QED
    BY <2>1, <2>2
<1> QED
  BY <1>2, <1>3, <1>4, <1>5, <1>6 DEF Next, ConnectionStep, ReplayStep

THEOREM SessionInvariant == Spec => []SessionInv
<1>1. SessionInv /\ UNCHANGED vars => SessionInv'
  BY LocalPreserved
     DEF vars, sessionVars, writerVars, storeVars, replayVars, SessionInv, RecordingWasSent,
         PendingWereSent, BufferHasFlusher, InWindow, Sent
<1>2. SessionInv /\ [Next]_vars => SessionInv'
  BY <1>1, LocalPreserved, TrackerPreserved, FlusherPreserved DEF SessionInv
<1> QED
  BY InitInv, <1>2, PTL DEF Spec

\* session.go, ack.go, resume.go: every variable stays within its type, for any
\* number of connections, publications and sequences.
THEOREM TypeCorrect == Spec => []TypeOK
<1>1. SessionInv => TypeOK
  BY DEF SessionInv, LocalInv
<1> QED
  BY <1>1, SessionInvariant, PTL

\* session.go:151-153: however many connections replace each other, the tracker holds
\* only what the present one's writer accepted.
THEOREM PendingAlways == Spec => []PendingWereSent
<1>1. SessionInv => PendingWereSent
  BY DEF SessionInv
<1> QED
  BY <1>1, SessionInvariant, PTL

\* merge.go:14-16: however many replays overlap, held-back events have one that will
\* flush them.
THEOREM FlusherAlways == Spec => []BufferHasFlusher
<1>1. SessionInv => BufferHasFlusher
  BY DEF SessionInv
<1> QED
  BY <1>1, SessionInvariant, PTL
-------------------------------------------------------------------------------
(* A session until the first takeover *)

\* The connection the session was bound for has come to it.
FirstHasJoined == pc[first] \notin {"absent", "found"}

\* A replay that has begun has its window open, until the session is closed,
WindowIsOpen == \A c \in Conns : InWindow(c) => (replaying \/ state = "closed")

\* and no other has begun one.
OneWindow == \A c, d \in Conns : InWindow(c) /\ InWindow(d) => c = d

\* A flush writes to the connection it started on.
TargetIsCurrent == \A c \in Conns : target[c] \in {NoConn, cur}

UnreplacedInv ==
  /\ SessionInv
  /\ FirstHasJoined
  /\ NeverReplaced => WindowIsOpen /\ OneWindow /\ TargetIsCurrent

\* Only a later connection takes over, so a step that leaves the session with its first
\* one is not a takeover.
LEMMA NoTakeover ==
  ASSUME LocalInv, FirstHasJoined, Next
  PROVE  /\ FirstHasJoined'
         /\ NeverReplaced' => NeverReplaced /\ cur' = cur /\ \A c \in Conns : ~Reconnect(c)
<1> USE DEF FirstHasJoined, NeverReplaced, Goto
<1>0. /\ first \in Conns
      /\ pc \in [Conns -> {"absent", "found", "attached", "resume", "fetch", "write", "end",
                           "flush", "done"}]
  BY DEF LocalInv, TypeOK
<1>1. first' = first
  BY DEF Next, PublishStep, AppendEvent, DeliverRefused, DeliverSkipped, DeliverBuffered,
         DeliverAccepted, DeliverRecord, Commit, Confirm, ConnectionStep, BindFinds, FindSession,
         Reconnect, ReplayStep, BeginReplay, ResumeFrom, FetchSince, ReplayWrite, ReplayReturns,
         EndReplay, FlushReads, Flush, FlushEnds, CloseStep, Suspect, BeginClose, EvictShutdown,
         ReadFails, FinishClose, ReleaseWriter
<1>2. ASSUME NEW c \in Conns, Reconnect(c) PROVE FirstHasJoined' /\ ~NeverReplaced'
  <2>1. cur' = c /\ pc[c] = "found" /\ pc' = [pc EXCEPT ![c] = "attached"]
    BY <1>2 DEF Reconnect
  <2>2. c # first /\ pc'[first] = pc[first]
    BY <1>0, <2>1
  <2> QED
    BY <1>1, <2>1, <2>2
<1>3. CASE \A c \in Conns : ~Reconnect(c)
  <2>1. cur' = cur
    BY <1>3 DEF Next, PublishStep, AppendEvent, DeliverRefused, DeliverSkipped, DeliverBuffered,
         DeliverAccepted, DeliverRecord, Commit, Confirm, ConnectionStep, BindFinds, FindSession,
         ReplayStep, BeginReplay, ResumeFrom, FetchSince, ReplayWrite, ReplayReturns, EndReplay,
         FlushReads, Flush, FlushEnds, CloseStep, Suspect, BeginClose, EvictShutdown, ReadFails,
         FinishClose, ReleaseWriter, sessionVars
  <2>2. ASSUME NEW c \in Conns, BindFinds(c) \/ FindSession(c) PROVE FirstHasJoined'
    BY <1>0, <1>1, <2>2 DEF BindFinds, FindSession
  <2>3. ASSUME NEW c \in Conns,
               BeginReplay(c) \/ ResumeFrom(c) \/ FetchSince(c) \/ ReplayReturns(c) \/ EndReplay(c)
                 \/ FlushEnds(c)
        PROVE  FirstHasJoined'
    <3>1. /\ pc'[c] \notin {"absent", "found"}
          /\ \A d \in Conns : d # c => pc'[d] = pc[d]
      BY <1>0, <2>3 DEF BeginReplay, ResumeFrom, FetchSince, ReplayReturns, EndReplay, FlushEnds
    <3> QED
      BY <1>0, <1>1, <3>1
  <2>4. \/ UNCHANGED pc
        \/ \E c \in Conns :
             \/ BindFinds(c) \/ FindSession(c) \/ BeginReplay(c) \/ ResumeFrom(c) \/ FetchSince(c)
             \/ ReplayReturns(c) \/ EndReplay(c) \/ FlushEnds(c)
    BY <1>3 DEF Next, PublishStep, AppendEvent, DeliverRefused, DeliverSkipped, DeliverBuffered,
         DeliverAccepted, DeliverRecord, Commit, Confirm, ConnectionStep, ReplayStep, ReplayWrite,
         FlushReads, Flush, CloseStep, Suspect, BeginClose, EvictShutdown, ReadFails, FinishClose,
         ReleaseWriter, replayVars
  <2> QED
    BY <1>1, <1>3, <2>1, <2>2, <2>3, <2>4
<1> QED
  BY <1>2, <1>3

\* Until then a replay begins only when no other has its window open.
LEMMA WindowPreserved ==
  ASSUME LocalInv, FirstHasJoined, WindowIsOpen, OneWindow, TargetIsCurrent, NeverReplaced, Next,
         NeverReplaced'
  PROVE  WindowIsOpen' /\ OneWindow' /\ TargetIsCurrent'
<1>0. /\ cur' = cur /\ cur \in Conns /\ \A c \in Conns : ~Reconnect(c)
      /\ pc \in [Conns -> {"absent", "found", "attached", "resume", "fetch", "write", "end",
                           "flush", "done"}]
      /\ target \in [Conns -> Conns \cup {NoConn}]
  BY NoTakeover DEF LocalInv, TypeOK
<1> USE DEF WindowIsOpen, OneWindow, InWindow, Goto, TargetIsCurrent
<1>1. ASSUME NEW n \in Seqs, PublishStep(n) \/ Confirm(n)
      PROVE  WindowIsOpen' /\ OneWindow' /\ TargetIsCurrent'
  <2>1. UNCHANGED <<pc, target, replaying, state, cur>>
    BY <1>1 DEF PublishStep, AppendEvent, DeliverRefused, DeliverSkipped, DeliverBuffered,
         DeliverAccepted, DeliverRecord, Commit, Confirm, sessionVars, replayVars
  <2> QED
    BY <2>1
<1>2. ASSUME NEW c \in Conns, ConnectionStep(c)
      PROVE  WindowIsOpen' /\ OneWindow' /\ TargetIsCurrent'
  <2>1. CASE BeginReplay(c)
    <3>1. UNCHANGED <<cur, state, target>>
      BY <2>1 DEF BeginReplay
    <3>2. CASE Closed \/ replaying
      BY <1>0, <2>1, <3>1, <3>2 DEF BeginReplay
    <3>3. CASE ~Closed /\ ~replaying
      <4>1. \A d \in Conns : ~InWindow(d)
        BY <3>3 DEF Closed
      <4>2. replaying' /\ \A d \in Conns : InWindow(d)' => d = c
        BY <1>0, <2>1, <3>3, <4>1 DEF BeginReplay
      <4> QED
        BY <1>0, <3>1, <4>2
    <3> QED
      BY <3>2, <3>3
  <2>2. CASE EndReplay(c)
    <3>1. InWindow(c)
      BY <2>2 DEF EndReplay
    <3>2. \A d \in Conns : ~InWindow(d)'
      BY <1>0, <2>2, <3>1 DEF EndReplay
    <3> QED
      BY <1>0, <2>2, <3>2 DEF EndReplay
  <2>3. CASE \/ BindFinds(c) \/ FindSession(c) \/ ResumeFrom(c) \/ FetchSince(c) \/ ReplayWrite(c)
             \/ ReplayReturns(c) \/ FlushEnds(c)
    <3>1. UNCHANGED <<replaying, state, cur, target>>
      BY <2>3 DEF BindFinds, FindSession, ResumeFrom, FetchSince, ReplayWrite, ReplayReturns,
                  FlushEnds, sessionVars
    <3>2. \A d \in Conns : InWindow(d)' => InWindow(d)
      BY <1>0, <2>3 DEF BindFinds, FindSession, ResumeFrom, FetchSince, ReplayWrite,
                        ReplayReturns, FlushEnds
    <3> QED
      BY <3>1, <3>2
  <2>4. CASE FlushReads(c) \/ Flush(c)
    <3>1. UNCHANGED <<pc, replaying, state>> /\ target' \in {[target EXCEPT ![c] = cur],
                                                            [target EXCEPT ![c] = NoConn]}
      BY <2>4 DEF FlushReads, Flush, sessionVars
    <3> QED
      BY <1>0, <3>1
  <2> QED
    BY <1>0, <1>2, <2>1, <2>2, <2>3, <2>4 DEF ConnectionStep, ReplayStep
<1>3. CASE CloseStep
  BY <1>3 DEF CloseStep, Suspect, BeginClose, EvictShutdown, ReadFails, FinishClose,
              ReleaseWriter, sessionVars, replayVars
<1> QED
  BY <1>1, <1>2, <1>3 DEF Next

LEMMA UnreplacedInvariant == Spec => []UnreplacedInv
<1> DEFINE Unreplaced == NeverReplaced => WindowIsOpen /\ OneWindow /\ TargetIsCurrent
<1>1. Init => FirstHasJoined /\ Unreplaced
  BY DEF Init, FirstHasJoined, WindowIsOpen, OneWindow, TargetIsCurrent, InWindow
<1>2. SessionInv /\ FirstHasJoined /\ Unreplaced /\ [Next]_vars => (FirstHasJoined /\ Unreplaced)'
  <2>1. FirstHasJoined /\ Unreplaced /\ UNCHANGED vars => (FirstHasJoined /\ Unreplaced)'
    BY DEF FirstHasJoined, NeverReplaced, WindowIsOpen, OneWindow, TargetIsCurrent, InWindow, vars,
           sessionVars, replayVars
  <2>2. SessionInv /\ FirstHasJoined /\ Unreplaced /\ Next => (FirstHasJoined /\ Unreplaced)'
    BY NoTakeover, WindowPreserved DEF SessionInv
  <2> QED
    BY <2>1, <2>2
<1>3. SessionInv /\ FirstHasJoined /\ Unreplaced <=> UnreplacedInv
  BY DEF UnreplacedInv
<1> HIDE DEF Unreplaced
<1> QED
  BY <1>1, <1>2, <1>3, SessionInvariant, PTL DEF Spec

\* The events in a flush are those of the buffer its replay took, and get fewer.
LEMMA FlushOnlyShrinks ==
  ASSUME LocalInv, Next, NEW e \in Conns, NEW n \in Range(flush'[e]), n \notin Range(flush[e])
  PROVE  EndReplay(e)
<1>0. flush \in [Conns -> Seq(Seqs)]
  BY DEF LocalInv, TypeOK
<1>1. ASSUME NEW c \in Conns, Flush(c) PROVE FALSE
  <2>1. /\ flush[c] \in Seq(Seqs) /\ flush[c] # <<>> /\ flush'[c] = Tail(flush[c])
        /\ \A d \in Conns : d # c => flush'[d] = flush[d]
    BY <1>0, <1>1 DEF Flush, LocalInv, FlushHasEvent
  <2>2. Range(flush'[c]) \subseteq Range(flush[c])
    BY <2>1, RangeOfQueue
  <2> QED
    BY <2>1, <2>2
<1>2. ASSUME NEW c \in Conns, EndReplay(c) PROVE c = e
  <2>1. \A d \in Conns : d # c => flush'[d] = flush[d]
    BY <1>0, <1>2 DEF EndReplay
  <2> QED
    BY <2>1
<1>3. flush' # flush
  OBVIOUS
<1>4. \E c \in Conns : Flush(c) \/ EndReplay(c)
  BY <1>3 DEF Next, PublishStep, AppendEvent, DeliverRefused, DeliverSkipped, DeliverBuffered,
     DeliverAccepted, DeliverRecord, Commit, Confirm, ConnectionStep, BindFinds, FindSession,
     Reconnect, ReplayStep, BeginReplay, ResumeFrom, FetchSince, ReplayWrite, ReplayReturns,
     FlushReads, FlushEnds, CloseStep, Suspect, BeginClose, EvictShutdown, ReadFails, FinishClose,
     ReleaseWriter, replayVars
<1> QED
  BY <1>1, <1>2, <1>4

\* What an accepted event leaves as the last one.
LEMMA GoesOutByAccept ==
  ASSUME TypeOK, NEW w \in Conns, NEW m \in Seqs, NEW k \in {"live", "replay", "flushed"},
         Accept(w, m, k), NEW n \in Seqs, GoesOut(n)
  PROVE  k # "replay" /\ m = n
<1>1. out \in [Conns -> Outputs] /\ out' = [out EXCEPT ![w] = Append(out[w], Entry(m, k))]
  BY DEF TypeOK, Outputs, Accept
<1>2. PICK c \in Conns : /\ Len(out'[c]) > Len(out[c])
                         /\ out'[c][Len(out'[c])] \in {Entry(n, "live"), Entry(n, "flushed")}
  BY DEF GoesOut
<1>3. out[w] \in Outputs /\ out[c] \in Outputs
  BY <1>1
<1>4. Len(out[c]) \in Nat /\ Len(out[w]) \in Nat
  BY <1>3 DEF Outputs
<1>5. c = w
  BY <1>1, <1>2, <1>4
<1>6. out'[c] = Append(out[c], Entry(m, k))
  BY <1>1, <1>5
<1>7. out'[c][Len(out'[c])] = Entry(m, k)
  BY <1>3, <1>6 DEF Outputs
<1> QED
  BY <1>2, <1>7 DEF Entry

\* resume.go:26-27: until a takeover, while a replay is under way, only what an earlier
\* replay held back and has begun to flush goes out, however many publishers and joined
\* connections there are.
THEOREM LiveWaitsAlways == Spec => LiveWaitsForReplay
<1>1. ASSUME UnreplacedInv, [Next]_vars, NEW c \in Conns,
             NeverReplaced, InWindow(c), InWindow(c)',
             NEW n \in Seqs, GoesOut(n) \/ Flushing(n)'
      PROVE  Flushing(n)
  <2> USE DEF UnreplacedInv, SessionInv, LocalInv
  <2>1. CASE Flushing(n)'
    <3>1. PICK e \in Conns : n \in Range(flush'[e])
      BY <2>1 DEF Flushing
    <3>2. CASE n \in Range(flush[e])
      BY <3>2 DEF Flushing
    <3>3. CASE n \notin Range(flush[e])
      <4>1. CASE Next
        <5>1. EndReplay(e)
          BY <1>1, <3>1, <3>3, <4>1, FlushOnlyShrinks
        <5>2. e = c
          BY <1>1, <5>1 DEF EndReplay, OneWindow, InWindow
        <5>3. pc'[c] = "flush"
          BY <1>1, <5>1, <5>2 DEF EndReplay, Goto, TypeOK
        <5> QED
          BY <1>1, <5>3 DEF InWindow
      <4>2. CASE UNCHANGED vars
        BY <3>1, <3>3, <4>2 DEF vars, replayVars
      <4> QED
        BY <1>1, <4>1, <4>2
    <3> QED
      BY <3>2, <3>3
  <2>2. CASE GoesOut(n)
    <3>1. out' # out
      <4>1. PICK d \in Conns : Len(out'[d]) > Len(out[d])
        BY <2>2 DEF GoesOut
      <4>2. out \in [Conns -> Outputs]
        BY <1>1 DEF TypeOK, Outputs
      <4>3. out[d] \in Outputs
        BY <4>2
      <4>4. Len(out[d]) \in Nat
        BY <4>3 DEF Outputs
      <4> QED
        BY <4>1, <4>4
    <3>2. ASSUME NEW m \in Seqs, DeliverAccepted(m) PROVE FALSE
      BY <1>1, <3>2 DEF DeliverAccepted, ToDeliver, Closed, WindowIsOpen
    <3>3. ASSUME NEW e \in Conns, Flush(e) PROVE Flushing(n)
      <4>1. flush[e] \in Seq(Seqs) /\ flush[e] # <<>> /\ target[e] \in Conns
        BY <1>1, <3>3 DEF Flush, TypeOK, FlushHasEvent
      <4>2. Head(flush[e]) \in Seqs /\ Head(flush[e]) \in Range(flush[e])
        BY <4>1, RangeOfQueue
      <4>3. Accept(target[e], Head(flush[e]), "flushed")
        BY <3>1, <3>3 DEF Flush
      <4>4. ASSUME NEW m \in Seqs, m = Head(flush[e]) PROVE m = n
        <5>1. Accept(target[e], m, "flushed")
          BY <4>3, <4>4
        <5> QED
          BY <1>1, <2>2, <4>1, <5>1, GoesOutByAccept
      <4> QED
        BY <4>2, <4>4 DEF Flushing
    <3>4. ASSUME NEW e \in Conns, ReplayWrite(e) PROVE FALSE
      <4>1. /\ next[e] \in 0..(MaxSeq + 2) /\ limit[e] \in 0..MaxSeq
            /\ next[e] <= limit[e] /\ next[e] >= 1
        BY <1>1, <3>4 DEF ReplayWrite, TypeOK, ReplayFromOne
      <4>2. next[e] \in Seqs /\ cur \in Conns /\ Accept(cur, next[e], "replay")
        BY <1>1, <3>4, <4>1, MaxSeqAssumption DEF ReplayWrite, TypeOK, Seqs
      <4> QED
        BY <1>1, <2>2, <4>2, GoesOutByAccept
    <3>5. (\E m \in Seqs : DeliverAccepted(m)) \/ (\E e \in Conns : ReplayWrite(e) \/ Flush(e))
      BY <1>1, <3>1
         DEF Next, PublishStep, AppendEvent, DeliverRefused, DeliverSkipped, DeliverBuffered,
           DeliverRecord, Commit, Confirm, ConnectionStep, BindFinds, FindSession, Reconnect,
           ReplayStep, BeginReplay, ResumeFrom, FetchSince, ReplayReturns, EndReplay, FlushReads,
           FlushEnds, CloseStep, Suspect, BeginClose, EvictShutdown, ReadFails, FinishClose,
           ReleaseWriter, writerVars, vars
    <3> QED
      BY <3>2, <3>3, <3>4, <3>5
  <2> QED
    BY <1>1, <2>1, <2>2
<1>2. UnreplacedInv /\ [Next]_vars
        => [\A c \in Conns :
              (NeverReplaced /\ InWindow(c) /\ InWindow(c)') =>
                \A n \in Seqs : (GoesOut(n) \/ Flushing(n)') => Flushing(n)]_vars
  BY <1>1
<1> QED
  BY <1>2, UnreplacedInvariant, PTL DEF Spec, LiveWaitsForReplay

\* Where an event the client may still be without can be.
Kept(n) ==
  \/ Covered(n)
  \/ n \in OnWire(cur) \cup Range(buffer) \cup dropped
  \/ Flushing(n)

\* Every hand-over between the live path, the buffer, the flush and the wire.
LEMMA LostPreserved ==
  ASSUME UnreplacedInv, NothingLost, Next, NeverReplaced'
  PROVE  NothingLost'
<1> USE DEF UnreplacedInv, SessionInv, Flushing
<1>0. /\ LocalInv /\ LocalInv' /\ cur \in Conns /\ NeverReplaced
      /\ \A c \in Conns : ~Reconnect(c)
  BY LocalPreserved, NoTakeover DEF LocalInv, TypeOK
<1>1. cur' = cur
  BY NoTakeover
<1>2. OnWire(cur) \subseteq OnWire(cur)'
  BY <1>0, <1>1, SentStays DEF OnWire, Sent
<1>3. \A n \in Seqs : Covered(n) => Covered(n)'
  <2>1. tracker'.acked >= tracker.acked /\ tracker'.acked \in Nat /\ tracker.acked \in Nat
    <3>1. /\ tracker.acked \in 0..MaxSeq /\ tracker'.acked \in 0..MaxSeq
          /\ tracker \in [acked : 0..MaxSeq, pending : SUBSET Seqs]
      BY <1>0 DEF LocalInv, TypeOK
    <3>2. ASSUME NEW n \in Seqs, Confirm(n) PROVE tracker'.acked >= tracker.acked
      BY <3>1, <3>2, MaxSeqAssumption DEF Confirm, Confirmed, Seqs
    <3>3. ASSUME NEW n \in Seqs, DeliverRecord(n) PROVE tracker'.acked = tracker.acked
      BY <3>1, <3>3 DEF DeliverRecord, Record
    <3>4. CASE \A n \in Seqs : ~Confirm(n) /\ ~DeliverRecord(n)
      <4>1. tracker' = tracker
        BY <1>0, <3>4
           DEF Next, PublishStep, AppendEvent, DeliverRefused, DeliverSkipped, DeliverBuffered,
             DeliverAccepted, Commit, ConnectionStep, BindFinds, FindSession, ReplayStep,
             BeginReplay, ResumeFrom, FetchSince, ReplayWrite, ReplayReturns, EndReplay,
             FlushReads, Flush, FlushEnds, CloseStep, Suspect, BeginClose, EvictShutdown,
             ReadFails, FinishClose, ReleaseWriter, sessionVars
      <4> QED
        BY <3>1, <4>1
    <3> QED
      BY <3>1, <3>2, <3>3, <3>4
  <2> QED
    BY <2>1 DEF Covered, Seqs
<1>4. Closed => Closed'
  BY <1>0 DEF Closed, Next, PublishStep, AppendEvent, DeliverRefused, DeliverSkipped,
       DeliverBuffered, DeliverAccepted, DeliverRecord, Commit, Confirm, ConnectionStep,
       BindFinds, FindSession, ReplayStep, BeginReplay, ResumeFrom, FetchSince, ReplayWrite, ReplayReturns, EndReplay,
       FlushReads, Flush, FlushEnds, CloseStep, Suspect, BeginClose, EvictShutdown, ReadFails,
       FinishClose, ReleaseWriter, sessionVars
<1>5. ASSUME NEW n \in Seqs, Kept(n), ~Closed' PROVE Kept(n)'
  <2> DEFINE Same == buffer' = buffer /\ flush' = flush
  <2>0. buffer \in Seq(Seqs) /\ flush \in [Conns -> Seq(Seqs)]
    BY <1>0 DEF LocalInv, TypeOK
  <2>1. CASE Covered(n) \/ n \in OnWire(cur)
    BY <1>1, <1>2, <1>3, <2>1 DEF Kept, OnWire, Sent
  <2>2. dropped \subseteq dropped'
    BY <1>0 DEF Next, PublishStep, AppendEvent, DeliverRefused, DeliverSkipped,
       DeliverBuffered, DeliverAccepted, DeliverRecord, Commit, Confirm, ConnectionStep,
       BindFinds, FindSession, ReplayStep, BeginReplay, ResumeFrom, FetchSince, ReplayWrite, ReplayReturns, EndReplay,
       FlushReads, Flush, FlushEnds, CloseStep, Suspect, BeginClose, EvictShutdown, ReadFails,
       FinishClose, ReleaseWriter
  <2>3. CASE n \in dropped
    BY <2>2, <2>3 DEF Kept
  <2>4. CASE Same /\ (n \in Range(buffer) \/ \E c \in Conns : n \in Range(flush[c]))
    BY <2>4 DEF Kept
  <2>5. ASSUME NEW m \in Seqs, DeliverBuffered(m),
               n \in Range(buffer) \/ \E c \in Conns : n \in Range(flush[c])
        PROVE Kept(n)'
    <3>1. Range(buffer') = Range(buffer) \cup {m} /\ flush' = flush
      BY <2>0, <2>5, RangeOfQueue DEF DeliverBuffered, replayVars
    <3> QED
      BY <2>5, <3>1 DEF Kept
  <2>6. ASSUME NEW c \in Conns, EndReplay(c),
               n \in Range(buffer) \/ \E d \in Conns : n \in Range(flush[d])
        PROVE Kept(n)'
    <3>1. flush[c] = <<>> /\ flush'[c] = buffer
      BY <1>0, <2>0, <2>6 DEF EndReplay, LocalInv, FlushHasEvent
    <3>2. Range(flush[c]) = {}
      BY <3>1 DEF Range
    <3>3. \A d \in Conns : d # c => flush'[d] = flush[d]
      BY <2>0, <2>6 DEF EndReplay
    <3>4. \E d \in Conns : n \in Range(flush'[d])
      BY <2>6, <3>1, <3>2, <3>3
    <3> QED
      BY <3>4 DEF Kept
  <2>7. ASSUME NEW c \in Conns, BeginReplay(c),
               n \in Range(buffer) \/ \E d \in Conns : n \in Range(flush[d])
        PROVE Kept(n)'
    <3>1. flush' = flush /\ (buffer' = buffer \/ ~replaying)
      BY <2>7 DEF BeginReplay
    <3>2. ~replaying => buffer = <<>>
      BY DEF BufferHasFlusher
    <3>3. ~replaying => n \notin Range(buffer)
      BY <3>2 DEF Range
    <3> QED
      BY <2>7, <3>1, <3>3 DEF Kept
  <2>8. ASSUME NEW c \in Conns, Flush(c),
               n \in Range(buffer) \/ \E d \in Conns : n \in Range(flush[d])
        PROVE Kept(n)'
    <3>1. /\ flush[c] \in Seq(Seqs) /\ flush[c] # <<>> /\ target[c] = cur
          /\ flush'[c] = Tail(flush[c]) /\ buffer' = buffer
      BY <1>0, <2>0, <2>8 DEF Flush, LocalInv, TypeOK, FlushHasEvent, TargetIsCurrent, sessionVars
    <3>2. \A d \in Conns : d # c => flush'[d] = flush[d]
      BY <2>0, <2>8 DEF Flush
    <3>3. Range(flush[c]) = {Head(flush[c])} \cup Range(flush'[c]) /\ Head(flush[c]) \in Seqs
      BY <3>1, RangeOfQueue
    <3>4. CASE Accept(target[c], Head(flush[c]), "flushed")
      <4> DEFINE All == {"live", "replay", "flushed"}
      <4>1. ASSUME NEW w \in Conns, w = cur, NEW m \in Seqs, m = Head(flush[c])
            PROVE  m \in Sent(w, All)'
        <5>1. TypeOK /\ Accept(w, m, "flushed")
          BY <1>0, <3>1, <3>4, <4>1 DEF LocalInv
        <5>2. "flushed" \in All => m \in Sent(w, All)'
          BY <5>1, SentAfter
        <5> QED
          BY <5>2
      <4>2. Head(flush[c]) \in OnWire(cur)'
        BY <1>0, <1>1, <3>3, <4>1 DEF OnWire, Sent
      <4> QED
        BY <1>0, <1>1, <2>8, <3>1, <3>3, <3>2, <4>2 DEF Kept
    <3>5. CASE Head(flush[c]) \in dropped'
      BY <1>0, <2>8, <3>1, <3>3, <3>5, <3>2 DEF Kept
    <3> QED
      BY <2>8, <3>4, <3>5 DEF Flush
  <2>9. CASE FinishClose
    BY <1>5, <2>9 DEF FinishClose, Closed
  <2>10. \/ Same \/ FinishClose \/ (\E m \in Seqs : DeliverBuffered(m))
         \/ \E c \in Conns : EndReplay(c) \/ BeginReplay(c) \/ Flush(c)
    BY <1>0 DEF Next, PublishStep, AppendEvent, DeliverRefused, DeliverSkipped,
       DeliverAccepted, DeliverRecord, Commit, Confirm, ConnectionStep,
       BindFinds, FindSession, ReplayStep, ResumeFrom, FetchSince, ReplayWrite, ReplayReturns,
       FlushReads, FlushEnds, CloseStep, Suspect, BeginClose, EvictShutdown, ReadFails,
       ReleaseWriter, sessionVars, replayVars
  <2> QED
    BY <1>5, <2>1, <2>3, <2>4, <2>5, <2>6, <2>7, <2>8, <2>9, <2>10 DEF Kept
<1>6. ASSUME NEW n \in Seqs, event[n] \notin {"commit", "done"}, event'[n] \in {"commit", "done"}
      PROVE  Kept(n)'
  <2>0. event \in [Seqs -> {"none", "dispatch", "commit", "done", "failed"}]
    BY <1>0 DEF LocalInv, TypeOK
  <2>1. DeliverSkipped(n) \/ DeliverBuffered(n) \/ DeliverRecord(n)
    BY <1>0, <1>6, <2>0
       DEF Next, PublishStep, AppendEvent, DeliverRefused, DeliverSkipped, DeliverBuffered,
       DeliverAccepted, DeliverRecord, Commit, Confirm, ConnectionStep,
       BindFinds, FindSession, ReplayStep, BeginReplay, ResumeFrom, FetchSince, ReplayWrite, ReplayReturns, EndReplay,
       FlushReads, Flush, FlushEnds, CloseStep, Suspect, BeginClose, EvictShutdown, ReadFails,
       FinishClose, ReleaseWriter, storeVars
  <2>2. Sent(cur, {"live"}) \subseteq OnWire(cur)
    BY DEF Sent, OnWire
  <2>3. CASE DeliverSkipped(n)
    BY <1>1, <1>2, <1>3, <2>2, <2>3 DEF DeliverSkipped, Pending, PendingWereSent, Kept, OnWire, Sent
  <2>4. CASE DeliverBuffered(n)
    <3>1. buffer \in Seq(Seqs)
      BY <1>0 DEF LocalInv, TypeOK
    <3>2. Range(buffer') = Range(buffer) \cup {n}
      BY <2>4, <3>1, RangeOfQueue DEF DeliverBuffered
    <3> QED
      BY <3>2 DEF Kept
  <2>5. CASE DeliverRecord(n)
    <3>1. n # 0
      BY MaxSeqAssumption DEF Seqs
    <3>2. n \in OnWire(cur)
      BY <2>2, <2>5, <3>1 DEF DeliverRecord, RecordingWasSent
    <3> QED
      BY <1>1, <1>2, <3>2 DEF Kept, OnWire, Sent
  <2> QED
    BY <2>1, <2>3, <2>4, <2>5
<1> QED
  BY <1>0, <1>4, <1>5, <1>6 DEF NothingLost, Kept, Closed

\* session.go:151-153, 229-240: until another connection takes over, no event that
\* Deliver reported as delivered is lost, however many publishers there are.
THEOREM NothingLostAlways == Spec => []NothingLost
<1>1. Init => NothingLost
  BY DEF Init, NothingLost
<1>2. NothingLost /\ UNCHANGED vars => NothingLost'
  BY DEF NothingLost, vars, sessionVars, writerVars, storeVars, replayVars, Closed, Covered,
         OnWire, Sent, NeverReplaced, Flushing
<1>3. UnreplacedInv /\ NothingLost /\ [Next]_vars => NothingLost'
  <2>1. ~NeverReplaced' => NothingLost'
    BY DEF NothingLost
  <2> QED
    BY <1>2, <2>1, LostPreserved
<1> QED
  BY <1>1, <1>3, UnreplacedInvariant, PTL DEF Spec
-------------------------------------------------------------------------------
(* Every event goes out once, besides the replays *)

\* It has left on some connection, live or flushed.
WasSent(n) ==
  \E c \in Conns : \E i \in 1..Len(out[c]) : out[c][i].kind # "replay" /\ out[c][i].seq = n

Held(n) == n \in Range(buffer) \/ \E c \in Conns : n \in Range(flush[c])

\* The event that holds s.mu is still with its publisher.
RecordingIsDelivered == recording # 0 => event[recording] = "dispatch"

\* What no Deliver has taken up is nowhere yet.
UntakenIsNowhere ==
  \A n \in Seqs :
    (event[n] \in {"none", "dispatch"} /\ recording # n) => ~Held(n) /\ ~WasSent(n)

\* An event is in one place of the buffer and of all the flushes under way,
HeldOnce ==
  /\ IsInjective(buffer)
  /\ \A c \in Conns :
       /\ IsInjective(flush[c])
       /\ \A n \in Range(flush[c]) :
            n \notin Range(buffer) /\ \A d \in Conns \ {c} : n \notin Range(flush[d])

\* and has not left before.
HeldIsUnsent == \A n \in Seqs : Held(n) => ~WasSent(n)

OnceInv == RecordingIsDelivered /\ UntakenIsNowhere /\ HeldOnce /\ HeldIsUnsent /\ LiveOnce

\* Append and Tail keep a queue's elements distinct.
LEMMA DistinctInQueue ==
  ASSUME NEW S, NEW q \in Seq(S), IsInjective(q)
  PROVE  /\ \A x \in S : x \notin Range(q) => IsInjective(Append(q, x))
         /\ q # <<>> => IsInjective(Tail(q)) /\ Head(q) \notin Range(Tail(q))
<1>0. DOMAIN q = 1..Len(q) /\ Len(q) \in Nat
  OBVIOUS
<1>1. ASSUME NEW x \in S, x \notin Range(q) PROVE IsInjective(Append(q, x))
  <2>1. /\ DOMAIN Append(q, x) = 1..(Len(q) + 1)
        /\ \A i \in 1..Len(q) : Append(q, x)[i] = q[i] /\ q[i] # x
        /\ Append(q, x)[Len(q) + 1] = x
    BY <1>0, <1>1 DEF Range
  <2>2. \A i \in 1..(Len(q) + 1) : i \in 1..Len(q) \/ i = Len(q) + 1
    BY <1>0
  <2> QED
    BY <1>0, <2>1, <2>2 DEF IsInjective
<1>2. ASSUME q # <<>> PROVE IsInjective(Tail(q)) /\ Head(q) \notin Range(Tail(q))
  <2>1. /\ Len(q) \in Nat \ {0} /\ Head(q) = q[1] /\ DOMAIN Tail(q) = 1..(Len(q) - 1)
        /\ \A i \in 1..(Len(q) - 1) : Tail(q)[i] = q[i + 1]
    BY <1>2
  <2>2. 1 \in 1..Len(q) /\ \A i \in 1..(Len(q) - 1) : i + 1 \in 1..Len(q) /\ i + 1 # 1
    BY <2>1
  <2>3. IsInjective(Tail(q))
    <3> SUFFICES ASSUME NEW i \in 1..(Len(q) - 1), NEW j \in 1..(Len(q) - 1),
                        Tail(q)[i] = Tail(q)[j]
                 PROVE  i = j
      BY <2>1 DEF IsInjective
    <3>1. i + 1 = j + 1
      BY <1>0, <2>1, <2>2 DEF IsInjective
    <3> QED
      BY <3>1
  <2>4. ASSUME NEW i \in 1..(Len(q) - 1) PROVE Tail(q)[i] # Head(q)
    BY <1>0, <2>1, <2>2 DEF IsInjective
  <2> QED
    BY <2>1, <2>3, <2>4 DEF Range
<1> QED
  BY <1>1, <1>2

\* An accepted event is the only new one, and the second of its kind only in a replay.
LEMMA AcceptOnce ==
  ASSUME TypeOK, LiveOnce, NEW w \in Conns, NEW n \in Seqs,
         NEW k \in {"live", "replay", "flushed"}, Accept(w, n, k), k # "replay" => ~WasSent(n)
  PROVE  /\ LiveOnce'
         /\ \A m \in Seqs : WasSent(m)' => WasSent(m) \/ (k # "replay" /\ m = n)
<1>1. /\ out \in [Conns -> Outputs] /\ out' = [out EXCEPT ![w] = Append(out[w], Entry(n, k))]
  BY DEF TypeOK, Outputs, Accept
<1>2. out[w] \in Outputs /\ out'[w] = Append(out[w], Entry(n, k))
  BY <1>1
<1>3. /\ Len(out[w]) \in Nat /\ Len(out'[w]) = Len(out[w]) + 1
      /\ out'[w][Len(out[w]) + 1] = Entry(n, k)
      /\ \A i \in 1..Len(out[w]) : out'[w][i] = out[w][i]
  BY <1>2 DEF Outputs, Entry
<1>4. \A c \in Conns : c # w => out'[c] = out[c]
  BY <1>1
<1>5. \A c \in Conns : \A i \in 1..Len(out'[c]) :
        \/ i \in 1..Len(out[c]) /\ out'[c][i] = out[c][i]
        \/ c = w /\ i = Len(out[w]) + 1 /\ out'[c][i] = Entry(n, k)
  BY <1>3, <1>4
<1>6. Entry(n, k).kind = k /\ Entry(n, k).seq = n
  BY DEF Entry
<1>7. LiveOnce'
  <2> SUFFICES ASSUME NEW c \in Conns, NEW d \in Conns,
                      NEW i \in 1..Len(out'[c]), NEW j \in 1..Len(out'[d]),
                      out'[c][i].kind # "replay", out'[d][j].kind # "replay",
                      out'[c][i].seq = out'[d][j].seq
               PROVE  c = d /\ i = j
    BY DEF LiveOnce
  <2>1. CASE i \in 1..Len(out[c]) /\ out'[c][i] = out[c][i] /\ j \in 1..Len(out[d]) /\ out'[d][j] = out[d][j]
    BY <2>1 DEF LiveOnce
  <2>2. CASE /\ i \in 1..Len(out[c]) /\ out'[c][i] = out[c][i]
             /\ d = w /\ j = Len(out[w]) + 1 /\ out'[d][j] = Entry(n, k)
    BY <1>6, <2>2 DEF WasSent
  <2>3. CASE /\ j \in 1..Len(out[d]) /\ out'[d][j] = out[d][j]
             /\ c = w /\ i = Len(out[w]) + 1 /\ out'[c][i] = Entry(n, k)
    BY <1>6, <2>3 DEF WasSent
  <2>4. CASE c = w /\ i = Len(out[w]) + 1 /\ d = w /\ j = Len(out[w]) + 1
    BY <2>4
  <2> QED
    BY <1>5, <2>1, <2>2, <2>3, <2>4
<1>8. ASSUME NEW m \in Seqs, WasSent(m)' PROVE WasSent(m) \/ (k # "replay" /\ m = n)
  <2>1. PICK c \in Conns :
          \E i \in 1..Len(out'[c]) : out'[c][i].kind # "replay" /\ out'[c][i].seq = m
    BY <1>8 DEF WasSent
  <2>2. PICK i \in 1..Len(out'[c]) : out'[c][i].kind # "replay" /\ out'[c][i].seq = m
    BY <2>1
  <2> QED
    BY <1>5, <1>6, <2>2 DEF WasSent
<1> QED
  BY <1>7, <1>8

\* Steps that take nothing up and enqueue nothing, except what a replay writes.
LEMMA NothingTaken ==
  ASSUME OnceInv, flush' = flush, recording' = recording, buffer' = buffer \/ buffer' = <<>>,
         LiveOnce', \A n \in Seqs : WasSent(n)' => WasSent(n),
         \A n \in Seqs : event'[n] \in {"none", "dispatch"} => event[n] \in {"none", "dispatch"},
         recording # 0 => event'[recording] = event[recording]
  PROVE  OnceInv'
<1> USE DEF OnceInv
<1>1. Range(buffer') \subseteq Range(buffer) /\ IsInjective(buffer')
  <2>1. CASE buffer' = buffer
    BY <2>1 DEF HeldOnce
  <2>2. CASE buffer' = <<>>
    BY <2>2 DEF Range, IsInjective
  <2> QED
    BY <2>1, <2>2
<1>2. \A n : Held(n)' => Held(n)
  BY <1>1 DEF Held
<1>3. RecordingIsDelivered'
  BY DEF RecordingIsDelivered
<1>4. UntakenIsNowhere'
  BY <1>2 DEF UntakenIsNowhere
<1>5. HeldOnce'
  BY <1>1 DEF HeldOnce
<1>6. HeldIsUnsent'
  BY <1>2 DEF HeldIsUnsent
<1> QED
  BY <1>3, <1>4, <1>5, <1>6

\* Publishers and confirmations.
LEMMA PublishOnce ==
  ASSUME LocalInv, OnceInv, NEW n \in Seqs, PublishStep(n) \/ Confirm(n)
  PROVE  OnceInv'
<1> USE DEF LocalInv, OnceInv
<1>0. /\ event \in [Seqs -> {"none", "dispatch", "commit", "done", "failed"}]
      /\ buffer \in Seq(Seqs) /\ cur \in Conns /\ n # 0
  BY MaxSeqAssumption DEF TypeOK, Seqs
<1>1. CASE \/ AppendEvent(n) \/ DeliverRefused(n) \/ DeliverSkipped(n) \/ Commit(n) \/ Confirm(n)
  <2>1. UNCHANGED <<flush, recording, buffer, out>>
    BY <1>1 DEF AppendEvent, DeliverRefused, DeliverSkipped, Commit, Confirm, sessionVars,
                writerVars, replayVars
  <2>2. /\ \A m \in Seqs : event'[m] \in {"none", "dispatch"} => event[m] \in {"none", "dispatch"}
        /\ recording # 0 => event'[recording] = event[recording]
    <3>1. CASE Confirm(n)
      BY <3>1 DEF Confirm, storeVars
    <3>2. CASE AppendEvent(n) \/ DeliverRefused(n) \/ DeliverSkipped(n) \/ Commit(n)
      <4>1. /\ event[n] \in {"none", "dispatch", "commit"} /\ (recording # 0 => recording # n)
            /\ \E e : event' = [event EXCEPT ![n] = e]
        BY <3>2 DEF AppendEvent, DeliverRefused, DeliverSkipped, Commit, Delivering, Unlocked,
                    RecordingIsDelivered
      <4>2. event[n] = "commit" => event'[n] = "done"
        BY <1>0, <3>2 DEF AppendEvent, DeliverRefused, DeliverSkipped, Commit, Delivering
      <4>3. \A m : m # n => event'[m] = event[m]
        BY <4>1
      <4> QED
        BY <4>1, <4>2, <4>3
    <3> QED
      BY <1>1, <3>1, <3>2
  <2>3. LiveOnce' /\ \A m \in Seqs : WasSent(m)' => WasSent(m)
    BY <2>1 DEF LiveOnce, WasSent
  <2> QED
    BY <2>1, <2>2, <2>3, NothingTaken
<1>2. CASE DeliverBuffered(n)
  <2>1. /\ recording = 0 /\ event[n] = "dispatch" /\ UNCHANGED <<flush, recording, out>>
        /\ buffer' = Append(buffer, n) /\ event' = [event EXCEPT ![n] = "commit"]
    BY <1>2 DEF DeliverBuffered, ToDeliver, Delivering, Unlocked, writerVars, replayVars
  <2>2. ~Held(n) /\ ~WasSent(n)
    BY <1>0, <2>1 DEF UntakenIsNowhere
  <2>3. Range(buffer') = Range(buffer) \cup {n} /\ IsInjective(buffer')
    <3>1. n \notin Range(buffer) /\ IsInjective(buffer)
      BY <2>2 DEF Held, HeldOnce
    <3> QED
      BY <1>0, <2>1, <3>1, RangeOfQueue, DistinctInQueue
  <2>4. /\ \A m : Held(m)' => Held(m) \/ m = n
        /\ \A m : WasSent(m)' <=> WasSent(m)
        /\ \A c \in Conns : n \notin Range(flush[c])
    BY <2>1, <2>2, <2>3 DEF Held, WasSent
  <2>5. RecordingIsDelivered'
    BY <2>1 DEF RecordingIsDelivered
  <2>6. UntakenIsNowhere'
    BY <1>0, <2>1, <2>4 DEF UntakenIsNowhere
  <2>7. HeldOnce'
    BY <2>1, <2>3, <2>4 DEF HeldOnce
  <2>8. HeldIsUnsent'
    BY <2>2, <2>4 DEF HeldIsUnsent
  <2>9. LiveOnce'
    BY <2>1 DEF LiveOnce
  <2> QED
    BY <2>5, <2>6, <2>7, <2>8, <2>9
<1>3. CASE DeliverAccepted(n)
  <2>1. /\ recording = 0 /\ recording' = n /\ event[n] = "dispatch" /\ event' = event
        /\ UNCHANGED <<flush, buffer>> /\ Accept(cur, n, "live")
    BY <1>3 DEF DeliverAccepted, ToDeliver, Delivering, Unlocked, storeVars, replayVars
  <2>2. ~Held(n) /\ ~WasSent(n)
    BY <1>0, <2>1 DEF UntakenIsNowhere
  <2>3. LiveOnce' /\ \A m \in Seqs : WasSent(m)' => WasSent(m) \/ m = n
    BY <1>0, <2>1, <2>2, AcceptOnce
  <2>4. \A m : Held(m)' <=> Held(m)
    BY <2>1 DEF Held
  <2>5. RecordingIsDelivered'
    BY <2>1 DEF RecordingIsDelivered
  <2>6. UntakenIsNowhere'
    BY <1>0, <2>1, <2>3, <2>4 DEF UntakenIsNowhere, Seqs
  <2>7. HeldOnce'
    BY <2>1 DEF HeldOnce
  <2>8. HeldIsUnsent'
    BY <2>2, <2>3, <2>4 DEF HeldIsUnsent
  <2> QED
    BY <2>3, <2>5, <2>6, <2>7, <2>8
<1>4. CASE DeliverRecord(n)
  <2>1. /\ recording = n /\ recording' = 0 /\ event' = [event EXCEPT ![n] = "commit"]
        /\ UNCHANGED <<flush, buffer, out>>
    BY <1>4 DEF DeliverRecord, writerVars, replayVars
  <2>2. \A m : (Held(m)' <=> Held(m)) /\ (WasSent(m)' <=> WasSent(m))
    BY <2>1 DEF Held, WasSent
  <2>3. RecordingIsDelivered'
    BY <2>1 DEF RecordingIsDelivered
  <2>4. UntakenIsNowhere'
    BY <1>0, <2>1, <2>2 DEF UntakenIsNowhere
  <2>5. HeldOnce' /\ LiveOnce'
    BY <2>1 DEF HeldOnce, LiveOnce
  <2>6. HeldIsUnsent'
    BY <2>2 DEF HeldIsUnsent
  <2> QED
    BY <2>3, <2>4, <2>5, <2>6
<1> QED
  BY <1>1, <1>2, <1>3, <1>4 DEF PublishStep

\* Connections and their replay goroutines.
LEMMA ConnectionOnce ==
  ASSUME LocalInv, OnceInv, NEW c \in Conns, ConnectionStep(c)
  PROVE  OnceInv'
<1> USE DEF LocalInv, OnceInv
<1>0. /\ flush \in [Conns -> Seq(Seqs)] /\ buffer \in Seq(Seqs) /\ cur \in Conns
      /\ flush[c] \in Seq(Seqs)
  BY DEF TypeOK
<1>1. CASE \/ BindFinds(c) \/ FindSession(c) \/ Reconnect(c) \/ BeginReplay(c) \/ ResumeFrom(c) \/ FetchSince(c)
           \/ ReplayReturns(c) \/ FlushReads(c) \/ FlushEnds(c)
  <2>1. /\ UNCHANGED <<flush, recording, out, event>> /\ (buffer' = buffer \/ buffer' = <<>>)
    BY <1>1 DEF BindFinds, FindSession, Reconnect, BeginReplay, ResumeFrom, FetchSince, ReplayReturns,
                FlushReads, FlushEnds, sessionVars, writerVars, storeVars, replayVars
  <2>2. LiveOnce' /\ \A m \in Seqs : WasSent(m)' => WasSent(m)
    BY <2>1 DEF LiveOnce, WasSent
  <2> QED
    BY <2>1, <2>2, NothingTaken
<1>2. CASE ReplayWrite(c)
  <2>1. UNCHANGED <<flush, recording, buffer, event>> /\ Accept(cur, next[c], "replay")
    BY <1>2 DEF ReplayWrite, sessionVars, storeVars
  <2>2. next[c] \in Seqs
    <3>1. /\ next[c] \in 0..(MaxSeq + 2) /\ limit[c] \in 0..MaxSeq
          /\ next[c] <= limit[c] /\ next[c] >= 1
      BY <1>2 DEF ReplayWrite, TypeOK, ReplayFromOne
    <3> QED
      BY <3>1, MaxSeqAssumption DEF Seqs
  <2>3. LiveOnce' /\ \A m \in Seqs : WasSent(m)' => WasSent(m)
    BY <1>0, <2>1, <2>2, AcceptOnce
  <2> QED
    BY <2>1, <2>3, NothingTaken
<1>3. CASE EndReplay(c)
  <2>1. /\ UNCHANGED <<recording, out, event>> /\ buffer' = <<>>
        /\ flush' = [flush EXCEPT ![c] = buffer] /\ flush[c] = <<>>
    BY <1>3 DEF EndReplay, writerVars, storeVars, FlushHasEvent
  <2>2. Range(buffer') = {} /\ IsInjective(buffer')
    BY <2>1 DEF Range, IsInjective
  <2>3. flush'[c] = buffer /\ \A d \in Conns : d # c => flush'[d] = flush[d]
    BY <1>0, <2>1
  <2>4. /\ \A m : Held(m)' => Held(m)
        /\ \A m : WasSent(m)' <=> WasSent(m)
    BY <2>1, <2>2, <2>3 DEF Held, WasSent
  <2>5. HeldOnce'
    <3> SUFFICES ASSUME NEW e \in Conns
                 PROVE  /\ IsInjective(flush'[e])
                        /\ \A m \in Range(flush'[e]) :
                             \A d \in Conns \ {e} : m \notin Range(flush'[d])
      BY <2>2 DEF HeldOnce
    <3>1. CASE e = c
      BY <2>3, <3>1 DEF HeldOnce
    <3>2. CASE e # c
      BY <2>3, <3>2 DEF HeldOnce
    <3> QED
      BY <3>1, <3>2
  <2>6. RecordingIsDelivered' /\ LiveOnce'
    BY <2>1 DEF RecordingIsDelivered, LiveOnce
  <2>7. UntakenIsNowhere' /\ HeldIsUnsent'
    BY <2>1, <2>4 DEF UntakenIsNowhere, HeldIsUnsent
  <2> QED
    BY <2>5, <2>6, <2>7
<1>4. CASE Flush(c)
  <2>0. flush[c] # <<>>
    BY <1>4 DEF Flush, FlushHasEvent
  <2> PICK n \in Seqs : n = Head(flush[c])
    BY <1>0, <2>0
  <2>1. /\ UNCHANGED <<recording, buffer, event>> /\ target[c] \in Conns
        /\ flush' = [flush EXCEPT ![c] = Tail(flush[c])] /\ flush[c] # <<>>
        /\ Accept(target[c], n, "flushed") \/ out' = out
    BY <1>4 DEF Flush, sessionVars, storeVars, FlushHasEvent, TypeOK
  <2>2. /\ n \in Seqs /\ Range(flush[c]) = {n} \cup Range(Tail(flush[c]))
        /\ n \notin Range(Tail(flush[c])) /\ IsInjective(Tail(flush[c]))
    <3>1. IsInjective(flush[c])
      BY DEF HeldOnce
    <3> QED
      BY <1>0, <2>1, <3>1, RangeOfQueue, DistinctInQueue
  <2>3. flush'[c] = Tail(flush[c]) /\ \A d \in Conns : d # c => flush'[d] = flush[d]
    BY <1>0, <2>1
  <2>4. Held(n) /\ ~WasSent(n) /\ ~Held(n)'
    <3>1. Held(n) /\ ~WasSent(n)
      BY <2>2 DEF Held, HeldIsUnsent
    <3>2. n \notin Range(buffer) /\ \A d \in Conns \ {c} : n \notin Range(flush[d])
      BY <2>2 DEF HeldOnce
    <3> QED
      BY <2>1, <2>2, <2>3, <3>1, <3>2 DEF Held
  <2>5. LiveOnce' /\ \A m \in Seqs : WasSent(m)' => WasSent(m) \/ m = n
    <3>1. CASE Accept(target[c], n, "flushed")
      BY <2>1, <2>2, <2>4, <3>1, AcceptOnce
    <3>2. CASE out' = out
      BY <3>2 DEF LiveOnce, WasSent
    <3> QED
      BY <2>1, <3>1, <3>2
  <2>6. \A m : Held(m)' => Held(m)
    BY <2>1, <2>2, <2>3 DEF Held
  <2>7. HeldOnce'
    <3>1. \A e \in Conns : Range(flush'[e]) \subseteq Range(flush[e]) /\ IsInjective(flush'[e])
      BY <2>2, <2>3 DEF HeldOnce
    <3> QED
      BY <2>1, <3>1 DEF HeldOnce
  <2>8. RecordingIsDelivered'
    BY <2>1 DEF RecordingIsDelivered
  <2>9. UntakenIsNowhere'
    BY <2>1, <2>2, <2>4, <2>5, <2>6 DEF UntakenIsNowhere
  <2>10. HeldIsUnsent'
    BY <2>4, <2>5, <2>6 DEF HeldIsUnsent
  <2> QED
    BY <2>5, <2>7, <2>8, <2>9, <2>10
<1> QED
  BY <1>1, <1>2, <1>3, <1>4 DEF ConnectionStep, ReplayStep

\* session.go:154-181, 231-239: besides what replays send, every event goes out at
\* most once, for any number of connections, publishers and overlapping replays.
THEOREM LiveOnceAlways == Spec => []LiveOnce
<1>1. Init => OnceInv
  <2> SUFFICES ASSUME Init PROVE OnceInv
    OBVIOUS
  <2>1. /\ Range(buffer) = {} /\ IsInjective(buffer)
        /\ \A c \in Conns : Range(flush[c]) = {} /\ IsInjective(flush[c])
    BY DEF Init, Range, IsInjective
  <2>2. \A n : ~Held(n) /\ ~WasSent(n)
    BY <2>1 DEF Init, Held, WasSent
  <2> QED
    BY <2>1, <2>2 DEF Init, OnceInv, RecordingIsDelivered, UntakenIsNowhere, HeldOnce,
                      HeldIsUnsent, LiveOnce
<1>2. SessionInv /\ OnceInv /\ [Next]_vars => OnceInv'
  <2> SUFFICES ASSUME SessionInv, OnceInv, [Next]_vars PROVE OnceInv'
    OBVIOUS
  <2>1. CASE CloseStep
    <3>1. /\ UNCHANGED <<flush, recording, out, event>> /\ (buffer' = buffer \/ buffer' = <<>>)
      BY <2>1 DEF CloseStep, Suspect, BeginClose, EvictShutdown, ReadFails, FinishClose,
                  ReleaseWriter, sessionVars, writerVars, storeVars, replayVars
    <3>2. LiveOnce' /\ \A m \in Seqs : WasSent(m)' => WasSent(m)
      BY <3>1 DEF OnceInv, LiveOnce, WasSent
    <3> QED
      BY <3>1, <3>2, NothingTaken
  <2>2. CASE UNCHANGED vars
    <3>1. UNCHANGED <<flush, recording, out, event, buffer>>
      BY <2>2 DEF vars, sessionVars, writerVars, storeVars, replayVars
    <3>2. LiveOnce' /\ \A m \in Seqs : WasSent(m)' => WasSent(m)
      BY <3>1 DEF OnceInv, LiveOnce, WasSent
    <3> QED
      BY <3>1, <3>2, NothingTaken
  <2> QED
    BY <2>1, <2>2, PublishOnce, ConnectionOnce DEF Next, SessionInv
<1>3. OnceInv => LiveOnce
  BY DEF OnceInv
<1> QED
  BY <1>1, <1>2, <1>3, SessionInvariant, PTL DEF Spec
===============================================================================
