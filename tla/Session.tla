------------------------------- MODULE Session --------------------------------
(***************************************************************************)
(* internal/session/session.go, internal/ack and internal/resume: what one *)
(* session delivers to its client, live or in a replay after a reconnect.  *)
(* Publishers, the replay goroutine of each connection, the readers that   *)
(* confirm, and a goroutine that closes the session meet under s.mu; the   *)
(* tracker has a lock of its own that a confirmation takes without s.mu.   *)
(* A writer is reduced to the events it accepted (module FrameQueue), and  *)
(* the store to its cursor, because it retains every sequence below it     *)
(* (StoreDense of module Publish).                                         *)
(***************************************************************************)
EXTENDS Naturals, Sequences, FiniteSets, Functions

CONSTANTS Conns,       \* connections of the client, one after the other
          MaxSeq,      \* bound: events published in a behaviour
          Publishers,  \* bound: publications under way at a time
          Refusals,    \* whether a writer or the limiter may refuse an event
          NoConn       \* the writer of a flush that has read none yet

ASSUME MaxSeqAssumption == MaxSeq \in Nat
ASSUME PublishersAssumption == Publishers \in Nat
ASSUME RefusalsAssumption == Refusals \in BOOLEAN
ASSUME NoConnAssumption == NoConn \notin Conns

VARIABLES state,      \* Session.state
          cur,        \* the connection of Session.conn and Session.writer
          tracker,    \* Session.tracker: the acked sequence and the pending ones
          replaying,  \* Session.replaying
          buffer,     \* Session.buffer
          recording,  \* the event whose Deliver holds s.mu between Enqueue and
                      \* Record, 0 when s.mu is free
          out,        \* per connection, what its writer accepted: live or replayed
          shut,       \* connections whose writer has been shut down
          event,      \* how far the publication of each sequence has come
          committed,  \* Store.cursor
          pc,         \* program counter of each connection's handler and replay
          from,       \* the ResumeFrom the replay read
          next,       \* the next sequence the replay writes
          limit,      \* the last sequence it fetched
          flush,      \* what EndReplay took from the buffer and has not written
          target,     \* the connection whose writer the flush enqueues to next
          closer,     \* program counter of the goroutine that closes the session
          dropped,    \* history: sequences a flush met a closed or full queue with
          first       \* history: the connection the session was bound for

sessionVars == <<state, cur, tracker, replaying, buffer, recording>>
writerVars  == <<out, shut>>
storeVars   == <<event, committed>>
replayVars  == <<pc, from, next, limit, flush, target>>
historyVars == <<dropped, first>>
vars == <<sessionVars, writerVars, storeVars, replayVars, closer, historyVars>>

Seqs == 1..MaxSeq

NewTracker == [acked |-> 0, pending |-> {}]

\* A session that SessionRegistry.Bind has just made, its replay still to begin.
Init ==
  /\ state = "active"
  /\ cur \in Conns
  /\ tracker = NewTracker
  /\ replaying = FALSE
  /\ buffer = <<>>
  /\ recording = 0
  /\ out = [c \in Conns |-> <<>>]
  /\ shut = {}
  /\ event = [n \in Seqs |-> "none"]
  /\ committed = 0
  /\ pc = [c \in Conns |-> IF c = cur THEN "attached" ELSE "absent"]
  /\ from = [c \in Conns |-> 0]
  /\ next = [c \in Conns |-> 0]
  /\ limit = [c \in Conns |-> 0]
  /\ flush = [c \in Conns |-> <<>>]
  /\ target = [c \in Conns |-> NoConn]
  /\ closer = "idle"
  /\ dropped = {}
  /\ first = cur

Unlocked == recording = 0
Closed == state \in {"closing", "closed"}
Goto(c, l) == pc' = [pc EXCEPT ![c] = l]

-------------------------------------------------------------------------------
(* The tracker *)

Record(n) == tracker' = [tracker EXCEPT !.pending = @ \cup {n}]

\* Confirm drops the sequence and raises the position; it never waits for others.
Confirmed(t, n) ==
  [acked |-> IF n > t.acked THEN n ELSE t.acked, pending |-> t.pending \ {n}]

Covered(n) == n <= tracker.acked
Pending(n) == n \in tracker.pending

-------------------------------------------------------------------------------
(* The writers *)

Entry(n, kind) == [seq |-> n, kind |-> kind]

\* Enqueue of the writer of connection w takes the event.
Accept(w, n, kind) ==
  /\ w \notin shut
  /\ out' = [out EXCEPT ![w] = Append(@, Entry(n, kind))]

\* It reports ErrClosed or, from a full queue, ErrBackpressure.
MayRefuse(w) == w \in shut \/ Refusals

-------------------------------------------------------------------------------
(* Publishers: append, deliver to this session, commit *)

Publishing == {n \in Seqs : event[n] \in {"dispatch", "commit"}}

AppendEvent(n) ==
  /\ event[n] = "none"
  /\ \A m \in 1..(n - 1) : event[m] # "none"
  /\ Cardinality(Publishing) < Publishers
  /\ event' = [event EXCEPT ![n] = "dispatch"]
  /\ UNCHANGED <<sessionVars, writerVars, committed, replayVars, closer, historyVars>>

\* Remove takes the session from the registry before FinishClose: a publisher may no
\* longer find it, or may have found it before.
Removed == closer \in {"finish", "release", "closed"}

\* The entry of Deliver, under s.mu.
Delivering(n) == event[n] = "dispatch" /\ Unlocked

DeliverRefused(n) ==
  /\ Delivering(n)
  /\ \/ Closed \/ Removed
     \/ ~Covered(n) /\ ~Pending(n) /\ (Refusals \/ (~replaying /\ MayRefuse(cur)))
  /\ event' = [event EXCEPT ![n] = "failed"]
  /\ UNCHANGED <<sessionVars, writerVars, committed, replayVars, closer, historyVars>>

\* Covered or pending: reported as delivered, and nothing is sent.
DeliverSkipped(n) ==
  /\ Delivering(n)
  /\ ~Closed
  /\ Covered(n) \/ Pending(n)
  /\ event' = [event EXCEPT ![n] = "commit"]
  /\ UNCHANGED <<sessionVars, writerVars, committed, replayVars, closer, historyVars>>

ToDeliver(n) == Delivering(n) /\ ~Closed /\ ~Covered(n) /\ ~Pending(n)

DeliverBuffered(n) ==
  /\ ToDeliver(n)
  /\ replaying
  /\ buffer' = Append(buffer, n)
  /\ event' = [event EXCEPT ![n] = "commit"]
  /\ UNCHANGED <<state, cur, tracker, replaying, recording, writerVars, committed, replayVars,
                 closer, historyVars>>

\* Variant: the replay window is not looked at.
DeliverAcceptedUnbuffered(n) ==
  /\ ToDeliver(n)
  /\ Accept(cur, n, "live")
  /\ recording' = n
  /\ UNCHANGED <<state, cur, tracker, replaying, buffer, shut, storeVars, replayVars,
                 closer, historyVars>>

DeliverAccepted(n) ==
  /\ ToDeliver(n)
  /\ ~replaying
  /\ Accept(cur, n, "live")
  /\ recording' = n
  /\ UNCHANGED <<state, cur, tracker, replaying, buffer, shut, storeVars, replayVars,
                 closer, historyVars>>

\* tracker.Record after the writer took the event, s.mu still held.
DeliverRecord(n) ==
  /\ recording = n
  /\ event[n] = "dispatch"
  /\ Record(n)
  /\ recording' = 0
  /\ event' = [event EXCEPT ![n] = "commit"]
  /\ UNCHANGED <<state, cur, replaying, buffer, writerVars, committed, replayVars, closer,
                 historyVars>>

Commit(n) ==
  /\ event[n] = "commit"
  /\ event' = [event EXCEPT ![n] = "done"]
  /\ committed' = IF n > committed THEN n ELSE committed
  /\ UNCHANGED <<sessionVars, writerVars, replayVars, closer, historyVars>>

-------------------------------------------------------------------------------
(* The client: an ack frame, on whatever connection *)

\* Nobody asks whether the client has received what it confirms.  (A number below
\* the sequences changes nothing, and one above them does what the last does.)
Confirm(n) ==
  /\ tracker' = Confirmed(tracker, n)
  /\ UNCHANGED <<state, cur, replaying, buffer, recording, writerVars, storeVars,
                 replayVars, closer, historyVars>>

-------------------------------------------------------------------------------
(* A new connection: handleWS, Bind and Reconnect *)

\* Get came before the session was bound, or returned an older one that is closed;
\* now Bind finds this one.  The connection is dropped, but its handler starts a
\* replay of the session all the same.
BindFinds(c) ==
  /\ pc[c] = "absent"
  /\ Unlocked
  /\ state # "closed"
  /\ closer \notin {"release", "closed"}
  /\ Goto(c, "attached")
  /\ UNCHANGED <<sessionVars, writerVars, storeVars, from, next, limit, flush, target,
                 closer, historyVars>>

\* Get finds it: the test of State, under a lock it gives up again.
FindSession(c) ==
  /\ pc[c] = "absent"
  /\ Unlocked
  /\ state # "closed"
  /\ Goto(c, "found")
  /\ UNCHANGED <<sessionVars, writerVars, storeVars, from, next, limit, flush, target,
                 closer, historyVars>>

\* Variant: the tracker is kept.
ReconnectKeeping(c) ==
  /\ pc[c] = "found"
  /\ Unlocked
  /\ cur' = c
  /\ state' = "active"
  /\ replaying' = FALSE
  /\ buffer' = <<>>
  /\ Goto(c, "attached")
  /\ UNCHANGED <<tracker, recording, writerVars, storeVars, from, next, limit, flush,
                 target, closer, historyVars>>

Reconnect(c) ==
  /\ pc[c] = "found"
  /\ Unlocked
  /\ cur' = c
  /\ tracker' = NewTracker
  /\ state' = "active"
  /\ replaying' = FALSE
  /\ buffer' = <<>>
  /\ Goto(c, "attached")
  /\ UNCHANGED <<recording, writerVars, storeVars, from, next, limit, flush, target,
                 closer, historyVars>>

-------------------------------------------------------------------------------
(* The replay goroutine: ReplayWindow around Replay's work *)

\* ErrAlreadyReplaying ends the replay at once.
BeginReplay(c) ==
  /\ pc[c] = "attached"
  /\ Unlocked
  /\ IF Closed \/ replaying
       THEN Goto(c, "done") /\ UNCHANGED <<replaying, buffer>>
       ELSE Goto(c, "resume") /\ replaying' = TRUE /\ buffer' = <<>>
  /\ UNCHANGED <<state, cur, tracker, recording, writerVars, storeVars, from, next, limit,
                 flush, target, closer, historyVars>>

\* ResumeFrom, under the tracker's lock only.
ResumeFrom(c) ==
  /\ pc[c] = "resume"
  /\ from' = [from EXCEPT ![c] = tracker.acked + 1]
  /\ Goto(c, "fetch")
  /\ UNCHANGED <<sessionVars, writerVars, storeVars, next, limit, flush, target, closer,
                 historyVars>>

\* Store.Since: the committed events above, and not at, the position it is given.
FetchSince(c) ==
  /\ pc[c] = "fetch"
  /\ next' = [next EXCEPT ![c] = from[c] + 1]
  /\ limit' = [limit EXCEPT ![c] = committed]
  /\ Goto(c, "write")
  /\ UNCHANGED <<sessionVars, writerVars, storeVars, from, flush, target, closer, historyVars>>

\* Variant: the loop runs once more after the last event.
ReplayWriteLate(c) ==
  /\ pc[c] = "write"
  /\ next[c] <= limit[c] + 1
  /\ Unlocked
  /\ ~Closed
  /\ Accept(cur, next[c], "replay")
  /\ next' = [next EXCEPT ![c] = @ + 1]
  /\ UNCHANGED <<sessionVars, shut, storeVars, pc, from, limit, flush, target, closer,
                 historyVars>>

\* One round of the loop: the event goes to whatever writer is current.
ReplayWrite(c) ==
  /\ pc[c] = "write"
  /\ next[c] <= limit[c]
  /\ Unlocked
  /\ ~Closed
  /\ Accept(cur, next[c], "replay")
  /\ next' = [next EXCEPT ![c] = @ + 1]
  /\ UNCHANGED <<sessionVars, shut, storeVars, pc, from, limit, flush, target, closer,
                 historyVars>>

\* ReplayWrite reports an error.
WriteRefused(c) == next[c] <= limit[c] /\ Unlocked /\ (Closed \/ MayRefuse(cur))

\* Replay's variables are gone with it.
DropLocals(c) ==
  /\ from' = [from EXCEPT ![c] = 0]
  /\ next' = [next EXCEPT ![c] = 0]
  /\ limit' = [limit EXCEPT ![c] = 0]

\* Variant: an error leaves the window open.
ReplayReturnsLeaving(c) ==
  /\ pc[c] = "write"
  /\ \/ next[c] > limit[c] /\ Goto(c, "end")
     \/ WriteRefused(c) /\ Goto(c, "done")
  /\ DropLocals(c)
  /\ UNCHANGED <<sessionVars, writerVars, storeVars, flush, target, closer, historyVars>>

\* The work is done, or an error ends it; EndReplay is deferred for both.
ReplayReturns(c) ==
  /\ pc[c] = "write"
  /\ next[c] > limit[c] \/ WriteRefused(c)
  /\ Goto(c, "end")
  /\ DropLocals(c)
  /\ UNCHANGED <<sessionVars, writerVars, storeVars, flush, target, closer, historyVars>>

\* Variant: the buffer is cleared before it is read.
EndReplayClearing(c) ==
  /\ pc[c] = "end"
  /\ Unlocked
  /\ flush' = [flush EXCEPT ![c] = <<>>]
  /\ replaying' = FALSE
  /\ buffer' = <<>>
  /\ Goto(c, "flush")
  /\ UNCHANGED <<state, cur, tracker, recording, writerVars, storeVars, from, next, limit,
                 target, closer, historyVars>>

\* Variant: the buffer is kept after it has been taken.
EndReplayKeeping(c) ==
  /\ pc[c] = "end"
  /\ Unlocked
  /\ flush' = [flush EXCEPT ![c] = buffer]
  /\ replaying' = FALSE
  /\ Goto(c, "flush")
  /\ UNCHANGED <<state, cur, tracker, buffer, recording, writerVars, storeVars, from, next,
                 limit, target, closer, historyVars>>

\* The locked part of EndReplay.
EndReplay(c) ==
  /\ pc[c] = "end"
  /\ Unlocked
  /\ flush' = [flush EXCEPT ![c] = buffer]
  /\ replaying' = FALSE
  /\ buffer' = <<>>
  /\ Goto(c, "flush")
  /\ UNCHANGED <<state, cur, tracker, recording, writerVars, storeVars, from, next, limit,
                 target, closer, historyVars>>

\* A round of the flush reads s.writer, with no lock: by the time it enqueues,
\* another writer may have taken its place.
FlushReads(c) ==
  /\ pc[c] = "flush"
  /\ flush[c] # <<>>
  /\ target[c] = NoConn
  /\ target' = [target EXCEPT ![c] = cur]
  /\ UNCHANGED <<sessionVars, writerVars, storeVars, pc, from, next, limit, flush, closer,
                 historyVars>>

\* Its Enqueue; an error is ignored.
Flush(c) ==
  /\ target[c] # NoConn
  /\ \/ Accept(target[c], Head(flush[c]), "flushed") /\ UNCHANGED dropped
     \/ MayRefuse(target[c]) /\ dropped' = dropped \cup {Head(flush[c])} /\ UNCHANGED out
  /\ flush' = [flush EXCEPT ![c] = Tail(@)]
  /\ target' = [target EXCEPT ![c] = NoConn]
  /\ UNCHANGED <<sessionVars, shut, storeVars, pc, from, next, limit, closer, first>>

FlushEnds(c) ==
  /\ pc[c] = "flush"
  /\ flush[c] = <<>>
  /\ Goto(c, "done")
  /\ UNCHANGED <<sessionVars, writerVars, storeVars, from, next, limit, flush, target,
                 closer, historyVars>>

-------------------------------------------------------------------------------
(* The end of the session: Suspect, Evict, Remove and FinishClose *)

Suspect ==
  /\ Unlocked
  /\ state = "active"
  /\ state' = "suspected"
  /\ UNCHANGED <<cur, tracker, replaying, buffer, recording, writerVars, storeVars, replayVars,
                 closer, historyVars>>

BeginClose ==
  /\ closer = "idle"
  /\ Unlocked
  /\ state \in {"active", "suspected"}
  /\ state' = "closing"
  /\ closer' = "shutdown"
  /\ UNCHANGED <<cur, tracker, replaying, buffer, recording, writerVars, storeVars,
                 replayVars, historyVars>>

\* s.Writer().Shutdown(), of whatever writer is current by now.  Reading the writer
\* and shutting it down is one step, since only a flush still uses a replaced one.
EvictShutdown ==
  /\ closer = "shutdown"
  /\ Unlocked
  /\ shut' = shut \cup {cur}
  /\ closer' = "finish"
  /\ UNCHANGED <<sessionVars, out, storeVars, replayVars, historyVars>>

\* The read of the current connection fails and readLoop removes the session.
ReadFails ==
  /\ closer = "idle"
  /\ Unlocked
  /\ closer' = "finish"
  /\ UNCHANGED <<sessionVars, writerVars, storeVars, replayVars, historyVars>>

FinishClose ==
  /\ closer = "finish"
  /\ Unlocked
  /\ state' = "closed"
  /\ replaying' = FALSE
  /\ buffer' = <<>>
  /\ closer' = "release"
  /\ UNCHANGED <<cur, tracker, recording, writerVars, storeVars, replayVars, historyVars>>

\* s.writer.Shutdown() and close(s.closedCh), after s.mu is given up.
ReleaseWriter ==
  /\ closer = "release"
  /\ shut' = shut \cup {cur}
  /\ closer' = "closed"
  /\ UNCHANGED <<sessionVars, out, storeVars, replayVars, historyVars>>

-------------------------------------------------------------------------------
PublishStep(n) ==
  \/ AppendEvent(n)
  \/ DeliverRefused(n)
  \/ DeliverSkipped(n)
  \/ DeliverBuffered(n)
  \/ DeliverAccepted(n)
  \/ DeliverRecord(n)
  \/ Commit(n)

ReplayStep(c) ==
  \/ BeginReplay(c)
  \/ ResumeFrom(c)
  \/ FetchSince(c)
  \/ ReplayWrite(c)
  \/ ReplayReturns(c)
  \/ EndReplay(c)
  \/ FlushReads(c)
  \/ Flush(c)
  \/ FlushEnds(c)

ConnectionStep(c) == BindFinds(c) \/ FindSession(c) \/ Reconnect(c) \/ ReplayStep(c)

CloseStep ==
  \/ Suspect
  \/ BeginClose
  \/ EvictShutdown
  \/ ReadFails
  \/ FinishClose
  \/ ReleaseWriter

Next ==
  \/ \E n \in Seqs : PublishStep(n) \/ Confirm(n)
  \/ \E c \in Conns : ConnectionStep(c)
  \/ CloseStep

Spec == Init /\ [][Next]_vars

\* The Go scheduler runs the replay goroutines, and a Deliver that holds s.mu
\* gives it up.  Nobody is obliged to publish, confirm, reconnect or close.
FairSpec ==
  /\ Spec
  /\ \A c \in Conns : WF_vars(ReplayStep(c))
  /\ \A n \in Seqs : WF_vars(DeliverRecord(n))

-------------------------------------------------------------------------------
(* Properties *)

TypeOK ==
  /\ state \in {"active", "suspected", "closing", "closed"}
  /\ cur \in Conns
  /\ tracker \in [acked : 0..MaxSeq, pending : SUBSET Seqs]
  /\ replaying \in BOOLEAN
  /\ buffer \in Seq(Seqs)
  /\ recording \in 0..MaxSeq
  /\ out \in [Conns -> Seq([seq : Seqs, kind : {"live", "replay", "flushed"}])]
  /\ shut \subseteq Conns
  /\ event \in [Seqs -> {"none", "dispatch", "commit", "done", "failed"}]
  /\ committed \in 0..MaxSeq
  /\ pc \in [Conns -> {"absent", "found", "attached", "resume", "fetch", "write", "end",
                       "flush", "done"}]
  /\ from \in [Conns -> 0..(MaxSeq + 1)]
  /\ next \in [Conns -> 0..(MaxSeq + 2)]
  /\ limit \in [Conns -> 0..MaxSeq]
  /\ flush \in [Conns -> Seq(Seqs)]
  /\ target \in [Conns -> Conns \cup {NoConn}]
  /\ closer \in {"idle", "shutdown", "finish", "release", "closed"}
  /\ dropped \subseteq Seqs
  /\ first \in Conns

Sent(c, kinds) == {e.seq : e \in {f \in Range(out[c]) : f.kind \in kinds}}
OnWire(c) == Sent(c, {"live", "replay", "flushed"})

\* Goroutine c is between BeginReplay and EndReplay.
InWindow(c) == pc[c] \in {"resume", "fetch", "write", "end"}

\* session.go:151-153, ack.go:13-17: whatever the reconnects and the races with
\* confirmations, what the tracker holds as delivered but unconfirmed was accepted,
\* live, by the writer of the present connection and of no earlier one.
PendingWereSent == tracker.pending \subseteq Sent(cur, {"live"})

\* merge.go:14-16: buffered events are never stranded: as long as live events are
\* held back there is a replay that will end and flush them, also when connections
\* replace each other in the middle of one another's replays.
BufferHasFlusher == (replaying \/ buffer # <<>>) => (replaying /\ \E c \in Conns : InWindow(c))

\* The same as a promise: a live event held back is not held back for ever.
BufferIsEmptied == (buffer # <<>>) ~> (buffer = <<>>)

\* No connection has taken the session over from the one it was bound for.  (Others
\* may have joined it in Bind and run replays of their own.)
NeverReplaced == cur = first

\* Event n leaves for the client as a live one, buffered before or not.
GoesOut(n) ==
  \E c \in Conns :
    /\ Len(out'[c]) > Len(out[c])
    /\ out'[c][Len(out'[c])] \in {Entry(n, "live"), Entry(n, "flushed")}

\* An ended replay has taken it from the buffer and is about to enqueue it.
Flushing(n) == \E c \in Conns : n \in Range(flush[c])

\* resume.go:26-27 "replayed events are delivered before any live event that arrives
\* in the meantime": until a takeover, as long as a replay has its window open, the
\* only live events to go out are those an earlier replay held back and had begun to
\* flush, and no others join these; whoever else runs or is about to run a replay.
LiveWaitsForReplay ==
  [][\A c \in Conns :
       (NeverReplaced /\ InWindow(c) /\ InWindow(c)') =>
         \A n \in Seqs : (GoesOut(n) \/ Flushing(n)') => Flushing(n)]_vars

\* session.go:151-153, 229-240: until a takeover, every event for which Deliver
\* reported success and that the client has not confirmed past is on the wire, or
\* still to be flushed to it, or was refused by the queue in the flush; no hand-over
\* between the live path, the buffer and the flush loses one.
NothingLost ==
  NeverReplaced =>
    \A n \in Seqs :
      (event[n] \in {"commit", "done"} /\ ~Closed) =>
        \/ Covered(n)
        \/ n \in OnWire(cur) \cup Range(buffer) \cup dropped
        \/ Flushing(n)

\* session.go:154-181, 231-239: besides the replays, which do send again what a client
\* has already, no event goes out twice, although it may be buffered for one
\* connection, flushed by the goroutine of another and enqueued to the writer of a
\* third, and takeovers drop, reopen and close windows in between.
LiveOnce ==
  \A c, d \in Conns : \A i \in 1..Len(out[c]), j \in 1..Len(out[d]) :
    (/\ out[c][i].kind # "replay" /\ out[d][j].kind # "replay"
     /\ out[c][i].seq = out[d][j].seq) => c = d /\ i = j

\* session.go:198 "the first sequence a reconnect should replay": that sequence, once
\* it is committed, is among the replayed ones.
ReplayStartsAtResumePoint ==
  \A c \in Conns :
    (pc[c] = "write" /\ from[c] <= limit[c]) =>
      from[c] \in (next[c]..limit[c]) \cup Sent(cur, {"replay"})

\* resume.go:1-2 "preserving the global event order with live traffic": while events
\* are published one after the other, the live ones leave in that order.
LiveInOrder ==
  \A c \in Conns : \A i, j \in 1..Len(out[c]) :
    (i < j /\ out[c][i].kind # "replay" /\ out[c][j].kind # "replay") =>
      out[c][i].seq < out[c][j].seq
===============================================================================
