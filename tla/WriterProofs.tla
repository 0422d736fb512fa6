----------------------------- MODULE WriterProofs -----------------------------
(***************************************************************************)
(* Proofs about Writer, for any set of callers, any set of events and any  *)
(* queue size: its safety invariants and its refinement of FrameQueue.     *)
(***************************************************************************)
EXTENDS Writer, TLAPS

\* The frame in flight is the one the writer goroutine is writing.
InflightIsWrite == inflight = (IF run = "write" THEN 1 ELSE 0)

\* A release under way was claimed, and has come as far as its caller has.
ReleaseProgress ==
  /\ (done \/ queueClosed) => closed
  /\ \A c \in Closers :
       /\ Releasing(c) => closed
       /\ (shut[c] \in {"closeconn", "closedone"}) => queueClosed
       /\ (shut[c] = "closedone") => (transport = "closed")

\* Past inflight.Wait the writer goroutine is not writing and, since StartFrame
\* sees w.closed, never will be.
QuietAfterWait ==
  /\ queueClosed => (run # "write")
  /\ \A c \in Closers :
       (shut[c] \in {"closeq", "closeconn", "closedone"}) => (run # "write")

\* The events accepted and not yet on the wire: the one the writer goroutine
\* holds, then the queue.
Held == IF run \in {"got", "write"} THEN <<cur>> ELSE <<>>

QueueIsSuffix ==
  (transport = "up" /\ run # "exit") =>
    /\ Len(accepted) = Len(wire) + Len(Held) + Len(queue)
    /\ \A i \in 1..Len(queue) : accepted[Len(wire) + Len(Held) + i] = queue[i]
    /\ (run \in {"got", "write"}) => (accepted[Len(wire) + 1] = cur)

ReleaseInv ==
  /\ InflightIsWrite
  /\ ReleaseProgress
  /\ QuietAfterWait
  /\ ReleaseIsQuiet
  /\ ReleasedOnce

WriterInv == TypeOK /\ ReleaseInv /\ QueueIsSuffix
-------------------------------------------------------------------------------
LEMMA InitInv == Init => WriterInv
<1> SUFFICES ASSUME Init PROVE WriterInv
  OBVIOUS
<1>1. /\ queue \in Seq(Events) /\ wire \in Seq(Events) /\ accepted \in Seq(Events)
      /\ Len(queue) = 0 /\ Len(wire) = 0 /\ Len(accepted) = 0 /\ 0 <= QueueSize
  BY QueueSizeAssumption DEF Init
<1>2. TypeOK
  BY <1>1 DEF Init, TypeOK
<1>3. ReleaseInv
  BY DEF Init, ReleaseInv, InflightIsWrite, ReleaseProgress, QuietAfterWait,
         ReleaseIsQuiet, ReleasedOnce, Releasing
<1>4. QueueIsSuffix
  BY <1>1 DEF Init, QueueIsSuffix, Held
<1> QED
  BY <1>2, <1>3, <1>4 DEF WriterInv

LEMMA TypeStep == TypeOK /\ InflightIsWrite /\ [Next]_vars => TypeOK'
<1> SUFFICES ASSUME TypeOK, InflightIsWrite, [Next]_vars PROVE TypeOK'
  OBVIOUS
<1> USE QueueSizeAssumption
<1>1. ASSUME NEW s \in Senders, NEW e \in todo, Enqueue(s, e) PROVE TypeOK'
  BY <1>1 DEF TypeOK, Enqueue, queueVars, runVars, closeVars, connVars
<1>2. ASSUME NEW s \in Senders, enq[s] # "idle", Send(s) PROVE TypeOK'
  <2>1. /\ queue' \in Seq(Events) /\ Len(queue') <= QueueSize
        /\ accepted' \in Seq(Events)
    BY <1>2 DEF TypeOK, Send
  <2> QED
    BY <1>2, <2>1 DEF TypeOK, Send, runVars, closeVars, connVars
<1>3. ASSUME NEW s \in Senders, enq[s] = "try", Overflow(s) PROVE TypeOK'
  BY <1>3 DEF TypeOK, Overflow, queueVars, runVars, closeVars, connVars
<1>4. ASSUME NEW s \in Senders, Timeout(s) PROVE TypeOK'
  BY <1>4 DEF TypeOK, Timeout, queueVars, runVars, closeVars, connVars
<1>5. ASSUME NEW s \in Senders, SendOnClosed(s) PROVE TypeOK'
  BY <1>5 DEF TypeOK, SendOnClosed, enqVars, queueVars, runVars, closeVars, connVars
<1>6. CASE Receive
  <2>1. queue' \in Seq(Events) /\ cur' \in Events /\ Len(queue') <= QueueSize
    BY <1>6 DEF Receive, TypeOK
  <2> QED
    BY <1>6, <2>1 DEF TypeOK, Receive, enqVars, closeVars, connVars
<1>7. CASE ChannelDrained
  BY <1>7 DEF TypeOK, ChannelDrained, queueVars, enqVars, closeVars, connVars
<1>8. CASE StartFrame
  BY <1>8 DEF TypeOK, StartFrame, queueVars, enqVars, closeVars, connVars
<1>9. CASE WriteFrame
  <2>1. inflight' \in Nat
    BY <1>9 DEF WriteFrame, InflightIsWrite
  <2>2. cur \in Events
    BY <1>9 DEF WriteFrame, TypeOK
  <2>3. wire' \in Seq(Events)
    <3>1. wire' = wire \/ wire' = Append(wire, cur)
      BY <1>9 DEF WriteFrame, TransportWrite, connVars
    <3>2. wire \in Seq(Events)
      BY DEF TypeOK
    <3>3. Append(wire, cur) \in Seq(Events)
      BY <2>2, <3>2
    <3> QED
      BY <3>1, <3>2, <3>3
  <2>4. transport' \in {"up", "broken", "closed"}
    BY <1>9 DEF WriteFrame, TransportWrite, connVars, TypeOK
  <2> QED
    BY <1>9, <2>1, <2>3, <2>4 DEF TypeOK, WriteFrame, queueVars, enqVars, closeVars
<1>10. ASSUME NEW c \in Closers, ShutdownStep(c) PROVE TypeOK'
  BY <1>10 DEF TypeOK, ShutdownStep, Claim, AwaitInflight, CloseQueue, CloseConn, CloseDone,
               queueVars, enqVars, runVars, connVars
<1>11. CASE UNCHANGED vars
  BY <1>11 DEF TypeOK, vars, queueVars, enqVars, runVars, closeVars, connVars
<1> QED
  BY <1>1, <1>2, <1>3, <1>4, <1>5, <1>6, <1>7, <1>8, <1>9, <1>10, <1>11
  DEF Next, EnqueueStep, TryEnqueue, EnqueueWithTimeout, RunStep

\* Only the writer goroutine and the callers of Shutdown touch what a release
\* depends on; the steps of Enqueue leave all of it alone.
LEMMA ReleaseStep == TypeOK /\ ReleaseInv /\ [Next]_vars => ReleaseInv'
<1> SUFFICES ASSUME TypeOK, ReleaseInv, [Next]_vars PROVE ReleaseInv'
  OBVIOUS
<1> USE DEF ReleaseInv, InflightIsWrite, ReleaseProgress, QuietAfterWait, ReleaseIsQuiet,
            ReleasedOnce, Releasing
<1>1. CASE UNCHANGED <<inflight, run, done, queueClosed, closed, shut, transport>>
  BY <1>1
<1>2. ASSUME NEW s \in Senders, EnqueueStep(s) PROVE ReleaseInv'
  BY <1>1, <1>2 DEF EnqueueStep, Enqueue, TryEnqueue, EnqueueWithTimeout, Send, Overflow,
       Timeout, SendOnClosed, queueVars, enqVars, runVars, closeVars, connVars
<1>3. CASE Receive
  BY <1>3 DEF Receive, closeVars, connVars
<1>4. CASE ChannelDrained
  BY <1>4 DEF ChannelDrained, closeVars, connVars
<1>5. CASE StartFrame
  BY <1>5 DEF StartFrame, closeVars, connVars
<1>6. CASE WriteFrame
  <2>1. ~queueClosed /\ transport' # "closed" /\ ~done
    BY <1>6 DEF WriteFrame, TransportWrite, connVars
  <2> QED
    BY <1>6, <2>1 DEF WriteFrame, closeVars
<1>7. ASSUME NEW c \in Closers, Claim(c) PROVE ReleaseInv'
  BY <1>7 DEF Claim, runVars, connVars, TypeOK
<1>8. ASSUME NEW c \in Closers, AwaitInflight(c) PROVE ReleaseInv'
  BY <1>8 DEF AwaitInflight, runVars, connVars, TypeOK
<1>9. ASSUME NEW c \in Closers, CloseQueue(c) PROVE ReleaseInv'
  BY <1>9 DEF CloseQueue, runVars, connVars, TypeOK
<1>10. ASSUME NEW c \in Closers, CloseConn(c) PROVE ReleaseInv'
  BY <1>10 DEF CloseConn, runVars, TypeOK
<1>11. ASSUME NEW c \in Closers, CloseDone(c) PROVE ReleaseInv'
  BY <1>11 DEF CloseDone, runVars, connVars, TypeOK
<1>12. CASE UNCHANGED vars
  BY <1>1, <1>12 DEF vars, runVars, closeVars, connVars
<1> QED
  BY <1>2, <1>3, <1>4, <1>5, <1>6, <1>7, <1>8, <1>9, <1>10, <1>11, <1>12
  DEF Next, RunStep, ShutdownStep

\* The queue moves with its two ends: Send appends to it and to accepted,
\* Receive moves its head into cur, WriteFrame moves cur onto the wire.
LEMMA OrderStep == TypeOK /\ QueueIsSuffix /\ [Next]_vars => QueueIsSuffix'
<1> SUFFICES ASSUME TypeOK, QueueIsSuffix, [Next]_vars, (transport = "up" /\ run # "exit")'
             PROVE  QueueIsSuffix'
  BY DEF QueueIsSuffix
<1>1. transport = "up" /\ run # "exit"
  BY DEF Next, EnqueueStep, Enqueue, TryEnqueue, EnqueueWithTimeout, Send, Overflow, Timeout,
     SendOnClosed, RunStep, Receive, ChannelDrained, StartFrame, WriteFrame, TransportWrite,
     ShutdownStep, Claim, AwaitInflight, CloseQueue, CloseConn, CloseDone,
     vars, runVars, connVars
<1>2. /\ Len(accepted) = Len(wire) + Len(Held) + Len(queue)
      /\ \A i \in 1..Len(queue) : accepted[Len(wire) + Len(Held) + i] = queue[i]
      /\ (run \in {"got", "write"}) => (accepted[Len(wire) + 1] = cur)
  BY <1>1 DEF QueueIsSuffix
<1>3. CASE UNCHANGED <<accepted, queue, wire, transport, cur, run>>
  BY <1>3 DEF QueueIsSuffix, Held
<1>4. ASSUME NEW s \in Senders, enq[s] # "idle", Send(s) PROVE QueueIsSuffix'
  <2>1. arg[s] \in Events /\ UNCHANGED <<run, cur, wire, transport>>
    BY <1>4 DEF TypeOK, Send, runVars, connVars
  <2>2. Held' = Held /\ Len(Held) \in {0, 1}
    BY <2>1 DEF Held
  <2>3. queue' = Append(queue, arg[s]) /\ accepted' = Append(accepted, arg[s])
    BY <1>4 DEF Send
  <2>4. Len(accepted') = Len(wire) + Len(Held) + Len(queue')
    BY <2>1, <2>2, <2>3, <1>2 DEF TypeOK
  <2>5. ASSUME NEW i \in 1..Len(queue')
        PROVE  accepted'[Len(wire) + Len(Held) + i] = queue'[i]
    <3>1. /\ queue \in Seq(Events) /\ accepted \in Seq(Events)
          /\ Len(wire) \in Nat /\ Len(Held) \in Nat
          /\ Len(queue') = Len(queue) + 1
      BY <2>1, <2>2, <2>3 DEF TypeOK
    <3>2. CASE i = Len(queue) + 1
      <4>1. queue'[i] = arg[s]
        BY <2>1, <2>3, <3>1, <3>2
      <4>2. accepted'[Len(accepted) + 1] = arg[s]
        BY <2>1, <2>3, <3>1
      <4> QED
        BY <3>1, <3>2, <4>1, <4>2, <1>2
    <3>3. CASE i \in 1..Len(queue)
      <4>1. queue'[i] = queue[i]
        BY <2>1, <2>3, <3>1, <3>3
      <4>2. Len(wire) + Len(Held) + i \in 1..Len(accepted)
        BY <3>1, <3>3, <1>2
      <4>3. \A j \in 1..Len(accepted) : accepted'[j] = accepted[j]
        BY <2>1, <2>3, <3>1
      <4> QED
        BY <3>3, <4>1, <4>2, <4>3, <1>2
    <3> QED
      BY <3>1, <3>2, <3>3
  <2>6. (run \in {"got", "write"}) => (accepted'[Len(wire) + 1] = cur)
    BY <2>1, <2>3, <1>2 DEF TypeOK, Held
  <2> QED
    BY <2>1, <2>2, <2>4, <2>5, <2>6 DEF QueueIsSuffix
<1>5. CASE Receive
  <2>1. /\ run = "recv" /\ run' = "got" /\ queue # <<>>
        /\ cur' = Head(queue) /\ queue' = Tail(queue)
        /\ UNCHANGED <<accepted, wire, transport>>
    BY <1>5 DEF Receive, connVars
  <2>2. Len(Held) = 0 /\ Len(Held') = 1
    BY <2>1 DEF Held
  <2>3. Len(queue') = Len(queue) - 1 /\ Len(queue) \in Nat \ {0}
        /\ cur' = queue[1] /\ \A i \in 1..Len(queue') : queue'[i] = queue[i + 1]
    BY <2>1 DEF TypeOK
  <2> QED
    BY <2>1, <2>2, <2>3, <1>2 DEF QueueIsSuffix, TypeOK
<1>6. CASE WriteFrame
  <2>1. /\ run = "write" /\ run' = "recv" /\ wire' = Append(wire, cur)
        /\ UNCHANGED <<accepted, queue, transport>>
    BY <1>6, <1>1 DEF WriteFrame, TransportWrite, queueVars, connVars
  <2>2. Len(Held) = 1 /\ Len(Held') = 0
    BY <2>1 DEF Held
  <2>3. Len(wire') = Len(wire) + 1
    BY <2>1 DEF TypeOK
  <2> QED
    BY <2>1, <2>2, <2>3, <1>2 DEF QueueIsSuffix, TypeOK
<1>7. CASE StartFrame
  BY <1>7, <1>2 DEF StartFrame, QueueIsSuffix, Held, queueVars, connVars
<1>8. ASSUME NEW s \in Senders,
             \/ \E e \in todo : Enqueue(s, e)
             \/ Overflow(s) \/ Timeout(s) \/ SendOnClosed(s)
      PROVE  QueueIsSuffix'
  BY <1>8, <1>3 DEF Enqueue, Overflow, Timeout, SendOnClosed, queueVars, runVars, connVars
<1>9. CASE ChannelDrained
  BY <1>9 DEF ChannelDrained
<1>10. ASSUME NEW c \in Closers, ShutdownStep(c) PROVE QueueIsSuffix'
  BY <1>10, <1>3, <1>1 DEF ShutdownStep, Claim, AwaitInflight, CloseQueue, CloseConn,
     CloseDone, queueVars, runVars, connVars
<1>11. CASE UNCHANGED vars
  BY <1>11, <1>3 DEF vars, queueVars, runVars, connVars
<1> QED
  BY <1>4, <1>5, <1>6, <1>7, <1>8, <1>9, <1>10, <1>11
  DEF Next, EnqueueStep, TryEnqueue, EnqueueWithTimeout, RunStep
-------------------------------------------------------------------------------
\* The inductive invariant: every writer, whatever its callers do, keeps its
\* types, releases in order and queues in order.
THEOREM WriterInvariant == Spec => []WriterInv
<1>1. WriterInv /\ [Next]_vars => WriterInv'
  BY TypeStep, ReleaseStep, OrderStep DEF WriterInv, ReleaseInv
<1> QED
  BY <1>1, InitInv, PTL DEF Spec

\* writer.go:75-87 and 108-124: every variable keeps its type, with the queue
\* within its capacity and the in-flight counter never below zero.
THEOREM TypeCorrect == Spec => []TypeOK
<1>1. WriterInv => TypeOK
  BY DEF WriterInv
<1> QED
  BY <1>1, WriterInvariant, PTL

\* Shutdown's promise that the frame in flight finishes before the queue and the
\* transport are closed, for any number of callers.
THEOREM ReleaseQuietAlways == Spec => []ReleaseIsQuiet
<1>1. WriterInv => ReleaseIsQuiet
  BY DEF WriterInv, ReleaseInv
<1> QED
  BY <1>1, WriterInvariant, PTL

\* Shutdown's promise of a single release, for any number of callers: neither
\* close(w.queue) nor close(w.done) can run twice.
THEOREM ReleasedOnceAlways == Spec => []ReleasedOnce
<1>1. WriterInv => ReleasedOnce
  BY DEF WriterInv, ReleaseInv
<1> QED
  BY <1>1, WriterInvariant, PTL
-------------------------------------------------------------------------------
LEMMA RefinesInit == Init => FQ!Init
  BY DEF Init, FQ!Init

\* Each step of the writer is a step of the abstract queue or leaves it alone:
\* Send accepts, a successful WriteFrame emits, CloseQueue releases.
LEMMA RefinesStep == WriterInv /\ [Next]_vars => [FQ!Next]_FQ!fqVars
<1> SUFFICES ASSUME WriterInv, [Next]_vars PROVE [FQ!Next]_FQ!fqVars
  OBVIOUS
<1> USE DEF FQ!fqVars
<1>1. CASE UNCHANGED <<accepted, wire, queueClosed>>
  BY <1>1
<1>2. ASSUME NEW s \in Senders, enq[s] # "idle", Send(s) PROVE FQ!Accept(arg[s]) /\ arg[s] \in Events
  BY <1>2 DEF Send, FQ!Accept, WriterInv, TypeOK, closeVars, connVars
<1>3. CASE WriteFrame /\ wire' # wire
  <2>1. /\ transport = "up" /\ run = "write" /\ wire' = Append(wire, cur)
        /\ UNCHANGED <<accepted, queueClosed>>
    BY <1>3 DEF WriteFrame, TransportWrite, connVars, queueVars, closeVars
  <2>2. ~queueClosed
    BY <2>1 DEF WriterInv, ReleaseInv, QuietAfterWait
  <2>3. Len(accepted) = Len(wire) + 1 + Len(queue) /\ accepted[Len(wire) + 1] = cur
    BY <2>1 DEF WriterInv, QueueIsSuffix, Held
  <2> QED
    BY <2>1, <2>2, <2>3 DEF FQ!Emit, FQ!Next, WriterInv, TypeOK
<1>4. CASE WriteFrame /\ wire' = wire
  BY <1>4, <1>1 DEF WriteFrame, queueVars, closeVars
<1>5. ASSUME NEW c \in Closers, CloseQueue(c) PROVE FQ!Release
  BY <1>5 DEF CloseQueue, FQ!Release, queueVars, connVars
<1>6. ASSUME NEW s \in Senders,
             \/ \E e \in todo : Enqueue(s, e)
             \/ Overflow(s) \/ Timeout(s) \/ SendOnClosed(s)
      PROVE  UNCHANGED <<accepted, wire, queueClosed>>
  BY <1>6 DEF Enqueue, Overflow, Timeout, SendOnClosed, queueVars, closeVars, connVars
<1>7. CASE Receive \/ ChannelDrained \/ StartFrame
  BY <1>7, <1>1 DEF Receive, ChannelDrained, StartFrame, queueVars, closeVars, connVars
<1>8. ASSUME NEW c \in Closers, Claim(c) \/ AwaitInflight(c) \/ CloseConn(c) \/ CloseDone(c)
      PROVE  UNCHANGED <<accepted, wire, queueClosed>>
  BY <1>8 DEF Claim, AwaitInflight, CloseConn, CloseDone, queueVars, connVars
<1>9. CASE UNCHANGED vars
  BY <1>9, <1>1 DEF vars, queueVars, closeVars, connVars
<1> QED
  BY <1>1, <1>2, <1>3, <1>4, <1>5, <1>6, <1>7, <1>8, <1>9
  DEF Next, EnqueueStep, TryEnqueue, EnqueueWithTimeout, RunStep, ShutdownStep, FQ!Next

\* The writer implements the abstract frame queue: frames leave in the order the
\* events were accepted, none twice or skipped, and none after the release.
THEOREM Refinement == Spec => ImplementsFrameQueue
<1> QED
  BY WriterInvariant, RefinesInit, RefinesStep, PTL
  DEF Spec, ImplementsFrameQueue, FQ!Spec
===============================================================================
