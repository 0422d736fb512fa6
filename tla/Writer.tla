-------------------------------- MODULE Writer --------------------------------
(***************************************************************************)
(* internal/session/writer.go and backpressure.go: the bounded write queue *)
(* of one connection.  Three kinds of goroutine meet here: callers of      *)
(* Enqueue, callers of Shutdown, and the writer goroutine (run).  w.mu     *)
(* guards only the flag `closed' and the WaitGroup's Add, so every critical*)
(* section is one action; the channel w.queue is a bounded FIFO that panics*)
(* on a send after close(w.queue).                                         *)
(***************************************************************************)
EXTENDS Naturals, Sequences, FiniteSets

CONSTANTS Senders,    \* goroutines inside Enqueue
          Closers,    \* goroutines inside Shutdown
          Events,     \* the events they enqueue, each at most once
          QueueSize,  \* cap(w.queue)
          NoEvent     \* the zero model.Event, held by a variable before its first use

\* NewWriter raises a queue size below 1 to 1.
ASSUME QueueSizeAssumption == QueueSize \in Nat \ {0}
ASSUME NoEventAssumption == NoEvent \notin Events

VARIABLES closed,       \* w.closed
          queue,        \* the contents of w.queue
          queueClosed,  \* close(w.queue) has happened
          inflight,     \* the counter of w.inflight
          done,         \* w.done is closed
          transport,    \* w.conn: usable, failed for good, or closed
          wire,         \* frames the transport has taken
          run,          \* program counter of the writer goroutine
          cur,          \* the event the writer goroutine holds
          enq,          \* program counter of each caller of Enqueue
          arg,          \* the event that caller passed
          shut,         \* program counter of each caller of Shutdown
          todo,         \* events not yet handed to Enqueue
          accepted,     \* history: events the queue has taken, in order
          crashed       \* a send on the closed channel has panicked

queueVars == <<queue, accepted>>
enqVars   == <<enq, arg, todo>>
runVars   == <<run, cur, inflight>>
closeVars == <<closed, queueClosed, done, shut>>
connVars  == <<transport, wire>>
vars == <<queueVars, enqVars, runVars, closeVars, connVars, crashed>>

Init ==
  /\ closed = FALSE
  /\ queue = <<>>
  /\ queueClosed = FALSE
  /\ inflight = 0
  /\ done = FALSE
  /\ transport = "up"
  /\ wire = <<>>
  /\ run = "recv"
  /\ cur = NoEvent
  /\ enq = [s \in Senders |-> "idle"]
  /\ arg = [s \in Senders |-> NoEvent]
  /\ shut = [c \in Closers |-> "idle"]
  /\ todo = Events
  /\ accepted = <<>>
  /\ crashed = FALSE

-------------------------------------------------------------------------------
(* Enqueue *)

\* Entry and the locked test of w.closed; ErrClosed returns at once.
Enqueue(s, e) ==
  /\ enq[s] = "idle"
  /\ e \in todo
  /\ todo' = todo \ {e}
  /\ arg' = [arg EXCEPT ![s] = e]
  /\ enq' = [enq EXCEPT ![s] = IF closed THEN "idle" ELSE "try"]
  /\ UNCHANGED <<queueVars, runVars, closeVars, connVars, crashed>>

\* The send case of both selects, on an open channel with room.
Send(s) ==
  /\ ~queueClosed
  /\ Len(queue) < QueueSize
  /\ queue' = Append(queue, arg[s])
  /\ accepted' = Append(accepted, arg[s])
  /\ enq' = [enq EXCEPT ![s] = "idle"]
  /\ UNCHANGED <<arg, todo, runVars, closeVars, connVars, crashed>>

\* TryEnqueue's default case: the queue is full, go on to the timed select.
Overflow(s) ==
  /\ ~queueClosed
  /\ Len(queue) = QueueSize
  /\ enq' = [enq EXCEPT ![s] = "wait"]
  /\ UNCHANGED <<arg, todo, queueVars, runVars, closeVars, connVars, crashed>>

TryEnqueue(s) ==
  /\ enq[s] = "try"
  /\ Send(s) \/ Overflow(s)

EnqueueWithTimeout(s) ==
  /\ enq[s] = "wait"
  /\ Send(s)

\* Variant: a plain blocking send, with no timer beside it.
TimeoutNever(s) == FALSE

\* The timer case: ErrBackpressure.
Timeout(s) ==
  /\ enq[s] = "wait"
  /\ enq' = [enq EXCEPT ![s] = "idle"]
  /\ UNCHANGED <<arg, todo, queueVars, runVars, closeVars, connVars, crashed>>

\* Go panics on a send to a closed channel, and the process ends.
SendOnClosed(s) ==
  /\ enq[s] \in {"try", "wait"}
  /\ queueClosed
  /\ crashed' = TRUE
  /\ UNCHANGED <<enqVars, queueVars, runVars, closeVars, connVars>>

-------------------------------------------------------------------------------
(* The writer goroutine: run and write *)

Receive ==
  /\ run = "recv"
  /\ queue # <<>>
  /\ cur' = Head(queue)
  /\ queue' = Tail(queue)
  /\ run' = "got"
  /\ UNCHANGED <<inflight, accepted, enqVars, closeVars, connVars, crashed>>

\* Variant: the loop polls the channel and ends when it finds nothing.
ChannelDrainedEarly ==
  /\ run = "recv"
  /\ queue = <<>>
  /\ run' = "exit"
  /\ UNCHANGED <<cur, inflight, queueVars, enqVars, closeVars, connVars, crashed>>

\* The range loop ends once the channel is closed and empty.
ChannelDrained ==
  /\ run = "recv"
  /\ queue = <<>>
  /\ queueClosed
  /\ run' = "exit"
  /\ UNCHANGED <<cur, inflight, queueVars, enqVars, closeVars, connVars, crashed>>

\* Variant: the frame is not counted as in flight.
StartFrameUncounted ==
  /\ run = "got"
  /\ run' = IF closed THEN "exit" ELSE "write"
  /\ UNCHANGED <<cur, inflight, queueVars, enqVars, closeVars, connVars, crashed>>

\* Under w.mu: a closed writer drops the event it received and returns, an
\* open one counts the frame as in flight.
StartFrame ==
  /\ run = "got"
  /\ IF closed
       THEN run' = "exit" /\ UNCHANGED inflight
       ELSE run' = "write" /\ inflight' = inflight + 1
  /\ UNCHANGED <<cur, queueVars, enqVars, closeVars, connVars, crashed>>

\* Variant: the transport forgets an earlier failure.
TransportWriteForgetful(e) ==
  \/ /\ transport # "closed"
     /\ wire' = Append(wire, e)
     /\ UNCHANGED transport
  \/ /\ transport # "closed"
     /\ transport' = "broken"
     /\ UNCHANGED wire

\* conn.WriteMessage: a closed transport refuses, and an open one takes the
\* frame or fails, after which gorilla's connection fails every later write.
TransportWrite(e) ==
  \/ /\ transport = "up"
     /\ wire' = Append(wire, e)
     /\ UNCHANGED transport
  \/ /\ transport = "up"
     /\ transport' = "broken"
     /\ UNCHANGED wire
  \/ /\ transport # "up"
     /\ UNCHANGED connVars

\* Variant: Done is called only when the transport took the frame.
WriteFrameNoDefer ==
  /\ run = "write"
  /\ TransportWrite(cur)
  /\ inflight' = IF transport' = "up" THEN inflight - 1 ELSE inflight
  /\ run' = "recv"
  /\ UNCHANGED <<cur, queueVars, enqVars, closeVars, crashed>>

\* The write itself; its error is ignored and Done is deferred.
WriteFrame ==
  /\ run = "write"
  /\ TransportWrite(cur)
  /\ inflight' = inflight - 1
  /\ run' = "recv"
  /\ UNCHANGED <<cur, queueVars, enqVars, closeVars, crashed>>

-------------------------------------------------------------------------------
(* Shutdown *)

\* Variant: Shutdown sets w.closed without testing it first.
ClaimUnchecked(c) ==
  /\ shut[c] = "idle"
  /\ closed' = TRUE
  /\ shut' = [shut EXCEPT ![c] = "wait"]
  /\ UNCHANGED <<queueClosed, done, queueVars, enqVars, runVars, connVars, crashed>>

\* Under w.mu: the first caller claims the shutdown, the others return.
Claim(c) ==
  /\ shut[c] = "idle"
  /\ closed' = TRUE
  /\ shut' = [shut EXCEPT ![c] = IF closed THEN "return" ELSE "wait"]
  /\ UNCHANGED <<queueClosed, done, queueVars, enqVars, runVars, connVars, crashed>>

AwaitInflight(c) ==
  /\ shut[c] = "wait"
  /\ inflight = 0
  /\ shut' = [shut EXCEPT ![c] = "closeq"]
  /\ UNCHANGED <<closed, queueClosed, done, queueVars, enqVars, runVars, connVars, crashed>>

\* close(w.queue): the receiver still drains it, a sender panics.
CloseQueue(c) ==
  /\ shut[c] = "closeq"
  /\ queueClosed' = TRUE
  /\ shut' = [shut EXCEPT ![c] = "closeconn"]
  /\ UNCHANGED <<closed, done, queueVars, enqVars, runVars, connVars, crashed>>

CloseConn(c) ==
  /\ shut[c] = "closeconn"
  /\ transport' = "closed"
  /\ shut' = [shut EXCEPT ![c] = "closedone"]
  /\ UNCHANGED <<closed, queueClosed, done, wire, queueVars, enqVars, runVars, crashed>>

\* close(w.done) wakes the callers of Wait.
CloseDone(c) ==
  /\ shut[c] = "closedone"
  /\ done' = TRUE
  /\ shut' = [shut EXCEPT ![c] = "return"]
  /\ UNCHANGED <<closed, queueClosed, queueVars, enqVars, runVars, connVars, crashed>>

-------------------------------------------------------------------------------
EnqueueStep(s) ==
  \/ \E e \in todo : Enqueue(s, e)
  \/ TryEnqueue(s)
  \/ EnqueueWithTimeout(s)
  \/ Timeout(s)
  \/ SendOnClosed(s)

RunStep == Receive \/ ChannelDrained \/ StartFrame \/ WriteFrame

ShutdownStep(c) ==
  \/ Claim(c)
  \/ AwaitInflight(c)
  \/ CloseQueue(c)
  \/ CloseConn(c)
  \/ CloseDone(c)

\* A panic ends the whole process: nothing moves after it.
Next ==
  /\ ~crashed
  /\ \/ \E s \in Senders : EnqueueStep(s)
     \/ RunStep
     \/ \E c \in Closers : ShutdownStep(c)

Spec == Init /\ [][Next]_vars

\* The Go scheduler runs every goroutine that can run, and a timer fires.
\* Nobody is obliged to call Enqueue or Shutdown.
Scheduling ==
  /\ \A s \in Senders :
       /\ WF_vars(~crashed /\ (TryEnqueue(s) \/ SendOnClosed(s)))
       /\ WF_vars(~crashed /\ Timeout(s))
  /\ WF_vars(~crashed /\ (Receive \/ ChannelDrained \/ StartFrame))
  /\ \A c \in Closers :
       WF_vars(~crashed /\ (AwaitInflight(c) \/ CloseQueue(c) \/ CloseConn(c) \/ CloseDone(c)))

\* A write that returns, because the peer reads or the kernel reports an error.
TransportReturns == WF_vars(~crashed /\ WriteFrame)

\* The peer may stop reading, and then WriteMessage never returns: the server sets
\* no write deadline.  So that the write returns is no part of the specification, but
\* a premise of the properties that need it.
FairSpec == Spec /\ Scheduling
-------------------------------------------------------------------------------
(* Properties *)

TypeOK ==
  /\ closed \in BOOLEAN
  /\ queue \in Seq(Events)
  /\ Len(queue) <= QueueSize
  /\ queueClosed \in BOOLEAN
  /\ inflight \in Nat
  /\ done \in BOOLEAN
  /\ transport \in {"up", "broken", "closed"}
  /\ wire \in Seq(Events)
  /\ run \in {"recv", "got", "write", "exit"}
  /\ cur \in Events \cup {NoEvent}
  /\ (run \in {"got", "write"}) => (cur \in Events)
  /\ enq \in [Senders -> {"idle", "try", "wait"}]
  /\ arg \in [Senders -> Events \cup {NoEvent}]
  /\ \A s \in Senders : (enq[s] # "idle") => (arg[s] \in Events)
  /\ shut \in [Closers -> {"idle", "wait", "closeq", "closeconn", "closedone", "return"}]
  /\ todo \subseteq Events
  /\ accepted \in Seq(Events)
  /\ crashed \in BOOLEAN

\* writer.go:73-74 "the in-flight frame finishes first, then the queue is closed
\* and the transport is released": no release step ever runs beside a frame.
ReleaseIsQuiet ==
  /\ (queueClosed \/ transport = "closed" \/ done) => (run # "write" /\ inflight = 0)
  /\ done => transport = "closed"
  /\ (transport = "closed") => queueClosed

\* writer.go:74 "exactly once": of all the callers of Shutdown, at most one is
\* past the claim; a second close of the channel would panic.
Releasing(c) == shut[c] \in {"wait", "closeq", "closeconn", "closedone"}

ReleasedOnce ==
  /\ \A c, d \in Closers : (Releasing(c) /\ Releasing(d)) => (c = d)
  /\ done => \A c \in Closers : ~Releasing(c)

\* Frames reach the transport in the order the events were accepted, none twice
\* and none skipped, and neither acceptance nor a frame follows close(w.queue).
FQ == INSTANCE FrameQueue WITH released <- queueClosed

ImplementsFrameQueue == FQ!Spec

\* writer.go:73-87: provided that writes return, once a Shutdown is under way the
\* transport is released, whatever the senders and the writer goroutine were doing,
\* unless the process dies first.
ShutdownReleases == TransportReturns => (closed ~> (done \/ crashed))

\* writer.go:108-119: provided that writes return, while the transport works and
\* nobody shuts the writer down every accepted event leaves as a frame.
AcceptedReachWire ==
  TransportReturns =>
    \A n \in 1..Cardinality(Events) :
      (Len(accepted) >= n) ~> (Len(wire) >= n \/ closed \/ transport # "up")

\* writer.go:47-49: a caller of Enqueue returns even when the peer never reads
\* another byte (or the process dies).
EnqueueReturns == \A s \in Senders : (enq[s] # "idle") ~> (enq[s] = "idle" \/ crashed)
===============================================================================
