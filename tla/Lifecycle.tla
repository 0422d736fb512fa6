------------------------------- MODULE Lifecycle -------------------------------
(***************************************************************************)
(* internal/session/registry.go, the opening and closing of a session in   *)
(* session.go, and their callers handleWS, readLoop and Evict, around one  *)
(* session id.  Each connection is a goroutine that finds or binds the     *)
(* session, then reads frames until a read fails; the evictor runs in a    *)
(* reader (a close frame) or in the heartbeat sweep (module Heartbeat).    *)
(* A session object and its id are different things here: after a removal  *)
(* the same id is bound to a new object while goroutines hold the old one. *)
(***************************************************************************)
EXTENDS Naturals

CONSTANTS Sess,     \* session objects; bound: sessions bound in a behaviour
          Conns,    \* connections that ask for the session id
          Sweeper,  \* the goroutine of Heartbeat.Run
          None      \* nil, or a missing map entry

ASSUME NoneAssumption == None \notin Sess \cup Conns \cup Nat
ASSUME SweeperAssumption == Sweeper \notin Conns

VARIABLES byID,      \* SessionRegistry.byID[id]
          active,    \* SessionRegistry.active
          lastSeen,  \* SessionRegistry.lastSeen[id]
          clock,     \* the wall clock, in heartbeat intervals
          state,     \* Session.state
          conn,      \* the connection of Session.conn and Session.writer
          closedCh,  \* whether Session.closedCh is open or closed
          writer,    \* per connection: no writer, an open one, one that was shut down
          pc,        \* program counter of each goroutine
          sess,      \* the session object it works on
          reads,     \* the connection a readLoop reads from
          after,     \* where it goes on after Evict or Remove
          crashed    \* a goroutine closed a closed channel: the process is gone

Procs == Conns \cup {Sweeper}
registryVars == <<byID, active, lastSeen>>
sessionVars  == <<state, conn, closedCh, writer>>
lifecycleVars == <<registryVars, clock, sessionVars, pc, sess, reads, after, crashed>>

LifecycleInit ==
  /\ byID = None
  /\ active = {}
  /\ lastSeen = None
  /\ clock = 0
  /\ state = [s \in Sess |-> "unborn"]
  /\ conn = [s \in Sess |-> None]
  /\ closedCh = [s \in Sess |-> "open"]
  /\ writer = [c \in Conns |-> "none"]
  /\ pc = [p \in Procs |-> IF p = Sweeper THEN "idle" ELSE "new"]
  /\ sess = [p \in Procs |-> None]
  /\ reads = [c \in Conns |-> None]
  /\ after = [p \in Procs |-> IF p = Sweeper THEN "visit" ELSE "done"]
  /\ crashed = FALSE

Going == {"active", "suspected"}
Goto(p, from, to) == ~crashed /\ pc[p] = from /\ pc' = [pc EXCEPT ![p] = to]

\* SessionRegistry.IsLive.
IsLive == byID # None /\ state[byID] \in Going

-------------------------------------------------------------------------------
(* handleWS *)

\* Variant: the answer nil is not checked.
GetUnchecked(c) ==
  /\ Goto(c, "new", "found")
  /\ sess' = [sess EXCEPT ![c] = byID]
  /\ UNCHANGED <<registryVars, clock, sessionVars, reads, after, crashed>>

\* sessions.Get.
Get(c) ==
  /\ Goto(c, "new", IF byID = None THEN "bind" ELSE "found")
  /\ sess' = [sess EXCEPT ![c] = byID]
  /\ UNCHANGED <<registryVars, clock, sessionVars, reads, after, crashed>>

\* sess.State(), under a lock it gives up again.
TestState(c) ==
  /\ Goto(c, "found", IF state[sess[c]] = "closed" THEN "bind" ELSE "reconnect")
  /\ UNCHANGED <<registryVars, clock, sessionVars, sess, reads, after, crashed>>

\* Session.Reconnect: whatever state the session is in by now, it becomes active.
Reconnect(c) ==
  /\ Goto(c, "reconnect", "start")
  /\ state' = [state EXCEPT ![sess[c]] = "active"]
  /\ conn' = [conn EXCEPT ![sess[c]] = c]
  /\ closedCh' = [closedCh EXCEPT ![sess[c]] = "open"]
  /\ writer' = [writer EXCEPT ![c] = "open"]
  /\ UNCHANGED <<registryVars, clock, sess, reads, after, crashed>>

\* What Bind takes for the active session of the id.
Held == byID # None /\ state[byID] # "closed"

\* Bind returns the session another connection has bound meanwhile; the new
\* connection is then attached to nothing.
BindFinds(c) ==
  /\ Goto(c, "bind", "start")
  /\ Held
  /\ sess' = [sess EXCEPT ![c] = byID]
  /\ UNCHANGED <<registryVars, clock, sessionVars, reads, after, crashed>>

\* Or it makes a new one.
BindNew(c, s) ==
  /\ Goto(c, "bind", "start")
  /\ ~Held
  /\ state[s] = "unborn"
  /\ byID' = s
  /\ active' = active \cup {s}
  /\ lastSeen' = clock
  /\ state' = [state EXCEPT ![s] = "active"]
  /\ conn' = [conn EXCEPT ![s] = c]
  /\ writer' = [writer EXCEPT ![c] = "open"]
  /\ sess' = [sess EXCEPT ![c] = s]
  /\ UNCHANGED <<clock, closedCh, reads, after, crashed>>

-------------------------------------------------------------------------------
(* readLoop *)

\* The loop reads from the connection the session has when it starts.
StartReading(c) ==
  /\ Goto(c, "start", "reading")
  /\ reads' = [reads EXCEPT ![c] = conn[sess[c]]]
  /\ UNCHANGED <<registryVars, clock, sessionVars, sess, after, crashed>>

\* SessionRegistry.Touch, by session id.
Touch == lastSeen' = IF IsLive THEN clock ELSE lastSeen

\* Frames that were received before the transport was released may still be read.
TouchFrame(c) ==
  /\ ~crashed
  /\ pc[c] = "reading"
  /\ Touch
  /\ UNCHANGED <<byID, active, clock, sessionVars, pc, sess, reads, after, crashed>>

CloseFrame(c) ==
  /\ Goto(c, "reading", "evict")
  /\ after' = [after EXCEPT ![c] = "reading"]
  /\ UNCHANGED <<registryVars, clock, sessionVars, sess, reads, crashed>>

\* The deadline passes, the peer is gone, or the transport has been released.
ReadFails(c) ==
  /\ Goto(c, "reading", "failed")
  /\ UNCHANGED <<registryVars, clock, sessionVars, sess, reads, after, crashed>>

\* Variant: the deferred test asks the registry whether the session is its own.
DeferredById(c) ==
  /\ Goto(c, "failed", IF byID = sess[c] THEN "remove" ELSE "done")
  /\ after' = [after EXCEPT ![c] = "done"]
  /\ UNCHANGED <<registryVars, clock, sessionVars, sess, reads, crashed>>

\* The deferred test, under a lock it gives up again.
Deferred(c) ==
  /\ Goto(c, "failed", IF conn[sess[c]] = reads[c] THEN "remove" ELSE "done")
  /\ after' = [after EXCEPT ![c] = "done"]
  /\ UNCHANGED <<registryVars, clock, sessionVars, sess, reads, crashed>>

-------------------------------------------------------------------------------
(* Evictor.Evict, SessionRegistry.Remove and Session.FinishClose, by a reader *)
(* or by the sweep                                                            *)

BeginClose(p) ==
  /\ Goto(p, "evict", IF state[sess[p]] \in Going THEN "shutdown" ELSE after[p])
  /\ state' = [state EXCEPT ![sess[p]] = IF @ \in Going THEN "closing" ELSE @]
  /\ UNCHANGED <<registryVars, clock, conn, closedCh, writer, sess, reads, after, crashed>>

\* Writer.Shutdown of whatever writer is current.  The step is its claim: the first
\* to make it waits for the frame in flight and then releases the transport (module
\* Writer), and whoever comes second goes on at once, maybe before that.
Release(p) == writer' = [writer EXCEPT ![conn[sess[p]]] = "shut"]

\* Variant: Evict gives up when the writer does not release in time.
EvictGivesUp(p) ==
  /\ Goto(p, "shutdown", after[p])
  /\ Release(p)
  /\ UNCHANGED <<registryVars, clock, state, conn, closedCh, sess, reads, after, crashed>>

EvictShutdown(p) ==
  /\ Goto(p, "shutdown", "remove")
  /\ Release(p)
  /\ UNCHANGED <<registryVars, clock, state, conn, closedCh, sess, reads, after, crashed>>

\* Variant: Remove works only on the session the registry has under the id.
RemoveBound(p) ==
  /\ Goto(p, "remove", "finish")
  /\ byID' = None
  /\ active' = active \ {sess[p]}
  /\ lastSeen' = None
  /\ UNCHANGED <<clock, sessionVars, sess, reads, after, crashed>>

\* SessionRegistry.Remove under r.mu: what is kept per id goes, whoever has it.
Remove(p) ==
  /\ Goto(p, "remove", "finish")
  /\ byID' = IF byID = sess[p] THEN None ELSE byID
  /\ active' = active \ {sess[p]}
  /\ lastSeen' = None
  /\ UNCHANGED <<clock, sessionVars, sess, reads, after, crashed>>

\* Variant: only a session that is closing can finish.
FinishClosing(p) ==
  /\ Goto(p, "finish", "release")
  /\ state' = [state EXCEPT ![sess[p]] = IF @ = "closing" THEN "closed" ELSE @]
  /\ UNCHANGED <<registryVars, clock, conn, closedCh, writer, sess, reads, after, crashed>>

FinishClose(p) ==
  /\ Goto(p, "finish", "release")
  /\ state' = [state EXCEPT ![sess[p]] = "closed"]
  /\ UNCHANGED <<registryVars, clock, conn, closedCh, writer, sess, reads, after, crashed>>

\* Variant: FinishClose relies on an evictor to have released the writer.
ReleaseNothing(p) ==
  /\ Goto(p, "release", "closeCh")
  /\ UNCHANGED <<registryVars, clock, sessionVars, sess, reads, after, crashed>>

ReleaseWriter(p) ==
  /\ Goto(p, "release", "closeCh")
  /\ Release(p)
  /\ UNCHANGED <<registryVars, clock, state, conn, closedCh, sess, reads, after, crashed>>

\* close(s.closedCh): a second close of the same channel ends the process.
CloseCh(p) ==
  /\ Goto(p, "closeCh", after[p])
  /\ closedCh' = [closedCh EXCEPT ![sess[p]] = "closed"]
  /\ crashed' = (closedCh[sess[p]] = "closed")
  /\ UNCHANGED <<registryVars, clock, state, conn, writer, sess, reads, after>>

Close(p) == \/ BeginClose(p) \/ EvictShutdown(p) \/ Remove(p)
            \/ FinishClose(p) \/ ReleaseWriter(p) \/ CloseCh(p)

Connection(c) ==
  \/ Get(c) \/ TestState(c) \/ Reconnect(c)
  \/ BindFinds(c) \/ \E s \in Sess : BindNew(c, s)
  \/ StartReading(c) \/ TouchFrame(c) \/ CloseFrame(c) \/ ReadFails(c) \/ Deferred(c)
  \/ Close(c)

-------------------------------------------------------------------------------
(* Properties *)

Removal == {"remove", "finish", "release", "closeCh"}
Unattached == {"new", "bind", "idle", "visit"}
ConnLabels  == {"new", "found", "reconnect", "bind", "start", "reading", "failed",
                "evict", "shutdown", "done"} \cup Removal
SweepLabels == {"idle", "visit", "age", "suspect", "renew", "evict", "shutdown"} \cup Removal

\* Every variable has its type; a goroutine past the lookup has a session, and
\* a session that was bound has a connection.
LifecycleTypeOK ==
  /\ byID \in Sess \cup {None} /\ active \subseteq Sess
  /\ clock \in Nat /\ lastSeen \in Nat \cup {None}
  /\ state \in [Sess -> {"unborn", "active", "suspected", "closing", "closed"}]
  /\ conn \in [Sess -> Conns \cup {None}]
  /\ closedCh \in [Sess -> {"open", "closed"}]
  /\ writer \in [Conns -> {"none", "open", "shut"}]
  /\ pc \in [Procs -> ConnLabels \cup SweepLabels]
  /\ \A p \in Procs : pc[p] \in IF p = Sweeper THEN SweepLabels ELSE ConnLabels
  /\ sess \in [Procs -> Sess \cup {None}]
  /\ reads \in [Conns -> Conns \cup {None}]
  /\ after \in [Procs -> {"reading", "done", "visit"}]
  /\ \A p \in Procs : after[p] = "visit" <=> p = Sweeper
  /\ crashed \in BOOLEAN
  /\ \A s \in Sess : conn[s] = None <=> state[s] = "unborn"
  /\ \A p \in Procs : pc[p] \notin Unattached => sess[p] # None /\ state[sess[p]] # "unborn"
  /\ \A c \in Conns : pc[c] \in {"reading", "failed", "evict", "shutdown"} \cup Removal
                        => reads[c] # None

\* The set of active sessions is what the id is bound to, and never a session
\* that is closed: whatever handlers, readers and evictors of older objects do
\* under the same id (registry.go:35-60).
RegistryCoherent ==
  /\ active = IF byID = None THEN {} ELSE {byID}
  /\ byID # None => state[byID] \notin {"unborn", "closed"}

\* "Remove releases a session and its transport" (registry.go:48): the writer of a
\* session that is closed has been told to shut down, or FinishClose is about to
\* tell it, even when a reconnect replaced the writer in the middle.  That such a
\* writer releases its transport is what Writer!ShutdownReleases says.
ClosedIsReleased ==
  \A s \in Sess : state[s] = "closed" =>
    \/ writer[conn[s]] = "shut"
    \/ \E p \in Procs : sess[p] = s /\ pc[p] = "release"

\* A session does not stay closing: whoever began to close it is on its way to
\* FinishClose (evictor.go:26-38).
ClosingHasCloser ==
  \A s \in Sess : state[s] = "closing" =>
    \E p \in Procs : sess[p] = s /\ pc[p] \in {"shutdown", "remove", "finish"}

\* A live session has a goroutine that will close it when the peer goes away:
\* the handler or the reader of its present connection (server.go:149-170), also
\* when the session was reconnected while it was being removed.
LiveHasReader ==
  \A s \in Sess : state[s] \in Going =>
    /\ sess[conn[s]] = s
    /\ \/ pc[conn[s]] = "start"
       \/ /\ pc[conn[s]] \in {"reading", "failed", "evict", "shutdown", "remove", "finish"}
          /\ reads[conn[s]] = conn[s]

\* The writer of a connection whose reader has ended was shut down, unless a
\* reconnect replaced it (session.go:106 drops the old writer) or Bind ignored the
\* connection (registry.go:37).
OnlyReplacedLeak ==
  \A c \in Conns : pc[c] = "done" /\ writer[c] # "shut" => conn[sess[c]] # c

\* "Evict closes the session through its writer so an in-flight frame is
\* finished or safely aborted before the transport is released" (evictor.go:24);
\* an eviction and the reader that notices it do not end the process.
EvictionIsSafe == ~crashed
===============================================================================
