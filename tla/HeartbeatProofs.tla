---------------------------- MODULE HeartbeatProofs ----------------------------
(***************************************************************************)
(* Proofs about Heartbeat, for any number of connections and sessions and  *)
(* any thresholds: the registry and the sessions stay coherent under       *)
(* reconnects, removals and sweeps, and sweeps evict only who was silent.  *)
(***************************************************************************)
EXTENDS Heartbeat, LifecycleProofs

\* The sweep works on sessions that were bound.
SweepOK ==
  /\ todo \subseteq {s \in Sess : state[s] # "unborn"}
  /\ pc[Sweeper] = "idle" => todo = {}
  /\ tick \in Nat \cup {None} /\ now \in Nat

\* No tick is ahead of the clock, and what is kept as lastSeen is never older than
\* the last heartbeat: the sweep's own renewals only make it younger.
HeardOK ==
  /\ heard \in Nat /\ heard <= clock /\ now <= clock
  /\ tick # None => tick <= clock
  /\ lastSeen # None => heard <= lastSeen

HeartbeatInv ==
  LifecycleInv /\ SweepOK /\ HeardOK /\ EvictedWereSilent
-------------------------------------------------------------------------------
(* What the steps of module Lifecycle mean to the sweep *)

\* None takes the clock or a heartbeat back, or a session to before its Bind.
KeepsSeen ==
  /\ clock' = clock /\ LifecycleInv'
  /\ lastSeen' \in {lastSeen, clock, None}
  /\ \A q \in Sess : state[q] # "unborn" => state'[q] # "unborn"

CloseLabels == {"evict", "shutdown"} \cup Removal

LEMMA CloseEffect ==
  ASSUME LifecycleInv, NEW p \in Procs, Close(p)
  PROVE  /\ KeepsSeen /\ sess' = sess
         /\ pc[p] \in CloseLabels /\ pc'[p] \in CloseLabels \cup {after[p]} /\ pc'[p] # "evict"
         /\ \A q \in Procs : q # p => pc'[q] = pc[q]
<1>0. LifecycleTypeOK /\ RegistryCoherent /\ NotRebound
  BY DEF LifecycleInv
<1> USE <1>0 DEF LifecycleTypeOK, Procs, CloseLabels, Removal, Unattached, Going, IsLive, KeepsSeen,
                 Goto, registryVars, sessionVars
<1>1. CASE BeginClose(p)
  BY <1>1, BeginCloseKeeps DEF BeginClose
<1>2. CASE EvictShutdown(p)
  BY <1>2, EvictShutdownKeeps DEF EvictShutdown
<1>3. CASE Remove(p)
  BY <1>3, RemoveKeeps DEF Remove, RegistryCoherent
<1>4. CASE FinishClose(p)
  BY <1>4, FinishCloseKeeps DEF FinishClose, NotRebound
<1>5. CASE ReleaseWriter(p)
  BY <1>5, ReleaseWriterKeeps DEF ReleaseWriter
<1>6. CASE CloseCh(p)
  BY <1>6, CloseChKeeps DEF CloseCh
<1> QED
  BY <1>1, <1>2, <1>3, <1>4, <1>5, <1>6 DEF Close

LEMMA ConnectionEffect ==
  ASSUME LifecycleInv, NEW c \in Conns, Connection(c)
  PROVE  KeepsSeen /\ pc'[Sweeper] = pc[Sweeper] /\ sess'[Sweeper] = sess[Sweeper]
<1>0. LifecycleTypeOK /\ RegistryCoherent
  BY DEF LifecycleInv
<1> USE <1>0, SweeperAssumption
    DEF LifecycleTypeOK, Procs, Unattached, Going, IsLive, KeepsSeen, Goto, registryVars, sessionVars
<1>1. CASE Get(c)
  BY <1>1, GetKeeps DEF Get
<1>2. CASE TestState(c)
  BY <1>2, TestStateKeeps DEF TestState
<1>3. CASE Reconnect(c)
  BY <1>3, ReconnectKeeps DEF Reconnect
<1>4. CASE BindFinds(c)
  BY <1>4, BindFindsKeeps DEF BindFinds
<1>5. ASSUME NEW s \in Sess, BindNew(c, s)
      PROVE  KeepsSeen /\ pc'[Sweeper] = pc[Sweeper] /\ sess'[Sweeper] = sess[Sweeper]
  BY <1>5, BindNewKeeps DEF BindNew
<1>6. CASE StartReading(c)
  BY <1>6, StartReadingKeeps DEF StartReading
<1>7. CASE TouchFrame(c)
  BY <1>7, TouchFrameKeeps DEF TouchFrame, Touch
<1>8. CASE CloseFrame(c)
  BY <1>8, CloseFrameKeeps DEF CloseFrame
<1>9. CASE ReadFails(c)
  BY <1>9, ReadFailsKeeps DEF ReadFails
<1>10. CASE Deferred(c)
  BY <1>10, DeferredKeeps DEF Deferred
<1>11. CASE Close(c)
  BY <1>11, CloseEffect
<1> QED
  BY <1>1, <1>2, <1>3, <1>4, <1>5, <1>6, <1>7, <1>8, <1>9, <1>10, <1>11 DEF Connection
-------------------------------------------------------------------------------
(* The inductive invariant *)

LEMMA InitInv == Init => HeartbeatInv
<1> SUFFICES ASSUME Init PROVE HeartbeatInv
  OBVIOUS
<1> USE DEF Init, LifecycleInit
<1>1. LifecycleInv
  BY NoneAssumption, SweeperAssumption
     DEF LifecycleInv, LifecycleTypeOK, Procs, ConnLabels, SweepLabels, Removal, Unattached,
         RegistryCoherent, NotRebound, Attached, Early, EvictReturns, ClosedIsReleased,
         ClosingHasCloser, LiveHasReader, Going
<1>2. SweepOK /\ HeardOK /\ EvictedWereSilent
  BY NoneAssumption DEF Procs, SweepOK, HeardOK, EvictedWereSilent
<1> QED
  BY <1>1, <1>2 DEF HeartbeatInv

LEMMA TickKeeps ==
  ASSUME HeartbeatInv, Tick
  PROVE  HeartbeatInv'
<1>1. LifecycleInv'
  BY DEF HeartbeatInv, Tick, LifecycleInv, LifecycleTypeOK, RegistryCoherent, NotRebound, Attached,
         EvictReturns, ClosedIsReleased, ClosingHasCloser, LiveHasReader, registryVars, sessionVars
<1>2. SweepOK'
  BY DEF HeartbeatInv, LifecycleInv, Tick, SweepOK, LifecycleTypeOK, sessionVars
<1>3. HeardOK' /\ EvictedWereSilent'
  BY DEF HeartbeatInv, LifecycleInv, LifecycleTypeOK, SweepOK, HeardOK, EvictedWereSilent, Tick,
         registryVars
<1> QED
  BY <1>1, <1>2, <1>3 DEF HeartbeatInv

\* The snapshot has the session the id is bound to.
LEMMA SweepBeginsKeeps ==
  ASSUME HeartbeatInv, SweepBegins
  PROVE  HeartbeatInv'
<1>1. LifecycleInv'
  BY SweeperAssumption
     DEF HeartbeatInv, SweepBegins, LifecycleInv, LifecycleTypeOK, RegistryCoherent, NotRebound,
         Attached, EvictReturns, ClosedIsReleased, ClosingHasCloser, LiveHasReader, Procs,
         SweepLabels, Removal, Unattached, Goto, registryVars, sessionVars
<1>2. SweepOK'
  BY DEF HeartbeatInv, SweepBegins, SweepOK, LifecycleInv, LifecycleTypeOK, RegistryCoherent, Procs,
         Goto, sessionVars
<1>3. HeardOK' /\ EvictedWereSilent'
  BY DEF HeartbeatInv, LifecycleInv, LifecycleTypeOK, Procs, SweepOK, HeardOK, EvictedWereSilent,
         SweepBegins, Goto, registryVars
<1> QED
  BY <1>1, <1>2, <1>3 DEF HeartbeatInv

LEMMA SweepVisitKeeps ==
  ASSUME HeartbeatInv, NEW s \in Sess, SweepVisit(s)
  PROVE  HeartbeatInv'
<1>1. LifecycleInv'
  BY SweeperAssumption, NoneAssumption
     DEF HeartbeatInv, SweepVisit, SweepOK, LifecycleInv, LifecycleTypeOK, RegistryCoherent,
         NotRebound, Attached, EvictReturns, ClosedIsReleased, ClosingHasCloser, LiveHasReader,
         Procs, SweepLabels, Removal, Unattached, Goto, registryVars, sessionVars
<1>2. SweepOK'
  BY DEF HeartbeatInv, SweepVisit, SweepOK, LifecycleInv, LifecycleTypeOK, Procs, Goto, sessionVars
<1>3. HeardOK' /\ EvictedWereSilent'
  BY DEF HeartbeatInv, LifecycleInv, LifecycleTypeOK, Procs, HeardOK, EvictedWereSilent,
         SweepVisit, Goto, registryVars
<1> QED
  BY <1>1, <1>2, <1>3 DEF HeartbeatInv

\* Older than Timeout by what is kept, a client is silent for at least as long.
LEMMA SweepAgeKeeps ==
  ASSUME HeartbeatInv, SweepAge
  PROVE  HeartbeatInv'
<1>1. LifecycleInv'
  BY SweeperAssumption
     DEF HeartbeatInv, SweepAge, LifecycleInv, LifecycleTypeOK, RegistryCoherent, NotRebound,
         Attached, EvictReturns, ClosedIsReleased, ClosingHasCloser, LiveHasReader, Classify,
         Procs, SweepLabels, Removal, Unattached, Goto, registryVars, sessionVars
<1>2. SweepOK'
  BY DEF HeartbeatInv, SweepAge, SweepOK, LifecycleInv, LifecycleTypeOK, Classify, Procs, Goto,
         sessionVars, sweepVars
<1>3. HeardOK'
  BY DEF HeartbeatInv, HeardOK, SweepAge, registryVars, sweepVars
<1>4. EvictedWereSilent'
  <2>1. SUFFICES ASSUME pc'[Sweeper] = "evict" PROVE now - heard > Timeout
    BY DEF EvictedWereSilent, SweepAge, sweepVars
  <2>2. lastSeen # None /\ Classify(now - lastSeen) = "evict"
    BY <2>1 DEF HeartbeatInv, LifecycleInv, LifecycleTypeOK, SweepAge, Goto, Procs
  <2>3. now - lastSeen > Timeout
    BY <2>2 DEF Classify
  <2>4. /\ now \in Nat /\ heard \in Nat /\ lastSeen \in Nat /\ Timeout \in Nat
        /\ heard <= lastSeen
    BY <2>2, ThresholdAssumption DEF HeartbeatInv, LifecycleInv, LifecycleTypeOK, SweepOK, HeardOK
  <2> QED
    BY <2>3, <2>4
<1> QED
  BY <1>1, <1>2, <1>3, <1>4 DEF HeartbeatInv

LEMMA SweepSuspectKeeps ==
  ASSUME HeartbeatInv, SweepSuspect
  PROVE  HeartbeatInv'
<1>1. LifecycleInv'
  BY SweeperAssumption
     DEF HeartbeatInv, SweepSuspect, LifecycleInv, LifecycleTypeOK, RegistryCoherent, NotRebound,
         Attached, EvictReturns, ClosedIsReleased, ClosingHasCloser, LiveHasReader, Going,
         Procs, SweepLabels, Removal, Unattached, Goto, registryVars
<1>2. SweepOK'
  BY DEF HeartbeatInv, SweepSuspect, SweepOK, LifecycleInv, LifecycleTypeOK, Procs, Goto, sweepVars
<1>3. HeardOK' /\ EvictedWereSilent'
  BY DEF HeartbeatInv, LifecycleInv, LifecycleTypeOK, Procs, HeardOK, EvictedWereSilent,
         SweepSuspect, Goto, registryVars, sweepVars
<1> QED
  BY <1>1, <1>2, <1>3 DEF HeartbeatInv

LEMMA SweepRenewKeeps ==
  ASSUME HeartbeatInv, SweepRenew
  PROVE  HeartbeatInv'
<1>1. LifecycleInv'
  BY SweeperAssumption
     DEF HeartbeatInv, SweepRenew, LifecycleInv, LifecycleTypeOK, RegistryCoherent, NotRebound,
         Attached, EvictReturns, ClosedIsReleased, ClosingHasCloser, LiveHasReader, Touch,
         Procs, SweepLabels, Removal, Unattached, Goto, sessionVars
<1>2. SweepOK'
  BY DEF HeartbeatInv, SweepRenew, SweepOK, LifecycleInv, LifecycleTypeOK, Procs, Goto,
         sessionVars, sweepVars
<1>3. HeardOK' /\ EvictedWereSilent'
  BY DEF HeartbeatInv, LifecycleInv, LifecycleTypeOK, Procs, HeardOK, EvictedWereSilent,
         SweepRenew, Touch, Goto, sweepVars
<1> QED
  BY <1>1, <1>2, <1>3 DEF HeartbeatInv

LEMMA SweepEndsKeeps ==
  ASSUME HeartbeatInv, SweepEnds
  PROVE  HeartbeatInv'
<1>1. LifecycleInv'
  BY SweeperAssumption
     DEF HeartbeatInv, SweepEnds, LifecycleInv, LifecycleTypeOK, RegistryCoherent, NotRebound,
         Attached, EvictReturns, ClosedIsReleased, ClosingHasCloser, LiveHasReader,
         Procs, SweepLabels, Removal, Unattached, Goto, registryVars, sessionVars
<1>2. SweepOK'
  BY DEF HeartbeatInv, SweepEnds, SweepOK, LifecycleInv, LifecycleTypeOK, Procs, Goto,
         sessionVars, sweepVars
<1>3. HeardOK' /\ EvictedWereSilent'
  BY DEF HeartbeatInv, LifecycleInv, LifecycleTypeOK, Procs, HeardOK, EvictedWereSilent,
         SweepEnds, Goto, registryVars, sweepVars
<1> QED
  BY <1>1, <1>2, <1>3 DEF HeartbeatInv

\* Steps of handlers and readers; a heartbeat comes after the tick of the sweep.
LEMMA ConnectedKeeps ==
  ASSUME HeartbeatInv, Connected
  PROVE  HeartbeatInv'
<1>1. PICK c \in Conns : Connection(c) /\ heard' = IF Heartbeats(c) THEN clock ELSE heard
  BY DEF Connected
<1>2. /\ KeepsSeen /\ pc'[Sweeper] = pc[Sweeper] /\ sess'[Sweeper] = sess[Sweeper]
      /\ UNCHANGED sweepVars
  BY <1>1, ConnectionEffect DEF HeartbeatInv, Connected
<1>3. SweepOK'
  BY <1>2 DEF HeartbeatInv, KeepsSeen, SweepOK, sweepVars
<1>4. Heartbeats(c) => lastSeen' = clock
  BY DEF Heartbeats, TouchFrame, Touch, BindNew
<1>5. HeardOK' /\ EvictedWereSilent'
  BY <1>1, <1>2, <1>4 DEF HeartbeatInv, LifecycleInv, LifecycleTypeOK, SweepOK, KeepsSeen, HeardOK,
                          EvictedWereSilent, sweepVars
<1> QED
  BY <1>2, <1>3, <1>5 DEF HeartbeatInv, KeepsSeen

\* The eviction the sweep runs itself.
LEMMA EvictKeeps ==
  ASSUME HeartbeatInv, Evict
  PROVE  HeartbeatInv'
<1>1. /\ KeepsSeen /\ sess' = sess /\ after[Sweeper] = "visit"
      /\ pc[Sweeper] \in CloseLabels /\ pc'[Sweeper] \in CloseLabels \cup {"visit"}
      /\ pc'[Sweeper] # "evict" /\ UNCHANGED <<sweepVars, heard>>
  BY CloseEffect DEF HeartbeatInv, Evict, Procs, LifecycleInv, LifecycleTypeOK
<1>2. SweepOK'
  BY <1>1 DEF HeartbeatInv, KeepsSeen, CloseLabels, Removal, SweepOK, sweepVars
<1>3. HeardOK' /\ EvictedWereSilent'
  BY <1>1 DEF HeartbeatInv, KeepsSeen, HeardOK, EvictedWereSilent, sweepVars, LifecycleInv,
              LifecycleTypeOK
<1> QED
  BY <1>1, <1>2, <1>3 DEF HeartbeatInv, KeepsSeen

LEMMA NextInv == HeartbeatInv /\ [Next]_vars => HeartbeatInv'
<1> SUFFICES ASSUME HeartbeatInv, [Next]_vars PROVE HeartbeatInv'
  OBVIOUS
<1>1. CASE Next /\ ~Over
  BY <1>1, ConnectedKeeps, TickKeeps, SweepBeginsKeeps, SweepVisitKeeps, SweepAgeKeeps,
     SweepSuspectKeeps, SweepRenewKeeps, SweepEndsKeeps, EvictKeeps DEF Next
<1>2. CASE UNCHANGED vars
  BY <1>2 DEF vars, lifecycleVars, sweepVars, registryVars, sessionVars, HeartbeatInv, SweepOK,
     HeardOK, EvictedWereSilent, LifecycleInv, LifecycleTypeOK, RegistryCoherent, NotRebound,
     Attached, EvictReturns, ClosedIsReleased, ClosingHasCloser, LiveHasReader
<1> QED
  BY <1>1, <1>2 DEF Over

THEOREM HeartbeatInvariant == Spec => []HeartbeatInv
<1> QED
  BY InitInv, NextInv, PTL DEF Spec
-------------------------------------------------------------------------------
\* Types, and the facts every goroutine relies on past its lookup
\* (registry.go, session.go:102-149, server.go:139-183).
THEOREM TypeCorrect == Spec => []LifecycleTypeOK
<1> QED
  BY HeartbeatInvariant, PTL DEF HeartbeatInv, LifecycleInv

\* The active sessions are what the id is bound to (registry.go:35-60).
THEOREM RegistryStaysCoherent == Spec => []RegistryCoherent
<1> QED
  BY HeartbeatInvariant, PTL DEF HeartbeatInv, LifecycleInv

\* The writer of a closed session was told to release its transport (registry.go:48, session.go:139-149).
THEOREM ClosedSessionsAreReleased == Spec => []ClosedIsReleased
<1> QED
  BY HeartbeatInvariant, PTL DEF HeartbeatInv, LifecycleInv

\* Whoever began to close a session goes on to finish it (evictor.go:26-38).
THEOREM ClosingGoesOn == Spec => []ClosingHasCloser
<1> QED
  BY HeartbeatInvariant, PTL DEF HeartbeatInv, LifecycleInv

\* A live session is served by the reader of its connection (server.go:149-170).
THEOREM LiveIsServed == Spec => []LiveHasReader
<1> QED
  BY HeartbeatInvariant, PTL DEF HeartbeatInv, LifecycleInv

\* Only a replaced or ignored connection outlives its reader (session.go:102-114).
THEOREM NothingElseLeaks == Spec => []OnlyReplacedLeak
<1>1. LifecycleInv => OnlyReplacedLeak
  BY NoneAssumption DEF LifecycleInv, LifecycleTypeOK, Procs, Unattached, Attached, OnlyReplacedLeak
<1> QED
  BY <1>1, HeartbeatInvariant, PTL DEF HeartbeatInv

\* Whoever the sweep evicts was silent, but for heartbeats beside it (heartbeat.go:49-67).
THEOREM EvictedWereSilentAlways == Spec => []EvictedWereSilent
<1> QED
  BY HeartbeatInvariant, PTL DEF HeartbeatInv
===============================================================================
