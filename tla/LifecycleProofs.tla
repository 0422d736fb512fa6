---------------------------- MODULE LifecycleProofs ----------------------------
(***************************************************************************)
(* The inductive invariant of Lifecycle, for any number of connections,    *)
(* session objects and sweeps: every step of a connection and every step   *)
(* of a closing, whoever takes it, keeps it.                               *)
(***************************************************************************)
EXTENDS Lifecycle, TLAPS

\* FinishClose closes nothing the registry still has: the removal before it took
\* the session out, and only a session that was never bound is bound.
NotRebound == \A p \in Procs : pc[p] = "finish" => byID # sess[p]

\* The connection of a session belongs to the goroutine that serves it; once
\* that goroutine is past its FinishClose the writer was shut down.
Early == {"new", "found", "reconnect", "bind"}

Attached ==
  \A s \in Sess, c \in Conns : conn[s] = c =>
    /\ sess[c] = s /\ pc[c] \notin Early
    /\ pc[c] # "start" => reads[c] = c
    /\ pc[c] \in {"closeCh", "done"} => writer[c] = "shut"

\* Only a reader that will read on has an eviction to run.
EvictReturns == \A c \in Conns : pc[c] \in {"evict", "shutdown"} => after[c] = "reading"

LifecycleInv == /\ LifecycleTypeOK /\ RegistryCoherent /\ NotRebound /\ Attached /\ EvictReturns
                /\ ClosedIsReleased /\ ClosingHasCloser /\ LiveHasReader
-------------------------------------------------------------------------------
\* The lookup of the session id.
LEMMA GetKeeps ==
  ASSUME LifecycleInv, NEW c \in Conns, Get(c)
  PROVE  LifecycleInv'
<1>1. LifecycleTypeOK'
  BY DEF LifecycleInv, LifecycleTypeOK, Procs, ConnLabels, SweepLabels, Removal, Unattached,
     RegistryCoherent, Get, Goto, registryVars, sessionVars
<1>2. /\ RegistryCoherent' /\ NotRebound' /\ Attached' /\ EvictReturns'
      /\ ClosedIsReleased' /\ ClosingHasCloser' /\ LiveHasReader'
  BY DEF LifecycleInv, RegistryCoherent, NotRebound, Attached, Early, EvictReturns,
     ClosedIsReleased, ClosingHasCloser, LiveHasReader, Going, Get, Goto, registryVars,
     sessionVars
<1> QED
  BY <1>1, <1>2 DEF LifecycleInv

\* The test that the session found is not closed.
LEMMA TestStateKeeps ==
  ASSUME LifecycleInv, NEW c \in Conns, TestState(c)
  PROVE  LifecycleInv'
<1>1. LifecycleTypeOK'
  BY DEF LifecycleInv, LifecycleTypeOK, Procs, ConnLabels, SweepLabels, Removal, Unattached,
     TestState, Goto, registryVars, sessionVars
<1>2. /\ RegistryCoherent' /\ NotRebound' /\ Attached' /\ EvictReturns'
      /\ ClosedIsReleased' /\ ClosingHasCloser' /\ LiveHasReader'
  BY DEF LifecycleInv, RegistryCoherent, NotRebound, Attached, Early, EvictReturns,
     ClosedIsReleased, ClosingHasCloser, LiveHasReader, Going, TestState, Goto,
     registryVars, sessionVars
<1> QED
  BY <1>1, <1>2 DEF LifecycleInv

\* The session gets a new connection, which no session had before.
LEMMA ReconnectKeeps ==
  ASSUME LifecycleInv, NEW c \in Conns, Reconnect(c)
  PROVE  LifecycleInv'
<1>1. LifecycleTypeOK'
  BY NoneAssumption DEF LifecycleInv, LifecycleTypeOK, Procs, ConnLabels, SweepLabels,
     Removal, Unattached, Reconnect, Goto, registryVars
<1>2. Attached'
  BY DEF LifecycleInv, LifecycleTypeOK, Procs, ConnLabels, SweepLabels, Removal, Unattached,
     Attached, Early, Reconnect, Goto
<1>3. ClosedIsReleased'
  BY DEF LifecycleInv, LifecycleTypeOK, Procs, ConnLabels, SweepLabels, Removal, Unattached,
     Attached, Early, ClosedIsReleased, Reconnect, Goto
<1>4. LiveHasReader'
  BY DEF LifecycleInv, LifecycleTypeOK, Procs, ConnLabels, SweepLabels, Removal, Unattached,
     LiveHasReader, Going, Reconnect, Goto
<1>5. RegistryCoherent' /\ NotRebound' /\ EvictReturns' /\ ClosingHasCloser'
  BY DEF LifecycleInv, RegistryCoherent, NotRebound, EvictReturns, ClosingHasCloser,
     Reconnect, Goto, registryVars
<1> QED
  BY <1>1, <1>2, <1>3, <1>4, <1>5 DEF LifecycleInv

\* Bind finds a session another connection has bound.
LEMMA BindFindsKeeps ==
  ASSUME LifecycleInv, NEW c \in Conns, BindFinds(c)
  PROVE  LifecycleInv'
<1>1. LifecycleTypeOK'
  BY DEF LifecycleInv, LifecycleTypeOK, Procs, ConnLabels, SweepLabels, Removal, Unattached,
     RegistryCoherent, BindFinds, Goto, registryVars, sessionVars, Held
<1>2. /\ RegistryCoherent' /\ NotRebound' /\ Attached' /\ EvictReturns'
      /\ ClosedIsReleased' /\ ClosingHasCloser' /\ LiveHasReader'
  BY DEF LifecycleInv, RegistryCoherent, NotRebound, Attached, Early, EvictReturns,
     ClosedIsReleased, ClosingHasCloser, LiveHasReader, Going, BindFinds, Goto,
     registryVars, sessionVars
<1> QED
  BY <1>1, <1>2 DEF LifecycleInv

\* Bind makes a new one: what the registry had under the id is gone by then.
LEMMA BindNewKeeps ==
  ASSUME LifecycleInv, NEW c \in Conns, NEW s \in Sess, BindNew(c, s)
  PROVE  LifecycleInv'
<1>1. LifecycleTypeOK'
  BY NoneAssumption DEF LifecycleInv, LifecycleTypeOK, Procs, ConnLabels, SweepLabels,
     Removal, Unattached, BindNew, Goto
<1>2. RegistryCoherent'
  BY NoneAssumption DEF LifecycleInv, LifecycleTypeOK, Procs, ConnLabels, SweepLabels,
     Removal, Unattached, RegistryCoherent, BindNew, Goto, Held
<1>3. NotRebound'
  BY DEF LifecycleInv, LifecycleTypeOK, Procs, ConnLabels, SweepLabels, Removal, Unattached,
     NotRebound, BindNew, Goto
<1>4. Attached'
  BY DEF LifecycleInv, LifecycleTypeOK, Procs, ConnLabels, SweepLabels, Removal, Unattached,
     Attached, Early, BindNew, Goto
<1>5. ClosedIsReleased'
  BY DEF LifecycleInv, Attached, Early, ClosedIsReleased, BindNew, Goto
<1>6. LiveHasReader'
  BY DEF LifecycleInv, LifecycleTypeOK, Procs, ConnLabels, SweepLabels, Removal, Unattached,
     LiveHasReader, Going, BindNew, Goto
<1>7. EvictReturns' /\ ClosingHasCloser'
  BY DEF LifecycleInv, EvictReturns, ClosingHasCloser, BindNew, Goto
<1> QED
  BY <1>1, <1>2, <1>3, <1>4, <1>5, <1>6, <1>7 DEF LifecycleInv

\* The reader takes the connection the session has when it starts.
LEMMA StartReadingKeeps ==
  ASSUME LifecycleInv, NEW c \in Conns, StartReading(c)
  PROVE  LifecycleInv'
<1>1. LifecycleTypeOK'
  BY DEF LifecycleInv, LifecycleTypeOK, Procs, ConnLabels, SweepLabels, Removal, Unattached,
     StartReading, Goto, registryVars, sessionVars
<1>2. Attached'
  BY DEF LifecycleInv, LifecycleTypeOK, Procs, ConnLabels, SweepLabels, Removal, Unattached,
     Attached, Early, StartReading, Goto, sessionVars
<1>3. LiveHasReader'
  BY DEF LifecycleInv, LifecycleTypeOK, Procs, ConnLabels, SweepLabels, Removal, Unattached,
     LiveHasReader, Going, StartReading, Goto, sessionVars
<1>4. /\ RegistryCoherent' /\ NotRebound' /\ EvictReturns' /\ ClosedIsReleased'
      /\ ClosingHasCloser'
  BY DEF LifecycleInv, RegistryCoherent, NotRebound, EvictReturns, ClosedIsReleased,
     ClosingHasCloser, StartReading, Goto, registryVars, sessionVars
<1> QED
  BY <1>1, <1>2, <1>3, <1>4 DEF LifecycleInv

\* A touch changes the time only.
LEMMA TouchFrameKeeps ==
  ASSUME LifecycleInv, NEW c \in Conns, TouchFrame(c)
  PROVE  LifecycleInv'
<1>1. LifecycleTypeOK'
  BY DEF LifecycleInv, LifecycleTypeOK, Procs, ConnLabels, SweepLabels, Removal, Unattached,
     TouchFrame, sessionVars, Touch
<1>2. /\ RegistryCoherent' /\ NotRebound' /\ Attached' /\ EvictReturns'
      /\ ClosedIsReleased' /\ ClosingHasCloser' /\ LiveHasReader'
  BY DEF LifecycleInv, RegistryCoherent, NotRebound, Attached, Early, EvictReturns,
     ClosedIsReleased, ClosingHasCloser, LiveHasReader, Going, TouchFrame, sessionVars
<1> QED
  BY <1>1, <1>2 DEF LifecycleInv

\* A close frame starts an eviction, after which the reader reads on.
LEMMA CloseFrameKeeps ==
  ASSUME LifecycleInv, NEW c \in Conns, CloseFrame(c)
  PROVE  LifecycleInv'
<1>1. LifecycleTypeOK'
  BY DEF LifecycleInv, LifecycleTypeOK, Procs, ConnLabels, SweepLabels, Removal, Unattached,
     CloseFrame, Goto, registryVars, sessionVars
<1>2. EvictReturns'
  BY DEF LifecycleInv, LifecycleTypeOK, Procs, ConnLabels, SweepLabels, Removal, Unattached,
     EvictReturns, CloseFrame, Goto
<1>3. /\ RegistryCoherent' /\ NotRebound' /\ Attached' /\ ClosedIsReleased'
      /\ ClosingHasCloser' /\ LiveHasReader'
  BY DEF LifecycleInv, RegistryCoherent, NotRebound, Attached, Early, ClosedIsReleased,
     ClosingHasCloser, LiveHasReader, Going, CloseFrame, Goto, registryVars, sessionVars
<1> QED
  BY <1>1, <1>2, <1>3 DEF LifecycleInv

\* A read fails.
LEMMA ReadFailsKeeps ==
  ASSUME LifecycleInv, NEW c \in Conns, ReadFails(c)
  PROVE  LifecycleInv'
<1>1. LifecycleTypeOK'
  BY DEF LifecycleInv, LifecycleTypeOK, Procs, ConnLabels, SweepLabels, Removal, Unattached,
     ReadFails, Goto, registryVars, sessionVars
<1>2. /\ RegistryCoherent' /\ NotRebound' /\ Attached' /\ EvictReturns'
      /\ ClosedIsReleased' /\ ClosingHasCloser' /\ LiveHasReader'
  BY DEF LifecycleInv, RegistryCoherent, NotRebound, Attached, Early, EvictReturns,
     ClosedIsReleased, ClosingHasCloser, LiveHasReader, Going, ReadFails, Goto,
     registryVars, sessionVars
<1> QED
  BY <1>1, <1>2 DEF LifecycleInv

\* The deferred test: the reader of the present connection goes on to remove the session.
LEMMA DeferredKeeps ==
  ASSUME LifecycleInv, NEW c \in Conns, Deferred(c)
  PROVE  LifecycleInv'
<1>1. LifecycleTypeOK'
  BY DEF LifecycleInv, LifecycleTypeOK, Procs, ConnLabels, SweepLabels, Removal, Unattached,
     Deferred, Goto, registryVars, sessionVars
<1>2. /\ RegistryCoherent' /\ NotRebound' /\ Attached' /\ EvictReturns'
      /\ ClosedIsReleased' /\ ClosingHasCloser' /\ LiveHasReader'
  BY DEF LifecycleInv, RegistryCoherent, NotRebound, Attached, Early, EvictReturns,
     ClosedIsReleased, ClosingHasCloser, LiveHasReader, Going, Deferred, Goto, registryVars,
     sessionVars
<1> QED
  BY <1>1, <1>2 DEF LifecycleInv

\* An eviction claims the session.
LEMMA BeginCloseKeeps ==
  ASSUME LifecycleInv, NEW p \in Procs, BeginClose(p)
  PROVE  LifecycleInv'
<1>1. LifecycleTypeOK'
  BY DEF LifecycleInv, LifecycleTypeOK, Procs, ConnLabels, SweepLabels, Removal, Unattached,
     BeginClose, Goto, registryVars
<1>2. NotRebound'
  BY DEF LifecycleInv, LifecycleTypeOK, Procs, ConnLabels, SweepLabels, Removal, Unattached,
     NotRebound, BeginClose, Goto, registryVars
<1>3. Attached'
  BY DEF LifecycleInv, Attached, Early, EvictReturns, BeginClose, Goto
<1>4. ClosingHasCloser'
  BY DEF LifecycleInv, LifecycleTypeOK, Procs, ConnLabels, SweepLabels, Removal, Unattached,
     ClosingHasCloser, BeginClose, Goto
<1>5. RegistryCoherent' /\ EvictReturns' /\ ClosedIsReleased' /\ LiveHasReader'
  BY DEF LifecycleInv, RegistryCoherent, EvictReturns, ClosedIsReleased, LiveHasReader,
     Going, BeginClose, Goto, registryVars
<1> QED
  BY <1>1, <1>2, <1>3, <1>4, <1>5 DEF LifecycleInv

\* It releases the writer the session has.
LEMMA EvictShutdownKeeps ==
  ASSUME LifecycleInv, NEW p \in Procs, EvictShutdown(p)
  PROVE  LifecycleInv'
<1>1. LifecycleTypeOK'
  BY DEF LifecycleInv, LifecycleTypeOK, Procs, ConnLabels, SweepLabels, Removal, Unattached,
     EvictShutdown, Goto, registryVars, Release
<1>2. Attached'
  BY DEF LifecycleInv, Attached, Early, EvictShutdown, Goto, Release
<1>3. ClosedIsReleased'
  BY DEF LifecycleInv, ClosedIsReleased, EvictShutdown, Goto, Release
<1>4. RegistryCoherent' /\ NotRebound' /\ EvictReturns' /\ ClosingHasCloser' /\ LiveHasReader'
  BY DEF LifecycleInv, RegistryCoherent, NotRebound, EvictReturns, ClosingHasCloser,
     LiveHasReader, Going, EvictShutdown, Goto, registryVars
<1> QED
  BY <1>1, <1>2, <1>3, <1>4 DEF LifecycleInv

\* The session leaves the registry.
LEMMA RemoveKeeps ==
  ASSUME LifecycleInv, NEW p \in Procs, Remove(p)
  PROVE  LifecycleInv'
<1>1. LifecycleTypeOK'
  BY DEF LifecycleInv, LifecycleTypeOK, Procs, ConnLabels, SweepLabels, Removal, Unattached,
     Remove, Goto, sessionVars
<1>2. NotRebound'
  BY DEF LifecycleInv, LifecycleTypeOK, Procs, ConnLabels, SweepLabels, Removal, Unattached,
     NotRebound, Remove, Goto
<1>3. /\ RegistryCoherent' /\ Attached' /\ EvictReturns' /\ ClosedIsReleased'
      /\ ClosingHasCloser' /\ LiveHasReader'
  BY DEF LifecycleInv, RegistryCoherent, Attached, Early, EvictReturns, ClosedIsReleased,
     ClosingHasCloser, LiveHasReader, Going, Remove, Goto, sessionVars
<1> QED
  BY <1>1, <1>2, <1>3 DEF LifecycleInv

\* It is closed; by then the registry does not have it.
LEMMA FinishCloseKeeps ==
  ASSUME LifecycleInv, NEW p \in Procs, FinishClose(p)
  PROVE  LifecycleInv'
<1>1. LifecycleTypeOK'
  BY DEF LifecycleInv, LifecycleTypeOK, Procs, ConnLabels, SweepLabels, Removal, Unattached,
     FinishClose, Goto, registryVars
<1>2. RegistryCoherent'
  BY DEF LifecycleInv, RegistryCoherent, NotRebound, FinishClose, Goto, registryVars
<1>3. ClosedIsReleased'
  BY DEF LifecycleInv, LifecycleTypeOK, Procs, ConnLabels, SweepLabels, Removal, Unattached,
     ClosedIsReleased, FinishClose, Goto
<1>4. ClosingHasCloser'
  BY DEF LifecycleInv, LifecycleTypeOK, Procs, ConnLabels, SweepLabels, Removal, Unattached,
     ClosingHasCloser, FinishClose, Goto
<1>5. LiveHasReader'
  BY DEF LifecycleInv, LifecycleTypeOK, Procs, ConnLabels, SweepLabels, Removal, Unattached,
     LiveHasReader, Going, FinishClose, Goto
<1>6. NotRebound' /\ Attached' /\ EvictReturns'
  BY DEF LifecycleInv, NotRebound, Attached, Early, EvictReturns, FinishClose, Goto,
     registryVars
<1> QED
  BY <1>1, <1>2, <1>3, <1>4, <1>5, <1>6 DEF LifecycleInv

\* FinishClose releases the writer the session has by now.
LEMMA ReleaseWriterKeeps ==
  ASSUME LifecycleInv, NEW p \in Procs, ReleaseWriter(p)
  PROVE  LifecycleInv'
<1>1. LifecycleTypeOK'
  BY DEF LifecycleInv, LifecycleTypeOK, Procs, ConnLabels, SweepLabels, Removal, Unattached,
     ReleaseWriter, Goto, registryVars, Release
<1>2. Attached'
  BY DEF LifecycleInv, LifecycleTypeOK, Procs, ConnLabels, SweepLabels, Removal, Unattached,
     Attached, Early, ReleaseWriter, Goto, Release
<1>3. ClosedIsReleased'
  BY DEF LifecycleInv, LifecycleTypeOK, Procs, ConnLabels, SweepLabels, Removal, Unattached,
     ClosedIsReleased, ReleaseWriter, Goto, Release
<1>4. RegistryCoherent' /\ NotRebound' /\ EvictReturns' /\ ClosingHasCloser' /\ LiveHasReader'
  BY DEF LifecycleInv, RegistryCoherent, NotRebound, EvictReturns, ClosingHasCloser,
     LiveHasReader, Going, ReleaseWriter, Goto, registryVars
<1> QED
  BY <1>1, <1>2, <1>3, <1>4 DEF LifecycleInv

\* The end of a removal.
LEMMA CloseChKeeps ==
  ASSUME LifecycleInv, NEW p \in Procs, CloseCh(p)
  PROVE  LifecycleInv'
<1>1. LifecycleTypeOK'
  BY DEF LifecycleInv, LifecycleTypeOK, Procs, ConnLabels, SweepLabels, Removal, Unattached,
     CloseCh, Goto, registryVars
<1>2. NotRebound'
  BY DEF LifecycleInv, LifecycleTypeOK, Procs, ConnLabels, SweepLabels, Removal, Unattached,
     NotRebound, CloseCh, Goto, registryVars
<1>3. Attached'
  BY DEF LifecycleInv, LifecycleTypeOK, Procs, ConnLabels, SweepLabels, Removal, Unattached,
     Attached, Early, CloseCh, Goto
<1>4. EvictReturns'
  BY DEF LifecycleInv, LifecycleTypeOK, Procs, ConnLabels, SweepLabels, Removal, Unattached,
     EvictReturns, CloseCh, Goto
<1>5. RegistryCoherent' /\ ClosedIsReleased' /\ ClosingHasCloser' /\ LiveHasReader'
  BY DEF LifecycleInv, RegistryCoherent, ClosedIsReleased, ClosingHasCloser, LiveHasReader,
     Going, CloseCh, Goto, registryVars
<1> QED
  BY <1>1, <1>2, <1>3, <1>4, <1>5 DEF LifecycleInv
===============================================================================
