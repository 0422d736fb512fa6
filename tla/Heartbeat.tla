------------------------------- MODULE Heartbeat -------------------------------
(***************************************************************************)
(* internal/heartbeat: the sweep over the sessions of module Lifecycle.    *)
(* One unit of clock is one interval.  A touch inside an interval carries  *)
(* the time the interval began: as ticks fall on interval boundaries, no   *)
(* comparison of an age with a whole threshold comes out differently.      *)
(***************************************************************************)
EXTENDS Lifecycle, Integers

CONSTANTS SuspectAfter,  \* Heartbeat.suspect, in intervals
          Timeout,       \* Heartbeat.timeout, in intervals
          MaxTime        \* bound: clock

ASSUME ThresholdAssumption == /\ SuspectAfter \in Nat /\ Timeout \in Nat
                              /\ 1 <= SuspectAfter /\ SuspectAfter < Timeout
ASSUME MaxTimeAssumption == MaxTime \in Nat

VARIABLES tick,       \* what the ticker's channel holds, or None
          now,        \* the tick of the running sweep
          todo,       \* the sessions of its snapshot it has not visited
          heard       \* history: when the client was last heard of, by a new session
                      \* or a touch frame that took effect

sweepVars == <<tick, now, todo>>
vars == <<lifecycleVars, sweepVars, heard>>

Init == /\ LifecycleInit
        /\ tick = None /\ now = 0 /\ todo = {} /\ heard = 0

-------------------------------------------------------------------------------

\* The channel holds one tick; a tick that finds it full is dropped.
Tick ==
  /\ ~crashed /\ clock < MaxTime
  /\ clock' = clock + 1
  /\ tick' = IF tick = None THEN clock' ELSE tick
  /\ UNCHANGED <<registryVars, sessionVars, pc, sess, reads, after, crashed, now, todo, heard>>

SweepBegins ==
  /\ tick # None
  /\ Goto(Sweeper, "idle", "visit")
  /\ now' = tick /\ tick' = None /\ todo' = active
  /\ UNCHANGED <<registryVars, clock, sessionVars, sess, reads, after, crashed, heard>>

SweepVisit(s) ==
  /\ s \in todo
  /\ Goto(Sweeper, "visit", IF IsLive THEN "age" ELSE "visit")
  /\ todo' = todo \ {s}
  /\ sess' = [sess EXCEPT ![Sweeper] = s]
  /\ UNCHANGED <<registryVars, clock, sessionVars, reads, after, crashed, tick, now, heard>>

\* Variant: the threshold itself counts as stale.
ClassifyAt(age) == IF age >= Timeout THEN "evict"
                   ELSE IF age > SuspectAfter THEN "suspect" ELSE "renew"

Classify(age) == IF age > Timeout THEN "evict"
                 ELSE IF age > SuspectAfter THEN "suspect" ELSE "renew"

SweepAge ==
  /\ Goto(Sweeper, "age", IF lastSeen = None THEN "visit" ELSE Classify(now - lastSeen))
  /\ UNCHANGED <<registryVars, clock, sessionVars, sess, reads, after, crashed,
                 sweepVars, heard>>

SweepSuspect ==
  /\ Goto(Sweeper, "suspect", "visit")
  /\ state' = [state EXCEPT ![sess[Sweeper]] = IF @ = "active" THEN "suspected" ELSE @]
  /\ UNCHANGED <<registryVars, clock, conn, closedCh, writer, sess, reads, after, crashed,
                 sweepVars, heard>>

SweepRenew ==
  /\ Goto(Sweeper, "renew", "visit")
  /\ Touch
  /\ UNCHANGED <<byID, active, clock, sessionVars, sess, reads, after, crashed,
                 sweepVars, heard>>

SweepEnds ==
  /\ todo = {}
  /\ Goto(Sweeper, "visit", "idle")
  /\ UNCHANGED <<registryVars, clock, sessionVars, sess, reads, after, crashed,
                 sweepVars, heard>>

Heartbeats(c) == (TouchFrame(c) /\ IsLive) \/ \E s \in Sess : BindNew(c, s)

Connected ==
  /\ \E c \in Conns : /\ Connection(c)
                      /\ heard' = IF Heartbeats(c) THEN clock ELSE heard
  /\ UNCHANGED sweepVars

Evict == Close(Sweeper) /\ UNCHANGED <<sweepVars, heard>>

\* The model's end: the process is gone, or every peer is and time is up.
Over == /\ \/ crashed
           \/ /\ clock = MaxTime /\ tick = None /\ pc[Sweeper] = "idle"
              /\ \A c \in Conns : pc[c] = "done"
        /\ UNCHANGED vars

Next == \/ Connected \/ Tick \/ SweepBegins \/ (\E s \in Sess : SweepVisit(s)) \/ SweepAge
        \/ SweepSuspect \/ SweepRenew \/ SweepEnds \/ Evict \/ Over

Spec == Init /\ [][Next]_vars

-------------------------------------------------------------------------------

\* The sweep evicts on what it read under two locks, by id, from a map that
\* connections, removals and the sweep itself write (heartbeat.go:51-60): a client
\* heard of in the last Timeout before the sweep's tick is never evicted by it, only
\* one that was not, or whose heartbeat came while the sweep was under way.
EvictedWereSilent ==
  pc[Sweeper] = "evict" => now - heard > Timeout \/ heard >= now

\* "Timed-out connections first become suspected" (BENZHI_README.md:14, in Chinese),
\* "Suspect marks an active connection as suspected after a missed heartbeat"
\* (session.go:129-130): once a sweep has ended, a client that was silent for more
\* than SuspectAfter at its tick is no longer active.
SilentAreSuspected ==
  pc[Sweeper] = "idle" /\ IsLive /\ now - heard > SuspectAfter => state[byID] # "active"
===============================================================================
