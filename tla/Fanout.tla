-------------------------------- MODULE Fanout --------------------------------
(***************************************************************************)
(* internal/fanout over the topic registry: dispatchers broadcast batches  *)
(* while handlers subscribe and unsubscribe.  A dispatcher reads the topic *)
(* version under one lock, looks the snapshot up (or takes it) under       *)
(* another, and then delivers event by event without any lock, so the      *)
(* registry may have moved on between any two of these steps.              *)
(***************************************************************************)
EXTENDS Topics

CONSTANTS Dispatchers,  \* goroutines inside Fanout.Dispatch
          BatchSize     \* events in a batch; Broker.Publish sends one

ASSUME BatchSizeAssumption == BatchSize \in Nat \ {0}

VARIABLES cache,    \* Fanout.cache: per topic no entry, or version and sessions
          dpc,      \* program counter of each dispatcher
          dtopic,   \* the topic it dispatches to
          version,  \* the version it read
          snap,     \* the sessions of its snapshot
          current,  \* the event of the batch it is delivering
          rest,     \* the sessions that event has not been tried on
          took,     \* how many events of the batch each session has taken
          firstErr, \* some delivery failed
          missed,   \* history: how many deliveries failed on each session
          settled   \* history: sessions whose subscription to the topic no handler
                    \* has touched since the dispatch began

dispatchVars == <<dpc, dtopic, version, snap, current, rest, took, firstErr, missed>>
fanoutVars == <<cache, dispatchVars, settled>>
vars == <<topicVars, fanoutVars>>

NoEntry == [present |-> FALSE, version |-> 0, sessions |-> {}]

Init ==
  /\ TopicsInit
  /\ cache = [t \in Topics |-> NoEntry]
  /\ dpc = [d \in Dispatchers |-> "idle"]
  /\ dtopic \in [Dispatchers -> Topics]
  /\ version = [d \in Dispatchers |-> 0]
  /\ snap = [d \in Dispatchers |-> {}]
  /\ current = [d \in Dispatchers |-> 1]
  /\ rest = [d \in Dispatchers |-> {}]
  /\ took = [d \in Dispatchers |-> [s \in Sessions |-> 0]]
  /\ firstErr = [d \in Dispatchers |-> FALSE]
  /\ missed = [d \in Dispatchers |-> [s \in Sessions |-> 0]]
  /\ settled = [d \in Dispatchers |-> {}]

\* Some handler is between the start and the end of an operation on the binding.
InFlight(s, t) ==
  \E h \in Handlers :
    /\ pc[h] \in {"tree", "registry", "bump"}
    /\ topic[h] = t
    /\ sid[h] = s \/ op[h] = "del"

\* A step of a handler or of the session registry; the history follows it.
TopicsStep ==
  /\ TopicsNext
  /\ UNCHANGED <<cache, dispatchVars>>
  /\ settled' = [d \in Dispatchers |-> {s \in settled[d] : ~InFlight(s, dtopic[d])'}]

-------------------------------------------------------------------------------
(* Dispatch *)

\* The first line of takeSnapshot: TopicRegistry.Version, before f.mu is taken.
ReadVersion(d, t) ==
  /\ dpc[d] = "idle"
  /\ dpc' = [dpc EXCEPT ![d] = "lookup"]
  /\ dtopic' = [dtopic EXCEPT ![d] = t]
  /\ version' = [version EXCEPT ![d] = versions[t]]
  /\ settled' = [settled EXCEPT ![d] = {s \in Sessions : ~InFlight(s, t)}]
  /\ UNCHANGED <<topicVars, cache, snap, current, rest, took, firstErr, missed>>

\* An empty snapshot ends the dispatch with success at once.
Begin(d, sessions) ==
  /\ snap' = [snap EXCEPT ![d] = sessions]
  /\ current' = [current EXCEPT ![d] = 1]
  /\ rest' = [rest EXCEPT ![d] = sessions]
  /\ took' = [took EXCEPT ![d] = [s \in Sessions |-> 0]]
  /\ firstErr' = [firstErr EXCEPT ![d] = FALSE]
  /\ missed' = [missed EXCEPT ![d] = [s \in Sessions |-> 0]]
  /\ dpc' = [dpc EXCEPT ![d] = IF sessions = {} THEN "returned" ELSE "deliver"]
  /\ UNCHANGED <<topicVars, dtopic, version, settled>>

Cached(t, v) == cache[t].present /\ cache[t].version = v

\* The rest of takeSnapshot, under f.mu: a hit returns the cached sessions, a miss
\* asks the registry and replaces the entry.
Lookup(d) ==
  /\ dpc[d] = "lookup"
  /\ IF Cached(dtopic[d], version[d])
       THEN Begin(d, cache[dtopic[d]].sessions) /\ UNCHANGED cache
       ELSE /\ cache' = [cache EXCEPT ![dtopic[d]] =
                           [present |-> TRUE, version |-> version[d],
                            sessions |-> Subscribers(dtopic[d])]]
            /\ Begin(d, Subscribers(dtopic[d]))

\* Session.Deliver took the event.
Taken(d, s) ==
  /\ s \in connected
  /\ took' = [took EXCEPT ![d][s] = @ + 1]
  /\ UNCHANGED <<firstErr, missed>>

\* The session is not in the registry, or its Deliver reports an error.
Refused(d, s) ==
  /\ firstErr' = [firstErr EXCEPT ![d] = TRUE]
  /\ missed' = [missed EXCEPT ![d][s] = @ + 1]
  /\ UNCHANGED took

\* Variant: the first failed delivery ends the event for all sessions.
DeliverStopping(d, s) ==
  /\ dpc[d] = "deliver"
  /\ s \in rest[d]
  /\ \/ Taken(d, s) /\ rest' = [rest EXCEPT ![d] = @ \ {s}]
     \/ Refused(d, s) /\ rest' = [rest EXCEPT ![d] = {}]
  /\ UNCHANGED <<topicVars, cache, dpc, dtopic, version, snap, current, settled>>

\* One delivery of the inner loop.  The order of the snapshot is a map's order.
Deliver(d, s) ==
  /\ dpc[d] = "deliver"
  /\ s \in rest[d]
  /\ rest' = [rest EXCEPT ![d] = @ \ {s}]
  /\ Taken(d, s) \/ Refused(d, s)
  /\ UNCHANGED <<topicVars, cache, dpc, dtopic, version, snap, current, settled>>

\* Variant: the loop runs once more after the last event.
MoreEventsLate(d) == current[d] <= BatchSize

MoreEvents(d) == current[d] < BatchSize

\* The inner loop has ended: on to the next event, or return firstErr.
NextEvent(d) ==
  /\ dpc[d] = "deliver"
  /\ rest[d] = {}
  /\ IF MoreEvents(d)
       THEN /\ current' = [current EXCEPT ![d] = @ + 1]
            /\ rest' = [rest EXCEPT ![d] = snap[d]]
            /\ UNCHANGED dpc
       ELSE /\ dpc' = [dpc EXCEPT ![d] = "returned"]
            /\ UNCHANGED <<current, rest>>
  /\ UNCHANGED <<topicVars, cache, dtopic, version, snap, took, firstErr, missed, settled>>

\* Dispatch returns, and its variables are gone.
Return(d) ==
  /\ dpc[d] = "returned"
  /\ dpc' = [dpc EXCEPT ![d] = "idle"]
  /\ version' = [version EXCEPT ![d] = 0]
  /\ snap' = [snap EXCEPT ![d] = {}]
  /\ current' = [current EXCEPT ![d] = 1]
  /\ rest' = [rest EXCEPT ![d] = {}]
  /\ took' = [took EXCEPT ![d] = [s \in Sessions |-> 0]]
  /\ firstErr' = [firstErr EXCEPT ![d] = FALSE]
  /\ missed' = [missed EXCEPT ![d] = [s \in Sessions |-> 0]]
  /\ settled' = [settled EXCEPT ![d] = {}]
  /\ UNCHANGED <<topicVars, cache, dtopic>>

DispatchStep(d) ==
  \/ \E t \in Topics : ReadVersion(d, t)
  \/ Lookup(d)
  \/ \E s \in Sessions : Deliver(d, s)
  \/ NextEvent(d)
  \/ Return(d)

Next == TopicsStep \/ \E d \in Dispatchers : DispatchStep(d)

Spec == Init /\ [][Next]_vars

-------------------------------------------------------------------------------
(* Properties *)

Bindings == [Topics -> SUBSET Sessions]

\* The types of what the cache and the dispatchers depend on.
TypeOK ==
  /\ byTopic \in Bindings
  /\ versions \in [Topics -> Nat]
  /\ pc \in [Handlers -> {"idle", "tree", "registry", "bump", "local"}]
  /\ op \in [Handlers -> {"sub", "unsub", "del"}]
  /\ sid \in [Handlers -> Sessions]
  /\ topic \in [Handlers -> Topics]
  /\ cache \in [Topics -> [present : BOOLEAN, version : Nat, sessions : SUBSET Sessions]]
  /\ dpc \in [Dispatchers -> {"idle", "lookup", "deliver", "returned"}]
  /\ dtopic \in [Dispatchers -> Topics]
  /\ version \in [Dispatchers -> Nat]
  /\ snap \in [Dispatchers -> SUBSET Sessions]
  /\ current \in [Dispatchers -> 1..BatchSize]
  /\ rest \in [Dispatchers -> SUBSET Sessions]
  /\ took \in [Dispatchers -> [Sessions -> 0..BatchSize]]
  /\ firstErr \in [Dispatchers -> BOOLEAN]
  /\ missed \in [Dispatchers -> [Sessions -> 0..BatchSize]]
  /\ settled \in [Dispatchers -> SUBSET Sessions]

\* A handler has changed the membership and not yet bumped the version.
Unbumped(s, t) ==
  \E h \in Handlers :
    pc[h] = "bump" /\ topic[h] = t /\ (sid[h] = s \/ op[h] = "del")

SnapshotCurrentOn(t) ==
  \A d \in Dispatchers :
    (dpc[d] \in {"deliver", "returned"} /\ dtopic[d] = t) =>
      \A s \in settled[d] : (s \in snap[d]) <=> (s \in byTopic[t])

\* snapshot.go:18-35, fanout.go:42-50: on a topic that is never deleted, a dispatch
\* reaches exactly the right sessions among those whose subscription nobody touched
\* since it began: whoever had subscribed before it is in the snapshot, cached or
\* not, and whoever had unsubscribed is not.
SnapshotCurrent == \A t \in Topics \ Deletable : SnapshotCurrentOn(t)

\* subscription.go:44-46 "bumps its version so cached fanout snapshots are
\* discarded": the same on every topic, the deleted ones included.
SnapshotCurrentAfterDelete == \A t \in Topics : SnapshotCurrentOn(t)

\* fanout.go:45-63: a dispatch that returns has tried every event of the batch on
\* every session of its snapshot, whichever of them failed on the way, and reports
\* an error exactly if one did.  So a success means that every settled subscriber
\* has the whole batch, which is what the publisher's commit relies on.
DispatchIsComplete ==
  \A d \in Dispatchers :
    dpc[d] = "returned" =>
      /\ \A s \in snap[d] : took[d][s] + missed[d][s] = BatchSize
      /\ firstErr[d] <=> \E s \in snap[d] : took[d][s] < BatchSize
      /\ (~firstErr[d] /\ dtopic[d] \notin Deletable) =>
           \A s \in settled[d] : s \in byTopic[dtopic[d]] => took[d][s] = BatchSize
===============================================================================
