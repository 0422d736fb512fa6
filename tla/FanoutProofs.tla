----------------------------- MODULE FanoutProofs -----------------------------
(***************************************************************************)
(* Proofs about Fanout, for any sessions, topics, handlers and dispatchers *)
(* and any batch size: on topics nobody deletes, the version check makes   *)
(* the snapshot cache as good as asking the registry.  What is proved of   *)
(* the registry alone, in TopicsProofs, holds beside dispatchers as well.  *)
(***************************************************************************)
EXTENDS Fanout, TopicsProofs, TLAPS

\* Only deletable topics are deleted, so the versions of the others only grow.
DeletesAreDeletable == \A h \in Handlers : op[h] = "del" => topic[h] \in Deletable

Kept == Topics \ Deletable

VersionsOnlyGrow ==
  /\ \A t \in Kept : cache[t].present => cache[t].version <= versions[t]
  /\ \A d \in Dispatchers :
       (dpc[d] = "lookup" /\ dtopic[d] \in Kept) => version[d] <= versions[dtopic[d]]

\* An entry that carries the current version has the current members, but for those
\* whose handler has still to bump it.
CacheCoherent ==
  \A t \in Kept :
    (cache[t].present /\ cache[t].version = versions[t]) =>
      \A s \in Sessions :
        ~Unbumped(s, t) => ((s \in cache[t].sessions) <=> (s \in byTopic[t]))

SettledIsQuiet ==
  \A d \in Dispatchers : \A s \in settled[d] : ~InFlight(s, dtopic[d])

\* The entry a dispatcher is about to hit is right about the settled sessions, even
\* when the version has moved on since the dispatcher read it.
HitIsCurrent ==
  \A d \in Dispatchers :
    (dpc[d] = "lookup" /\ dtopic[d] \in Kept /\ Cached(dtopic[d], version[d])) =>
      \A s \in settled[d] : (s \in cache[dtopic[d]].sessions) <=> (s \in byTopic[dtopic[d]])

\* Where a dispatcher is in its two loops.
LoopsCount ==
  \A d \in Dispatchers :
    /\ dpc[d] \in {"deliver", "returned"} =>
         /\ rest[d] \subseteq snap[d]
         /\ \A s \in snap[d] :
              took[d][s] + missed[d][s] = IF s \in rest[d] THEN current[d] - 1 ELSE current[d]
         /\ firstErr[d] <=> \E s \in snap[d] : missed[d][s] > 0
    /\ dpc[d] = "returned" => rest[d] = {} /\ (snap[d] = {} \/ current[d] = BatchSize)

FanoutInv ==
  /\ TypeOK
  /\ DeletesAreDeletable
  /\ VersionsOnlyGrow
  /\ CacheCoherent
  /\ SettledIsQuiet
  /\ HitIsCurrent
  /\ SnapshotCurrent
  /\ LoopsCount
-------------------------------------------------------------------------------
LEMMA InitInv == Init => FanoutInv
<1> SUFFICES ASSUME Init PROVE FanoutInv
  OBVIOUS
<1>1. TypeOK
  BY BatchSizeAssumption DEF Init, TopicsInit, TypeOK, Bindings, NoEntry
<1>2. DeletesAreDeletable /\ VersionsOnlyGrow /\ CacheCoherent /\ SettledIsQuiet
  BY DEF Init, TopicsInit, NoEntry, DeletesAreDeletable, VersionsOnlyGrow, CacheCoherent,
         SettledIsQuiet, Kept
<1>3. HitIsCurrent /\ SnapshotCurrent /\ LoopsCount
  BY DEF Init, HitIsCurrent, SnapshotCurrent, SnapshotCurrentOn, LoopsCount
<1> QED
  BY <1>1, <1>2, <1>3 DEF FanoutInv

HandlerTypes ==
  /\ byTopic \in Bindings
  /\ versions \in [Topics -> Nat]
  /\ pc \in [Handlers -> {"idle", "tree", "registry", "bump", "local"}]
  /\ op \in [Handlers -> {"sub", "unsub", "del"}]
  /\ sid \in [Handlers -> Sessions]
  /\ topic \in [Handlers -> Topics]
  /\ DeletesAreDeletable

\* What a step of the handlers may do to a kept topic: the version never falls, and
\* while it stands still only sessions left unbumped change their membership.
VersionGuards ==
  \A t \in Kept :
    /\ versions[t] <= versions'[t]
    /\ versions'[t] = versions[t] =>
         \A s \in Sessions :
           ~Unbumped(s, t)' => ~Unbumped(s, t) /\ ((s \in byTopic'[t]) <=> (s \in byTopic[t]))

\* Only an operation in flight changes the membership of its session.
OnlyInFlight ==
  \A t \in Topics, s \in Sessions :
    ~InFlight(s, t) => ((s \in byTopic'[t]) <=> (s \in byTopic[t]))

HandlerGoal == HandlerTypes' /\ VersionGuards /\ OnlyInFlight

LEMMA StartStep ==
  ASSUME HandlerTypes, NEW h \in Handlers, NEW s \in Sessions, NEW t \in Topics,
         NEW o \in {"sub", "unsub", "del"}, o = "del" => t \in Deletable, Start(h, o, s, t)
  PROVE  HandlerGoal
<1>1. UNCHANGED <<byTopic, versions>>
  BY DEF Start, registryVars
<1>2. HandlerTypes'
  BY <1>1 DEF Start, HandlerTypes, DeletesAreDeletable, Bindings
<1>3. \A u \in Topics, r \in Sessions : Unbumped(r, u) => Unbumped(r, u)'
  BY DEF Start, HandlerTypes, Unbumped
<1> QED
  BY <1>1, <1>2, <1>3 DEF HandlerGoal, VersionGuards, OnlyInFlight, HandlerTypes, Kept

\* The steps before the registry and after the bump.
LEMMA OutsideStep ==
  ASSUME HandlerTypes, NEW h \in Handlers, TreeStep(h) \/ LocalStep(h)
  PROVE  HandlerGoal
<1>1. UNCHANGED <<byTopic, versions>>
  BY DEF TreeStep, LocalStep, registryVars
<1>2. HandlerTypes'
  BY <1>1 DEF TreeStep, LocalStep, Advance, HandlerTypes, DeletesAreDeletable, Bindings
<1>3. \A u \in Topics, r \in Sessions : Unbumped(r, u) => Unbumped(r, u)'
  BY DEF TreeStep, LocalStep, Advance, HandlerTypes, Unbumped
<1> QED
  BY <1>1, <1>2, <1>3 DEF HandlerGoal, VersionGuards, OnlyInFlight, HandlerTypes, Kept

\* The registry changes only the binding of this operation, which is then unbumped.
LEMMA RegistryStepGoal ==
  ASSUME HandlerTypes, NEW h \in Handlers, RegistryStep(h)
  PROVE  HandlerGoal
<1> DEFINE Touches(s, t) == topic[h] = t /\ (sid[h] = s \/ op[h] = "del")
<1>1. /\ pc[h] = "registry" /\ pc' = [pc EXCEPT ![h] = "bump"]
      /\ UNCHANGED <<op, sid, topic, versions>>
  BY DEF RegistryStep, Advance
<1>2. byTopic' \in Bindings
  BY DEF RegistryStep, RegJoin, RegLeave, RegClear, HandlerTypes, Bindings
<1>3. \A t \in Topics, s \in Sessions : ~Touches(s, t) => ((s \in byTopic'[t]) <=> (s \in byTopic[t]))
  BY DEF RegistryStep, RegJoin, RegLeave, RegClear, HandlerTypes, Bindings
<1>4. HandlerTypes'
  BY <1>1, <1>2 DEF HandlerTypes, DeletesAreDeletable
<1>5. \A u \in Topics, r \in Sessions : Unbumped(r, u) \/ Touches(r, u) => Unbumped(r, u)'
  BY <1>1 DEF HandlerTypes, Unbumped
<1>6. \A u \in Topics, r \in Sessions : Touches(r, u) => InFlight(r, u)
  BY <1>1 DEF InFlight
<1> QED
  BY <1>1, <1>3, <1>4, <1>5, <1>6 DEF HandlerGoal, VersionGuards, OnlyInFlight, HandlerTypes, Kept

\* The bump of a kept topic raises its version; other topics see nothing.
LEMMA BumpStepGoal ==
  ASSUME HandlerTypes, NEW h \in Handlers, BumpStep(h)
  PROVE  HandlerGoal
<1>1. /\ UNCHANGED <<op, sid, topic, byTopic>>
      /\ pc[h] = "bump"
      /\ pc' = [pc EXCEPT ![h] = IF op[h] = "del" THEN "idle" ELSE "local"]
      /\ versions' = [versions EXCEPT ![topic[h]] = NewVersion(op[h], versions[topic[h]])]
  BY DEF BumpStep, Advance, registryVars
<1>2. HandlerTypes'
  BY <1>1 DEF HandlerTypes, DeletesAreDeletable, NewVersion
<1>3. ASSUME NEW t \in Kept
      PROVE  versions'[t] = IF topic[h] = t THEN versions[t] + 1 ELSE versions[t]
  BY <1>1 DEF HandlerTypes, DeletesAreDeletable, NewVersion, Kept
<1>4. ASSUME NEW t \in Kept, topic[h] # t, NEW s \in Sessions, Unbumped(s, t) PROVE Unbumped(s, t)'
  BY <1>1, <1>4 DEF HandlerTypes, Unbumped
<1> QED
  BY <1>1, <1>2, <1>3, <1>4 DEF HandlerGoal, VersionGuards, OnlyInFlight, HandlerTypes, Kept

LEMMA HandlersOnKept == HandlerTypes /\ TopicsNext => HandlerGoal
<1> SUFFICES ASSUME HandlerTypes, TopicsNext PROVE HandlerGoal
  OBVIOUS
<1>1. ASSUME NEW s \in Sessions, Bind(s) \/ Remove(s) PROVE HandlerGoal
  <2>1. UNCHANGED <<byTopic, versions, pc, op, sid, topic>>
    BY <1>1 DEF Bind, Remove, registryVars, handlerVars
  <2> QED
    BY <2>1 DEF HandlerGoal, HandlerTypes, VersionGuards, OnlyInFlight, DeletesAreDeletable,
       Unbumped, Kept
<1>2. ASSUME NEW h \in Handlers, NEW s \in Sessions, NEW t \in Topics,
             ConnectSubscribe(h, s, t) \/ SubFrame(h, s, t) \/ UnsubFrame(h, s, t) \/ DelFrame(h, s, t)
      PROVE  HandlerGoal
  BY <1>2, StartStep DEF ConnectSubscribe, SubFrame, UnsubFrame, DelFrame
<1> QED
  BY <1>1, <1>2, OutsideStep, RegistryStepGoal, BumpStepGoal DEF TopicsNext, HandlerStep

\* A step of the handlers keeps the invariant: versions that move invalidate, and
\* the sessions they touch are no longer settled.
LEMMA TopicsPreserve == FanoutInv /\ TopicsStep => FanoutInv'
<1> SUFFICES ASSUME FanoutInv, TopicsStep PROVE FanoutInv'
  OBVIOUS
<1>1. /\ UNCHANGED <<cache, dpc, dtopic, version, snap, current, rest, took, firstErr, missed>>
      /\ settled' = [d \in Dispatchers |-> {s \in settled[d] : ~InFlight(s, dtopic[d])'}]
      /\ TopicsNext
  BY DEF TopicsStep, dispatchVars
<1>2. TypeOK
  BY DEF FanoutInv
<1>3. HandlerTypes
  BY DEF FanoutInv, TypeOK, HandlerTypes
<1>4. HandlerTypes' /\ VersionGuards /\ OnlyInFlight
  BY <1>1, <1>3, HandlersOnKept DEF HandlerGoal
<1>5. \A d \in Dispatchers :
        /\ settled'[d] \subseteq settled[d]
        /\ \A s \in settled'[d] : ~InFlight(s, dtopic[d])'
  BY <1>1
<1>6. TypeOK'
  <2>1. settled' \in [Dispatchers -> SUBSET Sessions]
    BY <1>1, <1>2 DEF TypeOK
  <2> QED
    BY <1>1, <1>2, <1>4, <2>1 DEF TypeOK, HandlerTypes
<1>7. ASSUME NEW d \in Dispatchers, NEW s \in settled'[d]
      PROVE  (s \in byTopic'[dtopic[d]]) <=> (s \in byTopic[dtopic[d]])
  <2>1. s \in settled[d] /\ s \in Sessions /\ dtopic[d] \in Topics
    BY <1>2, <1>5, <1>7 DEF TypeOK
  <2>2. ~InFlight(s, dtopic[d])
    BY <2>1 DEF FanoutInv, SettledIsQuiet
  <2> QED
    BY <1>4, <2>1, <2>2 DEF OnlyInFlight
<1>8. DeletesAreDeletable'
  BY <1>4 DEF HandlerTypes
<1>9. VersionsOnlyGrow'
  <2>1. ASSUME NEW t \in Kept, cache[t].present PROVE cache[t].version <= versions'[t]
    BY <1>2, <1>4, <2>1 DEF FanoutInv, VersionsOnlyGrow, VersionGuards, TypeOK, HandlerTypes, Kept
  <2>2. ASSUME NEW d \in Dispatchers, dpc[d] = "lookup", dtopic[d] \in Kept
        PROVE  version[d] <= versions'[dtopic[d]]
    BY <1>2, <1>4, <2>2 DEF FanoutInv, VersionsOnlyGrow, VersionGuards, TypeOK, HandlerTypes, Kept
  <2> QED
    BY <1>1, <2>1, <2>2 DEF VersionsOnlyGrow
<1>10. CacheCoherent'
  <2>1. ASSUME NEW t \in Kept, cache[t].present, cache[t].version = versions'[t],
               NEW s \in Sessions, ~Unbumped(s, t)'
        PROVE  (s \in cache[t].sessions) <=> (s \in byTopic'[t])
    <3>1. versions'[t] = versions[t]
      <4>1. versions[t] \in Nat /\ versions'[t] \in Nat
        BY <1>2, <1>4 DEF TypeOK, HandlerTypes, Kept
      <4>2. cache[t].version <= versions[t]
        BY <2>1 DEF FanoutInv, VersionsOnlyGrow
      <4>3. versions[t] <= versions'[t]
        BY <1>4 DEF VersionGuards
      <4> QED
        BY <2>1, <4>1, <4>2, <4>3
    <3>2. ~Unbumped(s, t) /\ ((s \in byTopic'[t]) <=> (s \in byTopic[t]))
      BY <1>4, <2>1, <3>1 DEF VersionGuards
    <3> QED
      BY <2>1, <3>1, <3>2 DEF FanoutInv, CacheCoherent
  <2> QED
    BY <1>1, <2>1 DEF CacheCoherent
<1>11. SettledIsQuiet'
  BY <1>1, <1>5 DEF SettledIsQuiet
<1>12. HitIsCurrent'
  BY <1>1, <1>5, <1>7 DEF FanoutInv, HitIsCurrent, Cached
<1>13. SnapshotCurrent'
  BY <1>1, <1>5, <1>7 DEF FanoutInv, SnapshotCurrent, SnapshotCurrentOn
<1>14. LoopsCount'
  BY <1>1 DEF FanoutInv, LoopsCount
<1> QED
  BY <1>6, <1>8, <1>9, <1>10, <1>11, <1>12, <1>13, <1>14 DEF FanoutInv
-------------------------------------------------------------------------------
\* What no step of a dispatcher changes.
HandlersStandStill ==
  UNCHANGED <<byTopic, versions, pc, op, sid, topic>>

LEMMA DispatchLeavesHandlers ==
  ASSUME NEW d \in Dispatchers, DispatchStep(d)
  PROVE  HandlersStandStill
BY DEF DispatchStep, ReadVersion, Lookup, Begin, Deliver, NextEvent, Return,
   topicVars, registryVars, handlerVars, HandlersStandStill

LEMMA StandStill ==
  ASSUME HandlersStandStill, FanoutInv
  PROVE  /\ DeletesAreDeletable'
         /\ \A t \in Topics, s \in Sessions : /\ Unbumped(s, t)' <=> Unbumped(s, t)
                                              /\ InFlight(s, t)' <=> InFlight(s, t)
BY DEF HandlersStandStill, FanoutInv, DeletesAreDeletable, Unbumped, InFlight

\* The version a dispatch starts from is current, so what is cached under it is
\* right about every session at rest.
LEMMA ReadVersionPreserves ==
  ASSUME FanoutInv, NEW d \in Dispatchers, NEW t \in Topics, ReadVersion(d, t)
  PROVE  FanoutInv'
<1>1. /\ dpc[d] = "idle" /\ dpc' = [dpc EXCEPT ![d] = "lookup"]
      /\ dtopic' = [dtopic EXCEPT ![d] = t]
      /\ version' = [version EXCEPT ![d] = versions[t]]
      /\ settled' = [settled EXCEPT ![d] = {s \in Sessions : ~InFlight(s, t)}]
      /\ UNCHANGED <<cache, snap, current, rest, took, firstErr, missed>>
  BY DEF ReadVersion
<1>2. HandlersStandStill
  BY DEF ReadVersion, topicVars, registryVars, handlerVars, HandlersStandStill
<1>3. TypeOK
  BY DEF FanoutInv
<1>4. TypeOK'
  BY <1>1, <1>2, <1>3 DEF TypeOK, HandlersStandStill
<1>5. DeletesAreDeletable'
  BY <1>2, StandStill
<1>6. VersionsOnlyGrow'
  BY <1>1, <1>2, <1>3 DEF FanoutInv, VersionsOnlyGrow, HandlersStandStill, TypeOK, Kept
<1>7. CacheCoherent'
  BY <1>1, <1>2, StandStill DEF FanoutInv, CacheCoherent, HandlersStandStill, Kept
<1>8. SettledIsQuiet'
  BY <1>1, <1>2, <1>3, StandStill DEF FanoutInv, SettledIsQuiet, TypeOK
<1>9. HitIsCurrent'
  <2> SUFFICES ASSUME NEW e \in Dispatchers, dpc'[e] = "lookup", dtopic'[e] \in Kept,
                      Cached(dtopic'[e], version'[e]), NEW s \in settled'[e]
               PROVE  (s \in cache[dtopic'[e]].sessions) <=> (s \in byTopic[dtopic'[e]])
    BY <1>1, <1>2 DEF HitIsCurrent, Cached, HandlersStandStill
  <2>1. CASE e = d
    <3>1. /\ dtopic'[e] = t /\ version'[e] = versions[t] /\ t \in Kept
          /\ s \in Sessions /\ ~InFlight(s, t)
      BY <1>1, <1>3, <2>1 DEF TypeOK
    <3>2. ~Unbumped(s, t)
      BY <3>1 DEF InFlight, Unbumped
    <3> QED
      BY <3>1, <3>2 DEF FanoutInv, CacheCoherent, Cached
  <2>2. CASE e # d
    BY <1>1, <1>3, <2>2 DEF FanoutInv, HitIsCurrent, TypeOK
  <2> QED
    BY <2>1, <2>2
<1>10. SnapshotCurrent'
  BY <1>1, <1>2, <1>3 DEF FanoutInv, SnapshotCurrent, SnapshotCurrentOn, HandlersStandStill, TypeOK
<1>11. LoopsCount'
  BY <1>1, <1>3 DEF FanoutInv, LoopsCount, TypeOK
<1> QED
  BY <1>4, <1>5, <1>6, <1>7, <1>8, <1>9, <1>10, <1>11 DEF FanoutInv

\* A hit returns an entry that is right about the settled sessions, a miss asks the
\* registry; what a miss stores is right about all of them.
LEMMA LookupPreserves ==
  ASSUME FanoutInv, NEW d \in Dispatchers, Lookup(d)
  PROVE  FanoutInv'
<1> DEFINE t == dtopic[d]
           hit == Cached(t, version[d])
           sessions == IF hit THEN cache[t].sessions ELSE byTopic[t]
<1>1. /\ dpc[d] = "lookup"
      /\ snap' = [snap EXCEPT ![d] = sessions]
      /\ current' = [current EXCEPT ![d] = 1]
      /\ rest' = [rest EXCEPT ![d] = sessions]
      /\ took' = [took EXCEPT ![d] = [s \in Sessions |-> 0]]
      /\ missed' = [missed EXCEPT ![d] = [s \in Sessions |-> 0]]
      /\ firstErr' = [firstErr EXCEPT ![d] = FALSE]
      /\ dpc' = [dpc EXCEPT ![d] = IF sessions = {} THEN "returned" ELSE "deliver"]
      /\ UNCHANGED <<dtopic, version, settled>>
      /\ cache' = IF hit THEN cache
                  ELSE [cache EXCEPT ![t] = [present |-> TRUE, version |-> version[d],
                                             sessions |-> byTopic[t]]]
  BY DEF Lookup, Begin, Subscribers
<1>2. HandlersStandStill
  BY DEF Lookup, Begin, topicVars, registryVars, handlerVars, HandlersStandStill
<1>3. TypeOK /\ t \in Topics
  BY DEF FanoutInv, TypeOK
<1>4. sessions \in SUBSET Sessions
  BY <1>3 DEF TypeOK, Bindings
<1>5. \A u \in Topics :
        \/ cache'[u] = cache[u]
        \/ /\ u = t /\ cache'[u].present /\ cache'[u].version = version[d]
           /\ cache'[u].sessions = byTopic[u]
  BY <1>1, <1>3 DEF TypeOK
<1>6. TypeOK'
  <2>1. cache' \in [Topics -> [present : BOOLEAN, version : Nat, sessions : SUBSET Sessions]]
    BY <1>1, <1>3 DEF TypeOK, Bindings
  <2> HIDE DEF sessions, hit
  <2> QED
    BY <1>1, <1>2, <1>3, <1>4, <2>1, BatchSizeAssumption DEF TypeOK, HandlersStandStill
<1>7. DeletesAreDeletable' /\ SettledIsQuiet'
  BY <1>1, <1>2, <1>3, StandStill DEF FanoutInv, SettledIsQuiet, TypeOK
<1>8. VersionsOnlyGrow'
  <2>1. \A u \in Kept : cache'[u].present => cache'[u].version <= versions[u]
    BY <1>1, <1>5 DEF FanoutInv, VersionsOnlyGrow, Kept
  <2>2. \A e \in Dispatchers : dpc'[e] = "lookup" => dpc[e] = "lookup"
    BY <1>1, <1>3 DEF TypeOK
  <2> QED
    BY <1>1, <1>2, <2>1, <2>2 DEF FanoutInv, VersionsOnlyGrow, HandlersStandStill
<1>9. CacheCoherent'
  BY <1>2, <1>5, StandStill DEF FanoutInv, CacheCoherent, HandlersStandStill, Kept
<1>10. HitIsCurrent'
  <2>1. \A e \in Dispatchers : dpc'[e] = "lookup" => dpc[e] = "lookup"
    BY <1>1, <1>3 DEF TypeOK
  <2> SUFFICES ASSUME NEW e \in Dispatchers, dpc'[e] = "lookup", dtopic[e] \in Kept,
                      cache'[dtopic[e]].present, cache'[dtopic[e]].version = version[e],
                      NEW s \in settled[e]
               PROVE  (s \in cache'[dtopic[e]].sessions) <=> (s \in byTopic[dtopic[e]])
    BY <1>1, <1>2 DEF HitIsCurrent, Cached, HandlersStandStill
  <2>2. CASE cache'[dtopic[e]] = cache[dtopic[e]]
    BY <2>1, <2>2 DEF FanoutInv, HitIsCurrent, Cached
  <2>3. CASE cache'[dtopic[e]] # cache[dtopic[e]]
    BY <1>5, <2>3 DEF Kept
  <2> QED
    BY <2>2, <2>3
<1>11. SnapshotCurrent'
  <2> SUFFICES ASSUME NEW u \in Kept, NEW e \in Dispatchers, dpc'[e] \in {"deliver", "returned"},
                      dtopic[e] = u, NEW s \in settled[e]
               PROVE  (s \in snap'[e]) <=> (s \in byTopic[u])
    BY <1>1, <1>2 DEF SnapshotCurrent, SnapshotCurrentOn, HandlersStandStill, Kept
  <2>1. CASE e = d /\ hit
    BY <1>1, <1>3, <2>1 DEF FanoutInv, HitIsCurrent, TypeOK
  <2>2. CASE e = d /\ ~hit
    BY <1>1, <1>3, <2>2 DEF TypeOK
  <2>3. CASE e # d
    BY <1>1, <1>3, <2>3 DEF FanoutInv, SnapshotCurrent, SnapshotCurrentOn, TypeOK, Kept
  <2> QED
    BY <2>1, <2>2, <2>3
<1>12. LoopsCount'
  <2> HIDE DEF sessions, hit, t
  <2> SUFFICES ASSUME NEW e \in Dispatchers PROVE LoopsCount!(e)'
    BY DEF LoopsCount
  <2>1. CASE e = d
    BY <1>1, <1>3, <1>4, <2>1 DEF TypeOK
  <2>2. CASE e # d
    BY <1>1, <1>3, <2>2 DEF FanoutInv, LoopsCount, TypeOK
  <2> QED
    BY <2>1, <2>2
<1> QED
  BY <1>6, <1>7, <1>8, <1>9, <1>10, <1>11, <1>12 DEF FanoutInv

LEMMA DeliverPreserves ==
  ASSUME FanoutInv, NEW d \in Dispatchers, NEW s \in Sessions, Deliver(d, s)
  PROVE  FanoutInv'
<1>1. /\ dpc[d] = "deliver" /\ s \in rest[d]
      /\ rest' = [rest EXCEPT ![d] = @ \ {s}]
      /\ UNCHANGED <<cache, dpc, dtopic, version, snap, current, settled>>
  BY DEF Deliver
<1>2. HandlersStandStill
  BY DEF Deliver, topicVars, registryVars, handlerVars, HandlersStandStill
<1>3. TypeOK
  BY DEF FanoutInv
<1>4. \/ took' = [took EXCEPT ![d][s] = @ + 1] /\ UNCHANGED <<firstErr, missed>>
      \/ /\ missed' = [missed EXCEPT ![d][s] = @ + 1] /\ UNCHANGED took
         /\ firstErr' = [firstErr EXCEPT ![d] = TRUE]
  BY DEF Deliver, Taken, Refused
<1>5. /\ s \in snap[d] /\ took[d][s] + missed[d][s] = current[d] - 1
      /\ took[d][s] \in Nat /\ missed[d][s] \in Nat /\ current[d] \in 1..BatchSize
  BY <1>1, <1>3 DEF FanoutInv, LoopsCount, TypeOK
<1>6. took[d][s] + 1 \in 0..BatchSize /\ missed[d][s] + 1 \in 0..BatchSize
  BY <1>5, BatchSizeAssumption
<1>7. /\ took' \in [Dispatchers -> [Sessions -> 0..BatchSize]]
      /\ missed' \in [Dispatchers -> [Sessions -> 0..BatchSize]]
      /\ firstErr' \in [Dispatchers -> BOOLEAN]
  <2>1. /\ took \in [Dispatchers -> [Sessions -> 0..BatchSize]]
        /\ missed \in [Dispatchers -> [Sessions -> 0..BatchSize]]
        /\ firstErr \in [Dispatchers -> BOOLEAN]
    BY <1>3 DEF TypeOK
  <2>2. took[d] \in [Sessions -> 0..BatchSize] /\ missed[d] \in [Sessions -> 0..BatchSize]
    BY <2>1
  <2>3. /\ [took[d] EXCEPT ![s] = @ + 1] \in [Sessions -> 0..BatchSize]
        /\ [missed[d] EXCEPT ![s] = @ + 1] \in [Sessions -> 0..BatchSize]
    BY <1>6, <2>2
  <2>4. /\ [took EXCEPT ![d][s] = @ + 1] \in [Dispatchers -> [Sessions -> 0..BatchSize]]
        /\ [missed EXCEPT ![d][s] = @ + 1] \in [Dispatchers -> [Sessions -> 0..BatchSize]]
    BY <2>1, <2>3
  <2>5. [firstErr EXCEPT ![d] = TRUE] \in [Dispatchers -> BOOLEAN]
    BY <2>1
  <2> QED
    BY <1>4, <2>1, <2>4, <2>5
<1>8. TypeOK'
  BY <1>1, <1>2, <1>3, <1>7 DEF TypeOK, HandlersStandStill
<1>9. DeletesAreDeletable' /\ VersionsOnlyGrow' /\ CacheCoherent' /\ SettledIsQuiet'
  BY <1>1, <1>2, StandStill DEF FanoutInv, VersionsOnlyGrow, CacheCoherent, SettledIsQuiet,
     HandlersStandStill, TypeOK, Kept
<1>10. HitIsCurrent' /\ SnapshotCurrent'
  BY <1>1, <1>2 DEF FanoutInv, HitIsCurrent, SnapshotCurrent, SnapshotCurrentOn, Cached,
     HandlersStandStill
<1>11. LoopsCount'
  <2> SUFFICES ASSUME NEW e \in Dispatchers PROVE LoopsCount!(e)'
    BY DEF LoopsCount
  <2>1. CASE e = d
    <3>1. rest'[d] = rest[d] \ {s} /\ rest[d] \subseteq snap[d] /\ dpc'[e] = "deliver"
      BY <1>1, <1>3, <2>1 DEF FanoutInv, LoopsCount, TypeOK
    <3>2. \A r \in snap[d] :
            took'[d][r] + missed'[d][r] = IF r \in rest'[d] THEN current[d] - 1 ELSE current[d]
      <4> SUFFICES ASSUME NEW r \in snap[d]
                   PROVE  took'[d][r] + missed'[d][r]
                            = IF r \in rest'[d] THEN current[d] - 1 ELSE current[d]
        OBVIOUS
      <4>1. r \in Sessions
        BY <1>3 DEF TypeOK
      <4>2. CASE r = s
        BY <1>3, <1>4, <1>5, <3>1, <4>2 DEF TypeOK
      <4>3. CASE r # s
        <5>1. took'[d][r] = took[d][r] /\ missed'[d][r] = missed[d][r]
          BY <1>3, <1>4, <4>1, <4>3 DEF TypeOK
        <5>2. took[d][r] + missed[d][r] = IF r \in rest[d] THEN current[d] - 1 ELSE current[d]
          BY <1>1 DEF FanoutInv, LoopsCount
        <5> QED
          BY <3>1, <4>3, <5>1, <5>2
      <4> QED
        BY <4>2, <4>3
    <3>3. firstErr'[d] <=> \E r \in snap[d] : missed'[d][r] > 0
      <4>1. firstErr[d] <=> \E r \in snap[d] : missed[d][r] > 0
        BY <1>1 DEF FanoutInv, LoopsCount
      <4>2. CASE missed' = missed /\ firstErr' = firstErr
        BY <4>1, <4>2
      <4>3. CASE missed' = [missed EXCEPT ![d][s] = @ + 1] /\ firstErr' = [firstErr EXCEPT ![d] = TRUE]
        <5>1. missed'[d][s] = missed[d][s] + 1 /\ firstErr'[d] = TRUE
          BY <1>3, <4>3 DEF TypeOK
        <5> QED
          BY <1>5, <5>1
      <4> QED
        BY <1>4, <4>2, <4>3
    <3> QED
      BY <1>1, <2>1, <3>1, <3>2, <3>3
  <2>2. CASE e # d
    BY <1>1, <1>3, <1>4, <2>2 DEF FanoutInv, LoopsCount, TypeOK
  <2> QED
    BY <2>1, <2>2
<1> QED
  BY <1>8, <1>9, <1>10, <1>11 DEF FanoutInv

LEMMA NextEventPreserves ==
  ASSUME FanoutInv, NEW d \in Dispatchers, NextEvent(d)
  PROVE  FanoutInv'
<1>1. UNCHANGED <<cache, dtopic, version, snap, took, missed, firstErr, settled>>
  BY DEF NextEvent
<1>2. HandlersStandStill
  BY DEF NextEvent, topicVars, registryVars, handlerVars, HandlersStandStill
<1>3. TypeOK /\ BatchSize \in Nat /\ current[d] \in 1..BatchSize
  BY BatchSizeAssumption DEF FanoutInv, TypeOK
<1>4. \/ /\ dpc[d] = "deliver" /\ rest[d] = {} /\ current[d] < BatchSize
         /\ current' = [current EXCEPT ![d] = @ + 1]
         /\ rest' = [rest EXCEPT ![d] = snap[d]]
         /\ UNCHANGED dpc
      \/ /\ dpc[d] = "deliver" /\ rest[d] = {} /\ current[d] = BatchSize
         /\ dpc' = [dpc EXCEPT ![d] = "returned"]
         /\ UNCHANGED <<current, rest>>
  BY <1>3 DEF NextEvent, MoreEvents
<1>5. \A e \in Dispatchers :
        /\ dpc'[e] = "lookup" => dpc[e] = "lookup"
        /\ dpc'[e] \in {"deliver", "returned"} => dpc[e] \in {"deliver", "returned"}
  BY <1>3, <1>4 DEF TypeOK
<1>6. TypeOK'
  <2>1. /\ dpc' \in [Dispatchers -> {"idle", "lookup", "deliver", "returned"}]
        /\ current' \in [Dispatchers -> 1..BatchSize]
        /\ rest' \in [Dispatchers -> SUBSET Sessions]
    <3>1. /\ dpc \in [Dispatchers -> {"idle", "lookup", "deliver", "returned"}]
          /\ current \in [Dispatchers -> 1..BatchSize]
          /\ rest \in [Dispatchers -> SUBSET Sessions]
          /\ snap[d] \in SUBSET Sessions
      BY <1>3 DEF TypeOK
    <3>2. CASE UNCHANGED dpc
      <4>1. current[d] < BatchSize /\ current' = [current EXCEPT ![d] = current[d] + 1]
            /\ rest' = [rest EXCEPT ![d] = snap[d]]
        BY <1>3, <1>4, <3>1, <3>2
      <4>2. current[d] + 1 \in 1..BatchSize
        BY <1>3, <4>1
      <4> QED
        BY <3>1, <3>2, <4>1, <4>2
    <3>3. CASE UNCHANGED <<current, rest>>
      BY <1>4, <3>1, <3>3
    <3> QED
      BY <1>4, <3>2, <3>3
  <2> QED
    BY <1>1, <1>2, <1>3, <2>1 DEF TypeOK, HandlersStandStill
<1>7. DeletesAreDeletable' /\ VersionsOnlyGrow' /\ CacheCoherent' /\ SettledIsQuiet'
  BY <1>1, <1>2, <1>5, StandStill DEF FanoutInv, VersionsOnlyGrow, CacheCoherent, SettledIsQuiet,
     HandlersStandStill, TypeOK, Kept
<1>8. HitIsCurrent' /\ SnapshotCurrent'
  BY <1>1, <1>2, <1>5 DEF FanoutInv, HitIsCurrent, SnapshotCurrent, SnapshotCurrentOn, Cached,
     HandlersStandStill
<1>9. LoopsCount'
  <2> SUFFICES ASSUME NEW e \in Dispatchers PROVE LoopsCount!(e)'
    BY DEF LoopsCount
  <2>1. CASE e = d
    BY <1>1, <1>3, <1>4, <2>1 DEF FanoutInv, LoopsCount, TypeOK
  <2>2. CASE e # d
    BY <1>1, <1>3, <1>4, <2>2 DEF FanoutInv, LoopsCount, TypeOK
  <2> QED
    BY <2>1, <2>2
<1> QED
  BY <1>6, <1>7, <1>8, <1>9 DEF FanoutInv

\* An idle dispatcher is claimed nothing about.
LEMMA ReturnPreserves ==
  ASSUME FanoutInv, NEW d \in Dispatchers, Return(d)
  PROVE  FanoutInv'
<1>1. /\ dpc' = [dpc EXCEPT ![d] = "idle"] /\ version' = [version EXCEPT ![d] = 0]
      /\ snap' = [snap EXCEPT ![d] = {}] /\ current' = [current EXCEPT ![d] = 1]
      /\ rest' = [rest EXCEPT ![d] = {}] /\ settled' = [settled EXCEPT ![d] = {}]
      /\ took' = [took EXCEPT ![d] = [s \in Sessions |-> 0]]
      /\ missed' = [missed EXCEPT ![d] = [s \in Sessions |-> 0]]
      /\ firstErr' = [firstErr EXCEPT ![d] = FALSE] /\ UNCHANGED <<cache, dtopic>>
  BY DEF Return
<1>2. HandlersStandStill
  BY DEF Return, topicVars, registryVars, handlerVars, HandlersStandStill
<1>3. TypeOK
  BY DEF FanoutInv
<1>4. TypeOK'
  <2>1. 0 \in 0..BatchSize /\ 1 \in 1..BatchSize /\ 0 \in Nat
    BY BatchSizeAssumption
  <2>2. [s \in Sessions |-> 0] \in [Sessions -> 0..BatchSize]
    BY <2>1
  <2> QED
    BY <1>1, <1>2, <1>3, <2>1, <2>2 DEF TypeOK, HandlersStandStill
<1>5. /\ dpc'[d] = "idle" /\ settled'[d] = {}
      /\ \A e \in Dispatchers : e # d =>
           /\ dpc'[e] = dpc[e] /\ version'[e] = version[e] /\ snap'[e] = snap[e]
           /\ current'[e] = current[e] /\ rest'[e] = rest[e] /\ settled'[e] = settled[e]
           /\ took'[e] = took[e] /\ missed'[e] = missed[e] /\ firstErr'[e] = firstErr[e]
  BY <1>1, <1>3 DEF TypeOK
<1>6. DeletesAreDeletable' /\ VersionsOnlyGrow' /\ CacheCoherent'
  BY <1>1, <1>2, <1>5, StandStill DEF FanoutInv, VersionsOnlyGrow, CacheCoherent,
     HandlersStandStill, Kept
<1>7. SettledIsQuiet'
  <2> SUFFICES ASSUME NEW e \in Dispatchers, NEW s \in settled'[e]
               PROVE  ~InFlight(s, dtopic[e])'
    BY DEF SettledIsQuiet
  <2>1. e # d /\ s \in settled[e] /\ s \in Sessions /\ dtopic[e] \in Topics
    BY <1>3, <1>5 DEF TypeOK
  <2>2. ~InFlight(s, dtopic[e])
    BY <2>1 DEF FanoutInv, SettledIsQuiet
  <2> QED
    BY <1>1, <1>2, <2>2 DEF InFlight, HandlersStandStill
<1>8. HitIsCurrent' /\ SnapshotCurrent'
  BY <1>1, <1>2, <1>5 DEF FanoutInv, HitIsCurrent, SnapshotCurrent, SnapshotCurrentOn, Cached,
     HandlersStandStill
<1>9. LoopsCount'
  BY <1>5 DEF FanoutInv, LoopsCount
<1> QED
  BY <1>4, <1>6, <1>7, <1>8, <1>9 DEF FanoutInv
-------------------------------------------------------------------------------
\* The inductive invariant of dispatchers beside handlers.
THEOREM FanoutInvariant == Spec => []FanoutInv
<1>1. FanoutInv /\ UNCHANGED vars => FanoutInv'
  <2> SUFFICES ASSUME FanoutInv, UNCHANGED vars PROVE FanoutInv'
    OBVIOUS
  <2>1. HandlersStandStill /\ UNCHANGED fanoutVars
    BY DEF vars, topicVars, registryVars, handlerVars, HandlersStandStill
  <2>2. TypeOK' /\ DeletesAreDeletable' /\ VersionsOnlyGrow' /\ CacheCoherent' /\ SettledIsQuiet'
    BY <2>1, StandStill DEF FanoutInv, TypeOK, VersionsOnlyGrow, CacheCoherent, SettledIsQuiet,
       HandlersStandStill, fanoutVars, dispatchVars, Kept
  <2>3. HitIsCurrent' /\ SnapshotCurrent' /\ LoopsCount'
    BY <2>1 DEF FanoutInv, HitIsCurrent, SnapshotCurrent, SnapshotCurrentOn, Cached, LoopsCount,
       HandlersStandStill, fanoutVars, dispatchVars
  <2> QED
    BY <2>2, <2>3 DEF FanoutInv
<1>2. FanoutInv /\ [Next]_vars => FanoutInv'
  BY <1>1, TopicsPreserve, ReadVersionPreserves, LookupPreserves, DeliverPreserves,
     NextEventPreserves, ReturnPreserves DEF Next, DispatchStep
<1> QED
  BY <1>2, InitInv, PTL DEF Spec

\* Every variable of the cache and of the dispatchers keeps its type; no dispatch
\* counts past the end of its batch.
THEOREM TypeCorrect == Spec => []TypeOK
<1>1. FanoutInv => TypeOK
  BY DEF FanoutInv
<1> QED
  BY <1>1, FanoutInvariant, PTL

\* snapshot.go:18-35: on topics nobody deletes a cached snapshot is never stale for
\* a session whose subscription was complete before the dispatch began.
THEOREM SnapshotCurrentAlways == Spec => []SnapshotCurrent
<1>1. FanoutInv => SnapshotCurrent
  BY DEF FanoutInv
<1> QED
  BY <1>1, FanoutInvariant, PTL

\* fanout.go:45-63: a dispatch that reports success has handed every event of the
\* batch to every settled subscriber, and one that fails has still tried them all.
THEOREM DispatchCompleteAlways == Spec => []DispatchIsComplete
<1>1. FanoutInv => DispatchIsComplete
  <2> SUFFICES ASSUME FanoutInv, NEW d \in Dispatchers, dpc[d] = "returned"
               PROVE  DispatchIsComplete!(d)!2
    BY DEF DispatchIsComplete
  <2>1. /\ \A s \in snap[d] : /\ took[d][s] + missed[d][s] = BatchSize
                              /\ took[d][s] \in Nat /\ missed[d][s] \in Nat
        /\ firstErr[d] <=> \E s \in snap[d] : missed[d][s] > 0
    BY DEF FanoutInv, LoopsCount, TypeOK
  <2>2. ASSUME ~firstErr[d], dtopic[d] \notin Deletable, NEW s \in settled[d], s \in byTopic[dtopic[d]]
        PROVE  took[d][s] = BatchSize
    <3>1. s \in snap[d]
      BY <2>2 DEF FanoutInv, SnapshotCurrent, SnapshotCurrentOn, TypeOK
    <3> QED
      BY <2>1, <2>2, <3>1, BatchSizeAssumption
  <2> QED
    BY <2>1, <2>2, BatchSizeAssumption
<1> QED
  BY <1>1, FanoutInvariant, PTL
-------------------------------------------------------------------------------
(* The fanout around the registry *)

\* snapshot.go:18-35, fanout.go:42-63: dispatchers only ever read the registry, the
\* versions and the tree, so with any number of them the registry takes no step that
\* it could not take alone.
THEOREM ImplementsTopics == Spec => TopicsSpec
<1>1. Init => TopicsInit
  BY DEF Init
<1>2. [Next]_vars => [TopicsNext]_topicVars
  <2>1. ASSUME NEW d \in Dispatchers, DispatchStep(d) PROVE UNCHANGED topicVars
    BY <2>1 DEF DispatchStep, ReadVersion, Lookup, Begin, Deliver, NextEvent, Return
  <2>2. TopicsStep => TopicsNext
    BY DEF TopicsStep
  <2> QED
    BY <2>1, <2>2 DEF Next, vars
<1> QED
  BY <1>1, <1>2, PTL DEF Spec, TopicsSpec

\* refcount.go:19-58, fanout.go:42-63: the count that keeps a binding alive decides
\* who is served.  When a dispatch succeeds, every session that has held a reference
\* on the topic, undisturbed, since before the dispatch has taken the whole batch.
ReferencesAreServed ==
  \A d \in Dispatchers : \A s \in settled[d] :
    ( /\ dpc[d] = "returned"
      /\ ~firstErr[d]
      /\ dtopic[d] \notin Deletable
      /\ refs[dtopic[d]][s] >= 1 ) => took[d][s] = BatchSize

THEOREM ReferencesServedAlways == Spec => []ReferencesAreServed
<1>1. FanoutInv /\ DispatchIsComplete /\ ViewsAgree => ReferencesAreServed
  BY DEF FanoutInv, TypeOK, DispatchIsComplete, ViewsAgree, ReferencesAreServed
<1> QED
  BY <1>1, FanoutInvariant, DispatchCompleteAlways, ImplementsTopics, ViewsAlwaysAgree, PTL
===============================================================================
