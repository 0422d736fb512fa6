# EventPush: a TLA+ verification project

EventPush is an event gateway: clients keep a WebSocket open and subscribe to
topics, publishers post events over HTTP, and the gateway broadcasts each event to
the sessions bound to its topic, tracks what the clients acknowledge, and replays
after a reconnect what they missed. It is one Go process that keeps everything in
memory, so nothing survives a restart, and its difficulty is concurrency: each HTTP
request and each WebSocket is a goroutine, and the locks are small and many.

The modules here model that code at the granularity of its critical sections and
channel operations. TLC checks them on small instances; TLAPS proves the most
important safety properties for every value of the constants.

    tlc -workers 2 -config MCWriter.cfg MCWriter          one run
    tlapm WriterProofs.tla                                the proofs of a module

`PROJECT.json` lists the runs, maps every definition to the lines it models, and
gives for each property a mutation of the code's model that breaks it (the
definitions commented "Variant" exist for that and are used by no action).

Contents: 1 the system, 2 the modules, 3 the runs, 4 fairness, 5 the proofs,
6 known divergences, 7 what is not modelled, 8 the plan.

## 1. The system

### Components

**Session writer** (`internal/session/writer.go`, `backpressure.go`). State: a
bounded channel `queue`, the flag `closed` under a mutex, the wait group `inflight`,
the channel `done`. Operations: `Enqueue` (test `closed`, unlock, try to send, else
send with a timer), `run` (receive, test `closed` and count the frame in, write,
count it out), `Shutdown` (claim `closed`, wait for the frame in flight, close the
channel, the transport and `done`). Hard: senders, the writer goroutine and several
shutdowns interleave between any two of these; the peer may stop reading; a send can
meet the close of the channel. Correct when: the release happens once and beside no
frame; accepted events leave in order; nobody waits for ever.

**Transport** (`internal/conn`). A mutex around writes, a flag for `Close`. The
WebSocket library makes a write error sticky. No write deadline is ever set.

**Session** (`internal/session/session.go`). State under `s.mu`: the state
(active, suspected, closing, closed), connection, writer, tracker, replay flag and
replay buffer, the session's topics. Operations: `Deliver` (skip, buffer, or enqueue
and record), `Confirm`, `Reconnect`, `BeginReplay`/`ReplayWrite`/`EndReplay`,
`Suspect`, `BeginClose`, `FinishClose`. Hard: a reconnect swaps connection, writer
and tracker while an older replay goroutine, publishers and an eviction go on;
`EndReplay` flushes after it has unlocked. Correct when: no event is lost between
live path, buffer and flush; live events wait for the replay; the tracker is about
the current connection.

**Ack tracker** (`internal/ack`). State: the acked position, the pending sequences,
under a lock of its own, so a confirmation does not wait for `s.mu`.

**Resume** (`internal/resume`). No state of its own: `ReplayWindow` wraps
`BeginReplay` and a deferred `EndReplay` around `Replay`, which reads the resume
position, fetches the committed events after it and writes them one by one.

**Session registry** (`internal/session/registry.go`). State under `r.mu`: sessions
by id, the set of active ones, `lastSeen` and the incarnation by id. Operations:
`Get`, `Bind`, `Remove`, `IsLive`, `Touch`, `LastSeen`, `Sessions`. Hard: an id
outlives its session objects, handlers test a state and act on it later, and
`Remove` and `FinishClose` are two critical sections that several goroutines run on
the same object. Correct when: the active set is what the id is bound to; a closed
session's writer is shut down; a live session has somebody who will close it.

**Heartbeat and evictor** (`internal/heartbeat`). State: a ticker with a channel of
one. The sweep takes a snapshot of the active sessions, reads `IsLive` and
`LastSeen`, and evicts, suspects or renews by age; `Evict` is `BeginClose`, shut the
writer down, `Remove`. Hard: the sweep itself evicts and can be held up there, so
ticks get lost; readers, reconnects and close frames go on between its reads.
Correct when: an eviction that has begun ends; who is silent is suspected, and nobody
else is evicted.

**Event store** (`internal/event`). State: a ring that never drops anything, the
last sequence, the commit cursor. Operations: `Append` (a sequence is spent even when
the ring is full), `Commit` (the maximum), `Since`, `Pending`. `BacklogInfo` reads
them one call at a time.

**Publish pipeline** (`internal/publish`). Per request: validate, append, dispatch,
commit, advance the broker's own cursor, count. Hard: requests commit in another
order than they appended; a failed one leaves a hole that a later commit covers.
Correct when: what a client is told is committed and replayable, the cursor never
moves back, a status report does not contradict itself.

**Subscription registry** (`internal/subscription`). State: the topic tree, the
reference counts, topics by session and sessions by topic, a version per topic, each
under its own lock. Operations: `Subscribe`, `Unsubscribe`, `DeleteTopic`, each
updating tree, then registry, then version. Hard: two handlers interleave between
these. Correct when: the views of the membership agree.

**Fanout** (`internal/fanout`). State: a cache of snapshots by topic, with the
version each was taken at. `Dispatch` reads the version, looks the snapshot up or
takes it, and delivers every event of a batch to every session in it. Hard: the
version, the cache and the membership are read under three locks while subscriptions
change. Correct when: a snapshot has everyone who subscribed before and nobody who
left before; one failing session does not cost the others an event.

**Flow limiter** (`internal/flow`). State: a token bucket per session, refilled only
when it is used. Correct when: no stretch of time passes more than burst and rate
allow, and nothing is refused without cause.

**Metrics** (`internal/metric`), **server**
(`cmd/eventpush/server.go`), plain types, start-up, a probe and a console page.

### How they interact

    POST /api/publish -> Ingress.Handle -> Broker.Publish
                            Store.Append
                            Fanout.Dispatch -> TopicRegistry.Version, Subscribers
                                            -> Session.Deliver (under s.mu)
                                                 Tracker.Covered / Pending
                                                 Writer.Enqueue ---channel---> Writer.run -> transport
                                                 Tracker.Record
                            Store.Commit, Cursor.Advance
    GET /ws  -> handleWS -> Bind or Reconnect, Subscribe the topics
                         -> go ReplayWindow(Replay): Store.Since, Session.ReplayWrite
                         -> readLoop: ack (Confirm), sub, unsub, del, touch, close
    ticker   -> Suspect, Evictor.Evict (BeginClose, Shutdown, Remove -> FinishClose)
    GET /api/status -> metrics, BacklogInfo

Everything is a direct call, except the channel between `Enqueue` and `run`.
Publishers hold `s.mu` while they wait for room in a queue, so a slow consumer holds
its publisher until the enqueue timer fires.

## 2. The modules

| module | models | abstracts |
|---|---|---|
| `FrameQueue` | what a writer promises: accepted events become frames in order, and none after the release | |
| `Writer` | `writer.go`, `backpressure.go`, the transport | event contents; time (a timer is a step that may be taken) |
| `WriterProofs` | theorems about `Writer` | |
| `EventStore` | the store and its ring as operators on a record | |
| `EventLog` | what store and broker promise clients: an append-only log of the published events | |
| `Publish` | requests and a status reader over one store | the fanout: it takes a while and succeeds or fails |
| `PublishProofs` | theorems about `Publish` | |
| `TopicTree` | `tree.go` as operators on a function from paths to counts | the pointers between nodes |
| `Topics` | handlers inside the subscription registry | |
| `TopicsProofs` | theorems about `Topics` | |
| `Fanout` | dispatchers over `Topics` | a delivery: it takes the event or fails |
| `FanoutProofs` | theorems about `Fanout` | |
| `Session` | one session: publishers, replays, reconnects, confirmations, close | writer and store, see below |
| `SessionProofs` | theorems about `Session` | |
| `Lifecycle` | the connections, registry, readers and evictions around one session id | what is delivered; the frame in flight (module `Writer`) |
| `Heartbeat` | the ticker and the sweep over `Lifecycle` | time within an interval |
| `LifecycleProofs`, `HeartbeatProofs` | theorems about both | |
| `Budget` | what the limiter promises a session: a budget for every stretch of time | |
| `Limiter`, `LimiterProofs` | the token bucket, and theorems about it | rounding of float64 |
| `MC...` | the instances for TLC | |

**Steps.** An action is one critical section, or one channel or atomic operation,
with everything the code changes in it. A goroutine is an element of a constant set
with a program counter (`run`, `enq`, `shut`, `pc`, `dpc`, `closer`); its local
variables are functions on that set. Where the code gives a lock up and takes it
again, there are two actions.

**Writer.** `Enqueue` tests `closed`; `TryEnqueue` is the `select` with a default;
`EnqueueWithTimeout` and `Timeout` are the two arms of the timed one. A send that
meets `queueClosed` sets `crashed`, as the Go runtime ends the process. `Receive`,
`StartFrame` (the locked test and `inflight.Add`), `TransportWrite`, `WriteFrame`
(the deferred `Done`) are `run`; `ChannelDrained` ends it. `Claim`, `AwaitInflight`,
`CloseQueue`, `CloseConn`, `CloseDone` are `Shutdown`. `accepted` and `wire` record
what was accepted and what reached the transport; `FrameQueue` is stated over them
and `ImplementsFrameQueue` is the refinement.

**EventStore, Publish.** The store is a record `[ring, seq, committed]`; each request
runs `Reject`, or `AppendStep`, `DispatchOK` or `DispatchFails`, `CommitStep`,
`Advance`, `Return`; a status reader runs `ReadMetrics` ... `ReadRetained`, one step
per lock, over and over. `Collect` is the loop of `Since` over a range of sequences.
`EventLog` knows none of this: its state is the log a replay from the start returns and
the set of events whose publication was confirmed. `Visible` and `Told` read both off
`Publish`, and `ImplementsLog` is the refinement: every commit that moves the cursor is a
`Reveal`, every `Return` a `Tell`, and the rest stutters.

**TopicTree, Topics, Fanout.** A topic is a sequence of segments. A node of the tree
is identified by its path, which is how the code finds it. A handler runs one
operation at a time (`Start`), in the order `TreeStep`, `RegistryStep`, `BumpStep`,
`LocalStep` of the code. `Fanout` adds dispatchers: `ReadVersion`, `Lookup` (hit or
miss, under `f.mu`), one `Deliver` per session and event in any order within an
event, because a Go map's order is any, `NextEvent`, `Return`. The history variable
`settled` holds, per dispatch, the sessions whose subscription to its topic no
handler has been working on since the dispatch began: of those the code owes a
definite answer. `missed` counts failed deliveries.

**Session.** Connections are numbered by identity, not order: whichever finds the
session next takes it over. Deliver's critical section is one action, except that it is
split at `Tracker.Record` (`recording` holds `s.mu` in between), because a confirmation
takes only the tracker's lock and can come between. `EndReplay` closes the window and
gives `s.mu` up; its flush then reads `s.writer` without the lock (`FlushReads`) and
enqueues on what it read (`Flush`), once per event, and `target` is the writer read.
Confirmations name any sequence, received or not, as often as the client likes, as
nobody asks (`server.go:192-194`). A connection comes to the session in one of two ways:
`FindSession` and `Reconnect`, which take it over, or `BindFinds`, where `Get` came too
early and `Bind` returns the session another connection has just made. Then nothing is
taken over, but the handler starts a replay of the same session all the same, so two
replays run beside each other. `Refusals` lets limiter and queue refuse anything. Two
abstractions rest on what other modules establish: a writer is the sequence of the
events it accepted (that is what `Writer` is shown to implement), and the store is its
cursor, since every sequence up to it is retained (`StoreDense`) and `Since` returns
them all, in order (`SinceIsComplete`). `NeverReplaced` says that no connection has
taken the session over from the one it was bound for (`first`, a history variable),
though any number may have joined it in `Bind` and run replays, and any number may be
about to take it over; section 6 says what a takeover breaks.

**Lifecycle, Heartbeat.** A goroutine is a connection's handler, which becomes its
reader, or the sweep; `pc` tells where it is, `sess` which session object it holds.
`Get`, `TestState`, `Reconnect`, `BindFinds`, `BindNew` are `handleWS`, with the lock
given up between the test of the state and `Reconnect`. `StartReading`, `TouchFrame`,
`CloseFrame`, `ReadFails`, `Deferred` are `readLoop`; a read may fail at any time, for
the peer, the deadline or a released transport, and frames received before the release
may still be read after it. `BeginClose`, `EvictShutdown`, `Remove`, `FinishClose`,
`ReleaseWriter`, `CloseCh` are the steps of `Evict`, `Remove` and `FinishClose`, whoever
runs them; `after` is where the caller goes on. A second close of `closedCh` sets
`crashed`, as the Go runtime ends the process. The sweep is `SweepBegins`, `SweepVisit`
(`IsLive`), `SweepAge` (`LastSeen` and `classify`), `SweepSuspect`, `SweepRenew`,
`Evict`, `SweepEnds`. The registry's entries are those of one id, as ids do not touch
each other. The clock counts heartbeat intervals. A touch inside an interval carries the
beginning of the interval: ages are compared with whole thresholds at ticks, which fall
on interval boundaries, so an age of n - e and an age of n are classified alike. (The
default timeout of 7.5 intervals expires somewhere between 7 and 8 of them; the model
takes either bound.) `heard` is a history variable: when the client was last heard of,
by a session bound for it or by a touch frame that took effect. It differs from
`lastSeen`, which the sweep writes too. A writer that is "shut" has been told to shut
down: `Shutdown` is one step here, its claim. Whoever makes it waits for the frame in
flight and releases the transport, which module `Writer` has in steps
(`ShutdownReleases`); whoever comes second goes on at once, so `FinishClose` can end
before the transport is released.

**Limiter.** One session's limiter and bucket. `Allow` is the whole critical section;
`Reconnect` replaces the limiter. Tokens are fractions of which `Unit` make one, so a
rate of `r` earns `r` fractions in a unit of time. `spent` and `before` are history
variables that remember how much had passed at each time. `Budget` has these and the
clock, but no bucket: it lets an event pass exactly when no stretch of time that ends now
would be overdrawn. `ImplementsBudget` is the refinement.

### Properties

Besides a type invariant per module:

- `ReleaseIsQuiet`, `ReleasedOnce`, `ImplementsFrameQueue`, `ShutdownReleases`,
  `AcceptedReachWire`, `EnqueueReturns` (Writer);
- `StoreDense`, `AcknowledgedIsReplayable`, `SinceIsComplete`,
  `ProgressIsCommitted`, `ReportMissesNothing`, `ReportNextUncommitted`, `ReportCountsCommitted`,
  `CursorIsDelivered`, `ImplementsLog` (Publish);
- `ViewsAgree`, `TreeConnected` (Topics, in the runs of Fanout);
- `SnapshotCurrent`, `DispatchIsComplete` (Fanout);
- `NothingLost`, `LiveWaitsForReplay` (both until another connection takes over),
  `BufferIsEmptied`, `PendingWereSent`, `BufferHasFlusher`, `LiveOnce` (Session);
- `RegistryCoherent`, `ClosedIsReleased`, `ClosingHasCloser`, `LiveHasReader`,
  `OnlyReplacedLeak` (Lifecycle), `EvictedWereSilent` (Heartbeat);
- `NeverOverBudget`, `ImplementsBudget` (Limiter).

Three more are stated and proved (section 5) and not run, since a run would only repeat
another: `VisibleGrowsOnly` (Publish), which `ImplementsLog` contains;
`RefusedOnlyWhenSpent` (Limiter), one half of `ImplementsBudget`; `ReferencesAreServed`
(in `FanoutProofs`), which joins `DispatchIsComplete` and `ViewsAgree`.

Each is stated, with the code it is about, in the comment in front of it. The false
ones, which a document or comment of the repository says and the code does not keep,
are in section 6.

## 3. The runs

| run | instance | states | shows |
|---|---|---|---|
| `MCWriter` | 2 senders, 2 closers, 3 events, queue of 1 | 99 000 | a quiet release, exactly once; the writer implements `FrameQueue`; shutdowns finish and accepted events leave if writes return; `Enqueue` returns in any case |
| `MCSessionOne` | 1 connection, 3 events, 2 publications at a time, refusals | 622 000 | nothing is held back for ever |
| `MCSessionReconnect` | 2 connections, 2 events, one publication at a time, refusals | 2 000 000 | nothing is lost, and live events wait for the replay, until a takeover, also beside a second replay; tracker and buffer survive a takeover in the middle; besides the replays nothing goes out twice |
| `MCPublishSafety` | 4 valid requests, 1 bad, capacity 3, a status reader | 190 000 | store and broker implement `EventLog`; acknowledged events are replayable; a status report is coherent; the cursor stands at a delivered event |
| `MCFanoutSafety` | 2 sessions, 1 handler, 2 dispatchers, a topic and its parent, 2 operations | 1 100 000 | the membership views agree, the tree stays connected, snapshots are current and dispatches complete |
| `MCHeartbeat` | 2 session objects, 2 connections, 4 intervals, suspected after 1, evicted after 2 | 1 410 000 | the registry stays coherent, evictions end and shut writers down, live sessions have a reader, only who was silent is evicted; no deadlock |
| `MCLimiter` | 4 policies, 3 fractions to a token, 6 units of time | 2 300 | the bucket implements `Budget` |
| `MCSessionResume`, `MCSessionOrder`, `MCFanoutDelete`, `MCHeartbeatSilent`, `MCHeartbeatCrash` | small | | a counterexample each, see section 6 |

`MCHeartbeat` and `MCLimiter` check for deadlock. (`Heartbeat` has an action `Over`
for the end of the model: time is up and all readers are done, or the process is
gone. Every other standstill would be a goroutine that waits for ever. `Limiter` can
always be asked again.) The other cfgs say `CHECK_DEADLOCK FALSE`: their bounded
systems stop when all events, requests or operations are used up, and a crashed
process stops.

**Bounds and why they suffice.** *Writer*: with a queue of one, two senders fill it and
one has to wait with the timer, while a third event is with the writer goroutine; two
closers compete for the claim. The proofs cover all other sizes. *Publish*: four valid
requests against a capacity of three exercise the full ring with the refused request's
wasted sequence; any commit order of three is reached. *Topics* and *Fanout* share a
run: a topic and its parent are the relation along which `Delete` removes nodes, and
deleting the parent while the topic is joined is reached with two operations, as is a
binding made and undone. `MaxOps` bounds the operations, not their interleaving.
Siblings, more topics, and several handlers at once are covered by `TopicsProofs`, whose
theorems hold for any of them. Two dispatchers share the cache; one handler with two
operations and sessions going away suffices for a stale entry to be made if it could be.
A batch is one event, as in the program: `Broker.Publish` sends one. Longer ones, which
`Dispatch` accepts, are covered by `FanoutProofs`; the proofs also cover any number.
*Session*: `MaxSeq` bounds the publications, `Publishers` how many are under way. Three
sequences suffice for one to be replayed, one to be buffered and one to be live; two
connections suffice for a replay to outlive its connection. With refusals and closing in
the same instance each path of `Deliver`, of the replay and of the flush is taken in
both its outcomes. `NothingLost` and `LiveWaitsForReplay` hold until a takeover, but a
second connection that `BindFinds` the session is no takeover, so two connections are
their smallest whole case; two events are enough for one to be in the flush of the first
replay while the other is held back by the second. Publications come one at a time
there, as `s.mu` has their deliveries do, and two at a time in `MCSessionOne`; with two
the two-connection instance was checked once (5.5 million states). The proofs cover any number.
*Heartbeat*: two session objects let an id be bound again while goroutines still hold
the old object; two connections suffice to race for a new id, to take a session over
while it is removed, and to have an old reader beside a new one; with the thresholds 1
and 2, four intervals are enough for a late sweep to suspect and then evict. Three
objects and three connections are too many for a regular run; the proofs cover every
number. *Limiter*: rates below and above a token per unit of time, a burst of one and
more, both ways for a policy to be rejected, and time to fill the bucket twice.

Symmetry is used on callers, requests, sessions, dispatchers,
connections and session objects, which the modules only compare for equality, and only in runs without
liveness properties.

## 4. Fairness

- `Writer.FairSpec`: each goroutine that can run is eventually run (weak fairness
  per sender, closer and the writer goroutine), and a started timer eventually
  fires. A write to the transport is not among the fair steps: no deadline is set,
  so a peer that stops reading stops it for ever. `TransportReturns` states that
  writes return, and is a premise inside `ShutdownReleases` and `AcceptedReachWire`
  only. `EnqueueReturns` has no such premise: the timer alone gives it.
- `Session.FairSpec`: the replay goroutines run, and a `Deliver` that holds `s.mu`
  goes on to record and release it (its `Enqueue` returns, which is
  `EnqueueReturns`). Nobody is obliged to publish, confirm, reconnect or close.

The safety properties of the other modules need no fairness. Weak fairness per
goroutine suffices in both specifications: no property needs a goroutine to win
a lock that others keep taking and releasing for ever, as publications are bounded.

## 5. The proofs

TLAPS checks, from these assumptions on the constants and no others, for any finite
or infinite sets and any sizes:
`QueueSizeAssumption` (`NewWriter` raises a size below 1 to 1), `NoEventAssumption`
(the zero event is not one of the events), `CapacityAssumption` (the ring has a
positive capacity), `DeletableAssumption` (deleted topics are topics),
`BatchSizeAssumption` (a batch is not empty), and, for `Session`,
`MaxSeqAssumption`, `PublishersAssumption`, `RefusalsAssumption` (the types of its
bounds and of its switch) and `NoConnAssumption` (no connection is called "none");
for `Topics`, `MaxOpsAssumption` and `TopicAssumption` (a topic is a non-empty
sequence of segments); for `Heartbeat`, `NoneAssumption` and `SweeperAssumption`
(names are distinct), `ThresholdAssumption` (suspicion takes at least an interval
and comes before eviction, as `Load` in `config.go` has it) and `MaxTimeAssumption`; for
`Limiter`, `PolicyAssumption` (the default policy is valid, any other may be anything),
`UnitAssumption` and `ClockAssumption`.

**WriterProofs.** `TypeCorrect`, `ReleaseQuietAlways`, `ReleasedOnceAlways`,
`Refinement`. The invariant `WriterInv` adds to the properties: the wait group's
counter is 1 exactly while the writer goroutine writes (`InflightIsWrite`); a closer
past a step has the effect of that step behind it (`ReleaseProgress`); past
`inflight.Wait` nothing is being written (`QuietAfterWait`), which is inductive only
because a frame is counted in under the lock that guards `closed`; and the queue,
preceded by the event in the writer goroutine's hands, is what was accepted and has
not been written (`QueueIsSuffix`). The last is what makes each step of the writer a
step of `FrameQueue` or a stutter.

**PublishProofs.** `TypeCorrect`, `StoreDenseAlways`, `AcknowledgedAlways`,
`SinceCompleteAlways`, `ProgressAlways`, `ReportAlways`, `VisibleGrowsAlways`,
`CursorDeliveredAlways`, `ReportNextAlways`, `ReportCountsAlways`, `LogRefinement`.
`PublishInv` adds: a request past Append owns the entry at its sequence (`OwnEntry`); the
cursors are at least the sequences of those who have passed them (`CursorsReached`);
`progress <= store.committed`, which holds since the store is committed first; and what
the unfinished report has read is still a lower bound (`ReportSoFar`). The lemmas
`AppendFields`, `CommitFields`, `GetDense`, `PendingDense` and `CollectDense` say what the
store's operators do on a dense store; the last gives `SinceCompleteAlways`, and shows
that a replay's k-th event is the one with the k-th sequence. Reports strengthen the
invariant once more: `NextSoFar` follows the report's next sequence through its reads,
and for the count of publications each retained entry belongs to the request that
appended it (`EntryOwned`), so the answered requests have as many distinct positions, all
within the cursor (`PublishedCounts`, `AnsweredCommitted`). Together these make
`CountInv`, from which the refinement follows: retained entries never change
(`RingGrows`), so the log's old part stays (`VisibleIs`, `VisibleWillBe`); an entry has
one owner, so no event is in it twice; and a request returns only after its own
sequence is committed (`LogStep`).

**FanoutProofs.** `TypeCorrect`, `SnapshotCurrentAlways`, `DispatchCompleteAlways`,
`ImplementsTopics`, `ReferencesServedAlways`.
The argument that the cache is safe although version, cache and membership are read
under different locks: on a topic that is never deleted versions only grow
(`VersionsOnlyGrow`, `DeletesAreDeletable`); a cached entry with the current version
differs from the membership only on sessions whose handler has changed the
membership and not yet bumped the version (`CacheCoherent`); a settled session has
no such handler (`SettledIsQuiet`), so a hit is current for it (`HitIsCurrent`).
`LoopsCount` relates the two nested loops to what has been taken and missed.
Dispatchers only read the registry, so `Fanout` implements `Topics` (`ImplementsTopics`),
and what `TopicsProofs` shows of the registry alone holds beside any number of
dispatchers. With it `ReferencesServedAlways` joins the two components: when a dispatch
succeeds, whoever held a reference on the topic throughout has taken the whole batch.

**SessionProofs.** For any number of connections: `TypeCorrect`, `PendingAlways`,
`FlusherAlways`, `LiveOnceAlways`, `LiveWaitsAlways`, `NothingLostAlways`. That the
tracker holds only what the present writer accepted needs that the event whose `Deliver`
holds `s.mu` between the two is in the writer's output (`RecordingWasSent`), and that no
reconnect gets in between, which the lock provides.

`LiveOnce` is not inductive: it needs to know where an event may be. `OnceInv` adds that
what no `Deliver` has taken up is neither held nor sent (`UntakenIsNowhere`, with
`RecordingIsDelivered` for the one that is between `Enqueue` and `Record`), that an event
is in at most one place of the buffer and of all the flushes under way (`HeldOnce`), and
that what is held has not left (`HeldIsUnsent`). Then only three steps move an event, and
each takes it out of the place before: into the buffer, from the buffer to a flush, or to
the wire.

`LiveWaitsForReplay` and `NothingLost` hold until a takeover; section 6 says how one
breaks the first. `UnreplacedInv` has what they need: the connection the session was bound
for is past its lookup (`FirstHasJoined`), so a step that leaves the session unreplaced is
not a reconnect (`NoTakeover`). Then any number of replays may run, one after the other in
the window, because `BeginReplay` refuses a second: the window is open exactly while some
replay has begun and not ended (`WindowIsOpen`), it is one replay's (`OneWindow`), and
every flush writes to the one writer there is (`TargetIsCurrent`). While a window stays
open no other replay can end, so nothing is added to a flush (`FlushOnlyShrinks`), and
with live events held back only a flush sends one (`GoesOutByAccept`). An event that was
buffered stays in the buffer, in a flush, or in the output of that writer
(`LostPreserved`).

**TopicsProofs.** `TopicsTypeCorrect`, `ViewsAlwaysAgree`, `TreeStaysConnected`. The
three views change in one critical section, so `ViewsAgree` is inductive with the
types. `TreeConnected` needs to know that the tree's nodes are paths (`TreePaths`),
and its hard step is `Delete`: a node that stays below an ancestor keeps it
(`Stays`), because a prefix of a prefix is a prefix.

**LifecycleProofs, HeartbeatProofs.** `RegistryStaysCoherent`,
`ClosedSessionsAreReleased`, `ClosingGoesOn`, `LiveIsServed`, `NothingElseLeaks`,
`TypeCorrect`, `EvictedWereSilentAlways`. `LifecycleInv` adds to the properties: a
goroutine about to run `FinishClose` works on a session the registry no longer has
(`NotRebound`), which keeps closed sessions out of it; the connection of a session
belongs to the goroutine that serves it, and its writer is shut once that goroutine is past
its `ReleaseWriter` (`Attached`), from which `NothingElseLeaks` follows; an eviction
by a reader returns to reading (`EvictReturns`), so it does not replace the removal
at its end. There is one lemma per action of `Lifecycle`, used for readers and sweep
alike. `HeartbeatInv` adds the sweep's own bookkeeping (`SweepOK`) and that `lastSeen`,
whoever wrote it last, is never older than the last heartbeat and no tick ahead of the
clock (`HeardOK`), from which `EvictedWereSilent` follows.

**LimiterProofs.** `TypeCorrect`, `BudgetKept`, `RefusalsHaveCause`,
`BudgetRefinement`. What is left in the bucket fits the budget of every stretch of time
that ends with its last use (`TokensWithin`) and exhausts the budget of one of them
(`TokensFill`); between two uses nothing is spent (`HistoryOK`), so a refill at the next
use is as good as a continuous one. The two invariants this gives, taken after a step, say
that `Budget` had room when the bucket let the event pass and none when it refused
(`AccountStep`).

**Only model-checked.** Liveness, which is out of TLAPS's reach, as is ENABLED:
`ShutdownReleases`, `AcceptedReachWire`, `EnqueueReturns` and `BufferIsEmptied`. Every
other property of a passing run is a theorem.

## 6. Known divergences

Shown by a run, each with a short counterexample:

1. *The resume position is skipped* (`MCSessionResume`): `Replay` hands
   `ResumeFrom` = acked + 1 to `Since`, which returns what is greater
   (`resume.go:30`, `event.go:68`), so the first unconfirmed event is never
   replayed.
2. *Live events overtake the buffer* (`MCSessionOrder`): `EndReplay` unlocks before
   it flushes (`session.go:236-239`).
3. *A deleted topic's cached snapshot comes back* (`MCFanoutDelete`):
   `DeleteTopic` removes the version, which starts over (`subscription.go:54-55`).
4. *An eviction can end the process* (`MCHeartbeatCrash`): `FinishClose` closes
   `closedCh` unconditionally (`session.go:148`). A close frame evicts the session and
   releases its transport; the next read fails, the connection is still the
   session's, and the deferred `Remove` (`server.go:171-172`) closes the channel a
   second time.
5. *A silent client stays active* (`MCHeartbeatSilent`): the sweep renews what it finds
   young (`heartbeat.go:64`), so the age it sees at the next tick is one interval whether
   the client sent a heartbeat or not, where `BENZHI_README.md:14` has timed-out
   connections suspected and then evicted, and `session.go:129-130` has a connection
   suspected after a missed heartbeat. Without the renewal the property holds on the
   same instance. Silent clients go by the read deadline only (`server.go:176`).

Met while modelling, present in the models, without a run of their own:

- A reconnect misses an event that is being committed: it is accepted by the old
  connection's writer, or held in the buffer that `Reconnect` drops; the new
  connection's replay fetches (`resume.go:30`); then it is committed. It is neither
  replayed nor delivered live, where `BENZHI_README.md:13` merges both.
- A failed publish is a candidate for a retry (`event.go:81-82`) only until a later
  sequence is committed (`publish.go:45-49`). `CursorIsDelivered` is what does hold.
- `Reconnect` clears the acked position (`session.go:107`), where
  `BENZHI_README.md:13` resumes from it.
- The acked position is a maximum, not a contiguous prefix (`ack.go:53`).
- A confirmation between `Enqueue` and `Record` is forgotten and leaves its sequence
  pending (`session.go:177-178`).
- The replay and the flush do not ask `Covered`, so a confirmed event can be sent
  again (`session.go:226`, `:238`). `LiveOnce` is what does hold.
- After a second reconnect during a replay two replays overlap, and the window of
  the one can be closed by the other, so live events pass before replayed ones
  (`session.go:111`). `LiveWaitsForReplay` therefore is stated until a takeover.
- When `Bind` gives a second connection the session of the first (`server.go:151-165`,
  `registry.go:37-38`), its handler starts a second replay with no takeover. Once the first
  has closed its window the second can open its own while the first still flushes, so
  these live events go out inside it. `LiveWaitsForReplay` says that no others do.
- The flush ignores the errors of `Enqueue` (`session.go:238`); `NothingLost`
  excepts what `dropped` records.
- An `Enqueue` that has tested `closed` can meet the close of the channel and end the
  process (`writer.go:56`, `:84`); the properties of `Writer` say what holds until then.
- A `Shutdown` beside a write that never returns never ends (`writer.go:83`), and
  with it the heartbeat sweep.
- The cursor passes events that are still being dispatched (`publish.go:49`).
- `Leave` without `Join` makes counts of the tree negative (`tree.go:64`); nothing
  outside the tree reads them.
- The tree and a session's own topic list part from the registry when operations on
  one topic interleave (`subscription.go:32-35`, `session.go:250-264`).
- An evicted session's bindings are never removed (`registry.go:49-59` of the
  session package), so every later publication to its topics fails.
- A topic's entry is never removed, so the list of topics only grows (`refcount.go:40`).
- An eviction between whose `BeginClose` and `Shutdown` a client reconnects shuts the
  new connection down (`server.go:149`, `evictor.go:31`), although "an evicted
  connection can never be revived" (`registry.go:96-98`).
- A session found by `Get` can be removed before `Reconnect` (`server.go:148-150`): it
  is live and no longer registered, so neither publishers nor the sweep nor a later
  connection find it. Its reader closes it in the end (`LiveHasReader`).
- Two first connections of an id: the second is attached to nothing and never
  released, and two readers read the first (`registry.go:37`, `server.go:169`).
- The writer a `Reconnect` replaces is never released (`session.go:106`), and frames
  from the old connection go on acting on the session.
- A late `Remove` deletes `lastSeen` and the incarnation of the newer session with the
  same id (`registry.go:55-56`); the sweep then skips it until a touch.
- A suspected session never becomes active again by a heartbeat, only by a reconnect
  (`session.go:131-137`, `registry.go:99-111`). After a late sweep a session can be
  evicted without having been suspected, and a heartbeat between `LastSeen` and `Evict`
  does not stop the eviction (`heartbeat.go:54-60`).
- `Reconnect` renews neither `lastSeen` nor the incarnation, so the next sweep may evict
  a session that was just revived, and fills the token bucket again
  (`session.go:102-114`).

## 7. What is not modelled

The HTTP and WebSocket handshakes, JSON and the frames' text, and random session
tokens, which are conversions no property is about; metrics that nothing reads;
the incarnation and `Credits`, which only the status page shows; start-up,
configuration, the probe and the console page; the vendored WebSocket library,
except for its sticky write error. `Deliver`'s rebinding of a foreign tracker is left
out because `Reconnect` sets tracker and epoch in one critical section and it can
never run. Cancelling the heartbeat's context is left out: nothing follows it.

Simplifications a reader should know of: a publisher that `Deliver` refuses ends as
"failed" at once, where the code first tries the other sessions (module `Fanout` has
that loop); sessions in `Fanout` may fail for any reason at any time; `Session` has one
closing goroutine (`Lifecycle` has them all, without the events). `DeliverAccepted`
tests the tracker and enqueues in one step although a confirmation can come between;
`Taken` looks the session up and delivers in one step although it can be removed
between, and would still take the event. Both only leave out orders that end in a state
other orders reach too: an event sent that is confirmed, a delivery that came just
before the removal. Local variables are reset when a replay or a
dispatch returns. `Writer` lets each event be enqueued at most once. A send on a closed
queue ends the process in `Writer`; in `Session` it counts as a refusal. Topics are
identified with their paths: the code keeps "a//b" and "a/b" apart in its registry and
together in its tree, and an empty path has no node, which no run has.

## 8. The plan

Order, most important behaviour first; all but the last are done.

1. `FrameQueue`, `Writer`, refinement and proofs.
2. `EventStore`, `Publish`, `EventLog`, refinement and proofs.
3. `TopicTree`, `Topics`, `TopicsProofs`.
4. `Fanout` (over `Topics`), proofs, and that it implements `Topics`.
5. `Session`, `SessionProofs`, for any number of connections.
6. `Lifecycle`, `Heartbeat` (over `Lifecycle`) and proofs.
7. `Limiter`, `Budget`, refinement and proofs.
8. `Gateway`: publish, fanout and one session composed, with the end-to-end promise
   that an acknowledged publication reached every settled subscriber's writer or
   buffer. Today the promise is the conjunction of `AcknowledgedIsReplayable`,
   `DispatchIsComplete` and `NothingLost`, each proved of its part; liveness of an
   eviction (that `ClosingHasCloser` ends in a closed session) would join it, on an
   instance smaller than `MCHeartbeat`, whose state graph is too large for it.
