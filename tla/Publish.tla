------------------------------- MODULE Publish --------------------------------
(***************************************************************************)
(* internal/publish over internal/event: each HTTP request is a goroutine  *)
(* that validates, appends, dispatches, commits and advances the broker's  *)
(* progress, one lock at a time, and the status endpoint reads the same    *)
(* counters one lock at a time.  Requests interleave between any two of    *)
(* those steps.  What the fanout does is modelled in module Fanout; here   *)
(* Dispatch takes a while and then succeeds or fails.                      *)
(***************************************************************************)
EXTENDS EventStore

CONSTANTS Requests,    \* POST /api/publish requests; a request is its event
          BadRequests  \* those Config.Validate rejects

VARIABLES store,     \* event.Store
          progress,  \* event.Cursor of the broker
          published, \* metric.Metrics.published
          failed,    \* metric.Metrics.failed, as far as the broker counts
          pc,        \* program counter of each request
          seq,       \* the sequence Append gave each request, 0 before that
          reader,    \* program counter of the status request
          report     \* what the status request has read so far

requestVars == <<pc, seq>>
metricVars  == <<published, failed>>
statusVars  == <<reader, report>>
vars == <<store, progress, metricVars, requestVars, statusVars>>

EmptyReport ==
  [published |-> 0, next |-> 0, pending |-> 0, committed |-> 0, retained |-> 0, atStart |-> 0]

Init ==
  /\ store = NewStore
  /\ progress = 0
  /\ published = 0
  /\ failed = 0
  /\ pc = [r \in Requests |-> "new"]
  /\ seq = [r \in Requests |-> 0]
  /\ reader = "idle"
  /\ report = EmptyReport

Goto(r, l) == pc' = [pc EXCEPT ![r] = l]

-------------------------------------------------------------------------------
(* Ingress.Handle and Broker.Publish *)

Reject(r) ==
  /\ pc[r] = "new"
  /\ r \in BadRequests
  /\ Goto(r, "rejected")
  /\ UNCHANGED <<store, progress, metricVars, seq, statusVars>>

\* ErrRingFull ends the request without touching the metrics.
AppendStep(r) ==
  /\ pc[r] = "new"
  /\ r \notin BadRequests
  /\ store' = AppendEvent(store, r)
  /\ IF Full(store)
       THEN Goto(r, "refused") /\ UNCHANGED seq
       ELSE Goto(r, "dispatch") /\ seq' = [seq EXCEPT ![r] = store'.seq]
  /\ UNCHANGED <<progress, metricVars, statusVars>>

\* Variant: the published counter is moved before the commit.
DispatchCounts(r) ==
  /\ pc[r] = "dispatch"
  /\ published' = published + 1
  /\ Goto(r, "commit")
  /\ UNCHANGED <<store, progress, failed, seq, statusVars>>

DispatchOK(r) ==
  /\ pc[r] = "dispatch"
  /\ Goto(r, "commit")
  /\ UNCHANGED <<store, progress, metricVars, seq, statusVars>>

\* Variant: a request whose dispatch failed appends its event once more.
DispatchFailsRetrying(r) ==
  /\ pc[r] = "dispatch"
  /\ failed' = failed + 1
  /\ Goto(r, "new")
  /\ UNCHANGED <<store, progress, published, seq, statusVars>>

DispatchFails(r) ==
  /\ pc[r] = "dispatch"
  /\ failed' = failed + 1
  /\ Goto(r, "failed")
  /\ UNCHANGED <<store, progress, published, seq, statusVars>>

\* Variant: the commit is left out when somebody else committed in between.
CommitStepSkipping(r) ==
  /\ pc[r] = "commit"
  /\ store' = IF store.committed = 0 THEN Commit(store, seq[r]) ELSE store
  /\ Goto(r, "advance")
  /\ UNCHANGED <<progress, metricVars, seq, statusVars>>

\* Variant: the last sequence handed out is committed, not the request's own.
CommitStepLast(r) ==
  /\ pc[r] = "commit"
  /\ store' = Commit(store, store.seq)
  /\ Goto(r, "advance")
  /\ UNCHANGED <<progress, metricVars, seq, statusVars>>

\* store.Commit; it could be refused only for a sequence never appended.
CommitStep(r) ==
  /\ pc[r] = "commit"
  /\ store' = Commit(store, seq[r])
  /\ Goto(r, IF CommitRefused(store, seq[r]) THEN "refused" ELSE "advance")
  /\ UNCHANGED <<progress, metricVars, seq, statusVars>>

\* Variant: the progress cursor counts publications instead of taking the maximum.
AdvanceCounting(r) ==
  /\ pc[r] = "advance"
  /\ progress' = progress + 1
  /\ Goto(r, "count")
  /\ UNCHANGED <<store, metricVars, seq, statusVars>>

\* Cursor.Advance.
Advance(r) ==
  /\ pc[r] = "advance"
  /\ progress' = IF seq[r] > progress THEN seq[r] ELSE progress
  /\ Goto(r, "count")
  /\ UNCHANGED <<store, metricVars, seq, statusVars>>

\* metrics.Published, and the sequence is returned to the client.
Return(r) ==
  /\ pc[r] = "count"
  /\ published' = published + 1
  /\ Goto(r, "ok")
  /\ UNCHANGED <<store, progress, failed, seq, statusVars>>

-------------------------------------------------------------------------------
(* GET /api/status: the metrics, then BacklogInfo, each read under its own lock *)

ReadStep(from, to, rep) ==
  /\ reader = from
  /\ reader' = to
  /\ report' = rep
  /\ UNCHANGED <<store, progress, metricVars, requestVars>>

ReadMetrics ==
  ReadStep("idle", "next",
           [EmptyReport EXCEPT !.published = published, !.atStart = Len(store.ring)])

ReadNext == ReadStep("next", "first", [report EXCEPT !.next = store.seq + 1])

\* The first pending event, if there is one, is the next to commit.
ReadFirstPending ==
  ReadStep("first", "pending",
           [report EXCEPT !.next = IF Pending(store) = {}
                                     THEN @
                                     ELSE store.ring[FirstOf(Pending(store))].sequence])

ReadPending ==
  ReadStep("pending", "committed", [report EXCEPT !.pending = Cardinality(Pending(store))])

\* Variant: the cursor of the broker is reported for that of the store.
ReadProgress == ReadStep("committed", "retained", [report EXCEPT !.committed = progress])

ReadCommitted == ReadStep("committed", "retained", [report EXCEPT !.committed = store.committed])

ReadRetained == ReadStep("retained", "done", [report EXCEPT !.retained = Len(store.ring)])

\* The response is sent; the next status request starts over.
Respond == ReadStep("done", "idle", EmptyReport)

-------------------------------------------------------------------------------
RequestStep(r) ==
  \/ Reject(r)
  \/ AppendStep(r)
  \/ DispatchOK(r)
  \/ DispatchFails(r)
  \/ CommitStep(r)
  \/ Advance(r)
  \/ Return(r)

StatusStep ==
  \/ ReadMetrics
  \/ ReadNext
  \/ ReadFirstPending
  \/ ReadPending
  \/ ReadCommitted
  \/ ReadRetained
  \/ Respond

Next == (\E r \in Requests : RequestStep(r)) \/ StatusStep

Spec == Init /\ [][Next]_vars

-------------------------------------------------------------------------------
(* Properties *)

Appended(r) == pc[r] \in {"dispatch", "failed", "commit", "advance", "count", "ok"}

Entries == [sequence : Nat, event : Requests]

TypeOK ==
  /\ store \in [ring : Seq(Entries), seq : Nat, committed : Nat]
  /\ Len(store.ring) <= Capacity
  /\ progress \in Nat
  /\ published \in Nat
  /\ failed \in Nat
  /\ pc \in [Requests -> {"new", "rejected", "refused", "dispatch", "failed",
                          "commit", "advance", "count", "ok"}]
  /\ seq \in [Requests -> Nat]
  /\ reader \in {"idle", "next", "first", "pending", "committed", "retained", "done"}
  /\ report \in [published : Nat, next : Nat, pending : Nat, committed : Nat,
                 retained : Nat, atStart : Nat]

\* event.go:36-45, ring.go:25-32: whatever the refusals in between, the retained
\* events carry the sequences 1, 2, ... without a gap, and the cursor stays within
\* them, so a replay that counts sequences up never misses a committed event.
StoreDense ==
  /\ \A i \in 1..Len(store.ring) : store.ring[i].sequence = i
  /\ Len(store.ring) < Capacity => store.seq = Len(store.ring)
  /\ Len(store.ring) <= store.seq
  /\ store.committed <= Len(store.ring)

\* publish.go:39-55: once a client has the sequence of its event, a replay from
\* any earlier position meets that very event under that sequence.
AcknowledgedIsReplayable ==
  \A r \in Requests :
    pc[r] = "ok" =>
      /\ seq[r] <= store.committed
      /\ Get(store, seq[r]) = <<[sequence |-> seq[r], event |-> r]>>

\* event.go:47-48 "The cursor never moves backwards" and nothing committed is ever
\* lost or replaced: what a replay can see only gets longer.
VisibleGrows ==
  /\ store.committed <= store'.committed
  /\ \A n \in 1..store.committed : Get(store', n) = Get(store, n) /\ Get(store, n) # <<>>

VisibleGrowsOnly == [][VisibleGrows]_vars

\* event.go:66-79, ring.go:35-43: whatever was refused, failed or committed out of
\* order before, a replay that asks for what is after a position gets every sequence
\* up to the cursor, in order, and none beyond it.
SinceIsComplete ==
  \A after \in 0..store.committed :
    LET found == Since(store, after)
    IN  [i \in DOMAIN found |-> found[i].sequence] =
          [i \in 1..(store.committed - after) |-> after + i]

\* publish.go:51-52: the progress the status endpoint shows is never ahead of what
\* a replay can deliver, and never behind what a client was told.
ProgressIsCommitted ==
  /\ progress <= store.committed
  /\ \A r \in Requests : pc[r] \in {"count", "ok"} => seq[r] <= progress

\* store.go:15-29: although every number of a status report is read under a lock
\* of its own, no event the store held when the report began is missing from it,
\* and its counts agree with each other.
ReportMissesNothing ==
  reader = "done" =>
    /\ report.atStart <= report.pending + report.committed
    /\ report.committed <= report.retained
    /\ report.pending <= report.retained

\* server.go:109-110: the publications a status report counts were all committed
\* by the cursor it shows.
ReportCountsCommitted == reader = "done" => report.published <= report.committed

\* store.go:18-22: the next sequence of a report never lies beyond the first event
\* that the report leaves uncommitted, unless the full store has burnt sequences.
ReportNextUncommitted ==
  reader = "done" =>
    \/ report.next <= report.committed + 1
    \/ report.next > Capacity + 1

\* publish.go:45-49: the commit cursor only ever stands at an event whose broadcast
\* succeeded.  So a failed or unfinished event is passed over only together with a
\* later event that was delivered, and until then it stays among the pending ones.
CursorIsDelivered ==
  store.committed > 0 =>
    \E r \in Requests : seq[r] = store.committed /\ pc[r] \in {"advance", "count", "ok"}

\* What a replay from the start finds, sequence by sequence (SinceIsComplete).
Visible == [n \in 1..store.committed |-> Get(store, n)[1].event]
Told    == {r \in Requests : pc[r] = "ok"}

Log == INSTANCE EventLog WITH Events <- Requests, visible <- Visible, told <- Told

\* event.go:36-79, publish.go:24-57: over a ring that fills up, sequences that are
\* burnt, dispatches that fail and commits that overtake each other, clients see an
\* append-only log: what a replay from the start returns is only ever extended, no
\* event is in it twice, and a client is told of its event once it is in it.
ImplementsLog == Log!Spec
===============================================================================
