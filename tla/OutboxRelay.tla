----------------------------- MODULE OutboxRelay -----------------------------
(***************************************************************************)
(* The transactional outbox: OutboxDispatcher in each API process claims   *)
(* rows of outbox_events, publishes them and marks the outcome; rows of    *)
(* crashed dispatchers are recovered from PROCESSING.                      *)
(*                                                                         *)
(* isDispatching is released after the claim, so that several dispatch     *)
(* runs of one process overlap while they publish.  The claim transaction  *)
(* is one step: its row locks and SKIP LOCKED keep other claims out.  Time *)
(* is abstract: a backoff ends, and a row becomes stale, at any time.      *)
(***************************************************************************)
EXTENDS Naturals, FiniteSets

CONSTANTS
    Events,         \* rows of outbox_events
    Processes,      \* API server processes
    Overlap,        \* dispatch runs of one process that may overlap
    BatchSize,      \* LIMIT of the claim
    MaxRetries,     \* max_retries of a row
    MaxFaults,      \* bound on crashes, database errors and slow dispatchers
    PoolTimeouts    \* whether pool.connect() may time out

ASSUME RelayAssumption ==
    /\ Overlap \in Nat \ {0} /\ BatchSize \in Nat \ {0}
    /\ MaxRetries \in Nat \ {0} /\ MaxFaults \in Nat
    /\ PoolTimeouts \in BOOLEAN /\ IsFiniteSet(Events)

VARIABLES
    events,         \* outbox_events: status, retry_count, next_retry_at IS NOT NULL
    isDispatching,  \* OutboxDispatcher.isDispatching of each process
    run,            \* the dispatch runs: where they are and what they have claimed
    delivered,      \* events that reached the broker at least once
    failures,       \* history: failed publications and stale recoveries per event
    recovered,      \* history: events recovered while a live run was working on them
    faults

vars == <<events, isDispatching, run, delivered, failures, recovered, faults>>

Runs == Processes \X (1 .. Overlap)
Status == {"NONE", "PENDING", "PROCESSING", "PUBLISHED", "FAILED"}
EventRow == [status : Status, retries : Nat, due : BOOLEAN]
Claim == [event : Events, retries : Nat]    \* the row as it was when claimed
Stage == {"idle", "connecting", "publishing", "confirmed", "rejected"}
\* todo: claimed and not yet published; now: the claim being published.
Run == [stage : Stage, todo : SUBSET Claim, now : SUBSET Claim]
Idle == [stage |-> "idle", todo |-> {}, now |-> {}]

TypeOK ==
    /\ events \in [Events -> EventRow]
    /\ isDispatching \in [Processes -> BOOLEAN]
    /\ run \in [Runs -> Run]
    /\ delivered \subseteq Events
    /\ failures \in [Events -> Nat]
    /\ recovered \subseteq Events
    /\ faults \in Nat

Init ==
    /\ events = [e \in Events |-> [status |-> "NONE", retries |-> 0, due |-> FALSE]]
    /\ isDispatching = [p \in Processes |-> FALSE]
    /\ run = [r \in Runs |-> Idle]
    /\ delivered = {}
    /\ failures = [e \in Events |-> 0]
    /\ recovered = {}
    /\ faults = 0

Fault == faults < MaxFaults /\ faults' = faults + 1
StatusOf(e) == events[e].status
Held(r) == run[r].todo \cup run[r].now
Holds(r, e) == \E c \in Held(r) : c.event = e

(***************************************************************************)
(* insertOutboxEvent, in the transaction of the business change.           *)
(***************************************************************************)
InsertOutboxEvent(e) ==
    /\ StatusOf(e) = "NONE"
    /\ events' = [events EXCEPT ![e] = [status |-> "PENDING", retries |-> 0, due |-> TRUE]]
    /\ UNCHANGED <<isDispatching, run, delivered, failures, recovered, faults>>

(***************************************************************************)
(* dispatchPendingEvents: triggered by the poller or after a submission.   *)
(***************************************************************************)
BeginDispatch(r) ==
    /\ run[r].stage = "idle" /\ ~isDispatching[r[1]]
    /\ isDispatching' = [isDispatching EXCEPT ![r[1]] = TRUE]
    /\ run' = [run EXCEPT ![r] = [Idle EXCEPT !.stage = "connecting"]]
    /\ UNCHANGED <<events, delivered, failures, recovered, faults>>

\* pool.connect() rejects before the try: nothing resets isDispatching.
ConnectTimesOut(r) ==
    /\ PoolTimeouts
    /\ run[r].stage = "connecting"
    /\ run' = [run EXCEPT ![r] = Idle]
    /\ Fault
    /\ UNCHANGED <<events, isDispatching, delivered, failures, recovered>>

\* Mutant: rows another dispatcher is working on are claimed as well.
Claimable_Processing ==
    {e \in Events : /\ StatusOf(e) \in {"PENDING", "PROCESSING"} \/ (StatusOf(e) = "FAILED" /\ events[e].due)
                    /\ events[e].retries < MaxRetries}

Claimable ==
    {e \in Events : /\ StatusOf(e) = "PENDING" \/ (StatusOf(e) = "FAILED" /\ events[e].due)
                    /\ events[e].retries < MaxRetries}

ClaimPendingEvents(r) ==
    /\ run[r].stage = "connecting"
    /\ \E batch \in SUBSET Claimable :
         /\ batch # {}
         /\ Cardinality(batch) <= BatchSize
         /\ batch # Claimable => Cardinality(batch) = BatchSize
         /\ events' = [e \in Events |-> IF e \in batch
                                        THEN [events[e] EXCEPT !.status = "PROCESSING"]
                                        ELSE events[e]]
         /\ run' = [run EXCEPT ![r] =
              [stage |-> "publishing", now |-> {},
               todo |-> {[event |-> e, retries |-> events[e].retries] : e \in batch}]]
    /\ isDispatching' = [isDispatching EXCEPT ![r[1]] = FALSE]
    /\ UNCHANGED <<delivered, failures, recovered, faults>>

\* Mutant: the early return of an empty claim skips the reset in finally.
ClaimNothing_KeepsFlag(r) ==
    /\ run[r].stage = "connecting" /\ Claimable = {}
    /\ run' = [run EXCEPT ![r] = Idle]
    /\ UNCHANGED <<events, isDispatching, delivered, failures, recovered, faults>>

\* Nothing to claim, or the claim transaction rolls back on an error.
ClaimNothing(r) ==
    /\ run[r].stage = "connecting"
    /\ \/ Claimable = {} /\ UNCHANGED faults
       \/ Fault
    /\ run' = [run EXCEPT ![r] = Idle]
    /\ isDispatching' = [isDispatching EXCEPT ![r[1]] = FALSE]
    /\ UNCHANGED <<events, delivered, failures, recovered>>

\* Mutant: a publication that was returned or nacked counts as published.
PublishResult_Ignored(reached) == {"confirmed"}

\* publishConfirmed resolves only on a broker confirm; it also rejects, by
\* timeout or a closed channel, publications that did reach the broker.
PublishResult(reached) == IF reached THEN {"confirmed", "rejected"} ELSE {"rejected"}

Publish(r) ==
    /\ run[r].stage = "publishing"
    /\ \E c \in run[r].todo, reached \in BOOLEAN, stage \in {"confirmed", "rejected"} :
         /\ stage \in PublishResult(reached)
         /\ run' = [run EXCEPT ![r] =
              [stage |-> stage, todo |-> run[r].todo \ {c}, now |-> {c}]]
         /\ delivered' = IF reached THEN delivered \cup {c.event} ELSE delivered
    /\ UNCHANGED <<events, isDispatching, failures, recovered, faults>>

\* The run goes on to its next claim or returns.
Continue(r) ==
    run' = [run EXCEPT ![r] =
        IF run[r].todo = {} THEN Idle ELSE [@ EXCEPT !.stage = "publishing", !.now = {}]]

\* markEventPublished: WHERE event_id = $1, whatever the row has become.
MarkEventPublished(r) ==
    /\ run[r].stage = "confirmed"
    /\ \E c \in run[r].now :
         events' = [events EXCEPT ![c.event].status = "PUBLISHED"]
    /\ Continue(r)
    /\ UNCHANGED <<isDispatching, delivered, failures, recovered, faults>>

\* The update fails inside the same try: the publication counts as failed.
MarkEventPublishedFails(r) ==
    /\ run[r].stage = "confirmed"
    /\ run' = [run EXCEPT ![r].stage = "rejected"]
    /\ Fault
    /\ UNCHANGED <<events, isDispatching, delivered, failures, recovered>>

\* Mutant: the count is incremented in the row, beyond what the run has seen.
RetriesAfter_Double(c) == c.retries + 2

\* The retry count is computed from the row as it was when claimed.
RetriesAfter(c) == c.retries + 1

\* A failed row: it is due again unless the budget is used up.
FailedRow(retries) == [status |-> "FAILED", retries |-> retries, due |-> retries < MaxRetries]

MarkEventFailed(r) ==
    /\ run[r].stage = "rejected"
    /\ \E c \in run[r].now :
         /\ events' = [events EXCEPT ![c.event] = FailedRow(RetriesAfter(c))]
         /\ failures' = [failures EXCEPT ![c.event] = @ + 1]
    /\ Continue(r)
    /\ UNCHANGED <<isDispatching, delivered, recovered, faults>>

\* The update fails in the catch block: the exception ends the whole run.
MarkEventFailedFails(r) ==
    /\ run[r].stage = "rejected"
    /\ run' = [run EXCEPT ![r] = Idle]
    /\ Fault
    /\ UNCHANGED <<events, isDispatching, delivered, failures, recovered>>

(***************************************************************************)
(* recoverStaleProcessing, and processes that crash and restart.           *)
(***************************************************************************)
\* No run holds the row any more; or a run that is slow does (a fault).
RecoverStaleProcessing(e) ==
    /\ StatusOf(e) = "PROCESSING"
    /\ events' = [events EXCEPT ![e] = FailedRow(events[e].retries + 1)]
    /\ failures' = [failures EXCEPT ![e] = @ + 1]
    /\ IF \E r \in Runs : Holds(r, e)
       THEN Fault /\ recovered' = recovered \cup {e}
       ELSE UNCHANGED <<faults, recovered>>
    /\ UNCHANGED <<isDispatching, run, delivered>>

Crash(p) ==
    /\ Fault
    /\ isDispatching' = [isDispatching EXCEPT ![p] = FALSE]
    /\ run' = [r \in Runs |-> IF r[1] = p THEN Idle ELSE run[r]]
    /\ UNCHANGED <<events, delivered, failures, recovered>>

Work(r) ==
    \/ ClaimPendingEvents(r) \/ ClaimNothing(r)
    \/ Publish(r)
    \/ MarkEventPublished(r) \/ MarkEventFailed(r)

Next ==
    \/ \E e \in Events : InsertOutboxEvent(e) \/ RecoverStaleProcessing(e)
    \/ \E r \in Runs :
         \/ BeginDispatch(r) \/ Work(r)
         \/ ConnectTimesOut(r) \/ MarkEventPublishedFails(r) \/ MarkEventFailedFails(r)
    \/ \E p \in Processes : Crash(p)

Spec == Init /\ [][Next]_vars

\* The poller ticks every 5 s and the stale recovery every 60 s in a live
\* process, and a started run is driven by the event loop.
Fairness ==
    /\ \A r \in Runs : WF_vars(BeginDispatch(r)) /\ WF_vars(Work(r))
    /\ \A e \in Events : WF_vars(RecoverStaleProcessing(e))

FairSpec == Spec /\ Fairness

(***************************************************************************)
(* Properties.                                                             *)
(***************************************************************************)
\* RB-04: "marks events PUBLISHED only after RabbitMQ confirms"; the marks are
\* unguarded and may come from a run whose row was recovered and re-claimed.
PublishedWasDelivered == \A e \in Events : StatusOf(e) = "PUBLISHED" => e \in delivered

\* docs/SUBMISSIONS: SKIP LOCKED prevents "multiple worker instances from claiming
\* the same event": two live runs share an event only after it was recovered
\* from under a dispatcher slower than the stale limit.
ExclusiveClaims ==
    \A r, s \in Runs, e \in Events \ recovered : r # s => ~(Holds(r, e) /\ Holds(s, e))

\* The retry budget of an event is spent by failures only: overlapping runs,
\* late marks and recoveries never make an event give up before MaxRetries
\* publications of it failed or were interrupted.
BudgetIsEarned == \A e \in Events : events[e].retries <= failures[e]

\* The relay delivers at least once, whatever crashes.
AtLeastOnceRelay == INSTANCE AtLeastOnce WITH
    stored <- {e \in Events : StatusOf(e) # "NONE"},
    acknowledged <- {e \in Events : StatusOf(e) = "PUBLISHED"}
ImplementsAtLeastOnce == AtLeastOnceRelay!Spec

GivenUp(e) == StatusOf(e) = "FAILED" /\ ~events[e].due

\* Every process had a pool timeout, which left its isDispatching set.
AllStuck ==
    /\ faults >= Cardinality(Processes)
    /\ \A p \in Processes :
          isDispatching[p] /\ \A i \in 1 .. Overlap : run[<<p, i>>].stage # "connecting"

\* Every stored event is eventually published or permanently failed, whatever
\* dispatchers crash or lose the database between two steps, unless a pool
\* timeout has left no process that dispatches (dispatchPendingEvents).
EveryEventSettles ==
    \A e \in Events :
        StatusOf(e) = "PENDING" ~> (StatusOf(e) = "PUBLISHED" \/ GivenUp(e) \/ AllStuck)
==============================================================================
