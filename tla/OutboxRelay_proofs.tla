------------------------- MODULE OutboxRelay_proofs -------------------------
(***************************************************************************)
(* Proofs about OutboxRelay for any number of events, processes and        *)
(* overlapping runs, any batch size and any retry budget.                  *)
(***************************************************************************)
EXTENDS OutboxRelay, TLAPS

\* A run marks as published only what reached the broker.
ConfirmedWasDelivered ==
    \A r \in Runs : run[r].stage = "confirmed" => \A c \in run[r].now : c.event \in delivered

\* The retry count a run remembers was earned when it claimed the row.
ClaimsAreEarned ==
    \A r \in Runs : \A c \in Held(r) : c.retries <= failures[c.event]

\* A run claims an event once, and what it publishes is no longer to do.
ClaimsAreDistinct ==
    \A r \in Runs :
        /\ \A c, d \in Held(r) : c.event = d.event => c = d
        /\ run[r].now \cap run[r].todo = {}

\* Unless it was recovered from under its run, a held row is PROCESSING.
HeldIsProcessing ==
    \A r \in Runs, e \in Events \ recovered : Holds(r, e) => StatusOf(e) = "PROCESSING"

IInv ==
    /\ TypeOK
    /\ ConfirmedWasDelivered /\ PublishedWasDelivered
    /\ ClaimsAreEarned /\ BudgetIsEarned
    /\ ClaimsAreDistinct /\ HeldIsProcessing /\ ExclusiveClaims

(***************************************************************************)
(* Types.                                                                  *)
(***************************************************************************)
LEMMA IdleType == Idle \in Run
BY DEF Idle, Run, Stage

LEMMA HeldType ==
    ASSUME TypeOK, NEW r \in Runs, NEW c \in Held(r)
    PROVE  c \in Claim
BY DEF TypeOK, Held, Run

LEMMA FailedRowType ==
    ASSUME NEW n \in Nat
    PROVE  FailedRow(n) \in EventRow
BY RelayAssumption DEF FailedRow, EventRow, Status

\* Continue drops the claim just handled from the run, and keeps the rest.
LEMMA ContinueRun ==
    ASSUME TypeOK, NEW r \in Runs, Continue(r)
    PROVE  /\ run' \in [Runs -> Run]
           /\ \A s \in Runs : run'[s].stage # run[s].stage => run'[s].stage # "confirmed"
           /\ \A s \in Runs : s # r => run'[s] = run[s]
           /\ run'[r].todo = run[r].todo /\ run'[r].now = {} /\ run'[r].stage # "confirmed"
<1>1. run[r] \in Run
  BY DEF TypeOK
<1> DEFINE next == IF run[r].todo = {} THEN Idle
                   ELSE [run[r] EXCEPT !.stage = "publishing", !.now = {}]
<1>2. next \in Run /\ next.todo = run[r].todo /\ next.now = {} /\ next.stage # "confirmed"
  BY <1>1, IdleType DEF Run, Stage, Idle
<1>3. run' = [run EXCEPT ![r] = next]
  BY DEF Continue
<1> HIDE DEF next
<1> QED
  BY <1>2, <1>3 DEF TypeOK

LEMMA TypeInit == Init => TypeOK
BY IdleType DEF Init, TypeOK, EventRow, Status

LEMMA TypeStep == TypeOK /\ [Next]_vars => TypeOK'
<1> SUFFICES ASSUME TypeOK, [Next]_vars PROVE TypeOK'
    OBVIOUS
<1>f. Fault => faults' \in Nat
  BY DEF Fault, TypeOK
<1>1. ASSUME NEW e \in Events, InsertOutboxEvent(e) PROVE TypeOK'
  BY <1>1 DEF InsertOutboxEvent, TypeOK, EventRow, Status
<1>2. ASSUME NEW e \in Events, RecoverStaleProcessing(e) PROVE TypeOK'
  <2>1. FailedRow(events[e].retries + 1) \in EventRow
    BY FailedRowType DEF TypeOK, EventRow
  <2> QED
    BY <1>2, <1>f, <2>1 DEF RecoverStaleProcessing, TypeOK
<1>3. ASSUME NEW r \in Runs, BeginDispatch(r) PROVE TypeOK'
  <2>1. [Idle EXCEPT !.stage = "connecting"] \in Run
    BY DEF Idle, Run, Stage
  <2> QED
    BY <1>3, <2>1 DEF BeginDispatch, TypeOK
<1>4. ASSUME NEW r \in Runs, ClaimPendingEvents(r) PROVE TypeOK'
  <2>1. PICK batch \in SUBSET Claimable :
          /\ events' = [e \in Events |-> IF e \in batch
                                         THEN [events[e] EXCEPT !.status = "PROCESSING"]
                                         ELSE events[e]]
          /\ run' = [run EXCEPT ![r] =
               [stage |-> "publishing", now |-> {},
                todo |-> {[event |-> e, retries |-> events[e].retries] : e \in batch}]]
    BY <1>4 DEF ClaimPendingEvents
  <2>2. events' \in [Events -> EventRow]
    BY <2>1 DEF TypeOK, EventRow, Status
  <2>3. \A e \in batch : [event |-> e, retries |-> events[e].retries] \in Claim
    BY DEF Claimable, TypeOK, EventRow, Claim
  <2>4. [stage |-> "publishing", now |-> {},
         todo |-> {[event |-> e, retries |-> events[e].retries] : e \in batch}] \in Run
    BY <2>3 DEF Run, Stage
  <2> QED
    BY <1>4, <2>1, <2>2, <2>4 DEF ClaimPendingEvents, TypeOK
<1>5. ASSUME NEW r \in Runs, ClaimNothing(r) PROVE TypeOK'
  BY <1>5, <1>f, IdleType DEF ClaimNothing, TypeOK
<1>6. ASSUME NEW r \in Runs, Publish(r) PROVE TypeOK'
  <2>1. PICK c \in run[r].todo, reached \in BOOLEAN, stage \in {"confirmed", "rejected"} :
          /\ run' = [run EXCEPT ![r] = [stage |-> stage, todo |-> run[r].todo \ {c}, now |-> {c}]]
          /\ delivered' = IF reached THEN delivered \cup {c.event} ELSE delivered
    BY <1>6 DEF Publish
  <2>2. run[r] \in Run /\ c \in Claim /\ c.event \in Events
    BY DEF TypeOK, Run, Claim
  <2>3. [stage |-> stage, todo |-> run[r].todo \ {c}, now |-> {c}] \in Run
    BY <2>2 DEF Run, Stage
  <2> QED
    BY <1>6, <2>1, <2>2, <2>3 DEF Publish, TypeOK
<1>7. ASSUME NEW r \in Runs, MarkEventPublished(r) PROVE TypeOK'
  <2>1. run' \in [Runs -> Run]
    BY <1>7, ContinueRun DEF MarkEventPublished
  <2>2. PICK c \in run[r].now : events' = [events EXCEPT ![c.event].status = "PUBLISHED"]
    BY <1>7 DEF MarkEventPublished
  <2>3. c.event \in Events
    BY HeldType DEF Held, Claim
  <2>4. events' \in [Events -> EventRow]
    BY <2>2, <2>3 DEF TypeOK, EventRow, Status
  <2> QED
    BY <1>7, <2>1, <2>4 DEF MarkEventPublished, TypeOK
<1>8. ASSUME NEW r \in Runs, MarkEventFailed(r) PROVE TypeOK'
  <2>1. run' \in [Runs -> Run]
    BY <1>8, ContinueRun DEF MarkEventFailed
  <2>2. PICK c \in run[r].now :
          /\ events' = [events EXCEPT ![c.event] = FailedRow(RetriesAfter(c))]
          /\ failures' = [failures EXCEPT ![c.event] = @ + 1]
    BY <1>8 DEF MarkEventFailed
  <2>3. c.event \in Events /\ RetriesAfter(c) \in Nat
    BY HeldType DEF Held, Claim, RetriesAfter
  <2>4. FailedRow(RetriesAfter(c)) \in EventRow
    BY <2>3, FailedRowType
  <2>5. events' \in [Events -> EventRow] /\ failures' \in [Events -> Nat]
    BY <2>2, <2>3, <2>4 DEF TypeOK
  <2> QED
    BY <1>8, <2>1, <2>5 DEF MarkEventFailed, TypeOK
<1>9. ASSUME NEW r \in Runs, ConnectTimesOut(r) PROVE TypeOK'
  BY <1>9, <1>f, IdleType DEF ConnectTimesOut, TypeOK
<1>10. ASSUME NEW r \in Runs, MarkEventPublishedFails(r) PROVE TypeOK'
  BY <1>10, <1>f DEF MarkEventPublishedFails, TypeOK, Run, Stage
<1>11. ASSUME NEW r \in Runs, MarkEventFailedFails(r) PROVE TypeOK'
  BY <1>11, <1>f, IdleType DEF MarkEventFailedFails, TypeOK
<1>12. ASSUME NEW p \in Processes, Crash(p) PROVE TypeOK'
  BY <1>12, <1>f, IdleType DEF Crash, TypeOK
<1>13. CASE UNCHANGED vars
  BY <1>13 DEF vars, TypeOK
<1> QED
  BY <1>1, <1>2, <1>3, <1>4, <1>5, <1>6, <1>7, <1>8, <1>9, <1>10, <1>11, <1>12, <1>13
  DEF Next, Work

(***************************************************************************)
(* The invariant.                                                          *)
(***************************************************************************)
LEMMA InvInit == Init => IInv
<1> SUFFICES ASSUME Init PROVE IInv
    OBVIOUS
<1>1. \A r \in Runs : run[r] = Idle /\ Held(r) = {}
  BY DEF Init, Held, Idle
<1>2. ConfirmedWasDelivered /\ ClaimsAreEarned /\ ClaimsAreDistinct
  BY <1>1 DEF ConfirmedWasDelivered, ClaimsAreEarned, ClaimsAreDistinct, Idle
<1>3. HeldIsProcessing /\ ExclusiveClaims
  BY <1>1 DEF HeldIsProcessing, ExclusiveClaims, Holds
<1>4. PublishedWasDelivered /\ BudgetIsEarned
  BY DEF Init, PublishedWasDelivered, BudgetIsEarned, StatusOf
<1> QED
  BY <1>2, <1>3, <1>4, TypeInit DEF IInv

\* Steps that only make runs forget claims preserve the invariant.
LEMMA RunsForget ==
    ASSUME IInv, TypeOK', UNCHANGED <<events, delivered, failures, recovered>>,
           \A s \in Runs : /\ run'[s].todo \subseteq run[s].todo
                           /\ run'[s].now \subseteq run[s].now
                           /\ run'[s].stage = "confirmed" => run[s].stage = "confirmed"
    PROVE  IInv'
<1>1. \A s \in Runs : Held(s)' \subseteq Held(s)
  BY DEF Held
<1>2. \A s \in Runs, e \in Events : Holds(s, e)' => Holds(s, e)
  BY <1>1 DEF Holds
<1>3. ConfirmedWasDelivered'
  BY DEF IInv, ConfirmedWasDelivered
<1>4. ClaimsAreEarned'
  BY <1>1 DEF IInv, ClaimsAreEarned
<1>5. ClaimsAreDistinct'
  BY <1>1 DEF IInv, ClaimsAreDistinct
<1>6. HeldIsProcessing' /\ ExclusiveClaims'
  BY <1>2 DEF IInv, HeldIsProcessing, ExclusiveClaims, StatusOf
<1>7. PublishedWasDelivered' /\ BudgetIsEarned'
  BY DEF IInv, PublishedWasDelivered, BudgetIsEarned, StatusOf
<1> QED
  BY <1>3, <1>4, <1>5, <1>6, <1>7 DEF IInv

\* A mark by a run that handled claim c and drops it: nobody who still holds
\* the event of c holds it exclusively.
LEMMA HandledClaim ==
    ASSUME IInv, NEW r \in Runs, NEW c \in run[r].now, Continue(r)
    PROVE  /\ c.event \in Events /\ c.retries \in Nat /\ c \in Held(r)
           /\ \A s \in Runs : /\ run'[s].todo \subseteq run[s].todo
                              /\ run'[s].now \subseteq run[s].now
                              /\ run'[s].stage = "confirmed" => run[s].stage = "confirmed"
           /\ \A s \in Runs : Held(s)' \subseteq Held(s)
           /\ \A s \in Runs : c.event \notin recovered => ~Holds(s, c.event)'
<1>1. TypeOK /\ c \in Held(r)
  BY DEF IInv, Held
<1>2. c.event \in Events /\ c.retries \in Nat
  BY <1>1, HeldType DEF Claim
<1>3. \A s \in Runs : s # r => run'[s] = run[s]
  BY <1>1, ContinueRun
<1>4. run'[r].todo = run[r].todo /\ run'[r].now = {} /\ run'[r].stage # "confirmed"
  BY <1>1, ContinueRun
<1>5. \A s \in Runs : Held(s)' \subseteq Held(s)
  BY <1>3, <1>4 DEF Held
<1>6. ASSUME NEW s \in Runs, c.event \notin recovered, Holds(s, c.event)'
      PROVE  FALSE
  <2>1. PICK d \in Held(s)' : d.event = c.event
    BY <1>6 DEF Holds
  <2>2. CASE s = r
    <3>1. d \in run[r].todo /\ d \in Held(r)
      BY <1>4, <2>1, <2>2 DEF Held
    <3>2. d = c
      BY <1>1, <2>1, <3>1 DEF IInv, ClaimsAreDistinct
    <3> QED
      BY <3>1, <3>2 DEF IInv, ClaimsAreDistinct
  <2>3. CASE s # r
    <3>1. Holds(s, c.event) /\ Holds(r, c.event)
      BY <1>1, <1>5, <2>1 DEF Holds
    <3> QED
      BY <1>2, <1>6, <2>3, <3>1 DEF IInv, ExclusiveClaims
  <2> QED
    BY <2>2, <2>3
<1> QED
  BY <1>1, <1>2, <1>3, <1>4, <1>5, <1>6

LEMMA InsertInv ==
    ASSUME IInv, TypeOK', NEW e \in Events, InsertOutboxEvent(e)
    PROVE  IInv'
<1>1. /\ UNCHANGED <<run, delivered, failures, recovered>>
      /\ StatusOf(e) = "NONE" /\ StatusOf(e)' = "PENDING" /\ events'[e].retries = 0
      /\ \A f \in Events \ {e} : events'[f] = events[f]
  BY DEF InsertOutboxEvent, IInv, TypeOK, StatusOf
<1>2. \A s \in Runs : Held(s)' = Held(s)
  BY <1>1 DEF Held
<1>3. \A s \in Runs, f \in Events : Holds(s, f)' <=> Holds(s, f)
  BY <1>2 DEF Holds
<1>4. HeldIsProcessing' /\ ExclusiveClaims'
  BY <1>1, <1>3 DEF IInv, HeldIsProcessing, ExclusiveClaims, StatusOf
<1>5. failures[e] \in Nat
  BY DEF IInv, TypeOK
<1>6. PublishedWasDelivered' /\ BudgetIsEarned'
  BY <1>1, <1>5 DEF IInv, PublishedWasDelivered, BudgetIsEarned, StatusOf
<1>7. ConfirmedWasDelivered' /\ ClaimsAreEarned' /\ ClaimsAreDistinct'
  BY <1>1, <1>2 DEF IInv, ConfirmedWasDelivered, ClaimsAreEarned, ClaimsAreDistinct
<1> QED
  BY <1>4, <1>6, <1>7 DEF IInv

LEMMA RecoverInv ==
    ASSUME IInv, TypeOK', NEW e \in Events, RecoverStaleProcessing(e)
    PROVE  IInv'
<1>1. /\ UNCHANGED <<run, delivered>>
      /\ StatusOf(e)' = "FAILED" /\ events'[e].retries = events[e].retries + 1
      /\ failures'[e] = failures[e] + 1
      /\ \A f \in Events \ {e} : events'[f] = events[f] /\ failures'[f] = failures[f]
      /\ recovered \subseteq recovered'
      /\ e \notin recovered' => \A s \in Runs : ~Holds(s, e)
  BY DEF RecoverStaleProcessing, IInv, TypeOK, StatusOf, FailedRow
<1>2. \A s \in Runs : Held(s)' = Held(s)
  BY <1>1 DEF Held
<1>3. \A s \in Runs, f \in Events : Holds(s, f)' <=> Holds(s, f)
  BY <1>2 DEF Holds
<1>4. HeldIsProcessing' /\ ExclusiveClaims'
  BY <1>1, <1>3 DEF IInv, HeldIsProcessing, ExclusiveClaims, StatusOf
<1>5. \A f \in Events : failures[f] \in Nat /\ events[f].retries \in Nat /\ failures[f] <= failures'[f]
  BY <1>1 DEF IInv, TypeOK, EventRow
<1>6. PublishedWasDelivered' /\ BudgetIsEarned'
  BY <1>1, <1>5 DEF IInv, PublishedWasDelivered, BudgetIsEarned, StatusOf
<1>7. ClaimsAreEarned'
  <2>1. \A s \in Runs : \A c \in Held(s) : c.event \in Events /\ c.retries \in Nat
    BY HeldType DEF IInv, Claim
  <2>2. \A s \in Runs : \A c \in Held(s) : c.retries <= failures'[c.event]
    BY <1>1, <1>5, <2>1 DEF IInv, ClaimsAreEarned
  <2> QED
    BY <1>2, <2>2 DEF ClaimsAreEarned
<1>8. ConfirmedWasDelivered' /\ ClaimsAreDistinct'
  BY <1>1, <1>2 DEF IInv, ConfirmedWasDelivered, ClaimsAreDistinct
<1> QED
  BY <1>4, <1>6, <1>7, <1>8 DEF IInv

LEMMA ClaimInv ==
    ASSUME IInv, TypeOK', NEW r \in Runs, ClaimPendingEvents(r)
    PROVE  IInv'
<1>1. PICK batch \in SUBSET Claimable :
        /\ events' = [e \in Events |-> IF e \in batch
                                       THEN [events[e] EXCEPT !.status = "PROCESSING"]
                                       ELSE events[e]]
        /\ run' = [run EXCEPT ![r] =
             [stage |-> "publishing", now |-> {},
              todo |-> {[event |-> e, retries |-> events[e].retries] : e \in batch}]]
  BY DEF ClaimPendingEvents
<1> DEFINE claims == {[event |-> e, retries |-> events[e].retries] : e \in batch}
<1>2. UNCHANGED <<delivered, failures, recovered>>
  BY DEF ClaimPendingEvents
<1>3. /\ run'[r].stage = "publishing" /\ run'[r].now = {} /\ run'[r].todo = claims
      /\ \A s \in Runs \ {r} : run'[s] = run[s]
  BY <1>1 DEF IInv, TypeOK
<1>4. Held(r)' = claims /\ \A s \in Runs \ {r} : Held(s)' = Held(s)
  BY <1>3 DEF Held
<1>5. \A e \in batch : e \in Events /\ StatusOf(e) # "PROCESSING" /\ StatusOf(e) # "PUBLISHED"
  BY DEF Claimable
<1>6. /\ \A e \in Events : events'[e].retries = events[e].retries
      /\ \A e \in batch : StatusOf(e)' = "PROCESSING"
      /\ \A e \in Events \ batch : StatusOf(e)' = StatusOf(e)
  BY <1>1, <1>5 DEF IInv, TypeOK, EventRow, StatusOf
<1>7. \A e \in Events : Holds(r, e)' => e \in batch
  BY <1>4 DEF Holds
<1>8. \A s \in Runs \ {r}, e \in Events : Holds(s, e)' <=> Holds(s, e)
  BY <1>4 DEF Holds
<1>9. \A s \in Runs, e \in batch \ recovered : ~Holds(s, e)
  BY <1>5 DEF IInv, HeldIsProcessing
<1>10. ConfirmedWasDelivered'
  BY <1>2, <1>3 DEF IInv, ConfirmedWasDelivered
<1>11. PublishedWasDelivered'
  BY <1>2, <1>6 DEF IInv, PublishedWasDelivered
<1>12. ClaimsAreEarned'
  <2>1. \A c \in claims : c.retries <= failures[c.event]
    BY <1>5 DEF IInv, BudgetIsEarned
  <2> QED
    BY <1>2, <1>4, <2>1 DEF IInv, ClaimsAreEarned
<1>13. BudgetIsEarned'
  BY <1>2, <1>6 DEF IInv, BudgetIsEarned
<1>14. ClaimsAreDistinct'
  <2>1. \A c, d \in claims : c.event = d.event => c = d
    OBVIOUS
  <2> HIDE DEF claims
  <2> QED
    BY <1>3, <1>4, <2>1 DEF IInv, ClaimsAreDistinct
<1>15. HeldIsProcessing'
  BY <1>2, <1>6, <1>7, <1>8 DEF IInv, HeldIsProcessing
<1>16. ExclusiveClaims'
  BY <1>2, <1>7, <1>8, <1>9 DEF IInv, ExclusiveClaims
<1> QED
  BY <1>10, <1>11, <1>12, <1>13, <1>14, <1>15, <1>16 DEF IInv

LEMMA PublishInv ==
    ASSUME IInv, TypeOK', NEW r \in Runs, Publish(r)
    PROVE  IInv'
<1>1. PICK c \in run[r].todo, reached \in BOOLEAN, stage \in {"confirmed", "rejected"} :
        /\ stage \in PublishResult(reached)
        /\ run' = [run EXCEPT ![r] = [stage |-> stage, todo |-> run[r].todo \ {c}, now |-> {c}]]
        /\ delivered' = IF reached THEN delivered \cup {c.event} ELSE delivered
  BY DEF Publish
<1>2. UNCHANGED <<events, failures, recovered>>
  BY DEF Publish
<1>3. /\ run'[r].stage = stage /\ run'[r].now = {c} /\ run'[r].todo = run[r].todo \ {c}
      /\ \A s \in Runs \ {r} : run'[s] = run[s]
  BY <1>1 DEF IInv, TypeOK
<1>4. \A s \in Runs : Held(s)' \subseteq Held(s)
  BY <1>3 DEF Held
<1>5. \A s \in Runs, e \in Events : Holds(s, e)' => Holds(s, e)
  BY <1>4 DEF Holds
<1>6. delivered \subseteq delivered' /\ (stage = "confirmed" => c.event \in delivered')
  BY <1>1 DEF PublishResult
<1>7. ConfirmedWasDelivered'
  BY <1>3, <1>6 DEF IInv, ConfirmedWasDelivered
<1>8. ClaimsAreEarned'
  BY <1>2, <1>4 DEF IInv, ClaimsAreEarned
<1>9. ClaimsAreDistinct'
  BY <1>3, <1>4 DEF IInv, ClaimsAreDistinct
<1>10. HeldIsProcessing' /\ ExclusiveClaims'
  BY <1>2, <1>5 DEF IInv, HeldIsProcessing, ExclusiveClaims, StatusOf
<1>11. PublishedWasDelivered' /\ BudgetIsEarned'
  BY <1>2, <1>6 DEF IInv, PublishedWasDelivered, BudgetIsEarned, StatusOf
<1> QED
  BY <1>7, <1>8, <1>9, <1>10, <1>11 DEF IInv

LEMMA MarkPublishedInv ==
    ASSUME IInv, TypeOK', NEW r \in Runs, MarkEventPublished(r)
    PROVE  IInv'
<1>1. PICK c \in run[r].now : events' = [events EXCEPT ![c.event].status = "PUBLISHED"]
  BY DEF MarkEventPublished
<1>2. UNCHANGED <<delivered, failures, recovered>> /\ Continue(r) /\ run[r].stage = "confirmed"
  BY DEF MarkEventPublished
<1>3. /\ c.event \in Events
      /\ \A s \in Runs : /\ run'[s].todo \subseteq run[s].todo
                         /\ run'[s].now \subseteq run[s].now
                         /\ run'[s].stage = "confirmed" => run[s].stage = "confirmed"
      /\ \A s \in Runs : Held(s)' \subseteq Held(s)
      /\ \A s \in Runs : c.event \notin recovered => ~Holds(s, c.event)'
  BY <1>2, HandledClaim
<1>4. /\ StatusOf(c.event)' = "PUBLISHED" /\ events'[c.event].retries = events[c.event].retries
      /\ \A e \in Events \ {c.event} : events'[e] = events[e]
  BY <1>1, <1>3 DEF IInv, TypeOK, EventRow, StatusOf
<1>5. c.event \in delivered
  BY <1>2 DEF IInv, ConfirmedWasDelivered
<1>6. \A s \in Runs, e \in Events : Holds(s, e)' => Holds(s, e)
  BY <1>3 DEF Holds
<1>7. ConfirmedWasDelivered'
  BY <1>2, <1>3 DEF IInv, ConfirmedWasDelivered
<1>8. ClaimsAreEarned'
  BY <1>2, <1>3 DEF IInv, ClaimsAreEarned
<1>9. ClaimsAreDistinct'
  BY <1>3 DEF IInv, ClaimsAreDistinct
<1>10. HeldIsProcessing' /\ ExclusiveClaims'
  BY <1>2, <1>3, <1>4, <1>6 DEF IInv, HeldIsProcessing, ExclusiveClaims, StatusOf
<1>11. PublishedWasDelivered' /\ BudgetIsEarned'
  BY <1>2, <1>4, <1>5 DEF IInv, PublishedWasDelivered, BudgetIsEarned, StatusOf
<1> QED
  BY <1>7, <1>8, <1>9, <1>10, <1>11 DEF IInv

LEMMA MarkFailedInv ==
    ASSUME IInv, TypeOK', NEW r \in Runs, MarkEventFailed(r)
    PROVE  IInv'
<1>1. PICK c \in run[r].now :
        /\ events' = [events EXCEPT ![c.event] = FailedRow(RetriesAfter(c))]
        /\ failures' = [failures EXCEPT ![c.event] = @ + 1]
  BY DEF MarkEventFailed
<1>2. UNCHANGED <<delivered, recovered>> /\ Continue(r)
  BY DEF MarkEventFailed
<1>3. /\ c.event \in Events /\ c.retries \in Nat /\ c \in Held(r)
      /\ \A s \in Runs : /\ run'[s].todo \subseteq run[s].todo
                         /\ run'[s].now \subseteq run[s].now
                         /\ run'[s].stage = "confirmed" => run[s].stage = "confirmed"
      /\ \A s \in Runs : Held(s)' \subseteq Held(s)
      /\ \A s \in Runs : c.event \notin recovered => ~Holds(s, c.event)'
  BY <1>2, HandledClaim
<1>4. /\ StatusOf(c.event)' = "FAILED" /\ events'[c.event].retries = c.retries + 1
      /\ failures'[c.event] = failures[c.event] + 1
      /\ \A e \in Events \ {c.event} : events'[e] = events[e] /\ failures'[e] = failures[e]
  BY <1>1, <1>3 DEF IInv, TypeOK, StatusOf, FailedRow, RetriesAfter
<1>5. \A e \in Events : failures[e] \in Nat /\ failures[e] <= failures'[e]
  BY <1>4 DEF IInv, TypeOK
<1>6. \A s \in Runs, e \in Events : Holds(s, e)' => Holds(s, e)
  BY <1>3 DEF Holds
<1>7. ConfirmedWasDelivered'
  BY <1>2, <1>3 DEF IInv, ConfirmedWasDelivered
<1>8. ClaimsAreEarned'
  <2>1. \A s \in Runs : \A d \in Held(s) : d.event \in Events /\ d.retries \in Nat
    BY HeldType DEF IInv, Claim
  <2>2. \A s \in Runs : \A d \in Held(s) : d.retries <= failures'[d.event]
    BY <1>4, <1>5, <2>1 DEF IInv, ClaimsAreEarned
  <2> QED
    BY <1>3, <2>2 DEF ClaimsAreEarned
<1>9. ClaimsAreDistinct'
  BY <1>3 DEF IInv, ClaimsAreDistinct
<1>10. HeldIsProcessing' /\ ExclusiveClaims'
  BY <1>2, <1>3, <1>4, <1>6 DEF IInv, HeldIsProcessing, ExclusiveClaims, StatusOf
<1>11. PublishedWasDelivered'
  BY <1>2, <1>4 DEF IInv, PublishedWasDelivered, StatusOf
<1>12. BudgetIsEarned'
  <2>1. c.retries <= failures[c.event]
    BY <1>3 DEF IInv, ClaimsAreEarned
  <2> QED
    BY <1>3, <1>4, <1>5, <2>1 DEF IInv, BudgetIsEarned
<1> QED
  BY <1>7, <1>8, <1>9, <1>10, <1>11, <1>12 DEF IInv

LEMMA InvStep == IInv /\ [Next]_vars => IInv'
<1> SUFFICES ASSUME IInv, [Next]_vars PROVE IInv'
    OBVIOUS
<1> TypeOK /\ TypeOK'
  BY TypeStep DEF IInv
<1>1. ASSUME NEW e \in Events, InsertOutboxEvent(e) \/ RecoverStaleProcessing(e) PROVE IInv'
  BY <1>1, InsertInv, RecoverInv
<1>2. ASSUME NEW r \in Runs, ClaimPendingEvents(r) \/ Publish(r) PROVE IInv'
  BY <1>2, ClaimInv, PublishInv
<1>3. ASSUME NEW r \in Runs, MarkEventPublished(r) \/ MarkEventFailed(r) PROVE IInv'
  BY <1>3, MarkPublishedInv, MarkFailedInv
<1>4. ASSUME NEW r \in Runs,
             \/ BeginDispatch(r) \/ ConnectTimesOut(r) \/ ClaimNothing(r)
             \/ MarkEventPublishedFails(r) \/ MarkEventFailedFails(r)
      PROVE  IInv'
  <2>1. UNCHANGED <<events, delivered, failures, recovered>>
    BY <1>4 DEF BeginDispatch, ConnectTimesOut, ClaimNothing, MarkEventPublishedFails,
                MarkEventFailedFails
  <2>2. \A s \in Runs : /\ run'[s].todo \subseteq run[s].todo
                        /\ run'[s].now \subseteq run[s].now
                        /\ run'[s].stage = "confirmed" => run[s].stage = "confirmed"
    BY <1>4 DEF BeginDispatch, ConnectTimesOut, ClaimNothing, MarkEventPublishedFails,
                MarkEventFailedFails, Idle, TypeOK, Run
  <2> QED
    BY <2>1, <2>2, RunsForget
<1>5. ASSUME NEW p \in Processes, Crash(p) PROVE IInv'
  <2>1. UNCHANGED <<events, delivered, failures, recovered>>
    BY <1>5 DEF Crash
  <2>2. \A s \in Runs : /\ run'[s].todo \subseteq run[s].todo
                        /\ run'[s].now \subseteq run[s].now
                        /\ run'[s].stage = "confirmed" => run[s].stage = "confirmed"
    BY <1>5 DEF Crash, Idle
  <2> QED
    BY <2>1, <2>2, RunsForget
<1>6. CASE UNCHANGED vars
  BY <1>6, RunsForget DEF vars
<1> QED
  BY <1>1, <1>2, <1>3, <1>4, <1>5, <1>6 DEF Next, Work

(***************************************************************************)
(* Theorems.                                                               *)
(***************************************************************************)
\* The type invariant of the outbox and its dispatchers.
THEOREM TypeCorrect == Spec => []TypeOK
<1> QED
  BY TypeInit, TypeStep, PTL DEF Spec

\* However runs overlap, crash, are overtaken by the stale recovery or lose the
\* database between two steps, a row is PUBLISHED only if its event reached the
\* broker, an event is held by one run unless it was recovered from under it,
\* and the retry budget is spent by failures only.
THEOREM RelaySafety == Spec => [](PublishedWasDelivered /\ ExclusiveClaims /\ BudgetIsEarned)
<1>1. IInv => PublishedWasDelivered /\ ExclusiveClaims /\ BudgetIsEarned
  BY DEF IInv
<1> QED
  BY <1>1, InvInit, InvStep, PTL DEF Spec

\* No two runs hold the same event unless stale recovery has put it back.
THEOREM ClaimsExclude == Spec => []ExclusiveClaims
BY RelaySafety, PTL

\* The retry budget of an event is spent only by failures of its publication.
THEOREM BudgetSpent == Spec => []BudgetIsEarned
BY RelaySafety, PTL

(***************************************************************************)
(* Refinement of AtLeastOnce.                                              *)
(***************************************************************************)
\* What a run works on was stored.
HeldIsStored == \A r \in Runs : \A c \in Held(r) : StatusOf(c.event) # "NONE"

\* No step removes a stored event.
LEMMA StoredForGood ==
    ASSUME TypeOK, [Next]_vars, NEW e \in Events, StatusOf(e) # "NONE"
    PROVE  StatusOf(e)' # "NONE"
<1>1. ASSUME NEW f \in Events, InsertOutboxEvent(f) \/ RecoverStaleProcessing(f)
      PROVE  StatusOf(e)' # "NONE"
  BY <1>1 DEF InsertOutboxEvent, RecoverStaleProcessing, FailedRow, StatusOf, TypeOK
<1>2. ASSUME NEW r \in Runs, ClaimPendingEvents(r) PROVE StatusOf(e)' # "NONE"
  BY <1>2 DEF ClaimPendingEvents, StatusOf, TypeOK, EventRow
<1>3. ASSUME NEW r \in Runs, MarkEventPublished(r) PROVE StatusOf(e)' # "NONE"
  <2>1. PICK c \in run[r].now : events' = [events EXCEPT ![c.event].status = "PUBLISHED"]
    BY <1>3 DEF MarkEventPublished
  <2> QED
    BY <2>1 DEF StatusOf, TypeOK, EventRow
<1>4. ASSUME NEW r \in Runs, MarkEventFailed(r) PROVE StatusOf(e)' # "NONE"
  BY <1>4 DEF MarkEventFailed, FailedRow, StatusOf, TypeOK
<1>5. CASE UNCHANGED events
  BY <1>5 DEF StatusOf
<1>6. ASSUME NEW r \in Runs,
             \/ BeginDispatch(r) \/ Publish(r) \/ ConnectTimesOut(r) \/ ClaimNothing(r)
             \/ MarkEventPublishedFails(r) \/ MarkEventFailedFails(r)
      PROVE  UNCHANGED events
  BY <1>6 DEF BeginDispatch, Publish, ConnectTimesOut, ClaimNothing, MarkEventPublishedFails,
              MarkEventFailedFails
<1>7. ASSUME NEW p \in Processes, Crash(p) PROVE UNCHANGED events
  BY <1>7 DEF Crash
<1>8. CASE UNCHANGED vars
  BY <1>8 DEF vars, StatusOf
<1> QED
  BY <1>1, <1>2, <1>3, <1>4, <1>5, <1>6, <1>7, <1>8 DEF Next, Work

\* What a run holds after a step it held before, or it has just claimed it.
LEMMA HeldBefore ==
    ASSUME TypeOK, [Next]_vars, NEW r \in Runs, NEW c \in Held(r)'
    PROVE  c \in Held(r) \/ (c.event \in Claimable)
<1>1. ASSUME NEW s \in Runs, ClaimPendingEvents(s) PROVE c \in Held(r) \/ c.event \in Claimable
  <2>1. PICK batch \in SUBSET Claimable :
          run' = [run EXCEPT ![s] =
            [stage |-> "publishing", now |-> {},
             todo |-> {[event |-> e, retries |-> events[e].retries] : e \in batch}]]
    BY <1>1 DEF ClaimPendingEvents
  <2>2. CASE r = s
    <3>1. c \in {[event |-> e, retries |-> events[e].retries] : e \in batch}
      BY <2>1, <2>2 DEF Held, TypeOK
    <3> QED
      BY <3>1
  <2>3. CASE r # s
    BY <2>1, <2>3 DEF Held, TypeOK
  <2> QED
    BY <2>2, <2>3
<1>2. ASSUME NEW s \in Runs, Publish(s) PROVE c \in Held(r)
  BY <1>2 DEF Publish, Held, TypeOK
<1>3. ASSUME NEW s \in Runs, MarkEventPublished(s) \/ MarkEventFailed(s) PROVE c \in Held(r)
  <2>1. Continue(s)
    BY <1>3 DEF MarkEventPublished, MarkEventFailed
  <2>2. /\ \A t \in Runs : t # s => run'[t] = run[t]
        /\ run'[s].todo = run[s].todo /\ run'[s].now = {}
    BY <2>1, ContinueRun
  <2> QED
    BY <2>2 DEF Held
<1>4. ASSUME NEW s \in Runs,
             \/ BeginDispatch(s) \/ ConnectTimesOut(s) \/ ClaimNothing(s)
             \/ MarkEventPublishedFails(s) \/ MarkEventFailedFails(s)
      PROVE  c \in Held(r)
  BY <1>4 DEF BeginDispatch, ConnectTimesOut, ClaimNothing, MarkEventPublishedFails,
              MarkEventFailedFails, Idle, TypeOK, Run, Held
<1>5. ASSUME NEW p \in Processes, Crash(p) PROVE c \in Held(r)
  BY <1>5 DEF Crash, Idle, Held
<1>6. ASSUME NEW e \in Events, InsertOutboxEvent(e) \/ RecoverStaleProcessing(e)
      PROVE  c \in Held(r)
  BY <1>6 DEF InsertOutboxEvent, RecoverStaleProcessing, Held
<1>7. CASE UNCHANGED vars
  BY <1>7 DEF vars, Held
<1> QED
  BY <1>1, <1>2, <1>3, <1>4, <1>5, <1>6, <1>7 DEF Next, Work

LEMMA StoredStep == TypeOK /\ HeldIsStored /\ [Next]_vars => HeldIsStored'
<1> SUFFICES ASSUME TypeOK, HeldIsStored, [Next]_vars, NEW r \in Runs, NEW c \in Held(r)'
             PROVE  StatusOf(c.event)' # "NONE"
    BY DEF HeldIsStored
<1>1. c.event \in Events
  BY HeldBefore, HeldType DEF Claim, Claimable
<1>2. StatusOf(c.event) # "NONE"
  BY HeldBefore DEF HeldIsStored, Claimable
<1> QED
  BY <1>1, <1>2, StoredForGood

\* Each step of the relay is a step of AtLeastOnce or leaves its state unchanged.
LEMMA RefineStep ==
    ASSUME IInv, HeldIsStored, [Next]_vars
    PROVE  [AtLeastOnceRelay!Next]_(AtLeastOnceRelay!vars)
<1> DEFINE stored == {e \in Events : StatusOf(e) # "NONE"}
           acknowledged == {e \in Events : StatusOf(e) = "PUBLISHED"}
           Same == UNCHANGED <<stored, delivered, acknowledged>>
<1> TypeOK
  BY DEF IInv
<1>1. ASSUME NEW e \in Events, InsertOutboxEvent(e)
      PROVE  AtLeastOnceRelay!Store(e)
  BY <1>1 DEF InsertOutboxEvent, StatusOf, TypeOK, AtLeastOnceRelay!Store
<1>2. ASSUME NEW e \in Events, RecoverStaleProcessing(e)
      PROVE  Same
  BY <1>2 DEF RecoverStaleProcessing, FailedRow, StatusOf, TypeOK
<1>3. ASSUME NEW r \in Runs, ClaimPendingEvents(r)
      PROVE  Same
  <2>1. PICK batch \in SUBSET Claimable :
          events' = [e \in Events |-> IF e \in batch
                                      THEN [events[e] EXCEPT !.status = "PROCESSING"]
                                      ELSE events[e]]
    BY <1>3 DEF ClaimPendingEvents
  <2>2. \A e \in batch : StatusOf(e) \notin {"NONE", "PUBLISHED"} /\ StatusOf(e)' = "PROCESSING"
    BY <2>1 DEF Claimable, StatusOf, TypeOK, EventRow
  <2>3. \A e \in Events \ batch : StatusOf(e)' = StatusOf(e)
    BY <2>1 DEF StatusOf
  <2> QED
    BY <1>3, <2>2, <2>3 DEF ClaimPendingEvents
<1>4. ASSUME NEW r \in Runs, Publish(r)
      PROVE  Same \/ \E e \in Events : AtLeastOnceRelay!Deliver(e)
  <2>1. PICK c \in run[r].todo, reached \in BOOLEAN :
          delivered' = IF reached THEN delivered \cup {c.event} ELSE delivered
    BY <1>4 DEF Publish
  <2>2. events' = events
    BY <1>4 DEF Publish
  <2>3. c.event \in Events /\ StatusOf(c.event) # "NONE"
    BY HeldType DEF Held, Claim, HeldIsStored
  <2>4. stored' = stored /\ acknowledged' = acknowledged
    BY <2>2 DEF StatusOf
  <2> QED
    BY <2>1, <2>3, <2>4 DEF AtLeastOnceRelay!Deliver
<1>5. ASSUME NEW r \in Runs, MarkEventPublished(r)
      PROVE  \E e \in Events : AtLeastOnceRelay!Acknowledge(e)
  <2>1. PICK c \in run[r].now : events' = [events EXCEPT ![c.event].status = "PUBLISHED"]
    BY <1>5 DEF MarkEventPublished
  <2>2. /\ c.event \in Events /\ c.event \in delivered /\ StatusOf(c.event) # "NONE"
        /\ delivered' = delivered
    BY <1>5, HeldType DEF MarkEventPublished, Held, Claim, HeldIsStored, IInv,
                         ConfirmedWasDelivered
  <2>3. /\ StatusOf(c.event)' = "PUBLISHED"
        /\ \A e \in Events \ {c.event} : StatusOf(e)' = StatusOf(e)
    BY <2>1, <2>2 DEF StatusOf, TypeOK, EventRow
  <2>4. stored' = stored /\ acknowledged' = acknowledged \cup {c.event}
    BY <2>2, <2>3
  <2> QED
    BY <2>2, <2>4 DEF AtLeastOnceRelay!Acknowledge
<1>6. ASSUME NEW r \in Runs, MarkEventFailed(r)
      PROVE  \E e \in Events : AtLeastOnceRelay!Reopen(e)
  <2>1. PICK c \in run[r].now : events' = [events EXCEPT ![c.event] = FailedRow(RetriesAfter(c))]
    BY <1>6 DEF MarkEventFailed
  <2>2. c.event \in Events /\ StatusOf(c.event) # "NONE" /\ delivered' = delivered
    BY <1>6, HeldType DEF MarkEventFailed, Held, Claim, HeldIsStored
  <2>3. /\ StatusOf(c.event)' = "FAILED"
        /\ \A e \in Events \ {c.event} : StatusOf(e)' = StatusOf(e)
    BY <2>1, <2>2 DEF StatusOf, TypeOK, FailedRow
  <2>4. stored' = stored /\ acknowledged' = acknowledged \ {c.event}
    BY <2>2, <2>3
  <2> QED
    BY <2>2, <2>4 DEF AtLeastOnceRelay!Reopen
<1>7. ASSUME NEW r \in Runs,
             \/ BeginDispatch(r) \/ ConnectTimesOut(r) \/ ClaimNothing(r)
             \/ MarkEventPublishedFails(r) \/ MarkEventFailedFails(r)
      PROVE  Same
  BY <1>7 DEF BeginDispatch, ConnectTimesOut, ClaimNothing, MarkEventPublishedFails,
              MarkEventFailedFails, StatusOf
<1>8. ASSUME NEW p \in Processes, Crash(p) PROVE Same
  BY <1>8 DEF Crash, StatusOf
<1>9. CASE UNCHANGED vars
  BY <1>9 DEF vars, StatusOf, AtLeastOnceRelay!vars
<1> QED
  BY <1>1, <1>2, <1>3, <1>4, <1>5, <1>6, <1>7, <1>8, <1>9
  DEF Next, Work, AtLeastOnceRelay!Next, AtLeastOnceRelay!vars

\* The relay implements the at-least-once contract: docs/ARCHITECTURE, "publishes
\* these events to RabbitMQ with at-least-once delivery guarantees".
THEOREM Refinement == Spec => ImplementsAtLeastOnce
<1>1. Init => AtLeastOnceRelay!Init
  BY DEF Init, AtLeastOnceRelay!Init, StatusOf
<1>2. Init => HeldIsStored
  BY DEF Init, HeldIsStored, Held, Idle
<1>3. IInv /\ HeldIsStored /\ [Next]_vars => [AtLeastOnceRelay!Next]_(AtLeastOnceRelay!vars)
  BY RefineStep
<1>4. IInv /\ HeldIsStored /\ [Next]_vars => HeldIsStored'
  BY StoredStep DEF IInv
<1> QED
  BY <1>1, <1>2, <1>3, <1>4, InvInit, InvStep, PTL
  DEF Spec, ImplementsAtLeastOnce, AtLeastOnceRelay!Spec
=============================================================================
