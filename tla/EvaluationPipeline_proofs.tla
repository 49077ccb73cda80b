---------------------- MODULE EvaluationPipeline_proofs ----------------------
(***************************************************************************)
(* Proofs about EvaluationPipeline for any number of attempts, messages,   *)
(* handlers and viewers, and any faults.                                   *)
(***************************************************************************)
EXTENDS EvaluationPipeline, TLAPS

Workers == Handlers \cup Viewers

\* A handler that still has the channel its message came from.
Attached(h) == handler[h].open /\ handler[h].stage # "idle"

\* The dead letter queue holds exactly the messages past the last retry tier.
DlqIsLastTier ==
    \A c \in Copies : copies[c].place # "free" =>
        (copies[c].place = "dlq" <=> copies[c].tier = 3)

\* What an attached handler works on is unacknowledged at the broker, once.
AttachedHoldsCopy ==
    \A h \in Workers : Attached(h) =>
        /\ CopyOf(h) \in Copies
        /\ copies[CopyOf(h)].place = "held"
        /\ copies[CopyOf(h)].attempt = AttemptOf(h)

AttachedAreDistinct ==
    \A g, h \in Workers : Attached(g) /\ Attached(h) /\ g # h => CopyOf(g) # CopyOf(h)

\* A message about to be acknowledged is evaluated or was forwarded to a higher tier.
Forwarded(h) ==
    \E c \in Copies :
        /\ copies[c].place # "free"
        /\ copies[c].attempt = AttemptOf(h)
        /\ copies[CopyOf(h)].tier < copies[c].tier

AckIsCovered ==
    \A h \in Workers : Attached(h) /\ At(h, "ack") =>
        results[AttemptOf(h)] # NoResult \/ Forwarded(h)

\* A tier is reached by as many failures, and one more is about to be forwarded.
TierIsEarned ==
    \A c \in Copies : copies[c].place # "free" => copies[c].tier <= failures[copies[c].attempt]

ForwardIsEarned ==
    \A h \in Workers : Attached(h) /\ At(h, "forward") =>
        copies[CopyOf(h)].tier < failures[AttemptOf(h)]

IInv ==
    /\ TypeOK
    /\ DlqIsLastTier
    /\ AttachedHoldsCopy /\ AttachedAreDistinct
    /\ AckIsCovered /\ NothingLost
    /\ TierIsEarned /\ ForwardIsEarned

(***************************************************************************)
(* What the shared operators do.                                           *)
(***************************************************************************)
LEMMA GotoHandler ==
    ASSUME TypeOK, NEW h \in Workers, NEW stage \in Stage, Goto(h, stage)
    PROVE  /\ handler' \in [Workers -> Handler]
           /\ handler'[h].stage = stage
           /\ \A g \in Workers : /\ handler'[g].attempt = handler[g].attempt
                                 /\ handler'[g].copy = handler[g].copy
                                 /\ handler'[g].open = handler[g].open
                                 /\ g # h => handler'[g].stage = handler[g].stage
BY DEF Goto, TypeOK, Handler, Workers

LEMMA PutCopies ==
    ASSUME TypeOK, NEW a \in Attempts, NEW tier \in Tiers, NEW place \in Place,
           Put(a, tier, place)
    PROVE  /\ copies' \in [Copies -> Copy]
           /\ \E c \in Copies :
                /\ copies[c].place = "free"
                /\ copies'[c].attempt = a /\ copies'[c].tier = tier
                /\ copies'[c].place = place
                /\ \A d \in Copies \ {c} : copies'[d] = copies[d]
BY DEF Put, TypeOK, Copy

LEMMA RequeueCopies ==
    ASSUME TypeOK, Requeue
    PROVE  /\ copies' \in [Copies -> Copy]
           /\ \A c \in Copies :
                /\ copies'[c].attempt = copies[c].attempt
                /\ copies'[c].tier = copies[c].tier
                /\ copies[c].place # "held" => copies'[c].place = copies[c].place
                /\ copies[c].place = "held" => copies'[c].place = "jobs"
BY DEF Requeue, TypeOK, Copy, Place

\* A handler that loses its channel is no longer attached.
LEMMA DetachHandlers ==
    ASSUME TypeOK, Detach
    PROVE  /\ handler' \in [Workers -> Handler]
           /\ \A h \in Workers : ~handler'[h].open
<1>1. handler' = [h \in Workers |-> [handler[h] EXCEPT
         !.open = FALSE, !.stage = IF handler[h].stage = "stuck" THEN "idle" ELSE handler[h].stage]]
  BY DEF Detach, Workers
<1>2. \A h \in Workers : handler[h] \in Handler
  BY DEF TypeOK, Workers
<1>3. \A h \in Workers :
        LET after == [handler[h] EXCEPT !.open = FALSE,
              !.stage = IF handler[h].stage = "stuck" THEN "idle" ELSE handler[h].stage]
        IN  after \in Handler /\ ~after.open
  BY <1>2 DEF Handler, Stage
<1> QED
  BY <1>1, <1>3

LEMMA CrashHandlers ==
    ASSUME TypeOK, CrashAndRestart
    PROVE  /\ handler' \in [Workers -> Handler]
           /\ \A h \in Workers : ~handler'[h].open
<1>1. handler' = [h \in Workers |-> [handler[h] EXCEPT !.open = FALSE, !.stage = "idle"]]
  BY DEF CrashAndRestart, Workers
<1>2. \A h \in Workers : handler[h] \in Handler
  BY DEF TypeOK, Workers
<1>3. \A h \in Workers : LET after == [handler[h] EXCEPT !.open = FALSE, !.stage = "idle"]
                         IN  after \in Handler /\ ~after.open
  BY <1>2 DEF Handler, Stage
<1> QED
  BY <1>1, <1>3

LEMMA StoredResult ==
    ASSUME TypeOK, NEW h \in Workers, StoreResult(h)
    PROVE  /\ results' \in [Attempts -> Result \cup {NoResult}]
           /\ results'[AttemptOf(h)] # NoResult
           /\ \A a \in Attempts : results[a] # NoResult => results'[a] = results[a]
<1>1. AttemptOf(h) \in Attempts /\ Scored(h) \in Result
  BY DEF TypeOK, Workers, Handler, AttemptOf, CopyOf, Scored, Result
<1>2. Scored(h) # NoResult
  BY <1>1, PipelineAssumption DEF Result
<1> QED
  BY <1>1, <1>2 DEF StoreResult, TypeOK

LEMMA StagesAfterForward == AfterForward(TRUE) = "ack" /\ AfterForward(FALSE) = "stuck"
BY DEF AfterForward

(***************************************************************************)
(* Types.                                                                  *)
(***************************************************************************)
LEMMA TypeInit == Init => TypeOK
<1> SUFFICES ASSUME Init PROVE TypeOK
    OBVIOUS
<1>1. copies \in [Copies -> Copy]
  BY DEF Init, Copy, Tiers, Place
<1>2. handler \in [Workers -> Handler]
  <2> DEFINE Started == [stage : {"idle"}, attempt : Attempts, copy : {NoCopy},
                         open : {FALSE}, read : {0}]
  <2>1. \A x \in Started : x \in Handler
    <3> SUFFICES ASSUME NEW x \in Started PROVE x \in Handler
        OBVIOUS
    <3>1. x = [stage |-> x.stage, attempt |-> x.attempt, copy |-> x.copy,
               open |-> x.open, read |-> x.read]
      OBVIOUS
    <3>2. /\ x.stage \in Stage /\ x.attempt \in Attempts /\ x.copy \in Copies \cup {NoCopy}
          /\ x.read \in Nat
      BY DEF Stage
    <3>3. x.open \in BOOLEAN
      BY Zenon
    <3> HIDE DEF Started
    <3> QED
      BY <3>1, <3>2, <3>3, Zenon DEF Handler
  <2>2. handler \in [Workers -> Started]
    BY DEF Init, Workers
  <2> HIDE DEF Started
  <2> QED
    BY <2>1, <2>2
<1>3. phase \in [Attempts -> Phase] /\ results \in [Attempts -> Result \cup {NoResult}]
  BY DEF Init, Phase
<1>4. failures \in [Attempts -> 0 .. 3] /\ answers \in [Attempts -> Nat]
  BY DEF Init
<1>5. connection \in [up : BOOLEAN, timer : BOOLEAN] /\ consuming \in BOOLEAN
  BY DEF Init
<1>6. announced \subseteq Attempts /\ flags \in Nat /\ faults \in Nat
  BY DEF Init
<1> QED
  BY <1>1, <1>2, <1>3, <1>4, <1>5, <1>6, Zenon DEF TypeOK, Workers

LEMMA TypeWork ==
    ASSUME IInv, NEW h \in Workers, Work(h)
    PROVE  TypeOK'
<1> USE DEF IInv, history
<1>a. AttemptOf(h) \in Attempts
  BY DEF TypeOK, Workers, Handler, AttemptOf
<1>b. \A stage \in Stage : Goto(h, stage) => handler' \in [Workers -> Handler]
  BY GotoHandler
<1>c. \A kind : Fault(kind) => faults' \in Nat
  BY DEF Fault, TypeOK
<1>1. CASE CheckResult(h)
  <2>1. handler' \in [Workers -> Handler]
    BY <1>1, <1>b DEF CheckResult, Stuck, Stage
  <2> QED
    BY <1>1, <2>1, <1>c DEF CheckResult, TypeOK, Workers
<1>2. CASE ReadAnswers(h)
  <2>1. handler' \in [Workers -> Handler]
    BY <1>2, <1>a DEF ReadAnswers, TypeOK, Handler, Stage, Workers
  <2> QED
    BY <1>2, <2>1 DEF ReadAnswers, TypeOK, Workers
<1>3. CASE InsertResult(h)
  <2>1. handler' \in [Workers -> Handler]
    BY <1>3, <1>b DEF InsertResult, Stage
  <2>2. results' \in [Attempts -> Result \cup {NoResult}]
    BY <1>3, StoredResult DEF InsertResult
  <2> QED
    BY <1>3, <2>1, <2>2 DEF InsertResult, TypeOK, Workers
<1>4. CASE EvaluationFails(h)
  <2>1. handler' \in [Workers -> Handler]
    BY <1>4, <1>b DEF EvaluationFails, Stage
  <2>2. results' \in [Attempts -> Result \cup {NoResult}]
    BY <1>4, StoredResult DEF EvaluationFails, TypeOK
  <2>3. failures' \in [Attempts -> 0 .. 3]
    BY <1>4, <1>a DEF EvaluationFails, TypeOK
  <2> QED
    BY <1>4, <2>1, <2>2, <2>3 DEF EvaluationFails, TypeOK, Workers
<1>5. CASE Forward(h)
  <2> DEFINE tier == copies[CopyOf(h)].tier
  <2>1. handler' \in [Workers -> Handler]
    BY <1>5, <1>b, StagesAfterForward DEF Forward, Stage
  <2>2. /\ CopyOf(h) \in Copies
        /\ copies[CopyOf(h)].place = "held"
    BY <1>5 DEF AttachedHoldsCopy, Attached, Forward, At
  <2>3. tier \in 0 .. 2
    BY <2>2 DEF DlqIsLastTier, TypeOK, Copy, Tiers
  <2>4. tier + 1 \in Tiers /\ NextPlace(tier) \in Place
    BY <2>3 DEF Tiers, NextPlace, Place
  <2>5. Put(AttemptOf(h), tier + 1, NextPlace(tier)) \/ UNCHANGED copies
    BY <1>5 DEF Forward
  <2>6. copies' \in [Copies -> Copy]
    <3> HIDE DEF tier
    <3> QED
      BY <1>a, <2>4, <2>5, PutCopies DEF TypeOK
  <2> QED
    BY <1>5, <2>1, <2>6, <1>c DEF Forward, TypeOK, Workers
<1>6. CASE Ack(h)
  <2>1. handler' \in [Workers -> Handler]
    BY <1>6, <1>b DEF Ack, Stage
  <2>2. copies' \in [Copies -> Copy]
    BY <1>6 DEF Ack, TypeOK, Copy, Place
  <2> QED
    BY <1>6, <2>1, <2>2 DEF Ack, TypeOK, Workers
<1>7. CASE EndDetached(h)
  <2>1. handler' \in [Workers -> Handler]
    BY <1>7, <1>b DEF EndDetached, Stage
  <2> QED
    BY <1>7, <2>1 DEF EndDetached, TypeOK, Workers
<1> QED
  BY <1>1, <1>2, <1>3, <1>4, <1>5, <1>6, <1>7 DEF Work

LEMMA TypeStep == IInv /\ [Next]_vars => TypeOK'
<1> SUFFICES ASSUME IInv, [Next]_vars PROVE TypeOK'
    OBVIOUS
<1> USE DEF IInv, history
<1>c. \A kind : Fault(kind) => faults' \in Nat
  BY DEF Fault, TypeOK
<1>t. /\ [up |-> FALSE, timer |-> TRUE] \in [up : BOOLEAN, timer : BOOLEAN]
      /\ [up |-> TRUE, timer |-> FALSE] \in [up : BOOLEAN, timer : BOOLEAN]
      /\ connection \in [up : BOOLEAN, timer : BOOLEAN]
      /\ [connection EXCEPT !.timer = FALSE] \in [up : BOOLEAN, timer : BOOLEAN]
      /\ [connection EXCEPT !.up = TRUE] \in [up : BOOLEAN, timer : BOOLEAN]
  BY DEF TypeOK
<1>1. ASSUME NEW a \in Attempts, Attempt(a) PROVE TypeOK'
  BY <1>1 DEF Attempt, TypeOK, Phase
<1>2. ASSUME NEW a \in Attempts, PublishAttemptEnded(a) PROVE TypeOK'
  <2>1. copies' \in [Copies -> Copy]
    BY <1>2, PutCopies DEF PublishAttemptEnded, Tiers, Place
  <2> QED
    BY <1>2, <2>1, <1>c DEF PublishAttemptEnded, TypeOK
<1>3. ASSUME NEW a \in Attempts, PublishFlagRaised(a) PROVE TypeOK'
  <2>1. copies' \in [Copies -> Copy]
    BY <1>3, PutCopies DEF PublishFlagRaised, Tiers, Place
  <2> QED
    BY <1>3, <2>1 DEF PublishFlagRaised, TypeOK
<1>4. ASSUME NEW h \in Handlers, NEW c \in Copies, Receive(h, c) PROVE TypeOK'
  <2>1. copies' \in [Copies -> Copy] /\ copies[c].attempt \in Attempts
    BY <1>4 DEF Receive, TypeOK, Copy, Place
  <2>2. handler' \in [Workers -> Handler]
    BY <1>4, <2>1 DEF Receive, TypeOK, Workers, Handler, Stage
  <2> QED
    BY <1>4, <2>1, <2>2 DEF Receive, TypeOK, Workers
<1>5. ASSUME NEW v \in Viewers, NEW a \in Attempts, EvaluateOnDemand(v, a) PROVE TypeOK'
  <2>1. handler' \in [Workers -> Handler]
    BY <1>5 DEF EvaluateOnDemand, TypeOK, Workers, Handler, Stage
  <2> QED
    BY <1>5, <2>1 DEF EvaluateOnDemand, TypeOK, Workers
<1>6. ASSUME NEW h \in Workers, Work(h) PROVE TypeOK'
  BY <1>6, TypeWork
<1>7. ASSUME NEW c \in Copies, RetryExpires(c) PROVE TypeOK'
  BY <1>7 DEF RetryExpires, TypeOK, Copy, Place
<1>8. CASE CloseChannel \/ LoseConnection
  <2>1. copies' \in [Copies -> Copy]
    BY <1>8, RequeueCopies DEF CloseChannel, LoseConnection, Detach
  <2>2. handler' \in [Workers -> Handler]
    BY <1>8, DetachHandlers DEF CloseChannel, LoseConnection
  <2>3. faults' \in Nat
    BY <1>8, <1>c, Zenon DEF CloseChannel, LoseConnection, TypeOK
  <2>4. connection' \in [up : BOOLEAN, timer : BOOLEAN]
    BY <1>8, <1>t DEF CloseChannel, LoseConnection, TypeOK
  <2> QED
    BY <1>8, <2>1, <2>2, <2>3, <2>4 DEF CloseChannel, LoseConnection, TypeOK, Workers
<1>9. CASE ReconnectTimer \/ ReconnectGivesUp \/ PublisherReconnects
  <2>1. connection' \in [up : BOOLEAN, timer : BOOLEAN] /\ consuming' \in BOOLEAN
    BY <1>9, <1>t, Zenon DEF ReconnectTimer, ReconnectGivesUp, PublisherReconnects, TypeOK
  <2>2. faults' \in Nat
    BY <1>9, <1>c DEF ReconnectTimer, ReconnectGivesUp, PublisherReconnects, TypeOK
  <2> QED
    BY <1>9, <2>1, <2>2 DEF ReconnectTimer, ReconnectGivesUp, PublisherReconnects, TypeOK
<1>10. CASE CrashAndRestart
  <2>1. copies' \in [Copies -> Copy]
    BY <1>10, RequeueCopies DEF CrashAndRestart
  <2>2. handler' \in [Workers -> Handler]
    BY <1>10, CrashHandlers
  <2> QED
    BY <1>10, <1>c, <2>1, <2>2 DEF CrashAndRestart, TypeOK, Workers
<1>11. CASE UNCHANGED vars
  BY <1>11 DEF vars, TypeOK
<1> QED
  BY <1>1, <1>2, <1>3, <1>4, <1>5, <1>6, <1>7, <1>8, <1>9, <1>10, <1>11 DEF Next, Workers

(***************************************************************************)
(* The invariant.                                                          *)
(***************************************************************************)
LEMMA InvInit == Init => IInv
<1> SUFFICES ASSUME Init PROVE IInv
    OBVIOUS
<1>1. TypeOK
  BY TypeInit
<1>2. \A c \in Copies : copies[c].place = "free"
  BY DEF Init
<1>3. \A h \in Workers : ~Attached(h)
  BY DEF Init, Workers, Attached
<1>4. announced = {}
  BY DEF Init
<1> QED
  BY <1>1, <1>2, <1>3, <1>4
  DEF IInv, DlqIsLastTier, AttachedHoldsCopy, AttachedAreDistinct, AckIsCovered, NothingLost,
      TierIsEarned, ForwardIsEarned

\* What the broker holds it still holds after the step, possibly elsewhere;
\* what is unacknowledged stays so.
BrokerKeeps ==
    \A c \in Copies : copies[c].place # "free" =>
        /\ copies'[c].attempt = copies[c].attempt /\ copies'[c].tier = copies[c].tier
        /\ copies'[c].place # "free"
        /\ copies[c].place = "held" => copies'[c].place = "held"

ResultsKeep ==
    \A a \in Attempts : results[a] # NoResult => results'[a] # NoResult

FailuresGrow == \A a \in Attempts : failures[a] <= failures'[a]

\* Nothing is lost by a step that keeps messages and results.
LEMMA KeptIsNotLost ==
    ASSUME IInv, ResultsKeep, announced' = announced,
           \A c \in Copies : copies[c].place # "free" =>
               copies'[c].attempt = copies[c].attempt /\ copies'[c].place # "free"
    PROVE  NothingLost'
BY DEF IInv, TypeOK, NothingLost, InBroker, ResultsKeep

\* A step that keeps the places and tiers keeps what holds of each message.
LEMMA KeptMessages ==
    ASSUME IInv, TypeOK', FailuresGrow,
           \A c \in Copies : copies'[c].place # "free" =>
               /\ copies[c].place # "free"
               /\ copies'[c].attempt = copies[c].attempt /\ copies'[c].tier = copies[c].tier
               /\ copies'[c].place = "dlq" <=> copies[c].place = "dlq"
    PROVE  DlqIsLastTier' /\ TierIsEarned'
<1>1. DlqIsLastTier'
  BY DEF IInv, DlqIsLastTier
<1>2. ASSUME NEW c \in Copies, copies'[c].place # "free"
      PROVE  copies'[c].tier <= failures'[copies'[c].attempt]
  <2>1. copies[c].tier <= failures[copies[c].attempt] /\ copies[c].tier \in 0 .. 3
    BY <1>2 DEF IInv, TierIsEarned, TypeOK, Copy, Tiers
  <2>2. copies[c].attempt \in Attempts
    BY DEF IInv, TypeOK, Copy
  <2>3. /\ failures[copies[c].attempt] \in 0 .. 3 /\ failures'[copies[c].attempt] \in 0 .. 3
        /\ failures[copies[c].attempt] <= failures'[copies[c].attempt]
    BY <2>2 DEF IInv, TypeOK, FailuresGrow
  <2> QED
    BY <1>2, <2>1, <2>3
<1> QED
  BY <1>1, <1>2 DEF TierIsEarned

\* A publication keeps what holds of each message, provided it holds of the new one.
LEMMA PutMessages ==
    ASSUME IInv, TypeOK', NEW a \in Attempts, NEW tier \in Tiers,
           NEW place \in {"jobs", "retry", "dlq"},
           Put(a, tier, place), place = "dlq" <=> tier = 3, tier <= failures[a],
           UNCHANGED failures
    PROVE  /\ DlqIsLastTier' /\ TierIsEarned' /\ BrokerKeeps
           /\ \E c \in Copies : /\ copies'[c].attempt = a /\ copies'[c].tier = tier
                                /\ copies'[c].place # "free"
<1>1. PICK c \in Copies :
        /\ copies[c].place = "free"
        /\ copies'[c].attempt = a /\ copies'[c].tier = tier /\ copies'[c].place = place
        /\ \A d \in Copies \ {c} : copies'[d] = copies[d]
  BY PutCopies DEF IInv, Place
<1> QED
  BY <1>1 DEF IInv, DlqIsLastTier, TierIsEarned, BrokerKeeps

\* A handler in the middle of its work moves to a stage it is entitled to.
Moves(h) ==
    /\ handler[h].stage # "idle"
    /\ Attached(h) /\ handler'[h].stage = "ack" =>
         results'[AttemptOf(h)] # NoResult \/ (Forwarded(h))'
    /\ Attached(h) /\ handler'[h].stage = "forward" =>
         copies[CopyOf(h)].tier < failures'[AttemptOf(h)]

\* Such moves are in order as long as the broker keeps what it holds.
LEMMA HandlerMoves ==
    ASSUME IInv, TypeOK', BrokerKeeps, ResultsKeep, FailuresGrow,
           \A g \in Workers : /\ handler'[g].attempt = handler[g].attempt
                              /\ handler'[g].copy = handler[g].copy
                              /\ handler'[g].open = handler[g].open
                              /\ handler'[g].stage = handler[g].stage \/ Moves(g)
    PROVE  AttachedHoldsCopy' /\ AttachedAreDistinct' /\ AckIsCovered' /\ ForwardIsEarned'
<1>1. \A g \in Workers : (Attached(g))' => Attached(g)
  BY DEF Attached, Moves
<1>2. \A g \in Workers : (AttemptOf(g))' = AttemptOf(g) /\ (CopyOf(g))' = CopyOf(g)
  BY DEF AttemptOf, CopyOf
<1>3. AttachedHoldsCopy'
  BY <1>1, <1>2 DEF IInv, AttachedHoldsCopy, BrokerKeeps
<1>4. AttachedAreDistinct'
  BY <1>1, <1>2 DEF IInv, AttachedAreDistinct
<1>5. \A g \in Workers : Attached(g) =>
        /\ CopyOf(g) \in Copies /\ AttemptOf(g) \in Attempts
        /\ copies'[CopyOf(g)].tier = copies[CopyOf(g)].tier
  BY DEF IInv, TypeOK, Workers, Handler, AttemptOf, AttachedHoldsCopy, BrokerKeeps
<1>6. ASSUME NEW g \in Workers, (Attached(g) /\ At(g, "ack"))'
      PROVE  (results[AttemptOf(g)] # NoResult \/ Forwarded(g))'
  <2>1. CASE Moves(g)
    BY <1>1, <1>2, <1>6, <2>1 DEF At, Moves
  <2>2. CASE handler'[g].stage = handler[g].stage
    <3>1. Attached(g) /\ At(g, "ack")
      BY <1>1, <1>6, <2>2 DEF At
    <3>2. CASE results[AttemptOf(g)] # NoResult
      BY <1>2, <1>5, <3>1, <3>2 DEF ResultsKeep
    <3>3. CASE Forwarded(g)
      BY <1>2, <1>5, <3>1, <3>3 DEF Forwarded, BrokerKeeps
    <3> QED
      BY <3>1, <3>2, <3>3 DEF IInv, AckIsCovered
  <2> QED
    BY <2>1, <2>2
<1>7. ASSUME NEW g \in Workers, (Attached(g) /\ At(g, "forward"))'
      PROVE  (copies[CopyOf(g)].tier < failures[AttemptOf(g)])'
  <2>1. CASE Moves(g)
    BY <1>1, <1>2, <1>5, <1>7, <2>1 DEF At, Moves
  <2>2. CASE handler'[g].stage = handler[g].stage
    <3>1. Attached(g) /\ At(g, "forward")
      BY <1>1, <1>7, <2>2 DEF At
    <3>2. copies[CopyOf(g)].tier < failures[AttemptOf(g)]
      BY <3>1 DEF IInv, ForwardIsEarned
    <3>3. /\ failures[AttemptOf(g)] <= failures'[AttemptOf(g)]
          /\ failures[AttemptOf(g)] \in 0 .. 3 /\ failures'[AttemptOf(g)] \in 0 .. 3
          /\ copies[CopyOf(g)].tier \in 0 .. 3
      BY <1>5, <3>1 DEF IInv, TypeOK, FailuresGrow, Copy, Tiers
    <3> QED
      BY <1>2, <1>5, <3>1, <3>2, <3>3
  <2> QED
    BY <2>1, <2>2
<1> QED
  BY <1>3, <1>4, <1>6, <1>7 DEF AckIsCovered, ForwardIsEarned

LEMMA InvWork ==
    ASSUME IInv, TypeOK', NEW h \in Workers, Work(h)
    PROVE  IInv'
<1> USE DEF history
<1>a. AttemptOf(h) \in Attempts
  BY DEF IInv, TypeOK, Workers, Handler, AttemptOf
<1>s. ASSUME NEW stage \in Stage, Goto(h, stage), Moves(h),
             BrokerKeeps, ResultsKeep, FailuresGrow
      PROVE  AttachedHoldsCopy' /\ AttachedAreDistinct' /\ AckIsCovered' /\ ForwardIsEarned'
  BY <1>s, GotoHandler, HandlerMoves DEF IInv
<1>b. ASSUME UNCHANGED copies, FailuresGrow
      PROVE  DlqIsLastTier' /\ TierIsEarned' /\ BrokerKeeps
  BY <1>b, KeptMessages DEF BrokerKeeps
<1>f. ASSUME UNCHANGED failures PROVE FailuresGrow
  BY <1>f DEF FailuresGrow, IInv, TypeOK
<1>r. ASSUME UNCHANGED results PROVE ResultsKeep
  BY <1>r DEF ResultsKeep
<1>n. ASSUME BrokerKeeps, ResultsKeep, announced' = announced PROVE NothingLost'
  BY <1>n, KeptIsNotLost DEF BrokerKeeps
<1>1. CASE CheckResult(h)
  <2>1. FailuresGrow /\ ResultsKeep /\ announced' = announced
    BY <1>1, <1>f, <1>r DEF CheckResult
  <2>2. DlqIsLastTier' /\ TierIsEarned' /\ BrokerKeeps
    BY <1>1, <1>b, <2>1 DEF CheckResult
  <2>3. PICK stage \in {"ack", "evaluate", "stuck", "idle"} :
          Goto(h, stage) /\ (stage = "ack" => results[AttemptOf(h)] # NoResult)
    BY <1>1 DEF CheckResult, Stuck
  <2>4. handler'[h].stage = stage
    BY <2>3, GotoHandler DEF IInv, Stage
  <2>5. Moves(h)
    BY <1>1, <1>a, <2>1, <2>3, <2>4 DEF Moves, CheckResult, At, ResultsKeep
  <2>6. AttachedHoldsCopy' /\ AttachedAreDistinct' /\ AckIsCovered' /\ ForwardIsEarned'
    BY <1>s, <2>1, <2>2, <2>3, <2>5 DEF Stage
  <2> QED
    BY <1>n, <2>1, <2>2, <2>6 DEF IInv
<1>2. CASE ReadAnswers(h)
  <2>1. FailuresGrow /\ ResultsKeep /\ announced' = announced
    BY <1>2, <1>f, <1>r DEF ReadAnswers
  <2>2. DlqIsLastTier' /\ TierIsEarned' /\ BrokerKeeps
    BY <1>2, <1>b, <2>1 DEF ReadAnswers
  <2>3. \A g \in Workers : /\ handler'[g].attempt = handler[g].attempt
                           /\ handler'[g].copy = handler[g].copy
                           /\ handler'[g].open = handler[g].open
                           /\ g # h => handler'[g].stage = handler[g].stage
    BY <1>2 DEF ReadAnswers, IInv, TypeOK, Workers, Handler
  <2>4. /\ handler'[h].stage \in {"ack", "insert"}
        /\ handler'[h].stage = "ack" => results[AttemptOf(h)] # NoResult
    BY <1>2 DEF ReadAnswers, IInv, TypeOK, Workers, Handler
  <2>5. Moves(h)
    BY <1>2, <1>a, <2>1, <2>4 DEF Moves, ReadAnswers, At, ResultsKeep
  <2>6. AttachedHoldsCopy' /\ AttachedAreDistinct' /\ AckIsCovered' /\ ForwardIsEarned'
    BY <2>1, <2>2, <2>3, <2>5, HandlerMoves
  <2> QED
    BY <1>n, <2>1, <2>2, <2>6 DEF IInv
<1>3. CASE InsertResult(h)
  <2>1. FailuresGrow /\ ResultsKeep /\ announced' = announced
    BY <1>3, <1>f, StoredResult DEF InsertResult, IInv, ResultsKeep
  <2>2. DlqIsLastTier' /\ TierIsEarned' /\ BrokerKeeps
    BY <1>3, <1>b, <2>1 DEF InsertResult
  <2>3. Goto(h, "ack") /\ results'[AttemptOf(h)] # NoResult
    BY <1>3, StoredResult DEF InsertResult, IInv
  <2>4. handler'[h].stage = "ack"
    BY <2>3, GotoHandler DEF IInv, Stage
  <2>5. Moves(h)
    BY <1>3, <2>3, <2>4 DEF Moves, InsertResult, At
  <2>6. AttachedHoldsCopy' /\ AttachedAreDistinct' /\ AckIsCovered' /\ ForwardIsEarned'
    BY <1>s, <2>1, <2>2, <2>3, <2>5 DEF Stage
  <2> QED
    BY <1>n, <2>1, <2>2, <2>6 DEF IInv
<1>4. CASE EvaluationFails(h)
  <2>1. FailuresGrow
    BY <1>4, <1>a DEF EvaluationFails, FailuresGrow, IInv, TypeOK
  <2>2. ResultsKeep /\ announced' = announced
    BY <1>4, <1>r, StoredResult DEF EvaluationFails, IInv, ResultsKeep
  <2>3. DlqIsLastTier' /\ TierIsEarned' /\ BrokerKeeps
    BY <1>4, <1>b, <2>1 DEF EvaluationFails
  <2>4. Goto(h, "forward") /\ handler'[h].stage = "forward"
    BY <1>4, GotoHandler DEF EvaluationFails, IInv, Stage
  <2>5. ASSUME Attached(h)
        PROVE  copies[CopyOf(h)].tier < failures'[AttemptOf(h)]
    <3>1. /\ CopyOf(h) \in Copies /\ copies[CopyOf(h)].place = "held"
          /\ copies[CopyOf(h)].attempt = AttemptOf(h)
      BY <2>5 DEF IInv, AttachedHoldsCopy
    <3>2. /\ copies[CopyOf(h)].tier \in 0 .. 2
          /\ copies[CopyOf(h)].tier <= failures[AttemptOf(h)]
      BY <3>1 DEF IInv, DlqIsLastTier, TierIsEarned, TypeOK, Copy, Tiers
    <3>3. failures'[AttemptOf(h)] = IF failures[AttemptOf(h)] < 3
                                    THEN failures[AttemptOf(h)] + 1 ELSE failures[AttemptOf(h)]
      BY <1>4, <1>a, <2>5 DEF EvaluationFails, Attached, IInv, TypeOK
    <3>4. failures[AttemptOf(h)] \in 0 .. 3
      BY <1>a DEF IInv, TypeOK
    <3> QED
      BY <3>2, <3>3, <3>4
  <2>6. Moves(h)
    BY <1>4, <2>4, <2>5 DEF Moves, EvaluationFails, At
  <2>7. AttachedHoldsCopy' /\ AttachedAreDistinct' /\ AckIsCovered' /\ ForwardIsEarned'
    BY <1>s, <2>1, <2>2, <2>3, <2>4, <2>6 DEF Stage
  <2> QED
    BY <1>n, <2>2, <2>3, <2>7 DEF IInv
<1>5. CASE Forward(h)
  <2> DEFINE tier == copies[CopyOf(h)].tier
  <2>1. FailuresGrow /\ ResultsKeep /\ announced' = announced
    BY <1>5, <1>f, <1>r DEF Forward
  <2>2. Attached(h)
    BY <1>5 DEF Forward, Attached, At
  <2>3. /\ CopyOf(h) \in Copies /\ copies[CopyOf(h)].place = "held"
        /\ tier \in 0 .. 2 /\ tier < failures[AttemptOf(h)]
    BY <1>5, <2>2
    DEF Forward, IInv, AttachedHoldsCopy, ForwardIsEarned, DlqIsLastTier, TypeOK, Copy, Tiers
  <2>4. /\ tier + 1 \in Tiers /\ NextPlace(tier) \in {"jobs", "retry", "dlq"}
        /\ NextPlace(tier) = "dlq" <=> tier + 1 = 3
        /\ tier + 1 <= failures[AttemptOf(h)]
    BY <1>a, <2>3 DEF Tiers, NextPlace, IInv, TypeOK
  <2>5. UNCHANGED failures
    BY <1>5 DEF Forward
  <2>6. ASSUME Put(AttemptOf(h), tier + 1, NextPlace(tier))
        PROVE  /\ DlqIsLastTier' /\ TierIsEarned' /\ BrokerKeeps
               /\ \E c \in Copies : /\ copies'[c].attempt = AttemptOf(h)
                                    /\ copies'[c].tier = tier + 1
                                    /\ copies'[c].place # "free"
    <3> HIDE DEF tier
    <3> QED
      BY <1>a, <2>4, <2>5, <2>6, PutMessages
  <2>7. DlqIsLastTier' /\ TierIsEarned' /\ BrokerKeeps
    BY <1>5, <1>b, <2>1, <2>6 DEF Forward
  <2>8. CASE Goto(h, "ack") /\ Put(AttemptOf(h), tier + 1, NextPlace(tier))
    <3>1. /\ handler'[h].stage = "ack" /\ (AttemptOf(h))' = AttemptOf(h)
          /\ (CopyOf(h))' = CopyOf(h)
      BY <2>8, GotoHandler DEF IInv, Stage, AttemptOf, CopyOf
    <3>2. copies'[CopyOf(h)].tier = tier
      BY <2>3, <2>7 DEF BrokerKeeps
    <3>3. (Forwarded(h))'
      BY <2>3, <2>6, <2>8, <3>1, <3>2 DEF Forwarded
    <3>4. Moves(h)
      BY <1>5, <3>1, <3>3 DEF Moves, Forward, At
    <3>5. AttachedHoldsCopy' /\ AttachedAreDistinct' /\ AckIsCovered' /\ ForwardIsEarned'
      BY <1>s, <2>1, <2>7, <2>8, <3>4 DEF Stage
    <3> QED
      BY <1>n, <2>1, <2>7, <3>5 DEF IInv
  <2>9. CASE Goto(h, "stuck")
    <3>1. handler'[h].stage = "stuck"
      BY <2>9, GotoHandler DEF IInv, Stage
    <3>2. Moves(h)
      BY <1>5, <3>1 DEF Moves, Forward, At
    <3>3. AttachedHoldsCopy' /\ AttachedAreDistinct' /\ AckIsCovered' /\ ForwardIsEarned'
      BY <1>s, <2>1, <2>7, <2>9, <3>2 DEF Stage
    <3> QED
      BY <1>n, <2>1, <2>7, <3>3 DEF IInv
  <2> QED
    BY <1>5, <2>8, <2>9, StagesAfterForward DEF Forward
<1>6. CASE EndDetached(h)
  <2>1. FailuresGrow /\ ResultsKeep /\ announced' = announced
    BY <1>6, <1>f, <1>r DEF EndDetached
  <2>2. DlqIsLastTier' /\ TierIsEarned' /\ BrokerKeeps
    BY <1>6, <1>b, <2>1 DEF EndDetached
  <2>3. Goto(h, "idle") /\ handler'[h].stage = "idle"
    BY <1>6, GotoHandler DEF EndDetached, IInv, Stage
  <2>4. Moves(h)
    BY <1>6, <2>3 DEF Moves, EndDetached, At
  <2>5. AttachedHoldsCopy' /\ AttachedAreDistinct' /\ AckIsCovered' /\ ForwardIsEarned'
    BY <1>s, <2>1, <2>2, <2>3, <2>4 DEF Stage
  <2> QED
    BY <1>n, <2>1, <2>2, <2>5 DEF IInv
<1>7. CASE Ack(h)
  <2> DEFINE done == CopyOf(h)
  <2>1. Attached(h) /\ At(h, "ack")
    BY <1>7 DEF Ack, Attached, At
  <2>2. done \in Copies /\ copies[done].place = "held" /\ copies[done].attempt = AttemptOf(h)
    BY <2>1 DEF IInv, AttachedHoldsCopy
  <2>3. /\ copies'[done].place = "free"
        /\ \A c \in Copies : /\ copies'[c].attempt = copies[c].attempt
                             /\ copies'[c].tier = copies[c].tier
                             /\ c # done => copies'[c].place = copies[c].place
    BY <1>7, <2>2 DEF Ack, IInv, TypeOK, Copy
  <2>4. FailuresGrow /\ UNCHANGED <<results, failures, announced>>
    BY <1>7, <1>f DEF Ack
  <2>5. DlqIsLastTier' /\ TierIsEarned'
    BY <2>2, <2>3, <2>4, KeptMessages
  <2>6. /\ handler'[h].stage = "idle"
        /\ \A g \in Workers : /\ handler'[g].attempt = handler[g].attempt
                              /\ handler'[g].copy = handler[g].copy
                              /\ handler'[g].open = handler[g].open
                              /\ g # h => handler'[g].stage = handler[g].stage
    BY <1>7, GotoHandler DEF Ack, IInv, Stage
  <2>7. \A g \in Workers : (Attached(g))' => Attached(g) /\ g # h /\ CopyOf(g) # done
    BY <2>1, <2>6 DEF Attached, IInv, AttachedAreDistinct
  <2>8. \A g \in Workers : (AttemptOf(g))' = AttemptOf(g) /\ (CopyOf(g))' = CopyOf(g)
    BY <2>6 DEF AttemptOf, CopyOf
  <2>9. AttachedHoldsCopy'
    BY <2>3, <2>7, <2>8 DEF IInv, AttachedHoldsCopy
  <2>10. AttachedAreDistinct'
    BY <2>7, <2>8 DEF IInv, AttachedAreDistinct
  \* What covered another acknowledgement may be acknowledged itself: then it
  \* was covered in turn.
  <2>11. ASSUME NEW g \in Workers, (Attached(g) /\ At(g, "ack"))'
         PROVE  (results[AttemptOf(g)] # NoResult \/ Forwarded(g))'
    <3>1. Attached(g) /\ At(g, "ack") /\ g # h /\ CopyOf(g) # done /\ CopyOf(g) \in Copies
      BY <2>6, <2>7, <2>11 DEF At, IInv, AttachedHoldsCopy
    <3>2. results[AttemptOf(g)] # NoResult \/ Forwarded(g)
      BY <3>1 DEF IInv, AckIsCovered
    <3>3. CASE Forwarded(g) /\ results[AttemptOf(g)] = NoResult
      <4>1. PICK c \in Copies : /\ copies[c].place # "free"
                                /\ copies[c].attempt = AttemptOf(g)
                                /\ copies[CopyOf(g)].tier < copies[c].tier
        BY <3>3 DEF Forwarded
      <4>2. CASE c # done
        BY <2>3, <2>8, <3>1, <4>1, <4>2 DEF Forwarded
      <4>3. CASE c = done
        <5>1. AttemptOf(h) = AttemptOf(g) /\ results[AttemptOf(h)] = NoResult
          BY <2>2, <3>3, <4>1, <4>3
        <5>2. PICK d \in Copies : /\ copies[d].place # "free"
                                  /\ copies[d].attempt = AttemptOf(h)
                                  /\ copies[done].tier < copies[d].tier
          BY <2>1, <5>1 DEF IInv, AckIsCovered, Forwarded
        <5>3. \A x \in Copies : copies[x].tier \in 0 .. 3
          BY DEF IInv, TypeOK, Copy, Tiers
        <5>4. d # done /\ copies[CopyOf(g)].tier < copies[d].tier
          BY <2>2, <3>1, <4>1, <4>3, <5>2, <5>3
        <5> QED
          BY <2>3, <2>8, <3>1, <5>1, <5>2, <5>4 DEF Forwarded
      <4> QED
        BY <4>2, <4>3
    <3> QED
      BY <2>4, <2>8, <3>2, <3>3
  <2>12. ForwardIsEarned'
    BY <2>3, <2>4, <2>6, <2>7, <2>8 DEF IInv, ForwardIsEarned, AttachedHoldsCopy, At
  <2>13. ASSUME NEW a \in announced', results'[a] = NoResult
         PROVE  (InBroker(a))'
    <3>1. a \in announced /\ results[a] = NoResult
      BY <2>4, <2>13
    <3>2. PICK c \in Copies : copies[c].attempt = a /\ copies[c].place # "free"
      BY <3>1 DEF IInv, NothingLost, InBroker
    <3>3. CASE c # done
      BY <2>3, <3>2, <3>3 DEF InBroker
    <3>4. CASE c = done
      <4>1. PICK d \in Copies : /\ copies[d].place # "free" /\ copies[d].attempt = a
                                /\ copies[done].tier < copies[d].tier
        BY <2>1, <2>2, <3>1, <3>2, <3>4 DEF IInv, AckIsCovered, Forwarded
      <4>2. copies[done].tier \in 0 .. 3
        BY <2>2 DEF IInv, TypeOK, Copy, Tiers
      <4>3. d # done
        BY <4>1, <4>2
      <4> QED
        BY <2>3, <4>1, <4>3 DEF InBroker
    <3> QED
      BY <3>3, <3>4
  <2>14. AckIsCovered' /\ NothingLost'
    BY <2>11, <2>13 DEF AckIsCovered, NothingLost
  <2> QED
    BY <2>5, <2>9, <2>10, <2>12, <2>14 DEF IInv
<1> QED
  BY <1>1, <1>2, <1>3, <1>4, <1>5, <1>6, <1>7 DEF Work

\* When the channel closes no handler is attached any more.
LEMMA InvDetached ==
    ASSUME IInv, TypeOK', Requeue, \A h \in Workers : ~handler'[h].open,
           UNCHANGED <<results, failures, announced>>
    PROVE  IInv'
<1>1. \A h \in Workers : ~(Attached(h))'
  BY DEF Attached
<1>2. \A c \in Copies :
        /\ copies'[c].attempt = copies[c].attempt /\ copies'[c].tier = copies[c].tier
        /\ copies'[c].place = "free" <=> copies[c].place = "free"
        /\ copies'[c].place = "dlq" <=> copies[c].place = "dlq"
  BY RequeueCopies DEF IInv
<1>3. FailuresGrow /\ ResultsKeep
  BY DEF FailuresGrow, ResultsKeep, IInv, TypeOK
<1>4. DlqIsLastTier' /\ TierIsEarned'
  BY <1>2, <1>3, KeptMessages
<1>5. NothingLost'
  BY <1>2, <1>3, KeptIsNotLost
<1>6. AttachedHoldsCopy' /\ AttachedAreDistinct' /\ AckIsCovered' /\ ForwardIsEarned'
  BY <1>1 DEF AttachedHoldsCopy, AttachedAreDistinct, AckIsCovered, ForwardIsEarned
<1> QED
  BY <1>4, <1>5, <1>6 DEF IInv

LEMMA InvStep == IInv /\ [Next]_vars => IInv'
<1> SUFFICES ASSUME IInv, [Next]_vars PROVE IInv'
    OBVIOUS
<1> USE DEF history
<1>t. TypeOK'
  BY TypeStep
<1>f. ASSUME UNCHANGED failures PROVE FailuresGrow
  BY <1>f DEF FailuresGrow, IInv, TypeOK
<1>r. ASSUME UNCHANGED results PROVE ResultsKeep
  BY <1>r DEF ResultsKeep
<1>h. ASSUME UNCHANGED <<handler, results, failures>>, BrokerKeeps
      PROVE  AttachedHoldsCopy' /\ AttachedAreDistinct' /\ AckIsCovered' /\ ForwardIsEarned'
  BY <1>t, <1>f, <1>r, <1>h, HandlerMoves
<1>u. ASSUME UNCHANGED <<copies, handler, results, failures, announced>> PROVE IInv'
  <2>1. BrokerKeeps /\ FailuresGrow /\ ResultsKeep
    BY <1>u, <1>f, <1>r DEF BrokerKeeps
  <2>2. DlqIsLastTier' /\ TierIsEarned'
    BY <1>t, <1>u, <2>1, KeptMessages
  <2>3. NothingLost'
    BY <1>u, <2>1, KeptIsNotLost DEF BrokerKeeps
  <2> QED
    BY <1>t, <1>u, <1>h, <2>1, <2>2, <2>3 DEF IInv
<1>1. ASSUME NEW a \in Attempts, Attempt(a) PROVE IInv'
  BY <1>1, <1>u DEF Attempt
<1>2. ASSUME NEW a \in Attempts, PublishAttemptEnded(a) PROVE IInv'
  <2>1. failures[a] \in 0 .. 3 /\ 0 \in Tiers /\ UNCHANGED <<handler, results, failures>>
    BY <1>2 DEF PublishAttemptEnded, IInv, TypeOK, Tiers
  <2>2. /\ DlqIsLastTier' /\ TierIsEarned' /\ BrokerKeeps
        /\ \E c \in Copies : copies'[c].attempt = a /\ copies'[c].place # "free"
    BY <1>2, <1>t, <2>1, PutMessages DEF PublishAttemptEnded
  <2>3. ASSUME NEW b \in announced', results'[b] = NoResult
        PROVE  (InBroker(b))'
    <3>1. CASE b = a
      BY <2>2, <3>1 DEF InBroker
    <3>2. CASE b \in announced
      BY <2>1, <2>2, <2>3, <3>2 DEF IInv, NothingLost, InBroker, BrokerKeeps
    <3> QED
      BY <1>2, <3>1, <3>2 DEF PublishAttemptEnded
  <2> QED
    BY <1>t, <1>h, <2>1, <2>2, <2>3 DEF IInv, NothingLost
<1>3. ASSUME NEW a \in Attempts, PublishFlagRaised(a) PROVE IInv'
  <2>1. /\ failures[a] \in 0 .. 3 /\ 0 \in Tiers
        /\ UNCHANGED <<handler, results, failures, announced>>
    BY <1>3 DEF PublishFlagRaised, IInv, TypeOK, Tiers
  <2>2. DlqIsLastTier' /\ TierIsEarned' /\ BrokerKeeps
    BY <1>3, <1>t, <2>1, PutMessages DEF PublishFlagRaised
  <2>3. NothingLost'
    BY <1>r, <2>1, <2>2, KeptIsNotLost DEF BrokerKeeps
  <2> QED
    BY <1>t, <1>h, <2>1, <2>2, <2>3 DEF IInv
<1>4. ASSUME NEW h \in Handlers, NEW c \in Copies, Receive(h, c) PROVE IInv'
  <2>1. /\ copies[c].place = "jobs" /\ copies'[c].place = "held"
        /\ \A d \in Copies : /\ copies'[d].attempt = copies[d].attempt
                             /\ copies'[d].tier = copies[d].tier
                             /\ d # c => copies'[d].place = copies[d].place
    BY <1>4 DEF Receive, IInv, TypeOK, Copy
  <2>2. /\ handler'[h].stage = "check" /\ handler'[h].copy = c /\ handler'[h].open
        /\ handler'[h].attempt = copies[c].attempt
        /\ \A g \in Workers \ {h} : handler'[g] = handler[g]
    BY <1>4 DEF Receive, IInv, TypeOK, Workers
  <2>3. UNCHANGED <<results, failures, announced>> /\ h \in Workers
    BY <1>4 DEF Receive, Workers
  <2>4. DlqIsLastTier' /\ TierIsEarned'
    BY <1>t, <1>f, <2>1, <2>3, KeptMessages
  <2>5. NothingLost'
    BY <1>r, <2>1, <2>3, KeptIsNotLost
  <2>6. \A g \in Workers \ {h} :
          /\ (Attached(g))' <=> Attached(g)
          /\ (AttemptOf(g))' = AttemptOf(g) /\ (CopyOf(g))' = CopyOf(g)
          /\ \A stage : (At(g, stage))' <=> At(g, stage)
    BY <2>2 DEF Attached, AttemptOf, CopyOf, At
  <2>7. /\ (CopyOf(h))' = c /\ (AttemptOf(h))' = copies[c].attempt
        /\ ~(At(h, "ack"))' /\ ~(At(h, "forward"))'
    BY <2>2 DEF AttemptOf, CopyOf, At
  <2>8. \A g \in Workers : Attached(g) => CopyOf(g) \in Copies \ {c}
    BY <2>1 DEF IInv, AttachedHoldsCopy
  <2>9. AttachedHoldsCopy'
    BY <2>1, <2>6, <2>7, <2>8 DEF IInv, AttachedHoldsCopy
  <2>10. AttachedAreDistinct'
    BY <2>6, <2>7, <2>8 DEF IInv, AttachedAreDistinct
  <2>11. AckIsCovered'
    <3> SUFFICES ASSUME NEW g \in Workers, (Attached(g) /\ At(g, "ack"))'
                 PROVE  (results[AttemptOf(g)] # NoResult \/ Forwarded(g))'
        BY DEF AckIsCovered
    <3>1. g # h /\ Attached(g) /\ At(g, "ack")
      BY <2>6, <2>7
    <3>2. results[AttemptOf(g)] # NoResult \/ Forwarded(g)
      BY <3>1 DEF IInv, AckIsCovered
    <3>3. Forwarded(g) => (Forwarded(g))'
      BY <2>1, <2>6, <2>8, <3>1 DEF Forwarded
    <3> QED
      BY <2>3, <2>6, <3>1, <3>2, <3>3
  <2>12. ForwardIsEarned'
    BY <2>1, <2>3, <2>6, <2>7, <2>8 DEF IInv, ForwardIsEarned
  <2> QED
    BY <1>t, <2>4, <2>5, <2>9, <2>10, <2>11, <2>12 DEF IInv
<1>5. ASSUME NEW v \in Viewers, NEW a \in Attempts, EvaluateOnDemand(v, a) PROVE IInv'
  <2>1. /\ ~handler'[v].open /\ v \in Workers
        /\ \A g \in Workers \ {v} : handler'[g] = handler[g]
    BY <1>5 DEF EvaluateOnDemand, IInv, TypeOK, Workers
  <2>2. UNCHANGED <<copies, results, failures, announced>>
    BY <1>5 DEF EvaluateOnDemand
  <2>3. \A g \in Workers : (Attached(g))' =>
          /\ g # v /\ Attached(g)
          /\ (AttemptOf(g))' = AttemptOf(g) /\ (CopyOf(g))' = CopyOf(g)
          /\ \A stage : (At(g, stage))' <=> At(g, stage)
    BY <2>1 DEF Attached, AttemptOf, CopyOf, At
  <2>4. AttachedHoldsCopy' /\ AttachedAreDistinct' /\ AckIsCovered' /\ ForwardIsEarned'
    BY <2>2, <2>3
    DEF IInv, AttachedHoldsCopy, AttachedAreDistinct, AckIsCovered, ForwardIsEarned, Forwarded
  <2>5. DlqIsLastTier' /\ TierIsEarned' /\ NothingLost'
    BY <2>2 DEF IInv, DlqIsLastTier, TierIsEarned, NothingLost, InBroker
  <2> QED
    BY <1>t, <2>4, <2>5 DEF IInv
<1>6. ASSUME NEW h \in Workers, Work(h) PROVE IInv'
  BY <1>6, <1>t, InvWork
<1>7. ASSUME NEW c \in Copies, RetryExpires(c) PROVE IInv'
  <2>1. /\ copies[c].place = "retry" /\ copies'[c].place = "jobs"
        /\ \A d \in Copies : /\ copies'[d].attempt = copies[d].attempt
                             /\ copies'[d].tier = copies[d].tier
                             /\ d # c => copies'[d].place = copies[d].place
    BY <1>7 DEF RetryExpires, IInv, TypeOK, Copy
  <2>2. UNCHANGED <<handler, results, failures, announced>>
    BY <1>7 DEF RetryExpires
  <2>3. BrokerKeeps
    BY <2>1 DEF BrokerKeeps
  <2>4. DlqIsLastTier' /\ TierIsEarned'
    BY <1>t, <1>f, <2>1, <2>2, KeptMessages
  <2>5. NothingLost'
    BY <1>r, <2>1, <2>2, KeptIsNotLost
  <2> QED
    BY <1>t, <1>h, <2>2, <2>3, <2>4, <2>5 DEF IInv
<1>8. CASE CloseChannel \/ LoseConnection
  BY <1>8, <1>t, InvDetached, DetachHandlers DEF CloseChannel, LoseConnection, Detach, IInv
<1>9. CASE ReconnectTimer \/ ReconnectGivesUp \/ PublisherReconnects
  BY <1>9, <1>u DEF ReconnectTimer, ReconnectGivesUp, PublisherReconnects
<1>10. CASE CrashAndRestart
  <2>1. Requeue /\ UNCHANGED <<results, failures, announced>>
    BY <1>10 DEF CrashAndRestart
  <2> QED
    BY <1>10, <1>t, <2>1, InvDetached, CrashHandlers DEF IInv
<1>11. CASE UNCHANGED vars
  BY <1>11, <1>u DEF vars
<1> QED
  BY <1>1, <1>2, <1>3, <1>4, <1>5, <1>6, <1>7, <1>8, <1>9, <1>10, <1>11 DEF Next, Workers

LEMMA Invariance == Spec => []IInv
<1>1. Init => IInv
  BY InvInit
<1>2. IInv /\ [Next]_vars => IInv'
  BY InvStep
<1> QED
  BY <1>1, <1>2, PTL DEF Spec

(***************************************************************************)
(* Theorems.                                                               *)
(***************************************************************************)
\* The pipeline's state keeps its types, whatever fails; in particular no
\* message is forwarded beyond the last tier.
THEOREM TypeCorrect == Spec => []TypeOK
<1>1. IInv => TypeOK
  BY DEF IInv
<1> QED
  BY <1>1, Invariance, PTL

\* An announced attempt has a result, or a message for it is in the broker:
\* acknowledgement after commit or confirmed forwarding loses nothing.
THEOREM NoMessageLost == Spec => []NothingLost
<1>1. IInv => NothingLost
  BY DEF IInv
<1> QED
  BY <1>1, Invariance, PTL

\* No message is dead-lettered before three evaluations of its attempt failed,
\* however often it was redelivered or forwarded twice.
THEOREM DeadLettering == Spec => []DeadLetteredAfterThreeFailures
<1>1. IInv => DeadLetteredAfterThreeFailures
  <2> SUFFICES ASSUME IInv, NEW c \in Copies, copies[c].place = "dlq"
               PROVE  failures[copies[c].attempt] = 3
      BY DEF DeadLetteredAfterThreeFailures
  <2>1. copies[c].tier = 3 /\ copies[c].tier <= failures[copies[c].attempt]
    BY DEF IInv, DlqIsLastTier, TierIsEarned
  <2>2. failures[copies[c].attempt] \in 0 .. 3
    BY DEF IInv, TypeOK, Copy
  <2> QED
    BY <2>1, <2>2
<1> QED
  BY <1>1, Invariance, PTL

\* A result, once stored, never changes: ON CONFLICT DO NOTHING arbitrates
\* between redeliveries, retries and viewers.
THEOREM ResultStability == Spec => ResultIsStable
<1> DEFINE Stable == \A a \in Attempts : results[a] # NoResult => results'[a] = results[a]
<1>1. IInv /\ [Next]_vars => Stable
  <2> SUFFICES ASSUME IInv, [Next]_vars PROVE Stable
      OBVIOUS
  <2>1. ASSUME NEW h \in Workers, Work(h) PROVE Stable
    <3>1. CASE InsertResult(h) \/ EvaluationFails(h)
      BY <3>1, StoredResult DEF InsertResult, EvaluationFails, IInv
    <3>2. CASE CheckResult(h) \/ ReadAnswers(h) \/ Forward(h) \/ Ack(h) \/ EndDetached(h)
      BY <3>2 DEF CheckResult, ReadAnswers, Forward, Ack, EndDetached
    <3> QED
      BY <2>1, <3>1, <3>2 DEF Work
  <2>2. (\E h \in Workers : Work(h)) \/ UNCHANGED results
    BY DEF Next, Workers, vars, Attempt, PublishAttemptEnded, PublishFlagRaised, Receive,
           EvaluateOnDemand, RetryExpires, CloseChannel, LoseConnection, ReconnectTimer,
           ReconnectGivesUp, PublisherReconnects, CrashAndRestart
  <2> QED
    BY <2>1, <2>2
<1>2. IInv /\ [Next]_vars => [Stable]_vars
  BY <1>1
<1> QED
  BY <1>2, Invariance, PTL DEF Spec, ResultIsStable

(***************************************************************************)
(* Without flags, everything in the pipeline is about ended attempts.      *)
(***************************************************************************)
\* A handler that works on a message and has not yet stored or found a result.
Evaluating(h) ==
    CopyOf(h) # NoCopy /\ handler[h].stage \in {"check", "evaluate", "insert", "forward"}

QueuedHaveEnded ==
    \A c \in Copies : copies[c].place # "free" => phase[copies[c].attempt] = "ENDED"

EvaluatedHaveEnded ==
    \A h \in Workers : Evaluating(h) =>
        /\ phase[AttemptOf(h)] = "ENDED"
        /\ At(h, "insert") => handler[h].read = answers[AttemptOf(h)]

ScoredHaveEnded ==
    \A a \in Attempts : results[a] # NoResult /\ results[a].by = "consumer" =>
        phase[a] = "ENDED" /\ results[a].answers = answers[a]

Late == QueuedHaveEnded /\ EvaluatedHaveEnded /\ ScoredHaveEnded

\* Nothing happens to the answers of an ended attempt.
LEMMA EndedStays ==
    ASSUME TypeOK, NEW a \in Attempts, Attempt(a),
           NEW b \in Attempts, phase[b] = "ENDED"
    PROVE  phase'[b] = "ENDED" /\ answers'[b] = answers[b]
BY DEF Attempt, TypeOK

\* Closing the channel and crashing let no handler evaluate that did not before.
LEMMA ClosedHandlers ==
    ASSUME TypeOK, Detach \/ CrashAndRestart, NEW h \in Workers
    PROVE  /\ handler'[h].attempt = handler[h].attempt
           /\ handler'[h].copy = handler[h].copy
           /\ handler'[h].read = handler[h].read
           /\ handler'[h].stage \in {handler[h].stage, "idle"}
<1>1. handler[h] \in Handler
  BY DEF TypeOK, Workers
<1>2. CASE Detach
  <2>1. handler'[h] = [handler[h] EXCEPT
          !.open = FALSE, !.stage = IF handler[h].stage = "stuck" THEN "idle" ELSE handler[h].stage]
    BY <1>2 DEF Detach, Workers
  <2> QED
    BY <1>1, <2>1 DEF Handler
<1>3. CASE CrashAndRestart
  <2>1. handler'[h] = [handler[h] EXCEPT !.open = FALSE, !.stage = "idle"]
    BY <1>3 DEF CrashAndRestart, Workers
  <2> QED
    BY <1>1, <2>1 DEF Handler
<1> QED
  BY <1>2, <1>3

\* A step of one handler leaves the others alone and keeps its message and reading.
LEMMA LateWork ==
    ASSUME IInv, Late, NEW h \in Workers, Work(h)
    PROVE  Late'
<1> USE DEF IInv, history
<1>a. AttemptOf(h) \in Attempts /\ handler[h] \in Handler
  BY DEF TypeOK, Workers, Handler, AttemptOf
<1>u. phase' = phase /\ answers' = answers
  BY DEF Work, CheckResult, ReadAnswers, InsertResult, EvaluationFails, Forward, Ack, EndDetached
<1>1. CASE CheckResult(h)
  <2>1. \A g \in Workers : Evaluating(g)' =>
          /\ Evaluating(g) /\ AttemptOf(g)' = AttemptOf(g)
          /\ At(g, "insert")' => At(g, "insert") /\ handler'[g].read = handler[g].read
    <3>1. PICK stage \in {"ack", "evaluate", "stuck", "idle"} : Goto(h, stage)
      BY <1>1 DEF CheckResult, Stuck
    <3>2. handler' = [handler EXCEPT ![h].stage = stage]
      BY <3>1 DEF Goto
    <3>3. \A g \in Workers : handler'[g] = IF g = h THEN [handler[h] EXCEPT !.stage = stage]
                                                    ELSE handler[g]
      BY <3>2 DEF TypeOK, Workers
    <3> QED
      BY <1>1, <1>a, <3>3 DEF Evaluating, CopyOf, AttemptOf, At, CheckResult, Handler
  <2> QED
    BY <1>1, <1>u, <2>1
       DEF CheckResult, Late, QueuedHaveEnded, EvaluatedHaveEnded, ScoredHaveEnded
<1>2. CASE ReadAnswers(h)
  <2>1. \A g \in Workers : handler'[g] =
          IF g = h THEN [handler[h] EXCEPT
                           !.stage = IF results[AttemptOf(h)] # NoResult THEN "ack" ELSE "insert",
                           !.read = answers[AttemptOf(h)]]
                   ELSE handler[g]
    BY <1>2 DEF ReadAnswers, TypeOK, Workers
  <2>2. \A g \in Workers : Evaluating(g)' => Evaluating(g) /\ AttemptOf(g)' = AttemptOf(g)
    <3>1. handler'[h].copy = handler[h].copy /\ handler'[h].attempt = handler[h].attempt
      BY <1>a, <2>1, Zenon DEF Handler
    <3>2. handler[h].stage = "evaluate"
      BY <1>2 DEF ReadAnswers, At
    <3>3. \A g \in Workers \ {h} : handler'[g] = handler[g]
      BY <2>1
    <3> QED
      BY <3>1, <3>2, <3>3 DEF Evaluating, CopyOf, AttemptOf
  <2>3. \A g \in Workers : At(g, "insert")' =>
          \/ g # h /\ At(g, "insert") /\ handler'[g].read = handler[g].read
          \/ g = h /\ handler'[g].read = answers[AttemptOf(g)]
    BY <1>a, <2>1 DEF At, Handler
  <2>4. EvaluatedHaveEnded'
    BY <1>u, <2>2, <2>3 DEF Late, EvaluatedHaveEnded
  <2> QED
    BY <1>2, <1>u, <2>4 DEF ReadAnswers, Late, QueuedHaveEnded, ScoredHaveEnded
<1>3. CASE InsertResult(h) \/ EvaluationFails(h)
  <2>1. PICK stage \in {"ack", "forward"} : Goto(h, stage)
    BY <1>3 DEF InsertResult, EvaluationFails
  <2>2. \A g \in Workers : handler'[g] = IF g = h THEN [handler[h] EXCEPT !.stage = stage]
                                                  ELSE handler[g]
    BY <2>1 DEF Goto, TypeOK, Workers
  <2>3. \A g \in Workers : Evaluating(g)' =>
          /\ Evaluating(g) /\ AttemptOf(g)' = AttemptOf(g)
          /\ At(g, "insert")' => At(g, "insert") /\ handler'[g].read = handler[g].read
    BY <1>3, <1>a, <2>2
       DEF Evaluating, CopyOf, AttemptOf, At, InsertResult, EvaluationFails, Handler
  <2>4. EvaluatedHaveEnded'
    BY <1>u, <2>3 DEF Late, EvaluatedHaveEnded
  <2>5. (At(h, "insert") /\ StoreResult(h)) \/ UNCHANGED results
    BY <1>3 DEF InsertResult, EvaluationFails
  <2>6. ScoredHaveEnded'
    <3>1. CASE UNCHANGED results
      BY <1>u, <3>1 DEF Late, ScoredHaveEnded
    <3>2. CASE At(h, "insert") /\ StoreResult(h)
      <4>1. \A a \in Attempts : results'[a] = results[a] \/ (a = AttemptOf(h) /\ results'[a] = Scored(h))
        BY <1>a, <3>2 DEF StoreResult, TypeOK
      <4>2. Scored(h).by = "consumer" =>
              phase[AttemptOf(h)] = "ENDED" /\ Scored(h).answers = answers[AttemptOf(h)]
        BY <3>2 DEF Scored, Evaluating, At, Late, EvaluatedHaveEnded
      <4> QED
        BY <1>u, <4>1, <4>2 DEF Late, ScoredHaveEnded
    <3> QED
      BY <2>5, <3>1, <3>2
  <2>7. copies' = copies
    BY <1>3 DEF InsertResult, EvaluationFails
  <2> QED
    BY <1>u, <2>4, <2>6, <2>7 DEF Late, QueuedHaveEnded
<1>4. CASE Forward(h) \/ Ack(h) \/ EndDetached(h)
  <2>1. PICK stage \in {"ack", "stuck", "idle"} : Goto(h, stage)
    BY <1>4, StagesAfterForward DEF Forward, Ack, EndDetached
  <2>2. \A g \in Workers : handler'[g] = IF g = h THEN [handler[h] EXCEPT !.stage = stage]
                                                  ELSE handler[g]
    BY <2>1 DEF Goto, TypeOK, Workers
  <2>3. \A g \in Workers : Evaluating(g)' => g # h
    BY <1>a, <2>2 DEF Evaluating, Handler
  <2>4. EvaluatedHaveEnded'
    BY <1>u, <2>2, <2>3 DEF Late, EvaluatedHaveEnded, Evaluating, CopyOf, AttemptOf, At
  <2>5. ScoredHaveEnded'
    BY <1>4, <1>u DEF Forward, Ack, EndDetached, Late, ScoredHaveEnded
  <2>6. QueuedHaveEnded'
    <3>1. CASE UNCHANGED copies
      BY <1>u, <3>1 DEF Late, QueuedHaveEnded
    <3>2. CASE Ack(h)
      <4>1. \A c \in Copies : /\ copies'[c].place # "free" => copies[c].place # "free"
                              /\ copies'[c].attempt = copies[c].attempt
        BY <3>2 DEF Ack, TypeOK, Copy
      <4> QED
        BY <1>u, <4>1 DEF Late, QueuedHaveEnded
    <3>3. CASE Forward(h) /\ copies' # copies
      <4>1. /\ CopyOf(h) \in Copies /\ copies[CopyOf(h)].place = "held"
            /\ At(h, "forward")
        BY <3>3 DEF AttachedHoldsCopy, Attached, Forward, At
      <4>2. phase[AttemptOf(h)] = "ENDED"
        BY <4>1, PipelineAssumption DEF Late, EvaluatedHaveEnded, Evaluating, At
      <4> DEFINE tier == copies[CopyOf(h)].tier
      <4>3. tier \in 0 .. 2
        BY <4>1 DEF DlqIsLastTier, TypeOK, Copy, Tiers
      <4>4. tier + 1 \in Tiers /\ NextPlace(tier) \in Place
        BY <4>3 DEF Tiers, NextPlace, Place
      <4>5. Put(AttemptOf(h), tier + 1, NextPlace(tier))
        BY <3>3 DEF Forward
      <4> HIDE DEF tier
      <4>6. \A c \in Copies : copies'[c] = copies[c] \/ copies'[c].attempt = AttemptOf(h)
        BY <1>a, <4>4, <4>5, PutCopies
      <4> QED
        BY <1>u, <4>2, <4>6 DEF Late, QueuedHaveEnded
    <3> QED
      BY <1>4, <3>1, <3>2, <3>3 DEF EndDetached
  <2> QED
    BY <2>4, <2>5, <2>6 DEF Late
<1> QED
  BY <1>1, <1>2, <1>3, <1>4 DEF Work

\* Flags are only ever added, and without one every step keeps the pipeline late.
LEMMA LateStep ==
    ASSUME IInv, Late, [Next]_vars, flags' = 0
    PROVE  Late'
<1> USE DEF IInv, history
<1>1. ASSUME NEW a \in Attempts, Attempt(a) PROVE Late'
  <2>1. /\ copies' = copies /\ handler' = handler /\ results' = results
        /\ \A c \in Copies : copies[c].attempt \in Attempts
        /\ \A h \in Workers : AttemptOf(h) \in Attempts
    BY <1>1 DEF Attempt, TypeOK, Copy, Handler, Workers, AttemptOf
  <2>2. \A b \in Attempts : phase[b] = "ENDED" => phase'[b] = "ENDED" /\ answers'[b] = answers[b]
    BY <1>1, EndedStays
  <2>3. QueuedHaveEnded'
    BY <2>1, <2>2 DEF Late, QueuedHaveEnded
  <2>4. EvaluatedHaveEnded'
    BY <2>1, <2>2 DEF Late, EvaluatedHaveEnded, Evaluating, CopyOf, AttemptOf, At
  <2>5. ScoredHaveEnded'
    BY <2>1, <2>2 DEF Late, ScoredHaveEnded
  <2> QED
    BY <2>3, <2>4, <2>5 DEF Late
<1>2. ASSUME NEW a \in Attempts, PublishAttemptEnded(a) PROVE Late'
  <2>1. \A c \in Copies : copies'[c] = copies[c] \/ copies'[c].attempt = a
    BY <1>2, PutCopies DEF PublishAttemptEnded, Tiers, Place
  <2>2. /\ phase' = phase /\ answers' = answers /\ handler' = handler /\ results' = results
        /\ phase[a] = "ENDED"
    BY <1>2 DEF PublishAttemptEnded
  <2> QED
    BY <2>1, <2>2 DEF Late, QueuedHaveEnded, EvaluatedHaveEnded, ScoredHaveEnded, Evaluating,
                      CopyOf, AttemptOf, At
<1>3. ASSUME NEW a \in Attempts, PublishFlagRaised(a) PROVE Late'
  BY <1>3 DEF PublishFlagRaised, TypeOK
<1>4. ASSUME NEW h \in Handlers, NEW c \in Copies, Receive(h, c) PROVE Late'
  <2>1. /\ phase' = phase /\ answers' = answers /\ results' = results
        /\ copies[c].place = "jobs"
    BY <1>4 DEF Receive
  <2>2. \A d \in Copies : /\ copies'[d].attempt = copies[d].attempt
                          /\ copies'[d].place # "free" => copies[d].place # "free"
    BY <1>4 DEF Receive, TypeOK, Copy
  <2>3. \A g \in Workers : handler'[g] =
          IF g = h THEN [stage |-> "check", attempt |-> copies[c].attempt, copy |-> c,
                         open |-> TRUE, read |-> 0]
                   ELSE handler[g]
    BY <1>4 DEF Receive, TypeOK, Workers
  <2>4. EvaluatedHaveEnded'
    BY <2>1, <2>3 DEF Late, QueuedHaveEnded, EvaluatedHaveEnded, Evaluating, CopyOf, AttemptOf, At
  <2> QED
    BY <2>1, <2>2, <2>4 DEF Late, QueuedHaveEnded, ScoredHaveEnded
<1>5. ASSUME NEW v \in Viewers, NEW a \in Attempts, EvaluateOnDemand(v, a) PROVE Late'
  <2>1. \A g \in Workers : handler'[g] =
          IF g = v THEN [stage |-> "evaluate", attempt |-> a, copy |-> NoCopy,
                         open |-> FALSE, read |-> 0]
                   ELSE handler[g]
    BY <1>5 DEF EvaluateOnDemand, TypeOK, Workers
  <2>2. phase' = phase /\ answers' = answers /\ copies' = copies /\ results' = results
    BY <1>5 DEF EvaluateOnDemand
  <2>3. EvaluatedHaveEnded'
    BY <2>1, <2>2 DEF Late, EvaluatedHaveEnded, Evaluating, CopyOf, AttemptOf, At
  <2> QED
    BY <2>2, <2>3 DEF Late, QueuedHaveEnded, ScoredHaveEnded
<1>6. ASSUME NEW h \in Workers, Work(h) PROVE Late'
  BY <1>6, LateWork
<1>7. ASSUME NEW c \in Copies, RetryExpires(c) PROVE Late'
  <2>1. \A d \in Copies : /\ copies'[d].attempt = copies[d].attempt
                          /\ copies'[d].place # "free" => copies[d].place # "free"
    BY <1>7 DEF RetryExpires, TypeOK, Copy
  <2>2. phase' = phase /\ answers' = answers /\ handler' = handler /\ results' = results
    BY <1>7 DEF RetryExpires
  <2> QED
    BY <2>1, <2>2 DEF Late, QueuedHaveEnded, EvaluatedHaveEnded, ScoredHaveEnded, Evaluating,
                      CopyOf, AttemptOf, At
<1>8. CASE CloseChannel \/ LoseConnection \/ CrashAndRestart
  <2>1. /\ phase' = phase /\ answers' = answers /\ results' = results
        /\ Requeue /\ (Detach \/ CrashAndRestart)
    BY <1>8 DEF CloseChannel, LoseConnection, CrashAndRestart, Detach
  <2>2. \A d \in Copies : /\ copies'[d].attempt = copies[d].attempt
                          /\ copies'[d].place # "free" => copies[d].place # "free"
    BY <2>1, RequeueCopies
  <2>3. \A h \in Workers : /\ handler'[h].attempt = handler[h].attempt
                           /\ handler'[h].copy = handler[h].copy
                           /\ handler'[h].read = handler[h].read
                           /\ handler'[h].stage \in {handler[h].stage, "idle"}
    BY <2>1, ClosedHandlers
  <2>4. EvaluatedHaveEnded'
    BY <2>1, <2>3 DEF Late, EvaluatedHaveEnded, Evaluating, CopyOf, AttemptOf, At
  <2> QED
    BY <2>1, <2>2, <2>4 DEF Late, QueuedHaveEnded, ScoredHaveEnded
<1>9. CASE ReconnectTimer \/ ReconnectGivesUp \/ PublisherReconnects \/ UNCHANGED vars
  <2>1. /\ phase' = phase /\ answers' = answers /\ copies' = copies
        /\ handler' = handler /\ results' = results
    BY <1>9 DEF ReconnectTimer, ReconnectGivesUp, PublisherReconnects, vars
  <2> QED
    BY <2>1 DEF Late, QueuedHaveEnded, EvaluatedHaveEnded, ScoredHaveEnded, Evaluating,
                CopyOf, AttemptOf, At
<1> QED
  BY <1>1, <1>2, <1>3, <1>4, <1>5, <1>6, <1>7, <1>8, <1>9 DEF Next, Workers

\* The consumer never scores an attempt in progress unless a proctoring flag was
\* published: the routing key shared by all event types is the only way.
THEOREM EarlyScoring == Spec => []EarlyScoresNeedFlags
<1> DEFINE LateUntilFlag == flags = 0 => Late
<1>1. Init => LateUntilFlag
  BY DEF Init, Late, QueuedHaveEnded, EvaluatedHaveEnded, ScoredHaveEnded, Evaluating, Workers
<1>2. LateUntilFlag /\ IInv /\ [Next]_vars => LateUntilFlag'
  <2> SUFFICES ASSUME LateUntilFlag, IInv, [Next]_vars, flags' = 0 PROVE Late'
      OBVIOUS
  <2>1. flags = 0
    <3>1. flags \in Nat
      BY DEF IInv, TypeOK
    <3>2. flags' = flags \/ flags' = flags + 1
      BY DEF Next, vars, history, Attempt, PublishAttemptEnded, PublishFlagRaised, Receive,
             EvaluateOnDemand, Work, CheckResult, ReadAnswers, InsertResult, EvaluationFails,
             Forward, Ack, EndDetached, RetryExpires, CloseChannel, LoseConnection,
             ReconnectTimer, ReconnectGivesUp, PublisherReconnects, CrashAndRestart
    <3> QED
      BY <3>1, <3>2
  <2> QED
    BY <2>1, LateStep
<1>3. LateUntilFlag => EarlyScoresNeedFlags
  BY DEF Late, ScoredHaveEnded, EarlyScoresNeedFlags, ConsumerScoresFinalAnswers
<1> QED
  BY <1>1, <1>2, <1>3, Invariance, PTL DEF Spec
==============================================================================
