------------------------- MODULE Interventions_proofs -------------------------
(***************************************************************************)
(* Proofs about Interventions for every set of attempts, requests and keys *)
(* and any bounds.                                                         *)
(***************************************************************************)
EXTENDS Interventions, FiniteSetTheorems, WellFoundedInduction, TLAPS

(***************************************************************************)
(* Type correctness.                                                       *)
(***************************************************************************)
\* The fields of a request being served.
LEMMA RequestFields ==
    ASSUME TypeOK, NEW r \in Requests
    PROVE  /\ \A op \in Commands : Serving(r, op) =>
                 /\ request[r] \in [op : Commands, attempt : Attempts \cup {None}, key : Key,
                                    at : Nat, extension : Nat, read : Nat]
                 /\ request[r].op = op
           /\ Serving(r, "expire") => request[r].attempt \in Attempts
           /\ Serving(r, "signOff") =>
                 /\ request[r] \in [op : {"signOff"}, summary : Summary \cup {None}]
                 /\ request[r].summary \in Summary \cup {None}
<1>1. request[r] \in Request \cup {None} BY DEF TypeOK
<1>. QED BY <1>1 DEF Request, Serving, Commands

\* The fields of the command that commits.
LEMMA CommandFields ==
    ASSUME TypeOK, NEW r \in Requests, CommitCommand(r)
    PROVE  /\ request[r].op \in Commands /\ request[r].attempt \in Attempts \cup {None}
           /\ request[r].key \in Key /\ request[r].at \in Nat /\ request[r].extension \in Nat
           /\ request[r].read \in Nat
<1>1. PICK op \in Commands : Serving(r, op) BY DEF CommitCommand
<1>2. request[r] \in [op : Commands, attempt : Attempts \cup {None}, key : Key,
                      at : Nat, extension : Nat, read : Nat]
  BY <1>1, RequestFields
<1>. QED BY <1>2

\* rows holds the row of a as command c leaves it at ts.
LeavesRow(rows, c, ts, a) ==
    /\ c.attempt # a \/ c.op \in {"WARNING_MESSAGE", "ANNOUNCEMENT"} => rows[a] = attempts[a]
    /\ c.attempt = a =>
         /\ c.op = "PAUSE" => rows[a] = PausedRow(attempts[a], ts)
         /\ c.op = "RESUME" => rows[a] = ResumedRow(attempts[a], ts, c.extension)
         /\ c.op = "TERMINATE" =>
              rows[a] = [attempts[a] EXCEPT !.status = "TERMINATED", !.endedAt = ts]

\* What a command does to the attempts.
LEMMA CommandedRow ==
    ASSUME TypeOK, NEW c, NEW ts \in Nat, c.op \in Commands, c.attempt \in Attempts \cup {None},
           c.extension \in Nat, Accepts(c.op, c.attempt)
    PROVE  /\ Commanded(c, ts) \in [Attempts -> Row]
           /\ \A a \in Attempts : LeavesRow(Commanded(c, ts), c, ts, a)
<1>0. attempts \in [Attempts -> Row] BY DEF TypeOK
<1>1. None \notin Attempts BY InterventionAssumption
<1>2. ASSUME c.attempt \in Attempts, c.op = "RESUME"
      PROVE  attempts[c.attempt].pausedAt \in Nat
  BY <1>0, <1>2 DEF TypeOK, Accepts, StatusOf, Row
<1>3. ASSUME c.attempt \in Attempts
      PROVE  /\ PausedRow(attempts[c.attempt], ts) \in Row
             /\ [attempts[c.attempt] EXCEPT !.status = "TERMINATED", !.endedAt = ts] \in Row
             /\ c.op = "RESUME" => ResumedRow(attempts[c.attempt], ts, c.extension) \in Row
  <2>1. attempts[c.attempt] \in Row BY <1>0, <1>3
  <2>2. PausedRow(attempts[c.attempt], ts) \in Row BY <2>1 DEF Row, PausedRow, Status
  <2>3. [attempts[c.attempt] EXCEPT !.status = "TERMINATED", !.endedAt = ts] \in Row
    BY <2>1 DEF Row, Status
  <2>4. ASSUME c.op = "RESUME" PROVE ResumedRow(attempts[c.attempt], ts, c.extension) \in Row
    <3>. DEFINE d == ts - attempts[c.attempt].pausedAt
                e == c.extension
    <3>1. d \in Int BY <1>2, <1>3, <2>4
    <3>. HIDE DEF d
    <3>2. e \in Int OBVIOUS
    <3>. HIDE DEF e
    <3>3. /\ attempts[c.attempt].expiresAt + d + e \in Int
          /\ attempts[c.attempt].totalPaused + d \in Int
      BY <2>1, <3>1, <3>2 DEF Row
    <3>4. [attempts[c.attempt] EXCEPT !.status = "ACTIVE",
              !.expiresAt = attempts[c.attempt].expiresAt + d + e,
              !.totalPaused = attempts[c.attempt].totalPaused + d, !.pausedAt = None] \in Row
      BY <2>1, <3>3 DEF Row, Status
    <3>. QED BY <3>4 DEF ResumedRow, d, e
  <2>. QED BY <2>2, <2>3, <2>4
<1>. HIDE DEF PausedRow, ResumedRow
<1>4. CASE c.op = "PAUSE" BY <1>0, <1>1, <1>3, <1>4 DEF Commanded, LeavesRow
<1>5. CASE c.op = "RESUME" BY <1>0, <1>1, <1>3, <1>5 DEF Commanded, LeavesRow
<1>6. CASE c.op = "TERMINATE"
  <2>1. Commanded(c, ts) =
          [attempts EXCEPT ![c.attempt] = [attempts[c.attempt] EXCEPT !.status = "TERMINATED",
                                                                      !.endedAt = ts]]
    BY <1>6 DEF Commanded
  <2>. QED BY <1>0, <1>1, <1>3, <1>6, <2>1 DEF LeavesRow
<1>7. CASE c.op \in {"WARNING_MESSAGE", "ANNOUNCEMENT"}
  BY <1>0, <1>7 DEF Commanded, LeavesRow
<1>. QED BY <1>4, <1>5, <1>6, <1>7 DEF Commands

LEMMA TypeInit == Init => TypeOK
<1>. SUFFICES ASSUME Init PROVE TypeOK OBVIOUS
<1>1. NoRow \in Row /\ NoRow.status # "PAUSED" BY DEF NoRow, Row, Status
<1>2. <<>> \in Seq(Entry) /\ <<>> \in Seq(Summary) OBVIOUS
<1>. QED BY <1>1, <1>2 DEF Init, TypeOK

\* Appending to a typed sequence.
LEMMA AppendType == \A S, s, e : s \in Seq(S) /\ e \in S =>
    /\ Append(s, e) \in Seq(S) /\ Len(Append(s, e)) = Len(s) + 1 /\ Len(s) \in Nat
    /\ DOMAIN s = 1 .. Len(s) /\ DOMAIN Append(s, e) = 1 .. Len(s) + 1
    /\ Append(s, e)[Len(s) + 1] = e
    /\ \A i \in 1 .. Len(s) : Append(s, e)[i] = s[i]
  OBVIOUS

\* What the commit of a command does.
LEMMA CommitEffect ==
    ASSUME TypeOK, NEW r \in Requests, CommitCommand(r)
    PROVE  \E ts \in Nat :
             LET c == request[r]
                 e == [type |-> c.op, attempt |-> c.attempt, key |-> c.key,
                       at |-> ts, extension |-> c.extension, read |-> c.read]
             IN  /\ c.at <= ts /\ ts <= now
                 /\ attempts' = Commanded(c, ts) /\ attempts' \in [Attempts -> Row]
                 /\ log' = Append(log, e) /\ e \in Entry /\ log' \in Seq(Entry)
                 /\ log'[Len(log) + 1] = e /\ Len(log') = Len(log) + 1
                 /\ \A i \in 1 .. Len(log) : log'[i] = log[i]
                 /\ request' = [request EXCEPT ![r] = None]
                 /\ UNCHANGED <<concluded, signed, starting, page, forbidden, late, now>>
                 /\ Accepts(c.op, c.attempt)
<1>. DEFINE c == request[r]
<1>1. PICK ts \in c.at .. now :
        /\ attempts' = Commanded(c, ts)
        /\ log' = Append(log, [type |-> c.op, attempt |-> c.attempt, key |-> c.key,
                               at |-> ts, extension |-> c.extension, read |-> c.read])
  BY DEF CommitCommand
<1>2. c.at \in Nat /\ now \in Nat BY CommandFields DEF TypeOK
<1>3. ts \in Nat /\ c.at <= ts /\ ts <= now BY <1>2
<1>. DEFINE e == [type |-> c.op, attempt |-> c.attempt, key |-> c.key,
                  at |-> ts, extension |-> c.extension, read |-> c.read]
<1>4. e \in Entry BY <1>3, CommandFields DEF Entry
<1>5. attempts' \in [Attempts -> Row]
  BY <1>1, <1>3, CommandFields, CommandedRow DEF CommitCommand
<1>6. log \in Seq(Entry) /\ log' = Append(log, e) BY <1>1 DEF TypeOK
<1>7. /\ request' = [request EXCEPT ![r] = None] /\ UNCHANGED <<concluded, signed, starting, page, forbidden, late, now>>
      /\ Accepts(c.op, c.attempt)
  BY DEF CommitCommand, Close, history
<1>8. attempts' = Commanded(c, ts) BY <1>1
<1>9. /\ log' \in Seq(Entry) /\ log'[Len(log) + 1] = e /\ Len(log') = Len(log) + 1
      /\ \A i \in 1 .. Len(log) : log'[i] = log[i]
  <2>. HIDE DEF e
  <2>. QED BY <1>4, <1>6, AppendType
<1>. ts \in Nat BY <1>3
<1>. WITNESS ts \in Nat
<1>. QED BY <1>3, <1>4, <1>5, <1>6, <1>7, <1>8, <1>9

LEMMA CommitRow ==
    ASSUME TypeOK, NEW r \in Requests, CommitCommand(r), NEW ts \in Nat,
           attempts' = Commanded(request[r], ts), NEW a \in Attempts
    PROVE  LeavesRow(attempts', request[r], ts, a)
<1>1. Accepts(request[r].op, request[r].attempt) BY DEF CommitCommand
<1>2. LeavesRow(Commanded(request[r], ts), request[r], ts, a)
  BY <1>1, CommandFields, CommandedRow
<1>. QED BY <1>2

\* What ends an attempt keeps the types of the rows.
LEMMA EndType ==
    ASSUME TypeOK, NEW a \in Attempts, NEW st \in {"EXPIRED", "SUBMITTED"}, End(a, st)
    PROVE  /\ attempts' \in [Attempts -> Row]
           /\ \A b \in Attempts : attempts'[b].status = "PAUSED" => attempts'[b].pausedAt # None
           /\ attempts'[a] = [attempts[a] EXCEPT !.status = st, !.endedAt = now]
           /\ \A b \in Attempts \ {a} : attempts'[b] = attempts[b]
<1>0. attempts[a] \in Row /\ now \in Nat BY DEF TypeOK
<1>1. attempts' = [attempts EXCEPT ![a] = [attempts[a] EXCEPT !.status = st, !.endedAt = now]]
  BY DEF End
<1>2. [attempts[a] EXCEPT !.status = st, !.endedAt = now] \in Row
      /\ [attempts[a] EXCEPT !.status = st, !.endedAt = now].status = st
  BY <1>0 DEF Row, Status
<1>. QED BY <1>1, <1>2 DEF TypeOK

\* An attempt starts, by session id or by exam id.
Starts(a) == StartAttempt(a) \/ StartByExam(a)
Begins(a) == StatusOf(a) = "NONE" /\ attempts' = [attempts EXCEPT ![a] = StartedRow]

LEMMA StartEffect ==
    ASSUME NEW a \in Attempts, Starts(a)
    PROVE  Begins(a) /\ UNCHANGED <<concluded, log, signed, request, page, forbidden, now>>
  BY DEF Starts, StartAttempt, StartByExam, Startable, Begins, history

LEMMA StartedIs ==
    ASSUME now \in Nat
    PROVE  /\ StartedRow \in Row /\ StartedRow.status = "ACTIVE" /\ StartedRow.startedAt = now
           /\ StartedRow.expiresAt = FirstDeadline(now) /\ FirstDeadline(now) \in Nat
           /\ StartedRow.pausedAt = None /\ StartedRow.totalPaused = 0
<1>1. FirstDeadline(now) \in Nat BY InterventionAssumption DEF FirstDeadline
<1>. DEFINE d == FirstDeadline(now)
<1>2. StartedRow = [NoRow EXCEPT !.status = "ACTIVE", !.startedAt = now, !.expiresAt = d]
  BY DEF StartedRow
<1>3. d \in Nat /\ d \in Int BY <1>1
<1>. HIDE DEF d
<1>4. NoRow \in Row /\ NoRow.pausedAt = None /\ NoRow.totalPaused = 0 BY DEF NoRow, Row, Status
<1>. HIDE DEF NoRow
<1>5. LET m == [NoRow EXCEPT !.status = "ACTIVE", !.startedAt = now, !.expiresAt = d]
      IN  /\ m \in Row /\ m.status = "ACTIVE" /\ m.startedAt = now /\ m.expiresAt = d
          /\ m.pausedAt = None /\ m.totalPaused = 0
  BY <1>3, <1>4 DEF Row, Status
<1>. QED BY <1>2, <1>3, <1>5 DEF d

\* What the exam page of an attempt does.
PageActs(a) == \/ LoadPage(a) \/ TimeExpired(a) \/ SubmitAttempt(a)
               \/ TelemetryRefused(a) \/ SubmitRefused(a)

LEMMA PageEffect ==
    ASSUME NEW a \in Attempts, PageActs(a)
    PROVE  UNCHANGED <<concluded, log, signed, request, starting, late, now>>
  BY DEF PageActs, LoadPage, TimeExpired, SubmitAttempt, TelemetryRefused, SubmitRefused, history

\* Every step of the system preserves the types.
LEMMA TypeStep == TypeOK /\ [Next]_vars => TypeOK'
<1>. SUFFICES ASSUME TypeOK, [Next]_vars PROVE TypeOK' OBVIOUS
<1>1. ASSUME NEW r \in Requests, NEW op \in Commands, NEW a \in Attempts \cup {None},
             NEW key \in Key, NEW x \in Extensions, CheckCommand(r, op, a, key, x)
      PROVE  TypeOK'
  <2>1. Len(log) \in Nat /\ now \in Nat /\ x \in Nat
    BY InterventionAssumption DEF TypeOK
  <2>2. [op |-> op, attempt |-> a, key |-> key, at |-> now, extension |-> x, read |-> Len(log)]
          \in Request
    BY <2>1 DEF Request
  <2>. QED BY <1>1, <2>2 DEF CheckCommand, TypeOK, history
<1>2. ASSUME NEW r \in Requests, CommitCommand(r) PROVE TypeOK'
  <2>. DEFINE c == request[r]
  <2>1. PICK ts \in Nat : /\ attempts' = Commanded(c, ts) /\ attempts' \in [Attempts -> Row]
                          /\ log' \in Seq(Entry) /\ request' = [request EXCEPT ![r] = None]
                          /\ UNCHANGED <<concluded, signed, starting, page, forbidden, late, now>>
                          /\ Accepts(c.op, c.attempt)
    BY <1>2, CommitEffect
  <2>2. ASSUME NEW a \in Attempts, attempts'[a].status = "PAUSED" PROVE attempts'[a].pausedAt # None
    <3>1. LeavesRow(attempts', c, ts, a) BY <1>2, <2>1, CommitRow
    <3>2. attempts[a] \in Row /\ None \notin Nat BY InterventionAssumption DEF TypeOK
    <3>3. PausedRow(attempts[a], ts).pausedAt # None BY <3>2 DEF PausedRow, Row
    <3>4. ResumedRow(attempts[a], ts, c.extension).status = "ACTIVE"
      BY <3>2 DEF ResumedRow, Row
    <3>5. [attempts[a] EXCEPT !.status = "TERMINATED", !.endedAt = ts].status = "TERMINATED"
      BY <3>2 DEF Row
    <3>6. attempts'[a] = attempts[a] => attempts'[a].pausedAt # None BY <2>2 DEF TypeOK
    <3>7. c.op \in Commands BY <1>2, CommandFields
    <3>. HIDE DEF c
    <3>. QED BY <2>2, <3>1, <3>3, <3>4, <3>5, <3>6, <3>7 DEF Commands, LeavesRow
  <2>3. request' \in [Requests -> Request \cup {None}] BY <2>1 DEF TypeOK
  <2>. QED BY <2>1, <2>2, <2>3 DEF TypeOK
<1>3. ASSUME NEW r \in Requests, \/ RollBack(r) \/ LockSession(r)
                                 \/ \E a \in Attempts : ReadPastDeadline(r, a)
      PROVE  TypeOK'
  <2>1. UNCHANGED <<attempts, concluded, log, signed, starting, page, forbidden, late, now>>
    BY <1>3 DEF RollBack, LockSession, ReadPastDeadline, history
  <2>2. \E v \in Request \cup {None} : request' = [request EXCEPT ![r] = v]
    BY <1>3 DEF RollBack, LockSession, ReadPastDeadline, Close, Request
  <2>. QED BY <2>1, <2>2 DEF TypeOK
<1>4. ASSUME NEW r \in Requests, Summarize(r) PROVE TypeOK'
  <2>. DEFINE s == [st \in {"SUBMITTED", "TERMINATED", "ACTIVE", "PAUSED"} |->
                      {a \in Attempts : StatusOf(a) = st}]
  <2>1. s \in Summary BY DEF Summary
  <2>2. request' = [request EXCEPT ![r] = [request[r] EXCEPT !.summary = s]]
        /\ UNCHANGED <<attempts, concluded, log, signed, starting, page, forbidden, late, now>>
    BY <1>4 DEF Summarize, history
  <2>. HIDE DEF s
  <2>3. [request[r] EXCEPT !.summary = s] \in Request
    <3>1. request[r] \in [op : {"signOff"}, summary : Summary \cup {None}]
      BY <1>4, RequestFields DEF Summarize, SigningOff
    <3>. QED BY <2>1, <3>1 DEF Request
  <2>. QED BY <2>2, <2>3 DEF TypeOK
<1>5. ASSUME NEW r \in Requests, CommitSignOff(r) PROVE TypeOK'
  <2>1. request[r].summary \in Summary
    BY <1>5, RequestFields DEF CommitSignOff, SigningOff
  <2>2. signed' \in Seq(Summary)
    <3>. HIDE DEF Summary
    <3>1. signed \in Seq(Summary) BY DEF TypeOK
    <3>. QED BY <1>5, <2>1, <3>1, AppendType DEF CommitSignOff
  <2>. QED BY <1>5, <2>2 DEF CommitSignOff, Close, TypeOK, history
<1>6. ASSUME NEW r \in Requests, ApplyLazyExpiration(r) PROVE TypeOK'
  <2>1. request[r].attempt \in Attempts BY <1>6, RequestFields DEF ApplyLazyExpiration
  <2>2. End(request[r].attempt, "EXPIRED") BY <1>6 DEF ApplyLazyExpiration
  <2>3. request' = [request EXCEPT ![r] = None] 
        /\ UNCHANGED <<concluded, log, signed, starting, page, forbidden, late, now>>
    BY <1>6 DEF ApplyLazyExpiration, Close, history
  <2>4. request' \in [Requests -> Request \cup {None}] BY <2>3 DEF TypeOK
  <2>. QED BY <2>1, <2>2, <2>3, <2>4, EndType DEF TypeOK
<1>7. ASSUME NEW a \in Attempts, StartAttempt(a) \/ StartByExam(a) \/ FindSession(a)
      PROVE  TypeOK'
  <2>1. starting' \subseteq Attempts
    BY <1>7 DEF StartAttempt, StartByExam, FindSession, TypeOK
  <2>2. CASE FindSession(a) BY <2>1, <2>2 DEF FindSession, TypeOK, history
  <2>3. CASE Starts(a)
    <3>1. Begins(a) /\ UNCHANGED <<concluded, log, signed, request, page, forbidden, now>>
      BY <2>3, StartEffect
    <3>2. StartedRow \in Row /\ StartedRow.status = "ACTIVE" BY StartedIs DEF TypeOK
    <3>3. late' \in [Attempts -> Nat]
      <4>1. Len(signed) \in Nat BY DEF TypeOK
      <4>2. SummariesTaken \in Nat BY <4>1 DEF SummariesTaken
      <4>. QED BY <2>3, <4>2 DEF Starts, StartAttempt, StartByExam, TypeOK, history
    <3>. QED BY <2>1, <3>1, <3>2, <3>3 DEF TypeOK, Begins
  <2>. QED BY <1>7, <2>2, <2>3 DEF Starts
<1>8. ASSUME NEW a \in Attempts, PageActs(a) PROVE TypeOK'
  <2>0. attempts[a] \in Row /\ now \in Nat BY DEF TypeOK
  <2>1. page' \in [Attempts -> Page \cup {None}]
    <3>1. CASE LoadPage(a)
      <4>. DEFINE t == IF StatusOf(a) = "ACTIVE" THEN "on" ELSE "off"
      <4>1. [expiresAt |-> attempts[a].expiresAt, latched |-> FALSE, telemetry |-> t] \in Page
        BY <2>0 DEF Page, Row
      <4>. QED BY <3>1, <4>1 DEF LoadPage, TypeOK
    <3>2. CASE ~LoadPage(a)
      <4>1. page[a] \in Page
        BY <1>8, <3>2 DEF PageActs, TimeExpired, TelemetryRefused, SubmitRefused, SubmitAttempt, TypeOK
      <4>2. \E v \in Page \cup {None} : page' = [page EXCEPT ![a] = v]
        <5>1. CASE TimeExpired(a)
          <6>1. \A t \in {"off", "on", "refused", "forbidden"} :
                  [page[a] EXCEPT !.latched = TRUE, !.telemetry = t] \in Page
            BY <4>1 DEF Page
          <6>2. page[a].telemetry \in {"off", "on", "refused", "forbidden"} BY <4>1 DEF Page
          <6>3. \/ page' = [page EXCEPT ![a] = None]
                \/ \E t \in {"off", "on", "refused", "forbidden"} :
                      page' = [page EXCEPT ![a] =
                                 [page[a] EXCEPT !.latched = TRUE, !.telemetry = t]]
            BY <4>1, <5>1, <6>2 DEF TimeExpired
          <6>. QED BY <6>1, <6>3
        <5>2. CASE TelemetryRefused(a) \/ SubmitRefused(a)
          <6>1. \A t \in {"off", "on", "refused", "forbidden"} :
                  [page[a] EXCEPT !.telemetry = t] \in Page
            BY <4>1 DEF Page
          <6>2. \/ page' = [page EXCEPT ![a] = None]
                \/ \E t \in {"off", "on", "refused", "forbidden"} :
                      page' = [page EXCEPT ![a] = [page[a] EXCEPT !.telemetry = t]]
            BY <5>2 DEF TelemetryRefused, SubmitRefused
          <6>. QED BY <6>1, <6>2
        <5>3. CASE SubmitAttempt(a) BY <5>3 DEF SubmitAttempt
        <5>. QED BY <1>8, <3>2, <5>1, <5>2, <5>3 DEF PageActs
      <4>. QED BY <4>2 DEF TypeOK
    <3>. QED BY <3>1, <3>2
  <2>2. attempts' = attempts \/ \E st \in {"EXPIRED", "SUBMITTED"} : End(a, st)
    BY <1>8 DEF PageActs, LoadPage, TimeExpired, TelemetryRefused, SubmitRefused, SubmitAttempt
  <2>3. UNCHANGED <<concluded, log, signed, request, starting, late, now>>
    BY <1>8, PageEffect
  <2>4. forbidden' \subseteq Attempts
    BY <1>8 DEF PageActs, LoadPage, TimeExpired, TelemetryRefused, SubmitRefused, SubmitAttempt,
                history, TypeOK
  <2>. QED BY <2>1, <2>2, <2>3, <2>4, EndType DEF TypeOK
<1>9. CASE Tick BY <1>9 DEF Tick, TypeOK, history
<1>10. CASE UNCHANGED vars BY <1>10 DEF vars, TypeOK, history
<1>. QED BY <1>1, <1>2, <1>3, <1>4, <1>5, <1>6, <1>7, <1>8, <1>9, <1>10 DEF Next, PageActs

\* Every reachable state is well typed; in particular a PAUSED attempt says since when.
THEOREM TypeCorrect == Spec => []TypeOK
  BY TypeInit, TypeStep, PTL DEF Spec

(***************************************************************************)
(* Idempotency keys.                                                       *)
(***************************************************************************)
InCommand(r) == \E op \in Commands : Serving(r, op)

\* A step checks a command, commits one, or leaves the log and the other commands alone.
LEMMA StepKinds ==
    ASSUME TypeOK, [Next]_vars
    PROVE  \/ \E r \in Requests, op \in Commands, a \in Attempts \cup {None}, key \in Key,
                 x \in Extensions : CheckCommand(r, op, a, key, x)
           \/ \E r \in Requests : CommitCommand(r)
           \/ /\ log' = log /\ now <= now'
              /\ \A r \in Requests : InCommand(r)' => InCommand(r) /\ request'[r] = request[r]
<1>0. now \in Nat /\ \A r \in Requests : InCommand(r) <=> request[r] # None /\ request[r].op \in Commands
  BY DEF InCommand, Serving, TypeOK
<1>1. ASSUME NEW r \in Requests, NEW v, request' = [request EXCEPT ![r] = v],
             v = None \/ v.op \notin Commands, log' = log, now' = now
      PROVE  /\ log' = log /\ now <= now'
             /\ \A s \in Requests : InCommand(s)' => InCommand(s) /\ request'[s] = request[s]
  BY <1>0, <1>1 DEF TypeOK, InCommand, Serving
<1>2. ASSUME NEW r \in Requests, RollBack(r) \/ CommitSignOff(r) \/ ApplyLazyExpiration(r)
      PROVE  /\ request' = [request EXCEPT ![r] = None] /\ log' = log /\ now' = now
  BY <1>2 DEF RollBack, CommitSignOff, ApplyLazyExpiration, Close
<1>3. ASSUME NEW r \in Requests, LockSession(r) \/ (\E a \in Attempts : ReadPastDeadline(r, a))
      PROVE  \E v : /\ request' = [request EXCEPT ![r] = v] /\ v.op \notin Commands
                    /\ log' = log /\ now' = now
  BY <1>3 DEF LockSession, ReadPastDeadline, Commands
<1>4. ASSUME NEW r \in Requests, Summarize(r)
      PROVE  \E v : /\ request' = [request EXCEPT ![r] = v] /\ v.op \notin Commands
                    /\ log' = log /\ now' = now
  <2>1. request[r] \in [op : {"signOff"}, summary : Summary \cup {None}]
    BY <1>4, RequestFields DEF Summarize, SigningOff
  <2>. DEFINE n == [st \in {"SUBMITTED", "TERMINATED", "ACTIVE", "PAUSED"} |->
                      {a \in Attempts : StatusOf(a) = st}]
  <2>2. request' = [request EXCEPT ![r] = [request[r] EXCEPT !.summary = n]]
        /\ log' = log /\ now' = now
    BY <1>4 DEF Summarize
  <2>. HIDE DEF n
  <2>3. [request[r] EXCEPT !.summary = n].op = "signOff" BY <2>1
  <2>. QED BY <2>2, <2>3 DEF Commands
<1>5. ASSUME \/ \E a \in Attempts : \/ Starts(a) \/ FindSession(a)
                                    \/ PageActs(a)
             \/ Tick \/ UNCHANGED vars
      PROVE  log' = log /\ request' = request /\ now <= now'
  BY <1>0, <1>5, StartEffect, PageEffect DEF FindSession, Tick, vars
<1>6. request' = request => \A r \in Requests : InCommand(r)' => InCommand(r) /\ request'[r] = request[r]
  BY DEF InCommand, Serving
<1>7. ASSUME NEW r \in Requests, \/ RollBack(r) \/ CommitSignOff(r) \/ ApplyLazyExpiration(r)
                                 \/ LockSession(r) \/ (\E a \in Attempts : ReadPastDeadline(r, a))
                                 \/ Summarize(r)
      PROVE  /\ log' = log /\ now <= now'
             /\ \A s \in Requests : InCommand(s)' => InCommand(s) /\ request'[s] = request[s]
  BY <1>1, <1>2, <1>3, <1>4, <1>7
<1>8. \/ \E r \in Requests, op \in Commands, a \in Attempts \cup {None}, key \in Key,
            x \in Extensions : CheckCommand(r, op, a, key, x)
      \/ \E r \in Requests : CommitCommand(r)
      \/ \E r \in Requests : \/ RollBack(r) \/ CommitSignOff(r) \/ ApplyLazyExpiration(r)
                             \/ LockSession(r) \/ (\E a \in Attempts : ReadPastDeadline(r, a))
                             \/ Summarize(r)
      \/ \E a \in Attempts : Starts(a) \/ FindSession(a) \/ PageActs(a)
      \/ Tick \/ UNCHANGED vars
  BY Zenon DEF Next, PageActs, Starts
<1>. QED BY <1>5, <1>6, <1>7, <1>8

\* What a running command remembers of the log, and of the clock.
CommandsHold ==
    \A r \in Requests : InCommand(r) =>
        /\ request[r].read <= Len(log) /\ request[r].at <= now
        /\ \A i \in 1 .. request[r].read : log[i].at <= request[r].at
        /\ request[r].key # NoKey =>
             \A i \in DOMAIN log :
                log[i].key = request[r].key /\ log[i].attempt = request[r].attempt
                  => request[r].read < i
LogHolds == /\ \A i \in DOMAIN log : log[i].at <= now
            /\ KeyLoggedTwiceOnlyByOverlap

LEMMA LogType ==
    ASSUME log \in Seq(Entry)
    PROVE  /\ Len(log) \in Nat /\ DOMAIN log = 1 .. Len(log)
           /\ \A i \in DOMAIN log : log[i] \in Entry /\ log[i].at \in Nat
<1>1. \A S, l : l \in Seq(S) => /\ Len(l) \in Nat /\ DOMAIN l = 1 .. Len(l)
                                /\ \A i \in DOMAIN l : l[i] \in S
  OBVIOUS
<1>2. \A e \in Entry : e.at \in Nat BY DEF Entry
<1>. QED BY <1>1, <1>2

LEMMA KeysStep ==
    ASSUME TypeOK, CommandsHold, LogHolds, [Next]_vars
    PROVE  CommandsHold' /\ LogHolds'
<1>0. /\ log \in Seq(Entry) /\ Len(log) \in Nat /\ DOMAIN log = 1 .. Len(log) /\ now \in Nat
      /\ \A i \in DOMAIN log : log[i] \in Entry /\ log[i].at \in Nat
  BY LogType DEF TypeOK
<1>1. ASSUME NEW r \in Requests, NEW op \in Commands, NEW a \in Attempts \cup {None},
             NEW key \in Key, NEW x \in Extensions, CheckCommand(r, op, a, key, x)
      PROVE  CommandsHold' /\ LogHolds'
  <2>. DEFINE c == [op |-> op, attempt |-> a, key |-> key, at |-> now, extension |-> x,
                    read |-> Len(log)]
  <2>1. request' = [request EXCEPT ![r] = c] /\ log' = log /\ now' = now /\ ~Known(op, a, key)
    BY <1>1 DEF CheckCommand
  <2>2. \A s \in Requests : request'[s] = IF s = r THEN c ELSE request[s]
    BY <2>1 DEF TypeOK
  <2>3. key # NoKey => \A i \in DOMAIN log : ~(log[i].key = key /\ log[i].attempt = a)
    BY <2>1 DEF Known
  <2>4. ASSUME NEW s \in Requests, InCommand(s)'
        PROVE  (/\ request[s].read <= Len(log) /\ request[s].at <= now
                /\ \A i \in 1 .. request[s].read : log[i].at <= request[s].at
                /\ request[s].key # NoKey =>
                     \A i \in DOMAIN log :
                        log[i].key = request[s].key /\ log[i].attempt = request[s].attempt
                          => request[s].read < i)'
    <3>1. CASE s = r
      <4>1. \A i \in DOMAIN log : log[i].at <= now BY DEF LogHolds
      <4>. QED BY <1>0, <2>1, <2>2, <2>3, <3>1, <4>1
    <3>2. CASE s # r
      <4>1. InCommand(s) BY <2>2, <2>4, <3>2 DEF InCommand, Serving
      <4>. QED BY <2>1, <2>2, <3>2, <4>1 DEF CommandsHold
    <3>. QED BY <3>1, <3>2
  <2>. QED BY <2>1, <2>4 DEF CommandsHold, LogHolds, KeyLoggedTwiceOnlyByOverlap
<1>2. ASSUME NEW r \in Requests, CommitCommand(r) PROVE CommandsHold' /\ LogHolds'
  <2>. DEFINE c == request[r]
  <2>1. PICK ts \in Nat :
          LET e == [type |-> c.op, attempt |-> c.attempt, key |-> c.key,
                    at |-> ts, extension |-> c.extension, read |-> c.read]
          IN  /\ c.at <= ts /\ ts <= now /\ log' \in Seq(Entry)
              /\ log'[Len(log) + 1] = e /\ Len(log') = Len(log) + 1
              /\ \A i \in 1 .. Len(log) : log'[i] = log[i]
              /\ request' = [request EXCEPT ![r] = None]
              /\ now' = now
    BY <1>2, CommitEffect
  <2>2. DOMAIN log' = 1 .. Len(log) + 1 BY <2>1, <1>0
  <2>3. \A s \in Requests : InCommand(s)' => InCommand(s) /\ request'[s] = request[s]
    BY <2>1 DEF InCommand, Serving, TypeOK
  <2>4. InCommand(r) BY <1>2 DEF CommitCommand, InCommand
  <2>5. /\ log'[Len(log) + 1].at = ts /\ log'[Len(log) + 1].key = c.key
        /\ log'[Len(log) + 1].attempt = c.attempt /\ log'[Len(log) + 1].read = c.read
    BY <2>1
  <2>6. CommandsHold'
    <3>. SUFFICES ASSUME NEW s \in Requests, InCommand(s)'
                  PROVE  (/\ request[s].read <= Len(log) /\ request[s].at <= now
                          /\ \A i \in 1 .. request[s].read : log[i].at <= request[s].at
                          /\ request[s].key # NoKey =>
                               \A i \in DOMAIN log :
                                  log[i].key = request[s].key /\ log[i].attempt = request[s].attempt
                                    => request[s].read < i)'
      BY DEF CommandsHold
    <3>1. InCommand(s) /\ request'[s] = request[s] BY <2>3
    <3>2. request[s].read \in Nat BY <3>1, RequestFields DEF InCommand
    <3>3. /\ request[s].read <= Len(log) /\ request[s].at <= now
          /\ \A i \in 1 .. request[s].read : log[i].at <= request[s].at
          /\ request[s].key # NoKey =>
               \A i \in DOMAIN log :
                  log[i].key = request[s].key /\ log[i].attempt = request[s].attempt
                    => request[s].read < i
      BY <3>1 DEF CommandsHold
    <3>4. \A i \in 1 .. request[s].read : i \in 1 .. Len(log) BY <1>0, <3>2, <3>3
    <3>5. \A i \in DOMAIN log' : i \in DOMAIN log \/ request[s].read < i
      BY <1>0, <2>2, <3>2, <3>3
    <3>. QED BY <1>0, <2>1, <3>1, <3>2, <3>3, <3>4, <3>5
  <2>7. \A i \in DOMAIN log' : log'[i].at <= now'
    BY <1>0, <2>1, <2>2, <2>5 DEF LogHolds
  <2>8. KeyLoggedTwiceOnlyByOverlap'
    <3>. SUFFICES ASSUME NEW i \in DOMAIN log', NEW j \in DOMAIN log',
                         i < j, log'[i].key # NoKey, log'[i].key = log'[j].key,
                         log'[i].attempt = log'[j].attempt
                  PROVE  log'[j].read < i
      BY DEF KeyLoggedTwiceOnlyByOverlap
    <3>1. i \in 1 .. Len(log) /\ log'[i] = log[i] BY <1>0, <2>1, <2>2
    <3>2. CASE j = Len(log) + 1
      BY <1>0, <2>4, <2>5, <3>1, <3>2 DEF CommandsHold
    <3>3. CASE j # Len(log) + 1
      <4>1. j \in 1 .. Len(log) /\ log'[j] = log[j] BY <1>0, <2>1, <2>2, <3>3
      <4>. QED BY <1>0, <3>1, <4>1 DEF LogHolds, KeyLoggedTwiceOnlyByOverlap
    <3>. QED BY <3>2, <3>3
  <2>. QED BY <2>6, <2>7, <2>8 DEF LogHolds
<1>3. ASSUME log' = log, now <= now',
             \A r \in Requests : InCommand(r)' => InCommand(r) /\ request'[r] = request[r]
      PROVE  CommandsHold' /\ LogHolds'
  <2>1. now' \in Nat BY TypeStep DEF TypeOK
  <2>2. \A r \in Requests : InCommand(r) => request[r].at \in Nat
    BY RequestFields DEF InCommand
  <2>3. CommandsHold' BY <1>0, <1>3, <2>1, <2>2 DEF CommandsHold
  <2>4. \A i \in DOMAIN log' : log'[i].at <= now' BY <1>0, <1>3, <2>1 DEF LogHolds
  <2>. QED BY <1>3, <2>3, <2>4 DEF LogHolds, KeyLoggedTwiceOnlyByOverlap
<1>. QED BY <1>1, <1>2, <1>3, StepKinds

LEMMA KeysInit == Init => CommandsHold /\ LogHolds
  BY DEF Init, CommandsHold, LogHolds, KeyLoggedTwiceOnlyByOverlap, InCommand, Serving

LEMMA KeysInvariance == Spec => [](CommandsHold /\ LogHolds)
<1>1. TypeOK /\ (CommandsHold /\ LogHolds) /\ [Next]_vars => (CommandsHold /\ LogHolds)'
  BY KeysStep
<1>. QED BY <1>1, KeysInit, TypeCorrect, PTL DEF Spec

\* A key is logged twice for an attempt only by commands that overlapped, however
\* many requests and retries there are (findInterventionByIdempotencyKey).
THEOREM KeysOverlap == Spec => []KeyLoggedTwiceOnlyByOverlap
<1>1. LogHolds => KeyLoggedTwiceOnlyByOverlap BY DEF LogHolds
<1>. QED BY <1>1, KeysInvariance, PTL

(***************************************************************************)
(* What becomes of an attempt, its page and its lazy expirations.          *)
(***************************************************************************)
\* The commands that write the row of an attempt ask for a status that it still has.
LEMMA RowStep ==
    ASSUME TypeOK, [Next]_vars, NEW a \in Attempts
    PROVE  \/ Starts(a)
           \/ attempts'[a] = attempts[a]
           \/ \E r \in Requests : /\ CommitCommand(r) /\ request[r].attempt = a
                                  /\ request[r].op = "RESUME" /\ StatusOf(a) = "PAUSED"
                                  /\ StatusOf(a)' = "ACTIVE"
           \/ /\ StatusOf(a) \in {"ACTIVE", "PAUSED"}
              /\ \/ StatusOf(a)' \in {"TERMINATED", "SUBMITTED"}
                 \/ StatusOf(a)' = "PAUSED" /\ \E r \in Requests : CommitCommand(r)
              /\ attempts'[a].expiresAt = attempts[a].expiresAt
           \/ /\ StatusOf(a)' = "EXPIRED" /\ attempts'[a].endedAt = now
              /\ attempts'[a].expiresAt = attempts[a].expiresAt
              /\ \/ \E r \in Requests : Serving(r, "expire") /\ request[r].attempt = a
                 \/ StatusOf(a) = "ACTIVE" /\ page[a] # None /\ TimeIsUp(a)
                 \/ StatusOf(a) = "ACTIVE" /\ page[a] # None /\ page[a].telemetry = "refused"
                 \/ StatusOf(a) = "ACTIVE" /\ attempts[a].expiresAt <= now
                 \/ a \in forbidden'
<1>0. attempts[a] \in Row /\ now \in Nat BY DEF TypeOK
<1>1. ASSUME NEW r \in Requests, CommitCommand(r)
      PROVE  \/ attempts'[a] = attempts[a]
             \/ /\ CommitCommand(r) /\ request[r].attempt = a
                /\ request[r].op = "RESUME" /\ StatusOf(a) = "PAUSED" /\ StatusOf(a)' = "ACTIVE"
             \/ /\ StatusOf(a) \in {"ACTIVE", "PAUSED"}
                /\ StatusOf(a)' \in {"PAUSED", "TERMINATED"}
                /\ attempts'[a].expiresAt = attempts[a].expiresAt
  <2>. DEFINE c == request[r]
  <2>1. PICK ts \in Nat : attempts' = Commanded(c, ts) BY <1>1, CommitEffect
  <2>2. LeavesRow(attempts', c, ts, a) BY <1>1, <2>1, CommitRow
  <2>3. c.op \in Commands /\ Accepts(c.op, c.attempt)
    BY <1>1, CommandFields DEF CommitCommand
  <2>. HIDE DEF c
  <2>4. CASE c.attempt # a \/ c.op \in {"WARNING_MESSAGE", "ANNOUNCEMENT"}
    BY <2>2, <2>4 DEF LeavesRow
  <2>5. CASE c.attempt = a /\ c.op = "PAUSE"
    <3>1. attempts'[a] = PausedRow(attempts[a], ts) BY <2>2, <2>5 DEF LeavesRow
    <3>2. /\ PausedRow(attempts[a], ts).status = "PAUSED"
          /\ PausedRow(attempts[a], ts).expiresAt = attempts[a].expiresAt
      BY <1>0 DEF PausedRow, Row
    <3>3. StatusOf(a) = "ACTIVE" BY <2>3, <2>5 DEF Accepts
    <3>. QED BY <3>1, <3>2, <3>3 DEF StatusOf
  <2>6. CASE c.attempt = a /\ c.op = "RESUME"
    <3>1. attempts'[a] = ResumedRow(attempts[a], ts, c.extension) BY <2>2, <2>6 DEF LeavesRow
    <3>2. ResumedRow(attempts[a], ts, c.extension).status = "ACTIVE"
      BY <1>0 DEF ResumedRow, Row
    <3>3. StatusOf(a) = "PAUSED" BY <2>3, <2>6 DEF Accepts
    <3>. QED BY <1>1, <2>6, <3>1, <3>2, <3>3 DEF StatusOf, c
  <2>7. CASE c.attempt = a /\ c.op = "TERMINATE"
    <3>1. attempts'[a] = [attempts[a] EXCEPT !.status = "TERMINATED", !.endedAt = ts]
      BY <2>2, <2>7 DEF LeavesRow
    <3>2. attempts'[a].status = "TERMINATED" /\ attempts'[a].expiresAt = attempts[a].expiresAt
      BY <1>0, <3>1 DEF Row
    <3>3. StatusOf(a) \in {"ACTIVE", "PAUSED"} BY <2>3, <2>7 DEF Accepts
    <3>. QED BY <3>2, <3>3 DEF StatusOf
  <2>. QED BY <2>3, <2>4, <2>5, <2>6, <2>7 DEF Commands
<1>2. ASSUME NEW b \in Attempts, NEW st \in {"EXPIRED", "SUBMITTED"}, End(b, st)
      PROVE  \/ attempts'[a] = attempts[a]
             \/ /\ b = a /\ StatusOf(a)' = st /\ attempts'[a].endedAt = now
                /\ attempts'[a].expiresAt = attempts[a].expiresAt
  <2>1. b = a => attempts'[a] = [attempts[a] EXCEPT !.status = st, !.endedAt = now]
    BY <1>2, EndType
  <2>2. b # a => attempts'[a] = attempts[a] BY <1>2, EndType
  <2>. QED BY <1>0, <2>1, <2>2 DEF Row, StatusOf
<1>3. ASSUME NEW r \in Requests, ApplyLazyExpiration(r)
      PROVE  \/ attempts'[a] = attempts[a]
             \/ /\ StatusOf(a)' = "EXPIRED" /\ attempts'[a].endedAt = now
                /\ attempts'[a].expiresAt = attempts[a].expiresAt
                /\ Serving(r, "expire") /\ request[r].attempt = a
  <2>1. Serving(r, "expire") /\ End(request[r].attempt, "EXPIRED")
    BY <1>3 DEF ApplyLazyExpiration
  <2>2. request[r].attempt \in Attempts BY <2>1, RequestFields
  <2>. QED BY <1>2, <2>1, <2>2
<1>4. ASSUME NEW b \in Attempts, TimeExpired(b)
      PROVE  \/ attempts'[a] = attempts[a]
             \/ /\ StatusOf(a)' = "EXPIRED" /\ attempts'[a].endedAt = now
                /\ attempts'[a].expiresAt = attempts[a].expiresAt
                /\ StatusOf(a) = "ACTIVE" /\ page[a] # None /\ TimeIsUp(a)
  <2>1. page[b] # None /\ TimeIsUp(b) BY <1>4 DEF TimeExpired
  <2>2. CASE StatusOf(b) = "ACTIVE"
    <3>1. End(b, "EXPIRED") BY <1>4, <2>2, Zenon DEF TimeExpired
    <3>. QED BY <1>2, <2>1, <2>2, <3>1
  <2>3. CASE StatusOf(b) # "ACTIVE" BY <1>4, <2>3 DEF TimeExpired
  <2>. QED BY <2>2, <2>3
<1>5. ASSUME NEW b \in Attempts, SubmitAttempt(b)
      PROVE  \/ attempts'[a] = attempts[a]
             \/ /\ StatusOf(a) = "ACTIVE" /\ StatusOf(a)' = "SUBMITTED"
                /\ attempts'[a].expiresAt = attempts[a].expiresAt
             \/ /\ StatusOf(a)' = "EXPIRED" /\ attempts'[a].endedAt = now
                /\ attempts'[a].expiresAt = attempts[a].expiresAt
                /\ StatusOf(a) = "ACTIVE" /\ attempts[a].expiresAt <= now
  <2>1. /\ StatusOf(b) = "ACTIVE"
        /\ \/ attempts[b].expiresAt <= now /\ End(b, "EXPIRED")
           \/ End(b, "SUBMITTED")
    BY <1>5 DEF SubmitAttempt
  <2>. QED BY <1>2, <2>1
<1>6. ASSUME NEW b \in Attempts, Starts(b), b # a PROVE attempts'[a] = attempts[a]
  BY <1>6, StartEffect DEF Begins, TypeOK
<1>10. ASSUME NEW b \in Attempts, SubmitRefused(b)
      PROVE  \/ attempts'[a] = attempts[a]
             \/ /\ StatusOf(a)' = "EXPIRED" /\ attempts'[a].endedAt = now
                /\ attempts'[a].expiresAt = attempts[a].expiresAt
                /\ \/ StatusOf(a) = "ACTIVE" /\ page[a] # None /\ page[a].telemetry = "refused"
                   \/ a \in forbidden'
  <2>1. \/ attempts' = attempts
        \/ /\ StatusOf(b) = "ACTIVE" /\ End(b, "EXPIRED") /\ page[b] # None
           /\ page[b].telemetry = "refused" \/ b \in forbidden'
    BY <1>10 DEF SubmitRefused
  <2>. QED BY <1>2, <2>1
<1>7. ASSUME NEW r \in Requests,
             \/ \E op \in Commands, b \in Attempts \cup {None}, key \in Key, x \in Extensions :
                   CheckCommand(r, op, b, key, x)
             \/ RollBack(r) \/ LockSession(r) \/ Summarize(r) \/ CommitSignOff(r)
             \/ \E b \in Attempts : ReadPastDeadline(r, b)
      PROVE  attempts' = attempts
  BY <1>7 DEF CheckCommand, RollBack, LockSession, Summarize, CommitSignOff, ReadPastDeadline
<1>8. ASSUME \/ \E b \in Attempts : LoadPage(b) \/ TelemetryRefused(b) \/ FindSession(b)
             \/ Tick \/ UNCHANGED vars
      PROVE  attempts' = attempts
  BY <1>8 DEF LoadPage, TelemetryRefused, FindSession, Tick, vars
<1>9. \/ \E r \in Requests : CommitCommand(r) \/ ApplyLazyExpiration(r)
      \/ \E b \in Attempts : TimeExpired(b) \/ SubmitAttempt(b) \/ SubmitRefused(b)
      \/ \E b \in Attempts : Starts(b)
      \/ attempts' = attempts
  BY <1>7, <1>8, Zenon DEF Next, Starts
<1>. QED BY <1>1, <1>3, <1>4, <1>5, <1>6, <1>9, <1>10

\* How a page comes to show what it shows.
LEMMA PageStep ==
    ASSUME TypeOK, [Next]_vars, NEW a \in Attempts, page'[a] # None
    PROVE  \/ page'[a] = page[a]
           \/ /\ attempts' = attempts /\ StatusOf(a) # "NONE"
              /\ page'[a].expiresAt = attempts[a].expiresAt /\ ~page'[a].latched
              /\ page'[a].telemetry # "refused"
           \/ /\ attempts' = attempts /\ page[a] # None /\ page'[a].expiresAt = page[a].expiresAt
              /\ now' = now
              /\ page'[a].latched => page[a].latched \/ page[a].expiresAt <= now
              /\ page'[a].telemetry = "refused" =>
                   \/ page[a].telemetry = "refused"
                   \/ StatusOf(a) # "ACTIVE" \/ attempts[a].expiresAt <= now
<1>0. now \in Nat /\ \A b \in Attempts : attempts[b].expiresAt \in Int BY DEF TypeOK, Row
<1>1. ASSUME NEW b \in Attempts, LoadPage(b)
      PROVE  \/ page'[a] = page[a]
             \/ /\ attempts' = attempts /\ StatusOf(a) # "NONE"
                /\ page'[a].expiresAt = attempts[a].expiresAt /\ ~page'[a].latched
                /\ page'[a].telemetry # "refused"
  <2>1. StatusOf(b) # "NONE" BY <1>1 DEF LoadPage
  <2>2. attempts' = attempts
        /\ page' = [page EXCEPT ![b] =
             [expiresAt |-> attempts[b].expiresAt, latched |-> FALSE,
              telemetry |-> IF StatusOf(b) = "ACTIVE" THEN "on" ELSE "off"]]
    BY <1>1 DEF LoadPage
  <2>. QED BY <2>1, <2>2 DEF TypeOK
<1>2. ASSUME NEW b \in Attempts, TimeExpired(b)
      PROVE  \/ page'[a] = page[a]
             \/ /\ attempts' = attempts /\ page[a] # None /\ page'[a].expiresAt = page[a].expiresAt
                /\ now' = now /\ page[a].expiresAt <= now
                /\ page'[a].telemetry = "refused" => page[a].telemetry = "refused"
  <2>1. page[b] \in Page BY <1>2 DEF TimeExpired, TypeOK
  <2>2. page[b] # None /\ page[b].expiresAt <= now /\ now' = now
    BY <1>0, <1>2, <2>1 DEF TimeExpired, TimeIsUp, Page
  <2>. DEFINE t == IF page[b].telemetry = "on" THEN "off" ELSE page[b].telemetry
  <2>3. \/ page' = [page EXCEPT ![b] = None]
        \/ attempts' = attempts
           /\ page' = [page EXCEPT ![b] = [page[b] EXCEPT !.latched = TRUE, !.telemetry = t]]
    BY <1>2, <2>1 DEF TimeExpired
  <2>4. t = "refused" => page[b].telemetry = "refused" OBVIOUS
  <2>. HIDE DEF t
  <2>5. /\ [page[b] EXCEPT !.latched = TRUE, !.telemetry = t].expiresAt = page[b].expiresAt
        /\ [page[b] EXCEPT !.latched = TRUE, !.telemetry = t].telemetry = t
    BY <2>1 DEF Page
  <2>. QED BY <2>2, <2>3, <2>4, <2>5 DEF TypeOK
<1>3. ASSUME NEW b \in Attempts, TelemetryRefused(b) \/ SubmitRefused(b)
      PROVE  \/ page'[a] = page[a]
             \/ /\ attempts' = attempts /\ page[a] # None /\ page'[a].expiresAt = page[a].expiresAt
                /\ now' = now /\ page'[a].latched = page[a].latched
                /\ page'[a].telemetry = "refused" =>
                     StatusOf(a) # "ACTIVE" \/ attempts[a].expiresAt <= now
  <2>1. page[b] \in Page BY <1>3 DEF TelemetryRefused, SubmitRefused, TypeOK
  <2>2. \/ page' = [page EXCEPT ![b] = None]
        \/ \E t \in {"off", "on", "refused", "forbidden"} :
             /\ attempts' = attempts /\ now' = now /\ page[b] # None
             /\ page' = [page EXCEPT ![b] = [page[b] EXCEPT !.telemetry = t]]
             /\ t = "refused" => StatusOf(b) # "ACTIVE" \/ attempts[b].expiresAt <= now
    BY <1>0, <1>3 DEF TelemetryRefused, SubmitRefused
  <2>3. \A t \in {"off", "on", "refused", "forbidden"} :
          /\ [page[b] EXCEPT !.telemetry = t].expiresAt = page[b].expiresAt
          /\ [page[b] EXCEPT !.telemetry = t].latched = page[b].latched
          /\ [page[b] EXCEPT !.telemetry = t].telemetry = t
    BY <2>1 DEF Page
  <2>. QED BY <2>2, <2>3 DEF TypeOK
<1>4. ASSUME NEW b \in Attempts, SubmitAttempt(b) PROVE page'[a] = page[a]
  BY <1>4 DEF SubmitAttempt, TypeOK
<1>5. ASSUME NEW r \in Requests,
             \/ \E op \in Commands, b \in Attempts \cup {None}, key \in Key, x \in Extensions :
                   CheckCommand(r, op, b, key, x)
             \/ CommitCommand(r) \/ RollBack(r) \/ LockSession(r) \/ Summarize(r)
             \/ CommitSignOff(r) \/ (\E b \in Attempts : ReadPastDeadline(r, b))
             \/ ApplyLazyExpiration(r)
      PROVE  page' = page
  BY <1>5 DEF CheckCommand, CommitCommand, RollBack, LockSession, Summarize, CommitSignOff,
              ReadPastDeadline, ApplyLazyExpiration
<1>6. ASSUME \/ \E b \in Attempts : Starts(b) \/ FindSession(b)
             \/ Tick \/ UNCHANGED vars
      PROVE  page' = page
  BY <1>6, StartEffect DEF FindSession, Tick, vars
<1>7. \/ \E b \in Attempts : LoadPage(b) \/ TimeExpired(b) \/ SubmitAttempt(b)
      \/ \E b \in Attempts : TelemetryRefused(b) \/ SubmitRefused(b)
      \/ page' = page
  BY <1>5, <1>6, Zenon DEF Next, Starts
<1>. QED BY <1>1, <1>2, <1>3, <1>4, <1>7

\* A lazy expiration is decided when the row is read past its deadline.
LEMMA ExpireStep ==
    ASSUME TypeOK, [Next]_vars, NEW r \in Requests, Serving(r, "expire")'
    PROVE  \/ Serving(r, "expire") /\ request'[r] = request[r]
           \/ LET a == request'[r].attempt IN
              /\ attempts' = attempts /\ StatusOf(a) = "ACTIVE"
              /\ attempts[a].expiresAt <= now /\ now' = now
<1>1. ASSUME NEW s \in Requests, NEW a \in Attempts, ReadPastDeadline(s, a)
      PROVE  \/ Serving(r, "expire") /\ request'[r] = request[r]
             \/ /\ request'[r].attempt = a /\ attempts' = attempts /\ StatusOf(a) = "ACTIVE"
                /\ attempts[a].expiresAt <= now /\ now' = now
  <2>1. /\ request' = [request EXCEPT ![s] = [op |-> "expire", attempt |-> a]]
        /\ attempts' = attempts /\ StatusOf(a) = "ACTIVE" /\ now >= attempts[a].expiresAt
        /\ now' = now
    BY <1>1 DEF ReadPastDeadline
  <2>2. attempts[a].expiresAt \in Int /\ now \in Nat BY DEF TypeOK, Row
  <2>. QED BY <2>1, <2>2 DEF Serving, TypeOK
<1>2. ASSUME NEW s \in Requests, NEW v, request' = [request EXCEPT ![s] = v],
             v = None \/ v.op # "expire"
      PROVE  Serving(r, "expire") /\ request'[r] = request[r]
  BY <1>2 DEF Serving, TypeOK
<1>3. ASSUME NEW s \in Requests, NEW op \in Commands, NEW a \in Attempts \cup {None},
             NEW key \in Key, NEW x \in Extensions, CheckCommand(s, op, a, key, x)
      PROVE  Serving(r, "expire") /\ request'[r] = request[r]
  BY <1>2, <1>3 DEF CheckCommand, Commands
<1>4. ASSUME NEW s \in Requests, \/ RollBack(s) \/ CommitSignOff(s) \/ ApplyLazyExpiration(s)
                                 \/ CommitCommand(s)
      PROVE  Serving(r, "expire") /\ request'[r] = request[r]
  <2>1. request' = [request EXCEPT ![s] = None]
    BY <1>4 DEF RollBack, CommitSignOff, ApplyLazyExpiration, CommitCommand, Close
  <2>. QED BY <1>2, <2>1
<1>5. ASSUME NEW s \in Requests, LockSession(s)
      PROVE  Serving(r, "expire") /\ request'[r] = request[r]
  BY <1>2, <1>5 DEF LockSession
<1>6. ASSUME NEW s \in Requests, Summarize(s)
      PROVE  Serving(r, "expire") /\ request'[r] = request[r]
  <2>. DEFINE n == [st \in {"SUBMITTED", "TERMINATED", "ACTIVE", "PAUSED"} |->
                      {a \in Attempts : StatusOf(a) = st}]
  <2>1. request' = [request EXCEPT ![s] = [request[s] EXCEPT !.summary = n]]
    BY <1>6 DEF Summarize
  <2>2. request[s] \in [op : {"signOff"}, summary : Summary \cup {None}]
    BY <1>6, RequestFields DEF Summarize, SigningOff
  <2>. HIDE DEF n
  <2>3. [request[s] EXCEPT !.summary = n].op = "signOff" BY <2>2
  <2>. QED BY <1>2, <2>1, <2>3
<1>7. ASSUME \/ \E b \in Attempts : \/ Starts(b) \/ FindSession(b)
                                    \/ PageActs(b)
             \/ Tick \/ UNCHANGED vars
      PROVE  request' = request
  BY <1>7, StartEffect, PageEffect DEF FindSession, Tick, vars
<1>8. request' = request => Serving(r, "expire") /\ request'[r] = request[r] BY DEF Serving
<1>9. \/ \E s \in Requests, op \in Commands, a \in Attempts \cup {None}, key \in Key,
            x \in Extensions : CheckCommand(s, op, a, key, x)
      \/ \E s \in Requests, a \in Attempts : ReadPastDeadline(s, a)
      \/ \E s \in Requests : \/ RollBack(s) \/ CommitSignOff(s) \/ ApplyLazyExpiration(s)
                             \/ CommitCommand(s)
      \/ \E s \in Requests : LockSession(s) \/ Summarize(s)
      \/ request' = request
  BY <1>7, Zenon DEF Next, PageActs, Starts
<1>. QED BY <1>1, <1>3, <1>4, <1>5, <1>6, <1>8, <1>9

\* The log only grows, and a committed resume is in it.
LEMMA EntriesStep ==
    ASSUME TypeOK, [Next]_vars, NEW a \in Attempts, NEW T
    PROVE  /\ EntriesOf(a, T) \subseteq {i \in DOMAIN log' : log'[i].attempt = a /\ log'[i].type \in T}
           /\ \A r \in Requests :
                CommitCommand(r) /\ request[r].attempt = a /\ request[r].op \in T =>
                  {i \in DOMAIN log' : log'[i].attempt = a /\ log'[i].type \in T} # {}
<1>0. DOMAIN log = 1 .. Len(log) /\ Len(log) \in Nat BY LogType DEF TypeOK
<1>1. ASSUME NEW r \in Requests, CommitCommand(r)
      PROVE  /\ EntriesOf(a, T) \subseteq {i \in DOMAIN log' : log'[i].attempt = a /\ log'[i].type \in T}
             /\ request[r].attempt = a /\ request[r].op \in T =>
                  {i \in DOMAIN log' : log'[i].attempt = a /\ log'[i].type \in T} # {}
  <2>. DEFINE c == request[r]
  <2>1. PICK ts \in Nat :
          LET e == [type |-> c.op, attempt |-> c.attempt, key |-> c.key,
                    at |-> ts, extension |-> c.extension, read |-> c.read]
          IN  /\ log' \in Seq(Entry)
              /\ log'[Len(log) + 1] = e /\ Len(log') = Len(log) + 1
              /\ \A i \in 1 .. Len(log) : log'[i] = log[i]
    BY <1>1, CommitEffect
  <2>2. DOMAIN log' = 1 .. Len(log) + 1 BY <1>0, <2>1
  <2>3. log'[Len(log) + 1].type = c.op /\ log'[Len(log) + 1].attempt = c.attempt BY <2>1
  <2>4. Len(log) + 1 \in DOMAIN log' /\ DOMAIN log \subseteq DOMAIN log' BY <1>0, <2>2
  <2>. HIDE DEF c
  <2>5. \A i \in EntriesOf(a, T) : i \in DOMAIN log' /\ log'[i].attempt = a /\ log'[i].type \in T
    BY <1>0, <2>1, <2>4 DEF EntriesOf
  <2>6. c.attempt = a /\ c.op \in T =>
          Len(log) + 1 \in {i \in DOMAIN log' : log'[i].attempt = a /\ log'[i].type \in T}
    BY <2>3, <2>4
  <2>7. c.attempt = a /\ c.op \in T =>
          {i \in DOMAIN log' : log'[i].attempt = a /\ log'[i].type \in T} # {}
    BY <2>6
  <2>. QED BY <2>5, <2>7 DEF c
<1>2. CASE \E r \in Requests : CommitCommand(r) BY <1>1, <1>2
<1>3. CASE ~\E r \in Requests : CommitCommand(r)
  <2>1. log' = log BY <1>3, StepKinds DEF CheckCommand
  <2>. QED BY <1>3, <2>1 DEF EntriesOf
<1>. QED BY <1>2, <1>3

\* A page, and a lazy expiration, know the deadline as long as nothing was resumed.
PagesHold ==
    /\ \A r \in Requests : Serving(r, "expire") => StatusOf(request[r].attempt) # "NONE"
    /\ \A a \in Attempts :
         /\ page[a] # None => StatusOf(a) # "NONE"
         /\ EntriesOf(a, {"RESUME"}) = {} =>
              /\ page[a] # None =>
                   /\ page[a].expiresAt = attempts[a].expiresAt
                   /\ page[a].latched => attempts[a].expiresAt <= now
                   /\ page[a].telemetry = "refused" =>
                        StatusOf(a) # "ACTIVE" \/ attempts[a].expiresAt <= now
              /\ StatusOf(a) = "EXPIRED" /\ a \notin forbidden =>
                    attempts[a].expiresAt <= attempts[a].endedAt
              /\ \A r \in Requests : Serving(r, "expire") /\ request[r].attempt = a =>
                    attempts[a].expiresAt <= now

\* Time passes, and the attempts that a 403 ended stay known.
LEMMA OnlyGrows ==
    ASSUME TypeOK, [Next]_vars
    PROVE  now \in Nat /\ now' \in Nat /\ now <= now' /\ forbidden \subseteq forbidden'
<1>0. now \in Nat BY DEF TypeOK
<1>1. ASSUME NEW r \in Requests,
             \/ \E op \in Commands, b \in Attempts \cup {None}, key \in Key, x \in Extensions :
                   CheckCommand(r, op, b, key, x)
             \/ CommitCommand(r) \/ RollBack(r) \/ LockSession(r) \/ Summarize(r)
             \/ CommitSignOff(r) \/ (\E b \in Attempts : ReadPastDeadline(r, b))
             \/ ApplyLazyExpiration(r)
      PROVE  now' = now /\ forbidden' = forbidden
  BY <1>1 DEF CheckCommand, CommitCommand, RollBack, LockSession, Summarize, CommitSignOff,
              ReadPastDeadline, ApplyLazyExpiration, history
<1>2. ASSUME NEW a \in Attempts, PageActs(a) PROVE now' = now /\ forbidden \subseteq forbidden'
  BY <1>2 DEF PageActs, LoadPage, TimeExpired, TelemetryRefused, SubmitRefused, SubmitAttempt,
              history
<1>3. ASSUME \/ \E a \in Attempts : Starts(a) \/ FindSession(a)
             \/ Tick \/ UNCHANGED vars
      PROVE  (now' = now \/ now' = now + 1) /\ forbidden' = forbidden
  BY <1>3, StartEffect DEF FindSession, Tick, vars, history
<1>4. \/ \E a \in Attempts : PageActs(a)
      \/ (now' = now \/ now' = now + 1) /\ forbidden' = forbidden
  BY <1>1, <1>3, Zenon DEF Next, PageActs, Starts
<1>. QED BY <1>0, <1>2, <1>4

LEMMA PagesStep == ASSUME TypeOK, PagesHold, [Next]_vars PROVE PagesHold'
<1>0. /\ now \in Nat /\ now' \in Nat /\ now <= now'
      /\ \A a \in Attempts : attempts[a].expiresAt \in Int
  <2>. QED BY OnlyGrows DEF TypeOK, Row
<1>6. \A a \in Attempts : a \in forbidden => a \in forbidden' BY OnlyGrows
<1>1. ASSUME NEW r \in Requests, Serving(r, "expire")'
      PROVE  request'[r].attempt \in Attempts
  <2>1. request'[r] \in Request \cup {None} BY TypeStep DEF TypeOK
  <2>. QED BY <1>1, <2>1 DEF Request, Serving, Commands
<1>2. ASSUME NEW a \in Attempts, StatusOf(a) # "NONE"
      PROVE  /\ StatusOf(a)' # "NONE" /\ ~Starts(a)
  <2>1. ~Starts(a) BY <1>2, StartEffect DEF Begins
  <2>. QED BY <1>2, <2>1, RowStep DEF StatusOf
<1>3. ASSUME NEW r \in Requests, Serving(r, "expire")' PROVE (StatusOf(request[r].attempt) # "NONE")'
  <2>1. PICK b \in Attempts : b = request'[r].attempt BY <1>1, <1>3
  <2>2. StatusOf(b) # "NONE"
    <3>1. CASE Serving(r, "expire") /\ request'[r] = request[r] BY <2>1, <3>1 DEF PagesHold
    <3>2. CASE ~(Serving(r, "expire") /\ request'[r] = request[r]) BY <1>3, <2>1, <3>2, ExpireStep
    <3>. QED BY <3>1, <3>2
  <2>3. StatusOf(b)' # "NONE" BY <1>2, <2>2
  <2>. QED BY <2>1, <2>3 DEF StatusOf
<1>4. ASSUME NEW a \in Attempts, page'[a] # None PROVE StatusOf(a)' # "NONE"
  <2>1. StatusOf(a) # "NONE" BY <1>4, PageStep DEF PagesHold
  <2>. QED BY <1>2, <2>1
<1>5. ASSUME NEW a \in Attempts, EntriesOf(a, {"RESUME"})' = {}
      PROVE  (/\ page[a] # None =>
                   /\ page[a].expiresAt = attempts[a].expiresAt
                   /\ page[a].latched => attempts[a].expiresAt <= now
                   /\ page[a].telemetry = "refused" =>
                        StatusOf(a) # "ACTIVE" \/ attempts[a].expiresAt <= now
              /\ StatusOf(a) = "EXPIRED" /\ a \notin forbidden =>
                    attempts[a].expiresAt <= attempts[a].endedAt
              /\ \A r \in Requests : Serving(r, "expire") /\ request[r].attempt = a =>
                    attempts[a].expiresAt <= now)'
  <2>1. {i \in DOMAIN log' : log'[i].attempt = a /\ log'[i].type \in {"RESUME"}} = {}
    BY <1>5 DEF EntriesOf
  <2>2. /\ EntriesOf(a, {"RESUME"}) = {}
        /\ ~\E r \in Requests : /\ CommitCommand(r) /\ request[r].attempt = a
                                /\ request[r].op = "RESUME"
    BY <2>1, EntriesStep
  <2>3. /\ page[a] # None =>
             /\ page[a].expiresAt = attempts[a].expiresAt
             /\ page[a].latched => attempts[a].expiresAt <= now
             /\ page[a].telemetry = "refused" =>
                  StatusOf(a) # "ACTIVE" \/ attempts[a].expiresAt <= now
        /\ StatusOf(a) = "EXPIRED" /\ a \notin forbidden =>
              attempts[a].expiresAt <= attempts[a].endedAt
        /\ \A r \in Requests : Serving(r, "expire") /\ request[r].attempt = a =>
              attempts[a].expiresAt <= now
        /\ page[a] # None => StatusOf(a) # "NONE"
        /\ \A r \in Requests : Serving(r, "expire") /\ request[r].attempt = a => StatusOf(a) # "NONE"
    BY <2>2 DEF PagesHold
  <2>4. StatusOf(a) # "NONE" => attempts'[a].expiresAt = attempts[a].expiresAt
    BY <1>2, <2>2, RowStep
  <2>8. StatusOf(a) \notin {"NONE", "ACTIVE"} => StatusOf(a)' # "ACTIVE"
    BY <1>2, <2>2, RowStep DEF StatusOf
  <2>5. ASSUME page'[a] # None
        PROVE  /\ page'[a].expiresAt = attempts'[a].expiresAt
               /\ page'[a].latched => attempts'[a].expiresAt <= now'
               /\ page'[a].telemetry = "refused" =>
                    StatusOf(a)' # "ACTIVE" \/ attempts'[a].expiresAt <= now'
    <3>1. CASE page'[a] = page[a] BY <1>0, <2>3, <2>4, <2>5, <2>8, <3>1
    <3>2. CASE page'[a] # page[a]
      <4>1. attempts' = attempts /\ StatusOf(a)' = StatusOf(a) BY <2>5, <3>2, PageStep DEF StatusOf
      <4>2. \/ /\ page'[a].expiresAt = attempts[a].expiresAt /\ ~page'[a].latched
               /\ page'[a].telemetry # "refused"
            \/ /\ page[a] # None /\ page'[a].expiresAt = page[a].expiresAt /\ now' = now
               /\ page'[a].latched => page[a].latched \/ page[a].expiresAt <= now
               /\ page'[a].telemetry = "refused" =>
                    \/ page[a].telemetry = "refused"
                    \/ StatusOf(a) # "ACTIVE" \/ attempts[a].expiresAt <= now
        BY <2>5, <3>2, PageStep
      <4>. QED BY <2>3, <4>1, <4>2
    <3>. QED BY <3>1, <3>2
  <2>6. ASSUME StatusOf(a)' = "EXPIRED", a \notin forbidden'
        PROVE  attempts'[a].expiresAt <= attempts'[a].endedAt
    <3>1. CASE attempts'[a] = attempts[a] BY <1>6, <2>3, <2>6, <3>1 DEF StatusOf
    <3>2. CASE Starts(a) BY <1>0, <2>6, <3>2, StartEffect, StartedIs DEF Begins, TypeOK, StatusOf
    <3>3. CASE /\ attempts'[a].endedAt = now /\ attempts'[a].expiresAt = attempts[a].expiresAt
               /\ \/ \E r \in Requests : Serving(r, "expire") /\ request[r].attempt = a
                  \/ StatusOf(a) = "ACTIVE" /\ page[a] # None /\ TimeIsUp(a)
                  \/ StatusOf(a) = "ACTIVE" /\ page[a] # None /\ page[a].telemetry = "refused"
                  \/ StatusOf(a) = "ACTIVE" /\ attempts[a].expiresAt <= now
      <4>1. page[a] # None /\ TimeIsUp(a) => attempts[a].expiresAt <= now
        BY <1>0, <2>3 DEF TimeIsUp
      <4>. QED BY <2>3, <3>3, <4>1
    <3>. QED BY <2>2, <2>6, <3>1, <3>2, <3>3, RowStep
  <2>7. ASSUME NEW r \in Requests, Serving(r, "expire")', request'[r].attempt = a
        PROVE  attempts'[a].expiresAt <= now'
    <3>1. CASE Serving(r, "expire") /\ request'[r] = request[r]
      <4>1. attempts[a].expiresAt <= now /\ StatusOf(a) # "NONE" BY <2>3, <2>7, <3>1
      <4>. QED BY <1>0, <2>4, <4>1
    <3>2. CASE ~(Serving(r, "expire") /\ request'[r] = request[r]) BY <2>7, <3>2, ExpireStep
    <3>. QED BY <3>1, <3>2
  <2>. QED BY <2>5, <2>6, <2>7
<1>. QED BY <1>3, <1>4, <1>5 DEF PagesHold

LEMMA PagesInit == Init => PagesHold
  BY DEF Init, PagesHold, Serving, StatusOf, NoRow

LEMMA PagesInvariance == Spec => []PagesHold
<1>1. TypeOK /\ PagesHold /\ [Next]_vars => PagesHold' BY PagesStep
<1>. QED BY <1>1, PagesInit, TypeCorrect, PTL DEF Spec

\* A page cuts a candidate off before the deadline, and an expiration decided on an
\* old row ends an attempt early, only after a resume or a 403 (ExamTakingPage's timer,
\* its telemetry and checkAndApplyLazyExpiration against resumeAttempt's new deadline).
THEOREM CutOff == Spec => []CutOffIsExplained
<1>1. TypeOK /\ PagesHold => CutOffIsExplained
  <2>. SUFFICES ASSUME TypeOK, PagesHold, NEW a \in Attempts, EntriesOf(a, {"RESUME"}) = {}
                PROVE  ~ (\/ /\ StatusOf(a) = "EXPIRED" /\ attempts[a].endedAt < attempts[a].expiresAt
                             /\ a \notin forbidden
                          \/ /\ StatusOf(a) = "ACTIVE" /\ page[a] # None /\ page[a].latched
                             /\ now < attempts[a].expiresAt)
    BY DEF CutOffIsExplained
  <2>1. attempts[a].expiresAt \in Int /\ attempts[a].endedAt \in Nat /\ now \in Nat
    BY DEF TypeOK, Row
  <2>. QED BY <2>1 DEF PagesHold
<1>. QED BY <1>1, TypeCorrect, PagesInvariance, PTL

(***************************************************************************)
(* The sign-off.                                                           *)
(***************************************************************************)
\* Every attempt that is in none of the sets of the k-th summary has not started, has
\* expired, or was started by exam id after the summary was taken.
Covered(summary, k) ==
    \A a \in Attempts : \/ StatusOf(a) \in {"NONE", "EXPIRED"}
                        \/ \E st \in DOMAIN summary : a \in summary[st]
                        \/ k <= late[a]
SignOffHolds ==
    /\ \A r, s \in SigningOff : r = s
    /\ signed # <<>> => concluded
    /\ \A r \in SigningOff : request[r].summary # None =>
            Covered(request[r].summary, Len(signed) + 1)
    /\ \A k \in DOMAIN signed : Covered(signed[k], k)

\* A summary covers what it covered, unless an attempt starts.
LEMMA CoveredStep ==
    ASSUME TypeOK, PagesHold, [Next]_vars,
           ~\E a \in Attempts : Starts(a),
           NEW summary, NEW k, Covered(summary, k)
    PROVE  Covered(summary, k)'
<1>0. late' = late
  <2>1. ASSUME NEW r \in Requests,
               \/ \E op \in Commands, b \in Attempts \cup {None}, key \in Key, x \in Extensions :
                     CheckCommand(r, op, b, key, x)
               \/ CommitCommand(r) \/ RollBack(r) \/ LockSession(r) \/ Summarize(r)
               \/ CommitSignOff(r) \/ (\E b \in Attempts : ReadPastDeadline(r, b))
               \/ ApplyLazyExpiration(r)
        PROVE  late' = late
    BY <2>1 DEF CheckCommand, CommitCommand, RollBack, LockSession, Summarize, CommitSignOff,
                ReadPastDeadline, ApplyLazyExpiration, history
  <2>2. ASSUME \/ \E b \in Attempts : PageActs(b) \/ FindSession(b)
               \/ Tick \/ UNCHANGED vars
        PROVE  late' = late
    BY <2>2, PageEffect DEF FindSession, Tick, vars, history
  <2>. QED BY <2>1, <2>2, Zenon DEF Next, PageActs, Starts
<1>1. ASSUME NEW a \in Attempts, StatusOf(a)' \notin {"NONE", "EXPIRED"}
      PROVE  StatusOf(a) \notin {"NONE", "EXPIRED"}
  <2>1. CASE attempts'[a] = attempts[a] BY <1>1, <2>1 DEF StatusOf
  <2>2. CASE attempts'[a] # attempts[a] BY <1>1, <2>2, RowStep
  <2>. QED BY <2>1, <2>2
<1>. QED BY <1>0, <1>1 DEF Covered

LEMMA SignOffStep ==
    ASSUME TypeOK, PagesHold, SignOffHolds, [Next]_vars PROVE SignOffHolds'
<1>0. \A S, l, e : l \in Seq(S) /\ e \in S =>
        /\ DOMAIN Append(l, e) = 1 .. Len(l) + 1 /\ DOMAIN l = 1 .. Len(l)
        /\ Append(l, e)[Len(l) + 1] = e /\ Len(l) \in Nat
        /\ \A i \in 1 .. Len(l) : Append(l, e)[i] = l[i]
  OBVIOUS
<1>1. ASSUME NEW a \in Attempts, StartAttempt(a) PROVE SignOffHolds'
  <2>1. ~concluded /\ SigningOff = {} /\ UNCHANGED <<concluded, signed, request>>
    BY <1>1 DEF StartAttempt, Startable
  <2>2. signed = <<>> BY <2>1 DEF SignOffHolds
  <2>3. SigningOff' = {} BY <2>1 DEF SigningOff, Serving
  <2>. QED BY <2>1, <2>2, <2>3 DEF SignOffHolds
<1>3. ASSUME NEW a \in Attempts, StartByExam(a) PROVE SignOffHolds'
  <2>1. /\ UNCHANGED <<concluded, signed, request>> /\ SigningOff' = SigningOff
        /\ late' = [late EXCEPT ![a] = SummariesTaken]
    BY <1>3 DEF StartByExam, SigningOff, Serving
  <2>2. \A b \in Attempts : b # a => StatusOf(b)' = StatusOf(b)
    BY <1>3 DEF StartByExam, StatusOf, TypeOK
  <2>3. \A b \in Attempts : late'[b] = IF b = a THEN SummariesTaken ELSE late[b]
    BY <2>1 DEF TypeOK
  <2>4. \A summary, k : Covered(summary, k) /\ k <= SummariesTaken => Covered(summary, k)'
    BY <2>2, <2>3 DEF Covered
  <2>5. /\ Len(signed) \in Nat /\ DOMAIN signed = 1 .. Len(signed) BY DEF TypeOK
  <2>6. /\ \A k \in DOMAIN signed : k <= SummariesTaken
        /\ \A r \in SigningOff : request[r].summary # None => Len(signed) + 1 <= SummariesTaken
    BY <2>5 DEF SummariesTaken
  <2>7. \A k \in DOMAIN signed : Covered(signed[k], k)' 
    <3>. SUFFICES ASSUME NEW k \in DOMAIN signed PROVE Covered(signed[k], k)' OBVIOUS
    <3>1. PICK u : u = signed[k] OBVIOUS
    <3>2. Covered(u, k)' BY <2>4, <2>6, <3>1 DEF SignOffHolds
    <3>. QED BY <2>1, <3>1, <3>2 DEF Covered
  <2>8. ASSUME NEW r \in SigningOff, request[r].summary # None
        PROVE  Covered(request[r].summary, Len(signed) + 1)'
    <3>1. PICK u, k : u = request[r].summary /\ k = Len(signed) + 1 OBVIOUS
    <3>2. Covered(u, k)' BY <2>4, <2>6, <2>8, <3>1 DEF SignOffHolds
    <3>. QED BY <2>1, <3>1, <3>2 DEF Covered
  <2>. QED BY <2>1, <2>7, <2>8 DEF SignOffHolds
<1>2. CASE ~\E a \in Attempts : Starts(a)
  <2>0. \A summary, k : Covered(summary, k) => Covered(summary, k)' BY <1>2, CoveredStep
  <2>1. ASSUME NEW r \in Requests, LockSession(r) PROVE SignOffHolds'
    <3>1. /\ SigningOff = {} /\ UNCHANGED <<concluded, signed>>
          /\ request' = [request EXCEPT ![r] = [op |-> "signOff", summary |-> None]]
      BY <2>1 DEF LockSession
    <3>2. \A q \in Requests : request'[q] =
            IF q = r THEN [op |-> "signOff", summary |-> None] ELSE request[q]
      BY <3>1 DEF TypeOK
    <3>3. \A q \in SigningOff' : q = r /\ request'[q].summary = None
      BY <3>1, <3>2 DEF SigningOff, Serving
    <3>. QED BY <2>0, <3>1, <3>3 DEF SignOffHolds
  <2>2. ASSUME NEW r \in Requests, Summarize(r) PROVE SignOffHolds'
    <3>. DEFINE n == [st \in {"SUBMITTED", "TERMINATED", "ACTIVE", "PAUSED"} |->
                        {a \in Attempts : StatusOf(a) = st}]
    <3>1. /\ r \in SigningOff /\ UNCHANGED <<attempts, concluded, signed>>
          /\ request' = [request EXCEPT ![r] = [request[r] EXCEPT !.summary = n]]
      BY <2>2 DEF Summarize
    <3>2. Covered(n, Len(signed) + 1)
      <4>1. \A a \in Attempts : StatusOf(a) \in Status BY DEF TypeOK, Row, StatusOf
      <4>. QED BY <4>1 DEF Covered, Status
    <3>. HIDE DEF n
    <3>3. request[r] \in [op : {"signOff"}, summary : Summary \cup {None}]
      BY <3>1, RequestFields DEF SigningOff
    <3>4. [request[r] EXCEPT !.summary = n].op = "signOff"
          /\ [request[r] EXCEPT !.summary = n].summary = n
      BY <3>3
    <3>5. SigningOff' \subseteq SigningOff
      BY <3>1, <3>4 DEF SigningOff, Serving, TypeOK
    <3>6. \A s \in SigningOff' : request'[s].summary = n
      BY <3>1, <3>4, <3>5 DEF SignOffHolds, SigningOff, TypeOK
    <3>. QED BY <2>0, <3>1, <3>2, <3>5, <3>6 DEF SignOffHolds
  <2>3. ASSUME NEW r \in Requests, CommitSignOff(r) PROVE SignOffHolds'
    <3>1. /\ r \in SigningOff /\ request[r].summary # None /\ concluded'
          /\ signed' = signed \/ signed' = Append(signed, request[r].summary)
          /\ request' = [request EXCEPT ![r] = None]
      BY <2>3 DEF CommitSignOff, Close
    <3>2. SigningOff' = {} BY <3>1 DEF SignOffHolds, SigningOff, Serving, TypeOK
    <3>3. request[r].summary \in Summary BY <3>1, RequestFields DEF SigningOff
    <3>4. Covered(request[r].summary, Len(signed) + 1) BY <3>1 DEF SignOffHolds
    <3>5. ASSUME NEW k \in DOMAIN signed' PROVE Covered(signed[k], k)'
      <4>. DEFINE v == request[r].summary
      <4>1. v \in Summary /\ Covered(v, Len(signed) + 1) /\ (signed' = signed \/ signed' = Append(signed, v))
        BY <3>1, <3>3, <3>4
      <4>2. signed \in Seq(Summary) BY DEF TypeOK
      <4>. HIDE DEF v, Summary
      <4>3. \/ signed'[k] = v /\ k = Len(signed) + 1
            \/ k \in DOMAIN signed /\ signed'[k] = signed[k]
        BY <1>0, <4>1, <4>2
      <4>4. PICK u : u = signed'[k] OBVIOUS
      <4>5. Covered(u, k) BY <4>1, <4>3, <4>4 DEF SignOffHolds
      <4>6. Covered(u, k)' BY <2>0, <4>5
      <4>. QED BY <4>4, <4>6 DEF Covered
    <3>. QED BY <3>1, <3>2, <3>5 DEF SignOffHolds
  <2>4. ASSUME UNCHANGED <<concluded, signed>>,
               \A r \in Requests : Serving(r, "signOff")' =>
                   Serving(r, "signOff") /\ request'[r] = request[r]
        PROVE  SignOffHolds'
    <3>1. SigningOff' \subseteq SigningOff /\ \A r \in SigningOff' : request'[r] = request[r]
      BY <2>4 DEF SigningOff
    <3>. QED BY <2>0, <2>4, <3>1 DEF SignOffHolds
  <2>5. ASSUME NEW r \in Requests,
               \/ \E op \in Commands, b \in Attempts \cup {None}, key \in Key, x \in Extensions :
                     CheckCommand(r, op, b, key, x)
               \/ CommitCommand(r) \/ RollBack(r) \/ ApplyLazyExpiration(r)
               \/ \E b \in Attempts : ReadPastDeadline(r, b)
        PROVE  SignOffHolds'
    <3>1. UNCHANGED <<concluded, signed>>
          /\ \E v : /\ v = None \/ v.op # "signOff"
                    /\ request' = [request EXCEPT ![r] = v]
      BY <2>5 DEF CheckCommand, CommitCommand, RollBack, ApplyLazyExpiration, ReadPastDeadline,
                  Close, Commands
    <3>. QED BY <2>4, <3>1 DEF Serving, TypeOK
  <2>6. ASSUME \/ \E b \in Attempts : FindSession(b) \/ PageActs(b)
               \/ Tick \/ UNCHANGED vars
        PROVE  SignOffHolds'
    <3>1. UNCHANGED <<concluded, signed, request>>
      BY <2>6, PageEffect DEF FindSession, Tick, vars
    <3>. QED BY <2>4, <3>1 DEF Serving
  <2>. QED BY <1>2, <2>1, <2>2, <2>3, <2>5, <2>6, Zenon DEF Next, PageActs, Starts
<1>. QED BY <1>1, <1>2, <1>3 DEF Starts

LEMMA SignOffInit == Init => SignOffHolds
  BY DEF Init, SignOffHolds, SigningOff, Serving

\* No attempt started by session id slips into a session between the summary of its
\* sign-off and the sign-off's commit, nor later (startAttempt's FOR SHARE against
\* concludeSession); a recorded summary misses only starts by exam id that came after it.
THEOREM SignOff == Spec => []SignOffMissesOnlyStartsByExam
<1>1. TypeOK /\ PagesHold /\ SignOffHolds /\ [Next]_vars => SignOffHolds' BY SignOffStep
<1>2. SignOffHolds => SignOffMissesOnlyStartsByExam
  BY DEF SignOffHolds, Covered, SignOffMissesOnlyStartsByExam
<1>. QED BY <1>1, <1>2, SignOffInit, PagesInvariance, TypeCorrect, PTL DEF Spec

(***************************************************************************)
(* Deadlines that move back.                                               *)
(***************************************************************************)
\* A PAUSED attempt is paused since the last PAUSE in its log.
LastPause(a, m) ==
    /\ m \in EntriesOf(a, {"PAUSE"}) /\ \A j \in EntriesOf(a, {"PAUSE"}) : j <= m
    /\ log[m].at = attempts[a].pausedAt
PausesHold ==
    \A a \in Attempts : /\ StatusOf(a) = "PAUSED" => \E m \in DOMAIN log : LastPause(a, m)
                        /\ StatusOf(a) = "NONE" => attempts[a].expiresAt = 0

LEMMA PausesInit == Init => PausesHold
  BY DEF Init, PausesHold, StatusOf, NoRow

LEMMA PausesStep == ASSUME TypeOK, PagesHold, PausesHold, [Next]_vars PROVE PausesHold'
<1>0. DOMAIN log = 1 .. Len(log) /\ Len(log) \in Nat BY LogType DEF TypeOK
<1>1. ASSUME NEW a \in Attempts, StatusOf(a)' = "NONE" PROVE attempts'[a].expiresAt = 0
  <2>1. CASE attempts'[a] = attempts[a] BY <1>1, <2>1 DEF PausesHold, StatusOf
  <2>2. CASE Starts(a) BY <1>1, <2>2, StartEffect, StartedIs DEF Begins, TypeOK, StatusOf
  <2>. QED BY <1>1, <2>1, <2>2, RowStep
<1>2. ASSUME NEW a \in Attempts, StatusOf(a)' = "PAUSED", NEW r \in Requests, CommitCommand(r)
      PROVE  \E m \in DOMAIN log' : LastPause(a, m)'
  <2>. DEFINE c == request[r]
  <2>1. PICK ts \in Nat :
          LET e == [type |-> c.op, attempt |-> c.attempt, key |-> c.key,
                    at |-> ts, extension |-> c.extension, read |-> c.read]
          IN  /\ attempts' = Commanded(c, ts) /\ log' \in Seq(Entry)
              /\ log'[Len(log) + 1] = e /\ Len(log') = Len(log) + 1
              /\ \A i \in 1 .. Len(log) : log'[i] = log[i]
    BY <1>2, CommitEffect
  <2>2. /\ log'[Len(log) + 1].type = c.op /\ log'[Len(log) + 1].attempt = c.attempt
        /\ log'[Len(log) + 1].at = ts /\ DOMAIN log' = 1 .. Len(log) + 1
    BY <1>0, <2>1
  <2>3. LeavesRow(attempts', c, ts, a) /\ c.op \in Commands /\ Accepts(c.op, c.attempt)
    BY <1>2, <2>1, CommitRow, CommandFields DEF CommitCommand
  <2>4. attempts[a] \in Row BY DEF TypeOK
  <2>5. \A i \in 1 .. Len(log) : log'[i] = log[i] BY <2>1
  <2>. HIDE DEF c
  <2>6. CASE c.attempt = a /\ c.op = "PAUSE"
    <3>1. attempts'[a].pausedAt = ts
      <4>1. attempts'[a] = PausedRow(attempts[a], ts) BY <2>3, <2>6 DEF LeavesRow
      <4>2. PausedRow(attempts[a], ts).pausedAt = ts BY <2>4 DEF PausedRow, Row
      <4>. QED BY <4>1, <4>2
    <3>2. PICK m \in Nat : m = Len(log) + 1 BY <1>0
    <3>3. /\ log'[m].type = "PAUSE" /\ log'[m].attempt = a /\ log'[m].at = ts
          /\ DOMAIN log' = 1 .. m
      BY <2>2, <2>6, <3>2
    <3>4. m \in DOMAIN log' /\ \A j \in DOMAIN log' : j <= m BY <3>3, <1>0, <3>2
    <3>5. LastPause(a, m)' BY <3>1, <3>3, <3>4 DEF LastPause, EntriesOf
    <3>. QED BY <3>4, <3>5
  <2>7. CASE ~(c.attempt = a /\ c.op = "PAUSE")
    <3>1. attempts'[a] = attempts[a]
      <4>1. CASE c.attempt # a \/ c.op \in {"WARNING_MESSAGE", "ANNOUNCEMENT"}
        BY <2>3, <4>1 DEF LeavesRow
      <4>2. CASE c.attempt = a /\ c.op = "RESUME"
        <5>1. attempts'[a] = ResumedRow(attempts[a], ts, c.extension) BY <2>3, <4>2 DEF LeavesRow
        <5>2. ResumedRow(attempts[a], ts, c.extension).status = "ACTIVE"
          BY <2>4 DEF ResumedRow, Row
        <5>. QED BY <1>2, <5>1, <5>2 DEF StatusOf
      <4>3. CASE c.attempt = a /\ c.op = "TERMINATE"
        <5>1. attempts'[a] = [attempts[a] EXCEPT !.status = "TERMINATED", !.endedAt = ts]
          BY <2>3, <4>3 DEF LeavesRow
        <5>2. attempts'[a].status = "TERMINATED" BY <2>4, <5>1 DEF Row
        <5>. QED BY <1>2, <5>2 DEF StatusOf
      <4>. QED BY <2>3, <2>7, <4>1, <4>2, <4>3 DEF Commands
    <3>2. PICK m \in DOMAIN log : LastPause(a, m)
      BY <1>2, <3>1 DEF PausesHold, StatusOf
    <3>3. LastPause(a, m)'
      BY <1>0, <2>2, <2>5, <2>7, <3>1, <3>2 DEF LastPause, EntriesOf
    <3>. QED BY <1>0, <2>2, <3>2, <3>3
  <2>. QED BY <2>6, <2>7
<1>3. ASSUME NEW a \in Attempts, StatusOf(a)' = "PAUSED", ~\E r \in Requests : CommitCommand(r)
      PROVE  \E m \in DOMAIN log' : LastPause(a, m)'
  <2>1. log' = log BY <1>3, StepKinds DEF CheckCommand
  <2>2. attempts'[a] = attempts[a]
    <3>1. CASE Starts(a) BY <1>3, <3>1, StartEffect, StartedIs DEF Begins, TypeOK, StatusOf
    <3>. QED BY <1>3, <3>1, RowStep
  <2>3. PICK m \in DOMAIN log : LastPause(a, m) BY <1>3, <2>2 DEF PausesHold, StatusOf
  <2>4. LastPause(a, m)' BY <2>1, <2>2, <2>3 DEF LastPause, EntriesOf
  <2>. QED BY <2>1, <2>3, <2>4
<1>. QED BY <1>1, <1>2, <1>3 DEF PausesHold

LEMMA PausesInvariance == Spec => []PausesHold
<1>1. TypeOK /\ PagesHold /\ PausesHold /\ [Next]_vars => PausesHold' BY PausesStep
<1>. QED BY <1>1, PausesInit, PagesInvariance, TypeCorrect, PTL DEF Spec

\* A resume that moves the deadline back began before the pause it ends.
LEMMA ShortenedStep ==
    ASSUME TypeOK, CommandsHold, PausesHold, [Next]_vars, NEW a \in Attempts,
           attempts'[a].expiresAt < attempts[a].expiresAt
    PROVE  /\ Len(log') > Len(log) /\ log'[Len(log')].type = "RESUME"
           /\ log'[Len(log')].read < Max(EntriesOf(a, {"PAUSE"}))
<1>0. /\ DOMAIN log = 1 .. Len(log) /\ Len(log) \in Nat /\ attempts[a] \in Row /\ now \in Nat
      /\ \A i \in DOMAIN log : log[i].at \in Nat
  BY LogType DEF TypeOK
<1>1. ~Starts(a)
  <2>. SUFFICES ASSUME Starts(a) PROVE FALSE OBVIOUS
  <2>1. attempts' = [attempts EXCEPT ![a] = StartedRow] /\ StatusOf(a) = "NONE"
    BY StartEffect DEF Begins
  <2>2. StartedRow.expiresAt \in Nat BY <1>0, StartedIs
  <2>3. attempts'[a] = StartedRow BY <2>1 DEF TypeOK
  <2>4. attempts[a].expiresAt = 0 BY <2>1 DEF PausesHold
  <2>. QED BY <2>2, <2>3, <2>4
<1>2. PICK r \in Requests : /\ CommitCommand(r) /\ request[r].attempt = a
                            /\ request[r].op = "RESUME" /\ StatusOf(a) = "PAUSED"
  <2>1. attempts[a].expiresAt \in Int BY <1>0 DEF Row
  <2>. QED BY <1>1, <2>1, RowStep
<1>. DEFINE c == request[r]
<1>3. PICK ts \in Nat :
        LET e == [type |-> c.op, attempt |-> c.attempt, key |-> c.key,
                  at |-> ts, extension |-> c.extension, read |-> c.read]
        IN  /\ c.at <= ts /\ attempts' = Commanded(c, ts)
            /\ log'[Len(log) + 1] = e /\ Len(log') = Len(log) + 1
  BY <1>2, CommitEffect
<1>4. log'[Len(log')].type = "RESUME" /\ log'[Len(log')].read = c.read
  BY <1>2, <1>3
<1>5. /\ attempts'[a] = ResumedRow(attempts[a], ts, c.extension)
      /\ c.read \in Nat /\ c.at \in Nat /\ c.extension \in Nat
  BY <1>2, <1>3, CommitRow, CommandFields DEF LeavesRow
<1>6. /\ \A i \in 1 .. c.read : log[i].at <= c.at
      /\ c.at <= ts
  BY <1>2, <1>3 DEF CommandsHold, InCommand, CommitCommand
<1>. HIDE DEF c
<1>7. PICK m \in DOMAIN log : LastPause(a, m) BY <1>2 DEF PausesHold
<1>8. log[m].at = attempts[a].pausedAt /\ log[m].at \in Nat BY <1>0, <1>7 DEF LastPause
<1>9. ts < log[m].at
  <2>. DEFINE x == attempts[a].expiresAt
              p == attempts[a].pausedAt
              k == c.extension
  <2>1. ResumedRow(attempts[a], ts, c.extension).expiresAt = x + (ts - p) + k
    BY <1>0 DEF ResumedRow, Row
  <2>2. x \in Int /\ p \in Nat /\ k \in Nat BY <1>0, <1>5, <1>8 DEF Row
  <2>3. x + (ts - p) + k < x BY <1>5, <2>1
  <2>4. p = log[m].at BY <1>8
  <2>. HIDE DEF x, p, k
  <2>5. ts < p BY <2>2, <2>3
  <2>. QED BY <2>4, <2>5
<1>10. c.read < m
  <2>1. m \in Nat \ {0} BY <1>0
  <2>2. ~(m \in 1 .. c.read) BY <1>5, <1>6, <1>8, <1>9
  <2>. QED BY <1>5, <2>1, <2>2
<1>11. Max(EntriesOf(a, {"PAUSE"})) = m
  <2>. DEFINE S == EntriesOf(a, {"PAUSE"})
  <2>1. m \in S /\ \A j \in S : m >= j
    BY <1>0, <1>7 DEF LastPause, EntriesOf
  <2>2. S \subseteq Nat BY <1>0 DEF EntriesOf
  <2>. HIDE DEF S
  <2>3. \A x \in S : (\A y \in S : x >= y) => x = m BY <2>1, <2>2
  <2>. QED BY <2>1, <2>3 DEF Max, S
<1>. QED BY <1>0, <1>3, <1>4, <1>10, <1>11

\* The deadline of an attempt moves back only by a resume that was checked before
\* the pause it ends (CURRENT_TIMESTAMP in resumeAttempt's UPDATE).
THEOREM Shortened == Spec => ShortenedOnlyByStaleResume
<1>1. TypeOK /\ CommandsHold /\ PausesHold /\ [Next]_vars =>
        [\A a \in Attempts : attempts'[a].expiresAt < attempts[a].expiresAt =>
            /\ Len(log') > Len(log) /\ log'[Len(log')].type = "RESUME"
            /\ log'[Len(log')].read < Max(EntriesOf(a, {"PAUSE"}))]_vars
  BY ShortenedStep
<1>. QED BY <1>1, TypeCorrect, KeysInvariance, PausesInvariance, PTL
         DEF Spec, ShortenedOnlyByStaleResume
(***************************************************************************)
(* Sums over finite sets, by the smallest set that would be an exception.  *)
(***************************************************************************)
\* Every non-empty collection of subsets of a finite set has a minimal member.
LEMMA Minimal ==
    ASSUME NEW S, IsFiniteSet(S), NEW C, C \subseteq SUBSET S, C # {}
    PROVE  \E T \in C : \A U \in C : ~(U \subseteq T /\ U # T)
<1>1. IsWellFoundedOn(StrictSubsetOrdering(S), SUBSET S)
  BY FS_StrictSubsetOrderingWellFounded, FS_FiniteSubsetsOfFinite
<1>2. PICK T \in C : \A U \in C : ~(<<U, T>> \in StrictSubsetOrdering(S))
  BY <1>1, WFMin
<1>. QED BY <1>2 DEF StrictSubsetOrdering

\* h[T] is the sum of g over each T \subseteq S, the way SumFunctionOnSet takes it.
Chosen(T) == CHOOSE x \in T : TRUE
IsFold(h, g, S) ==
    h = [T \in SUBSET S |-> IF T = {} THEN 0 ELSE g[Chosen(T)] + h[T \ {Chosen(T)}]]

LEMMA SumDef == ASSUME NEW g, NEW S PROVE SumFunctionOnSet(g, S) = (CHOOSE h : IsFold(h, g, S))[S]
  BY DEF SumFunctionOnSet, FoldFunctionOnSet, MapThenFoldSet, IsFold, Chosen

\* What a sum is at T.
LEMMA FoldAt ==
    ASSUME NEW g, NEW S, NEW h, IsFold(h, g, S), NEW T \in SUBSET S
    PROVE  /\ T = {} => h[T] = 0
           /\ T # {} => \E x \in T : x = Chosen(T) /\ h[T] = g[x] + h[T \ {x}]
<1>1. T # {} => Chosen(T) \in T BY DEF Chosen
<1>2. h[T] = IF T = {} THEN 0 ELSE g[Chosen(T)] + h[T \ {Chosen(T)}] BY DEF IsFold
<1>. QED BY <1>1, <1>2

\* There is at most one such function,
LEMMA FoldUnique ==
    ASSUME NEW g, NEW S, IsFiniteSet(S), NEW h, IsFold(h, g, S), NEW k, IsFold(k, g, S)
    PROVE  h = k
<1>. DEFINE C == {T \in SUBSET S : h[T] # k[T]}
<1>0. C \subseteq SUBSET S OBVIOUS
<1>1. SUFFICES ASSUME C # {} PROVE FALSE BY DEF IsFold
<1>2. PICK T \in C : \A U \in C : ~(U \subseteq T /\ U # T)
  <2>. HIDE DEF C
  <2>. QED BY <1>0, <1>1, Minimal
<1>3. T # {}
  <2>. SUFFICES ASSUME T = {} PROVE FALSE OBVIOUS
  <2>1. h[T] = 0 BY FoldAt
  <2>2. k[T] = 0 BY FoldAt
  <2>. QED BY <2>1, <2>2
<1>4. PICK x \in T : x = Chosen(T) /\ h[T] = g[x] + h[T \ {x}] BY <1>3, FoldAt
<1>5. PICK y \in T : y = Chosen(T) /\ k[T] = g[y] + k[T \ {y}] BY <1>3, FoldAt
<1>6. T \ {x} \notin C BY <1>2
<1>. QED BY <1>4, <1>5, <1>6

\* its restrictions are the sums over the parts,
LEMMA FoldPart ==
    ASSUME NEW g, NEW S, NEW h, IsFold(h, g, S), NEW R \in SUBSET S
    PROVE  IsFold([T \in SUBSET R |-> h[T]], g, R)
  BY DEF IsFold, Chosen

\* and there is one.
LEMMA FoldExists ==
    ASSUME NEW g, NEW S, IsFiniteSet(S)
    PROVE  \E h : IsFold(h, g, S)
<1>. DEFINE C == {T \in SUBSET S : ~\E h : IsFold(h, g, T)}
            F(U) == (CHOOSE h : IsFold(h, g, U))
<1>0. C \subseteq SUBSET S OBVIOUS
<1>1. SUFFICES ASSUME C # {} PROVE FALSE OBVIOUS
<1>2. PICK T \in C : \A U \in C : ~(U \subseteq T /\ U # T)
  <2>. HIDE DEF C
  <2>. QED BY <1>0, <1>1, Minimal
<1>3. \A U \in SUBSET T : U # T => IsFold(F(U), g, U) /\ IsFiniteSet(U) BY <1>2, FS_Subset
<1>. HIDE DEF F
<1>4. CASE T = {}
  <2>1. IsFold([U \in SUBSET {} |-> 0], g, {}) BY DEF IsFold
  <2>. QED BY <1>2, <1>4, <2>1
<1>5. CASE T # {}
  <2>. DEFINE H == [U \in SUBSET T |-> IF U = {} THEN 0
                                       ELSE g[Chosen(U)] + F(U \ {Chosen(U)})[U \ {Chosen(U)}]]
  <2>0. \A U \in (SUBSET T) \ {{}} : Chosen(U) \in U BY DEF Chosen
  <2>1. ASSUME NEW U \in SUBSET T, U # T PROVE H[U] = F(U)[U]
    <3>1. CASE U = {} BY <1>3, <2>1, <3>1, FoldAt
    <3>2. CASE U # {}
      <4>. DEFINE R == U \ {Chosen(U)}
      <4>1. R \in SUBSET U /\ R # T BY <2>0, <3>2
      <4>2. F(U)[U] = g[Chosen(U)] + F(U)[R]
        <5>1. IsFold(F(U), g, U) BY <1>3, <2>1
        <5>2. U \in SUBSET U OBVIOUS
        <5>3. PICK x \in U : x = Chosen(U) /\ F(U)[U] = g[x] + F(U)[U \ {x}]
          BY <3>2, <5>1, <5>2, FoldAt
        <5>. QED BY <5>3
      <4>3. IsFold([V \in SUBSET R |-> F(U)[V]], g, R) BY <1>3, <2>1, <4>1, FoldPart
      <4>4. F(R) = [V \in SUBSET R |-> F(U)[V]] BY <1>3, <4>1, <4>3, FoldUnique
      <4>5. F(R)[R] = F(U)[R] BY <4>4
      <4>. QED BY <3>2, <4>2, <4>5
    <3>. QED BY <3>1, <3>2
  <2>2. \A U \in (SUBSET T) \ {{}} : U \ {Chosen(U)} # T /\ U \ {Chosen(U)} \in SUBSET T BY <2>0
  <2>3. ASSUME NEW U \in SUBSET T
        PROVE  H[U] = IF U = {} THEN 0 ELSE g[Chosen(U)] + H[U \ {Chosen(U)}]
    <3>1. CASE U = {} BY <3>1
    <3>2. CASE U # {}
      <4>1. H[U \ {Chosen(U)}] = F(U \ {Chosen(U)})[U \ {Chosen(U)}] BY <2>1, <2>2, <3>2
      <4>. QED BY <3>2, <4>1
    <3>. QED BY <3>1, <3>2
  <2>4. H = [U \in SUBSET T |-> H[U]] OBVIOUS
  <2>. HIDE DEF H
  <2>5. IsFold(H, g, T) BY <2>3, <2>4 DEF IsFold
  <2>. QED BY <1>2, <2>5
<1>. QED BY <1>4, <1>5

\* SumFunctionOnSet is the recursion it is meant to be.
LEMMA SumUnfold ==
    ASSUME NEW g, NEW S, IsFiniteSet(S)
    PROVE  /\ S = {} => SumFunctionOnSet(g, S) = 0
           /\ S # {} => \E x \in S : SumFunctionOnSet(g, S) = g[x] + SumFunctionOnSet(g, S \ {x})
<1>. DEFINE F(U) == (CHOOSE h : IsFold(h, g, U))
<1>1. \A U \in SUBSET S : IsFold(F(U), g, U) /\ IsFiniteSet(U) BY FoldExists, FS_Subset
<1>2. \A U \in SUBSET S : SumFunctionOnSet(g, U) = F(U)[U] BY SumDef
<1>. HIDE DEF F
<1>3. IsFold(F(S), g, S) BY <1>1
<1>4. S = {} => SumFunctionOnSet(g, S) = 0 BY <1>2, <1>3, FoldAt
<1>5. ASSUME S # {} PROVE \E x \in S : SumFunctionOnSet(g, S) = g[x] + SumFunctionOnSet(g, S \ {x})
  <2>0. S \in SUBSET S OBVIOUS
  <2>1. PICK x \in S : F(S)[S] = g[x] + F(S)[S \ {x}] BY <1>3, <1>5, <2>0, FoldAt
  <2>. DEFINE R == S \ {x}
  <2>2. R \in SUBSET S OBVIOUS
  <2>3. IsFold([V \in SUBSET R |-> F(S)[V]], g, R) BY <1>3, <2>2, FoldPart
  <2>4. F(R) = [V \in SUBSET R |-> F(S)[V]] BY <1>1, <2>2, <2>3, FoldUnique
  <2>5. F(R)[R] = F(S)[R] BY <2>4
  <2>. QED BY <1>2, <2>1, <2>5
<1>. QED BY <1>4, <1>5

\* A sum of integers is an integer.
LEMMA SumType ==
    ASSUME NEW S, IsFiniteSet(S), NEW g, \A x \in S : g[x] \in Int
    PROVE  SumFunctionOnSet(g, S) \in Int
<1>. DEFINE C == {T \in SUBSET S : SumFunctionOnSet(g, T) \notin Int}
<1>0. C \subseteq SUBSET S OBVIOUS
<1>1. SUFFICES ASSUME C # {} PROVE FALSE OBVIOUS
<1>2. PICK T \in C : \A U \in C : ~(U \subseteq T /\ U # T)
  <2>. HIDE DEF C
  <2>. QED BY <1>0, <1>1, Minimal
<1>3. IsFiniteSet(T) BY FS_Subset
<1>4. T # {} BY <1>3, SumUnfold
<1>5. PICK x \in T : SumFunctionOnSet(g, T) = g[x] + SumFunctionOnSet(g, T \ {x}) BY <1>3, <1>4, SumUnfold
<1>6. SumFunctionOnSet(g, T \ {x}) \in Int BY <1>2
<1>. QED BY <1>5, <1>6

\* Whichever element is taken out first, the sum is the same.
LEMMA SumPick ==
    ASSUME NEW S, IsFiniteSet(S), NEW g, \A x \in S : g[x] \in Int, NEW y \in S
    PROVE  SumFunctionOnSet(g, S) = g[y] + SumFunctionOnSet(g, S \ {y})
<1>. DEFINE Picks(T, x) == SumFunctionOnSet(g, T) = g[x] + SumFunctionOnSet(g, T \ {x})
            C == {T \in SUBSET S : ~\A x \in T : Picks(T, x)}
<1>0. C \subseteq SUBSET S OBVIOUS
<1>1. SUFFICES ASSUME C # {} PROVE FALSE
  <2>1. Picks(S, y) BY DEF Picks
  <2>. QED BY <2>1
<1>2. PICK T \in C : \A U \in C : ~(U \subseteq T /\ U # T)
  <2>. HIDE DEF C
  <2>. QED BY <1>0, <1>1, Minimal
<1>3. \A U \in SUBSET T : IsFiniteSet(U) /\ SumFunctionOnSet(g, U) \in Int BY FS_Subset, SumType
<1>. HIDE DEF Picks
<1>4. PICK x \in T : ~Picks(T, x) OBVIOUS
<1>5. PICK c \in T : Picks(T, c) BY <1>3, <1>4, SumUnfold DEF Picks
<1>6. c # x BY <1>4, <1>5
<1>. DEFINE D == (T \ {c}) \ {x}
<1>7. Picks(T \ {c}, x) /\ Picks(T \ {x}, c) BY <1>2, <1>6
<1>8. D = (T \ {x}) \ {c} OBVIOUS
<1>9. SumFunctionOnSet(g, T \ {c}) = g[x] + SumFunctionOnSet(g, D) /\ SumFunctionOnSet(g, T \ {x}) = g[c] + SumFunctionOnSet(g, D)
  BY <1>7, <1>8 DEF Picks
<1>10. g[x] \in Int /\ g[c] \in Int /\ SumFunctionOnSet(g, D) \in Int BY <1>3
<1>. HIDE DEF D
<1>11. g[c] + (g[x] + SumFunctionOnSet(g, D)) = g[x] + (g[c] + SumFunctionOnSet(g, D)) BY <1>10
<1>. QED BY <1>4, <1>5, <1>9, <1>11 DEF Picks

\* Functions that agree on the set have the same sum.
LEMMA SumAgree ==
    ASSUME NEW S, IsFiniteSet(S), NEW g, NEW k, \A x \in S : g[x] = k[x] /\ g[x] \in Int
    PROVE  SumFunctionOnSet(g, S) = SumFunctionOnSet(k, S)
<1>. DEFINE C == {T \in SUBSET S : SumFunctionOnSet(g, T) # SumFunctionOnSet(k, T)}
<1>0. C \subseteq SUBSET S OBVIOUS
<1>1. SUFFICES ASSUME C # {} PROVE FALSE OBVIOUS
<1>2. PICK T \in C : \A U \in C : ~(U \subseteq T /\ U # T)
  <2>. HIDE DEF C
  <2>. QED BY <1>0, <1>1, Minimal
<1>3. IsFiniteSet(T) BY FS_Subset
<1>4. T # {} BY <1>3, SumUnfold
<1>5. PICK x \in T : SumFunctionOnSet(g, T) = g[x] + SumFunctionOnSet(g, T \ {x}) BY <1>3, <1>4, SumUnfold
<1>6. SumFunctionOnSet(k, T) = k[x] + SumFunctionOnSet(k, T \ {x}) BY <1>3, SumPick
<1>7. SumFunctionOnSet(g, T \ {x}) = SumFunctionOnSet(k, T \ {x}) BY <1>2
<1>. QED BY <1>5, <1>6, <1>7

\* Adding an element to a sum.
LEMMA SumAdd ==
    ASSUME NEW S, IsFiniteSet(S), NEW n, n \notin S, NEW g, NEW h,
           \A x \in S : g[x] \in Int /\ h[x] = g[x], h[n] \in Int
    PROVE  /\ SumFunctionOnSet(g, S) \in Int
           /\ SumFunctionOnSet(h, S \cup {n}) = SumFunctionOnSet(g, S) + h[n]
<1>1. IsFiniteSet(S \cup {n}) BY FS_AddElement
<1>2. SumFunctionOnSet(h, S \cup {n}) = h[n] + SumFunctionOnSet(h, (S \cup {n}) \ {n})
  BY <1>1, SumPick
<1>3. (S \cup {n}) \ {n} = S OBVIOUS
<1>4. SumFunctionOnSet(h, S) = SumFunctionOnSet(g, S) BY SumAgree
<1>5. SumFunctionOnSet(g, S) \in Int BY SumType
<1>6. SumFunctionOnSet(h, (S \cup {n}) \ {n}) = SumFunctionOnSet(g, S) BY <1>3, <1>4
<1>7. h[n] + SumFunctionOnSet(g, S) = SumFunctionOnSet(g, S) + h[n] BY <1>5
<1>. QED BY <1>2, <1>5, <1>6, <1>7

(***************************************************************************)
(* What the log tells.                                                     *)
(***************************************************************************)
Pauses(a) == EntriesOf(a, {"PAUSE"})
Resumes(a) == EntriesOf(a, {"RESUME"})
Changes(a) == EntriesOf(a, {"PAUSE", "RESUME", "TERMINATE"})
TimesPaused(a) == [i \in Resumes(a) |-> PausedFor(i)]
TimesAdded(a) == [i \in Resumes(a) |-> log[i].extension]

\* The conjuncts of LogExplainsAttempt, by what they compare with the row.
PausesTold(a) ==
    Cardinality(Resumes(a)) =
        Cardinality(Pauses(a)) - (IF attempts[a].pausedAt = None THEN 0 ELSE 1)
TimesTold(a) ==
    /\ attempts[a].totalPaused = SumFunction(TimesPaused(a))
    /\ attempts[a].expiresAt = FirstDeadline(attempts[a].startedAt)
                               + SumFunction(TimesPaused(a)) + SumFunction(TimesAdded(a))
StatusTold(a) ==
    \/ StatusOf(a) = LoggedStatus(a)
    \/ StatusOf(a) = "SUBMITTED" /\ LoggedStatus(a) = "ACTIVE"
    \/ StatusOf(a) = "EXPIRED"

\* An attempt that has not started has no history, an ACTIVE one is not paused, every
\* resume ends a pause, one change is the last, and the log tells what happened.
Told(a) ==
    /\ StatusOf(a) = "NONE" => Changes(a) = {}
    /\ StatusOf(a) = "ACTIVE" => attempts[a].pausedAt = None
    /\ \A i \in Resumes(a) : PauseBefore(i) \in Pauses(a)
    /\ Changes(a) # {} => Max(Changes(a)) \in Changes(a)
    /\ StatusOf(a) # "NONE" => PausesTold(a) /\ TimesTold(a) /\ StatusTold(a)
LogTells == \A a \in Attempts : Told(a)

\* The sums of LogExplainsAttempt are those over the resumes.
LEMMA TimesSum ==
    ASSUME NEW a
    PROVE  /\ SumFunction(TimesPaused(a)) = SumFunctionOnSet(TimesPaused(a), Resumes(a))
           /\ SumFunction(TimesAdded(a)) = SumFunctionOnSet(TimesAdded(a), Resumes(a))
<1>1. DOMAIN TimesPaused(a) = Resumes(a) /\ DOMAIN TimesAdded(a) = Resumes(a)
  BY DEF TimesPaused, TimesAdded
<1>. QED BY <1>1 DEF SumFunction

\* The entries of an attempt are finitely many positions of the log.
LEMMA EntriesType ==
    ASSUME TypeOK, NEW a, NEW T
    PROVE  /\ IsFiniteSet(EntriesOf(a, T)) /\ EntriesOf(a, T) \subseteq 1 .. Len(log)
           /\ Cardinality(EntriesOf(a, T)) \in Nat /\ Len(log) \in Nat
<1>1. DOMAIN log = 1 .. Len(log) /\ Len(log) \in Nat BY LogType DEF TypeOK
<1>2. IsFiniteSet(1 .. Len(log)) BY <1>1, FS_Interval
<1>3. EntriesOf(a, T) \subseteq 1 .. Len(log) BY <1>1 DEF EntriesOf
<1>4. IsFiniteSet(EntriesOf(a, T)) BY <1>2, <1>3, FS_Subset
<1>. QED BY <1>1, <1>3, <1>4, FS_CardinalityType

\* The largest number of a set.
LEMMA MaxIs ==
    ASSUME NEW S, S \subseteq Nat, NEW m \in S, \A j \in S : j <= m
    PROVE  Max(S) = m
<1>1. m \in S /\ \A j \in S : m >= j OBVIOUS
<1>2. \A x \in S : (\A y \in S : x >= y) => x = m BY <1>1
<1>. QED BY <1>1, <1>2 DEF Max

\* A log that has grown.
Grown ==
    /\ log' \in Seq(Entry) /\ Len(log) <= Len(log')
    /\ \A i \in 1 .. Len(log) : log'[i] = log[i]

\* What is told of a pause stays, whatever is appended.
LEMMA PausedForStays ==
    ASSUME TypeOK, Grown, NEW i \in 1 .. Len(log)
    PROVE  /\ log'[i] = log[i] /\ PauseBefore(i)' = PauseBefore(i)
           /\ PauseBefore(i) \in 1 .. Len(log) => PausedFor(i)' = PausedFor(i)
<1>1. DOMAIN log = 1 .. Len(log) /\ Len(log) \in Nat BY LogType DEF TypeOK
<1>2. DOMAIN log' = 1 .. Len(log') /\ Len(log') \in Nat BY DEF Grown
<1>3. \A j \in 1 .. Len(log) : log'[j] = log[j] /\ j \in 1 .. Len(log')
  BY <1>1, <1>2 DEF Grown
<1>. DEFINE A == {j \in {x \in DOMAIN log : /\ log[x].attempt = log[i].attempt
                                            /\ log[x].type \in {"PAUSE"}} : j < i}
            B == {j \in {x \in DOMAIN log' : /\ log'[x].attempt = log'[i].attempt
                                             /\ log'[x].type \in {"PAUSE"}} : j < i}
<1>4. A = B
  <2>1. \A j : j \in A => j \in B BY <1>1, <1>2, <1>3
  <2>2. \A j \in 1 .. Len(log') : j < i => j \in 1 .. Len(log) BY <1>1, <1>2
  <2>3. \A j : j \in B => j \in A BY <1>1, <1>2, <1>3, <2>2
  <2>. QED BY <2>1, <2>3
<1>5. PauseBefore(i) = Max(A) BY DEF PauseBefore, EntriesOf
<1>6. PauseBefore(i)' = Max(B) BY DEF PauseBefore, EntriesOf
<1>. HIDE DEF A, B
<1>. QED BY <1>3, <1>4, <1>5, <1>6 DEF PausedFor

\* What an appended entry adds to the entries of an attempt.
LEMMA CommitEntries ==
    ASSUME TypeOK, NEW r \in Requests, CommitCommand(r), NEW a, NEW T
    PROVE  /\ Grown /\ Len(log') = Len(log) + 1
           /\ request[r].attempt = a /\ request[r].op \in T =>
                 EntriesOf(a, T)' = EntriesOf(a, T) \cup {Len(log) + 1}
           /\ ~(request[r].attempt = a /\ request[r].op \in T) =>
                 EntriesOf(a, T)' = EntriesOf(a, T)
<1>. DEFINE c == request[r]
<1>1. PICK ts \in Nat :
        LET e == [type |-> c.op, attempt |-> c.attempt, key |-> c.key,
                  at |-> ts, extension |-> c.extension, read |-> c.read]
        IN  /\ log' \in Seq(Entry)
            /\ log'[Len(log) + 1] = e /\ Len(log') = Len(log) + 1
            /\ \A i \in 1 .. Len(log) : log'[i] = log[i]
  BY CommitEffect
<1>2. DOMAIN log = 1 .. Len(log) /\ Len(log) \in Nat BY LogType DEF TypeOK
<1>3. Grown /\ Len(log') = Len(log) + 1 BY <1>1, <1>2 DEF Grown
<1>4. /\ log'[Len(log) + 1].type = c.op /\ log'[Len(log) + 1].attempt = c.attempt
      /\ \A i \in 1 .. Len(log) : log'[i] = log[i]
  BY <1>1
<1>5. DOMAIN log' = (1 .. Len(log)) \cup {Len(log) + 1} BY <1>1, <1>2
<1>. HIDE DEF c
<1>6. EntriesOf(a, T)' = {i \in DOMAIN log' : log'[i].attempt = a /\ log'[i].type \in T}
  BY DEF EntriesOf
<1>7. EntriesOf(a, T) = {i \in DOMAIN log : log[i].attempt = a /\ log[i].type \in T}
  BY DEF EntriesOf
<1>8. \A i : i \in EntriesOf(a, T)' <=>
               \/ i \in EntriesOf(a, T)
               \/ i = Len(log) + 1 /\ c.attempt = a /\ c.op \in T
  BY <1>2, <1>4, <1>5, <1>6, <1>7
<1>9. c.attempt = a /\ c.op \in T => EntriesOf(a, T)' = EntriesOf(a, T) \cup {Len(log) + 1}
  BY <1>8
<1>10. ~(c.attempt = a /\ c.op \in T) => EntriesOf(a, T)' = EntriesOf(a, T) BY <1>8
<1>. QED BY <1>3, <1>9, <1>10 DEF c

\* A step that appends nothing about the pauses of an attempt, and leaves what they
\* made of its row, tells as much as before.
SameTimes(a) ==
    /\ attempts'[a].startedAt = attempts[a].startedAt
    /\ attempts'[a].expiresAt = attempts[a].expiresAt
    /\ attempts'[a].totalPaused = attempts[a].totalPaused

LEMMA TimesStay ==
    ASSUME TypeOK, NEW a \in Attempts, Told(a), Grown, SameTimes(a),
           Pauses(a) \subseteq Pauses(a)', Resumes(a)' = Resumes(a)
    PROVE  /\ \A i \in Resumes(a)' : PauseBefore(i)' \in Pauses(a)'
           /\ TimesTold(a) => TimesTold(a)'
<1>1. Resumes(a) \subseteq 1 .. Len(log) /\ Pauses(a) \subseteq 1 .. Len(log)
  BY EntriesType DEF Resumes, Pauses
<1>2. \A i \in Resumes(a) : /\ PauseBefore(i)' = PauseBefore(i) /\ PausedFor(i)' = PausedFor(i)
                            /\ log'[i] = log[i] /\ PauseBefore(i) \in Pauses(a)
  BY <1>1, PausedForStays DEF Told
<1>3. TimesPaused(a)' = TimesPaused(a) /\ TimesAdded(a)' = TimesAdded(a)
  BY <1>2 DEF TimesPaused, TimesAdded
<1>. QED BY <1>2, <1>3 DEF TimesTold, SameTimes, FirstDeadline

LEMMA StatusStays ==
    ASSUME TypeOK, NEW a \in Attempts, Told(a), Grown, Changes(a)' = Changes(a)
    PROVE  /\ LoggedStatus(a)' = LoggedStatus(a)
           /\ Changes(a)' # {} => Max(Changes(a)') \in Changes(a)'
<1>1. Changes(a) \subseteq 1 .. Len(log) BY EntriesType DEF Changes
<1>2. Changes(a) # {} => Max(Changes(a)) \in Changes(a) BY DEF Told
<1>3. Changes(a) # {} => log'[Max(Changes(a))] = log[Max(Changes(a))] BY <1>1, <1>2 DEF Grown
<1>4. LoggedStatus(a)' = IF Changes(a)' = {} THEN "ACTIVE"
                         ELSE CASE log'[Max(Changes(a)')].type = "PAUSE" -> "PAUSED"
                                [] log'[Max(Changes(a)')].type = "RESUME" -> "ACTIVE"
                                [] log'[Max(Changes(a)')].type = "TERMINATE" -> "TERMINATED"
  BY DEF LoggedStatus, Changes
<1>5. LoggedStatus(a) = IF Changes(a) = {} THEN "ACTIVE"
                        ELSE CASE log[Max(Changes(a))].type = "PAUSE" -> "PAUSED"
                               [] log[Max(Changes(a))].type = "RESUME" -> "ACTIVE"
                               [] log[Max(Changes(a))].type = "TERMINATE" -> "TERMINATED"
  BY DEF LoggedStatus, Changes
<1>6. Changes(a)' = {} => LoggedStatus(a)' = LoggedStatus(a) BY <1>4, <1>5
<1>7. Changes(a)' # {} => log'[Max(Changes(a)')] = log[Max(Changes(a))] BY <1>3
<1>8. Changes(a)' # {} => LoggedStatus(a)' = LoggedStatus(a) BY <1>4, <1>5, <1>7
<1>. QED BY <1>2, <1>6, <1>8

\* The entry that commits last is the last of its attempt.
LEMMA LastChange ==
    ASSUME TypeOK, NEW a \in Attempts, NEW n, n = Len(log) + 1,
           Changes(a)' = Changes(a) \cup {n}
    PROVE  /\ Max(Changes(a)') = n /\ Max(Changes(a)') \in Changes(a)'
           /\ log'[n].type = "PAUSE" => LoggedStatus(a)' = "PAUSED"
           /\ log'[n].type = "RESUME" => LoggedStatus(a)' = "ACTIVE"
           /\ log'[n].type = "TERMINATE" => LoggedStatus(a)' = "TERMINATED"
<1>1. Changes(a) \subseteq 1 .. Len(log) /\ Len(log) \in Nat BY EntriesType DEF Changes
<1>2. n \in Nat /\ \A j \in Changes(a) \cup {n} : j \in Nat /\ j <= n BY <1>1
<1>3. Max(Changes(a) \cup {n}) = n BY <1>2, MaxIs
<1>4. LoggedStatus(a)' = IF Changes(a)' = {} THEN "ACTIVE"
                         ELSE CASE log'[Max(Changes(a)')].type = "PAUSE" -> "PAUSED"
                                [] log'[Max(Changes(a)')].type = "RESUME" -> "ACTIVE"
                                [] log'[Max(Changes(a)')].type = "TERMINATE" -> "TERMINATED"
  BY DEF LoggedStatus, Changes
<1>5. Max(Changes(a)') = n /\ n \in Changes(a)' BY <1>3
<1>. QED BY <1>4, <1>5

\* A step that changes neither the pauses of an attempt nor what is told of them.
LEMMA ToldStays ==
    ASSUME TypeOK, NEW a \in Attempts, Told(a), Grown, SameTimes(a),
           attempts'[a].pausedAt = attempts[a].pausedAt,
           Pauses(a)' = Pauses(a), Resumes(a)' = Resumes(a), Changes(a)' = Changes(a),
           \/ StatusOf(a)' = StatusOf(a)
           \/ StatusOf(a) # "NONE" /\ StatusOf(a)' = "EXPIRED"
           \/ StatusOf(a) = "ACTIVE" /\ StatusOf(a)' = "SUBMITTED"
    PROVE  Told(a)'
<1>1. /\ \A i \in Resumes(a)' : PauseBefore(i)' \in Pauses(a)'
      /\ TimesTold(a) => TimesTold(a)'
  BY TimesStay
<1>2. /\ LoggedStatus(a)' = LoggedStatus(a)
      /\ Changes(a)' # {} => Max(Changes(a)') \in Changes(a)'
  BY StatusStays
<1>3. PausesTold(a) => PausesTold(a)' BY DEF PausesTold
<1>4. StatusOf(a) # "NONE" /\ StatusTold(a) => StatusTold(a)' BY <1>2 DEF StatusTold
<1>. QED BY <1>1, <1>2, <1>3, <1>4 DEF Told

\* The pause that a committed resume ends is the one since which the attempt is PAUSED.
LEMMA ResumeEnds ==
    ASSUME TypeOK, NEW a \in Attempts, NEW n, n = Len(log) + 1, Grown, Len(log') = n,
           NEW m, LastPause(a, m), Pauses(a)' = Pauses(a),
           log'[n].attempt = a
    PROVE  /\ PauseBefore(n)' = m /\ m \in Pauses(a)
           /\ PausedFor(n)' = log'[n].at - attempts[a].pausedAt
<1>1. Pauses(a) \subseteq 1 .. Len(log) /\ Len(log) \in Nat BY EntriesType DEF Pauses
<1>2. m \in Pauses(a) /\ \A j \in Pauses(a) : j <= m BY DEF LastPause, Pauses
<1>3. Max(Pauses(a)) = m BY <1>1, <1>2, MaxIs
<1>. DEFINE B == {j \in {x \in DOMAIN log' : /\ log'[x].attempt = log'[n].attempt
                                             /\ log'[x].type \in {"PAUSE"}} : j < n}
<1>4. Pauses(a)' = {x \in DOMAIN log' : log'[x].attempt = a /\ log'[x].type \in {"PAUSE"}}
  BY DEF Pauses, EntriesOf
<1>5. \A j \in Pauses(a)' : j < n BY <1>1
<1>6. B = Pauses(a) BY <1>4, <1>5
<1>7. PauseBefore(n)' = Max(B) BY DEF PauseBefore, EntriesOf
<1>. HIDE DEF B
<1>8. PauseBefore(n)' = m BY <1>3, <1>6, <1>7
<1>9. log'[m] = log[m] /\ log[m].at = attempts[a].pausedAt BY <1>1, <1>2 DEF Grown, LastPause
<1>. QED BY <1>2, <1>8, <1>9 DEF PausedFor

\* What a committed resume adds to the sums.
LEMMA ResumeTimes ==
    ASSUME TypeOK, NEW a \in Attempts, Told(a), NEW n, n = Len(log) + 1, Grown,
           Pauses(a)' = Pauses(a), Resumes(a)' = Resumes(a) \cup {n},
           PauseBefore(n)' \in Pauses(a), PausedFor(n)' \in Int, log'[n].extension \in Nat
    PROVE  /\ \A i \in Resumes(a)' : PauseBefore(i)' \in Pauses(a)'
           /\ SumFunction(TimesPaused(a)) \in Int /\ SumFunction(TimesAdded(a)) \in Int
           /\ SumFunction(TimesPaused(a))' = SumFunction(TimesPaused(a)) + PausedFor(n)'
           /\ SumFunction(TimesAdded(a))' = SumFunction(TimesAdded(a)) + log'[n].extension
<1>1. /\ Resumes(a) \subseteq 1 .. Len(log) /\ Pauses(a) \subseteq 1 .. Len(log)
      /\ IsFiniteSet(Resumes(a)) /\ Len(log) \in Nat
  BY EntriesType DEF Resumes, Pauses
<1>2. \A i \in 1 .. Len(log) : log[i].at \in Nat /\ log[i].extension \in Nat
  <2>1. \A i \in 1 .. Len(log) : log[i] \in Entry BY LogType DEF TypeOK
  <2>. QED BY <2>1 DEF Entry
<1>3. n \notin Resumes(a) BY <1>1
<1>4. \A i \in Resumes(a) : /\ PauseBefore(i)' = PauseBefore(i) /\ PausedFor(i)' = PausedFor(i)
                            /\ log'[i] = log[i] /\ PauseBefore(i) \in Pauses(a)
  BY <1>1, PausedForStays DEF Told
<1>5. \A i \in Resumes(a) : PausedFor(i) \in Int
  <2>. SUFFICES ASSUME NEW i \in Resumes(a) PROVE PausedFor(i) \in Int OBVIOUS
  <2>1. log[i].at \in Nat /\ log[PauseBefore(i)].at \in Nat BY <1>1, <1>2, <1>4
  <2>. QED BY <2>1 DEF PausedFor
<1>. DEFINE old == TimesPaused(a)
            new == [i \in Resumes(a) \cup {n} |-> PausedFor(i)']
            x == TimesAdded(a)
            y == [i \in Resumes(a) \cup {n} |-> log'[i].extension]
<1>6. TimesPaused(a)' = new /\ TimesAdded(a)' = y BY DEF TimesPaused, TimesAdded
<1>7. /\ \A i \in Resumes(a) : old[i] \in Int /\ new[i] = old[i]
      /\ new[n] = PausedFor(n)' /\ new[n] \in Int /\ DOMAIN new = Resumes(a) \cup {n}
  BY <1>4, <1>5 DEF TimesPaused
<1>8. /\ \A i \in Resumes(a) : x[i] \in Int /\ y[i] = x[i]
      /\ y[n] = log'[n].extension /\ y[n] \in Int /\ DOMAIN y = Resumes(a) \cup {n}
  BY <1>1, <1>2, <1>4 DEF TimesAdded
<1>9. SumFunction(old) = SumFunctionOnSet(old, Resumes(a)) /\ SumFunction(x) = SumFunctionOnSet(x, Resumes(a))
  BY TimesSum
<1>. HIDE DEF old, new, x, y
<1>10. /\ SumFunction(new) = SumFunctionOnSet(new, Resumes(a) \cup {n})
       /\ SumFunction(y) = SumFunctionOnSet(y, Resumes(a) \cup {n})
  BY <1>7, <1>8 DEF SumFunction
<1>11. /\ SumFunctionOnSet(old, Resumes(a)) \in Int
       /\ SumFunctionOnSet(new, Resumes(a) \cup {n}) = SumFunctionOnSet(old, Resumes(a)) + new[n]
  <2>1. PICK R, g, h : R = Resumes(a) /\ g = old /\ h = new OBVIOUS
  <2>2. /\ IsFiniteSet(R) /\ n \notin R /\ (\A i \in R : g[i] \in Int /\ h[i] = g[i])
        /\ h[n] \in Int
    BY <1>1, <1>3, <1>7, <2>1
  <2>3. /\ SumFunctionOnSet(g, R) \in Int
        /\ SumFunctionOnSet(h, R \cup {n}) = SumFunctionOnSet(g, R) + h[n]
    BY ONLY <2>2, SumAdd
  <2>. QED BY <2>1, <2>3
<1>12. /\ SumFunctionOnSet(x, Resumes(a)) \in Int
       /\ SumFunctionOnSet(y, Resumes(a) \cup {n}) = SumFunctionOnSet(x, Resumes(a)) + y[n]
  <2>1. PICK R, g, h : R = Resumes(a) /\ g = x /\ h = y OBVIOUS
  <2>2. /\ IsFiniteSet(R) /\ n \notin R /\ (\A i \in R : g[i] \in Int /\ h[i] = g[i])
        /\ h[n] \in Int
    BY <1>1, <1>3, <1>8, <2>1
  <2>3. /\ SumFunctionOnSet(g, R) \in Int
        /\ SumFunctionOnSet(h, R \cup {n}) = SumFunctionOnSet(g, R) + h[n]
    BY ONLY <2>2, SumAdd
  <2>. QED BY <2>1, <2>3
<1>13. /\ SumFunction(TimesPaused(a))' = SumFunction(new)
       /\ SumFunction(TimesAdded(a))' = SumFunction(y)
  BY <1>6
<1>14. \A i \in Resumes(a)' : PauseBefore(i)' \in Pauses(a)' BY <1>4
<1>15. old = TimesPaused(a) /\ x = TimesAdded(a) BY DEF old, x
<1>. QED BY <1>7, <1>8, <1>9, <1>10, <1>11, <1>12, <1>13, <1>14, <1>15

\* What the commit of a command tells.
LEMMA ToldCommit ==
    ASSUME TypeOK, PausesHold, NEW a \in Attempts, Told(a), NEW r \in Requests, CommitCommand(r)
    PROVE  Told(a)'
<1>. DEFINE c == request[r]
<1>1. PICK ts \in Nat :
        LET e == [type |-> c.op, attempt |-> c.attempt, key |-> c.key,
                  at |-> ts, extension |-> c.extension, read |-> c.read]
        IN  /\ attempts' = Commanded(c, ts)
            /\ log'[Len(log) + 1] = e /\ Len(log') = Len(log) + 1
  BY CommitEffect
<1>2. /\ LeavesRow(attempts', c, ts, a) /\ c.op \in Commands /\ c.extension \in Nat
      /\ Accepts(c.op, c.attempt)
  BY <1>1, CommitRow, CommandFields DEF CommitCommand
<1>3. PICK n : n = Len(log) + 1 OBVIOUS
<1>4. /\ log'[n].type = c.op /\ log'[n].attempt = c.attempt /\ log'[n].at = ts
      /\ log'[n].extension = c.extension
  BY <1>1, <1>3
<1>5. Grown /\ Len(log') = n BY <1>3, CommitEntries
<1>6. attempts[a] \in Row BY DEF TypeOK
<1>7. /\ IsFiniteSet(Pauses(a)) /\ Pauses(a) \subseteq 1 .. Len(log) /\ Len(log) \in Nat
      /\ IsFiniteSet(Resumes(a)) /\ Resumes(a) \subseteq 1 .. Len(log)
      /\ Cardinality(Pauses(a)) \in Nat /\ Cardinality(Resumes(a)) \in Nat
  BY EntriesType DEF Pauses, Resumes
<1>8. n \notin Pauses(a) /\ n \notin Resumes(a) BY <1>3, <1>7
<1>9. CASE c.attempt # a \/ c.op \in {"WARNING_MESSAGE", "ANNOUNCEMENT"}
  <2>1. attempts'[a] = attempts[a] BY <1>2, <1>9 DEF LeavesRow
  <2>2. Pauses(a)' = Pauses(a) /\ Resumes(a)' = Resumes(a) /\ Changes(a)' = Changes(a)
    BY <1>9, CommitEntries DEF Pauses, Resumes, Changes
  <2>. QED BY <1>5, <2>1, <2>2, ToldStays DEF SameTimes, StatusOf
<1>10. CASE c.attempt = a /\ c.op = "PAUSE"
  <2>1. attempts'[a] = PausedRow(attempts[a], ts) BY <1>2, <1>10 DEF LeavesRow
  <2>2. /\ SameTimes(a) /\ StatusOf(a)' = "PAUSED" /\ attempts'[a].pausedAt = ts
    BY <1>6, <2>1 DEF PausedRow, Row, SameTimes, StatusOf
  <2>3. StatusOf(a) = "ACTIVE" /\ attempts[a].pausedAt = None /\ ts # None
    BY <1>2, <1>10, InterventionAssumption DEF Accepts, Told
  <2>4. /\ Pauses(a)' = Pauses(a) \cup {n} /\ Resumes(a)' = Resumes(a)
        /\ Changes(a)' = Changes(a) \cup {n}
    BY <1>3, <1>10, CommitEntries DEF Pauses, Resumes, Changes
  <2>5. Cardinality(Pauses(a)') = Cardinality(Pauses(a)) + 1
    BY <1>7, <1>8, <2>4, FS_AddElement
  <2>6. PausesTold(a)' BY <1>7, <2>2, <2>3, <2>4, <2>5 DEF Told, PausesTold
  <2>7. /\ \A i \in Resumes(a)' : PauseBefore(i)' \in Pauses(a)'
        /\ TimesTold(a)'
    BY <1>5, <2>2, <2>3, <2>4, TimesStay DEF Told
  <2>8. LoggedStatus(a)' = "PAUSED" /\ Max(Changes(a)') \in Changes(a)'
    BY <1>3, <1>4, <1>10, <2>4, LastChange
  <2>. QED BY <2>2, <2>6, <2>7, <2>8 DEF Told, StatusTold
<1>11. CASE c.attempt = a /\ c.op = "RESUME"
  <2>. DEFINE p == attempts[a].pausedAt
  <2>1. attempts'[a] = ResumedRow(attempts[a], ts, c.extension) BY <1>2, <1>11 DEF LeavesRow
  <2>2. /\ StatusOf(a)' = "ACTIVE" /\ attempts'[a].pausedAt = None
        /\ attempts'[a].startedAt = attempts[a].startedAt
        /\ attempts'[a].totalPaused = attempts[a].totalPaused + (ts - p)
        /\ attempts'[a].expiresAt = attempts[a].expiresAt + (ts - p) + c.extension
    BY <1>6, <2>1 DEF ResumedRow, Row, StatusOf
  <2>3. StatusOf(a) = "PAUSED" /\ p \in Nat /\ p # None
    BY <1>2, <1>6, <1>11 DEF Accepts, StatusOf, TypeOK, Row
  <2>4. PICK m \in DOMAIN log : LastPause(a, m) BY <2>3 DEF PausesHold
  <2>5. /\ Pauses(a)' = Pauses(a) /\ Resumes(a)' = Resumes(a) \cup {n}
        /\ Changes(a)' = Changes(a) \cup {n}
    BY <1>3, <1>11, CommitEntries DEF Pauses, Resumes, Changes
  <2>6. /\ PauseBefore(n)' = m /\ m \in Pauses(a) /\ PausedFor(n)' = ts - p
    BY <1>3, <1>4, <1>5, <1>11, <2>4, <2>5, ResumeEnds
  <2>7. /\ \A i \in Resumes(a)' : PauseBefore(i)' \in Pauses(a)'
        /\ SumFunction(TimesPaused(a)) \in Int /\ SumFunction(TimesAdded(a)) \in Int
        /\ SumFunction(TimesPaused(a))' = SumFunction(TimesPaused(a)) + (ts - p)
        /\ SumFunction(TimesAdded(a))' = SumFunction(TimesAdded(a)) + c.extension
    <3>1. PausedFor(n)' \in Int BY <2>3, <2>6
    <3>. QED BY <1>2, <1>3, <1>4, <1>5, <2>5, <2>6, <3>1, ResumeTimes
  <2>8. TimesTold(a)'
    <3>. DEFINE s == SumFunction(TimesPaused(a))
                x == SumFunction(TimesAdded(a))
                f == FirstDeadline(attempts[a].startedAt)
                k == c.extension
                d == ts - p
    <3>1. f \in Int BY <1>6, InterventionAssumption DEF FirstDeadline, Row
    <3>2. attempts[a].totalPaused = s /\ attempts[a].expiresAt = f + s + x
      BY <2>3 DEF Told, TimesTold
    <3>3. s \in Int /\ x \in Int /\ k \in Int /\ d \in Int BY <1>2, <2>3, <2>7
    <3>4. FirstDeadline(attempts'[a].startedAt) = f BY <2>2
    <3>5. /\ attempts'[a].totalPaused = s + d /\ attempts'[a].expiresAt = (f + s + x) + d + k
          /\ SumFunction(TimesPaused(a))' = s + d /\ SumFunction(TimesAdded(a))' = x + k
      BY <2>2, <2>7, <3>2
    <3>. HIDE DEF s, x, f, k, d
    <3>6. (f + s + x) + d + k = f + (s + d) + (x + k) BY <3>1, <3>3
    <3>7. (FirstDeadline(attempts[a].startedAt))' = f BY <3>4 DEF FirstDeadline
    <3>. QED BY <3>5, <3>6, <3>7 DEF TimesTold
  <2>9. Cardinality(Resumes(a)') = Cardinality(Resumes(a)) + 1
    BY <1>7, <1>8, <2>5, FS_AddElement
  <2>10. PausesTold(a)' BY <1>7, <2>2, <2>3, <2>5, <2>9 DEF Told, PausesTold
  <2>11. LoggedStatus(a)' = "ACTIVE" /\ Max(Changes(a)') \in Changes(a)'
    BY <1>3, <1>4, <1>11, <2>5, LastChange
  <2>. QED BY <2>2, <2>7, <2>8, <2>10, <2>11 DEF Told, StatusTold
<1>12. CASE c.attempt = a /\ c.op = "TERMINATE"
  <2>1. attempts'[a] = [attempts[a] EXCEPT !.status = "TERMINATED", !.endedAt = ts]
    BY <1>2, <1>12 DEF LeavesRow
  <2>2. /\ SameTimes(a) /\ StatusOf(a)' = "TERMINATED"
        /\ attempts'[a].pausedAt = attempts[a].pausedAt
    BY <1>6, <2>1 DEF Row, SameTimes, StatusOf
  <2>3. StatusOf(a) # "NONE" BY <1>2, <1>12 DEF Accepts
  <2>4. /\ Pauses(a)' = Pauses(a) /\ Resumes(a)' = Resumes(a)
        /\ Changes(a)' = Changes(a) \cup {n}
    BY <1>3, <1>12, CommitEntries DEF Pauses, Resumes, Changes
  <2>5. PausesTold(a)' BY <2>2, <2>3, <2>4 DEF Told, PausesTold
  <2>6. /\ \A i \in Resumes(a)' : PauseBefore(i)' \in Pauses(a)'
        /\ TimesTold(a)'
    BY <1>5, <2>2, <2>3, <2>4, TimesStay DEF Told
  <2>7. LoggedStatus(a)' = "TERMINATED" /\ Max(Changes(a)') \in Changes(a)'
    BY <1>3, <1>4, <1>12, <2>4, LastChange
  <2>. QED BY <2>2, <2>5, <2>6, <2>7 DEF Told, StatusTold
<1>. QED BY <1>2, <1>9, <1>10, <1>11, <1>12 DEF Commands

\* What ends an attempt other than a command leaves the times of its row.
LEMMA RowEnds ==
    ASSUME TypeOK, PagesHold, [Next]_vars, ~\E r \in Requests : CommitCommand(r),
           NEW a \in Attempts
    PROVE  \/ Starts(a)
           \/ attempts'[a] = attempts[a]
           \/ /\ SameTimes(a) /\ attempts'[a].pausedAt = attempts[a].pausedAt
              /\ \/ StatusOf(a) # "NONE" /\ StatusOf(a)' = "EXPIRED"
                 \/ StatusOf(a) = "ACTIVE" /\ StatusOf(a)' = "SUBMITTED"
<1>0. attempts[a] \in Row /\ now \in Nat BY DEF TypeOK
<1>1. ASSUME NEW b \in Attempts, NEW st \in {"EXPIRED", "SUBMITTED"}, End(b, st)
      PROVE  \/ attempts'[a] = attempts[a]
             \/ /\ b = a /\ StatusOf(a)' = st
                /\ SameTimes(a) /\ attempts'[a].pausedAt = attempts[a].pausedAt
  <2>1. b = a => attempts'[a] = [attempts[a] EXCEPT !.status = st, !.endedAt = now]
    BY <1>1, EndType
  <2>2. b # a => attempts'[a] = attempts[a] BY <1>1, EndType
  <2>. QED BY <1>0, <2>1, <2>2 DEF Row, StatusOf, SameTimes
<1>2. ASSUME NEW r \in Requests, ApplyLazyExpiration(r)
      PROVE  \/ attempts'[a] = attempts[a]
             \/ /\ StatusOf(a) # "NONE" /\ StatusOf(a)' = "EXPIRED"
                /\ SameTimes(a) /\ attempts'[a].pausedAt = attempts[a].pausedAt
  <2>1. Serving(r, "expire") /\ End(request[r].attempt, "EXPIRED")
    BY <1>2 DEF ApplyLazyExpiration
  <2>2. request[r].attempt \in Attempts BY <2>1, RequestFields
  <2>3. StatusOf(request[r].attempt) # "NONE" BY <2>1 DEF PagesHold
  <2>. QED BY <1>1, <2>1, <2>2, <2>3
<1>3. ASSUME NEW b \in Attempts, PageActs(b)
      PROVE  \/ attempts' = attempts
             \/ /\ StatusOf(b) = "ACTIVE"
                /\ \E st \in {"EXPIRED", "SUBMITTED"} : End(b, st)
  BY <1>3 DEF PageActs, LoadPage, TimeExpired, TelemetryRefused, SubmitRefused, SubmitAttempt
<1>4. ASSUME NEW b \in Attempts, Starts(b), b # a PROVE attempts'[a] = attempts[a]
  BY <1>4, StartEffect DEF Begins, TypeOK
<1>5. ASSUME NEW r \in Requests,
             \/ \E op \in Commands, b \in Attempts \cup {None}, key \in Key, x \in Extensions :
                   CheckCommand(r, op, b, key, x)
             \/ RollBack(r) \/ LockSession(r) \/ Summarize(r) \/ CommitSignOff(r)
             \/ \E b \in Attempts : ReadPastDeadline(r, b)
      PROVE  attempts' = attempts
  BY <1>5 DEF CheckCommand, RollBack, LockSession, Summarize, CommitSignOff, ReadPastDeadline
<1>6. ASSUME (\E b \in Attempts : FindSession(b)) \/ Tick \/ UNCHANGED vars
      PROVE  attempts' = attempts
  BY <1>6 DEF FindSession, Tick, vars
<1>7. \/ \E r \in Requests : ApplyLazyExpiration(r)
      \/ \E b \in Attempts : PageActs(b)
      \/ \E b \in Attempts : Starts(b)
      \/ attempts' = attempts
  BY <1>5, <1>6, Zenon DEF Next, PageActs, Starts
<1>8. ASSUME NEW b \in Attempts, PageActs(b)
      PROVE  \/ attempts'[a] = attempts[a]
             \/ /\ SameTimes(a) /\ attempts'[a].pausedAt = attempts[a].pausedAt
                /\ StatusOf(a) = "ACTIVE" /\ StatusOf(a)' \in {"EXPIRED", "SUBMITTED"}
  BY <1>1, <1>3, <1>8
<1>. QED BY <1>2, <1>4, <1>7, <1>8

\* An attempt starts without a history.
LEMMA ToldStart ==
    ASSUME TypeOK, NEW a \in Attempts, Told(a), Starts(a)
    PROVE  Told(a)'
<1>. DEFINE n == StartedRow
<1>1. attempts' = [attempts EXCEPT ![a] = n] /\ log' = log /\ StatusOf(a) = "NONE"
  BY StartEffect DEF Begins
<1>2. /\ n.status = "ACTIVE" /\ n.startedAt = now /\ n.expiresAt = FirstDeadline(now)
      /\ n.pausedAt = None /\ n.totalPaused = 0 /\ FirstDeadline(now) \in Int
  BY StartedIs DEF TypeOK
<1>. HIDE DEF n
<1>3. attempts'[a] = n BY <1>1 DEF TypeOK
<1>4. FirstDeadline(now) \in Int BY <1>2
<1>5. Changes(a) = {} BY <1>1 DEF Told
<1>6. Pauses(a) = {} /\ Resumes(a) = {} BY <1>5 DEF Pauses, Resumes, Changes, EntriesOf
<1>7. Changes(a)' = {} /\ Pauses(a)' = {} /\ Resumes(a)' = {}
  BY <1>1, <1>5, <1>6 DEF Changes, Pauses, Resumes, EntriesOf
<1>8. PausesTold(a)' BY <1>2, <1>3, <1>7, FS_EmptySet DEF PausesTold
<1>9. \A g, S : S = {} => SumFunctionOnSet(g, S) = 0 BY SumUnfold, FS_EmptySet
<1>10. /\ SumFunction(TimesPaused(a))' = SumFunctionOnSet(TimesPaused(a)', Resumes(a)')
       /\ SumFunction(TimesAdded(a))' = SumFunctionOnSet(TimesAdded(a)', Resumes(a)')
  <2>1. DOMAIN (TimesPaused(a)') = Resumes(a)' /\ DOMAIN (TimesAdded(a)') = Resumes(a)'
    BY DEF TimesPaused, TimesAdded
  <2>. QED BY <2>1 DEF SumFunction
<1>11. SumFunction(TimesPaused(a))' = 0 /\ SumFunction(TimesAdded(a))' = 0
  BY <1>7, <1>9, <1>10
<1>12. (FirstDeadline(attempts[a].startedAt))' = FirstDeadline(now)
  BY <1>2, <1>3 DEF FirstDeadline
<1>13. TimesTold(a)' BY <1>2, <1>3, <1>4, <1>11, <1>12 DEF TimesTold
<1>14. LoggedStatus(a)' = "ACTIVE" BY <1>7 DEF LoggedStatus, Changes
<1>15. StatusOf(a)' = "ACTIVE" BY <1>2, <1>3 DEF StatusOf
<1>. QED BY <1>2, <1>3, <1>7, <1>8, <1>13, <1>14, <1>15 DEF Told, StatusTold

LEMMA ToldStep ==
    ASSUME TypeOK, PagesHold, PausesHold, LogTells, [Next]_vars
    PROVE  LogTells'
<1>. SUFFICES ASSUME NEW a \in Attempts PROVE Told(a)' BY DEF LogTells
<1>0. Told(a) BY DEF LogTells
<1>1. CASE \E r \in Requests : CommitCommand(r) BY <1>0, <1>1, ToldCommit
<1>2. CASE ~\E r \in Requests : CommitCommand(r)
  <2>1. log' = log BY <1>2, StepKinds DEF CheckCommand
  <2>2. Grown
    <3>1. log \in Seq(Entry) /\ Len(log) \in Nat BY LogType DEF TypeOK
    <3>. QED BY <2>1, <3>1 DEF Grown
  <2>3. Pauses(a)' = Pauses(a) /\ Resumes(a)' = Resumes(a) /\ Changes(a)' = Changes(a)
    BY <2>1 DEF Pauses, Resumes, Changes, EntriesOf
  <2>4. CASE Starts(a) BY <1>0, <2>4, ToldStart
  <2>5. CASE attempts'[a] = attempts[a]
    BY <1>0, <2>2, <2>3, <2>5, ToldStays DEF SameTimes, StatusOf
  <2>6. CASE /\ SameTimes(a) /\ attempts'[a].pausedAt = attempts[a].pausedAt
             /\ \/ StatusOf(a) # "NONE" /\ StatusOf(a)' = "EXPIRED"
                \/ StatusOf(a) = "ACTIVE" /\ StatusOf(a)' = "SUBMITTED"
    BY <1>0, <2>2, <2>3, <2>6, ToldStays
  <2>. QED BY <1>2, <2>4, <2>5, <2>6, RowEnds
<1>. QED BY <1>1, <1>2

LEMMA ToldInit == Init => LogTells
<1>. SUFFICES ASSUME Init, NEW a \in Attempts PROVE Told(a) BY DEF LogTells
<1>1. StatusOf(a) = "NONE" BY DEF Init, StatusOf, NoRow
<1>2. Changes(a) = {} /\ Resumes(a) = {} BY DEF Init, Changes, Resumes, EntriesOf
<1>. QED BY <1>1, <1>2 DEF Told

LEMMA ToldMeans == LogTells => LogExplainsAttempt
  BY DEF LogTells, Told, PausesTold, TimesTold, StatusTold, TimesPaused, TimesAdded,
         Pauses, Resumes, LogExplainsAttempt

\* In every reachable state the interventions logged explain each attempt: pauses and
\* resumes alternate, the deadline and the paused time are the sums that the log gives,
\* and the status is the logged one unless the attempt was submitted or has expired.
THEOREM LogExplained == Spec => []LogExplainsAttempt
<1>1. TypeOK /\ PagesHold /\ PausesHold /\ LogTells /\ [Next]_vars => LogTells' BY ToldStep
<1>. QED BY <1>1, ToldInit, ToldMeans, TypeCorrect, PagesInvariance, PausesInvariance, PTL DEF Spec
===============================================================================
