---------------------------- MODULE Interventions ----------------------------
(***************************************************************************)
(* The invigilator's commands (modules/interventions): announcement and    *)
(* message, pause, resume, terminate and the sign-off of the session, their*)
(* log proctor_interventions, and the candidate's exam page, whose timer   *)
(* knows only the deadline that it loaded, and which submits when its      *)
(* telemetry is refused.                                                   *)
(*                                                                         *)
(* A command reads the attempt and looks its idempotency key up without a  *)
(* lock; then one transaction writes the attempt and the log, both with    *)
(* the CURRENT_TIMESTAMP of its BEGIN.                                     *)
(***************************************************************************)
EXTENDS Integers, Sequences, FiniteSets, FiniteSetsExt, Functions

CONSTANTS
    Attempts, Requests, Keys,
    NoKey,          \* a command without Idempotency-Key
    None,           \* a null column, an idle connection, a closed page
    Duration, SessionEnd,       \* they give an attempt its first deadline
    Extensions,     \* extensionSeconds of a resume
    MaxTime,        \* bound on the clock
    MaxWork         \* bound on what is committed: see Work

ASSUME InterventionAssumption ==
    /\ Duration \in Nat \ {0} /\ SessionEnd \in Nat /\ Extensions \subseteq Nat
    /\ MaxTime \in Nat /\ MaxWork \in Nat
    /\ NoKey \notin Keys /\ None \notin Attempts \cup Nat

VARIABLES
    attempts,       \* exam_attempts
    concluded,      \* exam_sessions.status = CONCLUDED
    log,            \* proctor_interventions, in the order of the commits
    signed,         \* the SESSION_SIGN_OFF entries of audit_logs
    request,        \* the requests in flight
    starting,       \* attempts being started by exam id, the session's status read
    page,           \* the exam pages that are open
    forbidden,      \* history: attempts that ended because their telemetry was answered 403
    late,           \* history: summaries taken before the attempt was started by exam id
    now

history == <<forbidden, late>>
vars == <<attempts, concluded, log, signed, request, starting, page, history, now>>

Status == {"NONE", "ACTIVE", "PAUSED", "SUBMITTED", "TERMINATED", "EXPIRED"}
\* endedAt: when the row got its last status (submitted_at, updated_at).
Row == [status : Status, startedAt : Nat, expiresAt : Int, pausedAt : Nat \cup {None},
        totalPaused : Int, endedAt : Nat]
NoRow == [status |-> "NONE", startedAt |-> 0, expiresAt |-> 0, pausedAt |-> None,
          totalPaused |-> 0, endedAt |-> 0]

Commands == {"PAUSE", "RESUME", "TERMINATE", "WARNING_MESSAGE", "ANNOUNCEMENT"}
Key == Keys \cup {NoKey}
\* created_at is at; read: how long the log was when the key was looked up.
Entry == [type : Commands, attempt : Attempts \cup {None}, key : Key, at : Nat,
          extension : Nat, read : Nat]
Summary == [{"SUBMITTED", "TERMINATED", "ACTIVE", "PAUSED"} -> SUBSET Attempts]
Request ==
    [op : Commands, attempt : Attempts \cup {None}, key : Key, at : Nat, extension : Nat, read : Nat]
    \cup [op : {"expire"}, attempt : Attempts]
    \cup [op : {"signOff"}, summary : Summary \cup {None}]
\* telemetry: sent only by a page that loaded an ACTIVE attempt; once it was answered 422
\* (refused) or 403 (forbidden), the page is submitting.
Page == [expiresAt : Int, latched : BOOLEAN, telemetry : {"off", "on", "refused", "forbidden"}]

\* A PAUSED row says since when.
TypeOK ==
    /\ attempts \in [Attempts -> Row]
    /\ \A a \in Attempts : attempts[a].status = "PAUSED" => attempts[a].pausedAt # None
    /\ concluded \in BOOLEAN
    /\ log \in Seq(Entry) /\ signed \in Seq(Summary)
    /\ request \in [Requests -> Request \cup {None}]
    /\ starting \subseteq Attempts
    /\ page \in [Attempts -> Page \cup {None}] /\ now \in Nat
    /\ forbidden \subseteq Attempts /\ late \in [Attempts -> Nat]

Init ==
    /\ attempts = [a \in Attempts |-> NoRow] /\ concluded = FALSE
    /\ log = <<>> /\ signed = <<>>
    /\ request = [r \in Requests |-> None]
    /\ starting = {} /\ page = [a \in Attempts |-> None] /\ now = 0
    /\ forbidden = {} /\ late = [a \in Attempts |-> 0]

StatusOf(a) == attempts[a].status
Serving(r, op) == request[r] # None /\ request[r].op = op
Close(r) == request' = [request EXCEPT ![r] = None]
End(a, status) == attempts' = [attempts EXCEPT ![a].status = status, ![a].endedAt = now]

(***************************************************************************)
(* Commands on attempts, messages and announcements.                       *)
(***************************************************************************)
\* Mutant: a key is known only for the command that used it.
Known_SameType(op, a, key) ==
    \E i \in DOMAIN log : log[i].key = key /\ log[i].attempt = a /\ log[i].type = op
\* findInterventionByIdempotencyKey: whatever the command was, and for an
\* announcement whatever the attempt was.
Known(op, a, key) ==
    \E i \in DOMAIN log : key # NoKey /\ log[i].key = key /\ (a = None \/ log[i].attempt = a)

\* Mutant: pausing does not ask for an ACTIVE attempt.
Accepts_Pause(op, a) ==
    CASE op = "PAUSE" -> StatusOf(a) # "NONE"
      [] op = "RESUME" -> StatusOf(a) = "PAUSED"
      [] op = "TERMINATE" -> StatusOf(a) \in {"ACTIVE", "PAUSED"}
      [] op = "WARNING_MESSAGE" -> StatusOf(a) # "NONE"
      [] op = "ANNOUNCEMENT" -> TRUE
\* The status check before the transaction, and the WHERE of the UPDATE in it.
Accepts(op, a) ==
    CASE op = "PAUSE" -> StatusOf(a) = "ACTIVE"
      [] op = "RESUME" -> StatusOf(a) = "PAUSED"
      [] op = "TERMINATE" -> StatusOf(a) \in {"ACTIVE", "PAUSED"}
      [] op = "WARNING_MESSAGE" -> StatusOf(a) # "NONE"
      [] op = "ANNOUNCEMENT" -> TRUE

\* The bound: a command counts once, and once more for its key and for its extension;
\* sign-offs and 403 replies that end an attempt count twice.
Weight(key, extension) ==
    1 + (IF key = NoKey THEN 0 ELSE 1) + (IF extension = 0 THEN 0 ELSE 1)
Work == Len(log) + Cardinality({i \in DOMAIN log : log[i].key # NoKey})
        + Cardinality({i \in DOMAIN log : log[i].extension # 0})
        + 2 * (IF concluded /\ signed = <<>> THEN 1 ELSE Len(signed)) + 2 * Cardinality(forbidden)
\* A message without a key changes nothing that is modelled.
HasRoom(op, key, extension) ==
    /\ key = NoKey => op \notin {"WARNING_MESSAGE", "ANNOUNCEMENT"}
    /\ Work + Weight(key, extension) <= MaxWork

\* A known key, a status already reached and a refused one are answered at once.
CheckCommand(r, op, a, key, extension) ==
    /\ request[r] = None
    /\ (op = "ANNOUNCEMENT") = (a = None) /\ (op # "RESUME" => extension = 0)
    /\ Accepts(op, a) /\ ~Known(op, a, key) /\ HasRoom(op, key, extension)
    /\ request' = [request EXCEPT ![r] =
         [op |-> op, attempt |-> a, key |-> key, at |-> now, extension |-> extension,
          read |-> Len(log)]]
    /\ UNCHANGED <<attempts, concluded, log, signed, starting, page, history, now>>

PausedRow(row, ts) == [row EXCEPT !.status = "PAUSED", !.pausedAt = ts]

\* Mutants: the extension is forgotten; the difference is taken the wrong way round.
ResumedRow_NoExtension(row, ts, extension) ==
    [row EXCEPT !.status = "ACTIVE", !.expiresAt = @ + (ts - row.pausedAt),
                !.totalPaused = @ + (ts - row.pausedAt), !.pausedAt = None]
ResumedRow_Swapped(row, ts, extension) ==
    [row EXCEPT !.status = "ACTIVE", !.expiresAt = @ + (row.pausedAt - ts) + extension,
                !.totalPaused = @ + (ts - row.pausedAt), !.pausedAt = None]
ResumedRow(row, ts, extension) ==
    [row EXCEPT !.status = "ACTIVE", !.expiresAt = @ + (ts - row.pausedAt) + extension,
                !.totalPaused = @ + (ts - row.pausedAt), !.pausedAt = None]

\* The attempt as the command leaves it, ts being the time of its BEGIN.
Commanded(c, ts) ==
    CASE c.op = "PAUSE" -> [attempts EXCEPT ![c.attempt] = PausedRow(@, ts)]
      [] c.op = "RESUME" -> [attempts EXCEPT ![c.attempt] = ResumedRow(@, ts, c.extension)]
      [] c.op = "TERMINATE" -> [attempts EXCEPT ![c.attempt].status = "TERMINATED",
                                               ![c.attempt].endedAt = ts]
      [] OTHER -> attempts

CommitCommand(r) ==
    LET c == request[r]
    IN  /\ \E op \in Commands : Serving(r, op)
        /\ Accepts(c.op, c.attempt) /\ HasRoom(c.op, c.key, c.extension)
        /\ \E ts \in c.at .. now :
             /\ attempts' = Commanded(c, ts)
             /\ log' = Append(log, [type |-> c.op, attempt |-> c.attempt, key |-> c.key,
                                    at |-> ts, extension |-> c.extension, read |-> c.read])
        /\ Close(r) /\ UNCHANGED <<concluded, signed, starting, page, history, now>>

\* A lost race, an error or a crash: the transaction rolls back.
RollBack(r) ==
    /\ request[r] # None /\ Close(r)
    /\ UNCHANGED <<attempts, concluded, log, signed, starting, page, history, now>>

(***************************************************************************)
(* signOffSession.                                                         *)
(***************************************************************************)
SigningOff == {r \in Requests : Serving(r, "signOff")}

\* concludeSession locks the session's row; whether it was concluded already or
\* attempts still run is not asked.
LockSession(r) ==
    /\ request[r] = None /\ SigningOff = {} /\ Work + 2 <= MaxWork
    /\ request' = [request EXCEPT ![r] = [op |-> "signOff", summary |-> None]]
    /\ UNCHANGED <<attempts, concluded, log, signed, starting, page, history, now>>

\* getSessionSummary, on other connections; EXPIRED attempts are not counted.
Summarize(r) ==
    /\ r \in SigningOff /\ request[r].summary = None
    /\ request' = [request EXCEPT ![r].summary =
         [st \in {"SUBMITTED", "TERMINATED", "ACTIVE", "PAUSED"} |->
             {a \in Attempts : StatusOf(a) = st}]]
    /\ UNCHANGED <<attempts, concluded, log, signed, starting, page, history, now>>

\* How many summaries were recorded, or are about to be.
SummariesTaken ==
    Len(signed) + (IF \E r \in SigningOff : request[r].summary # None THEN 1 ELSE 0)

\* recordAuditEvent runs after the COMMIT, and its failure is only logged.
CommitSignOff(r) ==
    /\ r \in SigningOff /\ request[r].summary # None
    /\ concluded' = TRUE
    /\ signed' \in {signed, Append(signed, request[r].summary)}
    /\ Close(r) /\ UNCHANGED <<attempts, log, starting, page, history, now>>

(***************************************************************************)
(* The candidate: start, the exam page and its timer, submission.          *)
(***************************************************************************)
\* Mutant: the session is read without a lock.
Startable_NoLock(a) == StatusOf(a) = "NONE" /\ ~concluded /\ now < SessionEnd
\* startAttempt locks the session FOR SHARE, so it waits for a sign-off.
Startable(a) == StatusOf(a) = "NONE" /\ ~concluded /\ now < SessionEnd /\ SigningOff = {}

FirstDeadline(startedAt) ==
    IF startedAt + Duration < SessionEnd THEN startedAt + Duration ELSE SessionEnd

StartedRow ==
    [NoRow EXCEPT !.status = "ACTIVE", !.startedAt = now, !.expiresAt = FirstDeadline(now)]

\* A start by exam id then only finds the attempt.
StartAttempt(a) ==
    /\ Startable(a)
    /\ attempts' = [attempts EXCEPT ![a] = StartedRow] /\ starting' = starting \ {a}
    /\ UNCHANGED <<concluded, log, signed, request, page, history, now>>

\* Given the exam's id, startAttempt finds its open session by a plain SELECT.
FindSession(a) ==
    /\ a \notin starting /\ StatusOf(a) = "NONE" /\ ~concluded
    /\ starting' = starting \cup {a}
    /\ UNCHANGED <<attempts, concluded, log, signed, request, page, history, now>>

\* The foreign keys of its INSERTs do not wait for the UPDATE of a sign-off.
StartByExam(a) ==
    /\ a \in starting /\ StatusOf(a) = "NONE" /\ now < SessionEnd
    /\ attempts' = [attempts EXCEPT ![a] = StartedRow]
    /\ late' = [late EXCEPT ![a] = SummariesTaken]
    /\ starting' = starting \ {a}
    /\ UNCHANGED <<concluded, log, signed, request, page, forbidden, now>>

\* loadExamData; a finished attempt leads to its result instead.
LoadPage(a) ==
    /\ \/ StatusOf(a) = "ACTIVE" /\ now < attempts[a].expiresAt
       \/ StatusOf(a) \in {"PAUSED", "TERMINATED"}
    /\ page' = [page EXCEPT ![a] =
         [expiresAt |-> attempts[a].expiresAt, latched |-> FALSE,
          telemetry |-> IF StatusOf(a) = "ACTIVE" THEN "on" ELSE "off"]]
    /\ UNCHANGED <<attempts, concluded, log, signed, request, starting, history, now>>

\* Mutant: the timer takes the browser's clock for the server's.
TimeIsUp_LocalClock(a) == now + 1 >= page[a].expiresAt
\* The page learns of no resume: it subscribes to a room nobody sends to.
TimeIsUp(a) == now >= page[a].expiresAt

\* onTimeExpired submits once with auto_expired, which the server takes as it is.
TimeExpired(a) ==
    /\ page[a] # None /\ ~page[a].latched /\ TimeIsUp(a)
    /\ IF StatusOf(a) = "ACTIVE"
       THEN End(a, "EXPIRED") /\ page' = [page EXCEPT ![a] = None]
       ELSE /\ UNCHANGED attempts
            /\ page' = [page EXCEPT ![a].latched = TRUE,
                                    ![a].telemetry = IF @ = "on" THEN "off" ELSE @]
    /\ UNCHANGED <<concluded, log, signed, request, starting, history, now>>

\* POST /attempts/:id/events is answered 422 unless the attempt is ACTIVE and in time, or
\* 403, at any time, when the page's clock or its signature is off: proctornet:attempt-expired.
TelemetryRefused(a) ==
    /\ page[a] # None /\ ~page[a].latched /\ page[a].telemetry = "on"
    /\ \/ /\ StatusOf(a) # "ACTIVE" \/ now >= attempts[a].expiresAt
          /\ page' = [page EXCEPT ![a].telemetry = "refused"]
       \/ /\ Work + 2 <= MaxWork
          /\ page' = [page EXCEPT ![a].telemetry = "forbidden"]
    /\ UNCHANGED <<attempts, concluded, log, signed, request, starting, history, now>>

\* handleAttemptExpired submits with auto_expired.  The page stays after a 409, for a PAUSED
\* or TERMINATED attempt, and while the browser is offline.
SubmitRefused(a) ==
    /\ page[a] # None /\ page[a].telemetry \in {"refused", "forbidden"}
    /\ \/ /\ StatusOf(a) = "ACTIVE" /\ End(a, "EXPIRED")
          /\ forbidden' = IF page[a].telemetry = "forbidden" THEN forbidden \cup {a} ELSE forbidden
          /\ page' = [page EXCEPT ![a] = None]
       \/ /\ StatusOf(a) \in {"SUBMITTED", "EXPIRED"} /\ page' = [page EXCEPT ![a] = None]
          /\ UNCHANGED <<attempts, forbidden>>
       \/ /\ page' = [page EXCEPT ![a].telemetry = IF page[a].latched THEN "off" ELSE "on"]
          /\ UNCHANGED <<attempts, forbidden>>
    /\ UNCHANGED <<concluded, log, signed, request, starting, late, now>>

SubmitAttempt(a) ==
    /\ page[a] # None /\ ~page[a].latched /\ page[a].telemetry \in {"off", "on"}
    /\ StatusOf(a) = "ACTIVE"
    /\ End(a, IF now >= attempts[a].expiresAt THEN "EXPIRED" ELSE "SUBMITTED")
    /\ page' = [page EXCEPT ![a] = None]
    /\ UNCHANGED <<concluded, log, signed, request, starting, history, now>>

\* checkAndApplyLazyExpiration: the row is read, and written later whatever it is then.
ReadPastDeadline(r, a) ==
    /\ request[r] = None /\ StatusOf(a) = "ACTIVE" /\ now >= attempts[a].expiresAt
    /\ request' = [request EXCEPT ![r] = [op |-> "expire", attempt |-> a]]
    /\ UNCHANGED <<attempts, concluded, log, signed, starting, page, history, now>>

ApplyLazyExpiration(r) ==
    /\ Serving(r, "expire") /\ End(request[r].attempt, "EXPIRED")
    /\ Close(r) /\ UNCHANGED <<concluded, log, signed, starting, page, history, now>>

Tick == now < MaxTime /\ now' = now + 1
        /\ UNCHANGED <<attempts, concluded, log, signed, request, starting, page, history>>

Next ==
    \/ \E r \in Requests :
          \/ \E op \in Commands, a \in Attempts \cup {None}, key \in Key, x \in Extensions :
                CheckCommand(r, op, a, key, x)
          \/ CommitCommand(r) \/ RollBack(r)
          \/ LockSession(r) \/ Summarize(r) \/ CommitSignOff(r)
          \/ \E a \in Attempts : ReadPastDeadline(r, a)
          \/ ApplyLazyExpiration(r)
    \/ \E a \in Attempts :
          \/ StartAttempt(a) \/ FindSession(a) \/ StartByExam(a)
          \/ LoadPage(a) \/ TimeExpired(a)
          \/ TelemetryRefused(a) \/ SubmitRefused(a) \/ SubmitAttempt(a)
    \/ Tick

Spec == Init /\ [][Next]_vars

(***************************************************************************)
(* Properties.                                                             *)
(***************************************************************************)
EntriesOf(a, types) == {i \in DOMAIN log : log[i].attempt = a /\ log[i].type \in types}
\* The PAUSE that the RESUME at i ends.
PauseBefore(i) == Max({j \in EntriesOf(log[i].attempt, {"PAUSE"}) : j < i})
PausedFor(i) == log[i].at - log[PauseBefore(i)].at

\* The status that the log of an attempt ends in.
LoggedStatus(a) ==
    LET S == EntriesOf(a, {"PAUSE", "RESUME", "TERMINATE"})
    IN  IF S = {} THEN "ACTIVE"
        ELSE CASE log[Max(S)].type = "PAUSE" -> "PAUSED"
               [] log[Max(S)].type = "RESUME" -> "ACTIVE"
               [] log[Max(S)].type = "TERMINATE" -> "TERMINATED"

\* The log tells what happened to an attempt: pauses and resumes alternate, the
\* deadline is the first one plus the pauses and extensions logged, and the
\* status is the logged one unless the attempt was submitted while it was
\* ACTIVE or has expired (the UPDATEs with WHERE status, against submissions,
\* other commands and the lazy expiration that has no WHERE status).
LogExplainsAttempt ==
    \A a \in Attempts :
        LET resumes == EntriesOf(a, {"RESUME"})
            paused == SumFunction([i \in resumes |-> PausedFor(i)])
            extended == SumFunction([i \in resumes |-> log[i].extension])
        IN  StatusOf(a) # "NONE" =>
            /\ Cardinality(resumes) =
                 Cardinality(EntriesOf(a, {"PAUSE"})) - (IF attempts[a].pausedAt = None THEN 0 ELSE 1)
            /\ attempts[a].totalPaused = paused
            /\ attempts[a].expiresAt = FirstDeadline(attempts[a].startedAt) + paused + extended
            /\ \/ StatusOf(a) = LoggedStatus(a)
               \/ StatusOf(a) = "SUBMITTED" /\ LoggedStatus(a) = "ACTIVE"
               \/ StatusOf(a) = "EXPIRED"

\* One idempotency key is logged twice for an attempt only when the second command
\* looked it up before the first had committed: there is no UNIQUE constraint
\* behind findInterventionByIdempotencyKey.
KeyLoggedTwiceOnlyByOverlap ==
    \A i, j \in DOMAIN log :
        i < j /\ log[i].key # NoKey /\ log[i].key = log[j].key
              /\ log[i].attempt = log[j].attempt => log[j].read < i

\* A resume takes time away from the candidate only when it was checked, and
\* its transaction began, before the pause that it ends (CURRENT_TIMESTAMP is
\* that of the BEGIN, and the UPDATE only asks for some pause).
ShortenedOnlyByStaleResume ==
    [][\A a \in Attempts : attempts'[a].expiresAt < attempts[a].expiresAt =>
          /\ Len(log') > Len(log) /\ log'[Len(log')].type = "RESUME"
          /\ log'[Len(log')].read < Max(EntriesOf(a, {"PAUSE"}))]_vars

\* A candidate loses time that the deadline still allows only when the attempt was
\* resumed, for the page counts down to the deadline that it loaded, or when telemetry was
\* answered 403, for it then submits as if the time were up (ExamTakingPage).
CutOffIsExplained ==
    \A a \in Attempts :
        /\ StatusOf(a) = "EXPIRED" /\ attempts[a].endedAt < attempts[a].expiresAt
             => EntriesOf(a, {"RESUME"}) # {} \/ a \in forbidden
        /\ StatusOf(a) = "ACTIVE" /\ page[a] # None /\ page[a].latched /\ now < attempts[a].expiresAt
             => EntriesOf(a, {"RESUME"}) # {}

\* Every attempt is in a recorded summary, or had expired, unless it was started by exam
\* id after the summary was taken: no other start comes between a summary and the
\* commit of the sign-off, nor later (startAttempt's lock against concludeSession's).
SignOffMissesOnlyStartsByExam ==
    \A k \in DOMAIN signed : \A a \in Attempts :
        \/ StatusOf(a) \in {"NONE", "EXPIRED"}
        \/ \E st \in DOMAIN signed[k] : a \in signed[k][st]
        \/ k <= late[a]
==============================================================================
