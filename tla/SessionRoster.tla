---------------------------- MODULE SessionRoster ----------------------------
(***************************************************************************)
(* Sessions of the exams, their rooms, candidates and invigilators         *)
(* (modules/sessions), and what else puts people on a roster: looking at a *)
(* session (getSessionById), starting the exam (startAttempt), and         *)
(* scheduling an exam as its faculty (scheduleExam).                       *)
(*                                                                         *)
(* Each command is a transaction that locks the session, then its exam,    *)
(* then a room, and holds the locks until it commits or rolls back; only a *)
(* start that was given the exam's id locks the exam before the session.   *)
(***************************************************************************)
EXTENDS Naturals, FiniteSets, FiniteSetsExt

CONSTANTS
    Sessions, Exams, Rooms, Students, Staff,
    Slots,          \* time windows: two sessions overlap when they have the same
    Capacity,       \* rooms.capacity, for each room
    None,           \* no room, no time window, no transaction
    Transactions,   \* connections that run commands
    MaxCommands     \* bound on the commands, views, schedulings and sign-offs

ASSUME RosterAssumption ==
    /\ Capacity \in [Rooms -> Nat]
    /\ None \notin Rooms /\ MaxCommands \in Nat /\ IsFiniteSet(Students)
    /\ Sessions \cap Exams = {} /\ Sessions \cap Rooms = {} /\ Exams \cap Rooms = {}

VARIABLES
    examOf,         \* the exam of each session
    session,        \* exam_sessions: status, room and time window
    roster,         \* session_students
    invigilators,   \* session_invigilators
    tx,             \* the running commands
    commands,       \* how many of them there were
    auto,           \* history: who was put on a roster without being assigned
    unchecked,      \* history: whom scheduleExam booked, which looks for no conflicts
    moved,          \* history: sessions whose window changed
    raced           \* history: bookings that another commit made conflicting after the check

rosterVars == <<examOf, session, roster, invigilators, tx, commands, auto, unchecked, moved, raced>>
tables == <<session, roster, invigilators>>
history == <<auto, unchecked, moved, raced>>

People == Students \cup Staff
\* ABSENT: there is no row yet. CONCLUDED stands for CANCELLED too.
Session == [status : {"ABSENT", "SCHEDULED", "ACTIVE", "CONCLUDED"}, room : Rooms \cup {None},
            slot : Slots \cup {None}]
Command ==
    [kind : {"assign"}, students : (SUBSET Students) \ {{}}] \cup [kind : {"remove"}, student : Students]
    \cup [kind : {"invigilate", "release"}, user : Staff]
    \cup [kind : {"move"}, room : Rooms \cup {None}] \cup [kind : {"reschedule"}, slot : Slots]
    \cup [kind : {"setStatus"}, status : {"ACTIVE", "CONCLUDED"}]
    \cup [kind : {"start", "startByExam"}, student : Students]
\* held: how many locks the command has taken; clashing: who had a conflicting
\* booking when the conflicts were looked up.
Tx == [held : 1 .. 3, checked : BOOLEAN, session : Sessions, command : Command,
       clashing : SUBSET People]

RosterTypeOK ==
    /\ examOf \in [Sessions -> Exams]
    /\ session \in [Sessions -> Session]
    /\ roster \in [Sessions -> SUBSET Students]
    /\ invigilators \in [Sessions -> SUBSET Staff]
    /\ tx \in [Transactions -> Tx \cup {None}] /\ commands \in Nat
    /\ auto \in [Sessions -> SUBSET Students] /\ unchecked \in [Sessions -> SUBSET People]
    /\ moved \subseteq Sessions /\ raced \subseteq Sessions \X Sessions \X People

\* No session yet; examOf says of which exam each will be.
RosterInit ==
    /\ examOf \in [Sessions -> Exams]
    /\ session = [s \in Sessions |-> [status |-> "ABSENT", room |-> None, slot |-> None]]
    /\ roster = [s \in Sessions |-> {}] /\ invigilators = [s \in Sessions |-> {}]
    /\ tx = [t \in Transactions |-> None] /\ commands = 0
    /\ auto = [s \in Sessions |-> {}] /\ unchecked = [s \in Sessions |-> {}]
    /\ moved = {} /\ raced = {}

(***************************************************************************)
(* Locks.                                                                  *)
(***************************************************************************)
Running(t) == tx[t] # None
Kind(t) == tx[t].command.kind
\* startAttempt locks FOR SHARE, and the foreign keys of what it inserts FOR KEY SHARE;
\* every other command locks FOR UPDATE.
Starts == {"start", "startByExam"}
Shares(t) == Kind(t) \in Starts
\* The room that a command locks, if any.
RoomOf(t) == IF Kind(t) = "move" THEN {tx[t].command.room} \ {None}
             ELSE IF Kind(t) = "assign" THEN {session[tx[t].session].room} \ {None} ELSE {}

\* Mutant: a command that moves a session locks the room before the exam.
LockOrder_RoomFirst(t) ==
    IF Kind(t) = "move"
    THEN <<{tx[t].session}, RoomOf(t), {examOf[tx[t].session]}>>
    ELSE <<{tx[t].session}, {examOf[tx[t].session]}, RoomOf(t)>>
\* findSessionByIdForUpdate, findExamByIdForUpdate, findRoomByIdForUpdate. A start by
\* exam id finds the session by a plain SELECT, locks the exam, and the session only
\* when it inserts rows that refer to it.
LockOrder(t) ==
    IF Kind(t) = "startByExam" THEN <<{}, {examOf[tx[t].session]}, {tx[t].session}>>
    ELSE <<{tx[t].session}, {examOf[tx[t].session]}, RoomOf(t)>>

Holds(t) == IF Running(t) THEN UNION {LockOrder(t)[i] : i \in 1 .. tx[t].held} ELSE {}
Wants(t) == IF Running(t) /\ tx[t].held < 3 THEN LockOrder(t)[tx[t].held + 1] ELSE {}
WaitsFor(t) == {h \in Transactions \ {t} : /\ Wants(t) \cap Holds(h) # {}
                                           /\ ~(Shares(h) /\ Shares(t))}

\* Statuses in which an exam can be started and a booking counts.
Open == {"SCHEDULED", "ACTIVE"}

\* The command arrives and takes its first lock; nobody waits for one that waits here.
\* A start by exam id only reads the status of a session of the exam (the code takes the
\* earliest, here it may be any).
Give(t, s, c) ==
    /\ ~Running(t) /\ commands < MaxCommands /\ commands' = commands + 1
    /\ session[s].status # "ABSENT"
    /\ IF c.kind = "startByExam" THEN session[s].status \in Open
       ELSE ~\E h \in Transactions : s \in Holds(h) /\ ~(Shares(h) /\ c.kind = "start")
    /\ tx' = [tx EXCEPT ![t] = [held |-> 1, checked |-> FALSE, session |-> s,
                                command |-> c, clashing |-> {}]]
    /\ UNCHANGED <<examOf, tables, history>>

TakeLock(t) ==
    /\ Running(t) /\ tx[t].held < 3 /\ WaitsFor(t) = {}
    /\ tx' = [tx EXCEPT ![t].held = @ + 1]
    /\ UNCHANGED <<examOf, tables, commands, history>>

(***************************************************************************)
(* Checks and writes.                                                      *)
(***************************************************************************)
Conflict(s, z) == s # z /\ session[s].slot = session[z].slot /\ session[z].status \in Open
Booked(z) == roster[z] \cup invigilators[z]
\* findConflictingStudentSessions, findConflictingInvigilatorSessions
Clashing(s) == UNION {Booked(z) : z \in {y \in Sessions : Conflict(s, y)}}

\* Whom the command books into its session.
Adds(t) == IF Kind(t) = "assign" THEN tx[t].command.students \ roster[tx[t].session]
           ELSE IF Kind(t) = "invigilate" THEN {tx[t].command.user} ELSE {}

\* Mutant: conflicting bookings are not refused.
FreeOf_Conflicts(t) == TRUE
FreeOf(t) == Adds(t) \cap Clashing(tx[t].session) = {}

\* Mutant: the room must hold the new candidates only.
Fits_NewOnly(s, adds) == session[s].room # None => Cardinality(adds) <= Capacity[session[s].room]
Fits(s, adds) ==
    session[s].room # None => Cardinality(roster[s] \cup adds) <= Capacity[session[s].room]

\* Mutant: the status of the session is not checked.
Modifiable_Always(s) == TRUE
Modifiable(s) == session[s].status = "SCHEDULED"

\* The checks of each command, all its locks taken; a failed one rolls it back.
Allowed(t) ==
    LET s == tx[t].session
        c == tx[t].command
    IN  CASE c.kind = "assign" -> Modifiable(s) /\ Fits(s, Adds(t)) /\ FreeOf(t)
          [] c.kind = "remove" -> Modifiable(s) /\ c.student \in roster[s]
          [] c.kind = "invigilate" -> FreeOf(t)
          [] c.kind = "release" -> c.user \in invigilators[s]
          [] c.kind = "move" -> /\ Modifiable(s)
                                /\ c.room # None => Cardinality(roster[s]) <= Capacity[c.room]
          [] c.kind \in {"reschedule", "setStatus"} -> Modifiable(s)
          [] c.kind = "start" -> session[s].status \in Open
          [] c.kind = "startByExam" -> TRUE  \* it was Open when Give read it

Check(t) ==
    /\ Running(t) /\ tx[t].held = 3 /\ ~tx[t].checked /\ Allowed(t)
    /\ tx' = [tx EXCEPT ![t].checked = TRUE, ![t].clashing = Clashing(tx[t].session)]
    /\ UNCHANGED <<examOf, tables, commands, history>>

SetSession(t) ==
    LET s == tx[t].session
        c == tx[t].command
    IN  CASE c.kind = "move" -> [session EXCEPT ![s].room = c.room]
          [] c.kind = "reschedule" -> [session EXCEPT ![s].slot = c.slot]
          [] c.kind = "setStatus" -> [session EXCEPT ![s].status = c.status]
          [] OTHER -> session

SetRoster(t) ==
    LET s == tx[t].session
        c == tx[t].command
    IN  CASE c.kind = "assign" -> [roster EXCEPT ![s] = @ \cup c.students]
          [] c.kind = "remove" -> [roster EXCEPT ![s] = @ \ {c.student}]
          [] c.kind \in Starts -> [roster EXCEPT ![s] = @ \cup {c.student}]
          [] OTHER -> roster

SetInvigilators(t) ==
    LET s == tx[t].session
        c == tx[t].command
    IN  CASE c.kind = "invigilate" -> [invigilators EXCEPT ![s] = @ \cup {c.user}]
          [] c.kind = "release" -> [invigilators EXCEPT ![s] = @ \ {c.user}]
          [] OTHER -> invigilators

\* Bookings of t that another transaction made conflicting since the check.
RacedBy(t) ==
    {<<tx[t].session, z, p>> :
        z \in {y \in Sessions : Conflict(tx[t].session, y)},
        p \in {q \in Adds(t) \ tx[t].clashing : q \in Clashing(tx[t].session)}}

Commit(t) ==
    LET s == tx[t].session
        c == tx[t].command
    IN  /\ Running(t) /\ tx[t].checked
        /\ session' = SetSession(t) /\ roster' = SetRoster(t)
        /\ invigilators' = SetInvigilators(t)
        /\ auto' = IF c.kind \in Starts /\ c.student \notin roster[s]
                   THEN [auto EXCEPT ![s] = @ \cup {c.student}] ELSE auto
        /\ moved' = IF c.kind = "reschedule" THEN moved \cup {s} ELSE moved
        /\ raced' = raced \cup RacedBy(t)
        /\ tx' = [tx EXCEPT ![t] = None]
        /\ UNCHANGED <<examOf, commands, unchecked>>

RollBack(t) ==
    /\ Running(t) /\ tx' = [tx EXCEPT ![t] = None]
    /\ UNCHANGED <<examOf, tables, commands, history>>

\* getSessionById by a student who is not on the roster. Like startAttempt it enrols
\* anyone: findSessionById does not select the targets that it compares. The INSERT,
\* whose foreign key locks the session, waits for commands that hold it FOR UPDATE.
ViewSession(s, p) ==
    /\ session[s].status # "ABSENT" /\ p \notin roster[s]
    /\ commands < MaxCommands /\ commands' = commands + 1
    /\ ~\E t \in Transactions : s \in Holds(t) /\ ~Shares(t)
    /\ roster' = [roster EXCEPT ![s] = @ \cup {p}]
    /\ auto' = [auto EXCEPT ![s] = @ \cup {p}]
    /\ UNCHANGED <<examOf, session, invigilators, tx, unchecked, moved, raced>>

(***************************************************************************)
(* Single steps.                                                           *)
(***************************************************************************)
\* createSession locks the exam FOR UPDATE, and the room by its foreign key; that the
\* room is free at the time is not checked.
CreateSession(s, r, w) ==
    /\ session[s].status = "ABSENT"
    /\ ~\E t \in Transactions : {examOf[s], r} \cap Holds(t) # {}
    /\ session' = [session EXCEPT ![s] = [status |-> "SCHEDULED", room |-> r, slot |-> w]]
    /\ UNCHANGED <<examOf, roster, invigilators, tx, commands, history>>

\* scheduleExam inserts an exam and its session, the eligible students P and the faculty
\* as invigilator: rows that nobody sees before the commit, and no check of conflicts.
ScheduleExam(s, w, P, f) ==
    /\ session[s].status = "ABSENT" /\ commands < MaxCommands /\ commands' = commands + 1
    /\ \A z \in Sessions : session[z].status # "ABSENT" => examOf[z] # examOf[s]
    /\ session' = [session EXCEPT ![s] = [status |-> "SCHEDULED", room |-> None, slot |-> w]]
    /\ roster' = [roster EXCEPT ![s] = P]
    /\ invigilators' = [invigilators EXCEPT ![s] = {f}]
    /\ unchecked' = [unchecked EXCEPT ![s] = @ \cup P \cup {f}]
    /\ UNCHANGED <<examOf, tx, auto, moved, raced>>

\* signOffSession: one unconditional UPDATE, which waits for FOR SHARE and FOR UPDATE, but
\* not for the foreign keys of a start by exam id.
SignOff(s) ==
    /\ session[s].status # "ABSENT" /\ commands < MaxCommands /\ commands' = commands + 1
    /\ \A t \in Transactions : s \in Holds(t) => Kind(t) = "startByExam"
    /\ session' = [session EXCEPT ![s].status = "CONCLUDED"]
    /\ UNCHANGED <<examOf, roster, invigilators, tx, history>>

RosterNext ==
    \/ \E t \in Transactions :
          \/ \E s \in Sessions, c \in Command : Give(t, s, c)
          \/ TakeLock(t) \/ Check(t) \/ Commit(t) \/ RollBack(t)
    \/ \E s \in Sessions :
          \/ \E p \in Students : ViewSession(s, p)
          \/ \E r \in Rooms \cup {None}, w \in Slots : CreateSession(s, r, w)
          \/ \E w \in Slots, P \in SUBSET Students, f \in Staff : ScheduleExam(s, w, P, f)
          \/ SignOff(s)

RosterSpec == RosterInit /\ [][RosterNext]_rosterVars

(***************************************************************************)
(* Properties.                                                             *)
(***************************************************************************)
\* Transactions wait for each other only when one of them is a start by exam id
\* (startAttempt): all others take session, exam and room in one order, whatever
\* commands run together.
OnlyExamStartsDeadlock ==
    \A T \in (SUBSET Transactions) \ {{}} :
        \/ \E t \in T : WaitsFor(t) \cap T = {}
        \/ \E t \in T : Running(t) /\ Kind(t) = "startByExam"

\* A roster exceeds the capacity of the session's room only when a candidate got on
\* it by looking at the session or by starting the exam (assignStudents and
\* updateSession against getSessionById and startAttempt).
OverfullOnlyByAutoEnrolment ==
    \A s \in Sessions :
        session[s].room # None => \/ Cardinality(roster[s]) <= Capacity[session[s].room]
                                 \/ auto[s] # {}

\* A person is booked in two open sessions at the same time only because one of them was
\* rescheduled, because scheduleExam booked them, because the candidate was not assigned
\* but got on the roster, or because commands on sessions of different exams checked
\* before either wrote (the conflict checks of assignStudents and assignInvigilator).
DoubleBookingIsExplained ==
    \A s, z \in Sessions : \A p \in Booked(s) \cap Booked(z) :
        Conflict(s, z) /\ session[s].status \in Open =>
            \/ s \in moved \/ z \in moved
            \/ p \in auto[s] \cup auto[z] \cup unchecked[s] \cup unchecked[z]
            \/ examOf[s] # examOf[z] /\ {<<s, z, p>>, <<z, s, p>>} \cap raced # {}

\* The step commits a start by exam id of p, whose session was read while it was open.
LateStart(s, p) ==
    \E t \in Transactions :
        /\ Running(t) /\ Kind(t) = "startByExam" /\ tx'[t] = None
        /\ tx[t].session = s /\ tx[t].command.student = p

\* Once a session is concluded nobody leaves its roster, and nobody joins it except by
\* looking at it or by a start by exam id that read it before (the status check of
\* assignStudents, removeStudent and startAttempt, against a session that is concluded
\* while they wait for its lock).
ConcludedRosterIsKept ==
    [][\A s \in Sessions : session[s].status = "CONCLUDED" =>
          /\ session'[s] = session[s] /\ roster[s] \subseteq roster'[s]
          /\ \A p \in roster'[s] \ roster[s] : tx' = tx \/ LateStart(s, p)]_rosterVars

==============================================================================
