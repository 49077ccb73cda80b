\* Two sessions and a room for one candidate: two candidates fill it.
SPECIFICATION RosterSpec
CONSTANTS
    s1 = s1
    s2 = s2
    e1 = e1
    e2 = e2
    r1 = r1
    p1 = p1
    p2 = p2
    f1 = f1
    Sessions = {s1, s2}
    Exams = {e1, e2}
    Rooms = {r1}
    Students = {p1, p2}
    Staff = {f1}
    Slots = {w1, w2}
    Capacity <- MCCapacity
    None = None
    Transactions = {t1, t2}
    MaxCommands = 3
\* Every command may have been given.
CHECK_DEADLOCK FALSE
SYMMETRY Symmetry
INVARIANTS  OverfullOnlyByAutoEnrolment 
PROPERTIES ConcludedRosterIsKept
