\* Two questions, a reload, failing and overtaking requests.
SPECIFICATION AutosaveSpec
CONSTANTS
    Questions = {q1, q2}
    Values = {v1, v2}
    Blank = Blank
    NoAnswer = NoAnswer
    NoItem = NoItem
    NoQuestion = NoQuestion
    MaxEdits = 3
    MaxLoads = 2
    MaxRequests = 2
\* The candidate has left for the result page: nothing is left to do.
CHECK_DEADLOCK FALSE
SYMMETRY Symmetry
INVARIANTS AutosaveTypeOK LastEditIsKept OvertakenOnlyAfterRestore EndsForAReason
