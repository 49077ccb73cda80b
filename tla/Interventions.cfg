\* One candidate, two requests in flight, one key, four units of work; the session ends before
\* the duration is over.
SPECIFICATION Spec
CONSTANTS
    Attempts = {a1}
    Requests = {r1, r2}
    Keys = {k1}
    NoKey = NoKey
    None = None
    Duration = 2
    SessionEnd = 1
    Extensions = {0, 1}
    MaxTime = 2
    MaxWork = 4
CHECK_DEADLOCK FALSE
SYMMETRY Symmetry
INVARIANTS LogExplainsAttempt KeyLoggedTwiceOnlyByOverlap  SignOffMissesOnlyStartsByExam
PROPERTIES ShortenedOnlyByStaleResume
