\* Two requests racing on one attempt.
SPECIFICATION Spec
CONSTANTS
    Attempts = {a1}
    Requests = {r1, r2}
    Keys = {k1, k2}
    Fingerprints = {f1, f2}
    NoKey = NoKey
    NoRequest = NoRequest
    NoRecord = NoRecord
    SessionStart = 0
    SessionEnd = 3
    Duration = 2
    Extensions = {0, 1}
    MaxTime = 4
    MaxDeadline = 5
    MaxWrites = 1
SYMMETRY Symmetry
INVARIANTS FinalizedOnce SubmittedIsComplete RepliesAgree
PROPERTIES NeverReopened AnnouncedAnswersAreFinal
