\* Two edits, two candidates, one change of the release policy.
SPECIFICATION ExamSpec
CONSTANTS
    Attempts = {a1, a2}
    Questions = {q1, q2}
    Durations = {d1, d2}
    Requests = {r1}
    Nothing = Nothing
    MaxEdits = 2
    MaxChanges = 1
SYMMETRY Symmetry
INVARIANTS PublishedPaperIsFixed CopyIsCurrent HiddenOnlyByOverlap
