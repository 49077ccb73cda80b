\* Crashes and evaluation failures delay a result, they do not prevent it.
SPECIFICATION FairSpec
CONSTANTS
    Attempts = {a1}
    Copies = {m1, m2, m3, m4}
    Handlers = {h1}
    Viewers = {v1}
    NoCopy = NoCopy
    NoResult = NoResult
    MaxAnswers = 0
    MaxFlags = 1
    FaultKinds = {"crash"}
    MaxFaults = 1
\* When every attempt has its result nothing is left to do.
CHECK_DEADLOCK FALSE
PROPERTIES AnnouncedIsEvaluated
