\* Two message handlers and a viewer, three messages, every kind of fault.
SPECIFICATION Spec
CONSTANTS
    Attempts = {a1}
    Copies = {m1, m2, m3}
    Handlers = {h1, h2}
    Viewers = {v1}
    NoCopy = NoCopy
    NoResult = NoResult
    MaxAnswers = 1
    MaxFlags = 0
    FaultKinds = {"crash", "connection", "outage", "channel", "database", "confirm"}
    MaxFaults = 2
\* When every attempt has its result nothing is left to do.
CHECK_DEADLOCK FALSE
SYMMETRY Symmetry
INVARIANTS NothingLost DeadLetteredAfterThreeFailures EarlyScoresNeedFlags
PROPERTIES ResultIsStable
