\* Two tabs, delayed and duplicated requests.
SPECIFICATION Spec
CONSTANTS
    Clients = {c1, c2}
    Questions = {q1, q2}
    Values = {v1, v2}
    NoAnswer = NoAnswer
    NoItem = NoItem
    MaxVersion = 2
    MaxInFlight = 2
SYMMETRY Symmetry
INVARIANTS BlindOnlyAfterClear RevisionNamesVersion
