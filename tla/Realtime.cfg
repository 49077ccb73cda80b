\* Two connections of the candidate, one allowed at a time on each node.
SPECIFICATION RealtimeSpec
CONSTANTS
    Sockets = {s1, s2}
    Here = Here
    There = There
    MaxConnections = 1
    MaxInFlight = 2
SYMMETRY Symmetry
\* Every connection may be closed.
CHECK_DEADLOCK FALSE
INVARIANTS RoomsHoldRegistered ShownOnlineIsOnline ShownOfflineIsExplained DegradedIsKnown
