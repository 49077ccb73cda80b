\* Every event settles unless pool timeouts have left every dispatcher stuck.
SPECIFICATION FairSpec
CONSTANTS
    Events = {e1, e2}
    Processes = {p1, p2}
    Overlap = 1
    BatchSize = 1
    MaxRetries = 2
    MaxFaults = 2
    PoolTimeouts = TRUE
\* A pool timeout may leave every dispatcher stuck.
CHECK_DEADLOCK FALSE
PROPERTIES EveryEventSettles
