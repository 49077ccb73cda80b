\* Two processes with overlapping runs, crashes, slow runs and database errors.
SPECIFICATION Spec
CONSTANTS
    Events = {e1, e2}
    Processes = {p1, p2}
    Overlap = 2
    BatchSize = 2
    MaxRetries = 2
    MaxFaults = 2
    PoolTimeouts = TRUE
\* A pool timeout may leave every dispatcher stuck.
CHECK_DEADLOCK FALSE
SYMMETRY Symmetry
INVARIANTS ExclusiveClaims BudgetIsEarned
PROPERTIES ImplementsAtLeastOnce
