SPECIFICATION Spec
CONSTANTS
    p1 = p1
    c1 = c1
    Runners = {p1}
    Cleaners = {}
    MaxRuns = 2
    MaxSignals = 2
    Jobs <- AllJobs
    Killable = FALSE
    None = None
INVARIANTS
    SignalsDelivered
\* Every command ends.
CHECK_DEADLOCK FALSE
