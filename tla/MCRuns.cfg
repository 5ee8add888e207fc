SPECIFICATION FairSpec
CONSTANTS
    p1 = p1
    c1 = c1
    Runners = {p1}
    Cleaners = {c1}
    MaxRuns = 2
    MaxSignals = 2
    Jobs <- AllJobs
    Killable = TRUE
    None = None
INVARIANTS
    TypeOK
    GentleOnce
    FirstSignalsDelivered
    WaitTrue
    CleanedUp
    PruneFrees
    RunUndisturbed
PROPERTIES
    RunReturns
\* Every command ends.
CHECK_DEADLOCK FALSE
