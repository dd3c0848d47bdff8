\* Two workers, a hook each in two runs, with panics: after one the job's
\* loop is dead and the system stops.
SPECIFICATION FairSpec
CONSTANTS
    w1 = w1
    w2 = w2
    Workers <- TwoWorkers
    Loop = Loop
    Nobody = Nobody
    MaxQueue = 2
    MaxRuns = 2
    MaxHooks = 1
    MaxDefers = 3
INVARIANTS
    ContextMatches
PROPERTIES
    DeferredRunOnce
    VmIsShared
CHECK_DEADLOCK FALSE
