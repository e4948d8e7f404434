CONSTANTS
    t1 = t1
    t2 = t2
    NoInterval = NoInterval
    None = None
    Updating = Updating
    Threads <- MCThreads
    Intervals <- MCIntervals
    MaxTime <- MCMaxTime
    MaxCalls <- MCMaxCalls
    MaxVersion <- MCMaxVersion
SPECIFICATION Spec
INVARIANTS
    TypeOK
    TreeCompleteOutsideLock
PROPERTIES
    PullsSpacedByInterval
\* The lookups are library calls: the threads may stop calling at any point.
CHECK_DEADLOCK FALSE
