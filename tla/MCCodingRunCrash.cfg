SPECIFICATION FairSpec
CONSTANTS
    p1 = p1
    Stopper = stopper
    Reconciler = reconciler
    Executor <- MCExecutor
    Fallible <- MCExecutor
    Planned = TRUE
    Stalls = TRUE
PROPERTIES
    ClaimEnds
    
