SPECIFICATION FairSpec
CONSTANTS
    p1 = p1
    Stopper = stopper
    Reconciler = reconciler
    Executor <- MCExecutor
    Fallible <- MCNobody
    Planned = FALSE
    Stalls = FALSE
PROPERTIES
    StoppedJobIsRemoved
