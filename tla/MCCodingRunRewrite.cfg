SPECIFICATION Spec
CONSTANTS
    p1 = p1
    Stopper = stopper
    Reconciler = reconciler
    Executor <- MCExecutor
    Fallible <- MCNobody
    Planned = TRUE
    Stalls = FALSE
PROPERTIES
    FirstTerminalWriteWins
