SPECIFICATION Spec
CONSTANTS
    p1 = p1
    p2 = p2
    Stopper = stopper
    Reconciler = reconciler
    Executor <- MCExecutor
    Fallible <- MCFallible
    Planned = TRUE
    Stalls = FALSE
SYMMETRY MCSymmetry
VIEW MCView
INVARIANTS
    TypeOK
    
    
    
PROPERTIES
    OnlyOpenWritesRewrite
    
