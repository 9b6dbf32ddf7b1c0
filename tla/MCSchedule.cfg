SPECIFICATION FairSpec
CONSTANTS
    p1 = p1
    p2 = p2
    t1 = t1
    t2 = t2
    e1 = e1
    e2 = e2
    Process <- MCProcess
    Tick <- MCTick
    Owner <- MCOwner
    Mortal <- MCMortal
    Skew <- MCSkew
    Expr <- MCExpr
    Windows <- MCWindows
    Ttl = 1
    Attempts = 2
    MaxTime = 4
    MaxStarts = 1
    Nobody = Nobody
    Gone = Gone
INVARIANTS TypeOK WindowsFireInOrder
PROPERTIES FiresWhileEnabled FiresOnlyAfterStart DueIsHandled DrainRecurs
