SPECIFICATION Spec
CONSTANTS
    p1 = p1
    p2 = p2
    Nobody = nobody
    Proc <- MCProc
    FixedId <- MCProc
    v1 = v1
    v2 = v2
    Version <- MCVersion
    Calls = 2
    MaxDelegations = 1
    MaxResume = 1
    MaxForks = 1
    MaxPrice = 2
    MaxPasses = 1
    MaxFaults = 1
VIEW MCView
SYMMETRY MCSymmetry
INVARIANTS
    TypeOK
    
    PinnedPriceIsPaid
    
    OwnChildIsAdopted
    DelegationLimit
PROPERTIES
    EndIsFinal
