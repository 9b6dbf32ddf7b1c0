SPECIFICATION Spec
CONSTANTS
    r1 = r1
    r2 = r2
    r3 = r3
    k1 = k1
    k2 = k2
    NoOne = NoOne
    Request = {r1, r2, r3}
    Key = {k1, k2}
    KeyOf <- MCKeyOf
    Hold = {1, 2}
    Cost = {1, 3}
    Room = {0, 3}
    BaseBudget = 3
    BudgetLimit = 4
    BaseStep = 1
    BaseHeadroom = 1
    Fallible = {r1}
INVARIANTS
    TypeOK
    ProjectionExact
    KeyUsedOnce
    GrantIsBudget
PROPERTIES
    FinalCost
    
    NoGrantAfterRefusal
