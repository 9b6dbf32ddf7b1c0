SPECIFICATION FairSpecAccount
CONSTANTS
    r1 = r1
    r2 = r2
    k1 = k1
    k2 = k2
    NoOne = NoOne
    Request = {r1, r2}
    Key = {k1, k2}
    KeyOf <- MCKeyOf
    Hold = {1, 3}
    Cost = {1, 2, 4}
    Room = {0, 1}
    BaseBudget = 3
    BudgetLimit = 4
    BaseStep = 1
    BaseHeadroom = 1
    Fallible = {r1}
INVARIANTS
    OverspendBound
PROPERTIES
    ImplementsAccount
    HoldEnds
