-------------------------- MODULE ProxyLedgerAccount --------------------------
(***************************************************************************)
(* The proxy ledger implements the budget account: ProxyLedger with two    *)
(* history variables, and the mapping of its rows to a committed amount    *)
(* and the potential it can still grow to.                                 *)
(***************************************************************************)
EXTENDS ProxyLedger, FiniteSets

\* The sums of the rows are sums of finitely many.
ASSUME AccountAssumption == IsFiniteSet(Request)

VARIABLES
    risk,    \* potential minus committed, right after the last reservation
    breach   \* what replies cost beyond their worst case, in total

accountLedgerVars == <<vars, risk, breach>>

\* A row whose call is still running may settle at its worst case, or at its cost.
IsOpen(q) == pc[q] # "done" /\ rows[q].status \in {"reserved", "uncertain"}

Potential ==
    Sum([q \in Request |-> IF IsOpen(q) THEN AtLeast(rows[q].worst, Charge(rows[q]))
                                        ELSE Charge(rows[q])])

InitAccount == Init /\ risk = 0 /\ breach = 0

IsReservation == \E r \in Request : rows[r] = NoRow /\ rows'[r] # NoRow

\* The part of a cost that is above the row's worst case.
Excess(row) == IF row.cost > row.worst THEN row.cost - row.worst ELSE 0

NewExcess ==
    Sum([q \in Request |-> IF rows'[q] # rows[q] THEN Excess(rows'[q]) ELSE 0])

NextAccount ==
    /\ Next
    /\ risk' = IF IsReservation THEN Potential' - Committed(rows') ELSE risk
    /\ breach' = breach + NewExcess

SpecAccount == InitAccount /\ [][NextAccount]_accountLedgerVars

FairSpecAccount == SpecAccount /\ Fairness

Account == INSTANCE BudgetAccount WITH
    budget <- session.budget,
    committed <- Committed(rows),
    potential <- Potential

\* Every ledger, relay and control-plane step is a step of the account: holds are
\* admitted against the committed amount, settle within their worst case, and only
\* a top-up raises the budget.
ImplementsAccount == Account!AccountSpec

\* A run exceeds its budget by at most the difference between worst case and hold of
\* the requests in flight, and the excess of the replies that broke their worst case.
OverspendBound == Account!OverspendBound
===============================================================================
