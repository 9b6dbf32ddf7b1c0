---------------------------- MODULE BudgetAccount ----------------------------
(***************************************************************************)
(* What the ledger of one coding run promises about money, without rows,   *)
(* locks or requests: a budget, the amount committed against it, and the   *)
(* amount the commitments already admitted can still grow to.              *)
(*                                                                         *)
(* A commitment enters at its hold and may settle anywhere up to its worst *)
(* case.  Admission compares the committed amount, never the worst case,   *)
(* with the budget, so the budget can be overrun, by no more than what the *)
(* commitments open at the last admission could still grow (risk), plus    *)
(* whatever a reply cost beyond its own worst case (breach).               *)
(***************************************************************************)
EXTENDS Integers

VARIABLES
    budget,     \* what the session may commit
    committed,  \* spent plus held
    potential,  \* what is committed once every open commitment settled at its worst
    risk,       \* potential minus committed, right after the last admission
    breach      \* how much replies cost beyond their worst case, in total

accountVars == <<budget, committed, potential, risk, breach>>

AccountTypeOK ==
    /\ budget \in Nat
    /\ committed \in Nat
    /\ potential \in Nat
    /\ risk \in Nat
    /\ breach \in Nat

AccountInit ==
    /\ budget \in Nat \ {0}
    /\ committed = 0
    /\ potential = 0
    /\ risk = 0
    /\ breach = 0

\* A commitment enters: only if its hold fits; its worst case is at least its hold.
Admit ==
    /\ committed <= committed'
    /\ committed' < budget
    /\ potential' - potential >= committed' - committed
    /\ risk' = potential' - committed'
    /\ UNCHANGED <<budget, breach>>

\* Commitments are settled, released or closed: never beyond their potential.
Settle ==
    /\ committed' <= potential'
    /\ potential' <= potential
    /\ UNCHANGED <<budget, risk, breach>>

\* A reply cost more than the worst case it was admitted with: the excess is a breach.
Overstep ==
    /\ committed' <= potential'
    /\ breach < breach'
    /\ potential' - potential <= breach' - breach
    /\ UNCHANGED <<budget, risk>>

\* The control plane tops the budget up.
Grant ==
    /\ budget < budget'
    /\ UNCHANGED <<committed, potential, risk, breach>>

AccountNext == AccountTypeOK' /\ (Admit \/ Settle \/ Overstep \/ Grant)

AccountSpec == AccountInit /\ [][AccountNext]_accountVars

\* The promise: the committed amount never exceeds the budget by more than
\* what was open when the budget was last checked, and the breaches.
OverspendBound == committed < budget + risk + breach

\* The inductive form: even the potential stays below that bound.
AccountInv ==
    /\ AccountTypeOK
    /\ committed <= potential
    /\ potential < budget + risk + breach
=============================================================================
