------------------------- MODULE BudgetAccountProofs -------------------------
(* The account's promise, for every budget and every sequence of amounts.   *)
EXTENDS BudgetAccount, TLAPS

\* The potential p stays below budget b plus risk r plus breach e.
Within(p, b, r, e) == p < b + r + e

\* Right after an admission the risk is what separates committed from potential.
LEMMA AdmissionIsWithin ==
    \A p, c, b, e \in Nat : c < b => Within(p, b, p - c, e)
BY DEF Within

\* A commitment whose worst case is at least its hold keeps committed below potential.
LEMMA AdmissionKeepsOrder ==
    \A c, d, p, q \in Nat : c <= p /\ q - p >= d - c => d <= q
OBVIOUS

\* A smaller potential is still within the bound.
LEMMA SettlementIsWithin ==
    \A p, q, b, r, e \in Nat : Within(p, b, r, e) /\ q <= p => Within(q, b, r, e)
BY DEF Within

\* A potential that grows by no more than the breach is still within the bound.
LEMMA BreachIsWithin ==
    \A p, q, b, r, e, f \in Nat : Within(p, b, r, e) /\ q - p <= f - e => Within(q, b, r, f)
BY DEF Within

\* A larger budget keeps the bound.
LEMMA GrantIsWithin ==
    \A p, b, c, r, e \in Nat : Within(p, b, r, e) /\ b < c => Within(p, c, r, e)
BY DEF Within

\* A fresh account satisfies the inductive invariant.
LEMMA AccountInitInv == AccountInit => AccountInv
BY DEF AccountInit, AccountInv, AccountTypeOK

\* Every step of an account preserves the inductive invariant.
LEMMA AccountStepInv == AccountInv /\ [AccountNext]_accountVars => AccountInv'
<1> SUFFICES ASSUME AccountInv, [AccountNext]_accountVars
             PROVE  AccountInv'
  OBVIOUS
<1>1. CASE UNCHANGED accountVars
  BY <1>1 DEF accountVars, AccountInv, AccountTypeOK
<1>2. CASE AccountNext
  <2> DEFINE Bound == Within(potential, budget, risk, breach)
  <2>1. AccountTypeOK /\ AccountTypeOK' /\ Bound
    BY <1>2 DEF AccountNext, AccountInv, Within
  <2>2. CASE Admit
    <3>1. committed <= potential
      BY DEF AccountInv
    <3>2. committed' <= potential'
      BY <2>1, <2>2, <3>1, AdmissionKeepsOrder, Zenon DEF Admit, AccountTypeOK
    <3>3. Bound'
      BY <2>1, <2>2, AdmissionIsWithin, Zenon DEF Admit, AccountTypeOK
    <3>4. QED
      BY <2>1, <3>2, <3>3 DEF AccountInv, Within
  <2>3. CASE Settle
    <3>1. Bound'
      BY <2>1, <2>3, SettlementIsWithin, Zenon DEF Settle, AccountTypeOK
    <3>2. QED
      BY <2>1, <2>3, <3>1 DEF Settle, AccountInv, Within
  <2>4. CASE Overstep
    <3>1. Bound'
      BY <2>1, <2>4, BreachIsWithin, Zenon DEF Overstep, AccountTypeOK
    <3>2. QED
      BY <2>1, <2>4, <3>1 DEF Overstep, AccountInv, Within
  <2>5. CASE Grant
    <3>1. Bound'
      BY <2>1, <2>5, GrantIsWithin, Zenon DEF Grant, AccountTypeOK
    <3>2. QED
      BY <2>1, <2>5, <3>1 DEF Grant, AccountInv, Within
  <2>6. QED
    BY <1>2, <2>2, <2>3, <2>4, <2>5 DEF AccountNext
<1>3. QED
  BY <1>1, <1>2

\* Whatever the initial budget, holds, costs and top-ups: the committed amount
\* stays below the budget plus what was open at the last admission and the breaches.
THEOREM AccountOverspendBound == AccountSpec => []OverspendBound
<1>1. AccountInv => OverspendBound
  BY DEF AccountInv, AccountTypeOK, OverspendBound
<1>2. QED
  BY <1>1, AccountInitInv, AccountStepInv, PTL DEF AccountSpec
=============================================================================
