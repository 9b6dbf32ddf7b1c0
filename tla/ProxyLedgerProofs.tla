-------------------------- MODULE ProxyLedgerProofs --------------------------
(***************************************************************************)
(* What holds of the proxy ledger for every set of calls, keys and         *)
(* amounts: its types, and from one inductive invariant (LedgerInv) exact  *)
(* totals, single use of keys, final costs and honest top-ups.             *)
(*                                                                         *)
(* And that it implements the budget account. A second invariant           *)
(* (MoneyInv) bounds what a row counts for by its worst case, and what the *)
(* rows count for by what an open transaction read. One step changes one   *)
(* row, so it changes the committed amount and the potential by what that  *)
(* row's terms change (Totals).                                            *)
(***************************************************************************)
EXTENDS ProxyLedgerAccount, Totals, TLAPS

USE DEF RowStatus, CallState, InTransaction

\* The rows the transitions write are rows.
LEMMA RowTypes ==
    /\ NoRow \in Row
    /\ NoRows \in [Request -> Row]
    /\ \A row \in Row : ReleasedRow(row) \in Row /\ HeldRow(row) \in Row
    /\ \A row \in Row, c \in Nat : CompletedRow(row, c) \in Row /\ EstimatedRow(row, c) \in Row
    /\ \A h, w \in Nat :
           [NoRow EXCEPT !.status = "reserved", !.hold = h, !.worst = w] \in Row
BY DEF NoRow, NoRows, Row, CompletedRow, EstimatedRow, ReleasedRow, HeldRow

\* The totals rebuilt from well-typed rows are amounts.
LEMMA TotalsType ==
    ASSUME NEW table \in [Request -> Row]
    PROVE  SettledTotals(table) \in [Request -> Nat]
BY DEF SettledTotals, Spent, IsSettled, Row

\* The initial state is well typed.
LEMMA TypeInit == Init => TypeOK
<1> SUFFICES ASSUME Init
             PROVE  TypeOK
  OBVIOUS
<1>1. NewSession \in Session /\ session = NewSession
  BY ProxyLedgerAssumption DEF Init, NewSession, Session
<1>2. topUp \in TopUp
  BY <1>1 DEF Init, TopUp
<1>3. QED
  BY <1>1, <1>2, ProxyLedgerAssumption, RowTypes DEF Init, TypeOK

\* Every step of a call keeps the types.
LEMMA CallStepType ==
    ASSUME TypeOK, NEW r \in Request, CallStep(r)
    PROVE  TypeOK'
<1> USE ProxyLedgerAssumption DEF TypeOK, topUpVars
<1>1. CASE ReserveRefused(r)
  BY <1>1 DEF ReserveRefused
<1>2. CASE BeginReserve(r)
  BY <1>2 DEF BeginReserve, BeginTransaction, LockSession
<1>3. ASSUME NEW hold \in Hold, NEW worst \in Hold, Reserve(r, hold, worst)
      PROVE  TypeOK'
  BY <1>3, RowTypes DEF Reserve, EndTransaction
<1>4. ASSUME NEW hold \in Hold, RefuseForBudget(r, hold)
      PROVE  TypeOK'
  BY <1>4, RowTypes DEF RefuseForBudget, EndTransaction, Session
<1>5. CASE ReleaseUnsent(r)
  BY <1>5, RowTypes DEF ReleaseUnsent, ReleaseRow
<1>6. CASE Send(r)
  BY <1>6 DEF Send
<1>7. CASE Rejected(r)
  BY <1>7, RowTypes DEF Rejected, ReleaseRow
<1>8. CASE BeginComplete(r)
  BY <1>8 DEF BeginComplete, BeginTransaction, LockSession
<1>9. ASSUME NEW cost \in Cost, Complete(r, cost)
      PROVE  TypeOK'
  BY <1>9, RowTypes, TotalsType DEF Complete, EndTransaction
<1>10. ASSUME NEW cost \in Cost, CompleteAgain(r, cost)
       PROVE  TypeOK'
  BY <1>10, RowTypes DEF CompleteAgain, EndTransaction
<1>11. CASE CancelBreached(r)
  BY <1>11 DEF CancelBreached, Session
<1>12. CASE MarkInStream(r)
  BY <1>12 DEF MarkInStream, BeginTransaction, LockSession
<1>13. CASE MarkBroken(r)
  BY <1>13 DEF MarkBroken, BeginTransaction, LockSession
<1>14. ASSUME NEW cost \in Cost, MarkWithEstimate(r, cost)
       PROVE  TypeOK'
  <2>1. AfterMark(r) \in CallState
    BY DEF AfterMark
  <2>2. rows' \in [Request -> Row] /\ runTotal' \in [Request -> Nat]
    <3>1. rows[r] \in Row /\ EstimatedRow(rows[r], cost) \in Row
      BY RowTypes
    <3>2. CASE IsMarkable(rows[r])
      <4>1. [seen[r] EXCEPT ![r] = EstimatedRow(rows[r], cost)] \in [Request -> Row]
        BY <3>1
      <4>2. QED
        BY <1>14, <3>1, <3>2, <4>1, TotalsType DEF MarkWithEstimate
    <3>3. CASE ~IsMarkable(rows[r])
      BY <1>14, <3>3 DEF MarkWithEstimate
    <3>4. QED
      BY <3>2, <3>3
  <2>3. QED
    BY <1>14, <2>1, <2>2, RowTypes DEF MarkWithEstimate, EndTransaction
<1>15. CASE MarkWithoutEstimate(r)
  <2>1. AfterMark(r) \in CallState
    BY DEF AfterMark
  <2>2. QED
    BY <1>15, <2>1, RowTypes DEF MarkWithoutEstimate, EndTransaction
<1>16. CASE EndReply(r)
  BY <1>16 DEF EndReply
<1>17. CASE TransactionFails(r)
  BY <1>17, RowTypes DEF TransactionFails, EndTransaction
<1>18. CASE ProxyDies(r)
  <2>1. CASE lock = r
    <3>1. EndTransaction(r, "done")
      BY <1>18, <2>1 DEF ProxyDies
    <3>2. QED
      BY <1>18, <3>1, RowTypes DEF ProxyDies, EndTransaction
  <2>2. CASE lock # r
    BY <1>18, <2>2 DEF ProxyDies
  <2>3. QED
    BY <2>1, <2>2
<1>19. QED
  BY <1>1, <1>2, <1>3, <1>4, <1>5, <1>6, <1>7, <1>8, <1>9, <1>10, <1>11, <1>12, <1>13,
     <1>14, <1>15, <1>16, <1>17, <1>18 DEF CallStep

\* Every step of the control plane keeps the types.
LEMMA ControlPlaneType ==
    ASSUME TypeOK, ControlPlaneStep
    PROVE  TypeOK'
<1> USE ProxyLedgerAssumption DEF TypeOK, requestVars
<1>1. CASE CancelSession
  BY <1>1 DEF CancelSession, Session, topUpVars
<1>2. CASE EndRun
  BY <1>2 DEF EndRun, topUpVars
<1>3. CASE DeadlinePasses
  BY <1>3 DEF DeadlinePasses, topUpVars
<1>4. ASSUME NEW largest \in WorstCases, BeginTopUp(largest)
      PROVE  TypeOK'
  <2>1. AtLeast(BaseStep, largest) \in Nat
    BY DEF AtLeast, WorstCases, Row
  <2>2. QED
    BY <1>4, <2>1 DEF BeginTopUp, TopUp
<1>5. ASSUME NEW room \in Room, CommitTopUp(room)
      PROVE  TypeOK'
  <2>1. GrantOf(room) \in Nat
    BY <1>5 DEF CommitTopUp, GrantOf, AtMost, TopUp
  <2>2. granted' \in Nat
    BY <1>5, <2>1 DEF CommitTopUp
  <2>3. session' \in Session
    BY <1>5, <2>2 DEF CommitTopUp, Session
  <2>4. QED
    BY <1>5, <2>2, <2>3 DEF CommitTopUp, CloseTopUp, TopUp
<1>6. ASSUME NEW room \in Room, RefuseTopUp(room)
      PROVE  TypeOK'
  BY <1>6 DEF RefuseTopUp, CloseTopUp, TopUp
<1>7. CASE AbortTopUp
  BY <1>7 DEF AbortTopUp, CloseTopUp, TopUp
<1>8. QED
  BY <1>1, <1>2, <1>3, <1>4, <1>5, <1>6, <1>7 DEF ControlPlaneStep

\* Every step keeps the types.
LEMMA TypeStep == TypeOK /\ [Next]_vars => TypeOK'
<1> SUFFICES ASSUME TypeOK, [Next]_vars
             PROVE  TypeOK'
  OBVIOUS
<1>1. CASE UNCHANGED vars
  BY <1>1 DEF vars, requestVars, topUpVars, TypeOK
<1>2. CASE Finished
  BY <1>2 DEF Finished, vars, requestVars, topUpVars, TypeOK
<1>3. QED
  BY <1>1, <1>2, CallStepType, ControlPlaneType DEF Next

\* Type correctness for every set of calls, keys and amounts.
THEOREM TypeCorrect == Spec => []TypeOK
BY TypeInit, TypeStep, PTL DEF Spec

-----------------------------------------------------------------------------
(* The inductive invariant.                                                  *)

\* The session row is held by the one transaction that is open.
TransactionsLock ==
    \A r \in Request : (pc[r] \in InTransaction) <=> (lock = r)

\* While it does, the settled part of what it read is the settled part of the rows:
\* only releases, which settle nothing, get past the lock.
ReadsAreCurrent ==
    \A r \in Request : lock = r =>
        \A q \in Request : Spent(seen[r][q]) = Spent(rows[q])

\* A call writes its row when its reservation commits.
NoRowBeforeReserving ==
    \A r \in Request : pc[r] \in {"new", "reserving"} => rows[r] = NoRow

\* Between the check for a duplicate and the insert no row of the key appears.
ReservedKeyIsFree ==
    \A r, q \in Request : pc[r] = "reserving" /\ KeyOf[q] = KeyOf[r] => rows[q] = NoRow

\* Nor does the session end.
ReservingIsActive ==
    \A r \in Request : pc[r] = "reserving" => session.status = "active"

\* A row has an estimate only once it is marked.
NoEarlyEstimate ==
    \A r \in Request : rows[r].status = "reserved" => ~rows[r].estimated

\* A top-up goes on only if its snapshot showed a run that was not refused.
TopUpReadActive ==
    topUp.open => topUp.session.status = "active" /\ ~topUp.session.exhausted

LedgerInv ==
    /\ TypeOK
    /\ TransactionsLock
    /\ ReadsAreCurrent
    /\ NoRowBeforeReserving
    /\ ReservedKeyIsFree
    /\ ReservingIsActive
    /\ NoEarlyEstimate
    /\ TopUpReadActive
    /\ ProjectionExact
    /\ KeyUsedOnce
    /\ GrantIsBudget

\* What a step that starts a ledger transaction leaves of the invariant: its reading
\* is exact, and no other transaction is open.
LEMMA BeginKeepsInv ==
    ASSUME LedgerInv, TypeOK', NEW r \in Request, NEW state \in InTransaction,
           BeginTransaction(r, state),
           state = "reserving" =>
               pc[r] = "new" /\ ~IsInactive /\ ~IsDuplicate(rows, r),
           UNCHANGED <<session, rows, runTotal, topUpVars>>
    PROVE  LedgerInv'
<1> USE DEF LedgerInv, BeginTransaction, LockSession
<1>1. TransactionsLock'
  BY ProxyLedgerAssumption DEF TransactionsLock, TypeOK
<1>2. ReadsAreCurrent'
  BY ProxyLedgerAssumption DEF ReadsAreCurrent, TypeOK
<1>3. NoRowBeforeReserving'
  BY DEF NoRowBeforeReserving, TypeOK
<1>4. ReservedKeyIsFree'
  BY DEF ReservedKeyIsFree, IsDuplicate, TypeOK
<1>5. ReservingIsActive'
  BY DEF ReservingIsActive, IsInactive, TypeOK
<1>6. UNCHANGED <<NoEarlyEstimate, TopUpReadActive, ProjectionExact, KeyUsedOnce, GrantIsBudget>>
  BY DEF NoEarlyEstimate, TopUpReadActive, ProjectionExact, KeyUsedOnce, GrantIsBudget, topUpVars
<1>7. QED
  BY <1>1, <1>2, <1>3, <1>4, <1>5, <1>6

\* The part of the invariant about open transactions.
TransactionInv ==
    /\ TransactionsLock
    /\ ReadsAreCurrent
    /\ NoRowBeforeReserving
    /\ ReservedKeyIsFree
    /\ ReservingIsActive

\* A transaction that ends leaves none open, whatever it wrote to its own row.
LEMMA EndKeepsTransactions ==
    ASSUME LedgerInv, TypeOK', NEW r \in Request, NEW state \in CallState,
           pc[r] \in InTransaction, EndTransaction(r, state),
           state \notin InTransaction, state # "new",
           \A q \in Request : q # r => rows'[q] = rows[q]
    PROVE  TransactionInv'
<1> USE DEF LedgerInv, EndTransaction, TypeOK
<1>1. \A q \in Request : pc'[q] \notin InTransaction
  BY DEF TransactionsLock
<1>2. TransactionsLock' /\ ReservedKeyIsFree' /\ ReservingIsActive'
  BY <1>1, ProxyLedgerAssumption DEF TransactionsLock, ReservedKeyIsFree, ReservingIsActive
<1>3. ReadsAreCurrent'
  BY ProxyLedgerAssumption DEF ReadsAreCurrent
<1>4. NoRowBeforeReserving'
  BY <1>1 DEF NoRowBeforeReserving
<1>5. QED
  BY <1>2, <1>3, <1>4 DEF TransactionInv

\* The release of a hold, whose settled part is nothing before and after.
LEMMA ReleaseSettlesNothing ==
    ASSUME NEW row \in Row
    PROVE  /\ Spent(ReleasedRow(row)) = Spent(row)
           /\ (ReleasedRow(row) = NoRow) <=> (row = NoRow)
           /\ ReleasedRow(row).status # "reserved"
<1>1. CASE row.status = "reserved"
  <2>1. /\ ReleasedRow(row).status = "released"
        /\ ReleasedRow(row).cost = row.cost
        /\ ReleasedRow(row).estimated = row.estimated
    BY <1>1 DEF Row, ReleasedRow
  <2>2. Spent(ReleasedRow(row)) = Spent(row)
    BY <1>1, <2>1 DEF Spent, IsSettled
  <2>3. ReleasedRow(row) # NoRow /\ row # NoRow
    BY <1>1, <2>1 DEF NoRow
  <2>4. QED
    BY <2>1, <2>2, <2>3
<1>2. CASE row.status # "reserved"
  BY <1>2 DEF ReleasedRow
<1>3. QED
  BY <1>1, <1>2

\* A step outside every transaction, which at most releases its own row and at most
\* cancels the session while nobody holds it, preserves the invariant.
LEMMA OutsideKeepsInv ==
    ASSUME LedgerInv, TypeOK', NEW r \in Request, NEW state \in CallState,
           pc[r] \notin InTransaction, pc' = [pc EXCEPT ![r] = state],
           state \notin InTransaction, state # "new",
           UNCHANGED <<runTotal, lock, seen, topUpVars>>,
           \/ session' = session
           \/ lock = NoOne /\ session' = [session EXCEPT !.status = "cancelled"],
           rows' = rows \/ ReleaseRow(r)
    PROVE  LedgerInv'
<1> USE DEF LedgerInv, TypeOK, topUpVars
<1>1. \A q \in Request : /\ Spent(rows'[q]) = Spent(rows[q])
                         /\ (rows'[q] = NoRow) <=> (rows[q] = NoRow)
                         /\ rows'[q].status = "reserved" => rows'[q] = rows[q]
  <2>1. CASE rows' = rows
    BY <2>1
  <2>2. CASE ReleaseRow(r)
    <3> SUFFICES ASSUME NEW q \in Request
                 PROVE  /\ Spent(rows'[q]) = Spent(rows[q])
                        /\ (rows'[q] = NoRow) <=> (rows[q] = NoRow)
                        /\ rows'[q].status = "reserved" => rows'[q] = rows[q]
      OBVIOUS
    <3>1. rows[q] \in Row
      OBVIOUS
    <3>2. CASE q = r
      <4>1. rows'[q] = ReleasedRow(rows[q])
        BY <2>2, <3>2 DEF ReleaseRow
      <4>2. QED
        BY <3>1, <4>1, ReleaseSettlesNothing
    <3>3. CASE q # r
      BY <2>2, <3>3 DEF ReleaseRow
    <3>4. QED
      BY <3>2, <3>3
  <2>3. QED
    BY <2>1, <2>2
<1>2. \A q \in Request : pc'[q] \in InTransaction \cup {"new"} => pc'[q] = pc[q] /\ q # r
  OBVIOUS
<1>3. TransactionsLock'
  BY <1>2 DEF TransactionsLock
<1>4. ReadsAreCurrent'
  BY <1>1 DEF ReadsAreCurrent
<1>5. NoRowBeforeReserving'
  BY <1>1, <1>2 DEF NoRowBeforeReserving
<1>6. ReservedKeyIsFree'
  BY <1>1, <1>2 DEF ReservedKeyIsFree
<1>7. ReservingIsActive'
  BY <1>2, ProxyLedgerAssumption DEF ReservingIsActive, TransactionsLock
<1>8. NoEarlyEstimate'
  BY <1>1 DEF NoEarlyEstimate
<1>9. TopUpReadActive'
  BY DEF TopUpReadActive
<1>10. ProjectionExact'
  BY <1>1 DEF ProjectionExact, SettledTotals
<1>11. KeyUsedOnce'
  BY <1>1 DEF KeyUsedOnce
<1>12. GrantIsBudget'
  BY DEF GrantIsBudget, Session
<1>13. QED
  BY <1>3, <1>4, <1>5, <1>6, <1>7, <1>8, <1>9, <1>10, <1>11, <1>12

\* The initial state satisfies the invariant.
LEMMA LedgerInitInv == Init => LedgerInv
<1> SUFFICES ASSUME Init
             PROVE  LedgerInv
  OBVIOUS
<1> USE DEF Init, NoRows, InTransaction
<1>1. TypeOK
  BY TypeInit
<1>2. TransactionsLock /\ ReadsAreCurrent /\ NoRowBeforeReserving
  BY ProxyLedgerAssumption DEF TransactionsLock, ReadsAreCurrent, NoRowBeforeReserving
<1>3. ReservedKeyIsFree /\ ReservingIsActive /\ TopUpReadActive
  BY DEF ReservedKeyIsFree, ReservingIsActive, TopUpReadActive
<1>4. NoEarlyEstimate /\ KeyUsedOnce
  BY DEF NoEarlyEstimate, KeyUsedOnce, NoRow
<1>5. ProjectionExact
  BY DEF ProjectionExact, SettledTotals, Spent, IsSettled, NoRow
<1>6. GrantIsBudget
  BY ProxyLedgerAssumption DEF GrantIsBudget, NewSession
<1>7. QED
  BY <1>1, <1>2, <1>3, <1>4, <1>5, <1>6 DEF LedgerInv

\* A transaction that settles its row to a new one rebuilds exact totals: what it
\* read of the other rows still is what they settled.
LEMMA RebuildIsExact ==
    ASSUME LedgerInv, NEW r \in Request, pc[r] \in InTransaction, NEW row \in Row,
           rows' = [rows EXCEPT ![r] = row],
           runTotal' = SettledTotals([seen[r] EXCEPT ![r] = row])
    PROVE  ProjectionExact'
<1> USE DEF LedgerInv, TypeOK
<1>1. \A q \in Request : Spent(seen[r][q]) = Spent(rows[q])
  BY DEF TransactionsLock, ReadsAreCurrent
<1>2. \A q \in Request : Spent([seen[r] EXCEPT ![r] = row][q]) = Spent(rows'[q])
  BY <1>1
<1>3. QED
  BY <1>2 DEF ProjectionExact, SettledTotals

\* Keys stay unique while only rows that exist change.
LEMMA ExistingRowsKeepKeys ==
    ASSUME KeyUsedOnce, \A q \in Request : rows'[q] # NoRow => rows[q] # NoRow
    PROVE  KeyUsedOnce'
BY DEF KeyUsedOnce

\* A transaction that ends without writing a row preserves the invariant.
LEMMA EndWithoutRowKeepsInv ==
    ASSUME LedgerInv, TypeOK', NEW r \in Request, NEW state \in CallState,
           pc[r] \in InTransaction, EndTransaction(r, state),
           state \notin InTransaction, state # "new",
           UNCHANGED <<rows, runTotal, topUpVars>>,
           session'.budget = session.budget
    PROVE  LedgerInv'
<1>1. TransactionInv'
  BY EndKeepsTransactions
<1>2. NoEarlyEstimate' /\ TopUpReadActive' /\ ProjectionExact' /\ KeyUsedOnce'
  BY DEF LedgerInv, NoEarlyEstimate, TopUpReadActive, ProjectionExact, KeyUsedOnce, topUpVars
<1>3. GrantIsBudget'
  BY DEF LedgerInv, GrantIsBudget, topUpVars
<1>4. QED
  BY <1>1, <1>2, <1>3 DEF LedgerInv, TransactionInv

\* A transaction that settles or marks its own row preserves the invariant, if it
\* rebuilt the totals or the row's settled part is the same.
LEMMA EndWithRowKeepsInv ==
    ASSUME LedgerInv, TypeOK', NEW r \in Request, NEW state \in CallState,
           pc[r] \in InTransaction, EndTransaction(r, state),
           state \notin InTransaction, state # "new",
           NEW row \in Row, rows[r] # NoRow, row.status # "reserved",
           rows' = [rows EXCEPT ![r] = row],
           \/ runTotal' = SettledTotals([seen[r] EXCEPT ![r] = row])
           \/ runTotal' = runTotal /\ Spent(row) = Spent(rows[r]),
           UNCHANGED <<session, topUpVars>>
    PROVE  LedgerInv'
<1> USE DEF LedgerInv, TypeOK
<1>1. TransactionInv'
  BY EndKeepsTransactions
<1>2. NoEarlyEstimate'
  BY DEF NoEarlyEstimate
<1>3. TopUpReadActive' /\ GrantIsBudget'
  BY DEF TopUpReadActive, GrantIsBudget, topUpVars
<1>4. ProjectionExact'
  <2>1. CASE runTotal' = SettledTotals([seen[r] EXCEPT ![r] = row])
    BY <2>1, RebuildIsExact
  <2>2. CASE runTotal' = runTotal /\ Spent(row) = Spent(rows[r])
    BY <2>2 DEF ProjectionExact, SettledTotals
  <2>3. QED
    BY <2>1, <2>2
<1>5. KeyUsedOnce'
  BY ExistingRowsKeepKeys
<1>6. QED
  BY <1>1, <1>2, <1>3, <1>4, <1>5 DEF TransactionInv

\* Every step of a call preserves the invariant.
LEMMA CallStepInv ==
    ASSUME LedgerInv, NEW r \in Request, CallStep(r)
    PROVE  LedgerInv'
<1> USE DEF LedgerInv
<1>0. TypeOK'
  BY CallStepType
<1>1. CASE ReserveRefused(r)
  BY <1>0, <1>1, OutsideKeepsInv DEF ReserveRefused
<1>2. CASE BeginReserve(r)
  BY <1>0, <1>2, BeginKeepsInv DEF BeginReserve
<1>3. ASSUME NEW hold \in Hold, NEW worst \in Hold, Reserve(r, hold, worst)
      PROVE  LedgerInv'
  <2> DEFINE row == [NoRow EXCEPT !.status = "reserved", !.hold = hold, !.worst = worst]
  <2>1. /\ pc[r] = "reserving"
        /\ rows' = [rows EXCEPT ![r] = row]
        /\ UNCHANGED <<session, runTotal, topUpVars>>
    BY <1>3 DEF Reserve
  <2>2. row.status = "reserved" /\ ~row.estimated /\ Spent(row) = 0 /\ Spent(NoRow) = 0
    BY DEF NoRow, Spent, IsSettled
  <2>3. rows[r] = NoRow /\ \A q \in Request : KeyOf[q] = KeyOf[r] => rows[q] = NoRow
    BY <2>1 DEF NoRowBeforeReserving, ReservedKeyIsFree
  <2>4. TransactionInv'
    BY <1>0, <1>3, EndKeepsTransactions DEF Reserve, TypeOK
  <2>5. NoEarlyEstimate'
    BY <2>1, <2>2 DEF NoEarlyEstimate, TypeOK
  <2>6. TopUpReadActive' /\ GrantIsBudget'
    BY <2>1 DEF TopUpReadActive, GrantIsBudget, topUpVars
  <2>7. ProjectionExact'
    <3>1. \A q \in Request : Spent(rows'[q]) = Spent(rows[q])
      BY <2>1, <2>2, <2>3 DEF TypeOK
    <3>2. QED
      BY <2>1, <3>1 DEF ProjectionExact, SettledTotals
  <2>8. KeyUsedOnce'
    BY <2>1, <2>3 DEF KeyUsedOnce, TypeOK
  <2>9. QED
    BY <1>0, <2>4, <2>5, <2>6, <2>7, <2>8 DEF TransactionInv
<1>4. ASSUME NEW hold \in Hold, RefuseForBudget(r, hold)
      PROVE  LedgerInv'
  <2>1. session'.budget = session.budget
    BY <1>4 DEF RefuseForBudget, TypeOK, Session
  <2>2. QED
    BY <1>0, <1>4, <2>1, EndWithoutRowKeepsInv DEF RefuseForBudget
<1>5. CASE ReleaseUnsent(r)
  BY <1>0, <1>5, OutsideKeepsInv DEF ReleaseUnsent
<1>6. CASE Send(r)
  BY <1>0, <1>6, OutsideKeepsInv DEF Send
<1>7. CASE Rejected(r)
  BY <1>0, <1>7, OutsideKeepsInv DEF Rejected
<1>8. CASE BeginComplete(r)
  BY <1>0, <1>8, BeginKeepsInv DEF BeginComplete
<1>9. ASSUME NEW cost \in Cost, Complete(r, cost)
      PROVE  LedgerInv'
  <2> DEFINE row == CompletedRow(rows[r], cost)
             state == IF cost > rows[r].worst THEN "breached" ELSE "sent"
  <2>1. row \in Row /\ row.status = "completed" /\ rows[r] # NoRow
    <3>1. rows[r] \in Row /\ cost \in Nat
      BY ProxyLedgerAssumption DEF LedgerInv, TypeOK
    <3>2. row \in Row
      BY <3>1, RowTypes
    <3>3. row.status = "completed"
      BY <3>1 DEF CompletedRow, Row
    <3>4. rows[r] # NoRow
      BY <1>9 DEF Complete, NoRow
    <3>5. QED
      BY <3>2, <3>3, <3>4
  <2>2. /\ pc[r] \in InTransaction
        /\ EndTransaction(r, state)
        /\ rows' = [rows EXCEPT ![r] = row]
        /\ runTotal' = SettledTotals([seen[r] EXCEPT ![r] = row])
        /\ UNCHANGED <<session, topUpVars>>
    BY <1>9 DEF Complete
  <2>3. state \in CallState /\ state \notin InTransaction /\ state # "new"
    OBVIOUS
  <2> HIDE DEF row, state
  <2>4. QED
    BY <1>0, <2>1, <2>2, <2>3, EndWithRowKeepsInv
<1>10. ASSUME NEW cost \in Cost, CompleteAgain(r, cost)
       PROVE  LedgerInv'
  BY <1>0, <1>10, EndWithoutRowKeepsInv DEF CompleteAgain
<1>11. CASE CancelBreached(r)
  BY <1>0, <1>11, OutsideKeepsInv DEF CancelBreached
<1>12. CASE MarkInStream(r)
  BY <1>0, <1>12, BeginKeepsInv DEF MarkInStream
<1>13. CASE MarkBroken(r)
  BY <1>0, <1>13, BeginKeepsInv DEF MarkBroken
<1>14. ASSUME NEW cost \in Cost, MarkWithEstimate(r, cost)
       PROVE  LedgerInv'
  <2> DEFINE row == EstimatedRow(rows[r], cost)
  <2>1. AfterMark(r) \in CallState /\ AfterMark(r) \notin InTransaction /\ AfterMark(r) # "new"
    BY DEF AfterMark
  <2>2. CASE IsMarkable(rows[r])
    <3>1. row \in Row /\ row.status = "uncertain" /\ rows[r] # NoRow
      <4>1. rows[r] \in Row /\ cost \in Nat
        BY ProxyLedgerAssumption DEF LedgerInv, TypeOK
      <4>2. row \in Row
        BY <4>1, RowTypes
      <4>3. row.status = "uncertain"
        BY <4>1 DEF EstimatedRow, Row
      <4>4. rows[r] # NoRow
        BY <2>2 DEF IsMarkable, NoRow
      <4>5. QED
        BY <4>2, <4>3, <4>4
    <3>2. /\ pc[r] \in InTransaction
          /\ EndTransaction(r, AfterMark(r))
          /\ rows' = [rows EXCEPT ![r] = row]
          /\ runTotal' = SettledTotals([seen[r] EXCEPT ![r] = row])
          /\ UNCHANGED <<session, topUpVars>>
      BY <1>14, <2>2 DEF MarkWithEstimate
    <3> HIDE DEF row
    <3>3. QED
      BY <1>0, <2>1, <3>1, <3>2, EndWithRowKeepsInv
  <2>3. CASE ~IsMarkable(rows[r])
    BY <1>0, <1>14, <2>1, <2>3, EndWithoutRowKeepsInv DEF MarkWithEstimate
  <2>4. QED
    BY <2>2, <2>3
<1>15. CASE MarkWithoutEstimate(r)
  <2>1. AfterMark(r) \in CallState /\ AfterMark(r) \notin InTransaction /\ AfterMark(r) # "new"
    BY DEF AfterMark
  <2>2. /\ pc[r] \in InTransaction
        /\ EndTransaction(r, AfterMark(r))
        /\ rows' = [rows EXCEPT ![r] = HeldRow(rows[r])]
        /\ UNCHANGED <<session, runTotal, topUpVars>>
    BY <1>15 DEF MarkWithoutEstimate
  <2>3. CASE IsMarkable(rows[r])
    <3>1. HeldRow(rows[r]) \in Row /\ HeldRow(rows[r]).status = "uncertain" /\ rows[r] # NoRow
      BY <2>3, RowTypes DEF IsMarkable, HeldRow, TypeOK, NoRow, Row
    <3>2. Spent(HeldRow(rows[r])) = Spent(rows[r])
      BY <2>3 DEF NoEarlyEstimate, IsMarkable, HeldRow, Spent, IsSettled, TypeOK, Row
    <3>3. QED
      BY <1>0, <2>1, <2>2, <3>1, <3>2, EndWithRowKeepsInv
  <2>4. CASE ~IsMarkable(rows[r])
    <3>1. rows' = rows
      BY <2>2, <2>4 DEF HeldRow, TypeOK
    <3>2. QED
      BY <1>0, <2>1, <2>2, <3>1, EndWithoutRowKeepsInv
  <2>5. QED
    BY <2>3, <2>4
<1>16. CASE EndReply(r)
  BY <1>0, <1>16, OutsideKeepsInv DEF EndReply
<1>17. CASE TransactionFails(r)
  BY <1>0, <1>17, EndWithoutRowKeepsInv DEF TransactionFails
<1>18. CASE ProxyDies(r)
  <2>1. CASE lock = r
    <3>1. CASE pc[r] \in InTransaction
      BY <1>0, <1>18, <2>1, <3>1, EndWithoutRowKeepsInv DEF ProxyDies
    <3>2. CASE pc[r] \notin InTransaction
      BY <2>1, <3>2 DEF TransactionsLock
    <3>3. QED
      BY <3>1, <3>2
  <2>2. CASE lock # r
    <3>1. pc[r] \notin InTransaction
      BY <2>2 DEF TransactionsLock
    <3>2. QED
      BY <1>0, <1>18, <2>2, <3>1, OutsideKeepsInv DEF ProxyDies
  <2>3. QED
    BY <2>1, <2>2
<1>19. QED
  BY <1>1, <1>2, <1>3, <1>4, <1>5, <1>6, <1>7, <1>8, <1>9, <1>10, <1>11, <1>12, <1>13,
     <1>14, <1>15, <1>16, <1>17, <1>18 DEF CallStep

\* Every step of the control plane preserves the invariant.
LEMMA ControlPlaneInv ==
    ASSUME LedgerInv, ControlPlaneStep
    PROVE  LedgerInv'
<1> USE DEF LedgerInv, requestVars
<1>0. TypeOK'
  BY ControlPlaneType
<1>1. TransactionsLock' /\ ReadsAreCurrent' /\ NoRowBeforeReserving' /\ ReservedKeyIsFree'
  <2>1. UNCHANGED requestVars
    BY DEF ControlPlaneStep, CancelSession, EndRun, DeadlinePasses, BeginTopUp, CommitTopUp,
           RefuseTopUp, AbortTopUp
  <2>2. QED
    BY <2>1 DEF TransactionsLock, ReadsAreCurrent, NoRowBeforeReserving, ReservedKeyIsFree
<1>2. NoEarlyEstimate' /\ ProjectionExact' /\ KeyUsedOnce'
  <2>1. UNCHANGED requestVars
    BY DEF ControlPlaneStep, CancelSession, EndRun, DeadlinePasses, BeginTopUp, CommitTopUp,
           RefuseTopUp, AbortTopUp
  <2>2. QED
    BY <2>1 DEF NoEarlyEstimate, ProjectionExact, KeyUsedOnce
<1>3. ReservingIsActive'
  <2>1. CASE lock = NoOne
    BY <1>0, <1>1, <2>1, ProxyLedgerAssumption
       DEF ReservingIsActive, TransactionsLock, ControlPlaneStep, CancelSession, EndRun,
           DeadlinePasses, BeginTopUp, CommitTopUp, RefuseTopUp, AbortTopUp
  <2>2. CASE lock # NoOne
    BY <2>2 DEF ReservingIsActive, ControlPlaneStep, CancelSession, EndRun, DeadlinePasses,
                BeginTopUp, CommitTopUp, RefuseTopUp, AbortTopUp
  <2>3. QED
    BY <2>1, <2>2
<1>4. TopUpReadActive' /\ GrantIsBudget'
  <2>1. CASE CancelSession
    BY <2>1 DEF CancelSession, TopUpReadActive, GrantIsBudget, topUpVars, TypeOK, Session
  <2>2. CASE EndRun \/ DeadlinePasses
    BY <2>2 DEF EndRun, DeadlinePasses, TopUpReadActive, GrantIsBudget, topUpVars
  <2>3. ASSUME NEW largest \in WorstCases, BeginTopUp(largest)
        PROVE  TopUpReadActive' /\ GrantIsBudget'
    BY <2>3 DEF BeginTopUp, MayTopUp, TopUpReadActive, GrantIsBudget
  <2>4. ASSUME NEW room \in Room, CommitTopUp(room)
        PROVE  TopUpReadActive' /\ GrantIsBudget'
    <3>1. session.status = "active"
      BY <2>4 DEF CommitTopUp, IsUnchangedSinceSnapshot, TopUpReadActive
    <3>2. granted' = granted + GrantOf(room) /\ session'.budget = granted'
      BY <2>4, <3>1 DEF CommitTopUp, TypeOK, Session
    <3>3. granted + GrantOf(room) <= BudgetLimit
      BY ProxyLedgerAssumption DEF GrantOf, AtMost, TypeOK, TopUp
    <3>4. ~topUp'.open
      BY <2>4 DEF CommitTopUp, CloseTopUp, TypeOK, TopUp
    <3>5. QED
      BY <3>2, <3>3, <3>4 DEF TopUpReadActive, GrantIsBudget
  <2>5. ASSUME NEW room \in Room, RefuseTopUp(room)
        PROVE  TopUpReadActive' /\ GrantIsBudget'
    BY <2>5 DEF RefuseTopUp, CloseTopUp, TopUpReadActive, GrantIsBudget, TypeOK, TopUp
  <2>6. CASE AbortTopUp
    BY <2>6 DEF AbortTopUp, CloseTopUp, TopUpReadActive, GrantIsBudget, TypeOK, TopUp
  <2>7. QED
    BY <2>1, <2>2, <2>3, <2>4, <2>5, <2>6 DEF ControlPlaneStep
<1>5. QED
  BY <1>0, <1>1, <1>2, <1>3, <1>4

\* Every step preserves the invariant.
LEMMA LedgerStepInv == LedgerInv /\ [Next]_vars => LedgerInv'
<1> SUFFICES ASSUME LedgerInv, [Next]_vars
             PROVE  LedgerInv'
  OBVIOUS
<1>1. CASE UNCHANGED vars
  <2>1. UNCHANGED <<session, requestVars, topUpVars>>
    BY <1>1 DEF vars
  <2>2. TypeOK'
    BY TypeStep DEF LedgerInv
  <2>3. QED
    BY <2>1, <2>2 DEF LedgerInv, requestVars, topUpVars, TransactionsLock, ReadsAreCurrent,
       NoRowBeforeReserving, ReservedKeyIsFree, ReservingIsActive, NoEarlyEstimate,
       TopUpReadActive, ProjectionExact, KeyUsedOnce, GrantIsBudget
<1>2. QED
  BY <1>1, CallStepInv, ControlPlaneInv DEF Next, Finished

\* The inductive invariant always holds.
LEMMA LedgerInvariance == Spec => []LedgerInv
BY LedgerInitInv, LedgerStepInv, PTL DEF Spec

-----------------------------------------------------------------------------
(* The results.                                                              *)

\* The run's totals are the sum of its settled requests, for any number of calls.
THEOREM ProjectionIsExact == Spec => []ProjectionExact
BY LedgerInvariance, PTL DEF LedgerInv

\* A request key is admitted at most once, for any assignment of keys to calls.
THEOREM KeysAreUsedOnce == Spec => []KeyUsedOnce
BY LedgerInvariance, PTL DEF LedgerInv

\* The grant is the enforced budget and within the limit, for any top-up sizes.
THEOREM GrantsAreBudgets == Spec => []GrantIsBudget
BY LedgerInvariance, PTL DEF LedgerInv

\* A step that writes one of the rows writes the row of its own call.
LEMMA CallWritesOwnRow ==
    ASSUME TypeOK, NEW r \in Request, CallStep(r), NEW q \in Request, q # r
    PROVE  rows'[q] = rows[q]
BY DEF CallStep, ReserveRefused, BeginReserve, Reserve, RefuseForBudget, ReleaseUnsent, Send,
       Rejected, BeginComplete, Complete, CompleteAgain, CancelBreached, MarkInStream, MarkBroken,
       MarkWithEstimate, MarkWithoutEstimate, EndReply, TransactionFails, ProxyDies, ReleaseRow,
       TypeOK

\* A call leaves its own row alone once it is completed or released.
LEMMA CallKeepsFinalRow ==
    ASSUME LedgerInv, NEW r \in Request, CallStep(r), rows[r].status \in {"completed", "released"}
    PROVE  rows'[r] = rows[r]
<1>1. rows[r] # NoRow
  BY DEF NoRow
<1>2. pc[r] # "reserving"
  BY <1>1 DEF LedgerInv, NoRowBeforeReserving
<1>3. ReleasedRow(rows[r]) = rows[r] /\ HeldRow(rows[r]) = rows[r] /\ ~IsMarkable(rows[r])
  BY DEF ReleasedRow, HeldRow, IsMarkable
<1>4. QED
  BY <1>2, <1>3 DEF LedgerInv, TypeOK, CallStep, ReserveRefused, BeginReserve, Reserve,
     RefuseForBudget, ReleaseUnsent, Send, Rejected, BeginComplete, Complete, CompleteAgain,
     CancelBreached, MarkInStream, MarkBroken, MarkWithEstimate, MarkWithoutEstimate, EndReply,
     TransactionFails, ProxyDies, ReleaseRow

\* Completed and released requests are final, in every step of every call.
THEOREM FinalCosts == Spec => FinalCost
<1>1. LedgerInv /\ LedgerInv' /\ [Next]_vars =>
          [\A r \in Request : rows[r].status \in {"completed", "released"} =>
               rows'[r] = rows[r] /\ runTotal'[r] = runTotal[r]]_vars
  <2> SUFFICES ASSUME LedgerInv, LedgerInv', Next, NEW q \in Request,
                      rows[q].status \in {"completed", "released"}
               PROVE  rows'[q] = rows[q] /\ runTotal'[q] = runTotal[q]
    BY DEF vars
  <2>1. rows'[q] = rows[q]
    <3>1. ASSUME NEW r \in Request, CallStep(r)
          PROVE  rows'[q] = rows[q]
      BY <3>1, CallWritesOwnRow, CallKeepsFinalRow DEF LedgerInv
    <3>2. CASE ControlPlaneStep \/ Finished
      BY <3>2 DEF ControlPlaneStep, CancelSession, EndRun, DeadlinePasses, BeginTopUp, CommitTopUp,
                  RefuseTopUp, AbortTopUp, Finished, vars, requestVars
    <3>3. QED
      BY <3>1, <3>2 DEF Next
  <2>2. runTotal[q] = Spent(rows[q]) /\ runTotal'[q] = Spent(rows'[q])
    BY DEF LedgerInv, ProjectionExact, SettledTotals
  <2>3. QED
    BY <2>1, <2>2
<1>2. QED
  BY <1>1, LedgerInvariance, PTL DEF Spec, FinalCost

\* Only a reservation makes a row, so only a call that is reserving has a new one.
LEMMA OnlyReserveInserts ==
    ASSUME LedgerInv, NEW r \in Request, CallStep(r), rows[r] = NoRow, pc[r] # "reserving"
    PROVE  rows'[r] = NoRow
<1>1. ReleasedRow(rows[r]) = rows[r] /\ HeldRow(rows[r]) = rows[r] /\ ~IsMarkable(rows[r])
  BY DEF NoRow, ReleasedRow, HeldRow, IsMarkable
<1>2. rows[r].status \notin {"reserved", "uncertain"}
  BY DEF NoRow
<1>3. QED
  BY <1>1, <1>2 DEF LedgerInv, TypeOK, CallStep, ReserveRefused, BeginReserve, Reserve,
     RefuseForBudget, ReleaseUnsent, Send, Rejected, BeginComplete, Complete, CompleteAgain,
     CancelBreached, MarkInStream, MarkBroken, MarkWithEstimate, MarkWithoutEstimate, EndReply,
     TransactionFails, ProxyDies, ReleaseRow

\* No request enters the ledger of a session that has ended.
THEOREM AdmissionsAreActive == Spec => AdmittedWhileActive
<1>1. LedgerInv /\ [Next]_vars =>
          [\A r \in Request : rows[r] = NoRow /\ rows'[r] # NoRow => session.status = "active"]_vars
  <2> SUFFICES ASSUME LedgerInv, Next, NEW q \in Request, rows[q] = NoRow, rows'[q] # NoRow
               PROVE  session.status = "active"
    BY DEF vars
  <2>1. ASSUME NEW r \in Request, CallStep(r)
        PROVE  session.status = "active"
    <3>1. q = r
      BY <2>1, CallWritesOwnRow DEF LedgerInv
    <3>2. pc[r] = "reserving"
      BY <2>1, <3>1, OnlyReserveInserts
    <3>3. QED
      BY <3>2 DEF LedgerInv, ReservingIsActive
  <2>2. CASE ControlPlaneStep \/ Finished
    BY <2>2 DEF ControlPlaneStep, CancelSession, EndRun, DeadlinePasses, BeginTopUp, CommitTopUp,
                RefuseTopUp, AbortTopUp, Finished, vars, requestVars
  <2>3. QED
    BY <2>1, <2>2 DEF Next
<1>2. QED
  BY <1>1, LedgerInvariance, PTL DEF Spec, AdmittedWhileActive

\* No budget is raised after a refusal, whenever the top-up took its snapshot.
THEOREM RefusedBudgetsAreFinal == Spec => NoGrantAfterRefusal
<1>1. LedgerInv /\ [Next]_vars =>
          [session'.budget # session.budget => ~session.exhausted]_vars
  <2> SUFFICES ASSUME LedgerInv, Next, session'.budget # session.budget
               PROVE  ~session.exhausted
    BY DEF vars
  <2>1. ASSUME NEW r \in Request, CallStep(r)
        PROVE  session'.budget = session.budget
    BY <2>1 DEF LedgerInv, TypeOK, Session, CallStep, ReserveRefused, BeginReserve, Reserve,
       RefuseForBudget, ReleaseUnsent, Send, Rejected, BeginComplete, Complete, CompleteAgain,
       CancelBreached, MarkInStream, MarkBroken, MarkWithEstimate, MarkWithoutEstimate, EndReply,
       TransactionFails, ProxyDies
  <2>2. CASE CancelSession \/ EndRun \/ DeadlinePasses \/ AbortTopUp \/ Finished
    BY <2>2 DEF LedgerInv, TypeOK, Session, CancelSession, EndRun, DeadlinePasses, AbortTopUp,
                Finished, vars
  <2>3. ASSUME NEW largest \in WorstCases, BeginTopUp(largest)
        PROVE  session'.budget = session.budget
    BY <2>3 DEF BeginTopUp
  <2>4. ASSUME NEW room \in Room, RefuseTopUp(room)
        PROVE  session'.budget = session.budget
    BY <2>4 DEF RefuseTopUp
  <2>5. ASSUME NEW room \in Room, CommitTopUp(room)
        PROVE  ~session.exhausted
    BY <2>5 DEF CommitTopUp, IsUnchangedSinceSnapshot, LedgerInv, TopUpReadActive
  <2>6. QED
    BY <2>1, <2>2, <2>3, <2>4, <2>5 DEF Next, ControlPlaneStep
<1>2. QED
  BY <1>1, LedgerInvariance, PTL DEF Spec, NoGrantAfterRefusal

-----------------------------------------------------------------------------
(* The rows as amounts.                                                      *)

\* A hold is within its worst case, an estimate too, and a row without a settled
\* cost has none.
RowFits(row) ==
    /\ row.hold <= row.worst
    /\ row.status = "uncertain" => row.cost <= row.worst
    /\ ~IsSettled(row) => row.cost = 0

\* What a row can still grow to while its call is at state.
Term(row, state) ==
    IF state # "done" /\ row.status \in {"reserved", "uncertain"}
    THEN AtLeast(row.worst, Charge(row))
    ELSE Charge(row)

\* A row counts for an amount, within its worst case while it is open.
LEMMA RowAmounts ==
    ASSUME NEW row \in Row, RowFits(row), NEW state
    PROVE  /\ Charge(row) \in Nat /\ Term(row, state) \in Nat /\ Excess(row) \in Nat
           /\ Charge(row) <= Term(row, state)
           /\ Term(row, state) = IF state # "done" /\ row.status \in {"reserved", "uncertain"}
                                 THEN row.worst ELSE Charge(row)
<1>1. row.hold \in Nat /\ row.worst \in Nat /\ row.cost \in Nat
  BY DEF Row
<1>2. Charge(row) \in Nat /\ Excess(row) \in Nat
  BY <1>1 DEF Charge, Spent, Held, Excess
<1>3. row.status \in {"reserved", "uncertain"} => Charge(row) <= row.worst
  BY <1>1 DEF Charge, Spent, Held, RowFits, IsSettled
<1> HIDE DEF Charge
<1>4. QED
  BY <1>1, <1>2, <1>3 DEF Term, AtLeast

\* A change of a row that takes no more, however its call goes on.
Quiets(row, new) ==
    /\ new \in Row
    /\ RowFits(new)
    /\ new = row \/ Excess(new) = 0
    /\ row = NoRow => new = NoRow
    /\ \A state, next \in CallState : state # "done" => Term(new, next) <= Term(row, state)

\* A row that is open, and settles within its worst case or stays.
LEMMA OpenRowQuiets ==
    ASSUME NEW row \in Row, RowFits(row), row.status \in {"reserved", "uncertain"},
           NEW new \in Row, RowFits(new), new.cost <= row.worst,
           new.hold = row.hold, new.worst = row.worst
    PROVE  Quiets(row, new)
<1>1. row # NoRow
  BY DEF NoRow
<1>2. row.hold \in Nat /\ row.worst \in Nat /\ new.cost \in Nat
  BY DEF Row
<1>3. Excess(new) = 0
  BY <1>2 DEF Excess, Row
<1>4. Charge(new) <= row.worst
  BY <1>2 DEF Charge, Spent, Held, RowFits
<1>5. ASSUME NEW state \in CallState, NEW next \in CallState, state # "done"
      PROVE  Term(new, next) <= Term(row, state)
  <2>1. Term(row, state) = row.worst
    BY <1>5, RowAmounts
  <2>2. Term(new, next) = row.worst \/ Term(new, next) = Charge(new)
    BY RowAmounts
  <2>3. QED
    BY <1>2, <1>4, <2>1, <2>2
<1>6. QED
  BY <1>1, <1>3, <1>5 DEF Quiets

\* Keeping, releasing, holding on, estimating and settling within the worst case.
LEMMA RowQuiets ==
    ASSUME NEW row \in Row, RowFits(row)
    PROVE  /\ Quiets(row, row)
           /\ Quiets(row, ReleasedRow(row)) /\ Charge(ReleasedRow(row)) <= Charge(row)
           /\ Quiets(row, HeldRow(row))
           /\ \A c \in Nat : IsMarkable(row) /\ IsEstimate(row, c) => Quiets(row, EstimatedRow(row, c))
           /\ \A c \in Nat : row.status \in {"reserved", "uncertain"} /\ c <= row.worst =>
                  Quiets(row, CompletedRow(row, c))
<1>0. row.hold \in Nat /\ row.worst \in Nat /\ row.cost \in Nat
  BY DEF Row
<1>1. Quiets(row, row)
  <2>1. ASSUME NEW state \in CallState, NEW next \in CallState, state # "done"
        PROVE  Term(row, next) <= Term(row, state)
    BY <1>0, <2>1, RowAmounts
  <2>2. QED
    BY <2>1 DEF Quiets
<1>2. CASE row.status \notin {"reserved", "uncertain"}
  <2>1. ReleasedRow(row) = row /\ HeldRow(row) = row /\ ~IsMarkable(row)
    BY <1>2 DEF ReleasedRow, HeldRow, IsMarkable
  <2>2. Charge(row) <= Charge(row)
    BY RowAmounts
  <2>3. QED
    BY <1>1, <1>2, <2>1, <2>2
<1>3. CASE row.status \in {"reserved", "uncertain"}
  <2>1. /\ Quiets(row, ReleasedRow(row))
        /\ Charge(ReleasedRow(row)) <= Charge(row)
    <3>1. CASE row.status = "reserved"
      <4> DEFINE new == [row EXCEPT !.status = "released"]
      <4>1. /\ new \in Row /\ new.status = "released" /\ new.cost = row.cost
            /\ new.hold = row.hold /\ new.worst = row.worst
        BY DEF Row
      <4>2. ReleasedRow(row) = new /\ row.cost = 0
        BY <3>1 DEF ReleasedRow, RowFits, IsSettled
      <4> HIDE DEF new
      <4>3. RowFits(new) /\ new.cost <= row.worst
        BY <1>0, <4>1, <4>2 DEF RowFits, IsSettled
      <4>4. Charge(new) = 0
        BY <4>1 DEF Charge, Spent, Held, IsSettled
      <4>5. Charge(row) \in Nat
        BY RowAmounts
      <4>6. QED
        BY <1>3, <4>1, <4>2, <4>3, <4>4, <4>5, OpenRowQuiets
    <3>2. CASE row.status = "uncertain"
      <4>1. ReleasedRow(row) = row /\ Charge(row) <= Charge(row)
        BY <3>2, RowAmounts DEF ReleasedRow
      <4>2. QED
        BY <1>1, <4>1
    <3>3. QED
      BY <1>3, <3>1, <3>2
  <2>2. Quiets(row, HeldRow(row))
    <3>1. CASE row.status = "reserved"
      <4> DEFINE new == [row EXCEPT !.status = "uncertain"]
      <4>1. /\ new \in Row /\ new.status = "uncertain" /\ new.cost = row.cost
            /\ new.hold = row.hold /\ new.worst = row.worst
        BY DEF Row
      <4>2. HeldRow(row) = new /\ row.cost = 0
        BY <3>1 DEF HeldRow, IsMarkable, RowFits, IsSettled
      <4> HIDE DEF new
      <4>3. RowFits(new) /\ new.cost <= row.worst
        BY <1>0, <4>1, <4>2 DEF RowFits, IsSettled
      <4>4. QED
        BY <1>3, <4>1, <4>2, <4>3, OpenRowQuiets
    <3>2. CASE row.status # "reserved"
      BY <1>1, <3>2 DEF HeldRow, IsMarkable
    <3>3. QED
      BY <3>1, <3>2
  <2>3. ASSUME NEW c \in Nat, IsMarkable(row), IsEstimate(row, c)
        PROVE  Quiets(row, EstimatedRow(row, c))
    <3>1. /\ EstimatedRow(row, c) \in Row
          /\ EstimatedRow(row, c).status = "uncertain" /\ EstimatedRow(row, c).estimated
          /\ EstimatedRow(row, c).cost = c
          /\ EstimatedRow(row, c).hold = row.hold /\ EstimatedRow(row, c).worst = row.worst
      BY DEF EstimatedRow, Row
    <3>2. RowFits(EstimatedRow(row, c))
      BY <2>3, <3>1 DEF RowFits, IsSettled, IsEstimate
    <3>3. QED
      BY <1>3, <2>3, <3>1, <3>2, OpenRowQuiets DEF IsEstimate
  <2>4. ASSUME NEW c \in Nat, c <= row.worst
        PROVE  Quiets(row, CompletedRow(row, c))
    <3>1. /\ CompletedRow(row, c) \in Row
          /\ CompletedRow(row, c).status = "completed" /\ CompletedRow(row, c).cost = c
          /\ CompletedRow(row, c).hold = row.hold /\ CompletedRow(row, c).worst = row.worst
      BY DEF CompletedRow, Row
    <3>2. RowFits(CompletedRow(row, c))
      BY <3>1 DEF RowFits, IsSettled
    <3>3. QED
      BY <1>3, <2>4, <3>1, <3>2, OpenRowQuiets
  <2>5. QED
    BY <1>1, <2>1, <2>2, <2>3, <2>4
<1>4. QED
  BY <1>2, <1>3

-----------------------------------------------------------------------------
(* The invariant of the amounts.                                             *)

RowsFit == \A q \in Request : RowFits(rows[q])

\* What a transaction read counts for at least what the rows still do: only a release,
\* which takes a hold away, gets past the lock.
ReadsCover ==
    \A r \in Request : lock = r =>
        \A q \in Request : Charge(rows[q]) <= Charge(seen[r][q])

MoneyInv == LedgerInv /\ RowsFit /\ ReadsCover

\* A reservation: what it read leaves room for the hold.
Admits(r) ==
    \E hold, worst \in Hold :
        /\ hold <= worst
        /\ lock = r
        /\ rows[r] = NoRow
        /\ Fits(seen[r], hold)
        /\ rows' = [rows EXCEPT ![r] = [NoRow EXCEPT !.status = "reserved",
                                                     !.hold = hold, !.worst = worst]]
        /\ pc' = [pc EXCEPT ![r] = "held"]

\* A reply that cost more than its worst case.
Breaches(r) ==
    \E cost \in Cost :
        /\ rows[r].status \in {"reserved", "uncertain"}
        /\ cost > rows[r].worst
        /\ rows' = [rows EXCEPT ![r] = CompletedRow(rows[r], cost)]

\* What a step of a call does to the money: it admits, breaches, or takes no more.
LEMMA CallMoney ==
    ASSUME MoneyInv, NEW r \in Request, CallStep(r)
    PROVE  /\ pc[r] # "done"
           /\ \A q \in Request \ {r} : rows'[q] = rows[q] /\ pc'[q] = pc[q]
           /\ session'.budget = session.budget
           /\ Admits(r) \/ Breaches(r) \/ Quiets(rows[r], rows'[r])
<1> USE ProxyLedgerAssumption DEF MoneyInv, LedgerInv, RowsFit
<1>1. /\ rows \in [Request -> Row] /\ pc \in [Request -> CallState] /\ session \in Session
      /\ RowFits(rows[r])
  BY DEF TypeOK
<1>2. /\ Quiets(rows[r], rows[r])
      /\ Quiets(rows[r], ReleasedRow(rows[r]))
      /\ Quiets(rows[r], HeldRow(rows[r]))
  BY <1>1, RowQuiets
<1>3. ASSUME NEW cost \in Cost
      PROVE  /\ IsMarkable(rows[r]) /\ IsEstimate(rows[r], cost) =>
                    Quiets(rows[r], EstimatedRow(rows[r], cost))
             /\ rows[r].status \in {"reserved", "uncertain"} /\ cost <= rows[r].worst =>
                    Quiets(rows[r], CompletedRow(rows[r], cost))
  <2>1. cost \in Nat
    OBVIOUS
  <2>2. QED
    BY <1>1, <2>1, RowQuiets
<1>4. ASSUME NEW hold \in Hold, NEW worst \in Hold, Reserve(r, hold, worst)
      PROVE  pc[r] # "done" /\ Admits(r)
  <2>1. lock = r /\ rows[r] = NoRow
    BY <1>4 DEF Reserve, TransactionsLock, NoRowBeforeReserving
  <2>2. QED
    BY <1>4, <2>1 DEF Reserve, EndTransaction, Admits
<1>5. ASSUME NEW cost \in Cost, Complete(r, cost)
      PROVE  /\ pc[r] # "done"
             /\ Breaches(r) \/ Quiets(rows[r], rows'[r])
  <2>1. /\ pc[r] # "done" /\ rows[r].status \in {"reserved", "uncertain"}
        /\ rows' = [rows EXCEPT ![r] = CompletedRow(rows[r], cost)]
    BY <1>5 DEF Complete
  <2>2. CASE cost > rows[r].worst
    BY <2>1, <2>2 DEF Breaches
  <2>3. CASE ~(cost > rows[r].worst)
    <3>1. cost <= rows[r].worst
      BY <1>1, <2>3 DEF Row
    <3>2. QED
      BY <1>1, <1>3, <2>1, <3>1
  <2>4. QED
    BY <2>1, <2>2, <2>3
<1>6. ASSUME NEW cost \in Cost, MarkWithEstimate(r, cost)
      PROVE  pc[r] # "done" /\ Quiets(rows[r], rows'[r])
  BY <1>1, <1>2, <1>3, <1>6 DEF MarkWithEstimate
<1>7. \/ \E hold, worst \in Hold : Reserve(r, hold, worst)
      \/ \E cost \in Cost : Complete(r, cost) \/ MarkWithEstimate(r, cost)
      \/ pc[r] # "done" /\ Quiets(rows[r], rows'[r])
  BY <1>1, <1>2 DEF CallStep, ReserveRefused, BeginReserve, RefuseForBudget, ReleaseUnsent, Send,
     Rejected, BeginComplete, CompleteAgain, CancelBreached, MarkInStream, MarkBroken,
     MarkWithoutEstimate, EndReply, TransactionFails, ProxyDies, ReleaseRow
<1>8. session'.budget = session.budget
  BY <1>1 DEF Session, CallStep, ReserveRefused, BeginReserve, Reserve, RefuseForBudget,
     ReleaseUnsent, Send, Rejected, BeginComplete, Complete, CompleteAgain, CancelBreached,
     MarkInStream, MarkBroken, MarkWithEstimate, MarkWithoutEstimate, EndReply, TransactionFails,
     ProxyDies
<1>9. \A q \in Request \ {r} : pc'[q] = pc[q]
  BY <1>1 DEF CallStep, ReserveRefused, BeginReserve, Reserve, RefuseForBudget, ReleaseUnsent, Send,
     Rejected, BeginComplete, Complete, CompleteAgain, CancelBreached, MarkInStream, MarkBroken,
     MarkWithEstimate, MarkWithoutEstimate, EndReply, TransactionFails, ProxyDies,
     BeginTransaction, EndTransaction
<1>10. \A q \in Request \ {r} : rows'[q] = rows[q]
  BY CallWritesOwnRow
<1>11. QED
  BY <1>4, <1>5, <1>6, <1>7, <1>8, <1>9, <1>10

\* What a step of a call does to the lock: it takes it and reads, gives it up, or
\* leaves it, at most releasing its own row.
LEMMA CallLocks ==
    ASSUME NEW r \in Request, CallStep(r)
    PROVE  \/ lock' = r /\ seen' = [seen EXCEPT ![r] = rows] /\ rows' = rows
           \/ lock' = NoOne
           \/ UNCHANGED <<lock, seen>> /\ (rows' = rows \/ ReleaseRow(r))
BY DEF CallStep, ReserveRefused, BeginReserve, Reserve, RefuseForBudget, ReleaseUnsent, Send,
       Rejected, BeginComplete, Complete, CompleteAgain, CancelBreached, MarkInStream, MarkBroken,
       MarkWithEstimate, MarkWithoutEstimate, EndReply, TransactionFails, ProxyDies,
       BeginTransaction, LockSession, EndTransaction

\* The fields of a new row, and the fields of a completed one.
LEMMA NewRowFits ==
    ASSUME NEW hold \in Nat, NEW worst \in Nat, hold <= worst
    PROVE  LET new == [NoRow EXCEPT !.status = "reserved", !.hold = hold, !.worst = worst]
           IN  /\ new \in Row /\ RowFits(new) /\ new # NoRow
               /\ Charge(new) = hold /\ Excess(new) = 0
               /\ \A state : Charge(NoRow) = 0 /\ Term(NoRow, state) = 0
               /\ Term(new, "held") = worst
<1> DEFINE new == [NoRow EXCEPT !.status = "reserved", !.hold = hold, !.worst = worst]
<1>1. /\ new \in Row /\ new.status = "reserved" /\ new.cost = 0
      /\ new.hold = hold /\ new.worst = worst
  BY RowTypes DEF NoRow
<1>2. NoRow.status = "absent"
  BY DEF NoRow
<1> HIDE DEF new
<1>3. RowFits(new) /\ new # NoRow
  BY <1>1, <1>2 DEF RowFits
<1>4. Charge(new) = hold
  BY <1>1 DEF Charge, Spent, Held, IsSettled
<1>5. Excess(new) = 0
  BY <1>1 DEF Excess
<1>6. Charge(NoRow) = 0
  BY <1>2 DEF Charge, Spent, Held, IsSettled
<1>7. \A state : Term(NoRow, state) = 0
  BY <1>2, <1>6 DEF Term
<1>8. Term(new, "held") = worst
  BY <1>1, <1>3, RowAmounts
<1>9. QED
  BY <1>1, <1>3, <1>4, <1>5, <1>6, <1>7, <1>8 DEF new

LEMMA BreachedRow ==
    ASSUME NEW row \in Row, RowFits(row), NEW cost \in Nat, cost > row.worst,
           row.status \in {"reserved", "uncertain"}
    PROVE  LET new == CompletedRow(row, cost)
           IN  /\ new \in Row /\ RowFits(new) /\ row # NoRow
               /\ Charge(new) = cost /\ Excess(new) = cost - row.worst
               /\ \A state : Term(new, state) = cost
               /\ \A state : state # "done" => Term(row, state) = row.worst
<1> DEFINE new == CompletedRow(row, cost)
<1>1. /\ new \in Row /\ new.status = "completed" /\ new.cost = cost
      /\ new.hold = row.hold /\ new.worst = row.worst
  BY DEF CompletedRow, Row
<1> HIDE DEF new
<1>2. RowFits(new) /\ Charge(new) = cost
  BY <1>1 DEF RowFits, IsSettled, Charge, Spent, Held, Row
<1>3. Excess(new) = cost - row.worst
  BY <1>1 DEF Excess
<1>4. \A state : Term(new, state) = cost
  BY <1>1, <1>2 DEF Term
<1>5. \A state : state # "done" => Term(row, state) = row.worst
  BY RowAmounts
<1>6. row # NoRow
  BY DEF NoRow
<1>7. QED
  BY <1>1, <1>2, <1>3, <1>4, <1>5, <1>6 DEF new

\* The initial state satisfies the invariant.
LEMMA MoneyInit == Init => MoneyInv
<1> SUFFICES ASSUME Init PROVE MoneyInv
  OBVIOUS
<1>1. LedgerInv
  BY LedgerInitInv
<1>2. RowsFit
  BY DEF Init, RowsFit, RowFits, NoRows, NoRow, IsSettled
<1>3. ReadsCover
  BY ProxyLedgerAssumption DEF Init, ReadsCover
<1>4. QED
  BY <1>1, <1>2, <1>3 DEF MoneyInv

\* Every step preserves the invariant.
LEMMA MoneyStep == MoneyInv /\ [Next]_vars => MoneyInv'
<1> SUFFICES ASSUME MoneyInv, [Next]_vars PROVE MoneyInv'
  OBVIOUS
<1>1. LedgerInv'
  BY LedgerStepInv DEF MoneyInv
<1>2. /\ rows \in [Request -> Row] /\ rows' \in [Request -> Row]
      /\ seen \in [Request -> [Request -> Row]]
  BY <1>1 DEF MoneyInv, LedgerInv, TypeOK
<1>3. ASSUME NEW r \in Request, CallStep(r)
      PROVE  RowsFit' /\ ReadsCover'
  <2>1. \A q \in Request \ {r} : rows'[q] = rows[q]
    BY <1>3, CallMoney
  <2>2. RowFits(rows'[r])
    <3>1. CASE Admits(r)
      <4>1. PICK hold \in Hold, worst \in Hold :
                /\ hold <= worst
                /\ rows' = [rows EXCEPT ![r] = [NoRow EXCEPT !.status = "reserved",
                                                             !.hold = hold, !.worst = worst]]
        BY <3>1 DEF Admits
      <4>2. hold \in Nat /\ worst \in Nat
        BY ProxyLedgerAssumption
      <4>3. QED
        BY <1>2, <4>1, <4>2, NewRowFits
    <3>2. CASE Breaches(r)
      <4>1. PICK cost \in Cost :
                /\ rows[r].status \in {"reserved", "uncertain"}
                /\ cost > rows[r].worst
                /\ rows' = [rows EXCEPT ![r] = CompletedRow(rows[r], cost)]
        BY <3>2 DEF Breaches
      <4>2. cost \in Nat /\ rows[r] \in Row /\ RowFits(rows[r])
        BY <1>2, ProxyLedgerAssumption DEF MoneyInv, RowsFit
      <4>3. RowFits(CompletedRow(rows[r], cost))
        BY <4>1, <4>2, BreachedRow
      <4>4. QED
        BY <1>2, <4>1, <4>3
    <3>3. CASE Quiets(rows[r], rows'[r])
      BY <3>3 DEF Quiets
    <3>4. QED
      BY <1>3, <3>1, <3>2, <3>3, CallMoney
  <2>3. RowsFit'
    BY <2>1, <2>2 DEF MoneyInv, RowsFit
  <2>4. ReadsCover'
    <3>1. CASE lock' = r /\ seen' = [seen EXCEPT ![r] = rows] /\ rows' = rows
      <4>1. \A q \in Request : Charge(rows[q]) <= Charge(rows[q])
        BY <1>2, RowAmounts DEF MoneyInv, RowsFit
      <4>2. seen'[r] = rows
        BY <1>2, <3>1
      <4>3. QED
        BY <3>1, <4>1, <4>2 DEF ReadsCover
    <3>2. CASE lock' = NoOne
      BY <3>2, ProxyLedgerAssumption DEF ReadsCover
    <3>3. CASE UNCHANGED <<lock, seen>> /\ (rows' = rows \/ ReleaseRow(r))
      <4>1. ASSUME NEW x \in Request, lock = x, NEW q \in Request
            PROVE  Charge(rows'[q]) <= Charge(seen[x][q])
        <5>1. Charge(rows[q]) <= Charge(seen[x][q])
          BY <4>1 DEF MoneyInv, ReadsCover
        <5>2. rows'[q] = rows[q] \/ rows'[q] = ReleasedRow(rows[q])
          BY <1>2, <3>3 DEF ReleaseRow
        <5>3. Charge(ReleasedRow(rows[q])) <= Charge(rows[q])
          BY <1>2, RowQuiets DEF MoneyInv, RowsFit
        <5>4. /\ Charge(rows[q]) \in Nat /\ Charge(rows'[q]) \in Nat
              /\ Charge(seen[x][q]) \in Nat
          <6>1. rows[q] \in Row /\ rows'[q] \in Row /\ seen[x][q] \in Row
            BY <1>2
          <6>2. \A row \in Row : Charge(row) \in Nat
            BY DEF Charge, Spent, Held, Row
          <6>3. QED
            BY <6>1, <6>2
        <5>5. QED
          BY <5>1, <5>2, <5>3, <5>4
      <4>2. QED
        BY <3>3, <4>1 DEF ReadsCover
    <3>4. QED
      BY <1>3, <3>1, <3>2, <3>3, CallLocks
  <2>5. QED
    BY <2>3, <2>4
<1>4. CASE ControlPlaneStep \/ Finished \/ UNCHANGED vars
  <2>1. UNCHANGED <<rows, lock, seen>>
    BY <1>4 DEF ControlPlaneStep, CancelSession, EndRun, DeadlinePasses, BeginTopUp, CommitTopUp,
                RefuseTopUp, AbortTopUp, Finished, vars, requestVars
  <2>2. RowsFit'
    BY <2>1 DEF MoneyInv, RowsFit
  <2>3. ReadsCover'
    BY <2>1 DEF MoneyInv, ReadsCover
  <2>4. QED
    BY <1>1, <2>2, <2>3 DEF MoneyInv
<1>5. QED
  BY <1>1, <1>3, <1>4 DEF MoneyInv, Next

\* The amounts' invariant always holds.
LEMMA MoneyInvariance == Spec => []MoneyInv
BY MoneyInit, MoneyStep, PTL DEF Spec

-----------------------------------------------------------------------------
(* The account's amounts as sums over the calls.                             *)

\* The summands of the committed amount, of the potential and of a step's excess.
Charges(table) == [q \in Request |-> Charge(table[q])]
Terms(table, states) == [q \in Request |-> Term(table[q], states[q])]
Excesses(table, next) == [q \in Request |-> IF next[q] # table[q] THEN Excess(next[q]) ELSE 0]

LEMMA AmountsAreSums ==
    /\ \A table : Committed(table) = SumOver(Charges(table), Request)
    /\ Potential = SumOver(Terms(rows, pc), Request)
    /\ Potential' = SumOver(Terms(rows', pc'), Request)
    /\ NewExcess = SumOver(Excesses(rows, rows'), Request)
<1>1. ASSUME NEW f, DOMAIN f = Request
      PROVE  Sum(f) = SumOver(f, Request)
  BY <1>1, FoldIsSum DEF Sum
<1>2. ASSUME NEW table
      PROVE  Committed(table) = SumOver(Charges(table), Request)
  BY <1>1 DEF Committed, Charges
<1>3. Potential = Sum(Terms(rows, pc)) /\ Potential' = Sum(Terms(rows', pc'))
  BY DEF Potential, Terms, Term, IsOpen
<1>4. DOMAIN Terms(rows, pc) = Request /\ DOMAIN Terms(rows', pc') = Request
  BY DEF Terms
<1>5. NewExcess = Sum(Excesses(rows, rows')) /\ DOMAIN Excesses(rows, rows') = Request
  BY DEF NewExcess, Excesses
<1>6. QED
  BY <1>1, <1>2, <1>3, <1>4, <1>5

\* The amounts are amounts, and the committed one is within the potential.
LEMMA AmountsFit ==
    ASSUME NEW table \in [Request -> Row], \A q \in Request : RowFits(table[q]), NEW states
    PROVE  /\ SumOver(Charges(table), Request) \in Nat
           /\ SumOver(Terms(table, states), Request) \in Nat
           /\ SumOver(Charges(table), Request) <= SumOver(Terms(table, states), Request)
<1>1. \A q \in Request : /\ Charges(table)[q] = Charge(table[q])
                         /\ Terms(table, states)[q] = Term(table[q], states[q])
  BY DEF Charges, Terms
<1>2. \A q \in Request : /\ Charge(table[q]) \in Nat /\ Term(table[q], states[q]) \in Nat
                         /\ Charge(table[q]) <= Term(table[q], states[q])
  BY RowAmounts
<1>3. SumOver(Charges(table), Request) \in Nat /\ SumOver(Terms(table, states), Request) \in Nat
  BY <1>1, <1>2, SumNat, AccountAssumption
<1>4. SumOver(Charges(table), Request) <= SumOver(Terms(table, states), Request)
  BY <1>1, <1>2, SumLeq, AccountAssumption
<1>5. QED
  BY <1>3, <1>4

\* The committed amount, the potential, and what one step does to them, when it
\* changes the row of one call.
LEMMA OneRowChanges ==
    ASSUME MoneyInv, MoneyInv', NEW r \in Request,
           \A q \in Request \ {r} : rows'[q] = rows[q] /\ pc'[q] = pc[q]
    PROVE  /\ Committed(rows') = Committed(rows) + (Charge(rows'[r]) - Charge(rows[r]))
           /\ Potential' = Potential + (Term(rows'[r], pc'[r]) - Term(rows[r], pc[r]))
           /\ NewExcess = IF rows'[r] # rows[r] THEN Excess(rows'[r]) ELSE 0
<1>1. /\ rows \in [Request -> Row] /\ \A q \in Request : RowFits(rows[q])
      /\ rows' \in [Request -> Row] /\ \A q \in Request : RowFits(rows'[q])
  BY DEF MoneyInv, LedgerInv, TypeOK, RowsFit
<1>2. \A q \in Request :
          /\ Charge(rows[q]) \in Nat /\ Charge(rows'[q]) \in Nat
          /\ Term(rows[q], pc[q]) \in Nat /\ Term(rows'[q], pc'[q]) \in Nat
          /\ Excess(rows'[q]) \in Nat
  BY <1>1, RowAmounts
<1>3. SumOver(Charges(rows'), Request) =
          SumOver(Charges(rows), Request) + (Charges(rows')[r] - Charges(rows)[r])
  <2>1. /\ \A q \in Request : Charges(rows)[q] \in Int /\ Charges(rows')[q] \in Int
        /\ \A q \in Request \ {r} : Charges(rows')[q] = Charges(rows)[q]
    BY <1>2 DEF Charges
  <2>2. QED
    BY <2>1, SumChange, AccountAssumption
<1>4. SumOver(Terms(rows', pc'), Request) =
          SumOver(Terms(rows, pc), Request) + (Terms(rows', pc')[r] - Terms(rows, pc)[r])
  <2>1. /\ \A q \in Request : Terms(rows, pc)[q] \in Int /\ Terms(rows', pc')[q] \in Int
        /\ \A q \in Request \ {r} : Terms(rows', pc')[q] = Terms(rows, pc)[q]
    BY <1>2 DEF Terms
  <2>2. QED
    BY <2>1, SumChange, AccountAssumption
<1>5. SumOver(Excesses(rows, rows'), Request) = Excesses(rows, rows')[r]
  <2> DEFINE none == [q \in Request |-> 0]
             e == Excesses(rows, rows')
  <2>1. /\ \A q \in Request : none[q] \in Int /\ e[q] \in Int
        /\ \A q \in Request \ {r} : e[q] = none[q]
    BY <1>2 DEF Excesses
  <2>2. \A q \in Request : none[q] = 0
    OBVIOUS
  <2> HIDE DEF none, e
  <2>3. SumOver(e, Request) = SumOver(none, Request) + (e[r] - none[r])
    BY <2>1, SumChange, AccountAssumption
  <2>4. SumOver(none, Request) = 0
    BY <2>2, SumZero, AccountAssumption
  <2>5. SumOver(e, Request) = e[r]
    BY <2>1, <2>2, <2>3, <2>4
  <2>6. QED
    BY <2>5 DEF e
<1>6. /\ Charges(rows)[r] = Charge(rows[r]) /\ Charges(rows')[r] = Charge(rows'[r])
      /\ Terms(rows, pc)[r] = Term(rows[r], pc[r])
      /\ Terms(rows', pc')[r] = Term(rows'[r], pc'[r])
      /\ Excesses(rows, rows')[r] = IF rows'[r] # rows[r] THEN Excess(rows'[r]) ELSE 0
  BY DEF Charges, Terms, Excesses
<1>7. QED
  BY <1>3, <1>4, <1>5, <1>6, AmountsAreSums

\* Committed and potential, as the account sees them.
LEMMA AccountAmounts ==
    /\ MoneyInv => Committed(rows) \in Nat /\ Potential \in Nat /\ Committed(rows) <= Potential
    /\ MoneyInv' => Committed(rows') \in Nat /\ Potential' \in Nat /\ Committed(rows') <= Potential'
<1>1. ASSUME MoneyInv
      PROVE  Committed(rows) \in Nat /\ Potential \in Nat /\ Committed(rows) <= Potential
  <2>1. rows \in [Request -> Row] /\ \A q \in Request : RowFits(rows[q])
    BY <1>1 DEF MoneyInv, LedgerInv, TypeOK, RowsFit
  <2>2. QED
    BY <2>1, AmountsFit, AmountsAreSums
<1>2. ASSUME MoneyInv'
      PROVE  Committed(rows') \in Nat /\ Potential' \in Nat /\ Committed(rows') <= Potential'
  <2>1. rows' \in [Request -> Row] /\ \A q \in Request : RowFits(rows'[q])
    BY <1>2 DEF MoneyInv, LedgerInv, TypeOK, RowsFit
  <2>2. QED
    BY <2>1, AmountsFit, AmountsAreSums
<1>3. QED
  BY <1>1, <1>2

-----------------------------------------------------------------------------
(* What is proved of the account, of the ledger's amounts.                   *)

AccountProofs == INSTANCE BudgetAccountProofs WITH
    budget <- session.budget,
    committed <- Committed(rows),
    potential <- Potential

-----------------------------------------------------------------------------
(* The ledger implements the account.                                        *)

\* The histories are amounts too.
AccountLedgerInv == MoneyInv /\ risk \in Nat /\ breach \in Nat

\* A reservation is one, and no other step of a call is.
LEMMA OnlyAdmissionsReserve ==
    ASSUME MoneyInv, NEW r \in Request, CallStep(r)
    PROVE  /\ Admits(r) => IsReservation
           /\ Breaches(r) \/ Quiets(rows[r], rows'[r]) => ~IsReservation
<1>1. rows \in [Request -> Row] /\ rows[r] \in Row /\ RowFits(rows[r])
  BY DEF MoneyInv, LedgerInv, TypeOK, RowsFit
<1>2. \A q \in Request \ {r} : rows'[q] = rows[q]
  BY CallMoney
<1>3. ASSUME Admits(r)
      PROVE  IsReservation
  <2>1. PICK hold \in Hold, worst \in Hold :
            /\ hold <= worst
            /\ rows[r] = NoRow
            /\ rows' = [rows EXCEPT ![r] = [NoRow EXCEPT !.status = "reserved",
                                                         !.hold = hold, !.worst = worst]]
    BY <1>3 DEF Admits
  <2>2. hold \in Nat /\ worst \in Nat
    BY ProxyLedgerAssumption
  <2>3. rows'[r] # NoRow
    BY <1>1, <2>1, <2>2, NewRowFits
  <2>4. QED
    BY <2>1, <2>3 DEF IsReservation
<1>4. Breaches(r) => rows[r] # NoRow
  BY DEF Breaches, NoRow
<1>5. Quiets(rows[r], rows'[r]) /\ rows[r] = NoRow => rows'[r] = NoRow
  BY DEF Quiets
<1>6. QED
  BY <1>2, <1>3, <1>4, <1>5 DEF IsReservation

\* A step of a call is an admission, an overstep or a settlement of the account.
LEMMA CallImplements ==
    ASSUME AccountLedgerInv, MoneyInv', NEW r \in Request, CallStep(r),
           risk' = IF IsReservation THEN Potential' - Committed(rows') ELSE risk,
           breach' = breach + NewExcess
    PROVE  /\ risk' \in Nat /\ breach' \in Nat
           /\ Account!Admit \/ Account!Settle \/ Account!Overstep
<1> DEFINE c == Charge(rows[r])
           d == Charge(rows'[r])
           t == Term(rows[r], pc[r])
           u == Term(rows'[r], pc'[r])
<1>1. /\ rows \in [Request -> Row] /\ rows' \in [Request -> Row]
      /\ pc \in [Request -> CallState] /\ pc' \in [Request -> CallState]
      /\ session.budget \in Nat
      /\ RowFits(rows[r]) /\ RowFits(rows'[r])
  BY DEF AccountLedgerInv, MoneyInv, LedgerInv, TypeOK, RowsFit, Session
<1>2. /\ pc[r] # "done" /\ session'.budget = session.budget
      /\ Admits(r) \/ Breaches(r) \/ Quiets(rows[r], rows'[r])
  BY CallMoney DEF AccountLedgerInv
<1>3. /\ Committed(rows') = Committed(rows) + (d - c)
      /\ Potential' = Potential + (u - t)
      /\ NewExcess = IF rows'[r] # rows[r] THEN Excess(rows'[r]) ELSE 0
  BY CallMoney, OneRowChanges DEF AccountLedgerInv
<1>4. /\ Committed(rows) \in Nat /\ Potential \in Nat /\ Committed(rows) <= Potential
      /\ Committed(rows') \in Nat /\ Potential' \in Nat /\ Committed(rows') <= Potential'
  BY AccountAmounts DEF AccountLedgerInv
<1>5. /\ Admits(r) => IsReservation
      /\ Breaches(r) \/ Quiets(rows[r], rows'[r]) => ~IsReservation
  BY OnlyAdmissionsReserve DEF AccountLedgerInv
<1>6. risk \in Nat /\ breach \in Nat
  BY DEF AccountLedgerInv
<1>7. CASE Admits(r)
  <2>1. PICK hold \in Hold, worst \in Hold :
            /\ hold <= worst
            /\ lock = r
            /\ rows[r] = NoRow
            /\ Fits(seen[r], hold)
            /\ rows' = [rows EXCEPT ![r] = [NoRow EXCEPT !.status = "reserved",
                                                         !.hold = hold, !.worst = worst]]
            /\ pc' = [pc EXCEPT ![r] = "held"]
    BY <1>7 DEF Admits
  <2>2. hold \in Nat /\ worst \in Nat
    BY ProxyLedgerAssumption
  <2>3. c = 0 /\ d = hold /\ t = 0 /\ u = worst /\ Excess(rows'[r]) = 0
    <3> DEFINE new == [NoRow EXCEPT !.status = "reserved", !.hold = hold, !.worst = worst]
    <3>1. rows'[r] = new /\ pc'[r] = "held"
      BY <1>1, <2>1
    <3>2. /\ Charge(new) = hold /\ Term(new, "held") = worst /\ Excess(new) = 0
          /\ Charge(NoRow) = 0 /\ Term(NoRow, pc[r]) = 0
      BY <2>1, <2>2, NewRowFits
    <3> HIDE DEF new
    <3>3. QED
      BY <2>1, <3>1, <3>2
  <2>4. Committed(rows) <= Committed(seen[r])
    <3>1. seen[r] \in [Request -> Row]
      BY DEF AccountLedgerInv, MoneyInv, LedgerInv, TypeOK
    <3>2. \A q \in Request : /\ Charges(rows)[q] \in Int /\ Charges(seen[r])[q] \in Int
                             /\ Charges(rows)[q] <= Charges(seen[r])[q]
      <4>1. \A row \in Row : Charge(row) \in Nat
        BY DEF Charge, Spent, Held, Row
      <4>2. \A q \in Request : Charge(rows[q]) <= Charge(seen[r][q])
        BY <2>1 DEF AccountLedgerInv, MoneyInv, ReadsCover
      <4>3. QED
        BY <1>1, <3>1, <4>1, <4>2 DEF Charges
    <3>3. SumOver(Charges(rows), Request) <= SumOver(Charges(seen[r]), Request)
      BY <3>2, SumLeq, AccountAssumption
    <3>4. QED
      BY <3>3, AmountsAreSums
  <2>5. Committed(seen[r]) \in Int
    <3>1. \A q \in Request : Charges(seen[r])[q] \in Int
      BY DEF Charges, Charge, Spent, Held, AccountLedgerInv, MoneyInv, LedgerInv, TypeOK, Row
    <3>2. QED
      BY <3>1, SumFacts, AmountsAreSums, AccountAssumption
  <2>6. Committed(seen[r]) + hold < session.budget
    BY <2>1 DEF Fits
  <2> HIDE DEF c, d, t, u
  <2>7. /\ Committed(rows) <= Committed(rows')
        /\ Committed(rows') < session.budget
        /\ Potential' - Potential >= Committed(rows') - Committed(rows)
    BY <1>1, <1>3, <1>4, <2>1, <2>2, <2>3, <2>4, <2>5, <2>6
  <2>8. risk' = Potential' - Committed(rows') /\ breach' = breach
    BY <1>3, <1>5, <1>6, <1>7, <2>3
  <2>9. risk' \in Nat
    BY <1>4, <2>8
  <2>10. Account!Admit
    BY <1>2, <2>7, <2>8 DEF Account!Admit
  <2>11. QED
    BY <1>6, <2>8, <2>9, <2>10
<1>8. CASE Breaches(r)
  <2>1. PICK cost \in Cost :
            /\ rows[r].status \in {"reserved", "uncertain"}
            /\ cost > rows[r].worst
            /\ rows' = [rows EXCEPT ![r] = CompletedRow(rows[r], cost)]
    BY <1>8 DEF Breaches
  <2>2. cost \in Nat /\ rows[r].worst \in Nat /\ rows[r] \in Row /\ rows'[r] = CompletedRow(rows[r], cost)
    BY <1>1, <2>1, ProxyLedgerAssumption DEF Row
  <2>3. u = cost /\ t = rows[r].worst /\ Excess(rows'[r]) = cost - rows[r].worst
    BY <1>1, <1>2, <2>1, <2>2, BreachedRow
  <2>4. rows'[r] # rows[r]
    <3>1. CompletedRow(rows[r], cost).status = "completed"
      BY <2>2 DEF CompletedRow, Row
    <3>2. QED
      BY <2>1, <2>2, <3>1
  <2>5. NewExcess = cost - rows[r].worst
    BY <1>3, <2>3, <2>4
  <2> HIDE DEF c, d, t, u
  <2>6. risk' = risk /\ breach' = breach + (cost - rows[r].worst)
    BY <1>5, <1>8, <2>5
  <2>7. breach' \in Nat /\ breach < breach' /\ Potential' - Potential <= breach' - breach
    BY <1>3, <1>4, <1>6, <2>1, <2>2, <2>3, <2>6
  <2>8. Account!Overstep
    BY <1>2, <1>4, <2>6, <2>7 DEF Account!Overstep
  <2>9. QED
    BY <1>6, <2>6, <2>7, <2>8
<1>9. CASE Quiets(rows[r], rows'[r])
  <2>1. u <= t /\ NewExcess = 0
    BY <1>1, <1>2, <1>3, <1>9 DEF Quiets
  <2>2. u \in Nat /\ t \in Nat
    BY <1>1, RowAmounts
  <2> HIDE DEF c, d, t, u
  <2>3. risk' = risk /\ breach' = breach
    BY <1>5, <1>6, <1>9, <2>1
  <2>4. Potential' <= Potential
    BY <1>3, <1>4, <2>1, <2>2
  <2>5. Account!Settle
    BY <1>2, <1>4, <2>3, <2>4 DEF Account!Settle
  <2>6. QED
    BY <1>6, <2>3, <2>5
<1>10. QED
  BY <1>2, <1>7, <1>8, <1>9

\* A step of the control plane raises the budget, or the account does not see it.
LEMMA ControlPlaneImplements ==
    ASSUME AccountLedgerInv, MoneyInv',
           ControlPlaneStep \/ Finished \/ UNCHANGED vars,
           risk' = IF IsReservation THEN Potential' - Committed(rows') ELSE risk,
           breach' = breach + NewExcess
    PROVE  /\ risk' = risk /\ breach' = breach
           /\ Account!Grant \/ UNCHANGED Account!accountVars
<1>1. UNCHANGED <<rows, pc>>
  BY DEF ControlPlaneStep, CancelSession, EndRun, DeadlinePasses, BeginTopUp, CommitTopUp,
         RefuseTopUp, AbortTopUp, Finished, vars, requestVars
<1>2. Committed(rows') = Committed(rows) /\ Potential' = Potential
  BY <1>1, AmountsAreSums
<1>3. NewExcess = 0
  <2>1. \A q \in Request : Excesses(rows, rows')[q] = 0
    BY <1>1 DEF Excesses
  <2>2. QED
    BY <2>1, SumZero, AmountsAreSums, AccountAssumption
<1>4. risk' = risk /\ breach' = breach
  BY <1>1, <1>3 DEF IsReservation, AccountLedgerInv
<1>5. session'.budget = session.budget \/ session.budget < session'.budget
  <2> USE ProxyLedgerAssumption DEF AccountLedgerInv, MoneyInv, LedgerInv
  <2>1. ASSUME NEW room \in Room, CommitTopUp(room)
        PROVE  session.budget < session'.budget
    <3>1. session.status = "active"
      BY <2>1 DEF CommitTopUp, IsUnchangedSinceSnapshot, TopUpReadActive
    <3>2. session'.budget = granted + GrantOf(room) /\ GrantOf(room) > 0
      BY <2>1, <3>1 DEF CommitTopUp, TypeOK, Session
    <3>3. GrantOf(room) \in Int /\ granted \in Nat
      BY DEF GrantOf, AtMost, TypeOK, TopUp
    <3>4. session.budget = granted
      BY DEF GrantIsBudget
    <3>5. QED
      BY <3>2, <3>3, <3>4
  <2>2. (\E room \in Room : CommitTopUp(room)) \/ session'.budget = session.budget
    BY DEF TypeOK, Session, ControlPlaneStep, CancelSession, EndRun, DeadlinePasses, BeginTopUp,
           RefuseTopUp, AbortTopUp, Finished, vars
  <2>3. QED
    BY <2>1, <2>2
<1>6. QED
  BY <1>2, <1>4, <1>5 DEF Account!Grant, Account!accountVars

\* The initial ledger is an initial account.
LEMMA AccountLedgerInit == InitAccount => AccountLedgerInv /\ Account!AccountInit
<1> SUFFICES ASSUME InitAccount
             PROVE  AccountLedgerInv /\ Account!AccountInit
  OBVIOUS
<1>1. MoneyInv
  BY MoneyInit DEF InitAccount
<1>2. risk = 0 /\ breach = 0
  BY DEF InitAccount
<1>3. session.budget \in Nat \ {0}
  BY ProxyLedgerAssumption DEF InitAccount, Init, NewSession
<1>4. \A q \in Request : Charge(rows[q]) = 0 /\ Term(rows[q], pc[q]) = 0
  BY DEF InitAccount, Init, NoRows, NoRow, Term, Charge, Spent, Held, IsSettled
<1>5. Committed(rows) = 0
  <2>1. \A q \in Request : Charges(rows)[q] = 0
    BY <1>4 DEF Charges
  <2>2. QED
    BY <2>1, SumZero, AmountsAreSums, AccountAssumption
<1>6. Potential = 0
  <2>1. \A q \in Request : Terms(rows, pc)[q] = 0
    BY <1>4 DEF Terms
  <2>2. QED
    BY <2>1, SumZero, AmountsAreSums, AccountAssumption
<1>7. QED
  BY <1>1, <1>2, <1>3, <1>5, <1>6 DEF AccountLedgerInv, Account!AccountInit

\* Every step of the ledger is a step of the account, or one that it does not see.
LEMMA AccountLedgerStep ==
    AccountLedgerInv /\ [NextAccount]_accountLedgerVars =>
        AccountLedgerInv' /\ [Account!AccountNext]_(Account!accountVars)
<1> SUFFICES ASSUME AccountLedgerInv, [NextAccount]_accountLedgerVars
             PROVE  AccountLedgerInv' /\ [Account!AccountNext]_(Account!accountVars)
  OBVIOUS
<1>1. MoneyInv'
  BY MoneyStep DEF AccountLedgerInv, NextAccount, accountLedgerVars
<1>2. /\ Committed(rows') \in Nat /\ Potential' \in Nat /\ session'.budget \in Nat
  BY <1>1, AccountAmounts DEF MoneyInv, LedgerInv, TypeOK, Session
<1>3. CASE UNCHANGED accountLedgerVars
  <2>1. UNCHANGED <<rows, pc, session, risk, breach>>
    BY <1>3 DEF accountLedgerVars, vars, requestVars
  <2>2. Potential' = Potential /\ Committed(rows') = Committed(rows)
    BY <2>1, AmountsAreSums
  <2>3. QED
    BY <1>1, <2>1, <2>2 DEF AccountLedgerInv, Account!accountVars
<1>4. CASE NextAccount
  <2>1. /\ Next
        /\ risk' = IF IsReservation THEN Potential' - Committed(rows') ELSE risk
        /\ breach' = breach + NewExcess
    BY <1>4 DEF NextAccount
  <2>2. ASSUME NEW r \in Request, CallStep(r)
        PROVE  /\ risk' \in Nat /\ breach' \in Nat
               /\ Account!Admit \/ Account!Settle \/ Account!Overstep
    BY <1>1, <2>1, <2>2, CallImplements
  <2>3. CASE ControlPlaneStep \/ Finished
    <3>1. /\ risk' = risk /\ breach' = breach
          /\ Account!Grant \/ UNCHANGED Account!accountVars
      BY <1>1, <2>1, <2>3, ControlPlaneImplements
    <3>2. QED
      BY <1>1, <1>2, <3>1 DEF AccountLedgerInv, Account!AccountNext, Account!AccountTypeOK
  <2>4. QED
    BY <1>1, <1>2, <2>1, <2>2, <2>3 DEF Next, AccountLedgerInv, Account!AccountNext, Account!AccountTypeOK
<1>5. QED
  BY <1>3, <1>4

\* The ledger implements the account: for any calls, amounts, budgets and top-ups, and
\* whatever fails, holds are admitted against the committed amount, settle within their
\* worst case or add what they exceed it by to the breaches, and only a top-up raises
\* the budget.
THEOREM LedgerImplementsAccount == SpecAccount => ImplementsAccount
BY AccountLedgerInit, AccountLedgerStep, PTL DEF SpecAccount, ImplementsAccount, Account!AccountSpec

\* So a run overspends its budget by no more than what the requests in flight at the last
\* admission could still cost, and what the replies that broke their worst case cost more.
THEOREM OverspendIsBounded == SpecAccount => []OverspendBound
<1>1. Account!AccountInit => AccountProofs!AccountInit
  BY DEF Account!AccountInit, AccountProofs!AccountInit
<1>2. [Account!AccountNext]_(Account!accountVars) =>
          [AccountProofs!AccountNext]_(AccountProofs!accountVars)
  BY DEF Account!AccountNext, Account!AccountTypeOK, Account!Admit, Account!Settle,
     Account!Overstep, Account!Grant, Account!accountVars,
     AccountProofs!AccountNext, AccountProofs!AccountTypeOK, AccountProofs!Admit,
     AccountProofs!Settle, AccountProofs!Overstep, AccountProofs!Grant, AccountProofs!accountVars
<1>3. ImplementsAccount => AccountProofs!AccountSpec
  BY <1>1, <1>2, PTL DEF ImplementsAccount, Account!AccountSpec, AccountProofs!AccountSpec
<1>4. AccountProofs!OverspendBound => OverspendBound
  BY DEF AccountProofs!OverspendBound, OverspendBound, Account!OverspendBound
<1>5. QED
  BY <1>3, <1>4, LedgerImplementsAccount, AccountProofs!AccountOverspendBound, PTL
===============================================================================
