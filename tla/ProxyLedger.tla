----------------------------- MODULE ProxyLedger -----------------------------
(***************************************************************************)
(* The money side of the coding proxy: one run's proxy session, the ledger *)
(* rows of its model requests, the settlement totals copied to the run and *)
(* the control plane's top-ups.                                            *)
(*                                                                         *)
(* A request is driven by one call of CodingProxy.execute.  Its ledger     *)
(* transactions take the session row's lock (SELECT ... FOR UPDATE), read  *)
(* the rows, and write at commit: one step takes the lock and reads, a     *)
(* second writes, so other transactions run in between.  Releasing a hold, *)
(* cancelling the session and topping it up do not read under that lock    *)
(* (an update of the session row still waits for it).                      *)
(*                                                                         *)
(* Amounts are in an arbitrary integral unit.  Left out: parsing, prices   *)
(* and token counts (a hold, a worst case and a cost are any amounts),     *)
(* audit lines, and the per-model usage table (a savepoint of its own,     *)
(* whose failure never reaches the settlement), and upstreamFailure, which *)
(* only names a failure in the run's error.                                *)
(***************************************************************************)
EXTENDS Integers, Functions

CONSTANTS
    Request,       \* calls of execute
    Key,           \* idempotency keys
    KeyOf,         \* the key each call carries: a retry carries the same one
    Hold,          \* amounts a request may be held at, or have as worst case
    Cost,          \* amounts a reply may cost
    Room,          \* what a budget group may have left when a top-up asks
    BaseBudget,    \* CodingRun.budgetBaseUsd
    BudgetLimit,   \* CodingRun.budgetLimitUsd: base plus allowed overrun
    BaseStep,      \* TOP_UP_STEP_SHARE of the base budget
    BaseHeadroom,  \* TOP_UP_HEADROOM_SHARE of the base budget
    Fallible,      \* the calls whose process or database connection may fail
    NoOne          \* no transaction holds the session row

ASSUME ProxyLedgerAssumption ==
    /\ KeyOf \in [Request -> Key]
    /\ Hold \subseteq Nat
    /\ Cost \subseteq Nat
    /\ Room \subseteq Nat
    /\ BaseBudget \in Nat \ {0}
    /\ BudgetLimit \in Nat
    /\ BaseBudget <= BudgetLimit
    /\ BaseStep \in Nat \ {0}
    /\ BaseHeadroom \in Nat
    /\ Fallible \subseteq Request
    /\ NoOne \notin Request

VARIABLES
    session,    \* the CodingProxySession row
    rows,       \* the CodingProxyRequest rows
    runTotal,   \* what Run.costUsd is the sum of, per request
    lock,       \* who holds the session row FOR UPDATE
    seen,       \* per request: the rows its open transaction read
    pc,         \* per request: where execute is
    marked,     \* per request: RelayProgress.marked
    deadlinePassed,
    runActive,  \* the run is still pending or running
    granted,    \* CodingRun.budgetReservedUsd
    topUp,      \* the control plane's open top-up transaction
    noOverrun   \* an overrun_unavailable event was recorded

requestVars == <<rows, runTotal, lock, seen, pc, marked>>
topUpVars == <<granted, topUp, noOverrun>>
vars == <<session, requestVars, deadlinePassed, runActive, topUpVars>>

RowStatus == {"absent", "reserved", "completed", "uncertain", "released"}

Row == [status : RowStatus, hold : Nat, worst : Nat, cost : Nat, estimated : BOOLEAN]

NoRow == [status |-> "absent", hold |-> 0, worst |-> 0, cost |-> 0, estimated |-> FALSE]

NoRows == [q \in Request |-> NoRow]

Session == [status : {"active", "cancelled"}, budget : Nat, exhausted : BOOLEAN]

\* Where a call of execute can be.  new: authenticated, not yet at the ledger.
\* reserving, completing, marking, closing: inside a ledger transaction.
\* held: reserved, not sent.  sent: the upstream has it, or its reply is being
\* relayed.  breached: settled above its worst case.  failing: in the catch block.
CallState == {"new", "reserving", "held", "sent", "completing", "breached",
              "marking", "failing", "closing", "done"}

InTransaction == {"reserving", "completing", "marking", "closing"}

\* A top-up transaction: the session row in its snapshot, and the step it asks for.
TopUp == [open : BOOLEAN, session : Session, step : Nat]

TypeOK ==
    /\ session \in Session
    /\ rows \in [Request -> Row]
    /\ runTotal \in [Request -> Nat]
    /\ lock \in Request \cup {NoOne}
    /\ seen \in [Request -> [Request -> Row]]
    /\ pc \in [Request -> CallState]
    /\ marked \in [Request -> BOOLEAN]
    /\ deadlinePassed \in BOOLEAN
    /\ runActive \in BOOLEAN
    /\ granted \in Nat
    /\ topUp \in TopUp
    /\ noOverrun \in BOOLEAN

NewSession == [status |-> "active", budget |-> BaseBudget, exhausted |-> FALSE]

Init ==
    /\ session = NewSession
    /\ rows = NoRows
    /\ runTotal = [q \in Request |-> 0]
    /\ lock = NoOne
    /\ seen = [q \in Request |-> NoRows]
    /\ pc = [q \in Request |-> "new"]
    /\ marked = [q \in Request |-> FALSE]
    /\ deadlinePassed = FALSE
    /\ runActive = TRUE
    /\ granted = BaseBudget
    /\ topUp = [open |-> FALSE, session |-> NewSession, step |-> 0]
    /\ noOverrun = FALSE

-----------------------------------------------------------------------------
(* What the rows add up to. *)

\* A row whose cost counts: completed, or uncertain and settled at an estimate.
IsSettled(row) ==
    \/ row.status = "completed"
    \/ row.status = "uncertain" /\ row.estimated

Spent(row) == IF IsSettled(row) THEN row.cost ELSE 0

\* A row whose hold counts: reserved, or uncertain with no estimate.
Held(row) == IF row.status \in {"reserved", "uncertain"} /\ ~IsSettled(row)
             THEN row.hold ELSE 0

Charge(row) == Spent(row) + Held(row)

Sum(f) == FoldFunction(+, 0, f)

Committed(table) == Sum([q \in Request |-> Charge(table[q])])

\* What recomputeRunTotals writes to the run, as the parts of its sum.
SettledTotals(table) == [q \in Request |-> Spent(table[q])]

-----------------------------------------------------------------------------
(* The session row's lock. *)

\* Mutant: the row is read without FOR UPDATE.
LockWithoutWaiting(r) == lock' = r

LockSession(r) ==
    /\ lock = NoOne
    /\ lock' = r

\* A ledger transaction of r reads the rows under the session lock.
BeginTransaction(r, state) ==
    /\ LockSession(r)
    /\ seen' = [seen EXCEPT ![r] = rows]
    /\ pc' = [pc EXCEPT ![r] = state]

\* It ends, committed or rolled back: the lock goes.
EndTransaction(r, state) ==
    /\ lock' = NoOne
    /\ seen' = [seen EXCEPT ![r] = NoRows]
    /\ pc' = [pc EXCEPT ![r] = state]

-----------------------------------------------------------------------------
(* Reserving: CodingProxy.execute up to the held request. *)

\* Mutant: only the deadline is checked.
IsExpired == deadlinePassed

IsInactive == session.status # "active" \/ deadlinePassed

\* Mutant: the key of a released request may be used again.
IsLiveDuplicate(table, r) ==
    \E q \in Request : KeyOf[q] = KeyOf[r] /\ table[q].status \notin {"absent", "released"}

IsDuplicate(table, r) == \E q \in Request : KeyOf[q] = KeyOf[r] /\ table[q] # NoRow

\* The session ended, the deadline passed, or the key was used: refused, nothing written.
ReserveRefused(r) ==
    /\ pc[r] = "new"
    /\ lock = NoOne
    /\ IsInactive \/ IsDuplicate(rows, r)
    /\ pc' = [pc EXCEPT ![r] = "done"]
    /\ UNCHANGED <<session, rows, runTotal, lock, seen, marked, deadlinePassed, runActive, topUpVars>>

BeginReserve(r) ==
    /\ pc[r] = "new"
    /\ ~IsInactive
    /\ ~IsDuplicate(rows, r)
    /\ BeginTransaction(r, "reserving")
    /\ UNCHANGED <<session, rows, runTotal, marked, deadlinePassed, runActive, topUpVars>>

\* Mutant: the boundary case is admitted.
FitsExactly(table, hold) == Committed(table) + hold <= session.budget

Fits(table, hold) == Committed(table) + hold < session.budget

\* The hold fits what is left: the row is inserted.
Reserve(r, hold, worst) ==
    /\ pc[r] = "reserving"
    /\ hold <= worst
    /\ Fits(seen[r], hold)
    /\ rows' = [rows EXCEPT ![r] = [NoRow EXCEPT !.status = "reserved",
                                                !.hold = hold, !.worst = worst]]
    /\ EndTransaction(r, "held")
    /\ UNCHANGED <<session, runTotal, marked, deadlinePassed, runActive, topUpVars>>

\* It does not fit: the session remembers it was refused once.
RefuseForBudget(r, hold) ==
    /\ pc[r] = "reserving"
    /\ ~Fits(seen[r], hold)
    /\ session' = [session EXCEPT !.exhausted = TRUE]
    /\ EndTransaction(r, "done")
    /\ UNCHANGED <<rows, runTotal, marked, deadlinePassed, runActive, topUpVars>>

\* No lock and no read: only a row still reserved is released.
ReleasedRow(row) ==
    IF row.status = "reserved" THEN [row EXCEPT !.status = "released"] ELSE row

ReleaseRow(r) == rows' = [rows EXCEPT ![r] = ReleasedRow(@)]

\* Mutant: the early return forgets the hold.
LeaveUnsent(r) ==
    /\ pc[r] = "held"
    /\ pc' = [pc EXCEPT ![r] = "done"]
    /\ UNCHANGED <<session, rows, runTotal, lock, seen, marked, deadlinePassed, runActive, topUpVars>>

\* No credential, or the deadline passed before sending: the hold goes back.
ReleaseUnsent(r) ==
    /\ pc[r] = "held"
    /\ ReleaseRow(r)
    /\ pc' = [pc EXCEPT ![r] = "done"]
    /\ UNCHANGED <<session, runTotal, lock, seen, marked, deadlinePassed, runActive, topUpVars>>

\* The request goes upstream.  The session's status is not read again.
Send(r) ==
    /\ pc[r] = "held"
    /\ ~deadlinePassed
    /\ pc' = [pc EXCEPT ![r] = "sent"]
    /\ UNCHANGED <<session, rows, runTotal, lock, seen, marked, deadlinePassed, runActive, topUpVars>>

-----------------------------------------------------------------------------
(* Settling: what happened upstream. *)

\* The upstream answered with an error status: nothing was generated.
Rejected(r) ==
    /\ pc[r] = "sent"
    /\ rows[r].status = "reserved"
    /\ ReleaseRow(r)
    /\ pc' = [pc EXCEPT ![r] = "done"]
    /\ UNCHANGED <<session, runTotal, lock, seen, marked, deadlinePassed, runActive, topUpVars>>

\* A JSON reply, or a terminal frame of a stream, carries the final usage.
BeginComplete(r) ==
    /\ pc[r] = "sent"
    /\ BeginTransaction(r, "completing")
    /\ UNCHANGED <<session, rows, runTotal, marked, deadlinePassed, runActive, topUpVars>>

CompletedRow(row, cost) ==
    [row EXCEPT !.status = "completed", !.cost = cost, !.estimated = FALSE]

\* The row is settled at its real cost and the run's totals are rebuilt.
Complete(r, cost) ==
    /\ pc[r] = "completing"
    /\ rows[r].status \in {"reserved", "uncertain"}
    /\ rows' = [rows EXCEPT ![r] = CompletedRow(@, cost)]
    /\ runTotal' = SettledTotals([seen[r] EXCEPT ![r] = CompletedRow(rows[r], cost)])
    /\ EndTransaction(r, IF cost > rows[r].worst THEN "breached" ELSE "sent")
    /\ UNCHANGED <<session, marked, deadlinePassed, runActive, topUpVars>>

\* A second terminal frame: the same usage changes nothing, another one is refused.
CompleteAgain(r, cost) ==
    /\ pc[r] = "completing"
    /\ rows[r].status = "completed"
    /\ EndTransaction(r, IF cost = rows[r].cost THEN "sent" ELSE "failing")
    /\ UNCHANGED <<session, rows, runTotal, marked, deadlinePassed, runActive, topUpVars>>

\* A reply above its own worst case ends the run's model access.
CancelBreached(r) ==
    /\ pc[r] = "breached"
    /\ lock = NoOne
    /\ session' = [session EXCEPT !.status = "cancelled"]
    /\ pc' = [pc EXCEPT ![r] = "failing"]
    /\ UNCHANGED <<rows, runTotal, lock, seen, marked, deadlinePassed, runActive, topUpVars>>

\* The stream reported a failure without usage: settle at an estimate, go on relaying.
MarkInStream(r) ==
    /\ pc[r] = "sent"
    /\ ~marked[r]
    /\ rows[r].status # "completed"
    /\ BeginTransaction(r, "marking")
    /\ marked' = [marked EXCEPT ![r] = TRUE]
    /\ UNCHANGED <<session, rows, runTotal, deadlinePassed, runActive, topUpVars>>

\* The reply broke (transport, abort, deadline, malformed): settle at an estimate and end.
MarkBroken(r) ==
    /\ pc[r] \in {"sent", "failing"}
    /\ ~marked[r]
    /\ BeginTransaction(r, "closing")
    /\ marked' = [marked EXCEPT ![r] = TRUE]
    /\ UNCHANGED <<session, rows, runTotal, deadlinePassed, runActive, topUpVars>>

AfterMark(r) == IF pc[r] = "marking" THEN "sent" ELSE "done"

\* Mutant: a status no other query knows.
MisnamedEstimate(row, cost) ==
    [row EXCEPT !.status = "estimated", !.cost = cost, !.estimated = TRUE]

EstimatedRow(row, cost) ==
    [row EXCEPT !.status = "uncertain", !.cost = cost, !.estimated = TRUE]

\* Mutant: the mark's WHERE clause forgets the status.
AnyRowIsMarkable(row) == TRUE

\* Only a reserved row is marked.
IsMarkable(row) == row.status = "reserved"

\* An estimate is at most the request's worst case.
IsEstimate(row, cost) == cost <= row.worst

MarkWithEstimate(r, cost) ==
    /\ pc[r] \in {"marking", "closing"}
    /\ IsEstimate(rows[r], cost)
    /\ IF IsMarkable(rows[r])
       THEN /\ rows' = [rows EXCEPT ![r] = EstimatedRow(@, cost)]
            /\ runTotal' = SettledTotals([seen[r] EXCEPT ![r] = EstimatedRow(rows[r], cost)])
       ELSE UNCHANGED <<rows, runTotal>>
    /\ EndTransaction(r, AfterMark(r))
    /\ UNCHANGED <<session, marked, deadlinePassed, runActive, topUpVars>>

HeldRow(row) == IF IsMarkable(row) THEN [row EXCEPT !.status = "uncertain"] ELSE row

\* No estimate, or recording it failed: the row keeps its whole hold.
MarkWithoutEstimate(r) ==
    /\ pc[r] \in {"marking", "closing"}
    /\ rows' = [rows EXCEPT ![r] = HeldRow(@)]
    /\ EndTransaction(r, AfterMark(r))
    /\ UNCHANGED <<session, runTotal, marked, deadlinePassed, runActive, topUpVars>>

\* The reply ended after a terminal frame; or the catch block had nothing left to mark.
EndReply(r) ==
    /\ \/ pc[r] = "sent" /\ (rows[r].status = "completed" \/ marked[r])
       \/ pc[r] = "failing" /\ marked[r]
    /\ pc' = [pc EXCEPT ![r] = "done"]
    /\ UNCHANGED <<session, rows, runTotal, lock, seen, marked, deadlinePassed, runActive, topUpVars>>

\* A ledger transaction fails (timeout, lost connection) and rolls back.
TransactionFails(r) ==
    /\ r \in Fallible
    /\ pc[r] \in InTransaction
    /\ EndTransaction(r, IF pc[r] = "completing" THEN "failing" ELSE "done")
    /\ UNCHANGED <<session, rows, runTotal, marked, deadlinePassed, runActive, topUpVars>>

\* The proxy process dies with the call: its open transaction rolls back, the row stays.
ProxyDies(r) ==
    /\ r \in Fallible
    /\ pc[r] \notin {"new", "done"}
    /\ IF lock = r
       THEN EndTransaction(r, "done")
       ELSE /\ pc' = [pc EXCEPT ![r] = "done"]
            /\ UNCHANGED <<lock, seen>>
    /\ UNCHANGED <<session, rows, runTotal, marked, deadlinePassed, runActive, topUpVars>>

-----------------------------------------------------------------------------
(* The control plane, in another process. *)

\* Stopping or finishing the run ends its model access; calls in flight go on.
CancelSession ==
    /\ session.status = "active"
    /\ lock = NoOne
    /\ session' = [session EXCEPT !.status = "cancelled"]
    /\ UNCHANGED <<requestVars, deadlinePassed, runActive, topUpVars>>

\* The run reaches a terminal status, before or after its session is cancelled.
EndRun ==
    /\ runActive
    /\ runActive' = FALSE
    /\ UNCHANGED <<session, requestVars, deadlinePassed, topUpVars>>

DeadlinePasses ==
    /\ ~deadlinePassed
    /\ deadlinePassed' = TRUE
    /\ UNCHANGED <<session, requestVars, runActive, topUpVars>>

\* The worst cases the top-up's MAX ranges over, and the largest.
WorstCases == {0} \cup {rows[q].worst : q \in Request}

AtLeast(x, y) == IF x >= y THEN x ELSE y

AtMost(x, y) == IF x <= y THEN x ELSE y

MayTopUp ==
    /\ granted < BudgetLimit
    /\ runActive
    /\ session.status = "active"
    /\ ~session.exhausted
    /\ ~noOverrun

\* Within headroom of the grant: two of its largest worst cases, or a share of the base.
IsClose(largest) ==
    Committed(rows) >= granted - AtLeast(2 * largest, BaseHeadroom)

\* A top-up takes its Serializable snapshot: what it reads of the run and the session.
BeginTopUp(largest) ==
    /\ ~topUp.open
    /\ MayTopUp
    /\ \A worst \in WorstCases : worst <= largest
    /\ IsClose(largest)
    /\ topUp' = [open |-> TRUE, session |-> session, step |-> AtLeast(BaseStep, largest)]
    /\ UNCHANGED <<session, requestVars, deadlinePassed, runActive, granted, noOverrun>>

GrantOf(room) == AtMost(AtMost(topUp.step, BudgetLimit - granted), room)

\* Mutants: a READ COMMITTED top-up, and one that only re-reads the status.
NoConflict == TRUE

IsStillActive == session.status = "active"

\* Updating a session row changed since the snapshot is a serialization failure.
IsUnchangedSinceSnapshot == session = topUp.session

CloseTopUp == topUp' = [topUp EXCEPT !.open = FALSE]

\* The grant and the session's budget rise together.
CommitTopUp(room) ==
    /\ topUp.open
    /\ GrantOf(room) > 0
    /\ lock = NoOne
    /\ IsUnchangedSinceSnapshot
    /\ granted' = granted + GrantOf(room)
    /\ session' = IF session.status = "active" THEN [session EXCEPT !.budget = granted'] ELSE session
    /\ CloseTopUp
    /\ UNCHANGED <<requestVars, deadlinePassed, runActive, noOverrun>>

\* The group has no room: recorded once, the run is not topped up again.
RefuseTopUp(room) ==
    /\ topUp.open
    /\ GrantOf(room) = 0
    /\ noOverrun' = TRUE
    /\ CloseTopUp
    /\ UNCHANGED <<session, requestVars, deadlinePassed, runActive, granted>>

\* It aborts: the session row changed, or the transaction could not finish in time.
AbortTopUp ==
    /\ topUp.open
    /\ CloseTopUp
    /\ UNCHANGED <<session, requestVars, deadlinePassed, runActive, granted, noOverrun>>

-----------------------------------------------------------------------------

CallStep(r) ==
    \/ ReserveRefused(r)
    \/ BeginReserve(r)
    \/ \E hold, worst \in Hold : Reserve(r, hold, worst)
    \/ \E hold \in Hold : RefuseForBudget(r, hold)
    \/ ReleaseUnsent(r)
    \/ Send(r)
    \/ Rejected(r)
    \/ BeginComplete(r)
    \/ \E cost \in Cost : Complete(r, cost) \/ CompleteAgain(r, cost)
    \/ CancelBreached(r)
    \/ MarkInStream(r)
    \/ MarkBroken(r)
    \/ \E cost \in Cost : MarkWithEstimate(r, cost)
    \/ MarkWithoutEstimate(r)
    \/ EndReply(r)
    \/ TransactionFails(r)
    \/ ProxyDies(r)

ControlPlaneStep ==
    \/ CancelSession
    \/ EndRun
    \/ DeadlinePasses
    \/ \E largest \in WorstCases : BeginTopUp(largest)
    \/ \E room \in Room : CommitTopUp(room) \/ RefuseTopUp(room)
    \/ AbortTopUp

\* Once every call is done, the deadline has passed and the run ended, nothing is left to do.
Finished ==
    /\ \A r \in Request : pc[r] = "done"
    /\ session.status # "active"
    /\ deadlinePassed
    /\ ~runActive
    /\ ~topUp.open
    /\ UNCHANGED vars

Next ==
    \/ \E r \in Request : CallStep(r)
    \/ ControlPlaneStep
    \/ Finished

Spec == Init /\ [][Next]_vars

\* PostgreSQL queues the waiters of a row lock, a call has a deadline timer that
\* aborts its fetch, and a ledger transaction has a timeout: no call waits for ever.
Fairness == \A r \in Request : SF_vars(CallStep(r))

-----------------------------------------------------------------------------
(* Properties. *)

\* The run's totals are always the sum of its settled requests: no settlement is
\* counted twice or lost, whatever other transactions the rebuild runs against.
ProjectionExact == runTotal = SettledTotals(rows)

\* A request key is admitted once, however its first call ended: a retry of a
\* released, broken or settled request never reaches the upstream a second time.
\* (The table's unique index is a second guard, not modelled.)
KeyUsedOnce ==
    \A r, q \in Request :
        rows[r] # NoRow /\ rows[q] # NoRow /\ KeyOf[r] = KeyOf[q] => r = q

\* A completed or released request is final: a late mark, a second terminal frame
\* or another call's settlement never changes what it cost the run.
FinalCost ==
    [][\A r \in Request : rows[r].status \in {"completed", "released"} =>
           rows'[r] = rows[r] /\ runTotal'[r] = runTotal[r]]_vars

\* A request enters the ledger only while its session is active and unexpired when
\* it took the lock, even if the run is stopped while the reservation is decided.
AdmittedWhileActive ==
    [][\A r \in Request : rows[r] = NoRow /\ rows'[r] # NoRow => session.status = "active"]_vars

\* Once a request was refused for budget the budget never rises again: the worker is
\* stopping, also when a top-up read the session before the refusal.
NoGrantAfterRefusal == [][session'.budget # session.budget => ~session.exhausted]_vars

\* The grant the group pays for is the budget the proxy enforces, within the run's limit,
\* although the two rows are changed by a transaction that races cancellations and refusals.
GrantIsBudget == granted = session.budget /\ granted <= BudgetLimit

\* A reservation whose proxy and database do not fail ends: its hold is released,
\* settled or marked, so it does not reduce the budget for the rest of the run.
HoldEnds ==
    \A r \in Request \ Fallible :
        rows[r].status = "reserved" ~> rows[r].status # "reserved"
=============================================================================
