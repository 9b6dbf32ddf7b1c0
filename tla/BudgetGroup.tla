----------------------------- MODULE BudgetGroup -----------------------------
(***************************************************************************)
(* The shared cap of a budget group: what its runs may claim while they    *)
(* are dispatched, loaded and topped up at once.                           *)
(*                                                                         *)
(* A coding run reserves inside its dispatch transaction, under the group  *)
(* dispatch lock, and counts every live hold.  A native run asks when it   *)
(* is loaded, in no transaction, and counts the holds of the runs that     *)
(* started before it.  Every transaction reads a snapshot of its first     *)
(* read; what it writes is seen once it commits.                           *)
(*                                                                         *)
(* The runs are top-level runs of one group with one period's cap; each    *)
(* has an agent of its own.  Amounts are whole numbers.                    *)
(***************************************************************************)
EXTENDS Integers, FiniteSets, Functions

CONSTANTS
    Run,         \* the runs
    Coding,      \* those of coding agents; the others are native
    Cap,         \* the group's cap for the period
    Ask,         \* Ask[r]: the budgetUsd of r's agent, at first
    Limit,       \* Limit[r]: what top-ups may raise a coding run's grant to
    Step,        \* what one top-up grants at most
    Mortal,      \* the runs whose process may fall silent
    Editable,    \* the runs whose agent's budgetUsd may be lowered
    Nobody       \* nobody holds the group dispatch lock

ASSUME BudgetGroupAssumption ==
    /\ IsFiniteSet(Run)
    /\ Coding \subseteq Run
    /\ Cap \in Nat
    /\ Ask \in [Run -> Nat]
    /\ Limit \in [Run -> Nat]
    /\ Step \in Nat
    /\ Mortal \subseteq Run
    /\ Editable \subseteq Run \ Coding
    /\ Nobody \notin Run

VARIABLES
    status,      \* status[r]: where r is, from its dispatch to its end
    earlier,     \* earlier[r]: the runs, committed or not, whose startedAt is before r's
    budget,      \* budget[r]: the budgetUsd of r's agent
    claim,       \* claim[r]: what r was allowed to spend, 0 before
    cost,        \* cost[r]: what r has spent
    silent,      \* the runs whose last sign of life is older than the hold's lifetime
    lock,        \* the run whose dispatch or top-up holds the group dispatch lock
    topUp,       \* topUp[r]: what an open top-up of r is about to grant, 0 when none is open
    overlapped,  \* history: the pairs of runs with transactions open at once
    strayed      \* history: runs that fell silent or whose agent was lowered below their claim

history == <<overlapped, strayed>>
vars == <<status, earlier, budget, claim, cost, silent, lock, topUp, history>>

Status == {"new", "reserving", "writing", "pending", "live", "ended"}

TypeOK ==
    /\ status \in [Run -> Status]
    /\ earlier \in [Run -> SUBSET Run]
    /\ budget \in [Run -> Nat]
    /\ claim \in [Run -> Nat]
    /\ cost \in [Run -> Nat]
    /\ silent \subseteq Run
    /\ lock \in Run \cup {Nobody}
    /\ topUp \in [Run -> Nat]
    /\ overlapped \subseteq SUBSET Run
    /\ strayed \subseteq Run

Init ==
    /\ status = [r \in Run |-> "new"]
    /\ earlier = [r \in Run |-> {}]
    /\ budget = Ask
    /\ claim = [r \in Run |-> 0]
    /\ cost = [r \in Run |-> 0]
    /\ silent = {}
    /\ lock = Nobody
    /\ topUp = [r \in Run |-> 0]
    /\ overlapped = {}
    /\ strayed = {}

-----------------------------------------------------------------------------
(* computeGroupSpend. *)

AtMost(x, y) == IF x < y THEN x ELSE y
\* Mutant: what is left may be below nothing.
AsItIs(x) == x

NotNegative(x) == IF x < 0 THEN 0 ELSE x
Total(amount, S) == FoldFunctionOnSet(+, 0, amount, S)

Visible == {r \in Run : status[r] \in {"pending", "live", "ended"}}

\* Mutant: a native run holds what it claimed, which is nothing before it is loaded.
HoldsItsClaim(r) == NotNegative(claim[r] - cost[r])

\* The unspent part of a coding run's grant, or of the budget of a native run's agent.
Hold(r) == NotNegative((IF r \in Coding THEN claim[r] ELSE budget[r]) - cost[r])

IsHoldLive(r) == status[r] \in {"pending", "live"} /\ r \notin silent

IsOrderedBefore(r, s) == r \in earlier[s]

Spent == Total(cost, Visible)

\* What the cap leaves when the holds of H count.
Remaining(H) ==
    NotNegative(Cap - Spent
                    - Total([r \in Run |-> Hold(r)], {r \in H \cap Visible : IsHoldLive(r)}))

-----------------------------------------------------------------------------
(* Dispatch. *)

InTransaction(r) == status[r] \in {"reserving", "writing"} \/ topUp[r] > 0

NowOverlapping(r) == overlapped \cup {{r, s} : s \in {t \in Run \ {r} : InTransaction(t)}}

\* LOCK TABLE "BudgetGroup", before the transaction's snapshot.
TakeGroupLock(r) == lock = Nobody /\ lock' = r

GiveGroupLock(r) == lock' = IF lock = r THEN Nobody ELSE lock

\* reserveCodingBudget: nothing left refuses the run, which never held anything.
Reserve(r) ==
    LET base == AtMost(budget[r], Remaining(Run))
    IN  /\ r \in Coding
        /\ status[r] = "new"
        /\ TakeGroupLock(r)
        /\ status' = [status EXCEPT ![r] = "reserving"]
        /\ claim' = [claim EXCEPT ![r] = base]
        /\ overlapped' = NowOverlapping(r)
        /\ UNCHANGED <<earlier, budget, cost, silent, topUp, strayed>>

\* The runs that have a row, committed or not.
Created == {r \in Run : status[r] \in {"writing", "pending", "live", "ended"}}

\* The run's row is created, with its startedAt; nobody else sees it yet.
CreateRun(r) ==
    /\ status[r] = IF r \in Coding THEN "reserving" ELSE "new"
    /\ status' = [status EXCEPT ![r] = "writing"]
    /\ earlier' = [earlier EXCEPT ![r] = Created]
    /\ overlapped' = NowOverlapping(r)
    /\ UNCHANGED <<budget, claim, cost, silent, lock, topUp, strayed>>

\* A coding run with nothing reserved is committed as refused.
CommitRun(r) ==
    /\ status[r] = "writing"
    /\ status' = [status EXCEPT ![r] =
           IF r \notin Coding THEN "pending" ELSE IF claim[r] = 0 THEN "ended" ELSE "live"]
    /\ GiveGroupLock(r)
    /\ UNCHANGED <<earlier, budget, claim, cost, silent, topUp, history>>

\* A serialization failure, a deadlock or a transaction that took too long: dispatchRun
\* tries again from the start, or gives up.
AbortRun(r) ==
    /\ status[r] \in {"reserving", "writing"}
    /\ status' = [status EXCEPT ![r] = "new"]
    /\ earlier' = [s \in Run |-> IF s = r THEN {} ELSE earlier[s] \ {r}]
    /\ claim' = [claim EXCEPT ![r] = 0]
    /\ overlapped' = {P \in overlapped : r \notin P}
    /\ GiveGroupLock(r)
    /\ UNCHANGED <<budget, cost, silent, topUp, strayed>>

\* loadNativeRun: first come, first served.  With nothing left the engine refuses its first turn.
Load(r) ==
    LET effective == AtMost(budget[r], Remaining({s \in Run : IsOrderedBefore(s, r)}))
    IN  /\ status[r] = "pending"
        /\ status' = [status EXCEPT ![r] = IF effective = 0 THEN "ended" ELSE "live"]
        /\ claim' = [claim EXCEPT ![r] = effective]
        /\ UNCHANGED <<earlier, budget, cost, silent, lock, topUp, history>>

-----------------------------------------------------------------------------
(* A run in flight. *)

\* The engine, and the coding proxy, stop a run at what it was allowed.
Spend(r) ==
    /\ status[r] = "live"
    /\ cost[r] < claim[r]
    /\ cost' = [cost EXCEPT ![r] = @ + 1]
    /\ UNCHANGED <<status, earlier, budget, claim, silent, lock, topUp, history>>

\* codingTopUpRoom: every live hold counts, the run's own included.
TopUpRoom(r) == Remaining(Run)

\* grantOnce reads under the lock, and what it read is what it grants from.
BeginTopUp(r) ==
    LET grant == AtMost(Step, AtMost(Limit[r] - claim[r], TopUpRoom(r)))
    IN  /\ r \in Coding
        /\ status[r] = "live"
        /\ topUp[r] = 0
        /\ grant > 0
        /\ TakeGroupLock(r)
        /\ topUp' = [topUp EXCEPT ![r] = grant]
        /\ overlapped' = NowOverlapping(r)
        /\ UNCHANGED <<status, earlier, budget, claim, cost, silent, strayed>>

CommitTopUp(r) ==
    /\ topUp[r] > 0
    /\ claim' = [claim EXCEPT ![r] = @ + topUp[r]]
    /\ topUp' = [topUp EXCEPT ![r] = 0]
    /\ GiveGroupLock(r)
    /\ UNCHANGED <<status, earlier, budget, cost, silent, history>>

\* A conflict ends the attempt; the next poll asks again.
AbortTopUp(r) ==
    /\ topUp[r] > 0
    /\ topUp' = [topUp EXCEPT ![r] = 0]
    /\ GiveGroupLock(r)
    /\ UNCHANGED <<status, earlier, budget, claim, cost, silent, history>>

\* The run ends, perhaps while a top-up that read it in flight is open.
End(r) ==
    /\ status[r] \in {"pending", "live"}
    /\ status' = [status EXCEPT ![r] = "ended"]
    /\ UNCHANGED <<earlier, budget, claim, cost, silent, lock, topUp, history>>

\* No heartbeat for HOLD_HEARTBEAT_TTL_MS: the hold lapses, the process may still be there.
FallSilent(r) ==
    /\ r \in Mortal \ silent
    /\ status[r] \in {"pending", "live"}
    /\ silent' = silent \cup {r}
    /\ strayed' = strayed \cup {r}
    /\ UNCHANGED <<status, earlier, budget, claim, cost, lock, topUp, overlapped>>

BeatAgain(r) ==
    /\ r \in silent
    /\ status[r] \in {"pending", "live"}
    /\ silent' = silent \ {r}
    /\ UNCHANGED <<status, earlier, budget, claim, cost, lock, topUp, history>>

\* update_agent lowers the budget of the agent whose run is in flight.
LowerBudget(r) ==
    /\ r \in Editable
    /\ budget[r] > 1
    /\ budget' = [budget EXCEPT ![r] = @ - 1]
    /\ strayed' = IF claim[r] > budget[r] - 1 THEN strayed \cup {r} ELSE strayed
    /\ UNCHANGED <<status, earlier, claim, cost, silent, lock, topUp, overlapped>>

Finished ==
    /\ \A r \in Run : status[r] = "ended"
    /\ UNCHANGED vars

Next ==
    \/ \E r \in Run :
           \/ Reserve(r) \/ CreateRun(r) \/ CommitRun(r) \/ AbortRun(r) \/ Load(r)
           \/ Spend(r) \/ BeginTopUp(r) \/ CommitTopUp(r) \/ AbortTopUp(r) \/ End(r)
           \/ FallSilent(r) \/ BeatAgain(r) \/ LowerBudget(r)
    \/ Finished

Spec == Init /\ [][Next]_vars

-----------------------------------------------------------------------------
(* Properties. *)

\* What a run has cost the group and may still cost it.
Committed(r) == IF status[r] = "live" THEN claim[r] ELSE cost[r]

\* The cap is hard.  Whichever runs are picked that neither fell silent nor had their
\* agent's budget cut, what they spent and may still spend fits the cap, unless the
\* transactions of two of them, one of them native, overlapped: neither then counted the other.
CapHolds ==
    \A S \in SUBSET {r \in Run \ strayed : claim[r] > 0} :
        (\A P \in overlapped : P \subseteq S => P \subseteq Coding) =>
            Total([r \in Run |-> Committed(r)], S) <= Cap
=============================================================================
