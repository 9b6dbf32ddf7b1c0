------------------------- MODULE BudgetGroupProofs ----------------------------
(***************************************************************************)
(* The cap of a budget group is hard, for any number of runs.              *)
(*                                                                         *)
(* The argument: what counts against the cap is, for each run, what it has *)
(* cost and may still cost, and the budget it will ask for while it waits  *)
(* to be loaded. A run that claims counts all the others of a clear set:   *)
(* coding runs because the lock keeps them apart, native ones because two  *)
(* whose transactions overlapped are not both in the set. A native run     *)
(* counts only those before it, so the sum is bounded only for sets whose  *)
(* last claim came after everyone who still waits; an open top-up was      *)
(* granted with everyone counted, and fits with any of them.               *)
(***************************************************************************)
EXTENDS BudgetGroup, Totals

-----------------------------------------------------------------------------
(* The invariant. *)

\* What a run may still cost the group: a run that waits to be loaded counts for its budget.
Weight(r) ==
    IF status[r] = "pending" THEN budget[r] ELSE IF status[r] = "ended" THEN cost[r] ELSE claim[r]

Weights == [r \in Run |-> Weight(r)]

\* Runs that count, none of which strayed, and no native one of which overlapped another.
Clear(S) ==
    /\ \A r \in S : r \notin strayed /\ (claim[r] > 0 \/ status[r] = "pending")
    /\ \A P \in overlapped : P \subseteq S => P \subseteq Coding

\* One of them has claimed, and whoever still waits was there before it.
LastClaims(S) ==
    \E z \in S :
        /\ claim[z] > 0
        /\ \A s \in S : status[s] = "pending" => s \in earlier[z] \/ status[z] = "reserving"

GroupFits == \A S \in SUBSET Run : Clear(S) /\ LastClaims(S) => SumOver(Weights, S) <= Cap

\* An open top-up fits too, with all that was there when it read.
TopUpFits ==
    \A S \in SUBSET Run : \A c \in S :
        Clear(S) /\ topUp[c] > 0 => SumOver(Weights, S) + topUp[c] <= Cap

\* Where a run is and what it has.
Stage(r) ==
    /\ cost[r] <= claim[r]
    /\ status[r] \in {"new", "reserving", "writing"} => cost[r] = 0
    /\ status[r] \in {"new", "pending"} => claim[r] = 0
    /\ status[r] = "writing" /\ r \notin Coding => claim[r] = 0
    /\ status[r] = "reserving" => r \in Coding
    /\ status[r] = "pending" => r \notin Coding
    /\ status[r] = "live" => claim[r] > 0
    /\ topUp[r] > 0 => r \in Coding /\ status[r] \in {"live", "ended"} /\ claim[r] > 0
    /\ r \in silent => r \in strayed
    /\ r \notin Coding /\ r \notin strayed /\ status[r] = "live" => claim[r] <= budget[r]

Stages == \A r \in Run : Stage(r)

\* The lock is held for the transaction of a coding run.
LockIsHeld == \A r \in Coding : InTransaction(r) => lock = r

\* Runs with a row are ordered.
Ordered ==
    /\ \A r, s \in Run : r \in earlier[s] => r \in Created /\ s \in Created /\ r # s
    /\ \A r, s \in Created : r # s => r \in earlier[s] \/ s \in earlier[r]
    /\ \A r, s, t \in Run : r \in earlier[s] /\ s \in earlier[t] => r \in earlier[t]

\* Two transactions that are open at once overlapped; so did one that is open and one of
\* a run that got its row after.
OverlapsAreKnown ==
    \A r, s \in Run : r # s /\ InTransaction(r) =>
        /\ InTransaction(s) => {r, s} \in overlapped
        /\ status[r] = "writing" /\ r \in earlier[s] => {r, s} \in overlapped

Places == Stages /\ LockIsHeld /\ Ordered /\ OverlapsAreKnown

Sums == GroupFits /\ TopUpFits

-----------------------------------------------------------------------------
(* Amounts. *)

LEMMA AtMostIsLeast ==
    ASSUME NEW x \in Int, NEW y \in Int
    PROVE  AtMost(x, y) <= x /\ AtMost(x, y) <= y /\ AtMost(x, y) \in {x, y}
BY DEF AtMost

LEMMA TotalIsSum == \A f, S : Total(f, S) = SumOver(f, S)
BY FoldIsSum DEF Total

\* What the model adds up are amounts.
LEMMA Amounts ==
    ASSUME TypeOK
    PROVE  /\ \A r \in Run : Weight(r) \in Nat /\ Hold(r) \in Nat /\ cost[r] \in Nat
           /\ \A r \in Run : Weights[r] = Weight(r)
           /\ IsFiniteSet(Run) /\ Cap \in Nat
BY BudgetGroupAssumption DEF TypeOK, Weight, Weights, Hold, NotNegative

LEMMA RemainingIsAmount ==
    ASSUME TypeOK, NEW H
    PROVE  /\ Remaining(H) \in Nat
           /\ Remaining(H) > 0 =>
                SumOver(cost, Visible)
                + SumOver([r \in Run |-> Hold(r)], {r \in H \cap Visible : IsHoldLive(r)})
                + Remaining(H) = Cap
<1> DEFINE hold == [r \in Run |-> Hold(r)]
           held == {r \in H \cap Visible : IsHoldLive(r)}
<1>1. held \subseteq Run /\ Visible \subseteq Run
    BY DEF Visible
<1>2. IsFiniteSet(held) /\ IsFiniteSet(Visible)
    BY <1>1, Amounts, FS_Subset
<1>3. (\A r \in held : hold[r] \in Int) /\ (\A r \in Visible : cost[r] \in Int)
    BY <1>1, Amounts
<1> HIDE DEF hold, held
<1>4. SumOver(hold, held) \in Int /\ SumOver(cost, Visible) \in Int /\ Cap \in Int
    <2>1. Cap \in Int
        BY Amounts
    <2>2. QED
        BY <1>2, <1>3, <2>1, SumFacts
<1>5. Remaining(H) = NotNegative(Cap - SumOver(cost, Visible) - SumOver(hold, held))
    BY TotalIsSum DEF Remaining, Spent, hold, held
<1>6. Remaining(H) \in Nat
      /\ (Remaining(H) > 0 => SumOver(cost, Visible) + SumOver(hold, held) + Remaining(H) = Cap)
    BY <1>4, <1>5 DEF NotNegative
<1>7. QED
    BY <1>6 DEF hold, held

\* A live hold covers the rest of what its run may cost.
LEMMA HoldCovers ==
    ASSUME TypeOK, Stages, NEW s \in Visible, s \notin strayed
    PROVE  IF IsHoldLive(s) THEN Weight(s) <= cost[s] + Hold(s) ELSE Weight(s) <= cost[s]
<1>1. /\ s \in Run /\ Stage(s) /\ status[s] \in {"pending", "live", "ended"}
      /\ budget[s] \in Nat /\ cost[s] \in Nat /\ claim[s] \in Nat
    BY DEF TypeOK, Stages, Visible
<1>2. s \notin silent
    BY <1>1 DEF Stage
<1>3. CASE status[s] = "pending"
    BY <1>1, <1>2, <1>3 DEF Stage, Weight, Hold, NotNegative, IsHoldLive
<1>4. CASE status[s] = "live"
    BY <1>1, <1>2, <1>4 DEF Stage, Weight, Hold, NotNegative, IsHoldLive
<1>5. CASE status[s] = "ended"
    BY <1>1, <1>5 DEF Weight, IsHoldLive
<1>6. QED
    BY <1>1, <1>3, <1>4, <1>5

\* What is left, once the runs of S count, fits with them.
LEMMA CountedFits ==
    ASSUME TypeOK, Stages, NEW H, NEW S \in SUBSET Visible, NEW x \in Nat,
           x > 0, x <= Remaining(H),
           \A s \in S : s \notin strayed /\ (status[s] \in {"pending", "live"} => s \in H)
    PROVE  SumOver(Weights, S) + x <= Cap
<1> DEFINE hold == [r \in Run |-> Hold(r)]
           held == {r \in H \cap Visible : IsHoldLive(r)}
           part == [r \in Run |-> IF r \in held THEN Hold(r) ELSE 0]
           both == [r \in Run |-> cost[r] + part[r]]
<1>1. held \subseteq Run /\ Visible \subseteq Run /\ S \subseteq Run /\ S \subseteq Visible
    BY DEF Visible
<1>2. IsFiniteSet(Run) /\ IsFiniteSet(held) /\ IsFiniteSet(Visible) /\ IsFiniteSet(S)
    BY <1>1, Amounts, FS_Subset
<1>3. /\ \A r \in Run : part[r] \in Nat /\ hold[r] \in Nat /\ cost[r] \in Nat
      /\ \A r \in Run : both[r] = cost[r] + part[r]
      /\ \A r \in held : part[r] = hold[r]
      /\ \A r \in Run \ held : part[r] = 0
    BY <1>1, Amounts
<1>4. \A s \in S : Weights[s] <= both[s] /\ Weights[s] \in Int /\ both[s] \in Int
    <2> TAKE s \in S
    <2>1. s \in Run /\ s \in Visible /\ s \notin strayed
        BY <1>1
    <2>2. IsHoldLive(s) => s \in held
        BY <2>1 DEF IsHoldLive
    <2>3. /\ Weights[s] = Weight(s) /\ Weight(s) \in Nat /\ Hold(s) \in Nat /\ cost[s] \in Nat
          /\ both[s] = cost[s] + part[s] /\ part[s] \in Nat
        BY <2>1, <1>3, Amounts
    <2>4. IF IsHoldLive(s) THEN Weight(s) <= cost[s] + Hold(s) ELSE Weight(s) <= cost[s]
        BY <2>1, HoldCovers
    <2>5. IsHoldLive(s) => part[s] = Hold(s)
        BY <2>1, <2>2
    <2> HIDE DEF held, part, both
    <2>6. QED
        BY <2>3, <2>4, <2>5
<1> HIDE DEF hold, held, part, both
<1>5. SumOver(Weights, S) <= SumOver(both, S) /\ SumOver(Weights, S) \in Int
    BY <1>2, <1>4, SumLeq, SumFacts
<1>6. SumOver(both, S) = SumOver(cost, S) + SumOver(part, S)
    <2>1. \A q \in S : cost[q] \in Int /\ part[q] \in Int /\ both[q] = cost[q] + part[q]
        BY <1>1, <1>3
    <2>2. QED
        BY <1>2, <2>1, SumAdd
<1>7. SumOver(cost, S) <= SumOver(cost, Visible)
    <2>1. \A q \in Visible : cost[q] \in Nat
        BY <1>1, <1>3
    <2>2. QED
        BY <1>1, <1>2, <2>1, SumSubset
<1>8. SumOver(part, S) <= SumOver(part, Run) /\ SumOver(part, Run) = SumOver(part, held)
    <2>1. \A q \in Run : part[q] \in Nat
        BY <1>3
    <2>2. QED
        BY <1>1, <1>2, <1>3, <2>1, SumSubset
<1>9. SumOver(part, held) = SumOver(hold, held)
    <2>1. \A q \in held : hold[q] \in Int /\ part[q] = hold[q]
        BY <1>1, <1>3
    <2>2. QED
        BY <1>2, <2>1, SumEqual
<1>10. /\ SumOver(cost, S) \in Int /\ SumOver(part, S) \in Int /\ SumOver(cost, Visible) \in Int
       /\ SumOver(hold, held) \in Int
    <2>1. /\ \A q \in S : cost[q] \in Int
          /\ \A q \in S : part[q] \in Int
          /\ \A q \in Visible : cost[q] \in Int
          /\ \A q \in held : hold[q] \in Int
        BY <1>1, <1>3
    <2>2. QED
        BY <1>2, <2>1, SumFacts
<1>11. SumOver(cost, Visible) + SumOver(hold, held) + Remaining(H) = Cap /\ Remaining(H) \in Nat
    <2>1. Remaining(H) \in Nat
        BY RemainingIsAmount
    <2>2. Remaining(H) > 0
        BY <2>1
    <2>3. QED
        BY <2>1, <2>2, RemainingIsAmount DEF hold, held
<1>12. Cap \in Nat
    BY Amounts
<1>13. QED
    BY <1>5, <1>6, <1>7, <1>8, <1>9, <1>10, <1>11, <1>12

-----------------------------------------------------------------------------
(* Types. *)

LEMMA TypeHolds == Init => TypeOK
BY BudgetGroupAssumption DEF Init, TypeOK, Status

LEMMA TypeStep ==
    ASSUME TypeOK, [Next]_vars
    PROVE  TypeOK'
<1>1. ASSUME NEW r \in Run, Reserve(r)
      PROVE  TypeOK'
    <2>1. Remaining(Run) \in Nat /\ budget[r] \in Nat
        BY RemainingIsAmount DEF TypeOK
    <2>2. AtMost(budget[r], Remaining(Run)) \in Nat
        BY <2>1 DEF AtMost
    <2>3. QED
        BY <1>1, <2>2 DEF TypeOK, Reserve, TakeGroupLock, NowOverlapping, Status
<1>2. ASSUME NEW r \in Run, Load(r)
      PROVE  TypeOK'
    <2> DEFINE H == {s \in Run : IsOrderedBefore(s, r)}
    <2>1. Remaining(H) \in Nat /\ budget[r] \in Nat
        BY RemainingIsAmount DEF TypeOK
    <2>2. AtMost(budget[r], Remaining(H)) \in Nat
        BY <2>1 DEF AtMost
    <2>3. QED
        BY <1>2, <2>2 DEF TypeOK, Load, Status, history
<1>3. ASSUME NEW r \in Run, BeginTopUp(r)
      PROVE  TypeOK'
    <2> DEFINE grant == AtMost(Step, AtMost(Limit[r] - claim[r], TopUpRoom(r)))
    <2>1. TopUpRoom(r) \in Nat /\ claim[r] \in Nat /\ Limit[r] \in Nat /\ Step \in Nat
        BY RemainingIsAmount, BudgetGroupAssumption DEF TypeOK, TopUpRoom
    <2>2. grant \in Int
        BY <2>1 DEF AtMost
    <2>3. grant > 0 /\ topUp' = [topUp EXCEPT ![r] = grant]
        BY <1>3 DEF BeginTopUp
    <2> HIDE DEF grant
    <2>4. topUp' \in [Run -> Nat]
        BY <2>2, <2>3 DEF TypeOK
    <2>5. QED
        BY <1>3, <2>4 DEF TypeOK, BeginTopUp, TakeGroupLock, NowOverlapping
<1>4. ASSUME NEW r \in Run,
             \/ CreateRun(r) \/ CommitRun(r) \/ AbortRun(r) \/ Spend(r) \/ CommitTopUp(r)
             \/ AbortTopUp(r) \/ End(r) \/ FallSilent(r) \/ BeatAgain(r) \/ LowerBudget(r)
      PROVE  TypeOK'
    <2>1. CASE CreateRun(r)
        BY <2>1 DEF TypeOK, CreateRun, NowOverlapping, Created, Status
    <2>2. CASE CommitRun(r)
        BY <2>2 DEF TypeOK, CommitRun, GiveGroupLock, Status, history
    <2>3. CASE AbortRun(r)
        BY <2>3 DEF TypeOK, AbortRun, GiveGroupLock, Status
    <2>4. CASE Spend(r)
        BY <2>4 DEF TypeOK, Spend, history
    <2>5. CASE CommitTopUp(r)
        BY <2>5 DEF TypeOK, CommitTopUp, GiveGroupLock, history
    <2>6. CASE AbortTopUp(r)
        BY <2>6 DEF TypeOK, AbortTopUp, GiveGroupLock, history
    <2>7. CASE End(r)
        BY <2>7 DEF TypeOK, End, Status, history
    <2>8. CASE FallSilent(r) \/ BeatAgain(r)
        BY <2>8 DEF TypeOK, FallSilent, BeatAgain, history
    <2>9. CASE LowerBudget(r)
        BY <2>9 DEF TypeOK, LowerBudget
    <2>10. QED
        BY <1>4, <2>1, <2>2, <2>3, <2>4, <2>5, <2>6, <2>7, <2>8, <2>9
<1>5. CASE UNCHANGED vars
    BY <1>5 DEF TypeOK, vars, history
<1>6. QED
    BY <1>1, <1>2, <1>3, <1>4, <1>5 DEF Next, Finished

\* Every variable keeps its type: a claim, a cost and a top-up are never below nothing.
THEOREM GroupTypeCorrect == Spec => []TypeOK
BY TypeHolds, TypeStep, PTL DEF Spec

-----------------------------------------------------------------------------
(* Where the runs are. *)

\* What a claim, a load and a top-up grant.
LEMMA Grants ==
    ASSUME TypeOK, NEW r \in Run, NEW H
    PROVE  /\ AtMost(budget[r], Remaining(H)) \in Nat
           /\ AtMost(budget[r], Remaining(H)) <= budget[r]
           /\ AtMost(budget[r], Remaining(H)) <= Remaining(H)
           /\ Remaining(H) \in Nat
<1>1. budget[r] \in Nat /\ Remaining(H) \in Nat
    BY RemainingIsAmount DEF TypeOK
<1>2. QED
    BY <1>1 DEF AtMost

LEMMA TopUpGrants ==
    ASSUME TypeOK, NEW r \in Run
    PROVE  LET grant == AtMost(Step, AtMost(Limit[r] - claim[r], TopUpRoom(r)))
           IN  grant \in Int /\ grant <= Remaining(Run)
<1>1. TopUpRoom(r) \in Nat /\ claim[r] \in Nat /\ Limit[r] \in Nat /\ Step \in Nat
    BY RemainingIsAmount, BudgetGroupAssumption DEF TypeOK, TopUpRoom
<1>2. QED
    BY <1>1 DEF AtMost, TopUpRoom

LEMMA StagesHold == Init => Stages
BY BudgetGroupAssumption DEF Init, Stages, Stage

LEMMA StagesStep ==
    ASSUME TypeOK, TypeOK', Stages, NEW r \in Run,
           \/ Reserve(r) \/ CreateRun(r) \/ CommitRun(r) \/ AbortRun(r) \/ Load(r)
           \/ Spend(r) \/ BeginTopUp(r) \/ CommitTopUp(r) \/ AbortTopUp(r) \/ End(r)
           \/ FallSilent(r) \/ BeatAgain(r) \/ LowerBudget(r)
    PROVE  Stages'
<1> SUFFICES ASSUME NEW q \in Run
              PROVE  Stage(q)'
    BY DEF Stages
<1>0. /\ Stage(q) /\ Stage(r)
      /\ status[q] \in Status /\ budget[q] \in Nat /\ claim[q] \in Nat /\ cost[q] \in Nat /\ topUp[q] \in Nat
    BY DEF Stages, TypeOK
<1>1. CASE Reserve(r)
    BY <1>0, <1>1, Grants DEF TypeOK, Stage, Reserve, TakeGroupLock
<1>2. CASE CreateRun(r)
    BY <1>0, <1>2 DEF TypeOK, Stage, CreateRun
<1>3. CASE CommitRun(r)
    BY <1>0, <1>3 DEF TypeOK, Stage, CommitRun, GiveGroupLock, history
<1>4. CASE AbortRun(r)
    BY <1>0, <1>4 DEF TypeOK, Stage, AbortRun, GiveGroupLock
<1>5. CASE Load(r)
    BY <1>0, <1>5, Grants DEF TypeOK, Stage, Load, history
<1>6. CASE Spend(r)
    BY <1>0, <1>6 DEF TypeOK, Stage, Spend, history
<1>7. CASE BeginTopUp(r)
    BY <1>0, <1>7 DEF TypeOK, Stage, BeginTopUp, TakeGroupLock
<1>8. CASE CommitTopUp(r)
    BY <1>0, <1>8 DEF TypeOK, Stage, CommitTopUp, GiveGroupLock, history
<1>9. CASE AbortTopUp(r)
    BY <1>0, <1>9 DEF TypeOK, Stage, AbortTopUp, GiveGroupLock, history
<1>10. CASE End(r)
    BY <1>0, <1>10 DEF TypeOK, Stage, End, history
<1>11. CASE FallSilent(r)
    BY <1>0, <1>11 DEF TypeOK, Stage, FallSilent
<1>12. CASE BeatAgain(r)
    BY <1>0, <1>12 DEF TypeOK, Stage, BeatAgain, history
<1>13. CASE LowerBudget(r)
    BY <1>0, <1>13, BudgetGroupAssumption DEF TypeOK, Stage, LowerBudget
<1>14. QED
    BY <1>1, <1>2, <1>3, <1>4, <1>5, <1>6, <1>7, <1>8, <1>9, <1>10, <1>11, <1>12, <1>13

LEMMA LockStep ==
    ASSUME TypeOK, Stages, LockIsHeld, NEW r \in Run,
           \/ Reserve(r) \/ CreateRun(r) \/ CommitRun(r) \/ AbortRun(r) \/ Load(r)
           \/ Spend(r) \/ BeginTopUp(r) \/ CommitTopUp(r) \/ AbortTopUp(r) \/ End(r)
           \/ FallSilent(r) \/ BeatAgain(r) \/ LowerBudget(r)
    PROVE  LockIsHeld'
<1> SUFFICES ASSUME NEW q \in Coding, InTransaction(q)'
             PROVE  lock' = q
    BY DEF LockIsHeld
<1>0. /\ q \in Run /\ Stage(q) /\ Stage(r) /\ (InTransaction(q) => lock = q) /\ Nobody # q /\ Nobody # r
      /\ topUp[q] \in Nat /\ topUp[r] \in Nat
    BY BudgetGroupAssumption DEF Stages, LockIsHeld, TypeOK
<1>1. CASE Reserve(r)
    BY <1>0, <1>1 DEF TypeOK, Stage, InTransaction, Reserve, TakeGroupLock
<1>2. CASE CreateRun(r)
    BY <1>0, <1>2 DEF TypeOK, Stage, InTransaction, CreateRun
<1>3. CASE CommitRun(r)
    BY <1>0, <1>3 DEF TypeOK, Stage, InTransaction, CommitRun, GiveGroupLock
<1>4. CASE AbortRun(r)
    BY <1>0, <1>4 DEF TypeOK, Stage, InTransaction, AbortRun, GiveGroupLock
<1>5. CASE Load(r)
    BY <1>0, <1>5 DEF TypeOK, Stage, InTransaction, Load
<1>6. CASE Spend(r)
    BY <1>0, <1>6 DEF TypeOK, Stage, InTransaction, Spend
<1>7. CASE BeginTopUp(r)
    BY <1>0, <1>7 DEF TypeOK, Stage, InTransaction, BeginTopUp, TakeGroupLock
<1>8. CASE CommitTopUp(r)
    BY <1>0, <1>8 DEF TypeOK, Stage, InTransaction, CommitTopUp, GiveGroupLock
<1>9. CASE AbortTopUp(r)
    BY <1>0, <1>9 DEF TypeOK, Stage, InTransaction, AbortTopUp, GiveGroupLock
<1>10. CASE End(r)
    BY <1>0, <1>10 DEF TypeOK, Stage, InTransaction, End
<1>11. CASE FallSilent(r)
    BY <1>0, <1>11 DEF TypeOK, Stage, InTransaction, FallSilent
<1>12. CASE BeatAgain(r)
    BY <1>0, <1>12 DEF TypeOK, Stage, InTransaction, BeatAgain
<1>13. CASE LowerBudget(r)
    BY <1>0, <1>13 DEF TypeOK, Stage, InTransaction, LowerBudget
<1>14. QED
    BY <1>1, <1>2, <1>3, <1>4, <1>5, <1>6, <1>7, <1>8, <1>9, <1>10, <1>11, <1>12, <1>13

\* Which steps change who has a row, and what they change of the order.
LEMMA RowsStep ==
    ASSUME TypeOK, NEW r \in Run,
           \/ Reserve(r) \/ CreateRun(r) \/ CommitRun(r) \/ AbortRun(r) \/ Load(r)
           \/ Spend(r) \/ BeginTopUp(r) \/ CommitTopUp(r) \/ AbortTopUp(r) \/ End(r)
           \/ FallSilent(r) \/ BeatAgain(r) \/ LowerBudget(r)
    PROVE  \/ Created' = Created /\ earlier' = earlier
           \/ /\ CreateRun(r)
              /\ r \notin Created /\ Created' = Created \cup {r}
              /\ earlier' = [earlier EXCEPT ![r] = Created]
           \/ /\ AbortRun(r)
              /\ Created' = Created \ {r}
              /\ earlier' = [s \in Run |-> IF s = r THEN {} ELSE earlier[s] \ {r}]
<1>0. status[r] \in Status
    BY DEF TypeOK
<1>1. CASE Reserve(r)
    BY <1>0, <1>1 DEF TypeOK, Status, Created, Reserve, TakeGroupLock
<1>2. CASE CreateRun(r)
    BY <1>0, <1>2 DEF TypeOK, Status, Created, CreateRun
<1>3. CASE CommitRun(r)
    BY <1>0, <1>3 DEF TypeOK, Status, Created, CommitRun, GiveGroupLock
<1>4. CASE AbortRun(r)
    BY <1>0, <1>4 DEF TypeOK, Status, Created, AbortRun, GiveGroupLock
<1>5. CASE Load(r)
    BY <1>0, <1>5 DEF TypeOK, Status, Created, Load
<1>6. CASE Spend(r)
    BY <1>0, <1>6 DEF TypeOK, Status, Created, Spend
<1>7. CASE BeginTopUp(r)
    BY <1>0, <1>7 DEF TypeOK, Status, Created, BeginTopUp, TakeGroupLock
<1>8. CASE CommitTopUp(r)
    BY <1>0, <1>8 DEF TypeOK, Status, Created, CommitTopUp, GiveGroupLock
<1>9. CASE AbortTopUp(r)
    BY <1>0, <1>9 DEF TypeOK, Status, Created, AbortTopUp, GiveGroupLock
<1>10. CASE End(r)
    BY <1>0, <1>10 DEF TypeOK, Status, Created, End
<1>11. CASE FallSilent(r)
    BY <1>0, <1>11 DEF TypeOK, Status, Created, FallSilent
<1>12. CASE BeatAgain(r)
    BY <1>0, <1>12 DEF TypeOK, Status, Created, BeatAgain
<1>13. CASE LowerBudget(r)
    BY <1>0, <1>13 DEF TypeOK, Status, Created, LowerBudget
<1>14. QED
    BY <1>1, <1>2, <1>3, <1>4, <1>5, <1>6, <1>7, <1>8, <1>9, <1>10, <1>11, <1>12, <1>13

LEMMA OrderStep ==
    ASSUME TypeOK, Ordered, NEW r \in Run,
           \/ Reserve(r) \/ CreateRun(r) \/ CommitRun(r) \/ AbortRun(r) \/ Load(r)
           \/ Spend(r) \/ BeginTopUp(r) \/ CommitTopUp(r) \/ AbortTopUp(r) \/ End(r)
           \/ FallSilent(r) \/ BeatAgain(r) \/ LowerBudget(r)
    PROVE  Ordered'
<1>1. CASE Created' = Created /\ earlier' = earlier
    BY <1>1 DEF Ordered
<1>2. CASE /\ r \notin Created /\ Created' = Created \cup {r}
           /\ earlier' = [earlier EXCEPT ![r] = Created]
    <2>1. /\ earlier'[r] = Created
          /\ \A s \in Run : s # r => earlier'[s] = earlier[s]
          /\ Created \subseteq Run
        BY <1>2 DEF TypeOK, Created
    <2>2. QED
        BY <1>2, <2>1 DEF Ordered
<1>3. CASE /\ Created' = Created \ {r}
           /\ earlier' = [s \in Run |-> IF s = r THEN {} ELSE earlier[s] \ {r}]
    <2>1. /\ earlier'[r] = {}
          /\ \A s \in Run : s # r => earlier'[s] = earlier[s] \ {r}
          /\ Created \subseteq Run
        BY <1>3 DEF TypeOK, Created
    <2>2. QED
        BY <1>3, <2>1 DEF Ordered
<1>4. QED
    BY <1>1, <1>2, <1>3, RowsStep

LEMMA OverlapsStep ==
    ASSUME TypeOK, Stages, Ordered, OverlapsAreKnown, NEW r \in Run,
           \/ Reserve(r) \/ CreateRun(r) \/ CommitRun(r) \/ AbortRun(r) \/ Load(r)
           \/ Spend(r) \/ BeginTopUp(r) \/ CommitTopUp(r) \/ AbortTopUp(r) \/ End(r)
           \/ FallSilent(r) \/ BeatAgain(r) \/ LowerBudget(r)
    PROVE  OverlapsAreKnown'
<1> SUFFICES ASSUME NEW p \in Run, NEW q \in Run, p # q, InTransaction(p)'
             PROVE  /\ InTransaction(q)' => {p, q} \in overlapped'
                    /\ (status[p] = "writing" /\ p \in earlier[q])' => {p, q} \in overlapped'
    BY DEF OverlapsAreKnown
<1>0. /\ Stage(p) /\ Stage(q) /\ Stage(r)
      /\ topUp[p] \in Nat /\ topUp[q] \in Nat /\ topUp[r] \in Nat
    BY DEF Stages, TypeOK
<1>a. /\ InTransaction(p) /\ InTransaction(q) => {p, q} \in overlapped
      /\ InTransaction(p) /\ status[p] = "writing" /\ p \in earlier[q] => {p, q} \in overlapped
    BY DEF OverlapsAreKnown
<1>b. p \in earlier[q] => p \in Created
    BY DEF Ordered
<1>1. CASE Reserve(r)
    <2>1. overlapped' = overlapped \cup {{r, t} : t \in {u \in Run \ {r} : InTransaction(u)}}
        BY <1>1 DEF Reserve, NowOverlapping
    <2>2. \A t \in Run \ {r} : InTransaction(t)' => InTransaction(t)
        BY <1>1 DEF Reserve, TakeGroupLock, InTransaction, TypeOK
    <2>3. (r = p /\ InTransaction(q)) \/ (r = q /\ InTransaction(p)) => {p, q} \in overlapped'
        BY <2>1
    <2>4. {p, q} \in overlapped => {p, q} \in overlapped'
        BY <2>1
    <2>5. p # r => status'[p] = status[p] /\ InTransaction(p)
        BY <2>2, <1>1 DEF Reserve, TypeOK
    <2>6. ASSUME p \in earlier'[q], status'[p] = "writing"
          PROVE  {p, q} \in overlapped'
        <3>1. q # r => earlier'[q] = earlier[q]
            BY <1>1 DEF Reserve, TypeOK
        <3>2. p # r
            BY <2>6, <3>1, <1>b, <1>1 DEF Reserve, Created, TypeOK
        <3>3. QED
            BY <2>3, <2>4, <2>5, <2>6, <3>1, <3>2, <1>a
    <2>7. ASSUME InTransaction(q)'
          PROVE  {p, q} \in overlapped'
        <3>1. q # r => InTransaction(q)
            BY <2>2, <2>7
        <3>2. QED
            BY <2>3, <2>4, <2>5, <3>1, <1>a
    <2>8. QED
        BY <2>6, <2>7
<1>2. CASE CreateRun(r)
    <2>1. overlapped' = overlapped \cup {{r, t} : t \in {u \in Run \ {r} : InTransaction(u)}}
        BY <1>2 DEF CreateRun, NowOverlapping
    <2>2. \A t \in Run \ {r} : InTransaction(t)' => InTransaction(t)
        BY <1>2 DEF CreateRun, InTransaction, TypeOK
    <2>3. (r = p /\ InTransaction(q)) \/ (r = q /\ InTransaction(p)) => {p, q} \in overlapped'
        BY <2>1
    <2>4. {p, q} \in overlapped => {p, q} \in overlapped'
        BY <2>1
    <2>5. p # r => status'[p] = status[p] /\ InTransaction(p)
        BY <2>2, <1>2 DEF CreateRun, TypeOK
    <2>6. ASSUME p \in earlier'[q], status'[p] = "writing"
          PROVE  {p, q} \in overlapped'
        <3>1. q # r => earlier'[q] = earlier[q]
            BY <1>2 DEF CreateRun, TypeOK
        <3>2. p # r
            BY <2>6, <3>1, <1>b, <1>2 DEF CreateRun, Created, TypeOK
        <3>3. QED
            BY <2>3, <2>4, <2>5, <2>6, <3>1, <3>2, <1>a
    <2>7. ASSUME InTransaction(q)'
          PROVE  {p, q} \in overlapped'
        <3>1. q # r => InTransaction(q)
            BY <2>2, <2>7
        <3>2. QED
            BY <2>3, <2>4, <2>5, <3>1, <1>a
    <2>8. QED
        BY <2>6, <2>7
<1>3. CASE CommitRun(r)
    BY <1>0, <1>a, <1>3 DEF TypeOK, Stage, InTransaction, CommitRun, GiveGroupLock, history
<1>4. CASE AbortRun(r)
    BY <1>0, <1>a, <1>4 DEF TypeOK, Stage, InTransaction, AbortRun, GiveGroupLock
<1>5. CASE Load(r)
    BY <1>0, <1>a, <1>5 DEF TypeOK, Stage, InTransaction, Load, history
<1>6. CASE Spend(r)
    BY <1>0, <1>a, <1>6 DEF TypeOK, Stage, InTransaction, Spend, history
<1>7. CASE BeginTopUp(r)
    <2>1. overlapped' = overlapped \cup {{r, t} : t \in {u \in Run \ {r} : InTransaction(u)}}
        BY <1>7 DEF BeginTopUp, NowOverlapping
    <2>2. \A t \in Run \ {r} : InTransaction(t)' => InTransaction(t)
        BY <1>7 DEF BeginTopUp, TakeGroupLock, InTransaction, TypeOK
    <2>3. (r = p /\ InTransaction(q)) \/ (r = q /\ InTransaction(p)) => {p, q} \in overlapped'
        BY <2>1
    <2>4. {p, q} \in overlapped => {p, q} \in overlapped'
        BY <2>1
    <2>5. p # r => status'[p] = status[p] /\ InTransaction(p)
        BY <2>2, <1>7 DEF BeginTopUp, TypeOK
    <2>6. ASSUME p \in earlier'[q], status'[p] = "writing"
          PROVE  {p, q} \in overlapped'
        <3>1. q # r => earlier'[q] = earlier[q]
            BY <1>7 DEF BeginTopUp, TypeOK
        <3>2. p # r
            BY <2>6, <3>1, <1>b, <1>7 DEF BeginTopUp, Created, TypeOK
        <3>3. QED
            BY <2>3, <2>4, <2>5, <2>6, <3>1, <3>2, <1>a
    <2>7. ASSUME InTransaction(q)'
          PROVE  {p, q} \in overlapped'
        <3>1. q # r => InTransaction(q)
            BY <2>2, <2>7
        <3>2. QED
            BY <2>3, <2>4, <2>5, <3>1, <1>a
    <2>8. QED
        BY <2>6, <2>7
<1>8. CASE CommitTopUp(r)
    BY <1>0, <1>a, <1>8 DEF TypeOK, Stage, InTransaction, CommitTopUp, GiveGroupLock, history
<1>9. CASE AbortTopUp(r)
    BY <1>0, <1>a, <1>9 DEF TypeOK, Stage, InTransaction, AbortTopUp, GiveGroupLock, history
<1>10. CASE End(r)
    BY <1>0, <1>a, <1>10 DEF TypeOK, Stage, InTransaction, End, history
<1>11. CASE FallSilent(r)
    BY <1>0, <1>a, <1>11 DEF TypeOK, Stage, InTransaction, FallSilent
<1>12. CASE BeatAgain(r)
    BY <1>0, <1>a, <1>12 DEF TypeOK, Stage, InTransaction, BeatAgain, history
<1>13. CASE LowerBudget(r)
    BY <1>0, <1>a, <1>13 DEF TypeOK, Stage, InTransaction, LowerBudget
<1>14. QED
    BY <1>1, <1>2, <1>3, <1>4, <1>5, <1>6, <1>7, <1>8, <1>9, <1>10, <1>11, <1>12, <1>13

LEMMA PlacesHold == Init => Places
<1> SUFFICES ASSUME Init PROVE Places
    OBVIOUS
<1>1. \A r \in Run : earlier[r] = {} /\ ~InTransaction(r) /\ status[r] = "new"
    BY DEF Init, InTransaction
<1>2. Created = {}
    BY <1>1 DEF Created
<1>3. QED
    BY <1>1, <1>2, StagesHold, BudgetGroupAssumption DEF Places, LockIsHeld, Ordered, OverlapsAreKnown

LEMMA PlacesStep ==
    ASSUME TypeOK, TypeOK', Places, NEW r \in Run,
           \/ Reserve(r) \/ CreateRun(r) \/ CommitRun(r) \/ AbortRun(r) \/ Load(r)
           \/ Spend(r) \/ BeginTopUp(r) \/ CommitTopUp(r) \/ AbortTopUp(r) \/ End(r)
           \/ FallSilent(r) \/ BeatAgain(r) \/ LowerBudget(r)
    PROVE  Places'
BY StagesStep, LockStep, OrderStep, OverlapsStep DEF Places

-----------------------------------------------------------------------------
(* What counts against the cap. *)

\* The weights of a set, before and after.
LEMMA WeightsAdd ==
    ASSUME TypeOK, TypeOK', NEW S \in SUBSET Run
    PROVE  /\ IsFiniteSet(S)
           /\ SumOver(Weights, S) \in Int /\ SumOver(Weights', S) \in Int
           /\ (\A s \in S : Weight(s)' <= Weight(s)) => SumOver(Weights', S) <= SumOver(Weights, S)
           /\ \A r \in S :
                (\A s \in S \ {r} : Weight(s)' = Weight(s)) =>
                    SumOver(Weights', S) = SumOver(Weights, S) + (Weight(r)' - Weight(r))
<1>1. IsFiniteSet(S)
    BY Amounts, FS_Subset
<1>2. \A s \in Run : Weights[s] = Weight(s) /\ Weight(s) \in Nat
    BY Amounts
<1>3. \A s \in Run : Weights'[s] = Weight(s)' /\ Weight(s)' \in Nat
    BY DEF TypeOK, Weight, Weights
<1>4. /\ \A s \in S : Weights[s] \in Int
      /\ \A s \in S : Weights'[s] \in Int
      /\ \A s \in S : Weights[s] \in Int /\ Weights'[s] \in Int
    BY <1>2, <1>3
<1>5. SumOver(Weights, S) \in Int /\ SumOver(Weights', S) \in Int
    BY <1>1, <1>4, SumFacts
<1>6. ASSUME \A s \in S : Weight(s)' <= Weight(s)
      PROVE  SumOver(Weights', S) <= SumOver(Weights, S)
    <2>1. \A s \in S : Weights'[s] \in Int /\ Weights[s] \in Int /\ Weights'[s] <= Weights[s]
        BY <1>2, <1>3, <1>6
    <2>2. QED
        BY <1>1, <2>1, SumLeq
<1>7. ASSUME NEW r \in S, \A s \in S \ {r} : Weight(s)' = Weight(s)
      PROVE  SumOver(Weights', S) = SumOver(Weights, S) + (Weight(r)' - Weight(r))
    <2>1. \A s \in S \ {r} : Weights'[s] = Weights[s]
        BY <1>2, <1>3, <1>7
    <2>2. SumOver(Weights', S) = SumOver(Weights, S) + (Weights'[r] - Weights[r])
        BY <1>1, <1>4, <2>1, SumChange
    <2>3. Weights'[r] = Weight(r)' /\ Weights[r] = Weight(r)
        BY <1>2, <1>3
    <2>4. QED
        BY <2>2, <2>3
<1>8. QED
    BY <1>1, <1>5, <1>6, <1>7

\* A set that does not grow heavier fits if it fitted.
LEMMA LighterFits ==
    ASSUME TypeOK, TypeOK', GroupFits, NEW S \in SUBSET Run, Clear(S), LastClaims(S),
           \A s \in S : Weight(s)' <= Weight(s)
    PROVE  SumOver(Weights', S) <= Cap
<1>1. SumOver(Weights, S) <= Cap
    BY DEF GroupFits
<1>2. /\ SumOver(Weights, S) \in Int /\ SumOver(Weights', S) \in Int
      /\ SumOver(Weights', S) <= SumOver(Weights, S)
    BY WeightsAdd
<1>3. Cap \in Int
    BY BudgetGroupAssumption
<1>4. QED
    BY <1>1, <1>2, <1>3

\* So it does with an open top-up.
LEMMA LighterFitsTopUp ==
    ASSUME TypeOK, TypeOK', TopUpFits, NEW S \in SUBSET Run, NEW c \in S, Clear(S),
           \A s \in S : Weight(s)' <= Weight(s),
           topUp'[c] > 0, topUp'[c] = topUp[c]
    PROVE  SumOver(Weights', S) + topUp'[c] <= Cap
<1>1. SumOver(Weights, S) + topUp[c] <= Cap
    BY DEF TopUpFits
<1>2. /\ SumOver(Weights, S) \in Int /\ SumOver(Weights', S) \in Int
      /\ SumOver(Weights', S) <= SumOver(Weights, S)
    BY WeightsAdd
<1>3. Cap \in Int /\ topUp[c] \in Int
    BY BudgetGroupAssumption DEF TypeOK
<1>4. QED
    BY <1>1, <1>2, <1>3

\* A step that lets no set in, and makes none heavier.
Calm ==
    /\ \A S \in SUBSET Run : Clear(S)' => Clear(S) /\ \A s \in S : Weight(s)' <= Weight(s)
    /\ \A S \in SUBSET Run : Clear(S)' /\ LastClaims(S)' => LastClaims(S)
    /\ \A c \in Run : topUp'[c] > 0 => topUp'[c] = topUp[c]

LEMMA CalmStep ==
    ASSUME TypeOK, TypeOK', Sums, Calm
    PROVE  Sums'
<1>1. ASSUME NEW S \in SUBSET Run, Clear(S)', LastClaims(S)'
      PROVE  SumOver(Weights', S) <= Cap
    BY <1>1, LighterFits DEF Calm, Sums
<1>2. ASSUME NEW S \in SUBSET Run, NEW c \in S, Clear(S)', topUp'[c] > 0
      PROVE  SumOver(Weights', S) + topUp'[c] <= Cap
    BY <1>2, LighterFitsTopUp DEF Calm, Sums
<1>3. QED
    BY <1>1, <1>2 DEF Sums, GroupFits, TopUpFits

\* While nobody holds the lock, the runs of a clear set are visible and none is granted more.
LEMMA OthersAreVisible ==
    ASSUME TypeOK, Stages, LockIsHeld, lock = Nobody, NEW S \in SUBSET Run, Clear(S)
    PROVE  S \in SUBSET Visible /\ \A c \in Run : topUp[c] = 0
<1>1. ASSUME NEW s \in Run
      PROVE  /\ Stage(s) /\ (s \in Coding => ~InTransaction(s))
             /\ status[s] \in Status /\ topUp[s] \in Nat
    BY BudgetGroupAssumption DEF Stages, LockIsHeld, TypeOK
<1>2. \A s \in S : s \in Visible
    BY <1>1 DEF Stage, InTransaction, Status, Clear, Visible
<1>3. \A c \in Run : topUp[c] = 0
    BY <1>1 DEF Stage, InTransaction
<1>4. QED
    BY <1>2, <1>3
\* A run that only spends, ends, strays, gives up or gets its row.
LEMMA CalmSteps ==
    ASSUME TypeOK, Stages, NEW r \in Run,
           \/ Spend(r) \/ AbortTopUp(r) \/ FallSilent(r) \/ BeatAgain(r) \/ LowerBudget(r)
           \/ End(r) \/ AbortRun(r) \/ CreateRun(r)
    PROVE  Calm
<1>1. /\ \A s \in Run : Stage(s)
      /\ \A s \in Run : /\ status[s] \in Status /\ budget[s] \in Nat /\ claim[s] \in Nat
                        /\ cost[s] \in Nat /\ topUp[s] \in Nat
    BY DEF Stages, TypeOK
<1>2. ASSUME NEW S \in SUBSET Run, Clear(S)'
      PROVE  /\ Clear(S) /\ \A s \in S : Weight(s)' <= Weight(s)
             /\ LastClaims(S)' => LastClaims(S)
    <2>0. (\A s \in S : s \in Run) /\ (\A s \in S : s \notin strayed' /\ (claim'[s] > 0 \/ status'[s] = "pending"))
          /\ \A P \in overlapped' : P \subseteq S => P \subseteq Coding
        BY <1>2 DEF Clear
    <2>1. CASE Spend(r)
        <3>1. \A s \in S : s \notin strayed /\ (claim[s] > 0 \/ status[s] = "pending")
            BY <1>1, <2>0, <2>1 DEF TypeOK, Stage, Spend, history
        <3>2. \A P \in overlapped : P \subseteq S => P \subseteq Coding
            BY <2>0, <3>1, <2>1 DEF TypeOK, Stage, Spend, history
        <3>3. \A s \in S : Weight(s)' <= Weight(s)
            BY <1>1, <2>0, <2>1 DEF TypeOK, Stage, Spend, history, Weight
        <3>4. LastClaims(S)' => LastClaims(S)
            BY <1>1, <2>0, <2>1 DEF TypeOK, Stage, Spend, history, LastClaims
        <3>5. QED
            BY <3>1, <3>2, <3>3, <3>4 DEF Clear
    <2>2. CASE AbortTopUp(r)
        <3>1. \A s \in S : s \notin strayed /\ (claim[s] > 0 \/ status[s] = "pending")
            BY <1>1, <2>0, <2>2 DEF TypeOK, Stage, AbortTopUp, history
        <3>2. \A P \in overlapped : P \subseteq S => P \subseteq Coding
            BY <2>0, <3>1, <2>2 DEF TypeOK, Stage, AbortTopUp, history
        <3>3. \A s \in S : Weight(s)' <= Weight(s)
            BY <1>1, <2>0, <2>2 DEF TypeOK, Stage, AbortTopUp, history, Weight
        <3>4. LastClaims(S)' => LastClaims(S)
            BY <1>1, <2>0, <2>2 DEF TypeOK, Stage, AbortTopUp, history, LastClaims
        <3>5. QED
            BY <3>1, <3>2, <3>3, <3>4 DEF Clear
    <2>3. CASE FallSilent(r)
        <3>1. \A s \in S : s \notin strayed /\ (claim[s] > 0 \/ status[s] = "pending")
            BY <1>1, <2>0, <2>3 DEF TypeOK, Stage, FallSilent, history
        <3>2. \A P \in overlapped : P \subseteq S => P \subseteq Coding
            BY <2>0, <3>1, <2>3 DEF TypeOK, Stage, FallSilent, history
        <3>3. \A s \in S : Weight(s)' <= Weight(s)
            BY <1>1, <2>0, <2>3 DEF TypeOK, Stage, FallSilent, history, Weight
        <3>4. LastClaims(S)' => LastClaims(S)
            BY <1>1, <2>0, <2>3 DEF TypeOK, Stage, FallSilent, history, LastClaims
        <3>5. QED
            BY <3>1, <3>2, <3>3, <3>4 DEF Clear
    <2>4. CASE BeatAgain(r)
        <3>1. \A s \in S : s \notin strayed /\ (claim[s] > 0 \/ status[s] = "pending")
            BY <1>1, <2>0, <2>4 DEF TypeOK, Stage, BeatAgain, history
        <3>2. \A P \in overlapped : P \subseteq S => P \subseteq Coding
            BY <2>0, <3>1, <2>4 DEF TypeOK, Stage, BeatAgain, history
        <3>3. \A s \in S : Weight(s)' <= Weight(s)
            BY <1>1, <2>0, <2>4 DEF TypeOK, Stage, BeatAgain, history, Weight
        <3>4. LastClaims(S)' => LastClaims(S)
            BY <1>1, <2>0, <2>4 DEF TypeOK, Stage, BeatAgain, history, LastClaims
        <3>5. QED
            BY <3>1, <3>2, <3>3, <3>4 DEF Clear
    <2>5. CASE LowerBudget(r)
        <3>1. \A s \in S : s \notin strayed /\ (claim[s] > 0 \/ status[s] = "pending")
            BY <1>1, <2>0, <2>5 DEF TypeOK, Stage, LowerBudget, history
        <3>2. \A P \in overlapped : P \subseteq S => P \subseteq Coding
            BY <2>0, <3>1, <2>5 DEF TypeOK, Stage, LowerBudget, history
        <3>3. \A s \in S : Weight(s)' <= Weight(s)
            BY <1>1, <2>0, <2>5 DEF TypeOK, Stage, LowerBudget, history, Weight
        <3>4. LastClaims(S)' => LastClaims(S)
            BY <1>1, <2>0, <2>5 DEF TypeOK, Stage, LowerBudget, history, LastClaims
        <3>5. QED
            BY <3>1, <3>2, <3>3, <3>4 DEF Clear
    <2>6. CASE End(r)
        <3>1. \A s \in S : s \notin strayed /\ (claim[s] > 0 \/ status[s] = "pending")
            BY <1>1, <2>0, <2>6 DEF TypeOK, Stage, End, history
        <3>2. \A P \in overlapped : P \subseteq S => P \subseteq Coding
            BY <2>0, <3>1, <2>6 DEF TypeOK, Stage, End, history
        <3>3. \A s \in S : Weight(s)' <= Weight(s)
            BY <1>1, <2>0, <2>6 DEF TypeOK, Stage, End, history, Weight
        <3>4. LastClaims(S)' => LastClaims(S)
            BY <1>1, <2>0, <2>6 DEF TypeOK, Stage, End, history, LastClaims
        <3>5. QED
            BY <3>1, <3>2, <3>3, <3>4 DEF Clear
    <2>7. CASE AbortRun(r)
        <3>1. \A s \in S : s \notin strayed /\ (claim[s] > 0 \/ status[s] = "pending")
            BY <1>1, <2>0, <2>7 DEF TypeOK, Stage, AbortRun, history
        <3>2. \A P \in overlapped : P \subseteq S => P \subseteq Coding
            BY <2>0, <3>1, <2>7 DEF TypeOK, Stage, AbortRun, history
        <3>3. \A s \in S : Weight(s)' <= Weight(s)
            BY <1>1, <2>0, <2>7 DEF TypeOK, Stage, AbortRun, history, Weight
        <3>4. LastClaims(S)' => LastClaims(S)
            BY <1>1, <2>0, <2>7 DEF TypeOK, Stage, AbortRun, history, LastClaims
        <3>5. QED
            BY <3>1, <3>2, <3>3, <3>4 DEF Clear
    <2>8. CASE CreateRun(r)
        <3>1. \A s \in S : s \notin strayed /\ (claim[s] > 0 \/ status[s] = "pending")
            BY <1>1, <2>0, <2>8 DEF TypeOK, Stage, CreateRun, history
        <3>2. \A P \in overlapped : P \subseteq S => P \subseteq Coding
            BY <2>0, <3>1, <2>8 DEF TypeOK, Stage, CreateRun, history, NowOverlapping, Created
        <3>3. \A s \in S : Weight(s)' <= Weight(s)
            BY <1>1, <2>0, <2>8 DEF TypeOK, Stage, CreateRun, history, Weight
        <3>4. LastClaims(S)' => LastClaims(S)
            BY <1>1, <2>0, <2>8 DEF TypeOK, Stage, CreateRun, history, LastClaims, NowOverlapping, Created
        <3>5. QED
            BY <3>1, <3>2, <3>3, <3>4 DEF Clear
    <2>9. QED
        BY <2>1, <2>2, <2>3, <2>4, <2>5, <2>6, <2>7, <2>8
<1>3. \A c \in Run : topUp'[c] > 0 => topUp'[c] = topUp[c]
    BY DEF TypeOK, Spend, AbortTopUp, FallSilent, BeatAgain, LowerBudget, End, AbortRun, CreateRun
<1>4. QED
    BY <1>2, <1>3 DEF Calm

\* A coding run claims what everyone in sight leaves.
LEMMA ReserveFits ==
    ASSUME TypeOK, TypeOK', Places, Sums, NEW r \in Run, Reserve(r)
    PROVE  Sums'
<1>1. /\ lock = Nobody /\ r \in Coding
      /\ status[r] = "new" /\ status'[r] = "reserving"
      /\ \A s \in Run \ {r} : status'[s] = status[s] /\ claim'[s] = claim[s]
      /\ claim'[r] = AtMost(budget[r], Remaining(Run))
      /\ budget' = budget /\ cost' = cost /\ topUp' = topUp /\ earlier' = earlier /\ strayed' = strayed
      /\ overlapped \subseteq overlapped'
    BY DEF Reserve, TakeGroupLock, NowOverlapping, TypeOK
<1>2. \A s \in Run \ {r} : Weight(s)' = Weight(s)
    BY <1>1 DEF Weight
<1>3. ASSUME NEW S \in SUBSET Run, Clear(S)'
      PROVE  /\ Clear(S \ {r})
             /\ S \ {r} \in SUBSET Visible /\ \A c \in Run : topUp[c] = 0
    <2>1. Clear(S \ {r})
        BY <1>1, <1>3 DEF Clear
    <2>2. S \ {r} \in SUBSET Run
        OBVIOUS
    <2>3. QED
        BY <1>1, <2>1, <2>2, OthersAreVisible DEF Places
<1>4. ASSUME NEW S \in SUBSET Run, Clear(S)', LastClaims(S)', r \notin S
      PROVE  SumOver(Weights', S) <= Cap
    <2>1. S \ {r} = S
        BY <1>4
    <2>2. Clear(S)
        BY <1>3, <1>4, <2>1
    <2>3. LastClaims(S)
        BY <1>1, <1>4 DEF LastClaims
    <2>4. \A s \in S : Weight(s)' <= Weight(s)
        BY <1>2, <1>4, Amounts
    <2>5. QED
        BY <2>2, <2>3, <2>4, LighterFits DEF Sums
<1>5. ASSUME NEW S \in SUBSET Run, Clear(S)', r \in S
      PROVE  SumOver(Weights', S) <= Cap
    <2> DEFINE R == S \ {r}
               x == claim'[r]
    <2>1. R \in SUBSET Visible /\ R \in SUBSET Run /\ \A s \in R : s \notin strayed /\ s \in Run
        BY <1>3, <1>5 DEF Clear
    <2>2. x \in Nat /\ x > 0 /\ x <= Remaining(Run)
        <3>1. claim'[r] > 0
            BY <1>1, <1>5 DEF Clear
        <3>2. QED
            BY <1>1, <3>1, Grants
    <2>3. SumOver(Weights, R) + x <= Cap
        <3> HIDE DEF R, x
        <3>1. \A s \in R : s \notin strayed /\ (status[s] \in {"pending", "live"} => s \in Run)
            BY <2>1
        <3>2. QED
            BY <2>1, <2>2, <3>1, CountedFits DEF Places
    <2>4. SumOver(Weights', S) = x + SumOver(Weights', R)
        <3>1. \A q \in S : Weights'[q] \in Int
            BY DEF TypeOK, Weights, Weight
        <3>2. IsFiniteSet(S) /\ Weights'[r] = x
            BY <1>1, WeightsAdd DEF Weights, Weight
        <3>3. SumOver(Weights', S) = Weights'[r] + SumOver(Weights', R)
            BY <1>5, <3>1, <3>2, SumRemove
        <3>4. QED
            BY <3>2, <3>3
    <2>5. \A s \in R : Weight(s)' <= Weight(s)
        BY <1>2, Amounts
    <2>6. SumOver(Weights', R) <= SumOver(Weights, R)
          /\ SumOver(Weights', R) \in Int /\ SumOver(Weights, R) \in Int
        <3> HIDE DEF R, x
        <3>1. QED
            BY <2>1, <2>5, WeightsAdd
    <2>7. Cap \in Int
        BY BudgetGroupAssumption
    <2> HIDE DEF R, x
    <2>8. QED
        BY <2>2, <2>3, <2>4, <2>6, <2>7
<1>6. ASSUME NEW S \in SUBSET Run, NEW c \in S, Clear(S)'
      PROVE  ~(topUp'[c] > 0)
    <2>1. c \in Run /\ topUp[c] = 0
        BY <1>3, <1>6
    <2>2. QED
        BY <1>1, <2>1
<1>7. QED
    BY <1>4, <1>5, <1>6 DEF Sums, GroupFits, TopUpFits

\* A native run that gets visible now overlapped whoever could claim without counting it.
LEMMA CommitFits ==
    ASSUME TypeOK, TypeOK', Places, Sums, NEW r \in Run, CommitRun(r)
    PROVE  Sums'
<1>1. /\ status[r] = "writing"
      /\ \A s \in Run \ {r} : status'[s] = status[s]
      /\ status'[r] = IF r \notin Coding THEN "pending" ELSE IF claim[r] = 0 THEN "ended" ELSE "live"
      /\ claim' = claim /\ budget' = budget /\ cost' = cost /\ topUp' = topUp /\ earlier' = earlier
      /\ strayed' = strayed /\ overlapped' = overlapped
    BY DEF CommitRun, TypeOK, history
<1>2. \A s \in Run : Stage(s)
    BY DEF Places, Stages
<1>3. CASE r \in Coding
    <2>1. ASSUME NEW S \in SUBSET Run, Clear(S)'
          PROVE  Clear(S) /\ \A s \in S : Weight(s)' <= Weight(s)
        <3>1. Clear(S)
            BY <1>1, <1>3, <2>1 DEF Clear
        <3>2. \A s \in S : Weight(s)' <= Weight(s)
            BY <1>1, <1>2, <1>3, <2>1 DEF Clear, Weight, Stage, TypeOK
        <3>3. QED
            BY <3>1, <3>2
    <2>2. \A S \in SUBSET Run : LastClaims(S)' => LastClaims(S)
        BY <1>1, <1>3 DEF LastClaims
    <2>3. Calm
        BY <1>1, <2>1, <2>2 DEF Calm
    <2>4. QED
        BY <2>3, CalmStep
<1>4. CASE r \notin Coding
    <2>0. status'[r] = "pending"
        BY <1>1, <1>4
    <2>1. ASSUME NEW S \in SUBSET Run, Clear(S)', r \notin S
          PROVE  Clear(S) /\ (LastClaims(S)' => LastClaims(S)) /\ \A s \in S : Weight(s)' <= Weight(s)
        <3>1. \A s \in S : s \in Run \ {r}
            BY <2>1
        <3>2. Clear(S)
            BY <1>1, <2>1, <3>1 DEF Clear
        <3>3. LastClaims(S)' => LastClaims(S)
            BY <1>1, <3>1 DEF LastClaims
        <3>4. \A s \in S : Weight(s)' = Weight(s)
            BY <1>1, <3>1 DEF Weight
        <3>5. QED
            BY <3>1, <3>2, <3>3, <3>4, Amounts
    <2>2. ASSUME NEW S \in SUBSET Run, Clear(S)', r \in S, NEW z \in S, z # r,
                 {r, z} \in overlapped
          PROVE  FALSE
        BY <1>1, <1>4, <2>2 DEF Clear
    <2>3. InTransaction(r)
        BY <1>1 DEF InTransaction
    <2>4. ASSUME NEW S \in SUBSET Run, Clear(S)', r \in S, LastClaims(S)'
          PROVE  FALSE
        <3>1. PICK z \in S : claim[z] > 0 /\ (r \in earlier[z] \/ status'[z] = "reserving")
            BY <1>1, <2>0, <2>4 DEF LastClaims
        <3>2. z # r /\ z \in Run
            BY <1>1, <1>2, <1>4, <3>1 DEF Stage, TypeOK
        <3>3. r \in earlier[z] \/ InTransaction(z)
            BY <1>1, <3>1, <3>2 DEF InTransaction
        <3>4. {r, z} \in overlapped
            BY <1>1, <2>3, <3>2, <3>3 DEF Places, OverlapsAreKnown
        <3>5. QED
            BY <2>2, <2>4, <3>2, <3>4
    <2>5. ASSUME NEW S \in SUBSET Run, Clear(S)', r \in S, NEW c \in S, topUp'[c] > 0
          PROVE  FALSE
        <3>1. c \in Run /\ topUp[c] > 0 /\ c \in Coding /\ InTransaction(c)
            BY <1>1, <1>2, <2>5 DEF Stage, InTransaction
        <3>2. {r, c} \in overlapped
            BY <1>4, <2>3, <3>1 DEF Places, OverlapsAreKnown
        <3>3. QED
            BY <1>4, <2>2, <2>5, <3>1, <3>2
    <2>6. ASSUME NEW S \in SUBSET Run, Clear(S)', LastClaims(S)'
          PROVE  SumOver(Weights', S) <= Cap
        BY <2>1, <2>4, <2>6, LighterFits DEF Sums
    <2>7. ASSUME NEW S \in SUBSET Run, NEW c \in S, Clear(S)', topUp'[c] > 0
          PROVE  SumOver(Weights', S) + topUp'[c] <= Cap
        BY <1>1, <2>1, <2>5, <2>7, LighterFitsTopUp DEF Sums
    <2>8. QED
        BY <2>6, <2>7 DEF Sums, GroupFits, TopUpFits
<1>5. QED
    BY <1>3, <1>4

\* A native run that is loaded either was counted, with its budget, by a later claim, or
\* counts everyone.
LEMMA LoadFits ==
    ASSUME TypeOK, TypeOK', Places, Sums, NEW r \in Run, Load(r)
    PROVE  Sums'
<1> DEFINE H == {s \in Run : IsOrderedBefore(s, r)}
           x == claim'[r]
<1>1. /\ status[r] = "pending"
      /\ status'[r] = IF x = 0 THEN "ended" ELSE "live"
      /\ \A s \in Run \ {r} : status'[s] = status[s] /\ claim'[s] = claim[s]
      /\ x = AtMost(budget[r], Remaining(H))
      /\ budget' = budget /\ cost' = cost /\ topUp' = topUp /\ earlier' = earlier
      /\ strayed' = strayed /\ overlapped' = overlapped
    BY DEF Load, TypeOK, history
<1>2. \A s \in Run : Stage(s) /\ status[s] \in Status /\ claim[s] \in Nat
    BY DEF Places, Stages, TypeOK
<1>3. x \in Nat /\ x <= budget[r] /\ x <= Remaining(H) /\ budget[r] \in Nat
    BY <1>1, Grants DEF TypeOK
<1>4. H \in SUBSET Run /\ \A s \in Run : s \in earlier[r] => s \in H
    BY DEF IsOrderedBefore
<1> HIDE DEF H, x
<1>5. \A s \in Run : (s # r => Weight(s)' = Weight(s)) /\ Weight(s)' <= Weight(s)
    <2>1. \A s \in Run : s # r => Weight(s)' = Weight(s)
        BY <1>1 DEF Weight
    <2>2. Weight(r) = budget[r] /\ Weight(r)' \in {x, cost[r]} /\ (x = 0 => Weight(r)' = cost[r])
        BY <1>1 DEF Weight, x
    <2>3. Weight(r)' <= Weight(r)
        <3>1. cost[r] = 0
            BY <1>1, <1>2 DEF Stage, TypeOK
        <3>2. QED
            BY <1>3, <2>2, <3>1
    <2>4. QED
        BY <2>1, <2>3, Amounts
<1>6. ASSUME NEW S \in SUBSET Run, Clear(S)'
      PROVE  Clear(S) /\ (r \in S => x > 0)
    <2>1. Clear(S)
        BY <1>1, <1>6 DEF Clear
    <2>2. r \in S => x > 0
        BY <1>1, <1>6 DEF Clear, x
    <2>3. QED
        BY <2>1, <2>2
<1>7. ASSUME NEW S \in SUBSET Run, Clear(S)', LastClaims(S)', ~LastClaims(S)
      PROVE  SumOver(Weights', S) <= Cap
    <2>0. /\ S \subseteq Run /\ Clear(S)
          /\ \A s \in S : s \notin strayed /\ (claim[s] > 0 \/ status[s] = "pending")
        BY <1>6, <1>7 DEF Clear
    <2>1. r \in S /\ x > 0
        <3>1. r \notin S => LastClaims(S)
            BY <1>1, <1>7 DEF LastClaims
        <3>2. QED
            BY <1>6, <1>7, <3>1
    <2>2. ASSUME NEW s \in S, claim[s] > 0
          PROVE  /\ s # r /\ status[s] \in {"live", "ended"}
                 /\ \E p \in S : status[p] = "pending" /\ s \in earlier[p]
        <3>1. PICK p \in S : status[p] = "pending" /\ p \notin earlier[s] /\ status[s] # "reserving"
            BY <1>7, <2>2 DEF LastClaims
        <3>2. s \in Run /\ p \in Run /\ status[s] \notin {"new", "pending"}
            BY <1>2, <2>0, <2>2 DEF Stage
        <3>3. s \in Created /\ p \in Created /\ s # p
            BY <1>2, <3>1, <3>2 DEF Created, Status
        <3>4. s \in earlier[p]
            BY <3>1, <3>3 DEF Places, Ordered
        <3>5. status[s] # "writing"
            <4>1. SUFFICES ASSUME status[s] = "writing" PROVE FALSE
                OBVIOUS
            <4>2. InTransaction(s)
                BY <4>1 DEF InTransaction
            <4>3. {s, p} \in overlapped
                BY <3>2, <3>3, <3>4, <4>1, <4>2 DEF Places, OverlapsAreKnown
            <4>4. p \in Coding
                BY <2>0, <2>2, <3>1, <4>3 DEF Clear
            <4>5. QED
                BY <1>2, <3>1, <3>2, <4>4 DEF Stage
        <3>6. QED
            BY <1>1, <1>2, <3>1, <3>2, <3>4, <3>5 DEF Status
    <2>3. \A p \in S : status[p] = "pending" /\ p # r => p \in earlier[r]
        <3>1. PICK z \in S : /\ claim'[z] > 0
                             /\ \A s \in S : status'[s] = "pending" => s \in earlier[z] \/ status'[z] = "reserving"
            BY <1>1, <1>7 DEF LastClaims
        <3>2. CASE z = r
            BY <1>1, <2>0, <3>1, <3>2
        <3>3. CASE z # r
            <4>1. claim[z] > 0 /\ z \in Run /\ status'[z] = status[z]
                BY <1>1, <2>0, <3>1, <3>3
            <4>2. /\ status[z] # "reserving"
                  /\ \A p \in S : status[p] = "pending" /\ p # r => p \in earlier[z]
                BY <1>1, <2>0, <2>2, <3>1, <4>1
            <4>3. PICK p \in S : status[p] = "pending" /\ z \in earlier[p]
                BY <2>2, <4>1
            <4>4. p = r
                <5>1. p # r => p \in earlier[z]
                    BY <4>2, <4>3
                <5>2. ~(p \in earlier[z] /\ z \in earlier[p])
                    BY <2>0, <4>1 DEF Places, Ordered
                <5>3. QED
                    BY <4>3, <5>1, <5>2
            <4>5. QED
                BY <2>0, <4>1, <4>2, <4>3, <4>4 DEF Places, Ordered
        <3>4. QED
            BY <3>2, <3>3
    <2>4. ASSUME NEW s \in S, s # r
          PROVE  s \in Visible /\ s \in H /\ s \notin strayed
        <3>1. CASE status[s] = "pending"
            BY <1>4, <2>0, <2>3, <2>4, <3>1 DEF Visible
        <3>2. CASE status[s] # "pending"
            <4>1. claim[s] > 0
                BY <2>0, <3>2
            <4>2. status[s] \in {"live", "ended"}
                BY <2>2, <4>1
            <4>3. PICK p \in S : status[p] = "pending" /\ s \in earlier[p]
                BY <2>2, <4>1
            <4>4. s \in earlier[r]
                BY <2>0, <2>3, <4>3 DEF Places, Ordered
            <4>5. QED
                BY <1>4, <2>0, <4>2, <4>4 DEF Visible
        <3>3. QED
            BY <3>1, <3>2
    <2> DEFINE R == S \ {r}
    <2>5. SumOver(Weights, R) + x <= Cap
        <3>1. R \in SUBSET Visible /\ \A s \in R : s \notin strayed /\ (status[s] \in {"pending", "live"} => s \in H)
            BY <2>4
        <3> HIDE DEF R
        <3>2. QED
            BY <1>3, <2>1, <3>1, CountedFits DEF Places
    <2>6. SumOver(Weights', S) = x + SumOver(Weights', R)
        <3>1. \A q \in S : Weights'[q] \in Int
            BY DEF TypeOK, Weights, Weight
        <3>2. IsFiniteSet(S) /\ Weights'[r] = x
            <4>1. status'[r] = "live"
                BY <1>1, <2>1
            <4>2. Weights'[r] = x
                BY <4>1 DEF Weights, Weight, x
            <4>3. QED
                BY <4>2, WeightsAdd
        <3>3. SumOver(Weights', S) = Weights'[r] + SumOver(Weights', R)
            BY <2>1, <3>1, <3>2, SumRemove
        <3>4. QED
            BY <3>2, <3>3
    <2>7. R \in SUBSET Run /\ \A s \in R : Weight(s)' <= Weight(s)
        BY <1>5
    <2> HIDE DEF R
    <2>8. /\ SumOver(Weights', R) <= SumOver(Weights, R)
          /\ SumOver(Weights', R) \in Int /\ SumOver(Weights, R) \in Int
        BY <2>7, WeightsAdd
    <2>9. Cap \in Int
        BY BudgetGroupAssumption
    <2>10. QED
        BY <1>3, <2>5, <2>6, <2>8, <2>9
<1>8. ASSUME NEW S \in SUBSET Run, Clear(S)', LastClaims(S)'
      PROVE  SumOver(Weights', S) <= Cap
    <2>1. \A s \in S : Weight(s)' <= Weight(s)
        BY <1>5
    <2>2. QED
        BY <1>6, <1>7, <1>8, <2>1, LighterFits DEF Sums
<1>9. ASSUME NEW S \in SUBSET Run, NEW c \in S, Clear(S)', topUp'[c] > 0
      PROVE  SumOver(Weights', S) + topUp'[c] <= Cap
    <2>1. (\A s \in S : Weight(s)' <= Weight(s)) /\ topUp'[c] = topUp[c]
        BY <1>1, <1>5
    <2>2. QED
        BY <1>6, <1>9, <2>1, LighterFitsTopUp DEF Sums
<1>10. QED
    BY <1>8, <1>9 DEF Sums, GroupFits, TopUpFits

\* A top-up is granted from what everyone in sight leaves.
LEMMA BeginTopUpFits ==
    ASSUME TypeOK, TypeOK', Places, Sums, NEW r \in Run, BeginTopUp(r)
    PROVE  Sums'
<1>1. /\ lock = Nobody
      /\ topUp'[r] <= Remaining(Run)
      /\ \A c \in Run \ {r} : topUp'[c] = topUp[c]
      /\ UNCHANGED <<status, earlier, budget, claim, cost, strayed>>
      /\ overlapped \subseteq overlapped'
    BY TopUpGrants DEF BeginTopUp, TakeGroupLock, NowOverlapping, TypeOK
<1>2. \A s \in Run : Weight(s)' = Weight(s)
    BY <1>1 DEF Weight
<1>3. ASSUME NEW S \in SUBSET Run, Clear(S)'
      PROVE  /\ Clear(S) /\ \A s \in S : Weight(s)' <= Weight(s)
             /\ LastClaims(S)' => LastClaims(S)
             /\ S \in SUBSET Visible /\ \A c \in Run : topUp[c] = 0
    <2>1. Clear(S) /\ (LastClaims(S)' => LastClaims(S))
        BY <1>1, <1>3 DEF Clear, LastClaims
    <2>2. \A s \in S : Weight(s)' <= Weight(s)
        BY <1>2, Amounts
    <2>3. S \in SUBSET Visible /\ \A c \in Run : topUp[c] = 0
        BY <1>1, <2>1, OthersAreVisible DEF Places
    <2>4. QED
        BY <2>1, <2>2, <2>3
<1>4. ASSUME NEW S \in SUBSET Run, Clear(S)', LastClaims(S)'
      PROVE  SumOver(Weights', S) <= Cap
    BY <1>3, <1>4, LighterFits DEF Sums
<1>5. ASSUME NEW S \in SUBSET Run, NEW c \in S, Clear(S)', topUp'[c] > 0
      PROVE  SumOver(Weights', S) + topUp'[c] <= Cap
    <2>1. c = r
        <3>1. c \in Run /\ topUp[c] = 0
            BY <1>3, <1>5
        <3>2. QED
            BY <1>1, <1>5, <3>1
    <2>2. topUp'[r] \in Nat /\ topUp'[r] > 0
        BY <1>5, <2>1 DEF TypeOK
    <2>3. \A s \in S : s \notin strayed /\ (status[s] \in {"pending", "live"} => s \in Run)
        BY <1>3, <1>5 DEF Clear
    <2>4. S \in SUBSET Visible
        BY <1>3, <1>5
    <2>5. SumOver(Weights, S) + topUp'[r] <= Cap
        BY <1>1, <2>2, <2>3, <2>4, CountedFits DEF Places
    <2>6. /\ SumOver(Weights', S) <= SumOver(Weights, S)
          /\ SumOver(Weights', S) \in Int /\ SumOver(Weights, S) \in Int
        BY <1>3, <1>5, WeightsAdd
    <2>7. Cap \in Int
        BY BudgetGroupAssumption
    <2>8. QED
        BY <2>1, <2>2, <2>5, <2>6, <2>7
<1>6. QED
    BY <1>4, <1>5 DEF Sums, GroupFits, TopUpFits

\* A top-up that commits adds what it was about to add.
LEMMA CommitTopUpFits ==
    ASSUME TypeOK, TypeOK', Places, Sums, NEW r \in Run, CommitTopUp(r)
    PROVE  Sums'
<1>1. /\ topUp[r] > 0 /\ topUp'[r] = 0
      /\ claim'[r] = claim[r] + topUp[r]
      /\ \A c \in Run \ {r} : topUp'[c] = topUp[c] /\ claim'[c] = claim[c]
      /\ UNCHANGED <<status, earlier, budget, cost, strayed, overlapped>>
    BY DEF CommitTopUp, TypeOK, history
<1>2. /\ \A s \in Run : Stage(s)
      /\ r \in Coding /\ lock = r /\ claim[r] > 0 /\ status[r] \in {"live", "ended"}
    BY <1>1 DEF Places, Stages, Stage, LockIsHeld, InTransaction
<1>3. /\ \A s \in Run \ {r} : Weight(s)' = Weight(s)
      /\ Weight(r)' <= Weight(r) + topUp[r]
      /\ Weight(r)' \in Nat /\ Weight(r) \in Nat /\ topUp[r] \in Nat
    <2>1. \A s \in Run \ {r} : Weight(s)' = Weight(s)
        BY <1>1 DEF Weight
    <2>2. /\ claim[r] \in Nat /\ cost[r] \in Nat /\ topUp[r] \in Nat
          /\ Weight(r) = (IF status[r] = "ended" THEN cost[r] ELSE claim[r])
          /\ Weight(r)' = (IF status[r] = "ended" THEN cost[r] ELSE claim[r] + topUp[r])
        BY <1>1, <1>2 DEF Weight, TypeOK
    <2>3. QED
        BY <2>1, <2>2
<1>4. ASSUME NEW S \in SUBSET Run, Clear(S)', LastClaims(S)'
      PROVE  Clear(S) /\ LastClaims(S)
    <2>1. \A s \in S : claim'[s] > 0 => claim[s] > 0
        BY <1>1, <1>2
    <2>2. QED
        BY <1>1, <1>4, <2>1 DEF Clear, LastClaims
<1>5. ASSUME NEW S \in SUBSET Run, Clear(S)', LastClaims(S)'
      PROVE  SumOver(Weights', S) <= Cap
    <2>1. CASE r \notin S
        <3>1. \A s \in S : Weight(s)' <= Weight(s)
            BY <1>3, <2>1, Amounts
        <3>2. QED
            BY <1>4, <1>5, <3>1, LighterFits DEF Sums
    <2>2. CASE r \in S
        <3>1. SumOver(Weights, S) + topUp[r] <= Cap
            BY <1>1, <1>4, <1>5, <2>2 DEF Sums, TopUpFits
        <3>2. \A s \in S \ {r} : Weight(s)' = Weight(s)
            BY <1>3
        <3>3. SumOver(Weights', S) = SumOver(Weights, S) + (Weight(r)' - Weight(r))
            BY <2>2, <3>2, WeightsAdd
        <3>4. SumOver(Weights, S) \in Int /\ SumOver(Weights', S) \in Int /\ Cap \in Int
            BY WeightsAdd, BudgetGroupAssumption
        <3>5. QED
            BY <1>3, <3>1, <3>3, <3>4
    <2>3. QED
        BY <2>1, <2>2
<1>6. ASSUME NEW c \in Run, topUp'[c] > 0
      PROVE  FALSE
    <2>1. c # r /\ topUp[c] > 0
        BY <1>1, <1>6
    <2>2. lock = c
        BY <1>2, <2>1 DEF Places, Stage, LockIsHeld, InTransaction
    <2>3. QED
        BY <1>2, <2>1, <2>2
<1>7. QED
    BY <1>5, <1>6 DEF Sums, GroupFits, TopUpFits

LEMMA SumsHold == Init => Sums
<1>1. ASSUME Init, NEW S \in SUBSET Run, Clear(S)
      PROVE  S = {}
    BY <1>1 DEF Init, Clear
<1>2. \A S \in SUBSET Run : LastClaims(S) => S # {}
    BY DEF LastClaims
<1>3. QED
    BY <1>1, <1>2 DEF Sums, GroupFits, TopUpFits

LEMMA SumsStep ==
    ASSUME TypeOK, TypeOK', Places, Sums, NEW r \in Run,
           \/ Reserve(r) \/ CreateRun(r) \/ CommitRun(r) \/ AbortRun(r) \/ Load(r)
           \/ Spend(r) \/ BeginTopUp(r) \/ CommitTopUp(r) \/ AbortTopUp(r) \/ End(r)
           \/ FallSilent(r) \/ BeatAgain(r) \/ LowerBudget(r)
    PROVE  Sums'
<1>1. CASE \/ Spend(r) \/ AbortTopUp(r) \/ FallSilent(r) \/ BeatAgain(r) \/ LowerBudget(r)
           \/ End(r) \/ AbortRun(r) \/ CreateRun(r)
    BY <1>1, CalmSteps, CalmStep DEF Places
<1>2. QED
    BY <1>1, ReserveFits, CommitFits, LoadFits, BeginTopUpFits, CommitTopUpFits

-----------------------------------------------------------------------------
(* The cap. *)

LEMMA GroupInvariance == Spec => [](TypeOK /\ Places /\ Sums)
<1>1. Init => TypeOK /\ Places /\ Sums
    BY TypeHolds, PlacesHold, SumsHold
<1>2. TypeOK /\ Places /\ Sums /\ [Next]_vars => (TypeOK /\ Places /\ Sums)'
    <2> SUFFICES ASSUME TypeOK, Places, Sums, [Next]_vars
                 PROVE  TypeOK' /\ Places' /\ Sums'
        OBVIOUS
    <2>1. TypeOK'
        BY TypeStep
    <2>2. ASSUME NEW r \in Run,
                 \/ Reserve(r) \/ CreateRun(r) \/ CommitRun(r) \/ AbortRun(r) \/ Load(r)
                 \/ Spend(r) \/ BeginTopUp(r) \/ CommitTopUp(r) \/ AbortTopUp(r) \/ End(r)
                 \/ FallSilent(r) \/ BeatAgain(r) \/ LowerBudget(r)
          PROVE  Places' /\ Sums'
        BY <2>1, <2>2, PlacesStep, SumsStep
    <2>3. CASE UNCHANGED vars
        <3>1. /\ UNCHANGED <<status, earlier, budget, claim, cost, silent, lock, topUp>>
              /\ UNCHANGED <<overlapped, strayed>>
            BY <2>3 DEF vars, history
        <3>2. Stages' /\ LockIsHeld'
            BY <3>1 DEF Places, Stages, Stage, LockIsHeld, InTransaction
        <3>3. Ordered' /\ OverlapsAreKnown'
            BY <3>1 DEF Places, Ordered, Created, OverlapsAreKnown, InTransaction
        <3>4. Calm
            <4>1. \A s \in Run : Weight(s)' <= Weight(s)
                BY <3>1, Amounts DEF Weight
            <4>2. QED
                BY <3>1, <4>1 DEF Calm, Clear, LastClaims
        <3>5. QED
            BY <2>1, <3>2, <3>3, <3>4, CalmStep DEF Places
    <2>4. QED
        BY <2>1, <2>2, <2>3 DEF Next, Finished
<1>3. QED
    BY <1>1, <1>2, PTL DEF Spec

LEMMA ClaimsFit ==
    ASSUME TypeOK, Places, Sums
    PROVE  CapHolds
<1> SUFFICES ASSUME NEW S \in SUBSET {r \in Run \ strayed : claim[r] > 0},
                    \A P \in overlapped : P \subseteq S => P \subseteq Coding
             PROVE  Total([r \in Run |-> Committed(r)], S) <= Cap
    BY DEF CapHolds
<1> DEFINE committed == [r \in Run |-> Committed(r)]
<1>1. /\ \A s \in S : s \in Run /\ s \notin strayed /\ claim[s] > 0
      /\ \A s \in S : Stage(s) /\ claim[s] \in Nat /\ cost[s] \in Nat
    BY DEF Places, Stages, TypeOK
<1>2. S \in SUBSET Run /\ IsFiniteSet(S)
    BY <1>1, Amounts, FS_Subset
<1>3. \A s \in S : status[s] # "pending"
    BY <1>1 DEF Stage
<1>4. \A s \in S : committed[s] \in Int /\ Weights[s] \in Int /\ committed[s] <= Weights[s]
    BY <1>1, <1>3 DEF Stage, Committed, Weights, Weight
<1> HIDE DEF committed
<1>5. SumOver(committed, S) <= SumOver(Weights, S) /\ SumOver(committed, S) \in Int
      /\ SumOver(Weights, S) \in Int /\ Cap \in Nat
    <2>1. (\A s \in S : committed[s] \in Int) /\ (\A s \in S : Weights[s] \in Int)
        BY <1>4
    <2>2. QED
        BY <1>2, <1>4, <2>1, SumLeq, SumFacts, Amounts
<1>6. SumOver(Weights, S) <= Cap
    <2>1. Clear(S)
        BY <1>1 DEF Clear
    <2>2. CASE S = {}
        <3>1. SumOver(Weights, S) = 0
            <4>1. \A s \in S : Weights[s] \in Int
                BY <1>4
            <4>2. QED
                BY <1>2, <2>2, <4>1, SumFacts
        <3>2. QED
            BY <1>5, <3>1
    <2>3. CASE S # {}
        <3>1. LastClaims(S)
            BY <1>1, <1>3, <2>3 DEF LastClaims
        <3>2. QED
            BY <1>2, <2>1, <3>1 DEF Sums, GroupFits
    <2>4. QED
        BY <2>2, <2>3
<1>7. SumOver(committed, S) <= Cap
    BY <1>5, <1>6
<1>8. QED
    BY <1>7, TotalIsSum DEF committed

\* The cap is hard, whatever the runs, their budgets and their order: runs that neither
\* fell silent nor had their budget cut, and no native one of which overlapped another of
\* them, have not spent more than the cap and may not.
THEOREM CapIsHard == Spec => []CapHolds
BY GroupInvariance, ClaimsFit, PTL
===============================================================================
