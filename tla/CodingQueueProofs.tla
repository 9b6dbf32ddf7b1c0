-------------------------- MODULE CodingQueueProofs --------------------------
(***************************************************************************)
(* No claim goes over CODING_MAX_CONCURRENT or overtakes, for any set of   *)
(* runs and any number of slots.  The argument: only a claim adds a run to *)
(* the ones that hold a slot, it does so under the slot lock, and what it  *)
(* counted under that lock is still an upper bound when it writes: a run   *)
(* that leaves a slot may join those who wait, but no other run gets ahead *)
(* of a stamp that is past.                                                *)
(***************************************************************************)
EXTENDS CodingQueue, FiniteSetTheorems, TLAPS

USE DEF CallState

\* The runs that hold a slot they claimed.
Claimed == Holding \ revived

\* A claim's transaction holds the lock from its count to its write.
ClaimsHoldTheLock ==
    \A r \in Run : call[r] \in {"counting", "full", "free"} => slotLock = r

\* What the lock's holder counted is still a bound.
CountIsBound == slotLock # NoRun => Cardinality(Claimed) <= active

\* A claim that found a slot free counted less than the cap.
FreeIsBelowCap == \A r \in Run : call[r] = "free" => active < MaxConcurrent

\* A run that was not dispatched, or is pending, holds nothing.
OnlyStartedHolds == \A r \in Run : status[r] \in {"none", "pending"} => ~held[r]

QueueInv ==
    /\ TypeOK
    /\ SlotCap
    /\ ClaimsHoldTheLock
    /\ CountIsBound
    /\ FreeIsBelowCap
    /\ OnlyStartedHolds

-----------------------------------------------------------------------------
(* Counting runs. *)

\* Sets of runs have a size, and a smaller set has at most the size of a larger one.
LEMMA Sizes ==
    ASSUME NEW T \in SUBSET Run, NEW S \in SUBSET T
    PROVE  /\ Cardinality(T) \in Nat
           /\ Cardinality(S) \in Nat
           /\ Cardinality(S) <= Cardinality(T)
<1>1. IsFiniteSet(T)
  BY CodingQueueAssumption, FS_Subset
<1>2. IsFiniteSet(S) /\ Cardinality(S) <= Cardinality(T)
  BY <1>1, FS_Subset
<1>3. QED
  BY <1>1, <1>2, FS_CardinalityType

\* A set no larger than one within a bound is within it.
LEMMA StaysBelow ==
    ASSUME NEW T \in SUBSET Run, NEW S \in SUBSET T, NEW n \in Nat, Cardinality(T) <= n
    PROVE  Cardinality(S) <= n
BY Sizes

\* One more run than a set below a cap is within the cap.
LEMMA OneMoreFits ==
    ASSUME NEW T \in SUBSET Run, NEW r \in Run, NEW S \in SUBSET (T \cup {r}),
           NEW n \in Nat, NEW m \in Nat, Cardinality(T) <= n, n < m
    PROVE  Cardinality(S) <= m
<1>1. IsFiniteSet(T) /\ Cardinality(T) \in Nat
  BY CodingQueueAssumption, FS_Subset, Sizes
<1>2. IsFiniteSet(T \cup {r}) /\ Cardinality(T \cup {r}) <= Cardinality(T) + 1
  BY <1>1, FS_AddElement
<1>3. Cardinality(S) <= Cardinality(T \cup {r}) /\ Cardinality(S) \in Nat
  BY <1>2, FS_Subset, FS_CardinalityType
<1>4. Cardinality(T \cup {r}) \in Nat
  BY <1>2, FS_CardinalityType
<1>5. QED
  BY <1>1, <1>2, <1>3, <1>4

-----------------------------------------------------------------------------
(* Types. *)

LEMMA TypeStep == TypeOK /\ [Next]_vars => TypeOK'
<1> SUFFICES ASSUME TypeOK, [Next]_vars
             PROVE  TypeOK'
  OBVIOUS
<1> USE CodingQueueAssumption DEF TypeOK, runVars, claimVars
<1>1. Now \subseteq Nat
  BY DEF Now
<1>2. \A S \in SUBSET Run : Cardinality(S) \in Nat
  BY Sizes
<1>3. Holding \in SUBSET Run
  BY DEF Holding
<1>4. ASSUME NEW r \in Run, NEW now \in Now, Dispatch(r, now)
      PROVE  TypeOK'
  BY <1>1, <1>4 DEF Dispatch, At
<1>5. ASSUME NEW r \in Run, NEW now \in Now, MarkQueued(r, now)
      PROVE  TypeOK'
  BY <1>1, <1>5 DEF MarkQueued, Enqueue, At
<1>6. ASSUME NEW r \in Run, NEW now \in Now, ClaimFull(r, now)
      PROVE  TypeOK'
  BY <1>1, <1>6 DEF ClaimFull, Enqueue, EndClaim, At
<1>7. ASSUME NEW r \in Run, CountSlots(r)
      PROVE  TypeOK'
  BY <1>2, <1>3, <1>7 DEF CountSlots, TakeSlotLock, At
<1>8. ASSUME NEW r \in Run, CountQueue(r)
      PROVE  TypeOK'
  BY <1>8 DEF CountQueue, At
<1>9. ASSUME NEW r \in Run, ClaimSlot(r)
      PROVE  TypeOK'
  BY <1>9 DEF ClaimSlot, EndClaim, At
<1>10. ASSUME NEW r \in Run, ClaimUnavailable(r)
       PROVE  TypeOK'
  BY <1>10 DEF ClaimUnavailable, EndClaim, At
<1>11. ASSUME NEW r \in Run, RequeueRefused(r)
       PROVE  TypeOK'
  BY <1>11 DEF RequeueRefused, RequeuedAt, At
<1>12. ASSUME NEW r \in Run, ReadRun(r) \/ LaunchEnds(r)
       PROVE  TypeOK'
  BY <1>12 DEF ReadRun, LaunchEnds, At
<1>13. ASSUME NEW r \in Run, PersistHandle(r)
       PROVE  TypeOK'
  BY <1>13 DEF PersistHandle, At
<1>14. ASSUME NEW r \in Run, Stop(r) \/ Finish(r)
       PROVE  TypeOK'
  BY <1>14 DEF Stop, Finish, EndRun
<1>15. ASSUME NEW r \in Run, ProcessDies(r)
       PROVE  TypeOK'
  BY <1>15 DEF ProcessDies, EndClaim
<1>16. ASSUME NEW r \in Run, TimeOut(r)
       PROVE  TypeOK'
  BY <1>16 DEF TimeOut, FailPending
<1>17. ASSUME NEW r \in Run, DispatchGetsOld(r) \/ WaitGetsOld(r)
       PROVE  TypeOK'
  BY <1>17 DEF DispatchGetsOld, WaitGetsOld
<1>18. CASE ReadExpired
  BY <1>18 DEF ReadExpired
<1>19. ASSUME NEW started \in SUBSET Waiting, StartWaiting(started)
       PROVE  TypeOK'
  BY <1>19 DEF StartWaiting
<1>20. CASE UNCHANGED vars
  BY <1>20 DEF vars
<1>21. QED
  BY <1>4, <1>5, <1>6, <1>7, <1>8, <1>9, <1>10, <1>11, <1>12, <1>13, <1>14, <1>15,
     <1>16, <1>17, <1>18, <1>19, <1>20 DEF Next, Attempt, Finished

\* Every state is well typed, whatever the runs and the number of slots.
THEOREM QueueTypeCorrect == Spec => []TypeOK
<1>1. Init => TypeOK
  BY DEF Init, TypeOK
<1>2. QED
  BY <1>1, TypeStep, PTL DEF Spec

-----------------------------------------------------------------------------
(* The cap. *)

LEMMA InvInit == Init => QueueInv
<1> SUFFICES ASSUME Init
             PROVE  QueueInv
  OBVIOUS
<1>1. TypeOK
  BY DEF Init, TypeOK
<1>2. Claimed = {}
  BY DEF Init, Claimed, Holding
<1>3. Cardinality(Claimed) = 0
  BY <1>2, FS_EmptySet
<1>4. SlotCap
  BY <1>3, CodingQueueAssumption DEF SlotCap, Claimed
<1>5. CountIsBound /\ ClaimsHoldTheLock /\ FreeIsBelowCap /\ OnlyStartedHolds
  BY DEF Init, CountIsBound, ClaimsHoldTheLock, FreeIsBelowCap, OnlyStartedHolds
<1>6. QED
  BY <1>1, <1>4, <1>5 DEF QueueInv

\* A step that adds no run to the claimed ones, and takes no lock, keeps the bounds.
LEMMA NoNewClaim ==
    ASSUME QueueInv, TypeOK', Claimed' \subseteq Claimed,
           slotLock' = NoRun \/ (slotLock' = slotLock /\ active' = active)
    PROVE  SlotCap' /\ CountIsBound'
<1>1. Claimed \in SUBSET Run /\ MaxConcurrent \in Nat /\ active \in Nat
  BY CodingQueueAssumption DEF QueueInv, TypeOK, Claimed, Holding
<1>2. Cardinality(Claimed) <= MaxConcurrent
  BY DEF QueueInv, SlotCap, Claimed
<1>3. Cardinality(Claimed') <= MaxConcurrent
  BY <1>1, <1>2, StaysBelow
<1>4. SlotCap'
  BY <1>3 DEF SlotCap, Claimed
<1>5. CASE slotLock' = NoRun
  BY <1>4, <1>5 DEF CountIsBound
<1>6. CASE slotLock' # NoRun /\ slotLock' = slotLock /\ active' = active
  <2>1. Cardinality(Claimed) <= active
    BY <1>6 DEF QueueInv, CountIsBound
  <2>2. Cardinality(Claimed') <= active
    BY <1>1, <2>1, StaysBelow
  <2>3. QED
    BY <1>4, <1>6, <2>2 DEF CountIsBound
<1>7. QED
  BY <1>5, <1>6

LEMMA InvStep == QueueInv /\ [Next]_vars => QueueInv'
<1> SUFFICES ASSUME QueueInv, [Next]_vars
             PROVE  QueueInv'
  OBVIOUS
<1> USE DEF runVars, claimVars
<1> DEFINE Rest == ClaimsHoldTheLock /\ FreeIsBelowCap /\ OnlyStartedHolds
<1>1. TypeOK /\ TypeOK' /\ Rest
  BY TypeStep DEF QueueInv
<1> USE CodingQueueAssumption DEF TypeOK, IsActive
<1> USE DEF ClaimsHoldTheLock, FreeIsBelowCap, OnlyStartedHolds
<1>2. SUFFICES SlotCap' /\ CountIsBound' /\ Rest'
  BY <1>1 DEF QueueInv
<1>3. ASSUME NEW r \in Run, NEW now \in Now, Dispatch(r, now)
      PROVE  SlotCap' /\ CountIsBound' /\ Rest'
  <2>1. Claimed' \subseteq Claimed
    BY <1>1, <1>3 DEF Dispatch, Claimed, Holding
  <2>2. QED
    BY <1>1, <1>3, <2>1, NoNewClaim DEF Dispatch, At
<1>4. ASSUME NEW r \in Run, NEW now \in Now, MarkQueued(r, now) \/ ClaimFull(r, now)
      PROVE  SlotCap' /\ CountIsBound' /\ Rest'
  <2>1. Claimed' \subseteq Claimed
    BY <1>4 DEF MarkQueued, ClaimFull, Claimed, Holding
  <2>2. Rest'
    BY <1>1, <1>4 DEF MarkQueued, ClaimFull, EndClaim, At
  <2>3. QED
    BY <1>1, <1>4, <2>1, <2>2, NoNewClaim DEF MarkQueued, ClaimFull, EndClaim
<1>5. ASSUME NEW r \in Run, CountSlots(r)
      PROVE  SlotCap' /\ CountIsBound' /\ Rest'
  <2>1. Claimed' = Claimed /\ Claimed \in SUBSET Holding /\ Holding \in SUBSET Run
    BY <1>5 DEF CountSlots, Claimed, Holding
  <2>2. active' = Cardinality(Holding)
    BY <1>5 DEF CountSlots
  <2>3. Cardinality(Claimed) <= Cardinality(Holding)
    BY <2>1, Sizes
  <2>4. CountIsBound'
    BY <2>1, <2>2, <2>3 DEF CountIsBound
  <2>5. SlotCap'
    BY <1>5, <2>1 DEF CountSlots, QueueInv, SlotCap, Claimed
  <2>6. Rest'
    BY <1>1, <1>5 DEF CountSlots, TakeSlotLock, At
  <2>7. QED
    BY <2>4, <2>5, <2>6
<1>6. ASSUME NEW r \in Run, CountQueue(r)
      PROVE  SlotCap' /\ CountIsBound' /\ Rest'
  <2>1. Claimed' \subseteq Claimed
    BY <1>6 DEF CountQueue, Claimed, Holding
  <2>2. Ahead(r) \in SUBSET Run
    BY DEF Ahead, Waiting
  <2>3. Cardinality(Ahead(r)) \in Nat
    BY <2>2, Sizes
  <2>4. active + Cardinality(Ahead(r)) < MaxConcurrent => active < MaxConcurrent
    BY <1>1, <2>3
  <2>5. Rest'
    BY <1>1, <1>6, <2>4 DEF CountQueue, At
  <2>6. QED
    BY <1>1, <1>6, <2>1, <2>5, NoNewClaim DEF CountQueue
<1>7. ASSUME NEW r \in Run, ClaimSlot(r)
      PROVE  SlotCap' /\ CountIsBound' /\ Rest'
  <2>1. Claimed' \subseteq Claimed \cup {r} /\ Claimed \in SUBSET Run
    BY <1>1, <1>7 DEF ClaimSlot, Claimed, Holding
  <2>2. slotLock = r /\ active < MaxConcurrent
    BY <1>1, <1>7 DEF ClaimSlot, At
  <2>3. Cardinality(Claimed) <= active
    BY <2>2 DEF QueueInv, CountIsBound
  <2>4. Cardinality(Claimed') <= MaxConcurrent
    BY <1>1, <2>1, <2>2, <2>3, OneMoreFits
  <2>5. SlotCap' /\ CountIsBound'
    BY <1>7, <2>4 DEF SlotCap, Claimed, CountIsBound, ClaimSlot, EndClaim
  <2>6. Rest'
    BY <1>1, <1>7, <2>2 DEF ClaimSlot, EndClaim, At
  <2>7. QED
    BY <2>5, <2>6
<1>8. ASSUME NEW r \in Run, ClaimUnavailable(r) \/ ProcessDies(r)
      PROVE  SlotCap' /\ CountIsBound' /\ Rest'
  <2>1. Claimed' \subseteq Claimed
    BY <1>8 DEF ClaimUnavailable, ProcessDies, Claimed, Holding
  <2>2. Rest'
    BY <1>1, <1>8 DEF ClaimUnavailable, ProcessDies, EndClaim, At
  <2>3. QED
    BY <1>1, <1>8, <2>1, <2>2, NoNewClaim DEF ClaimUnavailable, ProcessDies, EndClaim
<1>9. ASSUME NEW r \in Run, RequeueRefused(r)
      PROVE  SlotCap' /\ CountIsBound' /\ Rest'
  <2>1. Claimed' \subseteq Claimed
    BY <1>1, <1>9 DEF RequeueRefused, Claimed, Holding
  <2>2. QED
    BY <1>1, <1>9, <2>1, NoNewClaim DEF RequeueRefused, At
<1>10. ASSUME NEW r \in Run, ReadRun(r) \/ LaunchEnds(r)
       PROVE  SlotCap' /\ CountIsBound' /\ Rest'
  <2>1. Claimed' \subseteq Claimed
    BY <1>10 DEF ReadRun, LaunchEnds, Claimed, Holding
  <2>2. QED
    BY <1>1, <1>10, <2>1, NoNewClaim DEF ReadRun, LaunchEnds, At
<1>11. ASSUME NEW r \in Run, PersistHandle(r)
       PROVE  SlotCap' /\ CountIsBound' /\ Rest'
  <2>1. Claimed' \subseteq Claimed
    BY <1>1, <1>11 DEF PersistHandle, Claimed, Holding
  <2>2. QED
    BY <1>1, <1>11, <2>1, NoNewClaim DEF PersistHandle, At
<1>12. ASSUME NEW r \in Run, Stop(r) \/ Finish(r)
       PROVE  SlotCap' /\ CountIsBound' /\ Rest'
  <2>1. Claimed' \subseteq Claimed
    BY <1>1, <1>12 DEF Stop, Finish, EndRun, Claimed, Holding
  <2>2. QED
    BY <1>1, <1>12, <2>1, NoNewClaim DEF Stop, Finish, EndRun
<1>13. ASSUME NEW r \in Run, TimeOut(r)
       PROVE  SlotCap' /\ CountIsBound' /\ Rest'
  <2>1. Claimed' \subseteq Claimed
    BY <1>1, <1>13 DEF TimeOut, FailPending, Claimed, Holding
  <2>2. QED
    BY <1>1, <1>13, <2>1, NoNewClaim DEF TimeOut, FailPending
<1>14. ASSUME NEW r \in Run, DispatchGetsOld(r) \/ WaitGetsOld(r)
       PROVE  SlotCap' /\ CountIsBound' /\ Rest'
  <2>1. Claimed' \subseteq Claimed
    BY <1>14 DEF DispatchGetsOld, WaitGetsOld, Claimed, Holding
  <2>2. QED
    BY <1>1, <1>14, <2>1, NoNewClaim DEF DispatchGetsOld, WaitGetsOld
<1>15. CASE ReadExpired
  <2>1. Claimed' \subseteq Claimed
    BY <1>15 DEF ReadExpired, Claimed, Holding
  <2>2. QED
    BY <1>1, <1>15, <2>1, NoNewClaim DEF ReadExpired
<1>16. ASSUME NEW started \in SUBSET {r \in Waiting : call[r] = "idle"}, StartWaiting(started)
       PROVE  SlotCap' /\ CountIsBound' /\ Rest'
  <2>1. Claimed' \subseteq Claimed
    BY <1>16 DEF StartWaiting, Claimed, Holding
  <2>2. QED
    BY <1>1, <1>16, <2>1, NoNewClaim DEF StartWaiting
<1>17. CASE UNCHANGED vars
  <2>1. Claimed' \subseteq Claimed
    BY <1>17 DEF vars, Claimed, Holding
  <2>2. QED
    BY <1>1, <1>17, <2>1, NoNewClaim DEF vars
<1>18. QED
  BY <1>3, <1>4, <1>5, <1>6, <1>7, <1>8, <1>9, <1>10, <1>11, <1>12, <1>13, <1>14, <1>15,
     <1>16, <1>17 DEF Next, Attempt, Finished

\* No claim goes over CODING_MAX_CONCURRENT (claimProvisioning): whatever stops, requeues,
\* drains, timeouts and dying processes do beside it, and for any number of runs.
THEOREM ClaimsStayWithinCap == Spec => []SlotCap
<1>1. QueueInv => SlotCap
  BY DEF QueueInv
<1>2. QED
  BY InvInit, InvStep, <1>1, PTL DEF Spec

\* The drain never fails a run that was claimed after the drain read it as overdue: its
\* update asks for a pending run, and a pending run holds no slot.
THEOREM ClaimedRunsAreSpared == Spec => TimeOutSparesClaimed
<1> DEFINE Spared == \A r \in expired : r \notin expired' /\ status'[r] # status[r] => ~held[r]
<1>1. QueueInv /\ [Next]_vars => [Spared]_vars
  <2> SUFFICES ASSUME QueueInv, Next
               PROVE  Spared
    BY DEF vars
  <2> USE DEF QueueInv, TypeOK, OnlyStartedHolds
  <2>1. ASSUME NEW r \in Run, TimeOut(r)
        PROVE  Spared
    BY <2>1 DEF TimeOut, FailPending
  <2>2. CASE expired' = expired \/ expired = {}
    BY <2>2
  <2>3. expired' = expired \/ expired = {} \/ \E r \in Run : TimeOut(r)
    BY DEF Next, Attempt, Finished, Dispatch, MarkQueued, ClaimFull, CountSlots, CountQueue,
           ClaimSlot, ClaimUnavailable, RequeueRefused, ReadRun, PersistHandle, LaunchEnds,
           Stop, Finish, ProcessDies, DispatchGetsOld, WaitGetsOld, ReadExpired,
           StartWaiting, vars
  <2>4. QED
    BY <2>1, <2>2, <2>3
<1>2. QED
  BY InvInit, InvStep, <1>1, PTL DEF Spec, TimeOutSparesClaimed

-----------------------------------------------------------------------------
(* The order. *)

\* No stamp is later than the latest, and a run that was not dispatched is not queued.
StampsPass ==
    \A r \in Run :
        /\ startedAt[r] <= clock /\ queuedAt[r] <= clock
        /\ status[r] = "none" => queuedAt[r] = 0

\* The runs a claim of r must leave a slot for: those that have one, and those before it.
Before(r) == Claimed \cup WaitedFor(r)

\* A claim that found a slot free found one more than they take.
FreeIsFirst == \A r \in Run : call[r] = "free" => Cardinality(Before(r)) < MaxConcurrent

OrderInv == QueueInv /\ StampsPass /\ FreeIsFirst

LEMMA StampsStep ==
    ASSUME TypeOK, StampsPass, Next
    PROVE  StampsPass'
<1>1. \A now \in Now : now \in Nat /\ clock <= now
  BY DEF Now, TypeOK
<1> USE DEF TypeOK, StampsPass, runVars, claimVars, IsActive
<1>2. ASSUME NEW r \in Run, NEW now \in Now, Dispatch(r, now)
      PROVE  StampsPass'
  BY <1>1, <1>2 DEF Dispatch
<1>3. ASSUME NEW r \in Run, NEW now \in Now, MarkQueued(r, now) \/ ClaimFull(r, now)
      PROVE  StampsPass'
  BY <1>1, <1>3 DEF MarkQueued, ClaimFull, Enqueue
<1>4. ASSUME NEW r \in Run,
             \/ CountSlots(r) \/ CountQueue(r) \/ ClaimSlot(r) \/ ClaimUnavailable(r)
             \/ RequeueRefused(r) \/ ReadRun(r) \/ PersistHandle(r) \/ LaunchEnds(r)
      PROVE  StampsPass'
  BY <1>4 DEF CountSlots, CountQueue, ClaimSlot, ClaimUnavailable, RequeueRefused, RequeuedAt,
     ReadRun, PersistHandle, LaunchEnds
<1>5. ASSUME NEW r \in Run,
             \/ Stop(r) \/ Finish(r) \/ ProcessDies(r)
             \/ TimeOut(r) \/ DispatchGetsOld(r) \/ WaitGetsOld(r)
      PROVE  StampsPass'
  BY <1>5 DEF Stop, Finish, EndRun, ProcessDies, TimeOut, FailPending, DispatchGetsOld, WaitGetsOld
<1>6. ASSUME NEW started, StartWaiting(started)
      PROVE  StampsPass'
  BY <1>6 DEF StartWaiting
<1>7. CASE ReadExpired \/ UNCHANGED vars
  BY <1>7 DEF ReadExpired, vars
<1>8. QED
  BY <1>2, <1>3, <1>4, <1>5, <1>6, <1>7 DEF Next, Attempt, Finished

\* Whoever a claim that found a slot free was to leave one for, nobody joins them.
LEMMA NobodyGetsAhead ==
    ASSUME OrderInv, Next, NEW r \in Run, call[r] = "free", call'[r] = "free"
    PROVE  Before(r)' \subseteq Before(r)
<1>1. /\ TypeOK /\ StampsPass
      /\ \A q \in Run : call[q] \in {"counting", "full", "free"} => slotLock = q
      /\ \A q \in Run : status[q] \in {"none", "pending"} => ~held[q]
      /\ \A now \in Now : now \in Nat /\ clock <= now
  BY DEF OrderInv, QueueInv, ClaimsHoldTheLock, OnlyStartedHolds, TypeOK, Now
<1>2. /\ \A q \in Run : startedAt[q] <= clock /\ queuedAt[q] <= clock
      /\ \A q \in Run : status[q] = "none" => queuedAt[q] = 0
      /\ Since(r) \in Nat /\ Since(r) <= clock
  BY <1>1 DEF StampsPass, Since, TypeOK
<1> SUFFICES ASSUME NEW q \in Run, q \in Before(r)'
             PROVE  q \in Before(r)
  BY DEF Before, Claimed, Holding, WaitedFor, Waiting
<1>3. /\ q \notin revived'
      /\ \/ held'[q] /\ status'[q] \in {"pending", "running"}
         \/ queuedAt'[q] # 0 /\ ~held'[q] /\ status'[q] = "pending" /\ queuedAt'[q] < Since(r)'
  BY DEF Before, Claimed, Holding, WaitedFor, Waiting, IsActive
<1> DEFINE Was == /\ q \notin revived
                  /\ \/ held[q] /\ status[q] \in {"pending", "running"}
                     \/ queuedAt[q] # 0 /\ ~held[q] /\ status[q] = "pending" /\ queuedAt[q] < Since(r)
<1>4. SUFFICES Was
  BY DEF Before, Claimed, Holding, WaitedFor, Waiting, IsActive
<1> USE DEF runVars, claimVars, IsActive, At
<1>5. ASSUME NEW p \in Run, NEW now \in Now, Dispatch(p, now)
      PROVE  Was
  BY <1>1, <1>2, <1>3, <1>5 DEF Dispatch, TypeOK, Since
<1>6. ASSUME NEW p \in Run, NEW now \in Now, MarkQueued(p, now) \/ ClaimFull(p, now)
      PROVE  Was
  BY <1>1, <1>2, <1>3, <1>6 DEF MarkQueued, ClaimFull, Enqueue, TypeOK, Since
<1>7. ASSUME NEW p \in Run, RequeueRefused(p)
      PROVE  Was
  BY <1>1, <1>3, <1>7 DEF RequeueRefused, RequeuedAt, TypeOK, Since
<1>8. ASSUME NEW p \in Run,
             CountSlots(p) \/ CountQueue(p) \/ ClaimSlot(p) \/ ClaimUnavailable(p)
      PROVE  Was
  BY <1>1, <1>3, <1>8 DEF CountSlots, CountQueue, ClaimSlot, ClaimUnavailable, TypeOK, Since
<1>9. ASSUME NEW p \in Run, ReadRun(p) \/ PersistHandle(p) \/ LaunchEnds(p)
      PROVE  Was
  BY <1>1, <1>3, <1>9 DEF ReadRun, PersistHandle, LaunchEnds, TypeOK, Since
<1>10. ASSUME NEW p \in Run,
              \/ Stop(p) \/ Finish(p) \/ ProcessDies(p)
              \/ TimeOut(p) \/ DispatchGetsOld(p) \/ WaitGetsOld(p)
       PROVE  Was
  BY <1>1, <1>3, <1>10 DEF Stop, Finish, EndRun, ProcessDies, TimeOut, FailPending,
     DispatchGetsOld, WaitGetsOld, TypeOK, Since
<1>11. ASSUME NEW started, StartWaiting(started)
       PROVE  Was
  BY <1>1, <1>3, <1>11 DEF StartWaiting, Since
<1>12. CASE ReadExpired \/ UNCHANGED vars
  BY <1>3, <1>12 DEF ReadExpired, vars, Since
<1>13. QED
  BY <1>5, <1>6, <1>7, <1>8, <1>9, <1>10, <1>11, <1>12 DEF Next, Attempt, Finished
\* What a claim counts, of slots and of the queue, covers those before it.
LEMMA CountCoversThem ==
    ASSUME QueueInv, NEW r \in Run, call[r] = "counting",
           active + Cardinality(Ahead(r)) < MaxConcurrent
    PROVE  Cardinality(Before(r)) < MaxConcurrent
<1>1. Claimed \in SUBSET Run /\ Ahead(r) \in SUBSET Run
  BY DEF Claimed, Holding, Ahead, Waiting
<1>2. WaitedFor(r) \subseteq Ahead(r)
  BY DEF WaitedFor, Ahead, Waiting, Since, IsOlder, QueueInv, TypeOK
<1>3. Cardinality(Claimed) <= active
  BY CodingQueueAssumption DEF QueueInv, ClaimsHoldTheLock, CountIsBound
<1>4. IsFiniteSet(Claimed) /\ IsFiniteSet(Ahead(r))
  BY <1>1, CodingQueueAssumption, FS_Subset
<1>5. /\ Cardinality(Claimed \cup Ahead(r)) =
             Cardinality(Claimed) + Cardinality(Ahead(r)) - Cardinality(Claimed \cap Ahead(r))
      /\ Cardinality(Claimed) \in Nat /\ Cardinality(Ahead(r)) \in Nat
      /\ Cardinality(Claimed \cap Ahead(r)) \in Nat
  <2>1. IsFiniteSet(Claimed \cap Ahead(r))
    BY <1>4, FS_Intersection
  <2>2. QED
    BY <1>4, <2>1, FS_Union, FS_CardinalityType
<1>6. /\ Cardinality(Before(r)) <= Cardinality(Claimed \cup Ahead(r))
      /\ Cardinality(Before(r)) \in Nat /\ Cardinality(Claimed \cup Ahead(r)) \in Nat
  <2>1. Before(r) \in SUBSET (Claimed \cup Ahead(r)) /\ Claimed \cup Ahead(r) \in SUBSET Run
    BY <1>1, <1>2 DEF Before
  <2>2. QED
    BY <2>1, Sizes
<1>7. active \in Nat /\ MaxConcurrent \in Nat
  BY CodingQueueAssumption DEF QueueInv, TypeOK
<1>8. QED
  BY <1>3, <1>5, <1>6, <1>7

LEMMA OrderStep == OrderInv /\ [Next]_vars => OrderInv'
<1> SUFFICES ASSUME OrderInv, [Next]_vars
             PROVE  OrderInv'
  OBVIOUS
<1>1. QueueInv'
  BY InvStep DEF OrderInv
<1>2. CASE UNCHANGED vars
  BY <1>1, <1>2 DEF OrderInv, StampsPass, FreeIsFirst, Before, Claimed, Holding, WaitedFor,
     Waiting, Since, IsActive, vars, runVars, claimVars
<1>3. CASE Next
  <2>1. StampsPass'
    BY <1>3, StampsStep DEF OrderInv, QueueInv
  <2>2. ASSUME NEW r \in Run, call'[r] = "free"
        PROVE  Cardinality(Before(r)') < MaxConcurrent
    <3>1. call[r] \in CallState /\ MaxConcurrent \in Nat
      BY CodingQueueAssumption DEF OrderInv, QueueInv, TypeOK
    <3>2. CASE call[r] = "free"
      <4>1. Before(r)' \subseteq Before(r)
        BY <1>3, <2>2, <3>2, NobodyGetsAhead
      <4>2. Cardinality(Before(r)) < MaxConcurrent
        BY <3>2 DEF OrderInv, FreeIsFirst
      <4>3. Before(r) \in SUBSET Run
        BY DEF Before, Claimed, Holding, WaitedFor, Waiting
      <4>4. /\ Cardinality(Before(r)') <= Cardinality(Before(r))
            /\ Cardinality(Before(r)') \in Nat /\ Cardinality(Before(r)) \in Nat
        BY <4>1, <4>3, Sizes
      <4>5. QED
        BY <3>1, <4>2, <4>4
    <3>3. CASE call[r] # "free"
      <4>1. CountQueue(r)
        BY <1>3, <2>2, <3>3 DEF Next, Attempt, Finished, Dispatch, MarkQueued, ClaimFull,
           CountSlots, CountQueue, ClaimSlot, ClaimUnavailable, RequeueRefused, ReadRun,
           PersistHandle, LaunchEnds, Stop, Finish, ProcessDies, TimeOut, DispatchGetsOld,
           WaitGetsOld, ReadExpired, StartWaiting, vars, claimVars, At, OrderInv, QueueInv, TypeOK
      <4>2. call[r] = "counting" /\ active + Cardinality(Ahead(r)) < MaxConcurrent
        BY <2>2, <4>1 DEF CountQueue, At, OrderInv, QueueInv, TypeOK
      <4>3. Cardinality(Before(r)) < MaxConcurrent
        BY <4>2, CountCoversThem DEF OrderInv
      <4>4. Before(r)' = Before(r)
        BY <4>1 DEF CountQueue, Before, Claimed, Holding, WaitedFor, Waiting, Since, IsActive, runVars
      <4>5. QED
        BY <4>3, <4>4
    <3>4. QED
      BY <3>2, <3>3
  <2>3. FreeIsFirst'
    BY <2>2 DEF FreeIsFirst
  <2>4. QED
    BY <1>1, <2>1, <2>3 DEF OrderInv
<1>4. QED
  BY <1>2, <1>3

\* A claim (claimProvisioning) leaves a free slot for every run that waited for one before
\* it, whatever is requeued, stopped or started between its two counts and its write.
THEOREM ClaimsKeepTheOrder == Spec => QueueFirst
<1> DEFINE First == \A r \in Run : ~held[r] /\ held'[r] =>
                        Cardinality(Holding \ revived) + Cardinality(WaitedFor(r)) < MaxConcurrent
<1>1. Init => OrderInv
  <2>1. Init => StampsPass /\ FreeIsFirst
    BY DEF Init, StampsPass, FreeIsFirst
  <2>2. QED
    BY <2>1, InvInit DEF OrderInv
<1>2. OrderInv /\ [Next]_vars => [First]_held
  <2> SUFFICES ASSUME OrderInv, [Next]_vars, NEW r \in Run, ~held[r], held'[r]
               PROVE  Cardinality(Claimed) + Cardinality(WaitedFor(r)) < MaxConcurrent
    BY DEF Claimed
  <2>1. ClaimSlot(r)
    BY DEF Next, Attempt, Finished, Dispatch, MarkQueued, ClaimFull, CountSlots, CountQueue,
       ClaimSlot, ClaimUnavailable, RequeueRefused, ReadRun, PersistHandle, LaunchEnds, Stop,
       Finish, ProcessDies, TimeOut, DispatchGetsOld, WaitGetsOld, ReadExpired, StartWaiting,
       vars, runVars, OrderInv, QueueInv, TypeOK
  <2>2. Cardinality(Before(r)) < MaxConcurrent
    BY <2>1 DEF ClaimSlot, At, OrderInv, FreeIsFirst
  <2>3. /\ Claimed \in SUBSET Run /\ WaitedFor(r) \in SUBSET Run
        /\ Claimed \cap WaitedFor(r) = {}
    BY DEF Claimed, Holding, WaitedFor, Waiting
  <2>4. IsFiniteSet(Claimed) /\ IsFiniteSet(WaitedFor(r))
    BY <2>3, CodingQueueAssumption, FS_Subset
  <2>5. Cardinality(Before(r)) =
            Cardinality(Claimed) + Cardinality(WaitedFor(r)) - Cardinality(Claimed \cap WaitedFor(r))
    BY <2>4, FS_Union DEF Before
  <2>6. Cardinality(Claimed \cap WaitedFor(r)) = 0
    BY <2>3, FS_EmptySet
  <2>7. Cardinality(Claimed) \in Nat /\ Cardinality(WaitedFor(r)) \in Nat
    BY <2>4, FS_CardinalityType
  <2>8. QED
    BY <2>2, <2>5, <2>6, <2>7
<1>3. QED
  BY <1>1, <1>2, OrderStep, PTL DEF Spec, QueueFirst
=============================================================================
