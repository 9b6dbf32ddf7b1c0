----------------------------- MODULE CodingQueue -----------------------------
(***************************************************************************)
(* The coding concurrency queue: how several coding runs share             *)
(* CODING_MAX_CONCURRENT slots.                                            *)
(*                                                                         *)
(* There is no slot counter: a slot is an active run whose CodingRun row   *)
(* has a job backend, and a claim counts them under an advisory lock.      *)
(* Only claims take that lock; everything else that moves a run in or out  *)
(* of a slot (stopping, finishing, requeueing, persisting a handle, the    *)
(* drain) runs beside a claim's transaction, which is READ COMMITTED: each *)
(* of its statements reads what is committed by then.                      *)
(*                                                                         *)
(* CodingRun models one run in detail; here an attempt is its claim, its   *)
(* launch and its handle, one attempt of a run at a time, and one drain    *)
(* with the starts it left behind.  A millisecond timestamp is a stamp:    *)
(* only the order of stamps, ties included, and whether one is older than  *)
(* CODING_QUEUE_TIMEOUT_SEC are told apart.                                *)
(***************************************************************************)
EXTENDS Naturals, FiniteSets

CONSTANTS
    Run,             \* the coding runs, named by numbers: their runId order
    MaxConcurrent,   \* CODING_MAX_CONCURRENT
    Fallible,        \* the runs whose attempts may die with their process
    Refusable,       \* the runs whose launch the cluster may refuse
    Expirable,       \* the runs that may wait for as long as the queue timeout
    NoRun            \* no claim holds the slot lock

ASSUME CodingQueueAssumption ==
    /\ Run \subseteq Nat
    /\ IsFiniteSet(Run)
    /\ MaxConcurrent \in Nat \ {0}
    /\ Fallible \subseteq Run
    /\ Refusable \subseteq Run
    /\ Expirable \subseteq Run
    /\ NoRun \notin Run

VARIABLES
    status,      \* Run.status
    held,        \* CodingRun.jobBackend is set
    startedAt,   \* Run.startedAt, the stamp of its dispatch
    queuedAt,    \* CodingRun.queuedAt, 0 for null
    clock,       \* the latest stamp
    late,        \* startedAt is older than the queue timeout
    overdue,     \* queuedAt is older than the queue timeout
    call,        \* where ContainerExecutor.execute is for the run
    slotLock,    \* whose claim holds the advisory slot lock
    active,      \* the slots that claim counted
    expired,     \* the overdue runs the drain read and has not handled yet
    revived      \* runs that got their slot back from persistHandle, not from a claim

runVars == <<status, held, startedAt, queuedAt, clock, late, overdue>>
claimVars == <<call, slotLock, active>>
vars == <<runVars, claimVars, expired, revived>>

\* starting: before the claim.  counting, then full or free: in its transaction.
\* launching: claimed.  persisting: inside persistHandle.  launched: the job is not up
\* yet, and the attempt, or recovery once its process died, may find it refused.
CallState == {"idle", "starting", "counting", "full", "free",
              "launching", "persisting", "launched"}

TypeOK ==
    /\ status \in [Run -> {"none", "pending", "running", "ended"}]
    /\ held \in [Run -> BOOLEAN]
    /\ startedAt \in [Run -> Nat]
    /\ queuedAt \in [Run -> Nat]
    /\ clock \in Nat
    /\ late \in [Run -> BOOLEAN]
    /\ overdue \in [Run -> BOOLEAN]
    /\ call \in [Run -> CallState]
    /\ slotLock \in Run \cup {NoRun}
    /\ active \in Nat
    /\ expired \subseteq Run
    /\ revived \subseteq Run

Init ==
    /\ status = [r \in Run |-> "none"]
    /\ held = [r \in Run |-> FALSE]
    /\ startedAt = [r \in Run |-> 0]
    /\ queuedAt = [r \in Run |-> 0]
    /\ clock = 0
    /\ late = [r \in Run |-> FALSE]
    /\ overdue = [r \in Run |-> FALSE]
    /\ call = [r \in Run |-> "idle"]
    /\ slotLock = NoRun
    /\ active = 0
    /\ expired = {}
    /\ revived = {}

IsActive(r) == status[r] \in {"pending", "running"}

\* The runs that take up a slot, and the ones that wait for one.
Holding == {r \in Run : held[r] /\ IsActive(r)}

Waiting == {r \in Run : queuedAt[r] # 0 /\ ~held[r] /\ status[r] = "pending"}

\* The queue's order, (queuedAt, runId).
IsOlder(q, r) == queuedAt[q] < queuedAt[r] \/ (queuedAt[q] = queuedAt[r] /\ q < r)

\* The claim's transaction ends: its lock and what it counted are gone.
EndClaim == slotLock' = NoRun /\ active' = 0

At(r, state, next) == call[r] = state /\ call' = [call EXCEPT ![r] = next]

-----------------------------------------------------------------------------
(* Waiting. *)

\* The same millisecond as the latest stamp, or a later one.
Now == {clock, clock + 1} \ {0}

\* dispatchRun: the run is committed as pending, and started without waiting.
Dispatch(r, now) ==
    /\ status[r] = "none"
    /\ status' = [status EXCEPT ![r] = "pending"]
    /\ startedAt' = [startedAt EXCEPT ![r] = now]
    /\ clock' = now
    /\ At(r, "idle", "starting")
    /\ UNCHANGED <<held, queuedAt, late, overdue, slotLock, active, expired, revived>>

\* Only a pending run that holds no slot and is not queued yet gets a place in the queue.
Enqueue(r, now) ==
    IF status[r] = "pending" /\ ~held[r] /\ queuedAt[r] = 0
    THEN queuedAt' = [queuedAt EXCEPT ![r] = now] /\ clock' = now
    ELSE UNCHANGED <<queuedAt, clock>>

\* The cluster has no room, or a claim's transaction could not start in time.
MarkQueued(r, now) ==
    /\ At(r, "starting", "idle")
    /\ Enqueue(r, now)
    /\ UNCHANGED <<status, held, startedAt, late, overdue, slotLock, active, expired, revived>>

-----------------------------------------------------------------------------
(* claimProvisioning. *)

\* Mutant: the lock is not waited for.
LockWithoutWaiting(r) == slotLock' = r

TakeSlotLock(r) == slotLock = NoRun /\ slotLock' = r

CountSlots(r) ==
    /\ At(r, "starting", "counting")
    /\ TakeSlotLock(r)
    /\ active' = Cardinality(Holding)
    /\ UNCHANGED <<runVars, expired, revived>>

\* Mutant: the first claim to get the lock takes a free slot.
NobodyAhead(r) == {}

\* The queued runs ahead of r: older ones, or all of them when r is not queued.
Ahead(r) == {q \in Waiting \ {r} : queuedAt[r] = 0 \/ IsOlder(q, r)}

CountQueue(r) ==
    /\ At(r, "counting", IF active + Cardinality(Ahead(r)) < MaxConcurrent THEN "free" ELSE "full")
    /\ UNCHANGED <<runVars, slotLock, active, expired, revived>>

\* No slot is left for this run: it waits, in its place if it already had one.
ClaimFull(r, now) ==
    /\ At(r, "full", "idle")
    /\ Enqueue(r, now)
    /\ EndClaim
    /\ UNCHANGED <<status, held, startedAt, late, overdue, expired, revived>>

\* The slot is taken, and the run leaves the queue.
ClaimSlot(r) ==
    /\ At(r, "free", "launching")
    /\ ~held[r]
    /\ IsActive(r)
    /\ held' = [held EXCEPT ![r] = TRUE]
    /\ queuedAt' = [queuedAt EXCEPT ![r] = 0]
    /\ overdue' = [overdue EXCEPT ![r] = FALSE]
    /\ status' = [status EXCEPT ![r] = "running"]
    /\ EndClaim
    /\ revived' = revived \ {r}
    /\ UNCHANGED <<startedAt, clock, late, expired>>

\* It ended, or another process has it, by the time of the update: rolled back.
ClaimUnavailable(r) ==
    /\ At(r, "free", "idle")
    /\ held[r] \/ ~IsActive(r)
    /\ EndClaim
    /\ UNCHANGED <<runVars, expired, revived>>

-----------------------------------------------------------------------------
(* The launch. *)

\* Mutant: a refused run's time in the queue starts afresh.
RequeuedAfresh(r) ==
    /\ queuedAt' = [queuedAt EXCEPT ![r] = clock]
    /\ overdue' = [overdue EXCEPT ![r] = FALSE]

\* queuedAt is the dispatch time, not now.
RequeuedAt(r) ==
    /\ queuedAt' = [queuedAt EXCEPT ![r] = startedAt[r]]
    /\ overdue' = [overdue EXCEPT ![r] = late[r]]

\* requeueAfterCapacityRefusal: the run gives its slot back and waits again.
RequeueRefused(r) ==
    /\ r \in Refusable
    /\ At(r, "launching", "idle") \/ At(r, "launched", "idle")
    /\ held[r] /\ IsActive(r)
    /\ held' = [held EXCEPT ![r] = FALSE]
    /\ status' = [status EXCEPT ![r] = "pending"]
    /\ RequeuedAt(r)
    /\ UNCHANGED <<startedAt, clock, late, slotLock, active, expired, revived>>

\* persistHandle reads the run as active.
ReadRun(r) ==
    /\ At(r, "launching", IF IsActive(r) THEN "persisting" ELSE "idle")
    /\ UNCHANGED <<runVars, slotLock, active, expired, revived>>

\* Then writes its status whatever it is by now: an ended run takes up a slot again.
PersistHandle(r) ==
    /\ At(r, "persisting", "launched")
    /\ status' = [status EXCEPT ![r] = "running"]
    /\ revived' = IF IsActive(r) THEN revived ELSE revived \cup {r}
    /\ UNCHANGED <<held, startedAt, queuedAt, clock, late, overdue, slotLock, active, expired>>

\* The worker runs, or the run ended: the slot is not given back any more.
LaunchEnds(r) ==
    /\ At(r, "launched", "idle")
    /\ UNCHANGED <<runVars, slotLock, active, expired, revived>>

-----------------------------------------------------------------------------
(* The end of a run. *)

\* Mutant: a status no query knows.
MisnamedEnd(r) == IsActive(r) /\ status' = [status EXCEPT ![r] = "cancelling"]

EndRun(r) == IsActive(r) /\ status' = [status EXCEPT ![r] = "ended"]

\* Stopped, at any moment.
Stop(r) ==
    /\ EndRun(r)
    /\ UNCHANGED <<held, startedAt, queuedAt, clock, late, overdue, claimVars, expired, revived>>

\* A run with a slot finishes, fails or is lost; one nobody attempts or queued is lost.
Finish(r) ==
    /\ held[r] \/ (queuedAt[r] = 0 /\ call[r] = "idle")
    /\ EndRun(r)
    /\ UNCHANGED <<held, startedAt, queuedAt, clock, late, overdue, claimVars, expired, revived>>

\* The process dies with the attempt: an open claim rolls back and its lock goes.
ProcessDies(r) ==
    /\ r \in Fallible
    /\ call[r] \notin {"idle", "launched"}
    /\ call' = [call EXCEPT ![r] = "idle"]
    /\ IF slotLock = r THEN EndClaim ELSE UNCHANGED <<slotLock, active>>
    /\ UNCHANGED <<runVars, expired, revived>>

-----------------------------------------------------------------------------
(* drainCodingQueue. *)

\* First the runs that waited too long.
ReadExpired ==
    /\ expired = {}
    /\ expired' = {r \in Run : queuedAt[r] # 0 /\ overdue[r] /\ status[r] = "pending"}
    /\ expired' # {}
    /\ UNCHANGED <<runVars, claimVars, revived>>

\* Mutant: the update has no status condition.
FailAnyway(r) == status' = [status EXCEPT ![r] = "ended"]

\* A run that was claimed since keeps its slot.
FailPending(r) == status[r] = "pending" /\ status' = [status EXCEPT ![r] = "ended"]

TimeOut(r) ==
    /\ r \in expired
    /\ expired' = expired \ {r}
    /\ \/ FailPending(r)
       \/ status[r] # "pending" /\ UNCHANGED status
    /\ UNCHANGED <<held, startedAt, queuedAt, clock, late, overdue, claimVars, revived>>

\* Then it starts the oldest waiting runs, one for each slot that an earlier count found
\* free; not a run in flight, or refused less than CAPACITY_RETRY_BACKOFF_MS ago.
Oldest(free) == {r \in Waiting : Cardinality({q \in Waiting : IsOlder(q, r)}) < free}

StartWaiting(started) ==
    /\ expired = {}
    /\ started # {}
    /\ \E free \in 1..MaxConcurrent : started \subseteq Oldest(free)
    /\ call' = [r \in Run |-> IF r \in started THEN "starting" ELSE call[r]]
    /\ UNCHANGED <<runVars, slotLock, active, expired, revived>>

-----------------------------------------------------------------------------
(* Time. *)

DispatchGetsOld(r) ==
    /\ r \in Expirable
    /\ IsActive(r) /\ ~late[r]
    /\ late' = [late EXCEPT ![r] = TRUE]
    /\ overdue' = [overdue EXCEPT ![r] = queuedAt[r] = startedAt[r]]
    /\ UNCHANGED <<status, held, startedAt, queuedAt, clock, claimVars, expired, revived>>

\* A place in the queue is never older than the dispatch.
WaitGetsOld(r) ==
    /\ r \in Waiting /\ late[r] /\ ~overdue[r]
    /\ overdue' = [overdue EXCEPT ![r] = TRUE]
    /\ UNCHANGED <<status, held, startedAt, queuedAt, clock, late, claimVars, expired, revived>>

-----------------------------------------------------------------------------

Attempt(r) ==
    \/ \E now \in Now : MarkQueued(r, now) \/ ClaimFull(r, now)
    \/ CountSlots(r) \/ CountQueue(r) \/ ClaimSlot(r) \/ ClaimUnavailable(r)
    \/ RequeueRefused(r) \/ ReadRun(r) \/ PersistHandle(r) \/ LaunchEnds(r)

Finished ==
    /\ \A r \in Run : status[r] = "ended" /\ call[r] = "idle"
    /\ expired = {}
    /\ UNCHANGED vars

Next ==
    \/ \E r \in Run :
           \/ \E now \in Now : Dispatch(r, now)
           \/ Attempt(r)
           \/ Stop(r) \/ Finish(r) \/ ProcessDies(r)
           \/ TimeOut(r)
           \/ DispatchGetsOld(r) \/ WaitGetsOld(r)
    \/ ReadExpired
    \/ \E started \in SUBSET {r \in Waiting : call[r] = "idle"} : StartWaiting(started)
    \/ Finished

Spec == Init /\ [][Next]_vars

\* A live process goes on with its calls; time passes; a job ends, or its run is lost
\* (CodingRun); the drain runs on a timer.  A run that keeps being refused is found
\* waiting by a drain between two of its attempts: after a refusal it is not started for
\* CAPACITY_RETRY_BACKOFF_MS, six ticks of the drain.
FairSpec ==
    /\ Spec
    /\ \A r \in Run :
           /\ WF_vars(Attempt(r)) /\ WF_vars(Finish(r))
           /\ WF_vars(DispatchGetsOld(r)) /\ WF_vars(WaitGetsOld(r))
           /\ SF_vars(ReadExpired /\ overdue[r] /\ status[r] = "pending")
           /\ SF_vars(TimeOut(r) /\ FailPending(r)) /\ WF_vars(TimeOut(r))

-----------------------------------------------------------------------------
(* Properties. *)

\* CODING_MAX_CONCURRENT caps the coding runs that hold a slot at once, whatever claims,
\* stops, requeues, drains and dying processes do together.  Not counted is a run that
\* had ended and was set running again by persistHandle: no claim admitted it.
SlotCap == Cardinality(Holding \ revived) <= MaxConcurrent

\* A claim leaves a free slot for every run that waited for one before it: a run that was
\* dispatched, requeued or started later does not overtake, and the oldest do not starve.
Since(r) == IF queuedAt[r] = 0 THEN startedAt[r] ELSE queuedAt[r]

WaitedFor(r) == {q \in Waiting \ revived : queuedAt[q] < Since(r)}

QueueFirst ==
    [][\A r \in Run : ~held[r] /\ held'[r] =>
           Cardinality(Holding \ revived) + Cardinality(WaitedFor(r)) < MaxConcurrent]_held

\* A run that took its slot while it was read as overdue is not failed by the drain for
\* having waited: only a waiting run times out.
TimeOutSparesClaimed ==
    [][\A r \in expired : r \notin expired' /\ status'[r] # status[r] => ~held[r]]_vars

\* A dispatched run ends: it gets a slot, or it times out in the queue, also when the
\* cluster refuses every one of its launches.
EveryRunEnds == \A r \in Run : status[r] = "pending" ~> status[r] = "ended"
=============================================================================
