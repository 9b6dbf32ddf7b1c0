------------------------------ MODULE CodingRun ------------------------------
(***************************************************************************)
(* One coding run, from dispatch to its terminal status: the executors     *)
(* that launch and follow its job, a stop request and the reconciler, each *)
(* in a process of its own, over the run's row, its CodingRun row, its     *)
(* proxy session and the job the launcher runs for it.                     *)
(*                                                                         *)
(* ContainerExecutor's methods are sequences of awaited calls.  script[a]  *)
(* is what actor a still has to do, one step per awaited call; a step that *)
(* throws or branches replaces the rest.  An actor acts on what it loaded  *)
(* (knows), which others may have changed since.  The conditional updates  *)
(* are one step; complete and persistHandle read the run's status, then    *)
(* write it without the condition: two steps.                              *)
(*                                                                         *)
(* refused, failed and budget_exhausted terminations differ only in name   *)
(* and are one status here, and a run completed at its budget is one that  *)
(* succeeded.  Left out: notifications, audit and descriptions, the        *)
(* in-memory capacity backoff, delegated children, budget top-ups          *)
(* (ProxyLedger), the slot count (CodingQueue).                            *)
(***************************************************************************)
EXTENDS Naturals, Sequences, FiniteSets

CONSTANTS
    Executor,     \* processes that may run an attempt of the run
    Stopper,      \* the process of a stop request
    Reconciler,   \* the scheduler leader's reconciler
    Planned,      \* the launcher's handles are derived from the run (Kubernetes)
    Fallible,     \* the actors whose process may die
    Stalls        \* a process may stall between two awaited calls, for as long as others
                  \* take to prepare a workspace or let a heartbeat expire

Actor == Executor \cup {Stopper, Reconciler}

ASSUME CodingRunAssumption ==
    /\ Stopper # Reconciler
    /\ {Stopper, Reconciler} \cap Executor = {}
    /\ {"none", "handle"} \cap Executor = {}
    /\ Planned \in BOOLEAN
    /\ Stalls \in BOOLEAN
    /\ Fallible \subseteq Actor

VARIABLES
    status,    \* Run.status
    queued,    \* CodingRun.queuedAt is set
    hold,      \* jobBackend and jobHandle: none, the claim of an executor, a job handle
    session,   \* the proxy session's row
    stale,     \* Run.heartbeatAt is older than HEARTBEAT_TIMEOUT_MS
    job,       \* the launcher's record of the run's job
    pushed,    \* its changes are on the host
    script,    \* per actor: the steps it has left
    knows      \* per actor: whether it holds the session's id and the job's handle

runVars == <<status, queued, hold, session, stale>>
vars == <<runVars, job, pushed, script, knows>>

Terminal == {"succeeded", "failed", "cancelled", "lost"}

Status == {"pending", "running"} \cup Terminal

\* unlaunched: provisioning failed, and what it had created was removed again.
EndedJob == {"succeeded", "failed", "stopped", "unlaunched", "removed"}

Job == {"absent", "provisioning", "running", "requeued"} \cup EndedJob

Step == {"load", "claim", "prepare", "createSession", "checkRun", "readRun", "writeHandle",
         "launch", "awaitPod", "follow", "reload", "cancelSession", "requeue", "collect", "checkActive",
         "push", "readResult", "writeResult", "stopJob", "fail", "stop", "cancel", "lose",
         "removeJob", "recoverClaim", "recoverHandle", "inspect", "heartbeat", "sweep",
         "cancelPending"}

TypeOK ==
    /\ status \in Status
    /\ queued \in BOOLEAN
    /\ hold \in {"none", "handle"} \cup Executor
    /\ session \in {"none", "active", "cancelled"}
    /\ stale \in BOOLEAN
    /\ job \in Job
    /\ pushed \in BOOLEAN
    /\ script \in [Actor -> Seq(Step)]
    /\ knows \in [Actor -> [session : BOOLEAN, handle : BOOLEAN]]

KnowsNothing == [session |-> FALSE, handle |-> FALSE]

Init ==
    /\ status = "pending"
    /\ queued = FALSE
    /\ hold = "none"
    /\ session = "none"
    /\ stale = FALSE
    /\ job = "absent"
    /\ pushed = FALSE
    /\ script = [a \in Actor |-> <<>>]
    /\ knows = [a \in Actor |-> KnowsNothing]

-----------------------------------------------------------------------------
(* What the methods do, as sequences of steps. *)

PersistScript == <<"readRun", "writeHandle">>

\* Mutant: the planned handle is not persisted before the launch.
LaunchThenPersist ==
    <<"prepare", "checkRun", "createSession", "checkRun", "launch", "awaitPod">>
        \o PersistScript \o <<"follow">>

\* Mutant: the session is made once the pod is up.
LaunchThenSession ==
    <<"prepare", "checkRun">> \o (IF Planned THEN PersistScript ELSE <<>>)
        \o <<"launch", "awaitPod", "createSession">> \o PersistScript \o <<"follow">>

\* execute, once it holds the provisioning claim.
LaunchScript ==
    <<"prepare", "checkRun", "createSession", "checkRun">>
        \o (IF Planned THEN PersistScript ELSE <<>>)
        \o <<"launch", "awaitPod">> \o PersistScript \o <<"follow">>

\* The catch block of execute, and its branch for a launch refused for capacity.
CatchScript == <<"cancelSession", "stopJob", "fail", "removeJob">>

RefusedScript == <<"cancelSession", "requeue">>

\* Mutant: a step no method has.
MisnamedFailure == <<"cancelSession", "terminate", "removeJob">>

\* finishTerminal: of a job that failed, was stopped or lost, and of one that succeeded.
FailedJobScript == <<"cancelSession", "fail", "removeJob">>

\* Mutant: the job is left to the launcher's deadline.
KeepJob ==
    <<"cancelSession", "collect", "checkActive", "collect", "checkActive",
      "push", "readResult", "writeResult">>

SucceededJobScript ==
    <<"cancelSession", "collect", "checkActive", "collect", "checkActive",
      "push", "readResult", "writeResult", "removeJob">>

\* An error while finishing: what its catch and finally blocks do.
FinishErrorScript == <<"fail", "removeJob">>

\* Nothing to push; or a run stopped at its budget whose changes cannot be pushed.
WithoutPush == <<"readResult", "writeResult", "removeJob">>

FinishScript == IF job = "succeeded" THEN SucceededJobScript ELSE FailedJobScript

\* stop, cleanupTerminal and abandon, after they loaded the run.
StopScript == <<"cancel", "cancelSession", "stopJob", "removeJob">>

CleanupScript == <<"cancelSession", "stopJob", "removeJob">>

AbandonScript == <<"lose", "cancelSession", "stopJob", "removeJob", "sweep">>

IsActive == status \notin Terminal

At(a, step) == script[a] # <<>> /\ Head(script[a]) = step

Advance(a) == script' = [script EXCEPT ![a] = Tail(@)]

Turn(a, steps) == script' = [script EXCEPT ![a] = steps]

\* The branch of a step that may throw.
AdvanceIf(a, succeeds, otherwise) == IF succeeds THEN Advance(a) ELSE Turn(a, otherwise)

\* store.load.
Load(a) == knows' = [knows EXCEPT ![a] = [session |-> session # "none", handle |-> hold = "handle"]]

-----------------------------------------------------------------------------
(* execute: an executor launches the run's job and follows it. *)

\* dispatchRun or drainCodingQueue starts a run it read as pending and without a
\* job; the executor loads it later.  A process runs one attempt at a time.
Start(p) ==
    /\ script[p] = <<>>
    /\ status = "pending"
    /\ hold = "none"
    /\ Turn(p, <<"load">>)
    /\ UNCHANGED <<runVars, job, pushed, knows>>

\* By now the run may be over, claimed, or launched by another process.  Or preflight
\* refuses what the run stores (before anyone claims it: every attempt reads the same).
LoadRun(p) ==
    /\ p \in Executor
    /\ At(p, "load")
    /\ Load(p)
    /\ \/ Turn(p, CASE ~IsActive         -> CleanupScript
                    [] hold \in Executor -> <<>>
                    [] hold = "handle"   -> <<"prepare", "follow">>
                    [] OTHER             -> <<"claim">>)
       \/ IsActive /\ hold = "none" /\ Turn(p, CatchScript)
    /\ UNCHANGED <<runVars, job, pushed>>

\* Mutant: the claim does not look at the row.
ClaimAnyway(p) ==
    /\ At(p, "claim")
    /\ IsActive
    /\ hold' = p
    /\ status' = "running"
    /\ queued' = FALSE
    /\ stale' = FALSE
    /\ Turn(p, LaunchScript)
    /\ UNCHANGED <<session, job, pushed, knows>>

\* The claim succeeds only on an unclaimed active run (the slot count is CodingQueue's).
Claim(p) ==
    /\ At(p, "claim")
    /\ IsActive
    /\ hold = "none"
    /\ hold' = p
    /\ status' = "running"
    /\ queued' = FALSE
    /\ stale' = FALSE
    /\ Turn(p, LaunchScript)
    /\ UNCHANGED <<session, job, pushed, knows>>

\* No slot or no room in the cluster: wait in the queue.  Or the run is not claimable.
ClaimRefused(p) ==
    /\ At(p, "claim")
    /\ queued' = (queued \/ (status = "pending" /\ hold = "none"))
    /\ stale' = (stale /\ ~queued')
    /\ Advance(p)
    /\ UNCHANGED <<status, hold, session, job, pushed, knows>>

\* An attempt or a recovery is between the calls that requeue a refused run.
IsRequeuing ==
    \E a \in Actor : script[a] = RefusedScript
                   \/ \E step \in {"recoverHandle", "inspect", "requeue"} : At(a, step)

\* The workspace is prepared, or recovered for a launched run: it may fail.
Prepare(p) ==
    /\ At(p, "prepare")
    /\ Stalls \/ ~IsRequeuing
    /\ \E ready \in BOOLEAN : AdvanceIf(p, ready, CatchScript)
    /\ UNCHANGED <<runVars, job, pushed, knows>>

\* requireCurrent, before the session and again before the launch.
CheckRun(p) ==
    /\ At(p, "checkRun")
    /\ AdvanceIf(p, IsActive, CatchScript)
    /\ UNCHANGED <<runVars, job, pushed, knows>>

\* A run has one session row, created active; the run's status is not read.
CreateSession(p) ==
    /\ At(p, "createSession")
    /\ IF session = "none" /\ ~knows[p].session
       THEN /\ session' = "active"
            /\ knows' = [knows EXCEPT ![p].session = TRUE]
            /\ Advance(p)
       ELSE Turn(p, CatchScript) /\ UNCHANGED <<session, knows>>
    /\ UNCHANGED <<status, queued, hold, stale, job, pushed>>

\* persistHandle's read: active, and the claim ours; a handle already there ends it.
ReadRun(p) ==
    /\ At(p, "readRun")
    /\ Turn(p, CASE IsActive /\ hold = p        -> Tail(script[p])
                 [] IsActive /\ hold = "handle" -> SubSeq(script[p], 3, Len(script[p]))
                 [] OTHER                       -> CatchScript)
    /\ UNCHANGED <<runVars, job, pushed, knows>>

\* Its write: the handle only over our claim, the status whatever it is by now.
WriteHandle(p) ==
    /\ At(p, "writeHandle")
    /\ IF hold = p
       THEN /\ hold' = "handle"
            /\ status' = "running"
            /\ stale' = FALSE
            /\ Advance(p)
       ELSE Turn(p, CatchScript) /\ UNCHANGED <<hold, status, stale>>
    /\ UNCHANGED <<queued, session, job, pushed, knows>>

\* The launcher's record is its fence: a run is provisioned once, or again after a
\* refusal; any other record is adopted as it is.
Launch(p) ==
    /\ At(p, "launch")
    /\ job' = IF job \in {"absent", "requeued"} THEN "provisioning" ELSE job
    /\ Advance(p)
    /\ UNCHANGED <<runVars, pushed, knows>>

\* The pod is up (or its record was adopted, or a stop got in): the handle is returned.
Launched(p) ==
    /\ At(p, "awaitPod")
    /\ job' = IF job = "provisioning" THEN "running" ELSE job
    /\ knows' = [knows EXCEPT ![p].handle = TRUE]
    /\ Advance(p)
    /\ UNCHANGED <<runVars, pushed>>

\* Provisioning failed: the launcher recorded it and removed what it had created.
LaunchFailed(p) ==
    /\ At(p, "awaitPod")
    /\ job' = IF job = "provisioning" THEN "unlaunched" ELSE job
    /\ Turn(p, CatchScript)
    /\ UNCHANGED <<runVars, pushed, knows>>

\* The namespace quota refused the pod.
LaunchRefused(p) ==
    /\ Planned
    /\ At(p, "awaitPod")
    /\ job = "provisioning"
    /\ job' = "requeued"
    /\ Turn(p, RefusedScript)
    /\ UNCHANGED <<runVars, pushed, knows>>

\* Ownership is proved by the claim, or by the planned handle: the same for every attempt.
Owns(a) == IsActive /\ (hold = a \/ (Planned /\ hold = "handle"))

\* requeueAfterCapacityRefusal, by the attempt or by recovery: the run waits again.
Requeue(a) ==
    /\ At(a, "requeue")
    /\ Owns(a)
    /\ hold' = "none"
    /\ queued' = TRUE
    /\ session' = "none"
    /\ status' = "pending"
    /\ stale' = FALSE
    /\ Advance(a)
    /\ UNCHANGED <<job, pushed, knows>>

\* Not ours any more: an attempt leaves it; recovery cleans up a run that ended.
RequeueNotOwned(a) ==
    /\ At(a, "requeue")
    /\ ~Owns(a)
    /\ IF a = Reconciler
       THEN Load(a) /\ Turn(a, IF IsActive THEN <<"heartbeat">> ELSE CleanupScript)
       ELSE Advance(a) /\ UNCHANGED knows
    /\ UNCHANGED <<runVars, job, pushed>>

\* The session has requests: a launch that was refused but spent is failed, not repeated.
RequeueSpent(a) ==
    /\ At(a, "requeue")
    /\ Owns(a)
    /\ session # "none"
    /\ knows' = [knows EXCEPT ![a].handle = TRUE]
    /\ Turn(a, IF a = Reconciler THEN AbandonScript ELSE CatchScript)
    /\ UNCHANGED <<runVars, job, pushed>>

\* A launch refreshes the run's heartbeat; a missed beat is swallowed, so it need not.
Heartbeat(p) ==
    /\ At(p, "awaitPod")
    /\ stale /\ status = "running"
    /\ stale' = FALSE
    /\ UNCHANGED <<status, queued, hold, session, job, pushed, script, knows>>

\* So does a poll that finds the job alive.
JobSeenAlive(p) ==
    /\ At(p, "follow")
    /\ job \in {"provisioning", "running", "requeued"}
    /\ stale' = (stale /\ status # "running")
    /\ Turn(p, <<"reload", "follow">>)
    /\ UNCHANGED <<status, queued, hold, session, job, pushed, knows>>

\* It finds the job ended, or no job at all.
JobSeenEnded(p) ==
    /\ At(p, "follow")
    /\ job \in EndedJob \cup {"absent"}
    /\ Turn(p, IF job \in {"absent", "removed"} THEN CatchScript ELSE FinishScript)
    /\ UNCHANGED <<runVars, job, pushed, knows>>

\* After a pause: a run that someone else ended is left to them, its cleanup too.
Reload(p) ==
    /\ At(p, "reload")
    /\ AdvanceIf(p, IsActive, <<>>)
    /\ UNCHANGED <<runVars, job, pushed, knows>>

-----------------------------------------------------------------------------
(* Steps every method shares. *)

CancelSession(a) ==
    /\ At(a, "cancelSession")
    /\ session' = IF knows[a].session /\ session = "active" THEN "cancelled" ELSE session
    /\ Advance(a)
    /\ UNCHANGED <<status, queued, hold, stale, job, pushed, knows>>

StopJob(a) ==
    /\ At(a, "stopJob")
    /\ job' = IF knows[a].handle /\ job \in {"provisioning", "running", "requeued"}
              THEN "stopped" ELSE job
    /\ Advance(a)
    /\ UNCHANGED <<runVars, pushed, knows>>

\* Only an ended job is removed; its record stays, so that it is never launched again.
RemoveJob(a) ==
    /\ At(a, "removeJob")
    /\ job' = IF knows[a].handle /\ job \in EndedJob THEN "removed" ELSE job
    /\ Advance(a)
    /\ UNCHANGED <<runVars, pushed, knows>>

\* Mutant: the update has no status condition.
TerminateAlways(a, outcome) ==
    /\ status' = outcome
    /\ stale' = FALSE
    /\ Advance(a)

\* store.terminate.
Terminate(a, outcome) ==
    /\ IsActive
    /\ status' = outcome
    /\ stale' = FALSE
    /\ Advance(a)

Fail(a) ==
    /\ At(a, "fail")
    /\ \/ Terminate(a, "failed")
       \/ ~IsActive /\ Advance(a) /\ UNCHANGED <<status, stale>>
    /\ UNCHANGED <<queued, hold, session, job, pushed, knows>>

-----------------------------------------------------------------------------
(* finishTerminal: the job ended; its result is collected, pushed and recorded. *)

\* collect, and materializeWorkspace after the first check; the workspace may be lost.
Collect(a) ==
    /\ At(a, "collect")
    /\ \/ \E ok \in BOOLEAN : AdvanceIf(a, ok /\ job = "succeeded", FinishErrorScript)
       \/ script[a][3] = "push" /\ Turn(a, WithoutPush)
    /\ UNCHANGED <<runVars, job, pushed, knows>>

\* requireActive: a run that was stopped meanwhile is left as it is.
CheckActive(a) ==
    /\ At(a, "checkActive")
    /\ AdvanceIf(a, IsActive, <<"removeJob">>)
    /\ UNCHANGED <<runVars, job, pushed, knows>>

\* The worker changed nothing: there is nothing to copy or to push.
NoChanges(a) ==
    /\ At(a, "checkActive")
    /\ script[a][2] = "collect"
    /\ Turn(a, IF IsActive THEN WithoutPush ELSE <<"removeJob">>)
    /\ UNCHANGED <<runVars, job, pushed, knows>>

Push(a) ==
    /\ At(a, "push")
    /\ \/ pushed' = TRUE /\ Advance(a)
       \/ Turn(a, WithoutPush) /\ UNCHANGED pushed
       \/ Turn(a, FinishErrorScript) /\ UNCHANGED pushed
    /\ UNCHANGED <<runVars, job, knows>>

\* complete's read: a run that already has the same result needs no write.
ReadResult(a) ==
    /\ At(a, "readResult")
    /\ Turn(a, CASE IsActive             -> Tail(script[a])
                 [] status = "succeeded" -> <<"removeJob">>
                 [] OTHER                -> FinishErrorScript)
    /\ UNCHANGED <<runVars, job, pushed, knows>>

\* Its write: whatever the status is by now.
WriteResult(a) ==
    /\ At(a, "writeResult")
    /\ status' = "succeeded"
    /\ stale' = FALSE
    /\ Advance(a)
    /\ UNCHANGED <<queued, hold, session, job, pushed, knows>>

-----------------------------------------------------------------------------
(* stop. *)

\* stopRun found the run active and asks its executor to stop it.
RequestStop ==
    /\ script[Stopper] = <<>>
    /\ IsActive
    /\ Turn(Stopper, <<"stop">>)
    /\ UNCHANGED <<runVars, job, pushed, knows>>

\* The session and the handle it will end are the ones loaded here.
LoadStop ==
    /\ At(Stopper, "stop")
    /\ Load(Stopper)
    /\ Turn(Stopper, (IF IsActive THEN StopScript ELSE CleanupScript) \o <<"cancelPending">>)
    /\ UNCHANGED <<runVars, job, pushed>>

\* The fence.  When the run ended since the load, its finisher owns the cleanup.
Cancel ==
    /\ At(Stopper, "cancel")
    /\ \/ Terminate(Stopper, "cancelled")
       \/ ~IsActive /\ Turn(Stopper, <<"cancelPending">>) /\ UNCHANGED <<status, stale>>
    /\ UNCHANGED <<queued, hold, session, job, pushed, knows>>

\* stopRun's own update, for a run that never started and no executor ended.
CancelPending ==
    /\ At(Stopper, "cancelPending")
    /\ status' = IF status = "pending" THEN "cancelled" ELSE status
    /\ Advance(Stopper)
    /\ UNCHANGED <<queued, hold, session, stale, job, pushed, knows>>

-----------------------------------------------------------------------------
(* The reconciler: reconcileOnce and recover. *)

\* A stale active run is a candidate; one with no claim or handle is lost directly.
PickStale ==
    /\ script[Reconciler] = <<>>
    /\ stale /\ IsActive
    /\ Turn(Reconciler, CASE hold = "none"   -> <<"sweep">>
                          [] hold = "handle" -> <<"recoverHandle">>
                          [] OTHER           -> <<"recoverClaim">>)
    /\ UNCHANGED <<runVars, job, pushed, knows>>

\* Mutant: a silent claim is given more time.
KeepClaim ==
    /\ At(Reconciler, "recoverClaim")
    /\ Turn(Reconciler, <<"heartbeat">>)
    /\ UNCHANGED <<runVars, job, pushed, knows>>

\* A provisioning claim whose holder went silent: nothing is launched in its place.
RecoverClaim ==
    /\ At(Reconciler, "recoverClaim")
    /\ Load(Reconciler)
    /\ Turn(Reconciler, IF IsActive THEN AbandonScript ELSE CleanupScript)
    /\ UNCHANGED <<runVars, job, pushed>>

RecoverHandle ==
    /\ At(Reconciler, "recoverHandle")
    /\ Load(Reconciler)
    /\ Turn(Reconciler, CASE ~IsActive       -> CleanupScript
                          [] hold = "handle" -> <<"inspect">>
                          [] OTHER           -> AbandonScript)
    /\ UNCHANGED <<runVars, job, pushed>>

\* Mutant: a job whose pod is still awaited counts as one that was never launched.
InspectProvisioning ==
    /\ At(Reconciler, "inspect")
    /\ Turn(Reconciler, CASE job \in {"absent", "removed"}          -> AbandonScript
                          [] job \in {"requeued", "provisioning"} -> <<"requeue", "heartbeat">>
                          [] job = "running"                      -> <<"heartbeat">>
                          [] OTHER                                -> FinishScript \o <<"sweep">>)
    /\ UNCHANGED <<runVars, job, pushed, knows>>

\* What the launcher says of the job decides.
Inspect ==
    /\ At(Reconciler, "inspect")
    /\ Turn(Reconciler, CASE job \in {"absent", "removed"}       -> AbandonScript
                          [] job = "requeued"                    -> <<"requeue", "heartbeat">>
                          [] job \in {"provisioning", "running"} -> <<"heartbeat">>
                          [] OTHER                               -> FinishScript \o <<"sweep">>)
    /\ UNCHANGED <<runVars, job, pushed, knows>>

\* The job is alive: the pass refreshes the heartbeat of a run still active.
KeepAlive ==
    /\ At(Reconciler, "heartbeat")
    /\ stale' = FALSE
    /\ Advance(Reconciler)
    /\ UNCHANGED <<status, queued, hold, session, job, pushed, knows>>

\* abandon's terminate.
Lose ==
    /\ At(Reconciler, "lose")
    /\ \/ Terminate(Reconciler, "lost")
       \/ ~IsActive /\ Advance(Reconciler) /\ UNCHANGED <<status, stale>>
    /\ UNCHANGED <<queued, hold, session, job, pushed, knows>>

\* The pass's own update, only of a run still stale.
Sweep ==
    /\ At(Reconciler, "sweep")
    /\ IF IsActive /\ stale
       THEN status' = "lost" /\ stale' = FALSE
       ELSE UNCHANGED <<status, stale>>
    /\ Advance(Reconciler)
    /\ UNCHANGED <<queued, hold, session, job, pushed, knows>>

-----------------------------------------------------------------------------
(* The environment. *)

\* Steps under a heartbeat, or a few database calls after one.  Preparing a workspace
\* and collecting and pushing a result are long, and beat no heartbeat.
IsPrompt(p) ==
    \/ script[p] = RefusedScript
    \/ \E step \in {"checkRun", "createSession", "readRun", "writeHandle", "launch", "awaitPod",
                    "follow", "reload", "requeue", "fail"} : At(p, step)

\* A run waiting in the queue is never stale.
HeartbeatExpires ==
    /\ ~stale /\ IsActive /\ ~queued
    /\ Stalls \/ ~\E p \in Executor : IsPrompt(p)
    /\ stale' = TRUE
    /\ UNCHANGED <<status, queued, hold, session, job, pushed, script, knows>>

\* The worker finishes, fails or hits the job's deadline; so does a pod nobody awaits.
JobEnds ==
    /\ \/ job = "running" /\ job' \in {"succeeded", "failed"}
       \/ /\ job = "provisioning"
          /\ ~\E p \in Executor : At(p, "awaitPod")
          /\ job' = "failed"
    /\ UNCHANGED <<runVars, pushed, script, knows>>

Crash(a) ==
    /\ a \in Fallible
    /\ script[a] # <<>>
    /\ Turn(a, <<>>)
    /\ knows' = [knows EXCEPT ![a] = KnowsNothing]
    /\ UNCHANGED <<runVars, job, pushed>>

-----------------------------------------------------------------------------

AttemptStep(p) ==
    \/ LoadRun(p) \/ Claim(p) \/ ClaimRefused(p) \/ Prepare(p) \/ CheckRun(p)
    \/ CreateSession(p) \/ ReadRun(p) \/ WriteHandle(p)
    \/ Launch(p) \/ Launched(p) \/ LaunchFailed(p) \/ LaunchRefused(p)
    \/ JobSeenAlive(p) \/ JobSeenEnded(p) \/ Reload(p)

SharedStep(a) ==
    \/ CancelSession(a) \/ StopJob(a) \/ RemoveJob(a) \/ Fail(a)
    \/ Requeue(a) \/ RequeueNotOwned(a) \/ RequeueSpent(a)
    \/ Collect(a) \/ CheckActive(a) \/ NoChanges(a) \/ Push(a) \/ ReadResult(a) \/ WriteResult(a)

RecoveryStep ==
    \/ RecoverClaim \/ RecoverHandle \/ Inspect \/ KeepAlive \/ Lose \/ Sweep

Finished ==
    /\ ~IsActive
    /\ \A a \in Actor : script[a] = <<>>
    /\ UNCHANGED vars

Next ==
    \/ \E p \in Executor : Start(p) \/ AttemptStep(p) \/ Heartbeat(p)
    \/ \E a \in Actor : SharedStep(a) \/ Crash(a)
    \/ RequestStop \/ LoadStop \/ Cancel \/ CancelPending
    \/ PickStale \/ RecoveryStep
    \/ HeartbeatExpires
    \/ JobEnds
    \/ Finished

Spec == Init /\ [][Next]_vars

\* A live process goes on with what it started; the queue's drain and the reconciler
\* run on timers; time passes; a job has a deadline.  Nobody has to stop the run.
Fairness ==
    /\ \A p \in Executor : WF_vars(Start(p)) /\ WF_vars(AttemptStep(p))
    /\ \A a \in Actor : WF_vars(SharedStep(a))
    /\ WF_vars(LoadStop \/ Cancel \/ CancelPending) /\ WF_vars(PickStale) /\ WF_vars(RecoveryStep)
    /\ WF_vars(HeartbeatExpires) /\ WF_vars(JobEnds)

FairSpec == Spec /\ Fairness

-----------------------------------------------------------------------------
(* Properties. *)

\* The first terminal write wins and a finished run is never rewritten, whatever a
\* stop, a finisher and the reconciler do at the same time.
FirstTerminalWriteWins == [][~IsActive => status' = status]_vars

\* What the code keeps of it: a terminal status is rewritten only by a transaction that
\* had read the run active (complete, persistHandle), never by a conditional update.
OnlyOpenWritesRewrite ==
    [][~IsActive /\ status' # status =>
           \E a \in Actor : At(a, "writeResult") \/ At(a, "writeHandle")]_vars

\* A stopped run opens or updates no pull request, even when its worker had finished.
StoppedRunPushesNothing == [][pushed' # pushed => status # "cancelled"]_vars

\* A job that exists for an active run can be found: its handle is persisted, so a crash
\* in the middle of the launch leaves nothing that recovery cannot stop.
PodIsReachable ==
    Planned /\ IsActive /\ job \in {"provisioning", "running"} => hold = "handle"

\* At most one attempt is between its claim and its launch, so a run never has two
\* workers, although attempts are claimed, requeued and recovered by many processes.
IsLaunching(p) == \E i \in DOMAIN script[p] : script[p][i] \in {"launch", "awaitPod"}

OneLauncher ==
    IsActive => \A p, q \in Executor : IsLaunching(p) /\ IsLaunching(q) => p = q

\* Only an attempt whose pod never started goes back to the queue: requeuing changes
\* nothing unless the caller still owns the run.
OnlyUnstartedIsRequeued ==
    [][hold # "none" /\ hold' = "none" => job \notin {"provisioning", "running"}]_vars

\* A worker never runs without its proxy session: a requeue drops the session of an
\* attempt that never started, and no other.
WorkerHasSession == job \in {"provisioning", "running"} => session # "none"

\* A claimed run ends or is queued again, also when the process that claimed it dies.
ClaimEnds == hold # "none" ~> (~IsActive \/ queued)

JobIsGone == job \in {"absent", "requeued", "unlaunched", "removed"}

\* A run recorded as succeeded leaves no job and no usable session behind: whoever records
\* it, its attempt or a recovery, cleans up after that unless it dies (finishTerminal).
Died(a) == script[a] = <<>> /\ knows[a] = KnowsNothing

FinishedIsCleanedUp ==
    \A a \in Actor \ {Stopper} :
        At(a, "writeResult") ~> (JobIsGone /\ session # "active") \/ Died(a)

\* A stopped run's job is stopped and removed, when no process dies.
StoppedJobIsRemoved == status = "cancelled" ~> JobIsGone
=============================================================================
