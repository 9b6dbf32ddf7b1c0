------------------------------ MODULE DurableRun ------------------------------
(***************************************************************************)
(* A native run as a durable workflow: one run row, the workflows that     *)
(* drive it, the processes that execute them, and its delegated children.  *)
(*                                                                         *)
(* A workflow records the outcome of each step; an execution of it that    *)
(* starts over replays what is recorded and repeats the rest.  A process   *)
(* that dies or goes silent leaves its workflow to the reconciler of       *)
(* another: resumed under the same application version, taken over by a    *)
(* fork under another, or given up.  Two executions of the same run may    *)
(* therefore overlap.                                                      *)
(*                                                                         *)
(* The run takes the steps load, a first model turn, the delegate calls    *)
(* of that turn, started together, and a last turn.  The row's columns     *)
(* (Run.status, ...) are one database; the workflows and their records     *)
(* (the durable execution library's tables) are another, with no           *)
(* transaction over both.                                                  *)
(***************************************************************************)
EXTENDS Integers, FiniteSets, SequencesExt

CONSTANTS
    Proc,            \* the processes
    Nobody,          \* no process
    FixedId,         \* those started with a DBOS_EXECUTOR_ID, which they keep
    Version,         \* the application versions
    Calls,           \* how many delegate calls the first turn makes
    MaxDelegations,  \* the agent's maxDelegationsPerRun
    MaxResume,       \* MAX_RESUME_ATTEMPTS
    MaxForks,        \* bound: forks of forks
    MaxPrice,        \* bound: versions of the model catalog
    MaxPasses,       \* bound: passes of the reconciler at once
    MaxFaults        \* bound: processes that die at work, and heartbeats missed by one that lives

ASSUME DurableRunAssumption ==
    /\ IsFiniteSet(Proc)
    /\ Nobody \notin Proc
    /\ FixedId \subseteq Proc
    /\ 0 \notin Version
    /\ {Calls, MaxDelegations, MaxResume, MaxForks, MaxPasses, MaxFaults} \subseteq Nat
    /\ MaxPrice \in Nat \ {0}

Load == 1
FirstTurn == 2
CallStep == 3 .. Calls + 2
LastTurn == Calls + 3
Step == 1 .. LastTurn
PaidStep == {FirstTurn, LastTurn}
Price == 1 .. MaxPrice

VARIABLES
    status,       \* Run.status; "succeeded" is any end the engine reaches
    named,        \* Run.executionWorkflowId, <<>> while it is null
    price,        \* the version of Run.pricingSnapshot, 0 while it is null
    stale,        \* the reconciler's condition holds of the row
    children,     \* children[s]: the run whose parentCallId is call s, if any
    catalog,      \* the current version of the model catalog
    wf,           \* wf[w]: the workflow w; the base workflow is <<>>, a fork of w is w \o <<v>>
    version,      \* version[p]: the version p runs, 0 while it is down
    at,           \* at[p]: the execution p is in the middle of
    rec,          \* rec[p]: the reconciler's pass in p
    tries,        \* tries[p]: p's adoption attempts (resumeAttempts)
    starter,      \* the process whose start() waits for the base workflow
    stop,         \* how far the one stop request is
    faults,       \* how much of MaxFaults is used
    paidAt,       \* history: the prices that turns were paid at
    overlapped    \* history: two executions were delegating at once

rowVars == <<status, named, price, stale, children>>
history == <<paidAt, overlapped>>
vars == <<rowVars, catalog, wf, version, at, rec, tries, starter, stop, faults, history>>

-----------------------------------------------------------------------------
(* State. *)

WorkflowId == BoundedSeq(Version, MaxForks)
Outcome == {"none", "done", "refused", "failed"}
StepPhase == {"idle", "checked", "unread", "seeking", "admitted", "waiting", "settled", "done",
              "failed", "stopped", "lost"}

Workflow ==
    [status : {"none", "enqueued", "pending", "cancelled", "error", "finished"},
     owner : Proc \cup {Nobody}, version : Version \cup {0},
     done : [Step -> Outcome], price : Price \cup {0}]

NoWorkflow == [status |-> "none", owner |-> Nobody, version |-> 0,
               done |-> [s \in Step |-> "none"], price |-> 0]

Execution ==
    [phase : {"idle", "loading", "running", "closing"}, wf : WorkflowId,
     step : [Step -> StepPhase], price : Price \cup {0}, late : Nat]

ExecutionOf(phase, w) ==
    [phase |-> phase, wf |-> w, step |-> [s \in Step |-> "idle"], price |-> 0, late |-> 0]

Idle == ExecutionOf("idle", <<>>)

Pass ==
    [phase : {"idle", "resuming", "forking", "naming", "cancelling", "failing", "losing", "reaping"},
     wf : WorkflowId]

NoPass == [phase |-> "idle", wf |-> <<>>]

\* A run as start() left it: pending, its backend recorded, no workflow yet.
Init ==
    /\ status = "pending" /\ named = <<>> /\ price = 0 /\ stale = FALSE
    /\ children = [s \in CallStep |-> "none"]
    /\ catalog = 1
    /\ wf = [w \in WorkflowId |-> NoWorkflow]
    /\ version \in [Proc -> Version]
    /\ at = [p \in Proc |-> Idle]
    /\ rec = [p \in Proc |-> NoPass]
    /\ tries = [p \in Proc |-> 0]
    /\ starter = Nobody /\ stop = "none"
    /\ faults = 0
    /\ paidAt = {} /\ overlapped = FALSE

Drivable == status \in {"pending", "running"}

\* The conditional terminal write: only a pending or running row changes.
Finished(end) == IF Drivable THEN end ELSE status

IsForkOf(w, from) == IsStrictPrefix(from, w)

IsUp(p) == version[p] # 0
IsExecuting(p) == at[p].phase # "idle"
Own(p) == wf[at[p].wf]

Cancellable(w) == wf[w].status \in {"enqueued", "pending"}

Stepped(e, s, phase) == [e EXCEPT !.step[s] = phase]
Priced(e, x) == [e EXCEPT !.price = x]
SetStep(p, s, phase) == at' = [at EXCEPT ![p] = Stepped(@, s, phase)]

-----------------------------------------------------------------------------
(* An execution: start, resume or redrive. *)

\* The first beat, the row as this execution knows it from here on, and the pre-flight guard:
\* a run that ended is not executed again.
Enter(p, w) ==
    /\ at' = [at EXCEPT ![p] = Priced(ExecutionOf(IF Drivable THEN "loading" ELSE "closing", w), price)]
    /\ stale' = (stale /\ status = "pending")

\* start(): the base workflow is the run's own id; this process waits for its result.
Launch(p) ==
    /\ IsUp(p)
    /\ ~IsExecuting(p)
    /\ wf[<<>>].status = "none"
    /\ wf' = [wf EXCEPT ![<<>>] = [NoWorkflow EXCEPT !.status = "pending", !.owner = p,
                                                    !.version = version[p]]]
    /\ Enter(p, <<>>)
    /\ starter' = p
    /\ UNCHANGED <<status, named, price, children, catalog, version, rec, tries, stop, faults, history>>

\* The queue hands a workflow to a process of its version.
Dequeue(p, w) ==
    /\ IsUp(p)
    /\ ~IsExecuting(p)
    /\ wf[w].status = "enqueued"
    /\ wf[w].version = version[p]
    /\ wf' = [wf EXCEPT ![w].status = "pending", ![w].owner = p]
    /\ Enter(p, w)
    /\ UNCHANGED <<status, named, price, children, catalog, version, rec, tries, starter, stop, faults, history>>

\* Steps run one after the other, the calls of a turn together; their checks keep the calls' order.
IsNext(p, s) ==
    /\ at[p].step[s] = "idle"
    /\ at[p].phase = IF s = Load THEN "loading" ELSE "running"
    /\ \A t \in 1 .. s - 1 :
           IF {s, t} \subseteq CallStep THEN at[p].step[t] # "idle" ELSE at[p].step[t] = "done"

\* Mutant: only a takeover is noticed, not an end.
VerdictOfFork(p) == IF IsForkOf(named, at[p].wf) THEN "lost" ELSE "checked"

\* What the row says of a step about to run: the run moved to a fork, it ended, or neither.
Verdict(p) ==
    IF IsForkOf(named, at[p].wf) THEN "lost"
    ELSE IF ~Drivable THEN "stopped" ELSE "checked"

IsRecorded(p, s) == Own(p).status # "cancelled" /\ Own(p).done[s] # "none"

\* A recorded step returns its record, or throws it.
Replayed(p, s) ==
    at' = [at EXCEPT ![p] = Stepped(Priced(@, IF s = Load THEN Own(p).price ELSE at[p].price), s,
                                    IF Own(p).done[s] = "failed" THEN "failed" ELSE "done")]

\* stopAwareStep: the row is read before each step.  (A step recorded by then returns at once.)
Check(p, s) ==
    /\ IsNext(p, s)
    /\ IF Verdict(p) = "checked" /\ IsRecorded(p, s) THEN Replayed(p, s)
                                                     ELSE SetStep(p, s, Verdict(p))
    /\ UNCHANGED <<rowVars, catalog, wf, version, rec, tries, starter, stop, faults, history>>

\* A read that fails lets the step run.
CheckFails(p, s) ==
    /\ IsNext(p, s)
    /\ Verdict(p) # "checked"
    /\ SetStep(p, s, "unread")
    /\ UNCHANGED <<rowVars, catalog, wf, version, rec, tries, starter, stop, faults, history>>

IsCleared(p, s) == at[p].step[s] \in {"checked", "unread"}

\* Mutant: every cancellation is taken for a stop.
RefuseAsStopped(p, s) ==
    /\ IsCleared(p, s)
    /\ Own(p).status = "cancelled"
    /\ SetStep(p, s, "stopped")
    /\ UNCHANGED <<rowVars, catalog, wf, version, rec, tries, starter, stop, faults, history>>

\* The library refuses a step of a cancelled workflow; after a takeover that is no stop.
RefuseCancelled(p, s) ==
    /\ IsCleared(p, s)
    /\ Own(p).status = "cancelled"
    /\ SetStep(p, s, IF IsForkOf(named, at[p].wf) THEN "lost" ELSE "stopped")
    /\ UNCHANGED <<rowVars, catalog, wf, version, rec, tries, starter, stop, faults, history>>

\* Another execution recorded the step since the check.
Replay(p, s) ==
    /\ IsCleared(p, s)
    /\ IsRecorded(p, s)
    /\ Replayed(p, s)
    /\ UNCHANGED <<rowVars, catalog, wf, version, rec, tries, starter, stop, faults, history>>

\* Otherwise its body runs.
Runs(p, s) ==
    /\ IsCleared(p, s)
    /\ Own(p).status # "cancelled"
    /\ Own(p).done[s] = "none"

\* Mutant: what the execution resolved is pinned, whoever pinned before.
PinAnyway(p) ==
    /\ Runs(p, Load)
    /\ price' = IF at[p].price = 0 THEN catalog ELSE price
    /\ at' = [at EXCEPT ![p] = Stepped(Priced(@, IF at[p].price # 0 THEN at[p].price ELSE catalog),
                                       Load, "settled")]
    /\ UNCHANGED <<status, named, stale, children, catalog, wf, version, rec, tries, starter, stop,
                   faults, history>>

\* pinNativeRunPricing: what the execution read pinned, else what it pins, else what another pinned.
Pin(p) ==
    /\ Runs(p, Load)
    /\ price' = IF at[p].price = 0 /\ price = 0 THEN catalog ELSE price
    /\ at' = [at EXCEPT ![p] = Stepped(Priced(@, IF at[p].price # 0 THEN at[p].price ELSE price'),
                                       Load, "settled")]
    /\ UNCHANGED <<status, named, stale, children, catalog, wf, version, rec, tries, starter, stop,
                   faults, history>>

\* The run ended, or moved to a fork of this execution's workflow.
IsOver(p) == ~Drivable \/ IsForkOf(named, at[p].wf)

\* Turn s was checked before that.
IsLate(p, s) == IsOver(p) /\ at[p].step[s] = "checked"
Late(e) == [e EXCEPT !.late = @ + 1]

\* A model turn is paid for as it starts.
PayTurn(p, s) ==
    /\ s \in PaidStep
    /\ Runs(p, s)
    /\ at' = [at EXCEPT ![p] = Stepped(IF IsLate(p, s) THEN Late(at[p]) ELSE at[p], s, "settled")]
    /\ paidAt' = paidAt \cup {at[p].price}
    /\ UNCHANGED <<rowVars, catalog, wf, version, rec, tries, starter, stop, faults, overlapped>>

Noted(w, s, outcome, x) == [w EXCEPT !.done[s] = outcome, !.price = x]

\* The outcome is recorded, unless another execution recorded the step first.
Recorded(p, s, outcome) ==
    IF Own(p).done[s] # "none"
    THEN /\ SetStep(p, s, "lost")
         /\ UNCHANGED wf
    ELSE /\ SetStep(p, s, IF outcome = "failed" THEN "failed" ELSE "done")
         /\ wf' = [wf EXCEPT ![at[p].wf] =
                       Noted(@, s, outcome, IF s = Load THEN at[p].price ELSE Own(p).price)]

Record(p, s) ==
    /\ at[p].step[s] = "settled"
    /\ Recorded(p, s, "done")
    /\ UNCHANGED <<rowVars, catalog, version, rec, tries, starter, stop, faults, history>>

\* The load throws: the agent is gone, two tools share a name, the database fails.
FailToLoad(p) ==
    /\ Runs(p, Load)
    /\ Recorded(p, Load, "failed")
    /\ UNCHANGED <<rowVars, catalog, version, rec, tries, starter, stop, faults, history>>

\* Mutant: a run that ended meanwhile becomes running again.
MarkRunningAlways(p) ==
    /\ at[p].phase = "loading"
    /\ at[p].step[Load] = "done"
    /\ status' = "running"
    /\ stale' = FALSE
    /\ at' = [at EXCEPT ![p].phase = "running"]
    /\ UNCHANGED <<named, price, children, catalog, wf, version, rec, tries, starter, stop,
                   faults, history>>

\* The loaded run becomes running, unless it ended meanwhile.
MarkRunning(p) ==
    /\ at[p].phase = "loading"
    /\ at[p].step[Load] = "done"
    /\ status' = Finished("running")
    /\ stale' = (stale /\ ~Drivable)
    /\ at' = [at EXCEPT ![p].phase = "running"]
    /\ UNCHANGED <<named, price, children, catalog, wf, version, rec, tries, starter, stop,
                   faults, history>>

-----------------------------------------------------------------------------
(* A delegate call. *)

\* p is past looking for the child of a call, and has not got its result.
IsDelegating(p) == \E s \in CallStep : at[p].step[s] \in {"seeking", "admitted", "waiting"}

\* Mutant: a child that ended is not found.
FindLiveChild(p, s) ==
    /\ s \in CallStep
    /\ Runs(p, s)
    /\ SetStep(p, s, IF children[s] = "live" THEN "waiting" ELSE "seeking")
    /\ overlapped' = (overlapped \/ \E q \in Proc \ {p} : IsDelegating(q))
    /\ UNCHANGED <<rowVars, catalog, wf, version, rec, tries, starter, stop, faults, paidAt>>

\* findDelegationChild: a child this very call created, in any status, is waited on again.
FindChild(p, s) ==
    /\ s \in CallStep
    /\ Runs(p, s)
    /\ SetStep(p, s, IF children[s] # "none" THEN "waiting" ELSE "seeking")
    /\ overlapped' = (overlapped \/ \E q \in Proc \ {p} : IsDelegating(q))
    /\ UNCHANGED <<rowVars, catalog, wf, version, rec, tries, starter, stop, faults, paidAt>>

Dispatched == {s \in CallStep : children[s] # "none"}

\* Under the execution's gate, the children are counted: one per call, at most the limit.
IsRefused(s) == s \in Dispatched \/ Cardinality(Dispatched) >= MaxDelegations

\* Mutant: no gate.
IsUngated(p, s) == at[p].step[s] = "seeking"

IsAtGate(p, s) ==
    /\ at[p].step[s] = "seeking"
    /\ \A t \in CallStep : at[p].step[t] # "admitted"

Admit(p, s) ==
    /\ IsAtGate(p, s)
    /\ ~IsRefused(s)
    /\ SetStep(p, s, "admitted")
    /\ UNCHANGED <<rowVars, catalog, wf, version, rec, tries, starter, stop, faults, history>>

\* The refusal is the call's result.
Refuse(p, s) ==
    /\ IsAtGate(p, s)
    /\ IsRefused(s)
    /\ Recorded(p, s, "refused")
    /\ UNCHANGED <<rowVars, catalog, version, rec, tries, starter, stop, faults, history>>

\* The child's row is written, or its key is taken and that child waited on; the gate opens.
CreateChild(p, s) ==
    /\ at[p].step[s] = "admitted"
    /\ children' = IF s \in Dispatched THEN children ELSE [children EXCEPT ![s] = "live"]
    /\ SetStep(p, s, "waiting")
    /\ UNCHANGED <<status, named, price, stale, catalog, wf, version, rec, tries, starter, stop,
                   faults, history>>

\* waitForCodingChild: until the child ended; if the run ended first, the child is stopped.
Await(p, s) ==
    /\ at[p].step[s] = "waiting"
    /\ children[s] = "ended" \/ ~Drivable
    /\ children' = [children EXCEPT ![s] = "ended"]
    /\ Recorded(p, s, "done")
    /\ UNCHANGED <<status, named, price, stale, catalog, version, rec, tries, starter, stop,
                   faults, history>>

ChildEnds(s) ==
    /\ children[s] = "live"
    /\ children' = [children EXCEPT ![s] = "ended"]
    /\ UNCHANGED <<status, named, price, stale, catalog, wf, version, at, rec, tries, starter, stop,
                   faults, history>>

-----------------------------------------------------------------------------
(* The end of an execution. *)

Thrown == {"failed", "stopped", "lost"}
Threw(p, how) == \E s \in Step : at[p].step[s] = how

\* A step threw, and every call started with it has settled.
IsAbandoned(p) ==
    /\ \E how \in Thrown : Threw(p, how)
    /\ \A s \in Step : at[p].step[s] \in {"idle", "done"} \cup Thrown
    /\ (\E s \in CallStep : at[p].step[s] \in Thrown) =>
           \A s \in CallStep : at[p].step[s] # "idle"

\* An ownership loss wins: no write, and the library parks the execution.
Park(p) ==
    /\ IsAbandoned(p)
    /\ Threw(p, "lost")
    /\ at' = [at EXCEPT ![p] = Idle]
    /\ UNCHANGED <<rowVars, catalog, wf, version, rec, tries, starter, stop, faults, history>>

\* What the load step throws is ahead of the backstop: it becomes the workflow's error.
FailWorkflow(p) ==
    /\ IsAbandoned(p)
    /\ ~Threw(p, "lost")
    /\ at[p].phase = "loading"
    /\ at' = [at EXCEPT ![p] = Idle]
    /\ wf' = IF Cancellable(at[p].wf) THEN [wf EXCEPT ![at[p].wf].status = "error"] ELSE wf
    /\ UNCHANGED <<rowVars, catalog, version, rec, tries, starter, stop, faults, history>>

\* The backstop: the run is cancelled, unless it ended already.
CancelRun(p) ==
    /\ IsAbandoned(p)
    /\ ~Threw(p, "lost")
    /\ at[p].phase = "running"
    /\ status' = Finished("cancelled")
    /\ at' = [at EXCEPT ![p] = ExecutionOf("closing", at[p].wf)]
    /\ UNCHANGED <<named, price, stale, children, catalog, wf, version, rec, tries, starter, stop,
                   faults, history>>

\* finishNativeRun.
Finish(p) ==
    /\ at[p].phase = "running"
    /\ at[p].step[LastTurn] = "done"
    /\ status' = Finished("succeeded")
    /\ at' = [at EXCEPT ![p] = ExecutionOf("closing", at[p].wf)]
    /\ UNCHANGED <<named, price, stale, children, catalog, wf, version, rec, tries, starter, stop,
                   faults, history>>

\* The workflow's body returned.
Close(p) ==
    /\ at[p].phase = "closing"
    /\ at' = [at EXCEPT ![p] = Idle]
    /\ wf' = IF Cancellable(at[p].wf) THEN [wf EXCEPT ![at[p].wf].status = "finished"] ELSE wf
    /\ UNCHANGED <<rowVars, catalog, version, rec, tries, starter, stop, faults, history>>

\* start()'s wait ends badly: the run is marked failed, unless a fork drives it.
StartFails(p) ==
    /\ starter = p
    /\ wf[<<>>].status \in {"cancelled", "error"}
    /\ starter' = Nobody
    /\ status' = IF named = <<>> THEN Finished("failed") ELSE status
    /\ UNCHANGED <<named, price, stale, children, catalog, wf, version, at, rec, tries, stop,
                   faults, history>>

-----------------------------------------------------------------------------
(* Processes, time and the catalog. *)

\* A process dies in the middle of something; one with a random executor id never returns under it.
Crash(p) ==
    /\ IsUp(p)
    /\ IsExecuting(p) \/ rec[p].phase # "idle"
    /\ faults < MaxFaults
    /\ faults' = faults + 1
    /\ version' = [version EXCEPT ![p] = 0]
    /\ at' = [at EXCEPT ![p] = Idle]
    /\ rec' = [rec EXCEPT ![p] = NoPass]
    /\ tries' = [tries EXCEPT ![p] = 0]
    /\ starter' = IF starter = p THEN Nobody ELSE starter
    /\ wf' = IF p \in FixedId THEN wf
             ELSE [w \in WorkflowId |-> IF wf[w].owner = p THEN [wf[w] EXCEPT !.owner = Nobody] ELSE wf[w]]
    /\ UNCHANGED <<rowVars, catalog, stop, history>>

\* launch(): the process's own pending workflows of its version run again.
IsRedriven(p, w, v) == wf[w].status = "pending" /\ wf[w].owner = p /\ wf[w].version = v

Restart(p, v) ==
    /\ ~IsUp(p)
    /\ version' = [version EXCEPT ![p] = v]
    /\ \/ \E w \in WorkflowId :
             IsRedriven(p, w, v) /\ Enter(p, w)
       \/ (\A w \in WorkflowId : ~IsRedriven(p, w, v)) /\ UNCHANGED <<at, stale>>
    /\ UNCHANGED <<status, named, price, children, catalog, wf, rec, tries, starter, stop, faults, history>>

Beat(p) ==
    /\ IsExecuting(p)
    /\ stale
    /\ status # "pending"
    /\ stale' = FALSE
    /\ UNCHANGED <<status, named, price, children, catalog, wf, version, at, rec, tries, starter, stop,
                   faults, history>>

\* HEARTBEAT_TIMEOUT passes: of a pending row since it was created, of a running one without a
\* beat.  With nobody at work on a run that was started, it always does.
Lapse ==
    /\ ~stale
    /\ Drivable
    /\ stale' = TRUE
    /\ IF wf[<<>>].status # "none" /\ \A p \in Proc : ~IsExecuting(p)
       THEN UNCHANGED faults
       ELSE faults < MaxFaults /\ faults' = faults + 1
    /\ UNCHANGED <<status, named, price, children, catalog, wf, version, at, rec, tries, starter, stop, history>>

UpdateCatalog ==
    /\ catalog < MaxPrice
    /\ catalog' = catalog + 1
    /\ UNCHANGED <<rowVars, wf, version, at, rec, tries, starter, stop, faults, history>>

-----------------------------------------------------------------------------
(* The reconciler. *)

\* decideTakeover: the run waits in a delegate call of the turn recorded last.
IsWaitingOnCalls(w) ==
    /\ wf[w].done[FirstTurn] # "none"
    /\ wf[w].done[LastTurn] = "none"
    /\ \E s \in CallStep : wf[w].done[s] = "none"
    /\ Len(w) < MaxForks

\* Mutant: one adoption attempt too many.
AnswerOnceMore(p, w) ==
    CASE wf[w].status = "none" -> "losing"
      [] wf[w].status \in {"cancelled", "error", "finished"} -> "failing"
      [] wf[w].status = "pending" /\ wf[w].owner = p -> "idle"
      [] OTHER ->
           IF wf[w].version # version[p]
           THEN IF IsWaitingOnCalls(w) /\ tries[p] <= MaxResume THEN "forking" ELSE "losing"
           ELSE IF tries[p] <= MaxResume THEN "resuming" ELSE "losing"

\* decideRecovery, takeOver and shouldGiveUpAdoption: what p will do about the named workflow.
Answer(p, w) ==
    CASE wf[w].status = "none" -> "losing"
      [] wf[w].status \in {"cancelled", "error", "finished"} -> "failing"
      [] wf[w].status = "pending" /\ wf[w].owner = p -> "idle"
      [] OTHER ->
           IF wf[w].version # version[p]
           THEN IF IsWaitingOnCalls(w) /\ tries[p] < MaxResume THEN "forking" ELSE "losing"
           ELSE IF tries[p] < MaxResume THEN "resuming" ELSE "losing"

\* A stale run is claimed by a beat, and the workflow's state decides.
Reconcile(p) ==
    /\ IsUp(p)
    /\ rec[p].phase = "idle"
    /\ Cardinality({q \in Proc : rec[q].phase # "idle"}) < MaxPasses
    /\ Drivable
    /\ stale
    /\ stale' = (status = "pending")
    /\ LET answer == Answer(p, named) IN
       /\ rec' = [rec EXCEPT ![p] = [phase |-> answer, wf |-> named]]
       /\ tries' = [tries EXCEPT ![p] = IF answer \in {"forking", "resuming"} THEN @ + 1 ELSE 0]
    /\ UNCHANGED <<status, named, price, children, catalog, wf, version, at, starter, stop,
                   faults, history>>

At(p, phase) == rec[p].phase = phase
Proceed(p, phase) == rec' = [rec EXCEPT ![p].phase = phase]

\* resumeWorkflow: any process of the version may run it now, unless it finished.
Resume(p) ==
    /\ At(p, "resuming")
    /\ wf' = IF wf[rec[p].wf].status \in {"error", "finished"} THEN wf
             ELSE [wf EXCEPT ![rec[p].wf].status = "enqueued", ![rec[p].wf].owner = Nobody]
    /\ rec' = [rec EXCEPT ![p] = NoPass]
    /\ UNCHANGED <<rowVars, catalog, version, at, tries, starter, stop, faults, history>>

\* The records before the first gap.
CopiedDone(done) ==
    [s \in Step |-> IF \A t \in 1 .. s : done[t] # "none" THEN done[s] ELSE "none"]

\* forkWorkflow, unless a takeover that got no further left the fork behind.
Fork(p) ==
    /\ At(p, "forking")
    /\ LET fork == Append(rec[p].wf, version[p]) IN
       wf' = IF wf[fork].status # "none" THEN wf
             ELSE [wf EXCEPT ![fork] = [status |-> "enqueued", owner |-> Nobody, version |-> version[p],
                                        done |-> CopiedDone(wf[rec[p].wf].done),
                                        price |-> wf[rec[p].wf].price]]
    /\ Proceed(p, "naming")
    /\ UNCHANGED <<rowVars, catalog, version, at, tries, starter, stop, faults, history>>

\* The run names its fork, whatever became of the run.
NameFork(p) ==
    /\ At(p, "naming")
    /\ named' = Append(rec[p].wf, version[p])
    /\ Proceed(p, "cancelling")
    /\ UNCHANGED <<status, price, stale, children, catalog, wf, version, at, tries, starter, stop,
                   faults, history>>

CancelOriginal(p) ==
    /\ At(p, "cancelling")
    /\ wf' = IF Cancellable(rec[p].wf) THEN [wf EXCEPT ![rec[p].wf].status = "cancelled"] ELSE wf
    /\ rec' = [rec EXCEPT ![p] = NoPass]
    /\ UNCHANGED <<rowVars, catalog, version, at, tries, starter, stop, faults, history>>

MarkFailed(p) ==
    /\ At(p, "failing")
    /\ status' = Finished("failed")
    /\ rec' = [rec EXCEPT ![p] = NoPass]
    /\ UNCHANGED <<named, price, stale, children, catalog, wf, version, at, tries, starter, stop,
                   faults, history>>

MarkLost(p) ==
    /\ At(p, "losing")
    /\ status' = Finished("lost")
    /\ rec' = [rec EXCEPT ![p] = IF Drivable THEN [@ EXCEPT !.phase = "reaping"] ELSE NoPass]
    /\ UNCHANGED <<named, price, stale, children, catalog, wf, version, at, tries, starter, stop,
                   faults, history>>

StopChildren == children' = [s \in CallStep |-> IF children[s] = "live" THEN "ended" ELSE children[s]]

\* The write of the name or the cancel fails, and with it the pass over this run.
FailTakeover(p) ==
    /\ rec[p].phase \in {"naming", "cancelling"}
    /\ rec' = [rec EXCEPT ![p] = NoPass]
    /\ UNCHANGED <<rowVars, catalog, wf, version, at, tries, starter, stop, faults, history>>

\* stopChildrenOfLostRun.
Reap(p) ==
    /\ At(p, "reaping")
    /\ StopChildren
    /\ rec' = [rec EXCEPT ![p] = NoPass]
    /\ UNCHANGED <<status, named, price, stale, catalog, wf, version, at, tries, starter, stop,
                   faults, history>>

-----------------------------------------------------------------------------
(* A request to stop the run, and its children with it. *)

StopRun ==
    /\ stop = "none"
    /\ Drivable
    /\ status' = "cancelled"
    /\ stop' = "cancelling"
    /\ UNCHANGED <<named, price, stale, children, catalog, wf, version, at, rec, tries, starter,
                   faults, history>>

CancelNamed ==
    /\ stop = "cancelling"
    /\ wf' = IF Cancellable(named) THEN [wf EXCEPT ![named].status = "cancelled"] ELSE wf
    /\ stop' = "reaping"
    /\ UNCHANGED <<rowVars, catalog, version, at, rec, tries, starter, faults, history>>

StopItsChildren ==
    /\ stop = "reaping"
    /\ StopChildren
    /\ stop' = "done"
    /\ UNCHANGED <<status, named, price, stale, catalog, wf, version, at, rec, tries, starter,
                   faults, history>>

-----------------------------------------------------------------------------
(* Specification. *)

\* Nothing is left to do for a run that ended.
Over ==
    /\ ~Drivable
    /\ \A p \in Proc : ~IsExecuting(p) /\ At(p, "idle")
    /\ UNCHANGED vars

Next ==
    \/ \E p \in Proc :
           \/ Launch(p) \/ Pin(p) \/ FailToLoad(p) \/ MarkRunning(p)
           \/ Park(p) \/ FailWorkflow(p) \/ CancelRun(p) \/ Finish(p) \/ Close(p) \/ StartFails(p)
           \/ Crash(p) \/ Beat(p)
           \/ Reconcile(p) \/ Resume(p) \/ Fork(p) \/ NameFork(p) \/ CancelOriginal(p)
           \/ MarkFailed(p) \/ MarkLost(p) \/ Reap(p) \/ FailTakeover(p)
    \/ \E p \in Proc, w \in WorkflowId : Dequeue(p, w)
    \/ \E p \in Proc, v \in Version : Restart(p, v)
    \/ \E p \in Proc, s \in Step :
           \/ Check(p, s) \/ CheckFails(p, s) \/ RefuseCancelled(p, s) \/ Replay(p, s)
           \/ PayTurn(p, s) \/ Record(p, s)
           \/ FindChild(p, s)
    \/ \E p \in Proc, s \in CallStep :
           Admit(p, s) \/ Refuse(p, s) \/ CreateChild(p, s) \/ Await(p, s)
    \/ Lapse \/ UpdateCatalog
    \/ \E s \in CallStep : ChildEnds(s)
    \/ StopRun \/ CancelNamed \/ StopItsChildren
    \/ Over

Spec == Init /\ [][Next]_vars

-----------------------------------------------------------------------------
(* Properties. *)

TypeOK ==
    /\ status \in {"pending", "running", "succeeded", "failed", "cancelled", "lost"}
    /\ named \in WorkflowId
    /\ price \in Price \cup {0}
    /\ stale \in BOOLEAN
    /\ children \in [CallStep -> {"none", "live", "ended"}]
    /\ catalog \in Price
    /\ wf \in [WorkflowId -> Workflow]
    /\ version \in [Proc -> Version \cup {0}]
    /\ at \in [Proc -> Execution]
    /\ rec \in [Proc -> Pass]
    /\ tries \in [Proc -> 0 .. MaxResume]
    /\ starter \in Proc \cup {Nobody}
    /\ stop \in {"none", "cancelling", "reaping", "done"}
    /\ faults \in 0 .. MaxFaults
    /\ paidAt \subseteq Price \cup {0}
    /\ overlapped \in BOOLEAN

\* The first terminal write wins: whoever else still executes, gives up on, stops or
\* fails the run, its end is never replaced.
EndIsFinal == [][~Drivable => status' = status]_vars

\* Moving a run to another version is no end of it: it is cancelled only if it was asked to
\* stop, and it is failed for what became of a workflow only if its load failed.
TakeoverEndsNothing ==
    /\ status = "cancelled" => stop # "none"
    /\ status = "failed" => wf[<<>>].done[Load] = "failed"

\* Every turn of a run is billed at the one price its row records, however many
\* executions there were and whatever happened to the catalog meanwhile.
PinnedPriceIsPaid == paidAt \subseteq {price} \ {0}

\* An execution whose run ended, or went on elsewhere, starts at most the one turn it
\* had checked already; a turn whose check could not read the row is excepted.
StopsAtNextStep == \A p \in Proc : at[p].late <= 1

\* A delegate call that created a child gets its result, not a refusal, however often the
\* call is repeated; executions that delegate at the same time are excepted.
OwnChildIsAdopted ==
    ~overlapped => \A w \in WorkflowId, s \in CallStep : wf[w].done[s] = "refused" => s \notin Dispatched

\* A run creates no more children than its agent allows, whatever is repeated; executions
\* that delegate at the same time are excepted.
DelegationLimit == ~overlapped => Cardinality(Dispatched) <= MaxDelegations
=============================================================================
