-------------------------- MODULE DurableRunProofs ----------------------------
(***************************************************************************)
(* What holds of DurableRun for any number of overlapping executions and   *)
(* passes: its types, the run's end, its price, its records, its children, *)
(* and what a takeover does to it.                                         *)
(*                                                                         *)
(* The steps: what each of them changes, field by field: which execution,  *)
(* which step of it, which workflow. The proofs of the properties start    *)
(* from there, not from the nested updates of the actions.                 *)
(*                                                                         *)
(* The price: only a load that finds the row without one writes it, and no *)
(* turn starts before its execution's load is settled. The children: one   *)
(* execution at a time delegates unless `overlapped` says otherwise, a     *)
(* call that looked for its child and found none is the only one that can  *)
(* create it, and a refusal means the limit is reached, which stays so.    *)
(*                                                                         *)
(* A takeover, when the reconciler's passes do not overlap (MaxPasses = 1, *)
(* what the scheduler's lease is for), ends nothing, and the execution it  *)
(* leaves behind stops at its next step: the run's workflow moves forward  *)
(* only, so an execution that was left behind, or whose run ended, stays   *)
(* so. A workflow is cancelled only after the run moved on or ended; it    *)
(* finishes only after the run ended; it fails only for its load, and a    *)
(* fork has its load from its original.                                    *)
(***************************************************************************)
EXTENDS DurableRun, FiniteSetTheorems, TLAPS

-----------------------------------------------------------------------------
(* Steps, workflow ids and the fields of the records. *)

\* Where the steps of a run are, and which of them are calls or turns.
LEMMA Constants ==
    /\ {Load, FirstTurn, LastTurn} \subseteq Step /\ CallStep \subseteq Step
    /\ Load \notin CallStep /\ FirstTurn \notin CallStep /\ Load \notin PaidStep
    /\ PaidStep \subseteq Step
    /\ FirstTurn # Load /\ LastTurn # Load
    /\ 1 \in Price /\ 0 \notin Price
BY DurableRunAssumption DEF Load, FirstTurn, LastTurn, Step, CallStep, PaidStep, Price

\* A workflow id is a bounded sequence of versions; a fork that fits has one.
LEMMA WorkflowIds ==
    /\ <<>> \in WorkflowId
    /\ \A w \in WorkflowId : w \in Seq(Version) /\ Len(w) <= MaxForks
    /\ \A w \in WorkflowId, v \in Version : Len(w) < MaxForks => Append(w, v) \in WorkflowId
<1>1. WorkflowId = {w \in Seq(Version) : Len(w) <= MaxForks}
    <2>1. ASSUME NEW w \in WorkflowId PROVE w \in Seq(Version) /\ Len(w) <= MaxForks
      BY DurableRunAssumption DEF WorkflowId, BoundedSeq, SeqOf
    <2>2. ASSUME NEW w \in Seq(Version), Len(w) <= MaxForks PROVE w \in WorkflowId
      <3>1. Len(w) \in 0 .. MaxForks /\ w \in [1 .. Len(w) -> Version]
        BY <2>2, DurableRunAssumption
      <3> QED BY <3>1 DEF WorkflowId, BoundedSeq, SeqOf
    <2> QED BY <2>1, <2>2
<1>2. <<>> \in WorkflowId
    BY <1>1, DurableRunAssumption
<1>3. ASSUME NEW w \in WorkflowId, NEW v \in Version, Len(w) < MaxForks
      PROVE Append(w, v) \in WorkflowId
    BY <1>1, <1>3, DurableRunAssumption
<1> QED BY <1>1, <1>2, <1>3

\* A fork comes after the workflow it was forked from, and after what that came after.
LEMMA ForkIds ==
    ASSUME NEW w \in Seq(Version), NEW v \in Version, NEW u \in Seq(Version)
    PROVE  /\ ~IsForkOf(w, w)
           /\ IsForkOf(Append(w, v), w)
           /\ IsForkOf(w, u) => IsForkOf(Append(w, v), u)
<1>1. Len(Append(w, v)) = Len(w) + 1 /\ Append(w, v) \in Seq(Version)
   OBVIOUS
<1>2. ASSUME NEW n \in 0 .. Len(w) PROVE SubSeq(Append(w, v), 1, n) = SubSeq(w, 1, n)
   OBVIOUS
<1>3. IsForkOf(Append(w, v), w)
   BY <1>1, <1>2 DEF IsForkOf, IsStrictPrefix, IsPrefix
<1>4. IsForkOf(w, u) => IsForkOf(Append(w, v), u)
   BY <1>1, <1>2 DEF IsForkOf, IsStrictPrefix, IsPrefix
<1> QED BY <1>3, <1>4 DEF IsForkOf, IsStrictPrefix

\* The fields of an execution.
LEMMA ExecutionFields ==
    ASSUME NEW e \in Execution
    PROVE  /\ e.wf \in WorkflowId /\ e.price \in Price \cup {0} /\ e.step \in [Step -> StepPhase]
           /\ e.late \in Nat /\ e.phase \in {"idle", "loading", "running", "closing"}
    BY DEF Execution

\* A step of an execution changes its phase and nothing else.
LEMMA SteppedFields ==
    ASSUME NEW e \in Execution, NEW s \in Step, NEW x \in StepPhase, NEW f, f = Stepped(e, s, x)
    PROVE  /\ f \in Execution
           /\ f.step = [e.step EXCEPT ![s] = x]
           /\ f.phase = e.phase /\ f.wf = e.wf /\ f.price = e.price /\ f.late = e.late
    BY DEF Execution, Stepped

\* A price changes nothing else of an execution.
LEMMA PricedFields ==
    ASSUME NEW e \in Execution, NEW x \in Price \cup {0}, NEW f, f = Priced(e, x)
    PROVE  /\ f \in Execution
           /\ f.step = e.step /\ f.phase = e.phase /\ f.wf = e.wf /\ f.price = x /\ f.late = e.late
    BY DEF Execution, Priced

\* A late turn counts, and changes nothing else of an execution.
LEMMA LateFields ==
    ASSUME NEW e \in Execution, NEW f, f = Late(e)
    PROVE  /\ f \in Execution
           /\ f.step = e.step /\ f.phase = e.phase /\ f.wf = e.wf /\ f.price = e.price
           /\ f.late = e.late + 1
    BY DEF Execution, Late

\* Becoming running changes nothing else of an execution.
LEMMA RunningFields ==
    ASSUME NEW e \in Execution, NEW f, f = [e EXCEPT !.phase = "running"]
    PROVE  /\ f \in Execution
           /\ f.step = e.step /\ f.phase = "running" /\ f.wf = e.wf /\ f.price = e.price
           /\ f.late = e.late
    BY DEF Execution

\* A new execution has done nothing.
LEMMA NewExecutions ==
    ASSUME NEW w \in WorkflowId, NEW phase \in {"idle", "loading", "closing"}
    PROVE  LET e == ExecutionOf(phase, w) IN
           /\ e \in Execution
           /\ e.phase = phase /\ e.wf = w /\ e.price = 0 /\ e.late = 0
           /\ \A s \in Step : e.step[s] = "idle"
    BY DEF ExecutionOf, Execution, StepPhase

\* The fields of a workflow.
LEMMA WorkflowFields ==
    ASSUME NEW w \in Workflow
    PROVE  /\ w.owner \in Proc \cup {Nobody} /\ w.version \in Version \cup {0}
           /\ w.done \in [Step -> Outcome] /\ w.price \in Price \cup {0}
    BY DEF Workflow

\* A record changes one step's outcome and the workflow's price.
LEMMA NotedFields ==
    ASSUME NEW w \in Workflow, NEW s \in Step, NEW outcome \in Outcome, NEW x \in Price \cup {0},
           NEW n, n = Noted(w, s, outcome, x)
    PROVE  /\ n \in Workflow /\ n.status = w.status
           /\ n.done = [w.done EXCEPT ![s] = outcome] /\ n.price = x
    BY DEF Workflow, Noted

-----------------------------------------------------------------------------
(* What the steps of the model change, field by field. *)

\* Step s of p's execution gets to phase x, and the execution has price y.
StepsTo(p, s, x, y) ==
    /\ at' \in [Proc -> Execution]
    /\ \A q \in Proc \ {p} : at'[q] = at[q]
    /\ at'[p].step = [at[p].step EXCEPT ![s] = x]
    /\ at'[p].phase = at[p].phase /\ at'[p].wf = at[p].wf /\ at'[p].price = y

\* p's execution starts no turn late.
KeepsLate(p) == at'[p].late = at[p].late

\* p's execution is replaced by e.
Becomes(p, e) ==
    /\ at' \in [Proc -> Execution]
    /\ \A q \in Proc \ {p} : at'[q] = at[q]
    /\ at'[p] = e

\* Workflow w gets this status, these records and this price.
Writes(w, x, done, y) ==
    /\ wf' \in [WorkflowId -> Workflow]
    /\ \A u \in WorkflowId \ {w} : wf'[u] = wf[u]
    /\ wf'[w].status = x /\ wf'[w].done = done /\ wf'[w].price = y

\* A pass that forks has a version to fork to, and room for the fork.
PassesFit ==
    \A p \in Proc : rec[p].phase \in {"forking", "naming", "cancelling"} =>
        version[p] \in Version /\ Len(rec[p].wf) < MaxForks

\* What the type invariant says of one process.
LEMMA State ==
    ASSUME TypeOK, NEW p \in Proc
    PROVE  /\ at \in [Proc -> Execution] /\ wf \in [WorkflowId -> Workflow]
           /\ at[p] \in Execution /\ at[p].wf \in WorkflowId /\ at[p].step \in [Step -> StepPhase]
           /\ at[p].price \in Price \cup {0}
           /\ Own(p) = wf[at[p].wf] /\ Own(p) \in Workflow /\ Own(p).price \in Price \cup {0}
           /\ Own(p).done \in [Step -> Outcome]
           /\ rec[p].wf \in WorkflowId
<1>1. /\ at \in [Proc -> Execution] /\ wf \in [WorkflowId -> Workflow] /\ rec \in [Proc -> Pass]
      /\ at[p] \in Execution
    BY DEF TypeOK
<1>2. /\ at[p].wf \in WorkflowId /\ at[p].step \in [Step -> StepPhase] /\ at[p].price \in Price \cup {0}
    BY <1>1, ExecutionFields
<1>3. Own(p) = wf[at[p].wf] /\ Own(p) \in Workflow
    BY <1>1, <1>2 DEF Own
<1>4. Own(p).price \in Price \cup {0} /\ Own(p).done \in [Step -> Outcome]
    BY <1>3, WorkflowFields
<1>5. rec[p].wf \in WorkflowId
    BY <1>1 DEF Pass
<1> QED
    BY <1>1, <1>2, <1>3, <1>4, <1>5

\* Replacing one execution by another.
LEMMA Becoming ==
    ASSUME TypeOK, NEW p \in Proc, NEW e \in Execution, at' = [at EXCEPT ![p] = e]
    PROVE  Becomes(p, e)
    BY State DEF Becomes

\* Setting a step's phase.
LEMMA SetStepChanges ==
    ASSUME TypeOK, NEW p \in Proc, NEW s \in Step, NEW x \in StepPhase, SetStep(p, s, x)
    PROVE  StepsTo(p, s, x, at[p].price) /\ KeepsLate(p)
<1> DEFINE e == Stepped(at[p], s, x)
<1>1. /\ e \in Execution
      /\ e.step = [at[p].step EXCEPT ![s] = x]
      /\ e.phase = at[p].phase /\ e.wf = at[p].wf /\ e.price = at[p].price
      /\ e.late = at[p].late
    BY State, SteppedFields
<1>2. at' = [at EXCEPT ![p] = e]
    BY DEF SetStep
<1> HIDE DEF e
<1>3. Becomes(p, e)
    BY <1>1, <1>2, Becoming
<1> QED
    BY <1>1, <1>3 DEF StepsTo, KeepsLate, Becomes

\* Setting a step's phase and the execution's price.
LEMMA PricedStepChanges ==
    ASSUME TypeOK, NEW p \in Proc, NEW s \in Step, NEW x \in StepPhase, NEW y \in Price \cup {0},
           at' = [at EXCEPT ![p] = Stepped(Priced(at[p], y), s, x)]
    PROVE  StepsTo(p, s, x, y) /\ KeepsLate(p)
<1> DEFINE e == Priced(at[p], y)
           f == Stepped(e, s, x)
<1>1. /\ e \in Execution
      /\ e.step = at[p].step /\ e.phase = at[p].phase /\ e.wf = at[p].wf /\ e.price = y
      /\ e.late = at[p].late
    BY State, PricedFields
<1>2. at' = [at EXCEPT ![p] = f]
    OBVIOUS
<1> HIDE DEF e
<1>3. /\ f \in Execution
      /\ f.step = [e.step EXCEPT ![s] = x] /\ f.phase = e.phase /\ f.wf = e.wf /\ f.price = e.price
      /\ f.late = e.late
    BY <1>1, SteppedFields
<1> HIDE DEF f
<1>4. Becomes(p, f)
    BY <1>2, <1>3, Becoming
<1> QED
    BY <1>1, <1>3, <1>4 DEF StepsTo, KeepsLate, Becomes

\* A replayed step is done, or throws as it did; the load brings its price.
LEMMA ReplayedChanges ==
    ASSUME TypeOK, NEW p \in Proc, NEW s \in Step, Replayed(p, s)
    PROVE  /\ StepsTo(p, s, IF Own(p).done[s] = "failed" THEN "failed" ELSE "done",
                      IF s = Load THEN Own(p).price ELSE at[p].price)
           /\ KeepsLate(p)
<1> DEFINE y == IF s = Load THEN Own(p).price ELSE at[p].price
           x == IF Own(p).done[s] = "failed" THEN "failed" ELSE "done"
<1>1. at' = [at EXCEPT ![p] = Stepped(Priced(at[p], y), s, x)]
    BY DEF Replayed
<1>2. y \in Price \cup {0} /\ x \in StepPhase
    BY State DEF StepPhase
<1> HIDE DEF x, y
<1>3. StepsTo(p, s, x, y) /\ KeepsLate(p)
    BY <1>1, <1>2, PricedStepChanges
<1> QED
    BY <1>3 DEF x, y

\* pinNativeRunPricing settles the load, at the row's price or the execution's.
LEMMA PinChanges ==
    ASSUME TypeOK, NEW p \in Proc, Pin(p)
    PROVE  /\ price' \in Price \cup {0}
           /\ StepsTo(p, Load, "settled", IF at[p].price # 0 THEN at[p].price ELSE price')
           /\ KeepsLate(p)
<1> DEFINE y == IF at[p].price # 0 THEN at[p].price ELSE price'
<1>1. price' \in Price \cup {0}
    BY DEF Pin, TypeOK
<1>2. at' = [at EXCEPT ![p] = Stepped(Priced(at[p], y), Load, "settled")]
    BY DEF Pin
<1>3. y \in Price \cup {0} /\ Load \in Step /\ "settled" \in StepPhase
    BY <1>1, State, Constants DEF StepPhase
<1> HIDE DEF y
<1>4. StepsTo(p, Load, "settled", y) /\ KeepsLate(p)
    BY <1>2, <1>3, PricedStepChanges
<1> QED
    BY <1>1, <1>4 DEF y

\* A paid turn is settled, and counts if it is late.
LEMMA PayTurnChanges ==
    ASSUME TypeOK, NEW p \in Proc, NEW s \in Step, PayTurn(p, s)
    PROVE  /\ StepsTo(p, s, "settled", at[p].price)
           /\ at'[p].late = at[p].late + (IF IsLate(p, s) THEN 1 ELSE 0)
<1> DEFINE late == Late(at[p])
           e == IF IsLate(p, s) THEN late ELSE at[p]
           f == Stepped(e, s, "settled")
<1>1. at' = [at EXCEPT ![p] = f] /\ "settled" \in StepPhase
    BY DEF PayTurn, StepPhase
<1>2. /\ late \in Execution /\ late.step = at[p].step
      /\ late.phase = at[p].phase /\ late.wf = at[p].wf /\ late.price = at[p].price
      /\ late.late = at[p].late + 1 /\ at[p].late \in Nat
    BY State, LateFields, ExecutionFields
<1> HIDE DEF late
<1>3. /\ e \in Execution /\ e.step = at[p].step
      /\ e.phase = at[p].phase /\ e.wf = at[p].wf /\ e.price = at[p].price
      /\ e.late = at[p].late + (IF IsLate(p, s) THEN 1 ELSE 0)
    BY <1>2, State
<1> HIDE DEF e
<1>4. /\ f \in Execution /\ f.step = [e.step EXCEPT ![s] = "settled"]
      /\ f.phase = e.phase /\ f.wf = e.wf /\ f.price = e.price
      /\ f.late = e.late
    BY <1>1, <1>3, SteppedFields
<1> HIDE DEF f
<1>5. Becomes(p, f)
    BY <1>1, <1>4, Becoming
<1> QED
    BY <1>3, <1>4, <1>5 DEF StepsTo, Becomes

\* Recording a step's outcome.
LEMMA NotedWrites ==
    ASSUME TypeOK, NEW w \in WorkflowId, NEW s \in Step, NEW outcome \in Outcome,
           NEW y \in Price \cup {0}, wf' = [wf EXCEPT ![w] = Noted(wf[w], s, outcome, y)]
    PROVE  Writes(w, wf[w].status, [wf[w].done EXCEPT ![s] = outcome], y)
<1>1. wf[w] \in Workflow /\ wf \in [WorkflowId -> Workflow]
    BY DEF TypeOK
<1> DEFINE n == Noted(wf[w], s, outcome, y)
<1>2. /\ n \in Workflow /\ n.status = wf[w].status
      /\ n.done = [wf[w].done EXCEPT ![s] = outcome] /\ n.price = y
    BY <1>1, NotedFields
<1>3. wf' = [wf EXCEPT ![w] = n]
    OBVIOUS
<1> HIDE DEF n
<1> QED
    BY <1>1, <1>2, <1>3 DEF Writes

\* An outcome is recorded once: a second execution loses instead.
LEMMA RecordedChanges ==
    ASSUME TypeOK, NEW p \in Proc, NEW s \in Step, NEW outcome \in {"done", "refused", "failed"},
           Recorded(p, s, outcome)
    PROVE  /\ KeepsLate(p)
           /\ \/ /\ Own(p).done[s] # "none"
                 /\ StepsTo(p, s, "lost", at[p].price)
                 /\ wf' = wf
              \/ /\ Own(p).done[s] = "none"
                 /\ StepsTo(p, s, IF outcome = "failed" THEN "failed" ELSE "done", at[p].price)
                 /\ Writes(at[p].wf, Own(p).status, [Own(p).done EXCEPT ![s] = outcome],
                           IF s = Load THEN at[p].price ELSE Own(p).price)
<1>1. {"lost", "failed", "done"} \subseteq StepPhase /\ outcome \in Outcome
    BY DEF StepPhase, Outcome
<1>2. CASE Own(p).done[s] # "none"
    BY <1>1, <1>2, SetStepChanges DEF Recorded
<1>3. CASE Own(p).done[s] = "none"
    <2>1. StepsTo(p, s, IF outcome = "failed" THEN "failed" ELSE "done", at[p].price) /\ KeepsLate(p)
        BY <1>1, <1>3, SetStepChanges DEF Recorded
    <2> DEFINE y == IF s = Load THEN at[p].price ELSE Own(p).price
    <2>2. /\ at[p].wf \in WorkflowId /\ y \in Price \cup {0} /\ Own(p) = wf[at[p].wf]
          /\ wf' = [wf EXCEPT ![at[p].wf] = Noted(wf[at[p].wf], s, outcome, y)]
        BY <1>3, State DEF Recorded
    <2> HIDE DEF y
    <2>3. Writes(at[p].wf, Own(p).status, [Own(p).done EXCEPT ![s] = outcome], y)
        BY <1>1, <2>2, NotedWrites
    <2> QED
        BY <1>3, <2>1, <2>3 DEF y
<1> QED
    BY <1>2, <1>3

\* A workflow's new status leaves its records alone.
LEMMA StatusWrites ==
    ASSUME TypeOK, NEW w \in WorkflowId, NEW x \in {"enqueued", "pending", "cancelled", "error",
           "finished"},
           \/ wf' = [wf EXCEPT ![w].status = x]
           \/ \E p \in Proc \cup {Nobody} : wf' = [wf EXCEPT ![w].status = x, ![w].owner = p]
    PROVE  Writes(w, x, wf[w].done, wf[w].price)
<1>1. wf[w] \in Workflow /\ wf \in [WorkflowId -> Workflow]
    BY DEF TypeOK
<1>2. CASE wf' = [wf EXCEPT ![w].status = x]
    BY <1>1, <1>2 DEF Writes, Workflow
<1>3. ASSUME NEW p \in Proc \cup {Nobody}, wf' = [wf EXCEPT ![w].status = x, ![w].owner = p]
      PROVE  Writes(w, x, wf[w].done, wf[w].price)
    BY <1>1, <1>3 DEF Writes, Workflow
<1> QED
    BY <1>2, <1>3

\* A process starts an execution.
LEMMA EnterChanges ==
    ASSUME TypeOK, NEW p \in Proc, NEW w \in WorkflowId, Enter(p, w)
    PROVE  \E e \in Execution :
               /\ Becomes(p, e)
               /\ e.phase = (IF Drivable THEN "loading" ELSE "closing") /\ e.wf = w
                   /\ e.price = price /\ e.late = 0
               /\ \A s \in Step : e.step[s] = "idle"
<1> DEFINE phase == IF Drivable THEN "loading" ELSE "closing"
           e == ExecutionOf(phase, w)
           f == Priced(e, price)
<1>1. at' = [at EXCEPT ![p] = f] /\ price \in Price \cup {0} /\ phase \in {"loading", "closing"}
    BY DEF Enter, TypeOK
<1> HIDE DEF phase
<1>2. e \in Execution /\ e.phase = phase /\ e.wf = w /\ e.late = 0 /\ \A s \in Step : e.step[s] = "idle"
    BY <1>1, NewExecutions
<1> HIDE DEF e
<1>3. f \in Execution /\ f.phase = phase /\ f.wf = w /\ f.price = price /\ f.late = 0 /\ f.step = e.step
    BY <1>1, <1>2, PricedFields
<1> HIDE DEF f
<1>4. Becomes(p, f)
    BY <1>1, <1>3, Becoming
<1> QED
    BY <1>2, <1>3, <1>4 DEF phase

\* A process drops what it executed, or closes it.
LEMMA LeaveChanges ==
    ASSUME TypeOK, NEW p \in Proc, NEW w \in WorkflowId, NEW phase \in {"idle", "closing"},
           at' = [at EXCEPT ![p] = ExecutionOf(phase, w)]
    PROVE  \E e \in Execution :
               /\ Becomes(p, e)
               /\ e.phase = phase /\ e.wf = w /\ e.price = 0 /\ e.late = 0
               /\ \A s \in Step : e.step[s] = "idle"
<1> DEFINE e == ExecutionOf(phase, w)
<1>1. /\ e \in Execution /\ e.phase = phase /\ e.wf = w /\ e.price = 0 /\ e.late = 0
      /\ \A s \in Step : e.step[s] = "idle"
    BY NewExecutions
<1>2. at' = [at EXCEPT ![p] = e]
    OBVIOUS
<1> HIDE DEF e
<1> QED
    BY <1>1, <1>2, Becoming

\* An execution starts running.
LEMMA RunningChanges ==
    ASSUME TypeOK, NEW p \in Proc, at' = [at EXCEPT ![p].phase = "running"]
    PROVE  \E e \in Execution :
               /\ Becomes(p, e)
               /\ e.phase = "running" /\ e.wf = at[p].wf /\ e.price = at[p].price
               /\ e.late = at[p].late /\ e.step = at[p].step
<1> DEFINE e == [at[p] EXCEPT !.phase = "running"]
<1>1. e \in Execution /\ e.phase = "running" /\ e.wf = at[p].wf /\ e.price = at[p].price
      /\ e.late = at[p].late /\ e.step = at[p].step
    BY State, RunningFields
<1>2. at' = [at EXCEPT ![p] = e]
    OBVIOUS
<1> HIDE DEF e
<1> QED
    BY <1>1, <1>2, Becoming

\* start() writes a workflow with no records.
LEMMA LaunchWrites ==
    ASSUME TypeOK, NEW p \in Proc, Launch(p)
    PROVE  Writes(<<>>, "pending", [s \in Step |-> "none"], 0)
<1> DEFINE n == [NoWorkflow EXCEPT !.status = "pending", !.owner = p, !.version = version[p]]
<1>1. version[p] \in Version \cup {0} /\ wf \in [WorkflowId -> Workflow]
    BY DEF TypeOK
<1>2. n \in Workflow /\ n.status = "pending" /\ n.done = [s \in Step |-> "none"] /\ n.price = 0
    BY <1>1 DEF NoWorkflow, Workflow, Outcome
<1>3. wf' = [wf EXCEPT ![<<>>] = n]
    BY DEF Launch
<1> HIDE DEF n
<1> QED
    BY <1>1, <1>2, <1>3, WorkflowIds DEF Writes

\* A fork has the records before the first gap, or was there already.
LEMMA ForkWrites ==
    ASSUME TypeOK, PassesFit, NEW p \in Proc, Fork(p)
    PROVE  /\ Append(rec[p].wf, version[p]) \in WorkflowId
           /\ \/ wf' = wf
              \/ Writes(Append(rec[p].wf, version[p]), "enqueued", CopiedDone(wf[rec[p].wf].done),
                  wf[rec[p].wf].price)
<1> DEFINE fork == Append(rec[p].wf, version[p])
           from == wf[rec[p].wf]
           n == [status |-> "enqueued", owner |-> Nobody, version |-> version[p],
                 done |-> CopiedDone(from.done), price |-> from.price]
<1>1. /\ version[p] \in Version /\ rec[p].wf \in WorkflowId /\ Len(rec[p].wf) < MaxForks
      /\ wf \in [WorkflowId -> Workflow]
    BY State DEF TypeOK, PassesFit, Fork, At
<1>2. fork \in WorkflowId
    BY <1>1, WorkflowIds
<1>3. from \in Workflow /\ from.done \in [Step -> Outcome] /\ from.price \in Price \cup {0}
    BY <1>1, WorkflowFields
<1>4. CopiedDone(from.done) \in [Step -> Outcome]
    BY <1>3 DEF CopiedDone, Outcome
<1>5. wf' = wf \/ wf' = [wf EXCEPT ![fork] = n]
    BY DEF Fork
<1>6. /\ n \in Workflow /\ n.status = "enqueued" /\ n.done = CopiedDone(from.done)
      /\ n.price = from.price
    BY <1>1, <1>3, <1>4 DEF Workflow
<1> HIDE DEF n
<1>7. CASE wf' = [wf EXCEPT ![fork] = n]
    BY <1>1, <1>2, <1>6, <1>7 DEF Writes
<1> QED
    BY <1>2, <1>5, <1>7

\* A death changes at most who owns a workflow.
LEMMA CrashWrites ==
    ASSUME TypeOK, NEW p \in Proc, Crash(p)
    PROVE  /\ wf' \in [WorkflowId -> Workflow]
           /\ \A w \in WorkflowId :
                  wf'[w].status = wf[w].status /\ wf'[w].done = wf[w].done /\ wf'[w].price = wf[w].price
<1>1. wf \in [WorkflowId -> Workflow]
    BY DEF TypeOK
<1>2. ASSUME NEW w \in Workflow
      PROVE  LET n == [w EXCEPT !.owner = Nobody] IN
             n \in Workflow /\ n.status = w.status /\ n.done = w.done /\ n.price = w.price
    BY DEF Workflow
<1>3. \/ wf' = wf
      \/ wf' = [w \in WorkflowId |-> IF wf[w].owner = p THEN [wf[w] EXCEPT !.owner = Nobody] ELSE wf[w]]
    BY DEF Crash
<1> QED
    BY <1>1, <1>2, <1>3

-----------------------------------------------------------------------------
(* Types. *)

\* Every step keeps the types, and the passes within the bound on forks.
LEMMA TypeStep ==
    ASSUME TypeOK, PassesFit, Next
    PROVE  TypeOK' /\ PassesFit'
<1>1. ASSUME NEW p \in Proc, Launch(p)
      PROVE  TypeOK' /\ PassesFit'
    <2>1. at' \in [Proc -> Execution]
        BY <1>1, EnterChanges, WorkflowIds DEF Launch, Becomes
    <2>2. wf' \in [WorkflowId -> Workflow]
        BY <1>1, LaunchWrites DEF Writes
    <2> QED
        BY <1>1, <2>1, <2>2 DEF Launch, Enter, TypeOK, PassesFit, rowVars, history
<1>2. ASSUME NEW p \in Proc, Pin(p)
      PROVE  TypeOK' /\ PassesFit'
    <2>1. price' \in Price \cup {0} /\ at' \in [Proc -> Execution]
        BY <1>2, PinChanges DEF StepsTo
    <2> QED
        BY <1>2, <2>1 DEF Pin, TypeOK, PassesFit, rowVars, history
<1>3. ASSUME NEW p \in Proc, FailToLoad(p)
      PROVE  TypeOK' /\ PassesFit'
    <2>1. at' \in [Proc -> Execution] /\ wf' \in [WorkflowId -> Workflow]
        BY <1>3, RecordedChanges, Constants DEF FailToLoad, StepsTo, Writes, TypeOK
    <2> QED
        BY <1>3, <2>1 DEF FailToLoad, TypeOK, PassesFit, rowVars, history
<1>4. ASSUME NEW p \in Proc, MarkRunning(p)
      PROVE  TypeOK' /\ PassesFit'
    <2>1. at' \in [Proc -> Execution]
        BY <1>4, RunningChanges DEF MarkRunning, Becomes
    <2> QED
        BY <1>4, <2>1 DEF MarkRunning, Finished, TypeOK, PassesFit, rowVars, history
<1>5. ASSUME NEW p \in Proc, Park(p)
      PROVE  TypeOK' /\ PassesFit'
    <2>1. at' \in [Proc -> Execution]
        BY <1>5, LeaveChanges, WorkflowIds DEF Park, Idle, Becomes
    <2> QED
        BY <1>5, <2>1 DEF Park, TypeOK, PassesFit, rowVars, history
<1>6. ASSUME NEW p \in Proc, FailWorkflow(p)
      PROVE  TypeOK' /\ PassesFit'
    <2>1. at' \in [Proc -> Execution]
        BY <1>6, LeaveChanges, WorkflowIds DEF FailWorkflow, Idle, Becomes
    <2>2. wf' \in [WorkflowId -> Workflow]
        BY <1>6, State, StatusWrites DEF FailWorkflow, Writes
    <2> QED
        BY <1>6, <2>1, <2>2 DEF FailWorkflow, TypeOK, PassesFit, rowVars, history
<1>7. ASSUME NEW p \in Proc, CancelRun(p)
      PROVE  TypeOK' /\ PassesFit'
    <2>1. at' \in [Proc -> Execution]
        BY <1>7, State, LeaveChanges DEF CancelRun, Becomes
    <2> QED
        BY <1>7, <2>1 DEF CancelRun, Finished, TypeOK, PassesFit, rowVars, history
<1>8. ASSUME NEW p \in Proc, Finish(p)
      PROVE  TypeOK' /\ PassesFit'
    <2>1. at' \in [Proc -> Execution]
        BY <1>8, State, LeaveChanges DEF Finish, Becomes
    <2> QED
        BY <1>8, <2>1 DEF Finish, Finished, TypeOK, PassesFit, rowVars, history
<1>9. ASSUME NEW p \in Proc, Close(p)
      PROVE  TypeOK' /\ PassesFit'
    <2>1. at' \in [Proc -> Execution]
        BY <1>9, LeaveChanges, WorkflowIds DEF Close, Idle, Becomes
    <2>2. wf' \in [WorkflowId -> Workflow]
        BY <1>9, State, StatusWrites DEF Close, Writes
    <2> QED
        BY <1>9, <2>1, <2>2 DEF Close, TypeOK, PassesFit, rowVars, history
<1>10. ASSUME NEW p \in Proc, StartFails(p)
      PROVE  TypeOK' /\ PassesFit'
    BY <1>10 DEF StartFails, Finished, TypeOK, PassesFit, rowVars, history
<1>11. ASSUME NEW p \in Proc, Crash(p)
      PROVE  TypeOK' /\ PassesFit'
    <2>1. at' \in [Proc -> Execution]
        BY <1>11, LeaveChanges, WorkflowIds DEF Crash, Idle, Becomes
    <2>2. wf' \in [WorkflowId -> Workflow]
        BY <1>11, CrashWrites
    <2>3. rec' \in [Proc -> Pass] /\ PassesFit'
        BY <1>11, WorkflowIds DEF Crash, TypeOK, PassesFit, NoPass, Pass
    <2> QED
        BY <1>11, <2>1, <2>2, <2>3, DurableRunAssumption DEF Crash, TypeOK, PassesFit, rowVars, history
<1>12. ASSUME NEW p \in Proc, Beat(p)
      PROVE  TypeOK' /\ PassesFit'
    BY <1>12 DEF Beat, TypeOK, PassesFit, rowVars, history
<1>13. ASSUME NEW p \in Proc, Reconcile(p)
      PROVE  TypeOK' /\ PassesFit'
    <2>1. Answer(p, named) \in {"idle", "resuming", "forking", "failing", "losing"}
        BY <1>13 DEF Answer
    <2>2. tries' \in [Proc -> 0 .. MaxResume]
        BY <1>13, DurableRunAssumption DEF Reconcile, Answer, TypeOK
    <2>3. Answer(p, named) = "forking" => Len(named) < MaxForks /\ version[p] \in Version
        BY <1>13 DEF Answer, IsWaitingOnCalls, Reconcile, IsUp, TypeOK
    <2>4. rec' \in [Proc -> Pass] /\ PassesFit'
        BY <1>13, <2>1, <2>2, <2>3 DEF Reconcile, TypeOK, PassesFit, Pass
    <2> QED
        BY <1>13, <2>1, <2>2, <2>3, <2>4 DEF Reconcile, TypeOK, PassesFit, rowVars, history
<1>14. ASSUME NEW p \in Proc, Resume(p)
      PROVE  TypeOK' /\ PassesFit'
    <2>1. wf' \in [WorkflowId -> Workflow]
        BY <1>14, State, StatusWrites DEF Resume, Writes
    <2>2. rec' \in [Proc -> Pass] /\ PassesFit'
        BY <1>14, WorkflowIds DEF Resume, TypeOK, PassesFit, NoPass, Pass
    <2> QED
        BY <1>14, <2>1, <2>2 DEF Resume, TypeOK, PassesFit, rowVars, history
<1>15. ASSUME NEW p \in Proc, Fork(p)
      PROVE  TypeOK' /\ PassesFit'
    <2>1. wf' \in [WorkflowId -> Workflow]
        BY <1>15, ForkWrites DEF TypeOK, Writes
    <2>2. rec' \in [Proc -> Pass] /\ PassesFit'
        BY <1>15 DEF Fork, Proceed, At, TypeOK, PassesFit, Pass
    <2> QED
        BY <1>15, <2>1, <2>2 DEF Fork, TypeOK, PassesFit, rowVars, history
<1>16. ASSUME NEW p \in Proc, NameFork(p)
      PROVE  TypeOK' /\ PassesFit'
    <2>1. named' \in WorkflowId
        BY <1>16, State, WorkflowIds DEF NameFork, At, PassesFit
    <2>2. rec' \in [Proc -> Pass] /\ PassesFit'
        BY <1>16 DEF NameFork, Proceed, At, TypeOK, PassesFit, Pass
    <2> QED
        BY <1>16, <2>1, <2>2 DEF NameFork, TypeOK, PassesFit, rowVars, history
<1>17. ASSUME NEW p \in Proc, CancelOriginal(p)
      PROVE  TypeOK' /\ PassesFit'
    <2>1. wf' \in [WorkflowId -> Workflow]
        BY <1>17, State, StatusWrites DEF CancelOriginal, Writes
    <2>2. rec' \in [Proc -> Pass] /\ PassesFit'
        BY <1>17, WorkflowIds DEF CancelOriginal, TypeOK, PassesFit, NoPass, Pass
    <2> QED
        BY <1>17, <2>1, <2>2 DEF CancelOriginal, TypeOK, PassesFit, rowVars, history
<1>18. ASSUME NEW p \in Proc, MarkFailed(p)
      PROVE  TypeOK' /\ PassesFit'
    <2>1. rec' \in [Proc -> Pass] /\ PassesFit'
        BY <1>18, WorkflowIds DEF MarkFailed, TypeOK, PassesFit, NoPass, Pass
    <2> QED
        BY <1>18, <2>1 DEF MarkFailed, Finished, TypeOK, PassesFit, rowVars, history
<1>19. ASSUME NEW p \in Proc, MarkLost(p)
      PROVE  TypeOK' /\ PassesFit'
    <2>1. rec' \in [Proc -> Pass] /\ PassesFit'
        BY <1>19, WorkflowIds DEF MarkLost, TypeOK, PassesFit, NoPass, Pass
    <2> QED
        BY <1>19, <2>1 DEF MarkLost, Finished, TypeOK, PassesFit, rowVars, history
<1>20. ASSUME NEW p \in Proc, Reap(p)
      PROVE  TypeOK' /\ PassesFit'
    <2>1. rec' \in [Proc -> Pass] /\ PassesFit'
        BY <1>20, WorkflowIds DEF Reap, TypeOK, PassesFit, NoPass, Pass
    <2> QED
        BY <1>20, <2>1 DEF Reap, StopChildren, TypeOK, PassesFit, rowVars, history
<1>21. ASSUME NEW p \in Proc, FailTakeover(p)
      PROVE  TypeOK' /\ PassesFit'
    <2>1. rec' \in [Proc -> Pass] /\ PassesFit'
        BY <1>21, WorkflowIds DEF FailTakeover, TypeOK, PassesFit, NoPass, Pass
    <2> QED
        BY <1>21, <2>1 DEF FailTakeover, TypeOK, PassesFit, rowVars, history
<1>22. ASSUME NEW p \in Proc, NEW w \in WorkflowId, Dequeue(p, w)
      PROVE  TypeOK' /\ PassesFit'
    <2>1. at' \in [Proc -> Execution]
        BY <1>22, EnterChanges DEF Dequeue, Becomes
    <2>2. wf' \in [WorkflowId -> Workflow]
        BY <1>22, StatusWrites DEF Dequeue, Writes
    <2> QED
        BY <1>22, <2>1, <2>2 DEF Dequeue, Enter, TypeOK, PassesFit, rowVars, history
<1>23. ASSUME NEW p \in Proc, NEW v \in Version, Restart(p, v)
      PROVE  TypeOK' /\ PassesFit'
    <2>1. at' \in [Proc -> Execution] /\ stale' \in BOOLEAN
        BY <1>23, EnterChanges DEF Restart, Enter, Becomes, TypeOK
    <2> QED
        BY <1>23, <2>1, DurableRunAssumption DEF Restart, IsUp, TypeOK, PassesFit, rowVars, history
<1>24. ASSUME NEW p \in Proc, NEW s \in Step, Check(p, s)
      PROVE  TypeOK' /\ PassesFit'
    <2>1. Verdict(p) \in StepPhase
        BY <1>24 DEF Verdict, StepPhase
    <2>2. at' \in [Proc -> Execution]
        BY <1>24, <2>1, ReplayedChanges, SetStepChanges DEF Check, StepsTo
    <2> QED
        BY <1>24, <2>1, <2>2 DEF Check, TypeOK, PassesFit, rowVars, history
<1>25. ASSUME NEW p \in Proc, NEW s \in Step, CheckFails(p, s)
      PROVE  TypeOK' /\ PassesFit'
    <2>1. "unread" \in StepPhase
        BY <1>25 DEF StepPhase
    <2>2. at' \in [Proc -> Execution]
        BY <1>25, <2>1, SetStepChanges DEF CheckFails, StepsTo
    <2> QED
        BY <1>25, <2>1, <2>2 DEF CheckFails, TypeOK, PassesFit, rowVars, history
<1>26. ASSUME NEW p \in Proc, NEW s \in Step, RefuseCancelled(p, s)
      PROVE  TypeOK' /\ PassesFit'
    <2>1. {"lost", "stopped"} \subseteq StepPhase
        BY <1>26 DEF StepPhase
    <2>2. at' \in [Proc -> Execution]
        BY <1>26, <2>1, SetStepChanges DEF RefuseCancelled, StepsTo
    <2> QED
        BY <1>26, <2>1, <2>2 DEF RefuseCancelled, TypeOK, PassesFit, rowVars, history
<1>27. ASSUME NEW p \in Proc, NEW s \in Step, Replay(p, s)
      PROVE  TypeOK' /\ PassesFit'
    <2>1. at' \in [Proc -> Execution]
        BY <1>27, ReplayedChanges DEF Replay, StepsTo
    <2> QED
        BY <1>27, <2>1 DEF Replay, TypeOK, PassesFit, rowVars, history
<1>28. ASSUME NEW p \in Proc, NEW s \in Step, PayTurn(p, s)
      PROVE  TypeOK' /\ PassesFit'
    <2>1. at' \in [Proc -> Execution]
        BY <1>28, PayTurnChanges DEF StepsTo
    <2>2. at[p].price \in Price \cup {0}
        BY <1>28, State
    <2> QED
        BY <1>28, <2>1, <2>2 DEF PayTurn, TypeOK, PassesFit, rowVars, history
<1>29. ASSUME NEW p \in Proc, NEW s \in Step, Record(p, s)
      PROVE  TypeOK' /\ PassesFit'
    <2>1. at' \in [Proc -> Execution] /\ wf' \in [WorkflowId -> Workflow]
        BY <1>29, RecordedChanges DEF Record, StepsTo, Writes, TypeOK
    <2> QED
        BY <1>29, <2>1 DEF Record, TypeOK, PassesFit, rowVars, history
<1>30. ASSUME NEW p \in Proc, NEW s \in Step, FindChild(p, s)
      PROVE  TypeOK' /\ PassesFit'
    <2>1. {"waiting", "seeking"} \subseteq StepPhase
        BY <1>30 DEF StepPhase
    <2>2. at' \in [Proc -> Execution]
        BY <1>30, <2>1, SetStepChanges DEF FindChild, StepsTo
    <2> QED
        BY <1>30, <2>1, <2>2 DEF FindChild, TypeOK, PassesFit, rowVars, history
<1>31. ASSUME NEW p \in Proc, NEW s \in CallStep, Admit(p, s)
      PROVE  TypeOK' /\ PassesFit'
    <2>1. s \in Step /\ "admitted" \in StepPhase
        BY <1>31, Constants DEF StepPhase
    <2>2. at' \in [Proc -> Execution]
        BY <1>31, <2>1, SetStepChanges DEF Admit, StepsTo
    <2> QED
        BY <1>31, <2>1, <2>2 DEF Admit, TypeOK, PassesFit, rowVars, history
<1>32. ASSUME NEW p \in Proc, NEW s \in CallStep, Refuse(p, s)
      PROVE  TypeOK' /\ PassesFit'
    <2>1. s \in Step
        BY <1>32, Constants
    <2>2. at' \in [Proc -> Execution] /\ wf' \in [WorkflowId -> Workflow]
        BY <1>32, <2>1, RecordedChanges DEF Refuse, StepsTo, Writes, TypeOK
    <2> QED
        BY <1>32, <2>1, <2>2 DEF Refuse, TypeOK, PassesFit, rowVars, history
<1>33. ASSUME NEW p \in Proc, NEW s \in CallStep, CreateChild(p, s)
      PROVE  TypeOK' /\ PassesFit'
    <2>1. s \in Step /\ "waiting" \in StepPhase
        BY <1>33, Constants DEF StepPhase
    <2>2. at' \in [Proc -> Execution]
        BY <1>33, <2>1, SetStepChanges DEF CreateChild, StepsTo
    <2> QED
        BY <1>33, <2>1, <2>2 DEF CreateChild, TypeOK, PassesFit, rowVars, history
<1>34. ASSUME NEW p \in Proc, NEW s \in CallStep, Await(p, s)
      PROVE  TypeOK' /\ PassesFit'
    <2>1. s \in Step
        BY <1>34, Constants
    <2>2. at' \in [Proc -> Execution] /\ wf' \in [WorkflowId -> Workflow]
        BY <1>34, <2>1, RecordedChanges DEF Await, StepsTo, Writes, TypeOK
    <2> QED
        BY <1>34, <2>1, <2>2 DEF Await, TypeOK, PassesFit, rowVars, history
<1>35. ASSUME NEW s \in CallStep, ChildEnds(s)
      PROVE  TypeOK' /\ PassesFit'
    BY <1>35 DEF ChildEnds, TypeOK, PassesFit, rowVars, history
<1>36. ASSUME Lapse
      PROVE  TypeOK' /\ PassesFit'
    BY <1>36, DurableRunAssumption DEF Lapse, TypeOK, PassesFit, rowVars, history
<1>37. ASSUME UpdateCatalog
      PROVE  TypeOK' /\ PassesFit'
    <2>1. catalog' \in Price
        BY <1>37, DurableRunAssumption DEF UpdateCatalog, TypeOK, Price
    <2> QED
        BY <1>37, <2>1 DEF UpdateCatalog, TypeOK, PassesFit, rowVars, history
<1>38. ASSUME StopRun
      PROVE  TypeOK' /\ PassesFit'
    BY <1>38 DEF StopRun, TypeOK, PassesFit, rowVars, history
<1>39. ASSUME CancelNamed
      PROVE  TypeOK' /\ PassesFit'
    <2>1. wf' \in [WorkflowId -> Workflow]
        BY <1>39, StatusWrites DEF CancelNamed, Writes, TypeOK
    <2> QED
        BY <1>39, <2>1 DEF CancelNamed, TypeOK, PassesFit, rowVars, history
<1>40. ASSUME StopItsChildren
      PROVE  TypeOK' /\ PassesFit'
    BY <1>40 DEF StopItsChildren, StopChildren, TypeOK, PassesFit, rowVars, history
<1>41. ASSUME Over
      PROVE  TypeOK' /\ PassesFit'
    BY <1>41 DEF Over, vars, TypeOK, PassesFit, rowVars, history
<1> QED
    BY <1>1, <1>2, <1>3, <1>4, <1>5, <1>6, <1>7, <1>8, <1>9, <1>10, <1>11, <1>12, <1>13, <1>14, <1>15,
       <1>16, <1>17, <1>18, <1>19, <1>20, <1>21, <1>22, <1>23, <1>24, <1>25, <1>26, <1>27, <1>28,
       <1>29, <1>30, <1>31, <1>32, <1>33, <1>34, <1>35, <1>36, <1>37, <1>38, <1>39, <1>40, <1>41
       DEF Next

\* The type invariant, with the one fact about passes that it takes.
Typed == TypeOK /\ PassesFit

\* The initial states have the types.
LEMMA TypedInit == Init => Typed
<1> SUFFICES ASSUME Init PROVE Typed
    OBVIOUS
<1>1. at \in [Proc -> Execution] /\ rec \in [Proc -> Pass] /\ PassesFit
    BY NewExecutions, WorkflowIds DEF Init, Idle, NoPass, Pass, PassesFit
<1>2. NoWorkflow \in Workflow
    BY DEF NoWorkflow, Workflow, Outcome
<1>3. wf \in [WorkflowId -> Workflow] /\ named \in WorkflowId /\ catalog \in Price
    BY <1>2, WorkflowIds, Constants DEF Init
<1>4. tries \in [Proc -> 0 .. MaxResume] /\ faults \in 0 .. MaxFaults
    BY DurableRunAssumption DEF Init
<1>5. /\ version \in [Proc -> Version \cup {0}]
      /\ children \in [CallStep -> {"none", "live", "ended"}]
    BY DEF Init
<1>6. /\ status = "pending" /\ price = 0 /\ stale = FALSE /\ starter = Nobody /\ stop = "none"
      /\ paidAt = {} /\ overlapped = FALSE
    BY DEF Init
<1> QED
    BY <1>1, <1>3, <1>4, <1>5, <1>6 DEF Typed, TypeOK

\* The state has its types, whatever the processes, versions and bounds: no sequence of crashes,
\* restarts, takeovers and stops of DurableRun leads out of them.
THEOREM TypeCorrect == Spec => []TypeOK
<1>1. Typed /\ [Next]_vars => Typed'
    BY TypeStep DEF Typed, TypeOK, PassesFit, vars, rowVars, history
<1>2. Typed => TypeOK
    BY DEF Typed
<1> QED
    BY <1>1, <1>2, TypedInit, PTL DEF Spec

-----------------------------------------------------------------------------
(* The end of the run. *)

\* No step changes the status of a run that ended.
LEMMA EndStays ==
    ASSUME Next, ~Drivable
    PROVE  status' = status
<1>1. ASSUME NEW p \in Proc,
             \/ Launch(p) \/ Pin(p) \/ FailToLoad(p) \/ Park(p) \/ FailWorkflow(p) \/ Close(p)
             \/ Crash(p) \/ Beat(p) \/ Reconcile(p) \/ Resume(p) \/ Fork(p) \/ NameFork(p)
             \/ CancelOriginal(p) \/ Reap(p) \/ FailTakeover(p)
      PROVE  status' = status
    BY <1>1 DEF Launch, Pin, FailToLoad, Park, FailWorkflow, Close, Crash, Beat, Reconcile, Resume,
                Fork, NameFork, CancelOriginal, Reap, FailTakeover, rowVars
<1>2. ASSUME NEW p \in Proc,
             \/ MarkRunning(p) \/ CancelRun(p) \/ Finish(p) \/ StartFails(p)
             \/ MarkFailed(p) \/ MarkLost(p)
      PROVE  status' = status
    BY <1>2 DEF MarkRunning, CancelRun, Finish, StartFails, MarkFailed, MarkLost, Finished
<1>3. ASSUME NEW p \in Proc, (\E w \in WorkflowId : Dequeue(p, w)) \/ (\E v \in Version : Restart(p, v))
      PROVE  status' = status
    BY <1>3 DEF Dequeue, Restart
<1>4. ASSUME NEW p \in Proc, NEW s \in Step,
             \/ Check(p, s) \/ CheckFails(p, s) \/ RefuseCancelled(p, s) \/ Replay(p, s)
             \/ PayTurn(p, s) \/ Record(p, s) \/ FindChild(p, s)
      PROVE  status' = status
    BY <1>4 DEF Check, CheckFails, RefuseCancelled, Replay, PayTurn, Record, FindChild, rowVars
<1>5. ASSUME NEW p \in Proc, NEW s \in CallStep,
             Admit(p, s) \/ Refuse(p, s) \/ CreateChild(p, s) \/ Await(p, s)
      PROVE  status' = status
    BY <1>5 DEF Admit, Refuse, CreateChild, Await, rowVars
<1>6. CASE \/ Lapse \/ UpdateCatalog \/ (\E s \in CallStep : ChildEnds(s))
           \/ StopRun \/ CancelNamed \/ StopItsChildren \/ Over
    BY <1>6 DEF Lapse, UpdateCatalog, ChildEnds, StopRun, CancelNamed, StopItsChildren, Over,
                rowVars, vars
<1> QED
    BY <1>1, <1>2, <1>3, <1>4, <1>5, <1>6 DEF Next

\* The first terminal write wins: EndIsFinal, for any number of processes, stops and passes.
THEOREM EndsAreFinal == Spec => EndIsFinal
<1>1. [Next]_vars /\ ~Drivable => status' = status
    BY EndStays DEF vars, rowVars
<1> QED
    BY <1>1, PTL DEF Spec, EndIsFinal
-----------------------------------------------------------------------------
(* Prices. *)

\* What a workflow knows of the price is the row's, and a load that succeeded knows it.
WorkflowsArePriced ==
    \A w \in WorkflowId :
        /\ wf[w].price \in {0, price}
        /\ wf[w].done[Load] \in {"none", "done", "failed"}
        /\ wf[w].done[Load] = "done" => wf[w].price # 0

\* So does an execution, from the moment its load is settled; it makes no other step before.
IsPriced(e) ==
    /\ e.price \in {0, price}
    /\ e.phase = "running" => e.step[Load] = "done"
    /\ e.step[Load] \in {"settled", "done"} => e.price # 0
    /\ \A s \in Step \ {Load} : e.step[s] # "idle" => e.phase = "running"

\* Every execution is priced.
ExecutionsArePriced == \A p \in Proc : IsPriced(at[p])

\* The invariant of the prices.
Prices == WorkflowsArePriced /\ ExecutionsArePriced /\ PinnedPriceIsPaid

\* A step keeps the executions priced.
LEMMA StepKeepsPrices ==
    ASSUME TypeOK, ExecutionsArePriced, NEW p \in Proc, NEW s \in Step, NEW x, NEW y, StepsTo(p, s, x,
           y),
           price' = price \/ price = 0, y \in {0, price'},
           at[p].step[s] # "done",
           s # Load => at[p].phase = "running" /\ y = at[p].price,
           s = Load /\ x \in {"settled", "done"} => y # 0
    PROVE  ExecutionsArePriced'
<1>1. ASSUME NEW q \in Proc \ {p} PROVE IsPriced(at[q])'
    BY <1>1 DEF ExecutionsArePriced, IsPriced, StepsTo
<1>2. at[p].step \in [Step -> StepPhase]
    BY State
<1>3. \A t \in Step : at'[p].step[t] = IF t = s THEN x ELSE at[p].step[t]
    BY <1>2 DEF StepsTo
<1>4. ASSUME s = Load PROVE IsPriced(at[p])'
    BY <1>3, <1>4, Constants DEF ExecutionsArePriced, IsPriced, StepsTo
<1>5. ASSUME s # Load PROVE IsPriced(at[p])'
    <2>1. y # 0 /\ price' = price
        BY <1>5 DEF ExecutionsArePriced, IsPriced
    <2> QED
        BY <1>3, <1>5, <2>1, Constants DEF ExecutionsArePriced, IsPriced, StepsTo
<1>6. IsPriced(at[p])'
    BY <1>3, <1>4, <1>5, <1>1
<1> QED
    BY <1>1, <1>6 DEF ExecutionsArePriced

\* A new execution keeps them priced.
LEMMA NewKeepsPrices ==
    ASSUME TypeOK, ExecutionsArePriced, NEW p \in Proc, NEW e, Becomes(p, e), price' = price,
           e.phase # "running", e.price \in {0, price}, \A s \in Step : e.step[s] = "idle"
    PROVE  ExecutionsArePriced'
<1>1. ASSUME NEW q \in Proc \ {p} PROVE IsPriced(at[q])'
    BY <1>1 DEF ExecutionsArePriced, IsPriced, Becomes
<1>2. IsPriced(at[p])'
    BY Constants DEF IsPriced, Becomes
<1> QED
    BY <1>1, <1>2 DEF ExecutionsArePriced

\* Starting one does.
LEMMA EnterKeepsPrices ==
    ASSUME TypeOK, ExecutionsArePriced, NEW p \in Proc, NEW w \in WorkflowId, Enter(p, w),
           price' = price
    PROVE  ExecutionsArePriced'
<1>1. PICK e \in Execution :
          /\ Becomes(p, e)
          /\ e.phase = (IF Drivable THEN "loading" ELSE "closing") /\ e.wf = w /\ e.price = price
          /\ \A s \in Step : e.step[s] = "idle"
    BY EnterChanges
<1>2. e.phase # "running" /\ e.price \in {0, price} /\ e \in Execution
    BY <1>1
<1> QED
    BY <1>1, <1>2, NewKeepsPrices

\* Leaving one does.
LEMMA LeaveKeepsPrices ==
    ASSUME TypeOK, ExecutionsArePriced, NEW p \in Proc, NEW w \in WorkflowId,
           NEW phase \in {"idle", "closing"}, at' = [at EXCEPT ![p] = ExecutionOf(phase, w)],
           price' = price
    PROVE  ExecutionsArePriced'
<1> DEFINE e == ExecutionOf(phase, w)
<1>1. e \in Execution /\ e.phase = phase /\ e.price = 0 /\ \A s \in Step : e.step[s] = "idle"
    BY NewExecutions
<1>2. at' = [at EXCEPT ![p] = e]
    OBVIOUS
<1> HIDE DEF e
<1>3. Becomes(p, e)
    BY <1>1, <1>2, Becoming
<1> QED
    BY <1>1, <1>3, NewKeepsPrices

\* A write that knows the row's price keeps the workflows priced.
LEMMA WriteKeepsPrices ==
    ASSUME TypeOK, WorkflowsArePriced, NEW w \in WorkflowId, NEW x, NEW done, NEW y, Writes(w, x, done,
           y),
           price' = price, y \in {0, price}, done[Load] \in {"none", "done", "failed"},
           done[Load] = "done" => y # 0
    PROVE  WorkflowsArePriced'
    BY DEF WorkflowsArePriced, Writes

\* A record keeps both priced.
LEMMA RecordKeepsPrices ==
    ASSUME TypeOK, Prices, NEW p \in Proc, NEW s \in Step, NEW outcome \in {"done", "refused",
           "failed"},
           Recorded(p, s, outcome), price' = price, at[p].step[s] \notin {"idle", "done"},
           s = Load => outcome # "refused" /\ (outcome = "done" => at[p].step[Load] = "settled")
    PROVE  WorkflowsArePriced' /\ ExecutionsArePriced'
<1> DEFINE x == IF outcome = "failed" THEN "failed" ELSE "done"
           y == IF s = Load THEN at[p].price ELSE Own(p).price
           done == [Own(p).done EXCEPT ![s] = outcome]
<1>1. IsPriced(at[p])
    BY DEF Prices, ExecutionsArePriced
<1>2. /\ s # Load => at[p].phase = "running"
      /\ s = Load /\ outcome = "done" => at[p].price # 0
      /\ at[p].price \in {0, price}
    BY <1>1 DEF IsPriced
<1>3. ASSUME NEW z \in {"lost", x}, StepsTo(p, s, z, at[p].price) PROVE ExecutionsArePriced'
    BY <1>2, <1>3, StepKeepsPrices DEF Prices
<1>4. /\ at[p].wf \in WorkflowId /\ Own(p) = wf[at[p].wf] /\ Own(p).done \in [Step -> Outcome]
    BY State
<1>5. /\ y \in {0, price} /\ done[Load] \in {"none", "done", "failed"}
      /\ done[Load] = "done" => y # 0
    BY <1>2, <1>4, Constants DEF Prices, WorkflowsArePriced
<1>6. CASE /\ Own(p).done[s] # "none" /\ StepsTo(p, s, "lost", at[p].price) /\ wf' = wf
    BY <1>3, <1>6 DEF Prices, WorkflowsArePriced
<1> HIDE DEF done, y
<1>7. CASE StepsTo(p, s, x, at[p].price) /\ Writes(at[p].wf, Own(p).status, done, y)
    <2>1. WorkflowsArePriced'
        BY <1>4, <1>5, <1>7, WriteKeepsPrices DEF Prices
    <2> QED
        BY <1>3, <1>7, <2>1
<1> QED
    BY <1>6, <1>7, RecordedChanges DEF done, y

\* Every step keeps the prices: only a load that finds the row without a price writes one.
LEMMA PricesStep ==
    ASSUME TypeOK, PassesFit, Prices, Next
    PROVE  Prices'
<1> USE DEF Prices
<1>1. ASSUME NEW p \in Proc, Launch(p)
      PROVE  Prices'
    <2>1. ExecutionsArePriced'
        BY <1>1, EnterKeepsPrices, WorkflowIds DEF Launch, TypeOK
    <2>2. WorkflowsArePriced'
        BY <1>1, LaunchWrites, WriteKeepsPrices, WorkflowIds, Constants DEF Launch
    <2> QED
        BY <1>1, <2>1, <2>2
           DEF Launch, WorkflowsArePriced, ExecutionsArePriced, IsPriced, PinnedPriceIsPaid, rowVars,
               history
<1>2. ASSUME NEW p \in Proc, Pin(p)
      PROVE  Prices'
    <2>1. at[p].step[Load] # "done" /\ at[p].price \in {0, price} /\ (price' = price \/ price = 0)
        BY <1>2 DEF Pin, Runs, IsCleared, ExecutionsArePriced, IsPriced
    <2>2. (IF at[p].price # 0 THEN at[p].price ELSE price') \in {0, price'} \ {0}
        BY <1>2, <2>1, Constants DEF Pin, TypeOK
    <2>3. ExecutionsArePriced'
        BY <1>2, <2>1, <2>2, PinChanges, StepKeepsPrices, Constants
    <2>4. WorkflowsArePriced' /\ PinnedPriceIsPaid'
        BY <1>2, <2>1 DEF Pin, WorkflowsArePriced, PinnedPriceIsPaid, rowVars, history
    <2> QED
        BY <1>2, <2>1, <2>2, <2>3, <2>4
           DEF Pin, WorkflowsArePriced, ExecutionsArePriced, IsPriced, PinnedPriceIsPaid, rowVars,
               history
<1>3. ASSUME NEW p \in Proc, FailToLoad(p)
      PROVE  Prices'
    <2>1. at[p].step[Load] \notin {"idle", "done"}
        BY <1>3 DEF FailToLoad, Runs, IsCleared
    <2>2. ExecutionsArePriced' /\ WorkflowsArePriced'
        BY <1>3, <2>1, RecordKeepsPrices, Constants DEF FailToLoad, rowVars
    <2> QED
        BY <1>3, <2>1, <2>2
           DEF FailToLoad, WorkflowsArePriced, ExecutionsArePriced, IsPriced, PinnedPriceIsPaid,
               rowVars, history
<1>4. ASSUME NEW p \in Proc, MarkRunning(p)
      PROVE  Prices'
    <2>1. ExecutionsArePriced'
        BY <1>4, RunningChanges DEF MarkRunning, Becomes, ExecutionsArePriced, IsPriced
    <2> QED
        BY <1>4, <2>1
           DEF MarkRunning, WorkflowsArePriced, ExecutionsArePriced, IsPriced, PinnedPriceIsPaid,
               rowVars, history
<1>5. ASSUME NEW p \in Proc, Park(p)
      PROVE  Prices'
    <2>1. ExecutionsArePriced'
        BY <1>5, State, LeaveKeepsPrices, WorkflowIds DEF Park, rowVars, Idle
    <2> QED
        BY <1>5, <2>1
           DEF Park, WorkflowsArePriced, ExecutionsArePriced, IsPriced, PinnedPriceIsPaid, rowVars,
               history
<1>6. ASSUME NEW p \in Proc, FailWorkflow(p)
      PROVE  Prices'
    <2>1. ExecutionsArePriced'
        BY <1>6, State, LeaveKeepsPrices, WorkflowIds DEF FailWorkflow, rowVars, Idle
    <2>2. WorkflowsArePriced'
        BY <1>6, State, StatusWrites, WriteKeepsPrices DEF FailWorkflow, WorkflowsArePriced, rowVars
    <2> QED
        BY <1>6, <2>1, <2>2
           DEF FailWorkflow, WorkflowsArePriced, ExecutionsArePriced, IsPriced, PinnedPriceIsPaid,
               rowVars, history
<1>7. ASSUME NEW p \in Proc, CancelRun(p)
      PROVE  Prices'
    <2>1. ExecutionsArePriced'
        BY <1>7, State, LeaveKeepsPrices, WorkflowIds DEF CancelRun, rowVars
    <2> QED
        BY <1>7, <2>1
           DEF CancelRun, WorkflowsArePriced, ExecutionsArePriced, IsPriced, PinnedPriceIsPaid,
               rowVars, history
<1>8. ASSUME NEW p \in Proc, Finish(p)
      PROVE  Prices'
    <2>1. ExecutionsArePriced'
        BY <1>8, State, LeaveKeepsPrices, WorkflowIds DEF Finish, rowVars
    <2> QED
        BY <1>8, <2>1
           DEF Finish, WorkflowsArePriced, ExecutionsArePriced, IsPriced, PinnedPriceIsPaid, rowVars,
               history
<1>9. ASSUME NEW p \in Proc, Close(p)
      PROVE  Prices'
    <2>1. ExecutionsArePriced'
        BY <1>9, State, LeaveKeepsPrices, WorkflowIds DEF Close, rowVars, Idle
    <2>2. WorkflowsArePriced'
        BY <1>9, State, StatusWrites, WriteKeepsPrices DEF Close, WorkflowsArePriced, rowVars
    <2> QED
        BY <1>9, <2>1, <2>2
           DEF Close, WorkflowsArePriced, ExecutionsArePriced, IsPriced, PinnedPriceIsPaid, rowVars,
               history
<1>10. ASSUME NEW p \in Proc, Crash(p)
      PROVE  Prices'
    <2>1. ExecutionsArePriced'
        BY <1>10, State, LeaveKeepsPrices, WorkflowIds DEF Crash, rowVars, Idle
    <2>2. WorkflowsArePriced'
        BY <1>10, CrashWrites DEF Crash, WorkflowsArePriced, rowVars
    <2> QED
        BY <1>10, <2>1, <2>2
           DEF Crash, WorkflowsArePriced, ExecutionsArePriced, IsPriced, PinnedPriceIsPaid, rowVars,
               history
<1>11. ASSUME NEW p \in Proc, Resume(p)
      PROVE  Prices'
    <2>1. WorkflowsArePriced'
        BY <1>11, State, StatusWrites, WriteKeepsPrices DEF Resume, WorkflowsArePriced, rowVars
    <2> QED
        BY <1>11, <2>1
           DEF Resume, WorkflowsArePriced, ExecutionsArePriced, IsPriced, PinnedPriceIsPaid, rowVars,
               history
<1>12. ASSUME NEW p \in Proc, Fork(p)
      PROVE  Prices'
    <2>1. rec[p].wf \in WorkflowId /\ CopiedDone(wf[rec[p].wf].done)[Load] = wf[rec[p].wf].done[Load]
        BY <1>12, State, Constants DEF CopiedDone, Load
    <2>2. WorkflowsArePriced'
      <3> DEFINE from == wf[rec[p].wf]
                 done == CopiedDone(from.done)
      <3>1. /\ price' = price /\ from.price \in {0, price} /\ done[Load] \in {"none", "done", "failed"}
            /\ done[Load] = "done" => from.price # 0
        BY <1>12, <2>1 DEF Fork, WorkflowsArePriced, rowVars
      <3>2. CASE wf' = wf
        BY <3>1, <3>2 DEF WorkflowsArePriced
      <3> HIDE DEF done
      <3>3. ASSUME NEW fork \in WorkflowId, Writes(fork, "enqueued", done, from.price)
            PROVE  WorkflowsArePriced'
        BY <3>1, <3>3, WriteKeepsPrices
      <3> QED
        BY <1>12, <3>2, <3>3, ForkWrites DEF done
    <2> QED
        BY <1>12, <2>1, <2>2
           DEF Fork, WorkflowsArePriced, ExecutionsArePriced, IsPriced, PinnedPriceIsPaid, rowVars,
               history
<1>13. ASSUME NEW p \in Proc, CancelOriginal(p)
      PROVE  Prices'
    <2>1. WorkflowsArePriced'
        BY <1>13, State, StatusWrites, WriteKeepsPrices DEF CancelOriginal, WorkflowsArePriced, rowVars
    <2> QED
        BY <1>13, <2>1
           DEF CancelOriginal, WorkflowsArePriced, ExecutionsArePriced, IsPriced, PinnedPriceIsPaid,
               rowVars, history
<1>14. ASSUME NEW p \in Proc, NEW w \in WorkflowId, Dequeue(p, w)
      PROVE  Prices'
    <2>1. ExecutionsArePriced'
        BY <1>14, EnterKeepsPrices DEF Dequeue, TypeOK
    <2>2. WorkflowsArePriced'
        BY <1>14, StatusWrites, WriteKeepsPrices DEF Dequeue, WorkflowsArePriced
    <2> QED
        BY <1>14, <2>1, <2>2
           DEF Dequeue, WorkflowsArePriced, ExecutionsArePriced, IsPriced, PinnedPriceIsPaid, rowVars,
               history
<1>15. ASSUME NEW p \in Proc, NEW v \in Version, Restart(p, v)
      PROVE  Prices'
    <2>1. ExecutionsArePriced'
        BY <1>15, EnterKeepsPrices DEF Restart, TypeOK, ExecutionsArePriced, IsPriced
    <2> QED
        BY <1>15, <2>1
           DEF Restart, WorkflowsArePriced, ExecutionsArePriced, IsPriced, PinnedPriceIsPaid, rowVars,
               history
<1>16. ASSUME NEW p \in Proc, NEW s \in Step, Check(p, s)
      PROVE  Prices'
    <2>1. at[p].step[s] # "done" /\ (s # Load => at[p].phase = "running")
        BY <1>16 DEF Check, IsNext, ExecutionsArePriced, IsPriced
    <2>2. /\ at[p].price \in {0, price} /\ Own(p).price \in {0, price}
          /\ Own(p).done[Load] \in {"none", "done", "failed"}
          /\ (Own(p).done[Load] = "done" => Own(p).price # 0)
        BY <1>16, State DEF ExecutionsArePriced, IsPriced, WorkflowsArePriced
    <2>3. ASSUME Verdict(p) = "checked", IsRecorded(p, s), Replayed(p, s) PROVE ExecutionsArePriced'
        BY <1>16, <2>1, <2>2, <2>3, ReplayedChanges, StepKeepsPrices DEF Check, IsRecorded, rowVars
    <2>4. ASSUME SetStep(p, s, Verdict(p)) PROVE ExecutionsArePriced'
        BY <1>16, <2>1, <2>2, <2>4, SetStepChanges, StepKeepsPrices
           DEF Check, Verdict, StepPhase, rowVars
    <2>5. ExecutionsArePriced'
        BY <1>16, <2>3, <2>4 DEF Check
    <2> QED
        BY <1>16, <2>1, <2>2, <2>3, <2>4, <2>5
           DEF Check, WorkflowsArePriced, ExecutionsArePriced, IsPriced, PinnedPriceIsPaid, rowVars,
               history
<1>17. ASSUME NEW p \in Proc, NEW s \in Step, CheckFails(p, s)
      PROVE  Prices'
    <2>1. at[p].step[s] # "done" /\ (s # Load => at[p].phase = "running")
        BY <1>17 DEF CheckFails, IsNext, IsCleared, Runs, IsAtGate, ExecutionsArePriced, IsPriced
    <2>2. {"unread"} \subseteq StepPhase
        BY <1>17 DEF StepPhase, Verdict
    <2>3. ExecutionsArePriced'
        BY <1>17, <2>1, <2>2, SetStepChanges, StepKeepsPrices, State
           DEF CheckFails, ExecutionsArePriced, IsPriced, rowVars
    <2> QED
        BY <1>17, <2>1, <2>2, <2>3
           DEF CheckFails, WorkflowsArePriced, ExecutionsArePriced, IsPriced, PinnedPriceIsPaid,
               rowVars, history
<1>18. ASSUME NEW p \in Proc, NEW s \in Step, RefuseCancelled(p, s)
      PROVE  Prices'
    <2>1. at[p].step[s] \notin {"idle", "done"} /\ (s # Load => at[p].phase = "running")
        BY <1>18 DEF RefuseCancelled, IsNext, IsCleared, Runs, IsAtGate, ExecutionsArePriced, IsPriced
    <2>2. {"lost", "stopped"} \subseteq StepPhase
        BY <1>18 DEF StepPhase, Verdict
    <2>3. ExecutionsArePriced'
        BY <1>18, <2>1, <2>2, SetStepChanges, StepKeepsPrices, State
           DEF RefuseCancelled, ExecutionsArePriced, IsPriced, rowVars
    <2> QED
        BY <1>18, <2>1, <2>2, <2>3
           DEF RefuseCancelled, WorkflowsArePriced, ExecutionsArePriced, IsPriced, PinnedPriceIsPaid,
               rowVars, history
<1>19. ASSUME NEW p \in Proc, NEW s \in Step, Replay(p, s)
      PROVE  Prices'
    <2>1. at[p].step[s] \notin {"idle", "done"} /\ (s # Load => at[p].phase = "running")
        BY <1>19 DEF Replay, IsCleared, ExecutionsArePriced, IsPriced
    <2>2. /\ at[p].price \in {0, price} /\ Own(p).price \in {0, price}
          /\ Own(p).done[Load] \in {"none", "done", "failed"}
          /\ (Own(p).done[Load] = "done" => Own(p).price # 0)
        BY <1>19, State DEF ExecutionsArePriced, IsPriced, WorkflowsArePriced
    <2>3. ExecutionsArePriced'
        BY <1>19, <2>1, <2>2, ReplayedChanges, StepKeepsPrices DEF Replay, IsRecorded, rowVars
    <2> QED
        BY <1>19, <2>1, <2>2, <2>3
           DEF Replay, WorkflowsArePriced, ExecutionsArePriced, IsPriced, PinnedPriceIsPaid, rowVars,
               history
<1>20. ASSUME NEW p \in Proc, NEW s \in Step, PayTurn(p, s)
      PROVE  Prices'
    <2>1. s # Load /\ at[p].step[s] \notin {"idle", "done"} /\ (s # Load => at[p].phase = "running")
        BY <1>20, Constants DEF PayTurn, Runs, IsCleared, ExecutionsArePriced, IsPriced
    <2>2. at[p].price = price /\ price # 0
        BY <1>20, <2>1 DEF ExecutionsArePriced, IsPriced
    <2>3. ExecutionsArePriced'
        BY <1>20, <2>1, <2>2, PayTurnChanges, StepKeepsPrices DEF PayTurn, rowVars
    <2>4. WorkflowsArePriced' /\ PinnedPriceIsPaid'
        BY <1>20, <2>2 DEF PayTurn, WorkflowsArePriced, PinnedPriceIsPaid, rowVars, history
    <2> QED
        BY <1>20, <2>1, <2>2, <2>3, <2>4
           DEF PayTurn, WorkflowsArePriced, ExecutionsArePriced, IsPriced, PinnedPriceIsPaid, rowVars,
               history
<1>21. ASSUME NEW p \in Proc, NEW s \in Step, Record(p, s)
      PROVE  Prices'
    <2>1. ExecutionsArePriced' /\ WorkflowsArePriced'
        BY <1>21, RecordKeepsPrices DEF Record, rowVars
    <2> QED
        BY <1>21, <2>1
           DEF Record, WorkflowsArePriced, ExecutionsArePriced, IsPriced, PinnedPriceIsPaid, rowVars,
               history
<1>22. ASSUME NEW p \in Proc, NEW s \in Step, FindChild(p, s)
      PROVE  Prices'
    <2>1. s # Load /\ at[p].step[s] \notin {"idle", "done"} /\ (s # Load => at[p].phase = "running")
        BY <1>22, Constants
           DEF FindChild, IsNext, IsCleared, Runs, IsAtGate, ExecutionsArePriced, IsPriced
    <2>2. {"waiting", "seeking"} \subseteq StepPhase
        BY <1>22 DEF StepPhase, Verdict
    <2>3. ExecutionsArePriced'
        BY <1>22, <2>1, <2>2, SetStepChanges, StepKeepsPrices, State
           DEF FindChild, ExecutionsArePriced, IsPriced, rowVars
    <2> QED
        BY <1>22, <2>1, <2>2, <2>3
           DEF FindChild, WorkflowsArePriced, ExecutionsArePriced, IsPriced, PinnedPriceIsPaid,
               rowVars, history
<1>23. ASSUME NEW p \in Proc, NEW s \in CallStep, Admit(p, s)
      PROVE  Prices'
    <2>1. /\ s \in Step /\ s # Load /\ at[p].step[s] \notin {"idle", "done"}
          /\ (s # Load => at[p].phase = "running")
        BY <1>23, Constants DEF Admit, IsNext, IsCleared, Runs, IsAtGate, ExecutionsArePriced, IsPriced
    <2>2. {"admitted"} \subseteq StepPhase
        BY <1>23 DEF StepPhase, Verdict
    <2>3. ExecutionsArePriced'
        BY <1>23, <2>1, <2>2, SetStepChanges, StepKeepsPrices, State
           DEF Admit, ExecutionsArePriced, IsPriced, rowVars
    <2> QED
        BY <1>23, <2>1, <2>2, <2>3
           DEF Admit, WorkflowsArePriced, ExecutionsArePriced, IsPriced, PinnedPriceIsPaid, rowVars,
               history
<1>24. ASSUME NEW p \in Proc, NEW s \in CallStep, CreateChild(p, s)
      PROVE  Prices'
    <2>1. /\ s \in Step /\ s # Load /\ at[p].step[s] \notin {"idle", "done"}
          /\ (s # Load => at[p].phase = "running")
        BY <1>24, Constants
           DEF CreateChild, IsNext, IsCleared, Runs, IsAtGate, ExecutionsArePriced, IsPriced
    <2>2. {"waiting"} \subseteq StepPhase
        BY <1>24 DEF StepPhase, Verdict
    <2>3. ExecutionsArePriced'
        BY <1>24, <2>1, <2>2, SetStepChanges, StepKeepsPrices, State
           DEF CreateChild, ExecutionsArePriced, IsPriced, rowVars
    <2> QED
        BY <1>24, <2>1, <2>2, <2>3
           DEF CreateChild, WorkflowsArePriced, ExecutionsArePriced, IsPriced, PinnedPriceIsPaid,
               rowVars, history
<1>25. ASSUME NEW p \in Proc, NEW s \in CallStep, Refuse(p, s)
      PROVE  Prices'
    <2>1. s \in Step /\ s # Load /\ at[p].step[s] \notin {"idle", "done"}
        BY <1>25, Constants DEF Refuse, IsAtGate
    <2>2. ExecutionsArePriced' /\ WorkflowsArePriced'
        BY <1>25, <2>1, RecordKeepsPrices DEF Refuse, rowVars
    <2> QED
        BY <1>25, <2>1, <2>2
           DEF Refuse, WorkflowsArePriced, ExecutionsArePriced, IsPriced, PinnedPriceIsPaid, rowVars,
               history
<1>26. ASSUME NEW p \in Proc, NEW s \in CallStep, Await(p, s)
      PROVE  Prices'
    <2>1. s \in Step /\ s # Load /\ at[p].step[s] \notin {"idle", "done"}
        BY <1>26, Constants DEF Await, IsAtGate
    <2>2. ExecutionsArePriced' /\ WorkflowsArePriced'
        BY <1>26, <2>1, RecordKeepsPrices DEF Await, rowVars
    <2> QED
        BY <1>26, <2>1, <2>2
           DEF Await, WorkflowsArePriced, ExecutionsArePriced, IsPriced, PinnedPriceIsPaid, rowVars,
               history
<1>27. ASSUME CancelNamed
      PROVE  Prices'
    <2>1. WorkflowsArePriced'
        BY <1>27, StatusWrites, WriteKeepsPrices DEF CancelNamed, WorkflowsArePriced, rowVars, TypeOK
    <2> QED
        BY <1>27, <2>1
           DEF CancelNamed, WorkflowsArePriced, ExecutionsArePriced, IsPriced, PinnedPriceIsPaid,
               rowVars, history
<1>28. ASSUME NEW p \in Proc, StartFails(p) \/ Beat(p) \/ Reconcile(p) \/ NameFork(p)
                  \/ MarkFailed(p) \/ MarkLost(p) \/ Reap(p) \/ FailTakeover(p)
      PROVE  UNCHANGED <<price, wf, at, paidAt>>
    BY <1>28
       DEF StartFails, Beat, Reconcile, NameFork, MarkFailed, MarkLost, Reap, FailTakeover, rowVars,
           history
<1>29. ASSUME Lapse \/ UpdateCatalog \/ StopRun \/ StopItsChildren \/ Over
                  \/ \E s \in CallStep : ChildEnds(s)
      PROVE  UNCHANGED <<price, wf, at, paidAt>>
    BY <1>29 DEF Lapse, UpdateCatalog, StopRun, StopItsChildren, Over, ChildEnds, rowVars, history, vars
<1>30. UNCHANGED <<price, wf, at, paidAt>> => Prices'
    BY DEF WorkflowsArePriced, ExecutionsArePriced, IsPriced, PinnedPriceIsPaid
<1> QED
    BY <1>1, <1>2, <1>3, <1>4, <1>5, <1>6, <1>7, <1>8, <1>9, <1>10, <1>11, <1>12, <1>13, <1>14, <1>15,
       <1>16, <1>17, <1>18, <1>19, <1>20, <1>21, <1>22, <1>23, <1>24, <1>25, <1>26, <1>27, <1>28,
       <1>29, <1>30 DEF Next

-----------------------------------------------------------------------------
(* Records. *)

\* A workflow's records start with its load, and a fork has them from the start.
IsOrdered(w) ==
    /\ wf[w].status = "none" => \A s \in Step : wf[w].done[s] = "none"
    /\ wf[w].done[FirstTurn] # "none" => wf[w].done[Load] = "done"
    /\ w # <<>> /\ wf[w].status # "none" => wf[w].done[Load] = "done"
    /\ \A s \in Step \ {Load} : wf[w].done[s] # "failed"

\* What an execution has done, its workflow has recorded.
Follows(p) ==
    /\ IsExecuting(p) => Own(p).status # "none"
    /\ \A s \in Step : at[p].step[s] # "idle" => at[p].phase \in {"loading", "running"}
    /\ \A s \in Step \ {Load} : at[p].step[s] # "failed"
    /\ at[p].step[Load] \in {"done", "failed"} => Own(p).done[Load] = at[p].step[Load]

\* Every workflow is ordered.
WorkflowsAreOrdered == \A w \in WorkflowId : IsOrdered(w)

\* Every execution follows its workflow.
ExecutionsFollow == \A p \in Proc : Follows(p)

\* A pass resumes, or forks, a workflow that is there.
PassesFollow ==
    \A p \in Proc :
        /\ At(p, "resuming") => wf[rec[p].wf].status # "none"
        /\ At(p, "forking") => wf[rec[p].wf].done[Load] = "done"

\* The invariant of the records.
Records == WorkflowsAreOrdered /\ ExecutionsFollow /\ PassesFollow

\* No workflow goes, and no record changes.
Grows ==
    \A w \in WorkflowId :
        /\ wf[w].status # "none" => wf'[w].status # "none"
        /\ \A s \in Step : wf[w].done[s] # "none" => wf'[w].done[s] = wf[w].done[s]

\* A write that adds to the records keeps them ordered, and loses none.
LEMMA WriteGrows ==
    ASSUME TypeOK, WorkflowsAreOrdered, NEW w \in WorkflowId, NEW x, NEW done, NEW y, Writes(w, x,
           done, y),
           x # "none",
           \A s \in Step : wf[w].done[s] # "none" => done[s] = wf[w].done[s],
           done[FirstTurn] # "none" => done[Load] = "done",
           w # <<>> => done[Load] = "done",
           \A s \in Step \ {Load} : done[s] # "failed"
    PROVE  WorkflowsAreOrdered' /\ Grows
<1>1. Grows
    BY DEF Grows, Writes
<1>2. ASSUME NEW u \in WorkflowId PROVE IsOrdered(u)'
    BY <1>2 DEF WorkflowsAreOrdered, IsOrdered, Writes
<1> QED
    BY <1>1, <1>2 DEF WorkflowsAreOrdered

\* So does a new status.
LEMMA StatusGrows ==
    ASSUME TypeOK, WorkflowsAreOrdered, NEW w \in WorkflowId,
           NEW x \in {"enqueued", "pending", "cancelled", "error", "finished"},
           Writes(w, x, wf[w].done, wf[w].price), wf[w].status # "none"
    PROVE  WorkflowsAreOrdered' /\ Grows
<1> DEFINE done == wf[w].done
           y == wf[w].price
<1>1. /\ done[FirstTurn] # "none" => done[Load] = "done"
      /\ w # <<>> => done[Load] = "done"
      /\ \A s \in Step \ {Load} : done[s] # "failed"
    BY DEF WorkflowsAreOrdered, IsOrdered
<1>2. Writes(w, x, done, y) /\ \A s \in Step : wf[w].done[s] # "none" => done[s] = wf[w].done[s]
    OBVIOUS
<1> HIDE DEF done, y
<1> QED
    BY <1>1, <1>2, WriteGrows

\* So does a record.
LEMMA RecordGrows ==
    ASSUME TypeOK, Prices, Records, NEW p \in Proc, NEW s \in Step,
           NEW outcome \in {"done", "refused", "failed"}, Recorded(p, s, outcome),
           at[p].step[s] \notin {"idle", "done"}, outcome = "failed" => s = Load
    PROVE  WorkflowsAreOrdered' /\ Grows
<1> DEFINE y == IF s = Load THEN at[p].price ELSE Own(p).price
           done == [Own(p).done EXCEPT ![s] = outcome]
<1>1. /\ at[p].wf \in WorkflowId /\ Own(p) = wf[at[p].wf] /\ Own(p).done \in [Step -> Outcome]
      /\ IsOrdered(at[p].wf) /\ Own(p).status # "none"
    BY State DEF Records, WorkflowsAreOrdered, ExecutionsFollow, Follows, IsExecuting
<1>2. s # Load => Own(p).done[Load] = "done"
    BY DEF Prices, ExecutionsArePriced, IsPriced, Records, ExecutionsFollow, Follows
<1>3. CASE wf' = wf
    BY <1>3 DEF Records, WorkflowsAreOrdered, IsOrdered, Grows
<1>4. CASE Own(p).done[s] = "none"
    <2>1. /\ \A t \in Step : Own(p).done[t] # "none" => done[t] = Own(p).done[t]
          /\ done[FirstTurn] # "none" => done[Load] = "done"
          /\ at[p].wf # <<>> => done[Load] = "done"
          /\ \A t \in Step \ {Load} : done[t] # "failed"
        BY <1>1, <1>2, <1>4, Constants DEF IsOrdered
    <2> HIDE DEF done, y
    <2>2. ASSUME Writes(at[p].wf, Own(p).status, done, y) PROVE WorkflowsAreOrdered' /\ Grows
        BY <1>1, <2>1, <2>2, WriteGrows DEF Records
    <2> QED
        BY <1>3, <1>4, <2>2, RecordedChanges DEF done, y
<1> QED
    BY <1>3, <1>4, RecordedChanges

\* Every step keeps the workflows ordered and every record.
LEMMA RecordsGrow ==
    ASSUME TypeOK, PassesFit, Prices, Records, Next
    PROVE  WorkflowsAreOrdered' /\ Grows
<1>1. ASSUME NEW p \in Proc, Launch(p)
      PROVE  WorkflowsAreOrdered' /\ Grows
    <2> DEFINE none == [s \in Step |-> "none"]
    <2>1. wf[<<>>].status = "none" /\ \A s \in Step : wf[<<>>].done[s] = "none"
        BY <1>1, WorkflowIds DEF Launch, Records, WorkflowsAreOrdered, IsOrdered
    <2>2. Writes(<<>>, "pending", none, 0) /\ \A s \in Step : none[s] = "none"
        BY <1>1, LaunchWrites
    <2> HIDE DEF none
    <2> QED
        BY <2>1, <2>2, WriteGrows, WorkflowIds, Constants DEF Records
<1>2. ASSUME NEW p \in Proc, NEW w \in WorkflowId, Dequeue(p, w)
      PROVE  WorkflowsAreOrdered' /\ Grows
    BY <1>2, StatusWrites, StatusGrows DEF Dequeue, Records
<1>3. ASSUME NEW p \in Proc, FailToLoad(p)
      PROVE  WorkflowsAreOrdered' /\ Grows
    <2>1. at[p].step[Load] \notin {"idle", "done"}
        BY <1>3 DEF FailToLoad, Runs, IsCleared
    <2> QED
        BY <1>3, <2>1, RecordGrows, Constants DEF FailToLoad
<1>4. ASSUME NEW p \in Proc, FailWorkflow(p)
      PROVE  WorkflowsAreOrdered' /\ Grows
    <2>1. wf' = wf => WorkflowsAreOrdered' /\ Grows
        BY <1>4 DEF Records, WorkflowsAreOrdered, IsOrdered, Grows
    <2> QED
        BY <1>4, <2>1, State, StatusWrites, StatusGrows DEF FailWorkflow, Records, Cancellable
<1>5. ASSUME NEW p \in Proc, Close(p)
      PROVE  WorkflowsAreOrdered' /\ Grows
    <2>1. wf' = wf => WorkflowsAreOrdered' /\ Grows
        BY <1>5 DEF Records, WorkflowsAreOrdered, IsOrdered, Grows
    <2> QED
        BY <1>5, <2>1, State, StatusWrites, StatusGrows DEF Close, Records, Cancellable
<1>6. ASSUME NEW p \in Proc, Crash(p)
      PROVE  WorkflowsAreOrdered' /\ Grows
    BY <1>6, CrashWrites DEF Records, WorkflowsAreOrdered, IsOrdered, Grows
<1>7. ASSUME NEW p \in Proc, Resume(p)
      PROVE  WorkflowsAreOrdered' /\ Grows
    <2>1. wf' = wf => WorkflowsAreOrdered' /\ Grows
        BY <1>7 DEF Records, WorkflowsAreOrdered, IsOrdered, Grows
    <2> QED
        BY <1>7, <2>1, State, StatusWrites, StatusGrows DEF Resume, Records, PassesFollow
<1>8. ASSUME NEW p \in Proc, Fork(p)
      PROVE  WorkflowsAreOrdered' /\ Grows
    <2> DEFINE from == wf[rec[p].wf]
               fork == Append(rec[p].wf, version[p])
               done == CopiedDone(from.done)
               y == from.price
    <2>1. /\ from.done[Load] = "done" /\ from.done \in [Step -> Outcome]
          /\ \A s \in Step \ {Load} : from.done[s] # "failed"
        BY <1>8, State, WorkflowFields DEF Fork, Records, PassesFollow, WorkflowsAreOrdered, IsOrdered
    <2>2. done[Load] = "done" /\ \A s \in Step \ {Load} : done[s] # "failed"
        BY <2>1, Constants DEF CopiedDone, Load
    <2>3. CASE wf' = wf
        BY <2>3 DEF Records, WorkflowsAreOrdered, IsOrdered, Grows
    <2>4. CASE wf' # wf
        <3>1. fork \in WorkflowId /\ Writes(fork, "enqueued", done, y)
            BY <1>8, <2>4, ForkWrites
        <3>2. \A s \in Step : wf[fork].done[s] = "none"
            BY <1>8, <2>4, <3>1 DEF Fork, Records, WorkflowsAreOrdered, IsOrdered
        <3> HIDE DEF from, fork, done, y
        <3> QED
            BY <2>2, <3>1, <3>2, WriteGrows DEF Records
    <2> QED
        BY <2>3, <2>4
<1>9. ASSUME NEW p \in Proc, CancelOriginal(p)
      PROVE  WorkflowsAreOrdered' /\ Grows
    <2>1. wf' = wf => WorkflowsAreOrdered' /\ Grows
        BY <1>9 DEF Records, WorkflowsAreOrdered, IsOrdered, Grows
    <2> QED
        BY <1>9, <2>1, State, StatusWrites, StatusGrows DEF CancelOriginal, Records, Cancellable
<1>10. ASSUME NEW p \in Proc, NEW s \in Step, Record(p, s)
      PROVE  WorkflowsAreOrdered' /\ Grows
    BY <1>10, RecordGrows DEF Record
<1>11. ASSUME NEW p \in Proc, NEW s \in CallStep, Refuse(p, s)
      PROVE  WorkflowsAreOrdered' /\ Grows
    <2>1. s \in Step /\ at[p].step[s] \notin {"idle", "done"}
        BY <1>11, Constants DEF Refuse, IsAtGate
    <2> QED
        BY <1>11, <2>1, RecordGrows DEF Refuse
<1>12. ASSUME NEW p \in Proc, NEW s \in CallStep, Await(p, s)
      PROVE  WorkflowsAreOrdered' /\ Grows
    <2>1. s \in Step /\ at[p].step[s] \notin {"idle", "done"}
        BY <1>12, Constants DEF Await, IsAtGate
    <2> QED
        BY <1>12, <2>1, RecordGrows DEF Await
<1>13. ASSUME CancelNamed
      PROVE  WorkflowsAreOrdered' /\ Grows
    <2>1. wf' = wf => WorkflowsAreOrdered' /\ Grows
        BY <1>13 DEF Records, WorkflowsAreOrdered, IsOrdered, Grows
    <2> QED
        BY <1>13, <2>1, StatusWrites, StatusGrows DEF CancelNamed, Records, Cancellable, TypeOK
<1>14. ASSUME NEW p \in Proc,
       Pin(p) \/ MarkRunning(p) \/ Park(p) \/ CancelRun(p) \/ Finish(p) \/ StartFails(p)
           \/ Beat(p) \/ Reconcile(p) \/ NameFork(p) \/ MarkFailed(p) \/ MarkLost(p)
           \/ Reap(p) \/ FailTakeover(p)
      PROVE  wf' = wf
    BY <1>14
       DEF Pin, MarkRunning, Park, CancelRun, Finish, StartFails, Beat, Reconcile, NameFork,
           MarkFailed, MarkLost, Reap, FailTakeover, rowVars, history, vars
<1>15. ASSUME NEW p \in Proc, NEW v \in Version,
       Restart(p, v)
      PROVE  wf' = wf
    BY <1>15 DEF Restart, Enter, rowVars, history, vars
<1>16. ASSUME NEW p \in Proc, NEW s \in Step,
       Check(p, s) \/ CheckFails(p, s) \/ RefuseCancelled(p, s) \/ Replay(p, s)
           \/ PayTurn(p, s) \/ FindChild(p, s)
      PROVE  wf' = wf
    BY <1>16 DEF Check, CheckFails, RefuseCancelled, Replay, PayTurn, FindChild, rowVars, history, vars
<1>17. ASSUME NEW p \in Proc, NEW s \in CallStep,
       Admit(p, s) \/ CreateChild(p, s)
      PROVE  wf' = wf
    BY <1>17 DEF Admit, CreateChild, rowVars, history, vars
<1>18. ASSUME Lapse \/ UpdateCatalog \/ StopRun \/ StopItsChildren \/ Over
           \/ \E s \in CallStep : ChildEnds(s)
      PROVE  wf' = wf
    BY <1>18 DEF Lapse, UpdateCatalog, StopRun, StopItsChildren, Over, ChildEnds, rowVars, history, vars
<1>19. wf' = wf => WorkflowsAreOrdered' /\ Grows
    BY DEF Records, WorkflowsAreOrdered, IsOrdered, Grows
<1> QED
    BY <1>1, <1>2, <1>3, <1>4, <1>5, <1>6, <1>7, <1>8, <1>9, <1>10, <1>11, <1>12, <1>13, <1>14, <1>15,
       <1>16, <1>17, <1>18, <1>19 DEF Next

\* An execution that does nothing still follows its workflow.
LEMMA OthersFollow ==
    ASSUME TypeOK, Grows, NEW q \in Proc, Follows(q), at'[q] = at[q]
    PROVE  Follows(q)'
<1>1. at[q].wf \in WorkflowId /\ Own(q) = wf[at[q].wf] /\ Own(q)' = wf'[at[q].wf]
    BY State DEF Own
<1> QED
    BY <1>1, Constants DEF Follows, Grows, IsExecuting

\* One that makes a step does, if what it did is recorded.
LEMMA StepFollows ==
    ASSUME TypeOK, ExecutionsFollow, Grows, NEW p \in Proc, NEW s \in Step, NEW x, NEW y, StepsTo(p, s,
           x, y),
           at[p].phase \in {"loading", "running"}, s # Load => x # "failed",
           s = Load /\ x \in {"done", "failed"} => wf'[at[p].wf].done[Load] = x
    PROVE  ExecutionsFollow'
<1>1. ASSUME NEW q \in Proc \ {p} PROVE Follows(q)'
    BY <1>1, OthersFollow DEF ExecutionsFollow, StepsTo
<1>2. /\ at[p].step \in [Step -> StepPhase] /\ at[p].wf \in WorkflowId
      /\ Own(p) = wf[at[p].wf] /\ Own(p)' = wf'[at[p].wf]
    BY State DEF Own, StepsTo
<1>3. \A t \in Step : at'[p].step[t] = IF t = s THEN x ELSE at[p].step[t]
    BY <1>2 DEF StepsTo
<1>4. Follows(p)'
    BY <1>2, <1>3, Constants DEF ExecutionsFollow, Follows, IsExecuting, Grows, StepsTo
<1> QED
    BY <1>1, <1>4 DEF ExecutionsFollow

\* A new one does.
LEMMA NewFollows ==
    ASSUME TypeOK, ExecutionsFollow, Grows, NEW p \in Proc, NEW e \in Execution, Becomes(p, e),
           e.phase # "idle" => wf'[e.wf].status # "none", \A s \in Step : e.step[s] = "idle"
    PROVE  ExecutionsFollow'
<1>1. ASSUME NEW q \in Proc \ {p} PROVE Follows(q)'
    BY <1>1, OthersFollow DEF ExecutionsFollow, Becomes
<1>2. Follows(p)'
    BY Constants DEF Follows, Becomes, IsExecuting, Own
<1> QED
    BY <1>1, <1>2 DEF ExecutionsFollow

\* One that starts does.
LEMMA EnterFollows ==
    ASSUME TypeOK, ExecutionsFollow, Grows, NEW p \in Proc, NEW w \in WorkflowId, Enter(p, w),
           wf'[w].status # "none"
    PROVE  ExecutionsFollow'
<1>1. PICK e \in Execution :
          /\ Becomes(p, e)
          /\ e.phase = (IF Drivable THEN "loading" ELSE "closing") /\ e.wf = w /\ e.price = price
          /\ \A s \in Step : e.step[s] = "idle"
    BY EnterChanges
<1> QED
    BY <1>1, NewFollows

\* One that is left does.
LEMMA LeaveFollows ==
    ASSUME TypeOK, ExecutionsFollow, Grows, NEW p \in Proc, NEW w \in WorkflowId,
           NEW phase \in {"idle", "closing"}, at' = [at EXCEPT ![p] = ExecutionOf(phase, w)],
           phase # "idle" => wf[w].status # "none"
    PROVE  ExecutionsFollow'
<1> DEFINE e == ExecutionOf(phase, w)
<1>1. /\ e \in Execution /\ e.phase = phase /\ e.wf = w
      /\ \A s \in Step : e.step[s] = "idle"
    BY NewExecutions
<1>2. at' = [at EXCEPT ![p] = e]
    OBVIOUS
<1> HIDE DEF e
<1>3. Becomes(p, e)
    BY <1>1, <1>2, Becoming
<1>4. e.phase # "idle" => wf'[e.wf].status # "none"
    BY <1>1 DEF Grows
<1> QED
    BY <1>1, <1>3, <1>4, NewFollows

\* One that records does.
LEMMA RecordFollows ==
    ASSUME TypeOK, Records, Grows, NEW p \in Proc, NEW s \in Step,
           NEW outcome \in {"done", "refused", "failed"}, Recorded(p, s, outcome),
           at[p].step[s] # "idle", outcome = "failed" => s = Load, s = Load => outcome # "refused"
    PROVE  ExecutionsFollow'
<1> DEFINE x == IF outcome = "failed" THEN "failed" ELSE "done"
<1>1. /\ at[p].phase \in {"loading", "running"} /\ at[p].wf \in WorkflowId
      /\ Own(p).done \in [Step -> Outcome]
    BY State DEF Records, ExecutionsFollow, Follows
<1>2. CASE StepsTo(p, s, "lost", at[p].price)
    BY <1>1, <1>2, StepFollows DEF Records
<1>3. CASE /\ StepsTo(p, s, x, at[p].price)
           /\ Writes(at[p].wf, Own(p).status, [Own(p).done EXCEPT ![s] = outcome],
                     IF s = Load THEN at[p].price ELSE Own(p).price)
    <2>1. s = Load => wf'[at[p].wf].done[Load] = x
        BY <1>1, <1>3 DEF Writes
    <2>2. s # Load => x # "failed"
        OBVIOUS
    <2> HIDE DEF x
    <2> QED
        BY <1>1, <1>3, <2>1, <2>2, StepFollows DEF Records
<1> QED
    BY <1>2, <1>3, RecordedChanges

\* One that replays does.
LEMMA ReplayFollows ==
    ASSUME TypeOK, Prices, Records, Grows, NEW p \in Proc, NEW s \in Step, Replayed(p, s),
           Own(p).done[s] # "none", at[p].phase \in {"loading", "running"}
    PROVE  ExecutionsFollow'
<1> DEFINE x == IF Own(p).done[s] = "failed" THEN "failed" ELSE "done"
           y == IF s = Load THEN Own(p).price ELSE at[p].price
<1>1. /\ at[p].wf \in WorkflowId /\ Own(p) = wf[at[p].wf]
      /\ Own(p).done[Load] \in {"none", "done", "failed"}
      /\ \A t \in Step \ {Load} : Own(p).done[t] # "failed"
    BY State DEF Prices, WorkflowsArePriced, Records, WorkflowsAreOrdered, IsOrdered
<1>2. s # Load => x # "failed"
    BY <1>1
<1>3. s = Load => wf'[at[p].wf].done[Load] = x
    BY <1>1 DEF Grows
<1>4. StepsTo(p, s, x, y)
    BY ReplayedChanges
<1> HIDE DEF x, y
<1> QED
    BY <1>2, <1>3, <1>4, StepFollows DEF Records

\* Every step keeps the executions behind their workflows.
LEMMA ExecutionsStep ==
    ASSUME TypeOK, PassesFit, Prices, Records, Grows, Next
    PROVE  ExecutionsFollow'
<1> USE DEF Records
<1>1. ASSUME NEW p \in Proc, Launch(p)
      PROVE  ExecutionsFollow'
    BY <1>1, EnterFollows, LaunchWrites, WorkflowIds DEF Launch, Writes
<1>2. ASSUME NEW p \in Proc, NEW w \in WorkflowId, Dequeue(p, w)
      PROVE  ExecutionsFollow'
    BY <1>2, EnterFollows, StatusWrites DEF Dequeue, Writes
<1>3. ASSUME NEW p \in Proc, NEW v \in Version, Restart(p, v)
      PROVE  ExecutionsFollow'
    <2>1. at' = at \/ \E w \in WorkflowId : wf[w].status = "pending" /\ Enter(p, w)
        BY <1>3 DEF Restart, IsRedriven
    <2>2. at' = at => ExecutionsFollow'
        BY <1>3, OthersFollow DEF ExecutionsFollow
    <2> QED
        BY <1>3, <2>1, <2>2, EnterFollows DEF Restart, Grows
<1>4. ASSUME NEW p \in Proc, Pin(p)
      PROVE  ExecutionsFollow'
    <2>1. at[p].phase \in {"loading", "running"}
        BY <1>4, Constants DEF Pin, Runs, IsCleared, ExecutionsFollow, Follows
    <2> QED
        BY <1>4, <2>1, PinChanges, StepFollows, Constants
<1>5. ASSUME NEW p \in Proc, FailToLoad(p)
      PROVE  ExecutionsFollow'
    <2>1. at[p].step[Load] # "idle"
        BY <1>5 DEF FailToLoad, Runs, IsCleared
    <2> QED
        BY <1>5, <2>1, RecordFollows, Constants DEF FailToLoad, Records
<1>6. ASSUME NEW p \in Proc, MarkRunning(p)
      PROVE  ExecutionsFollow'
    <2>1. PICK e \in Execution :
              /\ Becomes(p, e)
              /\ e.phase = "running" /\ e.wf = at[p].wf /\ e.price = at[p].price /\ e.step = at[p].step
        BY <1>6, RunningChanges DEF MarkRunning
    <2>2. ASSUME NEW q \in Proc \ {p} PROVE Follows(q)'
        BY <2>1, <2>2, OthersFollow DEF ExecutionsFollow, Becomes
    <2>3. Follows(p)'
        BY <1>6, <2>1, State, Constants
           DEF MarkRunning, ExecutionsFollow, Follows, Becomes, IsExecuting, Own, Grows
    <2> QED
        BY <2>2, <2>3 DEF ExecutionsFollow
<1>7. ASSUME NEW p \in Proc, Park(p)
      PROVE  ExecutionsFollow'
    BY <1>7, LeaveFollows, WorkflowIds DEF Park, Idle
<1>8. ASSUME NEW p \in Proc, FailWorkflow(p)
      PROVE  ExecutionsFollow'
    BY <1>8, LeaveFollows, WorkflowIds DEF FailWorkflow, Idle
<1>9. ASSUME NEW p \in Proc, Close(p)
      PROVE  ExecutionsFollow'
    BY <1>9, LeaveFollows, WorkflowIds DEF Close, Idle
<1>10. ASSUME NEW p \in Proc, Crash(p)
      PROVE  ExecutionsFollow'
    BY <1>10, LeaveFollows, WorkflowIds DEF Crash, Idle
<1>11. ASSUME NEW p \in Proc, CancelRun(p)
      PROVE  ExecutionsFollow'
    <2>1. at[p].wf \in WorkflowId /\ wf[at[p].wf].status # "none"
        BY <1>11, State DEF CancelRun, ExecutionsFollow, Follows, IsExecuting
    <2> QED
        BY <1>11, <2>1, LeaveFollows DEF CancelRun
<1>12. ASSUME NEW p \in Proc, Finish(p)
      PROVE  ExecutionsFollow'
    <2>1. at[p].wf \in WorkflowId /\ wf[at[p].wf].status # "none"
        BY <1>12, State DEF Finish, ExecutionsFollow, Follows, IsExecuting
    <2> QED
        BY <1>12, <2>1, LeaveFollows DEF Finish
<1>13. ASSUME NEW p \in Proc, NEW s \in Step, Check(p, s)
      PROVE  ExecutionsFollow'
    <2>1. at[p].phase \in {"loading", "running"}
        BY <1>13 DEF Check, IsNext
    <2>2. Verdict(p) \in StepPhase /\ Verdict(p) \notin {"done", "failed"}
        BY <1>13 DEF Verdict, StepPhase
    <2>3. ASSUME SetStep(p, s, Verdict(p)) PROVE ExecutionsFollow'
        BY <1>13, <2>1, <2>2, <2>3, SetStepChanges, StepFollows
    <2>4. ASSUME Own(p).done[s] # "none", Replayed(p, s) PROVE ExecutionsFollow'
        BY <1>13, <2>1, <2>4, ReplayFollows
    <2> QED
        BY <1>13, <2>3, <2>4 DEF Check, IsRecorded
<1>14. ASSUME NEW p \in Proc, NEW s \in Step, Replay(p, s)
      PROVE  ExecutionsFollow'
    <2>1. at[p].phase \in {"loading", "running"}
        BY <1>14 DEF Replay, IsCleared, ExecutionsFollow, Follows
    <2> QED
        BY <1>14, <2>1, ReplayFollows DEF Replay, IsRecorded
<1>15. ASSUME NEW p \in Proc, NEW s \in Step, CheckFails(p, s)
      PROVE  ExecutionsFollow'
    <2>1. at[p].phase \in {"loading", "running"} /\ {"unread"} \subseteq StepPhase
        BY <1>15 DEF CheckFails, IsNext, IsCleared, Runs, IsAtGate, ExecutionsFollow, Follows, StepPhase
    <2> QED
        BY <1>15, <2>1, SetStepChanges, StepFollows DEF CheckFails
<1>16. ASSUME NEW p \in Proc, NEW s \in Step, RefuseCancelled(p, s)
      PROVE  ExecutionsFollow'
    <2>1. at[p].phase \in {"loading", "running"} /\ {"lost", "stopped"} \subseteq StepPhase
        BY <1>16
           DEF RefuseCancelled, IsNext, IsCleared, Runs, IsAtGate, ExecutionsFollow, Follows, StepPhase
    <2> QED
        BY <1>16, <2>1, SetStepChanges, StepFollows DEF RefuseCancelled
<1>17. ASSUME NEW p \in Proc, NEW s \in Step, PayTurn(p, s)
      PROVE  ExecutionsFollow'
    <2>1. at[p].phase \in {"loading", "running"}
        BY <1>17 DEF PayTurn, Runs, IsCleared, ExecutionsFollow, Follows
    <2> QED
        BY <1>17, <2>1, PayTurnChanges, StepFollows
<1>18. ASSUME NEW p \in Proc, NEW s \in Step, Record(p, s)
      PROVE  ExecutionsFollow'
    BY <1>18, RecordFollows DEF Record
<1>19. ASSUME NEW p \in Proc, NEW s \in Step, FindChild(p, s)
      PROVE  ExecutionsFollow'
    <2>1. at[p].phase \in {"loading", "running"} /\ {"waiting", "seeking"} \subseteq StepPhase
        BY <1>19 DEF FindChild, IsNext, IsCleared, Runs, IsAtGate, ExecutionsFollow, Follows, StepPhase
    <2> QED
        BY <1>19, <2>1, SetStepChanges, StepFollows DEF FindChild
<1>20. ASSUME NEW p \in Proc, NEW s \in CallStep, Admit(p, s)
      PROVE  ExecutionsFollow'
    <2>1. s \in Step /\ at[p].phase \in {"loading", "running"} /\ {"admitted"} \subseteq StepPhase
        BY <1>20, Constants
           DEF Admit, IsNext, IsCleared, Runs, IsAtGate, ExecutionsFollow, Follows, StepPhase
    <2> QED
        BY <1>20, <2>1, SetStepChanges, StepFollows DEF Admit
<1>21. ASSUME NEW p \in Proc, NEW s \in CallStep, CreateChild(p, s)
      PROVE  ExecutionsFollow'
    <2>1. s \in Step /\ at[p].phase \in {"loading", "running"} /\ {"waiting"} \subseteq StepPhase
        BY <1>21, Constants
           DEF CreateChild, IsNext, IsCleared, Runs, IsAtGate, ExecutionsFollow, Follows, StepPhase
    <2> QED
        BY <1>21, <2>1, SetStepChanges, StepFollows DEF CreateChild
<1>22. ASSUME NEW p \in Proc, NEW s \in CallStep, Refuse(p, s)
      PROVE  ExecutionsFollow'
    <2>1. s \in Step /\ s # Load /\ at[p].step[s] # "idle"
        BY <1>22, Constants DEF Refuse, IsAtGate
    <2> QED
        BY <1>22, <2>1, RecordFollows DEF Refuse
<1>23. ASSUME NEW p \in Proc, NEW s \in CallStep, Await(p, s)
      PROVE  ExecutionsFollow'
    <2>1. s \in Step /\ s # Load /\ at[p].step[s] # "idle"
        BY <1>23, Constants DEF Await, IsAtGate
    <2> QED
        BY <1>23, <2>1, RecordFollows DEF Await
<1>24. ASSUME NEW p \in Proc,
       StartFails(p) \/ Beat(p) \/ Reconcile(p) \/ Resume(p) \/ Fork(p) \/ NameFork(p)
           \/ CancelOriginal(p) \/ MarkFailed(p) \/ MarkLost(p) \/ Reap(p)
           \/ FailTakeover(p)
      PROVE  at' = at
    BY <1>24
       DEF StartFails, Beat, Reconcile, Resume, Fork, NameFork, CancelOriginal, MarkFailed, MarkLost,
           Reap, FailTakeover, rowVars, history, vars
<1>25. ASSUME Lapse \/ UpdateCatalog \/ StopRun \/ CancelNamed \/ StopItsChildren \/ Over
           \/ \E s \in CallStep : ChildEnds(s)
      PROVE  at' = at
    BY <1>25
       DEF Lapse, UpdateCatalog, StopRun, CancelNamed, StopItsChildren, Over, ChildEnds, rowVars,
           history, vars
<1>26. at' = at => ExecutionsFollow'
    BY OthersFollow DEF ExecutionsFollow
<1> QED
    BY <1>1, <1>2, <1>3, <1>4, <1>5, <1>6, <1>7, <1>8, <1>9, <1>10, <1>11, <1>12, <1>13, <1>14, <1>15,
       <1>16, <1>17, <1>18, <1>19, <1>20, <1>21, <1>22, <1>23, <1>24, <1>25, <1>26 DEF Next

\* Every step keeps the passes on workflows that are there.
LEMMA PassesStep ==
    ASSUME TypeOK, PassesFit, Records, Grows, Next
    PROVE  PassesFollow'
<1> USE DEF Records
<1>1. ASSUME NEW p \in Proc, Reconcile(p)
      PROVE  PassesFollow'
    <2>1. Answer(p, named) = "resuming" => wf[named].status # "none"
        BY <1>1 DEF Answer
    <2>2. Answer(p, named) = "forking" => wf[named].done[Load] = "done"
        BY <1>1 DEF Answer, IsWaitingOnCalls, TypeOK, WorkflowsAreOrdered, IsOrdered
    <2>3. \A q \in Proc : rec'[q] = IF q = p THEN [phase |-> Answer(p, named), wf |-> named] ELSE rec[q]
        BY <1>1 DEF Reconcile, TypeOK
    <2>4. \A q \in Proc \ {p} : rec[q].wf \in WorkflowId
        BY <1>1, State
    <2>5. named \in WorkflowId
        BY <1>1 DEF TypeOK
    <2> QED
        BY <1>1, <2>1, <2>2, <2>3, <2>4, <2>5, Constants DEF PassesFollow, At, Grows
<1>2. ASSUME NEW p \in Proc, Crash(p)
      PROVE  PassesFollow'
    <2>1. rec \in [Proc -> Pass] /\ \A q \in Proc : rec[q].wf \in WorkflowId
        BY <1>2, State DEF TypeOK
    <2> QED
        BY <1>2, <2>1, Constants DEF Crash, NoPass, PassesFollow, At, Grows, Pass
<1>3. ASSUME NEW p \in Proc, Resume(p)
      PROVE  PassesFollow'
    <2>1. \A q \in Proc : rec[q].wf \in WorkflowId
        BY <1>3, State
    <2>2. \A q \in Proc : rec'[q] = IF q = p THEN NoPass ELSE rec[q]
        BY <1>3 DEF Resume, TypeOK
    <2> QED
        BY <1>3, <2>1, <2>2, Constants DEF NoPass, PassesFollow, At, Grows
<1>4. ASSUME NEW p \in Proc, CancelOriginal(p)
      PROVE  PassesFollow'
    <2>1. rec \in [Proc -> Pass] /\ \A q \in Proc : rec[q].wf \in WorkflowId
        BY <1>4, State DEF TypeOK
    <2> QED
        BY <1>4, <2>1, Constants DEF CancelOriginal, NoPass, PassesFollow, At, Grows, Pass
<1>5. ASSUME NEW p \in Proc, MarkFailed(p)
      PROVE  PassesFollow'
    <2>1. rec \in [Proc -> Pass] /\ \A q \in Proc : rec[q].wf \in WorkflowId
        BY <1>5, State DEF TypeOK
    <2> QED
        BY <1>5, <2>1, Constants DEF MarkFailed, NoPass, PassesFollow, At, Grows, Pass
<1>6. ASSUME NEW p \in Proc, MarkLost(p)
      PROVE  PassesFollow'
    <2>1. rec \in [Proc -> Pass] /\ \A q \in Proc : rec[q].wf \in WorkflowId
        BY <1>6, State DEF TypeOK
    <2> QED
        BY <1>6, <2>1, Constants DEF MarkLost, NoPass, PassesFollow, At, Grows, Pass
<1>7. ASSUME NEW p \in Proc, Reap(p)
      PROVE  PassesFollow'
    <2>1. rec \in [Proc -> Pass] /\ \A q \in Proc : rec[q].wf \in WorkflowId
        BY <1>7, State DEF TypeOK
    <2> QED
        BY <1>7, <2>1, Constants DEF Reap, NoPass, PassesFollow, At, Grows, Pass
<1>8. ASSUME NEW p \in Proc, FailTakeover(p)
      PROVE  PassesFollow'
    <2>1. rec \in [Proc -> Pass] /\ \A q \in Proc : rec[q].wf \in WorkflowId
        BY <1>8, State DEF TypeOK
    <2> QED
        BY <1>8, <2>1, Constants DEF FailTakeover, NoPass, PassesFollow, At, Grows, Pass
<1>9. ASSUME NEW p \in Proc, Fork(p)
      PROVE  PassesFollow'
    <2>1. rec \in [Proc -> Pass] /\ \A q \in Proc : rec[q].wf \in WorkflowId
        BY <1>9, State DEF TypeOK
    <2> QED
        BY <1>9, <2>1, Constants DEF Fork, Proceed, PassesFollow, At, Grows, Pass
<1>10. ASSUME NEW p \in Proc, NameFork(p)
      PROVE  PassesFollow'
    <2>1. rec \in [Proc -> Pass] /\ \A q \in Proc : rec[q].wf \in WorkflowId
        BY <1>10, State DEF TypeOK
    <2> QED
        BY <1>10, <2>1, Constants DEF NameFork, Proceed, PassesFollow, At, Grows, Pass
<1>11. ASSUME NEW p \in Proc,
       Launch(p) \/ Pin(p) \/ FailToLoad(p) \/ MarkRunning(p) \/ Park(p) \/ FailWorkflow(p)
           \/ CancelRun(p) \/ Finish(p) \/ Close(p) \/ StartFails(p) \/ Beat(p)
      PROVE  rec' = rec
    BY <1>11
       DEF Launch, Pin, FailToLoad, MarkRunning, Park, FailWorkflow, CancelRun, Finish, Close,
           StartFails, Beat, rowVars, history, vars
<1>12. ASSUME NEW p \in Proc, NEW w \in WorkflowId,
       Dequeue(p, w)
      PROVE  rec' = rec
    BY <1>12 DEF Dequeue, Enter, rowVars, history, vars
<1>13. ASSUME NEW p \in Proc, NEW v \in Version,
       Restart(p, v)
      PROVE  rec' = rec
    BY <1>13 DEF Restart, Enter, rowVars, history, vars
<1>14. ASSUME NEW p \in Proc, NEW s \in Step,
       Check(p, s) \/ CheckFails(p, s) \/ RefuseCancelled(p, s) \/ Replay(p, s)
           \/ PayTurn(p, s) \/ Record(p, s) \/ FindChild(p, s)
      PROVE  rec' = rec
    BY <1>14
       DEF Check, CheckFails, RefuseCancelled, Replay, PayTurn, Record, FindChild, rowVars, history,
           vars
<1>15. ASSUME NEW p \in Proc, NEW s \in CallStep,
       Admit(p, s) \/ Refuse(p, s) \/ CreateChild(p, s) \/ Await(p, s)
      PROVE  rec' = rec
    BY <1>15 DEF Admit, Refuse, CreateChild, Await, rowVars, history, vars
<1>16. ASSUME Lapse \/ UpdateCatalog \/ StopRun \/ CancelNamed \/ StopItsChildren \/ Over
           \/ \E s \in CallStep : ChildEnds(s)
      PROVE  rec' = rec
    BY <1>16
       DEF Lapse, UpdateCatalog, StopRun, CancelNamed, StopItsChildren, Over, ChildEnds, rowVars,
           history, vars
<1>17. rec' = rec => PassesFollow'
    BY State, Constants DEF PassesFollow, At, Grows
<1> QED
    BY <1>1, <1>2, <1>3, <1>4, <1>5, <1>6, <1>7, <1>8, <1>9, <1>10, <1>11, <1>12, <1>13, <1>14, <1>15,
       <1>16, <1>17 DEF Next

\* The invariant that holds for any number of passes at once.
Kept == Typed /\ Prices /\ Records

\* It holds initially.
LEMMA KeptInit == Init => Kept
<1> SUFFICES ASSUME Init PROVE Kept
    OBVIOUS
<1>1. /\ \A p \in Proc : at[p].phase = "idle" /\ at[p].price = 0
          /\ \A s \in Step : at[p].step[s] = "idle"
      /\ \A w \in WorkflowId : wf[w].price = 0 /\ wf[w].status = "none"
          /\ \A s \in Step : wf[w].done[s] = "none"
      /\ \A p \in Proc : rec[p].phase = "idle"
    BY NewExecutions, WorkflowIds DEF Init, Idle, NoWorkflow, NoPass
<1>2. Prices
    BY <1>1, Constants
       DEF Init, Prices, WorkflowsArePriced, ExecutionsArePriced, IsPriced, PinnedPriceIsPaid
<1>3. Records
    BY <1>1, Constants
       DEF Records, WorkflowsAreOrdered, IsOrdered, ExecutionsFollow, Follows, IsExecuting,
                           PassesFollow, At
<1> QED
    BY <1>2, <1>3, TypedInit DEF Kept

\* Every step keeps it.
LEMMA KeptStep == Kept /\ [Next]_vars => Kept'
<1>1. ASSUME Kept, Next PROVE Kept'
    <2>1. Typed'
        BY <1>1, TypeStep DEF Kept, Typed
    <2>2. Prices'
        BY <1>1, PricesStep DEF Kept, Typed
    <2>3. WorkflowsAreOrdered' /\ Grows
        BY <1>1, RecordsGrow DEF Kept, Typed
    <2>4. ExecutionsFollow' /\ PassesFollow'
        BY <1>1, <2>3, ExecutionsStep, PassesStep DEF Kept, Typed
    <2> QED
        BY <2>1, <2>2, <2>3, <2>4 DEF Kept, Records
<1>2. ASSUME Kept, UNCHANGED vars PROVE Kept'
    BY <1>2
       DEF Kept, Typed, TypeOK, PassesFit, Prices, WorkflowsArePriced, ExecutionsArePriced, IsPriced,
                PinnedPriceIsPaid, Records, WorkflowsAreOrdered, IsOrdered, ExecutionsFollow, Follows,
                IsExecuting, Own, PassesFollow, At, vars, rowVars, history
<1> QED
    BY <1>1, <1>2

\* Every turn is billed at the price Run.pricingSnapshot records, for any number of executions,
\* passes and versions of the catalog: PinnedPriceIsPaid.
THEOREM PriceIsPinned == Spec => []PinnedPriceIsPaid
<1>1. Kept => PinnedPriceIsPaid
    BY DEF Kept, Prices
<1> QED
    BY <1>1, KeptInit, KeptStep, PTL DEF Spec

\* No workflow disappears and no recorded outcome of a step changes, whatever is resumed, forked,
\* cancelled or repeated (the durable library's operation_outputs).
RecordsAreFinal == [][Grows]_vars

\* Records are final: RecordsAreFinal, for any number of executions and passes.
THEOREM RecordsStay == Spec => RecordsAreFinal
<1>1. Kept /\ [Next]_vars => [Grows]_vars
    BY RecordsGrow DEF Kept, Typed
<1> QED
    BY <1>1, KeptInit, KeptStep, PTL DEF Spec, RecordsAreFinal

-----------------------------------------------------------------------------
(* Delegate calls. *)

\* Some workflow recorded that call s was refused.
Refused(s) == \E w \in WorkflowId : wf[w].done[s] = "refused"

\* One execution delegates, one call at a time between its count and its child; a call looks for
\* its child only once.
OneDelegates ==
    /\ \A p, q \in Proc : IsDelegating(p) /\ IsDelegating(q) => p = q
    /\ \A p \in Proc, s, t \in CallStep :
           at[p].step[s] = "admitted" /\ at[p].step[t] = "admitted" => s = t
    /\ \A p \in Proc, s \in CallStep :
           /\ at[p].step[s] \in {"seeking", "admitted"} => s \notin Dispatched
           /\ at[p].step[s] = "admitted" => Cardinality(Dispatched) < MaxDelegations

\* A call is refused only when the limit is reached, and then it has no child.
RefusedAtLimit ==
    \A s \in CallStep : Refused(s) => s \notin Dispatched /\ Cardinality(Dispatched) >= MaxDelegations

\* The invariant of the delegate calls.
Delegations ==
    /\ \A p \in Proc, s \in CallStep : at[p].step[s] = "waiting" => s \in Dispatched
    /\ ~overlapped => OneDelegates /\ RefusedAtLimit /\ Cardinality(Dispatched) <= MaxDelegations

\* No call gets to be delegated, and no refusal is new.
CallsAreCalm ==
    \A p \in Proc, s \in CallStep :
        at'[p].step[s] \in {"seeking", "admitted", "waiting"} => at'[p].step[s] = at[p].step[s]

\* No refusal is new.
RefusalsAreOld == \A s \in CallStep : Refused(s)' => Refused(s)

\* The calls with a child can be counted.
LEMMA DispatchedIsFinite ==
    ASSUME TypeOK
    PROVE  IsFiniteSet(Dispatched) /\ Cardinality(Dispatched) \in Nat
<1>1. 3 \in Int /\ Calls + 2 \in Int
    BY DurableRunAssumption
<1>2. IsFiniteSet(CallStep)
    BY <1>1, FS_Interval DEF CallStep
<1>3. Dispatched \subseteq CallStep
    BY DEF Dispatched
<1> QED
    BY <1>2, <1>3, FS_Subset, FS_CardinalityType

\* A step that delegates nothing keeps the invariant.
LEMMA CalmKeeps ==
    ASSUME TypeOK, Delegations, CallsAreCalm, RefusalsAreOld, Dispatched' = Dispatched,
           overlapped' = overlapped
    PROVE  Delegations'
<1>1. \A p \in Proc : IsDelegating(p)' => IsDelegating(p)
    BY DEF CallsAreCalm, IsDelegating
<1>2. OneDelegates => OneDelegates'
    BY <1>1 DEF OneDelegates, CallsAreCalm
<1>3. RefusedAtLimit => RefusedAtLimit'
    BY DEF RefusedAtLimit, RefusalsAreOld
<1> QED
    BY <1>2, <1>3 DEF Delegations, CallsAreCalm

\* A step of an execution that is no delegation.
LEMMA CalmStep ==
    ASSUME TypeOK, NEW p \in Proc, NEW s \in Step, NEW x, NEW y, StepsTo(p, s, x, y),
           x \notin {"seeking", "admitted", "waiting"}
    PROVE  CallsAreCalm
<1>1. \A t \in Step : at'[p].step[t] = IF t = s THEN x ELSE at[p].step[t]
    BY State DEF StepsTo
<1> QED
    BY <1>1, Constants DEF CallsAreCalm, StepsTo

\* A new execution delegates nothing.
LEMMA CalmNew ==
    ASSUME NEW p \in Proc, NEW e \in Execution, Becomes(p, e), \A s \in Step : e.step[s] = "idle"
    PROVE  CallsAreCalm
    BY Constants DEF CallsAreCalm, Becomes

\* Nor does one that starts.
LEMMA CalmEnter ==
    ASSUME TypeOK, NEW p \in Proc, NEW w \in WorkflowId, Enter(p, w)
    PROVE  CallsAreCalm
<1>1. PICK e \in Execution :
          /\ Becomes(p, e)
          /\ e.phase = (IF Drivable THEN "loading" ELSE "closing") /\ e.wf = w /\ e.price = price
              /\ e.late = 0
          /\ \A s \in Step : e.step[s] = "idle"
    BY EnterChanges
<1> QED
    BY <1>1, CalmNew

\* Nor does one that is left.
LEMMA CalmLeave ==
    ASSUME TypeOK, NEW p \in Proc, NEW w \in WorkflowId,
           NEW phase \in {"idle", "closing"}, at' = [at EXCEPT ![p] = ExecutionOf(phase, w)]
    PROVE  CallsAreCalm
<1> DEFINE e == ExecutionOf(phase, w)
<1>1. e \in Execution /\ \A s \in Step : e.step[s] = "idle"
    BY NewExecutions
<1>2. at' = [at EXCEPT ![p] = e]
    OBVIOUS
<1> HIDE DEF e
<1>3. Becomes(p, e)
    BY <1>1, <1>2, Becoming
<1> QED
    BY <1>1, <1>3, CalmNew

\* Nor does a replay.
LEMMA CalmReplay ==
    ASSUME TypeOK, NEW p \in Proc, NEW s \in Step, Replayed(p, s)
    PROVE  CallsAreCalm
<1> DEFINE x == IF Own(p).done[s] = "failed" THEN "failed" ELSE "done"
           y == IF s = Load THEN Own(p).price ELSE at[p].price
<1>1. StepsTo(p, s, x, y) /\ x \notin {"seeking", "admitted", "waiting"}
    BY ReplayedChanges
<1> HIDE DEF x, y
<1> QED
    BY <1>1, CalmStep

\* Nor does a record, which ends the call it is for.
LEMMA CalmRecord ==
    ASSUME TypeOK, NEW p \in Proc, NEW s \in Step, NEW outcome \in {"done", "refused", "failed"},
           Recorded(p, s, outcome)
    PROVE  CallsAreCalm /\ at'[p].step[s] \in {"lost", "failed", "done"}
<1>1. PICK x \in {"lost", "failed", "done"} : StepsTo(p, s, x, at[p].price)
    BY RecordedChanges
<1> QED
    BY <1>1, CalmStep, State DEF StepsTo

\* A write of known refusals.
LEMMA OldRefusals ==
    ASSUME TypeOK, NEW w \in WorkflowId, NEW x, NEW done, NEW y, Writes(w, x, done, y),
           \A s \in CallStep : done[s] = "refused" => Refused(s)
    PROVE  RefusalsAreOld
    BY DEF RefusalsAreOld, Refused, Writes

\* No write of records.
LEMMA KeptRefusals ==
    ASSUME \A w \in WorkflowId : wf'[w].done = wf[w].done
    PROVE  RefusalsAreOld
    BY DEF RefusalsAreOld, Refused

\* A new status refuses nothing.
LEMMA StatusRefusals ==
    ASSUME TypeOK, NEW w \in WorkflowId, NEW x \in {"enqueued", "pending", "cancelled", "error",
           "finished"},
           \/ wf' = [wf EXCEPT ![w].status = x]
           \/ \E p \in Proc \cup {Nobody} : wf' = [wf EXCEPT ![w].status = x, ![w].owner = p]
    PROVE  RefusalsAreOld
<1>1. Writes(w, x, wf[w].done, wf[w].price)
    BY StatusWrites
<1> QED
    BY <1>1, KeptRefusals DEF Writes

\* What is recorded of a step is a refusal only when that is its outcome.
LEMMA RecordedRefusals ==
    ASSUME TypeOK, NEW p \in Proc, NEW s \in Step, NEW outcome \in {"done", "refused", "failed"},
           Recorded(p, s, outcome)
    PROVE  \A t \in CallStep : Refused(t)' => Refused(t) \/ (t = s /\ outcome = "refused")
<1>1. /\ at[p].wf \in WorkflowId /\ Own(p) = wf[at[p].wf] /\ Own(p).done \in [Step -> Outcome]
    BY State
<1>2. CASE wf' = wf
    BY <1>2 DEF Refused
<1>3. ASSUME NEW done, NEW y, done = [Own(p).done EXCEPT ![s] = outcome],
             Writes(at[p].wf, Own(p).status, done, y)
      PROVE  \A t \in CallStep : Refused(t)' => Refused(t) \/ (t = s /\ outcome = "refused")
    <2>1. \A t \in CallStep : done[t] = IF t = s THEN outcome ELSE Own(p).done[t]
        BY <1>1, <1>3, Constants
    <2>2. \A w \in WorkflowId : wf'[w].done = IF w = at[p].wf THEN done ELSE wf[w].done
        BY <1>1, <1>3 DEF Writes
    <2> QED
        BY <1>1, <2>1, <2>2 DEF Refused
<1> QED
    BY <1>2, <1>3, RecordedChanges

\* Every step keeps the invariant of the delegate calls.
LEMMA DelegationsStep ==
    ASSUME TypeOK, PassesFit, Delegations, Next
    PROVE  Delegations'
<1>1. ASSUME NEW p \in Proc, Launch(p)
      PROVE  Delegations'
    <2> DEFINE none == [s \in Step |-> "none"]
    <2>1. Writes(<<>>, "pending", none, 0) /\ \A s \in CallStep : none[s] = "none"
        BY <1>1, LaunchWrites, Constants
    <2> HIDE DEF none
    <2>2. RefusalsAreOld
        BY <2>1, OldRefusals, WorkflowIds
    <2>3. CallsAreCalm
        BY <1>1, CalmEnter, WorkflowIds DEF Launch
    <2> QED
        BY <1>1, <2>2, <2>3, CalmKeeps DEF Launch, Dispatched, history
<1>2. ASSUME NEW p \in Proc, NEW w \in WorkflowId, Dequeue(p, w)
      PROVE  Delegations'
    <2>1. CallsAreCalm
        BY <1>2, CalmEnter DEF Dequeue
    <2>2. RefusalsAreOld
        BY <1>2, StatusRefusals DEF Dequeue
    <2> QED
        BY <1>2, <2>1, <2>2, CalmKeeps DEF Dequeue, Dispatched, rowVars, history
<1>3. ASSUME NEW p \in Proc, NEW v \in Version, Restart(p, v)
      PROVE  Delegations'
    <2>1. CallsAreCalm
        BY <1>3, CalmEnter DEF Restart, CallsAreCalm
    <2> QED
        BY <1>3, <2>1, CalmKeeps DEF Restart, Dispatched, rowVars, history, RefusalsAreOld, Refused
<1>4. ASSUME NEW p \in Proc, Pin(p)
      PROVE  Delegations'
    <2>1. CallsAreCalm
        BY <1>4, PinChanges, CalmStep, Constants
    <2> QED
        BY <1>4, <2>1, CalmKeeps DEF Pin, Dispatched, history, RefusalsAreOld, Refused
<1>5. ASSUME NEW p \in Proc, FailToLoad(p)
      PROVE  Delegations'
    <2>1. CallsAreCalm /\ RefusalsAreOld
        BY <1>5, CalmRecord, RecordedRefusals, Constants DEF FailToLoad, RefusalsAreOld
    <2> QED
        BY <1>5, <2>1, CalmKeeps DEF FailToLoad, Dispatched, rowVars, history
<1>6. ASSUME NEW p \in Proc, MarkRunning(p)
      PROVE  Delegations'
    <2>1. PICK e \in Execution :
              /\ Becomes(p, e)
              /\ e.phase = "running" /\ e.wf = at[p].wf /\ e.price = at[p].price
              /\ e.late = at[p].late /\ e.step = at[p].step
        BY <1>6, RunningChanges DEF MarkRunning
    <2>2. CallsAreCalm
        BY <2>1 DEF CallsAreCalm, Becomes
    <2> QED
        BY <1>6, <2>2, CalmKeeps DEF MarkRunning, Dispatched, history, RefusalsAreOld, Refused
<1>7. ASSUME NEW p \in Proc, Park(p)
      PROVE  Delegations'
    <2>1. CallsAreCalm
        BY <1>7, CalmLeave, WorkflowIds DEF Park, Idle
    <2> QED
        BY <1>7, <2>1, CalmKeeps DEF Park, Dispatched, rowVars, history, RefusalsAreOld, Refused
<1>8. ASSUME NEW p \in Proc, FailWorkflow(p)
      PROVE  Delegations'
    <2>1. (\A w \in WorkflowId : wf'[w].done = wf[w].done) => RefusalsAreOld
        BY <1>8, KeptRefusals
    <2>2. CallsAreCalm
        BY <1>8, <2>1, CalmLeave, WorkflowIds DEF FailWorkflow, Idle
    <2>3. RefusalsAreOld
        BY <1>8, <2>1, <2>2, State, StatusRefusals DEF FailWorkflow
    <2> QED
        BY <1>8, <2>1, <2>2, <2>3, CalmKeeps DEF FailWorkflow, Dispatched, rowVars, history
<1>9. ASSUME NEW p \in Proc, Close(p)
      PROVE  Delegations'
    <2>1. (\A w \in WorkflowId : wf'[w].done = wf[w].done) => RefusalsAreOld
        BY <1>9, KeptRefusals
    <2>2. CallsAreCalm
        BY <1>9, <2>1, CalmLeave, WorkflowIds DEF Close, Idle
    <2>3. RefusalsAreOld
        BY <1>9, <2>1, <2>2, State, StatusRefusals DEF Close
    <2> QED
        BY <1>9, <2>1, <2>2, <2>3, CalmKeeps DEF Close, Dispatched, rowVars, history
<1>10. ASSUME NEW p \in Proc, Crash(p)
      PROVE  Delegations'
    <2>1. CallsAreCalm
        BY <1>10, CalmLeave, WorkflowIds DEF Crash, Idle
    <2>2. RefusalsAreOld
        BY <1>10, CrashWrites, KeptRefusals DEF Crash
    <2> QED
        BY <1>10, <2>1, <2>2, CalmKeeps DEF Crash, Dispatched, rowVars, history
<1>11. ASSUME NEW p \in Proc, CancelRun(p)
      PROVE  Delegations'
    <2>1. CallsAreCalm
        BY <1>11, State, CalmLeave DEF CancelRun
    <2> QED
        BY <1>11, <2>1, CalmKeeps DEF CancelRun, Dispatched, rowVars, history, RefusalsAreOld, Refused
<1>12. ASSUME NEW p \in Proc, Finish(p)
      PROVE  Delegations'
    <2>1. CallsAreCalm
        BY <1>12, State, CalmLeave DEF Finish
    <2> QED
        BY <1>12, <2>1, CalmKeeps DEF Finish, Dispatched, rowVars, history, RefusalsAreOld, Refused
<1>13. ASSUME NEW p \in Proc, Resume(p)
      PROVE  Delegations'
    <2>1. (\A w \in WorkflowId : wf'[w].done = wf[w].done) => RefusalsAreOld
        BY <1>13, KeptRefusals
    <2>2. RefusalsAreOld
        BY <1>13, <2>1, State, StatusRefusals DEF Resume
    <2> QED
        BY <1>13, <2>1, <2>2, CalmKeeps DEF Resume, Dispatched, rowVars, history, CallsAreCalm
<1>14. ASSUME NEW p \in Proc, CancelOriginal(p)
      PROVE  Delegations'
    <2>1. (\A w \in WorkflowId : wf'[w].done = wf[w].done) => RefusalsAreOld
        BY <1>14, KeptRefusals
    <2>2. RefusalsAreOld
        BY <1>14, <2>1, State, StatusRefusals DEF CancelOriginal
    <2> QED
        BY <1>14, <2>1, <2>2, CalmKeeps DEF CancelOriginal, Dispatched, rowVars, history, CallsAreCalm
<1>15. ASSUME NEW p \in Proc, Fork(p)
      PROVE  Delegations'
    <2> DEFINE from == wf[rec[p].wf]
               fork == Append(rec[p].wf, version[p])
               done == CopiedDone(from.done)
               y == from.price
    <2>1. /\ rec[p].wf \in WorkflowId
          /\ \A s \in CallStep : done[s] = "refused" => from.done[s] = "refused"
        BY State, Constants DEF CopiedDone
    <2>2. \A s \in CallStep : done[s] = "refused" => Refused(s)
        BY <2>1 DEF Refused
    <2>3. ASSUME wf' = wf PROVE RefusalsAreOld
        BY <2>3, KeptRefusals
    <2>4. ASSUME fork \in WorkflowId, Writes(fork, "enqueued", done, y) PROVE RefusalsAreOld
        <3> HIDE DEF from, fork, done, y
        <3> QED
            BY <2>2, <2>4, OldRefusals
    <2>5. RefusalsAreOld
        BY <1>15, <2>3, <2>4, ForkWrites
    <2> QED
        BY <1>15, <2>5, CalmKeeps DEF Fork, Dispatched, rowVars, history, CallsAreCalm
<1>16. ASSUME CancelNamed
      PROVE  Delegations'
    <2>1. (\A w \in WorkflowId : wf'[w].done = wf[w].done) => RefusalsAreOld
        BY <1>16, KeptRefusals
    <2>2. RefusalsAreOld
        BY <1>16, <2>1, StatusRefusals DEF CancelNamed, TypeOK
    <2> QED
        BY <1>16, <2>1, <2>2, CalmKeeps DEF CancelNamed, CallsAreCalm, Dispatched, rowVars, history
<1>17. ASSUME NEW p \in Proc, NEW s \in Step, Check(p, s)
      PROVE  Delegations'
    <2>1. Verdict(p) \in StepPhase \ {"seeking", "admitted", "waiting"}
        BY <1>17 DEF Verdict, StepPhase
    <2>2. SetStep(p, s, Verdict(p)) => CallsAreCalm
        BY <1>17, <2>1, SetStepChanges, CalmStep
    <2>3. CallsAreCalm
        BY <1>17, <2>2, CalmReplay DEF Check
    <2> QED
        BY <1>17, <2>3, CalmKeeps DEF Check, RefusalsAreOld, Refused, Dispatched, rowVars, history
<1>18. ASSUME NEW p \in Proc, NEW s \in Step, Replay(p, s)
      PROVE  Delegations'
    <2>1. CallsAreCalm
        BY <1>18, CalmReplay DEF Replay
    <2> QED
        BY <1>18, <2>1, CalmKeeps DEF Replay, Dispatched, rowVars, history, RefusalsAreOld, Refused
<1>19. ASSUME NEW p \in Proc, NEW s \in Step, CheckFails(p, s)
      PROVE  Delegations'
    <2>1. {"unread"} \subseteq StepPhase
        BY <1>19 DEF StepPhase
    <2>2. CallsAreCalm
        BY <1>19, <2>1, SetStepChanges, CalmStep DEF CheckFails
    <2> QED
        BY <1>19, <2>1, <2>2, CalmKeeps
           DEF CheckFails, Dispatched, rowVars, history, RefusalsAreOld, Refused
<1>20. ASSUME NEW p \in Proc, NEW s \in Step, RefuseCancelled(p, s)
      PROVE  Delegations'
    <2>1. {"lost", "stopped"} \subseteq StepPhase
        BY <1>20 DEF StepPhase
    <2>2. CallsAreCalm
        BY <1>20, <2>1, SetStepChanges, CalmStep DEF RefuseCancelled
    <2> QED
        BY <1>20, <2>1, <2>2, CalmKeeps
           DEF RefuseCancelled, Dispatched, rowVars, history, RefusalsAreOld, Refused
<1>21. ASSUME NEW p \in Proc, NEW s \in Step, PayTurn(p, s)
      PROVE  Delegations'
    <2>1. CallsAreCalm
        BY <1>21, PayTurnChanges, CalmStep
    <2> QED
        BY <1>21, <2>1, CalmKeeps DEF PayTurn, RefusalsAreOld, Refused, Dispatched, rowVars, history
<1>22. ASSUME NEW p \in Proc, NEW s \in Step, Record(p, s)
      PROVE  Delegations'
    <2>1. CallsAreCalm /\ RefusalsAreOld
        BY <1>22, CalmRecord, RecordedRefusals DEF Record, RefusalsAreOld
    <2> QED
        BY <1>22, <2>1, CalmKeeps DEF Record, Dispatched, rowVars, history
<1>23. ASSUME NEW p \in Proc, NEW s \in Step, FindChild(p, s)
      PROVE  Delegations'
    <2> DEFINE x == IF children[s] # "none" THEN "waiting" ELSE "seeking"
    <2>1. x \in StepPhase /\ s \in CallStep /\ Dispatched' = Dispatched /\ SetStep(p, s, x)
        BY <1>23 DEF FindChild, StepPhase, Dispatched, rowVars
    <2>2. x = "waiting" <=> s \in Dispatched
        BY <2>1 DEF Dispatched
    <2>3. x \in {"waiting", "seeking"}
        OBVIOUS
    <2> HIDE DEF x
    <2>4. StepsTo(p, s, x, at[p].price)
        BY <2>1, SetStepChanges
    <2>5. \A q \in Proc, t \in CallStep : at'[q].step[t] = IF q = p /\ t = s THEN x ELSE at[q].step[t]
        BY <2>1, <2>4, State, Constants DEF StepsTo
    <2>6. ASSUME ~overlapped' PROVE OneDelegates'
        <3>1. ~overlapped /\ \A q \in Proc \ {p} : ~IsDelegating(q)
            BY <1>23, <2>6 DEF FindChild
        <3>2. \A q \in Proc \ {p} : ~IsDelegating(q)'
            BY <2>5, <3>1 DEF IsDelegating
        <3> QED
            BY <2>1, <2>2, <2>3, <2>5, <3>1, <3>2 DEF Delegations, OneDelegates
    <2>7. ~overlapped' => RefusedAtLimit'
        BY <1>23, <2>1 DEF FindChild, Delegations, RefusedAtLimit, Refused
    <2>8. ~overlapped' => ~overlapped
        BY <1>23 DEF FindChild
    <2> QED
        BY <2>1, <2>2, <2>5, <2>6, <2>7, <2>8 DEF Delegations
<1>24. ASSUME NEW p \in Proc, NEW s \in CallStep, Admit(p, s)
      PROVE  Delegations'
    <2>1. /\ s \in Step /\ "admitted" \in StepPhase /\ Dispatched' = Dispatched
              /\ overlapped' = overlapped
          /\ at[p].step[s] = "seeking" /\ \A t \in CallStep : at[p].step[t] # "admitted"
          /\ Cardinality(Dispatched) \in Nat /\ Cardinality(Dispatched) < MaxDelegations
        BY <1>24, DispatchedIsFinite, DurableRunAssumption, Constants
           DEF Admit, IsAtGate, IsRefused, StepPhase, Dispatched, rowVars, history
    <2>2. StepsTo(p, s, "admitted", at[p].price)
        BY <1>24, <2>1, SetStepChanges DEF Admit
    <2>3. \A q \in Proc, t \in CallStep :
              at'[q].step[t] = IF q = p /\ t = s THEN "admitted" ELSE at[q].step[t]
        BY <2>1, <2>2, State, Constants DEF StepsTo
    <2>4. \A q \in Proc : IsDelegating(q)' => IsDelegating(q)
        BY <2>1, <2>3 DEF IsDelegating
    <2>5. OneDelegates => OneDelegates'
        BY <2>1, <2>3, <2>4 DEF OneDelegates
    <2>6. RefusedAtLimit => RefusedAtLimit'
        BY <1>24, <2>1 DEF Admit, RefusedAtLimit, Refused
    <2> QED
        BY <2>1, <2>3, <2>5, <2>6 DEF Delegations
<1>25. ASSUME NEW p \in Proc, NEW s \in CallStep, Refuse(p, s)
      PROVE  Delegations'
    <2>1. /\ s \in Step /\ Dispatched' = Dispatched /\ overlapped' = overlapped
          /\ at[p].step[s] = "seeking"
          /\ s \in Dispatched \/ Cardinality(Dispatched) >= MaxDelegations
        BY <1>25, Constants DEF Refuse, IsAtGate, IsRefused, Dispatched, rowVars, history
    <2>2. CallsAreCalm /\ \A t \in CallStep : Refused(t)' => Refused(t) \/ t = s
        BY <1>25, <2>1, CalmRecord, RecordedRefusals DEF Refuse
    <2>3. \A q \in Proc : IsDelegating(q)' => IsDelegating(q)
        BY <2>2 DEF CallsAreCalm, IsDelegating
    <2>4. OneDelegates => OneDelegates'
        BY <2>1, <2>2, <2>3 DEF OneDelegates, CallsAreCalm
    <2>5. OneDelegates /\ RefusedAtLimit => RefusedAtLimit'
        BY <2>1, <2>2 DEF OneDelegates, RefusedAtLimit
    <2> QED
        BY <2>1, <2>2, <2>4, <2>5 DEF Delegations, CallsAreCalm
<1>26. ASSUME NEW p \in Proc, NEW s \in CallStep, CreateChild(p, s)
      PROVE  Delegations'
    <2>1. /\ s \in Step /\ "waiting" \in StepPhase /\ overlapped' = overlapped
          /\ at[p].step[s] = "admitted" /\ wf' = wf
        BY <1>26, Constants DEF CreateChild, StepPhase, history
    <2>2. Dispatched' = Dispatched \cup {s}
        BY <1>26 DEF CreateChild, Dispatched, TypeOK
    <2>3. StepsTo(p, s, "waiting", at[p].price)
        BY <1>26, <2>1, SetStepChanges DEF CreateChild
    <2>4. \A q \in Proc, t \in CallStep :
              at'[q].step[t] = IF q = p /\ t = s THEN "waiting" ELSE at[q].step[t]
        BY <2>1, <2>3, State, Constants DEF StepsTo
    <2>5. \A q \in Proc : IsDelegating(q)' => IsDelegating(q)
        BY <2>1, <2>4 DEF IsDelegating
    <2>6. IsDelegating(p)
        BY <2>1 DEF IsDelegating
    <2>7. ASSUME ~overlapped
          PROVE  OneDelegates' /\ RefusedAtLimit' /\ Cardinality(Dispatched') <= MaxDelegations
        <3>1. /\ OneDelegates /\ RefusedAtLimit /\ s \notin Dispatched
              /\ Cardinality(Dispatched) < MaxDelegations /\ Cardinality(Dispatched) \in Nat
            BY <2>1, <2>7, DispatchedIsFinite DEF Delegations, OneDelegates
        <3>2. Cardinality(Dispatched') = Cardinality(Dispatched) + 1
            BY <2>2, <3>1, DispatchedIsFinite, FS_AddElement
        <3>3. \A q \in Proc, t \in CallStep : at'[q].step[t] # "admitted"
            BY <2>1, <2>4, <2>6, <3>1 DEF OneDelegates, IsDelegating
        <3>4. \A q \in Proc, t \in CallStep : at'[q].step[t] = "seeking" => t \notin Dispatched'
            BY <2>1, <2>2, <2>4, <2>6, <3>1 DEF OneDelegates, IsDelegating
        <3>5. \A t \in CallStep : ~Refused(t)'
            BY <2>1, <3>1, DurableRunAssumption DEF RefusedAtLimit, Refused
        <3> QED
            BY <2>5, <3>1, <3>2, <3>3, <3>4, <3>5, DurableRunAssumption DEF OneDelegates, RefusedAtLimit
    <2> QED
        BY <2>1, <2>2, <2>4, <2>7 DEF Delegations
<1>27. ASSUME NEW p \in Proc, NEW s \in CallStep, Await(p, s)
      PROVE  Delegations'
    <2>1. s \in Step /\ s \in Dispatched /\ overlapped' = overlapped
        BY <1>27, Constants DEF Await, Delegations, history
    <2>2. Dispatched' = Dispatched
        BY <1>27, <2>1 DEF Await, Dispatched, TypeOK
    <2>3. CallsAreCalm /\ RefusalsAreOld
        BY <1>27, <2>1, CalmRecord, RecordedRefusals DEF Await, RefusalsAreOld
    <2> QED
        BY <2>1, <2>2, <2>3, CalmKeeps
<1>28. ASSUME NEW s \in CallStep, ChildEnds(s)
      PROVE  Delegations'
    <2>1. Dispatched' = Dispatched
        BY <1>28 DEF ChildEnds, Dispatched, TypeOK
    <2> QED
        BY <1>28, <2>1, CalmKeeps DEF ChildEnds, CallsAreCalm, RefusalsAreOld, Refused, history
<1>29. ASSUME NEW p \in Proc, Reap(p)
      PROVE  Delegations'
    <2>1. Dispatched' = Dispatched
        BY <1>29 DEF Reap, StopChildren, Dispatched
    <2> QED
        BY <1>29, <2>1, CalmKeeps DEF Reap, CallsAreCalm, RefusalsAreOld, Refused, history
<1>30. ASSUME StopItsChildren
      PROVE  Delegations'
    <2>1. Dispatched' = Dispatched
        BY <1>30 DEF StopItsChildren, StopChildren, Dispatched
    <2> QED
        BY <1>30, <2>1, CalmKeeps DEF StopItsChildren, CallsAreCalm, RefusalsAreOld, Refused, history
<1>31. ASSUME NEW p \in Proc,
       StartFails(p) \/ Beat(p) \/ Reconcile(p) \/ NameFork(p) \/ MarkFailed(p)
           \/ MarkLost(p) \/ FailTakeover(p)
      PROVE  UNCHANGED <<at, wf, children, overlapped>>
    BY <1>31
       DEF StartFails, Beat, Reconcile, NameFork, MarkFailed, MarkLost, FailTakeover, rowVars, history,
           vars
<1>32. ASSUME Lapse \/ UpdateCatalog \/ StopRun \/ Over
      PROVE  UNCHANGED <<at, wf, children, overlapped>>
    BY <1>32 DEF Lapse, UpdateCatalog, StopRun, Over, rowVars, history, vars
<1>33. UNCHANGED <<at, wf, children, overlapped>> => Delegations'
    BY CalmKeeps DEF CallsAreCalm, RefusalsAreOld, Refused, Dispatched
<1> QED
    BY <1>1, <1>2, <1>3, <1>4, <1>5, <1>6, <1>7, <1>8, <1>9, <1>10, <1>11, <1>12, <1>13, <1>14, <1>15,
       <1>16, <1>17, <1>18, <1>19, <1>20, <1>21, <1>22, <1>23, <1>24, <1>25, <1>26, <1>27, <1>28,
       <1>29, <1>30, <1>31, <1>32, <1>33 DEF Next

\* The types and the invariant of the delegate calls.
Delegating == Typed /\ Delegations

\* It is an invariant.
LEMMA DelegatingHolds == Spec => []Delegating
<1>1. Init => Delegations
    <2> SUFFICES ASSUME Init PROVE Delegations
        OBVIOUS
    <2>1. /\ \A p \in Proc : \A s \in Step : at[p].step[s] = "idle"
          /\ \A w \in WorkflowId : \A s \in Step : wf[w].done[s] = "none"
          /\ Dispatched = {}
        BY NewExecutions, WorkflowIds DEF Init, Idle, NoWorkflow, Dispatched
    <2>2. OneDelegates
        BY <2>1, Constants DEF OneDelegates, IsDelegating
    <2> QED
        BY <2>1, <2>2, Constants, FS_EmptySet, DurableRunAssumption
           DEF Delegations, OneDelegates, RefusedAtLimit, Refused, IsDelegating
<1>2. ASSUME Delegating, Next PROVE Delegating'
    BY <1>2, TypeStep, DelegationsStep DEF Delegating, Typed
<1>3. ASSUME Delegating, UNCHANGED vars PROVE Delegating'
    BY <1>3, CalmKeeps DEF Delegating, Typed, TypeOK, PassesFit, CallsAreCalm, RefusalsAreOld, Refused,
       Dispatched, vars, rowVars, history
<1> QED
    BY <1>1, <1>2, <1>3, TypedInit, PTL DEF Spec, Delegating

\* A call that created a child is never refused: OwnChildIsAdopted, for any number of calls,
\* repetitions and processes.
THEOREM ChildIsAdopted == Spec => []OwnChildIsAdopted
<1>1. Delegating => OwnChildIsAdopted
    BY Constants DEF Delegating, Delegations, RefusedAtLimit, Refused, OwnChildIsAdopted
<1> QED
    BY <1>1, DelegatingHolds, PTL

\* A run has at most maxDelegationsPerRun children: DelegationLimit, likewise.
THEOREM ChildrenWithinLimit == Spec => []DelegationLimit
<1>1. Delegating => DelegationLimit
    BY DEF Delegating, Delegations, DelegationLimit
<1> QED
    BY <1>1, DelegatingHolds, PTL

-----------------------------------------------------------------------------
(* The name of the run's workflow. *)

\* One pass of the reconciler at a time.
OnePass == \A p, q \in Proc : ~At(p, "idle") /\ ~At(q, "idle") => p = q

\* A pass that takes over is about the workflow the run names, and then about the one before.
PassIsOfNamed ==
    \A p \in Proc :
        /\ rec[p].phase \in {"forking", "naming"} => rec[p].wf = named
        /\ At(p, "cancelling") => IsForkOf(named, rec[p].wf)

\* The run moves forward only: what it left behind stays behind.
Moves == \A w \in WorkflowId : IsForkOf(named, w) => IsForkOf(named', w)

\* With one pass at a time, the run moves forward only.
LEMMA NamingStep ==
    ASSUME MaxPasses = 1, TypeOK, PassesFit, OnePass, PassIsOfNamed, Next
    PROVE  OnePass' /\ PassIsOfNamed' /\ Moves
<1>1. ASSUME NEW p \in Proc, Reconcile(p)
      PROVE  OnePass' /\ PassIsOfNamed' /\ Moves
    <2> DEFINE busy == {q \in Proc : rec[q].phase # "idle"}
    <2>1. IsFiniteSet(busy) /\ Cardinality(busy) < 1
        BY <1>1, FS_Subset, DurableRunAssumption DEF Reconcile
    <2>2. busy = {}
        BY <2>1, FS_CardinalityType, FS_EmptySet
    <2>3. \A q \in Proc : rec'[q] = IF q = p THEN [phase |-> Answer(p, named), wf |-> named] ELSE rec[q]
        BY <1>1 DEF Reconcile, TypeOK
    <2>4. Answer(p, named) \in {"idle", "resuming", "forking", "failing", "losing"} /\ named' = named
        BY <1>1 DEF Answer, Reconcile
    <2> QED
        BY <2>2, <2>3, <2>4 DEF OnePass, PassIsOfNamed, Moves, At
<1>2. ASSUME NEW p \in Proc, NameFork(p)
      PROVE  OnePass' /\ PassIsOfNamed' /\ Moves
    <2>1. /\ named \in Seq(Version) /\ version[p] \in Version /\ named' = Append(named, version[p])
          /\ rec[p].wf = named
        BY <1>2, WorkflowIds DEF NameFork, At, TypeOK, PassesFit, PassIsOfNamed
    <2>2. IsForkOf(named', named) /\ Moves
        BY <2>1, ForkIds, WorkflowIds DEF Moves
    <2>3. \A q \in Proc :
              rec'[q].phase = (IF q = p THEN "cancelling" ELSE rec[q].phase) /\ rec'[q].wf = rec[q].wf
        BY <1>2 DEF NameFork, Proceed, TypeOK, Pass
    <2> QED
        BY <1>2, <2>1, <2>2, <2>3 DEF NameFork, OnePass, PassIsOfNamed, At
<1>3. ASSUME NEW p \in Proc, Fork(p)
      PROVE  OnePass' /\ PassIsOfNamed' /\ Moves
    <2>1. \A q \in Proc :
              rec'[q].phase = (IF q = p THEN "naming" ELSE rec[q].phase) /\ rec'[q].wf = rec[q].wf
        BY <1>3 DEF Fork, Proceed, TypeOK, Pass
    <2> QED
        BY <1>3, <2>1 DEF Fork, OnePass, PassIsOfNamed, Moves, At, rowVars
<1>4. ASSUME NEW p \in Proc, MarkLost(p)
      PROVE  OnePass' /\ PassIsOfNamed' /\ Moves
    <2>1. \A q \in Proc \ {p} : rec'[q] = rec[q]
        BY <1>4 DEF MarkLost, TypeOK
    <2>2. rec'[p].phase \in {"idle", "reaping"} /\ named' = named /\ rec[p].phase = "losing"
        BY <1>4 DEF MarkLost, TypeOK, NoPass, Pass, At
    <2> QED
        BY <1>4, <2>1, <2>2 DEF OnePass, PassIsOfNamed, Moves, At
<1>5. ASSUME NEW p \in Proc, Crash(p)
      PROVE  OnePass' /\ PassIsOfNamed' /\ Moves
    <2>1. named' = named /\ \A q \in Proc : rec'[q] = IF q = p THEN NoPass ELSE rec[q]
        BY <1>5 DEF Crash, TypeOK, rowVars
    <2> QED
        BY <1>5, <2>1 DEF NoPass, OnePass, PassIsOfNamed, Moves, At
<1>6. ASSUME NEW p \in Proc, Resume(p)
      PROVE  OnePass' /\ PassIsOfNamed' /\ Moves
    <2>1. named' = named /\ \A q \in Proc : rec'[q] = IF q = p THEN NoPass ELSE rec[q]
        BY <1>6 DEF Resume, TypeOK, rowVars
    <2> QED
        BY <1>6, <2>1 DEF NoPass, OnePass, PassIsOfNamed, Moves, At
<1>7. ASSUME NEW p \in Proc, CancelOriginal(p)
      PROVE  OnePass' /\ PassIsOfNamed' /\ Moves
    <2>1. named' = named /\ \A q \in Proc : rec'[q] = IF q = p THEN NoPass ELSE rec[q]
        BY <1>7 DEF CancelOriginal, TypeOK, rowVars
    <2> QED
        BY <1>7, <2>1 DEF NoPass, OnePass, PassIsOfNamed, Moves, At
<1>8. ASSUME NEW p \in Proc, MarkFailed(p)
      PROVE  OnePass' /\ PassIsOfNamed' /\ Moves
    <2>1. named' = named /\ \A q \in Proc : rec'[q] = IF q = p THEN NoPass ELSE rec[q]
        BY <1>8 DEF MarkFailed, TypeOK, rowVars
    <2> QED
        BY <1>8, <2>1 DEF NoPass, OnePass, PassIsOfNamed, Moves, At
<1>9. ASSUME NEW p \in Proc, Reap(p)
      PROVE  OnePass' /\ PassIsOfNamed' /\ Moves
    <2>1. named' = named /\ \A q \in Proc : rec'[q] = IF q = p THEN NoPass ELSE rec[q]
        BY <1>9 DEF Reap, TypeOK, rowVars
    <2> QED
        BY <1>9, <2>1 DEF NoPass, OnePass, PassIsOfNamed, Moves, At
<1>10. ASSUME NEW p \in Proc, FailTakeover(p)
      PROVE  OnePass' /\ PassIsOfNamed' /\ Moves
    <2>1. named' = named /\ \A q \in Proc : rec'[q] = IF q = p THEN NoPass ELSE rec[q]
        BY <1>10 DEF FailTakeover, TypeOK, rowVars
    <2> QED
        BY <1>10, <2>1 DEF NoPass, OnePass, PassIsOfNamed, Moves, At
<1>11. ASSUME NEW p \in Proc,
       Launch(p) \/ Pin(p) \/ FailToLoad(p) \/ MarkRunning(p) \/ Park(p) \/ FailWorkflow(p)
           \/ CancelRun(p) \/ Finish(p) \/ Close(p) \/ StartFails(p) \/ Beat(p)
      PROVE  rec' = rec /\ named' = named
    BY <1>11
       DEF Launch, Pin, FailToLoad, MarkRunning, Park, FailWorkflow, CancelRun, Finish, Close,
           StartFails, Beat, rowVars, history, vars
<1>12. ASSUME NEW p \in Proc, NEW w \in WorkflowId,
       Dequeue(p, w)
      PROVE  rec' = rec /\ named' = named
    BY <1>12 DEF Dequeue, Enter, rowVars, history, vars
<1>13. ASSUME NEW p \in Proc, NEW v \in Version,
       Restart(p, v)
      PROVE  rec' = rec /\ named' = named
    BY <1>13 DEF Restart, Enter, rowVars, history, vars
<1>14. ASSUME NEW p \in Proc, NEW s \in Step,
       Check(p, s) \/ CheckFails(p, s) \/ RefuseCancelled(p, s) \/ Replay(p, s)
           \/ PayTurn(p, s) \/ Record(p, s) \/ FindChild(p, s)
      PROVE  rec' = rec /\ named' = named
    BY <1>14
       DEF Check, CheckFails, RefuseCancelled, Replay, PayTurn, Record, FindChild, rowVars, history,
           vars
<1>15. ASSUME NEW p \in Proc, NEW s \in CallStep,
       Admit(p, s) \/ Refuse(p, s) \/ CreateChild(p, s) \/ Await(p, s)
      PROVE  rec' = rec /\ named' = named
    BY <1>15 DEF Admit, Refuse, CreateChild, Await, rowVars, history, vars
<1>16. ASSUME Lapse \/ UpdateCatalog \/ StopRun \/ CancelNamed \/ StopItsChildren \/ Over
           \/ \E s \in CallStep : ChildEnds(s)
      PROVE  rec' = rec /\ named' = named
    BY <1>16
       DEF Lapse, UpdateCatalog, StopRun, CancelNamed, StopItsChildren, Over, ChildEnds, rowVars,
           history, vars
<1>17. rec' = rec /\ named' = named => OnePass' /\ PassIsOfNamed' /\ Moves
    BY DEF OnePass, PassIsOfNamed, Moves, At
<1> QED
    BY <1>1, <1>2, <1>3, <1>4, <1>5, <1>6, <1>7, <1>8, <1>9, <1>10, <1>11, <1>12, <1>13, <1>14, <1>15,
       <1>16, <1>17 DEF Next

-----------------------------------------------------------------------------
(* Reasons to end. *)

\* The run ended, or went on to a fork of w.
Gone(w) == ~Drivable \/ IsForkOf(named, w)

\* The run ended, or its first load failed.
LoadFailed == ~Drivable \/ wf[<<>>].done[Load] = "failed"

\* A workflow ends for a takeover, for the run's own end, or for its load.
WorkflowsEnd ==
    \A w \in WorkflowId :
        /\ wf[w].status = "cancelled" => Gone(w)
        /\ wf[w].status = "finished" => ~Drivable
        /\ wf[w].status = "error" => LoadFailed

\* An execution closes, or is told to stop, only once the run ended.
ExecutionsEnd ==
    \A p \in Proc :
        /\ at[p].phase = "closing" => ~Drivable
        /\ \A s \in Step : at[p].step[s] = "stopped" => ~Drivable

\* A pass marks the run failed only for its load.
PassesEnd == \A p \in Proc : At(p, "failing") => LoadFailed

\* A stop request ends the run first.
StopEnds == stop # "none" => ~Drivable

\* The invariant of the ends.
Ends == WorkflowsEnd /\ ExecutionsEnd /\ PassesEnd /\ StopEnds /\ TakeoverEndsNothing

\* What no step takes back.
Persists ==
    /\ ~Drivable => ~Drivable' /\ status' = status
    /\ Moves /\ Grows
    /\ LoadFailed => LoadFailed'

\* An end, a takeover, a record and a failed load are for good.
LEMMA WhatPersists ==
    ASSUME Moves, Grows, Next
    PROVE  Persists
<1>1. ~Drivable => ~Drivable' /\ status' = status
    BY EndStays DEF Drivable
<1>2. LoadFailed => LoadFailed'
    BY <1>1, WorkflowIds, Constants DEF LoadFailed, Grows
<1> QED
    BY <1>1, <1>2 DEF Persists

\* A write of a workflow's status keeps the reasons workflows end for.
LEMMA WriteEnds ==
    ASSUME TypeOK, WorkflowsEnd, Persists, NEW w \in WorkflowId, NEW x, NEW done, NEW y, Writes(w, x,
           done, y),
           x = "cancelled" =>
               ~Drivable' \/ IsForkOf(named', w),
               x = "finished" => ~Drivable', x = "error" => LoadFailed'
    PROVE  WorkflowsEnd'
    BY DEF WorkflowsEnd, Writes, Persists, Gone, Moves

\* So does a change of that status alone.
LEMMA StatusEnds ==
    ASSUME TypeOK, WorkflowsEnd, Persists, NEW w \in WorkflowId,
           NEW x \in {"enqueued", "pending", "cancelled", "error", "finished"},
           \/ wf' = [wf EXCEPT ![w].status = x]
           \/ \E p \in Proc \cup {Nobody} : wf' = [wf EXCEPT ![w].status = x, ![w].owner = p],
           x = "cancelled" => ~Drivable' \/ IsForkOf(named', w), x = "finished" => ~Drivable',
           x = "error" => LoadFailed'
    PROVE  WorkflowsEnd'
<1> DEFINE done == wf[w].done
           y == wf[w].price
<1>1. Writes(w, x, done, y)
    BY StatusWrites
<1> HIDE DEF done, y
<1> QED
    BY <1>1, WriteEnds

\* So does a step that changes no status.
LEMMA KeptEnds ==
    ASSUME WorkflowsEnd, Persists, \A w \in WorkflowId : wf'[w].status = wf[w].status
    PROVE  WorkflowsEnd'
    BY DEF WorkflowsEnd, Persists, Gone, Moves

\* So does a record.
LEMMA RecordEnds ==
    ASSUME TypeOK, Ends, Persists, NEW p \in Proc, NEW s \in Step,
           NEW outcome \in {"done", "refused", "failed"}, Recorded(p, s, outcome)
    PROVE  WorkflowsEnd'
<1>1. at[p].wf \in WorkflowId /\ Own(p) = wf[at[p].wf]
    BY State
<1>2. \/ wf' = wf
      \/ \E done, y : Writes(at[p].wf, Own(p).status, done, y)
    BY RecordedChanges
<1>3. \A w \in WorkflowId : wf'[w].status = wf[w].status
    BY <1>1, <1>2 DEF Writes
<1> QED
    BY <1>3, KeptEnds DEF Ends

\* A step stops an execution only after the end.
LEMMA StepEnds ==
    ASSUME TypeOK, ExecutionsEnd, Persists, NEW p \in Proc, NEW s \in Step, NEW x, NEW y, StepsTo(p, s,
           x, y),
           x = "stopped" => ~Drivable
    PROVE  ExecutionsEnd'
<1>1. \A t \in Step : at'[p].step[t] = IF t = s THEN x ELSE at[p].step[t]
    BY State DEF StepsTo
<1>2. \A q \in Proc \ {p} : at'[q] = at[q]
    BY DEF StepsTo
<1>3. at'[p].phase = at[p].phase
    BY DEF StepsTo
<1>4. ASSUME NEW q \in Proc, NEW t \in Step, at'[q].step[t] = "stopped" PROVE ~Drivable'
    BY <1>1, <1>2, <1>4 DEF ExecutionsEnd, Persists
<1>5. ASSUME NEW q \in Proc, at'[q].phase = "closing" PROVE ~Drivable'
    BY <1>2, <1>3, <1>5 DEF ExecutionsEnd, Persists
<1> QED
    BY <1>4, <1>5 DEF ExecutionsEnd

\* A new execution closes only after the end.
LEMMA NewEnds ==
    ASSUME TypeOK, ExecutionsEnd, Persists, NEW p \in Proc, NEW e \in Execution, Becomes(p, e),
           e.phase = "closing" => ~Drivable', \A s \in Step : e.step[s] = "idle"
    PROVE  ExecutionsEnd'
    BY DEF ExecutionsEnd, Persists, Becomes

\* So does one that starts.
LEMMA EnterEnds ==
    ASSUME TypeOK, ExecutionsEnd, Persists, NEW p \in Proc, NEW w \in WorkflowId, Enter(p, w)
    PROVE  ExecutionsEnd'
<1>1. PICK e \in Execution :
          /\ Becomes(p, e)
          /\ e.phase = (IF Drivable THEN "loading" ELSE "closing") /\ e.wf = w /\ e.price = price
              /\ e.late = 0
          /\ \A s \in Step : e.step[s] = "idle"
    BY EnterChanges
<1>2. e.phase = "closing" => ~Drivable'
    BY <1>1 DEF Persists
<1> QED
    BY <1>1, <1>2, NewEnds

\* So does one that is left.
LEMMA LeaveEnds ==
    ASSUME TypeOK, ExecutionsEnd, Persists, NEW p \in Proc, NEW w \in WorkflowId,
           NEW phase \in {"idle", "closing"}, at' = [at EXCEPT ![p] = ExecutionOf(phase, w)],
           phase = "closing" => ~Drivable'
    PROVE  ExecutionsEnd'
<1> DEFINE e == ExecutionOf(phase, w)
<1>1. e \in Execution /\ e.phase = phase /\ \A s \in Step : e.step[s] = "idle"
    BY NewExecutions
<1>2. at' = [at EXCEPT ![p] = e]
    OBVIOUS
<1> HIDE DEF e
<1>3. Becomes(p, e)
    BY <1>1, <1>2, Becoming
<1> QED
    BY <1>1, <1>3, NewEnds

\* A workflow fails only for its run's end, or for its load; a fork's load never fails.
LEMMA FailedLoads ==
    ASSUME TypeOK, Prices, Records, Ends, NEW p \in Proc, IsAbandoned(p), ~Threw(p, "lost")
    PROVE  ~Drivable \/ (at[p].phase = "loading" /\ wf[<<>>].done[Load] = "failed")
<1>1. PICK s \in Step : at[p].step[s] \in {"failed", "stopped"}
    BY DEF IsAbandoned, Threw, Thrown
<1>2. CASE at[p].step[s] = "stopped"
    BY <1>2 DEF Ends, ExecutionsEnd
<1>3. CASE at[p].step[s] = "failed"
    <2>1. s = Load /\ Own(p).done[Load] = "failed" /\ IsExecuting(p) /\ Own(p).status # "none"
        BY <1>3, Constants DEF Records, ExecutionsFollow, Follows, IsExecuting
    <2>2. at[p].phase = "loading"
        BY <1>3, <2>1 DEF Records, ExecutionsFollow, Follows, Prices, ExecutionsArePriced, IsPriced
    <2>3. at[p].wf = <<>>
        BY <2>1, State DEF Records, WorkflowsAreOrdered, IsOrdered
    <2> QED
        BY <2>1, <2>2, <2>3, State
<1> QED
    BY <1>1, <1>2, <1>3

\* Every step keeps the reasons workflows end for.
LEMMA WorkflowsEndStep ==
    ASSUME TypeOK, PassesFit, Prices, Records, PassIsOfNamed, Ends, Persists, Next
    PROVE  WorkflowsEnd'
<1> USE DEF Ends
<1>1. ASSUME NEW p \in Proc, Launch(p)
      PROVE  WorkflowsEnd'
    BY <1>1, LaunchWrites, WriteEnds, WorkflowIds
<1>2. ASSUME NEW p \in Proc, NEW w \in WorkflowId, Dequeue(p, w)
      PROVE  WorkflowsEnd'
    BY <1>2, StatusEnds DEF Dequeue
<1>3. ASSUME NEW p \in Proc, FailToLoad(p)
      PROVE  WorkflowsEnd'
    BY <1>3, RecordEnds, Constants DEF FailToLoad
<1>4. ASSUME NEW p \in Proc, FailWorkflow(p)
      PROVE  WorkflowsEnd'
    <2>1. LoadFailed'
        BY <1>4, FailedLoads DEF FailWorkflow, LoadFailed, Persists
    <2>2. (\A w \in WorkflowId : wf'[w].status = wf[w].status) => WorkflowsEnd'
        BY <1>4, KeptEnds
    <2> QED
        BY <1>4, <2>1, <2>2, State, StatusEnds DEF FailWorkflow
<1>5. ASSUME NEW p \in Proc, Close(p)
      PROVE  WorkflowsEnd'
    <2>1. ~Drivable'
        BY <1>5 DEF Close, ExecutionsEnd, Persists
    <2>2. (\A w \in WorkflowId : wf'[w].status = wf[w].status) => WorkflowsEnd'
        BY <1>5, KeptEnds
    <2> QED
        BY <1>5, <2>1, <2>2, State, StatusEnds DEF Close
<1>6. ASSUME NEW p \in Proc, Crash(p)
      PROVE  WorkflowsEnd'
    BY <1>6, CrashWrites, KeptEnds
<1>7. ASSUME NEW p \in Proc, Resume(p)
      PROVE  WorkflowsEnd'
    <2>1. (\A w \in WorkflowId : wf'[w].status = wf[w].status) => WorkflowsEnd'
        BY <1>7, KeptEnds
    <2> QED
        BY <1>7, <2>1, State, StatusEnds DEF Resume
<1>8. ASSUME NEW p \in Proc, Fork(p)
      PROVE  WorkflowsEnd'
    <2>1. (\A w \in WorkflowId : wf'[w].status = wf[w].status) => WorkflowsEnd'
        BY <1>8, KeptEnds
    <2> QED
        BY <1>8, <2>1, ForkWrites, WriteEnds
<1>9. ASSUME NEW p \in Proc, CancelOriginal(p)
      PROVE  WorkflowsEnd'
    <2>1. rec[p].wf \in WorkflowId /\ (~Drivable' \/ IsForkOf(named', rec[p].wf))
        BY <1>9, State DEF CancelOriginal, At, PassIsOfNamed, Persists, Moves
    <2>2. (\A w \in WorkflowId : wf'[w].status = wf[w].status) => WorkflowsEnd'
        BY <1>9, KeptEnds
    <2> QED
        BY <1>9, <2>1, <2>2, StatusEnds DEF CancelOriginal
<1>10. ASSUME NEW p \in Proc, NEW s \in Step, Record(p, s)
      PROVE  WorkflowsEnd'
    BY <1>10, RecordEnds DEF Record
<1>11. ASSUME NEW p \in Proc, NEW s \in CallStep, Refuse(p, s)
      PROVE  WorkflowsEnd'
    BY <1>11, RecordEnds, Constants DEF Refuse
<1>12. ASSUME NEW p \in Proc, NEW s \in CallStep, Await(p, s)
      PROVE  WorkflowsEnd'
    BY <1>12, RecordEnds, Constants DEF Await
<1>13. ASSUME CancelNamed
      PROVE  WorkflowsEnd'
    <2>1. named \in WorkflowId /\ ~Drivable'
        BY <1>13 DEF CancelNamed, TypeOK, StopEnds, Persists
    <2>2. (\A w \in WorkflowId : wf'[w].status = wf[w].status) => WorkflowsEnd'
        BY <1>13, KeptEnds
    <2> QED
        BY <1>13, <2>1, <2>2, StatusEnds DEF CancelNamed
<1>14. ASSUME NEW p \in Proc,
       Pin(p) \/ MarkRunning(p) \/ Park(p) \/ CancelRun(p) \/ Finish(p) \/ StartFails(p)
           \/ Beat(p) \/ Reconcile(p) \/ NameFork(p) \/ MarkFailed(p) \/ MarkLost(p)
           \/ Reap(p) \/ FailTakeover(p)
      PROVE  wf' = wf
    BY <1>14
       DEF Pin, MarkRunning, Park, CancelRun, Finish, StartFails, Beat, Reconcile, NameFork,
           MarkFailed, MarkLost, Reap, FailTakeover, rowVars, history, vars
<1>15. ASSUME NEW p \in Proc, NEW v \in Version,
       Restart(p, v)
      PROVE  wf' = wf
    BY <1>15 DEF Restart, Enter, rowVars, history, vars
<1>16. ASSUME NEW p \in Proc, NEW s \in Step,
       Check(p, s) \/ CheckFails(p, s) \/ RefuseCancelled(p, s) \/ Replay(p, s)
           \/ PayTurn(p, s) \/ FindChild(p, s)
      PROVE  wf' = wf
    BY <1>16 DEF Check, CheckFails, RefuseCancelled, Replay, PayTurn, FindChild, rowVars, history, vars
<1>17. ASSUME NEW p \in Proc, NEW s \in CallStep,
       Admit(p, s) \/ CreateChild(p, s)
      PROVE  wf' = wf
    BY <1>17 DEF Admit, CreateChild, rowVars, history, vars
<1>18. ASSUME Lapse \/ UpdateCatalog \/ StopRun \/ StopItsChildren \/ Over
           \/ \E s \in CallStep : ChildEnds(s)
      PROVE  wf' = wf
    BY <1>18 DEF Lapse, UpdateCatalog, StopRun, StopItsChildren, Over, ChildEnds, rowVars, history, vars
<1>19. wf' = wf => WorkflowsEnd'
    BY KeptEnds
<1> QED
    BY <1>1, <1>2, <1>3, <1>4, <1>5, <1>6, <1>7, <1>8, <1>9, <1>10, <1>11, <1>12, <1>13, <1>14, <1>15,
       <1>16, <1>17, <1>18, <1>19 DEF Next

\* A record stops no execution.
LEMMA RecordStepEnds ==
    ASSUME TypeOK, Ends, Persists, NEW p \in Proc, NEW s \in Step,
           NEW outcome \in {"done", "refused", "failed"}, Recorded(p, s, outcome)
    PROVE  ExecutionsEnd'
<1>1. ASSUME NEW x \in {"lost", "failed", "done"}, NEW y, StepsTo(p, s, x, y) PROVE ExecutionsEnd'
    BY <1>1, StepEnds DEF Ends
<1>2. \E x \in {"lost", "failed", "done"} : StepsTo(p, s, x, at[p].price)
    BY RecordedChanges
<1> QED
    BY <1>1, <1>2

\* Nor does a replay.
LEMMA ReplayEnds ==
    ASSUME TypeOK, Ends, Persists, NEW p \in Proc, NEW s \in Step, Replayed(p, s)
    PROVE  ExecutionsEnd'
<1> DEFINE x == IF Own(p).done[s] = "failed" THEN "failed" ELSE "done"
           y == IF s = Load THEN Own(p).price ELSE at[p].price
<1>1. StepsTo(p, s, x, y) /\ x # "stopped"
    BY ReplayedChanges
<1> HIDE DEF x, y
<1> QED
    BY <1>1, StepEnds DEF Ends

\* Every step stops or closes executions only after the end.
LEMMA ExecutionsEndStep ==
    ASSUME TypeOK, PassesFit, Prices, Records, Ends, Persists, Next
    PROVE  ExecutionsEnd'
<1> USE DEF Ends
<1>1. ASSUME NEW p \in Proc, Launch(p)
      PROVE  ExecutionsEnd'
    BY <1>1, EnterEnds, WorkflowIds DEF Launch
<1>2. ASSUME NEW p \in Proc, NEW w \in WorkflowId, Dequeue(p, w)
      PROVE  ExecutionsEnd'
    BY <1>2, EnterEnds DEF Dequeue
<1>3. ASSUME NEW p \in Proc, NEW v \in Version, Restart(p, v)
      PROVE  ExecutionsEnd'
    <2>1. at' = at => ExecutionsEnd'
        BY <1>3 DEF ExecutionsEnd, Persists
    <2> QED
        BY <1>3, <2>1, EnterEnds DEF Restart
<1>4. ASSUME NEW p \in Proc, Pin(p)
      PROVE  ExecutionsEnd'
    BY <1>4, PinChanges, StepEnds, Constants
<1>5. ASSUME NEW p \in Proc, FailToLoad(p)
      PROVE  ExecutionsEnd'
    BY <1>5, RecordStepEnds, Constants DEF FailToLoad
<1>6. ASSUME NEW p \in Proc, MarkRunning(p)
      PROVE  ExecutionsEnd'
    <2>1. PICK e \in Execution :
              /\ Becomes(p, e)
              /\ e.phase = "running" /\ e.wf = at[p].wf /\ e.price = at[p].price
              /\ e.late = at[p].late /\ e.step = at[p].step
        BY <1>6, RunningChanges DEF MarkRunning
    <2> QED
        BY <2>1 DEF ExecutionsEnd, Persists, Becomes
<1>7. ASSUME NEW p \in Proc, Park(p)
      PROVE  ExecutionsEnd'
    BY <1>7, LeaveEnds, WorkflowIds DEF Park, Idle
<1>8. ASSUME NEW p \in Proc, FailWorkflow(p)
      PROVE  ExecutionsEnd'
    BY <1>8, LeaveEnds, WorkflowIds DEF FailWorkflow, Idle
<1>9. ASSUME NEW p \in Proc, Close(p)
      PROVE  ExecutionsEnd'
    BY <1>9, LeaveEnds, WorkflowIds DEF Close, Idle
<1>10. ASSUME NEW p \in Proc, Crash(p)
      PROVE  ExecutionsEnd'
    BY <1>10, LeaveEnds, WorkflowIds DEF Crash, Idle
<1>11. ASSUME NEW p \in Proc, CancelRun(p)
      PROVE  ExecutionsEnd'
    <2>1. ~Drivable'
        BY <1>11 DEF CancelRun, Finished, Drivable
    <2> QED
        BY <1>11, <2>1, State, LeaveEnds DEF CancelRun
<1>12. ASSUME NEW p \in Proc, Finish(p)
      PROVE  ExecutionsEnd'
    <2>1. ~Drivable'
        BY <1>12 DEF Finish, Finished, Drivable
    <2> QED
        BY <1>12, <2>1, State, LeaveEnds DEF Finish
<1>13. ASSUME NEW p \in Proc, NEW s \in Step, Check(p, s)
      PROVE  ExecutionsEnd'
    <2>1. Verdict(p) \in StepPhase /\ (Verdict(p) = "stopped" => ~Drivable)
        BY <1>13 DEF Verdict, StepPhase
    <2>2. SetStep(p, s, Verdict(p)) => ExecutionsEnd'
        BY <1>13, <2>1, SetStepChanges, StepEnds
    <2>3. Replayed(p, s) => ExecutionsEnd'
        BY <1>13, ReplayEnds
    <2> QED
        BY <1>13, <2>2, <2>3 DEF Check
<1>14. ASSUME NEW p \in Proc, NEW s \in Step, Replay(p, s)
      PROVE  ExecutionsEnd'
    BY <1>14, ReplayEnds DEF Replay
<1>15. ASSUME NEW p \in Proc, NEW s \in Step, CheckFails(p, s)
      PROVE  ExecutionsEnd'
    <2>1. {"unread"} \subseteq StepPhase
        BY <1>15 DEF StepPhase
    <2> QED
        BY <1>15, <2>1, SetStepChanges, StepEnds DEF CheckFails
<1>16. ASSUME NEW p \in Proc, NEW s \in Step, RefuseCancelled(p, s)
      PROVE  ExecutionsEnd'
    <2>1. {"lost", "stopped"} \subseteq StepPhase
        BY <1>16 DEF StepPhase
    <2>2. ~IsForkOf(named, at[p].wf) => ~Drivable
        BY <1>16, State DEF RefuseCancelled, WorkflowsEnd, Gone
    <2> QED
        BY <1>16, <2>1, <2>2, SetStepChanges, StepEnds DEF RefuseCancelled
<1>17. ASSUME NEW p \in Proc, NEW s \in Step, PayTurn(p, s)
      PROVE  ExecutionsEnd'
    BY <1>17, PayTurnChanges, StepEnds
<1>18. ASSUME NEW p \in Proc, NEW s \in Step, Record(p, s)
      PROVE  ExecutionsEnd'
    BY <1>18, RecordStepEnds, Constants DEF Record
<1>19. ASSUME NEW p \in Proc, NEW s \in Step, FindChild(p, s)
      PROVE  ExecutionsEnd'
    <2>1. {"waiting", "seeking"} \subseteq StepPhase
        BY <1>19 DEF StepPhase
    <2> QED
        BY <1>19, <2>1, SetStepChanges, StepEnds DEF FindChild
<1>20. ASSUME NEW p \in Proc, NEW s \in CallStep, Admit(p, s)
      PROVE  ExecutionsEnd'
    <2>1. s \in Step /\ {"admitted"} \subseteq StepPhase
        BY <1>20, Constants DEF StepPhase
    <2> QED
        BY <1>20, <2>1, SetStepChanges, StepEnds DEF Admit
<1>21. ASSUME NEW p \in Proc, NEW s \in CallStep, CreateChild(p, s)
      PROVE  ExecutionsEnd'
    <2>1. s \in Step /\ {"waiting"} \subseteq StepPhase
        BY <1>21, Constants DEF StepPhase
    <2> QED
        BY <1>21, <2>1, SetStepChanges, StepEnds DEF CreateChild
<1>22. ASSUME NEW p \in Proc, NEW s \in CallStep, Refuse(p, s)
      PROVE  ExecutionsEnd'
    BY <1>22, RecordStepEnds, Constants DEF Refuse
<1>23. ASSUME NEW p \in Proc, NEW s \in CallStep, Await(p, s)
      PROVE  ExecutionsEnd'
    BY <1>23, RecordStepEnds, Constants DEF Await
<1>24. ASSUME NEW p \in Proc,
       StartFails(p) \/ Beat(p) \/ Reconcile(p) \/ Resume(p) \/ Fork(p) \/ NameFork(p)
           \/ CancelOriginal(p) \/ MarkFailed(p) \/ MarkLost(p) \/ Reap(p)
           \/ FailTakeover(p)
      PROVE  at' = at
    BY <1>24
       DEF StartFails, Beat, Reconcile, Resume, Fork, NameFork, CancelOriginal, MarkFailed, MarkLost,
           Reap, FailTakeover, rowVars, history, vars
<1>25. ASSUME Lapse \/ UpdateCatalog \/ StopRun \/ CancelNamed \/ StopItsChildren \/ Over
           \/ \E s \in CallStep : ChildEnds(s)
      PROVE  at' = at
    BY <1>25
       DEF Lapse, UpdateCatalog, StopRun, CancelNamed, StopItsChildren, Over, ChildEnds, rowVars,
           history, vars
<1>26. at' = at => ExecutionsEnd'
    BY DEF ExecutionsEnd, Persists
<1> QED
    BY <1>1, <1>2, <1>3, <1>4, <1>5, <1>6, <1>7, <1>8, <1>9, <1>10, <1>11, <1>12, <1>13, <1>14, <1>15,
       <1>16, <1>17, <1>18, <1>19, <1>20, <1>21, <1>22, <1>23, <1>24, <1>25, <1>26 DEF Next

\* Every step keeps the reasons a pass fails the run for.
LEMMA PassesEndStep ==
    ASSUME TypeOK, Ends, Persists, Next
    PROVE  PassesEnd'
<1> USE DEF Ends
<1>1. ASSUME NEW p \in Proc, Reconcile(p)
      PROVE  PassesEnd'
    <2>1. \A q \in Proc : rec'[q] = IF q = p THEN [phase |-> Answer(p, named), wf |-> named] ELSE rec[q]
        BY <1>1 DEF Reconcile, TypeOK
    <2>2. named \in WorkflowId /\ ~IsForkOf(named, named)
        BY <1>1 DEF IsForkOf, IsStrictPrefix, TypeOK
    <2>3. Answer(p, named) = "failing" => LoadFailed'
        BY <1>1, <2>2 DEF Answer, Reconcile, TypeOK, WorkflowsEnd, Gone, Persists
    <2> QED
        BY <1>1, <2>1, <2>3 DEF PassesEnd, At, Persists
<1>2. ASSUME NEW p \in Proc, Crash(p)
      PROVE  PassesEnd'
    <2>1. \A q \in Proc : rec'[q] = IF q = p THEN NoPass ELSE rec[q]
        BY <1>2 DEF Crash, TypeOK
    <2> QED
        BY <1>2, <2>1 DEF NoPass, PassesEnd, At, Persists
<1>3. ASSUME NEW p \in Proc, Resume(p)
      PROVE  PassesEnd'
    <2>1. \A q \in Proc : rec'[q] = IF q = p THEN NoPass ELSE rec[q]
        BY <1>3 DEF Resume, TypeOK
    <2> QED
        BY <1>3, <2>1 DEF NoPass, PassesEnd, At, Persists
<1>4. ASSUME NEW p \in Proc, CancelOriginal(p)
      PROVE  PassesEnd'
    <2>1. \A q \in Proc : rec'[q] = IF q = p THEN NoPass ELSE rec[q]
        BY <1>4 DEF CancelOriginal, TypeOK
    <2> QED
        BY <1>4, <2>1 DEF NoPass, PassesEnd, At, Persists
<1>5. ASSUME NEW p \in Proc, MarkFailed(p)
      PROVE  PassesEnd'
    <2>1. \A q \in Proc : rec'[q] = IF q = p THEN NoPass ELSE rec[q]
        BY <1>5 DEF MarkFailed, TypeOK
    <2> QED
        BY <1>5, <2>1 DEF NoPass, PassesEnd, At, Persists
<1>6. ASSUME NEW p \in Proc, Reap(p)
      PROVE  PassesEnd'
    <2>1. \A q \in Proc : rec'[q] = IF q = p THEN NoPass ELSE rec[q]
        BY <1>6 DEF Reap, TypeOK
    <2> QED
        BY <1>6, <2>1 DEF NoPass, PassesEnd, At, Persists
<1>7. ASSUME NEW p \in Proc, FailTakeover(p)
      PROVE  PassesEnd'
    <2>1. \A q \in Proc : rec'[q] = IF q = p THEN NoPass ELSE rec[q]
        BY <1>7 DEF FailTakeover, TypeOK
    <2> QED
        BY <1>7, <2>1 DEF NoPass, PassesEnd, At, Persists
<1>8. ASSUME NEW p \in Proc, MarkLost(p)
      PROVE  PassesEnd'
    <2>1. \A q \in Proc \ {p} : rec'[q] = rec[q]
        BY <1>8 DEF MarkLost, TypeOK
    <2>2. rec'[p].phase # "failing"
        BY <1>8 DEF MarkLost, TypeOK, NoPass, Pass
    <2> QED
        BY <1>8, <2>1, <2>2 DEF PassesEnd, At, Persists
<1>9. ASSUME NEW p \in Proc, Fork(p)
      PROVE  PassesEnd'
    <2>1. (\A q \in Proc \ {p} : rec'[q] = rec[q]) /\ rec'[p].phase # "failing"
        BY <1>9 DEF Fork, Proceed, TypeOK, Pass
    <2> QED
        BY <1>9, <2>1 DEF PassesEnd, At, Persists
<1>10. ASSUME NEW p \in Proc, NameFork(p)
      PROVE  PassesEnd'
    <2>1. (\A q \in Proc \ {p} : rec'[q] = rec[q]) /\ rec'[p].phase # "failing"
        BY <1>10 DEF NameFork, Proceed, TypeOK, Pass
    <2> QED
        BY <1>10, <2>1 DEF PassesEnd, At, Persists
<1>11. ASSUME NEW p \in Proc,
       Launch(p) \/ Pin(p) \/ FailToLoad(p) \/ MarkRunning(p) \/ Park(p) \/ FailWorkflow(p)
           \/ CancelRun(p) \/ Finish(p) \/ Close(p) \/ StartFails(p) \/ Beat(p)
      PROVE  rec' = rec
    BY <1>11
       DEF Launch, Pin, FailToLoad, MarkRunning, Park, FailWorkflow, CancelRun, Finish, Close,
           StartFails, Beat, rowVars, history, vars
<1>12. ASSUME NEW p \in Proc, NEW w \in WorkflowId,
       Dequeue(p, w)
      PROVE  rec' = rec
    BY <1>12 DEF Dequeue, Enter, rowVars, history, vars
<1>13. ASSUME NEW p \in Proc, NEW v \in Version,
       Restart(p, v)
      PROVE  rec' = rec
    BY <1>13 DEF Restart, Enter, rowVars, history, vars
<1>14. ASSUME NEW p \in Proc, NEW s \in Step,
       Check(p, s) \/ CheckFails(p, s) \/ RefuseCancelled(p, s) \/ Replay(p, s)
           \/ PayTurn(p, s) \/ Record(p, s) \/ FindChild(p, s)
      PROVE  rec' = rec
    BY <1>14
       DEF Check, CheckFails, RefuseCancelled, Replay, PayTurn, Record, FindChild, rowVars, history,
           vars
<1>15. ASSUME NEW p \in Proc, NEW s \in CallStep,
       Admit(p, s) \/ Refuse(p, s) \/ CreateChild(p, s) \/ Await(p, s)
      PROVE  rec' = rec
    BY <1>15 DEF Admit, Refuse, CreateChild, Await, rowVars, history, vars
<1>16. ASSUME Lapse \/ UpdateCatalog \/ StopRun \/ CancelNamed \/ StopItsChildren \/ Over
           \/ \E s \in CallStep : ChildEnds(s)
      PROVE  rec' = rec
    BY <1>16
       DEF Lapse, UpdateCatalog, StopRun, CancelNamed, StopItsChildren, Over, ChildEnds, rowVars,
           history, vars
<1>17. rec' = rec => PassesEnd'
    BY DEF PassesEnd, At, Persists
<1> QED
    BY <1>1, <1>2, <1>3, <1>4, <1>5, <1>6, <1>7, <1>8, <1>9, <1>10, <1>11, <1>12, <1>13, <1>14, <1>15,
       <1>16, <1>17 DEF Next

\* Every step cancels the run only for a stop, and fails it only for its load.
LEMMA NothingElseEndsStep ==
    ASSUME TypeOK, Prices, Records, Ends, Persists, Next
    PROVE  StopEnds' /\ TakeoverEndsNothing'
<1> USE DEF Ends
<1>1. ASSUME NEW p \in Proc, MarkRunning(p)
      PROVE  StopEnds' /\ TakeoverEndsNothing'
    BY <1>1 DEF MarkRunning, Finished, Drivable, StopEnds, TakeoverEndsNothing
<1>2. ASSUME NEW p \in Proc, Finish(p)
      PROVE  StopEnds' /\ TakeoverEndsNothing'
    BY <1>2 DEF Finish, Finished, Drivable, StopEnds, TakeoverEndsNothing
<1>3. ASSUME NEW p \in Proc, CancelRun(p)
      PROVE  StopEnds' /\ TakeoverEndsNothing'
    <2>1. ~Drivable
        BY <1>3, FailedLoads DEF CancelRun
    <2> QED
        BY <1>3, <2>1 DEF CancelRun, Finished, Drivable, StopEnds, TakeoverEndsNothing
<1>4. ASSUME NEW p \in Proc, StartFails(p)
      PROVE  StopEnds' /\ TakeoverEndsNothing'
    <2>1. ~IsForkOf(<<>>, <<>>)
        BY <1>4 DEF IsForkOf, IsStrictPrefix
    <2>2. named = <<>> => LoadFailed
        BY <1>4, <2>1, WorkflowIds DEF StartFails, WorkflowsEnd, Gone, LoadFailed
    <2> QED
        BY <1>4, <2>2 DEF StartFails, Finished, Drivable, LoadFailed, StopEnds, TakeoverEndsNothing
<1>5. ASSUME NEW p \in Proc, MarkFailed(p)
      PROVE  StopEnds' /\ TakeoverEndsNothing'
    BY <1>5 DEF MarkFailed, Finished, Drivable, LoadFailed, StopEnds, TakeoverEndsNothing, PassesEnd
<1>6. ASSUME NEW p \in Proc, MarkLost(p)
      PROVE  StopEnds' /\ TakeoverEndsNothing'
    BY <1>6 DEF MarkLost, Finished, Drivable, StopEnds, TakeoverEndsNothing
<1>7. ASSUME StopRun
      PROVE  StopEnds' /\ TakeoverEndsNothing'
    BY <1>7 DEF StopRun, Drivable, StopEnds, TakeoverEndsNothing
<1>8. ASSUME CancelNamed
      PROVE  StopEnds' /\ TakeoverEndsNothing'
    <2>1. stop = "cancelling" /\ stop' = "reaping" /\ UNCHANGED <<status, rec>>
        BY <1>8 DEF CancelNamed, rowVars
    <2> QED
        BY <1>8, <2>1, WorkflowIds, Constants
           DEF StopEnds, TakeoverEndsNothing, Persists, Grows, Drivable
<1>9. ASSUME StopItsChildren
      PROVE  StopEnds' /\ TakeoverEndsNothing'
    <2>1. stop = "reaping" /\ stop' = "done" /\ status' = status
        BY <1>9 DEF StopItsChildren
    <2> QED
        BY <1>9, <2>1, WorkflowIds, Constants
           DEF StopEnds, TakeoverEndsNothing, Persists, Grows, Drivable
<1>10. ASSUME NEW p \in Proc,
       Launch(p) \/ Pin(p) \/ FailToLoad(p) \/ Park(p) \/ FailWorkflow(p) \/ Close(p)
           \/ Crash(p) \/ Beat(p) \/ Reconcile(p) \/ Resume(p) \/ Fork(p) \/ NameFork(p)
           \/ CancelOriginal(p) \/ Reap(p) \/ FailTakeover(p)
      PROVE  status' = status /\ stop' = stop
    BY <1>10
       DEF Launch, Pin, FailToLoad, Park, FailWorkflow, Close, Crash, Beat, Reconcile, Resume, Fork,
           NameFork, CancelOriginal, Reap, FailTakeover, rowVars, history, vars
<1>11. ASSUME NEW p \in Proc, NEW w \in WorkflowId,
       Dequeue(p, w)
      PROVE  status' = status /\ stop' = stop
    BY <1>11 DEF Dequeue, Enter, rowVars, history, vars
<1>12. ASSUME NEW p \in Proc, NEW v \in Version,
       Restart(p, v)
      PROVE  status' = status /\ stop' = stop
    BY <1>12 DEF Restart, Enter, rowVars, history, vars
<1>13. ASSUME NEW p \in Proc, NEW s \in Step,
       Check(p, s) \/ CheckFails(p, s) \/ RefuseCancelled(p, s) \/ Replay(p, s)
           \/ PayTurn(p, s) \/ Record(p, s) \/ FindChild(p, s)
      PROVE  status' = status /\ stop' = stop
    BY <1>13
       DEF Check, CheckFails, RefuseCancelled, Replay, PayTurn, Record, FindChild, rowVars, history,
           vars
<1>14. ASSUME NEW p \in Proc, NEW s \in CallStep,
       Admit(p, s) \/ Refuse(p, s) \/ CreateChild(p, s) \/ Await(p, s)
      PROVE  status' = status /\ stop' = stop
    BY <1>14 DEF Admit, Refuse, CreateChild, Await, rowVars, history, vars
<1>15. ASSUME Lapse \/ UpdateCatalog \/ Over \/ \E s \in CallStep : ChildEnds(s)
      PROVE  status' = status /\ stop' = stop
    BY <1>15 DEF Lapse, UpdateCatalog, Over, ChildEnds, rowVars, history, vars
<1>16. status' = status /\ stop' = stop => StopEnds' /\ TakeoverEndsNothing'
    BY WorkflowIds, Constants DEF StopEnds, TakeoverEndsNothing, Persists, Grows, Drivable
<1> QED
    BY <1>1, <1>2, <1>3, <1>4, <1>5, <1>6, <1>7, <1>8, <1>9, <1>10, <1>11, <1>12, <1>13, <1>14, <1>15,
       <1>16 DEF Next

-----------------------------------------------------------------------------
(* Late turns. *)

\* At most one turn is late, because after the end nothing is checked, and turns are checked one
\* after the other.
Stops(p) ==
    /\ at[p].late <= 1
    /\ at[p].late = 1 => IsOver(p) /\ \A s \in PaidStep : at[p].step[s] # "checked"
    /\ at[p].step[LastTurn] # "idle" => at[p].step[FirstTurn] = "done"

\* It is so for every execution.
ExecutionsStop == \A p \in Proc : Stops(p)

\* What is over for an execution stays over.
LEMMA OverStays ==
    ASSUME TypeOK, Persists, NEW p \in Proc, IsOver(p), at'[p].wf = at[p].wf
    PROVE  IsOver(p)'
<1>1. at[p].wf \in WorkflowId
    BY State
<1> QED
    BY <1>1 DEF IsOver, Persists, Moves

\* An execution that does nothing.
LEMMA OthersStop ==
    ASSUME TypeOK, Persists, NEW q \in Proc, Stops(q), at'[q] = at[q]
    PROVE  Stops(q)'
    BY OverStays DEF Stops

\* One that makes a step in time.
LEMMA StepStops ==
    ASSUME TypeOK, ExecutionsStop, Persists, NEW p \in Proc, NEW s \in Step, NEW x, NEW y, StepsTo(p,
           s, x, y),
           KeepsLate(p), at[p].step[s] # "done", s = LastTurn => at[p].step[FirstTurn] = "done",
           x = "checked" => ~IsOver(p)
    PROVE  ExecutionsStop'
<1>1. ASSUME NEW q \in Proc \ {p} PROVE Stops(q)'
    BY <1>1, OthersStop DEF ExecutionsStop, StepsTo
<1>2. \A t \in Step : at'[p].step[t] = IF t = s THEN x ELSE at[p].step[t]
    BY State DEF StepsTo
<1>3. at'[p].wf = at[p].wf /\ at'[p].late = at[p].late
    BY DEF StepsTo, KeepsLate
<1>4. IsOver(p) => IsOver(p)'
    BY <1>3, OverStays
<1>5. Stops(p)
    BY DEF ExecutionsStop
<1>6. Stops(p)'
    BY <1>2, <1>3, <1>4, <1>5, Constants DEF Stops
<1> QED
    BY <1>1, <1>6 DEF ExecutionsStop

\* A new one.
LEMMA NewStops ==
    ASSUME TypeOK, ExecutionsStop, Persists, NEW p \in Proc, NEW e \in Execution, Becomes(p, e),
           e.late = 0, \A s \in Step : e.step[s] = "idle"
    PROVE  ExecutionsStop'
<1>1. ASSUME NEW q \in Proc \ {p} PROVE Stops(q)'
    BY <1>1, OthersStop DEF ExecutionsStop, Becomes
<1>2. Stops(p)'
    BY Constants DEF Stops, Becomes
<1> QED
    BY <1>1, <1>2 DEF ExecutionsStop

\* One that starts.
LEMMA EnterStops ==
    ASSUME TypeOK, ExecutionsStop, Persists, NEW p \in Proc, NEW w \in WorkflowId, Enter(p, w)
    PROVE  ExecutionsStop'
<1>1. PICK e \in Execution :
          /\ Becomes(p, e)
          /\ e.phase = (IF Drivable THEN "loading" ELSE "closing") /\ e.wf = w /\ e.price = price
              /\ e.late = 0
          /\ \A s \in Step : e.step[s] = "idle"
    BY EnterChanges
<1> QED
    BY <1>1, NewStops

\* One that is left.
LEMMA LeaveStops ==
    ASSUME TypeOK, ExecutionsStop, Persists, NEW p \in Proc, NEW w \in WorkflowId,
           NEW phase \in {"idle", "closing"}, at' = [at EXCEPT ![p] = ExecutionOf(phase, w)]
    PROVE  ExecutionsStop'
<1> DEFINE e == ExecutionOf(phase, w)
<1>1. e \in Execution /\ e.late = 0 /\ \A s \in Step : e.step[s] = "idle"
    BY NewExecutions
<1>2. at' = [at EXCEPT ![p] = e]
    OBVIOUS
<1> HIDE DEF e
<1>3. Becomes(p, e)
    BY <1>1, <1>2, Becoming
<1> QED
    BY <1>1, <1>3, NewStops

\* One that records.
LEMMA RecordStops ==
    ASSUME TypeOK, ExecutionsStop, Persists, NEW p \in Proc, NEW s \in Step,
           NEW outcome \in {"done", "refused", "failed"}, Recorded(p, s, outcome),
           at[p].step[s] \notin {"idle", "done"}
    PROVE  ExecutionsStop'
<1>1. s = LastTurn => at[p].step[FirstTurn] = "done"
    BY DEF ExecutionsStop, Stops
<1>2. KeepsLate(p)
    BY RecordedChanges
<1>3. ASSUME NEW x \in {"lost", "failed", "done"}, NEW y, StepsTo(p, s, x, y) PROVE ExecutionsStop'
    BY <1>1, <1>2, <1>3, StepStops
<1>4. \E x \in {"lost", "failed", "done"} : StepsTo(p, s, x, at[p].price)
    BY RecordedChanges
<1> QED
    BY <1>3, <1>4

\* One that replays.
LEMMA ReplayStops ==
    ASSUME TypeOK, ExecutionsStop, Persists, NEW p \in Proc, NEW s \in Step, Replayed(p, s),
           at[p].step[s] # "done", s = LastTurn => at[p].step[FirstTurn] = "done"
    PROVE  ExecutionsStop'
<1> DEFINE x == IF Own(p).done[s] = "failed" THEN "failed" ELSE "done"
           y == IF s = Load THEN Own(p).price ELSE at[p].price
<1>1. StepsTo(p, s, x, y) /\ x # "checked" /\ KeepsLate(p)
    BY ReplayedChanges
<1> HIDE DEF x, y
<1> QED
    BY <1>1, StepStops

\* Every step keeps the late turns at one.
LEMMA StopsStep ==
    ASSUME TypeOK, PassesFit, ExecutionsStop, Persists, Next
    PROVE  ExecutionsStop'
<1>1. ASSUME NEW p \in Proc, Launch(p)
      PROVE  ExecutionsStop'
    BY <1>1, EnterStops, WorkflowIds DEF Launch
<1>2. ASSUME NEW p \in Proc, NEW w \in WorkflowId, Dequeue(p, w)
      PROVE  ExecutionsStop'
    BY <1>2, EnterStops DEF Dequeue
<1>3. ASSUME NEW p \in Proc, NEW v \in Version, Restart(p, v)
      PROVE  ExecutionsStop'
    <2>1. at' = at => ExecutionsStop'
        BY <1>3, OthersStop DEF ExecutionsStop
    <2> QED
        BY <1>3, <2>1, EnterStops DEF Restart
<1>4. ASSUME NEW p \in Proc, Pin(p)
      PROVE  ExecutionsStop'
    <2>1. at[p].step[Load] # "done" /\ Load # LastTurn
        BY <1>4, Constants DEF Pin, Runs, IsCleared
    <2> QED
        BY <1>4, <2>1, PinChanges, StepStops, Constants
<1>5. ASSUME NEW p \in Proc, FailToLoad(p)
      PROVE  ExecutionsStop'
    <2>1. at[p].step[Load] \notin {"idle", "done"}
        BY <1>5 DEF FailToLoad, Runs, IsCleared
    <2> QED
        BY <1>5, <2>1, RecordStops, Constants DEF FailToLoad
<1>6. ASSUME NEW p \in Proc, MarkRunning(p)
      PROVE  ExecutionsStop'
    <2>1. PICK e \in Execution :
              /\ Becomes(p, e)
              /\ e.phase = "running" /\ e.wf = at[p].wf /\ e.price = at[p].price
              /\ e.late = at[p].late /\ e.step = at[p].step
        BY <1>6, RunningChanges DEF MarkRunning
    <2>2. ASSUME NEW q \in Proc \ {p} PROVE Stops(q)'
        BY <2>1, <2>2, OthersStop DEF ExecutionsStop, Becomes
    <2>3. at'[p].wf = at[p].wf /\ at'[p].late = at[p].late /\ at'[p].step = at[p].step
        BY <2>1 DEF Becomes
    <2>4. Stops(p)'
        BY <2>3, OverStays DEF ExecutionsStop, Stops
    <2> QED
        BY <2>2, <2>4 DEF ExecutionsStop
<1>7. ASSUME NEW p \in Proc, Park(p)
      PROVE  ExecutionsStop'
    BY <1>7, LeaveStops, WorkflowIds DEF Park, Idle
<1>8. ASSUME NEW p \in Proc, FailWorkflow(p)
      PROVE  ExecutionsStop'
    BY <1>8, LeaveStops, WorkflowIds DEF FailWorkflow, Idle
<1>9. ASSUME NEW p \in Proc, Close(p)
      PROVE  ExecutionsStop'
    BY <1>9, LeaveStops, WorkflowIds DEF Close, Idle
<1>10. ASSUME NEW p \in Proc, Crash(p)
      PROVE  ExecutionsStop'
    BY <1>10, LeaveStops, WorkflowIds DEF Crash, Idle
<1>11. ASSUME NEW p \in Proc, CancelRun(p)
      PROVE  ExecutionsStop'
    BY <1>11, State, LeaveStops DEF CancelRun
<1>12. ASSUME NEW p \in Proc, Finish(p)
      PROVE  ExecutionsStop'
    BY <1>12, State, LeaveStops DEF Finish
<1>13. ASSUME NEW p \in Proc, NEW s \in Step, Check(p, s)
      PROVE  ExecutionsStop'
    <2>1. at[p].step[s] # "done" /\ (s = LastTurn => at[p].step[FirstTurn] = "done")
        BY <1>13, DurableRunAssumption DEF Check, IsNext, CallStep, FirstTurn, LastTurn
    <2>2. Verdict(p) \in StepPhase /\ (Verdict(p) = "checked" => ~IsOver(p))
        BY <1>13 DEF Verdict, StepPhase, IsOver
    <2>3. SetStep(p, s, Verdict(p)) => ExecutionsStop'
        BY <1>13, <2>1, <2>2, SetStepChanges, StepStops
    <2>4. Replayed(p, s) => ExecutionsStop'
        BY <1>13, <2>1, ReplayStops
    <2> QED
        BY <1>13, <2>3, <2>4 DEF Check
<1>14. ASSUME NEW p \in Proc, NEW s \in Step, Replay(p, s)
      PROVE  ExecutionsStop'
    <2>1. at[p].step[s] # "done" /\ (s = LastTurn => at[p].step[FirstTurn] = "done")
        BY <1>14 DEF Replay, IsCleared, Runs, ExecutionsStop, Stops
    <2> QED
        BY <1>14, <2>1, ReplayStops DEF Replay
<1>15. ASSUME NEW p \in Proc, NEW s \in Step, CheckFails(p, s)
      PROVE  ExecutionsStop'
    <2>1. at[p].step[s] # "done" /\ (s = LastTurn => at[p].step[FirstTurn] = "done")
        BY <1>15, DurableRunAssumption DEF CheckFails, IsNext, CallStep, FirstTurn, LastTurn
    <2>2. "unread" \in StepPhase
        BY <1>15 DEF StepPhase
    <2> QED
        BY <1>15, <2>1, <2>2, SetStepChanges, StepStops DEF CheckFails
<1>16. ASSUME NEW p \in Proc, NEW s \in Step, RefuseCancelled(p, s)
      PROVE  ExecutionsStop'
    <2>1. at[p].step[s] # "done" /\ (s = LastTurn => at[p].step[FirstTurn] = "done")
        BY <1>16 DEF RefuseCancelled, IsCleared, Runs, ExecutionsStop, Stops
    <2>2. {"lost", "stopped"} \subseteq StepPhase
        BY <1>16 DEF StepPhase
    <2> QED
        BY <1>16, <2>1, <2>2, SetStepChanges, StepStops DEF RefuseCancelled
<1>17. ASSUME NEW p \in Proc, NEW s \in Step, FindChild(p, s)
      PROVE  ExecutionsStop'
    <2>1. at[p].step[s] # "done" /\ (s = LastTurn => at[p].step[FirstTurn] = "done")
        BY <1>17 DEF FindChild, IsCleared, Runs, ExecutionsStop, Stops
    <2>2. {"waiting", "seeking"} \subseteq StepPhase
        BY <1>17 DEF StepPhase
    <2> QED
        BY <1>17, <2>1, <2>2, SetStepChanges, StepStops DEF FindChild
<1>18. ASSUME NEW p \in Proc, NEW s \in CallStep, Admit(p, s)
      PROVE  ExecutionsStop'
    <2>1. s \in Step /\ "admitted" \in StepPhase
        BY <1>18, Constants DEF StepPhase
    <2>2. at[p].step[s] # "done" /\ (s = LastTurn => at[p].step[FirstTurn] = "done")
        BY <1>18, <2>1 DEF Admit, IsAtGate, ExecutionsStop, Stops
    <2> QED
        BY <1>18, <2>1, <2>2, SetStepChanges, StepStops DEF Admit
<1>19. ASSUME NEW p \in Proc, NEW s \in CallStep, CreateChild(p, s)
      PROVE  ExecutionsStop'
    <2>1. s \in Step /\ "waiting" \in StepPhase
        BY <1>19, Constants DEF StepPhase
    <2>2. at[p].step[s] # "done" /\ (s = LastTurn => at[p].step[FirstTurn] = "done")
        BY <1>19, <2>1 DEF CreateChild, IsAtGate, ExecutionsStop, Stops
    <2> QED
        BY <1>19, <2>1, <2>2, SetStepChanges, StepStops DEF CreateChild
<1>20. ASSUME NEW p \in Proc, NEW s \in Step, Record(p, s)
      PROVE  ExecutionsStop'
    BY <1>20, RecordStops DEF Record
<1>21. ASSUME NEW p \in Proc, NEW s \in CallStep, Refuse(p, s)
      PROVE  ExecutionsStop'
    <2>1. s \in Step /\ at[p].step[s] \notin {"idle", "done"}
        BY <1>21, Constants DEF Refuse, IsAtGate
    <2> QED
        BY <1>21, <2>1, RecordStops DEF Refuse
<1>22. ASSUME NEW p \in Proc, NEW s \in CallStep, Await(p, s)
      PROVE  ExecutionsStop'
    <2>1. s \in Step /\ at[p].step[s] \notin {"idle", "done"}
        BY <1>22, Constants DEF Await, IsAtGate
    <2> QED
        BY <1>22, <2>1, RecordStops DEF Await
<1>23. ASSUME NEW p \in Proc, NEW s \in Step, PayTurn(p, s)
      PROVE  ExecutionsStop'
    <2>1. /\ StepsTo(p, s, "settled", at[p].price)
          /\ at'[p].late = at[p].late + (IF IsLate(p, s) THEN 1 ELSE 0)
        BY <1>23, PayTurnChanges
    <2>2. s \in PaidStep /\ at[p].step[s] \in {"checked", "unread"} /\ UNCHANGED <<status, named>>
        BY <1>23 DEF PayTurn, Runs, IsCleared, rowVars
    <2>3. CASE ~IsLate(p, s)
        <3>1. KeepsLate(p) /\ (s = LastTurn => at[p].step[FirstTurn] = "done")
            BY <2>1, <2>2, <2>3, State, ExecutionFields DEF KeepsLate, ExecutionsStop, Stops
        <3> QED
            BY <2>1, <2>2, <3>1, StepStops
    <2>4. CASE IsLate(p, s)
        <3>1. ASSUME NEW q \in Proc \ {p} PROVE Stops(q)'
            BY <2>1, <3>1, OthersStop DEF ExecutionsStop, StepsTo
        <3>2. IsOver(p)'
            BY <2>1, <2>4, OverStays DEF StepsTo, IsLate
        <3>3. \A t \in Step : at'[p].step[t] = IF t = s THEN "settled" ELSE at[p].step[t]
            BY <2>1, State DEF StepsTo
        <3>4. at[p].late = 0 /\ at[p].step[s] = "checked"
            <4>1. at[p].late \in Nat /\ at[p].step[s] = "checked"
                BY <2>4, State, ExecutionFields DEF IsLate
            <4> QED
                BY <2>2, <4>1 DEF ExecutionsStop, Stops
        <3>5. \A t \in PaidStep : at'[p].step[t] # "checked"
            BY <2>2, <3>3, <3>4, Constants DEF PaidStep, ExecutionsStop, Stops
        <3>6. at'[p].step[LastTurn] # "idle" => at'[p].step[FirstTurn] = "done"
            BY <2>2, <3>3, <3>4, Constants DEF PaidStep, ExecutionsStop, Stops
        <3>7. Stops(p)'
            BY <2>1, <2>4, <3>2, <3>4, <3>5, <3>6 DEF Stops
        <3> QED
            BY <3>1, <3>7 DEF ExecutionsStop
    <2> QED
        BY <2>3, <2>4
<1>24. ASSUME NEW p \in Proc,
       StartFails(p) \/ Beat(p) \/ Reconcile(p) \/ Resume(p) \/ Fork(p) \/ NameFork(p)
           \/ CancelOriginal(p) \/ MarkFailed(p) \/ MarkLost(p) \/ Reap(p)
           \/ FailTakeover(p)
      PROVE  at' = at
    BY <1>24
       DEF StartFails, Beat, Reconcile, Resume, Fork, NameFork, CancelOriginal, MarkFailed, MarkLost,
           Reap, FailTakeover, rowVars, history, vars
<1>25. ASSUME Lapse \/ UpdateCatalog \/ StopRun \/ CancelNamed \/ StopItsChildren \/ Over
           \/ \E s \in CallStep : ChildEnds(s)
      PROVE  at' = at
    BY <1>25
       DEF Lapse, UpdateCatalog, StopRun, CancelNamed, StopItsChildren, Over, ChildEnds, rowVars,
           history, vars
<1>26. at' = at => ExecutionsStop'
    BY OthersStop DEF ExecutionsStop
<1> QED
    BY <1>1, <1>2, <1>3, <1>4, <1>5, <1>6, <1>7, <1>8, <1>9, <1>10, <1>11, <1>12, <1>13, <1>14, <1>15,
       <1>16, <1>17, <1>18, <1>19, <1>20, <1>21, <1>22, <1>23, <1>24, <1>25, <1>26 DEF Next

-----------------------------------------------------------------------------
(* The theorems. *)

\* The invariant for one pass at a time.
Moved == Kept /\ OnePass /\ PassIsOfNamed /\ Ends /\ ExecutionsStop

\* It holds initially.
LEMMA MovedInit == Init => Moved
<1> SUFFICES ASSUME Init PROVE Moved
    OBVIOUS
<1>1. /\ \A p \in Proc : at[p].phase = "idle" /\ at[p].late = 0
          /\ \A s \in Step : at[p].step[s] = "idle"
      /\ \A w \in WorkflowId : wf[w].status = "none"
      /\ \A p \in Proc : rec[p].phase = "idle"
    BY NewExecutions, WorkflowIds DEF Init, Idle, NoWorkflow, NoPass
<1>2. OnePass /\ PassIsOfNamed
    BY <1>1 DEF OnePass, PassIsOfNamed, At
<1>3. Ends
    BY <1>1, Constants
       DEF Init, Ends, WorkflowsEnd, ExecutionsEnd, PassesEnd, At, StopEnds, TakeoverEndsNothing
<1>4. ExecutionsStop
    BY <1>1, Constants DEF ExecutionsStop, Stops
<1> QED
    BY <1>2, <1>3, <1>4, KeptInit DEF Moved

\* Every step keeps it.
LEMMA MovedStep ==
    ASSUME MaxPasses = 1
    PROVE  Moved /\ [Next]_vars => Moved'
<1>1. ASSUME Moved, Next PROVE Moved'
    <2>1. Kept' /\ TypeOK /\ PassesFit /\ Prices /\ Records /\ Ends /\ ExecutionsStop
        BY <1>1, KeptStep DEF Moved, Kept, Typed
    <2>2. OnePass' /\ PassIsOfNamed' /\ Moves
        BY <1>1, <2>1, NamingStep DEF Moved
    <2>3. Persists
        BY <1>1, <2>1, <2>2, RecordsGrow, WhatPersists
    <2>4. WorkflowsEnd' /\ ExecutionsEnd' /\ PassesEnd' /\ StopEnds' /\ TakeoverEndsNothing'
        BY <1>1, <2>1, <2>3, WorkflowsEndStep, ExecutionsEndStep, PassesEndStep, NothingElseEndsStep
           DEF Moved
    <2>5. ExecutionsStop'
        BY <1>1, <2>1, <2>3, StopsStep
    <2> QED
        BY <2>1, <2>2, <2>4, <2>5 DEF Moved, Ends
<1>2. ASSUME Moved, UNCHANGED vars PROVE Moved'
    <2>1. Kept'
        BY <1>2, KeptStep DEF Moved
    <2> QED
        BY <1>2, <2>1
           DEF Moved, OnePass, PassIsOfNamed, Ends, WorkflowsEnd, Gone, LoadFailed, ExecutionsEnd,
               PassesEnd,
                   StopEnds, TakeoverEndsNothing, ExecutionsStop, Stops, IsOver, Drivable, At, vars,
                   rowVars
<1> QED
    BY <1>1, <1>2

\* Moving a run to another version neither cancels nor fails it: TakeoverEndsNothing, with the
\* scheduler's lease keeping the passes apart.
THEOREM TakeoverIsNoEnd ==
    ASSUME MaxPasses = 1
    PROVE  Spec => []TakeoverEndsNothing
<1>1. Moved => TakeoverEndsNothing
    BY DEF Moved, Ends
<1> QED
    BY <1>1, MovedInit, MovedStep, PTL DEF Spec

\* After the end, or a takeover, an execution starts at most the one turn it had checked:
\* StopsAtNextStep, with the scheduler's lease keeping the passes apart.
THEOREM ExecutionsStopAtNextStep ==
    ASSUME MaxPasses = 1
    PROVE  Spec => []StopsAtNextStep
<1>1. Moved => StopsAtNextStep
    BY DEF Moved, ExecutionsStop, Stops, StopsAtNextStep
<1> QED
    BY <1>1, MovedInit, MovedStep, PTL DEF Spec
===============================================================================
