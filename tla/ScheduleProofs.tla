--------------------------- MODULE ScheduleProofs ---------------------------
(***************************************************************************)
(* What the scheduler promises for any number of processes and ticks, any  *)
(* clocks and any schedules.  The row lock carries the argument: a claim   *)
(* that is about to commit holds it, so what it read about the agent is    *)
(* still so.  The lease and the leader flags play no part.                 *)
(***************************************************************************)
EXTENDS Schedule, TLAPS

\* A transaction that found a window due holds the row, and the window is still due.
WritersHoldTheRow ==
    \A t \in Tick : tick[t].pc = "writing" =>
        rowLock = t /\ agent.enabled /\ agent.last < tick[t].window

\* lastScheduledAt is at or after every window fired since the schedule started, and at or
\* after that start.
LastIsLatest ==
    /\ since <= agent.last
    /\ \A i \in DOMAIN firings :
           /\ firings[i].start <= start
           /\ firings[i].start = start => firings[i].window <= agent.last

ScheduleInv == TypeOK /\ WritersHoldTheRow /\ LastIsLatest /\ WindowsFireInOrder

LEMMA InitEstablishesInv == Init => ScheduleInv
<1> SUFFICES ASSUME Init PROVE ScheduleInv
    OBVIOUS
<1>1. TypeOK
    BY ScheduleAssumption DEF Init, TypeOK, TickState, IdleTick, Instant, LeaseRow, AgentRow
<1>2. WritersHoldTheRow /\ LastIsLatest /\ WindowsFireInOrder
    BY DEF Init, WritersHoldTheRow, LastIsLatest, WindowsFireInOrder, IdleTick
<1> QED
    BY <1>1, <1>2 DEF ScheduleInv

\* The types of the records that steps write.
LEMMA RecordTypes ==
    /\ IdleTick \in TickState /\ Drained \in TickState
    /\ \A c \in Instant : (IF c < MaxTime THEN c + 1 ELSE c) \in Instant /\ c \in Nat
    /\ \A l \in LeaseRow :
           /\ [l EXCEPT !.holder = Gone] \in LeaseRow
           /\ [l EXCEPT !.left = @ - 1] \in LeaseRow
    /\ \A p \in Process : [holder |-> p, left |-> Ttl + Skew[p]] \in LeaseRow
    /\ \A s \in TickState :
           /\ \A pc \in {"idle", "due", "locking", "writing", "draining"} : [s EXCEPT !.pc = pc] \in TickState
           /\ \A w \in Nat : [s EXCEPT !.pc = "writing", !.window = w] \in TickState
           /\ Retried(s) \in TickState /\ Retried(s).pc # "writing"
    /\ \A at \in Int : [pc |-> "locking", at |-> at, attempt |-> 1, window |-> 0] \in TickState
    /\ \A p \in Process, c \in Instant : c + Skew[p] \in Int
<1>1. IdleTick \in TickState /\ Drained \in TickState
    BY ScheduleAssumption DEF IdleTick, Drained, TickState
<1>2. \A c \in Instant : (IF c < MaxTime THEN c + 1 ELSE c) \in Instant /\ c \in Nat
    BY ScheduleAssumption DEF Instant
<1>3. \A l \in LeaseRow : [l EXCEPT !.holder = Gone] \in LeaseRow /\ [l EXCEPT !.left = @ - 1] \in LeaseRow
    BY DEF LeaseRow
<1>4. \A p \in Process : [holder |-> p, left |-> Ttl + Skew[p]] \in LeaseRow
    BY ScheduleAssumption DEF LeaseRow
<1>5. \A s \in TickState :
          /\ \A pc \in {"idle", "due", "locking", "writing", "draining"} : [s EXCEPT !.pc = pc] \in TickState
          /\ \A w \in Nat : [s EXCEPT !.pc = "writing", !.window = w] \in TickState
    BY DEF TickState
<1>6. \A s \in TickState : Retried(s) \in TickState /\ Retried(s).pc # "writing"
    <2> TAKE s \in TickState
    <2>1. s.attempt \in 0 .. Attempts /\ s.at \in Int
        BY DEF TickState
    <2>2. CASE s.attempt < Attempts
        <3>1. s.attempt + 1 \in 0 .. Attempts
            BY <2>1, <2>2, ScheduleAssumption
        <3> QED
            BY <2>1, <2>2, <3>1 DEF Retried, TickState
    <2>3. CASE ~(s.attempt < Attempts)
        BY <2>3, <1>1 DEF Retried, Drained, IdleTick
    <2> QED
        BY <2>2, <2>3
<1>7. \A at \in Int : [pc |-> "locking", at |-> at, attempt |-> 1, window |-> 0] \in TickState
    BY ScheduleAssumption DEF TickState
<1>8. \A p \in Process, c \in Instant : c + Skew[p] \in Int
    BY ScheduleAssumption DEF Instant
<1> QED
    BY <1>1, <1>2, <1>3, <1>4, <1>5, <1>6, <1>7, <1>8

\* A step that leaves the agent and what was fired alone keeps the invariant if it keeps the
\* types and lets nobody start to write.
LEMMA QuietStepKeepsInv ==
    ASSUME ScheduleInv, TypeOK', UNCHANGED <<agentVars, firings>>,
           \A t \in Tick : tick'[t].pc = "writing" =>
               /\ rowLock' = t
               /\ agent.enabled
               /\ agent.last < tick'[t].window
    PROVE  ScheduleInv'
<1>1. WritersHoldTheRow'
    BY DEF WritersHoldTheRow, agentVars
<1>2. LastIsLatest' /\ WindowsFireInOrder'
    BY DEF ScheduleInv, LastIsLatest, WindowsFireInOrder, agentVars
<1> QED
    BY <1>1, <1>2 DEF ScheduleInv

\* A step that leaves the ticks alone lets nobody write.
LEMMA NoTickKeepsInv ==
    ASSUME ScheduleInv, TypeOK', UNCHANGED <<agentVars, firings, tick, rowLock>>
    PROVE  ScheduleInv'
<1>1. \A t \in Tick : tick'[t].pc = "writing" =>
          rowLock' = t /\ agent.enabled /\ agent.last < tick'[t].window
    BY DEF ScheduleInv, WritersHoldTheRow
<1> QED
    BY <1>1, QuietStepKeepsInv

LEMMA LeadershipKeepsInv ==
    ASSUME ScheduleInv, NEW p \in Process, LeaseTick(p) \/ Restart(p)
    PROVE  ScheduleInv'
<1>1. lease' \in LeaseRow
    BY RecordTypes DEF ScheduleInv, TypeOK, LeaseTick, Restart
<1>2. TypeOK'
    BY <1>1 DEF ScheduleInv, TypeOK, LeaseTick, Restart, agentVars
<1>3. UNCHANGED <<agentVars, firings, tick, rowLock>>
    BY DEF LeaseTick, Restart
<1> QED
    BY <1>2, <1>3, NoTickKeepsInv

LEMMA TimeKeepsInv ==
    ASSUME ScheduleInv, TimePasses
    PROVE  ScheduleInv'
<1>1. clock' \in Instant /\ lease' \in LeaseRow
    BY RecordTypes DEF ScheduleInv, TypeOK, TimePasses
<1>2. TypeOK'
    BY <1>1 DEF ScheduleInv, TypeOK, TimePasses, agentVars
<1>3. UNCHANGED <<agentVars, firings, tick, rowLock>>
    BY DEF TimePasses
<1> QED
    BY <1>2, <1>3, NoTickKeepsInv

LEMMA CrashKeepsInv ==
    ASSUME ScheduleInv, NEW p \in Process, Crash(p)
    PROVE  ScheduleInv'
<1>1. lease' \in LeaseRow /\ tick' \in [Tick -> TickState] /\ rowLock' \in Tick \cup {Nobody}
    BY RecordTypes DEF ScheduleInv, TypeOK, Crash
<1>2. TypeOK'
    BY <1>1 DEF ScheduleInv, TypeOK, Crash, agentVars
<1>3. ASSUME NEW t \in Tick, tick'[t].pc = "writing"
      PROVE  rowLock' = t /\ agent.enabled /\ agent.last < tick'[t].window
    <2>1. Owner[t] # p /\ tick'[t] = tick[t]
        BY <1>3 DEF Crash, IdleTick
    <2>2. rowLock = t /\ agent.enabled /\ agent.last < tick[t].window
        BY <1>3, <2>1 DEF ScheduleInv, WritersHoldTheRow
    <2> QED
        BY <2>1, <2>2 DEF Crash
<1>4. UNCHANGED <<agentVars, firings>>
    BY DEF Crash
<1> QED
    BY <1>2, <1>3, <1>4, QuietStepKeepsInv

\* The steps of a tick but its commit.
LEMMA TickKeepsInv ==
    ASSUME ScheduleInv, NEW t \in Tick,
           BeginTick(t) \/ BeginClaim(t) \/ LockAgent(t) \/ LoseAttempt(t) \/ DrainQueue(t)
    PROVE  ScheduleInv'
<1> DEFINE Writes(u) == rowLock' = u /\ agent.enabled /\ agent.last < tick'[u].window
<1>1. /\ tick \in [Tick -> TickState] /\ rowLock \in Tick \cup {Nobody}
      /\ clock \in Instant /\ Owner[t] \in Process
    BY ScheduleAssumption DEF ScheduleInv, TypeOK
<1>2. /\ UNCHANGED <<agentVars, firings, clock, leaseVars>>
      /\ \A u \in Tick : u # t => tick'[u] = tick[u]
      /\ rowLock' \in {rowLock, t, Nobody}
    BY <1>1 DEF BeginTick, BeginClaim, LockAgent, LockRow, LoseAttempt, Unlock, DrainQueue, UnchangedByTick
<1>3. \E s \in TickState : tick' = [tick EXCEPT ![t] = s]
    <2>1. CASE BeginTick(t)
        BY <2>1, <1>1, RecordTypes DEF BeginTick
    <2>2. CASE BeginClaim(t)
        BY <2>2, <1>1, RecordTypes DEF BeginClaim, ClockOf
    <2>3. CASE LockAgent(t)
        <3>1. CASE tick' = [tick EXCEPT ![t] = Drained]
            BY <3>1, RecordTypes
        <3>2. CASE \E w \in Nat : tick' = [tick EXCEPT ![t].pc = "writing", ![t].window = w]
            BY <3>2, <1>1, RecordTypes
        <3>3. agent.schedule \in Expr
            BY DEF ScheduleInv, TypeOK, AgentRow
        <3>4. DueWindow(agent.schedule, agent.last, tick[t].at) \subseteq Nat
            BY <3>3, ScheduleAssumption DEF DueWindow
        <3> QED
            BY <2>3, <3>1, <3>2, <3>4 DEF LockAgent
    <2>4. CASE LoseAttempt(t)
        BY <2>4, <1>1, RecordTypes DEF LoseAttempt
    <2>5. CASE DrainQueue(t)
        BY <2>5, RecordTypes DEF DrainQueue
    <2> QED
        BY <2>1, <2>2, <2>3, <2>4, <2>5
<1>4. TypeOK'
    BY <1>1, <1>2, <1>3 DEF ScheduleInv, TypeOK, leaseVars, agentVars
<1>5. ASSUME NEW u \in Tick, tick'[u].pc = "writing", u # t
      PROVE  Writes(u)
    <2>1. tick'[u] = tick[u] /\ rowLock = u /\ agent.enabled /\ agent.last < tick[u].window
        BY <1>2, <1>5 DEF ScheduleInv, WritersHoldTheRow
    <2>2. rowLock' = rowLock
        BY <2>1, <1>5, ScheduleAssumption
        DEF BeginTick, BeginClaim, LockAgent, LoseAttempt, Unlock, DrainQueue
    <2> QED
        BY <2>1, <2>2
<1>6. ASSUME tick'[t].pc = "writing"
      PROVE  Writes(t)
    <2>1. LockAgent(t) /\ tick' # [tick EXCEPT ![t] = Drained]
        <3>1. tick[t] \in TickState
            BY <1>1
        <3>2. tick' # [tick EXCEPT ![t] = Drained]
            BY <1>1, <1>6 DEF Drained, IdleTick
        <3>3. ~BeginTick(t) /\ ~BeginClaim(t)
            BY <1>1, <1>6, <3>1 DEF BeginTick, BeginClaim, TickState
        <3>4. ~DrainQueue(t)
            BY <1>1, <1>6 DEF DrainQueue, IdleTick
        <3>5. ~LoseAttempt(t)
            BY <1>1, <1>6, <3>1, RecordTypes DEF LoseAttempt
        <3> QED
            BY <3>2, <3>3, <3>4, <3>5
    <2>2. PICK w \in DueWindow(agent.schedule, agent.last, tick[t].at) :
              /\ rowLock' = t
              /\ agent.enabled
              /\ tick' = [tick EXCEPT ![t].pc = "writing", ![t].window = w]
        BY <2>1 DEF LockAgent, LockRow, IsScheduled
    <2>3. tick'[t].window = w /\ agent.last < w
        BY <2>2, <1>1 DEF DueWindow, TickState
    <2> QED
        BY <2>2, <2>3
<1> QED
    BY <1>2, <1>4, <1>5, <1>6, QuietStepKeepsInv

LEMMA CommitKeepsInv ==
    ASSUME ScheduleInv, NEW t \in Tick, CommitClaim(t)
    PROVE  ScheduleInv'
<1> DEFINE fired == [start |-> start, window |-> tick[t].window]
<1>1. /\ firings \in Seq(Firing)
      /\ fired \in Firing
      /\ firings' = Append(firings, fired)
      /\ agent' = [agent EXCEPT !.last = tick[t].window]
      /\ tick' = [tick EXCEPT ![t] = Drained]
      /\ start' = start /\ since' = since
    BY DEF ScheduleInv, TypeOK, CommitClaim, Firing, TickState
<1>2. /\ rowLock = t
      /\ agent.last < tick[t].window
    BY DEF ScheduleInv, WritersHoldTheRow, CommitClaim
<1>3. /\ agent.last \in Nat /\ since \in Nat /\ start \in Nat /\ tick[t].window \in Nat
      /\ agent'.last = tick[t].window
    BY <1>1, ScheduleAssumption DEF ScheduleInv, TypeOK, TickState, Instant, AgentRow
<1>4. TypeOK'
    <2>1. agent' \in AgentRow
        BY <1>1, <1>3 DEF ScheduleInv, TypeOK, AgentRow
    <2>2. tick' \in [Tick -> TickState]
        BY <1>1, RecordTypes DEF ScheduleInv, TypeOK
    <2>3. firings' \in Seq(Firing)
        BY <1>1
    <2>4. rowLock' = Nobody
        BY <1>2 DEF CommitClaim, Unlock
    <2>5. UNCHANGED <<clock, lease, leader, life>>
        BY DEF CommitClaim, UnchangedByTick, leaseVars
    <2> QED
        BY <1>1, <2>1, <2>2, <2>3, <2>4, <2>5 DEF ScheduleInv, TypeOK
<1>5. WritersHoldTheRow'
    BY <1>1, <1>2, ScheduleAssumption DEF ScheduleInv, TypeOK, WritersHoldTheRow, Drained, IdleTick
<1>6. \A i \in DOMAIN firings : firings[i] \in Firing /\ firings'[i] = firings[i]
    BY <1>1
<1>7. /\ Len(firings) \in Nat
      /\ DOMAIN firings = 1 .. Len(firings)
      /\ DOMAIN firings' = DOMAIN firings \cup {Len(firings) + 1}
      /\ firings'[Len(firings) + 1] = fired
    BY <1>1
<1>8. LastIsLatest'
    BY <1>1, <1>2, <1>3, <1>6, <1>7 DEF ScheduleInv, LastIsLatest, Firing
<1>9. WindowsFireInOrder'
    <2> SUFFICES ASSUME NEW i \in DOMAIN firings', NEW j \in DOMAIN firings', i < j,
                        firings'[i].start = firings'[j].start
                 PROVE  firings'[i].window < firings'[j].window
        BY DEF WindowsFireInOrder
    <2>1. i \in DOMAIN firings
        BY <1>7
    <2>2. CASE j \in DOMAIN firings
        BY <2>1, <2>2, <1>6 DEF ScheduleInv, WindowsFireInOrder
    <2>3. CASE j = Len(firings) + 1
        BY <2>1, <2>3, <1>2, <1>3, <1>6, <1>7 DEF ScheduleInv, LastIsLatest, Firing
    <2> QED
        BY <2>2, <2>3, <1>7
<1> QED
    BY <1>4, <1>5, <1>8, <1>9 DEF ScheduleInv

\* Nobody holds the row while it is edited.
LEMMA EditKeepsInv ==
    ASSUME ScheduleInv, Edit
    PROVE  ScheduleInv'
<1>1. rowLock = Nobody /\ tick' = tick /\ firings' = firings
    BY DEF Edit, SetSchedule, DisableSchedule, UnchangedByEdit
<1>2. WritersHoldTheRow'
    BY <1>1, ScheduleAssumption DEF ScheduleInv, WritersHoldTheRow
<1>3. CASE DisableSchedule
    BY <1>1, <1>2, <1>3
    DEF ScheduleInv, TypeOK, LastIsLatest, WindowsFireInOrder, DisableSchedule, UnchangedByEdit, leaseVars, AgentRow
<1>4. ASSUME NEW e \in Expr, SetSchedule(e)
      PROVE  ScheduleInv'
    <2>1. TypeOK'
        BY <1>4, ScheduleAssumption DEF ScheduleInv, TypeOK, SetSchedule, UnchangedByEdit, leaseVars, Instant, AgentRow
    <2>2. WindowsFireInOrder'
        BY <1>1 DEF ScheduleInv, WindowsFireInOrder
    <2>3. CASE ~agent.enabled \/ agent.schedule # e
        <3>1. start' = start + 1 /\ since' = clock /\ agent'.last = clock
            BY <1>4, <2>3 DEF SetSchedule, StartsSchedule
        <3>2. \A i \in DOMAIN firings : firings[i].start \in Nat
            <4>1. firings \in Seq(Firing)
                BY DEF ScheduleInv, TypeOK
            <4>2. \A i \in DOMAIN firings : firings[i] \in Firing
                BY <4>1
            <4> QED
                BY <4>2 DEF Firing
        <3>3. clock \in Nat /\ start \in Nat
            BY ScheduleAssumption DEF ScheduleInv, TypeOK, Instant
        <3>4. ASSUME NEW i \in DOMAIN firings
              PROVE  firings[i].start <= start + 1 /\ firings[i].start # start + 1
            BY <3>2, <3>3 DEF ScheduleInv, LastIsLatest
        <3>5. LastIsLatest'
            <4>1. since' <= agent'.last
                BY <3>1, <3>3
            <4>2. ASSUME NEW i \in DOMAIN firings'
                  PROVE  firings'[i].start <= start' /\ firings'[i].start # start'
                BY <4>2, <1>1, <3>1, <3>4
            <4> QED
                BY <4>1, <4>2 DEF LastIsLatest
        <3> QED
            BY <2>1, <2>2, <3>5, <1>2 DEF ScheduleInv
    <2>4. CASE ~(~agent.enabled \/ agent.schedule # e)
        <3>1. start' = start /\ since' = since /\ agent'.last = agent.last
            BY <1>4, <2>4 DEF SetSchedule, StartsSchedule
        <3>2. LastIsLatest'
            BY <1>1, <3>1 DEF ScheduleInv, LastIsLatest
        <3> QED
            BY <2>1, <2>2, <3>2, <1>2 DEF ScheduleInv
    <2> QED
        BY <2>3, <2>4
<1> QED
    BY <1>3, <1>4 DEF Edit

LEMMA StutterKeepsInv ==
    ASSUME ScheduleInv, UNCHANGED vars
    PROVE  ScheduleInv'
BY DEF ScheduleInv, TypeOK, WritersHoldTheRow, LastIsLatest, WindowsFireInOrder, vars, leaseVars, agentVars

LEMMA NextKeepsInv == ScheduleInv /\ [Next]_vars => ScheduleInv'
<1> SUFFICES ASSUME ScheduleInv, [Next]_vars PROVE ScheduleInv'
    OBVIOUS
<1>1. CASE UNCHANGED vars
    BY <1>1, StutterKeepsInv
<1>2. CASE TimePasses
    BY <1>2, TimeKeepsInv
<1>3. ASSUME NEW p \in Process, LeaseTick(p) \/ Crash(p) \/ Restart(p)
      PROVE  ScheduleInv'
    BY <1>3, LeadershipKeepsInv, CrashKeepsInv
<1>4. ASSUME NEW t \in Tick, TickStep(t)
      PROVE  ScheduleInv'
    BY <1>4, TickKeepsInv, CommitKeepsInv DEF TickStep
<1>5. CASE Edit
    BY <1>5, EditKeepsInv
<1> QED
    BY <1>1, <1>2, <1>3, <1>4, <1>5 DEF Next

THEOREM InvariantHolds == Spec => []ScheduleInv
BY InitEstablishesInv, NextKeepsInv, PTL DEF Spec

\* Every variable keeps its type.
THEOREM ScheduleTypeCorrect == Spec => []TypeOK
<1>1. ScheduleInv => TypeOK
    BY DEF ScheduleInv
<1> QED
    BY <1>1, InvariantHolds, PTL

\* Since a schedule last started, its runs are for later and later windows: none fires
\* twice and none that was missed fires late, however many leaders there are.
THEOREM WindowsAreInOrder == Spec => []WindowsFireInOrder
<1>1. ScheduleInv => WindowsFireInOrder
    BY DEF ScheduleInv
<1> QED
    BY <1>1, InvariantHolds, PTL

\* A run appears only in the step that commits its claim.
LEMMA OnlyCommitsFire ==
    ASSUME [Next]_vars, firings' # firings
    PROVE  \E t \in Tick : CommitClaim(t)
<1>1. ~UNCHANGED vars /\ ~TimePasses /\ ~Edit
    BY DEF vars, TimePasses, Edit, SetSchedule, DisableSchedule, UnchangedByEdit
<1>2. \A p \in Process : ~(LeaseTick(p) \/ Crash(p) \/ Restart(p))
    BY DEF LeaseTick, Crash, Restart
<1>3. \A t \in Tick : ~(BeginTick(t) \/ BeginClaim(t) \/ LockAgent(t) \/ LoseAttempt(t) \/ DrainQueue(t))
    BY DEF BeginTick, BeginClaim, LockAgent, LoseAttempt, DrainQueue
<1> QED
    BY <1>1, <1>2, <1>3 DEF Next, TickStep

\* No claim commits once the schedule is disabled.
THEOREM ClaimsAreEnabled == Spec => FiresWhileEnabled
<1>1. ScheduleInv /\ [Next]_vars => [firings' # firings => agent.enabled]_vars
    BY OnlyCommitsFire DEF ScheduleInv, WritersHoldTheRow, CommitClaim
<1> QED
    BY <1>1, InvariantHolds, PTL DEF Spec, FiresWhileEnabled

\* A schedule never fires for a window at or before the moment it was set or re-enabled.
THEOREM FirstWindowIsAfterStart == Spec => FiresOnlyAfterStart
<1>1. ASSUME ScheduleInv, [Next]_vars, firings' # firings
      PROVE  firings'[Len(firings')].window > since
    <2>1. PICK t \in Tick : CommitClaim(t)
        BY <1>1, OnlyCommitsFire
    <2>2. since <= agent.last /\ agent.last < tick[t].window
        BY <1>1, <2>1 DEF ScheduleInv, WritersHoldTheRow, LastIsLatest, CommitClaim
    <2>3. since \in Nat /\ agent.last \in Nat /\ tick[t].window \in Nat /\ firings \in Seq(Firing)
        BY <1>1, ScheduleAssumption DEF ScheduleInv, TypeOK, TickState, Instant, AgentRow
    <2>4. firings'[Len(firings')].window = tick[t].window
        BY <2>1, <2>3 DEF CommitClaim
    <2> QED
        BY <2>2, <2>3, <2>4
<1>2. ScheduleInv /\ [Next]_vars => [firings' # firings => firings'[Len(firings')].window > since]_vars
    BY <1>1
<1> QED
    BY <1>2, InvariantHolds, PTL DEF Spec, FiresOnlyAfterStart
=============================================================================
