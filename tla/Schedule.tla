------------------------------ MODULE Schedule ------------------------------
(***************************************************************************)
(* The scheduler: processes that hold or lose the SchedulerLease, their    *)
(* ticks, and the claim of an agent's due window (claimDueRun inside       *)
(* dispatchRun's persist transaction), while the agent's schedule is set,  *)
(* disabled and re-enabled.  One agent: agents share nothing but the lease.*)
(*                                                                         *)
(* Time is the database's clock.  A process reads its own, Skew[p] apart   *)
(* from it.  The lease is kept as the time left until the database sees it *)
(* expired, so time may go on after the last instant of interest.  Two     *)
(* ticks of one process may overlap: setInterval does not wait.            *)
(***************************************************************************)
EXTENDS Integers, Sequences

CONSTANTS
    Process,     \* the scheduler processes
    Tick,        \* the ticks that can be in progress
    Owner,       \* Owner[t]: the process whose interval timer runs tick t
    Mortal,      \* the processes that may die and start again
    Skew,        \* Skew[p]: how far p's clock is ahead of the database's
    Expr,        \* the cron expressions the agent may get
    Windows,     \* Windows[e]: the instants expression e names
    Ttl,         \* LEASE_TTL_MS
    Attempts,    \* PERSIST_ATTEMPTS
    MaxTime,     \* the last instant of interest: the clock stops there
    MaxStarts,   \* bound: how often the schedule is set anew
    Nobody,      \* no lease row yet, or nobody holds the row lock
    Gone         \* the instanceId of a process that died

ASSUME ScheduleAssumption ==
    /\ Owner \in [Tick -> Process]
    /\ Mortal \subseteq Process
    /\ Skew \in [Process -> Int]
    /\ Windows \in [Expr -> SUBSET (Nat \ {0})]
    /\ Ttl \in Nat
    /\ Attempts \in Nat \ {0}
    /\ MaxTime \in Nat
    /\ MaxStarts \in Nat
    /\ Nobody \notin Process \cup Tick
    /\ Gone \notin Process \cup {Nobody}

VARIABLES
    clock,     \* the database's clock
    life,      \* life[p]: p is up, down, or up again after it died
    lease,     \* the lease row: its holder and the time left, negative once expired
    leader,    \* leader[p]: the flag in p's memory
    agent,     \* the agent row: enabled, schedule, lastScheduledAt
    rowLock,   \* the tick whose transaction holds the agent's row
    tick,      \* where each tick is, its time, its attempt and the window it found due
    start,     \* history: how many times the schedule was switched on or changed
    since,     \* history: when that was last
    firings    \* history: the runs created, each with its start and its window

agentVars == <<agent, start, since>>
leaseVars == <<lease, leader, life>>
vars == <<clock, leaseVars, agentVars, rowLock, tick, firings>>

Instant == 0 .. MaxTime

TickState == [pc : {"idle", "due", "locking", "writing", "draining"},
              at : Int, attempt : 0 .. Attempts, window : Nat]

LeaseRow == [holder : Process \cup {Nobody, Gone}, left : Int]

AgentRow == [enabled : BOOLEAN, schedule : Expr, last : Nat]

Firing == [start : Nat, window : Nat]

TypeOK ==
    /\ clock \in Instant
    /\ life \in [Process -> {"up", "down", "again"}]
    /\ lease \in LeaseRow
    /\ leader \in [Process -> BOOLEAN]
    /\ agent \in AgentRow
    /\ rowLock \in Tick \cup {Nobody}
    /\ tick \in [Tick -> TickState]
    /\ start \in Nat
    /\ since \in Instant
    /\ firings \in Seq(Firing)

IdleTick == [pc |-> "idle", at |-> 0, attempt |-> 0, window |-> 0]

\* An agent created with a schedule: it starts at the database's clock.
Init ==
    \E e \in Expr :
        /\ clock = 0
        /\ life = [p \in Process |-> "up"]
        /\ lease = [holder |-> Nobody, left |-> -1]
        /\ leader = [p \in Process |-> FALSE]
        /\ agent = [enabled |-> TRUE, schedule |-> e, last |-> 0]
        /\ rowLock = Nobody
        /\ tick = [t \in Tick |-> IdleTick]
        /\ start = 0
        /\ since = 0
        /\ firings = <<>>

IsUp(p) == life[p] # "down"

\* `new Date()` in a process.
ClockOf(p) == clock + Skew[p]

\* Mutant: the window of an instant is due however often it fired.
AnyPastWindow(e, last, at) ==
    {w \in Windows[e] : w < at /\ \A v \in Windows[e] : v < at => v <= w}

\* dueWindow: the latest window strictly before the instant, unless it is not after the last one.
\* A set of at most one window.
DueWindow(e, last, at) ==
    {w \in Windows[e] : w < at /\ w > last /\ \A v \in Windows[e] : v < at => v <= w}

\* Mutant: a schedule switched on again goes on where it was.
StartsWhenChanged(enabled, schedule, next) == schedule # next

\* Whether setting expression `next` starts the schedule afresh.
StartsSchedule(enabled, schedule, next) == ~enabled \/ schedule # next

-----------------------------------------------------------------------------
(* Leadership. *)

\* Mutant: a lease never expires.
IsUnheldOrOurs(p) == lease.holder = Nobody \/ lease.holder = p

\* The row's WHERE clause: unheld, expired by the database's clock, or already ours.
IsAcquirable(p) == lease.holder = Nobody \/ lease.left < 0 \/ lease.holder = p

\* leaseTick: the end of the lease is written by the process's clock.
LeaseTick(p) ==
    /\ IsUp(p)
    /\ IF IsAcquirable(p)
       THEN /\ lease' = [holder |-> p, left |-> Ttl + Skew[p]]
            /\ leader' = [leader EXCEPT ![p] = TRUE]
       ELSE leader' = [leader EXCEPT ![p] = FALSE] /\ UNCHANGED lease
    /\ UNCHANGED <<clock, life, agentVars, rowLock, tick, firings>>

\* The process dies: its transactions are rolled back, its ticks are gone, and the
\* lease it holds belongs to an instanceId that nobody has any more.
Crash(p) ==
    /\ p \in Mortal
    /\ life[p] = "up"
    /\ life' = [life EXCEPT ![p] = "down"]
    /\ leader' = [leader EXCEPT ![p] = FALSE]
    /\ lease' = IF lease.holder = p THEN [lease EXCEPT !.holder = Gone] ELSE lease
    /\ tick' = [t \in Tick |-> IF Owner[t] = p THEN IdleTick ELSE tick[t]]
    /\ rowLock' = IF rowLock \in Tick /\ Owner[rowLock] = p THEN Nobody ELSE rowLock
    /\ UNCHANGED <<clock, agentVars, firings>>

Restart(p) ==
    /\ life[p] = "down"
    /\ life' = [life EXCEPT ![p] = "again"]
    /\ UNCHANGED <<clock, lease, leader, agentVars, rowLock, tick, firings>>

\* Time passes.  The clock stops at the last instant of interest; the lease still runs out.
TimePasses ==
    /\ clock' = IF clock < MaxTime THEN clock + 1 ELSE clock
    /\ lease' = IF lease.left >= 0 THEN [lease EXCEPT !.left = @ - 1] ELSE lease
    /\ UNCHANGED <<life, leader, agentVars, rowLock, tick, firings>>

-----------------------------------------------------------------------------
(* A tick of the leader. *)

UnchangedByTick == UNCHANGED <<clock, leaseVars>>

\* findDueCandidates, which takes no lock.
BeginTick(t) ==
    LET p == Owner[t]
        isDue == agent.enabled /\ DueWindow(agent.schedule, agent.last, ClockOf(p)) # {}
    IN  /\ IsUp(p)
        /\ leader[p]
        /\ tick[t].pc = "idle"
        /\ tick' = [tick EXCEPT ![t].pc = IF isDue THEN "due" ELSE "draining"]
        /\ UnchangedByTick /\ UNCHANGED <<agentVars, rowLock, firings>>

\* claimDueRun takes the time once, for every attempt of its dispatch.
BeginClaim(t) ==
    /\ tick[t].pc = "due"
    /\ tick' = [tick EXCEPT ![t] = [pc |-> "locking", at |-> ClockOf(Owner[t]), attempt |-> 1, window |-> 0]]
    /\ UnchangedByTick /\ UNCHANGED <<agentVars, rowLock, firings>>

\* Mutant: the end of a claim leaves the tick in a state of no code.
MisplacedDrained == [IdleTick EXCEPT !.pc = "drained"]

Drained == [IdleTick EXCEPT !.pc = "draining"]

\* Mutant: the claim reads the agent without locking its row.
ReadUnlocked(t) == UNCHANGED rowLock

\* FOR UPDATE SKIP LOCKED.
LockRow(t) == rowLock' = t

\* Mutant: the schedule is not read again under the lock.
MayBeDisabled == TRUE

IsScheduled == agent.enabled

\* The transaction takes the agent's row, or finds it taken and gives up, and asks
\* again whether the agent is due: beforePersist.
LockAgent(t) ==
    LET due == IF IsScheduled THEN DueWindow(agent.schedule, agent.last, tick[t].at) ELSE {}
    IN  /\ tick[t].pc = "locking"
        /\ \/ /\ rowLock # Nobody \/ due = {}
              /\ tick' = [tick EXCEPT ![t] = Drained]
              /\ UNCHANGED rowLock
           \/ /\ rowLock = Nobody
              /\ LockRow(t)
              /\ \E w \in due : tick' = [tick EXCEPT ![t].pc = "writing", ![t].window = w]
        /\ UnchangedByTick /\ UNCHANGED <<agentVars, firings>>

Unlock(t) == rowLock' = IF rowLock = t THEN Nobody ELSE rowLock

\* lastScheduledAt and the run are one commit.
CommitClaim(t) ==
    /\ tick[t].pc = "writing"
    /\ agent' = [agent EXCEPT !.last = tick[t].window]
    /\ firings' = Append(firings, [start |-> start, window |-> tick[t].window])
    /\ tick' = [tick EXCEPT ![t] = Drained]
    /\ Unlock(t)
    /\ UnchangedByTick /\ UNCHANGED <<start, since>>

\* The next attempt is a new transaction with the same time; after the last one the tick
\* logs the error.
Retried(s) ==
    IF s.attempt < Attempts
    THEN [pc |-> "locking", at |-> s.at, attempt |-> s.attempt + 1, window |-> 0]
    ELSE Drained

\* A serialization failure or a transaction that could not start.
LoseAttempt(t) ==
    /\ tick[t].pc \in {"locking", "writing"}
    /\ tick' = [tick EXCEPT ![t] = Retried(tick[t])]
    /\ Unlock(t)
    /\ UnchangedByTick /\ UNCHANGED <<agentVars, firings>>

\* onLeaderTick: the coding queue is drained, also after a claim that failed.
DrainQueue(t) ==
    /\ tick[t].pc = "draining"
    /\ tick' = [tick EXCEPT ![t] = IdleTick]
    /\ UnchangedByTick /\ UNCHANGED <<agentVars, rowLock, firings>>

-----------------------------------------------------------------------------
(* The schedule is changed.  An update of the row waits for its lock. *)

UnchangedByEdit == UNCHANGED <<clock, leaseVars, rowLock, tick, firings>>

\* set_schedule and update_agent, in one serializable transaction: the row was not
\* updated since it was read.
SetSchedule(e) ==
    LET starts == StartsSchedule(agent.enabled, agent.schedule, e)
        changes == ~agent.enabled \/ agent.schedule # e
    IN  /\ rowLock = Nobody
        /\ changes => start < MaxStarts
        /\ agent' = [enabled |-> TRUE, schedule |-> e, last |-> IF starts THEN clock ELSE agent.last]
        /\ start' = IF changes THEN start + 1 ELSE start
        /\ since' = IF changes THEN clock ELSE since
        /\ UnchangedByEdit

DisableSchedule ==
    /\ rowLock = Nobody
    /\ agent.enabled
    /\ agent' = [agent EXCEPT !.enabled = FALSE]
    /\ UnchangedByEdit /\ UNCHANGED <<start, since>>

-----------------------------------------------------------------------------
TickStep(t) ==
    \/ BeginTick(t) \/ BeginClaim(t) \/ LockAgent(t)
    \/ CommitClaim(t) \/ LoseAttempt(t) \/ DrainQueue(t)

Edit ==
    \/ \E e \in Expr : SetSchedule(e)
    \/ DisableSchedule

Next ==
    \/ TimePasses
    \/ \E p \in Process : LeaseTick(p) \/ Crash(p) \/ Restart(p)
    \/ \E t \in Tick : TickStep(t)
    \/ Edit

Spec == Init /\ [][Next]_vars

\* Timers fire in a process that is up, its queries are answered and time passes.  Where
\* processes lead again and again one of them ticks: a lease lasts three tick intervals.
\* Claims that get to their lock or their commit again and again are not all aborted.
Fairness ==
    /\ WF_vars(TimePasses)
    /\ \A p \in Process : WF_vars(LeaseTick(p))
    /\ WF_vars(\E t \in Tick : TickStep(t))
    /\ SF_vars(\E t \in Tick : BeginTick(t))
    /\ SF_vars(\E t \in Tick : LockAgent(t))
    /\ SF_vars(\E t \in Tick : CommitClaim(t))

FairSpec == Spec /\ Fairness

-----------------------------------------------------------------------------
(* Properties. *)

\* At-most-once firing, and windows that were missed are skipped: since the schedule
\* last started, each run created for it is for a later window than the one before,
\* whoever believes to be leader, whatever the clocks say, however often a claim is retried.
WindowsFireInOrder ==
    \A i, j \in DOMAIN firings :
        i < j /\ firings[i].start = firings[j].start => firings[i].window < firings[j].window

\* A claim commits only while the schedule is enabled, although nothing but the row
\* lock relates it to disable_schedule.
FiresWhileEnabled == [][firings' # firings => agent.enabled]_vars

\* A schedule first fires at its next window after it was set, changed or re-enabled,
\* never for one that passed while it was off.
FiresOnlyAfterStart ==
    [][firings' # firings => firings'[Len(firings')].window > since]_vars

\* An agent does not stay due: a window that passed is fired or superseded by a later one,
\* although processes die, lose the lease and overtake each other's clocks.
DueIsHandled == []<>~(agent.enabled /\ DueWindow(agent.schedule, agent.last, clock) # {})

\* Some leader drains the coding queue again and again.
DrainRecurs == []<>(\E t \in Tick : tick[t].pc = "draining")
=============================================================================
