---------------------------- MODULE MCCodingRun ----------------------------
(* Two processes may run attempts; either may die. *)
EXTENDS CodingRun, TLC

CONSTANTS p1, p2

MCExecutor == {p1, p2}
MCFallible == {p1, p2}
MCSymmetry == Permutations(MCExecutor)

\* What an actor knows is dead before a step that loads it anew, and when no step is left
\* that reads it; the view leaves it out then.
KnowsNeeded(a) ==
    \E i \in DOMAIN script[a] :
        script[a][i] \notin {"load", "stop", "cancelPending", "recoverClaim", "recoverHandle",
                             "heartbeat", "sweep"}

MCView == <<runVars, job, pushed, script,
            [a \in Actor |-> IF KnowsNeeded(a) THEN knows[a] ELSE KnowsNothing]>>
=============================================================================
