---------------------------- MODULE MCBudgetGroup ----------------------------
(* Two native and two coding runs for a cap that two of them exhaust. *)
EXTENDS BudgetGroup

CONSTANTS n1, n2, c1, c2

MCRun == {n1, n2, c1, c2}
MCCoding == {c1, c2}
MCAsk == [r \in MCRun |-> IF r = n1 THEN 2 ELSE 1]
MCLimit == [r \in MCRun |-> IF r = c1 THEN 2 ELSE 1]
MCMortal == {n1}
MCEditable == {n1}

\* Of the order, only what comes before a native run that is not loaded yet is ever read again.
MCView ==
    <<status, budget, claim, cost, silent, lock, topUp, history,
      [r \in {s \in Run \ Coding : status[s] \in {"writing", "pending"}} |-> earlier[r]]>>
==============================================================================
