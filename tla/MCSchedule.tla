------------------------------ MODULE MCSchedule ------------------------------
(* Two processes, one of which may die and whose clock is fast. *)
EXTENDS Schedule

CONSTANTS p1, p2, t1, t2, e1, e2

MCProcess == {p1, p2}
MCTick == {t1, t2}
MCOwner == [t \in MCTick |-> IF t = t2 THEN p2 ELSE p1]
MCMortal == {p2}
MCSkew == [x \in MCProcess |-> IF x = p2 THEN 2 ELSE 0]
MCExpr == {e1, e2}
MCWindows == [e \in MCExpr |-> IF e = e1 THEN {1, 3} ELSE {3}]
=============================================================================
