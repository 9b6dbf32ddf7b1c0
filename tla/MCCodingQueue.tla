---------------------------- MODULE MCCodingQueue ----------------------------
(* Three runs for two slots; one launch may be refused. *)
EXTENDS CodingQueue

MCRun == 1..3

MCRefusable == {2}

\* A run that ended and that no attempt can revive is never read again but for its status;
\* the view leaves the rest of it out.
IsOver(r) == status[r] = "ended" /\ call[r] = "idle"

MCView ==
    <<status, clock, late, overdue, call, slotLock, active, expired, {r \in revived : ~IsOver(r)},
      [r \in Run |-> IF IsOver(r) THEN <<>> ELSE <<held[r], startedAt[r], queuedAt[r]>>]>>
=============================================================================
