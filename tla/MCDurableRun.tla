----------------------------- MODULE MCDurableRun -----------------------------
(* Two processes of two versions, a turn with delegate calls. *)
EXTENDS DurableRun

CONSTANTS p1, p2, v1, v2

MCProc == {p1, p2}
MCVersion == {v1, v2}
MCSymmetry == Permutations(MCProc) \cup Permutations(MCVersion)

\* Once the load is recorded and no execution is in it, no step reads the catalog, and prices
\* are only passed on: what counts is whether they are the one the row records.
IsLoaded == wf[<<>>].done[Load] # "none" /\ \A p \in Proc : at[p].phase # "loading"
Seen(x) == IF ~IsLoaded THEN x ELSE IF x = price THEN 1 ELSE 0

History == <<Seen(price), IF IsLoaded THEN 0 ELSE catalog, Dispatched, {Seen(x) : x \in paidAt}, overlapped>>

\* While the run may still end: all but who owned a workflow that no process runs, and who waits
\* for the base workflow once the run is named otherwise.
OpenView ==
    <<status, named, stale, children, tries, version, rec, faults, stop,
      IF named = <<>> THEN starter ELSE Nobody,
      [p \in Proc |-> <<at[p].phase, at[p].wf, at[p].step, Seen(at[p].price), at[p].late>>],
      [w \in WorkflowId |-> <<wf[w].status, IF wf[w].status = "pending" THEN wf[w].owner ELSE Nobody,
                              wf[w].version, wf[w].done, Seen(wf[w].price)>>]>>

\* Once it ended no execution begins.  What one in the middle of it still does depends on itself,
\* on its workflow's records, on whether that is cancelled or about to be resumed, and on a death
\* only where another is in the middle of it, too.
InFlight ==
    {p \in Proc : /\ at[p].phase \in {"loading", "running"}
                  /\ \A s \in Step \ CallStep : at[p].step[s] \notin Thrown}

EndedView ==
    <<TakeoverEndsNothing,
      [p \in InFlight |->
          <<at[p].phase, [s \in Step |-> IF at[p].step[s] \in Thrown THEN "lost" ELSE at[p].step[s]],
            Seen(at[p].price), at[p].late, {q \in InFlight : at[q].wf = at[p].wf},
            Own(p).status = "cancelled", Own(p).done, Seen(Own(p).price),
            \E q \in Proc : rec[q] = [phase |-> "resuming", wf |-> at[p].wf]>>],
      {s \in CallStep : \E w \in WorkflowId : wf[w].done[s] = "refused"},
      IF Cardinality(InFlight) > 1 THEN faults ELSE 0,
      \A p \in Proc : ~IsExecuting(p) /\ At(p, "idle")>>

MCView == <<History, IF Drivable THEN OpenView ELSE EndedView>>
=============================================================================
