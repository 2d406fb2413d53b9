-------------------------- MODULE SelectedOutcome --------------------------
(***************************************************************************)
(* What every resumable job of the pipeline promises its callers: work is  *)
(* announced before it starts, one outcome is selected for each announced  *)
(* piece of work and is never replaced, and the job's result binds exactly *)
(* the selected outcomes.                                                  *)
(***************************************************************************)
CONSTANTS Phase, Outcome, Nothing

VARIABLES announced, selected, result

vars == <<announced, selected, result>>

Init ==
    /\ announced = {}
    /\ selected = [p \in Phase |-> Nothing]
    /\ result = Nothing

Announce(p) ==
    /\ result = Nothing
    /\ announced' = announced \cup {p}
    /\ UNCHANGED <<selected, result>>

Select(p) ==
    /\ p \in announced
    /\ selected[p] = Nothing
    /\ \E o \in Outcome : selected' = [selected EXCEPT ![p] = o]
    /\ UNCHANGED <<announced, result>>

Complete ==
    /\ result = Nothing
    /\ announced # {}
    /\ \A p \in announced : selected[p] # Nothing
    /\ result' = selected
    /\ UNCHANGED <<announced, selected>>

Next == Complete \/ \E p \in Phase : Announce(p) \/ Select(p)

Spec == Init /\ [][Next]_vars
=============================================================================
