----------------------------- MODULE RunOutcome -----------------------------
(***************************************************************************)
(* What the service promises the readers of a run, told without threads,   *)
(* tokens or failures: a run waits, executes at most once, publishes its   *)
(* results in one piece at most once, and is over in the end.  Readers are *)
(* the result endpoints of api/routes_backtests.py, which look at nothing  *)
(* but committed rows.                                                     *)
(***************************************************************************)
EXTENDS Naturals

CONSTANTS Runs, Pieces     \* Pieces: the parts a complete set of results has

VARIABLES stage, published
vars == <<stage, published>>

Init == stage = [r \in Runs |-> "unborn"] /\ published = [r \in Runs |-> 0]

Move(r, from, to) == stage[r] \in from /\ stage' = [stage EXCEPT ![r] = to]

Submit(r) == Move(r, {"unborn"}, "waiting") /\ UNCHANGED published
Begin(r)  == Move(r, {"waiting"}, "executing") /\ UNCHANGED published
End(r)    == Move(r, {"waiting", "executing"}, "over") /\ UNCHANGED published

Publish(r) ==
    /\ stage[r] = "executing"
    /\ published[r] = 0
    /\ \E n \in 1..Pieces : published' = [published EXCEPT ![r] = n]
    /\ UNCHANGED stage

\* A restart of the server ends every run that was on its way.
EndAll ==
    /\ stage' = [r \in Runs |-> IF stage[r] \in {"waiting", "executing"} THEN "over" ELSE stage[r]]
    /\ UNCHANGED published

Next == EndAll \/ \E r \in Runs : Submit(r) \/ Begin(r) \/ Publish(r) \/ End(r)

Safety == Init /\ [][Next]_vars
Spec   == Safety /\ \A r \in Runs : WF_vars(End(r))
=============================================================================
