----------------------------- MODULE WarmStart ------------------------------
(***************************************************************************)
(* What a gradient stage promises, whichever method it uses: a warm start  *)
(* is held until the next solve, which uses it instead of its seed and     *)
(* leaves a record that is no worse than where it started; a record        *)
(* describes a completed solve and does not outlive a new warm start.      *)
(***************************************************************************)
EXTENDS Objectives

CONSTANTS Problems

Rows == [Problems -> Actions]

VARIABLES
    goal,   \* what the rollout is asked for
    pend,   \* the warm start of the next solve
    best    \* the record of the last one

vars == <<goal, pend, best>>

Init == goal \in Goals /\ pend = NoAction /\ best = NoAction

UpdateGoal == goal' \in Goals /\ UNCHANGED <<pend, best>>

Reinitialize(action, mask) ==
    /\ pend' = Merge(pend, action, mask)
    /\ best' = NoAction
    /\ UNCHANGED goal

Forget ==
    /\ pend' = NoAction /\ best' = NoAction
    /\ UNCHANGED goal

Solve(seed) ==
    /\ best' \in Rows
    /\ Keeps(goal, best', Start(pend, seed))
    /\ pend' = NoAction
    /\ UNCHANGED goal

\* A solve that raises may have used the warm start up.
Abandon == pend' = NoAction /\ UNCHANGED <<goal, best>>

Next ==
    \/ UpdateGoal
    \/ \E action \in Rows, mask \in SUBSET Problems : Reinitialize(action, mask)
    \/ Forget
    \/ \E seed \in Rows : Solve(seed)
    \/ Abandon

Spec == Init /\ [][Next]_vars
=============================================================================
