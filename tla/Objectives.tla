----------------------------- MODULE Objectives -----------------------------
(***************************************************************************)
(* What the optimizers of curobo/_src/optim compare: the cost of an action *)
(* per problem of a batch.  A batch of actions is a function from problems *)
(* to actions; problems are independent, as rows of a tensor are.          *)
(*                                                                         *)
(* Abstractions.  An action [H, D] is a member of a set, a rollout and its *)
(* goal a table of costs.  Costs that are not finite, nan and the          *)
(* infinities, are one value above all others: no comparison of the code   *)
(* takes any of them for an improvement.                                   *)
(***************************************************************************)
EXTENDS Naturals

CONSTANTS
    Actions,    \* what a problem may be given or be moved to
    Goals,      \* bound: the goals rollouts are given
    Infinite,   \* a cost that is not finite
    Cost,       \* the objective under a goal
    NoAction    \* no tensor of actions: None

ASSUME ObjectivesAssumption ==
    /\ Infinite \in Nat
    /\ Cost \in [Goals -> [Actions -> 0 .. Infinite]]

Finite(cost) == cost < Infinite

\* The cost per problem of a batch.
Costs(g, rows) == [p \in DOMAIN rows |-> Cost[g][rows[p]]]

\* No problem of the batch costs more under new than under old.
Keeps(g, new, old) == \A p \in DOMAIN old : Cost[g][new[p]] <= Cost[g][old[p]]

\* No problem loses a finite cost.
StaysFinite(g, new, old) ==
    \A p \in DOMAIN old : Finite(Cost[g][old[p]]) => Finite(Cost[g][new[p]])

\* What a solve starts from: the pending warm start, if there is one.
Start(pend, seed) == IF pend = NoAction THEN seed ELSE pend

\* Mutant: selected problems keep what was pending.
MergeSwapped(pend, action, mask) ==
    IF pend = NoAction \/ DOMAIN pend # DOMAIN action
    THEN action
    ELSE [p \in DOMAIN action |-> IF p \in mask THEN pend[p] ELSE action[p]]

\* reinitialize with a mask: selected problems are replaced, unless nothing of
\* the same shape is pending.
Merge(pend, action, mask) ==
    IF pend = NoAction \/ DOMAIN pend # DOMAIN action
    THEN action
    ELSE [p \in DOMAIN action |-> IF p \in mask THEN action[p] ELSE pend[p]]
=============================================================================
