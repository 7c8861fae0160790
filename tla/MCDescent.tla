----------------------------- MODULE MCDescent ------------------------------
(* Instances of Descent for TLC: two problems on four actions of a line, the *)
(* last of them beyond the bounds.                                           *)
EXTENDS Descent, TLC

MCActions == 0 .. 3
MCClamp == [a \in MCActions |-> IF a = 3 THEN 2 ELSE a]
\* near: 1 is the best, 3 is no cost at all; far: the farther, the better.
MCCost == [near |-> <<1, 0, 2, 4>>, far |-> <<4, 3, 1, 0>>]
MCTable == [g \in {"near", "far"} |-> [a \in MCActions |-> MCCost[g][a + 1]]]

Setting(rule, iters, required, percent, minimum, fixed, returnBest) ==
    [rule |-> rule, iters |-> iters, required |-> required, percent |-> percent,
     minimum |-> minimum, fixed |-> fixed, tolerance |-> 1, returnBest |-> returnBest]

MCSettings ==
    {Setting("gradient_descent", 3, 2, 50, 0, FALSE, TRUE),
     Setting("gradient_descent", 2, 1, 100, 2, FALSE, FALSE),
     Setting("lbfgs", 3, 1, 100, 0, FALSE, FALSE),
     Setting("lbfgs", 3, 2, 50, 3, FALSE, TRUE),
     Setting("conjugate_gradient", 3, 2, 100, 0, FALSE, FALSE),
     Setting("conjugate_gradient", 2, 1, 50, 0, TRUE, TRUE)}
=============================================================================
