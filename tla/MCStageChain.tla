---------------------------- MODULE MCStageChain ----------------------------
(* Instances of StageChain for TLC: three actions with opposite costs under   *)
(* two goals.                                                                 *)
EXTENDS StageChain, TLC

MCActions == 0 .. 2
MCTable == [near |-> [a \in MCActions |-> a], far |-> [a \in MCActions |-> 2 - a]]

Batch(n, a, b) == [p \in 1 .. n |-> IF p = 1 THEN a ELSE b]
MCGiven == {Batch(1, 2, 2), Batch(2, 2, 1), Batch(2, 0, 1)}

MCPipelines ==
    {<<"best", "best">>, <<"sampling", "best">>, <<"last", "best">>, <<"sampling", "last">>}
=============================================================================
