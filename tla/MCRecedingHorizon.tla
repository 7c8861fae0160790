------------------------- MODULE MCRecedingHorizon -------------------------
(* Instance of RecedingHorizon for TLC: two robots, a window of two.         *)
EXTENDS RecedingHorizon, TLC

MCRobots == {1, 2}
=============================================================================
