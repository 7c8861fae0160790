---------------------------- MODULE MCBlockPool -----------------------------
(* Instances of BlockPool for TLC.  Coordinates 1 and 2 share a home slot,  *)
(* the last one of the table, so probing wraps around and meets tombstones. *)
EXTENDS BlockPool, TLC

MCCoord == {1, 2, 3}
MCHome  == [c \in MCCoord |-> IF c = 3 THEN 0 ELSE HashCapacity - 1]
=============================================================================
