--------------------------- MODULE MCSparseMapper ---------------------------
(* Instances of SparseMapper for TLC: more coordinates than pool slots, so *)
(* that the pool fills up, and a table in which their home slots collide.  *)
EXTENDS SparseMapper, TLC

MCCoord == {1, 2, 3}
MCHome  == [c \in MCCoord |-> IF c = 3 THEN 0 ELSE HashCapacity - 1]

MCCoord2 == {1, 2}
MCHome2  == [c \in MCCoord2 |-> 0]
=============================================================================
