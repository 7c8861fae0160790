----------------------------- MODULE MCRoadmap -----------------------------
(* Instance of RoadmapNodes for TLC.  On the line from left to right lie     *)
(* the middle, which is the obstacle of one world, and near, 3 away from it; *)
(* top is off the line.  Past the obstacle the way from left to right is by  *)
(* way of top.                                                               *)
EXTENDS RoadmapNodes, TLC

MCConfig == {"left", "top", "right", "middle", "near"}

MCPairDist ==
    ("left"   :> ("left" :> 0 @@ "top" :> 10 @@ "right" :> 14 @@ "middle" :> 7 @@ "near" :> 10)) @@
    ("top"    :> ("left" :> 10 @@ "top" :> 0 @@ "right" :> 10 @@ "middle" :> 7 @@ "near" :> 8)) @@
    ("right"  :> ("left" :> 14 @@ "top" :> 10 @@ "right" :> 0 @@ "middle" :> 7 @@ "near" :> 4)) @@
    ("middle" :> ("left" :> 7 @@ "top" :> 7 @@ "right" :> 7 @@ "middle" :> 0 @@ "near" :> 3)) @@
    ("near"   :> ("left" :> 10 @@ "top" :> 8 @@ "right" :> 4 @@ "middle" :> 3 @@ "near" :> 0))

MCDist == [p \in MCConfig \X MCConfig |-> MCPairDist[p[1]][p[2]]]

\* The points between two configurations, from the first to the second.
MCBetween(a, b) ==
    CASE a = "left" /\ b = "right" -> <<"middle", "near">>
      [] a = "right" /\ b = "left" -> <<"near", "middle">>
      [] {a, b} = {"left", "near"} -> <<"middle">>
      [] {a, b} = {"middle", "right"} -> <<"near">>
      [] OTHER -> <<>>

MCSteerLine == [p \in MCConfig \X MCConfig |->
    IF p[1] = p[2] THEN <<p[1]>> ELSE <<p[1]>> \o MCBetween(p[1], p[2]) \o <<p[2]>>]

MCEdge == [p \in MCConfig \X MCConfig |->
    {MCSteerLine[p][n] : n \in DOMAIN MCSteerLine[p]}]

MCWorlds  == {{}, {"middle"}}
\* Bound: samples and nodes are not both many.
MCFew == Len(samples) + Len(buffer) <= 3

MCQueries == {<<<<"left", "right">>, <<"near", "right">>>>, <<<<"middle", "top">>>>}
=============================================================================
