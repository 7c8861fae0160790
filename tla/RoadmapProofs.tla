---------------------------- MODULE RoadmapProofs ----------------------------
(***************************************************************************)
(* Proofs about Roadmap, and that RoadmapNodes, the node manager and the   *)
(* constructor included, implements it: what is proved of RoadmapSpec      *)
(* holds of the whole planner, for every space, world and capacity.  Then  *)
(* what the node manager and the constructor keep themselves: the buffer   *)
(* is de-duplicated and bounded, and registered edges are backed.          *)
(***************************************************************************)
EXTENDS RoadmapNodes, SequenceTheorems, FiniteSetTheorems, WellFoundedInduction, TLAPS

\* The queries of a batch that is being grown for have free terminals, and those
\* that are not pending are connected directly; the world has not changed since.
QueryOK ==
    ~Idle => \A i \in DOMAIN query.problems :
                LET p == query.problems[i]
                IN  /\ Free(p[1]) /\ Free(p[2])
                    /\ i \notin query.pending => Feasible(world, p[1], p[2])

RoadmapInv == PlannerTypeOK /\ GraphCurrent /\ QueryOK /\ PlanSound

-----------------------------------------------------------------------------
(* Operators                                                               *)

\* The assumptions on the constants, those on distances and edges apart.
LEMMA Parameters ==
    /\ MaxNodes \in Nat /\ MaxNodes >= 2
    /\ MaxNeighbors \in Nat /\ MaxNeighbors = MaxNodes + 1
    /\ Neighbors \in 1 .. MaxNeighbors
    /\ CallNeighbors \subseteq 1 .. MaxNeighbors
    /\ NewNodes \in Nat /\ Iterations \in Nat
    /\ GrowthFactor \in Nat \ {0}
    /\ Queries \subseteq Seq(Config \X Config)
    /\ Drawable \subseteq Config
  <1>1. /\ MaxNodes \in Nat \ {0, 1}
        /\ Neighbors \in 1 .. MaxNeighbors
        /\ CallNeighbors \subseteq 1 .. MaxNeighbors
        /\ NewNodes \in Nat /\ Iterations \in Nat
        /\ GrowthFactor \in Nat \ {0}
        /\ Queries \subseteq Seq(Config \X Config)
        /\ Drawable \subseteq Config
    BY RoadmapAssumption, Zenon DEF RoadmapAssumption
  <1>2. MaxNodes \in Nat /\ MaxNodes >= 2
    BY <1>1
  <1>3. MaxNeighbors = MaxNodes + 1
    BY DEF MaxNeighbors
  <1>. QED
    BY <1>1, <1>2, <1>3

LEMMA EdgesSymmetric == \A a, b \in Config : Edge[a, b] = Edge[b, a]
  BY RoadmapAssumption, Zenon DEF RoadmapAssumption

\* The sampler draws no more than it is asked for, and only configurations.
LEMMA DrawsType ==
    ASSUME NEW count \in Nat, NEW drawn \in Draws(count)
    PROVE  drawn \in Seq(Config) /\ Len(drawn) <= count
  <1>1. PICK n \in 0 .. count : drawn \in [1 .. n -> {c \in Drawable : Free(c)}]
    BY DEF Draws
  <1>2. drawn \in [1 .. n -> Config]
    BY <1>1, Parameters
  <1>. QED
    BY <1>1, <1>2

LEMMA ProductPositive ==
    ASSUME NEW a \in Nat \ {0}, NEW b \in Nat \ {0}
    PROVE  a * b \in Nat \ {0}
  OBVIOUS

LEMMA EmptyIsSeq == <<>> \in Seq(Config) /\ Len(<<>>) = 0
  OBVIOUS

\* An empty roadmap has an empty compatibility graph.
LEMMA EmptyCompatGraph ==
    ASSUME NEW k, NEW w
    PROVE  Join(CompatGraph(<<>>, k, w), Empty) = Empty
  BY DEF Join, CompatGraph, Empty, Connections, CandidatePairs

\* Registering more adds to the graph what was registered.
LEMMA JoinRegistered ==
    ASSUME NEW g, NEW r, NEW s, r.nodes \subseteq s.nodes, r.edges \subseteq s.edges
    PROVE  Join(Join(g, r), s) = Join(g, s)
  BY DEF Join

-----------------------------------------------------------------------------
(* The graph                                                               *)

LEMMA RefreshCurrent ==
    ASSUME Refresh, UNCHANGED <<samples, neighbors>>
    PROVE  GraphCurrent'
  <1>1. graph' = CompatGraph(samples, neighbors, world) /\ seen' = world /\ registered' = Empty
    BY DEF Refresh
  <1>2. Join(CompatGraph(samples, neighbors, world), Empty)
          = CompatGraph(samples, neighbors, world)
    BY DEF Join, CompatGraph, Empty
  <1>. QED
    BY <1>1, <1>2 DEF GraphCurrent

LEMMA EmptyRoadmapCurrent ==
    ASSUME EmptyRoadmap
    PROVE  GraphCurrent'
  BY EmptyCompatGraph DEF EmptyRoadmap, GraphCurrent

\* Whatever is added to the roadmap either changes nothing or makes the graph stale.
LEMMA AddSamplesCurrent ==
    ASSUME GraphCurrent, PlannerTypeOK, NEW drawn \in Seq(Config), NEW k \in Int,
           AddSamples(drawn, k), UNCHANGED finder
    PROVE  GraphCurrent'
  <1>1. CASE stale \/ k > neighbors \/ drawn # <<>>
    BY <1>1 DEF AddSamples, GraphCurrent
  <1>2. CASE ~stale /\ ~(k > neighbors) /\ drawn = <<>>
    <2>1. samples' = samples
      BY <1>2 DEF AddSamples, PlannerTypeOK
    <2>2. neighbors' = neighbors
      BY <1>2 DEF AddSamples, PlannerTypeOK, Larger
    <2>. QED
      BY <1>2, <2>1, <2>2 DEF GraphCurrent, AddSamples, finder
  <1>. QED
    BY <1>1, <1>2

LEMMA RegisterCurrent ==
    ASSUME GraphCurrent, Register
    PROVE  GraphCurrent'
  BY JoinRegistered DEF Register, GraphCurrent, roadmap

-----------------------------------------------------------------------------
(* Types                                                                   *)

LEMMA EmptyRoadmapTypes ==
    ASSUME PlannerTypeOK, EmptyRoadmap, UNCHANGED world
    PROVE  /\ world' \in Worlds /\ seen' \in Worlds \cup {Wiped}
           /\ samples' \in Seq(Config) /\ Len(samples') <= MaxNodes
           /\ neighbors' \in 1 .. MaxNeighbors
           /\ stale' \in BOOLEAN
  <1>1. samples' = <<>> /\ neighbors' = Neighbors /\ stale' = FALSE /\ seen' = world
    BY DEF EmptyRoadmap
  <1>2. samples' \in Seq(Config) /\ Len(samples') <= MaxNodes
    BY <1>1, EmptyIsSeq, Parameters
  <1>. QED
    BY <1>1, <1>2, Parameters DEF PlannerTypeOK

LEMMA AddSamplesTypes ==
    ASSUME PlannerTypeOK, NEW drawn \in Seq(Config), NEW k \in 1 .. MaxNeighbors,
           Len(samples) + Len(drawn) <= MaxNodes, AddSamples(drawn, k)
    PROVE  /\ samples' \in Seq(Config) /\ Len(samples') <= MaxNodes
           /\ neighbors' \in 1 .. MaxNeighbors
           /\ stale' \in BOOLEAN
  <1>1. samples' \in Seq(Config) /\ Len(samples') = Len(samples) + Len(drawn)
    BY DEF AddSamples, PlannerTypeOK
  <1>2. neighbors' \in 1 .. MaxNeighbors
    BY Parameters DEF AddSamples, PlannerTypeOK, Larger, MaxNeighbors
  <1>. QED
    BY <1>1, <1>2 DEF AddSamples, PlannerTypeOK

\* What one round of growth is given and leaves.
LEMMA GrowEffect ==
    ASSUME PlannerTypeOK, NEW drawn \in Draws(Requested), Grow(drawn)
    PROVE  /\ drawn \in Seq(Config) /\ Len(samples) + Len(drawn) <= MaxNodes
           /\ PlannerTypeOK'
           /\ \E policy \in 1 .. MaxNeighbors : AddSamples(drawn, policy)
           /\ query' = [query EXCEPT !.k = Larger(neighbors, query.policy),
                                     !.requested = @ * GrowthFactor,
                                     !.policy = Smaller(query.policy * GrowthFactor, MaxNeighbors),
                                     !.left = @ - 1]
           /\ Returns /\ UNCHANGED <<world, finder>>
  <1>1. /\ query \in [problems : Queries, pending : SUBSET Nat, k : 1 .. MaxNeighbors,
                      requested : Nat, policy : 1 .. MaxNeighbors, left : Nat]
        /\ ~Idle /\ ~Exhausted
    BY DEF Grow, PlannerTypeOK
  <1>2. Requested \in Nat /\ Requested <= MaxNodes - Len(samples)
    BY <1>1, Parameters DEF PlannerTypeOK, Requested, Smaller
  <1>3. drawn \in Seq(Config) /\ Len(drawn) <= Requested
    BY <1>2, DrawsType
  <1>4. Len(samples) + Len(drawn) <= MaxNodes
    BY <1>2, <1>3, Parameters DEF PlannerTypeOK
  <1>. DEFINE policy == Smaller(query.policy * GrowthFactor, MaxNeighbors)
  <1>5. query.policy * GrowthFactor \in Nat \ {0} /\ query.requested * GrowthFactor \in Nat
    BY <1>1, Parameters, ProductPositive
  <1>6. policy \in 1 .. MaxNeighbors
    BY <1>5, Parameters DEF Smaller, MaxNeighbors
  <1>7. /\ AddSamples(drawn, policy)
        /\ query' = [query EXCEPT !.k = Larger(neighbors, query.policy),
                                  !.requested = @ * GrowthFactor,
                                  !.policy = policy,
                                  !.left = @ - 1]
        /\ Returns /\ UNCHANGED <<world, finder>>
    BY <1>4 DEF Grow
  <1>8. Larger(neighbors, query.policy) \in 1 .. MaxNeighbors
    BY <1>1 DEF PlannerTypeOK, Larger
  <1>9. query.left - 1 \in Nat
    BY <1>1 DEF Exhausted
  <1>. HIDE DEF policy
  <1>10. query' \in [problems : Queries, pending : SUBSET Nat, k : 1 .. MaxNeighbors,
                     requested : Nat, policy : 1 .. MaxNeighbors, left : Nat]
    BY <1>1, <1>5, <1>6, <1>7, <1>8, <1>9
  <1>11. /\ samples' \in Seq(Config) /\ Len(samples') <= MaxNodes
         /\ neighbors' \in 1 .. MaxNeighbors
         /\ stale' \in BOOLEAN
    BY <1>3, <1>4, <1>6, <1>7, AddSamplesTypes
  <1>12. PlannerTypeOK'
    BY <1>7, <1>10, <1>11 DEF PlannerTypeOK, finder
  <1>. QED
    BY <1>3, <1>4, <1>6, <1>7, <1>12 DEF policy

-----------------------------------------------------------------------------
(* Plans                                                                   *)

LEMMA FeasibleSymmetric ==
    ASSUME NEW a \in Config, NEW b \in Config, NEW w, Feasible(w, a, b)
    PROVE  Feasible(w, b, a)
  BY EdgesSymmetric, Zenon DEF Feasible

\* The nodes of a query: its start, its goal, then the samples.
LEMMA QueryNodesType ==
    ASSUME NEW p \in Config \X Config, samples \in Seq(Config)
    PROVE  /\ QueryNodes(p) \in Seq(Config)
           /\ Len(QueryNodes(p)) = Len(samples) + 2
           /\ QueryNodes(p)[1] = p[1] /\ QueryNodes(p)[2] = p[2]
  <1>1. PICK a \in Config, b \in Config : p = <<a, b>>
    OBVIOUS
  <1>2. <<a, b>> \in Seq(Config) /\ Len(<<a, b>>) = 2
    OBVIOUS
  <1>3. QueryNodes(p) = <<a, b>> \o samples
    BY <1>1 DEF QueryNodes
  <1>. QED
    <2>1. /\ <<a, b>> \o samples \in Seq(Config)
          /\ Len(<<a, b>> \o samples) = 2 + Len(samples)
          /\ (<<a, b>> \o samples)[1] = a /\ (<<a, b>> \o samples)[2] = b
      BY <1>2
    <2>2. p[1] = a /\ p[2] = b
      BY <1>1
    <2>. QED
      BY <1>3, <2>1, <2>2

\* A route is a sequence of used nodes from the first node to the second.
LEMMA RouteShape ==
    ASSUME NEW p, NEW k, samples \in Seq(Config), NEW r \in Routes(p, k)
    PROVE  /\ r \in Seq(Used) /\ Len(r) >= 2 /\ DOMAIN r = 1 .. Len(r)
           /\ r[1] = 1 /\ r[Len(r)] = 2
           /\ \A n \in 1 .. Len(r) - 1 :
                <<Smaller(r[n], r[n + 1]), Larger(r[n], r[n + 1])>> \in QueryEdges(p, k)
  <1>0. /\ r \in Trails
        /\ \A n \in 1 .. Len(r) - 1 :
             <<Smaller(r[n], r[n + 1]), Larger(r[n], r[n + 1])>> \in QueryEdges(p, k)
    BY DEF Routes
  <1>1. PICK w \in InnerSeqs : r = <<1>> \o w \o <<2>>
    BY <1>0 DEF Trails
  <1>2. PICK m \in 0 .. Len(samples) : w \in [1 .. m -> Inner]
    BY DEF InnerSeqs
  <1>3. w \in Seq(Used)
    BY <1>2 DEF Used
  <1>4. r \in Seq(Used) /\ Len(r) = Len(w) + 2 /\ r[1] = 1 /\ r[Len(r)] = 2
    BY <1>1, <1>3 DEF Used
  <1>. QED
    BY <1>0, <1>4

\* Each edge of a query was found free, whichever way it is taken.
LEMMA RouteFree ==
    ASSUME NEW p \in Config \X Config, NEW k, samples \in Seq(Config),
           NEW r \in Routes(p, k), NEW n \in 1 .. Len(r) - 1
    PROVE  Feasible(world, QueryNodes(p)[r[n]], QueryNodes(p)[r[n + 1]])
  <1>. DEFINE nodes == QueryNodes(p)
  <1>1. /\ n \in 1 .. Len(r) /\ n + 1 \in 1 .. Len(r)
        /\ r[n] \in Used /\ r[n + 1] \in Used
        /\ <<Smaller(r[n], r[n + 1]), Larger(r[n], r[n + 1])>> \in QueryEdges(p, k)
    BY RouteShape
  <1>2. Used \subseteq 1 .. Len(nodes)
    BY QueryNodesType DEF Used, Inner
  <1>3. nodes[r[n]] \in Config /\ nodes[r[n + 1]] \in Config
    <2>1. nodes \in Seq(Config)
      BY QueryNodesType
    <2>2. r[n] \in 1 .. Len(nodes) /\ r[n + 1] \in 1 .. Len(nodes)
      BY <1>1, <1>2, Zenon
    <2>. HIDE DEF nodes
    <2>. QED
      BY <2>1, <2>2
  <1>4. Feasible(world, nodes[Smaller(r[n], r[n + 1])], nodes[Larger(r[n], r[n + 1])])
    BY <1>1 DEF QueryEdges, Connections
  <1>5. CASE r[n] < r[n + 1]
    BY <1>4, <1>5 DEF Smaller, Larger
  <1>6. CASE ~(r[n] < r[n + 1])
    <2>1. Feasible(world, nodes[r[n + 1]], nodes[r[n]])
      BY <1>4, <1>6 DEF Smaller, Larger
    <2>. QED
      BY <1>3, <2>1, FeasibleSymmetric
  <1>. QED
    BY <1>5, <1>6

\* A plan joins the terminals by free edges.
LEMMA PlanFree ==
    ASSUME NEW p \in Config \X Config, NEW k, samples \in Seq(Config),
           NEW plan \in Plans(p, k)
    PROVE  /\ Len(plan) >= 2 /\ Len(plan) \in Nat
           /\ plan[1] = p[1] /\ plan[Len(plan)] = p[2]
           /\ \A n \in 1 .. Len(plan) - 1 : Feasible(world, plan[n], plan[n + 1])
  <1>1. PICK r \in Routes(p, k) : plan = [n \in DOMAIN r |-> QueryNodes(p)[r[n]]]
    BY DEF Plans
  <1>2. Len(r) \in Nat /\ Len(r) >= 2 /\ DOMAIN r = 1 .. Len(r) /\ r[1] = 1 /\ r[Len(r)] = 2
    BY RouteShape
  <1>3. plan = [n \in 1 .. Len(r) |-> QueryNodes(p)[r[n]]]
    BY <1>1, <1>2
  <1>4. Len(plan) = Len(r)
    BY <1>2, <1>3
  <1>5. plan[1] = p[1] /\ plan[Len(plan)] = p[2]
    BY <1>2, <1>3, <1>4, QueryNodesType
  <1>6. ASSUME NEW n \in 1 .. Len(plan) - 1
        PROVE  Feasible(world, plan[n], plan[n + 1])
    <2>1. n \in 1 .. Len(r) - 1 /\ n \in 1 .. Len(r) /\ n + 1 \in 1 .. Len(r)
      BY <1>2, <1>4
    <2>2. plan[n] = QueryNodes(p)[r[n]] /\ plan[n + 1] = QueryNodes(p)[r[n + 1]]
      BY <1>3, <2>1
    <2>. QED
      BY <2>1, <2>2, RouteFree
  <1>. QED
    BY <1>2, <1>4, <1>5, <1>6

\* What find_path answers is sound in the world it answers in.
LEMMA FinishSound ==
    ASSUME PlannerTypeOK, QueryOK, Finish
    PROVE  PlanSound'
  <1>1. PICK plans \in [Solved(query) -> UNION {Plans(query.problems[i], query.k) :
                                                  i \in Solved(query)}],
             rejected \in SUBSET DOMAIN query.problems :
          /\ \A i \in DOMAIN plans : plans[i] \in Plans(query.problems[i], query.k)
          /\ answer' = [i \in DOMAIN query.problems |-> Outcome(i, plans, rejected)]
    BY DEF Finish
  <1>2. ~Idle /\ world' = world
    BY DEF Finish
  <1>3. query.problems \in Seq(Config \X Config)
    BY <1>2, Parameters DEF PlannerTypeOK
  <1>4. ASSUME NEW i \in DOMAIN query.problems, Outcome(i, plans, rejected).ok
        PROVE  LET row == Outcome(i, plans, rejected)
               IN  /\ Len(row.plan) >= 2
                   /\ row.plan[1] = row.start /\ row.plan[Len(row.plan)] = row.goal
                   /\ Free(row.start) /\ Free(row.goal)
                   /\ \/ Similar(row.start, row.goal)
                      \/ \A n \in 1 .. Len(row.plan) - 1 :
                           Feasible(world, row.plan[n], row.plan[n + 1])
    <2>. DEFINE p == query.problems[i]
                row == Outcome(i, plans, rejected)
    <2>1. p \in Config \X Config
      BY <1>3
    <2>2. /\ Free(p[1]) /\ Free(p[2])
          /\ i \notin query.pending => Feasible(world, p[1], p[2])
      BY <1>2 DEF QueryOK
    <2>3. row.start = p[1] /\ row.goal = p[2] /\ row.plan # <<>>
      BY <1>4 DEF Outcome
    <2>4. CASE i \notin query.pending \/ Similar(p[1], p[2])
      <3>1. row.plan = p
        BY <2>4 DEF Outcome
      <3>2. Len(p) = 2 /\ p = <<p[1], p[2]>>
        BY <2>1
      <3>3. \A n \in 1 .. Len(p) - 1 : n = 1
        BY <3>2
      <3>4. Similar(p[1], p[2]) \/ \A n \in 1 .. Len(p) - 1 : Feasible(world, p[n], p[n + 1])
        BY <2>2, <2>4, <3>3
      <3>. QED
        BY <2>2, <2>3, <3>1, <3>2, <3>4
    <2>5. CASE ~(i \notin query.pending \/ Similar(p[1], p[2]))
      <3>1. i \in DOMAIN plans /\ row.plan = plans[i]
        BY <2>3, <2>5 DEF Outcome
      <3>2. plans[i] \in Plans(p, query.k)
        BY <1>1, <3>1
      <3>3. samples \in Seq(Config)
        BY DEF PlannerTypeOK
      <3>4. /\ Len(plans[i]) >= 2
            /\ plans[i][1] = p[1] /\ plans[i][Len(plans[i])] = p[2]
            /\ \A n \in 1 .. Len(plans[i]) - 1 : Feasible(world, plans[i][n], plans[i][n + 1])
        BY <2>1, <3>2, <3>3, PlanFree
      <3>. HIDE DEF p
      <3>. QED
        BY <2>2, <2>3, <3>1, <3>4
    <2>. QED
      BY <2>4, <2>5
  <1>. QED
    BY <1>1, <1>2, <1>4 DEF PlanSound, Free, Feasible

-----------------------------------------------------------------------------
(* Steps                                                                   *)

LEMMA EmptyAnswer ==
    ASSUME answer' = <<>>
    PROVE  PlanSound'
  BY DEF PlanSound

LEMMA QueryUnchanged ==
    ASSUME QueryOK, UNCHANGED query, Idle \/ UNCHANGED world
    PROVE  QueryOK'
  BY DEF QueryOK, Idle, Free, Feasible

LEMMA RoadmapInitInv == RoadmapInit => RoadmapInv
  <1>. SUFFICES ASSUME RoadmapInit PROVE RoadmapInv
    OBVIOUS
  <1>1. PlannerTypeOK
    BY Parameters DEF RoadmapInit, PlannerTypeOK, Idle, MaxNeighbors
  <1>2. GraphCurrent /\ QueryOK /\ PlanSound
    BY DEF RoadmapInit, GraphCurrent, QueryOK, Idle, PlanSound
  <1>. QED
    BY <1>1, <1>2 DEF RoadmapInv

\* Steps that leave the samples, the policy and the query alone.
LEMMA ReadPreserves ==
    ASSUME RoadmapInv, ReadGraph \/ Register \/ Wipe \/ \E w \in Worlds : ChangeWorld(w)
    PROVE  RoadmapInv'
  <1>1. /\ Idle /\ UNCHANGED <<samples, neighbors, query>>
        /\ answer' = <<>>
    BY DEF ReadGraph, Register, Wipe, ChangeWorld, roadmap, Returns
  <1>2. QueryOK' /\ PlanSound'
    BY <1>1, QueryUnchanged, EmptyAnswer DEF RoadmapInv
  <1>3. world' \in Worlds /\ seen' \in Worlds \cup {Wiped} /\ stale' \in BOOLEAN
    BY DEF ReadGraph, Materialize, Refresh, Register, Wipe, ChangeWorld, roadmap, finder,
           RoadmapInv, PlannerTypeOK
  <1>4. PlannerTypeOK'
    BY <1>1, <1>3 DEF RoadmapInv, PlannerTypeOK, Idle
  <1>5. GraphCurrent'
    <2>1. CASE ReadGraph
      <3>1. CASE Refresh
        BY <1>1, <3>1, RefreshCurrent
      <3>2. CASE ~stale /\ UNCHANGED <<stale, finder>>
        BY <1>1, <3>2 DEF RoadmapInv, GraphCurrent, finder
      <3>. QED
        BY <2>1, <3>1, <3>2 DEF ReadGraph, Materialize
    <2>2. CASE Register
      BY <2>2, RegisterCurrent DEF RoadmapInv
    <2>3. CASE Wipe
      BY <2>3 DEF Wipe, GraphCurrent
    <2>4. CASE \E w \in Worlds : ChangeWorld(w)
      BY <2>4 DEF ChangeWorld, RoadmapInv, GraphCurrent, roadmap, finder
    <2>. QED
      BY <2>1, <2>2, <2>3, <2>4
  <1>. QED
    BY <1>2, <1>4, <1>5 DEF RoadmapInv

LEMMA ResetBufferPreserves ==
    ASSUME RoadmapInv, ResetBuffer
    PROVE  RoadmapInv'
  <1>1. EmptyRoadmap /\ Idle /\ UNCHANGED <<world, query>> /\ answer' = <<>>
    BY DEF ResetBuffer, Returns
  <1>2. PlannerTypeOK'
    BY <1>1, EmptyRoadmapTypes DEF RoadmapInv, PlannerTypeOK, Idle
  <1>. QED
    BY <1>1, <1>2, EmptyRoadmapCurrent, QueryUnchanged, EmptyAnswer DEF RoadmapInv

LEMMA ExtendPreserves ==
    ASSUME RoadmapInv, NEW drawn \in Draws(NewNodes), NEW k \in CallNeighbors,
           Extend(drawn, k) \/ ExtendOverflows(drawn, k)
    PROVE  RoadmapInv'
  <1>1. drawn \in Seq(Config) /\ <<>> \in Seq(Config)
    BY DrawsType, Parameters
  <1>2. k \in 1 .. MaxNeighbors /\ k \in Int
    BY Parameters DEF MaxNeighbors
  <1>3. Idle /\ UNCHANGED <<world, finder, query>> /\ answer' = <<>>
    BY DEF Extend, ExtendOverflows, Returns, Raises
  <1>4. PICK new \in Seq(Config) : AddSamples(new, k) /\ Len(samples) + Len(new) <= MaxNodes
    <2>1. CASE Extend(drawn, k)
      BY <1>1, <2>1 DEF Extend
    <2>2. CASE ExtendOverflows(drawn, k)
      <3>1. Len(samples) + Len(<<>>) <= MaxNodes
        BY EmptyIsSeq DEF RoadmapInv, PlannerTypeOK
      <3>. QED
        BY <1>1, <2>2, <3>1 DEF ExtendOverflows
    <2>. QED
      BY <2>1, <2>2
  <1>5. PlannerTypeOK'
    BY <1>2, <1>3, <1>4, AddSamplesTypes DEF RoadmapInv, PlannerTypeOK, finder, Idle
  <1>6. GraphCurrent'
    BY <1>2, <1>3, <1>4, AddSamplesCurrent DEF RoadmapInv
  <1>. QED
    BY <1>3, <1>5, <1>6, QueryUnchanged, EmptyAnswer DEF RoadmapInv

LEMMA FindPathPreserves ==
    ASSUME RoadmapInv, NEW problems \in Queries,
           FindPath(problems) \/ FindPathRejected(problems)
    PROVE  RoadmapInv'
  <1>1. UNCHANGED world /\ Idle
    BY DEF FindPath, FindPathRejected
  <1>2. EmptyRoadmap \/ UNCHANGED <<roadmap, finder>>
    BY DEF FindPath, FindPathRejected
  <1>3. /\ world' \in Worlds /\ seen' \in Worlds \cup {Wiped}
        /\ samples' \in Seq(Config) /\ Len(samples') <= MaxNodes
        /\ neighbors' \in 1 .. MaxNeighbors
        /\ stale' \in BOOLEAN
    BY <1>1, <1>2, EmptyRoadmapTypes DEF RoadmapInv, PlannerTypeOK, roadmap, finder
  <1>4. GraphCurrent'
    BY <1>2, EmptyRoadmapCurrent DEF RoadmapInv, GraphCurrent, roadmap, finder
  <1>5. CASE FindPath(problems)
    <2>1. /\ query'.problems = problems
          /\ query'.pending = {i \in DOMAIN problems :
                                 ~Feasible(world, problems[i][1], problems[i][2])}
          /\ \A i \in DOMAIN problems : Free(problems[i][1]) /\ Free(problems[i][2])
          /\ answer' = <<>>
      BY <1>5 DEF FindPath, Returns
    <2>2. DOMAIN problems \subseteq Nat
      BY Parameters
    <2>3. query' \in [problems : Queries, pending : SUBSET Nat, k : 1 .. MaxNeighbors,
                      requested : Nat, policy : 1 .. MaxNeighbors, left : Nat]
      BY <1>3, <1>5, <2>2, Parameters DEF FindPath
    <2>4. PlannerTypeOK'
      BY <1>3, <2>3 DEF PlannerTypeOK
    <2>5. QueryOK'
      BY <1>1, <2>1 DEF QueryOK, Free, Feasible
    <2>. QED
      BY <1>4, <2>1, <2>4, <2>5, EmptyAnswer DEF RoadmapInv
  <1>6. CASE FindPathRejected(problems)
    <2>1. UNCHANGED query /\ answer' = [i \in DOMAIN problems |-> Failure(problems[i])]
      BY <1>6 DEF FindPathRejected
    <2>2. PlannerTypeOK'
      BY <1>1, <1>3, <2>1 DEF PlannerTypeOK, Idle
    <2>3. PlanSound'
      BY <2>1 DEF PlanSound, Failure
    <2>. QED
      BY <1>1, <1>4, <2>1, <2>2, <2>3, QueryUnchanged DEF RoadmapInv
  <1>. QED
    BY <1>5, <1>6

LEMMA GrowPreserves ==
    ASSUME RoadmapInv, NEW drawn \in Draws(Requested), Grow(drawn)
    PROVE  RoadmapInv'
  <1>1. PlannerTypeOK
    BY DEF RoadmapInv
  <1>2. /\ drawn \in Seq(Config)
        /\ PlannerTypeOK'
        /\ \E policy \in 1 .. MaxNeighbors : AddSamples(drawn, policy)
        /\ query'.problems = query.problems /\ query'.pending = query.pending
        /\ answer' = <<>> /\ UNCHANGED <<world, finder>>
    BY <1>1, GrowEffect DEF Grow, PlannerTypeOK, Returns
  <1>3. GraphCurrent'
    BY <1>1, <1>2, AddSamplesCurrent DEF RoadmapInv
  <1>4. QueryOK'
    BY <1>2 DEF RoadmapInv, QueryOK, Grow, Free, Feasible
  <1>. QED
    BY <1>2, <1>3, <1>4, EmptyAnswer DEF RoadmapInv

LEMMA FinishPreserves ==
    ASSUME RoadmapInv, Finish
    PROVE  RoadmapInv'
  <1>1. query' = NoQuery /\ UNCHANGED <<world, roadmap, finder>>
    BY DEF Finish
  <1>2. PlannerTypeOK' /\ GraphCurrent' /\ QueryOK'
    BY <1>1 DEF RoadmapInv, PlannerTypeOK, GraphCurrent, QueryOK, Idle, roadmap, finder
  <1>. QED
    BY <1>2, FinishSound DEF RoadmapInv

LEMMA RoadmapStep == RoadmapInv /\ [RoadmapNext]_roadmapVars => RoadmapInv'
  <1>. SUFFICES ASSUME RoadmapInv, [RoadmapNext]_roadmapVars PROVE RoadmapInv'
    OBVIOUS
  <1>1. CASE ReadGraph \/ Register \/ Wipe \/ \E w \in Worlds : ChangeWorld(w)
    BY <1>1, ReadPreserves
  <1>2. CASE ResetBuffer
    BY <1>2, ResetBufferPreserves
  <1>3. CASE Finish
    BY <1>3, FinishPreserves
  <1>4. CASE \E drawn \in Draws(NewNodes), k \in CallNeighbors :
               Extend(drawn, k) \/ ExtendOverflows(drawn, k)
    BY <1>4, ExtendPreserves
  <1>5. CASE \E problems \in Queries : FindPath(problems) \/ FindPathRejected(problems)
    BY <1>5, FindPathPreserves
  <1>6. CASE \E drawn \in Draws(Requested) : Grow(drawn)
    BY <1>6, GrowPreserves
  <1>7. CASE UNCHANGED roadmapVars
    BY <1>7
    DEF roadmapVars, roadmap, finder, result, RoadmapInv, PlannerTypeOK, GraphCurrent,
        QueryOK, PlanSound, Idle, Free, Feasible
  <1>. QED
    BY <1>1, <1>2, <1>3, <1>4, <1>5, <1>6, <1>7 DEF RoadmapNext, PlannerNext

LEMMA RoadmapInvariant == RoadmapSpec => []RoadmapInv
  BY RoadmapInitInv, RoadmapStep, PTL DEF RoadmapSpec

-----------------------------------------------------------------------------
(* Theorems about the planner                                              *)

\* The roadmap never outgrows the node buffer, however it grows.
THEOREM RoadmapTypes == RoadmapSpec => []PlannerTypeOK
  <1>1. RoadmapInv => PlannerTypeOK
    BY DEF RoadmapInv
  <1>. QED
    BY <1>1, RoadmapInvariant, PTL

\* A graph that counts as current is that of the samples and the policy of now.
THEOREM GraphIsCurrent == RoadmapSpec => []GraphCurrent
  <1>1. RoadmapInv => GraphCurrent
    BY DEF RoadmapInv
  <1>. QED
    BY <1>1, RoadmapInvariant, PTL

\* Every plan that is called a success is free in the world of now.
THEOREM PlansAreSound == RoadmapSpec => []PlanSound
  <1>1. RoadmapInv => PlanSound
    BY DEF RoadmapInv
  <1>. QED
    BY <1>1, RoadmapInvariant, PTL

\* Samples are only ever appended, or dropped together with the graph.
THEOREM IndicesAreStable == RoadmapSpec => IndicesStable
  <1>. DEFINE Stable == \/ samples' = <<>> /\ graph' = Empty
                        \/ /\ Len(samples) <= Len(samples')
                           /\ \A i \in DOMAIN samples : samples'[i] = samples[i]
  <1>1. ASSUME RoadmapInv, NEW drawn \in Seq(Config), samples' = samples \o drawn
        PROVE  Stable
    BY <1>1 DEF RoadmapInv, PlannerTypeOK
  <1>2. ASSUME RoadmapInv, samples' = samples
        PROVE  Stable
    BY <1>2 DEF RoadmapInv, PlannerTypeOK
  <1>3. RoadmapInv /\ [RoadmapNext]_roadmapVars => [Stable]_roadmapVars
    <2>. SUFFICES ASSUME RoadmapInv, RoadmapNext PROVE Stable
      OBVIOUS
    <2>1. CASE ReadGraph \/ Register \/ Wipe \/ \E w \in Worlds : ChangeWorld(w)
      <3>1. samples' = samples
        BY <2>1 DEF ReadGraph, Register, Wipe, ChangeWorld, roadmap
      <3>. QED
        BY <1>2, <3>1
    <2>2. CASE ResetBuffer
      BY <2>2 DEF ResetBuffer, EmptyRoadmap
    <2>3. CASE Finish
      <3>1. samples' = samples
        BY <2>3 DEF Finish, roadmap
      <3>. QED
        BY <1>2, <3>1
    <2>4. CASE \E drawn \in Draws(NewNodes), k \in CallNeighbors :
                 Extend(drawn, k) \/ ExtendOverflows(drawn, k)
      <3>1. PICK drawn \in Draws(NewNodes), k \in CallNeighbors :
              Extend(drawn, k) \/ ExtendOverflows(drawn, k)
        BY <2>4
      <3>2. drawn \in Seq(Config) /\ <<>> \in Seq(Config)
        BY DrawsType, Parameters
      <3>3. samples' = samples \o drawn \/ samples' = samples \o <<>>
        BY <3>1 DEF Extend, ExtendOverflows, AddSamples
      <3>. QED
        BY <1>1, <3>2, <3>3
    <2>5. CASE \E problems \in Queries : FindPath(problems) \/ FindPathRejected(problems)
      <3>1. EmptyRoadmap \/ samples' = samples
        BY <2>5 DEF FindPath, FindPathRejected, roadmap
      <3>2. CASE EmptyRoadmap
        BY <3>2 DEF EmptyRoadmap
      <3>. QED
        BY <1>2, <3>1, <3>2
    <2>6. CASE \E drawn \in Draws(Requested) : Grow(drawn)
      <3>1. PICK drawn \in Draws(Requested) : Grow(drawn)
        BY <2>6
      <3>2. drawn \in Seq(Config) /\ \E policy \in 1 .. MaxNeighbors : AddSamples(drawn, policy)
        BY <3>1, GrowEffect DEF RoadmapInv
      <3>. QED
        BY <1>1, <3>2 DEF AddSamples
    <2>. QED
      BY <2>1, <2>2, <2>3, <2>4, <2>5, <2>6 DEF RoadmapNext, PlannerNext
  <1>. QED
    BY <1>3, RoadmapInvariant, PTL DEF RoadmapSpec, IndicesStable

\* A query that is being grown for never fails for want of room.
THEOREM QueriesNeverRaise == RoadmapSpec => QueryNeverRaises
  <1>1. RoadmapInv /\ [RoadmapNext]_roadmapVars => [~Idle => ~raised']_roadmapVars
    <2>. SUFFICES ASSUME RoadmapInv, RoadmapNext, ~Idle PROVE ~raised'
      OBVIOUS
    <2>1. CASE Finish
      BY <2>1 DEF Finish
    <2>2. CASE \E drawn \in Draws(Requested) : Grow(drawn)
      <3>1. Returns
        BY <2>2, GrowEffect DEF RoadmapInv
      <3>. QED
        BY <3>1 DEF Returns
    <2>. QED
      BY <2>1, <2>2
      DEF RoadmapNext, PlannerNext, ReadGraph, ResetBuffer, ChangeWorld, Extend,
          ExtendOverflows, FindPath, FindPathRejected, Register, Wipe
  <1>. QED
    BY <1>1, RoadmapInvariant, PTL DEF RoadmapSpec, QueryNeverRaises

-----------------------------------------------------------------------------
(* The planner with its node manager and constructor                       *)

\* What others registered is in the graph; more is not needed of the state.
LinkInv ==
    /\ world \in Worlds
    /\ registered.nodes \subseteq graph.nodes
    /\ registered.edges \subseteq graph.edges

\* A call leaves a record of the same shape, whose `raised' is a truth value.
IsWork(work) ==
    /\ work = [x \in DOMAIN work |-> work[x]]
    /\ "raised" \in DOMAIN work
    /\ work.raised \in BOOLEAN

LEMMA WorkIsWork == IsWork(Work)
  BY DEF IsWork, Work

LEMMA AddNodesIsWork ==
    ASSUME NEW work, NEW points, NEW tol, IsWork(work)
    PROVE  IsWork(AddNodes(work, points, tol))
  <1>1. IsWork([work EXCEPT !.raised = TRUE])
    BY DEF IsWork
  <1>2. ASSUME NEW b, NEW n, NEW r
        PROVE  IsWork([work EXCEPT !.buffer = b, !.nodes = n, !.rows = r])
    BY DEF IsWork
  <1>. QED
    BY <1>1, <1>2, Zenon DEF AddNodes

LEMMA SteerIsWork ==
    ASSUME NEW work, NEW pairs, IsWork(work)
    PROVE  IsWork(SteerAndRegister(work, pairs))
  <1>1. ASSUME NEW w, NEW e, IsWork(w)
        PROVE  IsWork([w EXCEPT !.edges = e])
    BY <1>1 DEF IsWork
  <1>2. \E points : \/ SteerAndRegister(work, pairs) = AddNodes(work, points, Similarity)
                    \/ \E e : SteerAndRegister(work, pairs)
                                = [AddNodes(work, points, Similarity) EXCEPT !.edges = e]
    BY Zenon DEF SteerAndRegister
  <1>. QED
    BY <1>1, <1>2, AddNodesIsWork

LEMMA ConnectIsWork ==
    ASSUME NEW work, NEW candidates, NEW k, IsWork(work)
    PROVE  IsWork(ConnectTo(work, candidates, k))
  <1>1. IsWork([work EXCEPT !.raised = TRUE])
    BY DEF IsWork
  <1>2. \/ ConnectTo(work, candidates, k) = work
        \/ ConnectTo(work, candidates, k) = [work EXCEPT !.raised = TRUE]
        \/ \E pairs : ConnectTo(work, candidates, k) = SteerAndRegister(work, pairs)
    BY Zenon DEF ConnectTo
  <1>. QED
    BY <1>1, <1>2, SteerIsWork

LEMMA WithDefaultIsWork == IsWork(WithDefault)
  BY WorkIsWork, AddNodesIsWork, Zenon DEF WithDefault

LEMMA ConnectedIsWork ==
    ASSUME NEW problems
    PROVE  IsWork(Connected(problems))
  <1>. DEFINE added == AddNodes(WithDefault, Terminals(problems), 0)
  <1>1. IsWork(added)
    BY WithDefaultIsWork, AddNodesIsWork, Zenon
  <1>2. IsWork([added EXCEPT !.raised = TRUE])
    BY <1>1 DEF IsWork
  <1>3. \E steered :
          /\ \/ steered = added
             \/ steered = [added EXCEPT !.raised = TRUE]
             \/ \E pairs : steered = SteerAndRegister(added, pairs)
          /\ \/ Connected(problems) = steered
             \/ Connected(problems) = ConnectTo(steered, Terminals(problems), Neighbors)
    BY Zenon DEF Connected
  <1>. QED
    BY <1>1, <1>2, <1>3, SteerIsWork, ConnectIsWork, Zenon

\* What a call commits is what Register allows.
LEMMA CommitRegisters ==
    ASSUME LinkInv, NEW work, IsWork(work), Commit(work), Idle,
           answer' = <<>>, UNCHANGED <<world, roadmap, query, seen>>
    PROVE  Register
  <1>1. registered.nodes \subseteq registered'.nodes /\ registered.edges \subseteq registered'.edges
    BY DEF Commit, Join
  <1>2. graph.nodes \cup work.nodes = graph.nodes \cup registered'.nodes
    BY DEF Commit, Join, LinkInv
  <1>3. graph.edges \cup work.edges = graph.edges \cup registered'.edges
    BY DEF Commit, Join, LinkInv
  <1>4. graph' = Join(graph, registered')
    BY <1>2, <1>3 DEF Commit, Join
  <1>. QED
    BY <1>1, <1>4 DEF Register, Commit, IsWork

LEMMA RefreshReads ==
    ASSUME Idle, Refresh, answer' = <<>>, raised' = FALSE,
           UNCHANGED <<world, samples, neighbors, query>>
    PROVE  ReadGraph
  BY DEF ReadGraph, Materialize, Returns

LEMMA PrunePathImplements ==
    ASSUME LinkInv, NEW path, PrunePath(path)
    PROVE  RoadmapNext
  <1>. DEFINE work == SteerAndRegister(Work, ShortcutPairs(path))
  <1>1. IsWork(work)
    BY WorkIsWork, SteerIsWork
  <1>2. /\ Idle /\ answer' = <<>> /\ UNCHANGED <<world, samples, neighbors, query>>
        /\ \/ Refresh /\ raised' = FALSE
           \/ Commit(work) /\ UNCHANGED <<stale, seen>>
    BY Zenon DEF PrunePath
  <1>3. CASE Refresh /\ raised' = FALSE
    BY <1>2, <1>3, RefreshReads DEF RoadmapNext, PlannerNext
  <1>4. CASE Commit(work) /\ UNCHANGED <<stale, seen>>
    <2>1. UNCHANGED roadmap
      BY <1>2, <1>4 DEF roadmap
    <2>. QED
      BY <1>1, <1>2, <1>4, <2>1, CommitRegisters DEF RoadmapNext
  <1>. QED
    BY <1>2, <1>3, <1>4

\* The constructor's reset is a step in which the world changes to itself.
LEMMA ResetConstructorImplements ==
    ASSUME LinkInv, ResetConstructor
    PROVE  RoadmapNext
  <1>1. world \in Worlds /\ ChangeWorld(world)
    BY DEF LinkInv, ResetConstructor, ChangeWorld
  <1>. QED
    BY <1>1 DEF RoadmapNext, PlannerNext

LEMMA NodesImplement == LinkInv /\ [Next]_vars => [RoadmapNext]_roadmapVars
  <1>. SUFFICES ASSUME LinkInv, [Next]_vars PROVE [RoadmapNext]_roadmapVars
    OBVIOUS
  <1>1. CASE PlannerNext /\ UNCHANGED nodeVars
    BY <1>1 DEF RoadmapNext
  <1>2. CASE \E problems \in Queries : InitTerminals(problems)
    <2>1. PICK problems \in Queries : InitTerminals(problems)
      BY <1>2
    <2>. QED
      BY <2>1, ConnectedIsWork, CommitRegisters DEF InitTerminals, RoadmapNext
  <1>3. CASE \E c \in Candidates, k \in CallNeighbors : ConnectNodes(<<c>>, k)
    <2>1. PICK c \in Candidates, k \in CallNeighbors : ConnectNodes(<<c>>, k)
      BY <1>3
    <2>2. IsWork(ConnectTo(Work, <<c>>, k))
      BY WorkIsWork, ConnectIsWork
    <2>. QED
      BY <2>1, <2>2, CommitRegisters DEF ConnectNodes, RoadmapNext
  <1>4. CASE \E c \in Candidates : AddInitialNodes(<<c>>)
    <2>1. PICK c \in Candidates : AddInitialNodes(<<c>>)
      BY <1>4
    <2>2. \E work : IsWork(work) /\ Commit(work)
      <3>1. IsWork([Work EXCEPT !.raised = TRUE])
        BY DEF IsWork, Work
      <3>2. IsWork(AddNodes(Work, <<c>>, 0))
        BY WorkIsWork, AddNodesIsWork
      <3>. QED
        BY <2>1, <3>1, <3>2, Zenon DEF AddInitialNodes
    <2>. QED
      BY <2>1, <2>2, CommitRegisters DEF AddInitialNodes, RoadmapNext
  <1>5. CASE \E i, j \in DOMAIN buffer : i # j /\ PrunePath(<<i, j>>)
    BY <1>5, PrunePathImplements
  <1>6. CASE ResetNodes
    BY <1>6 DEF ResetNodes, RoadmapNext
  <1>7. CASE ResetConstructor
    BY <1>7, ResetConstructorImplements
  <1>8. CASE UNCHANGED vars
    BY <1>8 DEF vars
  <1>. QED
    BY <1>1, <1>2, <1>3, <1>4, <1>5, <1>6, <1>7, <1>8 DEF Next

LEMMA LinkStep == LinkInv /\ [RoadmapNext]_roadmapVars => LinkInv'
  <1>. SUFFICES ASSUME LinkInv, [RoadmapNext]_roadmapVars PROVE LinkInv'
    OBVIOUS
  <1>1. CASE registered' = Empty /\ world' = world
    BY <1>1 DEF LinkInv, Empty
  <1>2. CASE UNCHANGED finder /\ world' \in Worlds
    BY <1>2 DEF LinkInv, finder
  <1>3. CASE Register
    BY <1>3 DEF LinkInv, Register, Join
  <1>4. CASE ReadGraph \/ Wipe \/ ResetBuffer
    BY <1>1, <1>2, <1>4
    DEF ReadGraph, Materialize, Refresh, Wipe, ResetBuffer, EmptyRoadmap, LinkInv, finder
  <1>5. CASE \E w \in Worlds : ChangeWorld(w)
    BY <1>2, <1>5 DEF ChangeWorld
  <1>6. CASE \E drawn \in Draws(NewNodes), k \in CallNeighbors :
               Extend(drawn, k) \/ ExtendOverflows(drawn, k)
    BY <1>2, <1>6 DEF Extend, ExtendOverflows, LinkInv
  <1>7. CASE \E problems \in Queries : FindPath(problems) \/ FindPathRejected(problems)
    <2>1. UNCHANGED world /\ (EmptyRoadmap \/ UNCHANGED finder)
      BY <1>7, Zenon DEF FindPath, FindPathRejected
    <2>. QED
      BY <1>1, <1>2, <2>1 DEF EmptyRoadmap, LinkInv
  <1>8. CASE (\E drawn \in Draws(Requested) : Grow(drawn)) \/ Finish
    BY <1>2, <1>8 DEF Grow, Finish, LinkInv
  <1>9. CASE UNCHANGED roadmapVars
    BY <1>2, <1>9 DEF roadmapVars, LinkInv
  <1>. QED
    BY <1>3, <1>4, <1>5, <1>6, <1>7, <1>8, <1>9 DEF RoadmapNext, PlannerNext

\* The node manager and the constructor do to the path finder only what Roadmap
\* allows others to do: the whole planner implements it (RoadmapSpec of run
\* graph), and what is proved above holds of it.
THEOREM NodesImplementRoadmap == Spec => RoadmapSpec
  <1>1. Init => RoadmapInit /\ LinkInv
    BY DEF Init, RoadmapInit, LinkInv, Empty
  <1>2. LinkInv /\ [Next]_vars => LinkInv'
    BY NodesImplement, LinkStep
  <1>. QED
    BY <1>1, <1>2, NodesImplement, PTL DEF Spec, RoadmapSpec

\* The planner, its node manager and its constructor together never serve an
\* old graph or call a blocked plan a success.
THEOREM PlannerIsSound == Spec => [](PlannerTypeOK /\ GraphCurrent /\ PlanSound)
  BY NodesImplementRoadmap, RoadmapTypes, GraphIsCurrent, PlansAreSound, PTL

\* Nor do they move a roadmap index, or fail a query for want of room.
THEOREM PlannerKeepsIndices == Spec => IndicesStable /\ QueryNeverRaises
  BY NodesImplementRoadmap, IndicesAreStable, QueriesNeverRaise

-----------------------------------------------------------------------------
(* Induction over sets of naturals, and positions in an order              *)

\* A set of naturals has a least element.
LEMMA LeastIsMember ==
    ASSUME NEW S \in SUBSET Nat, S # {}
    PROVE  Least(S) \in S /\ \A n \in S : Least(S) <= n
  <1>1. IsWellFoundedOn(OpToRel(<, Nat), Nat)
    BY NatLessThanWellFounded
  <1>2. PICK x \in S : \A y \in S : ~ (<<y, x>> \in OpToRel(<, Nat))
    BY <1>1, WFMin
  <1>3. ASSUME NEW y \in S PROVE x <= y
    <2>1. CASE y < x
      <3>1. <<y, x>> \in OpToRel(<, Nat)
        BY <2>1 DEF OpToRel
      <3>. QED
        BY <3>1, <1>2
    <2>. QED
      BY <2>1
  <1>. QED
    BY <1>3 DEF Least

\* A set with 0 and the successor of each of its naturals has all of them.
LEMMA SetInduction ==
    ASSUME NEW T, 0 \in T, \A n \in Nat : n \in T => n + 1 \in T
    PROVE  Nat \subseteq T
  <1>. SUFFICES ASSUME Nat \ T # {} PROVE FALSE
    OBVIOUS
  <1>1. Least(Nat \ T) \in Nat \ T /\ \A n \in Nat \ T : Least(Nat \ T) <= n
    BY LeastIsMember
  <1>2. PICK n \in Nat : n \notin T /\ \A m \in Nat \ T : n <= m
    BY <1>1
  <1>3. n - 1 \in Nat /\ n - 1 \in T
    BY <1>2
  <1>. QED
    BY <1>2, <1>3

\* A strict order on a finite set, `below[x]' being what comes before x: there
\* is one element at each position.
LEMMA Positions ==
    ASSUME NEW S, IsFiniteSet(S), NEW below \in [S -> SUBSET S],
           \A x \in S : x \notin below[x],
           \A x, y \in S : x = y \/ x \in below[y] \/ y \in below[x],
           \A x, y \in S : x \in below[y] => below[x] \subseteq below[y]
    PROVE  /\ Cardinality(S) \in Nat
           /\ \A x \in S : Cardinality(below[x]) \in 0 .. Cardinality(S) - 1
           /\ \A x, y \in S : Cardinality(below[x]) = Cardinality(below[y]) => x = y
           /\ \A k \in 0 .. Cardinality(S) - 1 : \E x \in S : Cardinality(below[x]) = k
  <1>. DEFINE N == Cardinality(S)
              rank == [x \in S |-> Cardinality(below[x])]
  <1>1. N \in Nat
    BY FS_CardinalityType
  <1>2. ASSUME NEW x \in S
        PROVE  /\ IsFiniteSet(below[x]) /\ Cardinality(below[x]) \in 0 .. N - 1
    <2>1. below[x] \in SUBSET (S \ {x})
      OBVIOUS
    <2>2. IsFiniteSet(S \ {x}) /\ Cardinality(S \ {x}) = N - 1
      BY FS_RemoveElement
    <2>3. IsFiniteSet(below[x]) /\ Cardinality(below[x]) <= N - 1
      BY <2>1, <2>2, FS_Subset
    <2>. QED
      BY <2>3, FS_CardinalityType, <1>1
  <1>3. ASSUME NEW x \in S, NEW y \in S, x \in below[y]
        PROVE  Cardinality(below[x]) < Cardinality(below[y])
    <2>1. below[x] \subseteq below[y] /\ below[x] # below[y]
      BY <1>3
    <2>2. /\ Cardinality(below[x]) <= Cardinality(below[y])
          /\ Cardinality(below[x]) # Cardinality(below[y])
      BY <1>2, <2>1, FS_Subset
    <2>. QED
      BY <1>2, <2>2
  <1>4. \A x, y \in S : Cardinality(below[x]) = Cardinality(below[y]) => x = y
    BY <1>2, <1>3
  <1>5. rank \in Injection(S, 0 .. N - 1)
    BY <1>2, <1>4 DEF Injection, IsInjective
  <1>6. IsFiniteSet(0 .. N - 1) /\ Cardinality(0 .. N - 1) = N
    BY <1>1, FS_Interval
  <1>7. rank \in Surjection(S, 0 .. N - 1)
    BY <1>5, <1>6, FS_Injection
  <1>8. \A k \in 0 .. N - 1 : \E x \in S : rank[x] = k
    BY <1>7 DEF Surjection
  <1>. QED
    BY <1>1, <1>2, <1>4, <1>8

-----------------------------------------------------------------------------
(* Distances, and rows in order                                            *)

\* The distance, as a term the arithmetic provers take.
Apart(a, b) == Dist[a, b]

\* Distances are naturals, the same both ways, and 0 from a point to itself alone.
LEMMA ApartNat ==
    ASSUME NEW a \in Config, NEW b \in Config
    PROVE  /\ Apart(a, b) \in Nat /\ Apart(a, b) = Apart(b, a)
           /\ Apart(a, b) = 0 => a = b
           /\ Apart(a, a) = 0
  <1>1. Dist \in [Config \X Config -> Nat]
    BY RoadmapAssumption, Zenon DEF RoadmapAssumption
  <1>2. \A x, y \in Config : Dist[x, y] = Dist[y, x] /\ (Dist[x, y] = 0 <=> x = y)
    BY RoadmapAssumption, Zenon DEF RoadmapAssumption
  <1>3. Dist[<<a, b>>] \in Nat
    BY <1>1
  <1>. QED
    BY <1>2, <1>3, Zenon DEF Apart

\* The straight way is the shortest.
LEMMA Triangle ==
    ASSUME NEW a \in Config, NEW b \in Config, NEW c \in Config
    PROVE  Apart(a, c) <= Apart(a, b) + Apart(b, c)
  BY NodesAssumption, Zenon DEF NodesAssumption, Apart

\* The element of a set of naturals that k others are less than.
Nth(S, k) == CHOOSE n \in S : Cardinality({m \in S : m < n}) = k - 1
UpTo(S, n) == Cardinality({m \in S : m <= n})

\* A set of naturals in ascending order: element n is at the position that
\* counts the elements up to n.
LEMMA NthElement ==
    ASSUME NEW S, \A n \in S : n \in Nat, IsFiniteSet(S)
    PROVE  /\ Cardinality(S) \in Nat
           /\ \A k \in 1 .. Cardinality(S) : Nth(S, k) \in S /\ UpTo(S, Nth(S, k)) = k
           /\ \A n \in S : UpTo(S, n) \in 1 .. Cardinality(S) /\ Nth(S, UpTo(S, n)) = n
  <1>. DEFINE below == [n \in S |-> {m \in S : m < n}]
              N == Cardinality(S)
  <1>1. /\ N \in Nat
        /\ \A n \in S : Cardinality(below[n]) \in 0 .. N - 1
        /\ \A m, n \in S : Cardinality(below[m]) = Cardinality(below[n]) => m = n
        /\ \A k \in 0 .. N - 1 : \E n \in S : Cardinality(below[n]) = k
    <2>1. below \in [S -> SUBSET S]
      OBVIOUS
    <2>2. \A x \in S : x \in Nat
      OBVIOUS
    <2>3. \A x \in S : x \notin below[x]
      BY <2>2
    <2>4. \A x, y \in S : x = y \/ x \in below[y] \/ y \in below[x]
      BY <2>2
    <2>5. ASSUME NEW x \in S, NEW y \in S, x \in below[y] PROVE below[x] \subseteq below[y]
      <3>1. ASSUME NEW z \in S, z < x PROVE z < y
        BY <2>2, <2>5, <3>1
      <3>. QED
        BY <3>1
    <2>. HIDE DEF below, N
    <2>6. /\ Cardinality(S) \in Nat
          /\ \A x \in S : Cardinality(below[x]) \in 0 .. Cardinality(S) - 1
          /\ \A x, y \in S : Cardinality(below[x]) = Cardinality(below[y]) => x = y
          /\ \A k \in 0 .. Cardinality(S) - 1 : \E x \in S : Cardinality(below[x]) = k
      BY <2>1, <2>3, <2>4, <2>5, Positions
    <2>. QED
      BY <2>6 DEF N
  <1>2. ASSUME NEW k \in 1 .. N
        PROVE  Nth(S, k) \in S /\ Cardinality(below[Nth(S, k)]) = k - 1
    <2>0. k - 1 \in 0 .. N - 1
      BY <1>1
    <2>1. PICK n \in S : Cardinality(below[n]) = k - 1
      <3>. HIDE DEF below, N
      <3>. QED
        BY <1>1, <2>0
    <2>2. \E x \in S : Cardinality({m \in S : m < x}) = k - 1
      BY <2>1
    <2>3. Nth(S, k) \in S /\ Cardinality({m \in S : m < Nth(S, k)}) = k - 1
      BY <2>2, Zenon DEF Nth
    <2>. QED
      BY <2>3
  <1>3. ASSUME NEW n \in S
        PROVE  UpTo(S, n) = Cardinality(below[n]) + 1
    <2>1. {m \in S : m <= n} = below[n] \cup {n} /\ n \notin below[n]
      <3>1. \A m \in S : m \in Nat
        OBVIOUS
      <3>2. \A m \in S : m <= n <=> m < n \/ m = n
        BY <3>1
      <3>3. below[n] = {m \in S : m < n}
        OBVIOUS
      <3>. HIDE DEF below
      <3>. QED
        BY <3>1, <3>2, <3>3
    <2>2. IsFiniteSet(below[n])
      BY FS_Subset
    <2>. QED
      BY <2>1, <2>2, FS_AddElement DEF UpTo
  <1>. HIDE DEF below
  <1>4. ASSUME NEW k \in 1 .. N
        PROVE  Nth(S, k) \in S /\ UpTo(S, Nth(S, k)) = k
    <2>1. Cardinality(below[Nth(S, k)]) = k - 1 /\ Nth(S, k) \in S
      BY <1>2
    <2>2. UpTo(S, Nth(S, k)) = Cardinality(below[Nth(S, k)]) + 1
      BY <1>3, <2>1
    <2>. QED
      BY <1>1, <2>1, <2>2
  <1>5. ASSUME NEW n \in S
        PROVE  UpTo(S, n) \in 1 .. N /\ Nth(S, UpTo(S, n)) = n
    <2>1. UpTo(S, n) = Cardinality(below[n]) + 1
      BY <1>3
    <2>2. UpTo(S, n) \in 1 .. N
      BY <1>1, <2>1
    <2>3. Nth(S, UpTo(S, n)) \in S /\ Cardinality(below[Nth(S, UpTo(S, n))]) = UpTo(S, n) - 1
      BY <1>2, <2>2
    <2>4. Cardinality(below[n]) \in Nat
      BY <1>1
    <2>5. Cardinality(below[Nth(S, UpTo(S, n))]) = Cardinality(below[n])
      BY <2>1, <2>3, <2>4
    <2>. QED
      BY <1>1, <2>2, <2>3, <2>5
  <1>. QED
    BY <1>1, <1>4, <1>5

\* Rows in the order of a key: there is one at each position.
LEMMA SortedRows ==
    ASSUME NEW N \in Nat, NEW key \in [1 .. N -> Nat], NEW k \in 1 .. N
    PROVE  \E r \in 1 .. N :
             Cardinality({s \in 1 .. N : key[s] < key[r] \/ (key[s] = key[r] /\ s < r)}) = k - 1
  <1>. DEFINE S == 1 .. N
              below == [r \in S |-> {s \in S : key[s] < key[r] \/ (key[s] = key[r] /\ s < r)}]
  <1>1. IsFiniteSet(S) /\ Cardinality(S) = N
    BY FS_Interval
  <1>2. below \in [S -> SUBSET S]
    OBVIOUS
  <1>3. /\ \A x \in S : x \notin below[x]
        /\ \A x, y \in S : x = y \/ x \in below[y] \/ y \in below[x]
    OBVIOUS
  <1>4. \A x, y \in S : x \in below[y] => below[x] \subseteq below[y]
    OBVIOUS
  <1>5. \E r \in S : Cardinality(below[r]) = k - 1
    <2>. HIDE DEF below
    <2>1. \A j \in 0 .. Cardinality(S) - 1 : \E r \in S : Cardinality(below[r]) = j
      <3>. HIDE DEF S
      <3>. QED
        BY <1>1, <1>2, <1>3, <1>4, Positions
    <2>. QED
      BY <1>1, <2>1
  <1>. QED
    BY <1>5

\* The rows of a buffer in the order of their distance.
LEMMA NearestRowsType ==
    ASSUME NEW buf \in Seq(Config), NEW c \in Config
    PROVE  NearestRows(buf, c) \in Seq(DOMAIN buf) /\ Len(NearestRows(buf, c)) = Len(buf)
  <1>. DEFINE N == Len(buf)
              S == DOMAIN buf
              key == [r \in 1 .. N |-> Apart(c, buf[r])]
              Before(r, s) == \/ Dist[c, buf[r]] < Dist[c, buf[s]]
                              \/ Dist[c, buf[r]] = Dist[c, buf[s]] /\ r < s
  <1>1. N \in Nat /\ S = 1 .. N /\ \A r \in S : buf[r] \in Config
    OBVIOUS
  <1>2. Cardinality(S) = N
    BY <1>1, FS_Interval
  <1>3. key \in [1 .. N -> Nat]
    BY <1>1, ApartNat
  <1>4. NearestRows(buf, c) =
          [k \in 1 .. Cardinality(S) |->
             CHOOSE r \in S : Cardinality({s \in S : Before(s, r)}) = k - 1]
    BY Zenon DEF NearestRows, Sorted
  <1>5. \A r, s \in S : Before(s, r) <=> key[s] < key[r] \/ (key[s] = key[r] /\ s < r)
    <2>1. \A r \in S : key[r] = Dist[c, buf[r]]
      BY <1>1, Zenon DEF Apart
    <2>. HIDE DEF key, S
    <2>. QED
      BY <2>1, Zenon
  <1>6. ASSUME NEW k \in 1 .. N
        PROVE  NearestRows(buf, c)[k] \in S
    <2>1. NearestRows(buf, c)[k] = CHOOSE r \in S : Cardinality({s \in S : Before(s, r)}) = k - 1
      BY <1>2, <1>4, Zenon
    <2>3. PICK r \in S :
            Cardinality({s \in S : key[s] < key[r] \/ (key[s] = key[r] /\ s < r)}) = k - 1
      <3>. HIDE DEF key
      <3>. QED
        BY <1>1, <1>3, SortedRows, Zenon
    <2>4. {s \in S : Before(s, r)} = {s \in S : key[s] < key[r] \/ (key[s] = key[r] /\ s < r)}
      <3>. HIDE DEF key, Before, S
      <3>. QED
        BY <1>5
    <2>. QED
      BY <2>1, <2>3, <2>4, Zenon
  <1>7. NearestRows(buf, c) \in [1 .. N -> S]
    <2>. HIDE DEF S, Before
    <2>. QED
      BY <1>2, <1>4, <1>6
  <1>. QED
    BY <1>1, <1>7

-----------------------------------------------------------------------------
(* De-duplication                                                          *)

\* What is kept after point n, given what was kept before.
KeepNext(points, tol, kept, n) ==
    IF \E m \in kept : Apart(points[m], points[n]) <= tol THEN kept ELSE kept \cup {n}

\* f[n] is what is kept of the first n points, for n up to N.
Keeps(f, points, tol, N) ==
    f = [n \in 0 .. N |-> IF n = 0 THEN {} ELSE KeepNext(points, tol, f[n - 1], n)]

\* The first points are kept one by one: the recursion of Kept has a solution.
LEMMA KeptExists ==
    ASSUME NEW points, NEW tol
    PROVE  \A N \in Nat : \E f : Keeps(f, points, tol, N)
  <1>. DEFINE T == {N \in Nat : \E f : Keeps(f, points, tol, N)}
  <1>1. 0 \in T
    <2>1. Keeps([n \in 0 .. 0 |-> {}], points, tol, 0)
      BY DEF Keeps
    <2>. QED
      BY <2>1
  <1>2. ASSUME NEW N \in Nat, N \in T PROVE N + 1 \in T
    <2>1. PICK f : Keeps(f, points, tol, N)
      BY <1>2
    <2>. DEFINE g == [n \in 0 .. N + 1 |->
                        IF n = N + 1 THEN KeepNext(points, tol, f[N], N + 1) ELSE f[n]]
    <2>2. \A n \in 0 .. N : g[n] = f[n]
      OBVIOUS
    <2>3. ASSUME NEW n \in 0 .. N + 1
          PROVE  g[n] = IF n = 0 THEN {} ELSE KeepNext(points, tol, g[n - 1], n)
      <3>1. CASE n = N + 1
        <4>1. n # 0 /\ n - 1 = N /\ g[N] = f[N]
          BY <3>1, <2>2
        <4>. QED
          BY <3>1, <4>1
      <3>2. CASE n \in 0 .. N
        <4>1. g[n] = f[n] /\ f[n] = IF n = 0 THEN {} ELSE KeepNext(points, tol, f[n - 1], n)
          BY <2>1, <2>2, <3>2 DEF Keeps
        <4>2. n # 0 => g[n - 1] = f[n - 1]
          BY <2>2, <3>2
        <4>. QED
          BY <4>1, <4>2
      <3>. QED
        BY <3>1, <3>2
    <2>4. g = [n \in 0 .. N + 1 |-> g[n]]
      OBVIOUS
    <2>. HIDE DEF g
    <2>5. Keeps(g, points, tol, N + 1)
      BY <2>3, <2>4 DEF Keeps
    <2>. QED
      BY <2>5
  <1>. HIDE DEF T
  <1>3. Nat \subseteq T
    BY <1>1, <1>2, SetInduction
  <1>. QED
    BY <1>3 DEF T

\* Every point is kept or has a kept one before it within the tolerance, and no
\* two kept points are within the tolerance of each other.
LEMMA KeptStands ==
    ASSUME NEW points \in Seq(Config), NEW tol \in Nat
    PROVE  /\ Kept(points, tol) \subseteq DOMAIN points
           /\ \A n \in DOMAIN points :
                n \notin Kept(points, tol) =>
                  \E m \in Kept(points, tol) : m < n /\ Apart(points[m], points[n]) <= tol
           /\ \A m, n \in Kept(points, tol) : m < n => Apart(points[m], points[n]) > tol
  <1>. DEFINE N == Len(points)
              kept == CHOOSE f : f =
                [n \in 0 .. N |->
                   IF n = 0 THEN {}
                   ELSE IF \E m \in f[n - 1] : Dist[points[m], points[n]] <= tol
                        THEN f[n - 1]
                        ELSE f[n - 1] \cup {n}]
              OK(K, n) == /\ K \subseteq 1 .. n
                          /\ \A i \in 1 .. n : i \notin K =>
                               \E m \in K : m < i /\ Apart(points[m], points[i]) <= tol
                          /\ \A m, i \in K : m < i => Apart(points[m], points[i]) > tol
              T == {n \in Nat : n <= N => OK(kept[n], n)}
  <1>1. N \in Nat /\ DOMAIN points = 1 .. N /\ \A n \in 1 .. N : points[n] \in Config
    OBVIOUS
  <1>2. Kept(points, tol) = kept[N]
    BY Zenon DEF Kept
  <1>3. kept = [n \in 0 .. N |-> IF n = 0 THEN {} ELSE KeepNext(points, tol, kept[n - 1], n)]
    <2>1. \E f : Keeps(f, points, tol, N)
      BY <1>1, KeptExists
    <2>2. \E f : f = [n \in 0 .. N |->
                   IF n = 0 THEN {}
                   ELSE IF \E m \in f[n - 1] : Dist[points[m], points[n]] <= tol
                        THEN f[n - 1]
                        ELSE f[n - 1] \cup {n}]
      <3>1. PICK f : Keeps(f, points, tol, N)
        BY <2>1
      <3>2. f = [n \in 0 .. N |->
                   IF n = 0 THEN {}
                   ELSE IF \E m \in f[n - 1] : Dist[points[m], points[n]] <= tol
                        THEN f[n - 1]
                        ELSE f[n - 1] \cup {n}]
        BY <3>1, Zenon DEF Keeps, KeepNext, Apart
      <3>. QED
        BY <3>2, Zenon
    <2>3. kept = [n \in 0 .. N |->
                   IF n = 0 THEN {}
                   ELSE IF \E m \in kept[n - 1] : Dist[points[m], points[n]] <= tol
                        THEN kept[n - 1]
                        ELSE kept[n - 1] \cup {n}]
      BY <2>2, Zenon
    <2>. HIDE DEF kept
    <2>. QED
      BY <2>3, Zenon DEF KeepNext, Apart
  <1>. HIDE DEF kept, N
  <1>8. \A n \in 0 .. N :
          kept[n] = IF n = 0 THEN {} ELSE KeepNext(points, tol, kept[n - 1], n)
    BY <1>3, Zenon
  <1>4. 0 \in T
    <2>1. kept[0] = {}
      BY <1>1, <1>3
    <2>2. OK(kept[0], 0)
      BY <2>1
    <2>. QED
      BY <2>2
  <1>5. ASSUME NEW n \in Nat, n \in T PROVE n + 1 \in T
    <2>. SUFFICES ASSUME n + 1 <= N PROVE OK(kept[n + 1], n + 1)
      OBVIOUS
    <2>1. OK(kept[n], n)
      BY <1>1, <1>5
    <2>2. kept[n + 1] = KeepNext(points, tol, kept[n], n + 1)
      <3>1. n + 1 \in 0 .. N /\ n + 1 # 0 /\ (n + 1) - 1 = n
        BY <1>1
      <3>. QED
        BY <1>8, <3>1
    <2>. HIDE DEF T
    <2>3. \A i, m \in 1 .. N : Apart(points[m], points[i]) \in Nat
      BY <1>1, ApartNat
    <2>4. CASE \E m \in kept[n] : Apart(points[m], points[n + 1]) <= tol
      <3>1. kept[n + 1] = kept[n]
        BY <2>2, <2>4 DEF KeepNext
      <3>2. \A m \in kept[n] : m < n + 1
        BY <2>1
      <3>. QED
        BY <2>1, <2>4, <3>1, <3>2
    <2>5. CASE ~ \E m \in kept[n] : Apart(points[m], points[n + 1]) <= tol
      <3>1. kept[n + 1] = kept[n] \cup {n + 1}
        BY <2>2, <2>5, Zenon DEF KeepNext
      <3>2. ASSUME NEW m \in kept[n + 1], NEW i \in kept[n + 1], m < i
            PROVE  Apart(points[m], points[i]) > tol
        <4>1. m \in kept[n] /\ (i \in kept[n] \/ i = n + 1)
          BY <2>1, <3>1, <3>2
        <4>2. Apart(points[m], points[i]) \in Nat
          <5>1. m \in 1 .. n /\ n + 1 \in 1 .. N /\ (i \in 1 .. n \/ i = n + 1)
            BY <1>1, <2>1, <4>1
          <5>2. m \in 1 .. N /\ i \in 1 .. N
            BY <1>1, <5>1
          <5>. QED
            BY <2>3, <5>2
        <4>. QED
          BY <2>1, <2>5, <3>2, <4>1, <4>2
      <3>3. kept[n + 1] \subseteq 1 .. n + 1
        BY <2>1, <3>1
      <3>4. \A i \in 1 .. n + 1 : i \notin kept[n + 1] =>
              \E m \in kept[n + 1] : m < i /\ Apart(points[m], points[i]) <= tol
        BY <2>1, <3>1
      <3>. QED
        BY <3>2, <3>3, <3>4
    <2>. QED
      BY <2>4, <2>5
  <1>6. N \in T
    <2>. HIDE DEF T
    <2>1. Nat \subseteq T
      BY <1>4, <1>5, SetInduction
    <2>. QED
      BY <1>1, <2>1
  <1>7. OK(kept[N], N)
    BY <1>1, <1>6
  <1>. QED
    BY <1>1, <1>2, <1>7

\* Buffer b is buffer a with rows appended.
Extends(a, b) == Len(a) <= Len(b) /\ \A r \in 1 .. Len(a) : b[r] = a[r]

\* No configuration has two rows, and the rows fit the preallocated buffer.
Distinct(rows) == \A i, j \in DOMAIN rows : rows[i] = rows[j] => i = j
Fits(rows) == rows \in Seq(Config) /\ Len(rows) <= MaxNodes /\ Distinct(rows)

\* The parts of AddNodes: the points that get a row, the rows with theirs, the
\* point that stands for another and the row a point resolves to.
Missing(rows, points, tol) ==
    {n \in Kept(points, tol) : \A r \in DOMAIN rows : Apart(points[n], rows[r]) > tol}

Ascending(S) == [k \in 1 .. Cardinality(S) |-> Nth(S, k)]

Added(rows, points, S) ==
    rows \o [n \in DOMAIN Ascending(S) |-> points[Ascending(S)[n]]]

StandsFor(points, tol, n) ==
    IF n \in Kept(points, tol) THEN n
    ELSE Least({m \in Kept(points, tol) : m < n /\ Apart(points[m], points[n]) <= tol})

RowOf(rows, points, S, n) ==
    IF n \in S THEN Len(rows) + UpTo(S, n) ELSE ClosestRow(rows, points[n])

Resolved(rows, points, tol) ==
    [n \in DOMAIN points |->
        RowOf(rows, points, Missing(rows, points, tol), StandsFor(points, tol, n))]

\* AddNodes, from its parts.
LEMMA AddNodesIs ==
    ASSUME NEW work, NEW points, NEW tol
    PROVE  AddNodes(work, points, tol) =
             LET rows == work.buffer
                 S == Missing(rows, points, tol)
             IN  IF work.raised THEN work
                 ELSE IF NoRoom(rows, Len(Ascending(S))) THEN [work EXCEPT !.raised = TRUE]
                 ELSE [work EXCEPT
                         !.buffer = Added(rows, points, S),
                         !.nodes = @ \cup {Resolved(rows, points, tol)[n] : n \in DOMAIN points},
                         !.rows = Resolved(rows, points, tol)]
  BY Zenon DEF AddNodes, NewRow, Missing, Ascending, Sorted, Nth, Added, StandsFor, RowOf,
               Resolved, UpTo, Apart

\* The closest row exists, and no other is closer.
LEMMA ClosestRowIs ==
    ASSUME NEW rows \in Seq(Config), rows # <<>>, NEW c \in Config
    PROVE  /\ ClosestRow(rows, c) \in DOMAIN rows
           /\ \A s \in DOMAIN rows : Apart(c, rows[ClosestRow(rows, c)]) <= Apart(c, rows[s])
  <1>. DEFINE D == DOMAIN rows
              distances == {Apart(c, rows[r]) : r \in D}
              d == Least(distances)
              nearest == {r \in D : Apart(c, rows[r]) = d}
              Closest(r) == \A s \in D : \/ Apart(c, rows[r]) < Apart(c, rows[s])
                                         \/ Apart(c, rows[r]) = Apart(c, rows[s]) /\ r <= s
  <1>1. D \in SUBSET Nat /\ D # {} /\ \A r \in D : Apart(c, rows[r]) \in Nat
    BY ApartNat
  <1>2. d \in distances /\ \A r \in D : d <= Apart(c, rows[r])
    <2>1. distances \in SUBSET Nat /\ distances # {}
      BY <1>1
    <2>. HIDE DEF distances
    <2>2. d \in distances /\ \A e \in distances : d <= e
      BY <2>1, LeastIsMember
    <2>. QED
      BY <2>2 DEF distances
  <1>3. Least(nearest) \in nearest /\ \A s \in nearest : Least(nearest) <= s
    <2>1. nearest \in SUBSET Nat /\ nearest # {}
      BY <1>1, <1>2
    <2>. QED
      BY <2>1, LeastIsMember
  <1>4. \E r \in D : Closest(r)
    <2>1. PICK r \in D : Apart(c, rows[r]) = d /\ \A s \in nearest : r <= s
      BY <1>3
    <2>. HIDE DEF d
    <2>2. ASSUME NEW s \in D
          PROVE  \/ Apart(c, rows[r]) < Apart(c, rows[s])
                 \/ Apart(c, rows[r]) = Apart(c, rows[s]) /\ r <= s
      <3>1. Apart(c, rows[r]) \in Nat /\ Apart(c, rows[s]) \in Nat /\ d <= Apart(c, rows[s])
        BY <1>1, <1>2, <2>1
      <3>2. Apart(c, rows[s]) = d => r <= s
        BY <2>1
      <3>. QED
        BY <2>1, <3>1, <3>2
    <2>. QED
      BY <2>2
  <1>5. ClosestRow(rows, c) = CHOOSE r \in D : Closest(r)
    BY Zenon DEF ClosestRow, Apart
  <1>. HIDE DEF d, D
  <1>6. ClosestRow(rows, c) \in D /\ Closest(ClosestRow(rows, c))
    BY <1>4, <1>5, Zenon
  <1>7. ASSUME NEW s \in D
        PROVE  Apart(c, rows[ClosestRow(rows, c)]) <= Apart(c, rows[s])
    <2>1. Apart(c, rows[ClosestRow(rows, c)]) \in Nat /\ Apart(c, rows[s]) \in Nat
      BY <1>1, <1>6
    <2>2. \/ Apart(c, rows[ClosestRow(rows, c)]) < Apart(c, rows[s])
          \/ Apart(c, rows[ClosestRow(rows, c)]) = Apart(c, rows[s])
      BY <1>6, Zenon
    <2>. QED
      BY <2>1, <2>2
  <1>. QED
    BY <1>6, <1>7 DEF D

\* The points that get a row, in order: each has one place.
LEMMA MissingFacts ==
    ASSUME NEW rows \in Seq(Config), NEW points \in Seq(Config), NEW tol \in Nat
    PROVE  LET S == Missing(rows, points, tol)
           IN  /\ S \subseteq Kept(points, tol) /\ S \subseteq DOMAIN points
               /\ \A n \in S : n \in Nat
               /\ IsFiniteSet(S) /\ Cardinality(S) \in Nat
               /\ Ascending(S) \in [1 .. Cardinality(S) -> S]
               /\ Len(Ascending(S)) = Cardinality(S)
               /\ \A n \in S : UpTo(S, n) \in 1 .. Cardinality(S) /\ Ascending(S)[UpTo(S, n)] = n
               /\ \A i \in 1 .. Cardinality(S) : UpTo(S, Ascending(S)[i]) = i
  <1>. DEFINE S == Missing(rows, points, tol)
  <1>1. S \subseteq Kept(points, tol) /\ S \subseteq DOMAIN points
    BY KeptStands DEF Missing
  <1>2. \A n \in S : n \in Nat
    BY <1>1
  <1>3. IsFiniteSet(S)
    BY <1>1, FS_Interval, FS_Subset
  <1>. HIDE DEF S
  <1>4. /\ Cardinality(S) \in Nat
        /\ \A k \in 1 .. Cardinality(S) : Nth(S, k) \in S /\ UpTo(S, Nth(S, k)) = k
        /\ \A n \in S : UpTo(S, n) \in 1 .. Cardinality(S) /\ Nth(S, UpTo(S, n)) = n
    BY <1>2, <1>3, NthElement
  <1>5. /\ Ascending(S) \in [1 .. Cardinality(S) -> S]
        /\ \A k \in 1 .. Cardinality(S) : Ascending(S)[k] = Nth(S, k)
    BY <1>4 DEF Ascending
  <1>6. Len(Ascending(S)) = Cardinality(S)
    BY <1>4, <1>5
  <1>7. QED
    BY <1>1, <1>2, <1>3, <1>4, <1>5, <1>6 DEF S

\* The rows that are added fit, are appended, and hold the points in order.
LEMMA AddedFits ==
    ASSUME NEW rows, Fits(rows), NEW points \in Seq(Config), NEW tol \in Nat,
           ~NoRoom(rows, Len(Ascending(Missing(rows, points, tol))))
    PROVE  LET S == Missing(rows, points, tol)
               new == Added(rows, points, S)
           IN  /\ Fits(new) /\ Extends(rows, new)
               /\ \A n \in S : /\ Len(rows) + UpTo(S, n) \in DOMAIN new
                               /\ new[Len(rows) + UpTo(S, n)] = points[n]
  <1>. DEFINE S == Missing(rows, points, tol)
              more == [n \in DOMAIN Ascending(S) |-> points[Ascending(S)[n]]]
              new == Added(rows, points, S)
              C == Cardinality(S)
  <1>1. rows \in Seq(Config) /\ Len(rows) \in Nat /\ Len(rows) <= MaxNodes /\ Distinct(rows)
    BY DEF Fits
  <1>2. /\ S \subseteq Kept(points, tol) /\ S \subseteq DOMAIN points
        /\ \A n \in S : n \in Nat
        /\ C \in Nat
        /\ Ascending(S) \in [1 .. C -> S]
        /\ Len(Ascending(S)) = C
        /\ \A n \in S : UpTo(S, n) \in 1 .. C /\ Ascending(S)[UpTo(S, n)] = n
        /\ \A i \in 1 .. C : UpTo(S, Ascending(S)[i]) = i
    BY <1>1, MissingFacts, Zenon
  <1>3. \A n \in S : points[n] \in Config
    BY <1>2
  <1>4. ASSUME NEW m \in S, NEW n \in S, points[m] = points[n] PROVE m = n
    <2>1. /\ m < n => Apart(points[m], points[n]) > tol
          /\ n < m => Apart(points[n], points[m]) > tol
      BY <1>2, KeptStands
    <2>2. Apart(points[m], points[n]) = 0 /\ Apart(points[n], points[m]) = 0
      BY <1>3, <1>4, ApartNat
    <2>3. m \in Nat /\ n \in Nat
      BY <1>2
    <2>. QED
      BY <2>1, <2>2, <2>3
  <1>5. ASSUME NEW n \in S, NEW r \in DOMAIN rows PROVE points[n] # rows[r]
    <2>1. Apart(points[n], rows[r]) > tol
      BY Zenon DEF Missing
    <2>2. points[n] \in Config /\ Apart(points[n], points[n]) = 0
      BY <1>3, ApartNat
    <2>. QED
      BY <2>1, <2>2
  <1>. HIDE DEF S, C
  <1>6. more \in [1 .. C -> Config] /\ \A i \in 1 .. C : more[i] = points[Ascending(S)[i]]
    BY <1>2, <1>3
  <1>7. more \in Seq(Config) /\ Len(more) = C
    BY <1>2, <1>6
  <1>8. new = rows \o more
    BY DEF Added
  <1>. HIDE DEF more, new
  <1>9. /\ new \in Seq(Config) /\ Len(new) = Len(rows) + C
        /\ \A r \in 1 .. Len(rows) : new[r] = rows[r]
        /\ \A i \in 1 .. C : new[Len(rows) + i] = more[i]
    <2>1. /\ new \in Seq(Config) /\ Len(new) = Len(rows) + C
          /\ \A i \in 1 .. Len(rows) + C :
               new[i] = IF i <= Len(rows) THEN rows[i] ELSE more[i - Len(rows)]
      BY <1>1, <1>7, <1>8, ConcatProperties
    <2>2. \A r \in 1 .. Len(rows) : new[r] = rows[r]
      BY <1>1, <1>2, <2>1
    <2>3. ASSUME NEW i \in 1 .. C PROVE new[Len(rows) + i] = more[i]
      <3>1. Len(rows) + i \in 1 .. Len(rows) + C /\ ~(Len(rows) + i <= Len(rows))
            /\ (Len(rows) + i) - Len(rows) = i
        BY <1>1, <1>2
      <3>. QED
        BY <2>1, <3>1
    <2>. QED
      BY <2>1, <2>2, <2>3
  <1>10. Len(new) <= MaxNodes
    <2>1. ~(Len(rows) + C > MaxNodes)
      <3>1. ~NoRoom(rows, Len(Ascending(S)))
        BY DEF S
      <3>. QED
        BY <1>2, <3>1 DEF NoRoom
    <2>. QED
      BY <1>1, <1>2, <1>9, <2>1, Parameters
  <1>11. ASSUME NEW i \in 1 .. Len(new), NEW j \in 1 .. Len(new), new[i] = new[j], i < j
         PROVE  FALSE
    <2>1. CASE j <= Len(rows)
      <3>1. i \in DOMAIN rows /\ j \in DOMAIN rows /\ rows[i] = rows[j]
        BY <1>1, <1>9, <1>11, <2>1
      <3>. QED
        BY <1>1, <1>11, <3>1 DEF Distinct
    <2>2. CASE i <= Len(rows) /\ j > Len(rows)
      <3>1. i \in DOMAIN rows /\ new[i] = rows[i] /\ j - Len(rows) \in 1 .. C
        BY <1>1, <1>2, <1>9, <2>2
      <3>2. new[Len(rows) + (j - Len(rows))] = more[j - Len(rows)]
        BY <1>9, <3>1
      <3>3. new[j] = points[Ascending(S)[j - Len(rows)]] /\ Ascending(S)[j - Len(rows)] \in S
        BY <1>1, <1>2, <1>6, <3>1, <3>2
      <3>. QED
        BY <1>5, <1>11, <3>1, <3>3
    <2>3. CASE i > Len(rows)
      <3>1. i - Len(rows) \in 1 .. C /\ j - Len(rows) \in 1 .. C
        BY <1>1, <1>2, <1>9, <1>11, <2>3
      <3>2. /\ new[i] = points[Ascending(S)[i - Len(rows)]] /\ Ascending(S)[i - Len(rows)] \in S
            /\ new[j] = points[Ascending(S)[j - Len(rows)]] /\ Ascending(S)[j - Len(rows)] \in S
        <4>1. /\ new[Len(rows) + (i - Len(rows))] = more[i - Len(rows)]
              /\ new[Len(rows) + (j - Len(rows))] = more[j - Len(rows)]
          BY <1>9, <3>1
        <4>. QED
          BY <1>1, <1>2, <1>6, <3>1, <4>1
      <3>3. Ascending(S)[i - Len(rows)] = Ascending(S)[j - Len(rows)]
        BY <1>4, <1>11, <3>2
      <3>4. i - Len(rows) = j - Len(rows)
        BY <1>2, <3>1, <3>3
      <3>. QED
        BY <1>1, <1>11, <3>4
    <2>. QED
      BY <1>1, <2>1, <2>2, <2>3
  <1>12. Fits(new) /\ Extends(rows, new)
    <2>1. Distinct(new)
      BY <1>9, <1>11 DEF Distinct
    <2>. QED
      BY <1>1, <1>2, <1>9, <1>10, <2>1 DEF Fits, Extends
  <1>13. ASSUME NEW n \in S
         PROVE  Len(rows) + UpTo(S, n) \in DOMAIN new /\ new[Len(rows) + UpTo(S, n)] = points[n]
    <2>1. UpTo(S, n) \in 1 .. C /\ Ascending(S)[UpTo(S, n)] = n
      BY <1>2
    <2>2. new[Len(rows) + UpTo(S, n)] = more[UpTo(S, n)]
      BY <1>9, <2>1
    <2>3. Len(rows) + UpTo(S, n) \in 1 .. Len(new)
      BY <1>1, <1>2, <1>9, <2>1
    <2>. QED
      BY <1>6, <1>9, <2>1, <2>2, <2>3
  <1>. QED
    BY <1>12, <1>13 DEF S, new

\* A point resolves to a row at most two tolerances away from it: one to the
\* kept point that stands for it, one from there to the row.
LEMMA ResolvedFacts ==
    ASSUME NEW rows, Fits(rows), NEW points \in Seq(Config), NEW tol \in Nat,
           ~NoRoom(rows, Len(Ascending(Missing(rows, points, tol))))
    PROVE  LET new == Added(rows, points, Missing(rows, points, tol))
               res == Resolved(rows, points, tol)
           IN  /\ res \in [DOMAIN points -> DOMAIN new]
               /\ \A n \in DOMAIN points : Apart(points[n], new[res[n]]) <= 2 * tol
  <1>. DEFINE S == Missing(rows, points, tol)
              K == Kept(points, tol)
              new == Added(rows, points, S)
  <1>1. rows \in Seq(Config) /\ new \in Seq(Config) /\ Extends(rows, new)
    BY AddedFits, Zenon DEF Fits
  <1>2. /\ S \subseteq K /\ K \subseteq DOMAIN points
        /\ \A n \in S : /\ Len(rows) + UpTo(S, n) \in DOMAIN new
                        /\ new[Len(rows) + UpTo(S, n)] = points[n]
    <2>1. S \subseteq K
      BY DEF Missing
    <2>2. K \subseteq DOMAIN points
      BY KeptStands
    <2>. QED
      BY <2>1, <2>2, AddedFits, Zenon
  <1>3. /\ \A n \in DOMAIN points : points[n] \in Config
        /\ \A r \in DOMAIN new : new[r] \in Config
    BY <1>1
  <1>4. ASSUME NEW n \in DOMAIN points
        PROVE  LET m == StandsFor(points, tol, n)
               IN  m \in K /\ Apart(points[n], points[m]) <= tol
    <2>1. CASE n \in K
      BY <1>3, <2>1, ApartNat DEF StandsFor
    <2>2. CASE n \notin K
      <3>. DEFINE T == {m \in K : m < n /\ Apart(points[m], points[n]) <= tol}
      <3>1. T \in SUBSET Nat /\ T # {}
        BY <1>2, <2>2, KeptStands
      <3>2. Least(T) \in T
        BY <3>1, LeastIsMember
      <3>3. StandsFor(points, tol, n) = Least(T)
        BY <2>2 DEF StandsFor
      <3>. HIDE DEF T
      <3>4. PICK m \in T : m = StandsFor(points, tol, n)
        BY <3>2, <3>3
      <3>5. m \in K /\ Apart(points[m], points[n]) <= tol
        BY DEF T
      <3>6. Apart(points[n], points[m]) = Apart(points[m], points[n])
        BY <1>2, <1>3, <3>5, ApartNat
      <3>. QED
        BY <3>4, <3>5, <3>6
    <2>. QED
      BY <2>1, <2>2
  <1>5. ASSUME NEW m \in K
        PROVE  LET r == RowOf(rows, points, S, m)
               IN  r \in DOMAIN new /\ Apart(points[m], new[r]) <= tol
    <2>1. points[m] \in Config
      BY <1>2, <1>3
    <2>2. CASE m \in S
      BY <1>2, <2>1, <2>2, ApartNat DEF RowOf
    <2>3. CASE m \notin S
      <3>1. PICK s \in DOMAIN rows : ~(Apart(points[m], rows[s]) > tol)
        BY <2>3, Zenon DEF Missing
      <3>2. rows # <<>> /\ rows[s] \in Config
        BY <1>1, <3>1
      <3>3. PICK r \in DOMAIN rows : /\ r = ClosestRow(rows, points[m])
                                     /\ Apart(points[m], rows[r]) <= Apart(points[m], rows[s])
        BY <1>1, <2>1, <3>1, <3>2, ClosestRowIs
      <3>4. r \in DOMAIN new /\ new[r] = rows[r] /\ rows[r] \in Config
        BY <1>1, <3>3 DEF Extends
      <3>5. Apart(points[m], rows[r]) \in Nat /\ Apart(points[m], rows[s]) \in Nat
        BY <2>1, <3>2, <3>4, ApartNat
      <3>6. Apart(points[m], new[r]) <= tol
        BY <3>1, <3>3, <3>4, <3>5
      <3>. QED
        BY <2>3, <3>3, <3>4, <3>6 DEF RowOf
    <2>. QED
      BY <2>2, <2>3
  <1>. HIDE DEF S, K, new
  <1>6. ASSUME NEW n \in DOMAIN points
        PROVE  LET r == RowOf(rows, points, S, StandsFor(points, tol, n))
               IN  r \in DOMAIN new /\ Apart(points[n], new[r]) <= 2 * tol
    <2>1. PICK m : m = StandsFor(points, tol, n)
      OBVIOUS
    <2>2. m \in K /\ Apart(points[n], points[m]) <= tol
      BY <1>4, <2>1
    <2>3. PICK r : r = RowOf(rows, points, S, m)
      OBVIOUS
    <2>4. r \in DOMAIN new /\ Apart(points[m], new[r]) <= tol
      BY <1>5, <2>2, <2>3
    <2>5. points[n] \in Config /\ points[m] \in Config /\ new[r] \in Config
      BY <1>2, <1>3, <2>2, <2>4
    <2>6. /\ Apart(points[n], points[m]) \in Nat /\ Apart(points[m], new[r]) \in Nat
          /\ Apart(points[n], new[r]) \in Nat
          /\ Apart(points[n], new[r]) <= Apart(points[n], points[m]) + Apart(points[m], new[r])
      BY <2>5, ApartNat, Triangle
    <2>7. Apart(points[n], new[r]) <= 2 * tol
      BY <2>2, <2>4, <2>6
    <2>. QED
      BY <2>1, <2>3, <2>4, <2>7
  <1>7. Resolved(rows, points, tol) =
          [n \in DOMAIN points |-> RowOf(rows, points, S, StandsFor(points, tol, n))]
    BY DEF Resolved, S
  <1>8. /\ Resolved(rows, points, tol) \in [DOMAIN points -> DOMAIN new]
        /\ \A n \in DOMAIN points : Apart(points[n], new[Resolved(rows, points, tol)[n]]) <= 2 * tol
    BY <1>6, <1>7
  <1>. QED
    BY <1>8 DEF S, new

-----------------------------------------------------------------------------
(* The record of a call                                                    *)

\* Appending, then appending more.
LEMMA ExtendsTransitive ==
    ASSUME NEW a \in Seq(Config), NEW b \in Seq(Config), NEW c \in Seq(Config),
           Extends(a, b), Extends(b, c)
    PROVE  Extends(a, c)
  BY DEF Extends

\* Appending nothing.
LEMMA ExtendsReflexive ==
    ASSUME NEW a \in Seq(Config)
    PROVE  Extends(a, a)
  BY DEF Extends

\* The rows a buffer can have.
Rows == 1 .. MaxNodes

WorkType == [buffer : Seq(Config), rows : Seq(Rows), nodes : SUBSET Rows,
             edges : SUBSET (Rows \X Rows), raised : BOOLEAN]

\* The type of a call's record, field by field.
LEMMA RecordIsWork ==
    ASSUME NEW b \in Seq(Config), NEW r \in Seq(Rows), NEW n \in SUBSET Rows,
           NEW e \in SUBSET (Rows \X Rows), NEW x \in BOOLEAN
    PROVE  [buffer |-> b, rows |-> r, nodes |-> n, edges |-> e, raised |-> x] \in WorkType
  BY DEF WorkType

\* A call only appends rows, and registers nodes that are rows.
GoodWork(work) ==
    /\ work \in WorkType
    /\ Fits(work.buffer) /\ Extends(buffer, work.buffer)
    /\ work.nodes \subseteq DOMAIN work.buffer

\* What adding points promises of a call: a point resolves to a row at most two
\* tolerances away.
AddsTo(work, points, tol, added) ==
    /\ GoodWork(added) /\ Extends(work.buffer, added.buffer)
    /\ added.edges = work.edges
    /\ work.raised => added.raised
    /\ ~added.raised =>
         /\ added.rows \in [DOMAIN points -> DOMAIN added.buffer]
         /\ \A n \in DOMAIN points :
              Apart(points[n], added.buffer[added.rows[n]]) <= 2 * tol

\* AddNodes keeps that promise, whether it raises or not.
LEMMA AddNodesGood ==
    ASSUME NEW work, GoodWork(work), NEW points \in Seq(Config), NEW tol \in Nat,
           NEW added, added = AddNodes(work, points, tol), buffer \in Seq(Config)
    PROVE  AddsTo(work, points, tol, added)
  <1>. DEFINE rows == work.buffer
              S == Missing(rows, points, tol)
              res == Resolved(rows, points, tol)
              new == Added(rows, points, S)
  <1>1. rows \in Seq(Config) /\ Fits(rows) /\ Extends(buffer, rows)
    BY DEF GoodWork, WorkType
  <1>2. added = IF work.raised THEN work
                ELSE IF NoRoom(rows, Len(Ascending(S))) THEN [work EXCEPT !.raised = TRUE]
                ELSE [work EXCEPT !.buffer = new,
                                  !.nodes = @ \cup {res[n] : n \in DOMAIN points},
                                  !.rows = res]
    BY AddNodesIs, Zenon
  <1>. HIDE DEF S, res, new
  <1>3. CASE work.raised
    BY <1>1, <1>2, <1>3, ExtendsReflexive DEF AddsTo
  <1>4. CASE ~work.raised /\ NoRoom(rows, Len(Ascending(S)))
    <2>1. added = [work EXCEPT !.raised = TRUE]
      BY <1>2, <1>4
    <2>2. added \in WorkType /\ added.buffer = rows /\ added.nodes = work.nodes
          /\ added.edges = work.edges /\ added.raised = TRUE
      BY <2>1 DEF GoodWork, WorkType
    <2>. QED
      BY <1>1, <1>4, <2>2, ExtendsReflexive DEF GoodWork, AddsTo
  <1>5. CASE ~work.raised /\ ~NoRoom(rows, Len(Ascending(S)))
    <2>1. added = [work EXCEPT !.buffer = new,
                               !.nodes = @ \cup {res[n] : n \in DOMAIN points},
                               !.rows = res]
      BY <1>2, <1>5
    <2>2. Fits(new) /\ Extends(rows, new)
      BY <1>1, <1>5, AddedFits, Zenon DEF S, new
    <2>3. /\ res \in [DOMAIN points -> DOMAIN new]
          /\ \A n \in DOMAIN points : Apart(points[n], new[res[n]]) <= 2 * tol
      BY <1>1, <1>5, ResolvedFacts, Zenon DEF S, new, res
    <2>4. new \in Seq(Config) /\ DOMAIN new \subseteq Rows /\ Len(rows) <= Len(new)
      BY <2>2, Parameters DEF Fits, Extends, Rows
    <2>5. res \in Seq(Rows)
      <3>1. res \in [1 .. Len(points) -> Rows]
        BY <2>3, <2>4
      <3>. QED
        BY <3>1
    <2>6. {res[n] : n \in DOMAIN points} \subseteq DOMAIN new
      BY <2>3
    <2>7. DOMAIN rows \subseteq DOMAIN new
      BY <1>1, <2>4
    <2>8. added \in WorkType /\ added.buffer = new /\ added.rows = res
          /\ added.nodes = work.nodes \cup {res[n] : n \in DOMAIN points}
          /\ added.edges = work.edges /\ added.raised = FALSE
      <3>1. work.nodes \cup {res[n] : n \in DOMAIN points} \in SUBSET Rows
        BY <2>4, <2>6 DEF GoodWork, WorkType
      <3>2. PICK nodes \in SUBSET Rows : nodes = work.nodes \cup {res[n] : n \in DOMAIN points}
        BY <3>1
      <3>3. added = [work EXCEPT !.buffer = new, !.nodes = nodes, !.rows = res]
        BY <2>1, <3>2, Zenon
      <3>4. /\ work.edges \in SUBSET (Rows \X Rows) /\ work.raised = FALSE
            /\ work.raised \in BOOLEAN
            /\ work = [buffer |-> work.buffer, rows |-> work.rows, nodes |-> work.nodes,
                       edges |-> work.edges, raised |-> work.raised]
        BY <1>5 DEF GoodWork, WorkType
      <3>5. added = [buffer |-> new, rows |-> res, nodes |-> nodes,
                     edges |-> work.edges, raised |-> work.raised]
        BY <3>3, <3>4
      <3>6. added \in WorkType
        <4>. DEFINE rec == [buffer |-> new, rows |-> res, nodes |-> nodes,
                            edges |-> work.edges, raised |-> work.raised]
        <4>1. rec \in WorkType
          <5>1. new \in Seq(Config)
            BY <2>4
          <5>. QED
            BY <2>5, <3>4, <5>1, RecordIsWork
        <4>. HIDE DEF rec
        <4>2. added = rec
          BY <3>5 DEF rec
        <4>. QED
          BY <4>1, <4>2
      <3>. QED
        <4>1. /\ added.buffer = new /\ added.rows = res /\ added.nodes = nodes
              /\ added.edges = work.edges /\ added.raised = work.raised
          BY <3>5
        <4>. QED
          BY <3>2, <3>4, <3>6, <4>1, Zenon
    <2>9. Extends(buffer, new)
      BY <1>1, <2>2, <2>4, ExtendsTransitive
    <2>10. added.nodes \subseteq DOMAIN new
      BY <2>6, <2>7, <2>8 DEF GoodWork
    <2>11. GoodWork(added)
      BY <2>2, <2>8, <2>9, <2>10, Zenon DEF GoodWork
    <2>12. Extends(rows, added.buffer)
      BY <2>2, <2>8
    <2>13. ~added.raised =>
             /\ added.rows \in [DOMAIN points -> DOMAIN added.buffer]
             /\ \A n \in DOMAIN points :
                  Apart(points[n], added.buffer[added.rows[n]]) <= 2 * tol
      BY <2>3, <2>8, Zenon
    <2>. QED
      BY <1>5, <2>8, <2>11, <2>12, <2>13, Zenon DEF AddsTo
  <1>. QED
    BY <1>3, <1>4, <1>5

-----------------------------------------------------------------------------
(* Edges                                                                   *)

\* Backed, with distances the arithmetic provers take.
LEMMA BackedIs ==
    ASSUME NEW rows, NEW i, NEW j
    PROVE  Backed(rows, i, j) <=>
             /\ i \in DOMAIN rows /\ j \in DOMAIN rows
             /\ \/ Apart(rows[i], rows[j]) <= 2 * Similarity
                \/ \E p \in Config : Reached(rows[i], p) /\ Apart(p, rows[j]) <= 2 * Similarity
  BY Zenon DEF Backed, Apart

\* Edges stay backed when rows are appended.
LEMMA BackedStays ==
    ASSUME NEW rows \in Seq(Config), NEW more \in Seq(Config), Extends(rows, more),
           NEW i, NEW j, Backed(rows, i, j)
    PROVE  Backed(more, i, j)
  <1>1. i \in DOMAIN rows /\ j \in DOMAIN rows
    BY BackedIs
  <1>2. i \in DOMAIN more /\ j \in DOMAIN more /\ more[i] = rows[i] /\ more[j] = rows[j]
    BY <1>1 DEF Extends
  <1>3. \/ Apart(more[i], more[j]) <= 2 * Similarity
        \/ \E p \in Config : Reached(more[i], p) /\ Apart(p, more[j]) <= 2 * Similarity
    BY <1>2, BackedIs, Zenon
  <1>. QED
    BY <1>2, <1>3, BackedIs, Zenon

Backs(rows, e) == Backed(rows, e[1], e[2]) \/ Backed(rows, e[2], e[1])
AllBacked(work) == \A e \in work.edges : Backs(work.buffer, e)

\* The points the connector checks from a to b.
Line(a, b) == SteerLine[a, b]

\* A line has a first and a last point, which are its ends.
LEMMA LineType ==
    ASSUME NEW a \in Config, NEW b \in Config
    PROVE  /\ Line(a, b) \in Seq(Config) /\ Len(Line(a, b)) >= 1
           /\ Line(a, b)[1] = a /\ Line(a, b)[Len(Line(a, b))] = b
  <1>1. SteerLine \in [Config \X Config -> Seq(Config)]
    BY NodesAssumption, Zenon DEF NodesAssumption
  <1>2. SteerLine[<<a, b>>] \in Seq(Config)
    BY <1>1
  <1>3. Line(a, b) \in Seq(Config)
    BY <1>2, Zenon DEF Line
  <1>4. /\ Line(a, b) # <<>>
        /\ Line(a, b)[1] = a /\ Line(a, b)[Len(Line(a, b))] = b
    BY NodesAssumption, Zenon DEF NodesAssumption, Line
  <1>5. Len(Line(a, b)) >= 1
    BY <1>3, <1>4
  <1>. QED
    BY <1>3, <1>4, <1>5

\* Steered, from the line.
LEMMA SteeredIs ==
    ASSUME NEW a, NEW b
    PROVE  Steered(a, b) =
             IF Blocked(Line(a, b)) = {} THEN b
             ELSE Line(a, b)[Larger(Least(Blocked(Line(a, b))) - 1, 1)]
  BY Zenon DEF Steered, Line

\* A point of a line that is free up to it is reached.
LEMMA ReachedBy ==
    ASSUME NEW a, NEW b \in Config, NEW n \in DOMAIN Line(a, b),
           \A m \in 1 .. n : Free(Line(a, b)[m])
    PROVE  Reached(a, Line(a, b)[n])
  BY Zenon DEF Reached, Line

\* Steering ends where it started or at a point it reached.
LEMMA SteeredFacts ==
    ASSUME NEW a \in Config, NEW b \in Config
    PROVE  /\ Steered(a, b) \in Config
           /\ Steered(a, b) = a \/ Reached(a, Steered(a, b))
  <1>. DEFINE line == Line(a, b)
  <1>1. line \in Seq(Config) /\ Len(line) >= 1 /\ line[1] = a /\ line[Len(line)] = b
    BY LineType
  <1>2. CASE Blocked(line) = {}
    <2>1. Steered(a, b) = line[Len(line)]
      BY <1>1, <1>2, SteeredIs
    <2>2. Len(line) \in DOMAIN line /\ \A m \in 1 .. Len(line) : Free(line[m])
      BY <1>1, <1>2 DEF Blocked
    <2>3. Reached(a, line[Len(line)])
      BY <2>2, ReachedBy, Zenon
    <2>. QED
      BY <1>1, <2>1, <2>3
  <1>3. CASE Blocked(line) # {}
    <2>1. Blocked(line) \in SUBSET Nat /\ Blocked(line) \subseteq DOMAIN line
      BY <1>1 DEF Blocked
    <2>2. PICK f \in DOMAIN line : f = Least(Blocked(line)) /\ \A m \in Blocked(line) : f <= m
      BY <1>3, <2>1, LeastIsMember
    <2>3. Steered(a, b) = line[Larger(f - 1, 1)]
      BY <1>3, <2>2, SteeredIs
    <2>4. CASE f = 1
      BY <1>1, <2>3, <2>4 DEF Larger
    <2>5. CASE f # 1
      <3>1. Larger(f - 1, 1) = f - 1 /\ f - 1 \in DOMAIN line
        BY <1>1, <2>5 DEF Larger
      <3>2. ASSUME NEW m \in 1 .. f - 1 PROVE Free(line[m])
        <4>1. m \in DOMAIN line /\ ~(f <= m)
          BY <1>1
        <4>. QED
          BY <2>2, <4>1 DEF Blocked
      <3>3. Reached(a, line[f - 1])
        BY <3>1, <3>2, ReachedBy
      <3>. QED
        BY <1>1, <2>3, <3>1, <3>3
    <2>. QED
      BY <2>4, <2>5
  <1>. QED
    BY <1>2, <1>3

-----------------------------------------------------------------------------
(* Steering and registration                                               *)

\* What is steered: from a row and what the call takes it to hold, to a
\* configuration.  It is anchored when the row does hold that.
Anchors == [at : Config, row : Rows]
SteerPairs == [from : Anchors, to : Config]
Anchored(rows, node) == node.row \in DOMAIN rows /\ rows[node.row] = node.at
AllAnchored(rows, pairs) == \A n \in DOMAIN pairs : Anchored(rows, pairs[n].from)

\* Anchored nodes stay so when rows are appended.
LEMMA AnchoredStays ==
    ASSUME NEW rows \in Seq(Config), NEW more \in Seq(Config), Extends(rows, more),
           NEW node, Anchored(rows, node)
    PROVE  Anchored(more, node)
  BY DEF Anchored, Extends

\* An undirected edge has the same ends.
LEMMA UndirectedType ==
    ASSUME NEW i \in Rows, NEW j \in Rows
    PROVE  /\ Undirected(i, j) \in Rows \X Rows
           /\ Undirected(i, j) = <<i, j>> \/ Undirected(i, j) = <<j, i>>
  BY Parameters DEF Rows, Undirected, Smaller, Larger

\* The parts of a pair.
LEMMA PairType ==
    ASSUME NEW pairs \in Seq(SteerPairs), NEW n \in DOMAIN pairs
    PROVE  /\ pairs[n].from \in Anchors /\ pairs[n].to \in Config
           /\ pairs[n].from.at \in Config /\ pairs[n].from.row \in Rows
  <1>1. pairs[n] \in SteerPairs
    OBVIOUS
  <1>. QED
    BY <1>1 DEF SteerPairs, Anchors

\* The points that are steered to, of all pairs.
Ends(pairs) == [n \in DOMAIN pairs |-> Steered(pairs[n].from.at, pairs[n].to)]

\* Every pair has an end, which is a configuration.
LEMMA EndsType ==
    ASSUME NEW pairs \in Seq(SteerPairs)
    PROVE  /\ Ends(pairs) \in Seq(Config) /\ DOMAIN Ends(pairs) = DOMAIN pairs
           /\ <<>> \o Ends(pairs) = Ends(pairs)
  <1>1. ASSUME NEW n \in DOMAIN pairs
        PROVE  Steered(pairs[n].from.at, pairs[n].to) \in Config
    BY PairType, SteeredFacts
  <1>2. Ends(pairs) \in [1 .. Len(pairs) -> Config]
    BY <1>1 DEF Ends
  <1>3. Ends(pairs) \in Seq(Config) /\ DOMAIN Ends(pairs) = DOMAIN pairs
    BY <1>2
  <1>4. <<>> \o Ends(pairs) = Ends(pairs)
    BY <1>3, ConcatEmptySeq
  <1>. QED
    BY <1>3, <1>4

\* SteerAndRegister, from its parts.
LEMMA SteerIs ==
    ASSUME NEW work, NEW pairs \in Seq(SteerPairs),
           NEW added, added = AddNodes(work, Ends(pairs), Similarity)
    PROVE  SteerAndRegister(work, pairs) =
             IF added.raised THEN added
             ELSE [added EXCEPT !.edges = added.edges \cup
                     {Undirected(pairs[n].from.row, added.rows[n]) : n \in DOMAIN pairs}]
  <1>1. <<>> \o Ends(pairs) = Ends(pairs)
    BY EndsType
  <1>2. SteerAndRegister(work, pairs) =
          LET more == AddNodes(work, <<>> \o Ends(pairs), Similarity)
          IN  IF more.raised THEN more
              ELSE [more EXCEPT !.edges = @ \cup
                      {Undirected(pairs[n].from.row, more.rows[n]) : n \in DOMAIN pairs}]
    BY Zenon DEF SteerAndRegister, Ends
  <1>. QED
    BY <1>1, <1>2, Zenon

\* The edge of an anchored pair is backed.
LEMMA SteeredBacked ==
    ASSUME NEW rows \in Seq(Config), NEW node \in Anchors, Anchored(rows, node),
           NEW to \in Config, NEW j \in DOMAIN rows,
           Apart(Steered(node.at, to), rows[j]) <= 2 * Similarity
    PROVE  Backs(rows, Undirected(node.row, j))
  <1>. DEFINE i == node.row
              p == Steered(node.at, to)
  <1>1. i \in DOMAIN rows /\ rows[i] = node.at /\ node.at \in Config /\ i \in Rows
    BY DEF Anchored, Anchors
  <1>2. p \in Config /\ (p = node.at \/ Reached(node.at, p))
    BY <1>1, SteeredFacts
  <1>3. Backed(rows, i, j)
    <2>1. CASE p = node.at
      BY <1>1, <2>1, BackedIs, Zenon
    <2>2. CASE Reached(node.at, p)
      BY <1>1, <1>2, <2>2, BackedIs, Zenon
    <2>. QED
      BY <1>2, <2>1, <2>2
  <1>4. Undirected(i, j) = <<i, j>> \/ Undirected(i, j) = <<j, i>>
    BY DEF Undirected, Smaller, Larger
  <1>. QED
    BY <1>3, <1>4 DEF Backs

\* What steering promises of a call: when the pairs are anchored, every edge
\* it registers is backed.
LEMMA SteerGood ==
    ASSUME NEW work, GoodWork(work), NEW pairs \in Seq(SteerPairs),
           NEW done, done = SteerAndRegister(work, pairs), buffer \in Seq(Config)
    PROVE  /\ GoodWork(done) /\ Extends(work.buffer, done.buffer)
           /\ work.raised => done.raised
           /\ AllBacked(work) /\ AllAnchored(work.buffer, pairs) => AllBacked(done)
  <1>1. Similarity \in Nat
    BY RoadmapAssumption, Zenon DEF RoadmapAssumption
  <1>2. PICK points \in Seq(Config) : points = Ends(pairs) /\ DOMAIN points = DOMAIN pairs
    BY EndsType
  <1>3. PICK added : added = AddNodes(work, points, Similarity)
    OBVIOUS
  <1>4. /\ GoodWork(added) /\ Extends(work.buffer, added.buffer)
        /\ added.edges = work.edges
        /\ work.raised => added.raised
        /\ ~added.raised =>
             /\ added.rows \in [DOMAIN pairs -> DOMAIN added.buffer]
             /\ \A n \in DOMAIN pairs :
                  Apart(points[n], added.buffer[added.rows[n]]) <= 2 * Similarity
    <2>1. AddsTo(work, points, Similarity, added)
      BY <1>1, <1>3, AddNodesGood
    <2>. QED
      BY <1>2, <2>1, Zenon DEF AddsTo
  <1>. DEFINE new == {Undirected(pairs[n].from.row, added.rows[n]) : n \in DOMAIN pairs}
  <1>5. done = IF added.raised THEN added ELSE [added EXCEPT !.edges = added.edges \cup new]
    <2>1. added = AddNodes(work, Ends(pairs), Similarity)
      BY <1>2, <1>3
    <2>. QED
      BY <2>1, SteerIs
  <1>6. /\ work.buffer \in Seq(Config) /\ added.buffer \in Seq(Config)
        /\ added \in WorkType /\ added.edges \in SUBSET (Rows \X Rows)
        /\ DOMAIN added.buffer \subseteq Rows
    BY <1>4, Parameters DEF GoodWork, Fits, WorkType, Rows
  <1>7. ASSUME AllBacked(work)
        PROVE  \A e \in work.edges : Backs(added.buffer, e)
    <2>1. \A i, j : Backed(work.buffer, i, j) => Backed(added.buffer, i, j)
      BY <1>4, <1>6, BackedStays
    <2>. QED
      BY <1>7, <2>1, Zenon DEF AllBacked, Backs
  <1>8. CASE added.raised
    BY <1>4, <1>5, <1>7, <1>8 DEF AllBacked
  <1>9. CASE ~added.raised
    <2>1. ASSUME NEW n \in DOMAIN pairs
          PROVE  /\ pairs[n].from \in Anchors /\ pairs[n].to \in Config
                 /\ pairs[n].from.row \in Rows
                 /\ added.rows[n] \in DOMAIN added.buffer /\ added.rows[n] \in Rows
      BY <1>4, <1>6, <1>9, PairType
    <2>2. new \in SUBSET (Rows \X Rows)
      BY <2>1, UndirectedType
    <2>. HIDE DEF new
    <2>3. done = [added EXCEPT !.edges = added.edges \cup new]
      BY <1>5, <1>9
    <2>4. /\ done \in WorkType /\ done.buffer = added.buffer /\ done.nodes = added.nodes
          /\ done.edges = added.edges \cup new /\ done.raised = added.raised
      <3>1. PICK edges \in SUBSET (Rows \X Rows) : edges = added.edges \cup new
        BY <1>6, <2>2
      <3>2. done = [added EXCEPT !.edges = edges]
        BY <2>3, <3>1
      <3>. QED
        BY <1>6, <3>1, <3>2 DEF WorkType
    <2>5. GoodWork(done)
      BY <1>4, <2>4, Zenon DEF GoodWork
    <2>6. ASSUME AllAnchored(work.buffer, pairs), NEW e \in new
          PROVE  Backs(added.buffer, e)
      <3>1. PICK n \in DOMAIN pairs : e = Undirected(pairs[n].from.row, added.rows[n])
        BY <2>6 DEF new
      <3>2. Anchored(work.buffer, pairs[n].from)
        BY <2>6 DEF AllAnchored
      <3>3. Anchored(added.buffer, pairs[n].from)
        BY <1>4, <1>6, <3>2, AnchoredStays
      <3>4. Apart(Steered(pairs[n].from.at, pairs[n].to), added.buffer[added.rows[n]])
              <= 2 * Similarity
        BY <1>2, <1>4, <1>9, Zenon DEF Ends
      <3>. QED
        BY <1>6, <2>1, <3>1, <3>3, <3>4, SteeredBacked
    <2>7. ASSUME AllBacked(work), AllAnchored(work.buffer, pairs)
          PROVE  AllBacked(done)
      BY <1>4, <1>7, <2>4, <2>6, <2>7, Zenon DEF AllBacked
    <2>. QED
      BY <1>4, <1>9, <2>4, <2>5, <2>7, Zenon
  <1>. QED
    BY <1>8, <1>9

-----------------------------------------------------------------------------
(* The pairs that calls steer                                              *)

\* Products of naturals.
LEMMA ProductGrows ==
    ASSUME NEW e \in Nat, NEW a \in Nat, NEW b \in Nat, a <= b
    PROVE  e * a <= e * b /\ e * a \in Nat /\ e * b \in Nat
  OBVIOUS

\* The row and the column of an index into a table of l rows of e.
LEMMA QuotientBelow ==
    ASSUME NEW e \in Nat \ {0}, NEW l \in Nat, NEW a \in Nat, a < e * l
    PROVE  a \div e \in 0 .. l - 1 /\ a % e \in 0 .. e - 1
  <1>1. a \div e < l
    OBVIOUS
  <1>2. a \div e \in Nat /\ a % e \in 0 .. e - 1
    OBVIOUS
  <1>. QED
    BY <1>1, <1>2

\* A row of a buffer, as the start of a pair.
LEMMA RowType ==
    ASSUME NEW buf, Fits(buf), NEW r \in DOMAIN buf
    PROVE  Row(buf, r) \in Anchors /\ Anchored(buf, Row(buf, r)) /\ buf[r] \in Config
  <1>1. r \in Rows /\ buf[r] \in Config
    BY Parameters DEF Fits, Rows
  <1>. QED
    BY <1>1 DEF Row, Anchors, Anchored

\* A pair of a start and an end.
LEMMA PairIs ==
    ASSUME NEW from \in Anchors, NEW to \in Config
    PROVE  [from |-> from, to |-> to] \in SteerPairs
  BY DEF SteerPairs

\* Pairs from rows of the buffer are anchored.
LEMMA NearestPairsType ==
    ASSUME NEW buf, Fits(buf), buf # <<>>, NEW candidates \in Seq(Config), NEW k \in Nat \ {0}
    PROVE  /\ NearestPairs(buf, candidates, k) \in Seq(SteerPairs)
           /\ AllAnchored(buf, NearestPairs(buf, candidates, k))
  <1>. DEFINE each == Smaller(k, Len(buf))
              near == [m \in DOMAIN candidates |-> NearestRows(buf, candidates[m])]
              count == each * Len(candidates)
              node(n) == Row(buf, near[1 + ((n - 1) \div each)][1 + ((n - 1) % each)])
              pair(n) == [from |-> node(n), to |-> candidates[1 + ((n - 1) \div each)]]
              pairs == [n \in 1 .. count |-> pair(n)]
  <1>1. buf \in Seq(Config) /\ Len(buf) >= 1
    BY DEF Fits
  <1>2. each \in Nat \ {0} /\ each <= Len(buf)
    BY <1>1 DEF Smaller
  <1>3. count \in Nat
    BY <1>2, ProductGrows
  <1>4. NearestPairs(buf, candidates, k) = pairs
    BY Zenon DEF NearestPairs
  <1>. HIDE DEF each
  <1>5. ASSUME NEW n \in 1 .. count
        PROVE  node(n) \in Anchors /\ Anchored(buf, node(n)) /\ pair(n) \in SteerPairs
    <2>1. n - 1 \in Nat /\ n - 1 < each * Len(candidates)
      BY <1>3
    <2>2. /\ (n - 1) \div each \in 0 .. Len(candidates) - 1
          /\ (n - 1) % each \in 0 .. each - 1
      BY <1>2, <2>1, QuotientBelow
    <2>3. PICK m \in DOMAIN candidates, i \in DOMAIN buf :
            m = 1 + ((n - 1) \div each) /\ i = 1 + ((n - 1) % each)
      <3>1. PICK q \in 0 .. Len(candidates) - 1, r \in 0 .. each - 1 :
              q = (n - 1) \div each /\ r = (n - 1) % each
        BY <2>2
      <3>2. 1 + q \in DOMAIN candidates /\ 1 + r \in DOMAIN buf
        BY <1>1, <1>2
      <3>. QED
        BY <3>1, <3>2
    <2>4. candidates[m] \in Config
      OBVIOUS
    <2>5. near[m][i] \in DOMAIN buf
      <3>1. NearestRows(buf, candidates[m]) \in Seq(DOMAIN buf)
            /\ Len(NearestRows(buf, candidates[m])) = Len(buf)
        BY <1>1, <2>4, NearestRowsType
      <3>. QED
        BY <1>1, <3>1
    <2>6. node(n) = Row(buf, near[m][i]) /\ pair(n) = [from |-> node(n), to |-> candidates[m]]
      BY <2>3, Zenon
    <2>. HIDE DEF near, node, pair
    <2>7. node(n) \in Anchors /\ Anchored(buf, node(n))
      BY <2>5, <2>6, RowType
    <2>. QED
      BY <2>4, <2>6, <2>7, PairIs
  <1>. HIDE DEF count
  <1>6. pairs \in [1 .. count -> SteerPairs]
    BY <1>5
  <1>. HIDE DEF pairs
  <1>7. pairs \in Seq(SteerPairs)
    BY <1>3, <1>6
  <1>8. AllAnchored(buf, pairs)
    <2>1. \A n \in 1 .. count : pairs[n].from = node(n)
      BY DEF pairs
    <2>. HIDE DEF node
    <2>. QED
      BY <1>5, <1>6, <2>1 DEF AllAnchored
  <1>. QED
    BY <1>4, <1>7, <1>8, Zenon

\* What connecting promises of a call.
LEMMA ConnectGood ==
    ASSUME NEW work, GoodWork(work), NEW candidates \in Seq(Config), NEW k \in Nat \ {0},
           NEW done, done = ConnectTo(work, candidates, k), buffer \in Seq(Config)
    PROVE  /\ GoodWork(done) /\ Extends(work.buffer, done.buffer)
           /\ AllBacked(work) => AllBacked(done)
  <1>1. Fits(work.buffer) /\ work.buffer \in Seq(Config) /\ work \in WorkType
    BY Zenon DEF GoodWork, Fits
  <1>2. Extends(work.buffer, work.buffer)
    BY <1>1, ExtendsReflexive
  <1>3. CASE done = work
    BY <1>2, <1>3
  <1>4. CASE done = [work EXCEPT !.raised = TRUE]
    <2>1. /\ done \in WorkType /\ done.buffer = work.buffer
          /\ done.nodes = work.nodes /\ done.edges = work.edges
      BY <1>1, <1>4 DEF WorkType
    <2>. QED
      BY <1>2, <2>1, Zenon DEF GoodWork, AllBacked
  <1>5. CASE /\ work.buffer # <<>>
             /\ done = SteerAndRegister(work, NearestPairs(work.buffer, candidates, k))
    <2>1. /\ NearestPairs(work.buffer, candidates, k) \in Seq(SteerPairs)
          /\ AllAnchored(work.buffer, NearestPairs(work.buffer, candidates, k))
      BY <1>1, <1>5, NearestPairsType
    <2>. QED
      BY <1>5, <2>1, SteerGood, Zenon
  <1>. QED
    BY <1>3, <1>4, <1>5, Zenon DEF ConnectTo

\* The pairs of a path of rows are anchored.
LEMMA ShortcutPairsType ==
    ASSUME Fits(buffer), NEW path \in Seq(DOMAIN buffer)
    PROVE  /\ ShortcutPairs(path) \in Seq(SteerPairs)
           /\ AllAnchored(buffer, ShortcutPairs(path))
  <1>. DEFINE forward == {p \in (DOMAIN path) \X (DOMAIN path) : p[1] <= p[2]}
              Before(p, q) == p[1] < q[1] \/ (p[1] = q[1] /\ p[2] < q[2])
              below == [p \in forward |-> {q \in forward : Before(q, p)}]
              sorted == Sorted(forward, Before)
              pair(n) == [from |-> Row(buffer, path[sorted[n][1]]),
                          to |-> buffer[path[sorted[n][2]]]]
              count == Cardinality(forward)
  <1>1. IsFiniteSet(forward)
    <2>1. IsFiniteSet(DOMAIN path)
      BY FS_Interval
    <2>2. IsFiniteSet((DOMAIN path) \X (DOMAIN path))
      BY <2>1, FS_Product
    <2>. QED
      BY <2>2, FS_Subset
  <1>2. \A p \in forward : p[1] \in Nat /\ p[2] \in Nat /\ p = <<p[1], p[2]>>
    OBVIOUS
  <1>3. \A p \in forward : p[1] \in DOMAIN path /\ p[2] \in DOMAIN path
    OBVIOUS
  <1>. HIDE DEF forward
  <1>4. /\ count \in Nat
        /\ \A k \in 0 .. count - 1 : \E p \in forward : Cardinality(below[p]) = k
    <2>1. below \in [forward -> SUBSET forward]
      OBVIOUS
    <2>2. \A p \in forward : p \notin below[p]
      BY <1>2
    <2>3. \A p, q \in forward : p = q \/ p \in below[q] \/ q \in below[p]
      BY <1>2
    <2>4. ASSUME NEW p \in forward, NEW q \in forward, p \in below[q]
          PROVE  below[p] \subseteq below[q]
      BY <1>2, <2>4
    <2>. HIDE DEF below
    <2>. QED
      BY <1>1, <2>1, <2>2, <2>3, <2>4, Positions
  <1>5. ASSUME NEW k \in 1 .. count
        PROVE  sorted[k] \in forward
    <2>1. k - 1 \in 0 .. count - 1
      BY <1>4
    <2>2. PICK p \in forward : Cardinality(below[p]) = k - 1
      BY <1>4, <2>1
    <2>3. Cardinality({q \in forward : Before(q, p)}) = k - 1
      BY <2>2
    <2>4. sorted[k] = CHOOSE x \in forward : Cardinality({q \in forward : Before(q, x)}) = k - 1
      BY Zenon DEF Sorted
    <2>. QED
      BY <2>3, <2>4, Zenon
  <1>6. DOMAIN sorted = 1 .. count
    BY Zenon DEF Sorted
  <1>7. ShortcutPairs(path) = [n \in 1 .. count |-> pair(n)]
    BY <1>6, Zenon DEF ShortcutPairs, forward
  <1>. HIDE DEF sorted, count
  <1>8. ASSUME NEW n \in 1 .. count
        PROVE  pair(n) \in SteerPairs /\ Anchored(buffer, pair(n).from)
    <2>1. PICK i \in DOMAIN buffer, j \in DOMAIN buffer :
            i = path[sorted[n][1]] /\ j = path[sorted[n][2]]
      BY <1>3, <1>5
    <2>2. pair(n) = [from |-> Row(buffer, i), to |-> buffer[j]]
      BY <2>1
    <2>3. Row(buffer, i) \in Anchors /\ Anchored(buffer, Row(buffer, i)) /\ buffer[j] \in Config
      BY RowType
    <2>. HIDE DEF pair
    <2>4. pair(n).from = Row(buffer, i)
      BY <2>2
    <2>. QED
      BY <2>2, <2>3, <2>4, PairIs
  <1>9. ShortcutPairs(path) \in [1 .. count -> SteerPairs]
    <2>. HIDE DEF pair
    <2>. QED
      BY <1>7, <1>8
  <1>10. ShortcutPairs(path) \in Seq(SteerPairs)
    BY <1>4, <1>9 DEF count
  <1>11. AllAnchored(buffer, ShortcutPairs(path))
    <2>. HIDE DEF pair
    <2>. QED
      BY <1>7, <1>8 DEF AllAnchored
  <1>. QED
    BY <1>10, <1>11

-----------------------------------------------------------------------------
(* The node buffer and the constructor                                     *)

\* No configuration has two rows of the buffer: it is de-duplicated
\* (_stable_unique, add_nodes_to_roadmap).
RowsDistinct == Distinct(buffer)

\* Nodes that are registered with the path finder are rows of the buffer
\* (register_nodes_and_connections).
RegisteredRows == registered \in GraphType /\ registered.nodes \subseteq DOMAIN buffer

\* What a call relies on: the rows of new nodes are theirs alone, and the row
\* of the default node is, when it is not orphaned.
NodesInv == NodesTypeOK /\ RowsDistinct /\ DefaultAnchored /\ RegisteredRows

\* A call starts with a good record.
LEMMA BufferFits ==
    ASSUME NodesTypeOK, RowsDistinct
    PROVE  /\ buffer \in Seq(Config) /\ Fits(buffer)
           /\ GoodWork(Work) /\ Work.edges = {} /\ Work.buffer = buffer /\ ~Work.raised
  <1>1. buffer \in Seq(Config) /\ Fits(buffer)
    BY DEF NodesTypeOK, RowsDistinct, Fits
  <1>2. Extends(buffer, buffer)
    BY <1>1, ExtendsReflexive
  <1>3. /\ Work.edges = {} /\ Work.buffer = buffer /\ ~Work.raised /\ Work.nodes = {}
    BY DEF Work
  <1>4. Work \in WorkType
    <2>1. <<>> \in Seq(Rows) /\ {} \in SUBSET Rows /\ {} \in SUBSET (Rows \X Rows)
          /\ FALSE \in BOOLEAN
      OBVIOUS
    <2>. QED
      BY <1>1, <2>1, RecordIsWork DEF Work
  <1>. QED
    BY <1>1, <1>2, <1>3, <1>4, Zenon DEF GoodWork

\* The default posture is a configuration.
LEMMA DefaultType == Default \in Config
  BY NodesAssumption, Zenon DEF NodesAssumption

DefaultNode == [at |-> Default, row |-> RowAfter]

\* Exact nodes: a point that is added with no tolerance is in its row.
LEMMA ExactRows ==
    ASSUME NEW work, NEW points \in Seq(Config), NEW added,
           AddsTo(work, points, 0, added), ~added.raised, NEW n \in DOMAIN points
    PROVE  /\ [at |-> points[n], row |-> added.rows[n]] \in Anchors
           /\ Anchored(added.buffer, [at |-> points[n], row |-> added.rows[n]])
  <1>1. /\ GoodWork(added) /\ added.rows \in [DOMAIN points -> DOMAIN added.buffer]
        /\ Apart(points[n], added.buffer[added.rows[n]]) <= 2 * 0
    BY Zenon DEF AddsTo
  <1>2. added.buffer \in Seq(Config) /\ DOMAIN added.buffer \subseteq Rows
    BY <1>1, Parameters DEF GoodWork, Fits, Rows
  <1>3. PICK r \in DOMAIN added.buffer : r = added.rows[n]
    BY <1>1
  <1>4. points[n] \in Config /\ added.buffer[r] \in Config /\ r \in Rows
    BY <1>2
  <1>5. Apart(points[n], added.buffer[r]) \in Nat
    BY <1>4, ApartNat
  <1>6. Apart(points[n], added.buffer[r]) = 0
    BY <1>1, <1>3, <1>5
  <1>7. points[n] = added.buffer[r]
    BY <1>4, <1>6, ApartNat
  <1>. QED
    BY <1>3, <1>4, <1>7 DEF Anchors, Anchored

\* The default node after it was asked for: it is anchored unless its row is
\* the one that was orphaned before.
LEMMA WithDefaultGood ==
    ASSUME NodesTypeOK, RowsDistinct, DefaultAnchored
    PROVE  /\ GoodWork(WithDefault) /\ WithDefault.edges = {}
           /\ RowAfter \in 0 .. MaxNodes
           /\ RowAfter # 0 /\ ~(orphan /\ RowAfter = defaultRow) =>
                Anchored(WithDefault.buffer, DefaultNode)
  <1>1. /\ buffer \in Seq(Config) /\ GoodWork(Work) /\ Work.edges = {}
        /\ Work.buffer = buffer /\ ~Work.raised
    BY BufferFits
  <1>2. <<Default>> \in Seq(Config) /\ DOMAIN <<Default>> = {1} /\ <<Default>>[1] = Default
    BY DefaultType
  <1>3. 0 \in Nat
    OBVIOUS
  <1>4. PICK added : added = AddNodes(Work, <<Default>>, 0)
    OBVIOUS
  <1>5. AddsTo(Work, <<Default>>, 0, added)
    BY <1>1, <1>2, <1>3, <1>4, AddNodesGood
  <1>6. GoodWork(added) /\ added.edges = {} /\ Extends(buffer, added.buffer)
    BY <1>1, <1>5, Zenon DEF AddsTo
  <1>7. GoodWork(WithDefault) /\ WithDefault.edges = {} /\ Extends(buffer, WithDefault.buffer)
    <2>1. Extends(buffer, Work.buffer)
      BY <1>1, ExtendsReflexive
    <2>. QED
      BY <1>1, <1>4, <1>6, <2>1, Zenon DEF WithDefault
  <1>8. CASE DefaultInstalls /\ ~added.raised
    <2>1. WithDefault = added
      BY <1>4, <1>8, Zenon DEF WithDefault
    <2>2. RowAfter = added.rows[1]
      BY <1>8, <2>1, Zenon DEF RowAfter
    <2>3. [at |-> Default, row |-> added.rows[1]] \in Anchors
          /\ Anchored(added.buffer, [at |-> Default, row |-> added.rows[1]])
      BY <1>2, <1>5, <1>8, ExactRows
    <2>4. RowAfter \in Rows
      BY <2>2, <2>3 DEF Anchors
    <2>. QED
      BY <1>7, <2>1, <2>2, <2>3, <2>4, Parameters DEF DefaultNode, Rows
  <1>9. CASE ~(DefaultInstalls /\ ~added.raised)
    <2>1. RowAfter = defaultRow
      BY <1>4, <1>9, Zenon DEF RowAfter, WithDefault
    <2>2. RowAfter \in 0 .. MaxNodes
      BY <2>1 DEF NodesTypeOK
    <2>3. ASSUME RowAfter # 0, ~orphan
          PROVE  Anchored(WithDefault.buffer, DefaultNode)
      <3>1. Anchored(buffer, DefaultNode)
        BY <2>1, <2>3 DEF DefaultAnchored, DefaultNode, Anchored
      <3>2. WithDefault.buffer \in Seq(Config)
        BY <1>7 DEF GoodWork, Fits
      <3>. QED
        BY <1>1, <1>7, <3>1, <3>2, AnchoredStays
    <2>. QED
      BY <1>7, <2>1, <2>2, <2>3
  <1>. QED
    BY <1>8, <1>9

\* The starts, then the goals.
LEMMA TerminalsType ==
    ASSUME NEW problems \in Seq(Config \X Config)
    PROVE  /\ Terminals(problems) \in Seq(Config)
           /\ Len(Terminals(problems)) = 2 * Len(problems)
  <1>. DEFINE starts == [n \in 1 .. Len(problems) |-> problems[n][1]]
              goals == [n \in 1 .. Len(problems) |-> problems[n][2]]
  <1>1. \A n \in 1 .. Len(problems) : problems[n][1] \in Config /\ problems[n][2] \in Config
    OBVIOUS
  <1>2. starts \in [1 .. Len(problems) -> Config] /\ goals \in [1 .. Len(problems) -> Config]
    BY <1>1
  <1>3. /\ starts \in Seq(Config) /\ Len(starts) = Len(problems)
        /\ goals \in Seq(Config) /\ Len(goals) = Len(problems)
    BY <1>2
  <1>4. Terminals(problems) = starts \o goals
    BY Zenon DEF Terminals
  <1>. HIDE DEF starts, goals
  <1>5. /\ starts \o goals \in Seq(Config)
        /\ Len(starts \o goals) = Len(problems) + Len(problems)
    <2>1. PICK s \in Seq(Config), t \in Seq(Config) :
            s = starts /\ t = goals /\ Len(s) = Len(problems) /\ Len(t) = Len(problems)
      BY <1>3
    <2>2. s \o t \in Seq(Config) /\ Len(s \o t) = Len(s) + Len(t)
      BY ConcatProperties, Zenon
    <2>. QED
      BY <2>1, <2>2
  <1>. QED
    BY <1>4, <1>5

\* Pairs of the nodes of a set start at nodes of the set.
LEMMA ZipType ==
    ASSUME NEW A, A \subseteq Anchors, NEW s \in Seq(A), NEW t \in Seq(A), Len(s) = Len(t)
    PROVE  [n \in DOMAIN s |-> [from |-> s[n], to |-> t[n].at]] \in Seq([from : A, to : Config])
  <1>1. ASSUME NEW n \in 1 .. Len(s)
        PROVE  [from |-> s[n], to |-> t[n].at] \in [from : A, to : Config]
    <2>1. s[n] \in A /\ t[n] \in A /\ t[n] \in Anchors
      OBVIOUS
    <2>2. t[n].at \in Config
      BY <2>1 DEF Anchors
    <2>. QED
      BY <2>1, <2>2
  <1>2. DOMAIN s = 1 .. Len(s) /\ Len(s) \in Nat
    OBVIOUS
  <1>3. [n \in DOMAIN s |-> [from |-> s[n], to |-> t[n].at]]
          \in [1 .. Len(s) -> [from : A, to : Config]]
    BY <1>1, <1>2
  <1>. QED
    BY <1>2, <1>3

\* Terminal pairs start at terminals or at the default node.
LEMMA TerminalPairsType ==
    ASSUME NEW A, A \subseteq Anchors, NEW starts \in Seq(A), NEW goals \in Seq(A),
           Len(starts) = Len(goals), FeasibleAfter = "yes" => DefaultNode \in A
    PROVE  TerminalPairs(starts, goals) \in Seq([from : A, to : Config])
  <1>. DEFINE P == [from : A, to : Config]
              default == [n \in DOMAIN starts |-> DefaultNode]
              zip(s, t) == [n \in DOMAIN s |-> [from |-> s[n], to |-> t[n].at]]
  <1>1. TerminalPairs(starts, goals) =
          zip(starts, goals) \o zip(goals, starts) \o
          (IF FeasibleAfter = "yes"
           THEN zip(starts, default) \o zip(default, starts) \o
                zip(goals, default) \o zip(default, goals)
           ELSE <<>>)
    BY Zenon DEF TerminalPairs, DefaultNode
  <1>2. zip(starts, goals) \in Seq(P) /\ zip(goals, starts) \in Seq(P)
    BY ZipType
  <1>3. CASE FeasibleAfter = "yes"
    <2>1. default \in Seq(A) /\ Len(default) = Len(starts)
      <3>1. default \in [1 .. Len(starts) -> A]
        BY <1>3
      <3>2. Len(starts) \in Nat
        OBVIOUS
      <3>. HIDE DEF default
      <3>. QED
        BY <3>1, <3>2
    <2>. HIDE DEF default
    <2>2. /\ zip(starts, default) \in Seq(P) /\ zip(default, starts) \in Seq(P)
          /\ zip(goals, default) \in Seq(P) /\ zip(default, goals) \in Seq(P)
      BY <2>1, ZipType
    <2>. HIDE DEF zip, P
    <2>3. TerminalPairs(starts, goals) =
            zip(starts, goals) \o zip(goals, starts) \o
            (zip(starts, default) \o zip(default, starts) \o
             zip(goals, default) \o zip(default, goals))
      BY <1>1, <1>3
    <2>4. TerminalPairs(starts, goals) \in Seq(P)
      BY <1>2, <2>2, <2>3
    <2>. QED
      BY <2>4 DEF P
  <1>4. CASE FeasibleAfter # "yes"
    <2>. HIDE DEF zip, P, default
    <2>1. TerminalPairs(starts, goals) = zip(starts, goals) \o zip(goals, starts) \o <<>>
      BY <1>1, <1>4
    <2>2. TerminalPairs(starts, goals) \in Seq(P)
      BY <1>2, <2>1
    <2>. QED
      BY <2>2 DEF P
  <1>. QED
    BY <1>3, <1>4

\* A sequence over a set is one over a larger set.
LEMMA SubsetSeq ==
    ASSUME NEW P, NEW Q, P \subseteq Q, NEW s \in Seq(P)
    PROVE  s \in Seq(Q) /\ \A n \in DOMAIN s : s[n] \in P
  <1>1. \A n \in 1 .. Len(s) : s[n] \in P
    OBVIOUS
  <1>2. s \in [1 .. Len(s) -> Q] /\ Len(s) \in Nat /\ DOMAIN s = 1 .. Len(s)
    BY <1>1
  <1>. QED
    BY <1>1, <1>2

\* The two halves of a sequence.
LEMMA SubSeqType ==
    ASSUME NEW A, NEW rows \in Seq(A), NEW size \in Nat, Len(rows) = 2 * size
    PROVE  /\ SubSeq(rows, 1, size) \in Seq(A) /\ Len(SubSeq(rows, 1, size)) = size
           /\ SubSeq(rows, size + 1, 2 * size) \in Seq(A)
           /\ Len(SubSeq(rows, size + 1, 2 * size)) = size
  OBVIOUS

\* The pairs that connect terminals that were added exactly are anchored, but
\* for those of an orphaned default node.
LEMMA TerminalsAnchored ==
    ASSUME NodesTypeOK, RowsDistinct, DefaultAnchored,
           NEW problems \in Seq(Config \X Config), NEW added,
           AddsTo(WithDefault, Terminals(problems), 0, added), ~added.raised,
           FeasibleAfter = "yes" => RowAfter # 0,
           NEW rows, rows = [n \in DOMAIN Terminals(problems) |->
                               [at |-> Terminals(problems)[n], row |-> added.rows[n]]],
           NEW pairs,
           pairs = TerminalPairs(SubSeq(rows, 1, Len(problems)),
                                 SubSeq(rows, Len(problems) + 1, 2 * Len(problems)))
    PROVE  /\ pairs \in Seq(SteerPairs)
           /\ ~orphan => AllAnchored(added.buffer, pairs)
  <1>. DEFINE A == {a \in Anchors : orphan \/ Anchored(added.buffer, a)}
  <1>0. PICK size \in Nat : size = Len(problems)
    OBVIOUS
  <1>1. PICK points \in Seq(Config) : points = Terminals(problems) /\ Len(points) = 2 * size
    BY <1>0, TerminalsType
  <1>2. rows = [n \in DOMAIN points |-> [at |-> points[n], row |-> added.rows[n]]]
    BY <1>1
  <1>3. ASSUME NEW n \in 1 .. Len(points)
        PROVE  [at |-> points[n], row |-> added.rows[n]] \in A
    <2>1. AddsTo(WithDefault, points, 0, added)
      BY <1>1
    <2>. QED
      BY <2>1, ExactRows
  <1>. HIDE DEF A
  <1>4. rows \in Seq(A) /\ Len(rows) = 2 * size
    <2>1. Len(points) \in Nat /\ DOMAIN points = 1 .. Len(points)
      OBVIOUS
    <2>2. rows \in [1 .. Len(points) -> A]
      BY <1>2, <1>3, <2>1
    <2>3. rows \in Seq(A)
      BY <2>1, <2>2
    <2>4. Len(rows) = Len(points)
      BY <2>1, <2>2
    <2>. QED
      BY <1>1, <2>3, <2>4
  <1>5. FeasibleAfter = "yes" => DefaultNode \in A
    <2>. SUFFICES ASSUME RowAfter # 0 PROVE DefaultNode \in A
      OBVIOUS
    <2>1. /\ GoodWork(WithDefault) /\ RowAfter \in 0 .. MaxNodes
          /\ ~orphan => Anchored(WithDefault.buffer, DefaultNode)
      BY WithDefaultGood
    <2>2. RowAfter \in Rows
      BY <2>1, Parameters DEF Rows
    <2>3. DefaultNode \in Anchors
      BY <2>2, DefaultType DEF DefaultNode, Anchors
    <2>4. /\ WithDefault.buffer \in Seq(Config) /\ added.buffer \in Seq(Config)
          /\ Extends(WithDefault.buffer, added.buffer)
      BY <2>1 DEF AddsTo, GoodWork, Fits
    <2>5. ~orphan => Anchored(added.buffer, DefaultNode)
      BY <2>1, <2>4, AnchoredStays
    <2>. QED
      BY <2>3, <2>5 DEF A
  <1>6. A \subseteq Anchors
    BY DEF A
  <1>7. PICK starts \in Seq(A), goals \in Seq(A) :
          /\ starts = SubSeq(rows, 1, size) /\ goals = SubSeq(rows, size + 1, 2 * size)
          /\ Len(starts) = Len(goals)
    <2>1. /\ SubSeq(rows, 1, size) \in Seq(A) /\ SubSeq(rows, size + 1, 2 * size) \in Seq(A)
          /\ Len(SubSeq(rows, 1, size)) = size
          /\ Len(SubSeq(rows, size + 1, 2 * size)) = size
      BY <1>4, SubSeqType
    <2>. QED
      BY <2>1, Zenon
  <1>. DEFINE P == [from : A, to : Config]
  <1>8. pairs \in Seq(P)
    <2>1. pairs = TerminalPairs(starts, goals)
      BY <1>0, <1>7, Zenon
    <2>2. TerminalPairs(starts, goals) \in Seq(P)
      BY <1>5, <1>6, <1>7, TerminalPairsType
    <2>. HIDE DEF P
    <2>. QED
      BY <2>1, <2>2
  <1>9. P \subseteq SteerPairs /\ \A p \in P : p.from \in A
    BY <1>6 DEF SteerPairs
  <1>. HIDE DEF P
  <1>10. pairs \in Seq(SteerPairs) /\ \A n \in DOMAIN pairs : pairs[n].from \in A
    <2>1. pairs \in Seq(SteerPairs) /\ \A n \in DOMAIN pairs : pairs[n] \in P
      BY <1>8, <1>9, SubsetSeq, Zenon
    <2>. QED
      BY <1>9, <2>1, Zenon
  <1>11. ~orphan => \A a \in A : Anchored(added.buffer, a)
    BY DEF A
  <1>. QED
    BY <1>10, <1>11 DEF AllAnchored

\* A call that raises keeps what it has.
LEMMA RaisedGood ==
    ASSUME NEW work, GoodWork(work)
    PROVE  /\ GoodWork([work EXCEPT !.raised = TRUE])
           /\ [work EXCEPT !.raised = TRUE].buffer = work.buffer
           /\ AllBacked(work) => AllBacked([work EXCEPT !.raised = TRUE])
  <1>. DEFINE done == [work EXCEPT !.raised = TRUE]
  <1>1. /\ done \in WorkType /\ done.buffer = work.buffer
        /\ done.nodes = work.nodes /\ done.edges = work.edges
    BY DEF WorkType, GoodWork
  <1>. HIDE DEF done
  <1>2. GoodWork(done) /\ (AllBacked(work) => AllBacked(done))
    BY <1>1, Zenon DEF GoodWork, AllBacked
  <1>. QED
    BY <1>1, <1>2 DEF done

\* What connecting the terminals of a batch promises.
LEMMA ConnectedGood ==
    ASSUME NodesTypeOK, RowsDistinct, DefaultAnchored, NEW problems \in Queries,
           NEW done, done = Connected(problems)
    PROVE  /\ GoodWork(done) /\ Extends(WithDefault.buffer, done.buffer)
           /\ ~orphan => AllBacked(done)
  <1>1. problems \in Seq(Config \X Config) /\ buffer \in Seq(Config) /\ 0 \in Nat
    BY Parameters, BufferFits
  <1>2. GoodWork(WithDefault) /\ WithDefault.edges = {}
    BY WithDefaultGood
  <1>3. PICK points \in Seq(Config) : points = Terminals(problems)
    BY <1>1, TerminalsType
  <1>4. PICK added : added = AddNodes(WithDefault, points, 0)
    OBVIOUS
  <1>5. AddsTo(WithDefault, points, 0, added)
    BY <1>1, <1>2, <1>3, <1>4, AddNodesGood
  <1>6. GoodWork(added) /\ Extends(WithDefault.buffer, added.buffer) /\ AllBacked(added)
    BY <1>2, <1>5, Zenon DEF AddsTo, AllBacked
  <1>7. /\ WithDefault.buffer \in Seq(Config) /\ added.buffer \in Seq(Config)
    BY <1>2, <1>6 DEF GoodWork, Fits
  <1>. DEFINE rows == [n \in DOMAIN points |-> [at |-> points[n], row |-> added.rows[n]]]
              size == Len(problems)
              pairs == TerminalPairs(SubSeq(rows, 1, size), SubSeq(rows, size + 1, 2 * size))
              Good(w) == /\ GoodWork(w) /\ Extends(added.buffer, w.buffer)
                         /\ ~orphan => AllBacked(w)
  <1>8. PICK steered :
          /\ steered = CASE added.raised -> added
                         [] ~added.raised /\ FeasibleAfter = "yes" /\ RowAfter = 0
                              -> [added EXCEPT !.raised = TRUE]
                         [] OTHER -> SteerAndRegister(added, pairs)
          /\ done = IF ConnectNearest THEN ConnectTo(steered, points, Neighbors) ELSE steered
    BY <1>3, <1>4, Zenon DEF Connected
  <1>. HIDE DEF pairs
  <1>9. Good(steered)
    <2>1. Extends(added.buffer, added.buffer)
      BY <1>7, ExtendsReflexive
    <2>2. CASE added.raised
      <3>1. steered = added
        BY <1>8, <2>2
      <3>. QED
        BY <1>6, <2>1, <3>1, Zenon
    <2>3. CASE ~added.raised /\ FeasibleAfter = "yes" /\ RowAfter = 0
      <3>1. steered = [added EXCEPT !.raised = TRUE]
        BY <1>8, <2>3
      <3>. QED
        BY <1>6, <2>1, <3>1, RaisedGood, Zenon
    <2>4. CASE ~added.raised /\ ~(FeasibleAfter = "yes" /\ RowAfter = 0)
      <3>1. steered = SteerAndRegister(added, pairs)
        BY <1>8, <2>4
      <3>2. pairs \in Seq(SteerPairs) /\ (~orphan => AllAnchored(added.buffer, pairs))
        <4>1. AddsTo(WithDefault, Terminals(problems), 0, added)
          BY <1>3, <1>5, Zenon
        <4>2. FeasibleAfter = "yes" => RowAfter # 0
          BY <2>4
        <4>3. rows = [n \in DOMAIN Terminals(problems) |->
                        [at |-> Terminals(problems)[n], row |-> added.rows[n]]]
          BY <1>3, Zenon
        <4>. HIDE DEF rows
        <4>4. pairs = TerminalPairs(SubSeq(rows, 1, Len(problems)),
                                    SubSeq(rows, Len(problems) + 1, 2 * Len(problems)))
          BY DEF pairs
        <4>. QED
          BY <1>1, <2>4, <4>1, <4>2, <4>3, <4>4, TerminalsAnchored, Zenon
      <3>. QED
        BY <1>1, <1>6, <3>1, <3>2, SteerGood, Zenon
    <2>. QED
      BY <2>2, <2>3, <2>4
  <1>10. Good(done)
    <2>1. Neighbors \in Nat \ {0}
      BY Parameters
    <2>2. CASE ~ConnectNearest
      BY <1>8, <1>9, <2>2, Zenon
    <2>3. CASE ConnectNearest
      <3>1. /\ GoodWork(done) /\ Extends(steered.buffer, done.buffer)
            /\ AllBacked(steered) => AllBacked(done)
        BY <1>1, <1>8, <1>9, <2>1, <2>3, ConnectGood, Zenon
      <3>2. steered.buffer \in Seq(Config) /\ done.buffer \in Seq(Config)
        BY <1>9, <3>1 DEF GoodWork, Fits
      <3>3. Extends(added.buffer, done.buffer)
        BY <1>7, <1>9, <3>1, <3>2, ExtendsTransitive
      <3>. QED
        BY <1>9, <3>1, <3>3, Zenon
    <2>. QED
      BY <2>2, <2>3
  <1>11. done.buffer \in Seq(Config)
    BY <1>10 DEF GoodWork, Fits
  <1>. QED
    BY <1>6, <1>7, <1>10, <1>11, ExtendsTransitive

\* Every edge a step registers is backed.
NewEdgesBacked == ~orphan => \A e \in registered'.edges \ registered.edges : Backs(buffer', e)

\* Nothing registered.
LEMMA EmptyType == Empty \in GraphType /\ Empty.nodes = {} /\ Empty.edges = {}
  BY DEF Empty, GraphType

\* What a call commits.
LEMMA CommitPreserves ==
    ASSUME NodesInv, NEW work, GoodWork(work), Commit(work)
    PROVE  /\ buffer' \in Seq(Config) /\ Len(buffer') <= MaxNodes /\ Extends(buffer, buffer')
           /\ buffer' = work.buffer
           /\ RowsDistinct' /\ RegisteredRows' /\ raised' \in BOOLEAN
           /\ (~orphan => AllBacked(work)) => NewEdgesBacked
  <1>1. /\ buffer' = work.buffer /\ registered' = Join(registered, work) /\ raised' = work.raised
    BY DEF Commit
  <1>2. /\ Fits(work.buffer) /\ Extends(buffer, work.buffer) /\ work \in WorkType
        /\ work.nodes \subseteq DOMAIN work.buffer
    BY Zenon DEF GoodWork
  <1>3. buffer' \in Seq(Config) /\ Len(buffer') <= MaxNodes /\ RowsDistinct'
    BY <1>1, <1>2 DEF Fits, RowsDistinct
  <1>4. /\ registered' = [nodes |-> registered.nodes \cup work.nodes,
                          edges |-> registered.edges \cup work.edges]
    BY <1>1, Zenon DEF Join
  <1>5. RegisteredRows'
    <2>1. registered.nodes \subseteq DOMAIN buffer'
      BY <1>1, <1>2, <1>3 DEF NodesInv, NodesTypeOK, RegisteredRows, Extends
    <2>2. /\ registered.nodes \in SUBSET Rows /\ registered.edges \in SUBSET (Rows \X Rows)
          /\ work.nodes \in SUBSET Rows /\ work.edges \in SUBSET (Rows \X Rows)
      BY <1>2 DEF NodesInv, RegisteredRows, GraphType, WorkType, Rows
    <2>3. PICK nodes \in SUBSET Rows, edges \in SUBSET (Rows \X Rows) :
            /\ nodes = registered.nodes \cup work.nodes
            /\ edges = registered.edges \cup work.edges
      BY <2>2
    <2>4. registered' = [nodes |-> nodes, edges |-> edges]
      BY <1>4, <2>3
    <2>5. registered' \in GraphType /\ registered'.nodes = nodes
      BY <2>4 DEF GraphType, Rows
    <2>6. nodes \subseteq DOMAIN buffer'
      BY <1>1, <1>2, <2>1, <2>3
    <2>. QED
      BY <2>5, <2>6 DEF RegisteredRows
  <1>6. ASSUME ~orphan => AllBacked(work)
        PROVE  NewEdgesBacked
    <2>1. registered'.edges \ registered.edges \subseteq work.edges
      BY <1>4
    <2>. QED
      BY <1>1, <1>6, <2>1, Zenon DEF NewEdgesBacked, AllBacked
  <1>7. raised' \in BOOLEAN
    BY <1>1, <1>2 DEF WorkType
  <1>. QED
    BY <1>1, <1>2, <1>3, <1>5, <1>6, <1>7, Zenon

\* A default row that is kept stays anchored when rows are appended.
LEMMA DefaultKept ==
    ASSUME NodesTypeOK, DefaultAnchored, buffer' \in Seq(Config), Extends(buffer, buffer'),
           UNCHANGED <<defaultRow, orphan>>
    PROVE  DefaultAnchored'
  BY DEF DefaultAnchored, NodesTypeOK, Extends

\* A call that leaves the default node alone.
LEMMA CallPreserves ==
    ASSUME NodesInv, NEW work, GoodWork(work), Commit(work), ~orphan => AllBacked(work),
           UNCHANGED <<defaultFeasible, defaultRow, orphan>>
    PROVE  NodesInv' /\ NewEdgesBacked
  <1>1. /\ buffer' \in Seq(Config) /\ Len(buffer') <= MaxNodes /\ Extends(buffer, buffer')
        /\ RowsDistinct' /\ RegisteredRows' /\ NewEdgesBacked
    BY CommitPreserves
  <1>2. DefaultAnchored'
    BY <1>1, DefaultKept DEF NodesInv
  <1>3. NodesTypeOK'
    BY <1>1 DEF NodesInv, NodesTypeOK
  <1>. QED
    BY <1>1, <1>2, <1>3 DEF NodesInv

\* A step that leaves the nodes alone, and registers nothing.
LEMMA OthersPreserve ==
    ASSUME NodesInv, UNCHANGED <<buffer, defaultFeasible, defaultRow, orphan>>,
           registered' = registered \/ registered' = Empty
    PROVE  NodesInv' /\ NewEdgesBacked
  <1>1. NodesTypeOK' /\ DefaultAnchored' /\ RowsDistinct'
    BY DEF NodesInv, NodesTypeOK, DefaultAnchored, RowsDistinct, Distinct
  <1>2. RegisteredRows'
    BY EmptyType DEF NodesInv, RegisteredRows
  <1>3. NewEdgesBacked
    BY EmptyType DEF NewEdgesBacked
  <1>. QED
    BY <1>1, <1>2, <1>3 DEF NodesInv

\* The planner itself registers nothing.
LEMMA PlannerRegistersNothing ==
    ASSUME PlannerNext
    PROVE  registered' = registered \/ registered' = Empty
  BY Zenon DEF PlannerNext, ReadGraph, Materialize, Refresh, ResetBuffer, EmptyRoadmap, Finish,
     ChangeWorld, Extend, ExtendOverflows, FindPath, FindPathRejected, Grow, finder

\* A call starts with no edges.
LEMMA WorkBacked == AllBacked(Work)
  BY DEF AllBacked, Work

\* initialize_terminal_graph_connections; the default node may be installed.
LEMMA InitTerminalsPreserves ==
    ASSUME NodesInv, NEW problems \in Queries, InitTerminals(problems)
    PROVE  NodesInv' /\ NewEdgesBacked
  <1>1. PICK done : done = Connected(problems)
    OBVIOUS
  <1>2. /\ Commit(done) /\ defaultFeasible' = FeasibleAfter /\ defaultRow' = RowAfter
        /\ orphan' = (orphan /\ RowAfter = defaultRow)
    BY <1>1, Zenon DEF InitTerminals
  <1>3. /\ GoodWork(done) /\ Extends(WithDefault.buffer, done.buffer)
        /\ ~orphan => AllBacked(done)
    BY <1>1, ConnectedGood DEF NodesInv
  <1>4. /\ buffer' \in Seq(Config) /\ Len(buffer') <= MaxNodes /\ buffer' = done.buffer
        /\ RowsDistinct' /\ RegisteredRows' /\ NewEdgesBacked
    BY <1>2, <1>3, CommitPreserves
  <1>5. /\ GoodWork(WithDefault) /\ RowAfter \in 0 .. MaxNodes
        /\ RowAfter # 0 /\ ~(orphan /\ RowAfter = defaultRow) =>
             Anchored(WithDefault.buffer, DefaultNode)
    BY WithDefaultGood DEF NodesInv
  <1>6. DefaultAnchored'
    <2>. SUFFICES ASSUME defaultRow' # 0, ~orphan'
                  PROVE  defaultRow' \in DOMAIN buffer' /\ buffer'[defaultRow'] = Default
      BY DEF DefaultAnchored
    <2>1. Anchored(WithDefault.buffer, DefaultNode)
      BY <1>2, <1>5
    <2>2. WithDefault.buffer \in Seq(Config) /\ Extends(WithDefault.buffer, buffer')
      BY <1>3, <1>4, <1>5 DEF GoodWork, Fits
    <2>3. Anchored(buffer', DefaultNode)
      BY <1>4, <2>1, <2>2, AnchoredStays
    <2>. QED
      BY <1>2, <2>3 DEF Anchored, DefaultNode
  <1>7. FeasibleAfter \in {"unset", "yes", "no"}
    BY DEF FeasibleAfter, NodesInv, NodesTypeOK
  <1>8. NodesTypeOK'
    BY <1>2, <1>4, <1>5, <1>7 DEF NodesInv, NodesTypeOK
  <1>. QED
    BY <1>4, <1>6, <1>8 DEF NodesInv

\* connect_nodes.
LEMMA ConnectNodesPreserves ==
    ASSUME NodesInv, NEW c \in Candidates, NEW k \in CallNeighbors, ConnectNodes(<<c>>, k)
    PROVE  NodesInv' /\ NewEdgesBacked
  <1>1. PICK done : done = ConnectTo(Work, <<c>>, k)
    OBVIOUS
  <1>2. Commit(done) /\ UNCHANGED <<defaultFeasible, defaultRow, orphan>>
    BY <1>1, Zenon DEF ConnectNodes
  <1>3. c \in Config /\ <<c>> \in Seq(Config)
    <2>1. Candidates \subseteq Config
      BY NodesAssumption, Zenon DEF NodesAssumption
    <2>. QED
      BY <2>1
  <1>4. k \in Nat \ {0}
    BY Parameters
  <1>5. buffer \in Seq(Config) /\ GoodWork(Work)
    BY BufferFits DEF NodesInv
  <1>6. GoodWork(done) /\ AllBacked(done)
    BY <1>1, <1>3, <1>4, <1>5, WorkBacked, ConnectGood
  <1>. QED
    BY <1>2, <1>6, CallPreserves

\* add_initial_exact_nodes_to_roadmap, on an empty buffer or raising.
LEMMA AddInitialNodesPreserves ==
    ASSUME NodesInv, NEW c \in Candidates, AddInitialNodes(<<c>>)
    PROVE  NodesInv' /\ NewEdgesBacked
  <1>1. PICK done :
          /\ done = IF buffer = <<>> THEN AddNodes(Work, <<c>>, 0)
                                     ELSE [Work EXCEPT !.raised = TRUE]
          /\ Commit(done) /\ UNCHANGED <<defaultFeasible, defaultRow, orphan>>
    BY Zenon DEF AddInitialNodes
  <1>2. c \in Config /\ <<c>> \in Seq(Config) /\ 0 \in Nat
    <2>1. Candidates \subseteq Config
      BY NodesAssumption, Zenon DEF NodesAssumption
    <2>. QED
      BY <2>1
  <1>3. buffer \in Seq(Config) /\ GoodWork(Work) /\ Work.edges = {}
    BY BufferFits DEF NodesInv
  <1>4. CASE buffer = <<>>
    <2>1. AddsTo(Work, <<c>>, 0, done)
      BY <1>1, <1>2, <1>3, <1>4, AddNodesGood
    <2>2. GoodWork(done) /\ AllBacked(done)
      BY <1>3, <2>1, Zenon DEF AddsTo, AllBacked
    <2>. QED
      BY <1>1, <2>2, CallPreserves
  <1>5. CASE buffer # <<>>
    <2>1. done = [Work EXCEPT !.raised = TRUE]
      BY <1>1, <1>5
    <2>2. GoodWork(done) /\ AllBacked(done)
      BY <1>3, <2>1, WorkBacked, RaisedGood
    <2>. QED
      BY <1>1, <2>2, CallPreserves
  <1>. QED
    BY <1>4, <1>5

\* prune_path_with_shortcuts; a rebuild drops what it registered, not its rows.
LEMMA PrunePathPreserves ==
    ASSUME NodesInv, NEW i \in DOMAIN buffer, NEW j \in DOMAIN buffer, PrunePath(<<i, j>>)
    PROVE  NodesInv' /\ NewEdgesBacked
  <1>1. PICK path \in Seq(DOMAIN buffer) : path = <<i, j>>
    <2>1. PICK D : D = DOMAIN buffer
      OBVIOUS
    <2>2. <<i, j>> \in Seq(D)
      BY <2>1
    <2>. QED
      BY <2>1, <2>2
  <1>2. PICK work :
          /\ work = SteerAndRegister(Work, ShortcutPairs(path))
          /\ \/ Refresh /\ buffer' = work.buffer
             \/ Commit(work)
          /\ UNCHANGED <<defaultFeasible, defaultRow, orphan>>
    BY <1>1, Zenon DEF PrunePath
  <1>3. /\ buffer \in Seq(Config) /\ Fits(buffer) /\ GoodWork(Work) /\ Work.buffer = buffer
    BY BufferFits DEF NodesInv
  <1>4. /\ ShortcutPairs(path) \in Seq(SteerPairs)
        /\ AllAnchored(buffer, ShortcutPairs(path))
    BY <1>3, ShortcutPairsType
  <1>5. GoodWork(work) /\ AllBacked(work)
    BY <1>2, <1>3, <1>4, WorkBacked, SteerGood, Zenon
  <1>6. CASE Commit(work)
    BY <1>2, <1>5, <1>6, CallPreserves
  <1>7. CASE Refresh /\ buffer' = work.buffer
    <2>1. registered' = Empty
      BY <1>7 DEF Refresh
    <2>2. /\ buffer' \in Seq(Config) /\ Len(buffer') <= MaxNodes /\ RowsDistinct'
          /\ Extends(buffer, buffer')
      BY <1>5, <1>7 DEF GoodWork, Fits, RowsDistinct
    <2>3. DefaultAnchored'
      BY <1>2, <2>2, DefaultKept DEF NodesInv
    <2>4. NodesTypeOK'
      BY <1>2, <2>2 DEF NodesInv, NodesTypeOK
    <2>5. RegisteredRows' /\ NewEdgesBacked
      BY <2>1, EmptyType DEF RegisteredRows, NewEdgesBacked
    <2>. QED
      BY <2>2, <2>3, <2>4, <2>5 DEF NodesInv
  <1>. QED
    BY <1>2, <1>6, <1>7

\* GraphNodeManager.reset_buffer orphans a cached default row.
LEMMA ResetNodesPreserves ==
    ASSUME NodesInv, ResetNodes
    PROVE  NodesInv' /\ NewEdgesBacked
  <1>1. /\ registered' = Empty /\ buffer' = <<>> /\ orphan' = (defaultRow # 0)
        /\ UNCHANGED <<defaultFeasible, defaultRow>>
    BY DEF ResetNodes, Wipe
  <1>2. <<>> \in Seq(Config) /\ Len(<<>>) = 0 /\ DOMAIN <<>> = {}
    OBVIOUS
  <1>3. NodesTypeOK' /\ RowsDistinct'
    BY <1>1, <1>2, Parameters DEF NodesInv, NodesTypeOK, RowsDistinct, Distinct
  <1>4. DefaultAnchored'
    BY <1>1 DEF DefaultAnchored
  <1>5. RegisteredRows' /\ NewEdgesBacked
    BY <1>1, EmptyType DEF RegisteredRows, NewEdgesBacked
  <1>. QED
    BY <1>3, <1>4, <1>5 DEF NodesInv

\* 0, for no cached row, is in range.
LEMMA NoRow == 0 \in 0 .. MaxNodes /\ 0 <= MaxNodes
  BY Parameters

\* GraphConstructor.reset forgets the default row.
LEMMA ResetConstructorPreserves ==
    ASSUME NodesInv, ResetConstructor
    PROVE  NodesInv' /\ NewEdgesBacked
  <1>1. /\ registered' = registered /\ buffer' = buffer /\ orphan' = FALSE
        /\ defaultRow' = 0 /\ defaultFeasible' = "unset"
    BY DEF ResetConstructor, finder
  <1>2. NodesTypeOK'
    BY <1>1, NoRow DEF NodesInv, NodesTypeOK
  <1>3. RowsDistinct' /\ DefaultAnchored'
    BY <1>1 DEF NodesInv, RowsDistinct, Distinct, DefaultAnchored
  <1>4. RegisteredRows' /\ NewEdgesBacked
    BY <1>1 DEF NodesInv, RegisteredRows, NewEdgesBacked
  <1>. QED
    BY <1>2, <1>3, <1>4 DEF NodesInv

\* At first there are no rows.
LEMMA NodesInit == Init => NodesInv
  <1>. SUFFICES ASSUME Init PROVE NodesInv
    OBVIOUS
  <1>1. /\ buffer = <<>> /\ defaultFeasible = "unset" /\ defaultRow = 0 /\ orphan = FALSE
        /\ registered = Empty
    BY DEF Init, RoadmapInit
  <1>2. <<>> \in Seq(Config) /\ Len(<<>>) = 0 /\ DOMAIN <<>> = {}
    OBVIOUS
  <1>3. NodesTypeOK
    BY <1>1, <1>2, NoRow DEF NodesTypeOK
  <1>4. RowsDistinct /\ DefaultAnchored
    BY <1>1, <1>2 DEF RowsDistinct, Distinct, DefaultAnchored
  <1>5. RegisteredRows
    BY <1>1, EmptyType DEF RegisteredRows
  <1>. QED
    BY <1>3, <1>4, <1>5 DEF NodesInv

\* Every step keeps the invariant and registers backed edges only.
LEMMA NodesStep == NodesInv /\ [Next]_vars => NodesInv' /\ NewEdgesBacked
  <1>. SUFFICES ASSUME NodesInv, [Next]_vars PROVE NodesInv' /\ NewEdgesBacked
    OBVIOUS
  <1>1. CASE PlannerNext /\ UNCHANGED nodeVars
    BY <1>1, PlannerRegistersNothing, OthersPreserve DEF nodeVars
  <1>2. CASE \E problems \in Queries : InitTerminals(problems)
    BY <1>2, InitTerminalsPreserves
  <1>3. CASE \E c \in Candidates, k \in CallNeighbors : ConnectNodes(<<c>>, k)
    BY <1>3, ConnectNodesPreserves
  <1>4. CASE \E c \in Candidates : AddInitialNodes(<<c>>)
    BY <1>4, AddInitialNodesPreserves
  <1>5. CASE \E i, j \in DOMAIN buffer : i # j /\ PrunePath(<<i, j>>)
    BY <1>5, PrunePathPreserves
  <1>6. CASE ResetNodes
    BY <1>6, ResetNodesPreserves
  <1>7. CASE ResetConstructor
    BY <1>7, ResetConstructorPreserves
  <1>8. CASE UNCHANGED vars
    BY <1>8, OthersPreserve DEF vars, nodeVars, roadmapVars, finder
  <1>. QED
    BY <1>1, <1>2, <1>3, <1>4, <1>5, <1>6, <1>7, <1>8 DEF Next

\* The invariant holds of the whole planner.
LEMMA NodesInvariant == Spec => []NodesInv
  <1>1. NodesInv /\ [Next]_vars => NodesInv'
    BY NodesStep
  <1>. QED
    BY <1>1, NodesInit, PTL DEF Spec

\* The node buffer is never overrun, by whatever call.
THEOREM NodesTypes == Spec => []NodesTypeOK
  <1>1. NodesInv => NodesTypeOK
    BY DEF NodesInv
  <1>. QED
    BY <1>1, NodesInvariant, PTL

\* The cached row of the default posture holds it, until the node manager is
\* reset behind the constructor's back.
THEOREM DefaultStaysAnchored == Spec => []DefaultAnchored
  <1>1. NodesInv => DefaultAnchored
    BY DEF NodesInv
  <1>. QED
    BY <1>1, NodesInvariant, PTL

\* No configuration ever has two rows, and only rows are registered as nodes.
THEOREM NodesAreRows == Spec => [](RowsDistinct /\ RegisteredRows)
  <1>1. NodesInv => RowsDistinct /\ RegisteredRows
    BY DEF NodesInv
  <1>. QED
    BY <1>1, NodesInvariant, PTL

\* Every edge a call registers was steered along to a free point, and ends
\* within two similarity thresholds of it.
THEOREM EdgesAreBacked == Spec => EdgesBacked
  <1>1. NodesInv /\ [Next]_vars =>
          [~orphan => \A e \in registered'.edges \ registered.edges :
              Backed(buffer', e[1], e[2]) \/ Backed(buffer', e[2], e[1])]_vars
    BY NodesStep DEF NewEdgesBacked, Backs
  <1>. QED
    BY <1>1, NodesInvariant, PTL DEF Spec, EdgesBacked

-----------------------------------------------------------------------------
\* Types of the graph, in which the entries of others are rows of the buffer.
GraphTypes == graph \in GraphType /\ raised \in BOOLEAN

\* Joining two graphs of rows.
LEMMA JoinType ==
    ASSUME NEW g \in GraphType, NEW h \in GraphType
    PROVE  Join(g, h) \in GraphType
  BY DEF Join, GraphType

\* The rebuilt graph names samples.
LEMMA CompatGraphType ==
    ASSUME PlannerTypeOK
    PROVE  CompatGraph(samples, neighbors, world) \in GraphType
  <1>1. DOMAIN samples \subseteq 1 .. MaxNodes
    BY Parameters DEF PlannerTypeOK
  <1>2. Connections(samples, DOMAIN samples, neighbors, world)
          \subseteq (DOMAIN samples) \X (DOMAIN samples)
    BY Zenon DEF Connections, CandidatePairs
  <1>. QED
    BY <1>1, <1>2 DEF CompatGraph, GraphType

\* Every step keeps the types of the graph.
LEMMA GraphTypesStep ==
    ASSUME GraphTypes, PlannerTypeOK, NodesInv', [RoadmapNext]_roadmapVars
    PROVE  GraphTypes'
  <1>1. /\ Refresh \/ EmptyRoadmap \/ Wipe \/ Register \/ graph' = graph
        /\ raised' \in BOOLEAN
    <2>1. CASE Register \/ Wipe
      BY <2>1 DEF Register, Wipe, Returns
    <2>2. CASE ReadGraph \/ ResetBuffer \/ Finish \/ \E w \in Worlds : ChangeWorld(w)
      BY <2>2 DEF ReadGraph, Materialize, ResetBuffer, Finish, ChangeWorld, Returns, finder
    <2>3. CASE \E drawn \in Draws(NewNodes), k \in CallNeighbors :
                 Extend(drawn, k) \/ ExtendOverflows(drawn, k)
      BY <2>3 DEF Extend, ExtendOverflows, Returns, Raises, finder
    <2>4. CASE \E problems \in Queries : FindPath(problems) \/ FindPathRejected(problems)
      <3>1. raised' = FALSE
        BY <2>4, Zenon DEF FindPath, FindPathRejected, Returns
      <3>2. EmptyRoadmap \/ graph' = graph
        BY <2>4, Zenon DEF FindPath, FindPathRejected, finder
      <3>. QED
        BY <3>1, <3>2
    <2>5. CASE \E drawn \in Draws(Requested) : Grow(drawn)
      BY <2>5, Zenon DEF Grow, Returns, Raises, finder
    <2>6. CASE UNCHANGED roadmapVars
      BY <2>6 DEF roadmapVars, finder, result, GraphTypes
    <2>. QED
      BY <2>1, <2>2, <2>3, <2>4, <2>5, <2>6 DEF RoadmapNext, PlannerNext
  <1>2. registered' \in GraphType
    BY DEF NodesInv, RegisteredRows
  <1>3. CASE Refresh
    BY <1>1, <1>3, CompatGraphType DEF Refresh, GraphTypes
  <1>4. CASE EmptyRoadmap \/ Wipe
    BY <1>1, <1>4, EmptyType DEF EmptyRoadmap, Wipe, GraphTypes
  <1>5. CASE Register
    <2>1. graph' = Join(graph, registered')
      BY <1>5 DEF Register
    <2>. QED
      BY <1>1, <1>2, <2>1, JoinType DEF GraphTypes
  <1>6. CASE graph' = graph
    BY <1>1, <1>6 DEF GraphTypes
  <1>. QED
    BY <1>1, <1>3, <1>4, <1>5, <1>6

\* The graph and what is registered in it only name rows of the buffer and of
\* the roadmap, through every rebuild.
THEOREM GraphHasRows == Spec => []RoadmapTypeOK
  <1>1. Init => GraphTypes
    BY EmptyType DEF Init, RoadmapInit, GraphTypes
  <1>2. GraphTypes /\ PlannerTypeOK /\ NodesInv' /\ [RoadmapNext]_roadmapVars => GraphTypes'
    BY GraphTypesStep
  <1>3. GraphTypes /\ PlannerTypeOK /\ NodesInv => RoadmapTypeOK
    BY DEF GraphTypes, NodesInv, RegisteredRows, RoadmapTypeOK
  <1>. QED
    BY <1>1, <1>2, <1>3, NodesInvariant, NodesImplementRoadmap, RoadmapTypes, PTL
    DEF RoadmapSpec, Spec
=============================================================================
