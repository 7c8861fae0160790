------------------------------- MODULE Roadmap -------------------------------
(***************************************************************************)
(* PRMGraphPlanner of curobo/_src/graph_planner/graph_planner_prm.py: the  *)
(* persistent roadmap samples, path queries that grow them, and the graph  *)
(* over sample indices that is rebuilt lazily before it is read.           *)
(*                                                                         *)
(* That graph lives in a path finder that the node manager and the graph   *)
(* constructor write to as well.  Register and Wipe are all that this      *)
(* module knows of them; RoadmapNodes gives the actions that do it.        *)
(*                                                                         *)
(* Abstractions.  A configuration is a value, distances and the points an  *)
(* edge is checked at are tables, the collision world is the set of        *)
(* configurations it makes infeasible.  Only whether the compatibility     *)
(* graph's generation equals the roadmap's matters, and a generation never *)
(* comes back: `stale' says that they differ.  The path finder's staged    *)
(* and committed entries are one graph: every read commits first and every *)
(* reset drops both.  Indices count from 1.                                *)
(***************************************************************************)
EXTENDS Integers, Sequences, FiniteSets

CONSTANTS
    Config,          \* robot configurations
    Dist,            \* Dist[a, b]: the weighted c-space distance
    Edge,            \* Edge[a, b]: the points interpolate_edge checks
    Worlds,          \* bound: the sets of infeasible configurations
    Radius,          \* connection_radius
    Similarity,      \* cspace_similarity_threshold
    MaxNodes,        \* max_nodes
    Neighbors,       \* neighbors_per_node
    CallNeighbors,   \* bound: the neighbors_per_node of an extension call
    NewNodes,        \* new_nodes_per_iteration
    Iterations,      \* max_path_finding_iterations
    GrowthFactor,    \* of new_nodes_per_iteration and neighbors_per_node
    Queries,         \* bound: the batches of <<start, goal>> callers plan
    Drawable         \* bound: the configurations the sampler can draw

\* More neighbors than there are nodes is the same as all of them.
MaxNeighbors == MaxNodes + 1

ASSUME RoadmapAssumption ==
    /\ Dist \in [Config \X Config -> Nat]
    /\ \A a, b \in Config : Dist[a, b] = Dist[b, a] /\ (Dist[a, b] = 0 <=> a = b)
    /\ Edge \in [Config \X Config -> SUBSET Config]
    /\ \A a, b \in Config : Edge[a, b] = Edge[b, a] /\ {a, b} \subseteq Edge[a, b]
    /\ Worlds \subseteq SUBSET Config /\ "wiped" \notin Config
    /\ Radius \in Nat /\ Similarity \in Nat
    /\ MaxNodes \in Nat \ {0, 1}
    /\ Neighbors \in 1 .. MaxNeighbors
    /\ CallNeighbors \subseteq 1 .. MaxNeighbors
    /\ NewNodes \in Nat /\ Iterations \in Nat /\ GrowthFactor \in Nat \ {0}
    /\ Queries \subseteq Seq(Config \X Config)
    /\ Drawable \subseteq Config

VARIABLES
    world,        \* what check_samples_feasibility rejects now
    samples,      \* _roadmap_samples
    neighbors,    \* _roadmap_neighbors_per_node
    stale,        \* _compat_graph_generation # _generation
    graph,        \* graph_path_finder: nodes and undirected edges <<i, j>>, i <= j
    query,        \* the find_path that is growing the roadmap
    answer,       \* the result of the find_path that has just returned
    raised,       \* whether the call that has just returned raised
    seen,         \* history: the world the graph was last rebuilt in, or Wiped
    registered    \* history: what others put into the graph since it was emptied

roadmap == <<samples, neighbors, stale>>
finder  == <<graph, seen, registered>>
result  == <<query, answer, raised>>
roadmapVars == <<world, roadmap, finder, result>>

\* Others have emptied the graph since it was rebuilt.
Wiped == {"wiped"}

Empty == [nodes |-> {}, edges |-> {}]
Join(g, h) == [nodes |-> g.nodes \cup h.nodes, edges |-> g.edges \cup h.edges]

NoQuery == [problems |-> <<>>, pending |-> {}, k |-> 0,
            requested |-> 0, policy |-> 0, left |-> 0]
Idle == query = NoQuery

Smaller(a, b) == IF a < b THEN a ELSE b
Larger(a, b)  == IF a < b THEN b ELSE a

-----------------------------------------------------------------------------
(* Connections                                                             *)

Free(c) == c \notin world
Feasible(w, a, b) == Edge[a, b] \cap w = {}

\* Node m is preferred to node j as a neighbor of i: sorted by distance, index.
Closer(nodes, i, m, j) ==
    \/ Dist[nodes[i], nodes[m]] < Dist[nodes[i], nodes[j]]
    \/ Dist[nodes[i], nodes[m]] = Dist[nodes[i], nodes[j]] /\ m < j

\* The k nodes of `used' nearest to i within the connection radius.
Nearest(nodes, used, i, k) ==
    LET others == used \ {i}
    IN  {j \in others :
            /\ Dist[nodes[i], nodes[j]] <= Radius
            /\ Cardinality({m \in others : Closer(nodes, i, m, j)}) < k}

CandidatePairs(nodes, used, k) ==
    {e \in used \X used :
        /\ e[1] < e[2]
        /\ e[2] \in Nearest(nodes, used, e[1], k) \/ e[1] \in Nearest(nodes, used, e[2], k)}

\* The pairs of used nodes that are connected in world w.
Connections(nodes, used, k, w) ==
    {e \in CandidatePairs(nodes, used, k) : Feasible(w, nodes[e[1]], nodes[e[2]])}

CompatGraph(nodes, k, w) ==
    [nodes |-> DOMAIN nodes, edges |-> Connections(nodes, DOMAIN nodes, k, w)]

-----------------------------------------------------------------------------
(* The lazily rebuilt graph                                                *)

\* A read of the graph whose generation is behind drops everything in it and
\* rebuilds it from the samples.
Refresh ==
    /\ stale
    /\ graph' = CompatGraph(samples, neighbors, world)
    /\ seen' = world
    /\ registered' = Empty
    /\ stale' = FALSE

Materialize ==
    \/ Refresh
    \/ ~stale /\ UNCHANGED <<stale, finder>>

Returns == answer' = <<>> /\ raised' = FALSE
Raises  == answer' = <<>> /\ raised' = TRUE

\* Every inspection of the graph view and every index path query.
ReadGraph ==
    /\ Idle
    /\ Materialize
    /\ Returns
    /\ UNCHANGED <<world, samples, neighbors, query>>

\* Others add entries to the path finder.
Register ==
    /\ Idle
    /\ registered.nodes \subseteq registered'.nodes
    /\ registered.edges \subseteq registered'.edges
    /\ graph' = Join(graph, registered')
    /\ UNCHANGED <<world, roadmap, query, seen>>
    /\ answer' = <<>>
    /\ raised' \in BOOLEAN

\* Others empty the path finder.
Wipe ==
    /\ Idle
    /\ graph' = Empty
    /\ registered' = Empty
    /\ seen' = Wiped
    /\ UNCHANGED <<world, roadmap, query>>
    /\ Returns

\* The collision world changes under the planner, which is not told.
ChangeWorld(w) ==
    /\ Idle
    /\ world' = w
    /\ Returns
    /\ UNCHANGED <<roadmap, finder, query>>

-----------------------------------------------------------------------------
(* Extension                                                               *)

\* Rejection sampling: at most `count' samples, all of them feasible.
Draws(count) ==
    UNION {[1 .. n -> {c \in Drawable : Free(c)}] : n \in 0 .. count}

\* Mutant: new samples are put in front of the others.
AddSamplesFirst(drawn, k) ==
    /\ samples' = drawn \o samples
    /\ neighbors' = Larger(neighbors, k)
    /\ stale' = (stale \/ k > neighbors \/ drawn # <<>>)

\* Mutant: an extension does not advance the generation.
AddSamplesQuietly(drawn, k) ==
    /\ samples' = samples \o drawn
    /\ neighbors' = Larger(neighbors, k)
    /\ stale' = (stale \/ k > neighbors)

\* _append_samples below a policy of at least k neighbors.
AddSamples(drawn, k) ==
    /\ samples' = samples \o drawn
    /\ neighbors' = Larger(neighbors, k)
    /\ stale' = (stale \/ k > neighbors \/ drawn # <<>>)

\* extend_roadmap_with_random_samples, extend_roadmap_with_ellipsoidal_samples.
Extend(drawn, k) ==
    /\ Idle
    /\ Len(samples) + Len(drawn) <= MaxNodes
    /\ AddSamples(drawn, k)
    /\ Returns
    /\ UNCHANGED <<world, finder, query>>

\* The policy is raised before the append fails, and stays raised.
ExtendOverflows(drawn, k) ==
    /\ Idle
    /\ Len(samples) + Len(drawn) > MaxNodes
    /\ AddSamples(<<>>, k)
    /\ Raises
    /\ UNCHANGED <<world, finder, query>>

\* What reset_buffer leaves.
EmptyRoadmap ==
    /\ samples' = <<>>
    /\ neighbors' = Neighbors
    /\ stale' = FALSE
    /\ graph' = Empty
    /\ registered' = Empty
    /\ seen' = world

\* reset_buffer, and warmup, which also restarts the samplers.
ResetBuffer ==
    /\ Idle
    /\ EmptyRoadmap
    /\ Returns
    /\ UNCHANGED <<world, query>>

-----------------------------------------------------------------------------
(* find_path                                                               *)

\* The nodes of one query: its terminals, and the samples that are feasible now.
QueryNodes(p) == p \o samples
Inner == {n + 2 : n \in {m \in DOMAIN samples : Free(samples[m])}}
Used  == {1, 2} \cup Inner

RouteCost(nodes, route) ==
    LET cost[n \in 1 .. Len(route)] ==
          IF n = 1 THEN 0
                   ELSE cost[n - 1] + Dist[nodes[route[n - 1]], nodes[route[n]]]
    IN  cost[Len(route)]

\* Mutant: edges are taken from the graph instead of being checked again.
QueryEdgesCached(p, k) == Connections(QueryNodes(p), Used, k, seen)

\* The edges of one query, validated when it is planned.
QueryEdges(p, k) == Connections(QueryNodes(p), Used, k, world)

\* From the start (node 1) to the goal (node 2).
InnerSeqs == UNION {[1 .. n -> Inner] : n \in 0 .. Len(samples)}
Trails == {<<1>> \o w \o <<2>> : w \in InnerSeqs}

\* Simple routes along the edges of a query.
Routes(p, k) ==
    LET edges == QueryEdges(p, k)
    IN  {r \in Trails :
            /\ \A m, n \in DOMAIN r : r[m] = r[n] => m = n
            /\ \A n \in 1 .. Len(r) - 1 :
                 <<Smaller(r[n], r[n + 1]), Larger(r[n], r[n + 1])>> \in edges}

\* The plans of least cost; the search returns one of them.
Plans(p, k) ==
    LET nodes == QueryNodes(p)
        routes == Routes(p, k)
    IN  {[n \in DOMAIN r |-> nodes[r[n]]] :
            r \in {r \in routes : \A other \in routes :
                     RouteCost(nodes, r) <= RouteCost(nodes, other)}}

Solved(q) == {i \in q.pending : Routes(q.problems[i], q.k) # {}}

\* More than three quarters of the buffer in use: find_path starts over.
Crowded == 4 * Len(samples) > 3 * MaxNodes

Failure(p) == [start |-> p[1], goal |-> p[2], ok |-> FALSE, plan |-> <<>>]

\* find_path up to the direct connections: `pending' have none.
FindPath(problems) ==
    /\ Idle
    /\ \A i \in DOMAIN problems : Free(problems[i][1]) /\ Free(problems[i][2])
    /\ IF Crowded THEN EmptyRoadmap ELSE UNCHANGED <<roadmap, finder>>
    /\ query' = [problems |-> problems,
                 pending |-> {i \in DOMAIN problems :
                                ~Feasible(world, problems[i][1], problems[i][2])},
                 k |-> neighbors', requested |-> NewNodes,
                 policy |-> neighbors', left |-> Iterations]
    /\ Returns
    /\ UNCHANGED world

\* One infeasible endpoint fails every query of the batch.
FindPathRejected(problems) ==
    /\ Idle
    /\ \E i \in DOMAIN problems : ~Free(problems[i][1]) \/ ~Free(problems[i][2])
    /\ IF Crowded THEN EmptyRoadmap ELSE UNCHANGED <<roadmap, finder>>
    /\ answer' = [i \in DOMAIN problems |-> Failure(problems[i])]
    /\ raised' = FALSE
    /\ UNCHANGED <<world, query>>

\* Mutant: what is left of the buffer is not looked at.
RequestedAlways == query.requested

\* The samples asked for in this round.
Requested == Smaller(query.requested, MaxNodes - Len(samples))

Exhausted ==
    \/ Solved(query) = query.pending
    \/ query.requested = 0
    \/ Len(samples) >= MaxNodes
    \/ query.left = 0

\* One round of growth: samples around the first failed query are appended and
\* everything pending is planned again.
Grow(drawn) ==
    LET policy == Smaller(query.policy * GrowthFactor, MaxNeighbors)
    IN  /\ ~Idle
        /\ ~Exhausted
        /\ drawn # <<>>
        /\ IF Len(samples) + Len(drawn) <= MaxNodes
           THEN /\ AddSamples(drawn, policy)
                /\ query' = [query EXCEPT !.k = Larger(neighbors, query.policy),
                                          !.requested = @ * GrowthFactor,
                                          !.policy = policy,
                                          !.left = @ - 1]
                /\ Returns
           ELSE /\ query' = NoQuery
                /\ Raises
                /\ UNCHANGED roadmap
        /\ UNCHANGED <<world, finder>>

Similar(a, b) == Dist[a, b] < Similarity

Outcome(i, plans, rejected) ==
    LET p == query.problems[i]
        plan == IF i \notin query.pending \/ Similar(p[1], p[2]) THEN p
                ELSE IF i \in DOMAIN plans THEN plans[i] ELSE <<>>
    IN  [start |-> p[1], goal |-> p[2], plan |-> plan,
         ok |-> plan # <<>> /\ i \notin rejected]

\* find_path returns: every query is solved, the rounds or the buffer are used
\* up, or the sampler found nothing feasible.  `rejected' are the plans whose
\* interpolation, at other points than their edges, turned out infeasible.
Finish ==
    /\ ~Idle
    /\ \E plans \in [Solved(query) -> UNION {Plans(query.problems[i], query.k) :
                                               i \in Solved(query)}],
           rejected \in SUBSET DOMAIN query.problems :
         /\ \A i \in DOMAIN plans : plans[i] \in Plans(query.problems[i], query.k)
         /\ answer' = [i \in DOMAIN query.problems |-> Outcome(i, plans, rejected)]
    /\ query' = NoQuery
    /\ raised' = FALSE
    /\ UNCHANGED <<world, roadmap, finder>>

-----------------------------------------------------------------------------
RoadmapInit ==
    /\ world \in Worlds
    /\ samples = <<>>
    /\ neighbors = Neighbors
    /\ stale = TRUE
    /\ graph = Empty
    /\ query = NoQuery
    /\ answer = <<>>
    /\ raised = FALSE
    /\ seen = world
    /\ registered = Empty

PlannerNext ==
    \/ ReadGraph
    \/ ResetBuffer
    \/ Finish
    \/ \E w \in Worlds : ChangeWorld(w)
    \/ \E drawn \in Draws(NewNodes), k \in CallNeighbors :
          Extend(drawn, k) \/ ExtendOverflows(drawn, k)
    \/ \E problems \in Queries : FindPath(problems) \/ FindPathRejected(problems)
    \/ \E drawn \in Draws(Requested) : Grow(drawn)

RoadmapNext == PlannerNext \/ Register \/ Wipe

RoadmapSpec == RoadmapInit /\ [][RoadmapNext]_roadmapVars

-----------------------------------------------------------------------------
(* Properties                                                              *)

GraphType ==
    [nodes : SUBSET (1 .. MaxNodes),
     edges : SUBSET ((1 .. MaxNodes) \X (1 .. MaxNodes))]

\* Types of what the planner alone writes; the roadmap never outgrows the node
\* buffer (_append_samples).
PlannerTypeOK ==
    /\ world \in Worlds /\ seen \in Worlds \cup {Wiped}
    /\ samples \in Seq(Config) /\ Len(samples) <= MaxNodes
    /\ neighbors \in 1 .. MaxNeighbors
    /\ stale \in BOOLEAN
    /\ \/ Idle
       \/ query \in [problems : Queries, pending : SUBSET Nat, k : 1 .. MaxNeighbors,
                      requested : Nat, policy : 1 .. MaxNeighbors, left : Nat]

\* Types.
RoadmapTypeOK ==
    /\ PlannerTypeOK
    /\ raised \in BOOLEAN
    /\ graph \in GraphType /\ registered \in GraphType

\* A graph that counts as current is the graph of the samples and the neighbor
\* policy of now, in the world it was rebuilt in, and of what was registered
\* since: no extension, growth, policy change or reset leaves an old graph to
\* be served (_ensure_compat_graph, _append_samples, reset_buffer).
GraphCurrent ==
    ~stale /\ seen # Wiped => graph = Join(CompatGraph(samples, neighbors, seen), registered)

\* A plan find_path calls a success joins its terminals by edges that are free
\* in the world of now, whatever world its samples and the graph come from;
\* only near-identical terminals are joined unchecked (_find_path_impl).
PlanSound ==
    \A i \in DOMAIN answer :
        LET row == answer[i]
        IN  row.ok =>
              /\ Len(row.plan) >= 2
              /\ row.plan[1] = row.start /\ row.plan[Len(row.plan)] = row.goal
              /\ Free(row.start) /\ Free(row.goal)
              /\ \/ Similar(row.start, row.goal)
                 \/ \A n \in 1 .. Len(row.plan) - 1 :
                      Feasible(world, row.plan[n], row.plan[n + 1])

\* A roadmap index means the same configuration until the roadmap is emptied
\* together with the graph that is indexed by it (_append_samples).
IndicesStable ==
    [][\/ samples' = <<>> /\ graph' = Empty
       \/ /\ Len(samples) <= Len(samples')
          /\ \A i \in DOMAIN samples : samples'[i] = samples[i]]_roadmapVars

\* find_path never fails for want of room: it asks for no more samples than
\* the buffer can take (_plan_with_growth).
QueryNeverRaises == [][~Idle => ~raised']_roadmapVars
=============================================================================
