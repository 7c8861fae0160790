---------------------------- MODULE RoadmapNodes -----------------------------
(***************************************************************************)
(* GraphNodeManager and GraphConstructor of curobo/_src/graph_planner/     *)
(* graph: a bounded buffer of de-duplicated nodes, edges to them that the  *)
(* linear connector has steered along, and the cached node of the default  *)
(* posture.  They write to the path finder of Roadmap; all of it together  *)
(* is one planner, and implements what Roadmap allows others to do.        *)
(*                                                                         *)
(* A call works on a record [buffer, rows, nodes, edges, raised]: the      *)
(* buffer it has so far, the rows its last points resolved to, what it has *)
(* put into the path finder, whether it raised.                            *)
(***************************************************************************)
EXTENDS Roadmap

CONSTANTS
    SteerLine,      \* SteerLine[a, b]: the points the linear connector checks
    Candidates,     \* bound: what callers add to the nodes themselves
    Default,        \* the default posture
    UseDefault,     \* use_default_position_heuristic
    ConnectNearest  \* connect_terminal_nodes_with_nearest

ASSUME NodesAssumption ==
    /\ SteerLine \in [Config \X Config -> Seq(Config)]
    /\ \A a, b \in Config : /\ SteerLine[a, b] # <<>>
                            /\ SteerLine[a, b][1] = a
                            /\ SteerLine[a, b][Len(SteerLine[a, b])] = b
    /\ \A a, b, c \in Config : Dist[a, c] <= Dist[a, b] + Dist[b, c]
    /\ Default \in Config /\ Candidates \subseteq Config
    /\ UseDefault \in BOOLEAN /\ ConnectNearest \in BOOLEAN

VARIABLES
    buffer,           \* the used rows of _preallocated_node_buffer
    defaultFeasible,  \* _default_joint_position_feasible
    defaultRow,       \* the index in _default_node_in_roadmap, 0 for None
    orphan            \* history: the buffer was reset under the cached row

nodeVars == <<buffer, defaultFeasible, defaultRow, orphan>>
vars == <<roadmapVars, nodeVars>>

Least(S) == CHOOSE n \in S : \A m \in S : n <= m

\* The elements of a finite set in a strict order of theirs.
Sorted(S, before(_, _)) ==
    [k \in 1 .. Cardinality(S) |->
        CHOOSE x \in S : Cardinality({y \in S : before(y, x)}) = k - 1]

-----------------------------------------------------------------------------
(* Node manager                                                            *)

\* First occurrences: no kept point is within the tolerance of another.
Kept(points, tol) ==
    LET kept[n \in 0 .. Len(points)] ==
          IF n = 0 THEN {}
          ELSE IF \E m \in kept[n - 1] : Dist[points[m], points[n]] <= tol
               THEN kept[n - 1]
               ELSE kept[n - 1] \cup {n}
    IN  kept[Len(points)]

ClosestRow(rows, c) ==
    CHOOSE r \in DOMAIN rows : \A s \in DOMAIN rows :
        \/ Dist[c, rows[r]] < Dist[c, rows[s]]
        \/ Dist[c, rows[r]] = Dist[c, rows[s]] /\ r <= s

\* Mutant: new rows are counted from the first row of the buffer.
NewRowFromStart(rows, missing, n) == Cardinality({m \in missing : m <= n})

NewRow(rows, missing, n) == Len(rows) + Cardinality({m \in missing : m <= n})

\* Mutant: the rows to be added are not counted.
NoRoomLate(rows, count) == Len(rows) > MaxNodes

NoRoom(rows, count) == Len(rows) + count > MaxNodes

\* add_nodes_to_roadmap and, on an empty buffer, add_initial_exact_nodes: every
\* point resolves to the closest row within the tolerance or to a new one, or
\* to what the kept point that stands for it resolves to.  The capacity is
\* checked before anything changes.
AddNodes(work, points, tol) ==
    LET rows == work.buffer
        kept == Kept(points, tol)
        missing == {n \in kept : \A r \in DOMAIN rows : Dist[points[n], rows[r]] > tol}
        order == Sorted(missing, <)
        standsFor(n) ==
          IF n \in kept THEN n
          ELSE Least({m \in kept : m < n /\ Dist[points[m], points[n]] <= tol})
        row(n) == IF n \in missing THEN NewRow(rows, missing, n)
                                   ELSE ClosestRow(rows, points[n])
        resolved == [n \in DOMAIN points |-> row(standsFor(n))]
    IN  IF work.raised THEN work
        ELSE IF NoRoom(rows, Len(order)) THEN [work EXCEPT !.raised = TRUE]
        ELSE [work EXCEPT
                !.buffer = rows \o [n \in DOMAIN order |-> points[order[n]]],
                !.nodes = @ \cup {resolved[n] : n \in DOMAIN points},
                !.rows = resolved]

-----------------------------------------------------------------------------
(* Steering and registration                                               *)

Blocked(line) == {n \in DOMAIN line : ~Free(line[n])}

\* Mutant: the first infeasible point is taken.
SteeredInto(a, b) ==
    LET line == SteerLine[a, b]
    IN  IF Blocked(line) = {} THEN b ELSE line[Least(Blocked(line))]

\* The last point before the first infeasible one; the start when it is bad.
Steered(a, b) ==
    LET line == SteerLine[a, b]
    IN  IF Blocked(line) = {} THEN b ELSE line[Larger(Least(Blocked(line)) - 1, 1)]

Undirected(i, j) == <<Smaller(i, j), Larger(i, j)>>

\* steer_and_register_edges: pairs of a row, [at, row], and a configuration.
\* (`<<>> \o' has TLC tabulate the points once.)
SteerAndRegister(work, pairs) ==
    LET points == <<>> \o [n \in DOMAIN pairs |-> Steered(pairs[n].from.at, pairs[n].to)]
        added == AddNodes(work, points, Similarity)
    IN  IF added.raised THEN added
        ELSE [added EXCEPT !.edges = @ \cup
                {Undirected(pairs[n].from.row, added.rows[n]) : n \in DOMAIN pairs}]

\* The rows of a buffer, nearest to c first.
NearestRows(buf, c) ==
    LET before(r, s) == \/ Dist[c, buf[r]] < Dist[c, buf[s]]
                        \/ Dist[c, buf[r]] = Dist[c, buf[s]] /\ r < s
    IN  Sorted(DOMAIN buf, before)

Row(buf, r) == [at |-> buf[r], row |-> r]

\* From each of the k rows nearest to a candidate towards it, candidate by
\* candidate.
NearestPairs(buf, candidates, k) ==
    LET each == Smaller(k, Len(buf))
        near == [m \in DOMAIN candidates |-> NearestRows(buf, candidates[m])]
    IN  [n \in 1 .. each * Len(candidates) |->
           LET m == 1 + ((n - 1) \div each)
           IN  [from |-> Row(buf, near[m][1 + ((n - 1) % each)]), to |-> candidates[m]]]

\* connect_nodes
ConnectTo(work, candidates, k) ==
    IF work.raised THEN work
    ELSE IF work.buffer = <<>> THEN [work EXCEPT !.raised = TRUE]
    ELSE SteerAndRegister(work, NearestPairs(work.buffer, candidates, k))

-----------------------------------------------------------------------------
(* Calls                                                                   *)

Work == [buffer |-> buffer, rows |-> <<>>, nodes |-> {}, edges |-> {}, raised |-> FALSE]

\* Mutant: the entries a call adds replace those there were.
CommitAlone(work) ==
    /\ buffer' = work.buffer
    /\ registered' = [nodes |-> work.nodes, edges |-> work.edges]
    /\ graph' = [nodes |-> work.nodes, edges |-> work.edges]
    /\ raised' = work.raised

\* What a call leaves, whether it raised or not.
Commit(work) ==
    /\ buffer' = work.buffer
    /\ registered' = Join(registered, work)
    /\ graph' = Join(graph, work)
    /\ raised' = work.raised

\* The default posture is looked at once, and installed when it is feasible.
\* Its feasibility is cached before its node is added, which may raise.
DefaultAsked    == UseDefault /\ defaultFeasible = "unset"
DefaultInstalls == DefaultAsked /\ Free(Default)

FeasibleAfter ==
    CASE DefaultInstalls -> "yes"
      [] DefaultAsked /\ ~DefaultInstalls -> "no"
      [] OTHER -> defaultFeasible

WithDefault == IF DefaultInstalls THEN AddNodes(Work, <<Default>>, 0) ELSE Work

RowAfter ==
    IF DefaultInstalls /\ ~WithDefault.raised THEN WithDefault.rows[1] ELSE defaultRow

\* Terminals are steered towards each other and to and from the default node.
TerminalPairs(starts, goals) ==
    LET default == [n \in DOMAIN starts |-> [at |-> Default, row |-> RowAfter]]
        zip(s, t) == [n \in DOMAIN s |-> [from |-> s[n], to |-> t[n].at]]
    IN  zip(starts, goals) \o zip(goals, starts) \o
        (IF FeasibleAfter = "yes"
         THEN zip(starts, default) \o zip(default, starts) \o
              zip(goals, default) \o zip(default, goals)
         ELSE <<>>)

Terminals(problems) ==
    [n \in 1 .. Len(problems) |-> problems[n][1]] \o
    [n \in 1 .. Len(problems) |-> problems[n][2]]

\* A default known to be feasible that has no node is an assertion error.
Connected(problems) ==
    LET size == Len(problems)
        points == Terminals(problems)
        added == AddNodes(WithDefault, points, 0)
        rows == [n \in DOMAIN points |-> [at |-> points[n], row |-> added.rows[n]]]
        pairs == TerminalPairs(SubSeq(rows, 1, size), SubSeq(rows, size + 1, 2 * size))
        steered == CASE added.raised -> added
                     [] ~added.raised /\ FeasibleAfter = "yes" /\ RowAfter = 0
                          -> [added EXCEPT !.raised = TRUE]
                     [] OTHER -> SteerAndRegister(added, pairs)
    IN  IF ConnectNearest THEN ConnectTo(steered, points, Neighbors) ELSE steered

\* initialize_terminal_graph_connections
InitTerminals(problems) ==
    /\ Idle
    /\ Commit(Connected(problems))
    /\ defaultFeasible' = FeasibleAfter
    /\ defaultRow' = RowAfter
    /\ orphan' = (orphan /\ RowAfter = defaultRow)
    /\ answer' = <<>>
    /\ UNCHANGED <<world, roadmap, query, seen>>

\* connect_nodes
ConnectNodes(candidates, k) ==
    /\ Idle
    /\ Commit(ConnectTo(Work, candidates, k))
    /\ answer' = <<>>
    /\ UNCHANGED <<world, roadmap, query, seen, defaultFeasible, defaultRow, orphan>>

\* add_initial_exact_nodes_to_roadmap
AddInitialNodes(points) ==
    /\ Idle
    /\ Commit(IF buffer = <<>> THEN AddNodes(Work, points, 0)
                              ELSE [Work EXCEPT !.raised = TRUE])
    /\ answer' = <<>>
    /\ UNCHANGED <<world, roadmap, query, seen, defaultFeasible, defaultRow, orphan>>

\* The ordered pairs of a path, each row with itself and those after it.
ShortcutPairs(path) ==
    LET forward == {p \in (DOMAIN path) \X (DOMAIN path) : p[1] <= p[2]}
        before(p, q) == p[1] < q[1] \/ (p[1] = q[1] /\ p[2] < q[2])
        sorted == Sorted(forward, before)
    IN  [n \in DOMAIN sorted |-> [from |-> Row(buffer, path[sorted[n][1]]),
                                  to |-> buffer[path[sorted[n][2]]]]]

\* prune_path_with_shortcuts registers the shortcuts of a path, then searches
\* the graph; a graph that is stale is rebuilt first, without the shortcuts.
PrunePath(path) ==
    LET work == SteerAndRegister(Work, ShortcutPairs(path))
    IN  /\ Idle
        /\ IF stale /\ ~work.raised
           THEN /\ Refresh
                /\ buffer' = work.buffer
                /\ raised' = FALSE
           ELSE /\ Commit(work)
                /\ UNCHANGED <<stale, seen>>
        /\ answer' = <<>>
        /\ UNCHANGED <<world, samples, neighbors, query, defaultFeasible, defaultRow, orphan>>

\* GraphNodeManager.reset_buffer; the default node it forgets is not the one
\* that the constructor caches.
ResetNodes ==
    /\ Wipe
    /\ buffer' = <<>>
    /\ orphan' = (defaultRow # 0)
    /\ UNCHANGED <<defaultFeasible, defaultRow>>

\* GraphConstructor.reset
ResetConstructor ==
    /\ Idle
    /\ defaultFeasible' = "unset"
    /\ defaultRow' = 0
    /\ orphan' = FALSE
    /\ Returns
    /\ UNCHANGED <<world, roadmap, finder, query, buffer>>

-----------------------------------------------------------------------------
Init ==
    /\ RoadmapInit
    /\ buffer = <<>>
    /\ defaultFeasible = "unset"
    /\ defaultRow = 0
    /\ orphan = FALSE

Next ==
    \/ PlannerNext /\ UNCHANGED nodeVars
    \/ \E problems \in Queries : InitTerminals(problems)
    \/ \E c \in Candidates, k \in CallNeighbors : ConnectNodes(<<c>>, k)
    \/ \E c \in Candidates : AddInitialNodes(<<c>>)
    \/ \E i, j \in DOMAIN buffer : i # j /\ PrunePath(<<i, j>>)
    \/ ResetNodes
    \/ ResetConstructor

Spec == Init /\ [][Next]_vars

-----------------------------------------------------------------------------
(* Properties                                                              *)

\* Types; the node buffer is never overrun (add_nodes_to_buffer).
NodesTypeOK ==
    /\ buffer \in Seq(Config) /\ Len(buffer) <= MaxNodes
    /\ defaultFeasible \in {"unset", "yes", "no"}
    /\ defaultRow \in 0 .. MaxNodes
    /\ orphan \in BOOLEAN

\* The row the constructor has cached for the default posture holds it, as long
\* as the node manager was not reset behind the constructor's back
\* (initialize_default_node).
DefaultAnchored ==
    defaultRow # 0 /\ ~orphan =>
        defaultRow \in DOMAIN buffer /\ buffer[defaultRow] = Default

\* Node p is as far as a steering line from a was found free.
Reached(a, p) ==
    \E b \in Config : \E n \in DOMAIN SteerLine[a, b] :
        /\ SteerLine[a, b][n] = p
        /\ \A m \in 1 .. n : Free(SteerLine[a, b][m])

\* An edge joins rows of the buffer, and was steered along from one of them to
\* a free point; de-duplication moves its end by two similarity thresholds at
\* most, however many nodes were merged (register_nodes_and_connections).
Backed(rows, i, j) ==
    /\ i \in DOMAIN rows /\ j \in DOMAIN rows
    /\ \/ Dist[rows[i], rows[j]] <= 2 * Similarity
       \/ \E p \in Config : Reached(rows[i], p) /\ Dist[p, rows[j]] <= 2 * Similarity

\* Every edge a call registers is backed by steering in the world of the call,
\* also when the call goes on to raise (steer_and_register_edges).
EdgesBacked ==
    [][~orphan => \A e \in registered'.edges \ registered.edges :
          Backed(buffer', e[1], e[2]) \/ Backed(buffer', e[2], e[1])]_vars
=============================================================================
