------------------------------ MODULE Descent -------------------------------
(***************************************************************************)
(* One gradient stage of curobo/_src/optim/gradient: GradientDescentOpt,   *)
(* ConjugateGradientOpt, LBFGSOpt and LSR1Opt, which differ in how they    *)
(* move and share the lifecycle: a solve takes its start from the pending  *)
(* warm start, iterates over a batch of problems at once, keeps the best   *)
(* action of each, and stops when enough problems have converged.          *)
(*                                                                         *)
(* Abstractions.  How a step is computed is left out: a problem moves to   *)
(* any action its method can accept (Moves).  The gradient of a cost that  *)
(* is not finite is masked to zero, so such a problem never recovers; a    *)
(* gradient that is not finite can lose a problem for good, except in      *)
(* gradient descent, which refuses the candidate.  The curvature histories *)
(* only choose among the moves and are left out, and with them reset_shape *)
(* and clear_optimizer_state.  The relative threshold, zero by default, is *)
(* left out.  The number of problems is fixed between resizes.  A call     *)
(* that is rejected for its arguments changes nothing.                     *)
(***************************************************************************)
EXTENDS Objectives, Sequences, FiniteSets

CONSTANTS
    Problems,     \* the rows of the batch
    Clamp,        \* projection of an action into the published bounds
    Settings,     \* bound: the configurations there are
    NoRun         \* no solve is running

Rules == {"gradient_descent", "conjugate_gradient", "lbfgs"}
Rows == [Problems -> Actions]
Configs == [rule : Rules, iters : Nat, required : Nat \ {0}, percent : 0 .. 100,
            minimum : Nat, fixed : BOOLEAN, tolerance : Nat, returnBest : BOOLEAN]
Runs == [warm : BOOLEAN, start : Rows, x : Rows, best : Rows,
         cost : [Problems -> 0 .. Infinite], streak : [Problems -> Nat],
         trace : Seq([Problems -> 0 .. Infinite]), stop : BOOLEAN]

ASSUME DescentAssumption ==
    /\ Problems # {} /\ IsFiniteSet(Problems)
    /\ Clamp \in [Actions -> Actions]
    /\ \A a \in Actions : Clamp[Clamp[a]] = Clamp[a]
    /\ Settings \subseteq Configs
    /\ NoAction \notin Rows
    /\ NoRun \notin Runs

VARIABLES
    original,  \* _original_num_iters
    config,    \* config: rule, num_iters, convergence_iteration + 1,
               \* converged_ratio, minimum_iters, fixed_iters,
               \* cost_convergence and return_best_action
    enabled,   \* _enabled
    goal,      \* what the rollout is asked for
    pend,      \* _pending_action, _reinitialized_action
    best,      \* _best_action
    run,       \* the locals of a running optimize, its trace as in debug
    asked      \* history: what reinitialize was asked for, per problem

vars == <<original, config, enabled, goal, pend, best, run, asked>>

Idle == run = NoRun
Nothing == [p \in Problems |-> NoAction]

\* Gradient descent projects; the others only validate the bounds.
Projected(rule, rows) ==
    IF rule = "gradient_descent" THEN [p \in Problems |-> Clamp[rows[p]]] ELSE rows

-----------------------------------------------------------------------------
(* optimize                                                                *)

\* Mutant: the warm start stays pending.
OptimizeKeeping(seed) ==
    /\ Idle /\ enabled
    /\ LET start == Start(pend, Projected(config.rule, seed)) IN
       run' = [warm |-> pend # NoAction, start |-> start, x |-> start, best |-> start,
               cost |-> Costs(goal, start), streak |-> [p \in Problems |-> 0],
               trace |-> <<>>, stop |-> config.iters = 0]
    /\ UNCHANGED <<original, config, enabled, goal, pend, best, asked>>

\* The warm start is used up before anything is evaluated.
Optimize(seed) ==
    /\ Idle /\ enabled
    /\ LET start == Start(pend, Projected(config.rule, seed)) IN
       run' = [warm |-> pend # NoAction, start |-> start, x |-> start, best |-> start,
               cost |-> Costs(goal, start), streak |-> [p \in Problems |-> 0],
               trace |-> <<>>, stop |-> config.iters = 0]
    /\ pend' = NoAction
    /\ UNCHANGED <<original, config, enabled, goal, best, asked>>

\* Where a step may take a problem.  L-BFGS picks the cheapest of candidates that
\* include where it is; a fixed step, or a line search along a direction that
\* does not descend, may go uphill.
Moves(old, new) ==
    LET before == Cost[goal][old]
        after  == Cost[goal][new]
    IN  \/ new = old
        \/ /\ config.rule = "gradient_descent"
           /\ Finite(before) /\ Finite(after) /\ Clamp[new] = new
        \/ config.rule # "gradient_descent" /\ ~Finite(after)
        \/ config.rule = "conjugate_gradient" /\ Finite(before)
        \/ config.rule = "lbfgs" /\ Finite(before) /\ after <= before

\* Mutant: an action counts as an improvement on the action before it.
ImprovesOnLast(cost) == {p \in Problems : Finite(cost[p]) /\ cost[p] < Cost[goal][run.x[p]]}

Improves(cost) == {p \in Problems : Finite(cost[p]) /\ cost[p] < run.cost[p]}

\* The best of a problem has not changed by more than the tolerance.
Stable(before, after) ==
    Finite(before) /\ Finite(after) /\ before - after <= config.tolerance

\* Mutant: the count of a problem is not taken back when it improves again.
StreakKept(cost) ==
    [p \in Problems |-> IF ~config.fixed /\ Stable(run.cost[p], cost[p])
                        THEN run.streak[p] + 1 ELSE run.streak[p]]

\* _convergence_count: fixed_iters returns before it is counted.
Streak(cost) ==
    [p \in Problems |-> IF config.fixed THEN run.streak[p]
                        ELSE IF Stable(run.cost[p], cost[p]) THEN run.streak[p] + 1 ELSE 0]

\* converged_ratio of the problems: for two problems, half of them are 50 percent.
Enough(problems) == 100 * Cardinality(problems) >= config.percent * Cardinality(Problems)

\* _should_stop after the count was brought up to date.
ShouldStop(streak, iteration) ==
    /\ ~config.fixed
    /\ iteration >= config.minimum
    /\ Enough({p \in Problems : streak[p] >= config.required})

Iterate(x) ==
    /\ ~Idle /\ ~run.stop
    /\ \A p \in Problems : Moves(run.x[p], x[p])
    /\ LET moved == Costs(goal, x)
           improved == Improves(moved)
           cost == [p \in Problems |-> IF p \in improved THEN moved[p] ELSE run.cost[p]]
           streak == Streak(cost)
           iteration == Len(run.trace) + 1
       IN run' = [run EXCEPT
                    !.x = x,
                    !.best = [p \in Problems |-> IF p \in improved THEN x[p] ELSE run.best[p]],
                    !.cost = cost,
                    !.streak = streak,
                    !.trace = Append(run.trace, cost),
                    !.stop = iteration >= config.iters \/ ShouldStop(streak, iteration)]
    /\ UNCHANGED <<original, config, enabled, goal, pend, best, asked>>

\* Mutant: the last action is returned whatever it costs.
OutputUnchecked == IF config.returnBest THEN run.best ELSE run.x

\* What optimize returns.
Output ==
    [p \in Problems |-> IF config.returnBest \/ ~Finite(Cost[goal][run.x[p]])
                        THEN run.best[p] ELSE run.x[p]]

Return ==
    /\ ~Idle /\ run.stop
    /\ best' = run.best
    /\ run' = NoRun
    /\ asked' = Nothing
    /\ UNCHANGED <<original, config, enabled, goal, pend>>

\* The rollout raises while it evaluates: locals are lost, attributes are not.
Raise ==
    /\ ~Idle
    /\ run' = NoRun
    /\ asked' = Nothing
    /\ UNCHANGED <<original, config, enabled, goal, pend, best>>

-----------------------------------------------------------------------------
(* Lifecycle                                                               *)

\* restart is reset_num_iters.
Reinitialize(action, mask, restart) ==
    /\ Idle
    /\ config' = [config EXCEPT !.iters = IF restart THEN original ELSE config.iters]
    /\ pend' = Merge(pend, Projected(config.rule, action), mask)
    /\ best' = NoAction
    /\ asked' = [p \in Problems |-> IF p \in mask THEN action[p] ELSE asked[p]]
    /\ UNCHANGED <<original, enabled, goal, run>>

\* What shift, reset and a resize have in common.
Forget ==
    /\ Idle
    /\ pend' = NoAction /\ best' = NoAction
    /\ asked' = Nothing
    /\ UNCHANGED <<original, config, enabled, goal, run>>

Shift == Forget
Reset == Forget
UpdateNumProblems == Forget

\* A disabled stage hands its seed on and keeps its warm start.
Toggle == Idle /\ enabled' = ~enabled /\ UNCHANGED <<original, config, goal, pend, best, run, asked>>

UpdateRolloutParams ==
    /\ Idle
    /\ goal' \in Goals
    /\ UNCHANGED <<original, config, enabled, pend, best, run, asked>>

UpdateNiters ==
    /\ Idle
    /\ config' \in {[config EXCEPT !.iters = c.iters] : c \in Settings}
    /\ UNCHANGED <<original, enabled, goal, pend, best, run, asked>>

\* The class of an optimizer is not one of its parameters.
UpdateSolverParams ==
    /\ Idle
    /\ config' \in {c \in Settings : c.rule = config.rule}
    /\ UNCHANGED <<original, enabled, goal, pend, best, run, asked>>

Init ==
    /\ config \in Settings
    /\ original = config.iters
    /\ enabled = TRUE
    /\ goal \in Goals
    /\ pend = NoAction /\ best = NoAction
    /\ run = NoRun
    /\ asked = Nothing

Next ==
    \/ \E seed \in Rows : Optimize(seed)
    \/ \E x \in Rows : Iterate(x)
    \/ Return
    \/ Raise
    \/ \E action \in Rows, mask \in SUBSET Problems, restart \in BOOLEAN :
            Reinitialize(action, mask, restart)
    \/ Shift
    \/ Reset
    \/ UpdateNumProblems
    \/ Toggle
    \/ UpdateRolloutParams
    \/ UpdateNiters
    \/ UpdateSolverParams

Spec == Init /\ [][Next]_vars

-----------------------------------------------------------------------------
(* Properties                                                              *)

\* Types of the lifecycle attributes and of a running solve.
TypeOK ==
    /\ original \in Nat /\ config \in Configs /\ enabled \in BOOLEAN /\ goal \in Goals
    /\ pend \in Rows \cup {NoAction}
    /\ best \in Rows \cup {NoAction}
    /\ run \in Runs \cup {NoRun}
    /\ asked \in [Problems -> Actions \cup {NoAction}]

\* The start of a solve and the best costs after each of its iterations.
CostAfter(n) == IF n = 0 THEN Costs(goal, run.start) ELSE run.trace[n]

\* The best cost of a problem is that of its best action, and the lowest it has
\* had: no worse than the start, than any iteration before, or than where it is.
BestOfVisited ==
    ~Idle =>
        /\ run.cost = Costs(goal, run.best)
        /\ run.cost = CostAfter(Len(run.trace))
        /\ Keeps(goal, run.best, run.x)
        /\ \A n \in 1 .. Len(run.trace), p \in Problems : CostAfter(n)[p] <= CostAfter(n - 1)[p]

\* A problem whose best cost stayed within the tolerance in the last iterations,
\* as many as are required.
Settled(p) ==
    LET n == Len(run.trace) IN
    /\ n >= config.required
    /\ \A k \in n - config.required + 1 .. n : Stable(CostAfter(k - 1)[p], CostAfter(k)[p])

\* A solve stops exactly when it has used up its iterations, or when enough
\* problems of the batch are settled and the minimum was made; the counts of
\* _should_stop, which are carried from iteration to iteration, agree with the
\* trace, and one problem that never becomes finite does not count as settled.
StopsOnConvergence ==
    ~Idle =>
        LET n == Len(run.trace) IN
        run.stop <=> \/ n >= config.iters
                     \/ /\ ~config.fixed /\ n >= 1 /\ n >= config.minimum
                        /\ Enough({p \in Problems : Settled(p)})

\* What a solve returns is finite for every problem that started finite, also when
\* the problem was lost on the way and the best action is not asked for.
ReturnsFinite == ~Idle => StaysFinite(goal, Output, run.start)

\* A solve starts, problem by problem, from the last action reinitialize was given
\* for the problem since the last solve.
StartsAsAsked ==
    ~Idle => \A p \in Problems :
        asked[p] # NoAction => run.start[p] = Projected(config.rule, asked)[p]

Bounded(rows) == \A p \in Problems : Clamp[rows[p]] = rows[p]

\* Gradient descent returns what is within the bounds the rollout publishes,
\* wherever it was asked to start.
DescentBounded == ~Idle /\ config.rule = "gradient_descent" => Bounded(Output)

\* The warm start that a running solve has taken counts as held until it is over.
Held == IF ~Idle /\ run.warm THEN run.start ELSE pend

Promise == INSTANCE WarmStart WITH pend <- Held

\* Every stage keeps the promise of WarmStart, whatever its method, raising and
\* disabled solves included.
ImplementsWarmStart == Promise!Spec
=============================================================================
