---------------------------- MODULE DescentProofs ----------------------------
(***************************************************************************)
(* Proofs about Descent: what a stage keeps of a solve, when it stops, and *)
(* that it implements WarmStart, whatever the method moves to, whatever    *)
(* the objective, the settings and the number of problems.                 *)
(***************************************************************************)
EXTENDS Descent, TLAPS

\* CostAfter of Descent, for a solve r under a goal g.
After(g, r, n) == IF n = 0 THEN Costs(g, r.start) ELSE r.trace[n]

\* The best of a running solve, compared with all it has seen.
GainKept ==
    ~Idle =>
        /\ run.cost = Costs(goal, run.best)
        /\ Keeps(goal, run.best, run.start)
        /\ Keeps(goal, run.best, run.x)

\* The trace of a running solve ends with its best cost and never goes up.
TraceKept ==
    ~Idle =>
        /\ run.cost = After(goal, run, Len(run.trace))
        /\ \A n \in 1 .. Len(run.trace), p \in Problems : After(goal, run, n)[p] <= After(goal, run, n - 1)[p]

\* The count of a problem is the length of the stable end of its trace.
StreakCounted ==
    ~Idle /\ ~config.fixed =>
        LET n == Len(run.trace) IN
        \A p \in Problems :
            /\ run.streak[p] <= n
            /\ \A k \in n - run.streak[p] + 1 .. n :
                    Stable(After(goal, run, k - 1)[p], After(goal, run, k)[p])
            /\ run.streak[p] < n =>
                    ~Stable(After(goal, run, n - run.streak[p] - 1)[p], After(goal, run, n - run.streak[p])[p])

\* The stop flag says what the counts say.
StopCounted ==
    ~Idle =>
        LET n == Len(run.trace) IN
        run.stop <=> n >= config.iters \/ (n >= 1 /\ ShouldStop(run.streak, n))

\* What gradient descent holds is within the bounds.
BoundsKept ==
    config.rule = "gradient_descent" =>
        /\ pend # NoAction => Bounded(pend)
        /\ ~Idle => Bounded(run.start) /\ Bounded(run.x) /\ Bounded(run.best)

\* What was asked for is pending or was started from; a running solve has used
\* the warm start up.
AskedHeld ==
    /\ ~Idle => pend = NoAction
    /\ Idle => \A p \in Problems :
            asked[p] # NoAction =>
                pend # NoAction /\ pend[p] = Projected(config.rule, asked)[p]

DescentInv ==
    /\ TypeOK /\ GainKept /\ TraceKept /\ StreakCounted /\ StopCounted
    /\ BoundsKept /\ AskedHeld /\ StartsAsAsked

-----------------------------------------------------------------------------
(* Operators                                                               *)

LEMMA Parameters ==
    /\ Infinite \in Nat
    /\ Cost \in [Goals -> [Actions -> 0 .. Infinite]]
    /\ Clamp \in [Actions -> Actions]
    /\ \A a \in Actions : Clamp[Clamp[a]] = Clamp[a]
    /\ Settings \subseteq Configs
    /\ NoAction \notin Rows
    /\ NoRun \notin Runs
  BY ObjectivesAssumption, DescentAssumption

LEMMA ProjectedRows ==
    ASSUME NEW rule, NEW rows \in Rows
    PROVE  /\ Projected(rule, rows) \in Rows
           /\ rule = "gradient_descent" => Bounded(Projected(rule, rows))
  BY Parameters DEF Projected, Rows, Bounded

LEMMA CostsType ==
    ASSUME NEW g \in Goals, NEW rows \in Rows
    PROVE  /\ Costs(g, rows) \in [Problems -> 0 .. Infinite]
           /\ \A p \in Problems : Costs(g, rows)[p] = Cost[g][rows[p]]
  BY Parameters DEF Costs, Rows

LEMMA CountShift ==
    ASSUME NEW m \in Nat, NEW c \in Nat, c <= m
    PROVE  /\ (m + 1) - (c + 1) + 1 = m - c + 1
           /\ (m + 1) - (c + 1) = m - c
           /\ (c + 1 < m + 1 <=> c < m)
           /\ c + 1 <= m + 1
  OBVIOUS

LEMMA StartType ==
    ASSUME NEW rows \in Rows, TypeOK
    PROVE  Start(pend, rows) \in Rows
  BY DEF Start, TypeOK

LEMMA MergeType ==
    ASSUME NEW held \in Rows \cup {NoAction}, NEW action \in Rows, NEW mask
    PROVE  /\ Merge(held, action, mask) \in Rows
           /\ \A p \in Problems : p \in mask => Merge(held, action, mask)[p] = action[p]
           /\ held # NoAction =>
                \A p \in Problems : p \notin mask => Merge(held, action, mask)[p] = held[p]
  BY DEF Merge, Rows

\* What an iteration writes.
NewCost(x) ==
    [p \in Problems |-> IF p \in Improves(Costs(goal, x)) THEN Costs(goal, x)[p] ELSE run.cost[p]]
NewBest(x) ==
    [p \in Problems |-> IF p \in Improves(Costs(goal, x)) THEN x[p] ELSE run.best[p]]

LEMMA StreakType ==
    ASSUME TypeOK, ~Idle, NEW cost
    PROVE  Streak(cost) \in [Problems -> Nat]
  BY DEF Streak, TypeOK, Idle, Runs

LEMMA IterateFields ==
    ASSUME TypeOK, NEW x \in Rows, Iterate(x)
    PROVE  /\ ~Idle /\ run \in Runs /\ run' \in Runs /\ run' # NoRun
           /\ run'.warm = run.warm /\ run'.start = run.start
           /\ run'.x = x /\ run'.best = NewBest(x) /\ run'.cost = NewCost(x)
           /\ run'.streak = Streak(NewCost(x))
           /\ run'.trace = Append(run.trace, NewCost(x))
           /\ run'.stop <=> \/ Len(run.trace) + 1 >= config.iters
                            \/ ShouldStop(Streak(NewCost(x)), Len(run.trace) + 1)
           /\ NewCost(x) \in [Problems -> 0 .. Infinite] /\ NewBest(x) \in Rows
           /\ UNCHANGED <<original, config, enabled, goal, pend, best, asked>>
  <1>1. ~Idle /\ run \in Runs
    BY DEF Iterate, TypeOK, Idle
  <1>2. goal \in Goals
    BY DEF TypeOK
  <1>3. NewCost(x) \in [Problems -> 0 .. Infinite]
    BY <1>1, <1>2, CostsType DEF NewCost, Runs
  <1>4. NewBest(x) \in Rows
    BY <1>1 DEF NewBest, Rows, Runs
  <1>5. run' = [run EXCEPT
                  !.x = x, !.best = NewBest(x), !.cost = NewCost(x),
                  !.streak = Streak(NewCost(x)),
                  !.trace = Append(run.trace, NewCost(x)),
                  !.stop = \/ Len(run.trace) + 1 >= config.iters
                           \/ ShouldStop(Streak(NewCost(x)), Len(run.trace) + 1)]
    BY Zenon DEF Iterate, NewCost, NewBest
  <1>6. Streak(NewCost(x)) \in [Problems -> Nat]
    BY <1>1, StreakType
  <1>7. Append(run.trace, NewCost(x)) \in Seq([Problems -> 0 .. Infinite])
    BY <1>1, <1>3 DEF Runs
  <1>. DEFINE flag == \/ Len(run.trace) + 1 >= config.iters
                      \/ ShouldStop(Streak(NewCost(x)), Len(run.trace) + 1)
  <1>8. flag \in BOOLEAN
    BY DEF ShouldStop
  <1>9. run' = [run EXCEPT
                  !.x = x, !.best = NewBest(x), !.cost = NewCost(x),
                  !.streak = Streak(NewCost(x)),
                  !.trace = Append(run.trace, NewCost(x)), !.stop = flag]
    BY <1>5
  <1>. HIDE DEF flag
  <1>10. /\ run' \in Runs
         /\ run'.warm = run.warm /\ run'.start = run.start
         /\ run'.x = x /\ run'.best = NewBest(x) /\ run'.cost = NewCost(x)
         /\ run'.streak = Streak(NewCost(x))
         /\ run'.trace = Append(run.trace, NewCost(x))
         /\ run'.stop = flag
    BY <1>1, <1>3, <1>4, <1>6, <1>7, <1>8, <1>9 DEF Runs
  <1>11. run' # NoRun
    BY <1>10, Parameters
  <1>12. UNCHANGED <<original, config, enabled, goal, pend, best, asked>>
    BY DEF Iterate
  <1>. QED
    BY <1>1, <1>3, <1>4, <1>10, <1>11, <1>12 DEF flag

\* The costs an iteration keeps: never higher, and none above where it moved to.
LEMMA NewCosts ==
    ASSUME DescentInv, NEW x \in Rows, ~Idle, NEW p \in Problems
    PROVE  /\ NewCost(x)[p] = Cost[goal][NewBest(x)[p]]
           /\ NewCost(x)[p] <= run.cost[p]
           /\ NewCost(x)[p] <= Cost[goal][x[p]]
  <1>1. /\ run \in Runs /\ goal \in Goals
        /\ run.cost = Costs(goal, run.best) /\ run.best \in Rows
    BY DEF DescentInv, TypeOK, GainKept, Idle, Runs
  <1>2. /\ Costs(goal, x)[p] = Cost[goal][x[p]] /\ run.cost[p] = Cost[goal][run.best[p]]
        /\ Cost[goal][x[p]] \in 0 .. Infinite /\ run.cost[p] \in 0 .. Infinite
    BY <1>1, CostsType
  <1>3. CASE p \in Improves(Costs(goal, x))
    BY <1>2, <1>3 DEF NewCost, NewBest, Improves
  <1>4. CASE p \notin Improves(Costs(goal, x))
    <2>1. ~(Cost[goal][x[p]] < Infinite /\ Cost[goal][x[p]] < run.cost[p])
      BY <1>2, <1>4 DEF Improves, Finite
    <2>. QED
      BY <1>2, <1>4, <2>1, Parameters DEF NewCost, NewBest
  <1>. QED
    BY <1>3, <1>4

-----------------------------------------------------------------------------
(* Steps                                                                   *)

LEMMA DescentInit == Init => DescentInv
  <1>. SUFFICES ASSUME Init PROVE DescentInv
    OBVIOUS
  <1>1. config \in Configs
    BY Parameters DEF Init
  <1>2. TypeOK
    BY <1>1 DEF Init, TypeOK, Nothing, Configs
  <1>. QED
    BY <1>2
    DEF Init, DescentInv, GainKept, TraceKept, StreakCounted, StopCounted, BoundsKept,
        AskedHeld, StartsAsAsked, Idle, Nothing

\* Between solves only the types, the bounds and what was asked for are left.
LEMMA BetweenSolves ==
    ASSUME DescentInv, run' = NoRun, TypeOK',
           config'.rule = config.rule,
           config.rule = "gradient_descent" /\ pend' # NoAction => Bounded(pend'),
           \A p \in Problems :
               asked'[p] # NoAction =>
                   pend' # NoAction /\ pend'[p] = Projected(config.rule, asked')[p]
    PROVE  DescentInv'
  <1>1. GainKept' /\ TraceKept' /\ StreakCounted' /\ StopCounted' /\ StartsAsAsked'
    BY DEF GainKept, TraceKept, StreakCounted, StopCounted, StartsAsAsked, Idle
  <1>2. BoundsKept'
    BY DEF BoundsKept, Idle, Bounded
  <1>3. AskedHeld'
    BY DEF AskedHeld, Idle, Projected
  <1>. QED
    BY <1>1, <1>2, <1>3 DEF DescentInv

LEMMA OptimizePreserves ==
    ASSUME DescentInv, NEW seed \in Rows, Optimize(seed)
    PROVE  DescentInv'
  <1>. DEFINE start == Start(pend, Projected(config.rule, seed))
              zero == [p \in Problems |-> 0]
  <1>1. /\ start \in Rows /\ goal \in Goals /\ config \in Configs
        /\ Costs(goal, start) \in [Problems -> 0 .. Infinite]
        /\ config.rule = "gradient_descent" => Bounded(start)
    <2>1. Projected(config.rule, seed) \in Rows
          /\ (config.rule = "gradient_descent" => Bounded(Projected(config.rule, seed)))
      BY ProjectedRows
    <2>2. start \in Rows /\ goal \in Goals /\ config \in Configs
      BY <2>1, StartType DEF DescentInv, TypeOK
    <2>. QED
      BY <2>1, <2>2, CostsType DEF Start, DescentInv, BoundsKept
  <1>2. ASSUME NEW p \in Problems, asked[p] # NoAction
        PROVE  start[p] = Projected(config.rule, asked)[p]
    BY <1>2 DEF Optimize, DescentInv, AskedHeld, Start
  <1>3. /\ run' = [warm |-> pend # NoAction, start |-> start, x |-> start, best |-> start,
                   cost |-> Costs(goal, start), streak |-> zero,
                   trace |-> <<>>, stop |-> config.iters = 0]
        /\ pend' = NoAction
        /\ UNCHANGED <<original, config, enabled, goal, best, asked>>
    BY DEF Optimize
  <1>. HIDE DEF start
  <1>4. run' \in Runs
    <2>1. zero \in [Problems -> Nat] /\ <<>> \in Seq([Problems -> 0 .. Infinite])
      OBVIOUS
    <2>. HIDE DEF zero
    <2>. QED
      BY <1>1, <1>3, <2>1 DEF Runs
  <1>5. /\ run'.start = start /\ run'.x = start /\ run'.best = start
        /\ run'.cost = Costs(goal, start) /\ run'.streak = zero
        /\ run'.trace = <<>> /\ Len(run'.trace) = 0
        /\ run'.stop <=> config.iters = 0
    BY <1>3
  <1>6. TypeOK'
    BY <1>3, <1>4 DEF DescentInv, TypeOK
  <1>7. GainKept'
    <2>1. Keeps(goal, start, start)
      BY <1>1, Parameters DEF Keeps, Rows
    <2>. QED
      BY <1>3, <1>5, <2>1 DEF GainKept
  <1>8. TraceKept'
    BY <1>3, <1>5 DEF TraceKept, After
  <1>9. StreakCounted'
    BY <1>5 DEF StreakCounted
  <1>10. StopCounted'
    <2>1. config.iters \in Nat
      BY <1>1 DEF Configs
    <2>. QED
      BY <1>3, <1>5, <2>1 DEF StopCounted
  <1>11. BoundsKept'
    BY <1>1, <1>3, <1>5 DEF BoundsKept, Bounded
  <1>12. AskedHeld' /\ StartsAsAsked'
    <2>1. run' # NoRun
      BY <1>4, Parameters
    <2>. QED
      BY <1>2, <1>3, <1>5, <2>1 DEF AskedHeld, StartsAsAsked, Idle, Projected
  <1>. QED
    BY <1>6, <1>7, <1>8, <1>9, <1>10, <1>11, <1>12 DEF DescentInv

\* An iteration adds its costs to the trace and leaves the rest of it.
LEMMA TraceGrows ==
    ASSUME DescentInv, NEW x \in Rows, Iterate(x), NEW n, n = Len(run.trace)
    PROVE  /\ n \in Nat /\ Len(run'.trace) = n + 1
           /\ \A k \in 0 .. n : After(goal, run', k) = After(goal, run, k)
           /\ After(goal, run', n + 1) = NewCost(x)
           /\ After(goal, run, n) = run.cost
  <1>1. /\ run'.trace = Append(run.trace, NewCost(x)) /\ run'.start = run.start
        /\ run \in Runs /\ ~Idle
        /\ NewCost(x) \in [Problems -> 0 .. Infinite]
    BY IterateFields DEF DescentInv
  <1>2. run.trace \in Seq([Problems -> 0 .. Infinite])
    BY <1>1 DEF Runs
  <1>3. /\ n \in Nat /\ Len(run'.trace) = n + 1
        /\ \A k \in 1 .. n : run'.trace[k] = run.trace[k]
        /\ run'.trace[n + 1] = NewCost(x)
    BY <1>1, <1>2
  <1>4. After(goal, run, n) = run.cost
    BY <1>1 DEF DescentInv, TraceKept
  <1>. QED
    BY <1>1, <1>3, <1>4 DEF After

LEMMA IterateCounts ==
    ASSUME DescentInv, NEW x \in Rows, Iterate(x)
    PROVE  StreakCounted'
  <1>. PICK n : n = Len(run.trace)
    OBVIOUS
  <1>1. /\ run'.streak = Streak(NewCost(x)) /\ config' = config /\ goal' = goal
        /\ ~Idle /\ run \in Runs /\ NewCost(x) \in [Problems -> 0 .. Infinite]
    BY IterateFields DEF DescentInv
  <1>2. /\ n \in Nat /\ Len(run'.trace) = n + 1
        /\ \A k \in 0 .. n : After(goal, run', k) = After(goal, run, k)
        /\ After(goal, run', n + 1) = NewCost(x)
        /\ After(goal, run, n) = run.cost
    BY TraceGrows
  <1>3. SUFFICES ASSUME ~config.fixed, NEW p \in Problems
                 PROVE  /\ run'.streak[p] <= n + 1
                        /\ \A k \in (n + 1) - run'.streak[p] + 1 .. n + 1 :
                                Stable(After(goal, run', k - 1)[p], After(goal, run', k)[p])
                        /\ run'.streak[p] < n + 1 =>
                                ~Stable(After(goal, run', (n + 1) - run'.streak[p] - 1)[p],
                                        After(goal, run', (n + 1) - run'.streak[p])[p])
    BY <1>1, <1>2 DEF StreakCounted, Stable
  <1>4. /\ run.streak[p] \in Nat /\ run.streak[p] <= n
        /\ \A k \in n - run.streak[p] + 1 .. n :
              Stable(After(goal, run, k - 1)[p], After(goal, run, k)[p])
        /\ run.streak[p] < n =>
              ~Stable(After(goal, run, n - run.streak[p] - 1)[p],
                      After(goal, run, n - run.streak[p])[p])
    BY <1>1, <1>3 DEF DescentInv, StreakCounted, Runs
  <1>5. CASE Stable(run.cost[p], NewCost(x)[p])
    <2>1. run'.streak[p] = run.streak[p] + 1
      BY <1>1, <1>3, <1>5 DEF Streak
    <2>2. ASSUME NEW k \in n - run.streak[p] + 1 .. n + 1
          PROVE  Stable(After(goal, run', k - 1)[p], After(goal, run', k)[p])
      <3>1. CASE k = n + 1
        <4>1. k - 1 = n /\ n \in 0 .. n
          BY <1>2, <3>1
        <4>. QED
          BY <1>2, <1>5, <3>1, <4>1
      <3>2. CASE k \in n - run.streak[p] + 1 .. n
        <4>1. k \in 0 .. n /\ k - 1 \in 0 .. n
          BY <1>2, <1>4, <3>2
        <4>2. Stable(After(goal, run, k - 1)[p], After(goal, run, k)[p])
          BY <1>4, <3>2
        <4>. QED
          BY <1>2, <4>1, <4>2
      <3>. QED
        BY <1>2, <1>4, <3>1, <3>2
    <2>3. ASSUME run.streak[p] < n
          PROVE  ~Stable(After(goal, run', n - run.streak[p] - 1)[p],
                         After(goal, run', n - run.streak[p])[p])
      <3>1. n - run.streak[p] - 1 \in 0 .. n /\ n - run.streak[p] \in 0 .. n
        BY <1>2, <1>4, <2>3
      <3>. QED
        BY <1>2, <1>4, <2>3, <3>1
    <2>4. /\ (n + 1) - (run.streak[p] + 1) + 1 = n - run.streak[p] + 1
          /\ (n + 1) - (run.streak[p] + 1) = n - run.streak[p]
          /\ run.streak[p] + 1 < n + 1 <=> run.streak[p] < n
          /\ run.streak[p] + 1 <= n + 1
      BY <1>2, <1>4, CountShift
    <2>. QED
      BY <2>1, <2>2, <2>3, <2>4
  <1>6. CASE ~Stable(run.cost[p], NewCost(x)[p])
    <2>1. run'.streak[p] = 0
      BY <1>1, <1>3, <1>6 DEF Streak
    <2>2. (n + 1) - 0 - 1 = n /\ (n + 1) - 0 = n + 1 /\ (n + 1) - 0 + 1 .. n + 1 = {}
          /\ n \in 0 .. n /\ 0 <= n + 1
      BY <1>2
    <2>3. ~Stable(After(goal, run', n)[p], After(goal, run', n + 1)[p])
      BY <1>2, <1>6, <2>2
    <2>. QED
      BY <2>1, <2>2, <2>3
  <1>. QED
    BY <1>5, <1>6

LEMMA IteratePreserves ==
    ASSUME DescentInv, NEW x \in Rows, Iterate(x)
    PROVE  DescentInv'
  <1>. PICK n : n = Len(run.trace)
    OBVIOUS
  <1>1. /\ ~Idle /\ run \in Runs /\ run' \in Runs /\ run' # NoRun
        /\ run'.start = run.start /\ run'.x = x /\ run'.best = NewBest(x)
        /\ run'.cost = NewCost(x) /\ run'.streak = Streak(NewCost(x))
        /\ run'.stop <=> \/ Len(run.trace) + 1 >= config.iters
                         \/ ShouldStop(Streak(NewCost(x)), Len(run.trace) + 1)
        /\ NewCost(x) \in [Problems -> 0 .. Infinite] /\ NewBest(x) \in Rows
        /\ UNCHANGED <<original, config, enabled, goal, pend, best, asked>>
    BY IterateFields DEF DescentInv
  <1>2. /\ n \in Nat /\ Len(run'.trace) = n + 1
        /\ \A k \in 0 .. n : After(goal, run', k) = After(goal, run, k)
        /\ After(goal, run', n + 1) = NewCost(x)
        /\ After(goal, run, n) = run.cost
    BY TraceGrows
  <1>3. /\ goal \in Goals /\ run.start \in Rows /\ run.x \in Rows /\ run.best \in Rows
        /\ run.cost \in [Problems -> 0 .. Infinite]
    BY <1>1 DEF DescentInv, TypeOK, Runs
  <1>4. \A p \in Problems : /\ NewCost(x)[p] = Cost[goal][NewBest(x)[p]]
                            /\ NewCost(x)[p] <= run.cost[p]
                            /\ NewCost(x)[p] <= Cost[goal][x[p]]
    BY <1>1, NewCosts
  <1>5. TypeOK'
    BY <1>1 DEF DescentInv, TypeOK
  <1>6. GainKept'
    <2>1. NewCost(x) = Costs(goal, NewBest(x))
      <3>. DEFINE cost == NewCost(x)
                  of == Costs(goal, NewBest(x))
      <3>1. cost \in [Problems -> 0 .. Infinite] /\ of \in [Problems -> 0 .. Infinite]
            /\ \A p \in Problems : cost[p] = of[p]
        BY <1>1, <1>3, <1>4, CostsType
      <3>. HIDE DEF cost, of
      <3>2. cost = of
        BY <3>1
      <3>. QED
        BY <3>2 DEF cost, of
    <2>2. Keeps(goal, NewBest(x), x)
      BY <1>4 DEF Keeps, Rows
    <2>3. ASSUME NEW p \in Problems
          PROVE  Cost[goal][NewBest(x)[p]] <= Cost[goal][run.start[p]]
      <3>1. run.cost[p] = Cost[goal][run.best[p]]
        BY <1>1, <1>3, CostsType DEF DescentInv, GainKept
      <3>2. Cost[goal][run.best[p]] <= Cost[goal][run.start[p]]
        BY <1>1, <1>3 DEF DescentInv, GainKept, Keeps, Rows
      <3>3. NewCost(x)[p] \in Nat /\ run.cost[p] \in Nat /\ Cost[goal][run.start[p]] \in Nat
        BY <1>1, <1>3, Parameters DEF Rows
      <3>. QED
        BY <1>4, <3>1, <3>2, <3>3
    <2>4. Keeps(goal, NewBest(x), run.start)
      BY <1>3, <2>3 DEF Keeps, Rows
    <2>. QED
      BY <1>1, <2>1, <2>2, <2>4 DEF GainKept
  <1>7. TraceKept'
    <2>1. SUFFICES ASSUME NEW k \in 1 .. n + 1, NEW p \in Problems
                   PROVE  After(goal, run', k)[p] <= After(goal, run', k - 1)[p]
      BY <1>1, <1>2 DEF TraceKept
    <2>2. CASE k = n + 1
      <3>1. k - 1 = n /\ n \in 0 .. n
        BY <1>2, <2>2
      <3>. QED
        BY <1>2, <1>4, <2>2, <3>1
    <2>3. CASE k \in 1 .. n
      <3>1. k \in 0 .. n /\ k - 1 \in 0 .. n
        BY <1>2, <2>3
      <3>2. After(goal, run, k)[p] <= After(goal, run, k - 1)[p]
        BY <1>1, <2>3 DEF DescentInv, TraceKept
      <3>. QED
        BY <1>2, <3>1, <3>2
    <2>. QED
      BY <1>2, <2>2, <2>3
  <1>8. StreakCounted'
    BY IterateCounts
  <1>9. StopCounted'
    <2>1. \A streak : ShouldStop(streak, n + 1)' <=> ShouldStop(streak, n + 1)
      BY <1>1 DEF ShouldStop, Enough
    <2>2. n + 1 >= 1
      BY <1>2
    <2>. QED
      BY <1>1, <1>2, <2>1, <2>2 DEF StopCounted, ShouldStop, Enough
  <1>10. BoundsKept'
    <2>1. SUFFICES ASSUME config.rule = "gradient_descent"
                   PROVE  Bounded(x) /\ Bounded(NewBest(x)) /\ Bounded(run.start)
                          /\ (pend # NoAction => Bounded(pend))
      BY <1>1 DEF BoundsKept, Bounded
    <2>2. Bounded(run.start) /\ Bounded(run.x) /\ Bounded(run.best)
          /\ (pend # NoAction => Bounded(pend))
      BY <1>1, <2>1 DEF DescentInv, BoundsKept
    <2>3. \A p \in Problems : Moves(run.x[p], x[p])
      BY Zenon DEF Iterate
    <2>4. \A p \in Problems : x[p] = run.x[p] \/ Clamp[x[p]] = x[p]
      <3>1. ASSUME NEW p \in Problems
            PROVE  x[p] = run.x[p] \/ Clamp[x[p]] = x[p]
        BY <2>1, <2>3 DEF Moves
      <3>. QED
        BY <3>1
    <2>5. Bounded(x)
      BY <2>2, <2>4 DEF Bounded
    <2>. QED
      BY <2>2, <2>5 DEF Bounded, NewBest
  <1>11. AskedHeld' /\ StartsAsAsked'
    BY <1>1 DEF DescentInv, AskedHeld, StartsAsAsked, Idle, Projected
  <1>. QED
    BY <1>5, <1>6, <1>7, <1>8, <1>9, <1>10, <1>11 DEF DescentInv

LEMMA ReinitializePreserves ==
    ASSUME DescentInv, NEW action \in Rows, NEW mask \in SUBSET Problems,
           NEW restart \in BOOLEAN, Reinitialize(action, mask, restart)
    PROVE  DescentInv'
  <1>. DEFINE rows == Projected(config.rule, action)
  <1>1. /\ Idle /\ run' = run /\ pend' = Merge(pend, rows, mask) /\ best' = NoAction
        /\ config' = [config EXCEPT !.iters = IF restart THEN original ELSE config.iters]
        /\ asked' = [p \in Problems |-> IF p \in mask THEN action[p] ELSE asked[p]]
        /\ UNCHANGED <<original, enabled, goal>>
    BY DEF Reinitialize
  <1>2. rows \in Rows /\ (config.rule = "gradient_descent" => Bounded(rows))
    BY ProjectedRows
  <1>3. \A p \in mask : rows[p] = IF config.rule = "gradient_descent"
                                  THEN Clamp[action[p]] ELSE action[p]
    BY DEF Projected
  <1>. HIDE DEF rows
  <1>4. /\ pend' \in Rows
        /\ \A p \in Problems : p \in mask => pend'[p] = rows[p]
        /\ pend # NoAction => \A p \in Problems : p \notin mask => pend'[p] = pend[p]
    <2>1. pend \in Rows \cup {NoAction}
      BY DEF DescentInv, TypeOK
    <2>. QED
      BY <1>1, <1>2, <2>1, MergeType
  <1>5. config' \in Configs /\ config'.rule = config.rule
    BY <1>1 DEF DescentInv, TypeOK, Configs
  <1>6. TypeOK'
    BY <1>1, <1>4, <1>5 DEF DescentInv, TypeOK, Rows
  <1>7. config.rule = "gradient_descent" => Bounded(pend')
    <2>1. CASE pend = NoAction
      BY <1>1, <1>2, <2>1 DEF Merge
    <2>2. CASE pend # NoAction
      BY <1>2, <1>4, <2>2 DEF DescentInv, BoundsKept, Bounded
    <2>. QED
      BY <2>1, <2>2
  <1>8. ASSUME NEW p \in Problems, asked'[p] # NoAction
        PROVE  pend' # NoAction /\ pend'[p] = Projected(config.rule, asked')[p]
    <2>1. pend' # NoAction
      BY <1>4, Parameters
    <2>2. CASE p \in mask
      BY <1>1, <1>3, <1>4, <2>1, <2>2 DEF Projected
    <2>3. CASE p \notin mask
      <3>1. asked[p] # NoAction /\ asked'[p] = asked[p]
        BY <1>1, <1>8, <2>3
      <3>2. pend # NoAction /\ pend[p] = Projected(config.rule, asked)[p]
        BY <1>1, <3>1 DEF DescentInv, AskedHeld
      <3>. QED
        BY <1>4, <2>1, <2>3, <3>1, <3>2 DEF Projected
    <2>. QED
      BY <2>2, <2>3
  <1>9. run' = NoRun
    BY <1>1 DEF Idle
  <1>. QED
    BY <1>5, <1>6, <1>7, <1>8, <1>9, BetweenSolves

\* Calls that leave the warm start and what was asked for.
LEMMA SettingsPreserve ==
    ASSUME DescentInv, Idle, UNCHANGED <<pend, asked, run>>,
           original' = original, best' = best, enabled' \in BOOLEAN, goal' \in Goals,
           config' \in Configs, config'.rule = config.rule
    PROVE  DescentInv'
  <1>1. TypeOK'
    BY DEF DescentInv, TypeOK
  <1>2. config.rule = "gradient_descent" /\ pend' # NoAction => Bounded(pend')
    BY DEF DescentInv, BoundsKept
  <1>3. \A p \in Problems :
            asked'[p] # NoAction =>
                pend' # NoAction /\ pend'[p] = Projected(config.rule, asked')[p]
    BY DEF DescentInv, AskedHeld
  <1>. QED
    BY <1>1, <1>2, <1>3, BetweenSolves DEF Idle

LEMMA DescentStep == DescentInv /\ [Next]_vars => DescentInv'
  <1>. SUFFICES ASSUME DescentInv, [Next]_vars PROVE DescentInv'
    OBVIOUS
  <1>1. CASE \E seed \in Rows : Optimize(seed)
    BY <1>1, OptimizePreserves
  <1>2. CASE \E x \in Rows : Iterate(x)
    BY <1>2, IteratePreserves
  <1>3. CASE Return \/ Raise
    <2>1. /\ ~Idle /\ run' = NoRun /\ asked' = Nothing
          /\ best' \in {best, run.best}
          /\ UNCHANGED <<original, config, enabled, goal, pend>>
      BY <1>3 DEF Return, Raise
    <2>2. run.best \in Rows
      BY <2>1 DEF DescentInv, TypeOK, Idle, Runs
    <2>3. TypeOK'
      BY <2>1, <2>2 DEF DescentInv, TypeOK, Nothing
    <2>. QED
      BY <2>1, <2>3, BetweenSolves DEF DescentInv, BoundsKept, Nothing
  <1>4. CASE \E action \in Rows, mask \in SUBSET Problems, restart \in BOOLEAN :
                Reinitialize(action, mask, restart)
    BY <1>4, ReinitializePreserves
  <1>5. CASE Shift \/ Reset \/ UpdateNumProblems
    <2>1. Forget
      BY <1>5 DEF Shift, Reset, UpdateNumProblems
    <2>2. TypeOK'
      BY <2>1 DEF Forget, DescentInv, TypeOK, Nothing
    <2>. QED
      BY <2>1, <2>2, BetweenSolves DEF Forget, Nothing, Idle
  <1>6. CASE Toggle
    BY <1>6, SettingsPreserve DEF Toggle, DescentInv, TypeOK
  <1>7. CASE UpdateRolloutParams
    BY <1>7, SettingsPreserve DEF UpdateRolloutParams, DescentInv, TypeOK
  <1>8. CASE UpdateNiters
    <2>1. PICK c \in Settings : config' = [config EXCEPT !.iters = c.iters]
      BY <1>8 DEF UpdateNiters
    <2>2. config' \in Configs /\ config'.rule = config.rule
      BY <2>1, Parameters DEF DescentInv, TypeOK, Configs
    <2>. QED
      BY <1>8, <2>2, SettingsPreserve DEF UpdateNiters, DescentInv, TypeOK
  <1>9. CASE UpdateSolverParams
    BY <1>9, Parameters, SettingsPreserve DEF UpdateSolverParams, DescentInv, TypeOK
  <1>10. CASE UNCHANGED vars
    BY <1>10
    DEF vars, DescentInv, TypeOK, GainKept, TraceKept, StreakCounted, StopCounted, BoundsKept,
        AskedHeld, StartsAsAsked, Idle, Stable, ShouldStop, Enough, Bounded, Projected
  <1>. QED
    BY <1>1, <1>2, <1>3, <1>4, <1>5, <1>6, <1>7, <1>8, <1>9, <1>10 DEF Next

LEMMA DescentInvariant == Spec => []DescentInv
  BY DescentInit, DescentStep, PTL DEF Spec

-----------------------------------------------------------------------------
(* Theorems                                                                *)

\* Every state of a stage is well-formed, for every method and batch.
THEOREM DescentTypes == Spec => []TypeOK
  <1>1. DescentInv => TypeOK
    BY DEF DescentInv
  <1>. QED
    BY <1>1, DescentInvariant, PTL

\* The best of a problem is the lowest it has seen, wherever its method takes it.
THEOREM BestIsBest == Spec => []BestOfVisited
  <1>1. DescentInv => BestOfVisited
    BY DEF DescentInv, BestOfVisited, GainKept, TraceKept, After, CostAfter
  <1>. QED
    BY <1>1, DescentInvariant, PTL

\* A problem that started with a finite cost returns with one.
THEOREM ReturnsAreFinite == Spec => []ReturnsFinite
  <1>1. DescentInv => ReturnsFinite
    <2>. SUFFICES ASSUME DescentInv, ~Idle PROVE StaysFinite(goal, Output, run.start)
      BY DEF ReturnsFinite
    <2>1. run \in Runs /\ goal \in Goals
      BY DEF DescentInv, TypeOK, Idle
    <2>2. SUFFICES ASSUME NEW p \in Problems, Finite(Cost[goal][run.start[p]])
                   PROVE  Finite(Cost[goal][Output[p]])
      BY <2>1 DEF StaysFinite, Runs, Rows
    <2>3. Cost[goal][run.best[p]] <= Cost[goal][run.start[p]]
      BY <2>1 DEF DescentInv, GainKept, Keeps, Runs, Rows
    <2>4. Cost[goal][run.best[p]] \in Nat /\ Cost[goal][run.start[p]] \in Nat
      BY <2>1, Parameters DEF Runs, Rows
    <2>5. Finite(Cost[goal][run.best[p]])
      BY <2>2, <2>3, <2>4, Parameters DEF Finite
    <2>. QED
      BY <2>5 DEF Output
  <1>. QED
    BY <1>1, DescentInvariant, PTL

\* Reinitialize is obeyed problem by problem, through every order of masks,
\* solves, failures and resizes.
THEOREM StartsAreAsked == Spec => []StartsAsAsked
  <1>1. DescentInv => StartsAsAsked
    BY DEF DescentInv
  <1>. QED
    BY <1>1, DescentInvariant, PTL

\* Gradient descent never returns an action beyond the bounds.
THEOREM DescentIsBounded == Spec => []DescentBounded
  <1>1. DescentInv => DescentBounded
    BY DEF DescentInv, DescentBounded, BoundsKept, Bounded, Output
  <1>. QED
    BY <1>1, DescentInvariant, PTL

\* The count of a problem reaches what is required exactly when its trace says so.
LEMMA CountsSettled ==
    ASSUME DescentInv, ~Idle, ~config.fixed, NEW p \in Problems
    PROVE  Settled(p) <=> run.streak[p] >= config.required
  <1>. PICK n : n = Len(run.trace)
    OBVIOUS
  <1>. DEFINE Same(k) == Stable(After(goal, run, k - 1)[p], After(goal, run, k)[p])
  <1>1. run \in Runs /\ config \in Configs
    BY DEF DescentInv, TypeOK, Idle
  <1>2. n \in Nat /\ run.streak[p] \in Nat /\ config.required \in Nat
    BY <1>1 DEF Runs, Configs
  <1>3. /\ run.streak[p] <= n
        /\ \A k \in n - run.streak[p] + 1 .. n : Same(k)
        /\ run.streak[p] < n => ~Same(n - run.streak[p])
    BY DEF DescentInv, StreakCounted
  <1>4. Settled(p) <=> n >= config.required /\ \A k \in n - config.required + 1 .. n : Same(k)
    BY DEF Settled, CostAfter, After
  <1>. HIDE DEF Same
  <1>5. CASE run.streak[p] >= config.required
    BY <1>2, <1>3, <1>4, <1>5
  <1>6. CASE run.streak[p] < config.required
    <2>1. SUFFICES ASSUME n >= config.required
                   PROVE  \E k \in n - config.required + 1 .. n : ~Same(k)
      BY <1>2, <1>4, <1>6
    <2>2. n - run.streak[p] \in n - config.required + 1 .. n
      BY <1>2, <1>6, <2>1
    <2>. QED
      BY <1>2, <1>3, <1>6, <2>1, <2>2
  <1>. QED
    BY <1>2, <1>5, <1>6

\* A solve never stops early and never misses its convergence, for every number
\* of iterations, minimum, ratio and batch.
THEOREM StopsAsConfigured == Spec => []StopsOnConvergence
  <1>1. DescentInv => StopsOnConvergence
    <2>. SUFFICES ASSUME DescentInv, ~Idle PROVE StopsOnConvergence
      BY DEF StopsOnConvergence
    <2>1. ~config.fixed => {p \in Problems : Settled(p)}
                             = {p \in Problems : run.streak[p] >= config.required}
      BY CountsSettled
    <2>. QED
      BY <2>1 DEF DescentInv, StopsOnConvergence, StopCounted, ShouldStop
  <1>. QED
    BY <1>1, DescentInvariant, PTL

-----------------------------------------------------------------------------
(* Refinement                                                              *)

\* A solve takes the warm start and keeps it as held while it runs.
LEMMA OptimizeHolds ==
    ASSUME DescentInv, NEW seed \in Rows, Optimize(seed)
    PROVE  Held' = Held \/ Held' = NoAction
  <1>1. /\ Idle /\ pend' = NoAction
        /\ run'.warm = (pend # NoAction)
        /\ run'.start = Start(pend, Projected(config.rule, seed))
    BY DEF Optimize
  <1>. QED
    BY <1>1 DEF Held, Start

\* A solve that returns keeps the promise: its record is no worse than the warm
\* start that is held, or than what it started from if none is.
LEMMA ReturnSolves ==
    ASSUME DescentInv, Return
    PROVE  \E seed \in Promise!Rows : Promise!Solve(seed)
  <1>1. /\ ~Idle /\ run \in Runs /\ pend = NoAction
        /\ Keeps(goal, run.best, run.start)
    BY DEF Return, DescentInv, TypeOK, GainKept, AskedHeld, Idle
  <1>2. /\ best' = run.best /\ Held' = NoAction /\ goal' = goal
        /\ run.best \in Rows /\ run.start \in Rows
    BY <1>1 DEF Return, Held, Idle, Runs
  <1>3. Start(Held, run.start) = run.start
    BY <1>1 DEF Start, Held
  <1>4. Promise!Solve(run.start)
    BY <1>1, <1>2, <1>3
    DEF Promise!Solve, Promise!Rows, Promise!Keeps, Promise!Start, Rows, Keeps, Start
  <1>. QED
    BY <1>2, <1>4 DEF Promise!Rows, Rows

LEMMA StepPromised == DescentInv /\ [Next]_vars => [Promise!Next]_(Promise!vars)
  <1>. SUFFICES ASSUME DescentInv, [Next]_vars
                PROVE  Promise!Next \/ UNCHANGED <<goal, Held, best>>
    BY DEF Promise!vars
  <1>1. CASE \E seed \in Rows : Optimize(seed)
    <2>1. PICK seed \in Rows : Optimize(seed)
      BY <1>1
    <2>2. UNCHANGED <<goal, best>> /\ (Held' = Held \/ Held' = NoAction)
      BY <2>1, OptimizeHolds DEF Optimize
    <2>. QED
      BY <2>2 DEF Promise!Next, Promise!Abandon
  <1>2. CASE \E x \in Rows : Iterate(x)
    <2>1. PICK x \in Rows : Iterate(x)
      BY <1>2
    <2>2. /\ ~Idle /\ run' # NoRun /\ run'.warm = run.warm /\ run'.start = run.start
          /\ UNCHANGED <<goal, best, pend>>
      BY <2>1, IterateFields DEF DescentInv
    <2>. QED
      BY <2>2 DEF Held, Idle
  <1>3. CASE Return
    BY <1>3, ReturnSolves DEF Promise!Next
  <1>4. CASE Raise
    <2>1. ~Idle /\ run' = NoRun /\ pend = NoAction /\ UNCHANGED <<goal, best, pend>>
      BY <1>4 DEF Raise, DescentInv, AskedHeld
    <2>. QED
      BY <2>1 DEF Held, Idle, Promise!Next, Promise!Abandon
  <1>5. CASE \E action \in Rows, mask \in SUBSET Problems, restart \in BOOLEAN :
                Reinitialize(action, mask, restart)
    <2>1. PICK action \in Rows, mask \in SUBSET Problems, restart \in BOOLEAN :
                Reinitialize(action, mask, restart)
      BY <1>5
    <2>2. /\ Held' = Merge(Held, Projected(config.rule, action), mask)
          /\ best' = NoAction /\ goal' = goal
      BY <2>1 DEF Reinitialize, Held, Idle
    <2>3. Promise!Reinitialize(Projected(config.rule, action), mask)
      BY <2>2 DEF Promise!Reinitialize, Promise!Merge, Merge
    <2>4. Projected(config.rule, action) \in Promise!Rows
      BY <2>1, ProjectedRows DEF Promise!Rows, Rows
    <2>. QED
      BY <2>1, <2>3, <2>4 DEF Promise!Next
  <1>6. CASE Shift \/ Reset \/ UpdateNumProblems
    BY <1>6
    DEF Shift, Reset, UpdateNumProblems, Forget, Held, Idle, Promise!Next, Promise!Forget
  <1>7. CASE Toggle \/ UpdateNiters \/ UpdateSolverParams
    BY <1>7 DEF Toggle, UpdateNiters, UpdateSolverParams, Held, Idle
  <1>8. CASE UpdateRolloutParams
    BY <1>8 DEF UpdateRolloutParams, Held, Idle, Promise!Next, Promise!UpdateGoal
  <1>9. CASE UNCHANGED vars
    BY <1>9 DEF vars, Held, Idle
  <1>. QED
    BY <1>1, <1>2, <1>3, <1>4, <1>5, <1>6, <1>7, <1>8, <1>9 DEF Next

\* Every gradient stage, whatever its method, implements WarmStart: a warm start
\* is used once, by the next solve, and a record is no worse than its start.
THEOREM DescentImplementsWarmStart == Spec => ImplementsWarmStart
  <1>1. Init => Promise!Init
    BY DEF Init, Promise!Init, Held, Idle
  <1>. QED
    BY <1>1, DescentInvariant, StepPromised, PTL DEF Spec, ImplementsWarmStart, Promise!Spec
=============================================================================
