-------------------------- MODULE StageChainProofs --------------------------
(***************************************************************************)
(* Proofs about StageChain: what a call carries from stage to stage has    *)
(* the size of the batch, and gains, whatever the stages, the objectives   *)
(* and the number of problems.                                             *)
(***************************************************************************)
EXTENDS StageChain, TLAPS

\* What the stages of a running call have returned fits the batch.
OutputsFit == ~Idle => \A i \in DOMAIN call.outputs : call.outputs[i] \in Rows(size)

\* Nothing a running call is plain by changes until its stages have run.
StaysPlain ==
    ~Idle /\ call.plain =>
        \A s \in Stages : enabled[s] =>
            /\ kind[s] = "best"
            /\ pend[s] = NoAction
            /\ \A t \in Stages : enabled[t] => goal[t] = goal[s]

\* The enabled stages that a running call has passed have used up their warm starts.
DrainedSoFar ==
    ~Idle => \A s \in Stages : s < call.at /\ enabled[s] => pend[s] = NoAction

ChainInv ==
    /\ TypeOK /\ LayoutsAgree /\ OutputsFit
    /\ StaysPlain /\ DrainedSoFar /\ ChainKeepsGain

-----------------------------------------------------------------------------
(* Operators                                                               *)

LEMMA RowsAreRows ==
    ASSUME NEW n \in 1 .. MaxSize, NEW rows \in Rows(n)
    PROVE  rows \in AllRows /\ rows # NoAction
  BY StageChainAssumption DEF AllRows

\* A batch given by a caller fits the size that is adopted for it.
LEMMA AdoptedFits ==
    ASSUME NEW rows \in Given, NEW n \in {n \in 1 .. MaxSize : DOMAIN rows = 1 .. n}
    PROVE  rows \in Rows(n)
  BY StageChainAssumption DEF AllRows, Rows

\* What fits the old size fits the new one unless the batch is resized.
LEMMA SameSize ==
    ASSUME NEW rows \in Given, ~Resizes(rows),
           NEW n \in {n \in 1 .. MaxSize : DOMAIN rows = 1 .. n}
    PROVE  Rows(n) = Rows(size)
  BY DEF Resizes, Rows

\* A merged warm start fits the batch.
LEMMA MergeFits ==
    ASSUME NEW n, NEW held \in Rows(n) \cup {NoAction}, NEW action \in Rows(n), NEW mask
    PROVE  Merge(held, action, mask) \in Rows(n)
  BY DEF Merge, Rows

\* Costs are ordered, so gains add up.
LEMMA KeepsTransitive ==
    ASSUME NEW g \in Goals, NEW n,
           NEW a \in Rows(n), NEW b \in Rows(n), NEW c \in Rows(n),
           Keeps(g, a, b), Keeps(g, b, c)
    PROVE  Keeps(g, a, c)
  <1>1. SUFFICES ASSUME NEW p \in 1 .. n PROVE Cost[g][a[p]] <= Cost[g][c[p]]
    BY DEF Keeps, Rows
  <1>2. Cost[g][a[p]] <= Cost[g][b[p]] /\ Cost[g][b[p]] <= Cost[g][c[p]]
    BY DEF Keeps, Rows
  <1>3. Cost[g][a[p]] \in Nat /\ Cost[g][b[p]] \in Nat /\ Cost[g][c[p]] \in Nat
    BY ObjectivesAssumption DEF Rows
  <1>. QED
    BY <1>2, <1>3

LEMMA KeepsReflexive ==
    ASSUME NEW g \in Goals, NEW n, NEW a \in Rows(n)
    PROVE  Keeps(g, a, a)
  BY ObjectivesAssumption DEF Keeps, Rows

-----------------------------------------------------------------------------
(* Steps                                                                   *)

LEMMA ChainInit == Init => ChainInv
  <1>. SUFFICES ASSUME Init PROVE ChainInv
    OBVIOUS
  <1>1. TypeOK
    BY DEF Init, TypeOK, NoWarmStart
  <1>2. LayoutsAgree
    BY DEF Init, LayoutsAgree, NoWarmStart, Idle
  <1>. QED
    BY <1>1, <1>2 DEF Init, ChainInv, OutputsFit, StaysPlain, DrainedSoFar, ChainKeepsGain, Idle

\* Calls between calls, which leave warm starts and outputs that fit.
LEMMA BetweenCalls ==
    ASSUME ChainInv, call' = NoCall, size' \in 1 .. MaxSize,
           kind' = kind, active' \in BOOLEAN,
           enabled' \in [Stages -> BOOLEAN], goal' \in [Stages -> Goals],
           pend' \in [Stages -> Rows(size') \cup {NoAction}],
           outputs' \in Seq(AllRows),
           \A i \in DOMAIN outputs' : outputs'[i] \in Rows(size')
    PROVE  ChainInv'
  <1>1. pend' \in [Stages -> AllRows \cup {NoAction}]
    BY DEF AllRows
  <1>2. TypeOK'
    BY <1>1 DEF ChainInv, TypeOK
  <1>3. LayoutsAgree'
    BY DEF LayoutsAgree, Idle
  <1>. QED
    BY <1>2, <1>3 DEF ChainInv, OutputsFit, StaysPlain, DrainedSoFar, ChainKeepsGain, Idle

\* What between two calls is there to be left.
LEMMA AtRest ==
    ASSUME ChainInv
    PROVE  /\ kind \in Pipelines /\ active \in BOOLEAN
           /\ enabled \in [Stages -> BOOLEAN] /\ goal \in [Stages -> Goals]
           /\ pend \in [Stages -> Rows(size) \cup {NoAction}]
           /\ size \in 1 .. MaxSize
           /\ outputs \in Seq(AllRows)
           /\ \A i \in DOMAIN outputs : outputs[i] \in Rows(size)
           /\ NoWarmStart \in [Stages -> Rows(size) \cup {NoAction}]
           /\ <<>> \in Seq(AllRows) /\ DOMAIN <<>> = {}
  BY DEF ChainInv, TypeOK, LayoutsAgree, NoWarmStart

\* A batch that is adopted leaves warm starts that fit it.
LEMMA AdoptEffect ==
    ASSUME ChainInv, NEW rows \in Given, Adopt(rows)
    PROVE  /\ size' \in 1 .. MaxSize
           /\ rows \in Rows(size')
           /\ pend' \in [Stages -> Rows(size') \cup {NoAction}]
           /\ ~Resizes(rows) => Rows(size') = Rows(size)
  <1>1. size' \in {n \in 1 .. MaxSize : DOMAIN rows = 1 .. n}
    BY DEF Adopt
  <1>2. ~Resizes(rows) => Rows(size') = Rows(size)
    BY <1>1, SameSize
  <1>. QED
    BY <1>1, <1>2, AdoptedFits, AtRest DEF Adopt, NoWarmStart

LEMMA OptimizePreserves ==
    ASSUME ChainInv, NEW seed \in Given, Optimize(seed)
    PROVE  ChainInv'
  <1>1. /\ size' \in 1 .. MaxSize /\ seed \in Rows(size')
        /\ pend' \in [Stages -> Rows(size') \cup {NoAction}]
        /\ ~Resizes(seed) => Rows(size') = Rows(size)
    BY AdoptEffect DEF Optimize
  <1>2. outputs' \in Seq(AllRows) /\ \A i \in DOMAIN outputs' : outputs'[i] \in Rows(size')
    BY <1>1, AtRest DEF Optimize
  <1>3. UNCHANGED <<kind, active, enabled, goal>>
    BY DEF Optimize, stages
  <1>4. CASE ~active
    BY <1>1, <1>2, <1>3, <1>4, AtRest, BetweenCalls DEF Optimize
  <1>5. CASE active
    <2>1. call' = [seed |-> seed, at |-> 1, current |-> seed,
                   outputs |-> <<>>, plain |-> Plain(pend')]
      BY <1>5 DEF Optimize
    <2>2. Plain(pend') \in BOOLEAN
      BY DEF Plain
    <2>3. seed \in AllRows /\ 1 \in 1 .. Last + 1
      BY <1>1, RowsAreRows, StageChainAssumption
    <2>4. call' \in Calls
      BY <2>1, <2>2, <2>3 DEF Calls
    <2>5. TypeOK'
      <3>1. pend' \in [Stages -> AllRows \cup {NoAction}]
        BY <1>1 DEF AllRows
      <3>. QED
        BY <1>1, <1>2, <1>3, <2>4, <3>1, AtRest DEF TypeOK
    <2>6. LayoutsAgree' /\ OutputsFit' /\ DrainedSoFar'
      BY <1>1, <1>2, <2>1 DEF LayoutsAgree, OutputsFit, DrainedSoFar, Stages
    <2>7. StaysPlain'
      BY <1>3, <2>1 DEF StaysPlain, Plain
    <2>8. ChainKeepsGain'
      BY <1>1, <1>3, <2>1, AtRest, KeepsReflexive DEF ChainKeepsGain
    <2>. QED
      BY <2>5, <2>6, <2>7, <2>8 DEF ChainInv
  <1>. QED
    BY <1>4, <1>5

\* What every enabled stage that is reached in a running call starts from.
LEMMA StartFits ==
    ASSUME ChainInv, NEW s \in Stages, Running(s)
    PROVE  /\ call \in Calls /\ StageStart(s) \in Rows(size)
           /\ call.current \in Rows(size) /\ call.seed \in Rows(size)
           /\ \A i \in DOMAIN call.outputs : call.outputs[i] \in Rows(size)
  BY DEF ChainInv, TypeOK, LayoutsAgree, OutputsFit, Running, Idle, StageStart, Start

\* A stage that has run: the call is plain only if the stage has kept what it got.
LEMMA RunStagePreserves ==
    ASSUME ChainInv, NEW s \in Stages, RunStage(s)
    PROVE  ChainInv'
  <1>1. PICK rows \in Rows(size) :
            /\ Returns(s, rows)
            /\ call' = [call EXCEPT !.at = s + 1, !.current = rows,
                                    !.outputs = Append(call.outputs, rows)]
    BY DEF RunStage
  <1>2. /\ Running(s) /\ enabled[s] /\ ~Idle /\ call.at = s
        /\ pend' = [pend EXCEPT ![s] = NoAction]
        /\ UNCHANGED <<kind, active, enabled, goal, size, outputs>>
    BY DEF RunStage, stages, Running
  <1>3. /\ call \in Calls /\ call.current \in Rows(size) /\ call.seed \in Rows(size)
        /\ StageStart(s) \in Rows(size)
        /\ \A i \in DOMAIN call.outputs : call.outputs[i] \in Rows(size)
    BY <1>2, StartFits
  <1>4. call.outputs \in Seq(AllRows) /\ size \in 1 .. MaxSize /\ rows \in AllRows
    BY <1>1, <1>3, AtRest, RowsAreRows DEF Calls
  <1>5. /\ call'.at = s + 1 /\ call'.current = rows /\ call'.seed = call.seed
        /\ call'.plain = call.plain /\ call'.outputs = Append(call.outputs, rows)
        /\ call' \in Calls
    <2>1. s + 1 \in 1 .. Last + 1
      BY StageChainAssumption DEF Stages
    <2>2. Append(call.outputs, rows) \in Seq(AllRows)
      BY <1>4
    <2>. QED
      BY <1>1, <1>3, <1>4, <2>1, <2>2 DEF Calls
  <1>6. ASSUME NEW i \in DOMAIN call'.outputs
        PROVE  \/ i \in DOMAIN call.outputs /\ call'.outputs[i] = call.outputs[i]
               \/ call'.outputs[i] = rows
    BY <1>4, <1>5
  <1>7. call' # NoCall
    BY <1>5, StageChainAssumption
  <1>8. TypeOK'
    BY <1>2, <1>5, AtRest DEF ChainInv, TypeOK
  <1>9. LayoutsAgree'
    BY <1>1, <1>2, <1>3, <1>5 DEF ChainInv, LayoutsAgree, TypeOK
  <1>10. OutputsFit'
    BY <1>1, <1>2, <1>3, <1>6 DEF OutputsFit
  <1>11. StaysPlain'
    BY <1>2, <1>5 DEF ChainInv, StaysPlain, TypeOK
  <1>12. DrainedSoFar'
    <2>1. SUFFICES ASSUME NEW r \in Stages, r < s + 1, enabled[r]
                   PROVE  pend'[r] = NoAction
      BY <1>2, <1>5 DEF DrainedSoFar
    <2>2. r = s \/ r < s
      BY <2>1, StageChainAssumption DEF Stages
    <2>. QED
      BY <1>2, <2>1, <2>2 DEF ChainInv, DrainedSoFar, TypeOK
  <1>13. ChainKeepsGain'
    <2>1. SUFFICES ASSUME call.plain, NEW r \in Stages, enabled[r]
                   PROVE  /\ Keeps(goal[r], rows, call.seed)
                          /\ \A i \in DOMAIN call'.outputs :
                                Keeps(goal[r], rows, call'.outputs[i])
      BY <1>2, <1>5 DEF ChainKeepsGain
    <2>2. kind[s] = "best" /\ pend[s] = NoAction /\ goal[r] = goal[s] /\ goal[r] \in Goals
      BY <1>2, <2>1 DEF ChainInv, StaysPlain, TypeOK
    <2>3. Keeps(goal[r], rows, call.current)
      BY <1>1, <2>2 DEF Returns, StageStart, Start
    <2>4. Keeps(goal[r], call.current, call.seed)
      BY <1>2, <2>1 DEF ChainInv, ChainKeepsGain
    <2>5. Keeps(goal[r], rows, call.seed)
      BY <1>1, <1>3, <2>2, <2>3, <2>4, KeepsTransitive
    <2>6. ASSUME NEW i \in DOMAIN call'.outputs
          PROVE  Keeps(goal[r], rows, call'.outputs[i])
      <3>1. CASE i \in DOMAIN call.outputs /\ call'.outputs[i] = call.outputs[i]
        <4>1. Keeps(goal[r], call.current, call.outputs[i])
          BY <1>2, <2>1, <3>1 DEF ChainInv, ChainKeepsGain
        <4>2. call.outputs[i] \in Rows(size)
          BY <1>3, <3>1
        <4>. QED
          BY <1>1, <1>3, <2>2, <2>3, <3>1, <4>1, <4>2, KeepsTransitive
      <3>2. CASE call'.outputs[i] = rows
        BY <1>1, <2>2, <3>2, KeepsReflexive
      <3>. QED
        BY <1>6, <3>1, <3>2
    <2>. QED
      BY <2>5, <2>6
  <1>. QED
    BY <1>8, <1>9, <1>10, <1>11, <1>12, <1>13 DEF ChainInv

LEMMA SkipStagePreserves ==
    ASSUME ChainInv, NEW s \in Stages, SkipStage(s)
    PROVE  ChainInv'
  <1>1. /\ Running(s) /\ ~enabled[s] /\ ~Idle /\ call.at = s
        /\ call' = [call EXCEPT !.at = s + 1]
        /\ UNCHANGED <<kind, active, enabled, goal, pend, size, outputs>>
    BY DEF SkipStage, stages, Running
  <1>2. call \in Calls /\ s + 1 \in 1 .. Last + 1
    BY <1>1, StartFits, StageChainAssumption DEF Stages
  <1>3. /\ call'.at = s + 1 /\ call'.current = call.current /\ call'.seed = call.seed
        /\ call'.plain = call.plain /\ call'.outputs = call.outputs
        /\ call' \in Calls
    BY <1>1, <1>2 DEF Calls
  <1>4. TypeOK'
    BY <1>1, <1>3, AtRest DEF ChainInv, TypeOK
  <1>5. LayoutsAgree' /\ OutputsFit' /\ StaysPlain' /\ ChainKeepsGain'
    BY <1>1, <1>3 DEF ChainInv, LayoutsAgree, OutputsFit, StaysPlain, ChainKeepsGain, Idle
  <1>6. DrainedSoFar'
    <2>1. SUFFICES ASSUME NEW r \in Stages, r < s + 1, enabled[r]
                   PROVE  pend[r] = NoAction
      BY <1>1, <1>3 DEF DrainedSoFar
    <2>2. r = s \/ r < s
      BY <2>1, StageChainAssumption DEF Stages
    <2>. QED
      BY <1>1, <2>1, <2>2 DEF ChainInv, DrainedSoFar
  <1>. QED
    BY <1>4, <1>5, <1>6 DEF ChainInv

LEMMA ReinitializePreserves ==
    ASSUME ChainInv, NEW action \in Given, NEW mask, Reinitialize(action, mask)
    PROVE  ChainInv'
  <1>1. size' \in {n \in 1 .. MaxSize : DOMAIN action = 1 .. n}
    BY DEF Reinitialize
  <1>2. action \in Rows(size') /\ (~Resizes(action) => Rows(size') = Rows(size))
    BY <1>1, AdoptedFits, SameSize
  <1>. DEFINE held == IF Resizes(action) THEN NoWarmStart ELSE pend
  <1>3. held \in [Stages -> Rows(size') \cup {NoAction}]
    BY <1>2, AtRest DEF NoWarmStart
  <1>4. pend' = [s \in Stages |-> IF enabled[s] /\ kind[s] # "sampling"
                                  THEN Merge(held[s], action, mask) ELSE held[s]]
    BY DEF Reinitialize
  <1>. HIDE DEF held
  <1>5. \A s \in Stages : Merge(held[s], action, mask) \in Rows(size')
    BY <1>2, <1>3, MergeFits
  <1>6. pend' \in [Stages -> Rows(size') \cup {NoAction}]
    BY <1>3, <1>4, <1>5
  <1>. QED
    BY <1>1, <1>6, AtRest, BetweenCalls DEF Reinitialize, stages, Idle

LEMMA ChainStep == ChainInv /\ [Next]_vars => ChainInv'
  <1>. SUFFICES ASSUME ChainInv, [Next]_vars PROVE ChainInv'
    OBVIOUS
  <1>1. CASE \E seed \in Given : Optimize(seed)
    BY <1>1, OptimizePreserves
  <1>2. ASSUME NEW s \in Stages, StageRaises(s) PROVE ChainInv'
    BY <1>2, AtRest, BetweenCalls DEF StageRaises, stages
  <1>3. CASE \E s \in Stages : RunStage(s) \/ SkipStage(s) \/ StageRaises(s)
    BY <1>2, <1>3, RunStagePreserves, SkipStagePreserves
  <1>4. CASE Finish
    <2>1. call \in Calls /\ OutputsFit /\ ~Idle
      <3>1. ~Idle
        BY <1>4 DEF Finish, Running
      <3>. QED
        BY <3>1 DEF ChainInv, TypeOK, Idle
    <2>2. outputs' \in Seq(AllRows) /\ \A i \in DOMAIN outputs' : outputs'[i] \in Rows(size)
      BY <1>4, <2>1 DEF Finish, Calls, OutputsFit
    <2>. QED
      BY <1>4, <2>2, AtRest, BetweenCalls DEF Finish, stages
  <1>5. CASE \E action \in Given, mask \in SUBSET (1 .. MaxSize) : Reinitialize(action, mask)
    BY <1>5, ReinitializePreserves
  <1>6. CASE Shift \/ Reset \/ ResetShape
    BY <1>6, AtRest, BetweenCalls DEF Shift, Reset, ResetShape, stages, Idle
  <1>7. CASE \E n \in 1 .. MaxSize : UpdateNumProblems(n)
    BY <1>7, AtRest, BetweenCalls DEF UpdateNumProblems, stages, Idle, NoWarmStart
  <1>8. CASE \E g \in Goals : UpdateRolloutParams(g)
    BY <1>8, AtRest, BetweenCalls DEF UpdateRolloutParams, Idle
  <1>9. CASE ToggleWrapper \/ \E s \in Stages : ToggleStage(s)
    BY <1>9, AtRest, BetweenCalls DEF ToggleWrapper, ToggleStage, Idle
  <1>10. CASE UNCHANGED vars
    BY <1>10
    DEF vars, stages, ChainInv, TypeOK, LayoutsAgree, OutputsFit, StaysPlain, DrainedSoFar,
        ChainKeepsGain, Idle
  <1>. QED
    BY <1>1, <1>3, <1>4, <1>5, <1>6, <1>7, <1>8, <1>9, <1>10 DEF Next

LEMMA ChainInvariant == Spec => []ChainInv
  BY ChainInit, ChainStep, PTL DEF Spec

-----------------------------------------------------------------------------
\* Every state of the wrapper is well-formed, for every list of stages.
THEOREM ChainTypes == Spec => []TypeOK
  <1>1. ChainInv => TypeOK
    BY DEF ChainInv
  <1>. QED
    BY <1>1, ChainInvariant, PTL

\* No warm start, output or handed-on batch of an old size is ever used: every
\* resize, in the middle of a call too, reaches every stage.
THEOREM LayoutsStayAgreed == Spec => []LayoutsAgree
  <1>1. ChainInv => LayoutsAgree
    BY DEF ChainInv
  <1>. QED
    BY <1>1, ChainInvariant, PTL

\* A call of gradient stages loses nothing that any of its stages has gained,
\* for every number of stages, objective and batch.
THEOREM CallsKeepGain == Spec => []ChainKeepsGain
  <1>1. ChainInv => ChainKeepsGain
    BY DEF ChainInv
  <1>. QED
    BY <1>1, ChainInvariant, PTL

\* A call that returns leaves no enabled stage a warm start for the next call.
THEOREM CallsDrain == Spec => DrainedByCall
  <1>1. ChainInv /\ [Next]_vars
          => [Finish => \A s \in Stages : enabled[s] => pend'[s] = NoAction]_vars
    <2>1. SUFFICES ASSUME ChainInv, Finish, NEW s \in Stages, enabled[s]
                   PROVE  pend'[s] = NoAction
      OBVIOUS
    <2>2. ~Idle /\ call.at = Last + 1 /\ pend' = pend
      BY <2>1 DEF Finish, Running
    <2>3. s < Last + 1
      BY StageChainAssumption DEF Stages
    <2>. QED
      BY <2>1, <2>2, <2>3 DEF ChainInv, DrainedSoFar
  <1>. QED
    BY <1>1, ChainInvariant, PTL DEF Spec, DrainedByCall
=============================================================================
