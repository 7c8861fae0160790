----------------------------- MODULE StageChain -----------------------------
(***************************************************************************)
(* MultiStageOptimizer of curobo/_src/optim/multi_stage_optimizer.py: a    *)
(* list of stages, each with a rollout and, if it is a gradient stage, a   *)
(* warm start of its own; a call hands a batch of actions from one enabled *)
(* stage to the next.                                                      *)
(*                                                                         *)
(* Abstractions.  A stage is what Descent shows of it: a gradient stage    *)
(* starts from its warm start if it has one, uses it up, and returns       *)
(* something no worse if it returns its best action; a sampling stage      *)
(* starts a new distribution at its seed in every call, so that what       *)
(* reinitialize and shift do to the old one is lost, and returns anything. *)
(* The layouts of a stage, solver parameters, timing and debug traces are  *)
(* left out, and so are the calls that are only passed on to the stages.   *)
(* A call that is rejected for its arguments changes nothing.              *)
(***************************************************************************)
EXTENDS Objectives, Sequences

CONSTANTS
    Last,      \* stages are 1 .. Last
    Pipelines, \* bound: the lists of stages there are, per stage a gradient stage that
               \* returns its best action or its last one, or a sampling stage
    MaxSize,   \* bound: problems of a batch
    Given,     \* bound: the batches callers pass
    NoCall     \* no optimize is running

Stages == 1 .. Last
Kinds == {"best", "last", "sampling"}
Rows(n) == [1 .. n -> Actions]
AllRows == UNION {Rows(n) : n \in 1 .. MaxSize}
Calls == [seed : AllRows, at : 1 .. Last + 1, current : AllRows,
          outputs : Seq(AllRows), plain : BOOLEAN]

ASSUME StageChainAssumption ==
    /\ Last \in Nat \ {0}
    /\ Pipelines \subseteq [Stages -> Kinds]
    /\ MaxSize \in Nat \ {0}
    /\ Given \subseteq AllRows
    /\ NoAction \notin AllRows
    /\ NoCall \notin Calls

VARIABLES
    kind,      \* the list of stages
    active,    \* _enabled of the wrapper
    enabled,   \* enabled of each stage
    goal,      \* what the rollout of each stage is asked for
    pend,      \* the warm start of each stage
    size,      \* config.num_problems, which every stage follows
    outputs,   \* _last_stage_outputs
    call       \* the locals of a running _run_stages; plain is history

stages == <<kind, active, enabled, goal>>
vars == <<stages, pend, size, outputs, call>>

Idle == call = NoCall
NoWarmStart == [s \in Stages |-> NoAction]

-----------------------------------------------------------------------------
(* optimize                                                                *)

\* _canonical_seed: a batch of another size is adopted while the size is one; every
\* stage is resized then, which drops its warm start.
Accepts(rows) == DOMAIN rows = 1 .. size \/ size = 1
Resizes(rows) == DOMAIN rows # 1 .. size
Adopt(rows) ==
    /\ size' \in {n \in 1 .. MaxSize : DOMAIN rows = 1 .. n}
    /\ pend' = IF Resizes(rows) THEN NoWarmStart ELSE pend

\* The enabled stages are gradient stages that return their best, have no warm
\* starts and one goal among them.
Plain(warm) ==
    \A s \in Stages : enabled[s] =>
        /\ kind[s] = "best"
        /\ warm[s] = NoAction
        /\ \A t \in Stages : enabled[t] => goal[t] = goal[s]

\* A disabled wrapper runs no stage and reports no outputs.
Optimize(seed) ==
    /\ Idle /\ Accepts(seed)
    /\ Adopt(seed)
    /\ call' = IF active
               THEN [seed |-> seed, at |-> 1, current |-> seed,
                     outputs |-> <<>>, plain |-> Plain(pend')]
               ELSE NoCall
    /\ outputs' = IF active /\ ~Resizes(seed) THEN outputs ELSE <<>>
    /\ UNCHANGED stages

Running(s) == ~Idle /\ call.at = s

\* Where stage s starts: see Optimize of Descent.
StageStart(s) ==
    IF kind[s] = "sampling" THEN call.current ELSE Start(pend[s], call.current)

\* What stage s may return: BestOfVisited and ReturnsFinite of Descent.
Returns(s, rows) ==
    CASE kind[s] = "best" -> Keeps(goal[s], rows, StageStart(s))
      [] kind[s] = "last" -> StaysFinite(goal[s], rows, StageStart(s))
      [] OTHER -> TRUE

\* Mutant: every stage is handed the seed of the call.
RunStageOnSeed(s) ==
    /\ Running(s) /\ enabled[s]
    /\ \E rows \in Rows(size) :
        /\ Keeps(goal[s], rows, Start(pend[s], call.seed))
        /\ call' = [call EXCEPT
                      !.at = s + 1, !.current = rows,
                      !.outputs = Append(call.outputs, rows)]
    /\ pend' = [pend EXCEPT ![s] = NoAction]
    /\ UNCHANGED <<stages, size, outputs>>

RunStage(s) ==
    /\ Running(s) /\ enabled[s]
    /\ \E rows \in Rows(size) :
        /\ Returns(s, rows)
        /\ call' = [call EXCEPT
                      !.at = s + 1, !.current = rows,
                      !.outputs = Append(call.outputs, rows)]
    /\ pend' = [pend EXCEPT ![s] = NoAction]
    /\ UNCHANGED <<stages, size, outputs>>

SkipStage(s) ==
    /\ Running(s) /\ ~enabled[s]
    /\ call' = [call EXCEPT !.at = s + 1]
    /\ UNCHANGED <<stages, pend, size, outputs>>

\* A stage that raises has used its warm start up, unless it raises before: the
\* stages after it keep theirs, and the outputs of the last call stay.
StageRaises(s) ==
    /\ Running(s) /\ enabled[s]
    /\ call' = NoCall
    /\ pend' \in {pend, [pend EXCEPT ![s] = NoAction]}
    /\ UNCHANGED <<stages, size, outputs>>

Finish ==
    /\ Running(Last + 1)
    /\ outputs' = call.outputs
    /\ call' = NoCall
    /\ UNCHANGED <<stages, pend, size>>

-----------------------------------------------------------------------------
(* Lifecycle                                                               *)

\* Disabled stages are left out.
Reinitialize(action, mask) ==
    /\ Idle /\ Accepts(action) /\ mask \subseteq DOMAIN action
    /\ size' \in {n \in 1 .. MaxSize : DOMAIN action = 1 .. n}
    /\ LET held == IF Resizes(action) THEN NoWarmStart ELSE pend IN
       pend' = [s \in Stages |-> IF enabled[s] /\ kind[s] # "sampling"
                                 THEN Merge(held[s], action, mask) ELSE held[s]]
    /\ outputs' = <<>>
    /\ UNCHANGED <<stages, call>>

\* Every stage drops its warm start; the outputs of the last call stay.
Shift == Idle /\ pend' = NoWarmStart /\ UNCHANGED <<stages, size, outputs, call>>

Reset == Idle /\ pend' = NoWarmStart /\ outputs' = <<>> /\ UNCHANGED <<stages, size, call>>

\* Gradient stages keep their warm starts.
ResetShape == Idle /\ outputs' = <<>> /\ UNCHANGED <<stages, pend, size, call>>

\* Mutant: warm starts survive a resize.
UpdateNumProblemsKeeping(n) ==
    /\ Idle
    /\ size' = n /\ outputs' = <<>>
    /\ UNCHANGED <<stages, pend, call>>

UpdateNumProblems(n) ==
    /\ Idle
    /\ size' = n /\ pend' = NoWarmStart /\ outputs' = <<>>
    /\ UNCHANGED <<stages, call>>

\* Disabled stages are left out.
UpdateRolloutParams(g) ==
    /\ Idle
    /\ goal' = [s \in Stages |-> IF enabled[s] THEN g ELSE goal[s]]
    /\ UNCHANGED <<kind, active, enabled, pend, size, outputs, call>>

ToggleWrapper ==
    /\ Idle /\ active' = ~active
    /\ UNCHANGED <<kind, enabled, goal, pend, size, outputs, call>>

ToggleStage(s) ==
    /\ Idle /\ enabled' = [enabled EXCEPT ![s] = ~enabled[s]]
    /\ UNCHANGED <<kind, active, goal, pend, size, outputs, call>>

Init ==
    /\ kind \in Pipelines
    /\ active = TRUE
    /\ enabled = [s \in Stages |-> TRUE]
    /\ goal \in {[s \in Stages |-> g] : g \in Goals}
    /\ pend = NoWarmStart
    /\ size \in 1 .. MaxSize
    /\ outputs = <<>>
    /\ call = NoCall

Next ==
    \/ \E seed \in Given : Optimize(seed)
    \/ \E s \in Stages : RunStage(s) \/ SkipStage(s) \/ StageRaises(s)
    \/ Finish
    \/ \E action \in Given, mask \in SUBSET (1 .. MaxSize) : Reinitialize(action, mask)
    \/ Shift
    \/ Reset
    \/ ResetShape
    \/ \E n \in 1 .. MaxSize : UpdateNumProblems(n)
    \/ \E g \in Goals : UpdateRolloutParams(g)
    \/ ToggleWrapper
    \/ \E s \in Stages : ToggleStage(s)

Spec == Init /\ [][Next]_vars

-----------------------------------------------------------------------------
(* Properties                                                              *)

\* Types of the wrapper's attributes and of a running call.
TypeOK ==
    /\ kind \in Pipelines
    /\ active \in BOOLEAN
    /\ enabled \in [Stages -> BOOLEAN]
    /\ goal \in [Stages -> Goals]
    /\ pend \in [Stages -> AllRows \cup {NoAction}]
    /\ size \in 1 .. MaxSize
    /\ outputs \in Seq(AllRows)
    /\ call \in Calls \cup {NoCall}

\* Warm starts, the outputs of the last call and what a call hands on have a row
\* for each of the problems there are now, whoever resized the batch.
LayoutsAgree ==
    /\ \A s \in Stages : pend[s] # NoAction => pend[s] \in Rows(size)
    /\ \A i \in DOMAIN outputs : outputs[i] \in Rows(size)
    /\ ~Idle => call.seed \in Rows(size) /\ call.current \in Rows(size)

\* A call of gradient stages that have one goal and no warm starts hands on what is
\* no worse, for any problem, than the seed or what any stage has returned.
ChainKeepsGain ==
    ~Idle /\ call.plain =>
        \A s \in Stages : enabled[s] =>
            /\ Keeps(goal[s], call.current, call.seed)
            /\ \A i \in DOMAIN call.outputs :
                Keeps(goal[s], call.current, call.outputs[i])

\* When a call returns, no enabled stage has a warm start left for the next.
DrainedByCall ==
    [][Finish => \A s \in Stages : enabled[s] => pend'[s] = NoAction]_vars
=============================================================================
