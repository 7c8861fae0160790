--------------------------- MODULE RecedingHorizon ---------------------------
(***************************************************************************)
(* MPCSolver of curobo/_src/solver/solver_mpc.py with the                  *)
(* TrajectoryExecutionManager it serves commands from: a batch of robots,  *)
(* one joint goal each, and a queue of planned commands that is consumed   *)
(* one command a call and planned anew when its window is used up.         *)
(*                                                                         *)
(* Abstractions.  A joint goal is the pose it solves, Here for the state   *)
(* the robot was measured in, or Near for the best effort of an IK that    *)
(* failed.  The row a robot has in the queue is how it came about and the  *)
(* goal it was made for; the commands in it are told apart by their index. *)
(* Measured states, the seed tensors and the tracking flags, which nothing *)
(* reads, are left out: a call that only stores one of these is no step.   *)
(* A call that is rejected for its arguments changes nothing.              *)
(***************************************************************************)
EXTENDS Integers, FiniteSets

CONSTANTS
    Robots,           \* the rows of the batch
    Goals,            \* bound: the poses callers ask for
    Window,           \* interpolation_steps
    UseDeceleration   \* use_deceleration_on_failure

Here == "here"
Near == "near"

ASSUME RecedingHorizonAssumption ==
    /\ Robots # {} /\ IsFiniteSet(Robots)
    /\ Here \notin Goals /\ Near \notin Goals
    /\ Window \in Nat \ {0}
    /\ UseDeceleration \in BOOLEAN

JointGoals == Goals \cup {Here, Near}
Rows == [from : {"plan", "safe", "failed", "hold", "seed"}, goal : JointGoals]

VARIABLES
    alive,     \* not destroyed
    ready,     \* _setup_complete
    posed,     \* _goal_tool_poses
    goal,      \* _goal_state
    queue,     \* _action_buffer
    cursor,    \* _action_cursor
    manager,   \* trajectory_execution_manager: its buffer and command index
    warm,      \* _warm_start_available
    last,      \* _last_result: what made it and its success flags
    issued,    \* the command of the call that has just returned
    behind,    \* history: robots whose row is older than their goal or the world
    lag        \* history: the commands such a row gave since the queue was loaded

control == <<alive, ready, posed, goal, warm, last>>
commands == <<queue, cursor, manager>>
history == <<behind, lag>>
vars == <<control, commands, issued, history>>

None == <<>>
Loaded == queue # None

-----------------------------------------------------------------------------
(* The queue                                                               *)

\* Mutant: the command index is compared one too late.
HasNextLate == manager.rows # None /\ manager.used <= Window

\* has_valid_next_command; the Window + 1 commands of a plan follow a prefix of
\* as many as are skipped, so the horizon never is the tighter bound.
HasNext == manager.rows # None /\ manager.used < Window

\* Both copies of the queue are replaced, and consumption starts over.
Load(rows, used) ==
    /\ queue' = rows
    /\ manager' = [rows |-> rows, used |-> used]
    /\ cursor' = used
    /\ lag' = [b \in Robots |-> 0]

Clear ==
    /\ Load(None, 0)
    /\ behind' = {}

Untouched == UNCHANGED <<commands, lag>>

\* A goal at a measured state or an IK's best effort is new every time.
SetGoals(goals) ==
    /\ goal' = goals
    /\ behind' = IF Loaded
                 THEN behind \cup {b \in Robots : goals[b] # goal[b] \/ goals[b] \notin Goals}
                 ELSE {}

-----------------------------------------------------------------------------
(* Setup and resets                                                        *)

\* setup; the last result is kept.
Setup ==
    /\ ready' = TRUE
    /\ posed' = [b \in Robots |-> Here]
    /\ goal' = [b \in Robots |-> Here]
    /\ warm' = FALSE
    /\ Clear
    /\ issued' = None
    /\ UNCHANGED <<alive, last>>

Forget ==
    /\ ready' = FALSE
    /\ posed' = None
    /\ goal' = None
    /\ warm' = FALSE
    /\ Clear
    /\ issued' = None
    /\ UNCHANGED last

\* reset_shape
ResetShape == Forget /\ UNCHANGED alive

Destroy == Forget /\ alive' = FALSE

\* reset_seed
ResetSeed ==
    /\ warm' = FALSE
    /\ Clear
    /\ issued' = None
    /\ UNCHANGED <<alive, ready, posed, goal, last>>

\* reset_robot
ResetRobot ==
    /\ ready
    /\ goal' = [b \in Robots |-> Here]
    /\ warm' = FALSE
    /\ Clear
    /\ issued' = None
    /\ UNCHANGED <<alive, ready, posed, last>>

\* Mutant: the solver's own cursor is not set back.
ReloadKeepsCursor(rows) ==
    /\ queue' = rows
    /\ manager' = [rows |-> rows, used |-> 0]
    /\ lag' = [b \in Robots |-> 0]
    /\ UNCHANGED cursor

Reload(rows) == Load(rows, 0)

\* reset_robot_id: the rows of other robots are kept, but start over too.
ResetRobotId(ids) ==
    /\ ready
    /\ goal' = [b \in Robots |-> IF b \in ids THEN Here ELSE goal[b]]
    /\ IF Loaded
       THEN Reload([b \in Robots |->
                      IF b \in ids THEN [from |-> "hold", goal |-> Here] ELSE queue[b]])
       ELSE Untouched
    /\ behind' = behind \ ids
    /\ warm' = Loaded
    /\ issued' = None
    /\ UNCHANGED <<alive, ready, posed, last>>

-----------------------------------------------------------------------------
(* Goals, seeds and the world                                              *)

\* update_goal_state; the queue is left as it is.
UpdateGoal(ids, g) ==
    /\ ready
    /\ SetGoals([b \in Robots |-> IF b \in ids THEN g ELSE goal[b]])
    /\ Untouched
    /\ issued' = None
    /\ UNCHANGED <<alive, ready, posed, warm, last>>

\* update_seed_trajectory_from_goal_state
UpdateSeedFromGoal(g) ==
    /\ ready
    /\ SetGoals([b \in Robots |-> g])
    /\ warm' = TRUE
    /\ Untouched
    /\ issued' = None
    /\ UNCHANGED <<alive, ready, posed, last>>

\* Mutant: the result of the plan the seed replaces is kept.
ForgetNoResult == UNCHANGED last

ForgetResult == last' = None

\* update_seed_trajectory
UpdateSeed ==
    /\ ready
    /\ Load([b \in Robots |-> [from |-> "seed", goal |-> Here]], 0)
    /\ behind' = {}
    /\ ForgetResult
    /\ warm' = TRUE
    /\ issued' = None
    /\ UNCHANGED <<alive, ready, posed, goal>>

\* update_goal_tool_poses stores the poses first, whatever becomes of them.
Pose(ids, g) == posed' = [b \in Robots |-> IF b \in ids THEN g ELSE posed[b]]

\* update_goal_tool_poses without IK
StorePoses(ids, g) ==
    /\ ready
    /\ Pose(ids, g)
    /\ issued' = None
    /\ UNCHANGED <<alive, ready, goal, warm, last, commands, history>>

\* The poses of all robots are solved, whichever were given; `solved' were
\* reached.  The IK result takes the place of the last plan's.
SolvePoses(ids, g, solved) ==
    /\ ready
    /\ Pose(ids, g)
    /\ last' = [by |-> "ik", ok |-> solved]
    /\ Untouched
    /\ issued' = None
    /\ UNCHANGED <<alive, ready, warm>>

\* update_goal_tool_poses returns False, or leaves the joint goals on request.
PosesSolvedOnly(ids, g, solved) ==
    /\ SolvePoses(ids, g, solved)
    /\ UNCHANGED <<goal, behind>>

\* update_goal_tool_poses with the IK solution as the joint goals of all robots;
\* those not reached need use_best_effort_ik.
PosesBecomeGoals(ids, g, solved) ==
    /\ SolvePoses(ids, g, solved)
    /\ SetGoals([b \in Robots |-> IF b \in solved THEN posed'[b] ELSE Near])

\* _update_world: what is queued was planned in the old world.
UpdateWorld ==
    /\ behind' = IF Loaded THEN Robots ELSE {}
    /\ issued' = None
    /\ UNCHANGED <<control, commands, lag>>

-----------------------------------------------------------------------------
(* Planning and serving                                                    *)

\* Mutant: the failed plan is queued before the fallback replaces it.
PlannedAsSolved(solved) ==
    [b \in Robots |-> [from |-> IF b \in solved THEN "plan" ELSE "failed", goal |-> goal[b]]]

\* What is queued: robots that were not solved decelerate.
Planned(solved) ==
    [b \in Robots |->
        [from |-> CASE b \in solved -> "plan"
                    [] b \notin solved /\ UseDeceleration -> "safe"
                    [] OTHER -> "failed",
         goal |-> goal[b]]]

\* _solve_impl: plans, queues the plan and issues its first command.
Solve(solved) ==
    /\ alive /\ ready
    /\ Load(Planned(solved), 1)
    /\ issued' = [rows |-> Planned(solved), at |-> 0, by |-> "plan", ok |-> solved]
    /\ last' = [by |-> "plan", ok |-> solved]
    /\ warm' = TRUE
    /\ behind' = {}
    /\ UNCHANGED <<alive, ready, posed, goal>>

\* _result_from_action_buffer: the next command, under the last result.
Serve ==
    /\ HasNext
    /\ issued' = [rows |-> manager.rows, at |-> manager.used, by |-> last.by, ok |-> last.ok]
    /\ manager' = [manager EXCEPT !.used = @ + 1]
    /\ cursor' = manager.used + 1
    /\ lag' = [b \in Robots |-> IF b \in behind THEN lag[b] + 1 ELSE lag[b]]
    /\ UNCHANGED <<control, queue, behind>>

\* Mutant: a window that is used up does not ask for a new plan.
NeedsReplanOnce == ~Loaded \/ last = None

NeedsReplan == ~Loaded \/ last = None \/ ~HasNext

\* optimize_next_action
OptimizeNextAction ==
    /\ ready
    /\ \/ NeedsReplan /\ \E solved \in SUBSET Robots : Solve(solved)
       \/ ~NeedsReplan /\ Serve

\* optimize_action_sequence, cold_start_solve, warm_start_solve
OptimizeActionSequence == \E solved \in SUBSET Robots : Solve(solved)

-----------------------------------------------------------------------------
Init ==
    /\ alive = TRUE
    /\ ready = FALSE
    /\ posed = None
    /\ goal = None
    /\ queue = None
    /\ cursor = 0
    /\ manager = [rows |-> None, used |-> 0]
    /\ warm = FALSE
    /\ last = None
    /\ issued = None
    /\ behind = {}
    /\ lag = [b \in Robots |-> 0]

Subsets == SUBSET Robots \ {{}}

Configure ==
    \/ Setup \/ ResetShape \/ Destroy \/ ResetSeed \/ ResetRobot
    \/ \E ids \in Subsets : ResetRobotId(ids)

Direct ==
    \/ UpdateSeed \/ UpdateWorld
    \/ \E g \in Goals \cup {Here} : UpdateSeedFromGoal(g)
    \/ \E ids \in Subsets, g \in Goals \cup {Here} : UpdateGoal(ids, g)
    \/ \E ids \in Subsets, g \in Goals :
          \/ StorePoses(ids, g)
          \/ \E solved \in SUBSET Robots :
                PosesSolvedOnly(ids, g, solved) \/ PosesBecomeGoals(ids, g, solved)

Next == Configure \/ Direct \/ OptimizeNextAction \/ OptimizeActionSequence

Spec == Init /\ [][Next]_vars

\* The control loop keeps asking for its next command.
FairSpec == Spec /\ WF_vars(OptimizeNextAction)

-----------------------------------------------------------------------------
(* Properties                                                              *)

\* Types; no plan gives more commands than its window (has_valid_next_command).
TypeOK ==
    /\ alive \in BOOLEAN /\ ready \in BOOLEAN /\ warm \in BOOLEAN
    /\ posed \in {None} \cup [Robots -> JointGoals]
    /\ goal \in {None} \cup [Robots -> JointGoals]
    /\ ready => posed \in [Robots -> JointGoals] /\ goal \in [Robots -> JointGoals]
    /\ queue \in {None} \cup [Robots -> Rows]
    /\ cursor \in 0 .. Window
    /\ manager \in [rows : {None} \cup [Robots -> Rows], used : 0 .. Window]
    /\ last \in {None} \cup [by : {"plan", "ik"}, ok : SUBSET Robots]
    /\ issued \in {None} \cup [rows : [Robots -> Rows], at : 0 .. Window,
                               by : {"plan", "ik"}, ok : SUBSET Robots]
    /\ behind \subseteq Robots
    /\ lag \in [Robots -> Nat]

\* The solver's own queue and cursor and those of the execution manager are the
\* same, and while there is a queue the next plan is warm-started from it: no
\* reset, seed or failure updates one of the copies alone.
QueueMirrored ==
    /\ manager = [rows |-> queue, used |-> cursor]
    /\ Loaded => warm /\ ready

\* A command is never that of a plan that failed, and a robot reported as solved
\* by a plan gets a command of such a plan or holds its position; commands
\* reported under an IK result are not covered (_solve_impl, the fallback).
CommandsSafe ==
    issued # None =>
        \A b \in Robots :
            /\ UseDeceleration => issued.rows[b].from # "failed"
            /\ issued.by = "plan" /\ b \in issued.ok => issued.rows[b].from \in {"plan", "hold"}

\* After its goal or the world changed, a robot gets no more than one window of
\* commands planned before the change, unless the queue is loaded again
\* (has_valid_next_command, optimize_next_action).
StaleBounded == \A b \in Robots : lag[b] <= Window

\* Every robot's command is from a plan, or the fallback, for its goal.
Serving ==
    issued # None /\ \A b \in Robots : /\ issued.rows[b].goal = goal[b]
                                       /\ issued.rows[b].from \in {"plan", "safe", "failed"}

\* Once the caller does nothing but ask for the next command, its last goal is
\* eventually pursued by every robot, whatever was queued before and whichever
\* plans fail (optimize_next_action).
GoalsServed ==
    (<>[](alive /\ ready) /\ <>[][OptimizeNextAction]_vars) => <>[]Serving
=============================================================================
