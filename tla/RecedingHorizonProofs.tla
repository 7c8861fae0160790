------------------------ MODULE RecedingHorizonProofs ------------------------
(***************************************************************************)
(* Proofs about RecedingHorizon: what the queue holds, what the last       *)
(* result says of it and how much of it was used up fit together, whatever *)
(* the batch, the goals and the window.                                    *)
(***************************************************************************)
EXTENDS RecedingHorizon, TLAPS

\* What is queued is no failed plan, and as good as the last result says: the
\* result of a plan is dropped or stays true when its rows are replaced.
RowsSafe ==
    Loaded =>
        \A b \in Robots :
            /\ UseDeceleration => queue[b].from # "failed"
            /\ last # None /\ last.by = "plan" /\ b \in last.ok
                  => queue[b].from \in {"plan", "hold"}

\* Stale commands are counted with the commands used since the queue was loaded.
LagCounted == \A b \in Robots : lag[b] <= manager.used

HorizonInv == TypeOK /\ QueueMirrored /\ RowsSafe /\ CommandsSafe /\ LagCounted

-----------------------------------------------------------------------------
\* What replacing the queue by well-formed rows, used a little, leaves.
LEMMA LoadEffect ==
    ASSUME NEW rows \in {None} \cup [Robots -> Rows], NEW used \in 0 .. Window,
           Load(rows, used)
    PROVE  /\ queue' = rows /\ queue' \in {None} \cup [Robots -> Rows]
           /\ cursor' \in 0 .. Window
           /\ manager' \in [rows : {None} \cup [Robots -> Rows], used : 0 .. Window]
           /\ manager' = [rows |-> queue', used |-> cursor']
           /\ lag' \in [Robots -> Nat]
           /\ LagCounted'
  BY RecedingHorizonAssumption DEF Load, LagCounted

LEMMA ClearEffect ==
    ASSUME Clear
    PROVE  /\ queue' = None
           /\ cursor' \in 0 .. Window
           /\ manager' \in [rows : {None} \cup [Robots -> Rows], used : 0 .. Window]
           /\ manager' = [rows |-> queue', used |-> cursor']
           /\ lag' \in [Robots -> Nat]
           /\ LagCounted'
           /\ behind' = {}
  <1>1. Load(None, 0)
    BY DEF Clear
  <1>2. 0 \in 0 .. Window
    BY RecedingHorizonAssumption
  <1>. QED
    BY <1>1, <1>2, LoadEffect DEF Clear

\* Every call that clears the queue.
LEMMA ClearPreserves ==
    ASSUME HorizonInv, Clear, issued' = None,
           alive' \in BOOLEAN, ready' \in BOOLEAN, warm' \in BOOLEAN, last' = last,
           posed' \in {None} \cup [Robots -> JointGoals],
           goal' \in {None} \cup [Robots -> JointGoals],
           ready' => posed' \in [Robots -> JointGoals] /\ goal' \in [Robots -> JointGoals]
    PROVE  HorizonInv'
  <1>1. TypeOK'
    BY ClearEffect DEF HorizonInv, TypeOK
  <1>2. QueueMirrored' /\ RowsSafe'
    BY ClearEffect DEF QueueMirrored, RowsSafe, Loaded
  <1>3. CommandsSafe'
    BY DEF CommandsSafe
  <1>. QED
    BY <1>1, <1>2, <1>3, ClearEffect DEF HorizonInv

\* Every call that leaves the queue as it is and issues no command; the last
\* result stays, or is that of an IK.
LEMMA UntouchedPreserves ==
    ASSUME HorizonInv, Untouched, issued' = None,
           UNCHANGED <<alive, ready>>, warm' = warm \/ warm' = TRUE,
           last' = last \/ last' \in [by : {"ik"}, ok : SUBSET Robots],
           posed' = posed \/ posed' \in [Robots -> JointGoals],
           goal' = goal \/ goal' \in [Robots -> JointGoals],
           behind' \subseteq Robots
    PROVE  HorizonInv'
  <1>1. TypeOK'
    BY DEF HorizonInv, TypeOK, Untouched, commands
  <1>2. QueueMirrored'
    BY DEF HorizonInv, QueueMirrored, Untouched, commands, Loaded, TypeOK
  <1>3. RowsSafe'
    <2>1. CASE last' = last
      BY <2>1 DEF HorizonInv, RowsSafe, Untouched, commands, Loaded
    <2>2. CASE last' \in [by : {"ik"}, ok : SUBSET Robots]
      <3>1. last'.by # "plan"
        BY <2>2
      <3>. QED
        BY <3>1 DEF HorizonInv, RowsSafe, Untouched, commands, Loaded
    <2>. QED
      BY <2>1, <2>2
  <1>4. CommandsSafe'
    BY DEF CommandsSafe
  <1>5. LagCounted'
    BY DEF HorizonInv, LagCounted, Untouched, commands
  <1>. QED
    BY <1>1, <1>2, <1>3, <1>4, <1>5 DEF HorizonInv

LEMMA SetGoalsType ==
    ASSUME HorizonInv, NEW goals \in [Robots -> JointGoals], SetGoals(goals)
    PROVE  goal' \in [Robots -> JointGoals] /\ behind' \subseteq Robots
  BY DEF SetGoals, HorizonInv, TypeOK

LEMMA SolvePreserves ==
    ASSUME HorizonInv, NEW solved \in SUBSET Robots, Solve(solved)
    PROVE  HorizonInv'
  <1>1. /\ Planned(solved) \in [Robots -> Rows]
        /\ \A b \in Robots : /\ UseDeceleration => Planned(solved)[b].from # "failed"
                             /\ b \in solved => Planned(solved)[b].from = "plan"
    BY DEF Planned, Rows, Solve, HorizonInv, TypeOK
  <1>2. Load(Planned(solved), 1) /\ 1 \in 0 .. Window
    BY RecedingHorizonAssumption DEF Solve
  <1>. DEFINE rows == Planned(solved)
  <1>3. /\ queue' = rows /\ queue' \in {None} \cup [Robots -> Rows]
        /\ cursor' \in 0 .. Window
        /\ manager' \in [rows : {None} \cup [Robots -> Rows], used : 0 .. Window]
        /\ manager' = [rows |-> queue', used |-> cursor']
        /\ lag' \in [Robots -> Nat]
        /\ LagCounted'
    <2>1. rows \in {None} \cup [Robots -> Rows]
      BY <1>1
    <2>. HIDE DEF rows
    <2>2. Load(rows, 1)
      BY <1>2 DEF rows
    <2>. QED
      BY <1>2, <2>1, <2>2, LoadEffect
  <1>4. /\ issued' = [rows |-> rows, at |-> 0, by |-> "plan", ok |-> solved]
        /\ last' = [by |-> "plan", ok |-> solved]
        /\ warm' = TRUE /\ behind' = {} /\ alive /\ ready
        /\ UNCHANGED <<alive, ready, posed, goal>>
    BY DEF Solve
  <1>. HIDE DEF rows
  <1>5. rows \in [Robots -> Rows]
    BY <1>1 DEF rows
  <1>6. TypeOK'
    <2>1. last' \in {None} \cup [by : {"plan", "ik"}, ok : SUBSET Robots]
      BY <1>4
    <2>2. issued' \in {None} \cup [rows : [Robots -> Rows], at : 0 .. Window,
                                   by : {"plan", "ik"}, ok : SUBSET Robots]
      BY <1>4, <1>5, RecedingHorizonAssumption
    <2>. QED
      BY <1>3, <1>4, <2>1, <2>2 DEF HorizonInv, TypeOK
  <1>7. QueueMirrored'
    BY <1>3, <1>4 DEF QueueMirrored, Loaded
  <1>8. RowsSafe'
    BY <1>1, <1>3, <1>4 DEF RowsSafe, rows
  <1>9. CommandsSafe'
    BY <1>1, <1>4 DEF CommandsSafe, rows
  <1>. QED
    BY <1>3, <1>6, <1>7, <1>8, <1>9 DEF HorizonInv

LEMMA ServePreserves ==
    ASSUME HorizonInv, ready, ~NeedsReplan, Serve
    PROVE  HorizonInv'
  <1>1. /\ Loaded /\ last # None /\ manager.rows = queue
        /\ manager.used \in Nat /\ manager.used < Window /\ cursor = manager.used
        /\ queue \in [Robots -> Rows]
        /\ last \in [by : {"plan", "ik"}, ok : SUBSET Robots]
    BY DEF NeedsReplan, HasNext, Loaded, HorizonInv, QueueMirrored, TypeOK
  <1>2. /\ issued' = [rows |-> queue, at |-> manager.used, by |-> last.by, ok |-> last.ok]
        /\ manager' = [rows |-> queue, used |-> manager.used + 1]
        /\ cursor' = manager.used + 1
        /\ UNCHANGED <<alive, ready, posed, goal, warm, last, queue, behind>>
    BY <1>1 DEF Serve, control, HorizonInv, TypeOK
  <1>3. manager.used + 1 \in 0 .. Window /\ manager.used \in 0 .. Window
    BY <1>1, RecedingHorizonAssumption
  <1>4. lag' \in [Robots -> Nat] /\ LagCounted'
    BY <1>1, <1>2 DEF Serve, LagCounted, HorizonInv, TypeOK
  <1>5. TypeOK'
    <2>1. manager' \in [rows : {None} \cup [Robots -> Rows], used : 0 .. Window]
      BY <1>1, <1>2, <1>3
    <2>2. issued' \in {None} \cup [rows : [Robots -> Rows], at : 0 .. Window,
                                   by : {"plan", "ik"}, ok : SUBSET Robots]
      BY <1>1, <1>2, <1>3
    <2>. QED
      BY <1>2, <1>3, <1>4, <2>1, <2>2 DEF HorizonInv, TypeOK
  <1>6. QueueMirrored'
    BY <1>2 DEF HorizonInv, QueueMirrored, Loaded
  <1>7. RowsSafe'
    BY <1>2 DEF HorizonInv, RowsSafe, Loaded
  <1>8. CommandsSafe'
    BY <1>1, <1>2 DEF HorizonInv, RowsSafe, CommandsSafe
  <1>. QED
    BY <1>4, <1>5, <1>6, <1>7, <1>8 DEF HorizonInv

LEMMA ResetRobotIdPreserves ==
    ASSUME HorizonInv, NEW ids \in SUBSET Robots, ResetRobotId(ids)
    PROVE  HorizonInv'
  <1>. DEFINE rows == [b \in Robots |->
                         IF b \in ids THEN [from |-> "hold", goal |-> Here] ELSE queue[b]]
  <1>1. goal' \in [Robots -> JointGoals] /\ behind' \subseteq Robots
    BY DEF ResetRobotId, HorizonInv, TypeOK, JointGoals
  <1>2. CASE Loaded
    <2>1. queue \in [Robots -> Rows]
      BY <1>2 DEF Loaded, HorizonInv, TypeOK
    <2>2. rows \in [Robots -> Rows]
      BY <2>1 DEF Rows, JointGoals
    <2>3. \A b \in Robots : rows[b].from = "hold" \/ rows[b] = queue[b]
      OBVIOUS
    <2>4. Load(rows, 0) /\ 0 \in 0 .. Window
      BY <1>2, RecedingHorizonAssumption DEF ResetRobotId, Reload
    <2>. HIDE DEF rows
    <2>5. /\ queue' = rows /\ queue' \in {None} \cup [Robots -> Rows]
          /\ cursor' \in 0 .. Window
          /\ manager' \in [rows : {None} \cup [Robots -> Rows], used : 0 .. Window]
          /\ manager' = [rows |-> queue', used |-> cursor']
          /\ lag' \in [Robots -> Nat]
          /\ LagCounted'
      BY <2>2, <2>4, LoadEffect
    <2>6. ready /\ warm' = TRUE /\ issued' = None /\ UNCHANGED <<alive, ready, posed, last>>
      BY <1>2 DEF ResetRobotId
    <2>7. TypeOK'
      BY <1>1, <2>5, <2>6 DEF HorizonInv, TypeOK
    <2>8. RowsSafe'
      BY <1>2, <2>3, <2>5, <2>6 DEF HorizonInv, RowsSafe
    <2>9. QueueMirrored' /\ CommandsSafe'
      BY <2>5, <2>6 DEF QueueMirrored, CommandsSafe
    <2>. QED
      BY <2>5, <2>7, <2>8, <2>9 DEF HorizonInv
  <1>3. CASE ~Loaded
    <2>1. /\ Untouched /\ warm' = FALSE /\ issued' = None
          /\ UNCHANGED <<alive, ready, posed, last>>
      BY <1>3 DEF ResetRobotId
    <2>2. TypeOK'
      BY <1>1, <2>1 DEF HorizonInv, TypeOK, Untouched, commands
    <2>3. QueueMirrored' /\ RowsSafe' /\ CommandsSafe'
      BY <1>3, <2>1
      DEF HorizonInv, QueueMirrored, RowsSafe, CommandsSafe, Loaded, Untouched, commands
    <2>4. LagCounted'
      BY <2>1 DEF HorizonInv, LagCounted, Untouched, commands
    <2>. QED
      BY <2>2, <2>3, <2>4 DEF HorizonInv
  <1>. QED
    BY <1>2, <1>3

LEMMA UpdateSeedPreserves ==
    ASSUME HorizonInv, UpdateSeed
    PROVE  HorizonInv'
  <1>. DEFINE rows == [b \in Robots |-> [from |-> "seed", goal |-> Here]]
  <1>1. rows \in [Robots -> Rows] /\ \A b \in Robots : rows[b].from = "seed"
    BY DEF Rows, JointGoals
  <1>2. Load(rows, 0) /\ 0 \in 0 .. Window
    BY RecedingHorizonAssumption DEF UpdateSeed
  <1>3. /\ ready /\ behind' = {} /\ last' = None /\ warm' = TRUE /\ issued' = None
        /\ UNCHANGED <<alive, ready, posed, goal>>
    BY DEF UpdateSeed, ForgetResult
  <1>. HIDE DEF rows
  <1>4. /\ queue' = rows /\ queue' \in {None} \cup [Robots -> Rows]
        /\ cursor' \in 0 .. Window
        /\ manager' \in [rows : {None} \cup [Robots -> Rows], used : 0 .. Window]
        /\ manager' = [rows |-> queue', used |-> cursor']
        /\ lag' \in [Robots -> Nat]
        /\ LagCounted'
    BY <1>1, <1>2, LoadEffect
  <1>5. TypeOK'
    BY <1>3, <1>4 DEF HorizonInv, TypeOK
  <1>6. QueueMirrored' /\ RowsSafe' /\ CommandsSafe'
    BY <1>1, <1>3, <1>4 DEF QueueMirrored, RowsSafe, CommandsSafe
  <1>. QED
    BY <1>4, <1>5, <1>6 DEF HorizonInv

-----------------------------------------------------------------------------
LEMMA HorizonInit == Init => HorizonInv
  <1>. SUFFICES ASSUME Init PROVE HorizonInv
    OBVIOUS
  <1>1. 0 \in 0 .. Window
    BY RecedingHorizonAssumption
  <1>2. manager \in [rows : {None} \cup [Robots -> Rows], used : 0 .. Window]
    BY <1>1 DEF Init
  <1>3. TypeOK
    BY <1>1, <1>2 DEF Init, TypeOK
  <1>4. QueueMirrored /\ RowsSafe /\ CommandsSafe
    BY DEF Init, QueueMirrored, RowsSafe, CommandsSafe, Loaded
  <1>5. LagCounted
    BY DEF Init, LagCounted
  <1>. QED
    BY <1>3, <1>4, <1>5 DEF HorizonInv

LEMMA ConfigurePreserves == HorizonInv /\ Configure => HorizonInv'
  <1>. SUFFICES ASSUME HorizonInv, Configure PROVE HorizonInv'
    OBVIOUS
  <1>1. [b \in Robots |-> Here] \in [Robots -> JointGoals]
    BY DEF JointGoals
  <1>2. CASE Setup
    BY <1>1, <1>2, ClearPreserves DEF Setup, HorizonInv, TypeOK
  <1>3. CASE ResetShape \/ Destroy
    BY <1>3, ClearPreserves DEF ResetShape, Destroy, Forget, HorizonInv, TypeOK
  <1>4. CASE ResetSeed
    BY <1>4, ClearPreserves DEF ResetSeed, HorizonInv, TypeOK
  <1>5. CASE ResetRobot
    BY <1>1, <1>5, ClearPreserves DEF ResetRobot, HorizonInv, TypeOK
  <1>6. CASE \E ids \in Subsets : ResetRobotId(ids)
    BY <1>6, ResetRobotIdPreserves DEF Subsets
  <1>. QED
    BY <1>2, <1>3, <1>4, <1>5, <1>6 DEF Configure

LEMMA DirectPreserves == HorizonInv /\ Direct => HorizonInv'
  <1>. SUFFICES ASSUME HorizonInv, Direct PROVE HorizonInv'
    OBVIOUS
  <1>1. CASE UpdateSeed
    BY <1>1, UpdateSeedPreserves
  <1>2. CASE UpdateWorld
    BY <1>2, UntouchedPreserves DEF UpdateWorld, Untouched, control
  <1>3. CASE \E g \in Goals \cup {Here} : UpdateSeedFromGoal(g)
    <2>1. PICK g \in Goals \cup {Here} : UpdateSeedFromGoal(g)
      BY <1>3
    <2>2. [b \in Robots |-> g] \in [Robots -> JointGoals]
      BY DEF JointGoals
    <2>3. goal' \in [Robots -> JointGoals] /\ behind' \subseteq Robots
      BY <2>1, <2>2, SetGoalsType DEF UpdateSeedFromGoal
    <2>. QED
      BY <2>1, <2>3, UntouchedPreserves DEF UpdateSeedFromGoal
  <1>4. CASE \E ids \in Subsets, g \in Goals \cup {Here} : UpdateGoal(ids, g)
    <2>1. PICK ids \in Subsets, g \in Goals \cup {Here} : UpdateGoal(ids, g)
      BY <1>4
    <2>2. [b \in Robots |-> IF b \in ids THEN g ELSE goal[b]] \in [Robots -> JointGoals]
      BY <2>1 DEF JointGoals, UpdateGoal, HorizonInv, TypeOK
    <2>3. goal' \in [Robots -> JointGoals] /\ behind' \subseteq Robots
      BY <2>1, <2>2, SetGoalsType DEF UpdateGoal
    <2>. QED
      BY <2>1, <2>3, UntouchedPreserves DEF UpdateGoal
  <1>5. ASSUME NEW ids \in Subsets, NEW g \in Goals, Pose(ids, g), ready
        PROVE  posed' \in [Robots -> JointGoals]
    BY <1>5 DEF Pose, JointGoals, HorizonInv, TypeOK
  <1>6. ASSUME NEW ids \in Subsets, NEW g \in Goals, StorePoses(ids, g)
        PROVE  HorizonInv'
    <2>1. posed' \in [Robots -> JointGoals]
      BY <1>5, <1>6 DEF StorePoses
    <2>2. behind' \subseteq Robots
      BY <1>6 DEF StorePoses, history, HorizonInv, TypeOK
    <2>. QED
      BY <1>6, <2>1, <2>2, UntouchedPreserves DEF StorePoses, Untouched, history
  <1>7. ASSUME NEW ids \in Subsets, NEW g \in Goals, NEW solved \in SUBSET Robots,
               PosesSolvedOnly(ids, g, solved) \/ PosesBecomeGoals(ids, g, solved)
        PROVE  HorizonInv'
    <2>1. SolvePoses(ids, g, solved)
      BY <1>7 DEF PosesSolvedOnly, PosesBecomeGoals
    <2>2. posed' \in [Robots -> JointGoals]
      BY <1>5, <2>1 DEF SolvePoses
    <2>3. last' \in [by : {"ik"}, ok : SUBSET Robots]
      BY <2>1 DEF SolvePoses
    <2>4. (goal' = goal \/ goal' \in [Robots -> JointGoals]) /\ behind' \subseteq Robots
      <3>1. CASE PosesSolvedOnly(ids, g, solved)
        BY <3>1 DEF PosesSolvedOnly, HorizonInv, TypeOK
      <3>2. CASE PosesBecomeGoals(ids, g, solved)
        <4>1. [b \in Robots |-> IF b \in solved THEN posed'[b] ELSE Near]
                \in [Robots -> JointGoals]
          BY <2>2 DEF JointGoals
        <4>. QED
          BY <3>2, <4>1, SetGoalsType DEF PosesBecomeGoals
      <3>. QED
        BY <1>7, <3>1, <3>2
    <2>. QED
      BY <2>1, <2>2, <2>3, <2>4, UntouchedPreserves DEF SolvePoses
  <1>. QED
    BY <1>1, <1>2, <1>3, <1>4, <1>6, <1>7 DEF Direct

LEMMA HorizonStep == HorizonInv /\ [Next]_vars => HorizonInv'
  <1>. SUFFICES ASSUME HorizonInv, [Next]_vars PROVE HorizonInv'
    OBVIOUS
  <1>1. CASE Configure
    BY <1>1, ConfigurePreserves
  <1>2. CASE Direct
    BY <1>2, DirectPreserves
  <1>3. CASE OptimizeNextAction
    BY <1>3, SolvePreserves, ServePreserves DEF OptimizeNextAction
  <1>4. CASE OptimizeActionSequence
    BY <1>4, SolvePreserves DEF OptimizeActionSequence
  <1>5. CASE UNCHANGED vars
    BY <1>5
    DEF vars, control, commands, history, HorizonInv, TypeOK, QueueMirrored, RowsSafe,
        CommandsSafe, LagCounted, Loaded
  <1>. QED
    BY <1>1, <1>2, <1>3, <1>4, <1>5 DEF Next

LEMMA HorizonInvariant == Spec => []HorizonInv
  BY HorizonInit, HorizonStep, PTL DEF Spec

\* Every state the solver can reach is well-formed, for every batch and window.
THEOREM HorizonTypes == Spec => []TypeOK
  <1>1. HorizonInv => TypeOK
    BY DEF HorizonInv
  <1>. QED
    BY <1>1, HorizonInvariant, PTL

\* The solver's queue and that of the execution manager never differ.
THEOREM QueuesAgree == Spec => []QueueMirrored
  <1>1. HorizonInv => QueueMirrored
    BY DEF HorizonInv
  <1>. QED
    BY <1>1, HorizonInvariant, PTL

\* No robot is ever given the command of a failed plan, or told by a plan that
\* it was solved when it was not.
THEOREM CommandsAreSafe == Spec => []CommandsSafe
  <1>1. HorizonInv => CommandsSafe
    BY DEF HorizonInv
  <1>. QED
    BY <1>1, HorizonInvariant, PTL

\* Old plans run for one window at most after a goal or the world changed.
THEOREM StaleCommandsBounded == Spec => []StaleBounded
  <1>1. HorizonInv => StaleBounded
    BY RecedingHorizonAssumption DEF HorizonInv, LagCounted, StaleBounded, TypeOK
  <1>. QED
    BY <1>1, HorizonInvariant, PTL
=============================================================================
