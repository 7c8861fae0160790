----------------------------- MODULE Attachments -----------------------------
(***************************************************************************)
(* The payload of a motion planner and the collision world it was taken    *)
(* from: AttachmentManager of curobo/_src/collision/attachment_manager.py, *)
(* the SceneCollision it disables obstacles in, the sphere bank of the     *)
(* robot's KinematicsParams it writes the payload into, the world updates  *)
(* of MotionPlanner that replace the one under the other, and the contact  *)
(* links that a grasp plan turns off in the same sphere bank.              *)
(*                                                                         *)
(* The code is sequential and every public method is one action; a method  *)
(* that raises is an action of its own or an outcome of the same one, with *)
(* the state it leaves behind.  `last' names the call that was just made,  *)
(* `raised' whether it raised.                                             *)
(*                                                                         *)
(* Abstractions.  A scene is the set of obstacle names of each             *)
(* environment.  Names in Cached live in the fixed-capacity caches, the    *)
(* others in the list of analytic obstacles.  The spheres of a link are    *)
(* either its reference spheres or those of a payload; their radii may be  *)
(* the sentinel of a link that is off, and those of a payload may have     *)
(* been replaced by the link's own.                                        *)
(***************************************************************************)
EXTENDS Integers, Sequences, FiniteSets

CONSTANTS
    Link,          \* robot links with sphere slots a payload can be fitted to
    Name,          \* obstacle names
    Cached,        \* the names held by a cache of limited capacity
    Envs,          \* environments of the planner's world
    NameLists,     \* bound: the disable_obstacle_names callers pass
    EnableLists,   \* bound: the enable_obstacle_names callers pass
    ContactSets,   \* bound: the links callers turn off or grasp with
    MaxCapacity    \* bound: the largest cache a caller configures

None == "none"
Env  == 1 .. Envs

ASSUME AttachmentAssumption ==
    /\ None \notin Link
    /\ Cached \subseteq Name /\ IsFiniteSet(Name)
    /\ Envs \in Nat \ {0}
    /\ NameLists \subseteq Seq(Name) /\ EnableLists \subseteq Seq(Name)
    /\ ContactSets \subseteq SUBSET Link
    /\ MaxCapacity \in Nat

VARIABLES
    obstacles,     \* obstacles[e]: the names loaded into environment e
    active,        \* active[e]: those whose enable bit is set
    capacity,      \* the slots of the cache, per environment
    broken,        \* environments without a scene record: their load raised
    bank,          \* environments in the sphere bank (link_spheres.shape[0])
    carried,       \* carried[e]: the links whose spheres are a payload's
    silent,        \* silent[e]: the links whose spheres have the radius of none
    faded,         \* faded[e]: the payloads whose radii have been overwritten
    link,          \* _attached_link_name of the planner's manager
    disabled,      \* its _disabled_obstacle_names
    disabledEnvs,  \* its _disabled_num_envs
    last,          \* the call just made
    raised         \* whether it raised

world   == <<obstacles, active, capacity, broken>>
robot   == <<bank, carried, silent, faded>>
manager == <<link, disabled, disabledEnvs>>
outcome == <<last, raised>>
attachVars == <<world, robot, manager, outcome>>

Scene == [Env -> SUBSET Name]

\* The cache of `slots' per environment has room for the scene.
Room(scene, slots) == \A e \in Env : Cardinality(scene[e] \cap Cached) <= slots

\* The cache holds the first scene exactly, or what the caller configured.
Init ==
    /\ obstacles \in Scene
    /\ active = obstacles
    /\ capacity \in 0 .. MaxCapacity
    /\ Room(obstacles, capacity)
    /\ broken = {}
    /\ bank = Envs
    /\ carried = [e \in Env |-> {}]
    /\ silent = [e \in Env |-> {}]
    /\ faded = [e \in Env |-> {}]
    /\ link = None
    /\ disabled = <<>>
    /\ disabledEnvs = 0
    /\ last = "create"
    /\ raised = FALSE

Returns(call) == last' = call /\ raised' = FALSE
Raises(call)  == last' = call /\ raised' = TRUE

-----------------------------------------------------------------------------
(* detach                                                                  *)

\* The enable loop runs over names and, for each, over the environments that
\* were disabled; it stops with KeyError at the first name that is not loaded.
Pairs(names, n) == (1 .. Len(names)) \X (1 .. n)
Before(a, b) == a[1] < b[1] \/ (a[1] = b[1] /\ a[2] < b[2])
Missing(names, n) ==
    {a \in Pairs(names, n) : names[a[1]] \notin obstacles[a[2]]}
Reached(names, n) ==
    {a \in Pairs(names, n) : \A b \in Missing(names, n) : Before(a, b)}

\* Mutant: only the first environment is enabled again.
EnabledFirst(names, n) ==
    [e \in Env |-> active[e] \cup
        {names[i] : i \in {i \in 1 .. Len(names) :
                             e = 1 /\ <<i, e>> \in Reached(names, n)}}]

Enabled(names, n) ==
    [e \in Env |-> active[e] \cup
        {names[i] : i \in {i \in 1 .. Len(names) :
                             <<i, e>> \in Reached(names, n)}}]

\* Mutant: only the first environment of the bank is restored.
RestoredFirst(l, before) == [before EXCEPT ![1] = @ \ {l}]

\* reset_link_spheres of l, for one of the sets of links kept of the bank.
Restored(l, before) == [e \in Env |-> before[e] \ {l}]

ResetLink(l) ==
    /\ carried' = Restored(l, carried)
    /\ silent' = Restored(l, silent)
    /\ faded' = Restored(l, faded)

Forget == link' = None /\ disabled' = <<>> /\ disabledEnvs' = 0

\* The link defaults to the attached one, the names to the disabled ones.
Detach(arg, given) ==
    LET l     == IF arg = None THEN link ELSE arg
        names == IF given = <<>> THEN disabled ELSE given
        fails == Missing(names, disabledEnvs) # {}
    IN  /\ l # None
        /\ ResetLink(l)
        /\ active' = Enabled(names, disabledEnvs)
        /\ IF ~fails /\ l = link THEN Forget ELSE UNCHANGED manager
        /\ IF fails THEN Raises("detach") ELSE Returns("detach")
        /\ UNCHANGED <<obstacles, capacity, broken, bank>>

DetachNothing ==
    /\ link = None
    /\ Returns("detach")
    /\ UNCHANGED <<world, robot, manager>>

-----------------------------------------------------------------------------
(* update and attach                                                       *)

\* set_num_envs(n): the bank keeps its leading environments and is extended
\* with the reference spheres.
Resized(n, before) ==
    [e \in Env |-> IF e <= n /\ e <= bank THEN before[e] ELSE {}]

\* The payload is written into every environment of the resized bank.
Written(l, n, before) ==
    [e \in Env |-> IF e <= n THEN Resized(n, before)[e] \cup {l} ELSE {}]

\* Its spheres come with radii of their own.
Rewritten(l, n, before) ==
    [e \in Env |-> IF e <= n THEN Resized(n, before)[e] \ {l} ELSE {}]

WriteLink(l, n, ofLinks, off, changed) ==
    /\ carried' = Written(l, n, ofLinks)
    /\ silent' = Rewritten(l, n, off)
    /\ faded' = Rewritten(l, n, changed)
    /\ bank' = n

\* Spheres are refused before anything changes; accepted, they overwrite
\* those of the link, whatever another link still carries.
Update(l, n) ==
    /\ WriteLink(l, n, carried, silent, faded)
    /\ link' = l
    /\ Returns("update")
    /\ UNCHANGED <<world, disabled, disabledEnvs>>

Holds == link # None \/ disabled # <<>>

\* The names must exist in each of the n environments of the joint state.
Known(names, n) ==
    \A i \in 1 .. Len(names), e \in 1 .. n : names[i] \in obstacles[e]

AttachUnknown(names, n) ==
    /\ ~Known(names, n)
    /\ Raises("attach")
    /\ UNCHANGED <<world, robot, manager>>

\* Detaching the prior payload raises, and the attach with it.
AttachBlocked(names, n) ==
    /\ Known(names, n)
    /\ Holds
    /\ Missing(disabled, disabledEnvs) # {}
    /\ ResetLink(link)
    /\ active' = Enabled(disabled, disabledEnvs)
    /\ Raises("attach")
    /\ UNCHANGED <<obstacles, capacity, broken, bank, manager>>

\* What the manager leaves behind once it holds nothing any more.
Freed == Missing(disabled, disabledEnvs) = {}
ActiveFreed == Enabled(disabled, disabledEnvs)
Without(names, n) ==
    [e \in Env |-> IF e <= n
                     THEN ActiveFreed[e] \ {names[i] : i \in 1 .. Len(names)}
                     ELSE ActiveFreed[e]]

\* Mutant: the obstacles are disabled before the spheres are fitted.
AttachUnfittedLate(names, n) ==
    /\ Known(names, n)
    /\ Freed
    /\ ResetLink(link)
    /\ active' = Without(names, n)
    /\ IF Holds THEN Forget ELSE UNCHANGED manager
    /\ Raises("attach")
    /\ UNCHANGED <<obstacles, capacity, broken, bank>>

\* The payload cannot be fitted, has more spheres than the link has slots, or
\* its pose is malformed; the prior payload is gone by then.
AttachUnfitted(names, n) ==
    /\ Known(names, n)
    /\ Freed
    /\ ResetLink(link)
    /\ active' = ActiveFreed
    /\ IF Holds THEN Forget ELSE UNCHANGED manager
    /\ Raises("attach")
    /\ UNCHANGED <<obstacles, capacity, broken, bank>>

\* Mutant: the number of environments is not recorded.
RecordOne(l, names, n) ==
    /\ link' = l
    /\ disabled' = names
    /\ disabledEnvs' = IF names = <<>> THEN 0 ELSE 1

Record(l, names, n) ==
    /\ link' = l
    /\ disabled' = names
    /\ disabledEnvs' = IF names = <<>> THEN 0 ELSE n

AttachFits(l, names, n) ==
    /\ Known(names, n)
    /\ Freed
    /\ WriteLink(l, n, Restored(link, carried), Restored(link, silent),
                  Restored(link, faded))
    /\ active' = Without(names, n)
    /\ Record(l, names, n)
    /\ Returns("attach")
    /\ UNCHANGED <<obstacles, capacity, broken>>

-----------------------------------------------------------------------------
(* SceneCollision, used by the application directly                        *)

\* Moving an obstacle of a cache writes its slot anew from the scene record,
\* which enables it; an analytic obstacle keeps its enable bit.
MoveObstacle(name, e) ==
    /\ name \in obstacles[e]
    /\ name \in Cached => e \notin broken
    /\ active' = IF name \in Cached
                   THEN [active EXCEPT ![e] = @ \cup {name}] ELSE active
    /\ Returns("move")
    /\ UNCHANGED <<obstacles, capacity, broken, robot, manager>>

MoveRaises(name, e) ==
    /\ name \in obstacles[e] \cap Cached
    /\ e \in broken
    /\ Raises("move")
    /\ UNCHANGED <<world, robot, manager>>

-----------------------------------------------------------------------------
(* MotionPlanner.update_world and clear_scene_cache                        *)

\* Loading a scene enables everything in it.
Load(scene) == obstacles' = scene /\ active' = scene /\ broken' = {}

\* A scene that fits is loaded into the planner's adapter.  SolverCore creates
\* a new manager, which the planner does not take over: the adapter is the same.
UpdateWorld(scene) ==
    /\ Room(scene, capacity)
    /\ Load(scene)
    /\ Returns("update_world")
    /\ UNCHANGED <<capacity, robot, manager>>

\* One that does not fit, an adapter or a configuration replaces the adapter,
\* and the planner's manager by the new one of SolverCore.
ReplaceWorld(scene, slots) ==
    /\ Room(scene, slots)
    /\ Load(scene)
    /\ capacity' = slots
    /\ Forget
    /\ Returns("update_world")
    /\ UNCHANGED robot

\* Only capacities are checked in advance.  A record that cannot be loaded (a
\* duplicate name, malformed faces, a grid without values) raises after the
\* environments before e have been loaded and e has been cleared; `part' is
\* what was loaded of it, caches first.
UpdateRaises(scene, e, part) ==
    LET left == [d \in Env |-> IF d < e THEN scene[d]
                              ELSE IF d = e THEN part ELSE obstacles[d]]
    IN  /\ Room(scene, capacity)
        /\ part \subseteq scene[e]
        /\ part \subseteq Cached \/ scene[e] \cap Cached \subseteq part
        /\ obstacles' = left
        /\ active' = [d \in Env |-> IF d <= e THEN left[d] ELSE active[d]]
        /\ broken' = {d \in broken : d >= e} \cup {e}
        /\ Raises("update_world")
        /\ UNCHANGED <<capacity, robot, manager>>

ClearSceneCache ==
    /\ Load([e \in Env |-> {}])
    /\ Returns("clear")
    /\ UNCHANGED <<capacity, robot, manager>>

-----------------------------------------------------------------------------
(* Contact links                                                           *)

\* disable_link_spheres and enable_link_spheres write a radius in every
\* environment of the bank: the sentinel, or the link's own.  Either way a
\* payload on the link loses the radii it was fitted with.
TurnedOff(ls) == [e \in Env |-> IF e <= bank THEN silent[e] \cup ls ELSE silent[e]]
TurnedOn(ls)  == [e \in Env |-> silent[e] \ ls]
Overwrite(ls) == faded' = [e \in Env |-> faded[e] \cup (ls \cap carried[e])]

\* disable_link_collision and enable_link_collision stop with ValueError at the
\* first name that is no link; ls are those before it.
DisableLinks(ls, call) ==
    /\ silent' = TurnedOff(ls)
    /\ Overwrite(ls)
    /\ last' = call
    /\ UNCHANGED <<world, bank, carried, manager>>

EnableLinks(ls, call) ==
    /\ silent' = TurnedOn(ls)
    /\ Overwrite(ls)
    /\ last' = call
    /\ UNCHANGED <<world, bank, carried, manager>>

\* plan_grasp ends before it has touched a link: malformed arguments, no grasp
\* in reach, no way to the approach pose, or the approach was all that was asked.
GraspUnreached ==
    /\ last' = "grasp"
    /\ raised' \in BOOLEAN
    /\ UNCHANGED <<world, robot, manager>>

\* The links are turned off in front of the try block, up to a wrong name, as
\* disable_link_collision does, and left so.
GraspMisnamed(ls) == DisableLinks(ls, "links") /\ raised' = TRUE

\* Mutant: the links are turned on when planning returns, not when it raises.
GraspPlannedUnguarded(ls) ==
    /\ raised' \in BOOLEAN
    /\ IF raised' THEN DisableLinks(ls, "grasp") ELSE EnableLinks(ls, "grasp")

\* With the links off plan_pose is called, once for the grasp and once for the
\* lift (BatchMotionPlanner: for the goal set as well); whether it returns or
\* raises, they are turned on.
GraspPlanned(ls) == EnableLinks(ls, "grasp") /\ raised' \in BOOLEAN

-----------------------------------------------------------------------------
DetachCall  == \E arg \in Link \cup {None}, given \in EnableLists :
                 Detach(arg, given)
UpdateCall  == \E l \in Link, n \in Env : Update(l, n)
AttachCall  == \E names \in NameLists, n \in Env :
                 \/ AttachUnknown(names, n)
                 \/ AttachBlocked(names, n)
                 \/ AttachUnfitted(names, n)
                 \/ \E l \in Link : AttachFits(l, names, n)
MoveCall    == \E name \in Name, e \in Env :
                 MoveObstacle(name, e) \/ MoveRaises(name, e)
WorldCall   == \E scene \in Scene :
                 \/ UpdateWorld(scene)
                 \/ \E slots \in 0 .. MaxCapacity : ReplaceWorld(scene, slots)
                 \/ \E e \in Env : \E part \in SUBSET scene[e] :
                      UpdateRaises(scene, e, part)
LinkCall    == \E ls \in ContactSets :
                 \/ DisableLinks(ls, "links") /\ raised' \in BOOLEAN
                 \/ EnableLinks(ls, "links") /\ raised' \in BOOLEAN
GraspCall   == \/ GraspUnreached
               \/ \E ls \in ContactSets : GraspMisnamed(ls) \/ GraspPlanned(ls)

Next ==
    \/ DetachCall
    \/ DetachNothing
    \/ UpdateCall
    \/ AttachCall
    \/ MoveCall
    \/ WorldCall
    \/ ClearSceneCache
    \/ LinkCall
    \/ GraspCall

Spec == Init /\ [][Next]_attachVars

-----------------------------------------------------------------------------
(* Properties                                                              *)

\* Types; a spheres bank no wider than the world; nothing faded but payloads; no list of disabled
\* obstacles without a payload, and no count of environments without a list.
AttachTypeOK ==
    /\ obstacles \in Scene
    /\ active \in Scene
    /\ \A e \in Env : active[e] \subseteq obstacles[e]
    /\ capacity \in 0 .. MaxCapacity
    /\ bank \in Env
    /\ carried \in [Env -> SUBSET Link]
    /\ silent \in [Env -> SUBSET Link] /\ faded \in [Env -> SUBSET Link]
    /\ \A e \in Env : /\ e > bank => carried[e] = {} /\ silent[e] = {}
                      /\ faded[e] \subseteq carried[e]
    /\ link \in Link \cup {None}
    /\ disabled \in Seq(Name)
    /\ disabledEnvs \in 0 .. Envs
    /\ disabled = <<>> <=> disabledEnvs = 0
    /\ link = None => disabled = <<>>
    /\ broken \subseteq Env
    /\ raised \in BOOLEAN

\* An obstacle that is out of the collision world although it is loaded is on
\* the list of the planner's manager, for that environment: whatever fails,
\* detach knows what to enable again.
DisabledOwned ==
    \A e \in Env : \A name \in obstacles[e] \ active[e] :
        /\ e <= disabledEnvs
        /\ \E i \in 1 .. Len(disabled) : disabled[i] = name

\* "A failed validation cannot resize the robot spheres or partially disable
\* a world object": an attach that raises adds no payload, resizes nothing,
\* disables nothing, and neither turns a link off nor spoils a payload.
FailedAttachHarmless ==
    [][last' = "attach" /\ raised'
         => /\ bank' = bank
            /\ \A e \in Env : /\ carried'[e] \subseteq carried[e]
                              /\ silent'[e] \subseteq silent[e]
                              /\ faded'[e] \subseteq faded[e]
                              /\ active[e] \subseteq active'[e]]_attachVars

\* A detach of the attached link that returns leaves no payload on it in any
\* environment and the link's own spheres on, whatever was done to them in
\* between, and enables whatever the manager had disabled.
DetachRestores ==
    [][last' = "detach" /\ ~raised' /\ link' = None /\ link # None
         => \A e \in Env :
              /\ link \notin carried'[e] \cup silent'[e] \cup faded'[e]
              /\ active'[e] = obstacles'[e]]_attachVars

\* "Re-attaching first resets the previous link's reference spheres and
\* re-enables scene obstacles disabled by that manager": an attach that
\* returns leaves the payload in every environment of the bank, on and with its
\* own radii, none on the link attached before, and only its own obstacles
\* disabled.
AttachReplaces ==
    [][last' = "attach" /\ ~raised'
         => /\ \A e \in 1 .. bank' : link' \in (carried'[e] \ silent'[e]) \ faded'[e]
            /\ link # link' => \A e \in Env : link \notin carried'[e]
            /\ \A e \in Env : obstacles'[e] \ active'[e] =
                 {disabled'[i] : i \in {i \in 1 .. Len(disabled') :
                                        e <= disabledEnvs'}}]_attachVars

\* A grasp plan whose contact links exist leaves no link out of the collision
\* checks that was in them before, though planning fails or raises halfway (the
\* try blocks of plan_grasp).
GraspGivesBack ==
    [][last' = "grasp"
         => \A e \in Env : silent'[e] \subseteq silent[e]]_attachVars

\* Replacing the world preserves the attachment, so that detach takes the
\* payload off the robot whatever world updates were made in between.
DetachFrees ==
    [][last' = "detach" => \A e \in Env : carried'[e] = {}]_attachVars
=============================================================================
