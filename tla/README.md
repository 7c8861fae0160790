# TLA+ verification of curobo-metal

curobo-metal is a sequential Python library: its components do not run in
threads of their own and exchange no messages.  What is hard in it is long-lived
mutable state that is kept in several places at once, calls that raise halfway,
and sequences of legal calls nobody wrote a test for.  This project models the
stateful core (the sparse map, attached payloads and their world, the roadmap
planner, the receding-horizon controller, the optimizer stages and their chain),
checks it with TLC on small instances and proves the invariants, and three
refinements, with TLAPS for every size.

## Inventory

| component | state it keeps | operations | what must hold |
|---|---|---|---|
| **Block pool** `perception/mapper/sparse_runtime.py` | two dictionaries coordinate/slot, a free stack, its copies in tensors, an open-addressing hash table, per-slot payload, a high-water mark | allocate, integrate (depth, LiDAR), decay and recycle, clear blocks/region, reset, import/export | the views agree; no slot is leaked, shared or reused with an old payload |
| **Mapper** `mapper.py` | map generation, cached ESDF grid, scene overlay | integrate, clear, reset, import, compute_esdf, update_static_obstacles | a grid served as current is current; a scene update stamps exactly that scene; calls return |
| Storage facade `storage.py`, checkpoints `checkpoint_blocks.py` | the same tensors under another name | reset, statistics, save/load | no second owner of the tensors breaks the first |
| TSDF/ESDF integrators | dense fields, frame counters, derived-field cache | integrate, decay, compute | cache never stale, failed frames counted once |
| Renderer, mesh extractor, texture projector, pose refiner | none | functions of the map | numerical |
| **Attachments and world** `collision/attachment_manager.py`, `geom/collision/collision_scene.py`, `motion/motion_planner.py` | attached link, disabled obstacles, sphere bank, enable bits, cache slots | attach, update, detach, move/enable obstacle, update_world, clear, toggle links, plan_grasp | what attach takes, detach gives back, whatever fails in between |
| **Graph planner** `graph_planner/`, `curobo_metal/ops/graph_planning/core.py` | roadmap samples, generation counters, the index graph, a node buffer, a cached default node | extend, find_path with growth, read the graph, register nodes, steer, prune, reset | an old graph or world is never trusted, indices keep their meaning, a query never fails for want of room |
| **MPC solver** `solver/solver_mpc.py`, **trajectory execution** `util/trajectory_execution_manager.py` | goals, a queue of commands and its cursor (twice), last result, warm start | goals, seeds, resets, update_world, next command | no command of a failed plan, old commands for one window at most, the last goal is pursued |
| Solver core, IK, TrajOpt, goal and seed managers | goal buffers, shapes, generations | prepare, solve, reset_shape | mostly numerical |
| **Optimizers** `optim/gradient/`, `optim/multi_stage_optimizer.py`, `optim/_portable.py` | a pending warm start, the record of the last solve, convergence counts, the list of stages and the outputs of the last call | optimize, reinitialize with a mask, shift, reset, resize, update goals and settings, toggle | the best is kept, a warm start is used once, a solve stops when it should, nothing of an old size is used |
| Rollouts, goals, costs | goal registry | copy, resize, evaluate | mostly numerical |
| Batch planner, retargeter | little of their own | drivers over the solvers | |
| State filter `util/state_filter.py` | a filtered state | filter | numerical |
| State, transition, kinematics, Metal operators, loaders | none | functions | floating-point or I/O |

How they interact.  A `Mapper` owns a pool and calls it synchronously; the
storage facade *shares the pool's tensors*, so `Mapper.reset` resets them twice.
A `MotionPlanner` owns one collision world and passes it to IK, TrajOpt and the
graph planner by reference; the attachment manager it uses belongs to the IK
solver's `SolverCore`, writes the planner's shared `KinematicsParams` and toggles
obstacles in the shared world.  World updates mutate that world in place, or
replace it together with the manager.  The roadmap's index graph lives in a path
finder that the node manager, the graph constructor and the path pruner write to
as well, and the planner's samples were accepted in whatever world there was then;
nobody tells it that the world has changed.  The MPC solver keeps its queue and
hands a copy to the execution manager, which decides when it is used up.  A
`MultiStageOptimizer` hands the result of one stage to the next, and broadcasts warm
starts, goals and resizes to stages that each keep their own.  There are no callbacks, timeouts or
retries in these parts; the only interruption is an exception in the middle of a
call, after which the object remains in use.

The hazards this leaves are listed in `PROJECT.json`, each at its line with the
properties that cover it.

## Modules

| module | models |
|---|---|
| `BlockMap` | the promise: a bounded map from coordinates to observation levels |
| `BlockPool` | `PortableSparseTSDF`, one action per call or loop iteration |
| `BlockPoolProofs` | the theorems about `BlockPool` |
| `BlockMapProofs` | that `BlockPool` implements `BlockMap` |
| `MCBlockPool` | instances of it for TLC |
| `SparseMapper` | `Mapper` in compact mode, composed with the pool (EXTENDS) |
| `SparseMapperProofs` | the theorems about the composition |
| `MCSparseMapper` | instances |
| `Attachments` | the payload, the manager, the world it was taken from, world updates, contact links |
| `AttachmentProofs` | the theorems about `Attachments` |
| `MCAttachments` | instances |
| `Roadmap` | `PRMGraphPlanner`: what it does itself, and what others may do to its graph |
| `RoadmapNodes` | node manager, constructor, linear connector and pruner over `Roadmap` (EXTENDS) |
| `RoadmapProofs` | the theorems about both, and that the second implements the first |
| `MCRoadmap` | an instance |
| `RecedingHorizon` | `MPCSolver` with the `TrajectoryExecutionManager` it serves from |
| `RecedingHorizonProofs` | the theorems about it |
| `MCRecedingHorizon` | an instance |
| `Objectives` | what optimizers compare, and how masked warm starts merge |
| `WarmStart` | the promise of a gradient stage |
| `Descent` | one gradient stage: gradient descent, conjugate gradient, L-BFGS and L-SR1 |
| `DescentProofs` | the theorems about it, and that it implements `WarmStart` |
| `StageChain` | `MultiStageOptimizer` |
| `StageChainProofs` | the theorems about it |
| `MCDescent`, `MCStageChain` | instances |

### BlockPool

Every redundant view is a variable of its own: `_coord_to_pool`,
`_pool_to_coord`, the Python list `_free`, the tensors `free_count`, `free_list`,
`hash_table`, `block_to_hash_slot`, the high-water mark `num_allocated`, and the
grown capacity.  Methods that loop over blocks (`_integrate_candidates`,
`decay_and_recycle`, `clear_blocks`) run one iteration per step, so invariants
are also checked where an exception could expose an intermediate state; `op`
names the running call and keeps others from starting, because the code is
sequential.  `Allocate` has the four outcomes of `_allocate`: present, recycled
slot, fresh slot, refused.  `Grow`, `Probe`, `Release`, `Mark` are the
same-named steps of the code.  A checkpoint load (`Import`) keeps the loop that
does not advance its probe.

Data abstractions: a coordinate is a number in the order `torch.unique` sorts
them; the observation of a block is a level, 0 meaning a weight sum of at most
1e-5; the static channel of a block is whether any voxel of it is finite.  Which
of the candidates an observation actually measures is nondeterministic.

`BlockMap` knows only coordinates, levels and a refusal counter: a block enters
when there is room and enters unobserved, is refused only when the map is full,
and is never observed while absent.  `BlockPool` implements it under the mapping
`Abstract` (`ImplementsMap`): a level is read through `_coord_to_pool`, so a slot
reused with its old payload, or a refusal with a slot still free, shows up as a
step `BlockMap` does not have.

### SparseMapper

A `Mapper` call is a script of pool calls; `stage` is its position.  `integrate`
runs decay, then fusion, for each sensor; clears move the generation on only when
they hit a live block; `update_static_obstacles` clears the overlay, allocates
and stamps the boxes of the new scene, and sweeps blocks with neither channel.
The generation counter is used by the code only in a comparison with the
generation of the cached grid, and only that comparison is kept (`esdf`).  A
grid is the field it was computed from.  A call that raises ends the script where
the code raises: malformed observations before and after decay, malformed scenes
after the overlay was cleared, too many visible LiDAR blocks after allocation,
camera-support failures between the generation bump and the cache drop.

### Attachments

Every public method is one action or, where it can raise, several with the state
each leaves behind.  `detach` runs its enable loop over names and environments up
to the first name that is not loaded (`Reached`), then raises `KeyError` and
forgets nothing.  `attach` validates names, detaches what it held, fits spheres,
writes them into a resized bank and disables obstacles; it can raise before any of
that, inside the detach, or while fitting.  An in-place `update_world` keeps the
planner's manager, a replacement adopts the new, empty one of `SolverCore`.
Loading clears an environment before it loads it, and a record that cannot be
loaded leaves a prefix.  Moving an obstacle rewrites its cache slot as active and
needs the scene record that a failed load has dropped (`broken`).

The spheres of a link have centres and radii, and the two are written by different
calls: `silent` are the links whose radii are the sentinel -100, `faded` the payloads
whose radii are no longer those they were fitted with.  `plan_grasp` turns its
contact links off in front of a `try` and on in the `finally`; a name that is no
link stops it before the `try` (`GraspMisnamed`).  Turning a link on writes the
link's *own* radii, so a grasp whose contact links include the one that carries a
payload (`franka.yml` lists `attached_object` among them) leaves the payload with
radii that are not its own.  No property says it keeps them, because it does not;
`DetachRestores` and `AttachReplaces` say what repairs it.

A scene is a set of names per environment; obstacles are in one fixed-capacity
cache (`Cached`) or in the analytic list, which the code treats differently.

### Roadmap and RoadmapNodes

`Roadmap` has the persistent samples, the neighbour policy and the index graph that
is rebuilt from them before it is read, when its generation is behind.  Only
whether the two generations are equal matters and none comes back, so the pair is
one bit, `stale`.  `find_path` is several steps: the rejection of infeasible
endpoints and the direct connections (`FindPath`, `FindPathRejected`), one `Grow`
per round, and `Finish`; no other call comes in between.  The sampler may return
any feasible configurations, or none.  A query plans over its own terminals and
the samples that are feasible *now*, with edges checked then (`QueryEdges`), and
never over the index graph.  All the others may do to the graph is `Register` and
`Wipe`.

`RoadmapNodes` gives the actions that do it.  A call works on a record of what it
has so far and commits it, whether it raised or not: a node batch is de-duplicated
within itself and against the buffer, checked against the capacity, and appended;
pairs are steered to the last free point of their line and registered under the
row that point resolves to.  The constructor caches the feasibility of the default
posture before it adds its node, and the add may raise.  `PrunePath` registers
shortcuts and then reads the graph: if that is stale, it is rebuilt and the
shortcuts are gone.

Configurations are points of a table of distances and of the points between them.
One table serves all of the code's distances, which are weighted in some places
and not in others: with unit weights they are the same.  Ties are broken by index,
as the code's stable sorts do.

### RecedingHorizon

The solver's queue and cursor, and the manager's buffer and command index, are
variables of their own.  A row of the queue is how it came about (planned, the
deceleration fallback, a failed plan, a reset's hold, a seed) and the goal it was
made for.  `Solve` plans for every robot at once and fails for any of them; a
queue is followed until the window is used up, whatever changes meanwhile.
`reset_robot_id` reloads the rows of all robots and starts over.
`update_goal_tool_poses` stores the poses, solves them for all robots, keeps the IK
result as the last result and may or may not make it the goals; until the next
plan, queued commands are reported under that result.  `behind` and `lag` are
history: which robots follow a row that is older than their goal or the world, and
for how many commands.  Seed tensors, tracking flags and measured states, which no
decision reads, are left out; so is the shift of a warm start.

### Objectives, WarmStart and Descent

The gradient optimizers differ in how they move and share everything else: a solve
takes its start from the pending warm start, iterates over a batch of problems, keeps
the best action of each, counts per problem how often its best has not changed, and
stops when enough of them have settled.  `Moves` is all a method is: gradient descent
refuses candidates whose cost is not finite and projects; conjugate gradient may go
anywhere; L-BFGS and L-SR1 take the cheapest of candidates that include where they
are, unless a gradient that is not finite loses the problem.  A problem without a
finite cost has a masked gradient and stays.  One `Iterate` is a step of the whole
batch; `Raise` is a rollout that throws in any of them.  `run` are the locals of a
solve, with the trace that the code records in debug mode; `asked` is history, what
`reinitialize` was last given for each problem.  Costs that are not finite are one
value, `Infinite`, above all others, because every comparison of the code guards
against them.  Curvature histories only choose among the moves and are left out.

`WarmStart` is the promise: a warm start is held until the next solve, which uses it
and leaves a record that is no worse.  The mapping `Held` counts a warm start that a
running solve has taken as held until the solve is over; a solve that raises abandons
it.

### StageChain

A stage of the chain is what `Descent` shows of it: where it starts (`StageStart`) and
what it may return (`Returns`).  A sampling stage starts its distribution at what it
is handed, so that warm starts do not reach it, and returns anything.  A call runs one
stage per step, because stages may raise, and the first batch of another size resizes
every stage in its middle (`Adopt`).  `plain` is history: whether the enabled stages
were, when the call began, gradient stages that return their best, with one goal and
no warm starts.

## Runs

| run | configuration | question | result |
|---|---|---|---|
| `pool` | `MCBlockPool.cfg` | do all views of the pool agree and does it implement `BlockMap`, checkpoint loads included | holds |
| `pool_import` | `MCBlockPoolImport.cfg` | does every live block have a hash slot | violated |
| `mapper` | `MCSparseMapper.cfg` | ESDF freshness, overlay stamping, well-formed inputs | holds |
| `mapper_hard` | `MCSparseMapperHard.cfg` | pool consistency and termination under malformed input, overflow and reset | holds |
| `mapper_stale` | `MCSparseMapperStale.cfg` | ESDF freshness with a LiDAR capacity that overflows | violated |
| `mapper_reset` | `MCSparseMapperReset.cfg` | does fusion after a reset add static geometry | violated |
| `attach` | `MCAttachments.cfg` | is everything attach or a grasp takes given back, whatever fails | holds |
| `attach_strand` | `MCAttachmentsStrand.cfg` | does detach free the robot across world updates | violated |
| `graph` | `MCRoadmap.cfg` | is an old graph or world ever trusted, is every edge backed, does the whole implement `Roadmap` | holds |
| `mpc` | `MCRecedingHorizon.cfg` | do the queue's copies agree, is every command safe and not too old, is the last goal pursued | holds |
| `descent` | `MCDescent.cfg` | does a stage keep the best, stop when it should, start as it was asked to, and keep the promise of `WarmStart` | holds |
| `chain` | `MCStageChain.cfg` | is anything of an old size used, does a call lose what a stage has gained | holds |

The violated runs are disagreements between the code and its own docs; each is a
finding in `PROJECT.json` with both lines.  In words:

1. A checkpoint with colliding home entries leaves a live block without a hash
   slot, because the probe of `import_blocks` never advances.
2. A LiDAR frame with too many visible blocks wipes them and raises before the
   generation moves on: `is_esdf_current` stays true over a changed map.
3. After `Mapper.reset` the static channel holds zeros, which are finite, so
   blocks allocated later carry static geometry nobody stamped.
4. Replacing the adapter gives the planner an empty attachment manager: `detach`
   does nothing and the payload stays on the robot.

Other things the code does that its docs do not say, which the models have in their
actions and no run asks about:

- In compact mode dynamic clears, and decay before a fusion, release blocks that
  carry only static geometry (`docs/dropin-mapper-lifecycle.md:12-13`).
- `update_world` checks capacities only; a scene with a record that cannot be loaded
  clears the caller's world before it raises.
- `reinitialize` with a mask replaces the start of every problem when nothing is
  pending (`docs/dropin-gradient-descent-lifecycle.md:8-9`): `Merge`.
- L-BFGS and conjugate gradient check that the bounds are well formed and do not
  project (`docs/dropin-lbfgs-lifecycle.md:11`): `Projected`.
- `reinitialize` gives every gradient stage of a chain a warm start of its own; in
  the next call those after the first throw away what they are handed
  (`multi_stage_optimizer.py:5`): `StageStart`.
- A goal update does not reach a disabled stage
  (`docs/dropin-multi-stage-optimizer.md:18-20`): `UpdateRolloutParams`.

`mapper` keeps those conditions out by its constants (default LiDAR capacity, no
reset, well-formed inputs, checkpoints of one block), which is what makes
`EsdfFresh` and `FusionAddsNoStatic` hold there; `mapper_hard` puts them back in for the
properties that survive them.

### Properties worth a comment

- `PoolPartition` and `VacantBlank` are the two halves of safe reuse: slots are
  handed out uncleared, so a slot must be blank at the moment it becomes free.
- `ProbeReachable` is what tombstones are for.  It breaks only after a particular
  order of colliding insertions and releases.
- `HashMirror` needs a table with an entry per slot, which the code does not
  check: with a full table `block_to_hash_slot` keeps a provisional value that
  names another block's entry.
- `LoopTargetsLive`: loops run over lists computed before they started.
- `EsdfFresh` relates the cache to the map it summarises over whole scripts.
- `SceneStamped` and `StampKeepsDynamic` hold of whole scene updates, refusals of
  a full pool included.
- `GraspGivesBack` is about planning that raises while the hand is out of the
  collision checks.
- `GraphCurrent` is what the counters are for: any extension, growth, policy change
  or reset that left them equal would let an old graph be served, and what others
  have registered since the last rebuild must not be lost by anything but one.
- `PlanSound` relates a plan to the world of the moment it is returned, although
  samples and graph come from other worlds.
- `EdgesBacked`: de-duplication may move the end of a steered edge twice, to another
  point of the batch and from there to a row; an edge ends no farther than two
  thresholds from where steering got, also in a call that goes on to raise.
- `DefaultAnchored` has an exception, `orphan`: resetting the node manager alone
  leaves the constructor with a row that is not there.
- `StaleBounded` and `GoalsServed` are the two halves of following a queue: what is
  old ends after one window, and what is new is then pursued.
- `StopsOnConvergence` relates the counts that are carried from iteration to iteration
  to the trace of the solve, through steps that go uphill and costs that are lost.
- `BestOfVisited` and `ReturnsFinite` hold of every method, whatever it moves to: the
  best is compared with the best so far, never with the last step.
- `StartsAsAsked` is about orders of masked reinitializations, solves, failures and
  resizes; it speaks of the problems that were asked for, because the code also
  replaces others (above).
- `LayoutsAgree` holds in the middle of a call that adopts a batch of another size,
  and `ChainKeepsGain` along the whole chain.  Without the premises of `plain` a later
  stage may lose the gain of an earlier one: it starts from a warm start of its own or
  pursues a goal of its own.
- `DisabledOwned` says the manager's list suffices to undo what was done to the
  world, after any failure and any world update; `DetachRestores`,
  `AttachReplaces` and `FailedAttachHarmless` are the transactional promises of the
  class and module docs.

### Bounds

- Pool: three coordinates over two slots, so the pool fills, refuses and recycles;
  a table of three entries in which two coordinates share the *last* entry as
  home, so probing wraps around and meets tombstones; initial capacity one, so the
  tensors grow once and are clipped.  One observation level above zero
  distinguishes measured from unmeasured.  The failure counter saturates at one.
  Checkpoints have zero or two blocks: two is the least that can collide.
- Mapper: the same pool with LiDAR and camera observations alone and together.
  `mapper_hard` has two coordinates with one home and a LiDAR capacity of one.
- Attachments: one link is toggled or grasped with, and it can carry a payload
  (`ContactSets`); the other one can only carry.  Two environments (the least for "some but not all"), a cached and
  an analytic obstacle, two links, a joint state of one or two environments, and
  name lists that are empty, single, and double in an order that makes the loop
  stop in the middle.  A joint state wider than the world is left out.  Callers
  leave the list of obstacles to enable to the manager (`EnableLists = {<<>>}`):
  one who passes another list strands obstacles by his own decision.  Adapters
  handed in have everything enabled.
- Roadmap: left, middle, near and right lie on a line and top is off it; one world
  has the middle blocked, so that the way is by top.  Three nodes, which
  the two terminals of a query and the default posture fill; a policy of two neighbours, raised to
  all by a call (`CallNeighbors = {4}`); two rounds of growth that double.  Near is
  within the similarity threshold of the middle and outside it of right, so steered
  end points merge.  `MCFew` keeps samples and nodes from being many at once.  The
  branch of `Grow` that raises is never taken: that is `QueryNeverRaises`.
- Receding horizon: two robots, the least for partial resets and partial failure;
  one goal besides the pose a robot stands at and the best effort of an IK; a window
  of two, so that a queue can be in use, at its end, and used up.

- Descent: two problems, the least for masks and for half of a batch; four actions, of
  which one is beyond the bounds and, under one goal, without a finite cost; two goals
  that oppose each other; two settings per method with up to three iterations, so
  that a count can rise, fall back and rise again.
- Stage chain: two stages of every kind that matters together, batches of one and two
  problems, three actions with opposite costs under two goals.  Longer chains are
  covered by the proofs.

The invariants `StatsCountLive`, `MapperTypeOK`, `AttachTypeOK`, `RoadmapTypeOK`,
and those of `RecedingHorizon`, `Descent` and `StageChain`, `DescentBounded` and
`DrainedByCall` are proved for every size and not checked again on a small instance.

Deadlock is checked in every run: some call is always possible.

### Fairness

`CallsReturn` assumes weak fairness of `Steps`, the steps of a call that is already
running: the calling thread keeps executing the method it is in, and no call is
ever required to be made.  `GoalsServed` assumes weak fairness of
`OptimizeNextAction`: the control loop that owns an MPC solver keeps asking for its
next command.  Its premise is that from some time on the solver is set up and the
loop does nothing else; nothing is assumed of the plans, which may fail for ever.

## Proofs

`BlockPoolProofs` proves, for every finite set of coordinates, home function,
pool size, table size and growth start:

- `PoolInvariant`: `Spec => []PoolInv`, with `PoolInv` the conjunction of `TypeOK`,
  `MapsAgree`, `PoolPartition`, `FreeMirror`, `VacantBlank` and `LoopTargetsLive`.
  None of these is inductive alone.  Typing of `Release` needs its target to be
  live (`LoopTargetsLive`); that stays true while the loop runs because the
  dictionaries are inverse (`MapsAgree`); a popped slot is blank by `VacantBlank`
  and free by `PoolPartition`; that the free stack fits its tensor copy
  (`FreeFits`) is a pigeonhole over `PoolPartition`.  There is one lemma per action.
- `TypeCorrect`, `MapsStayInverse`, `SlotsPartitioned`, `FreeListMirrored`,
  `NoGhosts` are its conjuncts.
- `HandlesAreStable` (`StableHandles`): a coordinate keeps its slot while it is in
  the map; an action property from the invariant.
- `StatsAreRight` (`StatsCountLive`): `num_allocated - free_count` is the number of
  live blocks, by counting the partition.
- `HashTableMirrors` (`HashMirror`) and `BlocksStayReachable` (`ProbeReachable`)
  under `TableFits`, `MaxBlocks <= HashCapacity`.  The argument is that a slot about
  to be bound is not in the table, so the live entries are fewer than the table's;
  probing visits every entry (`ProbeCovers`) and so meets an open one (`OpenEntry`).
  Entries before it on the probe path are occupied or tombstones, never EMPTY, and a
  release leaves a tombstone, so no path is ever cut.
- `LoopTargetsStayLive` is a conjunct of the invariant.

`BlockMapProofs` proves `PoolImplementsMap`: initial states map to initial states and
every step to a step of `BlockMap` or a stutter.  The counting is in
`PresentCount`: as many coordinates are present as slots are live, so a refusal by an
empty free stack at full height is a refusal of a full map.

`SparseMapperProofs` carries this over to the Mapper, which calls the pool, resets it
twice and stamps its static channel past its methods:

- `MapperInvariant`: `PoolInv`, `MapperTypeOK` and the list of sensors still to be
  fused are inductive for the composition; `MapperTypes`, `MapperSlotsPartitioned`,
  `MapperImplementsMap` and `MapperHashTable` follow.
- `SlotsOfLiveBlocks` (`SlotContract`) under `TableFits` and `SmallCheckpoints`,
  checkpoints of at most one block.
- `GridIsFresh` (`EsdfFresh`) under `QuietInputs`: well-formed inputs and a LiDAR
  capacity that does not overflow.  The strengthening says where in a script the
  cache may be behind.
- `StampingKeepsDynamic`: the slots a scene update sweeps are those that are empty in
  both channels, at every step of the sweep.
- `FusionIsDynamic` and `ScenesAreStamped` in a mapper that is never reset: vacant
  slots then have no static geometry, and stamping gives exactly the boxes of the new
  scene.

`SmallCheckpoints`, `QuietInputs` and never resetting are not assumed for
convenience: the runs `pool_import`,
`mapper_stale` and `mapper_reset` violate the same properties without them.

`AttachmentProofs` proves, for every set of links and obstacles, any number of
environments and any cache size, under `OwnLists` (callers leave the list of
obstacles to enable to the manager):

- `AttachInvariant`: types and `DisabledOwned` are inductive together.  The key
  lemma is `FreedEnablesAll`: if nothing is missing, enabling what the manager
  lists enables everything, because what is disabled is on the list.
- `FailedAttachIsHarmless`, `DetachGivesBack`, `AttachTakesOver`: action properties
  from that invariant.  `GraspLinksReturn` needs none.

`RoadmapProofs` proves, for every set of configurations, distance and edge table,
set of worlds, capacity, policy and growth factor:

- `RoadmapInv`, the conjunction of `PlannerTypeOK`, `GraphCurrent`, `QueryOK` and
  `PlanSound`, of `RoadmapSpec`.  `QueryOK` is the strengthening: what a running query
  no longer has pending was connected directly in the world of now, because nothing
  changes the world while it runs.
- `IndicesAreStable` and `QueriesNeverRaise` from it.
- `NodesImplementRoadmap`: `RoadmapNodes` implements `Roadmap`.  What has to be shown
  is that every call only adds to what was registered, whatever it resolved and even
  if it raised; `PlannerIsSound` and `PlannerKeepsIndices` then hold of the whole
  planner.
- `NodesInv`, of the whole planner: `NodesTypeOK`, `DefaultAnchored`, that no
  configuration has two rows of the node buffer (`RowsDistinct`) and that registered
  nodes are rows (`RegisteredRows`), for every metric, tolerance, connector line and
  batch.  `NodesTypes`, `DefaultStaysAnchored` and `NodesAreRows` are its conjuncts;
  `GraphHasRows` (`RoadmapTypeOK`) adds the types of the graph across rebuilds.
- `EdgesAreBacked` (`EdgesBacked`), from the same invariant.  The argument: a point of
  a call is kept or has a kept point within the tolerance before it (`KeptStands`),
  and a kept point has a row within the tolerance or gets one (`AddedFits`), so by the
  triangle inequality a point resolves to a row at most two tolerances away
  (`ResolvedFacts`); with tolerance 0 that is a row that holds it (`ExactRows`).
  Steering ends where it started or at a point it reached through free ones
  (`SteeredFacts`).  So a pair whose start is in its row registers a backed edge
  (`SteeredBacked`), and every call steers such pairs only: from the nearest rows
  (`NearestPairsType`), along a path (`ShortcutPairsType`), between exact terminals and
  the default node (`TerminalsAnchored`), where `DefaultAnchored` is needed.  Edges
  stay backed while more rows are appended (`BackedStays`).

  `Kept` is a recursive function and `Sorted` picks by rank.  That the recursion has a
  solution (`KeptExists`), and what it computes, is shown by induction over a set of
  naturals (`SetInduction`: 0 and the successor of each of its members), since the
  library's induction rules take an operator and cannot be used.  That there is one
  element per rank is a pigeonhole (`Positions`).

`RecedingHorizonProofs` proves, for every set of robots and window, `HorizonInv`:
types, `QueueMirrored`, that queued rows are safe for the last result (`RowsSafe`),
`CommandsSafe`, and that the lag never exceeds the command index (`LagCounted`), of
which `StaleBounded` is a consequence.

`DescentProofs` proves, for every set of actions and problems, every objective, every
projection and every list of settings, `DescentInv`:

- `BestIsBest` and `ReturnsAreFinite` rest on `NewCosts`: what an iteration keeps costs
  no more than before and than where it moved to.
- `StopsAsConfigured`: `StreakCounted` is the strengthening, each count is the length
  of the stable end of the trace of its problem; `CountsSettled` says that it reaches
  what is required exactly when the last iterations were stable.
- `StartsAreAsked` needs that between solves what was asked for is pending
  (`AskedHeld`), which masks, failures and settings preserve.
- `DescentIsBounded`: gradient descent never leaves the bounds.
- `DescentImplementsWarmStart`: every step is one of `WarmStart` under `Held`, or a
  stutter; the return of a solve is its `Solve`, with the actual start as the witness.

`StageChainProofs` proves, for every list of stages and every size of batch,
`ChainInv`: `LayoutsStayAgreed`, `CallsKeepGain` and `CallsDrain`.  Gains add up along
the chain by `KeepsTransitive`, and `StaysPlain` says that nothing a call is plain by
changes before the stages that need it have run.

The assumptions on constants are the `ASSUME`s of the modules, which TLC evaluates
in every run.

Only model-checked: the liveness properties `CallsReturn` and `GoalsServed`, which need
fairness and `ENABLED` and are out of the prover's reach.  Every other property of a
passing run is proved for all values of the constants, under the hypotheses named
above.

## Plan

1. *Done:* `BlockMap`, `BlockPool`, `SparseMapper`, their invariants and the
   refinement, checked and proved.
2. *Done:* `Attachments`, with world updates and contact links, checked and proved.
3. *Done:* `Roadmap`, `RoadmapNodes`, the refinement, checked and proved; the node
   buffer, the default node and the edges proved as well.
4. *Done:* `RecedingHorizon`, checked and proved.
5. *Done:* `Descent` with the refinement of `WarmStart`, `StageChain`, checked and
   proved.
6. The dense mode of the mapper: frame validation, failure counters and the cache of
   the derived field of the TSDF and ESDF integrators.
7. The goal registry.
8. The particle optimizers' distributions across `shift` and `reset`.

## Not modelled

- The dense mirror mode of `Mapper` and the dense TSDF and ESDF integrators, rendering, mesh extraction, texture
  projection and pose refinement: functions of the map over floating-point data.
- Coordinates' geometry: which blocks a ray, a box or a window touches is a free
  choice in the model, so the half-block offset between LiDAR and camera keys and
  the window of a cached ESDF grid are listed as hazards without a property.
- The storage facade beyond the reset it shares with the pool, and the file
  format of checkpoints.
- How an optimizer computes a step: gradients, curvature histories, line searches, the
  distributions of sampling stages, and the unused components of the CUDA layout.
  Mixed precision of the convergence ratio and partial settings after a rejected
  `update_solver_params` are not in the model either.
- IK and trajectory optimization, rollouts, costs, kinematics and Metal
  operators other than the graph search: numerical iterations; their correctness is
  about real numbers, not about states.  In the models they are oracles that succeed
  or fail.
- The samplers of the graph planner (distribution, seeds), interpolation of plans,
  distances other than the unit-weighted one, the standalone sampling strategy.
- The second attachment manager, reached through `ik_solver.core`.
- Configuration loading, USD/YAML input and compatibility re-exports: parsing and
  I/O.

## Running

    tlc -config MCBlockPool.cfg MCBlockPool
    tlapm BlockPoolProofs.tla

`PROJECT.json` lists every run, the mutation of the model that breaks each
property of a passing run, and the source lines of every definition.
