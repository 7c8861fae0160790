---------------------------- MODULE SparseMapper ----------------------------
(***************************************************************************)
(* The high-level Mapper of curobo/_src/perception/mapper/mapper.py for a  *)
(* map too large for a dense mirror (_sparse_only): the calls a user makes *)
(* of it, each a script of calls of the block pool, with the ESDF grid it  *)
(* caches and the static obstacles it stamps.  `stage' is where the        *)
(* running Mapper call stands; its loops are the loops of BlockPool.       *)
(*                                                                         *)
(* The map generation is kept only as its comparison with the generation   *)
(* of the cached grid, the one use the code makes of it.  A grid is what   *)
(* it was computed from: the level and the static channel of every block.  *)
(***************************************************************************)
EXTENDS BlockPool

CONSTANTS
    LidarCapacity,  \* config.max_visible_blocks_per_lidar_integration
    Decaying,       \* config.decay_factor < 1.0
    Resets,         \* bound: whether the user ever resets the mapper
    BadInputs       \* bound: whether observations and scenes may be malformed

ASSUME MapperAssumption ==
    /\ LidarCapacity \in 1 .. MaxBlocks
    /\ Decaying \in BOOLEAN /\ Resets \in BOOLEAN /\ BadInputs \in BOOLEAN

VARIABLES
    stage,      \* where the running Mapper call stands
    sensors,    \* the sensors an integrate call still has to fuse
    boxLeft,    \* the blocks a scene update still has to allocate
    solid,      \* the blocks of the scene that hold a solid voxel
    esdf,       \* _last_esdf_generation: none, that of the map, or older
    grid        \* what _last_voxel_grid was computed from

mapperVars == <<vars, stage, sensors, boxLeft, solid, esdf, grid>>
script     == <<sensors, boxLeft, solid>>
cache      == <<esdf, grid>>

\* Observations as integrate orders them: LiDAR first, then the cameras.
Observations == {<<"lidar">>, <<"camera">>, <<"lidar", "camera">>}
Capacity(sensor) == IF sensor = "lidar" THEN LidarCapacity ELSE MaxBlocks

Blank == [c \in Coord |-> <<0, FALSE>>]

\* What an extraction of occupied voxels can see of the map.
Field == [c \in Coord |->
            IF coordToPool[c] = NONE THEN <<0, FALSE>>
            ELSE <<weight[coordToPool[c]], static[coordToPool[c]]>>]

StaticBlocks  == {c \in Coord : Field[c][2]}
DynamicBlocks == {c \in Coord : Field[c][1] > 0}
Dynamic       == [c \in Coord |-> Field[c][1]]

MapperInit ==
    /\ Init
    /\ stage = "idle"
    /\ sensors = <<>>
    /\ boxLeft = {}
    /\ solid = {}
    /\ esdf = "none"
    /\ grid = Blank

\* Mutant: the call that changed the map forgets the cache.
KeepCache == UNCHANGED cache

\* The generation moves on and the cached grid is dropped.
Invalidate == esdf' = "none" /\ grid' = Blank

-----------------------------------------------------------------------------
(* integrate                                                               *)

MapperIntegrate(obs) ==
    /\ stage = "idle"
    /\ stage' = "sensor"
    /\ sensors' = obs
    /\ UNCHANGED <<vars, boxLeft, solid, cache>>

\* Each sensor of the call lets the map decay before it is fused.
StartDecay ==
    /\ stage = "sensor"
    /\ Decaying
    /\ DecayAny
    /\ stage' = "decay"
    /\ UNCHANGED <<script, cache>>

SkipDecay ==
    /\ stage = "sensor"
    /\ ~Decaying \/ numAllocated = 0
    /\ stage' = "ready"
    /\ UNCHANGED <<vars, script, cache>>

DecayStep ==
    /\ stage = "decay"
    /\ RecycleNext
    /\ UNCHANGED <<stage, script, cache>>

DecayReturns ==
    /\ stage = "decay"
    /\ ReleaseDone
    /\ stage' = "ready"
    /\ UNCHANGED <<script, cache>>

StartFuse ==
    /\ stage = "ready"
    /\ \E S \in SUBSET Coord : Integrate(S, Capacity(Head(sensors)))
    /\ stage' = "fuse"
    /\ UNCHANGED <<script, cache>>

\* An observation is refused before it decays the map when a field is missing
\* or has the wrong shape, and after that when its candidate blocks cannot be
\* computed.  An earlier sensor of the call has been fused by then.
RejectObservation ==
    /\ BadInputs
    /\ stage \in {"sensor", "ready"}
    /\ stage' = "idle"
    /\ sensors' = <<>>
    /\ UNCHANGED <<vars, boxLeft, solid, cache>>

FuseStep ==
    /\ stage = "fuse"
    /\ IntegrateNext
    /\ UNCHANGED <<stage, script, cache>>

FuseReturns ==
    /\ stage = "fuse"
    /\ FuseAny
    /\ sensors' = Tail(sensors)
    /\ stage' = IF sensors' = <<>> THEN "idle" ELSE "sensor"
    /\ Invalidate
    /\ UNCHANGED <<boxLeft, solid>>

\* The camera support tables are filled after the generation has moved on and
\* before the cache is dropped; an appearance image of a wrong shape raises.
SupportRaises ==
    /\ BadInputs
    /\ stage = "fuse"
    /\ Head(sensors) = "camera"
    /\ FuseAny
    /\ stage' = "idle"
    /\ sensors' = <<>>
    /\ esdf' = IF esdf = "none" THEN "none" ELSE "old"
    /\ UNCHANGED <<boxLeft, solid, grid>>

\* The pool raises ValueError through integrate.
FuseOverflows ==
    /\ stage = "fuse"
    /\ VisibleOverflow
    /\ stage' = "idle"
    /\ sensors' = <<>>
    /\ UNCHANGED <<boxLeft, solid, cache>>

-----------------------------------------------------------------------------
(* clear_blocks, clear_region, reset, import_blocks, compute_esdf          *)

\* Only a clear that hits a live block moves the generation on.
MapperClear(indices) ==
    /\ stage = "idle"
    /\ ClearBlocks(indices)
    /\ stage' = IF indices \cap Active = {} THEN "miss" ELSE "clear"
    /\ UNCHANGED <<script, cache>>

MapperClearRegion(box) ==
    MapperClear({p \in Active : poolToCoord[p] \in box})

ClearStep ==
    /\ stage \in {"miss", "clear", "sweep"}
    /\ ClearNext
    /\ UNCHANGED <<stage, script, cache>>

ClearReturns ==
    /\ stage \in {"miss", "clear", "sweep"}
    /\ ReleaseDone
    /\ stage' = "idle"
    /\ boxLeft' = {}
    /\ solid' = {}
    /\ IF stage = "miss" THEN UNCHANGED cache ELSE Invalidate
    /\ UNCHANGED sensors

\* The storage facade is reset first and shares the pool's tensors: it fills
\* free_list with -1 and the static channel with zeros, which are finite
\* distances, and the pool's own reset restores neither.
MapperReset ==
    /\ Resets
    /\ stage = "idle"
    /\ ResetMaps
    /\ freeList' = [p \in Pool |-> NONE]
    /\ static' = [p \in Pool |-> p < capacity]
    /\ Invalidate
    /\ UNCHANGED <<stage, script>>

MapperImport ==
    /\ stage = "idle"
    /\ ImportAny
    /\ Invalidate
    /\ UNCHANGED <<stage, script>>

\* A request without arguments is served from the cache while it is current.
ComputeEsdf ==
    /\ stage = "idle"
    /\ esdf' = "current"
    /\ grid' = Field
    /\ UNCHANGED <<vars, stage, script>>

-----------------------------------------------------------------------------
(* update_static_obstacles                                                 *)

\* Mutant: the old scene is not cleared.
KeepStatic == static' = static

\* The static channel of every live block is cleared before anything else.
ClearStatic == static' = [p \in Pool |-> p \notin Active /\ static[p]]

UpdateStatic(box, inside) ==
    /\ stage = "idle"
    /\ ClearStatic
    /\ stage' = "stamp"
    /\ boxLeft' = box
    /\ solid' = inside
    /\ UNCHANGED <<maps, free, numAllocated, capacity, mirrors, hash, weight,
                   failures, call, sensors, cache>>

\* A record of the wrong type in the scene raises after that.
RejectScene ==
    /\ BadInputs
    /\ stage = "idle"
    /\ ClearStatic
    /\ UNCHANGED <<maps, free, numAllocated, capacity, mirrors, hash, weight,
                   failures, call, stage, script, cache>>

\* Every block of a primitive's bounding box is allocated, and stamped when a
\* voxel of it lies inside the primitive; a refused block is passed over.
StampStep ==
    /\ stage = "stamp"
    /\ \E c \in boxLeft :
         /\ Allocate(c)
         /\ boxLeft' = boxLeft \ {c}
         /\ static' = [p \in Pool |->
                         static[p] \/ (c \in solid /\ p = coordToPool'[c])]
    /\ UNCHANGED <<weight, call, stage, sensors, solid, cache>>

\* Mutant: measured blocks that hold no static voxel are swept as well.
StaleMeasured == {p \in Active : ~static[p]}

Stale == {p \in Active : weight[p] = 0 /\ ~static[p]}

\* Blocks left with neither channel are cleared after the stamping.
SweepStale ==
    /\ stage = "stamp"
    /\ boxLeft = {}
    /\ Stale # {}
    /\ ClearBlocks(Stale)
    /\ stage' = "sweep"
    /\ UNCHANGED <<script, cache>>

NothingStale ==
    /\ stage = "stamp"
    /\ boxLeft = {}
    /\ Stale = {}
    /\ stage' = "idle"
    /\ solid' = {}
    /\ Invalidate
    /\ UNCHANGED <<vars, sensors, boxLeft>>

-----------------------------------------------------------------------------
IntegrateCall == \E obs \in Observations : MapperIntegrate(obs)
ClearCall     == \E indices \in SUBSET Pool : MapperClear(indices)
RegionCall    == \E lo, hi \in Coord :
                   MapperClearRegion({c \in Coord : lo <= c /\ c <= hi})
StaticCall    == \E box \in SUBSET Coord : \E inside \in SUBSET box :
                   UpdateStatic(box, inside)

\* The calls a user may make, and the steps of the call that is running.
Calls ==
    \/ IntegrateCall
    \/ ClearCall
    \/ RegionCall
    \/ MapperReset
    \/ MapperImport
    \/ ComputeEsdf
    \/ StaticCall
    \/ RejectScene

Steps ==
    \/ StartDecay
    \/ SkipDecay
    \/ DecayStep
    \/ DecayReturns
    \/ StartFuse
    \/ RejectObservation
    \/ FuseStep
    \/ FuseReturns
    \/ SupportRaises
    \/ FuseOverflows
    \/ ClearStep
    \/ ClearReturns
    \/ StampStep
    \/ SweepStale
    \/ NothingStale

MapperNext == Calls \/ Steps

MapperSpec == MapperInit /\ [][MapperNext]_mapperVars

\* The thread that made a call keeps running it; no call need ever be made.
FairMapperSpec == MapperSpec /\ WF_mapperVars(Steps)

-----------------------------------------------------------------------------
(* Properties                                                              *)

\* The types of the Mapper's own state, and that a pool loop runs exactly
\* while the Mapper call stands at the stage that started it.
MapperTypeOK ==
    /\ stage \in {"idle", "sensor", "decay", "ready", "fuse", "miss", "clear",
                  "stamp", "sweep"}
    /\ sensors \in {<<>>} \cup Observations
    /\ boxLeft \in SUBSET Coord
    /\ solid \in SUBSET Coord
    /\ esdf \in {"none", "current", "old"}
    /\ grid \in [Coord -> Level \X BOOLEAN]
    /\ op = CASE stage = "decay" -> "recycle"
              [] stage = "fuse" -> "integrate"
              [] stage \in {"miss", "clear", "sweep"} -> "clear"
              [] OTHER -> "idle"

\* is_esdf_current says "whether compute_esdf has observed the current map
\* state": between calls, a grid served as current shows the map as it is.
EsdfFresh == stage = "idle" /\ esdf = "current" => grid = Field

\* Fusing an observation gives no block a static channel: what a measurement
\* allocates starts out empty even in a slot that was used before.
FusionAddsNoStatic ==
    [][stage = "fuse" => StaticBlocks' \subseteq StaticBlocks]_mapperVars

UpdateReturns ==
    stage \in {"stamp", "sweep"} /\ stage' = "idle"

\* When update_static_obstacles returns, the blocks with a static channel are
\* those of the new scene, none of the old one, and any that is missing was
\* counted in allocation_failures; no empty block is left in the pool.
SceneStamped ==
    [][UpdateReturns =>
         /\ StaticBlocks' \subseteq solid
         /\ solid \subseteq StaticBlocks' \/ failures' > 0
         /\ StaticBlocks' \cup DynamicBlocks'
              = {c \in Coord : coordToPool'[c] # NONE}]_mapperVars

\* A scene update touches no measurement.
StampKeepsDynamic ==
    [][(stage \in {"stamp", "sweep"}) => Dynamic' = Dynamic]_mapperVars

\* Every call returns.
CallsReturn == stage # "idle" ~> stage = "idle"
=============================================================================
