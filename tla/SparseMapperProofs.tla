------------------------- MODULE SparseMapperProofs -------------------------
(***************************************************************************)
(* Theorems about SparseMapper: what the block pool keeps under its own    *)
(* calls it keeps under those of the Mapper, which also reset it through a *)
(* second owner of its tensors and stamp blocks past its methods; and what *)
(* the Mapper adds, an ESDF cache and a static scene, stays consistent.    *)
(***************************************************************************)
EXTENDS SparseMapper, BlockMapProofs

USE DEF NONE

\* A call that fuses still has a sensor to fuse.
SensorsLeft == stage \in {"sensor", "decay", "ready", "fuse"} => sensors # <<>>

MapperInv ==
    /\ PoolInv
    /\ MapperTypeOK
    /\ SensorsLeft

-----------------------------------------------------------------------------
(* The pool under the Mapper's calls                                       *)

\* Whatever the Mapper does that is not a step of the pool's own methods.
LEMMA MapperSteps ==
    ASSUME MapperInv, [MapperNext]_mapperVars
    PROVE  \/ [Next]_vars
           \/ \E S \in SUBSET Coord, v \in Nat : Integrate(S, v)
           \/ MapperReset
           \/ StaticCall \/ RejectScene
           \/ StampStep
<1>1. ASSUME StartFuse
      PROVE  \E S \in SUBSET Coord, v \in Nat : Integrate(S, v)
  BY <1>1, MapperAssumption, SizeAssumption DEF StartFuse, Capacity
<1>2. ASSUME ClearCall PROVE ClearAny
  BY <1>2 DEF ClearCall, MapperClear, ClearAny
<1>3. ASSUME RegionCall PROVE ClearAny
  BY <1>3 DEF RegionCall, MapperClearRegion, MapperClear, ClearAny, Active
<1>4. ASSUME SweepStale PROVE ClearAny
  BY <1>4 DEF SweepStale, ClearAny, Stale, Active
<1>5. ASSUME StartDecay \/ DecayStep \/ DecayReturns \/ FuseStep \/ FuseReturns
             \/ SupportRaises \/ FuseOverflows \/ ClearStep \/ ClearReturns
             \/ MapperImport
      PROVE  Next
  BY <1>5 DEF StartDecay, DecayStep, DecayReturns, FuseStep, FuseReturns,
              SupportRaises, FuseOverflows, ClearStep, ClearReturns,
              MapperImport, Next
<1>6. ASSUME IntegrateCall \/ SkipDecay \/ RejectObservation \/ ComputeEsdf
             \/ NothingStale \/ UNCHANGED mapperVars
      PROVE  UNCHANGED vars
  BY <1>6 DEF IntegrateCall, MapperIntegrate, SkipDecay, RejectObservation,
              ComputeEsdf, NothingStale, mapperVars
<1> QED
  BY <1>1, <1>2, <1>3, <1>4, <1>5, <1>6 DEF MapperNext, Calls, Steps, Next

\* Clearing the static channel of the live blocks disturbs nothing else.
LEMMA ClearStaticPreserves ==
    ASSUME PoolInv, StaticCall \/ RejectScene
    PROVE  PoolInv'
<1>1. /\ ClearStatic
      /\ UNCHANGED <<maps, free, numAllocated, capacity, mirrors, hash, weight,
                     failures, call>>
  BY DEF StaticCall, UpdateStatic, RejectScene
<1>2. static' = [p \in Pool |-> p \notin Active /\ static[p]]
  BY <1>1 DEF ClearStatic
<1>3. static' \in [Pool -> BOOLEAN]
  BY <1>2
<1>4. \A p \in Pool : static'[p] => static[p]
  BY <1>2
<1>5. TypeOK'
  BY <1>1, <1>3 DEF PoolInv, TypeOK, maps, mirrors, hash, call
<1>6. MapsAgree' /\ PoolPartition' /\ FreeMirror' /\ LoopTargetsLive'
  BY <1>1 DEF PoolInv, maps, mirrors, call, MapsAgree, PoolPartition,
              FreeMirror, LoopTargetsLive, IsFree, Active
<1>7. VacantBlank'
  BY <1>1, <1>4 DEF PoolInv, maps, VacantBlank, IsFree, Active
<1> QED
  BY <1>5, <1>6, <1>7 DEF PoolInv

\* The scene update allocates and stamps past the pool's methods: it marks no
\* slot but the one it was given.
LEMMA StampPreserves ==
    ASSUME PoolInv, op = "idle", boxLeft \in SUBSET Coord, StampStep
    PROVE  PoolInv'
<1>1. PICK c \in boxLeft :
        /\ Allocate(c)
        /\ static' = [p \in Pool |->
                        static[p] \/ (c \in solid /\ p = coordToPool'[c])]
  BY DEF StampStep
<1>2. UNCHANGED <<weight, call>>
  BY DEF StampStep
<1>3. \A p \in Pool : static'[p] => static[p] \/ p = coordToPool'[c]
  BY <1>1
<1>4. static' \in [Pool -> BOOLEAN]
  BY <1>1 DEF PoolInv, TypeOK
<1>5. /\ coordToPool' \in [Coord -> Pool \cup {NONE}]
      /\ poolToCoord' \in [Pool -> Coord \cup {NONE}]
      /\ free' \in Seq(Pool)
      /\ capacity' \in 1 .. MaxBlocks
      /\ numAllocated' \in 0 .. capacity'
      /\ freeCount' \in 0 .. MaxBlocks
      /\ freeList' \in [Pool -> Pool \cup {NONE}]
      /\ hashTable' \in [Slot -> Pool \cup {EMPTY, TOMB}]
      /\ hashSlot' \in [Pool -> Pool \cup Slot \cup {NONE}]
      /\ failures' \in 0 .. MaxFailures
      /\ MapsAgree' /\ PoolPartition' /\ FreeMirror' /\ VacantBlank'
      /\ Active \subseteq Active'
  BY <1>1, <1>2, <1>3, AllocateKeeps DEF call
<1>6. TypeOK'
  BY <1>2, <1>4, <1>5 DEF PoolInv, TypeOK, call
<1>7. LoopTargetsLive'
  BY <1>2, <1>5 DEF PoolInv, LoopTargetsLive, call
<1> QED
  BY <1>5, <1>6, <1>7 DEF PoolInv

\* A reset through both owners of the tensors leaves the pool empty.
LEMMA MapperResetPreserves == ASSUME PoolInv, MapperReset PROVE PoolInv'
<1> USE SizeAssumption, HomeAssumption, CoordAssumption
<1>1. TypeOK'
  <2>1. weight' \in [Pool -> Level]
    BY DEF MapperReset, ResetMaps, Level
  <2>2. freeCount' \in 0 .. MaxBlocks /\ numAllocated' \in 0 .. capacity'
    BY DEF PoolInv, TypeOK, MapperReset, ResetMaps
  <2>3. free' \in Seq(Pool) /\ failures' \in 0 .. MaxFailures
    BY DEF MapperReset, ResetMaps
  <2>4. static' \in [Pool -> BOOLEAN]
    BY DEF MapperReset
  <2>5. freeList' \in [Pool -> Pool \cup {NONE}]
    BY DEF MapperReset
  <2> QED
    BY <2>1, <2>2, <2>3, <2>4, <2>5
       DEF PoolInv, TypeOK, MapperReset, ResetMaps, call
<1>2. MapsAgree'
  BY DEF MapperReset, ResetMaps, MapsAgree, Pool
<1>3. PoolPartition'
  BY DEF MapperReset, ResetMaps, PoolPartition, IsFree, Active, Pool
<1>4. FreeMirror' /\ VacantBlank'
  BY DEF MapperReset, ResetMaps, FreeMirror, VacantBlank, IsFree
<1>5. LoopTargetsLive'
  <2>1. touched = {}
    BY DEF PoolInv, ResetMaps, MapperReset, LoopTargetsLive
  <2> QED
    BY <2>1 DEF MapperReset, ResetMaps, call, LoopTargetsLive
<1> QED
  BY <1>1, <1>2, <1>3, <1>4, <1>5 DEF PoolInv

LEMMA PoolKept ==
    ASSUME MapperInv, [MapperNext]_mapperVars
    PROVE  PoolInv'
<1>1. StampStep => op = "idle" /\ boxLeft \in SUBSET Coord
  BY DEF StampStep, MapperInv, MapperTypeOK
<1>2. PoolInv
  BY DEF MapperInv
<1> QED
  BY <1>1, <1>2, MapperSteps, NextPreserves, IntegratePreserves,
     MapperResetPreserves, ClearStaticPreserves, StampPreserves

-----------------------------------------------------------------------------
(* The Mapper's own state                                                  *)

LEMMA FieldType == PoolInv => Field \in [Coord -> Level \X BOOLEAN]
<1> SUFFICES ASSUME PoolInv, NEW c \in Coord
             PROVE  /\ coordToPool[c] = NONE => <<0, FALSE>> \in Level \X BOOLEAN
                    /\ coordToPool[c] # NONE =>
                         <<weight[coordToPool[c]], static[coordToPool[c]]>>
                           \in Level \X BOOLEAN
  BY DEF Field
<1>1. coordToPool[c] # NONE => coordToPool[c] \in Pool
  BY DEF PoolInv, TypeOK
<1>2. 0 \in Level
  BY SizeAssumption DEF Level
<1>3. coordToPool[c] # NONE => weight[coordToPool[c]] \in Level
  BY <1>1 DEF PoolInv, TypeOK
<1>4. coordToPool[c] # NONE => static[coordToPool[c]] \in BOOLEAN
  BY <1>1, Zenon DEF PoolInv, TypeOK
<1> QED
  BY <1>2, <1>3, <1>4

\* What is left of an observation once its first sensor is fused.
LEMMA SensorsShrink ==
    ASSUME NEW s \in Observations
    PROVE  Tail(s) \in {<<>>} \cup Observations
<1>1. CASE s = <<"lidar">> \/ s = <<"camera">>
  <2>0. /\ <<"lidar">> \in Seq({"lidar", "camera"}) /\ Len(<<"lidar">>) = 1
        /\ <<"camera">> \in Seq({"lidar", "camera"}) /\ Len(<<"camera">>) = 1
    OBVIOUS
  <2>1. s \in Seq({"lidar", "camera"}) /\ Len(s) = 1
    BY <1>1, <2>0, Zenon
  <2>2. Tail(s) \in Seq({"lidar", "camera"}) /\ Len(Tail(s)) = 0
    BY <2>1, HeadTailProperties, EmptySeq
  <2>3. Tail(s) = <<>>
    BY <2>2, EmptySeq
  <2> QED
    BY <2>3
<1>2. CASE s = <<"lidar", "camera">>
  <2>1. Tail(s) = <<"camera">>
    BY <1>2
  <2> QED
    BY <2>1 DEF Observations
<1> QED
  BY <1>1, <1>2 DEF Observations

LEMMA BlankType == Blank \in [Coord -> Level \X BOOLEAN]
<1>1. 0 \in Level /\ FALSE \in BOOLEAN
  BY SizeAssumption DEF Level
<1>2. <<0, FALSE>> \in Level \X BOOLEAN
  BY <1>1
<1> QED
  BY <1>2 DEF Blank

LEMMA MapperInitInv == MapperInit => MapperInv
<1> SUFFICES ASSUME MapperInit PROVE MapperInv
  OBVIOUS
<1>1. PoolInv
  BY InitPoolInv DEF MapperInit
<1>2. Blank \in [Coord -> Level \X BOOLEAN]
  BY BlankType
<1>3. op = "idle"
  BY DEF MapperInit, Init
<1>4. MapperTypeOK /\ SensorsLeft
  BY <1>2, <1>3 DEF MapperInit, MapperTypeOK, SensorsLeft
<1> QED
  BY <1>1, <1>4 DEF MapperInv

\* Every step keeps the Mapper's state typed and its stage in step with the
\* pool loop it drives.
LEMMA MapperTypeStep ==
    ASSUME MapperInv, [MapperNext]_mapperVars
    PROVE  MapperTypeOK' /\ SensorsLeft'
<1> USE DEF MapperTypeOK, SensorsLeft
<1>1. MapperTypeOK /\ SensorsLeft
  BY DEF MapperInv
<1>2. Blank \in [Coord -> Level \X BOOLEAN]
  BY BlankType
<1>3. Field \in [Coord -> Level \X BOOLEAN]
  BY FieldType DEF MapperInv
<1>4. CASE UNCHANGED mapperVars
  BY <1>1, <1>4 DEF mapperVars, vars
<1>5. CASE IntegrateCall
  <2>1. \A obs \in Observations : obs # <<>>
    BY DEF Observations
  <2> QED
    BY <1>1, <1>5, <2>1 DEF IntegrateCall, MapperIntegrate, vars, cache
<1>6. CASE ClearCall \/ RegionCall
  BY <1>1, <1>6 DEF ClearCall, RegionCall, MapperClearRegion, MapperClear,
                    ClearBlocks, script, cache
<1>7. CASE MapperReset
  BY <1>1, <1>2, <1>7 DEF MapperReset, ResetMaps, Invalidate, script, call
<1>8. CASE MapperImport
  BY <1>1, <1>2, <1>8 DEF MapperImport, ImportAny, Import, Invalidate, script, call
<1>9. CASE ComputeEsdf
  BY <1>1, <1>3, <1>9 DEF ComputeEsdf, vars, script
<1>10. CASE StaticCall
  BY <1>1, <1>10 DEF StaticCall, UpdateStatic, cache, call
<1>11. CASE RejectScene
  BY <1>1, <1>11 DEF RejectScene, script, cache, call
<1>12. CASE StartDecay
  BY <1>1, <1>12 DEF StartDecay, DecayAny, DecayAndRecycle, script, cache
<1>13. CASE SkipDecay
  BY <1>1, <1>13 DEF SkipDecay, vars, script, cache
<1>14. CASE DecayStep
  BY <1>1, <1>14 DEF DecayStep, RecycleNext, script, cache
<1>15. CASE DecayReturns
  BY <1>1, <1>15 DEF DecayReturns, ReleaseDone, Return, script, cache
<1>16. CASE StartFuse
  BY <1>1, <1>16 DEF StartFuse, Integrate, script, cache
<1>17. CASE RejectObservation
  BY <1>1, <1>17 DEF RejectObservation, vars, cache
<1>18. CASE FuseStep
  BY <1>1, <1>18 DEF FuseStep, IntegrateNext, script, cache
<1>19. CASE FuseReturns
  <2>1. Tail(sensors) \in {<<>>} \cup Observations
    BY <1>1, <1>19, SensorsShrink DEF FuseReturns
  <2>2. op' = "idle"
    BY <1>19 DEF FuseReturns, FuseAny, Fuse, Return
  <2> QED
    BY <1>1, <1>2, <1>19, <2>1, <2>2 DEF FuseReturns, Invalidate
<1>20. CASE SupportRaises
  BY <1>1, <1>20 DEF SupportRaises, FuseAny, Fuse, Return
<1>21. CASE FuseOverflows
  BY <1>1, <1>21 DEF FuseOverflows, VisibleOverflow, Return, cache
<1>22. CASE ClearStep
  BY <1>1, <1>22 DEF ClearStep, ClearNext, script, cache
<1>23. CASE ClearReturns
  BY <1>1, <1>2, <1>23
     DEF ClearReturns, ReleaseDone, Return, Invalidate, cache
<1>24. CASE StampStep
  BY <1>1, <1>24 DEF StampStep, call, cache
<1>25. CASE SweepStale
  BY <1>1, <1>25 DEF SweepStale, ClearBlocks, script, cache
<1>26. CASE NothingStale
  BY <1>1, <1>2, <1>26 DEF NothingStale, Invalidate, vars
<1> QED
  BY <1>4, <1>5, <1>6, <1>7, <1>8, <1>9, <1>10, <1>11, <1>12, <1>13, <1>14,
     <1>15, <1>16, <1>17, <1>18, <1>19, <1>20, <1>21, <1>22, <1>23, <1>24,
     <1>25, <1>26 DEF MapperNext, Calls, Steps

LEMMA MapperStep ==
    MapperInv /\ [MapperNext]_mapperVars => MapperInv'
  BY PoolKept, MapperTypeStep DEF MapperInv

\* The Mapper never takes the pool outside its inductive invariant: not by
\* resetting it twice, stamping past its methods or raising halfway.
THEOREM MapperInvariant == MapperSpec => []MapperInv
  BY MapperInitInv, MapperStep, PTL DEF MapperSpec

\* The Mapper's state keeps its types, and a pool loop runs exactly while the
\* Mapper stands at the stage that started it.
THEOREM MapperTypes == MapperSpec => []MapperTypeOK
  BY MapperInvariant, PTL DEF MapperInv

\* Under the Mapper's calls no slot is leaked or handed out twice.
THEOREM MapperSlotsPartitioned == MapperSpec => []PoolPartition
  BY MapperInvariant, PTL DEF MapperInv, PoolInv

-----------------------------------------------------------------------------
(* The Mapper as a bounded map, and its hash table                         *)

\* Seen through its coordinates, a map driven by the Mapper is still the
\* bounded map of BlockMap, malformed inputs and double resets included.
LEMMA MapperStepImplements ==
    MapperInv /\ [MapperNext]_mapperVars => [Abstract!MapNext]_(Abstract!mapVars)
<1> SUFFICES ASSUME MapperInv, [MapperNext]_mapperVars
             PROVE  [Abstract!MapNext]_(Abstract!mapVars)
  OBVIOUS
<1>1. PoolInv
  BY DEF MapperInv
<1>2. ASSUME \/ \E S \in SUBSET Coord, v \in Nat : Integrate(S, v)
             \/ StaticCall \/ RejectScene
      PROVE  UNCHANGED Abstract!mapVars
  BY <1>2 DEF Integrate, StaticCall, UpdateStatic, RejectScene, maps,
              Abstract!mapVars
<1>3. ASSUME MapperReset PROVE Abstract!MapNext
  <2>1. coordToPool' = [c \in Coord |-> -1] /\ failures' = 0
    BY <1>3 DEF MapperReset, ResetMaps
  <2>2. Abstract!Empty
    BY <2>1 DEF Abstract!Empty, Abstract!Absent
  <2> QED
    BY <2>2 DEF Abstract!MapNext
<1>4. ASSUME StampStep PROVE [Abstract!MapNext]_(Abstract!mapVars)
  <2>1. PICK c \in Coord : Allocate(c) /\ weight' = weight
    BY <1>4 DEF StampStep, MapperInv, MapperTypeOK
  <2> QED
    BY <1>1, <2>1, AllocateImplements
<1> QED
  BY <1>1, <1>2, <1>3, <1>4, MapperSteps, PoolStepImplements

\* The refinement carries over from the pool to the Mapper that drives it.
THEOREM MapperImplementsMap == MapperSpec => ImplementsMap
<1>1. MapperInit => Abstract!MapInit
  BY DEF MapperInit, Init, Abstract!MapInit, Abstract!Absent
<1> QED
  BY <1>1, MapperStepImplements, MapperInvariant, PTL
     DEF MapperSpec, ImplementsMap, Abstract!MapSpec

LEMMA MapperHashStep ==
    ASSUME MapperInv, HashMirror, ProbeReachable, TableFits,
           [MapperNext]_mapperVars
    PROVE  HashMirror' /\ ProbeReachable'
<1>1. PoolInv
  BY DEF MapperInv
<1>2. ASSUME \/ \E S \in SUBSET Coord, v \in Nat : Integrate(S, v)
             \/ StaticCall \/ RejectScene
      PROVE  HashMirror' /\ ProbeReachable'
  <2>1. UNCHANGED <<maps, hash>>
    BY <1>2 DEF Integrate, StaticCall, UpdateStatic, RejectScene
  <2> QED
    BY <2>1 DEF HashMirror, ProbeReachable, Probe, Active, maps, hash
<1>3. ASSUME MapperReset PROVE HashMirror' /\ ProbeReachable'
  BY <1>3 DEF MapperReset, ResetMaps, HashMirror, ProbeReachable, Active, EMPTY
<1>4. ASSUME StampStep PROVE HashMirror' /\ ProbeReachable'
  <2>1. PICK c \in Coord : Allocate(c)
    BY <1>4 DEF StampStep, MapperInv, MapperTypeOK
  <2> QED
    BY <1>1, <2>1, AllocateMirrors, AllocateReaches
<1> QED
  BY <1>1, <1>2, <1>3, <1>4, MapperSteps, MirrorStep, ReachableStep

\* Under the Mapper's calls, too, hash table and blocks name each other and a
\* lookup that stops at the first EMPTY entry finds every block with a slot.
THEOREM MapperHashTable ==
    ASSUME TableFits
    PROVE  MapperSpec => [](HashMirror /\ ProbeReachable)
<1>1. MapperInit => HashMirror /\ ProbeReachable
  BY DEF MapperInit, Init, HashMirror, ProbeReachable, Active, EMPTY
<1>2. MapperInv /\ HashMirror /\ ProbeReachable /\ [MapperNext]_mapperVars
        => HashMirror' /\ ProbeReachable'
  BY MapperHashStep
<1> QED
  BY <1>1, <1>2, MapperInvariant, PTL DEF MapperSpec

-----------------------------------------------------------------------------
(* The slot contract, when checkpoints have at most one block              *)

SmallCheckpoints == ImportSizes \subseteq {0, 1}

EveryBlockHashed == \A p \in Active : hashSlot[p] # NONE

LEMMA AllocateHashes ==
    ASSUME PoolInv, EveryBlockHashed, NEW c \in Coord, Allocate(c)
    PROVE  EveryBlockHashed'
<1>1. ASSUME NEW p \in Pool, p \notin Active, Bind(c, p), coordToPool[c] = NONE
      PROVE  EveryBlockHashed'
  <2>1. Active' = Active \cup {p}
    BY <1>1, BindKeeps
  <2>2. \E s \in Pool \cup Slot : hashSlot' = [hashSlot EXCEPT ![p] = s]
    <3> DEFINE open == {k \in Slot : hashTable[Probe(c, k)] < 0}
               s == Probe(c, Lowest(open))
    <3>1. CASE open = {}
      BY <1>1, <3>1 DEF Bind, InsertHash
    <3>2. CASE open # {}
      <4>1. open \in SUBSET Nat
        BY DEF Slot
      <4>2. Lowest(open) \in open
        BY <3>2, <4>1, LowestIsMember
      <4>3. s \in Slot
        BY <4>2, ProbeInTable
      <4>4. hashSlot' = [hashSlot EXCEPT ![p] = s]
        BY <1>1, <3>2 DEF Bind, InsertHash
      <4> QED
        BY <4>3, <4>4
    <3> QED
      BY <3>1, <3>2
  <2>3. -1 \notin Pool \cup Slot
    BY DEF Pool, Slot
  <2> QED
    BY <2>1, <2>2, <2>3 DEF EveryBlockHashed, Active, PoolInv, TypeOK
<1>2. CASE AllocateExisting(c) \/ AllocateRefused(c)
  BY <1>2 DEF AllocateExisting, AllocateRefused, EveryBlockHashed, Active,
              maps, hash
<1>3. CASE AllocateRecycled(c)
  <2>1. Len(free) \in 1 .. Len(free) /\ free[Len(free)] \in Pool
    BY <1>3, EmptySeq, ElementOfSeq, LenProperties
       DEF AllocateRecycled, PoolInv, TypeOK
  <2>2. free[Len(free)] \notin Active
    BY <2>1 DEF PoolInv, PoolPartition, IsFree
  <2> QED
    BY <1>1, <1>3, <2>1, <2>2 DEF AllocateRecycled, Held
<1>4. CASE AllocateFresh(c)
  <2>1. numAllocated \in Pool
    BY <1>4, SizeAssumption DEF AllocateFresh, PoolInv, TypeOK, Pool
  <2>2. numAllocated \notin Active
    BY <2>1 DEF PoolInv, PoolPartition, Pool
  <2> QED
    BY <1>1, <1>4, <2>1, <2>2 DEF AllocateFresh, Held
<1> QED
  BY <1>2, <1>3, <1>4 DEF Allocate

LEMMA ReleaseHashes ==
    ASSUME PoolInv, EveryBlockHashed, NEW p \in Active, Release(p)
    PROVE  EveryBlockHashed'
<1>1. Active' = Active \ {p} /\ p \in Pool
  BY DEF Release, Unbind, Wipe, Mark, Unhash, Active, PoolInv, TypeOK
<1>2. \A q \in Pool \ {p} : hashSlot'[q] = hashSlot[q]
  BY DEF PoolInv, TypeOK, Release, Unbind, Wipe, Mark, Unhash
<1> QED
  BY <1>1, <1>2 DEF EveryBlockHashed, Active

\* A checkpoint of one block has nothing to collide with.
LEMMA ImportHashes ==
    ASSUME PoolInv, SmallCheckpoints, ImportAny
    PROVE  EveryBlockHashed'
<1>1. PICK n \in ImportSizes :
        \E cs \in [0 .. n - 1 -> Coord], ws \in [0 .. n - 1 -> Level],
           ss \in [0 .. n - 1 -> BOOLEAN] :
          Distinct(n, cs) /\ Import(n, cs, ws, ss)
  BY DEF ImportAny
<1>2. PICK cs \in [0 .. n - 1 -> Coord], ws \in [0 .. n - 1 -> Level],
           ss \in [0 .. n - 1 -> BOOLEAN] :
        Import(n, cs, ws, ss)
  BY <1>1
<1>3. n \in {0, 1}
  BY DEF SmallCheckpoints
<1>4. ASSUME NEW p \in Active' PROVE hashSlot'[p] # NONE
  <2>1. p \in Pool /\ p < n
    BY <1>2 DEF Active, Import
  <2>2. p = 0 /\ 0 \in 0 .. n - 1
    BY <1>3, <2>1 DEF Pool
  <2>3. hashSlot'[p] = Home[cs[p]]
    BY <1>2, <2>1, <2>2 DEF Import
  <2>4. Home[cs[p]] \in Slot
    BY <2>2, HomeAssumption
  <2> QED
    BY <2>3, <2>4 DEF Slot
<1> QED
  BY <1>4 DEF EveryBlockHashed

LEMMA PoolHashStep ==
    ASSUME PoolInv, EveryBlockHashed, SmallCheckpoints, [Next]_vars
    PROVE  EveryBlockHashed'
<1>1. ASSUME UNCHANGED <<maps, hash>> PROVE EveryBlockHashed'
  BY <1>1 DEF EveryBlockHashed, Active, maps, hash
<1>2. ASSUME IntegrateNext PROVE EveryBlockHashed'
  <2>1. PICK c \in Coord : c = Lowest(coordsLeft)
    BY <1>2, LowestIsMember, CoordAssumption DEF PoolInv, TypeOK, IntegrateNext
  <2> QED
    BY <1>2, <2>1, AllocateHashes DEF IntegrateNext
<1>3. ASSUME RecycleNext PROVE EveryBlockHashed'
  <2>1. Lowest(poolsLeft) \in poolsLeft
    BY <1>3, LowestIsMember DEF PoolInv, TypeOK, RecycleNext, Pool
  <2>2. Lowest(poolsLeft) \in Active
    BY <1>3, <2>1 DEF PoolInv, LoopTargetsLive, RecycleNext
  <2> QED
    BY <1>3, <2>2, ReleaseHashes DEF RecycleNext
<1>4. ASSUME ClearNext PROVE EveryBlockHashed'
  <2>1. UNCHANGED <<maps, hash>> \/ \E p \in Active : Release(p)
    BY <1>4 DEF ClearNext, Pass
  <2> QED
    BY <2>1, <1>1, ReleaseHashes
<1>5. ASSUME Reset PROVE EveryBlockHashed'
  BY <1>5 DEF Reset, ResetMaps, EveryBlockHashed, Active
<1>6. ASSUME IntegrateAny \/ FuseAny \/ VisibleOverflow \/ DecayAny
             \/ ClearAny \/ RegionAny \/ ReleaseDone \/ UNCHANGED vars
      PROVE  UNCHANGED <<maps, hash>>
  BY <1>6 DEF IntegrateAny, Integrate, FuseAny, Fuse, VisibleOverflow,
              DecayAny, DecayAndRecycle, Expired, ClearAny, RegionAny, ClearRegion,
              ClearBlocks, ReleaseDone, FreeCopy, vars, maps, hash
<1> QED
  BY <1>1, <1>2, <1>3, <1>4, <1>5, <1>6, ImportHashes DEF Next

LEMMA MapperSlotStep ==
    ASSUME MapperInv, EveryBlockHashed, SmallCheckpoints, [MapperNext]_mapperVars
    PROVE  EveryBlockHashed'
<1>1. PoolInv
  BY DEF MapperInv
<1>2. ASSUME \/ \E S \in SUBSET Coord, v \in Nat : Integrate(S, v)
             \/ StaticCall \/ RejectScene
      PROVE  EveryBlockHashed'
  BY <1>2 DEF Integrate, StaticCall, UpdateStatic, RejectScene,
              EveryBlockHashed, Active, maps, hash
<1>3. ASSUME MapperReset PROVE EveryBlockHashed'
  BY <1>3 DEF MapperReset, ResetMaps, EveryBlockHashed, Active
<1>4. ASSUME StampStep PROVE EveryBlockHashed'
  <2>1. PICK c \in Coord : Allocate(c)
    BY <1>4 DEF StampStep, MapperInv, MapperTypeOK
  <2> QED
    BY <1>1, <2>1, AllocateHashes
<1> QED
  BY <1>1, <1>2, <1>3, <1>4, MapperSteps, PoolHashStep

\* A block has a hash slot exactly while it is live, for readers of the
\* tensors, when the table has an entry for every pool slot and no checkpoint
\* holds blocks that could collide.
THEOREM SlotsOfLiveBlocks ==
    ASSUME TableFits, SmallCheckpoints
    PROVE  MapperSpec => []SlotContract
<1>1. MapperInit => EveryBlockHashed
  BY DEF MapperInit, Init, EveryBlockHashed, Active
<1>2. MapperInv /\ EveryBlockHashed /\ [MapperNext]_mapperVars
        => EveryBlockHashed'
  BY MapperSlotStep
<1>3. MapperInv /\ EveryBlockHashed /\ HashMirror => SlotContract
  <2> SUFFICES ASSUME MapperInv, EveryBlockHashed, HashMirror
               PROVE  Visible = Active
    BY DEF SlotContract
  <2>1. Visible \subseteq Active
    BY DEF Visible, HashMirror
  <2>2. \A p \in Active : p < numAllocated /\ hashSlot[p] >= 0
    BY DEF EveryBlockHashed, HashMirror, Active, Slot, MapperInv, PoolInv,
           PoolPartition
  <2> QED
    BY <2>1, <2>2 DEF Visible, Active
<1> QED
  BY <1>1, <1>2, <1>3, MapperInvariant, MapperHashTable, PTL DEF MapperSpec

-----------------------------------------------------------------------------
(* The cached ESDF grid                                                    *)

\* What EsdfFresh needs: the default LiDAR capacity, which no frame can
\* exceed, and inputs that do not raise halfway.
QuietInputs == LidarCapacity = MaxBlocks /\ ~BadInputs

\* A grid stays that of the map until a call that will drop it has begun;
\* clears that hit nothing drop nothing.
FreshInv ==
    /\ stage \in {"idle", "miss", "sensor"} /\ esdf = "current" => grid = Field
    /\ stage = "miss" => poolsLeft \cap Active = {}
    /\ stage = "fuse" => limit = MaxBlocks

LEMMA FreshStep ==
    ASSUME MapperInv, FreshInv, QuietInputs, [MapperNext]_mapperVars
    PROVE  FreshInv'
<1> USE DEF FreshInv
<1>1. ASSUME UNCHANGED mapperVars PROVE FreshInv'
  BY <1>1 DEF mapperVars, vars, Field, Active
<1>2. ASSUME IntegrateCall PROVE FreshInv'
  BY <1>2 DEF IntegrateCall, MapperIntegrate, vars, cache, Field
<1>3. ASSUME NEW indices \in SUBSET Pool, MapperClear(indices) PROVE FreshInv'
  BY <1>3 DEF MapperClear, ClearBlocks, maps, cache, Field, Active
<1>4. RegionCall => \E indices \in SUBSET Pool : MapperClear(indices)
  BY DEF RegionCall, MapperClearRegion, Active
<1>5. ASSUME MapperReset \/ MapperImport \/ FuseReturns \/ NothingStale
      PROVE  FreshInv'
  <2>1. esdf' = "none"
    BY <1>5 DEF MapperReset, MapperImport, FuseReturns, NothingStale, Invalidate
  <2>2. stage' \in {"idle", "sensor"}
    BY <1>5 DEF MapperReset, MapperImport, FuseReturns, NothingStale
  <2> QED
    BY <2>1, <2>2
<1>6. ASSUME ComputeEsdf PROVE FreshInv'
  BY <1>6 DEF ComputeEsdf, vars, Field
<1>7. ASSUME StaticCall \/ StartDecay \/ SkipDecay \/ DecayStep
             \/ DecayReturns \/ StampStep \/ SweepStale
      PROVE  FreshInv'
  BY <1>7 DEF StaticCall, UpdateStatic, StartDecay, SkipDecay, DecayStep,
              DecayReturns, StampStep, SweepStale
<1>8. ASSUME StartFuse PROVE FreshInv'
  BY <1>8 DEF StartFuse, Integrate, Capacity, QuietInputs
<1>9. ASSUME FuseStep PROVE FreshInv'
  BY <1>9 DEF FuseStep, IntegrateNext
<1>10. ~ (RejectObservation \/ RejectScene \/ SupportRaises)
  BY DEF RejectObservation, RejectScene, SupportRaises, QuietInputs
<1>11. ~ FuseOverflows
  <2>1. touched \in SUBSET Pool /\ IsFiniteSet(Pool)
        /\ Cardinality(Pool) = MaxBlocks
    BY SizeAssumption, FS_Interval DEF MapperInv, PoolInv, TypeOK, Pool
  <2>2. Cardinality(touched) <= MaxBlocks /\ Cardinality(touched) \in Nat
    BY <2>1, FS_Subset, FS_CardinalityType
  <2> QED
    BY <2>2, SizeAssumption DEF FuseOverflows, VisibleOverflow
<1>12. ASSUME ClearStep PROVE FreshInv'
  <2>1. CASE stage # "miss"
    BY <1>12, <2>1 DEF ClearStep
  <2>2. CASE stage = "miss"
    <3>1. PICK p \in poolsLeft :
            /\ Pass(p)
            /\ IF p \in Active THEN Release(p)
               ELSE UNCHANGED <<maps, weight, static, hash, free>>
      BY <1>12 DEF ClearStep, ClearNext
    <3>2. UNCHANGED <<maps, weight, static>> /\ poolsLeft' = poolsLeft \ {p}
      BY <2>2, <3>1 DEF Pass
    <3>3. stage' = "miss" /\ UNCHANGED cache
      BY <1>12, <2>2 DEF ClearStep
    <3>4. Field' = Field /\ Active' = Active
      BY <3>2 DEF Field, Active, maps
    <3> QED
      BY <2>2, <3>2, <3>3, <3>4 DEF cache
  <2> QED
    BY <2>1, <2>2
<1>13. ASSUME ClearReturns PROVE FreshInv'
  <2>1. Field' = Field /\ stage' = "idle"
    BY <1>13 DEF ClearReturns, ReleaseDone, maps, Field
  <2> QED
    BY <1>13, <2>1 DEF ClearReturns, Invalidate, cache
<1> QED
  BY <1>1, <1>2, <1>3, <1>4, <1>5, <1>6, <1>7, <1>8, <1>9, <1>10, <1>11,
     <1>12, <1>13 DEF MapperNext, Calls, Steps, ClearCall

\* With inputs that do not raise halfway, a grid served as current shows the
\* map as it is, whatever calls came between.
THEOREM GridIsFresh == ASSUME QuietInputs PROVE MapperSpec => []EsdfFresh
<1>1. MapperInit => FreshInv
  BY DEF MapperInit, FreshInv
<1>2. MapperInv /\ FreshInv /\ [MapperNext]_mapperVars => FreshInv'
  BY FreshStep
<1>3. FreshInv => EsdfFresh
  BY DEF FreshInv, EsdfFresh
<1> QED
  BY <1>1, <1>2, <1>3, MapperInvariant, PTL DEF MapperSpec

-----------------------------------------------------------------------------
(* The static scene                                                        *)

\* What one allocation does to the blocks a coordinate leads to.
LEMMA AllocateFinds ==
    ASSUME PoolInv, NEW c \in Coord, Allocate(c)
    PROVE  /\ \A d \in Coord : d # c => coordToPool'[d] = coordToPool[d]
           /\ coordToPool[c] # NONE => coordToPool'[c] = coordToPool[c]
           /\ coordToPool[c] = NONE /\ coordToPool'[c] # NONE
                => coordToPool'[c] \in Pool \ Active
           /\ coordToPool'[c] = NONE => failures' > 0 \/ MaxFailures = 0
           /\ failures <= failures'
           /\ Active' \subseteq Active \cup {coordToPool'[c]}
           /\ Active \subseteq Active'
<1>0. failures \in 0 .. MaxFailures /\ MaxFailures \in Nat
  BY SizeAssumption DEF PoolInv, TypeOK
<1>1. CASE AllocateExisting(c)
  BY <1>0, <1>1 DEF AllocateExisting, Held, Active, maps
<1>2. CASE AllocateRefused(c)
  BY <1>0, <1>2 DEF AllocateRefused, Held, Active, maps
<1>3. ASSUME NEW p \in Pool, p \notin Active, Bind(c, p), ~Held(c),
             failures' = failures
      PROVE  /\ \A d \in Coord : d # c => coordToPool'[d] = coordToPool[d]
             /\ coordToPool[c] = NONE /\ coordToPool'[c] = p /\ p # NONE
             /\ Active' = Active \cup {p}
  <2>1. coordToPool[c] = NONE /\ p # NONE
    BY <1>3 DEF Held, Pool
  <2>2. coordToPool' = [coordToPool EXCEPT ![c] = p]
    BY <1>3 DEF Bind
  <2>3. Active' = Active \cup {p} /\ coordToPool'[c] = p
    BY <1>3, <2>1, BindKeeps
  <2> QED
    BY <2>1, <2>2, <2>3 DEF PoolInv, TypeOK
<1>4. CASE AllocateRecycled(c)
  <2>1. Len(free) \in 1 .. Len(free) /\ free[Len(free)] \in Pool
    BY <1>4, EmptySeq, ElementOfSeq, LenProperties
       DEF AllocateRecycled, PoolInv, TypeOK
  <2>2. free[Len(free)] \notin Active
    BY <2>1 DEF PoolInv, PoolPartition, IsFree
  <2>3. PICK p \in Pool : /\ p \notin Active /\ Bind(c, p) /\ ~Held(c)
                         /\ failures' = failures
    BY <1>4, <2>1, <2>2 DEF AllocateRecycled
  <2> QED
    BY <1>0, <1>3, <2>3
<1>5. CASE AllocateFresh(c)
  <2>1. numAllocated \in Pool
    BY <1>5, SizeAssumption DEF AllocateFresh, PoolInv, TypeOK, Pool
  <2>2. numAllocated \notin Active
    BY <2>1 DEF PoolInv, PoolPartition, Pool
  <2>3. PICK p \in Pool : /\ p \notin Active /\ Bind(c, p) /\ ~Held(c)
                         /\ failures' = failures
    BY <1>5, <2>1, <2>2 DEF AllocateFresh
  <2> QED
    BY <1>0, <1>3, <2>3
<1> QED
  BY <1>1, <1>2, <1>4, <1>5 DEF Allocate

\* A coordinate in the map leads to a live block, and only it does.
LEMMA HeldIsLive ==
    ASSUME PoolInv
    PROVE  /\ \A c \in Coord : coordToPool[c] # NONE => coordToPool[c] \in Active
           /\ \A c, d \in Coord : coordToPool[c] # NONE
                /\ coordToPool[c] = coordToPool[d] => c = d
           /\ \A p \in Active : /\ p \in Pool /\ poolToCoord[p] \in Coord
                                 /\ coordToPool[poolToCoord[p]] = p
           /\ \A p \in Pool : p # NONE
<1>1. \A p \in Pool : p # -1
  BY DEF Pool
<1>2. \A c \in Coord : c # -1
  BY CoordAssumption
<1> QED
  BY <1>1, <1>2 DEF PoolInv, TypeOK, MapsAgree, Active

\* The sweep at the end of a scene update clears what is stale, all of it and
\* nothing else.
SweepInv == stage = "sweep" => poolsLeft = Stale

\* Releasing a block changes what the map shows of that block only.
LEMMA ReleaseShows ==
    ASSUME PoolInv, NEW p \in Active, Release(p)
    PROVE  /\ Active' = Active \ {p}
           /\ \A q \in Pool \ {p} : /\ weight'[q] = weight[q]
                                    /\ static'[q] = static[q]
           /\ weight'[p] = 0 /\ ~static'[p]
           /\ \A c \in Coord : coordToPool'[c] =
                 IF coordToPool[c] = p THEN NONE ELSE coordToPool[c]
<1>1. p \in Pool
  BY DEF Active
<1>2. /\ weight' = [weight EXCEPT ![p] = 0]
      /\ static' = [static EXCEPT ![p] = FALSE]
      /\ poolToCoord' = [poolToCoord EXCEPT ![p] = -1]
      /\ coordToPool' = [coordToPool EXCEPT ![poolToCoord[p]] = -1]
  BY DEF Release, Unbind, Wipe
<1>3. Active' = Active \ {p}
  BY <1>1, <1>2 DEF Active, PoolInv, TypeOK
<1>4. /\ weight'[p] = 0 /\ ~static'[p]
      /\ \A q \in Pool \ {p} : weight'[q] = weight[q] /\ static'[q] = static[q]
  BY <1>1, <1>2 DEF PoolInv, TypeOK
<1>5. \A c \in Coord : coordToPool'[c] =
        IF coordToPool[c] = p THEN NONE ELSE coordToPool[c]
  BY <1>2, HeldIsLive DEF PoolInv, TypeOK
<1> QED
  BY <1>3, <1>4, <1>5

\* Inside a clear, a step either passes an index or releases its block.
LEMMA ClearStepShows ==
    ASSUME ClearStep
    PROVE  /\ stage' = stage /\ UNCHANGED script /\ failures' = failures
           /\ \E p \in poolsLeft :
                /\ poolsLeft' = poolsLeft \ {p}
                /\ \/ p \in Active /\ Release(p)
                   \/ p \notin Active /\ UNCHANGED <<maps, weight, static>>
  BY DEF ClearStep, ClearNext, Pass

LEMMA SweepStep ==
    ASSUME MapperInv, SweepInv, [MapperNext]_mapperVars
    PROVE  SweepInv'
<1> SUFFICES ASSUME stage' = "sweep" PROVE poolsLeft' = Stale'
  BY DEF SweepInv
<1>1. CASE UNCHANGED mapperVars
  BY <1>1 DEF mapperVars, vars, SweepInv, Stale, Active
<1>2. CASE RejectScene
  BY <1>2 DEF RejectScene
<1>3. CASE ClearStep
  <2>1. stage = "sweep"
    BY <1>3 DEF ClearStep
  <2>2. PICK p \in poolsLeft :
          /\ poolsLeft' = poolsLeft \ {p}
          /\ \/ p \in Active /\ Release(p)
             \/ p \notin Active /\ UNCHANGED <<maps, weight, static>>
    BY <1>3, ClearStepShows
  <2>3. p \in Active /\ poolsLeft = Stale
    BY <2>1, <2>2 DEF SweepInv, Stale
  <2>4. /\ Active' = Active \ {p}
        /\ \A q \in Pool \ {p} : weight'[q] = weight[q] /\ static'[q] = static[q]
    BY <2>2, <2>3, ReleaseShows DEF MapperInv
  <2>5. Stale' = Stale \ {p}
    BY <2>4 DEF Stale, Active
  <2> QED
    BY <2>2, <2>3, <2>5
<1>4. CASE SweepStale
  BY <1>4 DEF SweepStale, ClearBlocks, Stale, Active, maps
<1>5. ASSUME MapperNext, ~ClearStep, ~SweepStale, ~RejectScene
      PROVE  FALSE
  <2> USE DEF MapperNext, Calls, Steps
  <2>1. ~ (IntegrateCall \/ ClearCall \/ RegionCall \/ StaticCall)
    BY DEF IntegrateCall, MapperIntegrate, ClearCall, RegionCall,
           MapperClearRegion, MapperClear, StaticCall, UpdateStatic
  <2>2. ~ (MapperReset \/ MapperImport \/ ComputeEsdf)
    BY DEF MapperReset, MapperImport, ComputeEsdf, script
  <2>3. ~ (StartDecay \/ SkipDecay \/ DecayStep \/ DecayReturns \/ StartFuse
           \/ RejectObservation \/ FuseStep \/ FuseReturns \/ SupportRaises
           \/ FuseOverflows \/ ClearReturns \/ StampStep \/ NothingStale)
    BY DEF StartDecay, SkipDecay, DecayStep, DecayReturns, StartFuse,
           RejectObservation, FuseStep, FuseReturns, SupportRaises,
           FuseOverflows, ClearReturns, StampStep, NothingStale
  <2> QED
    BY <1>5, <2>1, <2>2, <2>3
<1> QED
  BY <1>1, <1>2, <1>3, <1>4, <1>5

LEMMA SweepInvariant == MapperSpec => []SweepInv
<1>1. MapperInit => SweepInv
  BY DEF MapperInit, SweepInv
<1>2. MapperInv /\ SweepInv /\ [MapperNext]_mapperVars => SweepInv'
  BY SweepStep
<1> QED
  BY <1>1, <1>2, MapperInvariant, PTL DEF MapperSpec

\* A scene update touches no measurement, in any of its steps.
THEOREM StampingKeepsDynamic == MapperSpec => StampKeepsDynamic
<1>1. ASSUME MapperInv, SweepInv, [MapperNext]_mapperVars
      PROVE  [(stage \in {"stamp", "sweep"}) => Dynamic' = Dynamic]_mapperVars
  <2> SUFFICES ASSUME stage \in {"stamp", "sweep"}, MapperNext
               PROVE  Dynamic' = Dynamic
    BY <1>1 DEF mapperVars
  <2>0. PoolInv
    BY <1>1 DEF MapperInv
  <2>1. Dynamic = [c \in Coord |-> IF coordToPool[c] = NONE THEN 0
                                  ELSE weight[coordToPool[c]]]
    BY DEF Dynamic, Field
  <2>2. ASSUME UNCHANGED <<maps, weight>> PROVE Dynamic' = Dynamic
    BY <2>1, <2>2 DEF Dynamic, Field, maps
  <2>3. CASE StampStep
    <3>1. PICK c \in Coord : Allocate(c) /\ weight' = weight
      BY <1>1, <2>3 DEF StampStep, MapperInv, MapperTypeOK
    <3>2. \A p \in Pool \ Active : weight[p] = 0
      BY <2>0 DEF PoolInv, VacantBlank
    <3>3. ASSUME NEW d \in Coord
          PROVE  (IF coordToPool'[d] = NONE THEN 0 ELSE weight'[coordToPool'[d]])
                   = IF coordToPool[d] = NONE THEN 0 ELSE weight[coordToPool[d]]
      BY <2>0, <3>1, <3>2, AllocateFinds
    <3> QED
      BY <3>3 DEF Dynamic, Field
  <2>4. CASE ClearStep
    <3>1. PICK p \in poolsLeft :
            /\ poolsLeft' = poolsLeft \ {p}
            /\ \/ p \in Active /\ Release(p)
               \/ p \notin Active /\ UNCHANGED <<maps, weight, static>>
      BY <2>4, ClearStepShows
    <3>2. stage = "sweep" /\ p \in Active /\ weight[p] = 0
      BY <1>1, <2>4, <3>1 DEF ClearStep, SweepInv, Stale
    <3>3. ASSUME NEW d \in Coord
          PROVE  (IF coordToPool'[d] = NONE THEN 0 ELSE weight'[coordToPool'[d]])
                   = IF coordToPool[d] = NONE THEN 0 ELSE weight[coordToPool[d]]
      BY <2>0, <3>1, <3>2, ReleaseShows, HeldIsLive
    <3> QED
      BY <3>3 DEF Dynamic, Field
  <2>5. ASSUME ClearReturns \/ SweepStale \/ NothingStale
        PROVE  UNCHANGED <<maps, weight>>
    BY <2>5 DEF ClearReturns, ReleaseDone, SweepStale, ClearBlocks,
                NothingStale, vars, maps
  <2>6. ASSUME ~StampStep, ~ClearStep, ~ClearReturns, ~SweepStale, ~NothingStale
        PROVE  FALSE
    <3>1. ~Calls
      BY DEF Calls, IntegrateCall, MapperIntegrate, ClearCall, RegionCall,
             MapperClearRegion, MapperClear, StaticCall, UpdateStatic,
             MapperReset, MapperImport, ComputeEsdf, RejectScene
    <3>2. ~ (StartDecay \/ SkipDecay \/ DecayStep \/ DecayReturns \/ StartFuse
             \/ RejectObservation \/ FuseStep \/ FuseReturns \/ SupportRaises
             \/ FuseOverflows)
      BY DEF StartDecay, SkipDecay, DecayStep, DecayReturns, StartFuse,
             RejectObservation, FuseStep, FuseReturns, SupportRaises,
             FuseOverflows
    <3> QED
      BY <2>6, <3>1, <3>2 DEF MapperNext, Steps
  <2> QED
    BY <2>2, <2>3, <2>4, <2>5, <2>6
<1> QED
  BY <1>1, MapperInvariant, SweepInvariant, PTL DEF MapperSpec, StampKeepsDynamic

-----------------------------------------------------------------------------
(* Without a reset of the Mapper, which fills the static channel           *)

\* A slot without a block has no static geometry, not even one that was never
\* used: what is allocated later starts without.
VacantNotStatic == \A p \in Pool \ Active : ~static[p]

\* While a scene is stamped, what is static is of that scene, and of the scene
\* nothing is missing but what is still to come and what was refused.
SceneInv ==
    /\ stage \in {"stamp", "sweep"} => StaticBlocks \subseteq solid
    /\ stage = "stamp" => solid \ boxLeft \subseteq StaticBlocks \/ failures > 0
    /\ stage = "sweep" => solid \subseteq StaticBlocks \/ failures > 0

Shown(c) == coordToPool[c] # NONE /\ static[coordToPool[c]]

LEMMA StaticAreShown ==
    /\ StaticBlocks = {c \in Coord : Shown(c)}
    /\ StaticBlocks' = {c \in Coord : Shown(c)'}
<1>1. ASSUME NEW c \in Coord
      PROVE  (Field[c][2] <=> Shown(c)) /\ (Field'[c][2] <=> Shown(c)')
  <2>1. Field[c][2] <=> Shown(c)
    <3>1. CASE coordToPool[c] = NONE
      BY <3>1 DEF Field, Shown
    <3>2. CASE coordToPool[c] # NONE
      BY <3>2 DEF Field, Shown
    <3> QED
      BY <3>1, <3>2
  <2>2. Field'[c][2] <=> Shown(c)'
    <3>1. CASE coordToPool'[c] = NONE
      BY <3>1 DEF Field, Shown
    <3>2. CASE coordToPool'[c] # NONE
      BY <3>2 DEF Field, Shown
    <3> QED
      BY <3>1, <3>2
  <2> QED
    BY <2>1, <2>2
<1> QED
  BY <1>1 DEF StaticBlocks

\* The steps that move no block and write no static channel.
LEMMA StaticLeftAlone ==
    ASSUME \/ IntegrateCall \/ ClearCall \/ RegionCall \/ ComputeEsdf
           \/ StartDecay \/ SkipDecay \/ DecayReturns \/ StartFuse
           \/ RejectObservation \/ FuseReturns \/ SupportRaises
           \/ FuseOverflows \/ ClearReturns \/ SweepStale \/ NothingStale
           \/ UNCHANGED mapperVars
    PROVE  UNCHANGED <<maps, static>>
<1>1. ASSUME \/ IntegrateCall \/ ComputeEsdf \/ SkipDecay \/ RejectObservation
             \/ NothingStale \/ UNCHANGED mapperVars
      PROVE  UNCHANGED <<maps, static>>
  BY <1>1 DEF IntegrateCall, MapperIntegrate, ComputeEsdf, SkipDecay,
              RejectObservation, NothingStale, mapperVars, vars, maps
<1>2. ASSUME ClearCall \/ RegionCall \/ SweepStale
      PROVE  UNCHANGED <<maps, static>>
  BY <1>2 DEF ClearCall, RegionCall, MapperClearRegion, MapperClear, SweepStale,
              ClearBlocks
<1>3. ASSUME StartDecay \/ DecayReturns \/ StartFuse \/ FuseReturns
             \/ SupportRaises \/ FuseOverflows \/ ClearReturns
      PROVE  UNCHANGED <<maps, static>>
  BY <1>3 DEF StartDecay, DecayAny, DecayAndRecycle, DecayReturns, ReleaseDone,
              StartFuse, Integrate, FuseReturns, SupportRaises, FuseAny, Fuse,
              FuseOverflows, VisibleOverflow, ClearReturns
<1> QED
  BY <1>1, <1>2, <1>3

\* A release, in a decay or a clear, or no change at all.
LEMMA LoopReleases ==
    ASSUME MapperInv, DecayStep \/ ClearStep
    PROVE  (\E p \in Active : Release(p)) \/ UNCHANGED <<maps, static>>
<1>1. CASE DecayStep
  <2>1. Lowest(poolsLeft) \in poolsLeft
    BY <1>1, LowestIsMember
       DEF DecayStep, MapperInv, PoolInv, TypeOK, RecycleNext, Pool
  <2>2. Lowest(poolsLeft) \in Active
    BY <1>1, <2>1 DEF DecayStep, MapperInv, PoolInv, LoopTargetsLive, RecycleNext
  <2> QED
    BY <1>1, <2>2 DEF DecayStep, RecycleNext
<1>2. CASE ClearStep
  BY <1>2 DEF ClearStep, ClearNext
<1> QED
  BY <1>1, <1>2

LEMMA VacantStep ==
    ASSUME MapperInv, VacantNotStatic, ~Resets, [MapperNext]_mapperVars
    PROVE  VacantNotStatic'
<1>1. PoolInv
  BY DEF MapperInv
<1>2. ASSUME UNCHANGED <<maps, static>> PROVE VacantNotStatic'
  BY <1>2 DEF VacantNotStatic, Active, maps
<1>3. ASSUME FuseStep PROVE VacantNotStatic'
  <2>1. PICK c \in Coord : c = Lowest(coordsLeft)
    BY <1>1, <1>3, LowestIsMember, CoordAssumption
       DEF PoolInv, TypeOK, FuseStep, IntegrateNext
  <2>2. Allocate(c) /\ static' = static
    BY <1>3, <2>1 DEF FuseStep, IntegrateNext
  <2> QED
    BY <1>1, <2>2, AllocateFinds DEF VacantNotStatic
<1>4. ASSUME DecayStep \/ ClearStep PROVE VacantNotStatic'
  <2>1. ASSUME NEW p \in Active, Release(p) PROVE VacantNotStatic'
    BY <1>1, <2>1, ReleaseShows DEF VacantNotStatic
  <2> QED
    BY <1>2, <1>4, <2>1, LoopReleases
<1>5. ASSUME StampStep PROVE VacantNotStatic'
  <2>1. PICK c \in boxLeft :
          /\ Allocate(c)
          /\ static' = [p \in Pool |->
                          static[p] \/ (c \in solid /\ p = coordToPool'[c])]
    BY <1>5 DEF StampStep
  <2>2. c \in Coord
    BY DEF MapperInv, MapperTypeOK
  <2>3. \A p \in Pool : static'[p] => static[p] \/ p = coordToPool'[c]
    BY <2>1
  <2>4. coordToPool'[c] # NONE => coordToPool'[c] \in Active'
    <3>1. PoolInv'
      BY PoolKept
    <3>2. coordToPool' \in [Coord -> Pool \cup {NONE}] /\ MapsAgree'
      BY <3>1 DEF PoolInv, TypeOK
    <3> QED
      BY <2>2, <3>2, CoordAssumption DEF MapsAgree, Active
  <2>5. Active \subseteq Active'
    BY <1>1, <2>1, <2>2, AllocateFinds
  <2> QED
    BY <2>3, <2>4, <2>5 DEF VacantNotStatic, Pool
<1>6. ASSUME StaticCall \/ RejectScene PROVE VacantNotStatic'
  <2>1. ClearStatic /\ UNCHANGED maps
    BY <1>6 DEF StaticCall, UpdateStatic, RejectScene
  <2>2. \A p \in Pool : static'[p] => static[p]
    BY <2>1 DEF ClearStatic
  <2> QED
    BY <2>1, <2>2 DEF VacantNotStatic, Active, maps
<1>7. ASSUME MapperImport PROVE VacantNotStatic'
  <2>1. PICK n \in ImportSizes :
          \E cs \in [0 .. n - 1 -> Coord], ws \in [0 .. n - 1 -> Level],
             ss \in [0 .. n - 1 -> BOOLEAN] : Import(n, cs, ws, ss)
    BY <1>7 DEF MapperImport, ImportAny
  <2>2. PICK cs \in [0 .. n - 1 -> Coord], ws \in [0 .. n - 1 -> Level],
             ss \in [0 .. n - 1 -> BOOLEAN] : Import(n, cs, ws, ss)
    BY <2>1
  <2>3. ASSUME NEW p \in Pool \ Active' PROVE ~static'[p]
    <3>1. p < n => poolToCoord'[p] \in Coord
      <4>1. p < n => p \in 0 .. n - 1
        BY SizeAssumption DEF Pool
      <4> QED
        BY <2>2, <4>1 DEF Import
    <3>2. ~ (p < n)
      BY <3>1, CoordAssumption DEF Active
    <3>3. static'[p] = static[p] /\ Active = {}
      BY <2>2, <3>2 DEF Import
    <3> QED
      BY <3>3 DEF VacantNotStatic
  <2> QED
    BY <2>3 DEF VacantNotStatic
<1>8. ~MapperReset
  BY DEF MapperReset
<1> QED
  BY <1>2, <1>3, <1>4, <1>5, <1>6, <1>7, <1>8, StaticLeftAlone
     DEF MapperNext, Calls, Steps

LEMMA VacantInvariant == ASSUME ~Resets PROVE MapperSpec => []VacantNotStatic
<1>1. MapperInit => VacantNotStatic
  BY DEF MapperInit, Init, VacantNotStatic
<1>2. MapperInv /\ VacantNotStatic /\ [MapperNext]_mapperVars
        => VacantNotStatic'
  BY VacantStep
<1> QED
  BY <1>1, <1>2, MapperInvariant, PTL DEF MapperSpec

\* Fusing an observation gives no block static geometry: not even a block that
\* gets a slot another one has left.
THEOREM FusionIsDynamic == ASSUME ~Resets PROVE MapperSpec => FusionAddsNoStatic
<1>1. ASSUME MapperInv, VacantNotStatic, [MapperNext]_mapperVars
      PROVE  [stage = "fuse" => StaticBlocks' \subseteq StaticBlocks]_mapperVars
  <2> SUFFICES ASSUME stage = "fuse", MapperNext
               PROVE  StaticBlocks' \subseteq StaticBlocks
    BY <1>1
  <2>0. PoolInv
    BY <1>1 DEF MapperInv
  <2>1. StaticBlocks' = {c \in Coord : Shown(c)'}
    BY StaticAreShown
  <2>2. ASSUME UNCHANGED <<maps, static>>
        PROVE  StaticBlocks' \subseteq StaticBlocks
    BY <2>2 DEF StaticBlocks, Field, maps
  <2>3. CASE FuseStep
    <3>1. PICK c \in Coord : c = Lowest(coordsLeft)
      BY <2>0, <2>3, LowestIsMember, CoordAssumption
         DEF PoolInv, TypeOK, FuseStep, IntegrateNext
    <3>2. Allocate(c) /\ static' = static
      BY <2>3, <3>1 DEF FuseStep, IntegrateNext
    <3>3. ASSUME NEW d \in Coord, Shown(d)' PROVE Shown(d)
      BY <1>1, <2>0, <3>2, <3>3, AllocateFinds DEF Shown, VacantNotStatic
    <3> QED
      BY <2>1, <3>3, StaticAreShown
  <2>4. ASSUME ~FuseStep
        PROVE  FuseReturns \/ SupportRaises \/ FuseOverflows
    <3>1. ~Calls
      BY DEF Calls, IntegrateCall, MapperIntegrate, ClearCall, RegionCall,
             MapperClearRegion, MapperClear, StaticCall, UpdateStatic,
             MapperReset, MapperImport, ComputeEsdf, RejectScene
    <3>2. ~ (StartDecay \/ SkipDecay \/ DecayStep \/ DecayReturns \/ StartFuse
             \/ RejectObservation \/ ClearStep \/ ClearReturns \/ StampStep
             \/ SweepStale \/ NothingStale)
      BY DEF StartDecay, SkipDecay, DecayStep, DecayReturns, StartFuse,
             RejectObservation, ClearStep, ClearReturns, StampStep, SweepStale,
             NothingStale
    <3> QED
      BY <2>4, <3>1, <3>2 DEF MapperNext, Steps
  <2> QED
    BY <2>2, <2>3, <2>4, StaticLeftAlone
<1> QED
  BY <1>1, MapperInvariant, VacantInvariant, PTL DEF MapperSpec, FusionAddsNoStatic

\* Stamping one block of the scene keeps SceneInv.
LEMMA SceneStamp ==
    ASSUME MapperInv, VacantNotStatic, SceneInv, MaxFailures > 0, StampStep
    PROVE  SceneInv'
<1>0. PoolInv /\ boxLeft \in SUBSET Coord
  BY DEF MapperInv, MapperTypeOK
<1>1. PICK c \in boxLeft :
        /\ Allocate(c)
        /\ boxLeft' = boxLeft \ {c}
        /\ static' = [p \in Pool |->
                        static[p] \/ (c \in solid /\ p = coordToPool'[c])]
  BY DEF StampStep
<1>2. stage = "stamp" /\ stage' = "stamp" /\ solid' = solid
  BY DEF StampStep
<1>3. c \in Coord
  BY <1>0
<1>4. PoolInv'
  BY <1>0, StampPreserves DEF StampStep, MapperInv, MapperTypeOK
<1>5. \A d \in Coord : coordToPool'[d] # NONE => coordToPool'[d] \in Pool
  BY <1>4 DEF PoolInv, TypeOK
<1>6. \A d, e \in Coord : coordToPool'[d] # NONE /\ coordToPool'[d] = coordToPool'[e]
        => d = e
  BY <1>4, CoordAssumption DEF PoolInv, TypeOK, MapsAgree
<1>7. ASSUME NEW d \in Coord, d # c PROVE Shown(d)' <=> Shown(d)
  <2>1. coordToPool'[d] = coordToPool[d]
    BY <1>0, <1>1, <1>3, <1>7, AllocateFinds
  <2>2. coordToPool[d] # NONE => static'[coordToPool[d]] = static[coordToPool[d]]
    BY <1>0, <1>1, <1>3, <1>5, <1>6, <1>7, <2>1 DEF PoolInv, TypeOK
  <2> QED
    BY <2>1, <2>2 DEF Shown
<1>8. Shown(c)' => Shown(c) \/ c \in solid
  BY <1>0, <1>1, <1>3, <1>5, AllocateFinds DEF Shown, VacantNotStatic
<1>9. c \in solid => Shown(c)' \/ failures' > 0
  <2>1. CASE coordToPool'[c] = NONE
    BY <1>0, <1>1, <1>3, <2>1, AllocateFinds, SizeAssumption
  <2>2. CASE coordToPool'[c] # NONE
    BY <1>1, <1>3, <1>5, <2>2 DEF Shown
  <2> QED
    BY <2>1, <2>2
<1>10. Shown(c) => Shown(c)'
  BY <1>0, <1>1, <1>3, <1>5, AllocateFinds DEF Shown
<1>11. failures > 0 => failures' > 0
  BY <1>0, <1>1, <1>3, <1>4, AllocateFinds DEF PoolInv, TypeOK
<1>12. StaticBlocks' \subseteq solid'
  BY <1>2, <1>7, <1>8, StaticAreShown DEF SceneInv
<1>13. solid' \ boxLeft' \subseteq StaticBlocks' \/ failures' > 0
  <2>1. CASE failures > 0
    BY <1>11, <2>1
  <2>2. CASE ~ (failures > 0)
    <3>1. \A d \in solid \ boxLeft : d \in Coord /\ Shown(d)
      BY <1>2, <2>2, StaticAreShown DEF SceneInv
    <3> QED
      BY <1>1, <1>2, <1>3, <1>7, <1>9, <1>10, <3>1, StaticAreShown
  <2> QED
    BY <2>1, <2>2
<1> QED
  BY <1>2, <1>12, <1>13 DEF SceneInv

LEMMA SceneStep ==
    ASSUME MapperInv, VacantNotStatic, SweepInv, SceneInv, ~Resets,
           MaxFailures > 0, [MapperNext]_mapperVars
    PROVE  SceneInv'
<1>0. PoolInv /\ MapperTypeOK
  BY DEF MapperInv
<1>1. CASE UNCHANGED mapperVars
  BY <1>1 DEF mapperVars, vars, SceneInv, StaticBlocks, Field
<1>2. CASE StampStep
  BY <1>2, SceneStamp
<1>3. CASE StaticCall
  <2>1. PICK box \in SUBSET Coord : \E inside \in SUBSET box :
          UpdateStatic(box, inside)
    BY <1>3 DEF StaticCall
  <2>2. PICK inside \in SUBSET box : UpdateStatic(box, inside)
    BY <2>1
  <2>3. /\ stage' = "stamp" /\ solid' \ boxLeft' = {}
        /\ coordToPool' = coordToPool
        /\ static' = [p \in Pool |-> p \notin Active /\ static[p]]
    BY <2>2 DEF UpdateStatic, ClearStatic, maps
  <2>4. StaticBlocks' = {}
    BY <1>0, <2>3, StaticAreShown, HeldIsLive DEF Shown, Active
  <2> QED
    BY <2>3, <2>4 DEF SceneInv
<1>4. CASE ClearStep
  <2>1. PICK p \in poolsLeft :
          /\ poolsLeft' = poolsLeft \ {p}
          /\ \/ p \in Active /\ Release(p)
             \/ p \notin Active /\ UNCHANGED <<maps, weight, static>>
    BY <1>4, ClearStepShows
  <2>2. stage' = stage /\ solid' = solid /\ failures' = failures
        /\ stage # "stamp"
    BY <1>4, ClearStepShows DEF ClearStep, script
  <2>3. CASE stage = "sweep"
    <3>1. p \in Active /\ ~static[p]
      BY <2>1, <2>3 DEF SweepInv, Stale
    <3>2. \A d \in Coord : Shown(d)' <=> Shown(d)
      BY <1>0, <2>1, <3>1, ReleaseShows, HeldIsLive DEF Shown
    <3>3. StaticBlocks' = StaticBlocks
      BY <3>2, StaticAreShown
    <3> QED
      BY <2>2, <3>3 DEF SceneInv
  <2>4. CASE stage # "sweep"
    BY <2>2, <2>4 DEF SceneInv
  <2> QED
    BY <2>3, <2>4
<1>5. CASE SweepStale
  <2>1. UNCHANGED <<maps, static>> /\ failures' = failures /\ solid' = solid
        /\ stage = "stamp" /\ stage' = "sweep" /\ boxLeft = {}
    BY <1>5 DEF SweepStale, ClearBlocks, script
  <2>2. StaticBlocks' = StaticBlocks
    BY <2>1 DEF StaticBlocks, Field, maps
  <2> QED
    BY <2>1, <2>2 DEF SceneInv
<1>6. ASSUME MapperNext, ~StampStep, ~StaticCall, ~ClearStep, ~SweepStale
      PROVE  stage' \notin {"stamp", "sweep"}
  <2>1. ASSUME IntegrateCall \/ ClearCall \/ RegionCall \/ MapperReset
               \/ MapperImport \/ ComputeEsdf \/ RejectScene
        PROVE  stage' \notin {"stamp", "sweep"}
    BY <2>1 DEF IntegrateCall, MapperIntegrate, ClearCall, RegionCall,
                MapperClearRegion, MapperClear, MapperReset, MapperImport,
                ComputeEsdf, RejectScene
  <2>2. ASSUME StartDecay \/ SkipDecay \/ DecayStep \/ DecayReturns
               \/ StartFuse \/ RejectObservation \/ FuseStep \/ FuseReturns
               \/ SupportRaises \/ FuseOverflows \/ ClearReturns \/ NothingStale
        PROVE  stage' \notin {"stamp", "sweep"}
    BY <2>2 DEF StartDecay, SkipDecay, DecayStep, DecayReturns, StartFuse,
                RejectObservation, FuseStep, FuseReturns, SupportRaises,
                FuseOverflows, ClearReturns, NothingStale
  <2> QED
    BY <1>6, <2>1, <2>2 DEF MapperNext, Calls, Steps
<1>7. stage' \notin {"stamp", "sweep"} => SceneInv'
  BY DEF SceneInv
<1> QED
  BY <1>1, <1>2, <1>3, <1>4, <1>5, <1>6, <1>7

\* When a scene update returns, the static blocks are those of the new scene,
\* what is missing was counted as a refusal, and no empty block is left.
THEOREM ScenesAreStamped ==
    ASSUME ~Resets, MaxFailures > 0
    PROVE  MapperSpec => SceneStamped
<1>1. MapperInit => SceneInv
  BY DEF MapperInit, SceneInv
<1>2. MapperInv /\ VacantNotStatic /\ SweepInv /\ SceneInv
        /\ [MapperNext]_mapperVars => SceneInv'
  BY SceneStep
<1>3. ASSUME MapperInv, SweepInv, SceneInv, [MapperNext]_mapperVars
      PROVE  [UpdateReturns =>
                /\ StaticBlocks' \subseteq solid
                /\ solid \subseteq StaticBlocks' \/ failures' > 0
                /\ StaticBlocks' \cup DynamicBlocks'
                     = {c \in Coord : coordToPool'[c] # NONE}]_mapperVars
  <2> SUFFICES ASSUME UpdateReturns, MapperNext
               PROVE  /\ StaticBlocks' \subseteq solid
                      /\ solid \subseteq StaticBlocks' \/ failures' > 0
                      /\ StaticBlocks' \cup DynamicBlocks'
                           = {c \in Coord : coordToPool'[c] # NONE}
    BY <1>3
  <2>0. PoolInv
    BY <1>3 DEF MapperInv
  <2>1. stage \in {"stamp", "sweep"} /\ stage' = "idle"
    BY DEF UpdateReturns
  <2>2. NothingStale \/ (ClearReturns /\ stage = "sweep")
    <3>1. ~Calls
      BY <2>1 DEF Calls, IntegrateCall, MapperIntegrate, ClearCall, RegionCall,
             MapperClearRegion, MapperClear, StaticCall, UpdateStatic,
             MapperReset, MapperImport, ComputeEsdf, RejectScene
    <3>2. ~ (StartDecay \/ SkipDecay \/ DecayStep \/ DecayReturns \/ StartFuse
             \/ RejectObservation \/ FuseStep \/ FuseReturns \/ SupportRaises
             \/ FuseOverflows)
      BY <2>1 DEF StartDecay, SkipDecay, DecayStep, DecayReturns, StartFuse,
             RejectObservation, FuseStep, FuseReturns, SupportRaises,
             FuseOverflows
    <3>3. ~ (ClearStep \/ StampStep \/ SweepStale)
      BY <2>1 DEF ClearStep, StampStep, SweepStale
    <3>4. ClearReturns => stage = "sweep"
      BY <2>1 DEF ClearReturns
    <3> QED
      BY <3>1, <3>2, <3>3, <3>4 DEF MapperNext, Steps
  <2>3. /\ UNCHANGED <<maps, weight, static>> /\ failures' = failures
        /\ stage = "stamp" => boxLeft = {}
        /\ Stale = {}
    BY <1>3, <2>2 DEF NothingStale, ClearReturns, ReleaseDone, SweepInv, vars, maps
  <2>4. StaticBlocks' = StaticBlocks /\ DynamicBlocks' = DynamicBlocks
    BY <2>3 DEF StaticBlocks, DynamicBlocks, Field, maps
  <2>5. StaticBlocks \subseteq solid
    BY <1>3, <2>1 DEF SceneInv
  <2>6. solid \subseteq StaticBlocks \/ failures > 0
    BY <1>3, <2>1, <2>3 DEF SceneInv
  <2>7. ASSUME NEW c \in Coord
        PROVE  c \in StaticBlocks \cup DynamicBlocks <=> coordToPool[c] # NONE
    <3>1. CASE coordToPool[c] = NONE
      BY <3>1 DEF StaticBlocks, DynamicBlocks, Field
    <3>2. CASE coordToPool[c] # NONE
      <4>1. coordToPool[c] \in Active /\ coordToPool[c] \in Pool
        BY <2>0, <3>2, HeldIsLive
      <4>2. weight[coordToPool[c]] # 0 \/ static[coordToPool[c]]
        BY <2>3, <4>1 DEF Stale
      <4>3. weight[coordToPool[c]] \in Nat
        BY <2>0, <4>1 DEF PoolInv, TypeOK, Level
      <4> QED
        BY <3>2, <4>2, <4>3 DEF StaticBlocks, DynamicBlocks, Field
    <3> QED
      BY <3>1, <3>2
  <2>8. StaticBlocks \cup DynamicBlocks = {c \in Coord : coordToPool[c] # NONE}
    BY <2>7 DEF StaticBlocks, DynamicBlocks
  <2> QED
    BY <2>3, <2>4, <2>5, <2>6, <2>8 DEF maps
<1> QED
  BY <1>1, <1>2, <1>3, MapperInvariant, VacantInvariant, SweepInvariant, PTL
     DEF MapperSpec, SceneStamped

=============================================================================
