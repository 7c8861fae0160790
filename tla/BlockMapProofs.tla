--------------------------- MODULE BlockMapProofs ---------------------------
(***************************************************************************)
(* The block pool implements BlockMap, for every set of coordinates, hash  *)
(* function, pool size and table size: seen through its coordinates it is  *)
(* a bounded map, whatever happens to slots, free stack and hash table.    *)
(***************************************************************************)
EXTENDS BlockPoolProofs

USE DEF NONE

\* What BlockMap is told of a pool: the level each coordinate leads to.
Seen == [c \in Coord |-> IF coordToPool[c] = NONE THEN NONE
                         ELSE weight[coordToPool[c]]]

HeldCoords == {c \in Coord : coordToPool[c] # NONE}

\* BlockMap counts with the same Cardinality.
LEMMA SameCardinality ==
    ASSUME NEW S
    PROVE  Abstract!Cardinality(S) = Cardinality(S)
  BY DEF Abstract!Cardinality, Cardinality

\* An entry of the map is a coordinate with a slot.
LEMMA PresentIsHeld ==
    ASSUME PoolInv
    PROVE  /\ Abstract!Present = HeldCoords
           /\ \A c \in HeldCoords : /\ coordToPool[c] \in Active
                                    /\ Seen[c] = weight[coordToPool[c]]
                                    /\ Seen[c] \in Level
           /\ \A c \in Coord \ HeldCoords : Seen[c] = -1
<1>1. \A c \in HeldCoords : coordToPool[c] \in Active
  <2> TAKE c \in HeldCoords
  <2>1. c \in Coord /\ coordToPool[c] \in Pool /\ c # -1
    BY CoordAssumption DEF HeldCoords, PoolInv, TypeOK
  <2> QED
    BY <2>1 DEF PoolInv, MapsAgree, Active
<1>2. \A c \in HeldCoords : Seen[c] = weight[coordToPool[c]] /\ Seen[c] \in Level
  BY <1>1 DEF HeldCoords, Seen, Active, PoolInv, TypeOK
<1>3. \A c \in Coord \ HeldCoords : Seen[c] = -1
  BY DEF HeldCoords, Seen
<1>4. Abstract!Present = {c \in Coord : Seen[c] # -1}
  BY DEF Abstract!Present, Abstract!Absent, Seen
<1>5. HeldCoords \subseteq Coord /\ -1 \notin Level
  BY DEF HeldCoords, Level
<1> QED
  BY <1>1, <1>2, <1>3, <1>4, <1>5

\* The map has as many entries as the pool has live blocks.
LEMMA PresentCount ==
    ASSUME PoolInv
    PROVE  /\ Cardinality(Abstract!Present) = Cardinality(Active)
           /\ Cardinality(Active) \in Nat
           /\ Cardinality(Active) <= MaxBlocks
           /\ Cardinality(Active) = MaxBlocks <=> Active = Pool
<1>1. IsFiniteSet(Pool) /\ Cardinality(Pool) = MaxBlocks
  BY SizeAssumption, FS_Interval DEF Pool
<1>2. Active \subseteq Pool
  BY DEF Active
<1>3. /\ IsFiniteSet(Active)
      /\ Cardinality(Active) <= MaxBlocks
      /\ Cardinality(Active) = MaxBlocks => Active = Pool
  BY <1>1, <1>2, FS_Subset
<1>4. IsFiniteSet(HeldCoords)
  BY CoordAssumption, FS_Subset DEF HeldCoords
<1> DEFINE slot == [c \in HeldCoords |-> coordToPool[c]]
<1>5. slot \in Bijection(HeldCoords, Active)
  <2>1. slot \in [HeldCoords -> Active]
    BY PresentIsHeld
  <2>2. \A c, d \in HeldCoords : slot[c] = slot[d] => c = d
    BY PresentIsHeld DEF HeldCoords, Active, PoolInv, MapsAgree
  <2>3. \A p \in Active : \E c \in HeldCoords : slot[c] = p
    <3> SUFFICES ASSUME NEW p \in Active
                 PROVE  \E c \in HeldCoords : slot[c] = p
      OBVIOUS
    <3>1. p \in Pool /\ p # -1 /\ poolToCoord[p] \in Coord
      BY DEF Active, Pool, PoolInv, TypeOK
    <3>2. coordToPool[poolToCoord[p]] = p
      BY <3>1 DEF PoolInv, MapsAgree
    <3> QED
      BY <3>1, <3>2 DEF HeldCoords
  <2> QED
    BY <2>1, <2>2, <2>3 DEF Bijection, Injection, Surjection, IsInjective
<1>6. Cardinality(HeldCoords) = Cardinality(Active)
  BY <1>4, <1>5, FS_Bijection DEF ExistsBijection
<1>7. Cardinality(Active) \in Nat
  BY <1>3, FS_CardinalityType
<1> QED
  BY <1>1, <1>3, <1>6, <1>7, PresentIsHeld

\* A block that gets a slot enters the map where there is room, unobserved.
LEMMA BindInserts ==
    ASSUME PoolInv, NEW c \in Coord, NEW p \in Pool, p \notin Active,
           ~Held(c), Bind(c, p), weight' = weight, failures' = failures
    PROVE  Abstract!MapNext
<1>1. weight[p] = 0 /\ p # -1
  BY DEF PoolInv, VacantBlank, Pool
<1>2. c \notin Abstract!Present
  BY PresentIsHeld DEF Held, HeldCoords
<1>3. Abstract!Cardinality(Abstract!Present) < MaxBlocks
  BY PresentCount, SameCardinality, SizeAssumption
<1>4. Seen' = [Seen EXCEPT ![c] = 0]
  <2>1. coordToPool' = [coordToPool EXCEPT ![c] = p]
    BY DEF Bind
  <2> QED
    BY <1>1, <2>1 DEF Seen, PoolInv, TypeOK
<1>5. Abstract!Insert(c)
  BY <1>2, <1>3, <1>4 DEF Abstract!Insert, Seen
<1>6. \E d \in Coord : \/ Abstract!Insert(d)
                        \/ Abstract!Refuse(d)
                        \/ Abstract!Remove(d)
  <2> WITNESS c \in Coord
  <2> QED
    BY <1>5
<1> QED
  BY <1>6 DEF Abstract!MapNext

\* Releasing a live block removes its coordinate and no other.
LEMMA ReleaseRemoves ==
    ASSUME PoolInv, NEW p \in Active, Release(p), failures' = failures
    PROVE  Abstract!MapNext
<1>0. p \in Pool /\ p # -1 /\ poolToCoord[p] \in Coord
  BY DEF Active, Pool, PoolInv, TypeOK
<1>1. PICK c \in Coord : c = poolToCoord[p]
  BY <1>0
<1>2. \A d \in Coord : coordToPool[d] = p <=> d = c
  BY <1>0, <1>1 DEF PoolInv, MapsAgree
<1>3. coordToPool' = [coordToPool EXCEPT ![c] = -1]
      /\ weight' = [weight EXCEPT ![p] = 0]
  BY <1>1 DEF Release, Unbind, Wipe
<1>4. c \in Abstract!Present
  BY <1>0, <1>2, PresentIsHeld DEF HeldCoords
<1>5. Seen' = [Seen EXCEPT ![c] = -1]
  <2>1. ASSUME NEW d \in Coord
        PROVE  Seen'[d] = IF d = c THEN -1 ELSE Seen[d]
    BY <1>0, <1>1, <1>2, <1>3 DEF Seen, PoolInv, TypeOK
  <2>2. Seen' = [d \in Coord |-> Seen'[d]]
    BY DEF Seen
  <2>3. Seen = [d \in Coord |-> Seen[d]]
    BY DEF Seen
  <2> QED
    BY <2>1, <2>2, <2>3
<1>6. Abstract!Remove(c)
  BY <1>4, <1>5 DEF Abstract!Remove, Abstract!Absent, Seen
<1>7. \E d \in Coord : \/ Abstract!Insert(d)
                        \/ Abstract!Refuse(d)
                        \/ Abstract!Remove(d)
  <2> WITNESS c \in Coord
  <2> QED
    BY <1>6
<1> QED
  BY <1>7 DEF Abstract!MapNext

-----------------------------------------------------------------------------
(* One lemma per kind of step                                              *)

\* Allocating a block finds, inserts or refuses it; it is refused only when
\* every slot is live.
LEMMA AllocateImplements ==
    ASSUME PoolInv, NEW c \in Coord, Allocate(c), weight' = weight
    PROVE  [Abstract!MapNext]_(Abstract!mapVars)
<1>1. CASE AllocateExisting(c)
  BY <1>1 DEF AllocateExisting, maps, Abstract!mapVars
<1>2. CASE AllocateRecycled(c)
  <2>1. Len(free) \in 1 .. Len(free) /\ free[Len(free)] \in Pool
    BY <1>2, EmptySeq, ElementOfSeq, LenProperties
       DEF AllocateRecycled, Popped, Held, PoolInv, TypeOK
  <2>2. free[Len(free)] \notin Active
    BY <2>1 DEF PoolInv, PoolPartition, IsFree
  <2> QED
    BY <1>2, <2>1, <2>2, BindInserts DEF AllocateRecycled
<1>3. CASE AllocateFresh(c)
  <2>1. numAllocated \in Pool
    BY <1>3, SizeAssumption DEF AllocateFresh, PoolInv, TypeOK, Pool
  <2>2. numAllocated \notin Active
    BY <2>1 DEF PoolInv, PoolPartition, Pool
  <2> QED
    BY <1>3, <2>1, <2>2, BindInserts DEF AllocateFresh
<1>4. CASE AllocateRefused(c)
  <2>1. \A p \in Pool : ~IsFree(p)
    BY <1>4 DEF AllocateRefused, IsFree
  <2>2. \A p \in Pool : p < numAllocated
    BY <1>4, SizeAssumption DEF AllocateRefused, PoolInv, TypeOK, Pool
  <2>3. Active = Pool
    BY <2>1, <2>2 DEF PoolInv, PoolPartition, Active
  <2>4. /\ c \notin Abstract!Present
        /\ Abstract!Cardinality(Abstract!Present) = MaxBlocks
    BY <1>4, <2>3, PresentIsHeld, PresentCount, SameCardinality
       DEF AllocateRefused, Held, HeldCoords
  <2>5. Abstract!Refuse(c)
    BY <1>4, <2>4 DEF AllocateRefused, Abstract!Refuse, maps
  <2>6. \E d \in Coord : \/ Abstract!Insert(d)
                          \/ Abstract!Refuse(d)
                          \/ Abstract!Remove(d)
    <3> WITNESS c \in Coord
    <3> QED
      BY <2>5
  <2> QED
    BY <2>6 DEF Abstract!MapNext
<1> QED
  BY <1>1, <1>2, <1>3, <1>4 DEF Allocate

LEMMA IntegrateNextImplements ==
    ASSUME PoolInv, IntegrateNext
    PROVE  [Abstract!MapNext]_(Abstract!mapVars)
<1>1. PICK c \in Coord : c = Lowest(coordsLeft)
  BY LowestIsMember, CoordAssumption DEF PoolInv, TypeOK, IntegrateNext
<1> QED
  BY <1>1, AllocateImplements DEF IntegrateNext

\* Fusing a frame raises the levels of blocks that are in the map.
LEMMA FuseImplements ==
    ASSUME PoolInv, FuseAny
    PROVE  [Abstract!MapNext]_(Abstract!mapVars)
<1>1. PICK hit \in SUBSET touched : Fuse(hit)
  BY DEF FuseAny
<1>0. PICK S \in SUBSET Coord :
        S = {c \in HeldCoords : coordToPool[c] \in hit}
  BY DEF HeldCoords
<1>2. S \subseteq Abstract!Present
  BY <1>0, PresentIsHeld
<1>3. /\ weight' = [p \in Pool |-> IF p \in hit /\ weight[p] < MaxWeight
                                     THEN weight[p] + 1 ELSE weight[p]]
      /\ coordToPool' = coordToPool /\ failures' = failures
  BY <1>1 DEF Fuse, maps
<1>4. Seen' = [c \in Coord |-> IF c \in S /\ Seen[c] < MaxWeight
                                 THEN Seen[c] + 1 ELSE Seen[c]]
  <2>1. ASSUME NEW c \in Coord
        PROVE  Seen'[c] = IF c \in S /\ Seen[c] < MaxWeight
                            THEN Seen[c] + 1 ELSE Seen[c]
    BY <1>0, <1>3, PresentIsHeld DEF Seen, HeldCoords, Active
  <2>2. Seen' = [c \in Coord |-> Seen'[c]]
    BY DEF Seen
  <2> QED
    BY <2>1, <2>2
<1>5. Abstract!Observe(S)
  BY <1>2, <1>3, <1>4 DEF Abstract!Observe, Seen
<1>6. \E T \in SUBSET Coord : Abstract!Observe(T) \/ Abstract!Fade(T)
  <2> WITNESS S \in SUBSET Coord
  <2> QED
    BY <1>5
<1> QED
  BY <1>6 DEF Abstract!MapNext

\* A step that lowers the payload of some live slots, and nothing else that
\* the map shows, fades their coordinates.
LEMMA LoweringFades ==
    ASSUME PoolInv, NEW P \in SUBSET Active, NEW w \in [Pool -> Level],
           \A p \in P : w[p] <= weight[p],
           \A p \in Pool \ P : w[p] = weight[p],
           weight' = w, coordToPool' = coordToPool, failures' = failures
    PROVE  Abstract!MapNext
<1>0. PICK S \in SUBSET Coord :
        S = {c \in HeldCoords : coordToPool[c] \in P}
  BY DEF HeldCoords
<1> DEFINE l == [c \in S |-> w[coordToPool[c]]]
<1>1. S \subseteq Abstract!Present
  BY <1>0, PresentIsHeld
<1>2. \A c \in S : w[coordToPool[c]] \in Level
  BY <1>0, PresentIsHeld DEF Active
<1>3. l \in [S -> Abstract!Level]
  BY <1>2 DEF Level, Abstract!Level
<1>4. \A c \in S : l[c] <= Seen[c]
  BY <1>0, PresentIsHeld
<1>5. Seen' = [c \in Coord |-> IF c \in S THEN l[c] ELSE Seen[c]]
  <2>1. ASSUME NEW c \in Coord
        PROVE  Seen'[c] = IF c \in S THEN l[c] ELSE Seen[c]
    <3>1. CASE c \in HeldCoords
      BY <1>0, <3>1, PresentIsHeld DEF Seen, HeldCoords, Active
    <3>2. CASE c \notin HeldCoords
      BY <1>0, <3>2 DEF Seen, HeldCoords
    <3> QED
      BY <3>1, <3>2
  <2>2. Seen' = [c \in Coord |-> Seen'[c]]
    BY DEF Seen
  <2> HIDE DEF l
  <2> QED
    BY <2>1, <2>2
<1>6. Abstract!Fade(S)
  <2> HIDE DEF l
  <2> QED
    BY <1>1, <1>3, <1>4, <1>5 DEF Abstract!Fade, Seen
<1>7. \E T \in SUBSET Coord : Abstract!Observe(T) \/ Abstract!Fade(T)
  <2> WITNESS S \in SUBSET Coord
  <2> QED
    BY <1>6
<1> QED
  BY <1>7 DEF Abstract!MapNext

\* An overflowing frame and decay only lower levels.
LEMMA FadingImplements ==
    ASSUME PoolInv, VisibleOverflow \/ DecayAny
    PROVE  [Abstract!MapNext]_(Abstract!mapVars)
<1>0. weight \in [Pool -> Level] /\ weight' \in [Pool -> Level]
  BY OverflowPreserves, DecayPreserves DEF PoolInv, TypeOK
<1>1. ASSUME VisibleOverflow
      PROVE  Abstract!MapNext
  <2>1. /\ weight' = [p \in Pool |-> IF p \in touched THEN 0 ELSE weight[p]]
        /\ coordToPool' = coordToPool /\ failures' = failures
    BY <1>1 DEF VisibleOverflow, maps
  <2>2. touched \in SUBSET Active
    BY DEF PoolInv, LoopTargetsLive
  <2>3. \A p \in touched : weight'[p] <= weight[p]
    BY <1>0, <2>1, <2>2 DEF Active, Level
  <2>4. \A p \in Pool \ touched : weight'[p] = weight[p]
    BY <2>1
  <2> QED
    BY <1>0, <2>1, <2>2, <2>3, <2>4, LoweringFades
<1>2. ASSUME DecayAny
      PROVE  Abstract!MapNext
  <2>1. PICK fading \in SUBSET {p \in Active : weight[p] > 0} :
          DecayAndRecycle(fading)
    BY <1>2 DEF DecayAny
  <2>2. /\ weight' = [p \in Pool |->
                        IF p \in fading THEN weight[p] - 1 ELSE weight[p]]
        /\ coordToPool' = coordToPool /\ failures' = failures
    BY <2>1 DEF DecayAndRecycle, maps
  <2>3. \A p \in fading : weight'[p] <= weight[p]
    BY <1>0, <2>2 DEF Active, Level
  <2>4. \A p \in Pool \ fading : weight'[p] = weight[p]
    BY <2>2
  <2>5. fading \in SUBSET Active
    OBVIOUS
  <2> QED
    BY <1>0, <2>2, <2>3, <2>4, <2>5, LoweringFades
<1> QED
  BY <1>1, <1>2

\* Both release loops remove blocks from the map one by one.
LEMMA ReleasingImplements ==
    ASSUME PoolInv, RecycleNext \/ ClearNext
    PROVE  [Abstract!MapNext]_(Abstract!mapVars)
<1>1. failures' = failures
  BY DEF RecycleNext, ClearNext
<1>2. ASSUME NEW p \in Active, Release(p) PROVE Abstract!MapNext
  <2>1. poolToCoord[p] \in Coord
    BY <1>2 DEF Active, PoolInv, TypeOK
  <2> QED
    BY <1>1, <1>2, <2>1, ReleaseRemoves
<1>3. CASE RecycleNext
  <2>1. Lowest(poolsLeft) \in poolsLeft
    BY <1>3, LowestIsMember DEF PoolInv, TypeOK, RecycleNext, Pool
  <2>2. Lowest(poolsLeft) \in Active /\ Release(Lowest(poolsLeft))
    BY <1>3, <2>1 DEF PoolInv, LoopTargetsLive, RecycleNext
  <2> QED
    BY <1>2, <2>2
<1>4. CASE ClearNext
  <2>1. UNCHANGED <<maps, weight>> \/ \E p \in Active : Release(p)
    BY <1>4 DEF ClearNext, Pass
  <2> QED
    BY <1>1, <1>2, <2>1 DEF maps, Abstract!mapVars
<1> QED
  BY <1>3, <1>4

\* reset empties the map.
LEMMA ResetImplements ==
    ASSUME PoolInv, Reset
    PROVE  Abstract!MapNext
<1>1. coordToPool' = [c \in Coord |-> -1] /\ failures' = 0
  BY DEF Reset, ResetMaps
<1>2. Abstract!Empty
  BY <1>1 DEF Abstract!Empty, Abstract!Absent
<1> QED
  BY <1>2 DEF Abstract!MapNext

\* import_blocks fills an empty map with at most its capacity.
LEMMA ImportImplements ==
    ASSUME PoolInv, ImportAny
    PROVE  Abstract!MapNext
<1>1. Active = {} /\ failures' = 0
  BY DEF ImportAny, Import
<1>2. Abstract!Present = {}
  BY <1>1, PresentIsHeld
<1>3. PoolInv'
  BY ImportPreserves
<1>4. Seen' \in [Coord -> Level \cup {-1}]
  BY <1>3 DEF Seen, PoolInv, TypeOK
<1> DEFINE H == {c \in Coord : Seen'[c] # -1}
           slot == [c \in H |-> coordToPool'[c]]
<1>5. Abstract!Cardinality(H) <= MaxBlocks
  <2>1. \A c \in H : coordToPool'[c] \in Pool /\ c # -1
    BY <1>3, CoordAssumption DEF Seen, PoolInv, TypeOK
  <2>2. \A c, d \in H : slot[c] = slot[d] => c = d
    BY <1>3, <2>1 DEF PoolInv, MapsAgree
  <2>3. slot \in Injection(H, Pool)
    BY <2>1, <2>2 DEF Injection, IsInjective
  <2>4. IsFiniteSet(Pool) /\ Cardinality(Pool) = MaxBlocks
    BY SizeAssumption, FS_Interval DEF Pool
  <2> HIDE DEF H, slot
  <2>5. Cardinality(H) <= MaxBlocks
    BY <2>3, <2>4, FS_Injection
  <2> QED
    BY <2>5, SameCardinality
<1>6. Abstract!Load
  BY <1>1, <1>2, <1>4, <1>5
     DEF Abstract!Load, Abstract!Absent, Abstract!Level, Level, Seen
<1> QED
  BY <1>6 DEF Abstract!MapNext

-----------------------------------------------------------------------------
\* Every step of the pool is a step of the bounded map, or leaves it alone.
LEMMA PoolStepImplements ==
    PoolInv /\ [Next]_vars => [Abstract!MapNext]_(Abstract!mapVars)
<1> SUFFICES ASSUME PoolInv, [Next]_vars
             PROVE  [Abstract!MapNext]_(Abstract!mapVars)
  OBVIOUS
<1>1. ASSUME IntegrateAny \/ ClearAny \/ RegionAny \/ ReleaseDone
             \/ UNCHANGED vars
      PROVE  UNCHANGED Abstract!mapVars
  BY <1>1 DEF IntegrateAny, Integrate, ClearAny, RegionAny, ClearRegion,
              ClearBlocks, ReleaseDone, maps, vars, Abstract!mapVars
<1> QED
  BY <1>1, IntegrateNextImplements, FuseImplements, FadingImplements,
     ReleasingImplements, ResetImplements, ImportImplements DEF Next

\* The block pool implements the bounded map: a block is refused only when
\* every slot is live, enters unobserved, keeps its level until a frame, decay
\* or a clear changes it, and leaves alone.
THEOREM PoolImplementsMap == Spec => ImplementsMap
<1>1. Init => Abstract!MapInit
  BY DEF Init, Abstract!MapInit, Abstract!Absent
<1> QED
  BY <1>1, PoolStepImplements, PoolInvariant, PTL
     DEF Spec, ImplementsMap, Abstract!MapSpec

=============================================================================
