--------------------------- MODULE BlockPoolProofs --------------------------
(***************************************************************************)
(* Theorems about BlockPool, for every set of coordinates, hash function,  *)
(* pool size and table size.  PoolInv is the inductive invariant: the two  *)
(* dictionaries, the free stack with its public copies, the payload of     *)
(* vacant slots and the targets of the running loop each need the others.  *)
(***************************************************************************)
EXTENDS BlockPool, FiniteSetTheorems, WellFoundedInduction, NaturalsInduction,
        SequenceTheorems, TLAPS

USE DEF NONE, EMPTY, TOMB

PoolInv ==
    /\ TypeOK
    /\ MapsAgree
    /\ PoolPartition
    /\ FreeMirror
    /\ VacantBlank
    /\ LoopTargetsLive

-----------------------------------------------------------------------------
(* Lemmas                                                                  *)

\* A non-empty set of naturals has the least element that the integration and
\* recycling loops take next.
LEMMA LowestIsMember ==
    ASSUME NEW S \in SUBSET Nat, S # {}
    PROVE  Lowest(S) \in S /\ \A y \in S : Lowest(S) <= y
<1>1. IsWellFoundedOn(OpToRel(<, Nat), Nat)
  BY NatLessThanWellFounded
<1>2. PICK x \in S : \A y \in S : ~ (<<y, x>> \in OpToRel(<, Nat))
  BY <1>1, WFMin
<1>3. ASSUME NEW y \in S PROVE x <= y
  <2>1. CASE y < x
    <3>1. <<y, x>> \in OpToRel(<, Nat)
      BY <2>1 DEF OpToRel
    <3> QED
      BY <3>1, <1>2
  <2> QED
    BY <2>1
<1> QED
  BY <1>3 DEF Lowest

\* The free stack of a partitioned pool is no longer than the pool, so that
\* its copy fits into free_list.
LEMMA FreeFits ==
    ASSUME TypeOK, PoolPartition
    PROVE  Len(free) \in 0 .. MaxBlocks
<1>1. free \in [1 .. Len(free) -> Pool] /\ Len(free) \in Nat
  BY DEF TypeOK
<1>2. free \in Injection(1 .. Len(free), Pool)
  BY <1>1 DEF PoolPartition, Injection, IsInjective
<1>3. IsFiniteSet(Pool) /\ Cardinality(Pool) = MaxBlocks
  BY SizeAssumption, FS_Interval DEF Pool
<1>4. Cardinality(1 .. Len(free)) <= MaxBlocks
  BY <1>2, <1>3, FS_Injection
<1>5. Cardinality(1 .. Len(free)) =
        IF 1 > Len(free) THEN 0 ELSE Len(free) - 1 + 1
  BY <1>1, FS_Interval
<1> QED
  BY <1>1, <1>4, <1>5, SizeAssumption

-----------------------------------------------------------------------------
THEOREM InitPoolInv == Init => PoolInv
<1> SUFFICES ASSUME Init PROVE PoolInv
  OBVIOUS
<1> USE SizeAssumption, HomeAssumption, CoordAssumption
<1>1. TypeOK
  BY DEF Init, TypeOK, Pool, Slot, Level
<1>2. MapsAgree
  BY DEF Init, MapsAgree, Pool
<1>3. PoolPartition
  BY DEF Init, PoolPartition, IsFree, Active, Pool
<1>4. FreeMirror
  BY DEF Init, FreeMirror
<1>5. VacantBlank
  BY DEF Init, VacantBlank, IsFree
<1>6. LoopTargetsLive
  BY DEF Init, LoopTargetsLive
<1> QED
  BY <1>1, <1>2, <1>3, <1>4, <1>5, <1>6 DEF PoolInv
-----------------------------------------------------------------------------
(* Every action preserves PoolInv                                          *)

\* Starting a call or ending a loop changes neither dictionary.
LEMMA IntegratePreserves ==
    ASSUME PoolInv, NEW S \in SUBSET Coord, NEW v \in Nat, Integrate(S, v)
    PROVE  PoolInv'
<1> USE SizeAssumption
<1>1. TypeOK'
  BY DEF PoolInv, TypeOK, Integrate, maps, mirrors, hash
<1>2. MapsAgree' /\ PoolPartition' /\ FreeMirror' /\ VacantBlank'
  BY DEF PoolInv, Integrate, maps, mirrors, hash, MapsAgree,
         PoolPartition, FreeMirror, VacantBlank, IsFree, Active
<1>3. LoopTargetsLive'
  BY DEF Integrate, LoopTargetsLive
<1> QED
  BY <1>1, <1>2, <1>3 DEF PoolInv

LEMMA FusePreserves == ASSUME PoolInv, FuseAny PROVE PoolInv'
<1>1. PICK hit \in SUBSET touched : Fuse(hit)
  BY DEF FuseAny
<1> USE SizeAssumption
<1>2. TypeOK'
  BY <1>1 DEF PoolInv, TypeOK, Fuse, Return, maps, mirrors, hash, Level
<1>3. MapsAgree' /\ PoolPartition' /\ FreeMirror'
  BY <1>1 DEF PoolInv, Fuse, Return, maps, mirrors, MapsAgree, PoolPartition,
              FreeMirror, IsFree, Active
<1>4. VacantBlank'
  BY <1>1 DEF PoolInv, Fuse, maps, VacantBlank, IsFree, Active, TypeOK,
              LoopTargetsLive
<1>5. LoopTargetsLive'
  BY <1>1 DEF Fuse, Return, LoopTargetsLive
<1> QED
  BY <1>2, <1>3, <1>4, <1>5 DEF PoolInv

LEMMA OverflowPreserves == ASSUME PoolInv, VisibleOverflow PROVE PoolInv'
<1> USE SizeAssumption
<1>1. TypeOK'
  BY DEF PoolInv, TypeOK, VisibleOverflow, Return, maps, mirrors, hash, Level
<1>2. MapsAgree' /\ PoolPartition' /\ FreeMirror'
  BY DEF PoolInv, VisibleOverflow, Return, maps, mirrors, MapsAgree,
         PoolPartition, FreeMirror, IsFree, Active
<1>3. VacantBlank'
  BY DEF PoolInv, VisibleOverflow, maps, VacantBlank, IsFree, Active, TypeOK
<1>4. LoopTargetsLive'
  BY DEF VisibleOverflow, Return, LoopTargetsLive
<1> QED
  BY <1>1, <1>2, <1>3, <1>4 DEF PoolInv

LEMMA DecayPreserves == ASSUME PoolInv, DecayAny PROVE PoolInv'
<1>1. PICK fading \in SUBSET {p \in Active : weight[p] > 0} :
        DecayAndRecycle(fading)
  BY DEF DecayAny
<1> USE SizeAssumption
<1>2. weight' \in [Pool -> Level]
  BY <1>1 DEF PoolInv, TypeOK, DecayAndRecycle, Expired, Level, Active
<1>3. TypeOK'
  BY <1>1, <1>2
     DEF PoolInv, TypeOK, DecayAndRecycle, Expired, maps, mirrors, hash,
                    Active
<1>4. MapsAgree' /\ PoolPartition' /\ FreeMirror'
  BY <1>1 DEF PoolInv, DecayAndRecycle, Expired, maps, mirrors, MapsAgree,
              PoolPartition, FreeMirror, IsFree, Active
<1>5. VacantBlank'
  BY <1>1
     DEF PoolInv, DecayAndRecycle, Expired, maps, VacantBlank, IsFree, Active,
              TypeOK
<1>6. LoopTargetsLive'
  BY <1>1 DEF PoolInv, DecayAndRecycle, Expired, LoopTargetsLive, maps, Active
<1> QED
  BY <1>3, <1>4, <1>5, <1>6 DEF PoolInv

LEMMA ClearStartPreserves ==
    ASSUME PoolInv, NEW indices \in SUBSET Pool, ClearBlocks(indices)
    PROVE  PoolInv'
<1> USE SizeAssumption
<1>1. TypeOK'
  BY DEF PoolInv, TypeOK, ClearBlocks, maps, mirrors, hash
<1>2. MapsAgree' /\ PoolPartition' /\ FreeMirror' /\ VacantBlank'
  BY DEF PoolInv, ClearBlocks, maps, mirrors, hash, MapsAgree,
         PoolPartition, FreeMirror, VacantBlank, IsFree, Active
<1>3. LoopTargetsLive'
  BY DEF PoolInv, ClearBlocks, LoopTargetsLive, maps, Active
<1> QED
  BY <1>1, <1>2, <1>3 DEF PoolInv

\* The public copies of the free stack are right again when a release loop
\* returns: the stack fits into free_list.
LEMMA ReleaseDonePreserves == ASSUME PoolInv, ReleaseDone PROVE PoolInv'
<1> USE SizeAssumption
<1>1. Len(free) \in 0 .. MaxBlocks
  BY FreeFits DEF PoolInv
<1>2. freeList' \in [Pool -> Pool \cup {NONE}]
  <2>1. ASSUME NEW p \in Pool, p < Len(free) PROVE free[p + 1] \in Pool
    <3>1. p + 1 \in 1 .. Len(free)
      BY <2>1, <1>1 DEF Pool
    <3> QED
      BY <3>1, ElementOfSeq DEF PoolInv, TypeOK
  <2>2. 0 \in Pool
    BY DEF Pool
  <2> QED
    BY <2>1, <2>2 DEF ReleaseDone, FreeCopy
<1>3. TypeOK'
  BY <1>1, <1>2 DEF PoolInv, TypeOK, ReleaseDone, FreeCopy, Return, maps, hash
<1>4. MapsAgree' /\ PoolPartition' /\ VacantBlank'
  BY DEF PoolInv, ReleaseDone, FreeCopy, Return, maps, hash, MapsAgree,
         PoolPartition, VacantBlank, IsFree, Active
<1>5. FreeMirror'
  BY <1>1 DEF ReleaseDone, FreeCopy, FreeMirror, Pool
<1>6. LoopTargetsLive'
  BY DEF ReleaseDone, FreeCopy, Return, LoopTargetsLive
<1> QED
  BY <1>3, <1>4, <1>5, <1>6 DEF PoolInv

LEMMA ResetPreserves == ASSUME PoolInv, Reset PROVE PoolInv'
<1> USE SizeAssumption, HomeAssumption, CoordAssumption
<1>1. TypeOK'
  <2>1. weight' \in [Pool -> Level]
    BY DEF Reset, ResetMaps, Level
  <2>2. freeCount' \in 0 .. MaxBlocks /\ numAllocated' \in 0 .. capacity'
    BY DEF PoolInv, TypeOK, Reset, ResetMaps
  <2>3. free' \in Seq(Pool) /\ failures' \in 0 .. MaxFailures
    BY DEF Reset, ResetMaps
  <2> QED
    BY <2>1, <2>2, <2>3 DEF PoolInv, TypeOK, Reset, ResetMaps, call
<1>2. MapsAgree'
  BY DEF Reset, ResetMaps, MapsAgree, Pool
<1>3. PoolPartition'
  BY DEF Reset, ResetMaps, PoolPartition, IsFree, Active, Pool
<1>4. FreeMirror' /\ VacantBlank'
  BY DEF Reset, ResetMaps, FreeMirror, VacantBlank, IsFree
<1>5. LoopTargetsLive'
  <2>1. touched = {}
    BY DEF PoolInv, ResetMaps, Reset, LoopTargetsLive
  <2> QED
    BY <2>1 DEF Reset, ResetMaps, call, LoopTargetsLive
<1> QED
  BY <1>1, <1>2, <1>3, <1>4, <1>5 DEF PoolInv

\* Releasing one live block keeps the dictionaries inverse and the pool
\* partitioned: the block moves from the live slots to the free stack.
LEMMA ReleaseKeeps ==
    ASSUME PoolInv, NEW p \in Active, Release(p),
           UNCHANGED <<numAllocated, capacity, mirrors, failures, limit>>,
           op' = op, op \in {"recycle", "clear"},
           coordsLeft' = coordsLeft, touched' = touched,
           poolsLeft' = poolsLeft \ {p}
    PROVE  PoolInv'
<1> USE SizeAssumption
<1>1. p \in Pool /\ poolToCoord[p] \in Coord /\ -1 \notin Coord
  BY CoordAssumption DEF PoolInv, TypeOK, Active
<1>2. Active' = Active \ {p}
  BY <1>1 DEF Release, Unbind, Wipe, Mark, Unhash, Active, PoolInv, TypeOK
<1>3. /\ Len(free') = Len(free) + 1
      /\ \A i \in 1 .. Len(free) : free'[i] = free[i]
      /\ free'[Len(free) + 1] = p
      /\ free' \in Seq(Pool) /\ Len(free) \in Nat
  BY <1>1, AppendProperties, LenProperties
     DEF Release, Unbind, Wipe, Mark, Unhash, PoolInv, TypeOK
<1>4. TypeOK'
  <2>1. coordToPool' \in [Coord -> Pool \cup {NONE}]
        /\ poolToCoord' \in [Pool -> Coord \cup {NONE}]
    BY DEF PoolInv, TypeOK, Release, Unbind, Wipe, Mark, Unhash
  <2>0. 0 \in Level
    BY DEF Level
  <2>2. weight' \in [Pool -> Level]
    BY <2>0 DEF PoolInv, TypeOK, Release, Unbind, Wipe, Mark, Unhash
  <2>4. static' \in [Pool -> BOOLEAN]
    BY Zenon DEF PoolInv, TypeOK, Release, Unbind, Wipe, Mark, Unhash
  <2>3. hashTable' \in [Slot -> Pool \cup {EMPTY, TOMB}]
        /\ hashSlot' \in [Pool -> Pool \cup Slot \cup {NONE}]
    BY DEF PoolInv, TypeOK, Release, Unbind, Wipe, Mark, Unhash
  <2> QED
    BY <2>1, <2>2, <2>3, <2>4, <1>3 DEF PoolInv, TypeOK, mirrors
<1>5. MapsAgree'
  <2> SUFFICES ASSUME NEW c \in Coord, NEW q \in Pool
               PROVE  coordToPool'[c] = q <=> poolToCoord'[q] = c
    BY DEF MapsAgree
  <2>1. coordToPool[c] = q <=> poolToCoord[q] = c
    BY DEF PoolInv, MapsAgree
  <2>2. coordToPool[poolToCoord[p]] = p
    BY <1>1 DEF PoolInv, MapsAgree
  <2>3. coordToPool'[c] = IF c = poolToCoord[p] THEN -1 ELSE coordToPool[c]
    BY DEF PoolInv, TypeOK, Release, Unbind, Wipe, Mark, Unhash
  <2>4. poolToCoord'[q] = IF q = p THEN -1 ELSE poolToCoord[q]
    BY DEF PoolInv, TypeOK, Release, Unbind, Wipe, Mark, Unhash
  <2>5. q # -1 /\ c # -1
    BY <1>1 DEF Pool
  <2> QED
    BY <2>1, <2>2, <2>3, <2>4, <2>5
<1>6. \A q \in Pool : IsFree(q)' <=> (IsFree(q) \/ q = p)
  <2> SUFFICES ASSUME NEW q \in Pool
               PROVE  IsFree(q)' <=> (IsFree(q) \/ q = p)
    OBVIOUS
  <2>1. IsFree(q)' => (IsFree(q) \/ q = p)
    BY <1>3 DEF IsFree
  <2>2. IsFree(q) => IsFree(q)'
    BY <1>3 DEF IsFree
  <2>3. IsFree(p)'
    BY <1>3 DEF IsFree
  <2> QED
    BY <2>1, <2>2, <2>3
<1>7. ~IsFree(p) /\ p < numAllocated
  BY <1>1 DEF PoolInv, PoolPartition
<1>8. PoolPartition'
  <2>1. \A q \in Pool : q < numAllocated <=> (q \in Active' \/ IsFree(q)')
    BY <1>2, <1>6, <1>7 DEF PoolInv, PoolPartition
  <2>2. \A q \in Pool : ~(q \in Active' /\ IsFree(q)')
    BY <1>2, <1>6 DEF PoolInv, PoolPartition
  <2>3. \A i, j \in 1 .. Len(free') : free'[i] = free'[j] => i = j
    BY <1>3, <1>7 DEF PoolInv, PoolPartition, IsFree
  <2> QED
    BY <2>1, <2>2, <2>3 DEF PoolPartition
<1>9. VacantBlank'
  BY <1>1, <1>2, <1>6
     DEF PoolInv, TypeOK, VacantBlank, Release, Unbind, Wipe, Mark, Unhash
<1>10. LoopTargetsLive'
  <2>1. touched' = {}
    BY DEF PoolInv, LoopTargetsLive
  <2>2. \A q \in poolsLeft' : q # p /\ q \in Pool
    BY DEF PoolInv, TypeOK
  <2> QED
    BY <2>1, <2>2, <1>1, <1>2
       DEF PoolInv, TypeOK, LoopTargetsLive, Release, Unbind, Wipe, Mark, Unhash
<1>11. FreeMirror'
  BY DEF FreeMirror
<1> QED
  BY <1>4, <1>5, <1>8, <1>9, <1>10, <1>11 DEF PoolInv

LEMMA RecycleNextPreserves == ASSUME PoolInv, RecycleNext PROVE PoolInv'
<1>1. Lowest(poolsLeft) \in poolsLeft
  BY LowestIsMember DEF PoolInv, TypeOK, RecycleNext, Pool
<1>2. Lowest(poolsLeft) \in Active
  BY <1>1 DEF PoolInv, LoopTargetsLive, RecycleNext
<1> QED
  BY <1>2, ReleaseKeeps DEF RecycleNext

\* An index that names no live block is skipped.
LEMMA ClearNextPreserves == ASSUME PoolInv, ClearNext PROVE PoolInv'
<1>1. PICK p \in poolsLeft :
        /\ poolsLeft' = poolsLeft \ {p}
        /\ IF p \in Active THEN Release(p)
           ELSE UNCHANGED <<maps, weight, static, hash, free>>
  BY DEF ClearNext, Pass
<1>2. CASE p \in Active
  BY <1>1, <1>2, ReleaseKeeps DEF ClearNext, Pass
<1>3. CASE p \notin Active
  <2>1. UNCHANGED <<maps, weight, static, hash, free>>
    BY <1>1, <1>3
  <2>2. TypeOK'
    BY <1>1, <2>1 DEF PoolInv, TypeOK, ClearNext, Pass, maps, hash, mirrors
  <2>3. MapsAgree' /\ PoolPartition' /\ FreeMirror' /\ VacantBlank'
    BY <2>1
       DEF PoolInv, ClearNext, Pass, maps, mirrors, MapsAgree, PoolPartition,
                FreeMirror, VacantBlank, IsFree, Active
  <2>4. LoopTargetsLive'
    BY <2>1 DEF PoolInv, ClearNext, Pass, LoopTargetsLive, maps, Active
  <2> QED
    BY <2>2, <2>3, <2>4 DEF PoolInv
<1> QED
  BY <1>2, <1>3

-----------------------------------------------------------------------------
(* Allocation                                                              *)

\* Probing never leaves the hash table.
LEMMA ProbeInTable ==
    ASSUME NEW c \in Coord, NEW k \in Slot
    PROVE  Probe(c, k) \in Slot
<1>1. Home[c] + k \in Nat /\ HashCapacity \in Nat \ {0}
  BY SizeAssumption, HomeAssumption DEF Slot
<1>2. (Home[c] + k) % HashCapacity \in 0 .. HashCapacity - 1
  BY <1>1
<1> QED
  BY <1>2 DEF Probe, Slot

\* Binding a vacant slot to an absent coordinate keeps the dictionaries
\* inverse and makes exactly that slot live.
LEMMA BindKeeps ==
    ASSUME PoolInv, NEW c \in Coord, NEW p \in Pool, coordToPool[c] = NONE,
           p \notin Active, Bind(c, p)
    PROVE  /\ coordToPool' \in [Coord -> Pool \cup {NONE}]
           /\ poolToCoord' \in [Pool -> Coord \cup {NONE}]
           /\ hashTable' \in [Slot -> Pool \cup {EMPTY, TOMB}]
           /\ hashSlot' \in [Pool -> Pool \cup Slot \cup {NONE}]
           /\ MapsAgree'
           /\ Active' = Active \cup {p}
           /\ coordToPool'[c] = p
<1>0. -1 \notin Coord /\ -1 \notin Pool
  BY CoordAssumption DEF Pool
<1>1. /\ -1 \notin Coord /\ p # -1 /\ c # -1
      /\ coordToPool \in [Coord -> Pool \cup {-1}]
      /\ poolToCoord \in [Pool -> Coord \cup {-1}]
  BY <1>0 DEF PoolInv, TypeOK
<1>2. /\ coordToPool' = [coordToPool EXCEPT ![c] = p]
      /\ poolToCoord' = [poolToCoord EXCEPT ![p] = c]
      /\ InsertHash(c, p)
  BY DEF Bind
<1>3. /\ hashTable' \in [Slot -> Pool \cup {EMPTY, TOMB}]
      /\ hashSlot' \in [Pool -> Pool \cup Slot \cup {NONE}]
  <2> DEFINE open == {k \in Slot : hashTable[Probe(c, k)] < 0}
             s == Probe(c, Lowest(open))
  <2>1. CASE open = {}
    BY <1>2, <2>1 DEF InsertHash, PoolInv, TypeOK
  <2>2. CASE open # {}
    <3>1. s \in Slot
      <4>1. open \in SUBSET Nat
        BY DEF Slot
      <4>2. Lowest(open) \in open
        BY <4>1, <2>2, LowestIsMember
      <4> QED
        BY <4>2, ProbeInTable
    <3>2. /\ hashTable' = [hashTable EXCEPT ![s] = p]
          /\ hashSlot' = [hashSlot EXCEPT ![p] = s]
      BY <1>2, <2>2 DEF InsertHash
    <3> HIDE DEF s
    <3> QED
      BY <3>1, <3>2 DEF PoolInv, TypeOK
  <2> QED
    BY <2>1, <2>2
<1>4. MapsAgree'
  <2> SUFFICES ASSUME NEW d \in Coord, NEW q \in Pool
               PROVE  coordToPool'[d] = q <=> poolToCoord'[q] = d
    BY DEF MapsAgree
  <2>1. coordToPool[d] = q <=> poolToCoord[q] = d
    BY DEF PoolInv, MapsAgree
  <2>2. coordToPool'[d] = IF d = c THEN p ELSE coordToPool[d]
    BY <1>1, <1>2
  <2>3. poolToCoord'[q] = IF q = p THEN c ELSE poolToCoord[q]
    BY <1>1, <1>2
  <2>4. q # -1 /\ d # -1 /\ poolToCoord[p] = -1
    BY <1>1, CoordAssumption DEF Pool, Active
  <2> QED
    BY <2>1, <2>2, <2>3, <2>4
<1>5. Active' = Active \cup {p}
  BY <1>1, <1>2 DEF Active
<1> QED
  BY <1>1, <1>2, <1>3, <1>4, <1>5

\* Growing the tensors makes room for the slot that is asked for and never
\* goes beyond max_blocks.
LEMMA GrowFits ==
    ASSUME capacity \in 1 .. MaxBlocks, NEW n \in 0 .. MaxBlocks
    PROVE  Grow(n) \in 1 .. MaxBlocks /\ n <= Grow(n) /\ capacity <= Grow(n)
BY SizeAssumption DEF Grow

\* What one allocation keeps, in the integration loop or in a loop that stamps
\* the block it gets.
LEMMA AllocateKeeps ==
    ASSUME PoolInv, NEW c \in Coord, Allocate(c), op \in {"idle", "integrate"},
           UNCHANGED <<weight, op>>,
           \A p \in Pool : static'[p] => static[p] \/ p = coordToPool'[c]
    PROVE  /\ coordToPool' \in [Coord -> Pool \cup {NONE}]
           /\ poolToCoord' \in [Pool -> Coord \cup {NONE}]
           /\ free' \in Seq(Pool)
           /\ capacity' \in 1 .. MaxBlocks
           /\ numAllocated' \in 0 .. capacity'
           /\ freeCount' \in 0 .. MaxBlocks
           /\ freeList' \in [Pool -> Pool \cup {NONE}]
           /\ hashTable' \in [Slot -> Pool \cup {EMPTY, TOMB}]
           /\ hashSlot' \in [Pool -> Pool \cup Slot \cup {NONE}]
           /\ failures' \in 0 .. MaxFailures
           /\ MapsAgree' /\ PoolPartition' /\ FreeMirror' /\ VacantBlank'
           /\ Active \subseteq Active'
           /\ coordToPool'[c] # NONE => coordToPool'[c] \in Active'
<1> DEFINE Kept ==
           /\ coordToPool' \in [Coord -> Pool \cup {NONE}]
           /\ poolToCoord' \in [Pool -> Coord \cup {NONE}]
           /\ free' \in Seq(Pool)
           /\ capacity' \in 1 .. MaxBlocks
           /\ numAllocated' \in 0 .. capacity'
           /\ freeCount' \in 0 .. MaxBlocks
           /\ freeList' \in [Pool -> Pool \cup {NONE}]
           /\ hashTable' \in [Slot -> Pool \cup {EMPTY, TOMB}]
           /\ hashSlot' \in [Pool -> Pool \cup Slot \cup {NONE}]
           /\ failures' \in 0 .. MaxFailures
           /\ MapsAgree' /\ PoolPartition' /\ FreeMirror' /\ VacantBlank'
           /\ Active \subseteq Active'
           /\ coordToPool'[c] # NONE => coordToPool'[c] \in Active'
<1> SUFFICES Kept
  OBVIOUS
<1> USE SizeAssumption
<1>0. free \in Seq(Pool) /\ Len(free) \in 0 .. MaxBlocks
  <2>1. Len(free) \in 0 .. MaxBlocks
    BY FreeFits DEF PoolInv
  <2> QED
    BY <2>1 DEF PoolInv, TypeOK
<1>1. CASE AllocateExisting(c)
  <2>1. coordToPool[c] \in Active
    <3>1. coordToPool[c] \in Pool
      BY <1>1 DEF PoolInv, TypeOK, AllocateExisting, Held
    <3>2. poolToCoord[coordToPool[c]] = c
      BY <3>1 DEF PoolInv, MapsAgree
    <3> QED
      BY <3>1, <3>2, CoordAssumption DEF Active
  <2>2. Active' = Active
    BY <1>1 DEF AllocateExisting, Held, maps, Active
  <2>3. MapsAgree' /\ PoolPartition' /\ FreeMirror'
    BY <1>1 DEF PoolInv, AllocateExisting, Held, maps, mirrors, MapsAgree,
                PoolPartition, FreeMirror, IsFree, Active
  <2>4. VacantBlank'
    <3>1. coordToPool' = coordToPool /\ free' = free /\ weight' = weight
      BY <1>1 DEF AllocateExisting, maps
    <3>2. ~IsFree(coordToPool[c])
      BY <2>1 DEF PoolInv, PoolPartition, Active
    <3> QED
      BY <2>2, <3>1, <3>2 DEF PoolInv, VacantBlank, IsFree
  <2> QED
    BY <1>1, <2>1, <2>2, <2>3, <2>4 DEF PoolInv, TypeOK, AllocateExisting, Held, maps,
                                  mirrors, hash
<1>2. CASE AllocateRefused(c)
  <2>1. Active' = Active
    BY <1>2 DEF AllocateRefused, Held, maps, Active
  <2>2. MapsAgree' /\ PoolPartition' /\ FreeMirror' /\ VacantBlank'
    BY <1>2 DEF PoolInv, AllocateRefused, Held, maps, mirrors, MapsAgree,
                PoolPartition, FreeMirror, VacantBlank, IsFree, Active
  <2>3. failures' \in 0 .. MaxFailures
    BY <1>2 DEF PoolInv, TypeOK, AllocateRefused, Held
  <2>4. coordToPool'[c] = NONE
    BY <1>2 DEF AllocateRefused, Held, maps
  <2> QED
    BY <1>2, <2>1, <2>2, <2>3, <2>4 DEF PoolInv, TypeOK, AllocateRefused, Held,
                                        maps, mirrors, hash
<1>3. CASE AllocateRecycled(c)
  <2> DEFINE n == Len(free)
             p == free[n]
  <2>1. n \in 1 .. MaxBlocks
    BY <1>0, <1>3, EmptySeq DEF AllocateRecycled, Popped, Held
  <2>2. p \in Pool
    BY <1>0, <2>1, ElementOfSeq
  <2>3. IsFree(p)
    BY <2>1 DEF IsFree
  <2>4. p \notin Active /\ p < numAllocated
    BY <2>2, <2>3 DEF PoolInv, PoolPartition
  <2>5. /\ free' \in Seq(Pool) /\ Len(free') = n - 1
        /\ \A i \in 1 .. n - 1 : free'[i] = free[i]
    <3>1. \A i \in 1 .. n - 1 : free[i] \in Pool
      BY <1>0, <2>1, ElementOfSeq
    <3>2. /\ SubSeq(free, 1, n - 1) \in Seq(Pool)
          /\ Len(SubSeq(free, 1, n - 1)) =
               IF 1 <= n - 1 THEN n - 1 - 1 + 1 ELSE 0
          /\ \A i \in 1 .. n - 1 - 1 + 1 :
               SubSeq(free, 1, n - 1)[i] = free[1 + i - 1]
      BY <3>1, <2>1, SubSeqProperties
    <3>3. free' = SubSeq(free, 1, n - 1)
      BY <1>3 DEF AllocateRecycled, Popped, Held
    <3> HIDE DEF n
    <3> QED
      BY <2>1, <3>2, <3>3
  <2> HIDE DEF n, p
  <2>6. Bind(c, p) /\ coordToPool[c] = NONE
    BY <1>3 DEF AllocateRecycled, Popped, Held, p, n
  <2>7. /\ coordToPool' \in [Coord -> Pool \cup {NONE}]
        /\ poolToCoord' \in [Pool -> Coord \cup {NONE}]
        /\ hashTable' \in [Slot -> Pool \cup {EMPTY, TOMB}]
        /\ hashSlot' \in [Pool -> Pool \cup Slot \cup {NONE}]
        /\ MapsAgree' /\ Active' = Active \cup {p} /\ coordToPool'[c] = p
    BY <2>2, <2>4, <2>6, BindKeeps
  <2>8. \A q \in Pool : IsFree(q)' <=> (IsFree(q) /\ q # p)
    <3> SUFFICES ASSUME NEW q \in Pool
                 PROVE  IsFree(q)' <=> (IsFree(q) /\ q # p)
      OBVIOUS
    <3>1. \A i, j \in 1 .. n : free[i] = free[j] => i = j
      BY DEF PoolInv, PoolPartition, n
    <3>2. IsFree(q)' <=> \E i \in 1 .. n - 1 : free[i] = q
      BY <2>5 DEF IsFree
    <3>3. IsFree(q) <=> \E i \in 1 .. n : free[i] = q
      BY DEF IsFree, n
    <3>4. p = free[n]
      BY DEF p
    <3> QED
      BY <3>1, <3>2, <3>3, <3>4, <2>1
  <2>9. PoolPartition'
    <3>1. numAllocated' = numAllocated
      BY <1>3 DEF AllocateRecycled, Popped, Held
    <3>2. \A q \in Pool : q < numAllocated <=> (q \in Active' \/ IsFree(q)')
      BY <2>4, <2>7, <2>8 DEF PoolInv, PoolPartition
    <3>3. \A q \in Pool : ~(q \in Active' /\ IsFree(q)')
      BY <2>7, <2>8 DEF PoolInv, PoolPartition
    <3>4. \A i, j \in 1 .. Len(free') : free'[i] = free'[j] => i = j
      BY <2>1, <2>5 DEF PoolInv, PoolPartition, n
    <3> QED
      BY <3>1, <3>2, <3>3, <3>4 DEF PoolPartition
  <2>10. FreeMirror' /\ freeCount' \in 0 .. MaxBlocks
    <3>1. freeCount' = n - 1 /\ freeList' = freeList
      BY <1>3 DEF AllocateRecycled, Popped, Held, n
    <3>2. \A i \in 1 .. n : freeList[i - 1] = free[i]
      BY DEF PoolInv, FreeMirror, n
    <3> QED
      BY <2>1, <2>5, <3>1, <3>2 DEF FreeMirror
  <2>11. VacantBlank'
    BY <2>7, <2>8 DEF PoolInv, VacantBlank
  <2>12. Active \subseteq Active' /\ coordToPool'[c] \in Active'
    BY <2>7
  <2>13. /\ capacity' \in 1 .. MaxBlocks /\ numAllocated' \in 0 .. capacity'
         /\ freeList' \in [Pool -> Pool \cup {NONE}]
         /\ failures' \in 0 .. MaxFailures
    BY <1>3 DEF PoolInv, TypeOK, AllocateRecycled, Popped, Held
  <2> QED
    BY <2>5, <2>7, <2>9, <2>10, <2>11, <2>12, <2>13
<1>4. CASE AllocateFresh(c)
  <2> DEFINE p == numAllocated
  <2>1. p \in Pool /\ p \in 0 .. MaxBlocks
    BY <1>4 DEF PoolInv, TypeOK, AllocateFresh, Held, Pool
  <2>2. p \notin Active /\ ~IsFree(p)
    BY <2>1 DEF PoolInv, PoolPartition
  <2>3. /\ coordToPool' \in [Coord -> Pool \cup {NONE}]
        /\ poolToCoord' \in [Pool -> Coord \cup {NONE}]
        /\ hashTable' \in [Slot -> Pool \cup {EMPTY, TOMB}]
        /\ hashSlot' \in [Pool -> Pool \cup Slot \cup {NONE}]
        /\ MapsAgree' /\ Active' = Active \cup {p} /\ coordToPool'[c] = p
    BY <1>4, <2>1, <2>2, BindKeeps DEF AllocateFresh, Held
  <2>4. capacity' \in 1 .. MaxBlocks /\ numAllocated' \in 0 .. capacity'
    <3>1. p + 1 \in 0 .. MaxBlocks
      BY <2>1 DEF Pool
    <3>2. /\ Grow(p + 1) \in 1 .. MaxBlocks /\ p + 1 <= Grow(p + 1)
      BY <3>1, GrowFits DEF PoolInv, TypeOK
    <3> QED
      BY <1>4, <2>1, <3>2 DEF AllocateFresh, Held
  <2>5. free' = free /\ numAllocated' = p + 1
    BY <1>4 DEF AllocateFresh, Held
  <2>6. PoolPartition'
    <3>1. \A q \in Pool : IsFree(q)' <=> IsFree(q)
      BY <2>5 DEF IsFree
    <3>2. \A q \in Pool : q < p + 1 <=> (q < p \/ q = p)
      BY <2>1 DEF Pool
    <3>3. \A q \in Pool : q < p + 1 <=> (q \in Active' \/ IsFree(q)')
      BY <2>3, <3>1, <3>2 DEF PoolInv, PoolPartition
    <3>4. \A q \in Pool : ~(q \in Active' /\ IsFree(q)')
      BY <2>2, <2>3, <3>1 DEF PoolInv, PoolPartition
    <3> QED
      BY <2>5, <3>3, <3>4 DEF PoolInv, PoolPartition
  <2>7. FreeMirror'
    BY <1>4 DEF PoolInv, FreeMirror, AllocateFresh, Held, mirrors
  <2>8. VacantBlank'
    <3>1. \A q \in Pool : IsFree(q)' <=> IsFree(q)
      BY <2>5 DEF IsFree
    <3> QED
      BY <2>2, <2>3, <3>1 DEF PoolInv, VacantBlank
  <2>9. Active \subseteq Active' /\ coordToPool'[c] \in Active'
    BY <2>3
  <2>10. /\ freeCount' \in 0 .. MaxBlocks
         /\ freeList' \in [Pool -> Pool \cup {NONE}]
         /\ failures' \in 0 .. MaxFailures /\ free' \in Seq(Pool)
    BY <1>4 DEF PoolInv, TypeOK, AllocateFresh, Held, mirrors
  <2> QED
    BY <2>3, <2>4, <2>6, <2>7, <2>8, <2>9, <2>10
<1> QED
  BY <1>1, <1>2, <1>3, <1>4 DEF Allocate

LEMMA IntegrateNextPreserves == ASSUME PoolInv, IntegrateNext PROVE PoolInv'
<1> DEFINE c == Lowest(coordsLeft)
<1>1. c \in coordsLeft /\ c \in Coord
  <2>1. coordsLeft \in SUBSET Nat /\ coordsLeft # {}
    BY CoordAssumption DEF PoolInv, TypeOK, IntegrateNext
  <2> QED
    BY <2>1, LowestIsMember DEF PoolInv, TypeOK
<1> HIDE DEF c
<1>2. /\ Allocate(c) /\ op = "integrate"
      /\ UNCHANGED <<weight, static, op, poolsLeft, limit>>
      /\ coordsLeft' = coordsLeft \ {c}
      /\ touched' = touched \cup ({coordToPool'[c]} \ {NONE})
  BY DEF IntegrateNext, c
<1>3. /\ coordToPool' \in [Coord -> Pool \cup {NONE}]
      /\ poolToCoord' \in [Pool -> Coord \cup {NONE}]
      /\ free' \in Seq(Pool)
      /\ capacity' \in 1 .. MaxBlocks
      /\ numAllocated' \in 0 .. capacity'
      /\ freeCount' \in 0 .. MaxBlocks
      /\ freeList' \in [Pool -> Pool \cup {NONE}]
      /\ hashTable' \in [Slot -> Pool \cup {EMPTY, TOMB}]
      /\ hashSlot' \in [Pool -> Pool \cup Slot \cup {NONE}]
      /\ failures' \in 0 .. MaxFailures
      /\ MapsAgree' /\ PoolPartition' /\ FreeMirror' /\ VacantBlank'
      /\ Active \subseteq Active'
      /\ coordToPool'[c] # NONE => coordToPool'[c] \in Active'
  BY <1>1, <1>2, AllocateKeeps
<1>4. LoopTargetsLive'
  BY <1>2, <1>3 DEF PoolInv, LoopTargetsLive
<1>5. touched' \in SUBSET Pool
  BY <1>3, <1>4 DEF LoopTargetsLive, Active
<1>6. TypeOK'
  BY <1>2, <1>3, <1>5 DEF PoolInv, TypeOK
<1> QED
  BY <1>3, <1>4, <1>6 DEF PoolInv

-----------------------------------------------------------------------------
(* Checkpoints                                                             *)

\* An imported checkpoint whose coordinates are distinct fills the slots from
\* zero on and leaves the free stack empty.
LEMMA ImportPreserves == ASSUME PoolInv, ImportAny PROVE PoolInv'
<1>0. PICK n \in ImportSizes :
        \E cs \in [0 .. n - 1 -> Coord], ws \in [0 .. n - 1 -> Level],
           ss \in [0 .. n - 1 -> BOOLEAN] :
          Distinct(n, cs) /\ Import(n, cs, ws, ss)
  BY DEF ImportAny
<1>1. PICK cs \in [0 .. n - 1 -> Coord], ws \in [0 .. n - 1 -> Level],
           ss \in [0 .. n - 1 -> BOOLEAN] :
        Distinct(n, cs) /\ Import(n, cs, ws, ss)
  BY <1>0
<1> USE SizeAssumption
<1>2. n \in 0 .. MaxBlocks /\ 0 .. n - 1 \subseteq Pool
  BY <1>1 DEF Import, Pool
<1>3. coordToPool' = [c \in Coord |->
                        IF \E p \in 0 .. n - 1 : cs[p] = c
                          THEN CHOOSE p \in 0 .. n - 1 : cs[p] = c
                          ELSE -1]
  BY <1>1 DEF Import
<1>4. poolToCoord' = [p \in Pool |-> IF p < n THEN cs[p] ELSE -1]
  BY <1>1 DEF Import
<1>5. /\ free' = <<>> /\ freeCount' = 0 /\ numAllocated' = n
      /\ capacity' = Grow(n) /\ freeList' = freeList /\ failures' = 0
      /\ op = "idle" /\ UNCHANGED call
  BY <1>1 DEF Import
<1>6. \A p \in Pool : p < n <=> p \in 0 .. n - 1
  BY <1>2 DEF Pool
<1>7. \A c \in Coord, p \in 0 .. n - 1 :
        cs[p] = c => coordToPool'[c] = p
  BY <1>1, <1>3 DEF Distinct
<1>8. \A c \in Coord : coordToPool'[c] # -1 =>
        coordToPool'[c] \in 0 .. n - 1 /\ cs[coordToPool'[c]] = c
  BY <1>3
<1>9. MapsAgree'
  <2> SUFFICES ASSUME NEW c \in Coord, NEW p \in Pool
               PROVE  coordToPool'[c] = p <=> poolToCoord'[p] = c
    BY DEF MapsAgree
  <2>1. p # -1 /\ c # -1
    BY CoordAssumption DEF Pool
  <2>2. ASSUME coordToPool'[c] = p PROVE poolToCoord'[p] = c
    BY <2>1, <2>2, <1>4, <1>6, <1>8
  <2>3. ASSUME poolToCoord'[p] = c PROVE coordToPool'[c] = p
    BY <2>1, <2>3, <1>4, <1>6, <1>7
  <2> QED
    BY <2>2, <2>3
<1>10. Active' = {p \in Pool : p < n}
  <2>1. \A p \in 0 .. n - 1 : cs[p] \in Coord /\ cs[p] # -1
    BY CoordAssumption
  <2> QED
    BY <2>1, <1>4, <1>6 DEF Active
<1>11. PoolPartition'
  BY <1>5, <1>10 DEF PoolPartition, IsFree
<1>12. FreeMirror'
  BY <1>5 DEF FreeMirror
<1>13. VacantBlank'
  <2>1. weight' = [p \in Pool |-> IF p < n THEN ws[p] ELSE 0]
    BY <1>1 DEF Import
  <2> QED
    BY <2>1, <1>5, <1>10 DEF VacantBlank, IsFree
<1>14. LoopTargetsLive'
  <2>1. touched = {}
    BY <1>5 DEF PoolInv, LoopTargetsLive
  <2> QED
    BY <2>1, <1>5 DEF call, LoopTargetsLive
<1>15. TypeOK'
  <2>1. coordToPool' \in [Coord -> Pool \cup {NONE}]
    <3>1. \A c \in Coord : coordToPool'[c] \in Pool \cup {-1}
      BY <1>8, <1>2
    <3> QED
      BY <3>1, <1>3
  <2>2. poolToCoord' \in [Pool -> Coord \cup {NONE}]
    BY <1>4, <1>6
  <2>3. Grow(n) \in 1 .. MaxBlocks /\ n <= Grow(n)
    BY <1>2, GrowFits DEF PoolInv, TypeOK
  <2>4. /\ capacity' \in 1 .. MaxBlocks /\ numAllocated' \in 0 .. capacity'
        /\ freeCount' \in 0 .. MaxBlocks
    BY <1>2, <1>5, <2>3
  <2>5. weight' \in [Pool -> Level]
    <3>1. weight' = [p \in Pool |-> IF p < n THEN ws[p] ELSE 0]
      BY <1>1 DEF Import
    <3>2. 0 \in Level
      BY DEF Level
    <3> QED
      BY <3>1, <3>2, <1>6
  <2>6. static' \in [Pool -> BOOLEAN]
    <3>1. static' = [p \in Pool |-> IF p < n THEN ss[p] ELSE static[p]]
      BY <1>1 DEF Import
    <3>2. \A p \in Pool : p < n => ss[p] \in BOOLEAN
      BY <1>6
    <3>3. \A p \in Pool : static[p] \in BOOLEAN
      BY DEF PoolInv, TypeOK
    <3> QED
      BY <3>1, <3>2, <3>3, Zenon
  <2>7. hashTable' \in [Slot -> Pool \cup {EMPTY, TOMB}]
    <3> DEFINE filled(s) == \E p \in 0 .. n - 1 : Home[cs[p]] = s
               first(p) == \A q \in 0 .. p - 1 : Home[cs[q]] # Home[cs[p]]
               owner(s) == CHOOSE p \in 0 .. n - 1 : Home[cs[p]] = s /\ first(p)
    <3>1. hashTable' = [s \in Slot |-> IF filled(s) THEN owner(s) ELSE -1]
      BY <1>1 DEF Import
    <3>2. ASSUME NEW s \in Slot, filled(s) PROVE owner(s) \in Pool
      <4> DEFINE S == {p \in 0 .. n - 1 : Home[cs[p]] = s}
      <4>1. S \in SUBSET Nat /\ S # {}
        BY <3>2
      <4>2. Lowest(S) \in S /\ \A y \in S : Lowest(S) <= y
        BY <4>1, LowestIsMember
      <4> DEFINE m == Lowest(S)
      <4> HIDE DEF m
      <4>3. m \in 0 .. n - 1 /\ Home[cs[m]] = s
        BY <4>2 DEF m
      <4>4. ASSUME NEW q \in 0 .. m - 1 PROVE Home[cs[q]] # s
        <5>1. q \in 0 .. n - 1 /\ ~ (m <= q)
          BY <4>3, <1>2
        <5> QED
          BY <5>1, <4>2 DEF m
      <4>5. \E p \in 0 .. n - 1 : Home[cs[p]] = s /\ first(p)
        BY <4>3, <4>4
      <4> QED
        BY <4>5, <1>2
    <3> HIDE DEF filled, owner
    <3> QED
      BY <3>1, <3>2
  <2>8. hashSlot' \in [Pool -> Pool \cup Slot \cup {NONE}]
    <3> DEFINE first(p) == \A q \in 0 .. p - 1 : Home[cs[q]] # Home[cs[p]]
    <3>1. hashSlot' = [p \in Pool |->
                         IF p < n /\ first(p) THEN Home[cs[p]] ELSE -1]
      BY <1>1 DEF Import
    <3>2. \A p \in 0 .. n - 1 : Home[cs[p]] \in Slot
      BY HomeAssumption
    <3> HIDE DEF first
    <3> QED
      BY <3>1, <3>2, <1>6
  <2>9. free' \in Seq(Pool) /\ failures' \in 0 .. MaxFailures
    BY <1>5
  <2> QED
    BY <2>1, <2>2, <2>4, <2>5, <2>6, <2>7, <2>8, <2>9, <1>5
       DEF PoolInv, TypeOK, call
<1> QED
  BY <1>9, <1>11, <1>12, <1>13, <1>14, <1>15 DEF PoolInv

LEMMA StutterPreserves == ASSUME PoolInv, UNCHANGED vars PROVE PoolInv'
<1>1. TypeOK'
  BY DEF PoolInv, TypeOK, vars
<1> QED
  BY <1>1 DEF PoolInv, vars, MapsAgree, PoolPartition, FreeMirror, VacantBlank,
              LoopTargetsLive, IsFree, Active

-----------------------------------------------------------------------------
(* The theorems                                                            *)

\* Every step of every call preserves the invariant.
THEOREM NextPreserves == ASSUME PoolInv, [Next]_vars PROVE PoolInv'
<1>1. ASSUME RegionAny PROVE PoolInv'
  <2>1. PICK lo, hi \in Coord :
          ClearRegion({c \in Coord : lo <= c /\ c <= hi})
    BY <1>1 DEF RegionAny
  <2> DEFINE live == {p \in Active :
                        poolToCoord[p] \in {c \in Coord : lo <= c /\ c <= hi}}
  <2>2. live \in SUBSET Pool /\ ClearBlocks(live)
    BY <2>1 DEF ClearRegion, Active
  <2> HIDE DEF live
  <2> QED
    BY <2>2, ClearStartPreserves
<1>2. ASSUME ClearAny PROVE PoolInv'
  BY <1>2, ClearStartPreserves DEF ClearAny
<1>3. ASSUME IntegrateAny PROVE PoolInv'
  BY <1>3, IntegratePreserves, SizeAssumption DEF IntegrateAny
<1> QED
  BY <1>1, <1>2, <1>3, IntegrateNextPreserves, FusePreserves,
     OverflowPreserves, DecayPreserves, RecycleNextPreserves,
     ClearNextPreserves, ReleaseDonePreserves, ResetPreserves,
     ImportPreserves, StutterPreserves DEF Next

\* The block pool never reaches a state outside its inductive invariant.
THEOREM PoolInvariant == Spec => []PoolInv
<1>1. Init => PoolInv
  BY InitPoolInv
<1>2. PoolInv /\ [Next]_vars => PoolInv'
  BY NextPreserves
<1> QED
  BY <1>1, <1>2, PTL DEF Spec

\* Every field keeps its type, so the tensors are never indexed past their
\* grown capacity.
THEOREM TypeCorrect == Spec => []TypeOK
BY PoolInvariant, PTL DEF PoolInv

\* The two dictionaries stay inverse to each other.
THEOREM MapsStayInverse == Spec => []MapsAgree
BY PoolInvariant, PTL DEF PoolInv

\* No slot is leaked and none is handed out twice.
THEOREM SlotsPartitioned == Spec => []PoolPartition
BY PoolInvariant, PTL DEF PoolInv

\* The public copies of the free stack repeat it.
THEOREM FreeListMirrored == Spec => []FreeMirror
BY PoolInvariant, PTL DEF PoolInv

\* A slot that is handed out again carries nothing of the block before.
THEOREM NoGhosts == Spec => []VacantBlank
BY PoolInvariant, PTL DEF PoolInv

\* The lists that the integration and recycling loops run over stay valid.
THEOREM LoopTargetsStayLive == Spec => []LoopTargetsLive
BY PoolInvariant, PTL DEF PoolInv

\* A step that finds a coordinate in the map and leaves it there leaves it in
\* its slot.
LEMMA StableStep ==
    ASSUME PoolInv, [Next]_vars, NEW c \in Coord,
           coordToPool[c] # NONE, coordToPool'[c] # NONE
    PROVE  coordToPool'[c] = coordToPool[c]
<1> USE CoordAssumption
<1>0. coordToPool \in [Coord -> Pool \cup {-1}]
  BY DEF PoolInv, TypeOK
<1>1. CASE UNCHANGED coordToPool
  BY <1>1
<1>2. ASSUME IntegrateNext PROVE coordToPool'[c] = coordToPool[c]
  <2>1. PICK d \in {Lowest(coordsLeft)} : Allocate(d)
    BY <1>2 DEF IntegrateNext
  <2>2. CASE AllocateExisting(d) \/ AllocateRefused(d)
    BY <2>2 DEF AllocateExisting, AllocateRefused, Held, maps
  <2>3. CASE AllocateRecycled(d) \/ AllocateFresh(d)
    <3>1. PICK p : Bind(d, p) /\ coordToPool[d] = NONE
      BY <2>3 DEF AllocateRecycled, Popped, AllocateFresh, Held
    <3>2. d # c /\ coordToPool' = [coordToPool EXCEPT ![d] = p]
      BY <3>1 DEF Bind
    <3> QED
      BY <3>2, <1>0
  <2> QED
    BY <2>1, <2>2, <2>3 DEF Allocate
<1>3. ASSUME NEW p, Release(p) PROVE coordToPool'[c] = coordToPool[c]
  <2>1. coordToPool' = [coordToPool EXCEPT ![poolToCoord[p]] = -1]
    BY <1>3 DEF Release, Unbind, Wipe, Mark, Unhash
  <2> QED
    BY <2>1, <1>0
<1>4. ASSUME ClearNext PROVE coordToPool'[c] = coordToPool[c]
  <2>1. UNCHANGED coordToPool \/ \E p : Release(p)
    BY <1>4 DEF ClearNext, Pass, maps
  <2> QED
    BY <2>1, <1>3
<1>5. ~ Reset
  BY DEF Reset, ResetMaps
<1>6. ~ ImportAny
  <2>1. coordToPool[c] \in Pool
    BY <1>0
  <2>2. coordToPool[c] \in Active
    BY <2>1 DEF PoolInv, MapsAgree, Active
  <2> QED
    BY <2>2 DEF ImportAny, Import
<1>7. ASSUME IntegrateAny \/ FuseAny \/ VisibleOverflow \/ DecayAny
             \/ ClearAny \/ RegionAny \/ ReleaseDone \/ UNCHANGED vars
      PROVE  UNCHANGED coordToPool
  BY <1>7 DEF IntegrateAny, Integrate, FuseAny, Fuse, VisibleOverflow,
              DecayAny, DecayAndRecycle, Expired, ClearAny, RegionAny, ClearRegion,
              ClearBlocks, ReleaseDone, FreeCopy, vars, maps
<1> QED
  BY <1>1, <1>2, <1>3, <1>4, <1>5, <1>6, <1>7 DEF Next, RecycleNext

\* Pool indices handed out for a coordinate stay good while it is in the map.
THEOREM HandlesAreStable == Spec => StableHandles
<1>1. PoolInv /\ [Next]_vars =>
        [\A c \in Coord : coordToPool[c] # NONE /\ coordToPool'[c] # NONE
           => coordToPool'[c] = coordToPool[c]]_vars
  BY StableStep
<1> QED
  BY <1>1, PoolInvariant, PTL DEF Spec, StableHandles

\* The slots on the free stack are as many as the stack is long.
LEMMA FreeCount ==
    ASSUME PoolInv
    PROVE  /\ IsFiniteSet({p \in Pool : IsFree(p)})
           /\ Cardinality({p \in Pool : IsFree(p)}) = Len(free)
<1> DEFINE S == {p \in Pool : IsFree(p)}
<1>1. free \in [1 .. Len(free) -> Pool] /\ Len(free) \in Nat
  BY DEF PoolInv, TypeOK
<1>2. \A i \in 1 .. Len(free) : free[i] \in S
  BY <1>1 DEF IsFree
<1>3. free \in Bijection(1 .. Len(free), S)
  <2>1. free \in [1 .. Len(free) -> S]
    BY <1>1, <1>2
  <2>2. \A i, j \in 1 .. Len(free) : free[i] = free[j] => i = j
    BY DEF PoolInv, PoolPartition
  <2>3. \A p \in S : \E i \in 1 .. Len(free) : free[i] = p
    BY DEF IsFree
  <2> QED
    BY <2>1, <2>2, <2>3 DEF Bijection, Injection, Surjection, IsInjective
<1>4. /\ IsFiniteSet(1 .. Len(free))
      /\ Cardinality(1 .. Len(free)) = Len(free)
  <2>1. /\ IsFiniteSet(1 .. Len(free))
        /\ Cardinality(1 .. Len(free)) =
             IF 1 > Len(free) THEN 0 ELSE Len(free) - 1 + 1
    BY <1>1, FS_Interval
  <2> QED
    BY <2>1, <1>1
<1>5. ExistsBijection(1 .. Len(free), S)
  BY <1>3 DEF ExistsBijection
<1> QED
  BY <1>4, <1>5, FS_Bijection

\* get_stats reports the number of live blocks.
THEOREM StatsAreRight == Spec => []StatsCountLive
<1>1. ASSUME PoolInv PROVE StatsCountLive
  <2> SUFFICES ASSUME op \notin {"recycle", "clear"}
               PROVE  numAllocated - freeCount = Cardinality(Active)
    BY DEF StatsCountLive
  <2> DEFINE F == {p \in Pool : IsFree(p)}
  <2>1. numAllocated \in 0 .. MaxBlocks /\ freeCount = Len(free)
    BY <1>1, SizeAssumption DEF PoolInv, TypeOK, FreeMirror
  <2>2. Active \cup F = 0 .. numAllocated - 1 /\ Active \cap F = {}
    <3>1. \A p \in Pool : p < numAllocated <=> (p \in Active \/ p \in F)
      BY <1>1 DEF PoolInv, PoolPartition
    <3>2. Active \cap F = {}
      BY <1>1 DEF PoolInv, PoolPartition
    <3>3. Active \cup F \subseteq Pool
      BY DEF Active
    <3>4. \A p : p \in 0 .. numAllocated - 1 <=> p \in Pool /\ p < numAllocated
      BY <2>1, SizeAssumption DEF Pool
    <3> HIDE DEF F
    <3> QED
      BY <3>1, <3>2, <3>3, <3>4
  <2>3. IsFiniteSet(F) /\ Cardinality(F) = Len(free)
    BY <1>1, FreeCount
  <2>4. IsFiniteSet(Pool)
    BY SizeAssumption, FS_Interval DEF Pool
  <2>5. IsFiniteSet(Active)
    BY <2>4, FS_Subset DEF Active
  <2>8. Cardinality(Active) \in Nat /\ Cardinality(F) \in Nat
    BY <2>3, <2>5, FS_CardinalityType
  <2> HIDE DEF F
  <2>6. Cardinality(Active \cup F) = Cardinality(Active) + Cardinality(F)
    <3>1. Cardinality(Active \cup F) =
            Cardinality(Active) + Cardinality(F) - Cardinality(Active \cap F)
      BY <2>3, <2>5, FS_Union
    <3>2. Cardinality(Active \cap F) = 0
      BY <2>2, FS_EmptySet
    <3> QED
      BY <2>8, <3>1, <3>2
  <2>7. Cardinality(0 .. numAllocated - 1) = numAllocated
    <3>1. Cardinality(0 .. numAllocated - 1) =
            IF 0 > numAllocated - 1 THEN 0 ELSE numAllocated - 1 - 0 + 1
      BY <2>1, FS_Interval
    <3> QED
      BY <2>1, <3>1
  <2> QED
    <3>1. numAllocated = Cardinality(Active) + Cardinality(F)
      BY <2>2, <2>6, <2>7
    <3>2. freeCount = Cardinality(F)
      BY <2>1, <2>3
    <3> QED
      BY <2>1, <2>8, <3>1, <3>2
<1> QED
  BY <1>1, PoolInvariant, PTL

-----------------------------------------------------------------------------
(* The hash table, when it has an entry for every pool slot                *)

TableFits == MaxBlocks <= HashCapacity

\* Probing from any home slot reaches every entry of the table.
LEMMA ProbeCovers ==
    ASSUME NEW c \in Coord, NEW s \in Slot
    PROVE  \E k \in Slot : Probe(c, k) = s
<1>1. Home[c] \in 0 .. HashCapacity - 1 /\ HashCapacity \in Nat \ {0}
  BY SizeAssumption, HomeAssumption DEF Slot
<1>2. CASE Home[c] <= s
  <2>1. s - Home[c] \in Slot /\ Home[c] + (s - Home[c]) = s
    BY <1>1, <1>2 DEF Slot
  <2>2. s % HashCapacity = s
    BY <1>1 DEF Slot
  <2> QED
    BY <2>1, <2>2 DEF Probe
<1>3. CASE s < Home[c]
  <2> DEFINE k == s - Home[c] + HashCapacity
  <2>1. k \in Slot /\ Home[c] + k = s + HashCapacity
    BY <1>1, <1>3 DEF Slot
  <2>2. (s + HashCapacity) % HashCapacity = s
    BY <1>1 DEF Slot
  <2> QED
    BY <2>1, <2>2 DEF Probe
<1> QED
  BY <1>1, <1>2, <1>3 DEF Slot

\* While a pool slot is vacant the table has an open entry: its entries name
\* different live blocks, and there are fewer of those.
LEMMA OpenEntry ==
    ASSUME TypeOK, HashMirror, TableFits, NEW p \in Pool, p \notin Active
    PROVE  \E s \in Slot : hashTable[s] < 0
<1> SUFFICES ASSUME \A s \in Slot : ~ (hashTable[s] < 0) PROVE FALSE
  OBVIOUS
<1>1. \A s \in Slot : hashTable[s] \in Pool /\ hashTable[s] >= 0
  BY DEF TypeOK, Pool
<1>2. hashTable \in [Slot -> Pool \ {p}]
  <2>1. \A s \in Slot : hashTable[s] \in Active
    BY <1>1 DEF HashMirror
  <2> QED
    BY <1>1, <2>1 DEF TypeOK
<1>3. /\ IsFiniteSet(Slot) /\ Cardinality(Slot) = HashCapacity
      /\ IsFiniteSet(Pool) /\ Cardinality(Pool) = MaxBlocks
  <2>1. IsFiniteSet(Slot) /\ Cardinality(Slot) = HashCapacity
    BY SizeAssumption, FS_Interval DEF Slot
  <2>2. IsFiniteSet(Pool) /\ Cardinality(Pool) = MaxBlocks
    BY SizeAssumption, FS_Interval DEF Pool
  <2> QED
    BY <2>1, <2>2
<1>4. IsFiniteSet(Pool \ {p}) /\ Cardinality(Pool \ {p}) = MaxBlocks - 1
  BY <1>3, FS_RemoveElement
<1>5. Cardinality(Pool \ {p}) < Cardinality(Slot)
  BY <1>3, <1>4, SizeAssumption DEF TableFits
<1>6. PICK s, t \in Slot : s # t /\ hashTable[s] = hashTable[t]
  BY <1>2, <1>3, <1>4, <1>5, FS_PigeonHole
<1>7. hashSlot[hashTable[s]] = s /\ hashSlot[hashTable[t]] = t
  BY <1>1 DEF HashMirror
<1> QED
  BY <1>6, <1>7

LEMMA BindMirrors ==
    ASSUME PoolInv, HashMirror, TableFits, NEW c \in Coord, NEW p \in Pool,
           coordToPool[c] = NONE, p \notin Active, Bind(c, p)
    PROVE  HashMirror'
<1> DEFINE open == {k \in Slot : hashTable[Probe(c, k)] < 0}
           s == Probe(c, Lowest(open))
<1>1. open # {}
  BY OpenEntry, ProbeCovers DEF PoolInv
<1>2. s \in Slot /\ hashTable[s] < 0
  <2>1. open \in SUBSET Nat
    BY DEF Slot
  <2>2. Lowest(open) \in open
    BY <2>1, <1>1, LowestIsMember
  <2> QED
    BY <2>2, ProbeInTable
<1>3. /\ hashTable' = [hashTable EXCEPT ![s] = p]
      /\ hashSlot' = [hashSlot EXCEPT ![p] = s]
  BY <1>1 DEF Bind, InsertHash
<1> HIDE DEF open, s
<1>4. Active' = Active \cup {p}
  BY BindKeeps
<1>5. hashSlot[p] = -1 /\ p >= 0 /\ s # -1
  BY <1>2 DEF HashMirror, Pool, Slot
<1>6. /\ \A t \in Slot : hashTable'[t] = IF t = s THEN p ELSE hashTable[t]
      /\ \A q \in Pool : hashSlot'[q] = IF q = p THEN s ELSE hashSlot[q]
  BY <1>3 DEF PoolInv, TypeOK
<1>7. ASSUME NEW t \in Slot, hashTable'[t] >= 0
      PROVE  hashTable'[t] \in Active' /\ hashSlot'[hashTable'[t]] = t
  <2>1. CASE t = s
    BY <2>1, <1>4, <1>6
  <2>2. CASE t # s
    <3>1. hashTable'[t] = hashTable[t]
      BY <2>2, <1>6
    <3>2. hashTable[t] \in Active /\ hashSlot[hashTable[t]] = t
      BY <1>7, <3>1 DEF HashMirror
    <3>3. hashTable[t] # p /\ hashTable[t] \in Pool
      BY <3>2 DEF Active
    <3> QED
      BY <3>1, <3>2, <3>3, <1>4, <1>6
  <2> QED
    BY <2>1, <2>2
<1>8. ASSUME NEW q \in Pool, hashSlot'[q] # -1
      PROVE  q \in Active' /\ hashSlot'[q] \in Slot /\ hashTable'[hashSlot'[q]] = q
  <2>1. CASE q = p
    BY <2>1, <1>2, <1>4, <1>6
  <2>2. CASE q # p
    <3>1. hashSlot'[q] = hashSlot[q]
      BY <2>2, <1>6
    <3>2. q \in Active /\ hashSlot[q] \in Slot /\ hashTable[hashSlot[q]] = q
      BY <1>8, <3>1 DEF HashMirror
    <3>3. hashSlot[q] # s
      BY <3>2, <1>2 DEF Pool
    <3> QED
      BY <3>1, <3>2, <3>3, <1>4, <1>6
  <2> QED
    BY <2>1, <2>2
<1> QED
  BY <1>7, <1>8 DEF HashMirror

LEMMA ReleaseMirrors ==
    ASSUME PoolInv, HashMirror, NEW p \in Active, Release(p)
    PROVE  HashMirror'
<1>1. p \in Pool /\ -1 \notin Slot /\ p >= 0
  BY DEF Active, Slot, Pool
<1>2. Active' = Active \ {p}
  BY <1>1 DEF Release, Unbind, Wipe, Mark, Unhash, Active, PoolInv, TypeOK
<1>3. \A q \in Pool : hashSlot'[q] = IF q = p THEN -1 ELSE hashSlot[q]
  BY DEF PoolInv, TypeOK, Release, Unbind, Wipe, Mark, Unhash
<1>4. \A t \in Slot : hashTable'[t] = IF t = hashSlot[p] THEN -2 ELSE hashTable[t]
  BY DEF PoolInv, TypeOK, Release, Unbind, Wipe, Mark, Unhash
<1>5. ASSUME NEW t \in Slot, hashTable'[t] >= 0
      PROVE  hashTable'[t] \in Active' /\ hashSlot'[hashTable'[t]] = t
  <2>1. t # hashSlot[p] /\ hashTable'[t] = hashTable[t]
    BY <1>4, <1>5
  <2>2. hashTable[t] \in Active /\ hashSlot[hashTable[t]] = t
    BY <1>5, <2>1 DEF HashMirror
  <2>3. hashTable[t] # p /\ hashTable[t] \in Pool
    BY <2>1, <2>2 DEF Active
  <2> QED
    BY <2>1, <2>2, <2>3, <1>2, <1>3
<1>6. ASSUME NEW q \in Pool, hashSlot'[q] # -1
      PROVE  q \in Active' /\ hashSlot'[q] \in Slot /\ hashTable'[hashSlot'[q]] = q
  <2>1. q # p /\ hashSlot'[q] = hashSlot[q]
    BY <1>3, <1>6
  <2>2. q \in Active /\ hashSlot[q] \in Slot /\ hashTable[hashSlot[q]] = q
    BY <1>6, <2>1 DEF HashMirror
  <2>3. hashSlot[q] # hashSlot[p]
    <3>1. hashSlot[p] = -1 \/ hashTable[hashSlot[p]] = p
      BY <1>1 DEF HashMirror
    <3> QED
      BY <3>1, <2>1, <2>2, <1>1
  <2> QED
    BY <2>1, <2>2, <2>3, <1>2, <1>4
<1> QED
  BY <1>5, <1>6 DEF HashMirror

LEMMA ImportMirrors == ASSUME PoolInv, ImportAny PROVE HashMirror'
<1>0. PICK n \in ImportSizes :
        \E cs \in [0 .. n - 1 -> Coord], ws \in [0 .. n - 1 -> Level],
           ss \in [0 .. n - 1 -> BOOLEAN] :
          Distinct(n, cs) /\ Import(n, cs, ws, ss)
  BY DEF ImportAny
<1>1. PICK cs \in [0 .. n - 1 -> Coord], ws \in [0 .. n - 1 -> Level],
           ss \in [0 .. n - 1 -> BOOLEAN] :
        Distinct(n, cs) /\ Import(n, cs, ws, ss)
  BY <1>0
<1> DEFINE first(p) == \A q \in 0 .. p - 1 : Home[cs[q]] # Home[cs[p]]
           owner(s) == CHOOSE p \in 0 .. n - 1 : Home[cs[p]] = s /\ first(p)
<1>2. n \in Nat /\ 0 .. n - 1 \subseteq Pool
  BY <1>1, SizeAssumption DEF Import, Pool
<1>3. /\ \A s \in Slot : hashTable'[s] =
             IF \E p \in 0 .. n - 1 : Home[cs[p]] = s THEN owner(s) ELSE -1
      /\ \A p \in Pool : hashSlot'[p] =
             IF p < n /\ first(p) THEN Home[cs[p]] ELSE -1
      /\ \A p \in Pool : poolToCoord'[p] = IF p < n THEN cs[p] ELSE -1
  BY <1>1 DEF Import
<1>4. \A p \in 0 .. n - 1 : cs[p] \in Coord /\ cs[p] # -1 /\ Home[cs[p]] \in Slot
  <2>1. \A c \in Coord : c # -1
    BY CoordAssumption
  <2>2. \A c \in Coord : Home[c] \in Slot
    BY HomeAssumption
  <2> QED
    BY <2>1, <2>2
<1>5. \A p \in 0 .. n - 1 : p \in Active'
  BY <1>2, <1>3, <1>4 DEF Active
<1>6. \A p, q \in 0 .. n - 1 :
        first(p) /\ first(q) /\ Home[cs[p]] = Home[cs[q]] => p = q
  <2> SUFFICES ASSUME NEW p \in 0 .. n - 1, NEW q \in 0 .. n - 1, first(p),
                      first(q), Home[cs[p]] = Home[cs[q]]
               PROVE  p = q
    OBVIOUS
  <2>1. ~ (p < q)
    BY <1>2
  <2>2. ~ (q < p)
    BY <1>2
  <2> QED
    BY <2>1, <2>2, <1>2
<1>7. ASSUME NEW s \in Slot, NEW r \in 0 .. n - 1, Home[cs[r]] = s
      PROVE  owner(s) \in 0 .. n - 1 /\ Home[cs[owner(s)]] = s /\ first(owner(s))
  <2> DEFINE S == {p \in 0 .. n - 1 : Home[cs[p]] = s}
             m == Lowest(S)
  <2>1. S \in SUBSET Nat /\ S # {}
    BY <1>7
  <2>2. m \in S /\ \A y \in S : m <= y
    BY <2>1, LowestIsMember
  <2> HIDE DEF m
  <2>3. m \in 0 .. n - 1 /\ Home[cs[m]] = s
    BY <2>2
  <2>4. ASSUME NEW q \in 0 .. m - 1 PROVE Home[cs[q]] # s
    <3>1. q \in 0 .. n - 1 /\ ~ (m <= q)
      BY <2>3, <1>2
    <3> QED
      BY <3>1, <2>2
  <2>5. \E p \in 0 .. n - 1 : Home[cs[p]] = s /\ first(p)
    BY <2>3, <2>4
  <2> QED
    BY <2>5
<1> HIDE DEF owner
<1>8. ASSUME NEW s \in Slot, hashTable'[s] >= 0
      PROVE  hashTable'[s] \in Active' /\ hashSlot'[hashTable'[s]] = s
  <2>1. PICK r \in 0 .. n - 1 : Home[cs[r]] = s
    BY <1>3, <1>8
  <2>2. hashTable'[s] = owner(s)
    BY <1>3, <2>1
  <2>3. owner(s) \in 0 .. n - 1 /\ Home[cs[owner(s)]] = s /\ first(owner(s))
    BY <1>7, <2>1
  <2> QED
    BY <2>2, <2>3, <1>2, <1>3, <1>5
<1>9. ASSUME NEW p \in Pool, hashSlot'[p] # -1
      PROVE  p \in Active' /\ hashSlot'[p] \in Slot /\ hashTable'[hashSlot'[p]] = p
  <2>1. p < n /\ first(p) /\ hashSlot'[p] = Home[cs[p]]
    BY <1>3, <1>9
  <2>2. p \in 0 .. n - 1
    BY <2>1, <1>2 DEF Pool
  <2> DEFINE s == Home[cs[p]]
  <2>3. s \in Slot
    BY <2>2, <1>4
  <2>4. hashTable'[s] = owner(s)
    BY <2>2, <2>3, <1>3
  <2>5. owner(s) \in 0 .. n - 1 /\ Home[cs[owner(s)]] = s /\ first(owner(s))
    BY <2>2, <2>3, <1>7
  <2>6. owner(s) = p
    BY <2>1, <2>2, <2>5, <1>6
  <2> QED
    BY <2>1, <2>2, <2>3, <2>4, <2>6, <1>5
<1> QED
  BY <1>8, <1>9 DEF HashMirror

LEMMA AllocateMirrors ==
    ASSUME PoolInv, HashMirror, TableFits, NEW c \in Coord, Allocate(c)
    PROVE  HashMirror'
<1>1. CASE AllocateExisting(c) \/ AllocateRefused(c)
  BY <1>1 DEF AllocateExisting, AllocateRefused, HashMirror, Active, maps, hash
<1>2. CASE AllocateRecycled(c)
  <2>1. Len(free) \in 1 .. Len(free) /\ free[Len(free)] \in Pool
    BY <1>2, EmptySeq, ElementOfSeq, LenProperties
       DEF AllocateRecycled, PoolInv, TypeOK
  <2>2. free[Len(free)] \notin Active
    BY <2>1 DEF PoolInv, PoolPartition, IsFree
  <2> QED
    BY <1>2, <2>1, <2>2, BindMirrors DEF AllocateRecycled, Held
<1>3. CASE AllocateFresh(c)
  <2>1. numAllocated \in Pool
    BY <1>3, SizeAssumption DEF AllocateFresh, PoolInv, TypeOK, Pool
  <2>2. numAllocated \notin Active
    BY <2>1 DEF PoolInv, PoolPartition, Pool
  <2> QED
    BY <1>3, <2>1, <2>2, BindMirrors DEF AllocateFresh, Held
<1> QED
  BY <1>1, <1>2, <1>3 DEF Allocate

LEMMA MirrorStep ==
    ASSUME PoolInv, HashMirror, TableFits, [Next]_vars
    PROVE  HashMirror'
<1>1. ASSUME UNCHANGED <<maps, hash>> PROVE HashMirror'
  BY <1>1 DEF HashMirror, Active, maps, hash
<1>2. ASSUME IntegrateNext PROVE HashMirror'
  <2>1. Lowest(coordsLeft) \in Coord
    BY <1>2, LowestIsMember, CoordAssumption DEF PoolInv, TypeOK, IntegrateNext
  <2> QED
    BY <1>2, <2>1, AllocateMirrors DEF IntegrateNext
<1>3. ASSUME RecycleNext PROVE HashMirror'
  <2>1. Lowest(poolsLeft) \in poolsLeft
    BY <1>3, LowestIsMember DEF PoolInv, TypeOK, RecycleNext, Pool
  <2>2. Lowest(poolsLeft) \in Active
    BY <1>3, <2>1 DEF PoolInv, LoopTargetsLive, RecycleNext
  <2> QED
    BY <1>3, <2>2, ReleaseMirrors DEF RecycleNext
<1>4. ASSUME ClearNext PROVE HashMirror'
  <2>1. UNCHANGED <<maps, hash>> \/ \E p \in Active : Release(p)
    BY <1>4 DEF ClearNext, Pass
  <2> QED
    BY <2>1, <1>1, ReleaseMirrors
<1>5. ASSUME Reset PROVE HashMirror'
  BY <1>5 DEF Reset, ResetMaps, HashMirror
<1>6. ASSUME IntegrateAny \/ FuseAny \/ VisibleOverflow \/ DecayAny
             \/ ClearAny \/ RegionAny \/ ReleaseDone \/ UNCHANGED vars
      PROVE  UNCHANGED <<maps, hash>>
  BY <1>6 DEF IntegrateAny, Integrate, FuseAny, Fuse, VisibleOverflow,
              DecayAny, DecayAndRecycle, Expired, ClearAny, RegionAny, ClearRegion,
              ClearBlocks, ReleaseDone, FreeCopy, vars, maps, hash
<1> QED
  BY <1>1, <1>2, <1>3, <1>4, <1>5, <1>6, ImportMirrors DEF Next

\* In a table with an entry for every pool slot, the hash entries and the hash
\* slots of the blocks name each other.
THEOREM HashTableMirrors == ASSUME TableFits PROVE Spec => []HashMirror
<1>1. Init => HashMirror
  BY DEF Init, HashMirror
<1>2. PoolInv /\ HashMirror /\ [Next]_vars => HashMirror'
  BY MirrorStep
<1> QED
  BY <1>1, <1>2, PoolInvariant, PTL DEF Spec

-----------------------------------------------------------------------------
(* What tombstones are for                                                 *)

PathTo(p) ==
    \E k \in Slot :
        /\ Probe(poolToCoord[p], k) = hashSlot[p]
        /\ \A j \in 0 .. k - 1 : hashTable[Probe(poolToCoord[p], j)] # EMPTY

\* The path to a block stays good while no entry on it turns EMPTY.
LEMMA PathKept ==
    ASSUME PoolInv, NEW p \in Active, PathTo(p),
           poolToCoord'[p] = poolToCoord[p], hashSlot'[p] = hashSlot[p],
           \A s \in Slot : hashTable[s] # EMPTY => hashTable'[s] # EMPTY
    PROVE  PathTo(p)'
<1>1. poolToCoord[p] \in Coord
  BY DEF PoolInv, TypeOK, Active
<1>2. PICK k \in Slot :
        /\ Probe(poolToCoord[p], k) = hashSlot[p]
        /\ \A j \in 0 .. k - 1 : hashTable[Probe(poolToCoord[p], j)] # EMPTY
  BY DEF PathTo
<1>3. Probe(poolToCoord'[p], k) = hashSlot'[p]
  BY <1>2
<1>4. ASSUME NEW j \in 0 .. k - 1
      PROVE  hashTable'[Probe(poolToCoord'[p], j)] # EMPTY
  <2>1. j \in Slot
    BY SizeAssumption DEF Slot
  <2>2. Probe(poolToCoord[p], j) \in Slot
    BY <1>1, <2>1, ProbeInTable
  <2> QED
    BY <1>2, <2>2
<1> QED
  BY <1>3, <1>4 DEF PathTo, Probe

\* A block is inserted at the first open entry of its own path.
LEMMA BindReaches ==
    ASSUME PoolInv, HashMirror, TableFits, ProbeReachable,
           NEW c \in Coord, NEW p \in Pool,
           coordToPool[c] = NONE, p \notin Active, Bind(c, p)
    PROVE  ProbeReachable'
<1> DEFINE open == {k \in Slot : hashTable[Probe(c, k)] < 0}
           k0 == Lowest(open)
           s == Probe(c, k0)
<1>1. open # {} /\ open \in SUBSET Nat
  BY OpenEntry, ProbeCovers DEF PoolInv, Slot
<1>2. k0 \in open /\ \A k \in open : k0 <= k
  BY <1>1, LowestIsMember
<1>3. k0 \in Slot /\ s \in Slot
  BY <1>2, ProbeInTable
<1>4. \A j \in 0 .. k0 - 1 : j \in Slot /\ j \notin open
  BY <1>2, <1>3, SizeAssumption DEF Slot
<1>5. \A j \in 0 .. k0 - 1 : hashTable[Probe(c, j)] # EMPTY
  <2> SUFFICES ASSUME NEW j \in 0 .. k0 - 1, hashTable[Probe(c, j)] = EMPTY
               PROVE  FALSE
    OBVIOUS
  <2>1. j \in open
    BY <1>4
  <2> QED
    BY <1>4, <2>1
<1>6. /\ hashTable' = [hashTable EXCEPT ![s] = p]
      /\ hashSlot' = [hashSlot EXCEPT ![p] = s]
      /\ poolToCoord' = [poolToCoord EXCEPT ![p] = c]
  BY <1>1 DEF Bind, InsertHash
<1> HIDE DEF open, k0
<1>7. /\ \A t \in Slot : hashTable'[t] = IF t = s THEN p ELSE hashTable[t]
      /\ \A q \in Pool : hashSlot'[q] = IF q = p THEN s ELSE hashSlot[q]
      /\ \A q \in Pool : poolToCoord'[q] = IF q = p THEN c ELSE poolToCoord[q]
  <2> HIDE DEF s
  <2> QED
    BY <1>6 DEF PoolInv, TypeOK
<1>8. \A t \in Slot : hashTable[t] # EMPTY => hashTable'[t] # EMPTY
  BY <1>7 DEF Pool
<1>9. ASSUME NEW q \in Active', hashSlot'[q] # NONE PROVE PathTo(q)'
  <2>1. CASE q = p
    <3>1. Probe(poolToCoord'[q], k0) = hashSlot'[q]
      BY <1>7, <2>1
    <3>2. ASSUME NEW j \in 0 .. k0 - 1
          PROVE  hashTable'[Probe(poolToCoord'[q], j)] # EMPTY
      <4>1. Probe(c, j) \in Slot /\ hashTable[Probe(c, j)] # EMPTY
        BY <1>4, <1>5, ProbeInTable
      <4> QED
        BY <1>7, <1>8, <2>1, <4>1
    <3> QED
      BY <1>3, <3>1, <3>2 DEF PathTo, Probe
  <2>2. CASE q # p
    <3>1. Active' = Active \cup {p}
      BY BindKeeps
    <3>2. q \in Active /\ q \in Pool
      BY <2>2, <3>1 DEF Active
    <3>3. poolToCoord'[q] = poolToCoord[q] /\ hashSlot'[q] = hashSlot[q]
      BY <1>7, <2>2, <3>2
    <3>4. PathTo(q)
      BY <1>9, <3>2, <3>3 DEF ProbeReachable, PathTo
    <3> QED
      BY <1>8, <3>2, <3>3, <3>4, PathKept
  <2> QED
    BY <2>1, <2>2
<1> QED
  BY <1>9 DEF ProbeReachable, PathTo

\* A release leaves a tombstone on the paths of the others.
LEMMA ReleaseReaches ==
    ASSUME PoolInv, ProbeReachable, NEW p \in Active, Release(p)
    PROVE  ProbeReachable'
<1>1. Active' = Active \ {p} /\ p \in Pool
  BY DEF Release, Unbind, Wipe, Mark, Unhash, Active, PoolInv, TypeOK
<1>2. \A q \in Pool \ {p} : /\ hashSlot'[q] = hashSlot[q]
                             /\ poolToCoord'[q] = poolToCoord[q]
  BY DEF PoolInv, TypeOK, Release, Unbind, Wipe, Mark, Unhash
<1>3. \A t \in Slot : hashTable[t] # EMPTY => hashTable'[t] # EMPTY
  BY DEF PoolInv, TypeOK, Release, Unbind, Wipe, Mark, Unhash
<1>4. ASSUME NEW q \in Active', hashSlot'[q] # NONE PROVE PathTo(q)'
  <2>1. q \in Active /\ q \in Pool \ {p}
    BY <1>1 DEF Active
  <2>2. PathTo(q)
    BY <1>2, <1>4, <2>1 DEF ProbeReachable, PathTo
  <2> QED
    BY <1>2, <1>3, <2>1, <2>2, PathKept
<1> QED
  BY <1>4 DEF ProbeReachable, PathTo

\* A loaded block that has a slot has the one its path starts from.
LEMMA ImportReaches == ASSUME PoolInv, ImportAny PROVE ProbeReachable'
<1>0. PICK n \in ImportSizes :
        \E cs \in [0 .. n - 1 -> Coord], ws \in [0 .. n - 1 -> Level],
           ss \in [0 .. n - 1 -> BOOLEAN] :
          Distinct(n, cs) /\ Import(n, cs, ws, ss)
  BY DEF ImportAny
<1>1. PICK cs \in [0 .. n - 1 -> Coord], ws \in [0 .. n - 1 -> Level],
           ss \in [0 .. n - 1 -> BOOLEAN] :
        Distinct(n, cs) /\ Import(n, cs, ws, ss)
  BY <1>0
<1>2. ASSUME NEW p \in Pool, hashSlot'[p] # NONE
      PROVE  hashSlot'[p] = Home[poolToCoord'[p]] /\ poolToCoord'[p] \in Coord
  <2>1. p < n /\ hashSlot'[p] = Home[cs[p]] /\ poolToCoord'[p] = cs[p]
    BY <1>1, <1>2 DEF Import
  <2>2. p \in 0 .. n - 1
    BY <1>1, <2>1, SizeAssumption DEF Pool, Import
  <2> QED
    BY <2>1, <2>2
<1>3. ASSUME NEW p \in Active', hashSlot'[p] # NONE PROVE PathTo(p)'
  <2>1. p \in Pool
    BY DEF Active
  <2>2. Home[poolToCoord'[p]] \in Slot /\ 0 \in Slot
    BY <1>2, <1>3, <2>1, HomeAssumption, SizeAssumption DEF Slot
  <2>3. Probe(poolToCoord'[p], 0) = hashSlot'[p]
    BY <1>2, <1>3, <2>1, <2>2, SizeAssumption DEF Probe, Slot
  <2>4. 0 .. 0 - 1 = {}
    OBVIOUS
  <2> QED
    BY <2>2, <2>3, <2>4 DEF PathTo, Probe
<1> QED
  BY <1>3 DEF ProbeReachable, PathTo

LEMMA AllocateReaches ==
    ASSUME PoolInv, HashMirror, TableFits, ProbeReachable, NEW c \in Coord,
           Allocate(c)
    PROVE  ProbeReachable'
<1>1. CASE AllocateExisting(c) \/ AllocateRefused(c)
  BY <1>1 DEF AllocateExisting, AllocateRefused, ProbeReachable, Probe, Active,
              maps, hash
<1>2. CASE AllocateRecycled(c)
  <2>1. Len(free) \in 1 .. Len(free) /\ free[Len(free)] \in Pool
    BY <1>2, EmptySeq, ElementOfSeq, LenProperties
       DEF AllocateRecycled, PoolInv, TypeOK
  <2>2. free[Len(free)] \notin Active
    BY <2>1 DEF PoolInv, PoolPartition, IsFree
  <2> QED
    BY <1>2, <2>1, <2>2, BindReaches DEF AllocateRecycled, Held
<1>3. CASE AllocateFresh(c)
  <2>1. numAllocated \in Pool
    BY <1>3, SizeAssumption DEF AllocateFresh, PoolInv, TypeOK, Pool
  <2>2. numAllocated \notin Active
    BY <2>1 DEF PoolInv, PoolPartition, Pool
  <2> QED
    BY <1>3, <2>1, <2>2, BindReaches DEF AllocateFresh, Held
<1> QED
  BY <1>1, <1>2, <1>3 DEF Allocate

LEMMA ReachableStep ==
    ASSUME PoolInv, HashMirror, TableFits, ProbeReachable, [Next]_vars
    PROVE  ProbeReachable'
<1>1. ASSUME UNCHANGED <<maps, hash>> PROVE ProbeReachable'
  BY <1>1 DEF ProbeReachable, Probe, Active, maps, hash
<1>2. ASSUME IntegrateNext PROVE ProbeReachable'
  <2>1. PICK c \in Coord : c = Lowest(coordsLeft)
    BY <1>2, LowestIsMember, CoordAssumption DEF PoolInv, TypeOK, IntegrateNext
  <2> QED
    BY <1>2, <2>1, AllocateReaches DEF IntegrateNext
<1>3. ASSUME RecycleNext PROVE ProbeReachable'
  <2>1. Lowest(poolsLeft) \in poolsLeft
    BY <1>3, LowestIsMember DEF PoolInv, TypeOK, RecycleNext, Pool
  <2>2. Lowest(poolsLeft) \in Active
    BY <1>3, <2>1 DEF PoolInv, LoopTargetsLive, RecycleNext
  <2> QED
    BY <1>3, <2>2, ReleaseReaches DEF RecycleNext
<1>4. ASSUME ClearNext PROVE ProbeReachable'
  <2>1. UNCHANGED <<maps, hash>> \/ \E p \in Active : Release(p)
    BY <1>4 DEF ClearNext, Pass
  <2> QED
    BY <2>1, <1>1, ReleaseReaches
<1>5. ASSUME Reset PROVE ProbeReachable'
  BY <1>5 DEF Reset, ResetMaps, ProbeReachable, Active
<1>6. ASSUME IntegrateAny \/ FuseAny \/ VisibleOverflow \/ DecayAny
             \/ ClearAny \/ RegionAny \/ ReleaseDone \/ UNCHANGED vars
      PROVE  UNCHANGED <<maps, hash>>
  BY <1>6 DEF IntegrateAny, Integrate, FuseAny, Fuse, VisibleOverflow,
              DecayAny, DecayAndRecycle, Expired, ClearAny, RegionAny, ClearRegion,
              ClearBlocks, ReleaseDone, FreeCopy, vars, maps, hash
<1> QED
  BY <1>1, <1>2, <1>3, <1>4, <1>5, <1>6, ImportReaches DEF Next

\* In a table with an entry for every pool slot, a lookup that stops at the
\* first EMPTY entry finds every block that has a slot, after any order of
\* colliding insertions and releases.
THEOREM BlocksStayReachable == ASSUME TableFits PROVE Spec => []ProbeReachable
<1>1. Init => ProbeReachable
  BY DEF Init, ProbeReachable, Active
<1>2. PoolInv /\ HashMirror /\ ProbeReachable /\ [Next]_vars => ProbeReachable'
  BY ReachableStep
<1> QED
  BY <1>1, <1>2, PoolInvariant, HashTableMirrors, PTL DEF Spec

=============================================================================
