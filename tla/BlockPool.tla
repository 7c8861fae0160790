----------------------------- MODULE BlockPool ------------------------------
(***************************************************************************)
(* The sparse block pool of the mapper: class PortableSparseTSDF of        *)
(* curobo/_src/perception/mapper/sparse_runtime.py.  A pool slot is a      *)
(* number below MaxBlocks; the two dictionaries, the Python free stack and *)
(* the tensors that mirror them for readers of data.* are separate state,  *)
(* so that the ways in which they can disagree are in the model.           *)
(*                                                                         *)
(* Every public method is one call.  A method that loops over blocks is a  *)
(* run of steps, one per iteration of its loop; `op' names the running     *)
(* call and no other call starts before it has returned.  The code is      *)
(* sequential, so the steps between are those an exception could expose.   *)
(*                                                                         *)
(* Abstractions.  A block coordinate is a natural number, in the order     *)
(* torch.unique lists coordinates.  The observation of a block (its weight *)
(* sum, colour and features, which are written, scaled and cleared         *)
(* together) is one level, 0 meaning a weight sum of at most 1e-5.  The    *)
(* static channel is whether any of its voxels is finite.  block_coords    *)
(* always repeats _pool_to_coord and is not kept apart.                    *)
(***************************************************************************)
EXTENDS Integers, Sequences, FiniteSets

CONSTANTS
    Coord,             \* block coordinates inside the map bounds
    Home,              \* Home[c]: the hash slot probing starts from
    MaxBlocks,         \* config.max_blocks
    HashCapacity,      \* config.hash_capacity
    InitialCapacity,   \* slots materialised before the first _grow
    MaxWeight,         \* observation levels above zero
    MaxFailures,       \* bound: where allocation_failures saturates
    VisibleCapacities, \* the visible_capacity arguments callers pass
    ImportSizes        \* bound: block counts of the checkpoints offered

Pool  == 0 .. MaxBlocks - 1
Slot  == 0 .. HashCapacity - 1
Level == 0 .. MaxWeight

NONE  == -1    \* no pool, no coordinate, no slot
EMPTY == -1    \* a hash entry never used since reset
TOMB  == -2    \* a hash entry whose block was released

ASSUME CoordAssumption == Coord \subseteq Nat /\ IsFiniteSet(Coord)
ASSUME SizeAssumption ==
    /\ MaxBlocks \in Nat \ {0}
    /\ HashCapacity \in Nat \ {0}
    /\ InitialCapacity \in 1 .. MaxBlocks
    /\ MaxWeight \in Nat \ {0}
    /\ MaxFailures \in Nat
    /\ VisibleCapacities \subseteq Nat \ {0}
    /\ ImportSizes \subseteq Nat
ASSUME HomeAssumption == Home \in [Coord -> Slot]

VARIABLES
    coordToPool,   \* _coord_to_pool
    poolToCoord,   \* _pool_to_coord
    free,          \* _free, used as a stack
    numAllocated,  \* data.num_allocated, the high-water mark
    capacity,      \* _capacity, the slots the tensors have room for
    freeCount,     \* data.free_count
    freeList,      \* data.free_list
    hashTable,     \* data.hash_table
    hashSlot,      \* data.block_to_hash_slot
    weight,        \* data.block_data[:, :, 1] and the appearance beside it
    static,        \* data.static_block_data holds a finite value
    failures,      \* data.allocation_failures
    op,            \* the call that is running
    coordsLeft,    \* the coordinates its loop still has to allocate
    poolsLeft,     \* the pools its loop still has to release
    touched,       \* the pools an integration has touched
    limit          \* its visible_capacity argument

maps    == <<coordToPool, poolToCoord>>
mirrors == <<freeCount, freeList>>
hash    == <<hashTable, hashSlot>>
call    == <<op, coordsLeft, poolsLeft, touched, limit>>
vars    == <<coordToPool, poolToCoord, free, numAllocated, capacity, freeCount,
             freeList, hashTable, hashSlot, weight, static, failures, op,
             coordsLeft, poolsLeft, touched, limit>>

Active == {p \in Pool : poolToCoord[p] # NONE}

\* Readers of data.* take a block to be live when it is below the high-water
\* mark and has a hash slot; they do not see the dictionaries.
Visible == {p \in Pool : p < numAllocated /\ hashSlot[p] >= 0}

Lowest(S) == CHOOSE x \in S : \A y \in S : x <= y

-----------------------------------------------------------------------------
Init ==
    /\ coordToPool = [c \in Coord |-> NONE]
    /\ poolToCoord = [p \in Pool |-> NONE]
    /\ free = <<>>
    /\ numAllocated = 0
    /\ capacity = InitialCapacity
    /\ freeCount = 0
    /\ freeList = [p \in Pool |-> IF p < InitialCapacity THEN 0 ELSE NONE]
    /\ hashTable = [s \in Slot |-> EMPTY]
    /\ hashSlot = [p \in Pool |-> NONE]
    /\ weight = [p \in Pool |-> 0]
    /\ static = [p \in Pool |-> FALSE]
    /\ failures = 0
    /\ op = "idle"
    /\ coordsLeft = {}
    /\ poolsLeft = {}
    /\ touched = {}
    /\ limit = 0

Return == /\ op' = "idle"
          /\ coordsLeft' = {}
          /\ poolsLeft' = {}
          /\ touched' = {}
          /\ limit' = 0

-----------------------------------------------------------------------------
(* _allocate                                                               *)

\* Mutant: growth starts one block late.
GrowLate(required) ==
    IF required <= capacity + 1 THEN capacity ELSE MaxBlocks

Grow(required) ==
    LET doubled == IF required > 2 * capacity THEN required ELSE 2 * capacity
    IN  IF required <= capacity THEN capacity
        ELSE IF doubled < MaxBlocks THEN doubled ELSE MaxBlocks

Probe(c, k) == (Home[c] + k) % HashCapacity

\* Linear probing takes the first entry that is empty or a tombstone.  When
\* the table is full the slot keeps its provisional value, the pool index.
InsertHash(c, p) ==
    LET open == {k \in Slot : hashTable[Probe(c, k)] < 0}
    IN  IF open = {}
          THEN /\ hashSlot' = [hashSlot EXCEPT ![p] = p]
               /\ UNCHANGED hashTable
          ELSE LET s == Probe(c, Lowest(open))
               IN  /\ hashTable' = [hashTable EXCEPT ![s] = p]
                   /\ hashSlot' = [hashSlot EXCEPT ![p] = s]

Bind(c, p) ==
    /\ coordToPool' = [coordToPool EXCEPT ![c] = p]
    /\ poolToCoord' = [poolToCoord EXCEPT ![p] = c]
    /\ InsertHash(c, p)

\* Mutant: a block that was never observed counts as absent.
HeldObserved(c) == coordToPool[c] # NONE /\ weight[coordToPool[c]] > 0

Held(c) == coordToPool[c] # NONE

\* Mutant: the stack is popped at the wrong end.
PoppedFront == Tail(free)

Popped == SubSeq(free, 1, Len(free) - 1)

AllocateExisting(c) ==
    /\ Held(c)
    /\ UNCHANGED <<maps, free, numAllocated, capacity, mirrors, hash, failures>>

AllocateRecycled(c) ==
    /\ ~Held(c)
    /\ free # <<>>
    /\ Bind(c, free[Len(free)])
    /\ free' = Popped
    /\ freeCount' = Len(free) - 1
    /\ UNCHANGED <<numAllocated, capacity, freeList, failures>>

AllocateFresh(c) ==
    /\ ~Held(c)
    /\ free = <<>>
    /\ numAllocated < MaxBlocks
    /\ Bind(c, numAllocated)
    /\ capacity' = Grow(numAllocated + 1)
    /\ numAllocated' = numAllocated + 1
    /\ UNCHANGED <<free, mirrors, failures>>

AllocateRefused(c) ==
    /\ ~Held(c)
    /\ free = <<>>
    /\ numAllocated >= MaxBlocks
    /\ failures' = IF failures < MaxFailures THEN failures + 1 ELSE failures
    /\ UNCHANGED <<maps, free, numAllocated, capacity, mirrors, hash>>

\* Afterwards coordToPool[c] is the pool index returned, NONE when refused.
Allocate(c) ==
    \/ AllocateExisting(c)
    \/ AllocateRecycled(c)
    \/ AllocateFresh(c)
    \/ AllocateRefused(c)

-----------------------------------------------------------------------------
(* integrate and integrate_lidar, through _integrate_candidates            *)

Integrate(S, visible) ==
    /\ op = "idle"
    /\ op' = "integrate"
    /\ coordsLeft' = S
    /\ poolsLeft' = {}
    /\ touched' = {}
    /\ limit' = visible
    /\ UNCHANGED <<maps, free, numAllocated, capacity, mirrors, hash, weight,
                   static, failures>>

\* Candidates are allocated in the order torch.unique sorted them.
IntegrateNext ==
    /\ op = "integrate"
    /\ coordsLeft # {}
    /\ LET c == Lowest(coordsLeft)
       IN  /\ Allocate(c)
           /\ coordsLeft' = coordsLeft \ {c}
           /\ touched' = touched \cup ({coordToPool'[c]} \ {NONE})
    /\ UNCHANGED <<weight, static, op, poolsLeft, limit>>

\* The observation adds weight to the touched blocks `hit' that have a voxel
\* inside the measured band.
Fuse(hit) ==
    /\ op = "integrate"
    /\ coordsLeft = {}
    /\ Cardinality(touched) <= limit
    /\ weight' = [p \in Pool |->
                    IF p \in hit /\ weight[p] < MaxWeight
                      THEN weight[p] + 1 ELSE weight[p]]
    /\ Return
    /\ UNCHANGED <<maps, free, numAllocated, capacity, mirrors, hash, static,
                   failures>>

\* Too many visible blocks: every touched block loses what it held, stays
\* allocated, and the call raises ValueError.
VisibleOverflow ==
    /\ op = "integrate"
    /\ coordsLeft = {}
    /\ Cardinality(touched) > limit
    /\ weight' = [p \in Pool |-> IF p \in touched THEN 0 ELSE weight[p]]
    /\ Return
    /\ UNCHANGED <<maps, free, numAllocated, capacity, mirrors, hash, static,
                   failures>>

-----------------------------------------------------------------------------
(* decay_and_recycle, clear_blocks and clear_region                        *)

\* Mutant: _coord_to_pool keeps the coordinate.
UnbindPool(p) ==
    /\ poolToCoord' = [poolToCoord EXCEPT ![p] = NONE]
    /\ UNCHANGED coordToPool

Unbind(p) ==
    /\ poolToCoord' = [poolToCoord EXCEPT ![p] = NONE]
    /\ coordToPool' = [coordToPool EXCEPT ![poolToCoord[p]] = NONE]

\* Mutants: one of the two channels is left in the slot.
WipeDynamic(p) == weight' = [weight EXCEPT ![p] = 0] /\ UNCHANGED static
WipeStatic(p)  == static' = [static EXCEPT ![p] = FALSE] /\ UNCHANGED weight

Wipe(p) ==
    /\ weight' = [weight EXCEPT ![p] = 0]
    /\ static' = [static EXCEPT ![p] = FALSE]

Mark(p, entry) ==
    /\ hashTable' = IF hashSlot[p] \in Slot
                      THEN [hashTable EXCEPT ![hashSlot[p]] = entry]
                      ELSE hashTable
    /\ hashSlot' = [hashSlot EXCEPT ![p] = NONE]

\* Mutants: the entry is emptied, or left as it is.
UnhashEmpty(p) == Mark(p, EMPTY)
UnhashKeep(p)  == Mark(p, p)

Unhash(p) == Mark(p, TOMB)

\* One block leaves the pool: the body of both release loops.
Release(p) ==
    /\ Unbind(p)
    /\ Wipe(p)
    /\ Unhash(p)
    /\ free' = Append(free, p)

\* Mutant: holes of the pool expire as well.
ExpiredBelowMark(w) == {p \in 0 .. numAllocated - 1 : w[p] = 0}

Expired(w) == {p \in Active : w[p] = 0}

\* Scaling by the factor takes the blocks `fading' one level down (none of
\* them for a factor of one); every block then at level zero has expired.
DecayAndRecycle(fading) ==
    /\ op = "idle"
    /\ numAllocated > 0
    /\ weight' = [p \in Pool |->
                    IF p \in fading THEN weight[p] - 1 ELSE weight[p]]
    /\ op' = "recycle"
    /\ poolsLeft' = Expired(weight')
    /\ UNCHANGED <<maps, free, numAllocated, capacity, mirrors, hash, static,
                   failures, coordsLeft, touched, limit>>

\* Expired blocks are released in ascending pool order.
RecycleNext ==
    /\ op = "recycle"
    /\ poolsLeft # {}
    /\ Release(Lowest(poolsLeft))
    /\ poolsLeft' = poolsLeft \ {Lowest(poolsLeft)}
    /\ UNCHANGED <<numAllocated, capacity, mirrors, failures, op, coordsLeft,
                   touched, limit>>

\* The indices come from the caller; some may not name a live block.
ClearBlocks(indices) ==
    /\ op = "idle"
    /\ op' = "clear"
    /\ poolsLeft' = indices
    /\ UNCHANGED <<maps, free, numAllocated, capacity, mirrors, hash, weight,
                   static, failures, coordsLeft, touched, limit>>

\* clear_region selects the live blocks whose coordinate lies in the box.
ClearRegion(box) ==
    ClearBlocks({p \in Active : poolToCoord[p] \in box})

\* Mutant: the loop does not get past an index that names no live block.
PassLive(p) == poolsLeft' = IF p \in Active THEN poolsLeft \ {p} ELSE poolsLeft

Pass(p) == poolsLeft' = poolsLeft \ {p}

ClearNext ==
    /\ op = "clear"
    /\ \E p \in poolsLeft :
         /\ Pass(p)
         /\ IF p \in Active
              THEN Release(p)
              ELSE UNCHANGED <<maps, weight, static, hash, free>>
    /\ UNCHANGED <<numAllocated, capacity, mirrors, failures, op, coordsLeft,
                   touched, limit>>

\* Mutant: the last entry of the stack is not copied.
FreeCopyShort == [p \in Pool |-> IF p < Len(free) - 1 THEN free[p + 1] ELSE 0]

FreeCopy == [p \in Pool |-> IF p < Len(free) THEN free[p + 1]
                            ELSE IF p < capacity THEN 0 ELSE NONE]

\* After the loop the public copies of the free stack are written again.
ReleaseDone ==
    /\ op \in {"recycle", "clear"}
    /\ poolsLeft = {}
    /\ freeList' = FreeCopy
    /\ freeCount' = Len(free)
    /\ Return
    /\ UNCHANGED <<maps, free, numAllocated, capacity, hash, weight, static,
                   failures>>

-----------------------------------------------------------------------------
(* reset and import_blocks                                                 *)

ResetMaps ==
    /\ op = "idle"
    /\ coordToPool' = [c \in Coord |-> NONE]
    /\ poolToCoord' = [p \in Pool |-> NONE]
    /\ free' = <<>>
    /\ numAllocated' = 0
    /\ freeCount' = 0
    /\ hashTable' = [s \in Slot |-> EMPTY]
    /\ hashSlot' = [p \in Pool |-> NONE]
    /\ weight' = [p \in Pool |-> 0]
    /\ failures' = 0
    /\ UNCHANGED <<capacity, call>>

\* reset leaves free_list, the static channel and the grown capacity alone.
Reset == ResetMaps /\ UNCHANGED <<freeList, static>>

\* A checkpoint lists n blocks: cs[p], ws[p] and ss[p] are the coordinate,
\* level and static channel of the block that becomes pool p.  The loop that
\* rebuilds the hash table looks at the home slot only, so a block whose home
\* is taken by an earlier one gets no slot.
Import(n, cs, ws, ss) ==
    LET first(p) == \A q \in 0 .. p - 1 : Home[cs[q]] # Home[cs[p]]
    IN  /\ op = "idle"
        /\ Active = {} /\ numAllocated = 0
        /\ n <= MaxBlocks
        /\ coordToPool' = [c \in Coord |->
                             IF \E p \in 0 .. n - 1 : cs[p] = c
                               THEN CHOOSE p \in 0 .. n - 1 : cs[p] = c
                               ELSE NONE]
        /\ poolToCoord' = [p \in Pool |-> IF p < n THEN cs[p] ELSE NONE]
        /\ free' = <<>>
        /\ numAllocated' = n
        /\ capacity' = Grow(n)
        /\ freeCount' = 0
        /\ hashSlot' = [p \in Pool |->
                          IF p < n /\ first(p) THEN Home[cs[p]] ELSE NONE]
        /\ hashTable' = [s \in Slot |->
                           IF \E p \in 0 .. n - 1 : Home[cs[p]] = s
                             THEN CHOOSE p \in 0 .. n - 1 :
                                    Home[cs[p]] = s /\ first(p)
                             ELSE EMPTY]
        /\ weight' = [p \in Pool |-> IF p < n THEN ws[p] ELSE 0]
        /\ static' = [p \in Pool |-> IF p < n THEN ss[p] ELSE static[p]]
        /\ failures' = 0
        /\ UNCHANGED <<freeList, call>>

Distinct(n, cs) == \A p, q \in 0 .. n - 1 : cs[p] = cs[q] => p = q

ImportAny ==
    \E n \in ImportSizes :
      \E cs \in [0 .. n - 1 -> Coord], ws \in [0 .. n - 1 -> Level],
         ss \in [0 .. n - 1 -> BOOLEAN] :
        Distinct(n, cs) /\ Import(n, cs, ws, ss)

-----------------------------------------------------------------------------
IntegrateAny == \E S \in SUBSET Coord, v \in VisibleCapacities : Integrate(S, v)
FuseAny      == \E hit \in SUBSET touched : Fuse(hit)
DecayAny     == \E fading \in SUBSET {p \in Active : weight[p] > 0} :
                  DecayAndRecycle(fading)
ClearAny     == \E indices \in SUBSET Pool : ClearBlocks(indices)
RegionAny    == \E lo, hi \in Coord :
                  ClearRegion({c \in Coord : lo <= c /\ c <= hi})

Next ==
    \/ IntegrateAny
    \/ IntegrateNext
    \/ FuseAny
    \/ VisibleOverflow
    \/ DecayAny
    \/ RecycleNext
    \/ ClearAny
    \/ RegionAny
    \/ ClearNext
    \/ ReleaseDone
    \/ Reset
    \/ ImportAny

Spec == Init /\ [][Next]_vars

-----------------------------------------------------------------------------
(* Properties                                                              *)

\* The state of every field has its type; the high-water mark stays inside
\* the tensors that have been grown, and those inside max_blocks.
TypeOK ==
    /\ coordToPool \in [Coord -> Pool \cup {NONE}]
    /\ poolToCoord \in [Pool -> Coord \cup {NONE}]
    /\ free \in Seq(Pool)
    /\ capacity \in 1 .. MaxBlocks
    /\ numAllocated \in 0 .. capacity
    /\ freeCount \in 0 .. MaxBlocks
    /\ freeList \in [Pool -> Pool \cup {NONE}]
    /\ hashTable \in [Slot -> Pool \cup {EMPTY, TOMB}]
    /\ hashSlot \in [Pool -> Pool \cup Slot \cup {NONE}]
    /\ weight \in [Pool -> Level]
    /\ static \in [Pool -> BOOLEAN]
    /\ failures \in 0 .. MaxFailures
    /\ op \in {"idle", "integrate", "recycle", "clear"}
    /\ coordsLeft \in SUBSET Coord
    /\ poolsLeft \in SUBSET Pool
    /\ touched \in SUBSET Pool
    /\ limit \in Nat

\* _coord_to_pool and _pool_to_coord are inverse to each other, whatever
\* allocations, recycling, clears and imports have been made.
MapsAgree ==
    \A c \in Coord, p \in Pool : coordToPool[c] = p <=> poolToCoord[p] = c

IsFree(p) == \E i \in 1 .. Len(free) : free[i] = p

\* Every slot below the high-water mark is live or free and never both, no
\* slot is twice on the free stack, and none above the mark is in use: a slot
\* is neither leaked nor handed out to two coordinates.
PoolPartition ==
    /\ \A p \in Pool : p < numAllocated <=> (p \in Active \/ IsFree(p))
    /\ \A p \in Pool : ~(p \in Active /\ IsFree(p))
    /\ \A i, j \in 1 .. Len(free) : free[i] = free[j] => i = j

\* Outside a release loop the public free_count and the prefix of free_list
\* repeat the Python free stack: _allocate pops without rewriting free_list.
FreeMirror ==
    op \notin {"recycle", "clear"} =>
        /\ freeCount = Len(free)
        /\ \A i \in 1 .. freeCount : freeList[i - 1] = free[i]

\* get_stats reports num_allocated - free_count as the live blocks.
StatsCountLive ==
    op \notin {"recycle", "clear"} =>
        numAllocated - freeCount = Cardinality(Active)

\* A slot with no live block holds no observation, and a slot on the free
\* stack no static geometry either: _allocate hands slots out uncleared.
VacantBlank ==
    /\ \A p \in Pool : p \notin Active => weight[p] = 0
    /\ \A p \in Pool : IsFree(p) => ~static[p]

\* hash_table and block_to_hash_slot name each other, for live blocks only,
\* when the table has at least one entry per pool slot.
HashMirror ==
    /\ \A s \in Slot : hashTable[s] >= 0 =>
         /\ hashTable[s] \in Active
         /\ hashSlot[hashTable[s]] = s
    /\ \A p \in Pool : hashSlot[p] # NONE =>
         /\ p \in Active
         /\ hashSlot[p] \in Slot
         /\ hashTable[hashSlot[p]] = p

\* No entry is ever EMPTY on the probe path from a block's home slot to the
\* slot that holds it: releases leave tombstones, so a lookup that stops at
\* the first EMPTY entry still finds the block.
ProbeReachable ==
    \A p \in Active : hashSlot[p] # NONE =>
        \E k \in Slot :
            /\ Probe(poolToCoord[p], k) = hashSlot[p]
            /\ \A j \in 0 .. k - 1 : hashTable[Probe(poolToCoord[p], j)] # EMPTY

\* The lists a loop computed before it started stay valid while it runs:
\* touched blocks are live, and a block due for recycling is live and empty.
LoopTargetsLive ==
    /\ touched \subseteq Active
    /\ op # "integrate" => touched = {}
    /\ op = "recycle" => \A p \in poolsLeft : p \in Active /\ weight[p] = 0

\* What a reader of data.* takes for a live block is one.
VisibleIsLive == Visible \subseteq Active

\* The "active/inactive pool-slot contract" of block_to_hash_slot: a block
\* has a slot exactly while it is live.  Import breaks it (see the README).
SlotContract == Visible = Active

\* A coordinate keeps its pool index for as long as it stays in the map, so
\* that indices returned by queries remain good.
StableHandles ==
    [][\A c \in Coord : coordToPool[c] # NONE /\ coordToPool'[c] # NONE
         => coordToPool'[c] = coordToPool[c]]_vars

\* A block that is allocated starts without static geometry.
NewBlocksBlank ==
    [][\A c \in Coord : op = "integrate" /\ coordToPool[c] = NONE
                        /\ coordToPool'[c] # NONE
         => ~static'[coordToPool'[c]]]_vars

\* Seen through its coordinates the pool is the bounded map of BlockMap.
Abstract == INSTANCE BlockMap WITH
    level    <- [c \in Coord |-> IF coordToPool[c] = NONE THEN NONE
                                 ELSE weight[coordToPool[c]]],
    refusals <- failures

ImplementsMap == Abstract!MapSpec
=============================================================================
