------------------------------ MODULE BlockMap ------------------------------
(***************************************************************************)
(* What the sparse block pool of the mapper promises its callers: a map    *)
(* from block coordinates to an observation level that holds at most       *)
(* MaxBlocks entries, admits a new entry whenever there is room, and never *)
(* shows an old observation under a new entry.  Pool indices, the free     *)
(* stack and the hash table do not appear; BlockPool implements this       *)
(* specification (see BlockPool!Abstract).                                 *)
(***************************************************************************)
EXTENDS Integers, FiniteSets

CONSTANTS
    Coord,        \* the block coordinates inside the map bounds
    MaxBlocks,    \* the capacity of the map
    MaxWeight,    \* the largest observation level
    MaxFailures   \* where the refusal counter saturates

Absent == -1

VARIABLES
    level,        \* level[c]: Absent, or the observation level of block c
    refusals      \* insertions refused since the map was last emptied

mapVars == <<level, refusals>>

Level == 0 .. MaxWeight
Present == {c \in Coord : level[c] # Absent}

MapInit ==
    /\ level = [c \in Coord |-> Absent]
    /\ refusals = 0

\* A block enters the map only while there is room, and it enters unobserved.
Insert(c) ==
    /\ c \notin Present
    /\ Cardinality(Present) < MaxBlocks
    /\ level' = [level EXCEPT ![c] = 0]
    /\ UNCHANGED refusals

\* A block is refused only when the map is full.
Refuse(c) ==
    /\ c \notin Present
    /\ Cardinality(Present) = MaxBlocks
    /\ refusals' = IF refusals < MaxFailures THEN refusals + 1 ELSE refusals
    /\ UNCHANGED level

\* One frame raises the levels of some present blocks by at most one.
Observe(S) ==
    /\ S \subseteq Present
    /\ level' = [c \in Coord |->
                   IF c \in S /\ level[c] < MaxWeight
                     THEN level[c] + 1 ELSE level[c]]
    /\ UNCHANGED refusals

\* Decay, or a frame that sees too many blocks, lowers some present blocks.
Fade(S) ==
    /\ S \subseteq Present
    /\ \E l \in [S -> Level] :
         /\ \A c \in S : l[c] <= level[c]
         /\ level' = [c \in Coord |-> IF c \in S THEN l[c] ELSE level[c]]
    /\ UNCHANGED refusals

Remove(c) ==
    /\ c \in Present
    /\ level' = [level EXCEPT ![c] = Absent]
    /\ UNCHANGED refusals

Empty ==
    /\ level' = [c \in Coord |-> Absent]
    /\ refusals' = 0

\* A checkpoint replaces an empty map, if it fits.
Load ==
    /\ Present = {}
    /\ level' \in [Coord -> Level \cup {Absent}]
    /\ Cardinality({c \in Coord : level'[c] # Absent}) <= MaxBlocks
    /\ refusals' = 0

MapNext ==
    \/ \E c \in Coord : Insert(c) \/ Refuse(c) \/ Remove(c)
    \/ \E S \in SUBSET Coord : Observe(S) \/ Fade(S)
    \/ Empty
    \/ Load

MapSpec == MapInit /\ [][MapNext]_mapVars
=============================================================================
