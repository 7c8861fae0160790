\* Checkpoints whose blocks collide in the hash table.
SPECIFICATION Spec
CONSTANTS
    Coord <- MCCoord
    Home <- MCHome
    MaxBlocks = 2
    HashCapacity = 3
    InitialCapacity = 1
    MaxWeight = 1
    MaxFailures = 1
    VisibleCapacities = {1, 2}
    ImportSizes = {2}
INVARIANT
    SlotContract
