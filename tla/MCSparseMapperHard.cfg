\* Malformed inputs, a tight LiDAR capacity, resets, and calls that return.
SPECIFICATION FairMapperSpec
CONSTANTS
    Coord <- MCCoord2
    Home <- MCHome2
    MaxBlocks = 2
    HashCapacity = 2
    InitialCapacity = 1
    MaxWeight = 1
    MaxFailures = 1
    VisibleCapacities = {1}
    ImportSizes = {1}
    LidarCapacity = 1
    Decaying = TRUE
    Resets = TRUE
    BadInputs = TRUE
INVARIANT
    HashMirror
PROPERTIES
    ImplementsMap
    CallsReturn
