\* Extending, querying, reading and resetting the roadmap, in changing worlds,
\* while the node manager and the constructor write to the same path finder.
SPECIFICATION Spec
CONSTANTS
    Config <- MCConfig
    Dist <- MCDist
    Edge <- MCEdge
    Worlds <- MCWorlds
    Radius = 12
    Similarity = 3
    MaxNodes = 3
    Neighbors = 2
    CallNeighbors = {4}
    NewNodes = 1
    Iterations = 2
    GrowthFactor = 2
    Queries <- MCQueries
    Drawable = {"top", "near"}
    SteerLine <- MCSteerLine
    Default = "middle"
    Candidates = {"top"}
    UseDefault = TRUE
    ConnectNearest = TRUE
CONSTRAINT MCFew
INVARIANTS
    NodesTypeOK
    
    PlanSound
    DefaultAnchored
PROPERTIES
    IndicesStable
    QueryNeverRaises
    EdgesBacked
    RoadmapSpec
