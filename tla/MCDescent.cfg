\* Warm starts, solves that raise, settings that change and the end of a solve,
\* for each of the methods.
SPECIFICATION Spec
CONSTANTS
    Problems = {"p", "q"}
    Actions <- MCActions
    Goals = {"near", "far"}
    Infinite = 4
    Cost <- MCTable
    Clamp <- MCClamp
    Settings <- MCSettings
    NoAction = NoAction
    NoRun = NoRun
INVARIANTS
    
    StopsOnConvergence
    ReturnsFinite
    StartsAsAsked
PROPERTIES
    ImplementsWarmStart
