\* Two stages of each kind, enabled, disabled, resized and raising.
SPECIFICATION Spec
CONSTANTS
    Actions <- MCActions
    Goals = {"near", "far"}
    Infinite = 3
    Cost <- MCTable
    NoAction = NoAction
    NoCall = NoCall
    Last = 2
    Pipelines <- MCPipelines
    MaxSize = 2
    Given <- MCGiven
INVARIANTS
    LayoutsAgree
    ChainKeepsGain
