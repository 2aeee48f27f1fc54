SPECIFICATION Spec
CONSTANTS
    Files = 2
    Services = {"a", "b"}
    CriticalPaths <- MCPaths
    Protocols = {"tcp", "http"}
    Cost <- MCCost
    Gain <- MCGain
INVARIANTS EachCallOnce FailureExplained
CHECK_DEADLOCK FALSE
