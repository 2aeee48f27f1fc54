SPECIFICATION Spec
CONSTANTS
    Files = 2
    Services = {"a", "b"}
    CriticalPaths <- MCPaths
    Protocols = {"tcp", "http"}
    Cost <- MCCost
    Gain <- MCGain
INVARIANT SpeedupHelps
CHECK_DEADLOCK FALSE
