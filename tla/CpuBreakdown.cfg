SPECIFICATION CpuSpec
CONSTANTS
    Stacks <- MCStacks
    Profiles <- MCProfiles
    Pairs <- MCPairs
    Canvas = 15
INVARIANTS NoCrossTalk SharesAsSampled
CHECK_DEADLOCK FALSE
