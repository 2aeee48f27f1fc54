SPECIFICATION Spec
CONSTANTS
    Nodes <- MCNodes
    Starts <- MCStarts
    Durations <- MCDurations
    Root = 2
    NoNode = NoNode
    Allowance = 2
INVARIANTS TypeOK NoZeroDivision PathConnected OverlapBounded NoTripleOverlap NoGapMissed
PROPERTY PicksBackwards
CHECK_DEADLOCK FALSE
