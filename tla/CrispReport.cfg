SPECIFICATION Spec
CONSTANTS
    Args <- MCArgs
    Traces <- MCTraces
    NoRoot = NoRoot
    Broken = Broken
    TotalTime = TotalTime
    a = a
    b = b
    c = c
INVARIANTS HeatmapExact TooltipsExact RenamedOnce AllOrNothing PercentBounded
CHECK_DEADLOCK FALSE
