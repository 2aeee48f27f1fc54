SPECIFICATION Spec
CONSTANTS
    Args <- MCArgs
    Traces <- MCTraces
    NoRoot = NoRoot
    Broken = Broken
    TotalTime = TotalTime
    a = a
    b = b
    c = c
INVARIANTS FlameGraphSums
CHECK_DEADLOCK FALSE
