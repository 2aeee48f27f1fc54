SPECIFICATION MCSpec
CONSTANTS
    Nodes <- MCNodes
    Starts <- MCStarts
    Durations <- MCDurations
    Root = 2
    NoNode = NoNode
    Allowance = 3
    Ops = {a, b}
INVARIANTS TimeConserved CallPathTimes ProfilesAgree SelfTimeBounded
SYMMETRY MCSymmetry
CHECK_DEADLOCK FALSE
