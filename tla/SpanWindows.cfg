SPECIFICATION Spec
CONSTANTS
    Nodes <- MCNodes
    Times <- MCTimes
    Root = 2
    NoNode = NoNode
INVARIANTS TypeOK WindowsConsistent ChildrenFit LinksAgree ShrinkAccounted
PROPERTIES CalledWindowsFrozen Termination
CHECK_DEADLOCK FALSE
