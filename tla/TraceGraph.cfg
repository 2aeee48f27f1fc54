SPECIFICATION Spec
CONSTANTS
    a = a
    b = b
    c = c
    SpanIds <- MCSpanIds
    NoNode = NoNode
    MaxSpans = 4
    RefLists <- MCRefLists
INVARIANTS TreeBelowRoot NoMatchMissed OutermostMatch
PROPERTY Termination
CHECK_DEADLOCK FALSE
