SPECIFICATION Spec
CONSTANTS
    Threads = {t1, t2}
    None = None
    Funcs = {f, g}
    RetVals = {ok}
    Ret = NoRet
    NoRet = NoRet
    Number = 1
    LowerBound = 0
    Width = 4
    Buckets = 2
    Interval = 1
    Duration = 2
    MaxTime = 4
    MaxCalls = 3
    MaxDepth = 2
INVARIANTS OnlyInnermost NoneMissed TablesAgree
SYMMETRY MCSymmetry
CHECK_DEADLOCK FALSE
