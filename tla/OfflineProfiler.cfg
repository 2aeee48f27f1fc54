SPECIFICATION Spec
CONSTANTS
    Pids = {p1, p2}
    NoPid = NoPid
    Protocols <- MCProtocols
    Workloads = 2
    WrkLife = 10
    MaxRuns = 3
INVARIANTS AtMostOneWrk MeasuredUnderLoad SavedProfileComplete CleanExit SpinnersFromAborts
PROPERTY RunEnds
CHECK_DEADLOCK FALSE
