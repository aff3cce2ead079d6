SPECIFICATION TvFairSpec
CONSTANTS
    p1 = p1
    p2 = p2
    c1 = c1
    Pairings = {p1, p2}
    Callers = {p1, p2, c1}
    None = None
    MaxCrashes = 1
INVARIANTS
    VerifiedIsItself
    AcceptedPinArrives
PROPERTIES
    VerdictIsFinal
    LockReleased
CHECK_DEADLOCK FALSE
