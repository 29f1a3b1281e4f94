SPECIFICATION Spec
CONSTANTS
    free = free
    pro = pro
    Plan = {free, pro}
    Free = free
    Duration <- MCDuration
    User = {u1}
    Web = {w1, w2}
    Worker = {k1, k2}
    SubId = {1, 2, 3, 4, 5, 6}
    None = None
    LeapDays = {1}
    MaxTime = 2
    MaxCalls = 3
    MaxCrashes = 1
SYMMETRY MCSymmetry
INVARIANTS TypeOK AtMostOneActive PlanKept WaitsEnd
PROPERTIES ClosedStaysClosed EndsForAReason FreeUnlessSubscribed ImplementsLedger
