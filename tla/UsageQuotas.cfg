SPECIFICATION Spec
CONSTANTS
    free = free
    pro = pro
    enterprise = enterprise
    Plan = {free, pro, enterprise}
    Limit <- MCLimit
    Duration <- MCDuration
    User = {u1}
    Proc = {w1, w2}
    SubId = {1, 2}
    QuotaId = {1, 2, 3, 4, 5}
    None = None
    Month = 3
    FiftyYears = 4
    MaxTime = 4
    MaxRequests = 4
SYMMETRY MCSymmetry
INVARIANTS TypeOK OvershootBounded ChargedToSubscription NoLostIncrements RotationsBounded
CHECK_DEADLOCK FALSE
