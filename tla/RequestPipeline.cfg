SPECIFICATION Spec
CONSTANTS
    alice = alice
    bob = bob
    free = free
    pro = pro
    anon = anon
    User = {alice, bob}
    Plan = {free, pro}
    Staff = {bob}
    PlanOf <- MCPlanOf
    Free = free
    Anon = anon
    Rate <- MCRate
    Window = 2
    Sent <- MCSent
    Bad = Bad
    None = None
    Proc = {w1, w2}
    MaxTime = 2
    MaxRequests = 3
SYMMETRY MCSymmetry
INVARIANTS TypeOK RateKept LoggedRight
PROPERTIES RefusalsEarned
CHECK_DEADLOCK FALSE
