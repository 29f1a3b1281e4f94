SPECIFICATION Spec
CONSTANTS
    alice = alice
    bob = bob
    free = free
    pro = pro
    anon = anon
    User = {alice, bob}
    Plan = {free, pro}
    Staff = {bob}
    PlanOf <- MCPlanOf
    Free = free
    Anon = anon
    Rate <- MCRate
    Window = 1
    Sent <- MCSentToken
    Bad = Bad
    None = None
    Proc = {w1, w2}
    MaxTime = 1
    MaxRequests = 3
INVARIANTS ThrottledByOwnPlan
CHECK_DEADLOCK FALSE
