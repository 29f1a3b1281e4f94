SPECIFICATION Spec
CONSTANTS
    free = free
    pro = pro
    Plan = {free, pro}
    Free = free
    User = {u1}
    Proc = {w1, w2}
    Token = {1, 2, 3}
    None = None
    Lifetime = 1
    MaxTime = 0
    MaxChanges = 0
    MaxCrashes = 0
PROPERTIES RevokedSessionDead
CHECK_DEADLOCK FALSE
