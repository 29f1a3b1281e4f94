SPECIFICATION FairSpec
CONSTANTS
    free = free
    pro = pro
    Plan = {free, pro}
    Free = free
    Duration <- MCDuration
    User = {u1}
    Web = {w1, w2}
    Worker = {k1}
    SubId = {1, 2, 3, 4}
    None = None
    LeapDays = {1}
    MaxTime = 2
    MaxCalls = 2
    MaxCrashes = 1
PROPERTIES CallsReturn DueSwept
