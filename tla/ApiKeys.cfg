SPECIFICATION Spec
CONSTANTS
    free = free
    pro = pro
    Plan = {free, pro}
    MaxKeys <- MCMaxKeys
    MostKeys = 2
    User = {u1}
    Proc = {w1, w2, w3}
    Killable = {w1, w2, w3}
    KeyId = {1, 2, 3, 4, 5}
    None = None
    MaxTime = 1
    MaxCalls = 5
    MaxPlanChanges = 2
SYMMETRY MCSymmetry
INVARIANTS TypeOK KeysBounded
PROPERTIES ImplementsKeyRing RevokedForAReason
CHECK_DEADLOCK FALSE
