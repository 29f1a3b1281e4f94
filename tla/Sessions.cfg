SPECIFICATION Spec
CONSTANTS
    free = free
    pro = pro
    Plan = {free, pro}
    Free = free
    User = {u1}
    Proc = {w1, w2}
    Token = {1, 2, 3}
    None = None
    Lifetime = 1
    MaxTime = 1
    MaxChanges = 1
    MaxCrashes = 1
SYMMETRY MCSymmetry
INVARIANTS TypeOK SuccessorsBounded DevicesListed SpentForSuccessor ClaimsCurrent RevokedIffAsked
CHECK_DEADLOCK FALSE
