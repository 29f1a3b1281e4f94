SPECIFICATION FairSpec
CONSTANTS
    e1 = e1
    e2 = e2
    Email = {e1}
    Web = {w1}
    Worker = {k1}
    Id = {1}
    Earlier <- MCNobody
    None = None
    MaxRetries = 1
    MaxFaults = 0
PROPERTIES RegistrationMailed
CHECK_DEADLOCK FALSE
