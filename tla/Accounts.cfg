SPECIFICATION FairSpec
CONSTANTS
    e1 = e1
    e2 = e2
    Email = {e1, e2}
    Web = {w1, w2}
    Worker = {k1}
    Id = {1, 2, 3, 4, 5}
    Earlier <- MCEarlier
    None = None
    MaxRetries = 1
    MaxFaults = 2
INVARIANTS TypeOK OneAccountPerEmail MailedTokensStored VerifiedIffUsed ResetsBounded PasswordGone
PROPERTIES MailArrives
CHECK_DEADLOCK FALSE
