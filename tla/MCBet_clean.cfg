\* No crash, no missed deadline, no eviction.
SPECIFICATION FairSpec
CONSTANTS
    left = left
    right = right
    Thimbles = {left, right}
    RefundLocktime = 2
    AliceTimeout = 2
    MaxEvictions = 0
    Faults = FALSE
    Operators = {}
    RecoverWhileLive = FALSE
PROPERTIES
    CleanLossConceded
    CleanWinPaid
