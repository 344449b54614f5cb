\* Recovery waits for the session; one operator, either party's, keeps
\* recovering.
SPECIFICATION FairSpec
CONSTANTS
    left = left
    right = right
    Thimbles = {left, right}
    RefundLocktime = 3
    AliceTimeout = 3
    MaxEvictions = 2
    Faults = TRUE
    Operators = {"dealer", "player"}
    RecoverWhileLive = FALSE
INVARIANT
    OutcomeAgreement
PROPERTIES
    ImplementsFairBet
    SessionsEnd
    PotNotStranded
