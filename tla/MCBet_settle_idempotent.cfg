\* bet.rs: "settle() is idempotent".
SPECIFICATION Spec
CONSTANTS
    left = left
    right = right
    Thimbles = {left, right}
    RefundLocktime = 2
    AliceTimeout = 2
    MaxEvictions = 0
    Faults = TRUE
    Operators = {"dealer", "player"}
    RecoverWhileLive = FALSE
INVARIANT SettleIsIdempotent
