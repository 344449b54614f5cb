\* Crashes, missed deadlines, evictions, and recovery beside live sessions.
SPECIFICATION Spec
CONSTANTS
    left = left
    right = right
    Thimbles = {left, right}
    RefundLocktime = 3
    AliceTimeout = 3
    MaxEvictions = 2
    Faults = TRUE
    Operators = {"dealer", "player"}
    RecoverWhileLive = TRUE
SYMMETRY ThimbleSymmetry
INVARIANTS
    TypeOK
    RefundBeforeFunding
    RevealOnlyWhenLocked
    RecordBacked
    NeverDoneWhilePotLive
    VerdictFacts
PROPERTY
    RecordOnlyAdvances
