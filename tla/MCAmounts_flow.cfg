\* The money of a bet, with the usual fee floor.
SPECIFICATION Spec
CONSTANTS
    Dust = 6
    MinRelayFee = 4
    MaxStake = 12
    MaxFee = 6
    MaxInput = 50
    Stakes <- MCStakes
    Fees <- MCFees
    Inputs <- MCInputs
CHECK_DEADLOCK FALSE
INVARIANTS
    AmountsTypeOK
    NoExitTooSmall
    SettlementRelayed
    FinalBalances
