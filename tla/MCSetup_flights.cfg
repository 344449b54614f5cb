\* The setup and the reveal, with equal and with different terms.
SPECIFICATION Spec
CONSTANTS
    Order = 5
    Scalar <- MCScalar
    Zero = 0
    Add <- MCAdd
    Neg <- MCNeg
    Pad <- MCPad
    Locktimes = {1, 2}
    Timeouts = {1, 2}
    Addresses = {1, 2}
CHECK_DEADLOCK FALSE
INVARIANTS
    SetupTypeOK
    OneMessagePerNonce
    SameTransactions
    OutcomeRevealed
