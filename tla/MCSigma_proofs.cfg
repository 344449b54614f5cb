\* Every proof of a setup, with right and wrong witnesses.
SPECIFICATION Spec
CONSTANTS
    Order = 5
    Scalar <- MCScalar
    Zero = 0
    One = 1
    Add <- MCAdd
    Neg <- MCNeg
    Mul <- MCMul
    Ped = 3
    ThimblePairs <- MCThimblePairs
CHECK_DEADLOCK FALSE
INVARIANTS
    SigmaTypeOK
    HonestVerifies
    AcceptedIsTrue
    OpensOrOneChallenge
    HidesBranch
