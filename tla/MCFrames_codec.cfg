\* Every message, cut at every byte, in front of every reader.
SPECIFICATION Spec
CONSTANT Lengths <- MCLengths
CHECK_DEADLOCK FALSE
INVARIANTS
    FramesTypeOK
    ReadsOwnFrames
    NeverMisread
    WholeOrNothing
