\* Proposals, late answers, repeated decisions and stale frames on both sides.
SPECIFICATION Spec
CONSTANTS
    Node = {left, right}
    MaxProposals = 2
    MaxDecisions = 2
    MaxSettings = 1
SYMMETRY Interchangeable
CHECK_DEADLOCK FALSE
INVARIANTS
    AgentTypeOK
    PlayedOnce
    SignedTogether
    ConfigFollows
