\* Two players find each other beside a bystander, and talk.
SPECIFICATION Spec
CONSTANTS
    a = a
    b = b
    other = other
    Node = {a, b, other}
    Babilonia = {a, b}
    NoNode = NoNode
    NoLink = NoLink
    Host <- MCHost
    Connections <- MCConnections
    Budget = 2
    MaxFrames = 2
    MaxNoise = 3
CHECK_DEADLOCK FALSE
INVARIANTS
    LinkTypeOK
    RegisteredBack
PROPERTIES
    ImplementsChannel
    Meets
