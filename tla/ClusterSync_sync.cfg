SPECIFICATION Spec
CONSTANTS
    Room = 3
    MaxChain = 2
    MaxEvents = 2
    MaxNet = 2
INVARIANTS TypeOK InSync
PROPERTY Converges
CHECK_DEADLOCK FALSE
