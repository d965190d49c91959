\* Three attempts, four key states, three clock states.
CONSTANTS
    Ids <- MCIds
    Codes <- MCCodes
    KeyStates <- MCKeyFiles
    ClockStates <- MCClockStates
    SeqMod = 8
    MaxAttempts = 3
SPECIFICATION Spec
INVARIANTS
    HandshakeInv
    LatchOnlyWhileHeld
PROPERTIES
    VerdictStableUnderReader
    SingleShot
    ImplementsDoorAccess
    AttemptEnds
    RequestServed
