\* Durations in the order of the real ones but closer together; a grant and a doorbell
\* just fit the watchdog, a flash operation takes one tick.
CONSTANTS
    Short = 1
    Medium = 2
    Hold = 13
    Verify = 3
    Watchdog = 33
    RebootDelay = 2
    Pause = 1
    Judge = 1
    Prompt = 3
    Paste = 7
    Connect = 3
    Sync = 3
    Lights = 1
    Save = 2
    Import = 2
    Output = 1
    MaxAway = 40
SPECIFICATION Spec
INVARIANTS
    TimingInv
    FedInTime
    PulseBounded
    AwayBounded
PROPERTIES
    TimeoutMeansLate
