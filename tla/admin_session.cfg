\* Both builds of console_task.
CONSTANTS
    IdleTimeout = 2
    BypassWindow = 1
    Builds = {TRUE, FALSE}
    MaxNow = 6
SPECIFICATION Spec
INVARIANTS
    HonouredIsFresh
    ClosedWhenDetached
