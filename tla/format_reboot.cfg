\* Durations as short as the assumptions allow; the property is the message of
\* format-storage.
CONSTANTS
    Short = 1
    Medium = 1
    Hold = 3
    Verify = 2
    Watchdog = 27
    RebootDelay = 2
    Pause = 1
    Judge = 1
    Prompt = 1
    Paste = 2
    Connect = 1
    Sync = 1
    Lights = 1
    Save = 1
    Import = 1
    Output = 1
    MaxAway = 21
SPECIFICATION Spec
PROPERTIES
    FormatReboots
