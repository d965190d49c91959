\* Two fingers; contacts bounce for as long as the debouncer waits.
CONSTANTS
    KeyMap <- MCKeyMap
    DigitValue <- MCDigitValue
    MinLen = 2
    MaxLen = 3
    CodeLen = 1
    Debounce = 1
    Bounce = 1
    Fingers = 2
SPECIFICATION Spec
INVARIANTS
    BufferIsTyped
PROPERTIES
    ReportedOnce
    EntryIsTyped
    HeldKeyReported
