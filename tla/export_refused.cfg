CONSTANTS
    HeaderLen = 4
    KeyLen = 11
    MaxKeys = 3
    LineMax = 23
    ConfirmLen = 3
    Quads <- MCQuads
    MaxSent = 60
SPECIFICATION Spec
CHECK_DEADLOCK FALSE
INVARIANTS
    ExportsComeBack
