CONSTANTS
    KeyIdMax = 1
    TypedIds <- MCTypedIds
    Names <- MCNames
    Secrets <- MCSecrets
    ZeroName = "z"
    ZeroSecret = "z"
    Networks <- MCNetworks
    Backups <- MCBackups
    IgnoredCloses = FALSE
    IgnoredDeletes = FALSE
    CorruptTouched = FALSE
SPECIFICATION Spec
INVARIANTS
    StoreInv
    ReplyIsTrue
    ImportLeavesAdmin
    ExportComplete
PROPERTIES
    UpdateKeepsSecrets
    ImplementsKeyMap
    StaysConfigured
