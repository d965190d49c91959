CONSTANTS
    KeyIdMax = 1
    TypedIds <- MCTypedIds
    Names <- MCNames
    Secrets <- MCSecrets
    ZeroName = "z"
    ZeroSecret = "z"
    Networks <- MCNetworks
    Backups <- MCBackups
    IgnoredCloses = FALSE
    IgnoredDeletes = FALSE
    CorruptTouched = TRUE
SPECIFICATION Spec
PROPERTIES
    UpdateKeepsSecrets
