SPECIFICATION Spec
CONSTANTS
    Manifest <- MCManifest
    Commands <- MCCommands
    LocalDeps <- MCLocalDeps
    Here = "."
    Regular <- MCRegular
    NoVersion = "?"
    Concurrency = 1
    MaxCommands = 2
    MaxStack = 8
    MaxFaults = 1
INVARIANTS CleanInstallIsWhole CachedIsWhole MissingIsReported NoUseAfterFree NotWithinItself
PROPERTY OnlyLoadsOverwrite
CHECK_DEADLOCK FALSE
