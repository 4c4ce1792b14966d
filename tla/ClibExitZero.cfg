SPECIFICATION Spec
CONSTANTS
    Manifest <- MCManifest
    Commands <- MCCommands
    LocalDeps <- MCLocalDeps
    Here = "."
    Regular <- MCRegular
    NoVersion = "?"
    Concurrency = 1
    MaxCommands = 1
    MaxStack = 8
    MaxFaults = 1
INVARIANT FailedInstallationExitsNonZero
CHECK_DEADLOCK FALSE
