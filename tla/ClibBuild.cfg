SPECIFICATION FairSpec
CONSTANTS
    Package <- MCPackage
    Commands <- MCCommands
    Cwd = "cwd"
    Dot = "."
    Relative <- MCRelative
    Regular <- MCRegular
    Concurrency = 2
    MaxMissing = 1
INVARIANTS AllAreHandled NotBelowItself NoOrphans
PROPERTIES BuildEnds
CHECK_DEADLOCK FALSE
