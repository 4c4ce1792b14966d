SPECIFICATION PidSpec
CONSTANTS
    Daemons = {"d1"}
    Faults = FALSE
    MaxHangups = 1
INVARIANT PIDFileNamesTheDaemon
CHECK_DEADLOCK FALSE
