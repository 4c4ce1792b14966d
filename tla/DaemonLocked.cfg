SPECIFICATION FairSpec
CONSTANTS
    Daemons = {"d1", "d2"}
    Servers = {"s1"}
    Faults = TRUE
    MaxHangups = 1
    MaxSize = 2
    MaxChanges = 2
    Growing = TRUE
    Removable = TRUE
    WORD = 2
    MAX_MSG_LENGTH = 4
    BACKLOG = 1
INVARIANTS OneDaemon PIDFileIsFresh Framing InOrder ServerKnowsTheSize
PROPERTIES OnlyALiveDaemonBlocks ChangesArePrinted EveryoneIsServed
CHECK_DEADLOCK FALSE
