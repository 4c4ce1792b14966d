SPECIFICATION Spec
CONSTANTS
    Clients = {"a", "b"}
    Request <- MCFiles
    Kind <- MCTwoKinds
    Size <- MCTwoSizes
    MAX_WORKERS = 2
    MAX_EVENTS = 2
    NFds = 3
    SendBuffer = 2
    Impatient = {"a", "b"}
    Volatile = {"/file"}
    Slow = {}
INVARIANTS OneOwner NoStrangerServed AnswersAreWhole
PROPERTIES OneThreadPerSlot
