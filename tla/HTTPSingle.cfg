SPECIFICATION FairSpec
CONSTANTS
    Clients = {"a", "b"}
    Request <- MCPrivate
    Kind <- MCKind
    Size <- MCLargeSize
    MAX_WORKERS = 1
    MAX_EVENTS = 2
    NFds = 3
    SendBuffer = 1
    Impatient = {"a", "b"}
    Volatile = {"/file"}
    Slow = {"a"}
INVARIANTS SavedIsWhole
PROPERTIES NobodyWaitsForever DescriptorsAreFreed
