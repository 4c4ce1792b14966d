SPECIFICATION Spec
CONSTANTS
    Clients = {"a", "b"}
    Request <- MCPair
    Kind <- MCKind
    Size <- MCSize
    MAX_WORKERS = 2
    MAX_EVENTS = 2
    NFds = 4
    SendBuffer = 2
    Impatient = {}
    Volatile = {}
    Slow = {}
INVARIANTS MissingIs404
