SPECIFICATION Spec
CONSTANTS
    a = a
    b = b
    c = c
    NoWord = NoWord
    Vocabulary <- Vocabulary32
    Words <- Words3
    Hash <- Hash3
    DefaultSize = 2
    Rands = {3}
    Cnts = {0, 1}
    MaxCnt = 2
INVARIANTS
    StoredIsFound
    RoomForEveryWord
PROPERTIES
    CounterSpec
