SPECIFICATION FairSpec
CONSTANTS
    NThreads = 3
    FilesN = 2
    LineCount <- Length33
    NoSize <- BadSize
    NoReferer <- BadReferer
    ReadErrors = {2}
    LOGS_BUFFER_LIMIT = 2
INVARIANTS PrintedIsComplete IndInv
PROPERTIES ReadUnderLock FinishedIsFinal CountingSpec 
