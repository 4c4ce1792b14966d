SPECIFICATION Spec
CONSTANTS
    Length = 3
    MaxWords = 5
    MaxCnt = 4
    AddressLists <- MCAddressLists
    Banners <- MCBanners
    Answers <- MCAnswers
    MAX_BUFFER_LEN = 4
    Texts <- MCTexts
    Inputs <- MCInputs
    RecordSize = 2
    HeaderSize = 3
    UINT16_MAX = 3
INVARIANTS UpperPlacesRight AnswerIsPrinted TextIsKept EntriesAreListed
PROPERTIES TelnetEnds
CHECK_DEADLOCK FALSE
