SPECIFICATION Spec
CONSTANTS
    c1 = c1
    c2 = c2
    s1 = s1
    Counters <- MCCounters
    Software <- MCSoftware
    Registers = 1
    Rates = {1, 3}
    MaxSlices = 3
    MaxBegins = 2
    Billion = 3
    Settings <- MCSettings
    Rubbish <- MCRubbish
    MaxNow = 5
    MaxSettings = 2
    MaxCalls = 2
    BtLines <- MCBtLines
    BtDashed <- MCBtDashed
    BtNumber <- MCBtNumber
    ArgLines <- MCArgLines
    Dashes2 <- MCDashes2
    Dash1 <- MCDash1
    OnlyDashes = {"--", ""}
    TooLong = {"long"}
    Trimmed <- MCTrimmed
    ParameterLists <- MCParameterLists
    MaxLength = 4
SYMMETRY MCSymmetry
INVARIANTS
    LibraryTypeOK
    PinnedAllOrNothing
    ReadingBracketed
    ErrorIsTheSetting
    StaleLapNotPositive
    BtimeFaithful
    EveryWordPlaced
    CallbacksInOrder
