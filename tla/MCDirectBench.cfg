SPECIFICATION Spec
CONSTANTS
    NCounters = 3
    Settings <- MCSettings
    MaxWork = 3
    MaxSettings = 1
INVARIANTS
    CountsTheRest
    EarlierSeesMore
    
    TimeCoversCounts
PROPERTIES
    AttachesOwnChild
