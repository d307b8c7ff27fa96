SPECIFICATION TdFairSpec
CONSTANTS
    NCounters = 2
    Options <- MCTimeoutOptions
    Ms = 1
    Grace = 1
    MaxWork = 1
    MaxKinWork = 0
    MaxElapsed = 2
    MaxRuns = 1
PROPERTIES
    TimeoutEndsWait
