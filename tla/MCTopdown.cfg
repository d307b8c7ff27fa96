SPECIFICATION TdSpec
CONSTANTS
    NCounters = 3
    Options <- MCOptions
    Ms = 1
    Grace = 1
    MaxWork = 2
    MaxKinWork = 1
    MaxElapsed = 2
    MaxRuns = 2
INVARIANTS
    FractionsExact
