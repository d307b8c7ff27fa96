SPECIFICATION Spec
CONSTANTS
    NCounters = 1
    Options <- MCDelayOptions
    Ms = 2
    Grace = 1
    MaxWork = 1
    MaxKinWork = 1
    MaxElapsed = 2
INVARIANTS
    DelayHoldsCounters
