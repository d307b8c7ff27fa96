SPECIFICATION FairSpec
CONSTANTS
    NCounters = 2
    Options <- MCOptions
    Ms = 2
    Grace = 1
    MaxWork = 2
    MaxKinWork = 1
    MaxElapsed = 6
INVARIANTS
    TypeOK
    NoEarlyExec
    CompleteCount
    SkewOrdered
    SigpipeOnlyIfChildDied
    KilledTakesTimeout
    ReapedBeforeRead
PROPERTIES
    SignalsOwnChild
    IsMeasurement
    ChildReleased
    TimeoutReturns
