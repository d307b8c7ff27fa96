SPECIFICATION Spec
CONSTANTS
    Words <- MCWords
    Dashed <- MCDashed
    First <- MCFirst
    Sign <- MCSign
    Digits <- MCDigits
    Items <- MCItems
    Known <- MCKnown
    MetricOf <- MCMetricOf
    NameMax = 3
    LongMax = 63
    IntMax = 15
    CommandLines <- MCEventLines
    Times <- MCTimes
    Explored <- MCEventLines
INVARIANTS
    FlagsHeededWithEvents
