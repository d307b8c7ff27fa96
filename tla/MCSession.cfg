SPECIFICATION Spec
CONSTANTS
    Words <- MCWords
    Dashed <- MCDashed
    First <- MCFirst
    Sign <- MCSign
    Digits <- MCDigits
    Items <- MCItems
    Known <- MCKnown
    MetricOf <- MCMetricOf
    NameMax = 3
    LongMax = 63
    IntMax = 15
    CommandLines <- MCCommandLines
    Times <- MCTimes
    Explored <- MCExplored
INVARIANTS
    TypeOK
    ParsedAsMeant
    NumbersArrive
    ListedEvents
    CountersAsAsked
    RankedReport
    ReportAsAsked
    AllOrNothing
    BlockUnderItsRow
    ReportComplete
    StatsEnclose
