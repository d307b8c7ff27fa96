SPECIFICATION Spec
CONSTANTS
    Handles = {h1, h2, h3}
    Fds = {f1, f2, f3}
    NoFd = NoFd
    MaxCount = 2
INVARIANTS
    ExclusiveOwnership
    FlagsAgree
SYMMETRY Symmetry
PROPERTIES
    ClosesOnlyOwn
    IsMeters
