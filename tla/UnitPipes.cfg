CONSTANTS
    MaxStarts = 2
    MaxRemovals = 1

SPECIFICATION
    FairSpec

\* A unit that nobody starts or removes any more stays as it is.
CHECK_DEADLOCK FALSE

INVARIANTS
    TypeOK
    TrackedUntilReaped

PROPERTIES
    CallersReturn
    UndisturbedReaderEnds
    UndisturbedHelperConnects
