CONSTANTS
    stdout = stdout
    t1 = t1
    Writers <- OneStream
    Tailers <- MCTailers
    Capacity = 3
    MaxLines = 9

SPECIFICATION
    FairSpec

\* A unit may log no more.
CHECK_DEADLOCK FALSE

INVARIANTS
    TypeOK
    ReadReturnsNewest

PROPERTIES
    DeliversTheLineOrIsLapped
    EndsAfterTheLastLine
    TailersEnd
