CONSTANTS
    SuccessThreshold <- MCSuccessThreshold
    FailureThreshold <- MCFailureThreshold
    ResultsSize = 2
    Configs <- MCConfigs
    MaxBackOff = 1
    MaxRestarts = 2

SPECIFICATION
    FairSpec

\* The helper ends when the loop gives up, and the bound ends it too.
CHECK_DEADLOCK FALSE

INVARIANTS
    TypeOK
    ReadyOnlyWhileRunning

PROPERTIES
    
    ReportsMeetThreshold
    UnreadyIsNoticed
    UnlivelyIsEnded
