CONSTANTS
    h1 = h1
    h2 = h2
    a = a
    b = b
    i = i
    v1 = v1
    v2 = v2
    none = none
    Names <- MCNames
    Images <- MCImages
    Specs <- AllSpecs
    Handlers <- OneHandler
    ChanSize = 2
    MaxUpdates = 3
    MaxFaults = 1
    NoImage = none

SPECIFICATION
    Spec

\* No update need ever arrive again, and the update loop then waits.
CHECK_DEADLOCK FALSE

INVARIANTS
    TypeOK
    OnlyNewestStarterRuns
    LatestUpdateNotLost
    DeployedMatchesStatus
    ReplacedUnitsAreMarked
    AbortedStartIsReported

PROPERTIES
    TakesLatestUpdates
    InitUnitsFinishFirstUnlessFaulty
    UnitsStartFromTheirImage
