CONSTANTS
    h1 = h1
    h2 = h2
    a = a
    b = b
    i = i
    v1 = v1
    v2 = v2
    none = none
    Names <- MCNames
    Images <- MCImages
    Specs <- UpgradeSpecs
    Handlers <- TwoHandlers
    ChanSize = 1
    MaxUpdates = 4
    MaxFaults = 1
    NoImage = none

SPECIFICATION
    FairSpec

\* No update need ever arrive again, and the update loop then waits.
CHECK_DEADLOCK FALSE

PROPERTIES
    EveryUpdateIsApplied
    HandlersReturn
