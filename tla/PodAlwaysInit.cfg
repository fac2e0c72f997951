CONSTANTS
    h1 = h1
    h2 = h2
    a = a
    b = b
    i = i
    v1 = v1
    v2 = v2
    none = none
    Names <- MCNames
    Images <- MCImages
    Specs <- AlwaysSpecs
    Handlers <- OneHandler
    ChanSize = 2
    MaxUpdates = 1
    MaxFaults = 0
    NoImage = none

SPECIFICATION
    FairSpec

\* No update need ever arrive again, and the update loop then waits.
CHECK_DEADLOCK FALSE

PROPERTIES
    SuccessfulInitUnitFinishes
