CONSTANTS
    a = a
    b = b
    i = i
    v1 = v1
    v2 = v2
    v3 = v3
    disk = disk
    mem = mem
    sec = sec
    path = path
    Names <- MCNames
    Images <- MCImages
    Templates <- MCTemplates
    Volumes <- MCVolumes
    Requests <- MCRequests
    Specs <- MCSpecs
    Sources <- MCSources
    MaxUpdates = 3
    MaxFaults = 1

SPECIFICATION
    Spec

\* The bound on the updates ends the run, and so does a crash.
CHECK_DEADLOCK FALSE

INVARIANTS
    TypeOK
    UnitsAreDeployed

PROPERTIES
    VolumesSurviveUnits
    CrashNeedsRemovedUnit
