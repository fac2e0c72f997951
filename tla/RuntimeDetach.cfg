CONSTANTS
    a = a
    b = b
    i = i
    v1 = v1
    v2 = v2
    v3 = v3
    disk = disk
    mem = mem
    sec = sec
    path = path
    Names <- MCNames
    Images <- MCImages
    Templates <- MCTemplates
    Volumes <- MCVolumes
    Requests <- MovedRequests
    Specs <- MCSpecs
    Sources <- MCSources
    MaxUpdates = 4
    MaxFaults = 0

SPECIFICATION
    Spec

\* The bound on the updates ends the run, and so does a crash.
CHECK_DEADLOCK FALSE

INVARIANT
    MountsAreDetachedFirst
