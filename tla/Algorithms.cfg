SPECIFICATION Spec

CONSTANTS
    ChunkSize = 2
    MaxBufferSize = 5
    FileBytesLimit = 4
    GrowTries = 2
    ResizeTries = 2
    AllCapabilities = {"chown", "kill", "net"}
    PortSpan = 8
    MaxPid = 4
    MaxFile = 7
    MaxLines = 3
    MaxBytes = 6
    Names = {"a", "b", "c"}
    MaxEntries = 3
    MaxEnv = 2
    Tasks <- MCTasks

\* A computation ends with its result.
CHECK_DEADLOCK FALSE

INVARIANTS
    KillersReachTheTree
    FilesArriveWhole
    UnitsRunAsConfigured
