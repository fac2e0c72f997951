CONSTANTS
    h1 = h1
    h2 = h2
    Handlers <- MCHandlers
    Parameters <- MCParameters
    SessionKinds <- MCSessionKinds
    MaxPosts = 3
    MaxBreaks = 1
    MaxAgents = 2
    MaxLines = 3

SPECIFICATION
    Spec

\* The bounds end the updates, and sessions end.
CHECK_DEADLOCK FALSE

INVARIANTS
    TypeOK
    NetworkIsReady
    MasqueradesPodOnly
    OneNetworkAgent
    ExitCodeIsLast

PROPERTY
    SessionsEnd
