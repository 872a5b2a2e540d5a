CONSTANTS
    Kinds = {"in"}
    MaxMsg = 1
    MayClose = FALSE
SPECIFICATION FairSpec
PROPERTIES OnOpenIsCalled
\* all threads may be at rest: the remote peer need not act again
CHECK_DEADLOCK FALSE
