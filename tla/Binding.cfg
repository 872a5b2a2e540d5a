CONSTANTS
    Kinds = {"early", "late", "in"}
    MaxMsg = 3
    MayClose = TRUE
SPECIFICATION FairSpec
INVARIANTS ClosedOnce NoDuplicate EarlyInOrder
PROPERTIES ClosedIsReported MessageIsReported EarlyOnOpen
\* all threads may be at rest: the remote peer need not act again
CHECK_DEADLOCK FALSE
