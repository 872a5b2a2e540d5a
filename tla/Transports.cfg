CONSTANTS
    MaxTimers = 1
SPECIFICATION FairSpec
INVARIANTS ClosedIsLast TargetIsAlive NoLostWakeup
PROPERTIES CloseEnds
\* a connection may stay as it is
CHECK_DEADLOCK FALSE
