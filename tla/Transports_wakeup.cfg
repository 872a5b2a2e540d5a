\* a worker that tests and then sleeps, against notifications without the mutex
CONSTANTS
    MaxTimers = 0
SPECIFICATION FairSpec
PROPERTIES WorkerIsReleased
CHECK_DEADLOCK FALSE
