\* Two threads and the application's own; finalize and initialize may happen once.
CONSTANTS
    Threads = {t1, t2}
    App = App
    Nobody = Nobody
    MaxEvents = 2
    MaxFinalize = 1
SPECIFICATION FairSpec
INVARIANTS ListIntact TokenFindsNode
PROPERTIES RefinesChannel QueuedIsDelivered
\* finalize under a running callback ends the process
CHECK_DEADLOCK FALSE
