CONSTANTS
    Objects = {o1, o2}
    Workers = {w1, w2}
    first = o1
    MaxTasks <- MCMaxTasks
    MaxCleanup = 1
SPECIFICATION FairSpec
INVARIANTS JoinFindsIdle
PROPERTIES RunsSerially GivenIsRun CleanupEnds
\* nobody need use the library
CHECK_DEADLOCK FALSE
