CONSTANTS
    MaxChans = 2
    MaxMsgs = 2
    MaxStream = 1
    SndBuf = 1
    Senders = {"a"}
    Stoppers = {"a"}
    MayRace = FALSE
SPECIFICATION Spec
INVARIANTS  AmountIsExact    LowIsReported
\* the application need not act
CHECK_DEADLOCK FALSE
