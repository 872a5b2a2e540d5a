SPECIFICATION Spec
CONSTANTS
    Roles = {"client", "server"}
    Stacks <- MCStacks
    Addresses = 1
    SndBuf = 1
    MaxSend = 2
    MaxIn = 2
    MaxPings = 1
    Heard <- MCHeard
INVARIANTS StreamInOrder ClosedKeepsNothing 
CHECK_DEADLOCK FALSE
