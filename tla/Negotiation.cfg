CONSTANTS
    Peers = {"a", "b"}
    Tracks = {"t"}
    MaxDesc = 4
    MaxCand = 1
    MaxBad = 1
SPECIFICATION Spec
INVARIANTS RolesOpposite PairedWhenQuiet CandidatesArrive
CHECK_DEADLOCK FALSE
