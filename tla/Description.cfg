SPECIFICATION Spec
CONSTANTS
  Foreign <- MCForeign
  Own <- MCOwn
  DynamicTypes = {96, 97, 98}
  SSRCs = {1, 12}
  MaxEdits = 3
CHECK_DEADLOCK FALSE
INVARIANTS PeerReadsTheSame RtxHasPrimary 
