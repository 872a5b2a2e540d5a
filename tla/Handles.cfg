CONSTANTS
  Libs = {t1, t2}
  MaxId = 3
  CleanupRaces = FALSE
SYMMETRY Symmetry
SPECIFICATION Spec
INVARIANTS NoFreedPointer PointerIsOwn NoOrphan
CHECK_DEADLOCK FALSE
