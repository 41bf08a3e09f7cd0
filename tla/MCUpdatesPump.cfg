SPECIFICATION Spec
CONSTANTS
  Buffer = 2
  MaxUpdates = 5
  MaxRuns = 2
INVARIANTS
  TypeOK
  EachOnceInOrder
  ClearOutrun
PROPERTIES
  LateHandled
  StopEnds
