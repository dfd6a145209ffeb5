CONSTANTS
  U64_MAX = 7
  Capacity = 5
  MaxIndex = 8
SPECIFICATION Spec
INVARIANTS
  TypeOK
  OutputInOrder
  PendingSorted
  JointlyWithinCapacity
  NothingWithheld
PROPERTIES
  ClosedIsFinal
  ImplementsByteAssembly
