CONSTANTS
  MODULUS = 8
  U64_MAX = 31
SPECIFICATION NumbersSpec
INVARIANTS
  UnwrapIsNearest
CHECK_DEADLOCK FALSE
