CONSTANTS
  Messages <- MCMessages
  Exposed <- MCExposed
  PaddingBytes = {0, 255}
  WrongBytes <- MCWrongBytes
  PAD_MAX = 3
  U64_MAX = 0
SPECIFICATION Spec
INVARIANTS
  SentIsReceived
  DamageIsRefused
  ChecksumInPieces
CHECK_DEADLOCK FALSE
