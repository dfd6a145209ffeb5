CONSTANTS
  MODULUS = 8
  U64_MAX = 63
  INITIAL_RTO = 1
  MAX_TIMER_INTERVAL = 3
  MAX_PAYLOAD_SIZE = 2
  RETX_MAX = 2
  Capacity = 2
  StreamLength = 3
  Isn = 6
  Windows = {0, 1, 2, 4}
  Elapsed = {0, 1, 2}
SPECIFICATION Spec
INVARIANTS
  TypeOK
  QueueIsFlight
  SequenceAccounting
  TimerArmed
  NeverResendsAcknowledged
PROPERTY WindowRespected
