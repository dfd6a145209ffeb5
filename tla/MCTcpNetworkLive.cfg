CONSTANTS
  A = A
  B = B
  Endpoints <- MCEndpoints
  Clients <- MCClients
  ISN <- MCISN
  StreamLength <- MCBothWays
  SENDER_CAPACITY = 2
  RECEIVER_CAPACITY = 1
  MAX_FAULTS = 1
  MAX_RESETS = 1
  MAX_IN_NET = 2
  MODULUS = 16
  U64_MAX = 63
  U16_MAX = 3
  INITIAL_RTO = 1
  MAX_TIMER_INTERVAL = 1
  MAX_PAYLOAD_SIZE = 2
  RETX_MAX = 0
SPECIFICATION FairSpec
PROPERTIES
  WrittenIsRead
  ClosedFinishes
