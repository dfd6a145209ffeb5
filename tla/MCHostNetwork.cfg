CONSTANTS
  A = A
  B = B
  C = C
  Malformed = Malformed
  Hosts <- MCHosts
  Clients <- MCClients
  Port <- MCPort
  ISN <- MCISN
  StreamLength <- MCStreamLength
  Stray <- MCStray
  SENDER_CAPACITY = 1
  RECEIVER_CAPACITY = 1
  MAX_STRAY = 1
  MAX_FAULTS = 1
  MAX_IN_NET = 2
  MODULUS = 16
  U64_MAX = 63
  U16_MAX = 3
  INITIAL_RTO = 1
  MAX_TIMER_INTERVAL = 1
  MAX_PAYLOAD_SIZE = 1
  RETX_MAX = 0
SPECIFICATION FairSpec
INVARIANTS
  UntouchedByOthers
  AssembledIsShown
  AnsweredOnce
PROPERTY WrittenIsShown
