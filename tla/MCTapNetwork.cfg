CONSTANTS
  Malformed = Malformed
  BROADCAST = BROADCAST
  K1 = K1
  K2 = K2
  LocalMac = LocalMac
  LocalIp = LocalIp
  PeerIp = PeerIp
  LocalPort = 1
  PeerPort = 2
  PeerMacs <- MCPeerMacs
  Lines <- MCLines
  LocalIsn <- MCLocalIsn
  PeerIsn = 5
  SENDER_CAPACITY = 1
  PEER_WINDOW = 2
  MAX_FAULTS = 2
  MAX_IN_NET = 2
  ARP_CACHE_TTL = 3
  ARP_REQUEST_COOLDOWN = 2
  PENDING_DATAGRAM_TTL = 2
  MODULUS = 16
  U64_MAX = 63
  U16_MAX = 3
  INITIAL_RTO = 1
  MAX_TIMER_INTERVAL = 2
  MAX_PAYLOAD_SIZE = 1
  RETX_MAX = 0
SPECIFICATION FairSpec
INVARIANT EndMeansAll
PROPERTIES
  RetransmissionIsHeld
  AcceptedArrives
CHECK_DEADLOCK FALSE
