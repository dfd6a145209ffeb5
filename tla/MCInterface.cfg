CONSTANTS
  n1 = n1
  n2 = n2
  d1 = d1
  d2 = d2
  d3 = d3
  U64_MAX = 7
  ARP_CACHE_TTL = 3
  ARP_REQUEST_COOLDOWN = 2
  PENDING_DATAGRAM_TTL = 2
  BROADCAST = BROADCAST
  Datagrams = {d1, d2, d3}
  NextHop <- MCNextHop
  Neighbours = {n1, n2}
  Addresses = {e1, e2}
  OWN_IP = OWN_IP
  OWN_ETH = OWN_ETH
  OTHER_ETH = OTHER_ETH
  INCOMING = INCOMING
  Elapsed = {1, 2}
  MAX_QUEUE = 1
SPECIFICATION FairSpec
INVARIANTS
  NothingStranded
PROPERTIES
  WaitingEnds
  OneRequestPerCooldown
  SentAsTold
