CONSTANTS
  U64_MAX = 7
  ARP_CACHE_TTL = 3
  ARP_REQUEST_COOLDOWN = 2
  PENDING_DATAGRAM_TTL = 2
  BROADCAST = BROADCAST
  ADDRESS_BITS = 2
  MAX_ROUTES = 3
SPECIFICATION TableSpec
INVARIANT LongestPrefixFirst
CHECK_DEADLOCK FALSE
