CONSTANTS
  H1 = H1
  H2 = H2
  R1 = R1
  R2 = R2
  Hosts = {H1, H2}
  Routers = {R1, R2}
  InterfacesOf <- MCInterfacesOf
  RoutesOf <- MCRoutesOf
  LinkOf <- MCLinkOf
  Gateway <- MCGateway
  Datagrams <- MCDatagrams
  Source <- MCSource
  U64_MAX = 7
  ARP_CACHE_TTL = 3
  ARP_REQUEST_COOLDOWN = 2
  PENDING_DATAGRAM_TTL = 2
  BROADCAST = "broadcast"
  ADDRESS_BITS = 3
  MAX_SENT = 1
SPECIFICATION FairSpec
INVARIANTS
  NeverDuplicated
  DeliveredToDestination
PROPERTY TransitEnds
