SPECIFICATION FairSpec
CONSTANTS
  p1 = p1
  p2 = p2
  Peers <- MCPeers
  PeerTokens <- MCPeerTokens
  FirstToken = 1
  MaxOffers = 2
  MaxRequests = 2
  MAX_PENDING_TRANSFERS = 2
  Slots = 1
  MaxDrops = 1
INVARIANTS
  QueueLockstep
  OneHome
  SlotsAccounted
  NoIdleSlot
  ApprovedIsDrivenWhileLinked
PROPERTIES
  ImplementsLifecycle
  PlaceNeverGrows
  ApprovedLeaves
CHECK_DEADLOCK FALSE
