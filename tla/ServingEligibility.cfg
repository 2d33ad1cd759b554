SPECIFICATION Spec
CONSTANTS
  None = None
  Peer = {p1, p2, p3}
  MaxPeers = 2
  TTL = 2
  MaxStreams = 1
SYMMETRY PeerSymmetry
INVARIANTS
  TypeOK
  AtMostCapacity
  ReferredAreServing
  FullReferral
  HandlerFollowsMode
PROPERTIES
  FreshOutlivesStale
  ClientStopsServing
