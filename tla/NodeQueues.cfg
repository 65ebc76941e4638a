\* Two providers, one blob, a channel of one message to the swarm task and of
\* two back.
CONSTANTS
  b1 = b1
  h1 = h1
  Blobs = {b1}
  RemoteIds = {b1}
  Hashes = {h1}
  Content <- OneContent
  Peers = {p1, p2}
  UploadPermits = {u1}
  WINDOW = 1
  DECAY = 1
  ValidFor = {1}
  InstantRoom = 2
  SwarmCap = 1
  BridgeCap = 1
  MaxInternal = 1
  NoBlob = NoBlob
  Idle = Idle
  NoPeer = NoPeer
  HandlerCap = 2
SPECIFICATION NodeFairSpec
PROPERTIES
  ImplementsCoordinator
  PermitRequestsGetThrough
  NodeStops
  QueuedGossipIsHeard
