\* Two providers, two blobs that share a chunk, two concurrent uploads.
CONSTANTS
  b1 = b1
  b2 = b2
  h1 = h1
  h2 = h2
  Blobs = {b1, b2}
  RemoteIds = {}
  Hashes = {h1, h2}
  Content <- SharedContent
  Peers = {p1, p2}
  UploadPermits = {u1, u2}
  WINDOW = 1
  DECAY = 0
  ValidFor = {1}
  InstantRoom = 2
  SwarmCap = 1
  BridgeCap = 1
  MaxInternal = 1
  NoBlob = NoBlob
  Idle = Idle
SYMMETRY PeerPermitSymmetry
SPECIFICATION Spec
INVARIANTS
  TypeOK
  ReportedBlobsAreStored
  NoBlobLost
  NoStalledBacklog
  InflightIsBacked
  OwnersHoldTheirChunks
PROPERTY ImplementsDistribution
