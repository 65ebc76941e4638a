\* A prompt runtime: two providers, two blobs that share a chunk.
CONSTANTS
  b1 = b1
  b2 = b2
  h1 = h1
  h2 = h2
  Blobs = {b1, b2}
  RemoteIds = {}
  Hashes = {h1, h2}
  Content <- SharedContent
  Peers = {p1, p2}
  UploadPermits = {u1, u2}
  WINDOW = 1
  DECAY = 1
  ValidFor = {2, 3}
  InstantRoom = 2
  SwarmCap = 1
  BridgeCap = 1
  MaxInternal = 1
  NoBlob = NoBlob
  Idle = Idle
SPECIFICATION PromptSpec
SYMMETRY PeerPermitSymmetry
INVARIANTS
  NoDuplicateUpload
  ResultsAreCurrent
PROPERTIES
  FinalizedIsFinal
