\* A prompt runtime: one provider, two blobs of the same single chunk.
CONSTANTS
  b1 = b1
  b2 = b2
  h1 = h1
  h2 = h2
  Blobs = {b1, b2}
  RemoteIds = {}
  Hashes = {h1}
  Content <- SameContent
  Peers = {p1}
  UploadPermits = {u1, u2}
  WINDOW = 1
  DECAY = 1
  ValidFor = {2, 3}
  InstantRoom = 2
  SwarmCap = 1
  BridgeCap = 1
  MaxInternal = 1
  NoBlob = NoBlob
  Idle = Idle
SPECIFICATION PromptSpec
PROPERTIES
  EveryBlobIsFinalized
  ShutdownCompletes
