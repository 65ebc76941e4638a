\* One provider whose permit is worth two chunks, one blob of three.
CONSTANTS
  b1 = b1
  b2 = b2
  h1 = h1
  h2 = h2
  h3 = h3
  PERMIT_WORTH = 2
  Blobs = {b1}
  RemoteIds = {}
  Hashes = {h1, h2, h3}
  Content <- LongContent
  Peers = {p1}
  UploadPermits = {u1, u2}
  WINDOW = 1
  DECAY = 1
  ValidFor = {2}
  InstantRoom = 2
  SwarmCap = 1
  BridgeCap = 1
  MaxInternal = 1
  NoBlob = NoBlob
  Idle = Idle
SPECIFICATION RecordedSpec
INVARIANT PermitsAreNotOverspent
