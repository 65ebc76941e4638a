\* An upload and a download of the same blob.
CONSTANTS
  i1 = i1
  i2 = i2
  badId = badId
  BadId = BadId
  Posts = {r1}
  Gets = {g1}
  RawIds = {i1}
  Ids = {i1}
  Validated <- OneValidId
  BlobSizes = {1}
  MAX_BLOB_CHUNKS = 2
  TOTAL_CHUNK_BUDGET = 2
  HASHERS = 1
  AdmissionCap = 1
  BridgeCap = 1
SPECIFICATION Spec
INVARIANT GatheredBlobsAreMissing
