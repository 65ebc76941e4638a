\* Two uploads and a download that race for two ids and two permits.
CONSTANTS
  i1 = i1
  i2 = i2
  badId = badId
  BadId = BadId
  Posts = {r1, r2}
  Gets = {g1}
  RawIds = {i1, i2, badId}
  Ids = {i1, i2}
  Validated <- ValidAndBadIds
  BlobSizes = {1, 2}
  MAX_BLOB_CHUNKS = 2
  TOTAL_CHUNK_BUDGET = 2
  HASHERS = 1
  AdmissionCap = 1
  BridgeCap = 1
SPECIFICATION FairSpec
INVARIANTS
  TypeOK
  AdmissionOwnsEntry
  BlobsAreAdmittedOnce
  AdmittedBlobsHaveEntries
  EntriesAreAccountedFor
  BudgetIsConserved
PROPERTIES
  FinalizedIsNeverForgotten
  ImplementsBlobStatus
  EveryRequestIsAnswered
  FinalizedBlobsAreShown
