\* A push and a pull, with any hash and any data.
CONSTANTS
  d1 = d1
  d2 = d2
  d3 = d3
  Data <- Payloads
  TooLong <- LongPayload
  Pushes = {t1}
  Pulls = {t2}
SPECIFICATION FairSpec
INVARIANTS
  TypeOK
  OkMeansVerified
  PulledDataIsAsked
  OkMeansHandedOver
PROPERTIES
  EveryPullReturns
  ImplementsChunkTransfer
