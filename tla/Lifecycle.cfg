\* Up to two requests in flight and two ctrl-c.
CONSTANTS
  MaxRequests = 2
  MaxCtrlC = 2
SPECIFICATION FairSpec
INVARIANT TypeOK
PROPERTIES
  NoTaskIsMissed
  ShutdownExits
