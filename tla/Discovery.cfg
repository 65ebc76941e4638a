\* Three clients and a bootnode, with two crashes.
CONSTANTS
  Clients = {c1, c2, c3}
  Bootnode = boot
  Listens <- PublicAndPrivate
  MaxCrashes = 2
SPECIFICATION FairSpec
PROPERTY ClientsFindEachOther
