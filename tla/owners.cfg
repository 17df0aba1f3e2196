CONSTANTS
  HandleObjects = {h1, h2, h3}
  MaxFd = 2
  MaxFiles = 4
  LibObjects = {o1, o2, o3}
  Libraries = {liba, libb}
  Missing = missing
  Null = null
  NoLib = nolib
  WatchObjects = {w1, w2, w3}
  Paths = {p1, p2}
  Nowhere = nowhere
  MaxWatches = 3
  GuardObjects = {g1, g2, g3}
  MaxThrows = 2
SPECIFICATION OwnersSpec
INVARIANTS
  OwnersTypeOK
  EveryFileHasOneOwner
  LibraryReferencesHeld
  WatchesHeld
  GuardRunsOnce
CHECK_DEADLOCK FALSE
