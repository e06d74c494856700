CONSTANTS
  Contexts = {h, m}
  Sampler = h
  Addresses = {1, 5}
  Readable <- StackWords
  Fds = {3, 4, 5}
  Capacity = 2
  FirstAlone = TRUE
  Backends = {"frame-pointer", "framehop"}
  Memories <- Stacks
  Ips <- Code
  Starts = {0, 1, 3}
  Volatile = {3}
  Segments <- Libs
  MaxDepth = 2
SPECIFICATION WalkSpec
INVARIANTS
  WalkTypeOK
  ReadableAccepted
  OwnDescriptors
  NoPipeLeak
  FaultOnlyIfLost
  StackComplete
  ErrnoPreserved
PROPERTIES
  WalkEnds
CHECK_DEADLOCK FALSE
