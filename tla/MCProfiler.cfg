CONSTANTS
  Threads = {t1, t2, t3}
  Sites = {app, lib}
  Blocklists = {{lib}}
  Frequencies = {99}
  TempFileFails = FALSE
  None = None
  NoFrames = NoFrames
SYMMETRY Symmetry
SPECIFICATION Spec
INVARIANTS
  TypeOK
  Exclusion
  HandlerFindsInitialised
  UnwinderUncontended
  NeverKilled
  OneSession
  NoSampleLost
  BlocklistHonoured
  RunningHasOwner
  GuardTicks
