CONSTANTS
  Threads = {t1, t2}
  Sites = {app, lib}
  Blocklists = {{}}
  Frequencies = {99}
  TempFileFails = FALSE
  None = None
  NoFrames = NoFrames
SYMMETRY Symmetry
SPECIFICATION Spec
INVARIANTS
  QuietWhenStopped
