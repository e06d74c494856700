CONSTANTS
  Threads = {t1, t2}
  Sites = {app}
  Blocklists = {{}}
  Frequencies <- OddFrequencies
  TempFileFails = TRUE
  None = None
  NoFrames = NoFrames
  MaxCalls = 4
SPECIFICATION LiveSpec
INVARIANTS
  TimerOnlyWhileRunning
PROPERTIES
  SessionImplemented
  HandlerReturns
  DropCompletes
CHECK_DEADLOCK FALSE
