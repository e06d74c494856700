CONSTANTS
  Contexts = {h, m}
  Addresses = {1}
  Readable = {1, 2}
  Fds = {3, 4, 5, 6}
  Capacity = 2
  FirstAlone = FALSE
SPECIFICATION ValidateSpec
INVARIANTS
  ReadableAccepted
CHECK_DEADLOCK FALSE
