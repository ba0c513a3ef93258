SPECIFICATION Spec
CONSTANTS
  a = a
  b = b
  c = c
  Users = {a, c}
  Lockers = {a}
  Watchers = {c}
  TimedUsers = {}
  Closers = {c}
  Buffered = TRUE
  MaxEpochs = 1
  MaxDeaths = 0
  None = None
INVARIANTS
  ShutdownInterrupts
