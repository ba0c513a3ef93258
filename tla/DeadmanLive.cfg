SPECIFICATION FairSpec
CONSTANTS
  a = a
  b = b
  c = c
  Users = {a, c}
  Lockers = {a, c}
  Watchers = {c}
  TimedUsers = {}
  Closers = {a, c}
  Buffered = TRUE
  MaxEpochs = 2
  MaxDeaths = 1
  None = None
PROPERTIES
  ShutdownEndsSleep
  LockIsNoticed
CHECK_DEADLOCK FALSE
