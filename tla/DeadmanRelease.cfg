SPECIFICATION FairSpec
CONSTANTS
  a = a
  b = b
  c = c
  Users = {a, c}
  Lockers = {a}
  Watchers = {c}
  TimedUsers = {}
  Closers = {}
  Buffered = FALSE
  MaxEpochs = 2
  MaxDeaths = 0
  None = None
PROPERTIES
  ReleaseIsNoticed
CHECK_DEADLOCK FALSE
