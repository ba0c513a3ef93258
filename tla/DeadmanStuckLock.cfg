SPECIFICATION FairSpec
CONSTANTS
  a = a
  b = b
  c = c
  Users = {a, b}
  Lockers = {a, b}
  Watchers = {}
  TimedUsers = {}
  Closers = {}
  Buffered = FALSE
  MaxEpochs = 2
  MaxDeaths = 0
  None = None
PROPERTIES
  FreeIsTaken
CHECK_DEADLOCK FALSE
