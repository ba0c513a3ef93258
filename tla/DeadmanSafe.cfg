SPECIFICATION Spec
CONSTANTS
  a = a
  b = b
  c = c
  Users = {a, b, c}
  Lockers = {a, b}
  Watchers = {c}
  TimedUsers = {c}
  Closers = {c}
  Buffered = TRUE
  MaxEpochs = 2
  MaxDeaths = 1
  None = None
SYMMETRY LockerSymmetry
INVARIANTS
  OwnerExact
  TokensDistinct
PROPERTIES
  ReleasedIsOver
