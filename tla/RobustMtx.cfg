SPECIFICATION Spec
CONSTANTS
  a = a
  b = b
  c = c
  mtx = mtx
  dead = dead
  Threads = {a, b, c}
  Mutexes = {mtx, dead}
  Deadmen = {dead}
  Users <- OneListOfTwo
  TimedThreads = {a}
  ForeignRelease = FALSE
  MaxWakes = 2
  MaxDeaths = 1
  Offset = Offset
  None = None
SYMMETRY ThreadSymmetry
VIEW LiveView
INVARIANTS
  DeadOwnNothing
  ListExact
  QueueIsServed
  WakeIsComing
PROPERTY
  MutexSpec
CHECK_DEADLOCK FALSE
