SPECIFICATION Spec
CONSTANTS
  a = a
  b = b
  c = c
  mtx = mtx
  dead = dead
  Threads = {a, b}
  Mutexes = {dead}
  Deadmen = {dead}
  Users <- OneDeadman
  TimedThreads = {}
  ForeignRelease = TRUE
  MaxWakes = 0
  MaxDeaths = 1
  Offset = Offset
  None = None
INVARIANTS
  DeadOwnNothing
