SPECIFICATION Spec
CONSTANTS
  w1 = w1
  r1 = r1
  k1 = k1
  Threads = {w1, r1}
  Conns = {w1, r1}
  ConnOf <- MCConnOf
  Writers = {w1}
  Readers = {r1}
  Waiters = {r1}
  TimedWaiters = {}
  Closers = {}
  Sizes = {8}
  Data = {d1}
  Junk = Junk
  ArenaSizes = {304}
  MaxSeq = 3
  MaxCrashes = 1
  None = None
INVARIANTS
  NothingUncommittedIsRead
