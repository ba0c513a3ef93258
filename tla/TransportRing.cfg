SPECIFICATION Spec
CONSTANTS
  w1 = w1
  r1 = r1
  k1 = k1
  Threads = {w1, r1}
  Conns = {w1, r1}
  ConnOf <- MCConnOf
  Writers = {w1}
  Readers = {r1}
  Waiters = {}
  TimedWaiters = {}
  Closers = {}
  Sizes = {8, 40}
  Data = {d1}
  Junk = Junk
  ArenaSizes = {256, 304}
  MaxSeq = 4
  MaxCrashes = 1
  None = None
INVARIANTS
  CommittedLinked
  CommittedIntact
  HighWaterMarkExact
  PointerSound
PROPERTIES
  LogSpec
