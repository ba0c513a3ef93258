SPECIFICATION FairSpec
CONSTANTS
  w1 = w1
  r1 = r1
  k1 = k1
  Threads = {w1, r1, k1}
  Conns = {w1, r1}
  ConnOf <- MCConnOf
  Writers = {w1}
  Readers = {r1}
  Waiters = {r1}
  TimedWaiters = {r1}
  Closers = {k1}
  Sizes = {8}
  Data = {d1}
  Junk = Junk
  ArenaSizes = {256}
  MaxSeq = 3
  MaxCrashes = 0
  None = None
INVARIANTS
  OwnerIsInside
  ShutdownDrains
  IInv
PROPERTIES
  NoStuckWaiter
  ShutdownReturns
