SPECIFICATION Spec
CONSTANTS
  t1 = t1
  t2 = t2
  w = w
  k1 = k1
  k2 = k2
  Threads = {t1, t2}
  WriterOf <- MCWriterOf
  Requests <- MCRequests
  Bad = Bad
  Null = Null
  MaxWrites = 3
  MaxTime = 1
INVARIANTS UpdatesAreSerial HeadersTell
PROPERTIES WriteReturns
