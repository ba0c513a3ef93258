SPECIFICATION Spec
CONSTANTS
  i1 = i1
  i2 = i2
  c1 = c1
  Ids = {i1, i2}
  Clients = {c1}
  ClientOf <- MCClientOf
  Blocking = {i2}
  Never = Never
  MaxLog = 4
  MaxAnswers = 2
  MaxLost = 1
  MaxCancels = 1
INVARIANT CancelIsNoProgress
CHECK_DEADLOCK FALSE
