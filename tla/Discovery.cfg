SPECIFICATION Spec
CONSTANTS
  p1 = p1
  p2 = p2
  r = r
  a = a
  f = f
  top = top
  Procs = {p1, p2}
  Dirs = {top, r, a}
  Top = top
  Files = {f}
  PathTo <- MCPathTo
  ParentOf <- MCParentOf
  SizeOf <- MCSizeOf
  Prefix <- MCPrefix
  Matches = {f}
  Nobody = Nobody
  MaxInodes = 3
  MaxFaults = 1
INVARIANTS OneWholeFile AnnouncedOnce
PROPERTIES OpenReturns FileIsAnnounced
CHECK_DEADLOCK FALSE
