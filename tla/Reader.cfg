SPECIFICATION Spec
CONSTANTS
  MaxSeq = 4
  MaxClears = 1
INVARIANTS InOrder MappedWhileUsed PromiseKept
PROPERTIES NothingSkipped StartsAsAsked NewFrameArrives
