SPECIFICATION Spec
CONSTANTS
  MaxSeq = 4
  MaxClears = 1
PROPERTY OldestAvailable
