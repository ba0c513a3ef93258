SPECIFICATION Spec
CONSTANTS
  Keys = {1, 2, 3, 4, 5}
  Hash <- MCHash
  NoKey = NoKey
  MaxVal = 2
  Packets <- MCPackets
  Patterns <- MCPatterns
  Roots <- MCRoots
  Paths <- MCPaths
  Templates <- MCTemplates
  Topics <- MCTopics
  Times <- MCTimes
  NS_PER_SEC = 100
  WIDTH = 5
  NoSample = NoSample
  GlobSample = GlobSample
  PktSample = PktSample
  Letters <- MCLetters
  Char <- MCChar
INVARIANTS MapIsFunction CodecsAgree PathsMatch
CHECK_DEADLOCK FALSE
