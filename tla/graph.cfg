SPECIFICATION Spec
CONSTANTS
  None = None
  Malformed = Malformed
  InitialRows <- MCInitialRows
  Catalogue <- MCCatalogue
  Facts <- MCFacts
  Seeds <- MCSeeds
  Projects = {"A", "B"}
  Types = {"event", "decision", "requirement", "verification", "artifact"}
  MaxDepth = 2
  MaxFanOut = 2
  MaxNodes = 4
  MaxEdges = 4
  MaxWrites = 2
  MaxCalls = 3
  MaxRevokes = 1
  MaxReads = 1
  MaxActions = 4
INVARIANTS  QuietReadIsComplete
PROPERTIES FailureKeepsTheIndex
CHECK_DEADLOCK FALSE
