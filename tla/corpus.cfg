SPECIFICATION CorpusSpec
CONSTANTS
  None = None
  Malformed = Malformed
  Secret = Secret
  Formats = {"txt"}
  Text <- MCText
  Completions <- MCCompletions
  FtsAvailable = TRUE
  Requester = "me"
  Rank <- MCRank
  DiscoveryFactor = 2
  Processes <- MCProcesses
  p1 = p1
  p2 = p2
  Catalogue <- MCCatalogue
  Searches <- MCSearches
  Neighbourhoods <- MCNeighbourhoods
  MaxDepth = 2
  MaxFanOut = 3
  MaxNodes = 5
  MaxEdges = 7
  MaxLines = 3
  MaxJobs = 3
  MaxReads = 1
  MaxFaults = 1
  MaxDeaths = 1
  MaxActions = 5
INVARIANTS  ProjectionIsRebuild HiddenHasNoInfluence UnflaggedReadIsWhole
SYMMETRY MCSymmetry
CHECK_DEADLOCK FALSE
