SPECIFICATION HermesSpec
CONSTANTS
  None = None
  Boundaries = {"B"}
  Contexts = {"C"}
  Envs <- MCEnvs
  HostEvents <- MCHostEvents
  ToolCalls <- MCToolCalls
  Requests <- MCRequests
  Memory <- MCMemory
  Rewrites <- MCRewrites
  RankOf <- MCRankOf
  Now = 9
  OwnProfile = "u"
  OwnProject = "p"
  Ceiling = "private"
  MaxPrimary = 2
  MaxSupporting = 2
  TokenBudget = 5
  MaxContext = 6
  PageLimit = 2
  MaxRegisters = 3
  MaxShutdowns = 1
  MaxTurns = 2
  MaxHostCalls = 2
  MaxFaults = 1
  MaxWrites = 1
  MaxActions = 5
INVARIANTS AuthorityIsCurrent EvidenceIsAccounted
 
CHECK_DEADLOCK FALSE
