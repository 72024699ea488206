SPECIFICATION FairSpec
CONSTANTS
  bash = bash
  read = read
  Tools <- TwoTools
  Irreversible <- OneIrreversible
  Cooldown <- MCCooldown
  ToolCost <- MCToolCost
  ActCost = 2
  ThinkCost = 1
  Penalty = 1
  DecayLoss = 1
  InitialSynapse = 7
  SynapseFloor = 1
  RotateEvery = 2
  MaxTurns = 2
  Kinds <- Both
  MaxCalls = 1
  MaxRequests = 2
  MaxTime = 1
  MaxCrashes = 1
PROPERTIES RequestsAnswered
CHECK_DEADLOCK FALSE
