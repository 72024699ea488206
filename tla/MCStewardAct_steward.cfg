SPECIFICATION Spec
CONSTANTS
  bash = bash
  read = read
  Tools <- TwoTools
  Irreversible <- OneIrreversible
  Cooldown <- MCCooldown
  ToolCost <- MCToolCost
  ActCost = 2
  ThinkCost = 1
  Penalty = 1
  DecayLoss = 1
  InitialSynapse = 8
  SynapseFloor = 1
  RotateEvery = 2
  MaxTurns = 2
  Kinds <- Both
  MaxCalls = 2
  MaxRequests = 2
  MaxTime = 1
  MaxCrashes = 2
INVARIANTS TypeOK ChainVerifies DiskIsPrefix ReceiptsPaid ReceiptsWitnessed DirectActsSpaced ProofsLinked
CHECK_DEADLOCK FALSE
