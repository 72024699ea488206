SPECIFICATION HandleSpec
CONSTANTS
  Providers = {claude, ollama}
  InitialProvider = claude
  Fallback = ollama
  NoProvider = NoProvider
  claude = claude
  ollama = ollama
  Threshold = 2
  SwitchAfter = 0
  MaxInputs = 4
  MaxOthers = 2
  ChannelCapacity = 2
INVARIANTS OneOutcomePerEvent StoppedIsLast
CHECK_DEADLOCK FALSE
