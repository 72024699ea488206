SPECIFICATION Spec
CONSTANTS
  Providers = {claude, ollama}
  InitialProvider = claude
  Fallback = ollama
  NoProvider = NoProvider
  claude = claude
  ollama = ollama
  Threshold = 3
  SwitchAfter = 2
  MaxInputs = 4
  MaxOthers = 3
  Capacity = 3
INVARIANTS TypeOK InputsInOrder
PROPERTIES StopIsFinal
