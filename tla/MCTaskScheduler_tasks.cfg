SPECIFICATION FairSpec
CONSTANTS
  b1 = b1
  b2 = b2
  b3 = b3
  think = think
  Ids = {b1, b2, b3, think}
  Async = {b1, b2, b3}
  Results = {"completed"}
  MaxConcurrent = 2
  CompactEvery = 2
  DreamAfter = 2
  MaxTurns = 2
INVARIANTS TypeOK TablesAgree CompletionsTrue
PROPERTIES SubmittedTasksFinish
