SPECIFICATION Spec
CONSTANTS
  a1 = a1
  a2 = a2
  t0 = t0
  t1 = t1
  ts = ts
  Agents = {a1, a2}
  Tasks = {t0, t1, ts}
  Unborn = Unborn
  NoTask = NoTask
  Numeric = {t0, t1}
  TaskZero = t0
  BareArray = TRUE
  MaxFaults = 1
  MaxCalls = 3
INVARIANTS RunsAccounted ClosedAsLastRun ThinkingExplained
PROPERTIES AssignedTasksClose
