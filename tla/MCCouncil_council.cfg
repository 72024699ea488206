SPECIFICATION CouncilSpec
CONSTANTS
  c1 = c1
  c2 = c2
  c3 = c3
  k1 = k1
  k2 = k2
  Councillors = {c1, c2, c3}
  Weight <- MCWeight
  OpinionSeverities = {"critical", "high", "low"}
  Callers = {k1, k2}
  Nobody = Nobody
INVARIANTS VerdictIsTally
PROPERTIES CallersAnswered
CHECK_DEADLOCK FALSE
