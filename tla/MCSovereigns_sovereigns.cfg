SPECIFICATION Spec
CONSTANTS
  resident = resident
  visitor = visitor
  elder = elder
  Agents = {resident}
  Roles = {visitor, elder}
  Principles <- MCPrinciples
  Severities = {"block"}
  InitialWeights <- MCInitialWeights
  MaxRebirths = 3
  MaxLessons = 2
  MaxReports = 1
  MaxCrashes = 2
  MaxSpawns = 2
INVARIANTS SoleUnderCurrentWeights RebirthsBounded
PROPERTIES RetiredAsTaught RebornWithAdjustedWeights
CHECK_DEADLOCK FALSE
