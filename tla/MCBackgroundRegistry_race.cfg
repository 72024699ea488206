SPECIFICATION RegistrySpec
CONSTANTS
  t1 = t1
  t2 = t2
  t3 = t3
  Ids = {t1, t2, t3}
  Results = {"completed", "failed", "panic"}
  MaxConcurrent = 2
  CompactEvery = 2
SYMMETRY IdSymmetry
INVARIANTS ConcurrencyBounded ReportsTrue
PROPERTIES StatusFinal
