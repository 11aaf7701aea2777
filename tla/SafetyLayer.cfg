CONSTANTS
  p1 = p1
  p2 = p2
  Programs <- MCPrograms
  Ids <- MCIds
  Args = {1, 2}
  enforce_determinism = TRUE
  MaxLen = 3
SPECIFICATION Spec
CHECK_DEADLOCK FALSE
SYMMETRY ProgramSymmetry
INVARIANTS
  ReorderSound
  RawDependenciesFound
  EligibilityAgrees
  PredictorSoundButForLogs
  FetchedOnce
  BatchesDeterministic
