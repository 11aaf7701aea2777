CONSTANTS
  p1 = p1
  Programs <- MCPrograms
  Windows <- MCWindows
  ln <- LnTable
  min_observations = 10
  MaxLen = 128
  MaxWindows = 10
  MaxLog = 1
SPECIFICATION Spec
CHECK_DEADLOCK FALSE
INVARIANTS
  TypeOK
  RoutineNotDivergent
  NovelFlagged
  OutlierStaysFlagged
PROPERTY
  OneLessonSuffices
