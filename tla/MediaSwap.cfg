\* MediaSwap
SPECIFICATION Spec
CONSTANTS
  MaxAttempts = 3
  None = None
INVARIANTS
  TypeOK
  OriginalKept
  NeverWithoutFilm
  OnlyFullFilesInPlace
CHECK_DEADLOCK FALSE
