SPECIFICATION RowsSpec
CONSTANTS
  a = a
  b = b
  c = c
  Keys = {a, b, c}
  NameOf <- MCNameOf
  Nested = {c}
  MaxRows = 2
  MaxBus = 2
  Courses <- MCCourses
INVARIANTS
  FinishedSurvives
  UploadRowsEnd
CHECK_DEADLOCK FALSE
