SPECIFICATION Spec
CONSTANTS
  Calls = {c1, c2, c3}
  Secrets = {p1}
  Settings = {s1, refused}
  Refused = {refused}
  Default = s1
  Empty = Empty
  Torn = Torn
  Missing = Missing
  MaxLogins = 1
  MaxCrashes = 1
INVARIANTS
  AnswerTellsTheDisk
  CopiesAgree
PROPERTIES
  FileStaysWhole
CHECK_DEADLOCK FALSE
