SPECIFICATION FairSpec
CONSTANTS
  MaxConns = 3
  MaxSaves = 2
  MaxHangUps = 2
INVARIANTS
  SockIsLatest
  LoginIsFresh
  SessionMatchesLink
  WellFormed
PROPERTIES
  LoginCompletes
CHECK_DEADLOCK FALSE
