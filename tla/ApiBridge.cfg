SPECIFICATION Spec
CONSTANTS
  c1 = c1
  c2 = c2
  Callers = {c1, c2}
  Scenarios <- MCScenarios
  Users = {u1}
  Nobody = Nobody
  NoTrack = NoTrack
  Given <- MCGiven
INVARIANTS
  EntriesAreOwed
  CardsFollow
  BrowseIsTracked
PROPERTIES
  AnsweredInTime
CHECK_DEADLOCK FALSE
