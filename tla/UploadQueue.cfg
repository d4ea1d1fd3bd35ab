SPECIFICATION RRSpec
CONSTANTS
  Users = {u1, u2, u3}
  MaxUploads = 3
  MaxStamps = 3
  MaxActive = 2
SYMMETRY Symmetry
INVARIANTS
  StampedIffWaiting
  OneCandidate
  PickedStillWaits
  NoneOvertakesTwice
PROPERTIES
  WaitingKeepsStamp
CHECK_DEADLOCK FALSE
