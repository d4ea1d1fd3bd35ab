SPECIFICATION Spec
CONSTANTS
  MaxConns = 2
  MaxKids = 2
  OurName = "us"
  Roots = {"r"}
  Levels = {1}
  Speeds <- MCSpeeds
  MaxNews = 2
  MaxDrops = 1
  MaxQueued = 2
INVARIANTS
  OneParent
  AttachedWhileFed
  WellFormed
  ChildrenFollow
  PositionIsToldWhileLinked
CHECK_DEADLOCK FALSE
