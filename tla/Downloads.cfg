SPECIFICATION Spec
CONSTANTS
  k1 = k1
  p1 = p1
  Files = {k1}
  Uploaders = {p1}
  UploaderOf <- MCUploaderOf
  UploaderTokens <- MCUploaderTokens
  Size = 2
  MaxStarts <- MCMaxStarts
  MaxDrops = 1
  MaxStops = 1
INVARIANTS
  FinishedIsWhole
  OneWriter
  ActiveIsTracked
PROPERTIES
  CancelOfRecordedSticks
CHECK_DEADLOCK FALSE
