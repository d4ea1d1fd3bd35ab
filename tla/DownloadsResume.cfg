SPECIFICATION Spec
CONSTANTS
  k1 = k1
  p1 = p1
  Files = {k1}
  Uploaders = {p1}
  UploaderOf <- MCUploaderOf
  UploaderTokens <- MCUploaderTokens
  Size = 2
  MaxStarts <- MCMaxStarts
  MaxDrops = 0
  MaxStops = 1
INVARIANT
  ResumedIsWhole
CHECK_DEADLOCK FALSE
