SPECIFICATION UpdaterSpec
CONSTANTS
  MaxVersion = 3
  MaxBus = 3
  Broken = Broken
INVARIANTS
  StatusIsTrue
