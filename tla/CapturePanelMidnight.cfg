\* Run by hand: a counterexample to the property (README, section 6).
SPECIFICATION Spec
CONSTANTS
  Wire <- MCWire
  RingMax = 2
  MaxBatch = 2
  Filters <- MCFilters
  FrameBytes = 60
  MaxFetches = 2
  Second = 2
  Day = 6
INVARIANTS
  RangeCoversNight
