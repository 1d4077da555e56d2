SPECIFICATION Spec
CONSTANTS
  k1 = k1
  k2 = k2
  k3 = k3
  k4 = k4
  Keys <- MCKeys
  NoKey = NoKey
  MaxTabs = 3
  MaxIds = 4
  Total = 6
  MinWidth = 1
SYMMETRY MCSymmetry
INVARIANTS
  TabsConsistent
  WidthsFit
PROPERTIES
  CaptureShown
