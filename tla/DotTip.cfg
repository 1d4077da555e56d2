SPECIFICATION Spec
CONSTANTS
  Dots = {d1, d2}
  Nodes = {n1}
  Blank = Blank
  Tip = Tip
  NodeBox = NodeBox
  None = None
  MaxTimers = 3
PROPERTIES
  HiddenOffDot
