\* Run by hand: a counterexample to the property (README, section 6).
SPECIFICATION CanvasSpec
CONSTANTS
  TypeOf <- MCTypeOf
  ServedBy <- MCServedBy
  Graphs <- MCGraphs
  Draggable <- MCDraggable
  Places <- MCPlaces
  Nothing = Nothing
PROPERTIES
  ResetForgets
