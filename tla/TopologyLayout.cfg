SPECIFICATION CanvasSpec
CONSTANTS
  TypeOf <- MCTypeOf
  ServedBy <- MCServedBy
  Graphs <- MCGraphs
  Draggable <- MCDraggable
  Places <- MCPlaces
  Nothing = Nothing
INVARIANTS
  CanvasTypeOK
  DropsKept
PROPERTIES
  StaysPut
  ResetTidies
