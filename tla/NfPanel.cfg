\* Three pods, two managers at a time and one poll of each pod.
SPECIFICATION NfSpec
CONSTANTS
  Pods = {p1, p2, p3}
  None = None
  Slots = {1, 2}
  MaxPolls = 1
  MaxBackoff = 3
INVARIANTS
  NfTypeOK
  PanelConsistent
  OneFeed
  LiveTrue
PROPERTIES
  GoesLiveAgain
  MetricsSettle
