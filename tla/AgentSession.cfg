SPECIFICATION LiveSpec
CONSTANTS
  h1 = h1
  h2 = h2
  h3 = h3
  Calls <- MCCalls
\* A cancelled session that no request reaches any more really is over.
CHECK_DEADLOCK FALSE
INVARIANTS
  NoLostToggle
PROPERTIES
  CapturesInFlagMode
  StoppedSessionEnds
  ImplementsModeSwitch
