SPECIFICATION UnhurriedSpec
CONSTANTS
  v1 = v1
  v2 = v2
  v3 = v3
  g1 = g1
  c1 = c1
  c2 = c2
  QueryViewers <- MCThree
  ExactViewers <- MCNobody
  Streams <- MCStream
  Calls <- MCTwoCalls
  MaxTries = 2
INVARIANTS
  DecodedIffWatched
