\* Run by hand: a counterexample to the property (README, section 6).
SPECIFICATION ReliableSpec
CONSTANTS
  v1 = v1
  v2 = v2
  v3 = v3
  g1 = g1
  c1 = c1
  c2 = c2
  QueryViewers <- MCOne
  ExactViewers <- MCNobody
  Streams <- MCNobody
  Calls <- MCTwoCalls
  MaxTries = 2
INVARIANTS
  UnwatchedIsNot
