\* Run by hand: a counterexample to the property (README, section 6).
SPECIFICATION Spec
CONSTANTS
  s1 = s1
  s2 = s2
  s3 = s3
  p1 = p1
  p2 = p2
  Subs <- MCSubs
  Pubs <- MCPubs
  ChanCap = 1
  MaxBatches = 1
  NoSub = NoSub
\* Every registration used up and every batch published, or a panic.
CHECK_DEADLOCK FALSE
INVARIANTS
  SubscribersOfferedOnce
