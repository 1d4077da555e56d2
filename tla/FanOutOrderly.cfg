\* Run by hand: what FanOutPanic and FanOutSkipped refute holds here.
SPECIFICATION OrderlySpec
CONSTANTS
  s1 = s1
  s2 = s2
  s3 = s3
  p1 = p1
  p2 = p2
  Subs <- MCSubs
  Pubs <- MCTwoPubs
  ChanCap = 1
  MaxBatches = 2
  NoSub = NoSub
\* Every registration used up and every batch published.
CHECK_DEADLOCK FALSE
INVARIANTS
  NeverPanics
  SubscribersOfferedOnce
