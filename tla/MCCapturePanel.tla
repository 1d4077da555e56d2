---------------------------- MODULE MCCapturePanel ----------------------------
\* CapturePanel with a ring of two frames and a server that sends five, in
\* batches of one or two: the first raw, the next two of different times of one
\* day, two of the same time and one after midnight, which the HTTP button shows
\* too (seconds of two units, days of three seconds).
EXTENDS CapturePanel

MCWire == <<
  [ts |-> 2, proto |-> "SCTP",  http |-> FALSE, raw |-> TRUE,  hit |-> TRUE],
  [ts |-> 3, proto |-> "X2AP",  http |-> FALSE, raw |-> FALSE, hit |-> FALSE],
  [ts |-> 5, proto |-> "HTTP",  http |-> FALSE, raw |-> FALSE, hit |-> FALSE],
  [ts |-> 5, proto |-> "PFCP",  http |-> FALSE, raw |-> FALSE, hit |-> TRUE],
  [ts |-> 8, proto |-> "GTP-U", http |-> TRUE,  raw |-> FALSE, hit |-> TRUE] >>
MCFilters == {"All", "HTTP"}
=============================================================================
