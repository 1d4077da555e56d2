------------------------------ MODULE MCFanOut ------------------------------
\* FanOut with three registrations and one or two publishing streams.
EXTENDS FanOut

CONSTANTS s1, s2, s3, p1, p2

MCSubs     == {s1, s2, s3}
MCPubs     == {p1}
MCTwoPubs  == {p1, p2}
=============================================================================
