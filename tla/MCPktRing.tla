------------------------------ MODULE MCPktRing ------------------------------
\* PktRing with a ring of three slots and entries that may share a timestamp.
EXTENDS PktRing

CONSTANTS a, b

MCPayloads   == {a, b}
MCTimeStamps == 1 .. 3
=============================================================================
