--------------------------- MODULE MCAgentSession ---------------------------
\* AgentSession with three concurrent toggle requests, of either kind, again
\* and again; the number of runs is not bounded.
EXTENDS AgentSession

CONSTANTS h1, h2, h3

MCCalls == {h1, h2, h3}
=============================================================================
