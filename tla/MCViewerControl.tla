--------------------------- MODULE MCViewerControl ---------------------------
\* ViewerControl with up to three viewers, who come back any number of times,
\* one Subscribe stream and two goroutines at a time.
EXTENDS ViewerControl

CONSTANTS v1, v2, v3, g1, c1, c2

MCOne       == {v1}
MCTwo       == {v1, v2}
MCThree     == {v1, v2, v3}
MCOther     == {v3}
MCNobody    == {}
MCStream    == {g1}
MCTwoCalls  == {c1, c2}
=============================================================================
