---------------------------- MODULE MCCaptureTabs ----------------------------
\* CaptureTabs with one key more than tabs may be open, and a width of which
\* three panels can take unequal shares.
EXTENDS CaptureTabs, TLC

CONSTANTS k1, k2, k3, k4
MCKeys == {k1, k2, k3, k4}
MCSymmetry == Permutations(MCKeys)
=============================================================================
