-------------------------------- MODULE MCZCT --------------------------------
EXTENDS ZCT, TLC
CONSTANTS o1, o2, o3
MCObjs == {o1, o2, o3}
Symm == Permutations(MCObjs)
=============================================================================
