------------------------------ MODULE MCSessions ------------------------------
EXTENDS Sessions, TLC

CONSTANTS p1, p2, p3, p4

MCSymmetry == Permutations(Requests)
===============================================================================
