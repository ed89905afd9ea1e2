------------------------------- MODULE MCBrowser -------------------------------
EXTENDS Browser, TLC

CONSTANTS a, b, r1, r2, c1

MCSymmetry == Permutations({a, b})
===============================================================================
