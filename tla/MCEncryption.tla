------------------------------ MODULE MCEncryption ------------------------------
EXTENDS Encryption, TLC

CONSTANTS a, b, t1, t2, s1, s2, r1, r2

MCSymmetry ==
  Permutations({a, b}) \union Permutations({t1, t2})
    \union Permutations({s1, s2}) \union Permutations({r1, r2})
===============================================================================
