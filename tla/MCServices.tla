------------------------------- MODULE MCServices -------------------------------
EXTENDS Services

CONSTANTS x1, x2, i1, i2, u1, u2, u3
===============================================================================
