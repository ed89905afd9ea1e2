------------------------------ MODULE MCBackground ------------------------------
EXTENDS Background

CONSTANTS x1, x2
===============================================================================
