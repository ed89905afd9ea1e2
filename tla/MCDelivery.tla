------------------------------- MODULE MCDelivery -------------------------------
EXTENDS Delivery

CONSTANTS c1, c2, n1, n2, e1
===============================================================================
