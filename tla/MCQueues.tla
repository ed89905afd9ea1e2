-------------------------------- MODULE MCQueues --------------------------------
EXTENDS Queues

CONSTANTS m1, i1, i2, r1, r2
===============================================================================
