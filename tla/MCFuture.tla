------------------------------- MODULE MCFuture ------------------------------
EXTENDS Future

CONSTANTS w1, w2, w3

MCWorkers == {w1, w2, w3}
=============================================================================
