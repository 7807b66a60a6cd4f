-------------------------- MODULE MCCountDownLatch --------------------------
EXTENDS CountDownLatch

CONSTANTS w1, w2, w3, c1, c2
=============================================================================
