---------------------------- MODULE MCEventLoop ----------------------------
EXTENDS EventLoopProofs
=============================================================================
