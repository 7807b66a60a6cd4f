---------------------------- MODULE MCTcpServer ----------------------------
EXTENDS TcpServer

CONSTANTS base, t1
=============================================================================
