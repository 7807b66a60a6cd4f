------------------------------ MODULE MCEPoller ------------------------------
EXTENDS EPoller

CONSTANTS c1, c2, c3

(* c1 and c3 have the same number: a connection and the one that is         *)
(* accepted after it was closed.                                            *)
MCFdOf == [c \in Channels |-> IF c = c2 THEN 6 ELSE 5]

(* On one descriptor data comes and the peer hangs up, on the other only    *)
(* data comes.                                                              *)
MCRaised == {<<5, "IN">>, <<5, "HUP">>, <<6, "IN">>}
=============================================================================
