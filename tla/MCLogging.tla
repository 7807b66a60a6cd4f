----------------------------- MODULE MCLogging -----------------------------
EXTENDS Logging

MCNumbers == {-128, 255}

(* Summer time ends after second 3, whose name then comes again.            *)
MCLocaltime == [t \in 0 .. 5 |-> IF t <= 3 THEN t ELSE t - 2]
=============================================================================
