------------------------------ MODULE MCBuffer ------------------------------
EXTENDS BufferProofs

CONSTANT MaxInput

(* Every byte string up to MaxInput long.                                   *)
MCInputs == UNION {[1 .. n -> Bytes] : n \in 1 .. MaxInput}
=============================================================================
