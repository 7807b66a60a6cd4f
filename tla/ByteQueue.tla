----------------------------- MODULE ByteQueue -----------------------------
(***************************************************************************)
(* What net::Buffer promises: a queue of bytes that are appended at the    *)
(* back, and prepended and retrieved at the front; unwrite() takes the     *)
(* last ones back.  No indexes, no storage, no free space.                 *)
(***************************************************************************)
EXTENDS Naturals, Sequences

CONSTANT Inputs    \* the byte strings that can be put in

VARIABLE content

vars == <<content>>

Init == content = <<>>

AppendBytes(data) == content' = content \o data

PrependBytes(data) == content' = data \o content

Retrieve(len) == content' = SubSeq(content, len + 1, Len(content))

Unwrite(len) == content' = SubSeq(content, 1, Len(content) - len)

Next ==
  \/ \E data \in Inputs : AppendBytes(data) \/ PrependBytes(data)
  \/ \E len \in 0 .. Len(content) : Retrieve(len) \/ Unwrite(len)

Spec == Init /\ [][Next]_vars
=============================================================================
