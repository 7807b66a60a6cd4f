------------------------------ MODULE Channel ------------------------------
(***************************************************************************)
(* The events of muduo/net/Channel.h and the order in which                *)
(* Channel::handleEventWithGuard() turns them into callbacks.              *)
(***************************************************************************)
EXTENDS Sequences

Interests == {"IN", "OUT"}                 \* kReadEvent, kWriteEvent
Conditions == Interests \cup {"HUP", "ERR"}
Callbacks == {"close", "error", "read", "write"}

(* The callbacks made for the events re.  HUP alone calls for both the      *)
(* close and the read callback: line 86 has EPOLLHUP in its mask.           *)
CallbacksFor(re) ==
  LET When(due, cb) == IF due THEN <<cb>> ELSE <<>>
  IN When("HUP" \in re /\ "IN" \notin re, "close")
       \o When("ERR" \in re, "error")
       \o When(re \cap {"IN", "HUP"} # {}, "read")
       \o When("OUT" \in re, "write")
=============================================================================
