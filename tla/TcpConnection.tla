--------------------------- MODULE TcpConnection ---------------------------
(***************************************************************************)
(* One connection of a TcpServer from newConnection() to its destruction:  *)
(* muduo/net/TcpConnection.cc with the part of TcpServer.cc that owns it.  *)
(* Two threads serve it, that of the server's loop and that of the         *)
(* connection's own loop, which are the same when the server has no thread *)
(* pool (oneLoop).  Each loop is what FunctorQueue says: a queue of        *)
(* functors; between them the connection's loop calls back for events.     *)
(*                                                                         *)
(* User code calls the connection in its loop's thread, from callbacks and *)
(* functors, and in other threads.  A user that made a call in another     *)
(* thread keeps its TcpConnectionPtr until the functor has run: most of    *)
(* them are bound to a raw this (lines 94, 114, 184, 253 and 268).         *)
(*                                                                         *)
(* Sockets are blocking (Socket::accept() asks for nothing else), so a     *)
(* write is short or fails with EINTR when a signal comes; how long it     *)
(* blocks is left out.  SIGPIPE is taken as ignored, so that a write to a  *)
(* connection that was reset fails with EPIPE: nothing in the repository   *)
(* ignores it, and unless the program does, that write ends the process.   *)
(*                                                                         *)
(* forceCloseWithDelay() is called in the connection's loop only, and when *)
(* no earlier call of it waits for its timer.                              *)
(***************************************************************************)
EXTENDS Naturals, Sequences, Channel

CONSTANTS Users,            \* threads of user code that run no loop
          Calls,            \* the operations user code calls
          MsgLen,           \* bytes in a message
          highWaterMark_,
          MaxCalls,         \* bound: calls made by user code
          MaxFunctors       \* bound: functors waiting in the two loops

ASSUME CallsAssumption ==
  Calls \subseteq {"send", "shutdown", "forceClose", "forceCloseWithDelay",
                   "startRead"}
ASSUME SizesAssumption ==
  /\ MsgLen \in Nat \ {0}
  /\ {highWaterMark_, MaxCalls, MaxFunctors} \subseteq Nat

VARIABLES
  oneLoop,       \* the server's loop is the connection's
  state_,        \* "none" before newConnection()
  reading_,
  events_,       \* the channel's interest
  added,         \* its addedToLoop_
  epolled,       \* the kernel has it in the epoll set (index_ is kAdded)
  outputBuffer_,
  wire,          \* the bytes written to the socket
  accepted,      \* bytes that sendInLoop() has taken on
  peer,          \* kernel: "open", "closed", "reset", "dead"
  inbox,         \* kernel: there are bytes to read
  wrShut,        \* kernel: shutdownWrite() was called
  ioQ,           \* functors of the connection's loop
  baseQ,         \* functors of the server's loop
  inMap,         \* connections_ has the connection
  calls,         \* callbacks its handleEvent() has still to make
  timer,         \* forceCloseWithDelay() has a timer waiting
  upc,           \* per user thread: the call it is in, past its test of state_
  userRef,       \* user code holds a TcpConnectionPtr
  numCalls,
  plain,         \* ghost: the calls were send() and shutdown() only
  closedFrom,    \* ghost: state_ when handleClose() was last entered
  destroyed      \* ghost: how often connectDestroyed() ran, up to 2

chanVars == <<events_, added, epolled>>
dataVars == <<outputBuffer_, wire, accepted>>
kernelVars == <<peer, inbox, wrShut>>
userVars == <<upc, userRef, numCalls, plain>>
ghostVars == <<closedFrom, destroyed>>
vars == <<oneLoop, state_, reading_, chanVars, dataVars, kernelVars, ioQ,
          baseQ, inMap, calls, timer, userVars, ghostVars>>

States == {"kDisconnected", "kConnecting", "kConnected", "kDisconnecting"}

(* "callback" is a writeCompleteCallback_ or a highWaterMarkCallback_.      *)
Strong == {"established", "destroy", "forceClose", "callback"}
Raw == {"send", "shutdown", "startRead"}      \* bound to this

MaxBytes == MsgLen * MaxCalls

TypeOK ==
  /\ state_ \in States \cup {"none"}
  /\ {oneLoop, reading_, added, epolled, inbox, wrShut, inMap, timer, userRef,
      plain} \subseteq BOOLEAN
  /\ events_ \in SUBSET Interests
  /\ outputBuffer_ \in Seq(1 .. MaxBytes)
  /\ wire \in Seq(1 .. MaxBytes)
  /\ accepted \in 0 .. MaxBytes
  /\ Len(wire) + Len(outputBuffer_) <= MaxBytes
  /\ peer \in {"open", "closed", "reset", "dead"}
  /\ ioQ \in Seq(Strong \cup Raw)
  /\ baseQ \in Seq({"remove"})
  /\ calls \in Seq(Callbacks)
  /\ upc \in [Users -> Calls \cup {"idle"}]
  /\ numCalls \in 0 .. MaxCalls
  /\ closedFrom \in States \cup {"none"}
  /\ destroyed \in 0 .. 2

Init ==
  /\ oneLoop \in BOOLEAN
  /\ state_ = "none"
  /\ reading_ = TRUE
  /\ events_ = {} /\ added = FALSE /\ epolled = FALSE
  /\ outputBuffer_ = <<>> /\ wire = <<>> /\ accepted = 0
  /\ peer = "open" /\ inbox = FALSE /\ wrShut = FALSE
  /\ ioQ = <<>> /\ baseQ = <<>>
  /\ inMap = FALSE
  /\ calls = <<>>
  /\ timer = FALSE
  /\ upc = [u \in Users |-> "idle"]
  /\ userRef = FALSE
  /\ numCalls = 0
  /\ plain = TRUE
  /\ closedFrom = "none"
  /\ destroyed = 0

-----------------------------------------------------------------------------
Room == Len(ioQ) + Len(baseQ) < MaxFunctors

InQueue(q, S) == \E i \in 1 .. Len(q) : q[i] \in S

(* Somebody holds a shared_ptr to the connection: the server's map, a       *)
(* functor, a timer, the guard of handleEvent(), or user code.              *)
Referenced ==
  \/ inMap \/ userRef \/ timer \/ calls # <<>>
  \/ InQueue(ioQ, Strong) \/ baseQ # <<>>
  \/ \E u \in Users : upc[u] # "idle"

(* Channel::update(): what the EPoller makes of a new interest.             *)
Updated(ev) ==
  /\ events_' = ev
  /\ added' = TRUE
  /\ epolled' = IF epolled THEN ev # {} ELSE TRUE

(* TcpServer::newConnection(): connectEstablished() goes through            *)
(* runInLoop(), at once if the loop is the same.                            *)
NewConnection ==
  /\ state_ = "none"
  /\ inMap' = TRUE
  /\ IF oneLoop
     THEN /\ state_' = "kConnected"
          /\ Updated({"IN"})
          /\ userRef' = TRUE
          /\ UNCHANGED ioQ
     ELSE /\ state_' = "kConnecting"
          /\ ioQ' = Append(ioQ, "established")
          /\ UNCHANGED <<chanVars, userRef>>
  /\ UNCHANGED <<oneLoop, reading_, dataVars, kernelVars, baseQ, calls,
                 timer, upc, numCalls, plain, ghostVars>>

(* removeConnectionInLoop() in the server's loop.                           *)
RemoveConnectionInLoop ==
  /\ baseQ # <<>>
  /\ baseQ' = Tail(baseQ)
  /\ inMap' = FALSE
  /\ ioQ' = Append(ioQ, "destroy")
  /\ UNCHANGED <<oneLoop, state_, reading_, chanVars, dataVars, kernelVars,
                 calls, timer, userVars, ghostVars>>

-----------------------------------------------------------------------------
(* Mutation: whatever waits in outputBuffer_ is overtaken.                  *)
CanWriteAlways == TRUE

(* Line 136.                                                                *)
CanWrite == "OUT" \notin events_ /\ outputBuffer_ = <<>>

Numbered(n) == [i \in 1 .. n |-> accepted + i]     \* the next n bytes

From(s, n) == SubSeq(s, n + 1, Len(s))

(* data + nwrote, up to remaining.                                          *)
Remaining(data, n) == From(data, n)

(* A write that the kernel answers with EPIPE or ECONNRESET.                *)
Broken == wrShut \/ peer \in {"reset", "dead"}

(* sendInLoop() of one message, q being the functors that wait.             *)
SendInLoop(q) ==
  LET data == Numbered(MsgLen)
      old == Len(outputBuffer_)
  IN
  \/ /\ state_ = "kDisconnected"
     /\ ioQ' = q
     /\ UNCHANGED <<chanVars, dataVars, peer>>
  \/ /\ state_ # "kDisconnected"
     /\ CanWrite /\ Broken                       \* faultError
     /\ peer' = IF peer = "reset" THEN "dead" ELSE peer
     /\ ioQ' = q
     /\ UNCHANGED <<chanVars, dataVars>>
  \/ /\ state_ # "kDisconnected"
     /\ ~(CanWrite /\ Broken)
     /\ \E n \in 0 .. (IF CanWrite THEN MsgLen ELSE 0) :
          /\ wire' = wire \o SubSeq(data, 1, n)
          /\ outputBuffer_' = IF n = MsgLen THEN outputBuffer_
                              ELSE outputBuffer_ \o Remaining(data, n)
          /\ ioQ' = IF \/ n = MsgLen              \* writeCompleteCallback_
                       \/ /\ old < highWaterMark_
                          /\ old + MsgLen - n >= highWaterMark_
                    THEN Append(q, "callback") ELSE q
          /\ IF n = MsgLen \/ "OUT" \in events_ THEN UNCHANGED chanVars
             ELSE Updated(events_ \cup {"OUT"})
     /\ accepted' = accepted + MsgLen
     /\ UNCHANGED peer

ShutdownInLoop == wrShut' = (wrShut \/ "OUT" \notin events_)

StartReadInLoop ==
  IF ~reading_ \/ "IN" \notin events_
  THEN Updated(events_ \cup {"IN"}) /\ reading_' = TRUE
  ELSE UNCHANGED <<chanVars, reading_>>

CanForceClose == state_ \in {"kConnected", "kDisconnecting"}

(* Mutation: the channel stays registered.                                  *)
DisableAllNot == UNCHANGED chanVars

DisableAll == Updated({})

(* handleClose(): the closeCallback_ at its end is removeConnection(), at   *)
(* once if the loop is the server's.                                        *)
HandleClose(q) ==
  /\ closedFrom' = state_
  /\ state_' = "kDisconnected"
  /\ DisableAll
  /\ IF oneLoop THEN /\ inMap' = FALSE
                     /\ ioQ' = Append(q, "destroy")
                     /\ UNCHANGED baseQ
     ELSE /\ baseQ' = Append(baseQ, "remove")
          /\ ioQ' = q
          /\ UNCHANGED inMap

-----------------------------------------------------------------------------
(* The functors of the connection's loop, one action each.                  *)
Runs(f) == calls = <<>> /\ ioQ # <<>> /\ Head(ioQ) = f

ConnectEstablished ==
  /\ Runs("established")
  /\ ioQ' = Tail(ioQ)
  /\ state_' = "kConnected"
  /\ Updated(events_ \cup {"IN"})
  /\ userRef' = TRUE                  \* connectionCallback_ gets a pointer
  /\ UNCHANGED <<oneLoop, reading_, dataVars, kernelVars, baseQ, inMap,
                 calls, timer, upc, numCalls, plain, ghostVars>>

RunSend ==
  /\ Runs("send")
  /\ SendInLoop(Tail(ioQ))
  /\ UNCHANGED <<oneLoop, state_, reading_, inbox, wrShut, baseQ, inMap,
                 calls, timer, userVars, ghostVars>>

RunShutdown ==
  /\ Runs("shutdown")
  /\ ioQ' = Tail(ioQ)
  /\ ShutdownInLoop
  /\ UNCHANGED <<oneLoop, state_, reading_, chanVars, dataVars, peer, inbox,
                 baseQ, inMap, calls, timer, userVars, ghostVars>>

RunStartRead ==
  /\ Runs("startRead")
  /\ ioQ' = Tail(ioQ)
  /\ StartReadInLoop
  /\ UNCHANGED <<oneLoop, state_, dataVars, kernelVars, baseQ, inMap, calls,
                 timer, userVars, ghostVars>>

RunCallback ==
  /\ Runs("callback")
  /\ ioQ' = Tail(ioQ)
  /\ UNCHANGED <<oneLoop, state_, reading_, chanVars, dataVars, kernelVars,
                 baseQ, inMap, calls, timer, userVars, ghostVars>>

(* Line 222: a connection that forceClose() has just made kDisconnecting is *)
(* left alone, one that is kDisconnected is closed again.                   *)
ForceCloseInLoop ==
  /\ Runs("forceClose")
  /\ IF state_ \in {"kConnected", "kDisconnected"} THEN HandleClose(Tail(ioQ))
     ELSE /\ ioQ' = Tail(ioQ)
          /\ UNCHANGED <<state_, chanVars, baseQ, inMap, closedFrom>>
  /\ UNCHANGED <<oneLoop, reading_, dataVars, kernelVars, calls, timer,
                 userVars, destroyed>>

AtMost(n, bound) == IF n < bound THEN n ELSE bound

(* Mutation: the channel is not removed from the loop.                      *)
RemoveNot == UNCHANGED <<added, epolled>>

(* channel_->remove().                                                      *)
Remove == added' = FALSE /\ epolled' = FALSE

ConnectDestroyed ==
  /\ Runs("destroy")
  /\ ioQ' = Tail(ioQ)
  /\ state_' = IF state_ = "kConnected" THEN "kDisconnected" ELSE state_
  /\ events_' = IF state_ = "kConnected" THEN {} ELSE events_
  /\ Remove
  /\ destroyed' = AtMost(destroyed + 1, 2)
  /\ UNCHANGED <<oneLoop, reading_, dataVars, kernelVars, baseQ, inMap,
                 calls, timer, userVars, closedFrom>>

-----------------------------------------------------------------------------
(* What epoll_wait reports.  Room for writing comes and goes.               *)
Reports(re) ==
  /\ re \subseteq Conditions
  /\ "IN" \in re <=> "IN" \in events_ /\ (inbox \/ peer # "open")
  /\ "OUT" \in re => "OUT" \in events_
  /\ "HUP" \in re <=> peer \in {"reset", "dead"} \/ (peer = "closed" /\ wrShut)
  /\ "ERR" \in re <=> peer = "reset"

HandleEvent ==
  /\ epolled /\ Referenced
  /\ calls = <<>>
  /\ Room
  /\ \E re \in SUBSET Conditions :
       /\ Reports(re) /\ re # {}
       /\ calls' = CallbacksFor(re)
  /\ UNCHANGED <<oneLoop, state_, reading_, chanVars, dataVars, kernelVars,
                 ioQ, baseQ, inMap, timer, userVars, ghostVars>>

Calls_(cb) == calls # <<>> /\ Head(calls) = cb /\ calls' = Tail(calls)

HandleReadMessage ==
  /\ Calls_("read")
  /\ inbox
  /\ inbox' = FALSE
  /\ UNCHANGED <<oneLoop, state_, reading_, chanVars, dataVars, peer, wrShut,
                 ioQ, baseQ, inMap, timer, userVars, ghostVars>>

(* Mutation: a read of 0 bytes is taken to be no message.                   *)
HandleReadEofIgnored ==
  /\ Calls_("read")
  /\ ~inbox /\ peer \in {"closed", "dead"}
  /\ UNCHANGED <<oneLoop, state_, reading_, chanVars, dataVars, kernelVars,
                 ioQ, baseQ, inMap, timer, userVars, ghostVars>>

HandleReadEof ==
  /\ Calls_("read")
  /\ ~inbox /\ peer \in {"closed", "dead"}
  /\ HandleClose(ioQ)
  /\ UNCHANGED <<oneLoop, reading_, dataVars, kernelVars, timer, userVars,
                 destroyed>>

(* The read fails once, after which it returns 0; handleError() only logs.  *)
HandleReadError ==
  /\ Calls_("read")
  /\ ~inbox /\ peer = "reset"
  /\ peer' = "dead"
  /\ UNCHANGED <<oneLoop, state_, reading_, chanVars, dataVars, inbox,
                 wrShut, ioQ, baseQ, inMap, timer, userVars, ghostVars>>

HandleCloseCallback ==
  /\ Calls_("close")
  /\ HandleClose(ioQ)
  /\ UNCHANGED <<oneLoop, reading_, dataVars, kernelVars, timer, userVars,
                 destroyed>>

HandleError ==
  /\ Calls_("error")
  /\ UNCHANGED <<oneLoop, state_, reading_, chanVars, dataVars, kernelVars,
                 ioQ, baseQ, inMap, timer, userVars, ghostVars>>

(* Mutation: the channel goes on asking for writability.                    *)
DisableWritingNot == UNCHANGED chanVars

DisableWriting == Updated(events_ \ {"OUT"})

(* handleWrite() that writes n bytes, all of them or not.                   *)
HandleWrite ==
  /\ Calls_("write")
  /\ "OUT" \in events_ /\ ~Broken
  /\ \E n \in 1 .. Len(outputBuffer_) :
       /\ wire' = wire \o SubSeq(outputBuffer_, 1, n)
       /\ outputBuffer_' = From(outputBuffer_, n)
       /\ IF n < Len(outputBuffer_) THEN UNCHANGED <<chanVars, ioQ, wrShut>>
          ELSE /\ DisableWriting
               /\ ioQ' = Append(ioQ, "callback")
               /\ wrShut' = (wrShut \/ state_ = "kDisconnecting")
  /\ UNCHANGED <<oneLoop, state_, reading_, accepted, peer, inbox, baseQ,
                 inMap, timer, userVars, ghostVars>>

(* The write fails, be it with EINTR, or the channel is not writing any     *)
(* more: a log entry.                                                       *)
HandleWriteFails ==
  /\ Calls_("write")
  /\ peer' = IF "OUT" \in events_ /\ peer = "reset" THEN "dead" ELSE peer
  /\ UNCHANGED <<oneLoop, state_, reading_, chanVars, dataVars, inbox,
                 wrShut, ioQ, baseQ, inMap, timer, userVars, ghostVars>>

-----------------------------------------------------------------------------
(* Calls by user code.                                                      *)
MayCall(op) ==
  /\ op \in Calls
  /\ userRef
  /\ numCalls < MaxCalls
  /\ Room
  /\ numCalls' = numCalls + 1
  /\ plain' = (plain /\ op \in {"send", "shutdown"})

(* In the thread of the connection's loop, runInLoop() is a plain call.     *)
SendHere ==
  /\ MayCall("send")
  /\ state_ = "kConnected"
  /\ SendInLoop(ioQ)
  /\ UNCHANGED <<oneLoop, state_, reading_, inbox, wrShut, baseQ, inMap,
                 calls, timer, upc, userRef, ghostVars>>

ShutdownHere ==
  /\ MayCall("shutdown")
  /\ state_ = "kConnected"
  /\ state_' = "kDisconnected"
  /\ ShutdownInLoop
  /\ UNCHANGED <<oneLoop, reading_, chanVars, dataVars, peer, inbox, ioQ,
                 baseQ, inMap, calls, timer, upc, userRef, ghostVars>>

ForceCloseHere ==
  /\ MayCall("forceClose")
  /\ CanForceClose
  /\ state_' = "kDisconnecting"
  /\ ioQ' = Append(ioQ, "forceClose")
  /\ UNCHANGED <<oneLoop, reading_, chanVars, dataVars, kernelVars, baseQ,
                 inMap, calls, timer, upc, userRef, ghostVars>>

ForceCloseWithDelay ==
  /\ MayCall("forceCloseWithDelay")
  /\ CanForceClose /\ ~timer
  /\ state_' = "kDisconnecting"
  /\ timer' = TRUE
  /\ UNCHANGED <<oneLoop, reading_, chanVars, dataVars, kernelVars, ioQ,
                 baseQ, inMap, calls, upc, userRef, ghostVars>>

(* The timer calls forceClose().                                            *)
TimerFires ==
  /\ timer /\ calls = <<>>
  /\ Room
  /\ timer' = FALSE
  /\ IF CanForceClose
     THEN state_' = "kDisconnecting" /\ ioQ' = Append(ioQ, "forceClose")
     ELSE UNCHANGED <<state_, ioQ>>
  /\ UNCHANGED <<oneLoop, reading_, chanVars, dataVars, kernelVars, baseQ,
                 inMap, calls, userVars, ghostVars>>

(* startRead(), and stopRead() as well: line 268.                           *)
StartReadHere ==
  /\ MayCall("startRead")
  /\ StartReadInLoop
  /\ UNCHANGED <<oneLoop, state_, dataVars, kernelVars, ioQ, baseQ, inMap,
                 calls, timer, upc, userRef, ghostVars>>

Tests(op) ==
  CASE op = "startRead" -> TRUE
    [] op \in {"send", "shutdown"} -> state_ = "kConnected"
    [] OTHER -> CanForceClose

(* In another thread: the test of state_, which nothing protects, ...       *)
CallFrom(u, op) ==
  /\ upc[u] = "idle"
  /\ op # "forceCloseWithDelay"
  /\ MayCall(op)
  /\ Tests(op)
  /\ upc' = [upc EXCEPT ![u] = op]
  /\ UNCHANGED <<oneLoop, state_, reading_, chanVars, dataVars, kernelVars,
                 ioQ, baseQ, inMap, calls, timer, userRef, ghostVars>>

(* ... and then setState() and the functor.                                 *)
CallFromGoesOn(u) ==
  /\ upc[u] # "idle"
  /\ Room
  /\ state_' = CASE upc[u] = "shutdown" -> "kDisconnected"
                 [] upc[u] = "forceClose" -> "kDisconnecting"
                 [] OTHER -> state_
  /\ ioQ' = Append(ioQ, upc[u])
  /\ upc' = [upc EXCEPT ![u] = "idle"]
  /\ UNCHANGED <<oneLoop, reading_, chanVars, dataVars, kernelVars, baseQ,
                 inMap, calls, timer, userRef, numCalls, plain, ghostVars>>

DropRef ==
  /\ userRef /\ ~InQueue(ioQ, Raw)
  /\ \A u \in Users : upc[u] = "idle"
  /\ userRef' = FALSE
  /\ UNCHANGED <<oneLoop, state_, reading_, chanVars, dataVars, kernelVars,
                 ioQ, baseQ, inMap, calls, timer, upc, numCalls, plain,
                 ghostVars>>

-----------------------------------------------------------------------------
(* The peer and the network.                                                *)
Arrive ==
  /\ state_ # "none"
  /\ peer = "open" /\ ~inbox
  /\ inbox' = TRUE
  /\ UNCHANGED <<oneLoop, state_, reading_, chanVars, dataVars, peer, wrShut,
                 ioQ, baseQ, inMap, calls, timer, userVars, ghostVars>>

PeerCloses ==
  /\ state_ # "none"
  /\ peer = "open"
  /\ peer' = "closed"
  /\ UNCHANGED <<oneLoop, state_, reading_, chanVars, dataVars, inbox,
                 wrShut, ioQ, baseQ, inMap, calls, timer, userVars, ghostVars>>

PeerResets ==
  /\ state_ # "none"
  /\ peer \in {"open", "closed"}
  /\ peer' = "reset"
  /\ inbox' = FALSE
  /\ UNCHANGED <<oneLoop, state_, reading_, chanVars, dataVars, wrShut, ioQ,
                 baseQ, inMap, calls, timer, userVars, ghostVars>>

Functor ==
  \/ ConnectEstablished \/ RunSend \/ RunShutdown \/ RunStartRead
  \/ RunCallback \/ ForceCloseInLoop \/ ConnectDestroyed

Handler ==
  \/ HandleEvent \/ HandleReadMessage \/ HandleReadEof \/ HandleReadError
  \/ HandleCloseCallback \/ HandleError \/ HandleWrite \/ HandleWriteFails

UserHere ==
  \/ SendHere \/ ShutdownHere \/ ForceCloseHere \/ ForceCloseWithDelay
  \/ StartReadHere

Next ==
  \/ NewConnection \/ RemoveConnectionInLoop
  \/ Functor \/ Handler \/ TimerFires \/ UserHere \/ DropRef
  \/ \E u \in Users : (\E op \in Calls : CallFrom(u, op)) \/ CallFromGoesOn(u)
  \/ Arrive \/ PeerCloses \/ PeerResets

Spec == Init /\ [][Next]_vars

(* Both loops run.  Each iteration of the connection's loop serves its      *)
(* channels and then its functors, however many events come: hence strong   *)
(* fairness.                                                                *)
FairSpec ==
  /\ Spec
  /\ WF_vars(RemoveConnectionInLoop)
  /\ SF_vars(Functor)
  /\ WF_vars(Handler)
  /\ WF_vars(TimerFires)
  /\ \A u \in Users : WF_vars(CallFromGoesOn(u))
-----------------------------------------------------------------------------
(* What was written to the socket and what waits in outputBuffer_ are,      *)
(* together, the messages in the order in which they were sent: no byte is  *)
(* lost, repeated or overtaken by a later direct write (lines 136-174 and   *)
(* 329-346).                                                                *)
WireInOrder == TypeOK /\ wire \o outputBuffer_ = [i \in 1 .. accepted |-> i]

(* Until the connection is closed or destroyed its channel asks for         *)
(* writability exactly while there is something to write: no output is      *)
(* stuck, no idle connection spins the loop.                                *)
WritesWhilePending ==
  closedFrom = "none" /\ destroyed = 0 =>
    ("OUT" \in events_ <=> outputBuffer_ # <<>>)

(* TcpConnection.h line 106, "should be called only once", whatever order   *)
(* the peer, the two loops and the threads that send or shut down come in.  *)
(* A forceClose() that finds the connection closed (line 222) and a         *)
(* startRead() after the close do destroy it again.                         *)
DestroyedOnce == plain => destroyed <= 1

(* When the last reference goes, the destructors find what they assert      *)
(* (TcpConnection.cc line 60, Channel.cc line 32): the connection is        *)
(* kDisconnected and its channel has left the loop, so no pointer to it     *)
(* stays behind.  As above, forceClose() and startRead() are excepted.      *)
DestructedClean ==
  plain /\ state_ # "none" /\ ~Referenced =>
    state_ = "kDisconnected" /\ ~added /\ ~epolled

(* A connection whose peer has gone leaves the server's map and the epoll   *)
(* set: through handleRead(), handleClose(), removeConnection() and         *)
(* connectDestroyed(), over two loops.                                      *)
ClosedIsRemoved ==
  (inMap /\ peer # "open") ~> (~inMap /\ ~epolled /\ destroyed > 0)
=============================================================================
