----------------------------- MODULE TcpServer -----------------------------
(***************************************************************************)
(* muduo/net/TcpServer.cc with Acceptor.cc, over the loops of its pool:    *)
(* start(), accepting and assigning connections, their close, and          *)
(* ~TcpServer().  Loop 0 is the server's own, the loops of the pool are    *)
(* 1 .. numThreads_.  Of a connection only what the server and the loops   *)
(* do with it is kept (TcpConnection has the rest), of an EventLoop its    *)
(* pending functors, the batch doPendingFunctors() has swapped out, and    *)
(* quit_, whose wakeup is EventLoop's NoLostQuit.                          *)
(*                                                                         *)
(* Users start the server in any thread and destroy it in its loop's       *)
(* thread, in a functor or a callback that is not one of its own           *)
(* connections', and while nobody is inside start().                       *)
(***************************************************************************)
EXTENDS Naturals, Sequences, FiniteSets

CONSTANTS Others,        \* threads, besides that of loop 0, that call start()
          Base,          \* the thread of loop 0
          MaxThreads,    \* bound: numThreads_
          MaxConns,      \* bound: clients that connect
          FdLimit,       \* sockets of connections the process may have open
          MaxDisturbed   \* bound: connections that users force to close

ASSUME ServerAssumption ==
  /\ Base \notin Others
  /\ {MaxThreads, MaxConns, FdLimit, MaxDisturbed} \subseteq Nat

VARIABLES
  server,       \* "alive", "closing", "joining", "gone"
  spc,          \* per thread: where it is in start()
  started_,
  numThreads_,
  loops_,       \* the loops that were started, as a number
  next_,
  nextConnId_,
  connections_,
  listening_,
  backlog,      \* kernel: connections that wait for accept()
  exited,       \* accept() failed and called exit()
  loopOf,       \* the loop of each connection
  conn,         \* what has become of each connection
  q,            \* pendingFunctors_ of each loop
  batch,        \* the functors a loop of the pool is running
  lpc,          \* a loop of the pool is in "events", "functors" or "exited"
  quit_,
  joining,      \* the loop the destructor joins
  useAfter,     \* ghost: a functor used the TcpServer after its destruction
  tidy,         \* ghost: ~TcpServer() began with nothing under way
  disturbed     \* ghost: connections that users closed or read after a close

startVars == <<spc, started_, numThreads_, loops_>>
acceptVars == <<next_, nextConnId_, listening_, backlog, exited, loopOf>>
loopVars == <<q, batch, lpc, quit_>>
ghostVars == <<useAfter, tidy, disturbed>>
vars == <<server, startVars, acceptVars, connections_, conn, loopVars, joining,
          ghostVars>>

Threads == Others \cup {Base}
PoolIds == 1 .. MaxThreads
Loops == {0} \cup PoolIds
Conns == 1 .. MaxConns

(* "listen" and "remove" are bound to a raw Acceptor* and TcpServer*,       *)
(* "established", "destroy" and "force" to a TcpConnectionPtr.              *)
Functors == {"listen", "remove", "established", "destroy", "force"}
              \X (Conns \cup {0})
RawFunctors == {"listen", "remove"} \X (Conns \cup {0})

TypeOK ==
  /\ server \in {"alive", "closing", "joining", "gone"}
  /\ spc \in [Threads -> {"idle", "pool", "listen", "done"}]
  /\ {started_, listening_, exited, useAfter, tidy} \subseteq BOOLEAN
  /\ numThreads_ \in 0 .. MaxThreads
  /\ loops_ \in 0 .. numThreads_
  /\ next_ \in 0 .. MaxThreads
  /\ nextConnId_ \in 1 .. MaxConns + 1
  /\ connections_ \subseteq Conns
  /\ backlog \in 0 .. MaxConns
  /\ loopOf \in [Conns -> Loops]
  /\ conn \in [Conns -> {"none", "kConnecting", "kConnected",
                         "kDisconnecting", "kDisconnected", "destroyed",
                         "dropped"}]
  /\ q \in [Loops -> Seq(Functors)]
  /\ batch \in [PoolIds -> Seq(Functors)]
  /\ lpc \in [PoolIds -> {"none", "events", "functors", "exited"}]
  /\ quit_ \in [PoolIds -> BOOLEAN]
  /\ joining \in 0 .. MaxThreads + 1
  /\ disturbed \subseteq Conns

Init ==
  /\ server = "alive"
  /\ spc = [t \in Threads |-> "idle"]
  /\ started_ = FALSE
  /\ numThreads_ \in 0 .. MaxThreads
  /\ loops_ = 0 /\ next_ = 0
  /\ nextConnId_ = 1
  /\ connections_ = {}
  /\ listening_ = FALSE
  /\ backlog = 0
  /\ exited = FALSE
  /\ loopOf = [c \in Conns |-> 0]
  /\ conn = [c \in Conns |-> "none"]
  /\ q = [i \in Loops |-> <<>>]
  /\ batch = [i \in PoolIds |-> <<>>]
  /\ lpc = [i \in PoolIds |-> "none"]
  /\ quit_ = [i \in PoolIds |-> FALSE]
  /\ joining = 0
  /\ useAfter = FALSE /\ tidy = FALSE /\ disturbed = {}

-----------------------------------------------------------------------------
(* The thread of loop 0 is in its loop, not in start() or the destructor.   *)
BaseFree ==
  /\ ~exited
  /\ spc[Base] \in {"idle", "done"}
  /\ server \in {"alive", "gone"}

Queued(i, f) == [q EXCEPT ![i] = Append(@, f)]

(* Mutation: start() tests started_ and sets it in two steps, so that two   *)
(* callers may go on; the pool is started by the first.                     *)
StartRaces(t) ==
  /\ ~exited
  /\ spc[t] = "idle"
  /\ server = "alive"
  /\ started_' = TRUE
  /\ spc' = [spc EXCEPT ![t] = IF started_ THEN "listen" ELSE "pool"]
  /\ UNCHANGED <<server, numThreads_, loops_, acceptVars, connections_, conn,
                 loopVars, joining, ghostVars>>

(* start(): only the first caller goes on.                                  *)
Start(t) ==
  /\ ~exited
  /\ spc[t] = "idle"
  /\ server = "alive"
  /\ started_' = TRUE
  /\ spc' = [spc EXCEPT ![t] = IF started_ THEN "done" ELSE "pool"]
  /\ UNCHANGED <<server, numThreads_, loops_, acceptVars, connections_, conn,
                 loopVars, joining, ghostVars>>

(* EventLoopThreadPool::start(), one startLoop() after the other.           *)
StartLoop(t) ==
  /\ ~exited
  /\ spc[t] = "pool"
  /\ IF loops_ < numThreads_
     THEN /\ loops_' = loops_ + 1
          /\ lpc' = [lpc EXCEPT ![loops_ + 1] = "events"]
          /\ UNCHANGED spc
     ELSE /\ spc' = [spc EXCEPT ![t] = "listen"]
          /\ UNCHANGED <<loops_, lpc>>
  /\ UNCHANGED <<server, started_, numThreads_, acceptVars, connections_, conn,
                 q, batch, quit_, joining, ghostVars>>

(* runInLoop(listen): the loop's thread listens at once.                    *)
StartListen(t) ==
  /\ ~exited
  /\ spc[t] = "listen"
  /\ spc' = [spc EXCEPT ![t] = "done"]
  /\ IF t = Base
     THEN listening_' = TRUE /\ UNCHANGED q
     ELSE q' = Queued(0, <<"listen", 0>>) /\ UNCHANGED listening_
  /\ UNCHANGED <<server, started_, numThreads_, loops_, next_, nextConnId_,
                 backlog, exited, loopOf, connections_, conn, batch, lpc, quit_,
                 joining, ghostVars>>

-----------------------------------------------------------------------------
(* A client connects; the kernel takes it once the socket listens.          *)
Connect ==
  /\ listening_ /\ ~exited /\ server # "gone"
  /\ backlog + nextConnId_ <= MaxConns
  /\ backlog' = backlog + 1
  /\ UNCHANGED <<server, startVars, next_, nextConnId_, listening_, exited,
                 loopOf, connections_, conn, loopVars, joining, ghostVars>>

OpenSockets ==
  {c \in Conns : conn[c] \in {"kConnecting", "kConnected", "kDisconnecting",
                              "kDisconnected"}}

(* getNextLoop(): loop 0 itself if the pool has none.                       *)
NextLoop == IF loops_ = 0 THEN 0 ELSE next_ + 1

(* TcpServer::newConnection() for a socket that accept() has taken from the *)
(* kernel; connectEstablished() runs in its loop, here if that is loop 0.   *)
NewConnection ==
  /\ backlog' = backlog - 1
  /\ nextConnId_' = nextConnId_ + 1
  /\ next_' = IF loops_ = 0 \/ next_ + 1 >= loops_ THEN 0 ELSE next_ + 1
  /\ connections_' = connections_ \cup {nextConnId_}
  /\ loopOf' = [loopOf EXCEPT ![nextConnId_] = NextLoop]
  /\ IF NextLoop = 0
     THEN /\ conn' = [conn EXCEPT ![nextConnId_] = "kConnected"]
          /\ UNCHANGED q
     ELSE /\ conn' = [conn EXCEPT ![nextConnId_] = "kConnecting"]
          /\ q' = Queued(NextLoop, <<"established", nextConnId_>>)
  /\ UNCHANGED <<server, startVars, listening_, exited, batch, lpc, quit_,
                 joining, ghostVars>>

(* Mutation: the failure is only logged.                                    *)
AcceptFailsSilently == UNCHANGED vars

(* Socket::accept() finds no free descriptor and ends the process.          *)
AcceptFails ==
  /\ exited' = TRUE
  /\ UNCHANGED <<server, startVars, next_, nextConnId_, listening_, backlog,
                 loopOf, connections_, conn, loopVars, joining, ghostVars>>

(* Acceptor::handleRead(): one client is accepted.  Its branch for a failed *)
(* accept() is never reached.                                               *)
HandleRead ==
  /\ BaseFree /\ server = "alive"
  /\ listening_ /\ backlog > 0
  /\ \/ Cardinality(OpenSockets) < FdLimit /\ NewConnection
     \/ Cardinality(OpenSockets) >= FdLimit /\ AcceptFails

(* Mutation: removeConnection() queues in loop 0 even in its own thread.    *)
HandleCloseQueued(c) ==
  /\ ~exited
  /\ conn[c] \in {"kConnected", "kDisconnecting"}
  /\ conn' = [conn EXCEPT ![c] = "kDisconnected"]
  /\ IF loopOf[c] = 0 THEN BaseFree ELSE lpc[loopOf[c]] = "events"
  /\ q' = Queued(0, <<"remove", c>>)
  /\ UNCHANGED <<server, startVars, acceptVars, connections_, batch, lpc,
                 quit_, joining, ghostVars>>

(* TcpConnection::handleClose() in the connection's loop calls              *)
(* removeConnection(), which erases the connection at once in loop 0.       *)
HandleClose(c) ==
  /\ ~exited
  /\ conn[c] \in {"kConnected", "kDisconnecting"}
  /\ conn' = [conn EXCEPT ![c] = "kDisconnected"]
  /\ IF loopOf[c] = 0
     THEN /\ BaseFree
          /\ connections_' = connections_ \ {c}
          /\ q' = Queued(0, <<"destroy", c>>)
     ELSE /\ lpc[loopOf[c]] = "events"
          /\ q' = Queued(0, <<"remove", c>>)
          /\ UNCHANGED connections_
  /\ UNCHANGED <<server, startVars, acceptVars, batch, lpc, quit_, joining,
                 ghostVars>>

(* A user's forceClose() of an open connection, or startRead() of one that  *)
(* has been closed, whose event at the end of file is taken with it.        *)
ForceClose(c) ==
  /\ ~exited
  /\ conn[c] \in {"kConnected", "kDisconnected", "destroyed"}
  /\ loopOf[c] # 0 => lpc[loopOf[c]] # "exited"
  /\ Cardinality(disturbed) < MaxDisturbed
  /\ c \notin disturbed
  /\ disturbed' = disturbed \cup {c}
  /\ conn' = [conn EXCEPT ![c] = IF @ = "kConnected" THEN "kDisconnecting"
                                 ELSE @]
  /\ q' = Queued(loopOf[c], <<"force", c>>)
  /\ UNCHANGED <<server, startVars, acceptVars, connections_, batch, lpc,
                 quit_, joining, useAfter, tidy>>

-----------------------------------------------------------------------------
(* The state that connectEstablished(), connectDestroyed() and              *)
(* forceCloseInLoop() leave; kDisconnecting is unknown to the last two.     *)
Ran(f) ==
  [conn EXCEPT ![f[2]] =
     CASE f[1] = "established" -> "kConnected"
       [] f[1] = "destroy" /\ @ # "kDisconnecting" -> "destroyed"
       [] OTHER -> @]

(* forceCloseInLoop() accepts a connection that is kDisconnected, and then  *)
(* handleClose() calls removeConnection() for it once more.                 *)
ClosesAgain(f) ==
  f[1] = "force" /\ conn[f[2]] \in {"kDisconnected", "destroyed"}

(* Mutation: the connection's last step is not queued.                      *)
RemoveInLoopOnly(c, rest) ==
  /\ connections_' = connections_ \ {c}
  /\ q' = [q EXCEPT ![0] = rest]

(* removeConnectionInLoop(): the last step of the connection is queued even *)
(* if its loop is this one.                                                 *)
RemoveInLoop(c, rest) ==
  /\ connections_' = connections_ \ {c}
  /\ q' = [q EXCEPT ![0] = rest,
                    ![loopOf[c]] = Append(IF loopOf[c] = 0 THEN rest ELSE @,
                                          <<"destroy", c>>)]

(* Loop 0 runs its next functor.  One that holds a pointer to the server or *)
(* the acceptor reads freed memory when they are gone.                      *)
BaseFunctor ==
  /\ BaseFree
  /\ q[0] # <<>>
  /\ LET f == Head(q[0])
     IN  \/ /\ f \in RawFunctors \/ ClosesAgain(f)
            /\ server = "gone"
            /\ useAfter' = TRUE
            /\ q' = [q EXCEPT ![0] = Tail(@)]
            /\ UNCHANGED <<listening_, connections_, conn>>
         \/ /\ f[1] = "listen" /\ server = "alive"
            /\ listening_' = TRUE
            /\ q' = [q EXCEPT ![0] = Tail(@)]
            /\ UNCHANGED <<connections_, conn, useAfter>>
         \/ /\ f[1] = "remove" \/ ClosesAgain(f)
            /\ server = "alive"
            /\ RemoveInLoop(f[2], Tail(q[0]))
            /\ UNCHANGED <<listening_, conn, useAfter>>
         \/ /\ f[1] \in {"destroy", "force"} /\ ~ClosesAgain(f)
            /\ conn' = Ran(f)
            /\ q' = [q EXCEPT ![0] = Tail(@)]
            /\ UNCHANGED <<listening_, connections_, useAfter>>
  /\ UNCHANGED <<server, startVars, next_, nextConnId_, backlog, exited, loopOf,
                 batch, lpc, quit_, joining, tidy, disturbed>>

(* doPendingFunctors() of a loop of the pool swaps its functors out, ...    *)
SwapFunctors(i) ==
  /\ ~exited
  /\ lpc[i] = "events"
  /\ lpc' = [lpc EXCEPT ![i] = "functors"]
  /\ batch' = [batch EXCEPT ![i] = q[i]]
  /\ q' = [q EXCEPT ![i] = <<>>]
  /\ UNCHANGED <<server, startVars, acceptVars, connections_, conn, quit_,
                 joining, ghostVars>>

(* ... runs them ...                                                        *)
PoolFunctor(i) ==
  /\ ~exited
  /\ lpc[i] = "functors" /\ batch[i] # <<>>
  /\ conn' = Ran(Head(batch[i]))
  /\ batch' = [batch EXCEPT ![i] = Tail(@)]
  /\ IF ClosesAgain(Head(batch[i]))
     THEN /\ useAfter' = (useAfter \/ server = "gone")
          /\ q' = IF server = "gone" THEN q
                  ELSE Queued(0, <<"remove", Head(batch[i])[2]>>)
     ELSE UNCHANGED <<q, useAfter>>
  /\ UNCHANGED <<server, startVars, acceptVars, connections_, lpc, quit_,
                 joining, tidy, disturbed>>

(* ... and loop() tests quit_.  When it returns, the EventLoop dies with    *)
(* what was queued since the swap, and with it the connections whose last   *)
(* reference that was.                                                      *)
LoopTest(i) ==
  /\ ~exited
  /\ lpc[i] = "functors" /\ batch[i] = <<>>
  /\ IF quit_[i]
     THEN /\ lpc' = [lpc EXCEPT ![i] = "exited"]
          /\ conn' = [c \in Conns |->
                        IF \E k \in 1 .. Len(q[i]) : q[i][k][2] = c
                        THEN "dropped" ELSE conn[c]]
          /\ q' = [q EXCEPT ![i] = <<>>]
     ELSE /\ lpc' = [lpc EXCEPT ![i] = "events"]
          /\ UNCHANGED <<conn, q>>
  /\ UNCHANGED <<server, startVars, acceptVars, connections_, batch, quit_,
                 joining, ghostVars>>

-----------------------------------------------------------------------------
(* ~TcpServer() begins.                                                     *)
Destruct ==
  /\ BaseFree /\ server = "alive"
  /\ \A t \in Threads : spc[t] \in {"idle", "done"}
  /\ server' = "closing"
  /\ tidy' = /\ connections_ = {} \/ numThreads_ = 0
             /\ <<"listen", 0>> \notin {q[0][k] : k \in 1 .. Len(q[0])}
  /\ UNCHANGED <<startVars, acceptVars, connections_, conn, loopVars, joining,
                 useAfter, disturbed>>

(* runInLoop(connectDestroyed) for the next connection in the map.          *)
DestructConnection ==
  /\ server = "closing"
  /\ \E c \in connections_ :
       /\ \A d \in connections_ : c <= d
       /\ connections_' = connections_ \ {c}
       /\ IF loopOf[c] = 0
          THEN conn' = Ran(<<"destroy", c>>) /\ UNCHANGED q
          ELSE q' = Queued(loopOf[c], <<"destroy", c>>) /\ UNCHANGED conn
  /\ UNCHANGED <<server, startVars, acceptVars, batch, lpc, quit_, joining,
                 ghostVars>>

(* Then the members die: each EventLoopThread calls quit() and joins, ...   *)
DestructQuit ==
  /\ server \in {"closing", "joining"}
  /\ connections_ = {}
  /\ server = "joining" => lpc[joining] = "exited"
  /\ joining < loops_
  /\ server' = "joining"
  /\ joining' = joining + 1
  /\ quit_' = [quit_ EXCEPT ![joining + 1] = TRUE]
  /\ UNCHANGED <<startVars, acceptVars, connections_, conn, q, batch, lpc,
                 ghostVars>>

(* ... and after the last one the Acceptor takes its channel out.           *)
Destructed ==
  /\ server \in {"closing", "joining"}
  /\ connections_ = {}
  /\ server = "joining" => lpc[joining] = "exited"
  /\ joining = loops_
  /\ server' = "gone"
  /\ listening_' = FALSE
  /\ backlog' = 0
  /\ UNCHANGED <<startVars, next_, nextConnId_, exited, loopOf, connections_,
                 conn, loopVars, joining, ghostVars>>

-----------------------------------------------------------------------------
StarterStep(t) == StartLoop(t) \/ StartListen(t)
DestructorStep == DestructConnection \/ DestructQuit \/ Destructed
PoolStep(i) == SwapFunctors(i) \/ PoolFunctor(i) \/ LoopTest(i)

Next ==
  \/ \E t \in Threads : Start(t) \/ StarterStep(t)
  \/ Connect \/ HandleRead \/ BaseFunctor
  \/ \E c \in Conns : HandleClose(c) \/ ForceClose(c)
  \/ \E i \in PoolIds : PoolStep(i)
  \/ Destruct \/ DestructorStep

Spec == Init /\ [][Next]_vars

(* Threads are scheduled and user callbacks return; a loop serves its ready *)
(* channels and its functors in every iteration.                            *)
FairSpec ==
  /\ Spec
  /\ WF_vars(HandleRead) /\ WF_vars(BaseFunctor)
  /\ WF_vars(DestructorStep)
  /\ \A t \in Threads : WF_vars(StarterStep(t))
  /\ \A i \in PoolIds : WF_vars(PoolStep(i))
-----------------------------------------------------------------------------
(* "N means a thread pool with N threads, new connections are assigned on a *)
(* round-robin basis" (TcpServer.h lines 55-56): with a pool no connection  *)
(* is served by the accepting loop, however often and in whatever threads   *)
(* start() is called, and the loops' shares differ by one at most.          *)
ServedByPool ==
  /\ TypeOK
  /\ LET Share(i) == Cardinality({c \in 1 .. nextConnId_ - 1 : loopOf[c] = i})
     IN  numThreads_ > 0 =>
           /\ Share(0) = 0
           /\ \A i, j \in 1 .. numThreads_ : Share(i) <= Share(j) + 1

(* Where a connection's life goes on from: in the server's map, or in one   *)
(* functor of the right loop.                                               *)
Count(i, f) ==
  LET all == IF i = 0 THEN q[0] ELSE batch[i] \o q[i]
  IN  Cardinality({k \in 1 .. Len(all) : all[k] = f})

(* While the server lives, every open connection is in its map or about to  *)
(* be destroyed, never both, and what has been closed is on its way out     *)
(* exactly once: removeConnectionInLoop()'s assert(n == 1) holds and        *)
(* connectDestroyed() runs once.  A connection that users called            *)
(* forceClose() for, or startRead() after its close, is the exception:      *)
(* handleClose() may come a second time and do all this again.              *)
OneWayOut ==
  server = "alive" /\ ~exited =>
    \A c \in Conns \ disturbed :
      LET removes == Count(0, <<"remove", c>>)
          destroys == Count(loopOf[c], <<"destroy", c>>)
      IN  /\ conn[c] \in {"kConnecting", "kConnected"} =>
               c \in connections_ /\ removes = 0 /\ destroys = 0
          /\ conn[c] = "kDisconnected" =>
               /\ removes + destroys = 1
               /\ (c \in connections_) = (removes = 1)
          /\ conn[c] \in {"none", "destroyed"} =>
               c \notin connections_ /\ removes = 0 /\ destroys = 0

(* The raw pointers of lines 56, 89 and 96 ("FIXME: unsafe"): nothing uses  *)
(* the server after ~TcpServer() if it began with no listen() queued and    *)
(* with no connection left or no pool, and no connection is closed again by *)
(* a forceClose() or startRead() of its users.                              *)
NoUseAfterDestruct == tidy /\ disturbed = {} => ~useAfter

(* Accepted one at a time (Acceptor.cc line 51, "FIXME loop until no more"),*)
(* all clients are served in the end, or the process exits for want of      *)
(* descriptors, or the server is destroyed.                                 *)
ClientsServed ==
  (listening_ /\ backlog > 0) ~> (backlog = 0 \/ exited \/ server # "alive")
=============================================================================
