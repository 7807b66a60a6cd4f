------------------------ MODULE EventLoopThreadPool ------------------------
(***************************************************************************)
(* muduo/net/EventLoopThreadPool.cc and EventLoopThread.cc over            *)
(* base/Thread.cc: the server's thread, here the owner, starts one thread  *)
(* after the other; each runs an EventLoop on its own stack and publishes  *)
(* its address.  In the end the owner destroys the threads one after the   *)
(* other, with quit() and join().  getNextLoop() is in TcpServer.          *)
(* Of an EventLoop only the life of the object and quit_ are kept; that    *)
(* quit() gets a loop out of epoll_wait() is EventLoop's NoLostQuit.       *)
(***************************************************************************)
EXTENDS Naturals, Sequences

CONSTANTS MaxThreads,       \* bound: numThreads_
          CreateMayFail     \* pthread_create may return an error

ASSUME BoundsAssumption == MaxThreads \in Nat
ASSUME CreateAssumption == CreateMayFail \in BOOLEAN

VARIABLES
  starter,     \* where the owner's thread is
  numThreads_,
  cur,         \* the thread the owner is starting or destroying
  tpc,         \* where each thread is
  latch,       \* count_ of each Thread's latch_
  loop_,       \* EventLoopThread::loop_ is not NULL
  quit_,       \* of each EventLoop
  selfQuit,    \* ghost: a callback of this loop has called quit()
  loops_       \* the loops that were started, as a number

poolVars == <<numThreads_, loops_>>
loopPoolVars == <<starter, cur, tpc, latch, loop_, quit_, selfQuit, poolVars>>

Ids == 0 .. MaxThreads - 1

(* "new" until start(); in startLoop(): "create", "latch", "lock" and       *)
(* "asleep"; "started"; in ~EventLoopThread(): "test", "quit" and "wakeup"  *)
(* (the call of quit() and its second half), "join"; in the two "dead"      *)
(* places the owner has gone through NULL or to an EventLoop that is no     *)
(* more, and what it does then is undefined.                                *)
StarterPCs == {"new", "create", "latch", "lock", "asleep", "started", "test",
               "quit", "wakeup", "join", "gone", "dead", "deadWakeup"}

(* threadFunc(): "callback" runs callback_, "publish" takes the mutex,      *)
(* "enter" is the head of loop(), "clear" sets loop_ to NULL, and at        *)
(* "destruct" the mutex is let go and loop dies.                            *)
ThreadPCs == {"none", "new", "callback", "publish", "enter", "loop", "clear",
              "destruct", "done"}

LoopPoolTypeOK ==
  /\ starter \in StarterPCs
  /\ numThreads_ \in 0 .. MaxThreads
  /\ cur \in 0 .. MaxThreads
  /\ tpc \in [Ids -> ThreadPCs]
  /\ latch \in [Ids -> 0 .. 1]
  /\ loop_ \in [Ids -> BOOLEAN]
  /\ quit_ \in [Ids -> BOOLEAN]
  /\ selfQuit \in [Ids -> BOOLEAN]
  /\ loops_ \in 0 .. MaxThreads

LoopPoolInit ==
  /\ starter = "new"
  /\ numThreads_ \in 0 .. MaxThreads
  /\ cur = 0
  /\ tpc = [i \in Ids |-> "none"]
  /\ latch = [i \in Ids |-> 1]
  /\ loop_ = [i \in Ids |-> FALSE]
  /\ quit_ = [i \in Ids |-> FALSE]
  /\ selfQuit = [i \in Ids |-> FALSE]
  /\ loops_ = 0

-----------------------------------------------------------------------------
(* EventLoopThreadPool::start(), and its loop once startLoop() returned.    *)
StartFrom(i) == IF i < numThreads_ THEN "create" ELSE "started"

StartPool ==
  /\ starter = "new"
  /\ starter' = StartFrom(0)
  /\ UNCHANGED <<cur, tpc, latch, loop_, quit_, selfQuit, poolVars>>

(* Thread::start().                                                         *)
Create ==
  /\ starter = "create"
  /\ starter' = "latch"
  /\ tpc' = [tpc EXCEPT ![cur] = "new"]
  /\ UNCHANGED <<cur, latch, loop_, quit_, selfQuit, poolVars>>

(* pthread_create fails: Thread::start() prints that and returns, and       *)
(* startLoop() goes on to wait for a loop that nobody will publish.         *)
CreateFails ==
  /\ CreateMayFail
  /\ starter = "create"
  /\ starter' = "lock"
  /\ UNCHANGED <<cur, tpc, latch, loop_, quit_, selfQuit, poolVars>>

(* latch_.wait() returns.                                                   *)
LatchOpens ==
  /\ starter = "latch"
  /\ latch[cur] = 0
  /\ starter' = "lock"
  /\ UNCHANGED <<cur, tpc, latch, loop_, quit_, selfQuit, poolVars>>

(* Mutation: startLoop() sleeps without looking at loop_.                   *)
StartLoopWaitAlways ==
  /\ starter = "lock"
  /\ starter' = "asleep"
  /\ UNCHANGED <<cur, tpc, latch, loop_, quit_, selfQuit, poolVars>>

(* startLoop() under mutex_: it sleeps in cond_ ...                         *)
StartLoopWait ==
  /\ starter = "lock"
  /\ ~loop_[cur]
  /\ starter' = "asleep"
  /\ UNCHANGED <<cur, tpc, latch, loop_, quit_, selfQuit, poolVars>>

(* ... or returns the loop, which start() puts into loops_.                 *)
StartLoopReturn ==
  /\ starter = "lock"
  /\ loop_[cur]
  /\ loops_' = loops_ + 1
  /\ cur' = cur + 1
  /\ starter' = StartFrom(cur + 1)
  /\ UNCHANGED <<tpc, latch, loop_, quit_, selfQuit, numThreads_>>

StarterWakesUp ==
  /\ starter = "asleep"
  /\ starter' = "lock"
  /\ UNCHANGED <<cur, tpc, latch, loop_, quit_, selfQuit, poolVars>>

-----------------------------------------------------------------------------
(* The pool is destroyed, thread by thread.                                 *)
DestructFrom(i) == IF i < numThreads_ THEN "test" ELSE "gone"

Destruct ==
  /\ starter \in {"new", "started"}
  /\ starter' = IF starter = "new" THEN "gone" ELSE DestructFrom(0)
  /\ cur' = 0
  /\ UNCHANGED <<tpc, latch, loop_, quit_, selfQuit, poolVars>>

(* ~EventLoopThread(): the test of line 22, without the mutex.  A thread    *)
(* whose loop has ended is not joined.                                      *)
DestructTest ==
  /\ starter = "test"
  /\ starter' = IF loop_[cur] THEN "quit" ELSE DestructFrom(cur + 1)
  /\ cur' = IF loop_[cur] THEN cur ELSE cur + 1
  /\ UNCHANGED <<tpc, latch, loop_, quit_, selfQuit, poolVars>>

(* The loop of this thread is still on its stack.                           *)
LoopLives(i) == tpc[i] \in {"enter", "loop", "clear", "destruct"}

(* Mutation: the destructor joins without quit().                           *)
DestructQuitNot ==
  /\ starter = "quit"
  /\ starter' = "join"
  /\ UNCHANGED <<cur, tpc, latch, loop_, quit_, selfQuit, poolVars>>

(* loop_->quit() of line 26.  If the thread has withdrawn loop_ since line  *)
(* 22, a second read of it finds NULL, and the pointer that line 22 saw may *)
(* be to a dead object; a build may use either.                             *)
DestructQuit ==
  /\ starter = "quit"
  /\ \/ /\ LoopLives(cur)
        /\ quit_' = [quit_ EXCEPT ![cur] = TRUE]
        /\ starter' = "wakeup"
     \/ /\ ~loop_[cur]
        /\ starter' = "dead"
        /\ UNCHANGED quit_
  /\ UNCHANGED <<cur, tpc, latch, loop_, selfQuit, poolVars>>

(* The rest of quit(): isInLoopThread() and wakeup(), unless the loop has   *)
(* seen quit_ and is gone (the comment of EventLoop.cc lines 118-120).      *)
DestructWakeup ==
  /\ starter = "wakeup"
  /\ starter' = IF LoopLives(cur) THEN "join" ELSE "deadWakeup"
  /\ UNCHANGED <<cur, tpc, latch, loop_, quit_, selfQuit, poolVars>>

Join ==
  /\ starter = "join"
  /\ tpc[cur] = "done"
  /\ starter' = DestructFrom(cur + 1)
  /\ cur' = cur + 1
  /\ UNCHANGED <<tpc, latch, loop_, quit_, selfQuit, poolVars>>

-----------------------------------------------------------------------------
ThreadGoes(i, from, to) == tpc[i] = from /\ tpc' = [tpc EXCEPT ![i] = to]

(* ThreadData::runInThread() up to func_().                                 *)
RunInThread(i) ==
  /\ ThreadGoes(i, "new", "callback")
  /\ latch' = [latch EXCEPT ![i] = @ - 1]
  /\ UNCHANGED <<starter, cur, loop_, quit_, selfQuit, poolVars>>

InitCallback(i) ==
  /\ ThreadGoes(i, "callback", "publish")
  /\ UNCHANGED <<starter, cur, latch, loop_, quit_, selfQuit, poolVars>>

(* loop_ = &loop and notify(), under mutex_.                                *)
Publish(i) ==
  /\ ThreadGoes(i, "publish", "enter")
  /\ loop_' = [loop_ EXCEPT ![i] = TRUE]
  /\ starter' = IF starter = "asleep" /\ cur = i THEN "lock" ELSE starter
  /\ UNCHANGED <<cur, latch, quit_, selfQuit, poolVars>>

(* Mutation: threadFunc() withdraws loop_ before it runs the loop.          *)
EnterWithdrawn(i) ==
  /\ ThreadGoes(i, "enter", "loop")
  /\ quit_' = [quit_ EXCEPT ![i] = FALSE]
  /\ loop_' = [loop_ EXCEPT ![i] = FALSE]
  /\ UNCHANGED <<starter, cur, latch, selfQuit, poolVars>>

(* EventLoop::loop() clears quit_ before its first test of it.              *)
Enter(i) ==
  /\ ThreadGoes(i, "enter", "loop")
  /\ quit_' = [quit_ EXCEPT ![i] = FALSE]
  /\ UNCHANGED <<starter, cur, latch, loop_, selfQuit, poolVars>>

(* A callback of the loop calls quit(), as thr3 of the unit test has it do. *)
QuitInLoop(i) ==
  /\ tpc[i] = "loop"
  /\ i < loops_                       \* startLoop() has returned it
  /\ quit_' = [quit_ EXCEPT ![i] = TRUE]
  /\ selfQuit' = [selfQuit EXCEPT ![i] = TRUE]
  /\ UNCHANGED <<starter, cur, tpc, latch, loop_, poolVars>>

LoopReturns(i) ==
  /\ ThreadGoes(i, "loop", "clear")
  /\ quit_[i]
  /\ UNCHANGED <<starter, cur, latch, loop_, quit_, selfQuit, poolVars>>

(* Mutation: threadFunc() leaves loop_ as it is.                            *)
ClearNot(i) ==
  /\ ThreadGoes(i, "clear", "destruct")
  /\ UNCHANGED <<starter, cur, latch, loop_, quit_, selfQuit, poolVars>>

Clear(i) ==
  /\ ThreadGoes(i, "clear", "destruct")
  /\ loop_' = [loop_ EXCEPT ![i] = FALSE]
  /\ UNCHANGED <<starter, cur, latch, quit_, selfQuit, poolVars>>

ThreadReturns(i) ==
  /\ ThreadGoes(i, "destruct", "done")
  /\ UNCHANGED <<starter, cur, latch, loop_, quit_, selfQuit, poolVars>>

-----------------------------------------------------------------------------
StarterStep ==
  \/ Create \/ LatchOpens \/ StartLoopWait \/ StartLoopReturn
  \/ DestructTest \/ DestructQuit \/ DestructWakeup \/ Join

ThreadStep(i) ==
  \/ RunInThread(i) \/ InitCallback(i) \/ Publish(i) \/ Enter(i)
  \/ LoopReturns(i) \/ Clear(i) \/ ThreadReturns(i)

LoopPoolNext ==
  \/ StartPool \/ CreateFails \/ StarterStep \/ StarterWakesUp \/ Destruct
  \/ \E i \in Ids : ThreadStep(i) \/ QuitInLoop(i)

LoopPoolSpec == LoopPoolInit /\ [][LoopPoolNext]_loopPoolVars

(* All threads are scheduled and callback_ returns.                         *)
LoopPoolFairSpec ==
  /\ LoopPoolSpec
  /\ WF_loopPoolVars(StarterStep)
  /\ \A i \in Ids : WF_loopPoolVars(ThreadStep(i))
-----------------------------------------------------------------------------
(* EventLoopThread::loop_ is NULL or points to a living EventLoop.          *)
LoopPointerValid ==
  /\ LoopPoolTypeOK
  /\ \A i \in Ids : loop_[i] => tpc[i] \in {"enter", "loop", "clear"}

(* startLoop() returns once its thread was created, whether the thread      *)
(* publishes its loop before or after the owner looks.                      *)
StartReturns == (starter = "latch") ~> (starter \in {"create", "started"})

(* The EventLoop on which ~EventLoopThread() calls quit() is alive, though  *)
(* lines 22 and 26 read loop_ without the mutex: a thread that nobody else  *)
(* told to quit keeps its loop until then.  A loop that ends by itself      *)
(* between the two lines is the "tiny chance" of line 24, the exception.    *)
QuitsLivingLoop == starter = "dead" => selfQuit[cur]

(* ~EventLoopThread() gets its thread back, if that had entered the while   *)
(* of loop() when the destructor called quit() and does not end by itself;  *)
(* or the thread is gone before quit() has reached its wakeup(), the chance *)
(* of EventLoop.cc lines 118-120.                                           *)
DestructorJoins ==
  \A i \in Ids :
    (starter = "quit" /\ cur = i /\ tpc[i] = "loop")
      ~> (cur # i \/ selfQuit[i] \/ starter = "deadWakeup")
=============================================================================
