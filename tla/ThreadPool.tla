----------------------------- MODULE ThreadPool -----------------------------
(***************************************************************************)
(* muduo/base/ThreadPool.cc: a queue of tasks, bounded if maxQueueSize_ is *)
(* not 0, one mutex and two condition variables.  Client threads call      *)
(* run(), and so may the tasks themselves; worker threads execute          *)
(* runInThread(); the owner calls start() and stop() (or the destructor,   *)
(* which calls stop()).                                                    *)
(*                                                                         *)
(* A critical section of mutex_ is one step, from taking the lock to       *)
(* leaving it or to wait().  A condition variable is the set of threads    *)
(* asleep in it; a thread that is woken runs its while test again.         *)
(***************************************************************************)
EXTENDS Naturals, Sequences, FiniteSets

CONSTANTS Workers,         \* thread objects that start() may create
          Clients,         \* threads that call run() from outside
          Tasks,
          NoTask,
          Nested,          \* tasks that call run() themselves, at most once
          maxQueueSize_    \* set before start(); 0: no limit

ASSUME ThreadsAssumption ==
  /\ IsFiniteSet(Workers) /\ IsFiniteSet(Clients)
  /\ Workers \cap Clients = {}
ASSUME TasksAssumption == NoTask \notin Tasks /\ Nested \subseteq Tasks
ASSUME MaxQueueSizeAssumption == maxQueueSize_ \in Nat

VARIABLES
  owner,       \* "new", "starting", "started", "joining", "stopped"
  toStart,     \* threads that start() has still to create
  threads_,
  running_,
  queue_,
  notEmpty_,   \* workers asleep in notEmpty_.wait()
  notFull_,    \* threads asleep in notFull_.wait()
  wpc,         \* where each worker is
  task,        \* the task each worker has in hand
  arg          \* per thread: the task its run() is about, or NoTask

vars == <<owner, toStart, threads_, running_, queue_, notEmpty_, notFull_,
          wpc, task, arg>>

Callers == Workers \cup Clients

(* "task": in a task that may still call run(); "last": it has done so.     *)
WorkerPCs == {"none", "while", "take", "task", "last", "exited"}

TypeOK ==
  /\ owner \in {"new", "starting", "started", "joining", "stopped"}
  /\ toStart \in SUBSET Workers
  /\ threads_ \in SUBSET Workers
  /\ running_ \in BOOLEAN
  /\ queue_ \in Seq(Tasks)
  /\ maxQueueSize_ > 0 => Len(queue_) <= maxQueueSize_    \* line 80
  /\ notEmpty_ \in SUBSET Workers
  /\ notFull_ \in SUBSET Callers
  /\ wpc \in [Workers -> WorkerPCs]
  /\ task \in [Workers -> Tasks \cup {NoTask}]
  /\ arg \in [Callers -> Tasks \cup {NoTask}]

Init ==
  /\ owner = "new"
  /\ toStart = {} /\ threads_ = {}
  /\ running_ = FALSE
  /\ queue_ = <<>>
  /\ notEmpty_ = {} /\ notFull_ = {}
  /\ wpc = [w \in Workers |-> "none"]
  /\ task = [w \in Workers |-> NoTask]
  /\ arg = [c \in Callers |-> NoTask]

-----------------------------------------------------------------------------
(* pthread_cond_signal: one of the threads asleep in cond, if any, wakes.   *)
Notify(cond, left) ==
  IF cond = {} THEN left = {} ELSE \E t \in cond : left = cond \ {t}

(* start(): running_ is set before the first thread exists.                 *)
Start(W) ==
  /\ owner = "new"
  /\ running_' = TRUE
  /\ toStart' = W
  /\ owner' = "starting"
  /\ UNCHANGED <<threads_, queue_, notEmpty_, notFull_, wpc, task, arg>>

StartThread(w) ==
  /\ owner = "starting"
  /\ w \in toStart
  /\ toStart' = toStart \ {w}
  /\ threads_' = threads_ \cup {w}
  /\ wpc' = [wpc EXCEPT ![w] = "while"]
  /\ UNCHANGED <<owner, running_, queue_, notEmpty_, notFull_, task, arg>>

StartReturn ==
  /\ owner = "starting"
  /\ toStart = {}
  /\ owner' = "started"
  /\ UNCHANGED <<toStart, threads_, running_, queue_, notEmpty_, notFull_,
                 wpc, task, arg>>

(* Mutation: stop() wakes one worker and one caller.                        *)
StopNotify ==
  /\ owner = "started"
  /\ running_' = FALSE
  /\ Notify(notEmpty_, notEmpty_')
  /\ Notify(notFull_, notFull_')
  /\ owner' = "joining"
  /\ UNCHANGED <<toStart, threads_, queue_, wpc, task, arg>>

(* stop(), the part under mutex_.                                           *)
Stop ==
  /\ owner = "started"
  /\ running_' = FALSE
  /\ notEmpty_' = {}
  /\ notFull_' = {}
  /\ owner' = "joining"
  /\ UNCHANGED <<toStart, threads_, queue_, wpc, task, arg>>

(* The last join() returns.                                                 *)
StopReturn ==
  /\ owner = "joining"
  /\ \A w \in threads_ : wpc[w] = "exited"
  /\ owner' = "stopped"
  /\ UNCHANGED <<toStart, threads_, running_, queue_, notEmpty_, notFull_,
                 wpc, task, arg>>

-----------------------------------------------------------------------------
Queued(k) == \E i \in 1 .. Len(queue_) : queue_[i] = k

(* A task is in one place at a time, so that it can be followed.            *)
Idle(k) ==
  /\ ~Queued(k)
  /\ \A w \in Workers : task[w] # k
  /\ \A c \in Callers : arg[c] # k

(* run() with threads, up to its lock.  Clients know the pool until stop()  *)
(* returns; with no threads the client executes the task itself, which      *)
(* changes nothing here.                                                    *)
CallRun(c, k) ==
  /\ owner \in {"started", "joining"} /\ threads_ # {}
  /\ arg[c] = NoTask
  /\ Idle(k)
  /\ arg' = [arg EXCEPT ![c] = k]
  /\ UNCHANGED <<owner, toStart, threads_, running_, queue_, notEmpty_,
                 notFull_, wpc, task>>

(* run() called by a task.                                                  *)
CallRunNested(w, k) ==
  /\ wpc[w] = "task" /\ task[w] \in Nested
  /\ Idle(k)
  /\ arg' = [arg EXCEPT ![w] = k]
  /\ wpc' = [wpc EXCEPT ![w] = "last"]
  /\ UNCHANGED <<owner, toStart, threads_, running_, queue_, notEmpty_,
                 notFull_, task>>

IsFull == maxQueueSize_ > 0 /\ Len(queue_) >= maxQueueSize_

Awake(c) == arg[c] # NoTask /\ c \notin notFull_

RunWait(c) ==
  /\ Awake(c)
  /\ IsFull /\ running_
  /\ notFull_' = notFull_ \cup {c}
  /\ UNCHANGED <<owner, toStart, threads_, running_, queue_, notEmpty_, wpc,
                 task, arg>>

(* Mutation: notEmpty_ is notified only when the queue was empty.           *)
RunPushNotifyFirst(c) ==
  /\ Awake(c)
  /\ ~IsFull /\ running_
  /\ queue_' = Append(queue_, arg[c])
  /\ IF queue_ = <<>> THEN Notify(notEmpty_, notEmpty_') ELSE UNCHANGED notEmpty_
  /\ arg' = [arg EXCEPT ![c] = NoTask]
  /\ UNCHANGED <<owner, toStart, threads_, running_, notFull_, wpc, task>>

(* Mutation: the condition variables are mixed up.                          *)
RunPushNotifyFull(c) ==
  /\ Awake(c)
  /\ ~IsFull /\ running_
  /\ queue_' = Append(queue_, arg[c])
  /\ Notify(notFull_, notFull_')
  /\ arg' = [arg EXCEPT ![c] = NoTask]
  /\ UNCHANGED <<owner, toStart, threads_, running_, notEmpty_, wpc, task>>

RunPush(c) ==
  /\ Awake(c)
  /\ ~IsFull /\ running_
  /\ queue_' = Append(queue_, arg[c])
  /\ Notify(notEmpty_, notEmpty_')
  /\ arg' = [arg EXCEPT ![c] = NoTask]
  /\ UNCHANGED <<owner, toStart, threads_, running_, notFull_, wpc, task>>

(* The pool was stopped: the task is dropped.                               *)
RunGiveUp(c) ==
  /\ Awake(c)
  /\ ~running_
  /\ arg' = [arg EXCEPT ![c] = NoTask]
  /\ UNCHANGED <<owner, toStart, threads_, running_, queue_, notEmpty_,
                 notFull_, wpc, task>>

-----------------------------------------------------------------------------
(* runInThread(): the test of line 99 is made without the mutex.            *)
While(w) ==
  /\ wpc[w] = "while"
  /\ wpc' = [wpc EXCEPT ![w] = IF running_ THEN "take" ELSE "exited"]
  /\ UNCHANGED <<owner, toStart, threads_, running_, queue_, notEmpty_,
                 notFull_, task, arg>>

Taking(w) == wpc[w] = "take" /\ w \notin notEmpty_

TakeWait(w) ==
  /\ Taking(w)
  /\ queue_ = <<>> /\ running_
  /\ notEmpty_' = notEmpty_ \cup {w}
  /\ UNCHANGED <<owner, toStart, threads_, running_, queue_, notFull_, wpc,
                 task, arg>>

(* take() returns an empty task, which only happens after stop().           *)
TakeNothing(w) ==
  /\ Taking(w)
  /\ queue_ = <<>> /\ ~running_
  /\ wpc' = [wpc EXCEPT ![w] = "while"]
  /\ UNCHANGED <<owner, toStart, threads_, running_, queue_, notEmpty_,
                 notFull_, task, arg>>

(* Mutation: a caller is woken only when the queue has become empty.        *)
NotifyNotFullAtEmpty ==
  IF maxQueueSize_ > 0 /\ Len(queue_) = 1 THEN Notify(notFull_, notFull_')
  ELSE UNCHANGED notFull_

(* Lines 122-125.                                                           *)
NotifyNotFull ==
  IF maxQueueSize_ > 0 THEN Notify(notFull_, notFull_') ELSE UNCHANGED notFull_

Take(w) ==
  /\ Taking(w)
  /\ queue_ # <<>>
  /\ task' = [task EXCEPT ![w] = Head(queue_)]
  /\ queue_' = Tail(queue_)
  /\ NotifyNotFull
  /\ wpc' = [wpc EXCEPT ![w] = "task"]
  /\ UNCHANGED <<owner, toStart, threads_, running_, notEmpty_, arg>>

TaskReturn(w) ==
  /\ wpc[w] \in {"task", "last"}
  /\ arg[w] = NoTask
  /\ task' = [task EXCEPT ![w] = NoTask]
  /\ wpc' = [wpc EXCEPT ![w] = "while"]
  /\ UNCHANGED <<owner, toStart, threads_, running_, queue_, notEmpty_,
                 notFull_, arg>>

(* pthread_cond_wait may return without a signal (line 112).                *)
SpuriousWakeup(t) ==
  /\ t \in notEmpty_ \cup notFull_
  /\ notEmpty_' = notEmpty_ \ {t}
  /\ notFull_' = notFull_ \ {t}
  /\ UNCHANGED <<owner, toStart, threads_, running_, queue_, wpc, task, arg>>

-----------------------------------------------------------------------------
OwnerStep ==
  (\E w \in Workers : StartThread(w)) \/ StartReturn \/ StopReturn

RunStep(c) == RunWait(c) \/ RunPush(c) \/ RunGiveUp(c)

WorkerStep(w) ==
  \/ While(w) \/ TakeWait(w) \/ TakeNothing(w) \/ Take(w) \/ TaskReturn(w)
  \/ RunStep(w)

Next ==
  \/ (\E W \in SUBSET Workers : Start(W)) \/ OwnerStep \/ Stop
  \/ \E c \in Clients : (\E k \in Tasks : CallRun(c, k)) \/ RunStep(c)
  \/ \E w \in Workers : (\E k \in Tasks : CallRunNested(w, k)) \/ WorkerStep(w)
  \/ \E t \in Callers : SpuriousWakeup(t)

Spec == Init /\ [][Next]_vars

(* Every thread that is not asleep is scheduled and gets the mutex in the   *)
(* end, and tasks return.  Nobody has to call run(), start() or stop().     *)
FairSpec ==
  /\ Spec
  /\ WF_vars(OwnerStep)
  /\ \A c \in Clients : WF_vars(RunStep(c))
  /\ \A w \in Workers : WF_vars(WorkerStep(w))
-----------------------------------------------------------------------------
Takers == {w \in Workers : Taking(w)}
Runners == {c \in Callers : Awake(c)}

(* No task waits in the queue for a worker that sleeps: as long as one is   *)
(* asleep, there is an awake worker inside take() for every queued task.    *)
(* One notify() per task is enough, though any worker may take any task.    *)
NoLostTask ==
  /\ TypeOK
  /\ notEmpty_ # {} => Len(queue_) <= Cardinality(Takers)

(* The same for callers: as long as one sleeps in run(), every free slot of *)
(* the queue has an awake caller that will use it.                          *)
NoLostSlot ==
  maxQueueSize_ > 0 /\ notFull_ # {} =>
    maxQueueSize_ - Len(queue_) <= Cardinality(Runners)

(* Every worker is inside a task that waits for room in the queue.          *)
AllBlocked == threads_ # {} /\ threads_ \subseteq notFull_

(* A task that was accepted is executed, or the pool is stopped first, or   *)
(* the workers are all blocked by their own tasks' run(): line 76.          *)
TasksRun ==
  \A k \in Tasks :
    Queued(k) ~> (\E w \in Workers : task[w] = k) \/ ~running_ \/ AllBlocked

(* stop() returns: every worker leaves runInThread(), wherever it was.      *)
StopReturns == (owner = "joining") ~> (owner = "stopped")
=============================================================================
