------------------------------- MODULE Mutex -------------------------------
(***************************************************************************)
(* muduo/base/Mutex.h and Condition.h: a pthread mutex that remembers its  *)
(* holder, and a condition variable bound to it.  One step is one pthread  *)
(* call or one assignment to holder_.  The steps take a thread from one    *)
(* place in its code to another; the module that uses them names the       *)
(* places.                                                                 *)
(***************************************************************************)
CONSTANTS Threads,
          NoThread       \* the 0 of holder_

ASSUME NoThreadAssumption == NoThread \notin Threads

VARIABLES
  pc,           \* where each thread is
  mutex_,       \* the thread that has the pthread mutex
  holder_,
  pcond_        \* the threads that sleep in the condition variable

mutexVars == <<pc, mutex_, holder_, pcond_>>

MutexInit ==
  /\ mutex_ = NoThread
  /\ holder_ = NoThread
  /\ pcond_ = {}

Goes(t, from, to) == pc[t] = from /\ pc' = [pc EXCEPT ![t] = to]

(* pthread_mutex_lock() returns.                                            *)
PthreadLock(t, from, to) ==
  /\ Goes(t, from, to)
  /\ mutex_ = NoThread
  /\ mutex_' = t
  /\ UNCHANGED <<holder_, pcond_>>

assignHolder(t, from, to) ==
  /\ Goes(t, from, to)
  /\ holder_' = t
  /\ UNCHANGED <<mutex_, pcond_>>

unassignHolder(t, from, to) ==
  /\ Goes(t, from, to)
  /\ holder_' = NoThread
  /\ UNCHANGED <<mutex_, pcond_>>

PthreadUnlock(t, from, to) ==
  /\ Goes(t, from, to)
  /\ mutex_' = NoThread
  /\ UNCHANGED <<holder_, pcond_>>

(* pthread_cond_wait() lets the mutex go and falls asleep in one step, ...  *)
PthreadWait(t, from, to) ==
  /\ Goes(t, from, to)
  /\ mutex_' = NoThread
  /\ pcond_' = pcond_ \cup {t}
  /\ UNCHANGED holder_

(* ... and returns with the mutex, once it was woken.                       *)
PthreadWaitReturns(t, from, to) ==
  /\ t \notin pcond_
  /\ PthreadLock(t, from, to)

(* notify() wakes one sleeper, if there is one, and notifyAll() all.        *)
notify(sleepers) ==
  IF sleepers = {} THEN {{}} ELSE {sleepers \ {t} : t \in sleepers}
notifyAll(sleepers) == {{}}

(* A thread may also wake for no reason.                                    *)
PthreadWakesUp(t) ==
  /\ t \in pcond_
  /\ pcond_' = pcond_ \ {t}
  /\ UNCHANGED <<pc, mutex_, holder_>>
=============================================================================
