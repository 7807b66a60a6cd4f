--------------------------- MODULE CountDownLatch ---------------------------
(***************************************************************************)
(* muduo/base/CountDownLatch.cc over Mutex, with the way Thread.cc uses    *)
(* it: a new thread stores its id where its creator will look for it, and  *)
(* counts down; the creator waits, and may destroy the Thread, whose       *)
(* member latch_ is, as soon as wait() returns (~Thread() detaches).  Here *)
(* any number of threads wait for any number of others.                    *)
(***************************************************************************)
EXTENDS Naturals, FiniteSets, Mutex

CONSTANTS Waiters, Counters

ASSUME UsersAssumption ==
  /\ Threads = Waiters \cup Counters
  /\ Waiters \cap Counters = {}
  /\ IsFiniteSet(Threads)

VARIABLES
  count_,
  tid_           \* per counter: its thread id was stored

latchVars == <<mutexVars, count_, tid_>>

(* lock(), in wait() and countDown(): "lock" and "assign".  wait(): "test", *)
(* "unassign", "sleep", "asleep" and "reassign".  countDown(): "count".     *)
(* unlock(): "release" and "unlock".                                        *)
PCs == {"start", "lock", "assign", "test", "unassign", "sleep", "asleep",
        "reassign", "count", "release", "unlock", "done"}

LatchTypeOK ==
  /\ pc \in [Threads -> PCs]
  /\ {mutex_, holder_} \subseteq Threads \cup {NoThread}
  /\ pcond_ \subseteq Waiters
  /\ count_ \in 0 .. Cardinality(Counters)
  /\ tid_ \in [Counters -> BOOLEAN]

LatchInit ==
  /\ MutexInit
  /\ pc = [t \in Threads |-> "start"]
  /\ count_ = Cardinality(Counters)
  /\ tid_ = [c \in Counters |-> FALSE]

-----------------------------------------------------------------------------
(* Thread::start() goes on to latch_.wait().                                *)
CallWait(w) ==
  /\ Goes(w, "start", "lock")
  /\ UNCHANGED <<mutex_, holder_, pcond_, count_, tid_>>

(* ThreadData::runInThread() stores the id and goes on to countDown().      *)
StoreTid(c) ==
  /\ Goes(c, "start", "lock")
  /\ tid_' = [tid_ EXCEPT ![c] = TRUE]
  /\ UNCHANGED <<mutex_, holder_, pcond_, count_>>

(* MutexLockGuard takes the mutex in either of them.                        *)
Lock(t) ==
  /\ \/ PthreadLock(t, "lock", "assign")
     \/ assignHolder(t, "assign", IF t \in Waiters THEN "test" ELSE "count")
  /\ UNCHANGED <<count_, tid_>>

(* The head of wait()'s loop: where it goes.                                *)
Test == IF count_ > 0 THEN "unassign" ELSE "release"

(* Mutation: if instead of while.                                           *)
AfterWaitIf == "release"

(* Condition::wait() has returned.                                          *)
AfterWait == "test"

(* Mutation: the holder stays the sleeping thread.                          *)
UnassignNot(w) ==
  /\ Goes(w, "unassign", "sleep")
  /\ UNCHANGED <<mutex_, holder_, pcond_>>

(* Condition::wait() begins with the UnassignGuard.                         *)
Unassign(w) == unassignHolder(w, "unassign", "sleep")

WaitLoop(w) ==
  /\ \/ Goes(w, "test", Test) /\ UNCHANGED <<mutex_, holder_, pcond_>>
     \/ Unassign(w)
     \/ PthreadWait(w, "sleep", "asleep")
     \/ PthreadWaitReturns(w, "asleep", "reassign")
     \/ assignHolder(w, "reassign", AfterWait)
  /\ UNCHANGED <<count_, tid_>>

(* Mutation: countDown() wakes one thread only.                             *)
WokenOne == notify(pcond_)

(* What countDown() leaves asleep when it gets to zero.                     *)
Woken == notifyAll(pcond_)

(* countDown() inside its lock.                                             *)
CountDown(c) ==
  /\ Goes(c, "count", "release")
  /\ count_' = count_ - 1
  /\ IF count_' = 0 THEN pcond_' \in Woken ELSE UNCHANGED pcond_
  /\ UNCHANGED <<mutex_, holder_, tid_>>

(* MutexLockGuard gives the mutex back.                                     *)
Unlock(t) ==
  /\ \/ unassignHolder(t, "release", "unlock")
     \/ PthreadUnlock(t, "unlock", "done")
  /\ UNCHANGED <<count_, tid_>>

-----------------------------------------------------------------------------
WaiterStep(w) == CallWait(w) \/ Lock(w) \/ WaitLoop(w) \/ Unlock(w)
CounterStep(c) == StoreTid(c) \/ Lock(c) \/ CountDown(c) \/ Unlock(c)

LatchNext ==
  \/ \E w \in Waiters :
       WaiterStep(w) \/ (PthreadWakesUp(w) /\ UNCHANGED <<count_, tid_>>)
  \/ \E c \in Counters : CounterStep(c)

LatchSpec == LatchInit /\ [][LatchNext]_latchVars

(* All threads run; a thread that wants the mutex gets it when it is free   *)
(* often enough.                                                            *)
LatchFairSpec ==
  /\ LatchSpec
  /\ \A w \in Waiters : SF_latchVars(WaiterStep(w))
  /\ \A c \in Counters : SF_latchVars(CounterStep(c))
-----------------------------------------------------------------------------
(* holder_, which other threads read without the mutex (line 40 of          *)
(* Mutex.h), is never a thread that does not have the mutex, and inside a   *)
(* critical section it is the right one, after Condition::wait() too.       *)
HolderRight ==
  /\ LatchTypeOK
  /\ holder_ # NoThread => mutex_ = holder_
  /\ \A t \in Threads :
       pc[t] \in {"test", "unassign", "count", "release"} => holder_ = t

(* Once wait() has returned to anybody, every countDown() is over: the ids  *)
(* are there ("assert(tid_ > 0)", Thread.cc line 180), and no thread that   *)
(* counts down touches the latch any more.  A latch with one waiter, as     *)
(* Thread::start() is, may then be destroyed; with several, another one may *)
(* still be inside wait().                                                  *)
ReturnIsSafe ==
  \A w \in Waiters :
    pc[w] = "done" => \A c \in Counters : pc[c] = "done" /\ tid_[c]

(* Every wait() returns.                                                    *)
WaitReturns == \A w \in Waiters : <>(pc[w] = "done")
=============================================================================
