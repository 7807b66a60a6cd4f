---------------------------- MODULE ThreadProofs ----------------------------
(***************************************************************************)
(* Proofs about the threads' modules: ThreadPool for any numbers of        *)
(* workers, clients and tasks and any queue size, CountDownLatch over      *)
(* Mutex for any finite sets of threads, and EventLoopThreadPool for any   *)
(* number of threads.                                                      *)
(***************************************************************************)
EXTENDS ThreadPool, CountDownLatch, EventLoopThreadPool, FiniteSetTheorems,
        TLAPS

(* Where a thread can be asleep, and which threads do not exist yet.        *)
SleepersInv ==
  /\ \A w \in notEmpty_ : wpc[w] = "take"
  /\ \A c \in notFull_ : arg[c] # NoTask
  /\ ~running_ => notFull_ = {}
  /\ owner = "new" => \A w \in Workers : wpc[w] = "none"
  /\ \A w \in toStart : wpc[w] = "none"

IInv == SleepersInv /\ NoLostTask /\ NoLostSlot

-----------------------------------------------------------------------------
(* The sets that the two invariants count are finite.                       *)
LEMMA CountedFinite ==
  /\ IsFiniteSet(Callers)
  /\ \A S \in SUBSET Callers :
       IsFiniteSet(S) /\ Cardinality(S) \in Nat
<1>1. IsFiniteSet(Callers)
  BY ThreadsAssumption, FS_Union DEF Callers
<1>2. ASSUME NEW S \in SUBSET Callers
      PROVE IsFiniteSet(S) /\ Cardinality(S) \in Nat
  BY <1>1, <1>2, FS_Subset, FS_CardinalityType
<1> QED
  BY <1>1, <1>2

(* A larger set of threads has at least as many elements.                   *)
LEMMA CountGrows ==
  ASSUME NEW S \in SUBSET Callers, NEW T \in SUBSET Callers, S \subseteq T
  PROVE Cardinality(S) <= Cardinality(T)
BY CountedFinite, FS_Subset

(* One thread more, one more counted.                                       *)
LEMMA CountAdd ==
  ASSUME NEW S \in SUBSET Callers, NEW t \in Callers, t \notin S
  PROVE Cardinality(S \cup {t}) = Cardinality(S) + 1
BY CountedFinite, FS_AddElement

(* One thread less, at most one less counted.                               *)
LEMMA CountRemove ==
  ASSUME NEW S \in SUBSET Callers, NEW T \in SUBSET Callers,
         NEW t \in Callers, S \ {t} \subseteq T
  PROVE Cardinality(S) <= Cardinality(T) + 1
<1>1. CASE t \in T
  BY <1>1, CountGrows, CountedFinite
<1>2. CASE t \notin T
  <2>1. Cardinality(T \cup {t}) = Cardinality(T) + 1
    BY <1>2, CountAdd
  <2>2. S \subseteq T \cup {t} /\ T \cup {t} \in SUBSET Callers
    OBVIOUS
  <2> QED
    BY <2>1, <2>2, CountGrows
<1> QED
  BY <1>1, <1>2

(* notify() removes at most one thread from a condition variable.           *)
LEMMA NotifyOne ==
  ASSUME NEW cond, NEW left, Notify(cond, left)
  PROVE /\ left \subseteq cond
        /\ cond = {} => left = {}
        /\ cond # {} => \E t \in cond : left = cond \ {t}
BY DEF Notify

-----------------------------------------------------------------------------
(* Every action keeps the types and the bound on the queue.                 *)
LEMMA TypeStep == TypeOK /\ [Next]_vars => TypeOK'
<1> SUFFICES ASSUME TypeOK, [Next]_vars PROVE TypeOK'
  OBVIOUS
<1> USE TasksAssumption, MaxQueueSizeAssumption DEF TypeOK
<1>1. ASSUME NEW W \in SUBSET Workers, Start(W) PROVE TypeOK'
  BY <1>1 DEF Start
<1>2. ASSUME NEW w \in Workers, StartThread(w) PROVE TypeOK'
  BY <1>2 DEF StartThread, WorkerPCs
<1>3. CASE StartReturn \/ Stop \/ StopReturn
  BY <1>3 DEF StartReturn, Stop, StopReturn
<1>4. ASSUME NEW c \in Callers, NEW k \in Tasks, CallRun(c, k) PROVE TypeOK'
  BY <1>4 DEF CallRun
<1>5. ASSUME NEW w \in Workers, NEW k \in Tasks, CallRunNested(w, k)
      PROVE TypeOK'
  BY <1>5 DEF CallRunNested, WorkerPCs, Callers
<1>6. ASSUME NEW c \in Callers, RunWait(c) \/ RunGiveUp(c) PROVE TypeOK'
  BY <1>6 DEF RunWait, RunGiveUp
<1>7. ASSUME NEW c \in Callers, RunPush(c) PROVE TypeOK'
  <2>1. arg[c] \in Tasks
    BY <1>7 DEF RunPush, Awake
  <2>2. queue_' \in Seq(Tasks) /\ Len(queue_') = Len(queue_) + 1
    BY <1>7, <2>1 DEF RunPush
  <2>3. maxQueueSize_ > 0 => Len(queue_') <= maxQueueSize_
    BY <1>7, <2>2 DEF RunPush, IsFull
  <2>4. notEmpty_' \subseteq notEmpty_
    BY <1>7, NotifyOne DEF RunPush
  <2> QED
    BY <1>7, <2>2, <2>3, <2>4 DEF RunPush
<1>8. ASSUME NEW w \in Workers, While(w) \/ TakeWait(w) \/ TakeNothing(w)
      PROVE TypeOK'
  BY <1>8 DEF While, TakeWait, TakeNothing, WorkerPCs
<1>9. ASSUME NEW w \in Workers, Take(w) PROVE TypeOK'
  <2>1. Head(queue_) \in Tasks /\ queue_' \in Seq(Tasks)
        /\ Len(queue_') = Len(queue_) - 1
    BY <1>9 DEF Take
  <2>2. maxQueueSize_ > 0 => Len(queue_') <= maxQueueSize_
    BY <2>1
  <2>3. notFull_' \subseteq notFull_
    BY <1>9, NotifyOne DEF Take, NotifyNotFull
  <2> QED
    BY <1>9, <2>1, <2>2, <2>3 DEF Take, WorkerPCs
<1>10. ASSUME NEW w \in Workers, TaskReturn(w) PROVE TypeOK'
  BY <1>10 DEF TaskReturn, WorkerPCs
<1>11. ASSUME NEW t \in Callers, SpuriousWakeup(t) PROVE TypeOK'
  BY <1>11 DEF SpuriousWakeup
<1>12. CASE UNCHANGED vars
  BY <1>12 DEF vars
<1> QED
  BY <1>1, <1>2, <1>3, <1>4, <1>5, <1>6, <1>7, <1>8, <1>9, <1>10, <1>11,
     <1>12
  DEF Next, OwnerStep, RunStep, WorkerStep, Callers

(* Every action leaves the threads asleep where they can be asleep.         *)
LEMMA SleepersStep == TypeOK /\ SleepersInv /\ [Next]_vars => SleepersInv'
<1> SUFFICES ASSUME TypeOK, SleepersInv, [Next]_vars PROVE SleepersInv'
  OBVIOUS
<1> USE TasksAssumption DEF TypeOK, SleepersInv
<1>1. ASSUME NEW W \in SUBSET Workers, Start(W) PROVE SleepersInv'
  BY <1>1 DEF Start
<1>2. ASSUME NEW w \in Workers, StartThread(w) PROVE SleepersInv'
  BY <1>2 DEF StartThread
<1>3. CASE StartReturn \/ Stop \/ StopReturn
  BY <1>3 DEF StartReturn, Stop, StopReturn
<1>4. ASSUME NEW c \in Callers, NEW k \in Tasks, CallRun(c, k)
      PROVE SleepersInv'
  BY <1>4 DEF CallRun
<1>5. ASSUME NEW w \in Workers, NEW k \in Tasks, CallRunNested(w, k)
      PROVE SleepersInv'
  BY <1>5 DEF CallRunNested, Callers
<1>6. ASSUME NEW c \in Callers, RunWait(c) \/ RunGiveUp(c) PROVE SleepersInv'
  BY <1>6 DEF RunWait, RunGiveUp, Awake
<1>7. ASSUME NEW c \in Callers, RunPush(c) PROVE SleepersInv'
  <2>1. notEmpty_' \subseteq notEmpty_
    BY <1>7, NotifyOne DEF RunPush
  <2> QED
    BY <1>7, <2>1 DEF RunPush, Awake
<1>8. ASSUME NEW w \in Workers, While(w) \/ TakeWait(w) \/ TakeNothing(w)
      PROVE SleepersInv'
  BY <1>8 DEF While, TakeWait, TakeNothing, Taking
<1>9. ASSUME NEW w \in Workers, Take(w) PROVE SleepersInv'
  <2>1. notFull_' \subseteq notFull_
    BY <1>9, NotifyOne DEF Take, NotifyNotFull
  <2> QED
    BY <1>9, <2>1 DEF Take, Taking
<1>10. ASSUME NEW w \in Workers, TaskReturn(w) PROVE SleepersInv'
  BY <1>10 DEF TaskReturn
<1>11. ASSUME NEW t \in Callers, SpuriousWakeup(t) PROVE SleepersInv'
  BY <1>11 DEF SpuriousWakeup
<1>12. CASE UNCHANGED vars
  BY <1>12 DEF vars
<1> QED
  BY <1>1, <1>2, <1>3, <1>4, <1>5, <1>6, <1>7, <1>8, <1>9, <1>10, <1>11,
     <1>12
  DEF Next, OwnerStep, RunStep, WorkerStep, Callers

-----------------------------------------------------------------------------
TaskBound == notEmpty_ # {} => Len(queue_) <= Cardinality(Takers)

(* Every action keeps an awake worker in take() for every queued task.      *)
LEMMA TaskStep ==
  TypeOK /\ SleepersInv /\ TaskBound /\ [Next]_vars => TaskBound'
<1> SUFFICES ASSUME TypeOK, SleepersInv, TaskBound, [Next]_vars,
                    notEmpty_' # {}
             PROVE Len(queue_)' <= Cardinality(Takers)'
  BY DEF TaskBound
<1>T. TypeOK'
  BY TypeStep
<1>C. /\ Takers \in SUBSET Callers /\ Takers' \in SUBSET Callers
      /\ Cardinality(Takers) \in Nat /\ Cardinality(Takers') \in Nat
      /\ Len(queue_) \in Nat /\ Len(queue_') \in Nat
  BY CountedFinite, <1>T DEF TypeOK, Takers, Callers
(* A step that takes no awake worker out of take() and leaves the queue and *)
(* the sleepers, or removes some of these, keeps the bound.                 *)
<1>G. ASSUME Takers \subseteq Takers', queue_' = queue_, notEmpty_ # {}
      PROVE Len(queue_)' <= Cardinality(Takers)'
  <2>1. Cardinality(Takers) <= Cardinality(Takers')
    BY <1>G, <1>C, CountGrows
  <2> QED
    BY <1>G, <2>1, <1>C DEF TaskBound
<1>1. ASSUME NEW W \in SUBSET Workers, Start(W)
      PROVE Len(queue_)' <= Cardinality(Takers)'
  BY <1>1, <1>G DEF Start, Takers, Taking
<1>2. ASSUME NEW w \in Workers, StartThread(w)
      PROVE Len(queue_)' <= Cardinality(Takers)'
  <2>1. Takers \subseteq Takers'
    BY <1>2 DEF StartThread, SleepersInv, Takers, Taking, TypeOK
  <2> QED
    BY <1>2, <2>1, <1>G DEF StartThread
<1>3. CASE StartReturn \/ Stop \/ StopReturn
  BY <1>3, <1>G DEF StartReturn, Stop, StopReturn, Takers, Taking
<1>4. ASSUME NEW c \in Callers, NEW k \in Tasks, CallRun(c, k)
      PROVE Len(queue_)' <= Cardinality(Takers)'
  BY <1>4, <1>G DEF CallRun, Takers, Taking
<1>5. ASSUME NEW w \in Workers, NEW k \in Tasks, CallRunNested(w, k)
      PROVE Len(queue_)' <= Cardinality(Takers)'
  <2>1. Takers \subseteq Takers'
    BY <1>5 DEF CallRunNested, Takers, Taking, TypeOK
  <2> QED
    BY <1>5, <2>1, <1>G DEF CallRunNested
<1>6. ASSUME NEW c \in Callers, RunWait(c) \/ RunGiveUp(c)
      PROVE Len(queue_)' <= Cardinality(Takers)'
  BY <1>6, <1>G DEF RunWait, RunGiveUp, Takers, Taking
<1>7. ASSUME NEW c \in Callers, RunPush(c)
      PROVE Len(queue_)' <= Cardinality(Takers)'
  <2>1. notEmpty_ # {} /\ \E t \in notEmpty_ : notEmpty_' = notEmpty_ \ {t}
    BY <1>7, NotifyOne DEF RunPush
  <2>2. PICK t \in notEmpty_ : notEmpty_' = notEmpty_ \ {t}
    BY <2>1
  <2>3. t \in Callers /\ t \notin Takers /\ Takers' = Takers \cup {t}
    BY <1>7, <2>2 DEF RunPush, TypeOK, SleepersInv, Takers, Taking, Callers
  <2>4. Cardinality(Takers') = Cardinality(Takers) + 1
    BY <2>3, <1>C, CountAdd
  <2>5. Len(queue_') = Len(queue_) + 1
    BY <1>7 DEF RunPush, TypeOK
  <2> QED
    BY <2>1, <2>4, <2>5, <1>C DEF TaskBound
<1>8. ASSUME NEW w \in Workers, While(w)
      PROVE Len(queue_)' <= Cardinality(Takers)'
  <2>1. Takers \subseteq Takers'
    BY <1>8 DEF While, Takers, Taking, TypeOK
  <2> QED
    BY <1>8, <2>1, <1>G DEF While
<1>9. ASSUME NEW w \in Workers, TakeWait(w) \/ TakeNothing(w)
      PROVE Len(queue_)' <= Cardinality(Takers)'
  <2>1. Len(queue_') = 0
    BY <1>9 DEF TakeWait, TakeNothing
  <2> QED
    BY <2>1, <1>C
<1>10. ASSUME NEW w \in Workers, Take(w)
       PROVE Len(queue_)' <= Cardinality(Takers)'
  <2>1. Takers \ {w} \subseteq Takers'
    BY <1>10 DEF Take, Takers, Taking, TypeOK
  <2>2. Cardinality(Takers) <= Cardinality(Takers') + 1
    BY <2>1, <1>C, CountRemove DEF Callers
  <2>3. Len(queue_') = Len(queue_) - 1 /\ notEmpty_ # {}
    BY <1>10 DEF Take, TypeOK
  <2> QED
    BY <2>2, <2>3, <1>C DEF TaskBound
<1>11. ASSUME NEW w \in Workers, TaskReturn(w)
       PROVE Len(queue_)' <= Cardinality(Takers)'
  <2>1. Takers \subseteq Takers'
    BY <1>11 DEF TaskReturn, Takers, Taking, TypeOK
  <2> QED
    BY <1>11, <2>1, <1>G DEF TaskReturn
<1>12. ASSUME NEW t \in Callers, SpuriousWakeup(t)
       PROVE Len(queue_)' <= Cardinality(Takers)'
  BY <1>12, <1>G DEF SpuriousWakeup, Takers, Taking
<1>13. CASE UNCHANGED vars
  BY <1>13, <1>G DEF vars, Takers, Taking
<1> QED
  BY <1>1, <1>2, <1>3, <1>4, <1>5, <1>6, <1>7, <1>8, <1>9, <1>10, <1>11,
     <1>12, <1>13
  DEF Next, OwnerStep, RunStep, WorkerStep, Callers

(* Every action keeps an awake caller in run() for every free slot.         *)
LEMMA SlotStep ==
  TypeOK /\ SleepersInv /\ NoLostSlot /\ [Next]_vars => NoLostSlot'
<1> SUFFICES ASSUME TypeOK, SleepersInv, NoLostSlot, [Next]_vars,
                    maxQueueSize_ > 0, notFull_' # {}
             PROVE maxQueueSize_ - Len(queue_)' <= Cardinality(Runners)'
  BY DEF NoLostSlot
<1> USE MaxQueueSizeAssumption
<1>T. TypeOK'
  BY TypeStep
<1>C. /\ Runners \in SUBSET Callers /\ Runners' \in SUBSET Callers
      /\ Cardinality(Runners) \in Nat /\ Cardinality(Runners') \in Nat
      /\ Len(queue_) \in Nat /\ Len(queue_') \in Nat
  BY CountedFinite, <1>T DEF TypeOK, Runners
(* A step that takes no awake caller out of run(), leaves the queue and     *)
(* sends nobody to sleep keeps the bound.                                   *)
<1>G. ASSUME Runners \subseteq Runners', queue_' = queue_, notFull_ # {}
      PROVE maxQueueSize_ - Len(queue_)' <= Cardinality(Runners)'
  <2>1. Cardinality(Runners) <= Cardinality(Runners')
    BY <1>G, <1>C, CountGrows
  <2> QED
    BY <1>G, <2>1, <1>C DEF NoLostSlot
<1>1. ASSUME NEW W \in SUBSET Workers, Start(W)
      PROVE maxQueueSize_ - Len(queue_)' <= Cardinality(Runners)'
  BY <1>1, <1>G DEF Start, Runners, Awake
<1>2. ASSUME NEW w \in Workers,
             \/ StartThread(w) \/ While(w) \/ TakeWait(w) \/ TakeNothing(w)
             \/ TaskReturn(w)
      PROVE maxQueueSize_ - Len(queue_)' <= Cardinality(Runners)'
  BY <1>2, <1>G DEF StartThread, While, TakeWait, TakeNothing, TaskReturn,
                    Runners, Awake
<1>3. CASE StartReturn \/ Stop \/ StopReturn
  BY <1>3, <1>G DEF StartReturn, Stop, StopReturn, Runners, Awake
<1>4. ASSUME NEW c \in Callers, NEW k \in Tasks, CallRun(c, k)
      PROVE maxQueueSize_ - Len(queue_)' <= Cardinality(Runners)'
  <2>1. Runners \subseteq Runners'
    BY <1>4, TasksAssumption DEF CallRun, Runners, Awake, TypeOK
  <2> QED
    BY <1>4, <2>1, <1>G DEF CallRun
<1>5. ASSUME NEW w \in Workers, NEW k \in Tasks, CallRunNested(w, k)
      PROVE maxQueueSize_ - Len(queue_)' <= Cardinality(Runners)'
  <2>1. Runners \subseteq Runners'
    BY <1>5, TasksAssumption DEF CallRunNested, Runners, Awake, TypeOK
  <2> QED
    BY <1>5, <2>1, <1>G DEF CallRunNested
<1>6. ASSUME NEW c \in Callers, RunWait(c)
      PROVE maxQueueSize_ - Len(queue_)' <= Cardinality(Runners)'
  <2>1. maxQueueSize_ - Len(queue_') <= 0
    BY <1>6, <1>C DEF RunWait, IsFull
  <2> QED
    BY <2>1, <1>C
<1>7. ASSUME NEW c \in Callers, RunGiveUp(c)
      PROVE maxQueueSize_ - Len(queue_)' <= Cardinality(Runners)'
  BY <1>7 DEF RunGiveUp, SleepersInv
<1>8. ASSUME NEW c \in Callers, RunPush(c)
      PROVE maxQueueSize_ - Len(queue_)' <= Cardinality(Runners)'
  <2>1. Runners \ {c} \subseteq Runners'
    BY <1>8 DEF RunPush, Runners, Awake, TypeOK
  <2>2. Cardinality(Runners) <= Cardinality(Runners') + 1
    BY <2>1, <1>C, CountRemove
  <2>3. Len(queue_') = Len(queue_) + 1 /\ notFull_ # {}
    BY <1>8 DEF RunPush, TypeOK
  <2> QED
    BY <2>2, <2>3, <1>C DEF NoLostSlot
<1>9. ASSUME NEW w \in Workers, Take(w)
      PROVE maxQueueSize_ - Len(queue_)' <= Cardinality(Runners)'
  <2>1. notFull_ # {} /\ \E t \in notFull_ : notFull_' = notFull_ \ {t}
    BY <1>9, NotifyOne DEF Take, NotifyNotFull
  <2>2. PICK t \in notFull_ : notFull_' = notFull_ \ {t}
    BY <2>1
  <2>3. t \in Callers /\ t \notin Runners /\ Runners' = Runners \cup {t}
    BY <1>9, <2>2 DEF Take, TypeOK, SleepersInv, Runners, Awake
  <2>4. Cardinality(Runners') = Cardinality(Runners) + 1
    BY <2>3, <1>C, CountAdd
  <2>5. Len(queue_') = Len(queue_) - 1
    BY <1>9 DEF Take, TypeOK
  <2> QED
    BY <2>1, <2>4, <2>5, <1>C DEF NoLostSlot
<1>10. ASSUME NEW t \in Callers, SpuriousWakeup(t)
       PROVE maxQueueSize_ - Len(queue_)' <= Cardinality(Runners)'
  BY <1>10, <1>G DEF SpuriousWakeup, Runners, Awake
<1>11. CASE UNCHANGED vars
  BY <1>11, <1>G DEF vars, Runners, Awake
<1> QED
  BY <1>1, <1>2, <1>3, <1>4, <1>5, <1>6, <1>7, <1>8, <1>9, <1>10, <1>11
  DEF Next, OwnerStep, RunStep, WorkerStep, Callers

-----------------------------------------------------------------------------
(* The initial states satisfy the invariant.                                *)
LEMMA InitInv == Init => IInv
<1> SUFFICES ASSUME Init PROVE IInv
  OBVIOUS
<1>1. TypeOK
  <2>1. queue_ \in Seq(Tasks) /\ Len(queue_) = 0
    BY DEF Init
  <2>2. maxQueueSize_ > 0 => Len(queue_) <= maxQueueSize_
    BY <2>1, MaxQueueSizeAssumption
  <2>3. /\ wpc \in [Workers -> WorkerPCs]
        /\ task \in [Workers -> Tasks \cup {NoTask}]
        /\ arg \in [Callers -> Tasks \cup {NoTask}]
    BY DEF Init, WorkerPCs
  <2> QED
    BY <2>1, <2>2, <2>3 DEF Init, TypeOK
<1> QED
  BY <1>1 DEF Init, IInv, SleepersInv, NoLostTask, NoLostSlot

(* The invariant is inductive.                                              *)
LEMMA InvStep == IInv /\ [Next]_vars => IInv'
<1> SUFFICES ASSUME IInv, [Next]_vars PROVE IInv'
  OBVIOUS
<1>1. TypeOK /\ SleepersInv /\ TaskBound /\ NoLostSlot
  BY DEF IInv, NoLostTask, TaskBound
<1>2. TypeOK' /\ SleepersInv' /\ TaskBound' /\ NoLostSlot'
  BY <1>1, TypeStep, SleepersStep, TaskStep, SlotStep
<1> QED
  BY <1>2 DEF IInv, NoLostTask, TaskBound

(* One notify() per task is enough: no task waits in the queue for a worker *)
(* that sleeps while the awake ones are too few (lines 82-83 and 113-116).  *)
THEOREM NoTaskIsLost == Spec => []NoLostTask
<1>1. IInv => NoLostTask
  BY DEF IInv
<1> QED
  BY <1>1, InitInv, InvStep, PTL DEF Spec

(* One notify() per taken task is enough: no caller of run() sleeps beside  *)
(* a free slot that no awake caller will use (lines 74-77 and 122-125).     *)
THEOREM NoSlotIsLost == Spec => []NoLostSlot
<1>1. IInv => NoLostSlot
  BY DEF IInv
<1> QED
  BY <1>1, InitInv, InvStep, PTL DEF Spec

-----------------------------------------------------------------------------
(* Where a thread has the pthread mutex, and where holder_ names it.        *)
Inside == {"assign", "test", "unassign", "sleep", "reassign", "count",
           "release", "unlock"}
Named == {"test", "unassign", "count", "release"}

(* The threads whose countDown() is still to come.                          *)
Before == {c \in Counters : pc[c] \in {"start", "lock", "assign", "count"}}

PlaceInv ==
  /\ pc \in [Threads -> PCs]
  /\ mutex_ \in Threads \cup {NoThread}
  /\ holder_ \in Threads \cup {NoThread}
  /\ pcond_ \subseteq Waiters
  /\ tid_ \in [Counters -> BOOLEAN]
  /\ \A c \in Counters :
       pc[c] \in {"start", "lock", "assign", "count", "release", "unlock",
                  "done"}
  /\ \A w \in Waiters : pc[w] # "count"

MutexInv == \A t \in Threads : mutex_ = t <=> pc[t] \in Inside
HolderInv == \A t \in Threads : holder_ = t <=> pc[t] \in Named
CountInv == count_ = Cardinality(Before)

(* A waiter leaves its loop with the mutex and a count of zero, when no     *)
(* thread can be in countDown() any more.                                   *)
OverInv ==
  /\ \A w \in Waiters :
       pc[w] \in {"release", "unlock", "done"} =>
         \A c \in Counters : pc[c] = "done"
  /\ \A c \in Counters : pc[c] # "start" => tid_[c]

LatchInv == PlaceInv /\ MutexInv /\ HolderInv /\ CountInv /\ OverInv

-----------------------------------------------------------------------------
(* Threads that are not counting leave the number to come as it is.         *)
LEMMA SameBefore ==
  ASSUME CountInv, Before' = Before, count_' = count_
  PROVE  CountInv'
BY DEF CountInv

(* The count is a number of threads; at zero nobody is left to count down.  *)
LEMMA CountRange ==
  ASSUME CountInv
  PROVE  count_ \in 0 .. Cardinality(Counters) /\ (count_ = 0 => Before = {})
<1>1. IsFiniteSet(Counters)
  BY UsersAssumption, FS_Subset
<1>2. IsFiniteSet(Before) /\ Cardinality(Before) <= Cardinality(Counters)
  BY <1>1, FS_Subset DEF Before
<1>3. Cardinality(Before) \in Nat /\ Cardinality(Counters) \in Nat
  BY <1>1, <1>2, FS_CardinalityType
<1> QED
  BY <1>2, <1>3, FS_EmptySet DEF CountInv

(* Every step preserves the invariant.                                      *)
LEMMA LatchInvStep == LatchInv /\ [LatchNext]_latchVars => LatchInv'
<1> SUFFICES ASSUME LatchInv, [LatchNext]_latchVars PROVE LatchInv'
  OBVIOUS
<1> USE UsersAssumption, NoThreadAssumption
    DEF LatchInv, PlaceInv, MutexInv, HolderInv, OverInv, PCs, Inside, Named
<1>1. ASSUME NEW w \in Waiters, CallWait(w)
      PROVE LatchInv'
  <2>1. PlaceInv' /\ MutexInv' /\ HolderInv' /\ OverInv'
    BY <1>1 DEF CallWait, Goes
  <2>2. Before' = Before /\ count_' = count_
    BY <1>1 DEF CallWait, Goes, Before
  <2> QED
    BY <2>1, <2>2, SameBefore
<1>2. ASSUME NEW t \in Threads, PthreadLock(t, "lock", "assign"),
             UNCHANGED <<count_, tid_>>
      PROVE LatchInv'
  <2>1. PlaceInv' /\ MutexInv' /\ HolderInv' /\ OverInv'
    BY <1>2 DEF PthreadLock, Goes
  <2>2. Before' = Before /\ count_' = count_
    BY <1>2 DEF PthreadLock, Goes, Before
  <2> QED
    BY <2>1, <2>2, SameBefore
<1>3. ASSUME NEW w \in Waiters, assignHolder(w, "assign", "test"),
             UNCHANGED <<count_, tid_>>
      PROVE LatchInv'
  <2>1. PlaceInv' /\ MutexInv' /\ HolderInv' /\ OverInv'
    BY <1>3 DEF assignHolder, Goes
  <2>2. Before' = Before /\ count_' = count_
    BY <1>3 DEF assignHolder, Goes, Before
  <2> QED
    BY <2>1, <2>2, SameBefore
<1>4. ASSUME NEW c \in Counters, assignHolder(c, "assign", "count"),
             UNCHANGED <<count_, tid_>>
      PROVE LatchInv'
  <2>1. PlaceInv' /\ MutexInv' /\ HolderInv' /\ OverInv'
    BY <1>4 DEF assignHolder, Goes
  <2>2. Before' = Before /\ count_' = count_
    BY <1>4 DEF assignHolder, Goes, Before
  <2> QED
    BY <2>1, <2>2, SameBefore
<1>5. ASSUME NEW w \in Waiters, Goes(w, "test", Test),
             UNCHANGED <<mutex_, holder_, pcond_, count_, tid_>>
      PROVE LatchInv'
  <2>1. PlaceInv' /\ MutexInv' /\ HolderInv'
    BY <1>5 DEF Goes, Test
  <2>2. OverInv'
    <3>1. CASE count_ > 0
      BY <1>5, <3>1 DEF Goes, Test
    <3>2. CASE Before = {}
      <4>1. \A c \in Counters : pc[c] = "done"
        BY <1>5, <3>2 DEF Goes, Before
      <4> QED
        BY <1>5, <4>1 DEF Goes, Test
    <3> QED
      BY <3>1, <3>2, CountRange
  <2>3. Before' = Before /\ count_' = count_
    BY <1>5 DEF Goes, Test, Before
  <2> QED
    BY <2>1, <2>2, <2>3, SameBefore
<1>6. ASSUME NEW w \in Waiters, Unassign(w),
             UNCHANGED <<count_, tid_>>
      PROVE LatchInv'
  <2>1. PlaceInv' /\ MutexInv' /\ HolderInv' /\ OverInv'
    BY <1>6 DEF Unassign, unassignHolder, Goes
  <2>2. Before' = Before /\ count_' = count_
    BY <1>6 DEF Unassign, unassignHolder, Goes, Before
  <2> QED
    BY <2>1, <2>2, SameBefore
<1>7. ASSUME NEW w \in Waiters, PthreadWait(w, "sleep", "asleep"),
             UNCHANGED <<count_, tid_>>
      PROVE LatchInv'
  <2>1. PlaceInv' /\ MutexInv' /\ HolderInv' /\ OverInv'
    BY <1>7 DEF PthreadWait, Goes
  <2>2. Before' = Before /\ count_' = count_
    BY <1>7 DEF PthreadWait, Goes, Before
  <2> QED
    BY <2>1, <2>2, SameBefore
<1>8. ASSUME NEW w \in Waiters,
             PthreadWaitReturns(w, "asleep", "reassign"),
             UNCHANGED <<count_, tid_>>
      PROVE LatchInv'
  <2>1. PlaceInv' /\ MutexInv' /\ HolderInv' /\ OverInv'
    BY <1>8 DEF PthreadWaitReturns, PthreadLock, Goes
  <2>2. Before' = Before /\ count_' = count_
    BY <1>8 DEF PthreadWaitReturns, PthreadLock, Goes, Before
  <2> QED
    BY <2>1, <2>2, SameBefore
<1>9. ASSUME NEW w \in Waiters,
             assignHolder(w, "reassign", AfterWait),
             UNCHANGED <<count_, tid_>>
      PROVE LatchInv'
  <2>1. PlaceInv' /\ MutexInv' /\ HolderInv' /\ OverInv'
    BY <1>9 DEF assignHolder, Goes, AfterWait
  <2>2. Before' = Before /\ count_' = count_
    BY <1>9 DEF assignHolder, Goes, AfterWait, Before
  <2> QED
    BY <2>1, <2>2, SameBefore
<1>10. ASSUME NEW t \in Threads, unassignHolder(t, "release", "unlock"),
             UNCHANGED <<count_, tid_>>
      PROVE LatchInv'
  <2>1. PlaceInv' /\ MutexInv' /\ HolderInv' /\ OverInv'
    BY <1>10 DEF unassignHolder, Goes
  <2>2. Before' = Before /\ count_' = count_
    BY <1>10 DEF unassignHolder, Goes, Before
  <2> QED
    BY <2>1, <2>2, SameBefore
<1>11. ASSUME NEW t \in Threads, PthreadUnlock(t, "unlock", "done"),
             UNCHANGED <<count_, tid_>>
      PROVE LatchInv'
  <2>1. PlaceInv' /\ MutexInv' /\ HolderInv' /\ OverInv'
    BY <1>11 DEF PthreadUnlock, Goes
  <2>2. Before' = Before /\ count_' = count_
    BY <1>11 DEF PthreadUnlock, Goes, Before
  <2> QED
    BY <2>1, <2>2, SameBefore
<1>12. ASSUME NEW c \in Counters, StoreTid(c)
      PROVE LatchInv'
  <2>1. PlaceInv' /\ MutexInv' /\ HolderInv' /\ OverInv'
    BY <1>12 DEF StoreTid, Goes
  <2>2. Before' = Before /\ count_' = count_
    BY <1>12 DEF StoreTid, Goes, Before
  <2> QED
    BY <2>1, <2>2, SameBefore
<1>13. ASSUME NEW w \in Waiters, PthreadWakesUp(w),
             UNCHANGED <<count_, tid_>>
      PROVE LatchInv'
  <2>1. PlaceInv' /\ MutexInv' /\ HolderInv' /\ OverInv'
    BY <1>13 DEF PthreadWakesUp
  <2>2. Before' = Before /\ count_' = count_
    BY <1>13 DEF PthreadWakesUp, Before
  <2> QED
    BY <2>1, <2>2, SameBefore
<1>14. ASSUME NEW c \in Counters, CountDown(c)
      PROVE LatchInv'
  <2> USE <1>14 DEF CountDown, Goes
  <2>1. PlaceInv'
    BY DEF Woken, notifyAll
  <2>2. MutexInv' /\ HolderInv' /\ OverInv'
    OBVIOUS
  <2>3. CountInv'
    <3>1. Before' = Before \ {c} /\ c \in Before
      BY DEF Before
    <3>2. IsFiniteSet(Before)
      BY FS_Subset DEF Before
    <3> QED
      BY <3>1, <3>2, FS_RemoveElement DEF CountInv
  <2> QED
    BY <2>1, <2>2, <2>3
<1>15. CASE UNCHANGED latchVars
  BY <1>15 DEF latchVars, mutexVars, CountInv, Before
<1> QED
  BY <1>1, <1>2, <1>3, <1>4, <1>5, <1>6, <1>7, <1>8, <1>9, <1>10,
     <1>11, <1>12, <1>13, <1>14, <1>15
  DEF LatchNext, WaiterStep, CounterStep, Lock,
      WaitLoop, Unlock

-----------------------------------------------------------------------------
(* It holds from the start on.                                            *)
LEMMA LatchInvInit == LatchInit => LatchInv
<1> SUFFICES ASSUME LatchInit PROVE LatchInv
  OBVIOUS
<1> USE UsersAssumption, NoThreadAssumption DEF LatchInit, MutexInit
<1>1. PlaceInv /\ MutexInv /\ HolderInv /\ OverInv
  BY DEF PlaceInv, MutexInv, HolderInv, OverInv, PCs, Inside, Named
<1>2. Before = Counters
  BY DEF Before
<1> QED
  BY <1>1, <1>2 DEF LatchInv, CountInv

(* The places of all threads, the mutex, holder_ and the count fit together *)
(* in every state, for any threads that wait and count down.                *)
THEOREM LatchInductive == LatchSpec => []LatchInv
BY LatchInvInit, LatchInvStep, PTL DEF LatchSpec

(* holder_ (Mutex.h lines 38-41, 88-100) names only a thread that has the   *)
(* mutex, and the right one inside a critical section, also around          *)
(* Condition::wait(), which lets the mutex go.                              *)
THEOREM HolderCorrect == LatchSpec => []HolderRight
<1>1. LatchInv => HolderRight
  <2> SUFFICES ASSUME LatchInv PROVE HolderRight
    OBVIOUS
  <2>1. LatchTypeOK
    BY CountRange, UsersAssumption DEF LatchInv, PlaceInv, LatchTypeOK
  <2> QED
    BY <2>1, NoThreadAssumption
    DEF LatchInv, PlaceInv, MutexInv, HolderInv, Inside, Named, HolderRight
<1> QED
  BY <1>1, LatchInductive, PTL

(* When wait() has returned to any thread, every countDown() is over and    *)
(* the ids are stored (Thread.cc lines 69-81 and 177-181): no thread that   *)
(* counts down touches the latch any more.  Other waiters still may.        *)
THEOREM ReturnCorrect == LatchSpec => []ReturnIsSafe
<1>1. LatchInv => ReturnIsSafe
  BY DEF LatchInv, OverInv, ReturnIsSafe
<1> QED
  BY <1>1, LatchInductive, PTL

-----------------------------------------------------------------------------
(* EventLoopThreadPool: where the owner is in startLoop() once Thread's     *)
(* start() has begun.                                                       *)
Starting == {"latch", "lock", "asleep"}

(* Threads exist up to the one that is being started, and a latch is still  *)
(* closed until its thread opens it.                                        *)
CreatedInv ==
  /\ starter = "new" => /\ cur = 0 /\ loops_ = 0
                        /\ \A i \in Ids : tpc[i] = "none"
  /\ starter = "create" =>
       \A i \in Ids : i >= cur => tpc[i] = "none"
  /\ starter \in Starting =>
       \A i \in Ids : i > cur => tpc[i] = "none"
  /\ \A i \in Ids : tpc[i] \in {"none", "new"} => latch[i] = 1

(* The thread in hand is one of the pool, and the ones before it have been  *)
(* started.                                                                 *)
CurInv ==
  /\ starter \in Starting \cup {"create", "test", "quit", "wakeup", "join",
                               "dead", "deadWakeup"} =>
       cur < numThreads_
  /\ starter \in Starting \cup {"create"} => loops_ = cur

PointerInv ==
  \A i \in Ids : loop_[i] => tpc[i] \in {"enter", "loop", "clear"}

Destroying == {"test", "quit", "wakeup", "join", "gone", "dead", "deadWakeup"}
Told == {"wakeup", "join", "deadWakeup"}

(* A loop that no callback of its own has told to quit was told by its      *)
(* destructor, and until then it stays where the destructor found it.       *)
QuitInv ==
  /\ \A i \in Ids : tpc[i] \in {"enter", "loop"} => loop_[i]
  /\ \A i \in Ids :
       ~selfQuit[i] /\ (quit_[i] \/ tpc[i] \in {"clear", "destruct", "done"})
         => /\ starter \in Destroying
            /\ i < cur \/ (i = cur /\ starter \in Told)
  /\ starter = "quit" =>
       tpc[cur] \in {"enter", "loop", "clear", "destruct", "done"}
  /\ starter = "dead" => selfQuit[cur]

LoopsInv ==
  LoopPoolTypeOK /\ CreatedInv /\ CurInv /\ PointerInv /\ QuitInv

(* Initially no thread exists.                                              *)
LEMMA LoopsInvInit == LoopPoolInit => LoopsInv
BY BoundsAssumption
   DEF LoopPoolInit, LoopsInv, LoopPoolTypeOK, CreatedInv, CurInv, PointerInv,
       QuitInv, Starting, StarterPCs, ThreadPCs, Ids

(* The owner's steps, of which only Create changes a thread.                *)
LEMMA OwnerKeeps ==
  ASSUME LoopsInv,
         \/ StartPool \/ CreateFails \/ StarterStep \/ StarterWakesUp
         \/ Destruct
  PROVE  LoopsInv'
<1> USE BoundsAssumption
    DEF LoopsInv, LoopPoolTypeOK, CreatedInv, CurInv, PointerInv, QuitInv,
        Starting, Destroying, Told, Ids, poolVars
<1>1. CASE StartPool
  BY <1>1 DEF StartPool, StartFrom, StarterPCs
<1>2. CASE CreateFails \/ LatchOpens \/ StartLoopWait \/ StarterWakesUp
  BY <1>2 DEF CreateFails, LatchOpens, StartLoopWait, StarterWakesUp,
              StarterPCs
<1>3. CASE Create
  BY <1>3 DEF Create, StarterPCs, ThreadPCs
<1>4. CASE StartLoopReturn
  BY <1>4 DEF StartLoopReturn, StartFrom, StarterPCs
<1>5. CASE Destruct
  BY <1>5 DEF Destruct, DestructFrom, StarterPCs
<1>6. CASE DestructTest
  BY <1>6 DEF DestructTest, DestructFrom, StarterPCs
<1>7. CASE DestructQuit
  <2>1. /\ starter = "quit" /\ cur \in Ids
        /\ UNCHANGED <<cur, tpc, latch, loop_, selfQuit, numThreads_, loops_>>
    BY <1>7 DEF DestructQuit
  <2>2. CASE starter' = "dead" /\ quit_' = quit_ /\ ~loop_[cur]
    <3>1. selfQuit[cur]
      BY <2>1, <2>2
    <3> QED
      BY <2>1, <2>2, <3>1 DEF StarterPCs
  <2>3. CASE /\ starter' = "wakeup"
             /\ quit_' = [quit_ EXCEPT ![cur] = TRUE]
    BY <2>1, <2>3 DEF StarterPCs
  <2> QED
    BY <1>7, <2>2, <2>3 DEF DestructQuit
<1>8. CASE Join
  BY <1>8 DEF Join, DestructFrom, StarterPCs
<1>9. CASE DestructWakeup
  BY <1>9 DEF DestructWakeup, LoopLives, StarterPCs
<1> QED
  BY <1>1, <1>2, <1>3, <1>4, <1>5, <1>6, <1>7, <1>8, <1>9 DEF StarterStep

(* The steps of a thread, which exists by then.                             *)
LEMMA ThreadKeeps ==
  ASSUME LoopsInv, NEW i \in Ids, ThreadStep(i) \/ QuitInLoop(i)
  PROVE  LoopsInv'
<1> USE BoundsAssumption
    DEF LoopsInv, LoopPoolTypeOK, CreatedInv, CurInv, PointerInv, QuitInv,
        Starting, Destroying, Told, Ids, poolVars, ThreadGoes, ThreadPCs
<1>1. CASE RunInThread(i)
  BY <1>1 DEF RunInThread
<1>2. CASE InitCallback(i)
  BY <1>2 DEF InitCallback
<1>3. CASE Publish(i)
  BY <1>3 DEF Publish, StarterPCs
<1>4. CASE Enter(i)
  BY <1>4 DEF Enter
<1>5. CASE QuitInLoop(i)
  BY <1>5 DEF QuitInLoop
<1>6. CASE LoopReturns(i)
  BY <1>6 DEF LoopReturns
<1>7. CASE Clear(i)
  BY <1>7 DEF Clear
<1>8. CASE ThreadReturns(i)
  BY <1>8 DEF ThreadReturns
<1> QED
  BY <1>1, <1>2, <1>3, <1>4, <1>5, <1>6, <1>7, <1>8 DEF ThreadStep

(* LoopsInv is inductive.                                                   *)
THEOREM LoopsInductive == LoopPoolSpec => []LoopsInv
<1>1. LoopsInv /\ [LoopPoolNext]_loopPoolVars => LoopsInv'
  <2> SUFFICES ASSUME LoopsInv, [LoopPoolNext]_loopPoolVars
               PROVE  LoopsInv'
    OBVIOUS
  <2>1. CASE UNCHANGED loopPoolVars
    BY <2>1 DEF loopPoolVars, poolVars, LoopsInv, LoopPoolTypeOK,
                CreatedInv, CurInv, PointerInv, QuitInv
  <2> QED
    BY <2>1, OwnerKeeps, ThreadKeeps DEF LoopPoolNext
<1> QED
  BY LoopsInvInit, <1>1, PTL DEF LoopPoolSpec

(* EventLoopThread::loop_ is NULL or points to an EventLoop that lives on   *)
(* its thread's stack (EventLoopThread.cc lines 49-68), whatever the number *)
(* of threads, whichever creation fails and whenever loops end.             *)
THEOREM LoopPointersValid == LoopPoolSpec => []LoopPointerValid
<1>1. LoopsInv => LoopPointerValid
  BY DEF LoopsInv, PointerInv, LoopPointerValid
<1> QED
  BY <1>1, LoopsInductive, PTL

(* ~EventLoopThread() calls quit() on a living EventLoop, unless a callback *)
(* of that loop has ended it: the two unguarded reads of loop_ do no harm   *)
(* by themselves (EventLoopThread.cc lines 22-26).                          *)
THEOREM DestructorQuitsLoop == LoopPoolSpec => []QuitsLivingLoop
<1>1. LoopsInv => QuitsLivingLoop
  BY DEF LoopsInv, QuitInv, QuitsLivingLoop
<1> QED
  BY <1>1, LoopsInductive, PTL
=============================================================================
