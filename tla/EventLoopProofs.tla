-------------------------- MODULE EventLoopProofs --------------------------
(***************************************************************************)
(* Proofs about EventLoop for any number of threads, callbacks and         *)
(* channels: its types, that no wakeup and no quit() is lost, and that the *)
(* queue with its batches is one FIFO queue.                               *)
(***************************************************************************)
EXTENDS EventLoop, TLAPS

(* Everything the loop's thread keeps local agrees with where it is.        *)
LocalsInv ==
  /\ callingPendingFunctors_ <=> pc \in {"drain", "functor"}
  /\ functors # <<>> => pc \in {"drain", "functor"}
  /\ running # NoFunctor <=> pc = "functor"

(* Work that was queued from loop() or from another thread: between         *)
(* epoll_wait() returning and the swap the loop is bound to reach it, at    *)
(* every other place somebody wakes the loop up.                            *)
WakeupInv == HasWork => Woken \/ pc \in {"dispatch", "callback"}

QuitInv == pc = "epoll" /\ quit_ => Woken

IInv == TypeOK /\ LocalsInv /\ WakeupInv /\ QuitInv

-----------------------------------------------------------------------------
(* Every action keeps the types.                                            *)
LEMMA TypeStep == TypeOK /\ [Next]_vars => TypeOK'
<1> SUFFICES ASSUME TypeOK, [Next]_vars PROVE TypeOK'
  OBVIOUS
<1> USE NoFunctorAssumption, EventfdMaxAssumption
<1>1. CASE LoopTest \/ PollReady \/ PollEmpty \/ CallbackReturn
  BY <1>1 DEF TypeOK, PCs, LoopTest, PollReady, PollEmpty, CallbackReturn,
              Readable, wakeupChannel_
<1>2. CASE HandleRead
  BY <1>2 DEF TypeOK, HandleRead
<1>3. ASSUME NEW c \in Channels, Dispatch(c) \/ Arrive(c) PROVE TypeOK'
  BY <1>3 DEF TypeOK, PCs, Dispatch, Arrive
<1>4. CASE DoPendingFunctors
  BY <1>4 DEF TypeOK, PCs, DoPendingFunctors
<1>5. CASE FunctorReturn \/ PendingDone
  BY <1>5 DEF TypeOK, PCs, FunctorReturn, PendingDone
<1>11. CASE RunFunctor
  <2>1. Head(functors) \in Functors /\ Tail(functors) \in Seq(Functors)
    BY <1>11 DEF TypeOK, RunFunctor
  <2> QED
    BY <1>11, <2>1 DEF TypeOK, PCs, RunFunctor
<1>6. CASE LoopEnter \/ QuitHere
  BY <1>6 DEF TypeOK, PCs, LoopEnter, QuitHere
<1>7. ASSUME NEW f \in Functors, QueueInLoopHere(f) PROVE TypeOK'
  BY <1>7 DEF TypeOK, QueueInLoopHere, wakeup
<1>8. ASSUME NEW t \in Threads, NEW f \in Functors, QueueInLoop(t, f)
      PROVE TypeOK'
  BY <1>8 DEF TypeOK, QueueInLoop
<1>9. ASSUME NEW t \in Threads, Quit(t) PROVE TypeOK'
  BY <1>9 DEF TypeOK, Quit
<1>12. ASSUME NEW t \in Threads, Wakeup(t) PROVE TypeOK'
  <2>1. wakeupFd' \in 0..EventfdMax
    BY <1>12 DEF TypeOK, Wakeup, wakeup
  <2> QED
    BY <1>12, <2>1 DEF TypeOK, Wakeup
<1>10. CASE UNCHANGED vars
  BY <1>10 DEF TypeOK, vars
<1> QED
  BY <1>1, <1>2, <1>3, <1>4, <1>5, <1>6, <1>7, <1>8, <1>9, <1>10,
     <1>11, <1>12
  DEF Next, LoopStep, UserStep, OtherThread

(* Every action keeps the loop thread's locals in step with its position.   *)
LEMMA LocalsStep == TypeOK /\ LocalsInv /\ [Next]_vars => LocalsInv'
<1> SUFFICES ASSUME TypeOK, LocalsInv, [Next]_vars PROVE LocalsInv'
  OBVIOUS
<1> USE NoFunctorAssumption DEF LocalsInv
<1>1. CASE LoopTest \/ PollReady \/ PollEmpty \/ CallbackReturn \/ HandleRead
  BY <1>1 DEF LoopTest, PollReady, PollEmpty, CallbackReturn, HandleRead
<1>2. ASSUME NEW c \in Channels, Dispatch(c) \/ Arrive(c) PROVE LocalsInv'
  BY <1>2 DEF Dispatch, Arrive
<1>3. CASE DoPendingFunctors \/ FunctorReturn \/ PendingDone
  BY <1>3 DEF DoPendingFunctors, FunctorReturn, PendingDone
<1>4. CASE RunFunctor
  <2>1. Head(functors) \in Functors
    BY <1>4 DEF TypeOK, RunFunctor
  <2> QED
    BY <1>4, <2>1 DEF RunFunctor
<1>5. CASE LoopEnter \/ QuitHere
  BY <1>5 DEF LoopEnter, QuitHere
<1>6. ASSUME NEW f \in Functors, QueueInLoopHere(f) PROVE LocalsInv'
  BY <1>6 DEF QueueInLoopHere
<1>7. ASSUME NEW t \in Threads, OtherThread(t) PROVE LocalsInv'
  BY <1>7 DEF OtherThread, QueueInLoop, Quit, Wakeup
<1>8. CASE UNCHANGED vars
  BY <1>8 DEF vars
<1> QED
  BY <1>1, <1>2, <1>3, <1>4, <1>5, <1>6, <1>7, <1>8
  DEF Next, LoopStep, UserStep

(* After wakeup() the eventfd is readable, full or not.                     *)
LEMMA WakeupWakes == ASSUME TypeOK, wakeup PROVE wakeupFd' > 0
BY EventfdMaxAssumption DEF TypeOK, wakeup

(* Work the loop's thread queues before loop() is not HasWork's.            *)
LEMMA PreloopAddsNoWork ==
  ASSUME TypeOK, NEW f \in Functors, QueueInLoopHere(f), pc = "idle", HasWork'
  PROVE  HasWork
<1>1. PICK i \in 1..Len(pendingFunctors_') : pendingFunctors_'[i] \notin preloop'
  BY DEF HasWork
<1>2. pendingFunctors_' = Append(pendingFunctors_, f) /\ preloop' = preloop \cup {f}
  BY DEF QueueInLoopHere
<1>3. Len(pendingFunctors_') = Len(pendingFunctors_) + 1
  BY <1>2 DEF TypeOK
<1>4. pendingFunctors_'[Len(pendingFunctors_) + 1] = f
  BY <1>2 DEF TypeOK
<1>5. i \in 1..Len(pendingFunctors_)
  BY <1>1, <1>2, <1>3, <1>4 DEF TypeOK
<1>6. pendingFunctors_'[i] = pendingFunctors_[i]
  BY <1>2, <1>5 DEF TypeOK
<1> QED
  BY <1>1, <1>2, <1>5, <1>6 DEF HasWork

(* Every action leaves pending work to somebody's wakeup.                   *)
LEMMA WakeupStep ==
  TypeOK /\ LocalsInv /\ WakeupInv /\ [Next]_vars => WakeupInv'
<1> SUFFICES ASSUME TypeOK, LocalsInv, WakeupInv, [Next]_vars PROVE WakeupInv'
  OBVIOUS
<1>1. CASE PollReady \/ PollEmpty \/ CallbackReturn
  BY <1>1 DEF WakeupInv, PollReady, PollEmpty, CallbackReturn
<1>2. CASE HandleRead
  BY <1>2 DEF WakeupInv, HandleRead
<1>3. ASSUME NEW c \in Channels, Dispatch(c) PROVE WakeupInv'
  BY <1>3 DEF WakeupInv, Dispatch
<1>4. ASSUME NEW c \in Channels, Arrive(c) PROVE WakeupInv'
  BY <1>4 DEF WakeupInv, Arrive, HasWork, Woken
<1>5. CASE DoPendingFunctors
  <2>1. Len(pendingFunctors_') = 0
    BY <1>5 DEF DoPendingFunctors
  <2> QED
    BY <2>1 DEF WakeupInv, HasWork
<1>6. CASE LoopTest \/ LoopEnter \/ QuitHere
  BY <1>6 DEF WakeupInv, HasWork, Woken, LoopTest, LoopEnter, QuitHere
<1>7. CASE RunFunctor \/ FunctorReturn \/ PendingDone
  BY <1>7 DEF WakeupInv, HasWork, Woken, RunFunctor, FunctorReturn, PendingDone
<1>8. ASSUME NEW f \in Functors, QueueInLoopHere(f) PROVE WakeupInv'
  <2>1. CASE pc = "functor"
    <3>1. wakeup
      BY <1>8, <2>1 DEF QueueInLoopHere, NeedsWakeup, LocalsInv
    <3> QED
      BY <3>1, WakeupWakes DEF WakeupInv, Woken
  <2>2. CASE pc = "callback"
    BY <1>8, <2>2 DEF WakeupInv, QueueInLoopHere
  <2>3. CASE pc = "idle"
    <3>1. wakeupFd' = wakeupFd /\ tpc' = tpc /\ pc' = pc
      BY <1>8, <2>3 DEF QueueInLoopHere, NeedsWakeup, LocalsInv
    <3>2. HasWork' => HasWork
      BY <1>8, <2>3, PreloopAddsNoWork
    <3> QED
      BY <2>3, <3>1, <3>2 DEF WakeupInv, Woken
  <2> QED
    BY <1>8, <2>1, <2>2, <2>3 DEF QueueInLoopHere, InUserCode
<1>9. ASSUME NEW t \in Threads, Wakeup(t) PROVE WakeupInv'
  BY <1>9, WakeupWakes DEF WakeupInv, Woken, Wakeup
<1>10. ASSUME NEW t \in Threads,
              Quit(t) \/ \E f \in Functors : QueueInLoop(t, f)
       PROVE WakeupInv'
  <2>1. tpc'[t] = "wakeup"
    BY <1>10 DEF Quit, QueueInLoop, TypeOK
  <2> QED
    BY <2>1 DEF WakeupInv, Woken
<1>11. CASE UNCHANGED vars
  BY <1>11 DEF vars, WakeupInv, HasWork, Woken
<1> QED
  BY <1>1, <1>2, <1>3, <1>4, <1>5, <1>6, <1>7, <1>8, <1>9, <1>10, <1>11
  DEF Next, LoopStep, UserStep, OtherThread

(* Every action leaves a quit() the loop has not seen to somebody's wakeup. *)
LEMMA QuitStep == TypeOK /\ QuitInv /\ [Next]_vars => QuitInv'
<1> SUFFICES ASSUME TypeOK, QuitInv, [Next]_vars, pc' = "epoll", quit_'
    PROVE Woken'
  BY DEF QuitInv
<1>1. CASE LoopStep \/ PollEmpty \/ UserStep
  BY <1>1 DEF LoopStep, LoopTest, PollReady, PollEmpty, HandleRead, Dispatch,
              CallbackReturn, DoPendingFunctors, RunFunctor, FunctorReturn,
              PendingDone, UserStep, QueueInLoopHere, QuitHere, LoopEnter,
              InUserCode
<1>2. ASSUME NEW t \in Threads, Wakeup(t) PROVE Woken'
  BY <1>2, WakeupWakes DEF Woken, Wakeup
<1>3. ASSUME NEW t \in Threads,
             Quit(t) \/ \E f \in Functors : QueueInLoop(t, f)
      PROVE Woken'
  BY <1>3 DEF Quit, QueueInLoop, TypeOK, Woken
<1>4. ASSUME NEW c \in Channels, Arrive(c) PROVE Woken'
  BY <1>4 DEF Arrive, QuitInv, Woken
<1>5. CASE UNCHANGED vars
  BY <1>5 DEF vars, QuitInv, Woken
<1> QED
  BY <1>1, <1>2, <1>3, <1>4, <1>5 DEF Next, OtherThread

(* IInv is inductive.                                                       *)
THEOREM Inductive == Spec => []IInv
<1>1. Init => IInv
  <2> SUFFICES ASSUME Init PROVE IInv
    OBVIOUS
  <2>1. TypeOK
    <3>1. pendingFunctors_ \in Seq(Functors) /\ functors \in Seq(Functors)
      BY DEF Init
    <3>2. tpc \in [Threads -> {"run", "wakeup"}]
      BY DEF Init
    <3>3. wakeupFd \in 0..EventfdMax
      BY EventfdMaxAssumption DEF Init
    <3> QED
      BY <3>1, <3>2, <3>3 DEF Init, TypeOK, PCs
  <2>2. Len(pendingFunctors_) = 0
    BY DEF Init
  <2> QED
    BY <2>1, <2>2, NoFunctorAssumption
    DEF Init, IInv, LocalsInv, WakeupInv, HasWork, QuitInv
<1>2. IInv /\ [Next]_vars => IInv'
  BY TypeStep, LocalsStep, WakeupStep, QuitStep DEF IInv
<1> QED
  BY <1>1, <1>2, PTL DEF Spec

(* queueInLoop() never leaves the loop asleep on queued work.               *)
THEOREM WakeupCorrect == Spec => []NoLostWakeup
<1>1. IInv => NoLostWakeup
  BY DEF IInv, WakeupInv, NoLostWakeup
<1> QED
  BY <1>1, Inductive, PTL

(* quit() never leaves the loop asleep.                                     *)
THEOREM QuitCorrect == Spec => []NoLostQuit
<1>1. IInv => NoLostQuit
  BY DEF IInv, QuitInv, NoLostQuit
<1> QED
  BY <1>1, Inductive, PTL

-----------------------------------------------------------------------------
(* Appending to the queue appends to batch and queue together.              *)
LEMMA ConcatAppend ==
  ASSUME NEW s \in Seq(Functors), NEW q \in Seq(Functors), NEW f \in Functors
  PROVE  s \o Append(q, f) = Append(s \o q, f)
OBVIOUS

(* The oldest callback of batch and queue is the batch's first.             *)
LEMMA ConcatHeadTail ==
  ASSUME NEW s \in Seq(Functors), NEW q \in Seq(Functors), s # <<>>
  PROVE  /\ s \o q # <<>>
         /\ Head(s \o q) = Head(s)
         /\ Tail(s \o q) = Tail(s) \o q
OBVIOUS

(* Whatever threads do, the loop runs the callbacks as FunctorQueue says.   *)
THEOREM Refinement == Spec => ImplementsQueue
<1>1. Init => FQ!Init
  BY DEF Init, FQ!Init
<1>2. ASSUME IInv, [Next]_vars PROVE [FQ!Next]_(FQ!vars)
  <2> USE <1>2 DEF IInv, TypeOK
  <2>1. ASSUME NEW t \in Threads, NEW f \in Functors, QueueInLoop(t, f)
        PROVE FQ!Submit(f)
    BY <2>1, ConcatAppend DEF QueueInLoop, FQ!Submit
  <2>2. ASSUME NEW f \in Functors, QueueInLoopHere(f) PROVE FQ!Submit(f)
    BY <2>2, ConcatAppend DEF QueueInLoopHere, FQ!Submit
  <2>3. CASE DoPendingFunctors
    <3>1. functors = <<>>
      BY <2>3 DEF DoPendingFunctors, LocalsInv
    <3>2. functors \o pendingFunctors_ = functors' \o pendingFunctors_'
      BY <2>3, <3>1 DEF DoPendingFunctors
    <3> QED
      BY <2>3, <3>2 DEF DoPendingFunctors, FQ!vars
  <2>4. CASE RunFunctor
    <3>1. running = NoFunctor /\ functors # <<>>
      BY <2>4 DEF RunFunctor, LocalsInv
    <3>2. FQ!Start
      BY <2>4, <3>1, ConcatHeadTail DEF RunFunctor, FQ!Start
    <3> QED
      BY <3>2 DEF FQ!Next
  <2>5. CASE FunctorReturn
    <3>1. FQ!Finish
      BY <2>5 DEF FunctorReturn, LocalsInv, FQ!Finish
    <3> QED
      BY <3>1 DEF FQ!Next
  <2>6. CASE LoopTest \/ PollReady \/ PollEmpty \/ HandleRead \/ CallbackReturn
    BY <2>6 DEF LoopTest, PollReady, PollEmpty, HandleRead, CallbackReturn,
                FQ!vars
  <2>7. ASSUME NEW c \in Channels, Dispatch(c) \/ Arrive(c)
        PROVE UNCHANGED FQ!vars
    BY <2>7 DEF Dispatch, Arrive, FQ!vars
  <2>8. CASE PendingDone \/ QuitHere \/ LoopEnter
    BY <2>8 DEF PendingDone, QuitHere, LoopEnter, FQ!vars
  <2>9. ASSUME NEW t \in Threads, Quit(t) \/ Wakeup(t)
        PROVE UNCHANGED FQ!vars
    BY <2>9 DEF Quit, Wakeup, FQ!vars
  <2>10. CASE UNCHANGED vars
    BY <2>10 DEF vars, FQ!vars
  <2> QED
    BY <2>1, <2>2, <2>3, <2>4, <2>5, <2>6, <2>7, <2>8, <2>9, <2>10
    DEF Next, LoopStep, UserStep, OtherThread, FQ!Next
<1> QED
  BY <1>1, <1>2, Inductive, PTL DEF Spec, ImplementsQueue, FQ!Spec
=============================================================================
