----------------------------- MODULE EventLoop -----------------------------
(***************************************************************************)
(* The reactor of muduo/net/EventLoop.cc: one thread runs loop(), every    *)
(* other thread hands it callbacks with queueInLoop()/runInLoop() and      *)
(* stops it with quit(); an eventfd gets the loop out of epoll_wait().     *)
(*                                                                         *)
(* The loop's thread is a program counter, the other threads only remember *)
(* whether they still owe the wakeup() that ends queueInLoop() and quit(). *)
(* What callbacks compute is left out; that they may call queueInLoop()    *)
(* and quit() themselves is not.  runInLoop() called in the loop's thread  *)
(* just calls its argument, so it is part of the callback that calls it.   *)
(***************************************************************************)
EXTENDS Naturals, Sequences

CONSTANTS Threads,      \* the threads that do not own the loop
          Functors,     \* callbacks; each is in the queue at most once
          NoFunctor,
          Channels,     \* the channels registered besides wakeupChannel_
          EventfdMax    \* largest value an eventfd counter holds

ASSUME NoFunctorAssumption == NoFunctor \notin Functors
ASSUME EventfdMaxAssumption == EventfdMax \in Nat \ {0}

VARIABLES
  pc,                       \* where the loop's thread is
  quit_,
  callingPendingFunctors_,
  pendingFunctors_,         \* shared, guarded by mutex_
  functors,                 \* doPendingFunctors()'s local vector
  running,                  \* the functor being called
  wakeupFd,                 \* the eventfd's counter
  ready,                    \* channels epoll_wait would report
  activeChannels_,          \* reported, not yet handled
  tpc,                      \* "run", or "wakeup": owes a wakeup()
  preloop                   \* ghost: queued by the loop's thread outside loop()

vars == <<pc, quit_, callingPendingFunctors_, pendingFunctors_, functors,
          running, wakeupFd, ready, activeChannels_, tpc, preloop>>

(* "idle": not in loop(); "callback" and "functor": in user code called by  *)
(* the loop.                                                                *)
PCs == {"idle", "while", "epoll", "dispatch", "callback", "drain", "functor"}

InUserCode == pc \in {"idle", "callback", "functor"}

wakeupChannel_ == "wakeup"

TypeOK ==
  /\ pc \in PCs
  /\ quit_ \in BOOLEAN
  /\ callingPendingFunctors_ \in BOOLEAN
  /\ pendingFunctors_ \in Seq(Functors)
  /\ functors \in Seq(Functors)
  /\ running \in Functors \cup {NoFunctor}
  /\ wakeupFd \in 0..EventfdMax
  /\ ready \in SUBSET Channels
  /\ activeChannels_ \in SUBSET (Channels \cup {wakeupChannel_})
  /\ tpc \in [Threads -> {"run", "wakeup"}]
  /\ preloop \in SUBSET Functors

Init ==
  /\ pc = "idle"
  /\ quit_ = FALSE
  /\ callingPendingFunctors_ = FALSE
  /\ pendingFunctors_ = <<>>
  /\ functors = <<>>
  /\ running = NoFunctor
  /\ wakeupFd = 0
  /\ ready = {}
  /\ activeChannels_ = {}
  /\ tpc = [t \in Threads |-> "run"]
  /\ preloop = {}

-----------------------------------------------------------------------------
(* The write of wakeup(): a full eventfd counter refuses it, and the code   *)
(* only logs that.                                                          *)
wakeup == wakeupFd' = IF wakeupFd < EventfdMax THEN wakeupFd + 1 ELSE wakeupFd

Contains(q, f) == \E i \in 1..Len(q) : q[i] = f

Fresh(f) == ~Contains(pendingFunctors_, f) /\ ~Contains(functors, f)

(* queueInLoop() and runInLoop() in another thread: the push, under mutex_; *)
(* the thread goes on to wakeup().                                          *)
QueueInLoop(t, f) ==
  /\ tpc[t] = "run"
  /\ Fresh(f)
  /\ pendingFunctors_' = Append(pendingFunctors_, f)
  /\ tpc' = [tpc EXCEPT ![t] = "wakeup"]
  /\ UNCHANGED <<pc, quit_, callingPendingFunctors_, functors, running,
                 wakeupFd, ready, activeChannels_, preloop>>

(* Mutation: quit() leaves the loop to notice the flag by itself.           *)
QuitSilent(t) ==
  /\ tpc[t] = "run"
  /\ quit_' = TRUE
  /\ UNCHANGED <<pc, callingPendingFunctors_, pendingFunctors_, functors,
                 running, wakeupFd, ready, activeChannels_, tpc, preloop>>

(* quit() in another thread, up to its wakeup().                            *)
Quit(t) ==
  /\ tpc[t] = "run"
  /\ quit_' = TRUE
  /\ tpc' = [tpc EXCEPT ![t] = "wakeup"]
  /\ UNCHANGED <<pc, callingPendingFunctors_, pendingFunctors_, functors,
                 running, wakeupFd, ready, activeChannels_, preloop>>

Wakeup(t) ==
  /\ tpc[t] = "wakeup"
  /\ wakeup
  /\ tpc' = [tpc EXCEPT ![t] = "run"]
  /\ UNCHANGED <<pc, quit_, callingPendingFunctors_, pendingFunctors_,
                 functors, running, ready, activeChannels_, preloop>>

(* Mutation: a functor's own queueInLoop() is left to the next iteration.   *)
NeedsWakeupNever == FALSE

(* Line 153 for a caller that is the loop's thread.                         *)
NeedsWakeup == callingPendingFunctors_

(* queueInLoop() called by the loop's thread, from user code.  Nothing else *)
(* of the loop can run between the push and the write.                      *)
QueueInLoopHere(f) ==
  /\ InUserCode
  /\ Fresh(f)
  /\ pendingFunctors_' = Append(pendingFunctors_, f)
  /\ IF NeedsWakeup THEN wakeup ELSE UNCHANGED wakeupFd
  /\ preloop' = IF pc = "idle" THEN preloop \cup {f} ELSE preloop
  /\ UNCHANGED <<pc, quit_, callingPendingFunctors_, functors, running,
                 ready, activeChannels_, tpc>>

(* quit() called by the loop's thread: no wakeup().                         *)
QuitHere ==
  /\ InUserCode
  /\ quit_' = TRUE
  /\ UNCHANGED <<pc, callingPendingFunctors_, pendingFunctors_, functors,
                 running, wakeupFd, ready, activeChannels_, tpc, preloop>>

-----------------------------------------------------------------------------
(* loop(), one action per stretch that no other thread can observe inside.  *)

LoopEnter ==
  /\ pc = "idle"
  /\ quit_' = FALSE
  /\ pc' = "while"
  /\ UNCHANGED <<callingPendingFunctors_, pendingFunctors_, functors, running,
                 wakeupFd, ready, activeChannels_, tpc, preloop>>

LoopTest ==
  /\ pc = "while"
  /\ pc' = IF quit_ THEN "idle" ELSE "epoll"
  /\ activeChannels_' = {}
  /\ UNCHANGED <<quit_, callingPendingFunctors_, pendingFunctors_, functors,
                 running, wakeupFd, ready, tpc, preloop>>

(* What epoll_wait reports: the user channels that are ready, and the       *)
(* eventfd when its counter is not zero.                                    *)
Readable ==
  ready \cup (IF wakeupFd > 0 THEN {wakeupChannel_} ELSE {})

PollReady ==
  /\ pc = "epoll"
  /\ Readable # {}
  /\ activeChannels_' = Readable
  /\ pc' = "dispatch"
  /\ UNCHANGED <<quit_, callingPendingFunctors_, pendingFunctors_, functors,
                 running, wakeupFd, ready, tpc, preloop>>

(* kEPollTimeMs elapsed, or EINTR: the loop goes round with no channel.     *)
PollEmpty ==
  /\ pc = "epoll"
  /\ Readable = {}
  /\ activeChannels_' = {}
  /\ pc' = "dispatch"
  /\ UNCHANGED <<quit_, callingPendingFunctors_, pendingFunctors_, functors,
                 running, wakeupFd, ready, tpc, preloop>>

(* handleEvent() of wakeupChannel_: handleRead() reads the eventfd, which   *)
(* sets its counter to zero.                                                *)
HandleRead ==
  /\ pc = "dispatch"
  /\ wakeupChannel_ \in activeChannels_
  /\ activeChannels_' = activeChannels_ \ {wakeupChannel_}
  /\ wakeupFd' = 0
  /\ UNCHANGED <<pc, quit_, callingPendingFunctors_, pendingFunctors_,
                 functors, running, ready, tpc, preloop>>

(* handleEvent() of a user channel: the callback consumes the readiness and *)
(* is then in user code until it returns.                                   *)
Dispatch(c) ==
  /\ pc = "dispatch"
  /\ c \in activeChannels_ \ {wakeupChannel_}
  /\ activeChannels_' = activeChannels_ \ {c}
  /\ ready' = ready \ {c}
  /\ pc' = "callback"
  /\ UNCHANGED <<quit_, callingPendingFunctors_, pendingFunctors_, functors,
                 running, wakeupFd, tpc, preloop>>

CallbackReturn ==
  /\ pc = "callback"
  /\ pc' = "dispatch"
  /\ UNCHANGED <<quit_, callingPendingFunctors_, pendingFunctors_, functors,
                 running, wakeupFd, ready, activeChannels_, tpc, preloop>>

(* Mutation: only the oldest callback is taken.                             *)
DoPendingFunctorsOne ==
  /\ pc = "dispatch"
  /\ activeChannels_ = {}
  /\ callingPendingFunctors_' = TRUE
  /\ functors' = IF pendingFunctors_ = <<>> THEN <<>>
                 ELSE <<Head(pendingFunctors_)>>
  /\ pendingFunctors_' = IF pendingFunctors_ = <<>> THEN <<>>
                         ELSE Tail(pendingFunctors_)
  /\ preloop' = {}
  /\ pc' = "drain"
  /\ UNCHANGED <<quit_, running, wakeupFd, ready, activeChannels_, tpc>>

(* doPendingFunctors(): the flag, then the swap under mutex_.               *)
DoPendingFunctors ==
  /\ pc = "dispatch"
  /\ activeChannels_ = {}
  /\ callingPendingFunctors_' = TRUE
  /\ functors' = pendingFunctors_
  /\ pendingFunctors_' = <<>>
  /\ preloop' = {}
  /\ pc' = "drain"
  /\ UNCHANGED <<quit_, running, wakeupFd, ready, activeChannels_, tpc>>

(* Mutation: the batch is run from its back.                                *)
RunFunctorLast ==
  /\ pc = "drain"
  /\ functors # <<>>
  /\ running' = functors[Len(functors)]
  /\ functors' = SubSeq(functors, 1, Len(functors) - 1)
  /\ pc' = "functor"
  /\ UNCHANGED <<quit_, callingPendingFunctors_, pendingFunctors_, wakeupFd,
                 ready, activeChannels_, tpc, preloop>>

RunFunctor ==
  /\ pc = "drain"
  /\ functors # <<>>
  /\ running' = Head(functors)
  /\ functors' = Tail(functors)
  /\ pc' = "functor"
  /\ UNCHANGED <<quit_, callingPendingFunctors_, pendingFunctors_, wakeupFd,
                 ready, activeChannels_, tpc, preloop>>

FunctorReturn ==
  /\ pc = "functor"
  /\ running' = NoFunctor
  /\ pc' = "drain"
  /\ UNCHANGED <<quit_, callingPendingFunctors_, pendingFunctors_, functors,
                 wakeupFd, ready, activeChannels_, tpc, preloop>>

(* Mutation: the queue is drained until it stays empty.                     *)
PendingDoneWhenEmpty ==
  /\ pc = "drain"
  /\ functors = <<>>
  /\ functors' = pendingFunctors_
  /\ pendingFunctors_' = <<>>
  /\ callingPendingFunctors_' = (pendingFunctors_ # <<>>)
  /\ pc' = IF pendingFunctors_ = <<>> THEN "while" ELSE "drain"
  /\ UNCHANGED <<quit_, running, wakeupFd, ready, activeChannels_, tpc,
                 preloop>>

PendingDone ==
  /\ pc = "drain"
  /\ functors = <<>>
  /\ callingPendingFunctors_' = FALSE
  /\ pc' = "while"
  /\ UNCHANGED <<quit_, pendingFunctors_, functors, running, wakeupFd, ready,
                 activeChannels_, tpc, preloop>>

-----------------------------------------------------------------------------
(* The kernel: data arrives for a channel.                                  *)
Arrive(c) ==
  /\ c \notin ready
  /\ ready' = ready \cup {c}
  /\ UNCHANGED <<pc, quit_, callingPendingFunctors_, pendingFunctors_,
                 functors, running, wakeupFd, activeChannels_, tpc, preloop>>

(* The steps the loop's thread takes by itself once it is in loop().        *)
LoopStep ==
  \/ LoopTest \/ PollReady \/ HandleRead \/ (\E c \in Channels : Dispatch(c))
  \/ CallbackReturn \/ DoPendingFunctors \/ RunFunctor \/ FunctorReturn
  \/ PendingDone

UserStep ==
  \/ \E f \in Functors : QueueInLoopHere(f)
  \/ QuitHere
  \/ LoopEnter

OtherThread(t) ==
  \/ \E f \in Functors : QueueInLoop(t, f)
  \/ Quit(t)
  \/ Wakeup(t)

Next ==
  \/ LoopStep
  \/ PollEmpty
  \/ UserStep
  \/ \E t \in Threads : OtherThread(t)
  \/ \E c \in Channels : Arrive(c)

Spec == Init /\ [][Next]_vars

(* The loop's thread is scheduled and callbacks return; a thread that has   *)
(* entered queueInLoop() or quit() reaches its wakeup().  Nothing is        *)
(* assumed of PollEmpty: the ten-second timeout is not what runs callbacks. *)
Fairness == WF_vars(LoopStep) /\ \A t \in Threads : WF_vars(Wakeup(t))

FairSpec == Spec /\ Fairness
-----------------------------------------------------------------------------
Woken == wakeupFd > 0 \/ \E t \in Threads : tpc[t] = "wakeup"

(* Some pending callback was queued from inside loop() or by another thread.*)
HasWork ==
  \E i \in 1..Len(pendingFunctors_) : pendingFunctors_[i] \notin preloop

(* The loop never sits in epoll_wait() with a callback pending and nobody   *)
(* bound to get it out: lines 146-160 against 246-262.  Callbacks that the  *)
(* loop's own thread queued before loop() are the exception: line 153 sends *)
(* no wakeup() for them, and they wait for an event or for the timeout.     *)
NoLostWakeup == TypeOK /\ (pc = "epoll" /\ HasWork => Woken)

(* A quit() that comes after the test of line 89 gets the loop out of the   *)
(* epoll_wait() that follows it: lines 115-125.                             *)
NoLostQuit == pc = "epoll" /\ quit_ => Woken

(* A callback that was queued is called, or the loop stops: no timeout of   *)
(* epoll_wait() is needed for it.                                           *)
FunctorsRun ==
  \A f \in Functors :
    (Contains(pendingFunctors_, f) /\ f \notin preloop)
      ~> (running = f \/ pc = "idle")

(* Callbacks that queue callbacks for ever do not keep a channel from being *)
(* handled: doPendingFunctors() runs what it swapped out, no more.          *)
ChannelsServed ==
  \A c \in Channels : (c \in ready) ~> (c \notin ready \/ pc = "idle")

(* The queue and the batch are together the one queue of FunctorQueue.      *)
FQ == INSTANCE FunctorQueue WITH queue <- functors \o pendingFunctors_

(* Every callback runs once, one at a time, in the order queued.            *)
ImplementsQueue == FQ!Spec
=============================================================================
