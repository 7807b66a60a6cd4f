----------------------------- MODULE TimerQueue -----------------------------
(***************************************************************************)
(* The timers of muduo/net/TimerQueue.cc, Timer.h and TimerId.h.  All of   *)
(* them share one timerfd, armed for the earliest; Timer objects live on   *)
(* the heap and are known by raw pointers, so addresses are explicit and   *)
(* are used again once freed.  A TimerId is an address and a sequence      *)
(* number.  Other threads add and cancel through functors of the loop.     *)
(*                                                                         *)
(* Times are those of system_clock, which the code reads; the timerfd runs *)
(* on CLOCK_MONOTONIC.  The two go at the same pace until somebody sets    *)
(* the former, which moves the deadline with it.                           *)
(***************************************************************************)
EXTENDS Integers, Sequences, FiniteSets

CONSTANTS Threads,      \* threads other than the loop's
          Addrs,        \* addresses of Timer objects, ordered as numbers
          MinDelay,     \* the 100 microseconds of howMuchTimeFromNow()
          Delays,       \* delays asked for
          Intervals,    \* intervals asked for; 0: not repeating
          MaxTime,      \* bound: the clock
          MaxTimers,    \* bound: timers ever created
          MaxPending,   \* bound: functors waiting in the loop
          MaxClockSets  \* bound: times system_clock is set

ASSUME AddrsAssumption == Addrs \subseteq Nat
ASSUME MinDelayAssumption == MinDelay \in Nat \ {0}
ASSUME DelaysAssumption == Delays \subseteq Nat /\ Intervals \subseteq Nat
ASSUME BoundsAssumption ==
  {MaxTime, MaxTimers, MaxPending, MaxClockSets} \subseteq Nat

VARIABLES
  now,                    \* system_clock
  clockSets,              \* ghost: how often system_clock has been set
  heap,                   \* the Timer at each address, or Freed
  numCreated,             \* s_numCreated_
  timers_,                \* pairs <<expiration, address>>
  activeTimers_,          \* pairs <<address, sequence>>
  callingExpiredTimers_,
  cancelingTimers_,
  deadline,               \* of the timerfd, or Disarmed
  readable,               \* the timerfd has expired and was not read
  pc,                     \* "reported": epoll_wait() has told of the timerfd
  expired,                \* handleRead()'s batch
  toRun,                  \* the part of it that has not been run
  expiredAt,              \* handleRead()'s now
  pendingFunctors_,       \* addTimerInLoop and cancelInLoop, by other threads
  returning,              \* per thread: the timer whose id addTimer() owes
  ids,                    \* TimerIds handed out
  cancelled               \* ghost: sequences cancelled while the loop had them

setVars == <<timers_, activeTimers_>>
batchVars == <<callingExpiredTimers_, expired, toRun, expiredAt>>
vars == <<now, clockSets, heap, numCreated, setVars, cancelingTimers_,
          deadline, readable, pc, batchVars, pendingFunctors_, returning, ids,
          cancelled>>

Sequences_ == 1 .. MaxTimers
Freed == [sequence |-> 0, expiration |-> 0, interval |-> 0]
Disarmed == MaxTime + MaxTime + MinDelay + 1
NoTimer == <<0, 0>>
TimerIds == Addrs \X (0 .. MaxTimers)

TypeOK ==
  /\ now \in 0 .. MaxTime
  /\ clockSets \in 0 .. MaxClockSets
  /\ heap \in [Addrs -> [sequence : 0 .. MaxTimers, expiration : Nat,
                       interval : Nat]]
  /\ numCreated \in 0 .. MaxTimers
  /\ timers_ \in SUBSET (Nat \X Addrs)
  /\ activeTimers_ \in SUBSET (Addrs \X Sequences_)
  /\ callingExpiredTimers_ \in BOOLEAN
  /\ cancelingTimers_ \in SUBSET TimerIds
  /\ deadline \in Int
  /\ readable \in BOOLEAN
  /\ pc \in {"loop", "reported", "batch", "callback"}
  /\ expired \in SUBSET (Nat \X Addrs)
  /\ toRun \in SUBSET expired
  /\ expiredAt \in 0 .. MaxTime
  /\ returning \in [Threads -> TimerIds \cup {NoTimer}]
  /\ ids \in SUBSET TimerIds
  /\ cancelled \in SUBSET Sequences_

Init ==
  /\ now = 0 /\ clockSets = 0
  /\ heap = [a \in Addrs |-> Freed]
  /\ numCreated = 0
  /\ timers_ = {} /\ activeTimers_ = {}
  /\ callingExpiredTimers_ = FALSE
  /\ cancelingTimers_ = {}
  /\ deadline = Disarmed /\ readable = FALSE
  /\ pc = "loop"
  /\ expired = {} /\ toRun = {} /\ expiredAt = 0
  /\ pendingFunctors_ = <<>>
  /\ returning = [t \in Threads |-> NoTimer]
  /\ ids = {} /\ cancelled = {}

-----------------------------------------------------------------------------
(* The order of std::set<Entry>.                                            *)
Before(e, f) == e[1] < f[1] \/ (e[1] = f[1] /\ e[2] < f[2])

First(S) == CHOOSE e \in S : \A f \in S \ {e} : Before(e, f)

(* Mutation: a time that has passed gives a delay of zero.                  *)
HowMuchTimeFromNowOrZero(when) == IF when > now THEN when - now ELSE 0

HowMuchTimeFromNow(when) ==
  IF when > now + MinDelay THEN when - now ELSE MinDelay

(* resetTimerfd().  timerfd_settime() forgets an expiration that was not    *)
(* read, and disarms when it is given zero.                                 *)
ResetTimerfd(when) ==
  LET delay == HowMuchTimeFromNow(when) IN
  /\ deadline' = IF delay = 0 THEN Disarmed ELSE now + delay
  /\ readable' = FALSE

Allocated(a) == heap[a] # Freed

NewTimer(a, when, interval) ==
  /\ numCreated < MaxTimers
  /\ ~Allocated(a)
  /\ numCreated' = numCreated + 1
  /\ heap' = [heap EXCEPT ![a] = [sequence |-> numCreated + 1,
                                  expiration |-> when, interval |-> interval]]

(* The value of insert(): the timer comes before all the others.            *)
EarliestChanged(when) == timers_ = {} \/ when < First(timers_)[1]

(* addTimerInLoop() of the Timer with this address, sequence and time.      *)
AddTimerInLoop(a, seq, when) ==
  /\ timers_' = timers_ \cup {<<when, a>>}
  /\ activeTimers_' = activeTimers_ \cup {<<a, seq>>}
  /\ IF EarliestChanged(when) THEN ResetTimerfd(when)
     ELSE UNCHANGED <<deadline, readable>>

Seq_(e) == <<e[2], heap[e[2]].sequence>>      \* an Entry's ActiveTimer

(* Mutation: timers are looked up by address alone.                         *)
FindByAddress(id) == {at \in activeTimers_ : at[1] = id[1]}

(* Mutation: the timers of the present batch are found and deleted too.     *)
FindInBatch(id) ==
  {at \in activeTimers_ \cup {Seq_(e) : e \in expired} : at = id}

(* activeTimers_.find(timer).                                               *)
Find(id) == {at \in activeTimers_ : at = id}

(* For the ghost: the loop has the timer that is cancelled.                 *)
Known(id) == id \in activeTimers_ \/ \E e \in expired : Seq_(e) = id

(* cancelInLoop().                                                          *)
CancelInLoop(id) ==
  LET a == id[1] IN
  /\ cancelled' = IF Known(id) THEN cancelled \cup {id[2]} ELSE cancelled
  /\ IF Find(id) # {}
     THEN /\ timers_' = timers_ \ {<<heap[a].expiration, a>>}
          /\ heap' = [heap EXCEPT ![a] = Freed]
          /\ activeTimers_' = activeTimers_ \ Find(id)
          /\ UNCHANGED cancelingTimers_
     ELSE /\ cancelingTimers_' = IF callingExpiredTimers_
                                 THEN cancelingTimers_ \cup {id}
                                 ELSE cancelingTimers_
          /\ UNCHANGED <<setVars, heap>>

-----------------------------------------------------------------------------
(* Callbacks in the loop's thread: of timers, and of anything else the loop *)
(* runs while it is outside handleRead().                                   *)
InUserCode == pc \in {"loop", "reported", "callback"}

(* runAt(), runAfter() and runEvery() in the loop's thread.                 *)
AddTimer(a, delay, interval) ==
  /\ InUserCode
  /\ NewTimer(a, now + delay, interval)
  /\ AddTimerInLoop(a, numCreated + 1, now + delay)
  /\ ids' = ids \cup {<<a, numCreated + 1>>}
  /\ UNCHANGED <<now, clockSets, cancelingTimers_, pc, batchVars,
                 pendingFunctors_, returning, cancelled>>

Cancel(id) ==
  /\ InUserCode
  /\ CancelInLoop(id)
  /\ UNCHANGED <<now, clockSets, numCreated, deadline, readable, pc, batchVars,
                 pendingFunctors_, returning, ids>>

(* addTimer() in another thread: new Timer, and addTimerInLoop() queued.    *)
AddTimerFrom(t, a, delay, interval) ==
  /\ returning[t] = NoTimer
  /\ Len(pendingFunctors_) < MaxPending
  /\ NewTimer(a, now + delay, interval)
  /\ pendingFunctors_' = Append(pendingFunctors_,
                                [op |-> "add", id |-> <<a, numCreated + 1>>])
  /\ returning' = [returning EXCEPT ![t] = <<a, numCreated + 1>>]
  /\ UNCHANGED <<now, clockSets, setVars, cancelingTimers_, deadline,
                 readable, pc, batchVars, ids, cancelled>>

(* Line 129: timer->sequence() is read only now.  The Timer may be another  *)
(* one, or none, and then anything is read.                                 *)
ReturnTimerId(t) ==
  LET a == returning[t][1] IN
  /\ returning[t] # NoTimer
  /\ \E s \in 0 .. MaxTimers :
       /\ Allocated(a) => s = heap[a].sequence
       /\ ids' = ids \cup {<<a, s>>}
  /\ returning' = [returning EXCEPT ![t] = NoTimer]
  /\ UNCHANGED <<now, clockSets, heap, numCreated, setVars, cancelingTimers_,
                 deadline, readable, pc, batchVars, pendingFunctors_,
                 cancelled>>

CancelFrom(t, id) ==
  /\ returning[t] = NoTimer
  /\ Len(pendingFunctors_) < MaxPending
  /\ pendingFunctors_' = Append(pendingFunctors_, [op |-> "cancel", id |-> id])
  /\ UNCHANGED <<now, clockSets, heap, numCreated, setVars, cancelingTimers_,
                 deadline, readable, pc, batchVars, returning, ids,
                 cancelled>>

(* doPendingFunctors() comes to the oldest functor.                         *)
RunFunctor ==
  /\ pc = "loop"
  /\ pendingFunctors_ # <<>>
  /\ pendingFunctors_' = Tail(pendingFunctors_)
  /\ LET f == Head(pendingFunctors_) IN
     \/ /\ f.op = "add"
        /\ AddTimerInLoop(f.id[1], f.id[2], heap[f.id[1]].expiration)
        /\ UNCHANGED <<heap, cancelingTimers_, cancelled>>
     \/ /\ f.op = "cancel"
        /\ CancelInLoop(f.id)
        /\ UNCHANGED <<deadline, readable>>
  /\ UNCHANGED <<now, clockSets, numCreated, pc, batchVars, returning, ids>>

-----------------------------------------------------------------------------
Due == {e \in timers_ : e[1] <= now}

(* Mutation: getExpired() leaves the batch in activeTimers_.                *)
GetExpiredActive ==
  /\ expired' = Due
  /\ timers_' = timers_ \ Due
  /\ UNCHANGED activeTimers_

(* getExpired(): what is due leaves both sets.                              *)
GetExpired ==
  /\ expired' = Due
  /\ timers_' = timers_ \ Due
  /\ activeTimers_' = activeTimers_ \ {Seq_(e) : e \in Due}

(* epoll_wait() returns the timerfd's channel; the handlers of others that  *)
(* it returned may come first.                                              *)
Poll ==
  /\ pc = "loop"
  /\ readable
  /\ pc' = "reported"
  /\ UNCHANGED <<now, clockSets, heap, numCreated, setVars, cancelingTimers_,
                 deadline, readable, batchVars, pendingFunctors_, returning,
                 ids, cancelled>>

(* handleRead() up to its first callback.  If the timerfd was armed again   *)
(* since it was reported, the read fails, which is only logged.             *)
HandleRead ==
  /\ pc = "reported"
  /\ readable' = FALSE
  /\ expiredAt' = now
  /\ GetExpired
  /\ toRun' = expired'
  /\ callingExpiredTimers_' = TRUE
  /\ cancelingTimers_' = {}
  /\ pc' = "batch"
  /\ UNCHANGED <<now, clockSets, heap, numCreated, deadline, pendingFunctors_,
                 returning, ids, cancelled>>

RunTimer ==
  /\ pc = "batch"
  /\ toRun # {}
  /\ toRun' = toRun \ {First(toRun)}
  /\ pc' = "callback"
  /\ UNCHANGED <<now, clockSets, heap, numCreated, setVars, cancelingTimers_,
                 deadline, readable, callingExpiredTimers_, expired,
                 expiredAt, pendingFunctors_, returning, ids, cancelled>>

CallbackReturn ==
  /\ pc = "callback"
  /\ pc' = "batch"
  /\ UNCHANGED <<now, clockSets, heap, numCreated, setVars, cancelingTimers_,
                 deadline, readable, batchVars, pendingFunctors_, returning,
                 ids, cancelled>>

(* Mutation: reset() forgets cancelingTimers_.                              *)
RestartsAlways(e) == heap[e[2]].interval > 0

(* Line 233.                                                                *)
Restarts(e) == heap[e[2]].interval > 0 /\ Seq_(e) \notin cancelingTimers_

(* Timer::restart(now) of a repeating timer, now being handleRead()'s.      *)
Restarted(timer) == [timer EXCEPT !.expiration = expiredAt + timer.interval]

(* Every timer of the batch has been run.                                   *)
BatchDone == pc = "batch" /\ toRun = {}

(* The end of handleRead(): reset() restarts a timer or deletes it, and     *)
(* arms the timerfd after each of them.                                     *)
Reset ==
  /\ BatchDone
  /\ LET again == {e \in expired : Restarts(e)}
         Addresses(E) == {e[2] : e \in E}
     IN /\ heap' = [a \in Addrs |->
              CASE a \in Addresses(again) -> Restarted(heap[a])
                [] a \in Addresses(expired \ again) -> Freed
                [] OTHER -> heap[a]]
        /\ timers_' = timers_ \cup
             {<<Restarted(heap[e[2]]).expiration, e[2]>> : e \in again}
        /\ activeTimers_' = activeTimers_ \cup {Seq_(e) : e \in again}
  /\ IF expired # {} /\ timers_' # {} THEN ResetTimerfd(First(timers_')[1])
     ELSE UNCHANGED <<deadline, readable>>
  /\ callingExpiredTimers_' = FALSE
  /\ expired' = {}
  /\ pc' = "loop"
  /\ UNCHANGED <<now, clockSets, numCreated, cancelingTimers_, toRun,
                 expiredAt, pendingFunctors_, returning, ids, cancelled>>

(* Time passes, for both clocks.                                            *)
Tick ==
  /\ now < MaxTime
  /\ now' = now + 1
  /\ IF deadline <= now'
     THEN readable' = TRUE /\ deadline' = Disarmed
     ELSE UNCHANGED <<readable, deadline>>
  /\ UNCHANGED <<clockSets, heap, numCreated, setVars, cancelingTimers_, pc,
                 batchVars, pendingFunctors_, returning, ids, cancelled>>

(* system_clock is set, by the administrator or by NTP: the timerfd goes    *)
(* off as long from now as before.  A tick back is also what the truncation *)
(* of line 38 can do: the timerfd goes off with nothing due.                *)
SetClock(time) ==
  /\ clockSets < MaxClockSets
  /\ time # now
  /\ now' = time
  /\ deadline' = IF deadline = Disarmed THEN Disarmed
                 ELSE time + (deadline - now)
  /\ clockSets' = clockSets + 1
  /\ UNCHANGED <<heap, numCreated, setVars, cancelingTimers_, readable, pc,
                 batchVars, pendingFunctors_, returning, ids, cancelled>>

Next ==
  \/ \E a \in Addrs, d \in Delays, i \in Intervals :
       AddTimer(a, d, i) \/ \E t \in Threads : AddTimerFrom(t, a, d, i)
  \/ \E id \in ids : Cancel(id) \/ \E t \in Threads : CancelFrom(t, id)
  \/ \E t \in Threads : ReturnTimerId(t)
  \/ RunFunctor \/ Poll \/ HandleRead \/ RunTimer \/ CallbackReturn \/ Reset
  \/ Tick \/ \E time \in 0 .. MaxTime : SetClock(time)

Spec == Init /\ [][Next]_vars
-----------------------------------------------------------------------------
(* timers_ and activeTimers_ hold the same timers (the assertions of lines  *)
(* 153, 161, 170, 198, 214, 218 and 259), each still allocated and filed    *)
(* under its own expiration.                                                *)
SetsAgree ==
  /\ TypeOK
  /\ activeTimers_ = {Seq_(e) : e \in timers_}
  /\ Cardinality(timers_) = Cardinality(activeTimers_)
  /\ \A e \in timers_ : Allocated(e[2]) /\ heap[e[2]].expiration = e[1]

(* Whatever a batch's callbacks add and cancel, the Timers of the batch     *)
(* stay allocated and out of timers_ until reset() has seen them: reset()   *)
(* follows raw pointers (lines 229-242).                                    *)
BatchStaysAllocated ==
  \A e \in expired :
    /\ Allocated(e[2]) /\ heap[e[2]].expiration = e[1]
    /\ \A f \in timers_ : f[2] # e[2]

(* cancel() of a timer the loop has is for good: it is in no later batch,   *)
(* also when it was cancelled while it ran and is periodic (lines 166-169,  *)
(* 233).  A cancel() in the loop's thread that overtakes the functor of     *)
(* addTimer() in another finds no timer and is forgotten: it is excepted.   *)
CancelledIsGone ==
  \A e \in timers_ : heap[e[2]].sequence \notin cancelled

(* A TimerId cancels only its own timer, even when the address has been     *)
(* used again since (TimerId is opaque; lines 155-157): Timers are deleted  *)
(* by their own cancel() or by the reset() of the batch they were in.       *)
DeletesOnlyItsOwn ==
  [][\A a \in Addrs :
       Allocated(a) /\ heap'[a].sequence # heap[a].sequence
         => \/ heap[a].sequence \in cancelled'
            \/ \E e \in expired : e[2] = a]_vars

Later(a, b) == IF a > b THEN a ELSE b

(* While timers wait, the timerfd is going to fire for the earliest.        *)
AlarmSet ==
  pc = "loop" /\ timers_ # {} =>
    \/ readable
    \/ deadline <= Later(First(timers_)[1], now + MinDelay)

(* As long as nobody cancels a timer and nobody sets the clock, no waiting  *)
(* timer is forgotten (lines 144-147 and 244-252).  Both can make the       *)
(* timerfd go off with nothing due, and then nothing arms it again.         *)
AlarmSetUnlessCancelled == cancelled = {} /\ clockSets = 0 => AlarmSet
=============================================================================
