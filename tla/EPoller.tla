------------------------------ MODULE EPoller ------------------------------
(***************************************************************************)
(* Channel (muduo/net/Channel.cc) and EPoller (muduo/net/EPoller.cc) with  *)
(* the part of EventLoop::loop() that drives them.  The state of a channel *)
(* is spread over three places: the Channel object (events_, index_), the  *)
(* map channels_ of the EPoller and the kernel's epoll set, whose entries  *)
(* carry a raw Channel pointer.  Handlers run in the middle of a batch of  *)
(* reported channels and may change all three.                             *)
(*                                                                         *)
(* The clients follow the calling rules that the code states as assertions *)
(* (Channel.cc 31-32, 110, EventLoop.cc 216-217): a channel is removed     *)
(* before its owner lets go of it and not touched afterwards, and a        *)
(* handler does not remove the other channels of its batch.                *)
(***************************************************************************)
EXTENDS Naturals, Sequences, FiniteSets, Channel

CONSTANTS Channels,            \* Channel objects
          Fds,
          FdOf,                \* the descriptor of each channel (fd_)
          Tied,                \* channels with tie(): owned by a shared_ptr
          NoChannel,
          Raised,              \* <<fd, condition>>: what comes up where
          kInitEventListSize

ASSUME FdOfAssumption == FdOf \in [Channels -> Fds]
ASSUME TiedAssumption == Tied \subseteq Channels
ASSUME RaisedAssumption == Raised \subseteq Fds \X Conditions
ASSUME NoChannelAssumption == NoChannel \notin Channels
ASSUME SizeAssumption == kInitEventListSize \in Nat \ {0}

VARIABLES
  alive,            \* channels constructed and not destructed
  owned,            \* channels whose owner is still referred to
  events_,          \* interest of each channel
  revents_,         \* what epoll_wait reported for it
  index_,
  addedToLoop_,
  channels_,        \* EPoller's map from descriptors to channels
  interest,         \* kernel: the events of each registered descriptor
  ptr,              \* kernel: data.ptr of it, NoChannel: not registered
  condition,        \* kernel: what holds of each descriptor's file
  listSize,         \* events_.size() of the EPoller
  pc,
  activeChannels_,
  todo,             \* the part of activeChannels_ not yet handled
  current,          \* currentActiveChannel_
  calls             \* callbacks its handleEvent() has still to make

chanVars == <<alive, owned, events_, revents_, index_, addedToLoop_>>
pollVars == <<channels_, listSize>>
kernelVars == <<interest, ptr, condition>>
loopVars == <<pc, activeChannels_, todo, current, calls>>
vars == <<chanVars, pollVars, kernelVars, loopVars>>

Indexes == {"kNew", "kAdded", "kDeleted"}

TypeOK ==
  /\ alive \in SUBSET Channels
  /\ owned \in SUBSET Channels
  /\ events_ \in [Channels -> SUBSET Interests]
  /\ revents_ \in [Channels -> SUBSET Conditions]
  /\ index_ \in [Channels -> Indexes]
  /\ addedToLoop_ \in [Channels -> BOOLEAN]
  /\ channels_ \in [Fds -> Channels \cup {NoChannel}]
  /\ interest \in [Fds -> SUBSET Interests]
  /\ ptr \in [Fds -> Channels \cup {NoChannel}]
  /\ condition \in [Fds -> SUBSET Conditions]
  /\ listSize \in Nat \ {0}
  /\ pc \in {"poll", "dispatch", "functors"}
  /\ activeChannels_ \in SUBSET Channels
  /\ todo \in SUBSET activeChannels_
  /\ current \in Channels \cup {NoChannel}
  /\ calls \in Seq(Callbacks)

Init ==
  /\ alive = {} /\ owned = {}
  /\ events_ = [c \in Channels |-> {}]
  /\ revents_ = [c \in Channels |-> {}]
  /\ index_ = [c \in Channels |-> "kNew"]
  /\ addedToLoop_ = [c \in Channels |-> FALSE]
  /\ channels_ = [fd \in Fds |-> NoChannel]
  /\ interest = [fd \in Fds |-> {}]
  /\ ptr = [fd \in Fds |-> NoChannel]
  /\ condition = [fd \in Fds |-> {}]
  /\ listSize = kInitEventListSize
  /\ pc = "functors"
  /\ activeChannels_ = {} /\ todo = {} /\ current = NoChannel /\ calls = <<>>

-----------------------------------------------------------------------------
(* Code outside the EPoller runs inside a callback, in doPendingFunctors()  *)
(* and before loop().                                                       *)
InUserCode == pc = "functors" \/ current # NoChannel

(* A descriptor is opened and a Channel made for it; the kernel gives out   *)
(* numbers that are not in use.  Channel::Channel() sets every field.       *)
Create(c) ==
  /\ InUserCode
  /\ c \notin alive
  /\ \A d \in alive : FdOf[d] # FdOf[c]
  /\ alive' = alive \cup {c}
  /\ owned' = owned \cup {c}
  /\ events_' = [events_ EXCEPT ![c] = {}]
  /\ revents_' = [revents_ EXCEPT ![c] = {}]
  /\ index_' = [index_ EXCEPT ![c] = "kNew"]
  /\ addedToLoop_' = [addedToLoop_ EXCEPT ![c] = FALSE]
  /\ condition' = [condition EXCEPT ![FdOf[c]] = {}]
  /\ UNCHANGED <<interest, ptr, pollVars, loopVars>>

(* epoll_ctl(2).  ADD of a registered descriptor and MOD or DEL of an       *)
(* unregistered one fail, which update() only logs.                         *)
EpollCtl(op, c, ev) ==
  LET fd == FdOf[c]
      fails == (op = "ADD") # (ptr[fd] = NoChannel)
      del == op = "DEL"
  IN /\ ptr' = IF fails THEN ptr
               ELSE [ptr EXCEPT ![fd] = IF del THEN NoChannel ELSE c]
     /\ interest' = IF fails THEN interest
                    ELSE [interest EXCEPT ![fd] = IF del THEN {} ELSE ev]

(* Mutation: an index of kDeleted is taken to be still registered.          *)
UpdataChannelMod(c, ev) ==
  /\ channels_' = IF index_[c] = "kNew" THEN [channels_ EXCEPT ![FdOf[c]] = c]
                  ELSE channels_
  /\ \/ /\ index_[c] = "kNew"
        /\ index_' = [index_ EXCEPT ![c] = "kAdded"]
        /\ EpollCtl("ADD", c, ev)
     \/ /\ index_[c] # "kNew" /\ ev = {}
        /\ index_' = [index_ EXCEPT ![c] = "kDeleted"]
        /\ EpollCtl("DEL", c, ev)
     \/ /\ index_[c] # "kNew" /\ ev # {}
        /\ index_' = [index_ EXCEPT ![c] = "kAdded"]
        /\ EpollCtl("MOD", c, ev)

(* EPoller::updataChannel() of a channel whose events() are now ev.         *)
UpdataChannel(c, ev) ==
  /\ channels_' = IF index_[c] = "kNew" THEN [channels_ EXCEPT ![FdOf[c]] = c]
                  ELSE channels_
  /\ \/ /\ index_[c] \in {"kNew", "kDeleted"}
        /\ index_' = [index_ EXCEPT ![c] = "kAdded"]
        /\ EpollCtl("ADD", c, ev)
     \/ /\ index_[c] = "kAdded" /\ ev = {}
        /\ index_' = [index_ EXCEPT ![c] = "kDeleted"]
        /\ EpollCtl("DEL", c, ev)
     \/ /\ index_[c] = "kAdded" /\ ev # {}
        /\ index_' = index_
        /\ EpollCtl("MOD", c, ev)

(* enableReading(), disableReading(), enableWriting(), disableWriting() and *)
(* disableAll(): the new interest, then update().                           *)
SetInterest(c, ev) ==
  /\ InUserCode
  /\ c \in owned
  /\ events_' = [events_ EXCEPT ![c] = ev]
  /\ addedToLoop_' = [addedToLoop_ EXCEPT ![c] = TRUE]
  /\ UpdataChannel(c, ev)
  /\ UNCHANGED <<alive, owned, revents_, condition, listSize, loopVars>>

Enable(c, e) == SetInterest(c, events_[c] \cup {e})
Disable(c, e) == SetInterest(c, events_[c] \ {e})
DisableAll(c) == SetInterest(c, {})

(* Channel::remove() through EventLoop::removeChannel().                    *)
Remove(c) ==
  /\ InUserCode
  /\ c \in alive /\ addedToLoop_[c] /\ events_[c] = {}
  /\ current # NoChannel => c = current \/ c \notin activeChannels_
  /\ addedToLoop_' = [addedToLoop_ EXCEPT ![c] = FALSE]
  /\ channels_' = [channels_ EXCEPT ![FdOf[c]] = NoChannel]
  /\ IF index_[c] = "kAdded" THEN EpollCtl("DEL", c, {})
     ELSE UNCHANGED <<interest, ptr>>
  /\ index_' = [index_ EXCEPT ![c] = "kNew"]
  /\ UNCHANGED <<alive, owned, events_, revents_, condition, listSize, loopVars>>

-----------------------------------------------------------------------------
(* ~Channel() and close() of its descriptor, which leaves the epoll set.    *)
Destruct(c) ==
  /\ alive' = alive \ {c}
  /\ ptr' = [ptr EXCEPT ![FdOf[c]] = NoChannel]
  /\ interest' = [interest EXCEPT ![FdOf[c]] = {}]
  /\ condition' = [condition EXCEPT ![FdOf[c]] = {}]

(* Mutation: no guard is taken, the owner dies under its own callback.      *)
ReleaseUnguarded(c) ==
  /\ InUserCode
  /\ c \in owned /\ ~addedToLoop_[c]
  /\ c = current => c \in Tied
  /\ owned' = owned \ {c}
  /\ Destruct(c)
  /\ UNCHANGED <<events_, revents_, index_, addedToLoop_, pollVars, loopVars>>

(* The last reference to the owner goes.  During handleEvent() of a tied    *)
(* channel the guard is one more reference.                                 *)
Release(c) ==
  /\ InUserCode
  /\ c \in owned /\ ~addedToLoop_[c]
  /\ c = current => c \in Tied
  /\ owned' = owned \ {c}
  /\ IF c = current THEN UNCHANGED <<alive, kernelVars>> ELSE Destruct(c)
  /\ UNCHANGED <<events_, revents_, index_, addedToLoop_, pollVars, loopVars>>

-----------------------------------------------------------------------------
(* The kernel: the file behind a descriptor changes.                        *)
Raise(fd, e) ==
  /\ e \notin condition[fd]
  /\ \E c \in alive : FdOf[c] = fd
  /\ condition' = [condition EXCEPT ![fd] = @ \cup {e}]
  /\ UNCHANGED <<chanVars, pollVars, interest, ptr, loopVars>>

(* User code reads or writes until EAGAIN.                                  *)
Exhaust(c, e) ==
  /\ InUserCode
  /\ c \in alive
  /\ e \in condition[FdOf[c]] \cap Interests
  /\ condition' = [condition EXCEPT ![FdOf[c]] = @ \ {e}]
  /\ UNCHANGED <<chanVars, pollVars, interest, ptr, loopVars>>

(* HUP and ERR are reported whatever the interest is.                       *)
Report(fd) == condition[fd] \cap (interest[fd] \cup {"HUP", "ERR"})

Reportable == {fd \in Fds : ptr[fd] # NoChannel /\ Report(fd) # {}}

Least(a, b) == IF a < b THEN a ELSE b

(* Mutation: the event list keeps its size.                                 *)
ResizedNever(n) == listSize

(* Lines 49-52.                                                             *)
Resized(n) == IF n = listSize THEN 2 * listSize ELSE listSize

(* EPoller::epoll() with something to report: the kernel fills the list,    *)
(* choosing when it is too small; fillActiveChannels().                     *)
Poll ==
  /\ pc = "poll"
  /\ Reportable # {}
  /\ \E fds \in SUBSET Reportable :
       /\ Cardinality(fds) = Least(Cardinality(Reportable), listSize)
       /\ activeChannels_' = {ptr[fd] : fd \in fds}
       /\ revents_' = [c \in Channels |->
                         IF \E fd \in fds : ptr[fd] = c
                         THEN Report(CHOOSE fd \in fds : ptr[fd] = c)
                         ELSE revents_[c]]
       /\ listSize' = Resized(Cardinality(fds))
  /\ todo' = activeChannels_'
  /\ pc' = "dispatch"
  /\ UNCHANGED <<alive, owned, events_, index_, addedToLoop_, channels_,
                 kernelVars, current, calls>>

(* The timeout, or EINTR.                                                   *)
PollNothing ==
  /\ pc = "poll"
  /\ Reportable = {}
  /\ pc' = "dispatch"
  /\ activeChannels_' = {}
  /\ todo' = {}
  /\ UNCHANGED <<chanVars, pollVars, kernelVars, current, calls>>

(* handleEvent() up to its first callback; an owner that is gone is not     *)
(* called.                                                                  *)
HandleEvent(c) ==
  /\ pc = "dispatch" /\ current = NoChannel
  /\ c \in todo
  /\ todo' = todo \ {c}
  /\ IF c \in Tied /\ c \notin owned THEN UNCHANGED <<current, calls>>
     ELSE current' = c /\ calls' = CallbacksFor(revents_[c])
  /\ UNCHANGED <<chanVars, pollVars, kernelVars, pc, activeChannels_>>

(* A callback returns; after the last one so does handleEvent(), and drops  *)
(* the guard.                                                               *)
CallbackReturn ==
  /\ current # NoChannel /\ Len(calls) > 1
  /\ calls' = Tail(calls)
  /\ UNCHANGED <<chanVars, pollVars, kernelVars, pc, activeChannels_, todo, current>>

HandleReturn ==
  /\ current # NoChannel /\ Len(calls) <= 1
  /\ calls' = <<>>
  /\ current' = NoChannel
  /\ IF current \notin owned THEN Destruct(current)
     ELSE UNCHANGED <<alive, kernelVars>>
  /\ UNCHANGED <<owned, events_, revents_, index_, addedToLoop_, pollVars,
                 pc, activeChannels_, todo>>

DispatchDone ==
  /\ pc = "dispatch" /\ current = NoChannel /\ todo = {}
  /\ pc' = "functors"
  /\ UNCHANGED <<chanVars, pollVars, kernelVars, activeChannels_, todo, current, calls>>

(* doPendingFunctors() is over; activeChannels_.clear().                    *)
FunctorsDone ==
  /\ pc = "functors"
  /\ pc' = "poll"
  /\ activeChannels_' = {}
  /\ UNCHANGED <<chanVars, pollVars, kernelVars, todo, current, calls>>

UserStep(c) ==
  \/ Create(c)
  \/ \E e \in Interests : Enable(c, e) \/ Disable(c, e) \/ Exhaust(c, e)
  \/ DisableAll(c)
  \/ Remove(c)
  \/ Release(c)

LoopStep ==
  \/ Poll \/ (\E c \in Channels : HandleEvent(c)) \/ CallbackReturn
  \/ HandleReturn \/ DispatchDone \/ FunctorsDone

Next ==
  \/ LoopStep
  \/ PollNothing
  \/ \E c \in Channels : UserStep(c)
  \/ \E r \in Raised : Raise(r[1], r[2])

Spec == Init /\ [][Next]_vars

(* Callbacks and functors return and the loop's thread is scheduled.        *)
FairSpec == Spec /\ WF_vars(LoopStep)
-----------------------------------------------------------------------------
(* The three records of a registration agree: index_ says whether the       *)
(* kernel knows the channel, the kernel has the channel's present interest, *)
(* and channels_ holds what is not kNew (the assertions of EPoller.cc 85,   *)
(* 90-91, 103-105 and 125-129).                                             *)
RecordsAgree ==
  /\ TypeOK
  /\ \A c \in alive :
       /\ index_[c] = "kAdded" <=> ptr[FdOf[c]] = c
       /\ index_[c] = "kAdded" => interest[FdOf[c]] = events_[c]
       /\ index_[c] # "kNew" <=> channels_[FdOf[c]] = c
       /\ addedToLoop_[c] <=> index_[c] # "kNew"

(* No raw pointer dangles: those in the kernel, in channels_, in the rest   *)
(* of the batch and in currentActiveChannel_ are to living channels, and    *)
(* the batch holds only channels the EPoller still has (EventLoop.cc        *)
(* 214-218), whatever the handlers before them did.                         *)
NoDanglingChannel ==
  /\ \A fd \in Fds : {ptr[fd], channels_[fd]} \subseteq alive \cup {NoChannel}
  /\ \A c \in todo : c \in alive /\ channels_[FdOf[c]] = c
  /\ current \in alive \cup {NoChannel}

(* A channel for which the kernel has something to report gets its          *)
(* handleEvent(), even when more channels are ready than the event list     *)
(* first holds: the list grows (lines 49-52).                               *)
ReadyIsHandled ==
  \A c \in Channels :
    (FdOf[c] \in Reportable /\ ptr[FdOf[c]] = c)
      ~> (current = c \/ FdOf[c] \notin Reportable \/ ptr[FdOf[c]] # c)
=============================================================================
