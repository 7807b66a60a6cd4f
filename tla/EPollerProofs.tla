--------------------------- MODULE EPollerProofs ---------------------------
(***************************************************************************)
(* Proofs about EPoller and Channel for any number of channels and         *)
(* descriptors and any size of the event list: the three records of a      *)
(* registration agree, and no raw Channel pointer dangles.                 *)
(***************************************************************************)
EXTENDS EPoller, TLAPS

(* Living channels have descriptors of their own.                           *)
DistinctInv == \A c, d \in alive : FdOf[c] = FdOf[d] => c = d

(* The kernel and the map file a living channel under its own descriptor.   *)
FiledInv ==
  \A fd \in Fds :
    /\ ptr[fd] # NoChannel => ptr[fd] \in alive /\ FdOf[ptr[fd]] = fd
    /\ channels_[fd] # NoChannel =>
         channels_[fd] \in alive /\ FdOf[channels_[fd]] = fd

RecordOf(c) ==
  /\ index_[c] = "kAdded" <=> ptr[FdOf[c]] = c
  /\ index_[c] = "kAdded" => interest[FdOf[c]] = events_[c]
  /\ index_[c] # "kNew" <=> channels_[FdOf[c]] = c
  /\ addedToLoop_[c] <=> index_[c] # "kNew"

RecordsInv == \A c \in alive : RecordOf(c)

(* Only handleEvent()'s guard keeps a channel that has no owner, and it has *)
(* been removed.                                                            *)
OwnersInv ==
  /\ owned \subseteq alive
  /\ \A c \in alive \ owned : c = current /\ ~addedToLoop_[c]
  /\ current \in alive \cup {NoChannel}

(* The rest of the batch is in the map.                                     *)
BatchInv ==
  /\ \A c \in todo : c \in alive /\ channels_[FdOf[c]] = c /\ c # current
  /\ pc # "dispatch" => todo = {} /\ current = NoChannel

IInv ==
  /\ TypeOK /\ DistinctInv /\ FiledInv /\ RecordsInv /\ OwnersInv /\ BatchInv

-----------------------------------------------------------------------------
(* epoll_ctl(): ADD of a descriptor that is not registered succeeds.        *)
LEMMA EpollAdd ==
  ASSUME NEW c, NEW ev, EpollCtl("ADD", c, ev), ptr[FdOf[c]] = NoChannel
  PROVE /\ ptr' = [ptr EXCEPT ![FdOf[c]] = c]
        /\ interest' = [interest EXCEPT ![FdOf[c]] = ev]
BY DEF EpollCtl

(* MOD of one that is registered succeeds.                                  *)
LEMMA EpollMod ==
  ASSUME NEW c, NEW ev, EpollCtl("MOD", c, ev), ptr[FdOf[c]] # NoChannel
  PROVE /\ ptr' = [ptr EXCEPT ![FdOf[c]] = c]
        /\ interest' = [interest EXCEPT ![FdOf[c]] = ev]
BY DEF EpollCtl

(* DEL of one that is registered succeeds.                                  *)
LEMMA EpollDel ==
  ASSUME NEW c, NEW ev, EpollCtl("DEL", c, ev), ptr[FdOf[c]] # NoChannel
  PROVE /\ ptr' = [ptr EXCEPT ![FdOf[c]] = NoChannel]
        /\ interest' = [interest EXCEPT ![FdOf[c]] = {}]
BY DEF EpollCtl

(* handleEventWithGuard() makes at most four callbacks.                     *)
LEMMA CallbacksType ==
  ASSUME NEW re
  PROVE CallbacksFor(re) \in Seq(Callbacks)
<1> DEFINE When(due, cb) == IF due THEN <<cb>> ELSE <<>>
<1>1. CallbacksFor(re) = When("HUP" \in re /\ "IN" \notin re, "close")
                           \o When("ERR" \in re, "error")
                           \o When(re \cap {"IN", "HUP"} # {}, "read")
                           \o When("OUT" \in re, "write")
  BY DEF CallbacksFor
<1>2. /\ When("HUP" \in re /\ "IN" \notin re, "close") \in Seq(Callbacks)
      /\ When("ERR" \in re, "error") \in Seq(Callbacks)
      /\ When(re \cap {"IN", "HUP"} # {}, "read") \in Seq(Callbacks)
      /\ When("OUT" \in re, "write") \in Seq(Callbacks)
  <2>1. /\ <<"close">> \in Seq(Callbacks) /\ <<"error">> \in Seq(Callbacks)
        /\ <<"read">> \in Seq(Callbacks) /\ <<"write">> \in Seq(Callbacks)
        /\ <<>> \in Seq(Callbacks)
    BY DEF Callbacks
  <2> QED
    BY <2>1, Zenon
<1> HIDE DEF When
<1> QED
  BY <1>1, <1>2

-----------------------------------------------------------------------------
(* Making a channel keeps the invariant.                                    *)
LEMMA CreateStep ==
  ASSUME IInv, NEW c \in Channels, Create(c)
  PROVE IInv'
<1> USE FdOfAssumption, NoChannelAssumption
<1>1. /\ c \notin alive /\ c # current
      /\ \A d \in alive : FdOf[d] # FdOf[c]
      /\ alive' = alive \cup {c} /\ owned' = owned \cup {c}
      /\ UNCHANGED <<interest, ptr, channels_, listSize, loopVars>>
  BY DEF Create, IInv, OwnersInv, pollVars
<1>2. FdOf[c] \in Fds /\ ptr[FdOf[c]] # c /\ channels_[FdOf[c]] # c
  BY <1>1 DEF IInv, FiledInv, TypeOK
<1>3. TypeOK'
  BY <1>1 DEF IInv, TypeOK, Create, Indexes, loopVars
<1>4. DistinctInv'
  BY <1>1 DEF IInv, DistinctInv
<1>5. FiledInv'
  BY <1>1 DEF IInv, FiledInv
<1>6. RecordsInv'
  <2>1. RecordOf(c)'
    BY <1>1, <1>2 DEF IInv, TypeOK, Create, RecordOf
  <2>2. ASSUME NEW d \in alive PROVE RecordOf(d)'
    BY <1>1, <2>2 DEF IInv, TypeOK, RecordsInv, Create, RecordOf
  <2> QED
    BY <1>1, <2>1, <2>2 DEF RecordsInv
<1>7. OwnersInv'
  <2>1. \A d \in alive : addedToLoop_'[d] = addedToLoop_[d]
    BY <1>1 DEF IInv, TypeOK, Create
  <2> QED
    BY <1>1, <2>1 DEF IInv, OwnersInv, loopVars
<1>8. BatchInv'
  BY <1>1 DEF IInv, BatchInv, loopVars
<1> QED
  BY <1>3, <1>4, <1>5, <1>6, <1>7, <1>8 DEF IInv

(* updataChannel(): afterwards the kernel has the channel exactly if it has *)
(* an interest or was not registered, and with the interest it asked for.   *)
LEMMA UpdataChannelEffect ==
  ASSUME IInv, NEW c \in owned, NEW ev \in SUBSET Interests,
         UpdataChannel(c, ev)
  PROVE LET fd == FdOf[c] IN
        /\ channels_' = [channels_ EXCEPT ![fd] = c]
        /\ \/ /\ index_' = [index_ EXCEPT ![c] = "kAdded"]
              /\ ptr' = [ptr EXCEPT ![fd] = c]
              /\ interest' = [interest EXCEPT ![fd] = ev]
           \/ /\ index_' = [index_ EXCEPT ![c] = "kDeleted"]
              /\ ptr' = [ptr EXCEPT ![fd] = NoChannel]
              /\ interest' = [interest EXCEPT ![fd] = {}]
<1> USE FdOfAssumption, NoChannelAssumption
<1>1. /\ c \in alive /\ c \in Channels /\ c # NoChannel /\ FdOf[c] \in Fds
      /\ RecordOf(c)
  BY DEF IInv, OwnersInv, RecordsInv, TypeOK
<1>2. channels_' = [channels_ EXCEPT ![FdOf[c]] = c]
  <2>1. CASE index_[c] = "kNew"
    BY <2>1 DEF UpdataChannel
  <2>2. CASE index_[c] # "kNew"
    BY <2>2, <1>1 DEF UpdataChannel, RecordOf, IInv, TypeOK
  <2> QED
    BY <2>1, <2>2
<1>3. CASE /\ index_[c] \in {"kNew", "kDeleted"}
           /\ index_' = [index_ EXCEPT ![c] = "kAdded"]
           /\ EpollCtl("ADD", c, ev)
  <2>1. ptr[FdOf[c]] = NoChannel
    BY <1>1, <1>3 DEF IInv, FiledInv, DistinctInv, RecordOf
  <2> QED
    BY <1>2, <1>3, <2>1, EpollAdd
<1>4. CASE /\ index_[c] = "kAdded" /\ ev = {}
           /\ index_' = [index_ EXCEPT ![c] = "kDeleted"]
           /\ EpollCtl("DEL", c, ev)
  <2>1. ptr[FdOf[c]] # NoChannel
    BY <1>1, <1>4 DEF RecordOf
  <2> QED
    BY <1>2, <1>4, <2>1, EpollDel
<1>5. CASE /\ index_[c] = "kAdded" /\ ev # {}
           /\ index_' = index_
           /\ EpollCtl("MOD", c, ev)
  <2>1. ptr[FdOf[c]] # NoChannel
    BY <1>1, <1>5 DEF RecordOf
  <2>2. index_' = [index_ EXCEPT ![c] = "kAdded"]
    BY <1>1, <1>5 DEF IInv, TypeOK
  <2> QED
    BY <1>2, <1>5, <2>1, <2>2, EpollMod
<1> QED
  BY <1>3, <1>4, <1>5 DEF UpdataChannel

(* Changing a channel's interest keeps the invariant.                       *)
LEMMA SetInterestStep ==
  ASSUME IInv, NEW c \in Channels, NEW ev \in SUBSET Interests,
         SetInterest(c, ev)
  PROVE IInv'
<1> USE FdOfAssumption, NoChannelAssumption
<1>1. /\ c \in owned /\ c \in alive /\ c # NoChannel /\ FdOf[c] \in Fds
      /\ UNCHANGED <<alive, owned, revents_, condition, listSize, loopVars>>
      /\ events_' = [events_ EXCEPT ![c] = ev]
      /\ addedToLoop_' = [addedToLoop_ EXCEPT ![c] = TRUE]
  BY DEF SetInterest, IInv, OwnersInv
<1>2. PICK i, p, x :
        /\ (i = "kAdded" /\ p = c /\ x = ev)
             \/ (i = "kDeleted" /\ p = NoChannel /\ x = {})
        /\ index_' = [index_ EXCEPT ![c] = i]
        /\ ptr' = [ptr EXCEPT ![FdOf[c]] = p]
        /\ interest' = [interest EXCEPT ![FdOf[c]] = x]
        /\ channels_' = [channels_ EXCEPT ![FdOf[c]] = c]
  <2>1. UpdataChannel(c, ev)
    BY DEF SetInterest
  <2>2. /\ channels_' = [channels_ EXCEPT ![FdOf[c]] = c]
        /\ \/ /\ index_' = [index_ EXCEPT ![c] = "kAdded"]
              /\ ptr' = [ptr EXCEPT ![FdOf[c]] = c]
              /\ interest' = [interest EXCEPT ![FdOf[c]] = ev]
           \/ /\ index_' = [index_ EXCEPT ![c] = "kDeleted"]
              /\ ptr' = [ptr EXCEPT ![FdOf[c]] = NoChannel]
              /\ interest' = [interest EXCEPT ![FdOf[c]] = {}]
    BY <1>1, <2>1, UpdataChannelEffect
  <2>3. CASE index_' = [index_ EXCEPT ![c] = "kAdded"]
             /\ ptr' = [ptr EXCEPT ![FdOf[c]] = c]
             /\ interest' = [interest EXCEPT ![FdOf[c]] = ev]
    <3> WITNESS "kAdded", c, ev
    <3> QED
      BY <2>2, <2>3
  <2>4. CASE index_' = [index_ EXCEPT ![c] = "kDeleted"]
             /\ ptr' = [ptr EXCEPT ![FdOf[c]] = NoChannel]
             /\ interest' = [interest EXCEPT ![FdOf[c]] = {}]
    <3> WITNESS "kDeleted", NoChannel, {}
    <3> QED
      BY <2>2, <2>4
  <2> QED
    BY <2>2, <2>3, <2>4
<1>T. TypeOK
  BY DEF IInv
<1>3. TypeOK'
  BY <1>1, <1>2 DEF IInv, TypeOK, Indexes, loopVars
<1>4. DistinctInv'
  BY <1>1 DEF IInv, DistinctInv
<1>5. FiledInv'
  BY <1>1, <1>2, <1>T DEF IInv, FiledInv, TypeOK
<1>6. RecordsInv'
  <2>1. RecordOf(c)'
    BY <1>1, <1>2, <1>T DEF TypeOK, RecordOf
  <2>2. ASSUME NEW d \in alive, d # c PROVE RecordOf(d)'
    <3>1. FdOf[d] # FdOf[c] /\ FdOf[d] \in Fds /\ d \in Channels
      BY <1>1, <1>T, <2>2 DEF IInv, DistinctInv, TypeOK
    <3>2. /\ index_'[d] = index_[d] /\ ptr'[FdOf[d]] = ptr[FdOf[d]]
          /\ interest'[FdOf[d]] = interest[FdOf[d]]
          /\ channels_'[FdOf[d]] = channels_[FdOf[d]]
          /\ events_'[d] = events_[d] /\ addedToLoop_'[d] = addedToLoop_[d]
      BY <1>1, <1>2, <1>T, <2>2, <3>1 DEF TypeOK
    <3> QED
      BY <3>2 DEF IInv, RecordsInv, RecordOf
  <2> QED
    BY <1>1, <2>1, <2>2 DEF RecordsInv
<1>7. OwnersInv'
  BY <1>1, <1>T DEF IInv, OwnersInv, TypeOK, loopVars
<1>8. BatchInv'
  <2>1. ASSUME NEW d \in todo PROVE channels_'[FdOf[d]] = d
    BY <1>1, <1>2, <1>T DEF IInv, BatchInv, DistinctInv, TypeOK
  <2> QED
    BY <1>1, <2>1 DEF IInv, BatchInv, loopVars
<1> QED
  BY <1>3, <1>4, <1>5, <1>6, <1>7, <1>8 DEF IInv

(* A channel that is in the rest of the batch is neither removed nor        *)
(* without owner.                                                           *)
LEMMA RemoveSparesBatch ==
  ASSUME IInv, NEW c \in Channels, Remove(c)
  PROVE c \notin todo
BY NoChannelAssumption DEF IInv, BatchInv, TypeOK, Remove, InUserCode

(* Channel::remove() keeps the invariant.                                   *)
LEMMA RemoveStep ==
  ASSUME IInv, NEW c \in Channels, Remove(c)
  PROVE IInv'
<1> USE FdOfAssumption, NoChannelAssumption
<1>T. TypeOK
  BY DEF IInv
<1>1. /\ c \in alive /\ c # NoChannel /\ FdOf[c] \in Fds
      /\ UNCHANGED <<alive, owned, events_, revents_, condition, listSize,
                     loopVars>>
      /\ addedToLoop_[c] /\ addedToLoop_' = [addedToLoop_ EXCEPT ![c] = FALSE]
      /\ channels_' = [channels_ EXCEPT ![FdOf[c]] = NoChannel]
      /\ index_' = [index_ EXCEPT ![c] = "kNew"]
  BY DEF Remove
<1>2. /\ ptr' \in [Fds -> Channels \cup {NoChannel}]
      /\ interest' \in [Fds -> SUBSET Interests]
      /\ ptr'[FdOf[c]] = NoChannel
      /\ \A fd \in Fds : fd # FdOf[c] =>
           ptr'[fd] = ptr[fd] /\ interest'[fd] = interest[fd]
  <2>1. RecordOf(c)
    BY <1>1 DEF IInv, RecordsInv
  <2>2. CASE index_[c] = "kAdded"
    <3>1. EpollCtl("DEL", c, {}) /\ ptr[FdOf[c]] # NoChannel
      BY <2>1, <2>2, <1>1 DEF Remove, RecordOf
    <3>2. /\ ptr' = [ptr EXCEPT ![FdOf[c]] = NoChannel]
          /\ interest' = [interest EXCEPT ![FdOf[c]] = {}]
      BY <3>1, EpollDel
    <3> QED
      BY <3>2, <1>1, <1>T DEF TypeOK
  <2>3. CASE index_[c] # "kAdded"
    <3>1. UNCHANGED <<interest, ptr>>
      BY <2>3 DEF Remove
    <3>2. ptr[FdOf[c]] = NoChannel
      BY <1>1, <2>1, <2>3 DEF RecordOf, IInv, FiledInv, DistinctInv
    <3> QED
      BY <3>1, <3>2, <1>T DEF TypeOK
  <2> QED
    BY <2>2, <2>3
<1>3. TypeOK'
  BY <1>1, <1>2, <1>T DEF TypeOK, Indexes, loopVars
<1>4. DistinctInv'
  BY <1>1 DEF IInv, DistinctInv
<1>5. FiledInv'
  BY <1>1, <1>2, <1>T DEF IInv, FiledInv, TypeOK
<1>6. RecordsInv'
  <2>1. RecordOf(c)'
    BY <1>1, <1>2, <1>T DEF TypeOK, RecordOf
  <2>2. ASSUME NEW d \in alive, d # c PROVE RecordOf(d)'
    <3>1. FdOf[d] # FdOf[c] /\ FdOf[d] \in Fds /\ d \in Channels
      BY <1>1, <1>T, <2>2 DEF IInv, DistinctInv, TypeOK
    <3>2. /\ index_'[d] = index_[d] /\ ptr'[FdOf[d]] = ptr[FdOf[d]]
          /\ interest'[FdOf[d]] = interest[FdOf[d]]
          /\ channels_'[FdOf[d]] = channels_[FdOf[d]]
          /\ events_'[d] = events_[d] /\ addedToLoop_'[d] = addedToLoop_[d]
      BY <1>1, <1>2, <1>T, <2>2, <3>1 DEF TypeOK
    <3> QED
      BY <3>2 DEF IInv, RecordsInv, RecordOf
  <2> QED
    BY <1>1, <2>1, <2>2 DEF RecordsInv
<1>7. OwnersInv'
  BY <1>1, <1>T DEF IInv, OwnersInv, TypeOK, loopVars
<1>8. BatchInv'
  <2>1. ASSUME NEW d \in todo PROVE channels_'[FdOf[d]] = d
    <3>1. d # c /\ d \in alive /\ channels_[FdOf[d]] = d
      BY RemoveSparesBatch DEF IInv, BatchInv
    <3>2. FdOf[d] # FdOf[c]
      BY <3>1, <1>1 DEF IInv, DistinctInv
    <3> QED
      BY <3>1, <3>2, <1>1, <1>T DEF TypeOK
  <2> QED
    BY <1>1, <2>1 DEF IInv, BatchInv, loopVars
<1> QED
  BY <1>3, <1>4, <1>5, <1>6, <1>7, <1>8 DEF IInv

(* Destructing a channel that was removed leaves no record of it.           *)
LEMMA DestructStep ==
  ASSUME IInv, NEW c \in alive, ~addedToLoop_[c], Destruct(c),
         owned' = owned \ {c},
         current' = current \/ current' = NoChannel, current' # c,
         alive' \ owned' \subseteq {current'},
         UNCHANGED <<events_, revents_, index_, addedToLoop_, pollVars, pc,
                     activeChannels_, todo>>,
         calls' \in Seq(Callbacks)
  PROVE IInv'
<1> USE FdOfAssumption, NoChannelAssumption
<1>T. TypeOK /\ c \in Channels /\ c # NoChannel /\ FdOf[c] \in Fds
  BY DEF IInv, TypeOK
<1>1. /\ alive' = alive \ {c}
      /\ ptr' = [ptr EXCEPT ![FdOf[c]] = NoChannel]
      /\ interest' = [interest EXCEPT ![FdOf[c]] = {}]
      /\ condition' = [condition EXCEPT ![FdOf[c]] = {}]
      /\ UNCHANGED <<channels_, listSize>>
  BY DEF Destruct, pollVars
<1>2. channels_[FdOf[c]] = NoChannel
  BY <1>T DEF IInv, RecordsInv, RecordOf, FiledInv, DistinctInv
<1>3. TypeOK'
  BY <1>1, <1>T DEF TypeOK
<1>4. DistinctInv'
  BY <1>1 DEF IInv, DistinctInv
<1>5. FiledInv'
  <2> SUFFICES ASSUME NEW fd \in Fds
               PROVE /\ ptr'[fd] # NoChannel =>
                          ptr'[fd] \in alive' /\ FdOf[ptr'[fd]] = fd
                     /\ channels_[fd] # NoChannel =>
                          channels_[fd] \in alive' /\ FdOf[channels_[fd]] = fd
    BY <1>1 DEF FiledInv
  <2>1. CASE fd = FdOf[c]
    BY <2>1, <1>1, <1>2, <1>T DEF TypeOK
  <2>2. CASE fd # FdOf[c]
    BY <2>2, <1>1, <1>T DEF TypeOK, IInv, FiledInv
  <2> QED
    BY <2>1, <2>2
<1>6. RecordsInv'
  <2>1. ASSUME NEW d \in alive' PROVE RecordOf(d)'
    <3>1. d \in alive /\ d # c /\ FdOf[d] # FdOf[c] /\ FdOf[d] \in Fds
      BY <1>1, <1>T DEF IInv, DistinctInv, TypeOK
    <3>2. /\ ptr'[FdOf[d]] = ptr[FdOf[d]]
          /\ interest'[FdOf[d]] = interest[FdOf[d]]
      BY <1>1, <1>T, <3>1 DEF TypeOK
    <3> QED
      BY <1>1, <3>1, <3>2 DEF IInv, RecordsInv, RecordOf
  <2> QED
    BY <2>1 DEF RecordsInv
<1>7. OwnersInv'
  <2>1. \A d \in alive' \ owned' : d = current' /\ ~addedToLoop_[d]
    BY <1>1 DEF IInv, OwnersInv
  <2>2. owned' \subseteq alive' /\ current' \in alive' \cup {NoChannel}
    BY <1>1 DEF IInv, OwnersInv
  <2> QED
    BY <2>1, <2>2 DEF OwnersInv
<1>8. BatchInv'
  <2>1. c \notin todo
    BY <1>2, <1>T DEF IInv, BatchInv
  <2>2. \A d \in todo : d \in alive' /\ channels_'[FdOf[d]] = d
    BY <2>1, <1>1 DEF IInv, BatchInv
  <2>3. \A d \in todo : d # current'
    BY <1>T DEF IInv, BatchInv, TypeOK
  <2> QED
    BY <2>2, <2>3 DEF IInv, BatchInv
<1> QED
  BY <1>3, <1>4, <1>5, <1>6, <1>7, <1>8 DEF IInv

(* Letting go of a channel's owner keeps the invariant.                     *)
LEMMA ReleaseStep ==
  ASSUME IInv, NEW c \in Channels, Release(c)
  PROVE IInv'
<1>1. /\ c \in owned /\ c \in alive /\ ~addedToLoop_[c]
      /\ owned' = owned \ {c}
      /\ UNCHANGED <<events_, revents_, index_, addedToLoop_, pollVars,
                     loopVars>>
  BY DEF Release, IInv, OwnersInv
<1>2. CASE c = current
  <2>1. UNCHANGED <<alive, kernelVars>>
    BY <1>2 DEF Release
  <2> QED
    BY <1>1, <1>2, <2>1
    DEF IInv, TypeOK, DistinctInv, FiledInv, RecordsInv, RecordOf, OwnersInv,
        BatchInv, loopVars, pollVars, kernelVars
<1>3. CASE c # current
  <2>1. Destruct(c)
    BY <1>3 DEF Release
  <2>2. alive' \ owned' \subseteq {current'}
    BY <1>1, <1>3, <2>1 DEF IInv, OwnersInv, Destruct, loopVars
  <2>3. calls' \in Seq(Callbacks)
    BY <1>1 DEF IInv, TypeOK, loopVars
  <2> QED
    BY <1>1, <1>3, <2>1, <2>2, <2>3, DestructStep DEF loopVars
<1> QED
  BY <1>2, <1>3

(* The end of handleEvent() keeps the invariant, also if its guard was the  *)
(* last reference.                                                          *)
LEMMA HandleReturnStep ==
  ASSUME IInv, HandleReturn
  PROVE IInv'
<1> USE NoChannelAssumption
<1>1. /\ current # NoChannel /\ current \in alive /\ current' = NoChannel
      /\ calls' = <<>>
      /\ UNCHANGED <<owned, events_, revents_, index_, addedToLoop_, pollVars,
                     pc, activeChannels_, todo>>
  BY DEF HandleReturn, IInv, OwnersInv
<1>2. CASE current \notin owned
  <2>1. PICK c \in alive : c = current
    BY <1>1
  <2>2. /\ ~addedToLoop_[c] /\ Destruct(c) /\ owned' = owned \ {c}
    BY <1>1, <1>2, <2>1 DEF HandleReturn, IInv, OwnersInv
  <2>3. alive' \ owned' \subseteq {current'}
    BY <1>1, <2>1, <2>2 DEF IInv, OwnersInv, Destruct
  <2>4. current' # c /\ calls' \in Seq(Callbacks)
    BY <1>1, <2>1
  <2> QED
    BY <1>1, <2>2, <2>3, <2>4, DestructStep
<1>3. CASE current \in owned
  <2>1. UNCHANGED <<alive, kernelVars>>
    BY <1>3 DEF HandleReturn
  <2>2. TypeOK'
    BY <1>1, <2>1 DEF IInv, TypeOK, pollVars, kernelVars
  <2> QED
    BY <1>1, <1>3, <2>1, <2>2
    DEF IInv, TypeOK, DistinctInv, FiledInv, RecordsInv, RecordOf, OwnersInv,
        BatchInv, pollVars, kernelVars
<1> QED
  BY <1>2, <1>3

(* epoll_wait() reports channels that are registered, so the batch is of    *)
(* living channels of the map.                                              *)
LEMMA PollStep ==
  ASSUME IInv, Poll
  PROVE IInv'
<1> USE FdOfAssumption, NoChannelAssumption
<1>T. TypeOK
  BY DEF IInv
<1>1. PICK fds \in SUBSET Reportable :
        /\ activeChannels_' = {ptr[fd] : fd \in fds}
        /\ revents_' = [c \in Channels |->
                          IF \E fd \in fds : ptr[fd] = c
                          THEN Report(CHOOSE fd \in fds : ptr[fd] = c)
                          ELSE revents_[c]]
        /\ listSize' = Resized(Cardinality(fds))
  BY DEF Poll
<1>2. /\ UNCHANGED <<alive, owned, events_, index_, addedToLoop_, channels_,
                     interest, ptr, condition, current, calls>>
      /\ todo' = activeChannels_' /\ pc = "poll" /\ pc' = "dispatch"
  BY DEF Poll, kernelVars
<1>3. fds \subseteq Fds /\ \A fd \in fds : ptr[fd] \in Channels
  BY <1>1, <1>T DEF Reportable, TypeOK
<1>4. TypeOK'
  <2>1. activeChannels_' \in SUBSET Channels
    BY <1>1, <1>3
  <2>2. \A fd \in Fds : Report(fd) \in SUBSET Conditions
    BY <1>T DEF TypeOK, Report
  <2>3. revents_' \in [Channels -> SUBSET Conditions]
    <3>1. ASSUME NEW c \in Channels, \E fd \in fds : ptr[fd] = c
          PROVE Report(CHOOSE fd \in fds : ptr[fd] = c) \in SUBSET Conditions
      <4>1. (CHOOSE fd \in fds : ptr[fd] = c) \in fds
        BY <3>1
      <4> QED
        BY <4>1, <1>3, <2>2
    <3> QED
      BY <3>1, <1>1, <1>T DEF TypeOK
  <2>4. listSize' \in Nat \ {0}
    BY <1>1, <1>T DEF Resized, TypeOK
  <2> QED
    BY <1>2, <1>T, <2>1, <2>3, <2>4 DEF TypeOK
<1>5. DistinctInv' /\ FiledInv' /\ RecordsInv' /\ OwnersInv'
  BY <1>2 DEF IInv, DistinctInv, FiledInv, RecordsInv, RecordOf, OwnersInv
<1>6. BatchInv'
  <2>1. ASSUME NEW fd \in fds
        PROVE ptr[fd] \in alive /\ channels_[FdOf[ptr[fd]]] = ptr[fd]
    <3>1. ptr[fd] \in alive /\ FdOf[ptr[fd]] = fd
      BY <1>3 DEF IInv, FiledInv
    <3> QED
      BY <3>1 DEF IInv, RecordsInv, RecordOf
  <2>2. current' = NoChannel
    BY <1>2 DEF IInv, BatchInv
  <2>3. ASSUME NEW c \in todo'
        PROVE c \in alive /\ channels_[FdOf[c]] = c /\ c # NoChannel
    BY <1>1, <1>2, <1>3, <2>1
  <2> QED
    BY <1>2, <2>2, <2>3 DEF BatchInv
<1> QED
  BY <1>4, <1>5, <1>6 DEF IInv

(* The other steps of loop() keep the invariant.                            *)
LEMMA LoopStepStep ==
  ASSUME IInv,
         \/ PollNothing \/ (\E c \in Channels : HandleEvent(c))
         \/ CallbackReturn \/ DispatchDone \/ FunctorsDone \/ UNCHANGED vars
  PROVE IInv'
<1> USE NoChannelAssumption
<1>1. UNCHANGED <<alive, owned, events_, revents_, index_, addedToLoop_,
                  channels_, listSize, interest, ptr, condition>>
  BY DEF PollNothing, HandleEvent, CallbackReturn, DispatchDone,
         FunctorsDone, vars, chanVars, pollVars, kernelVars
<1>2. DistinctInv' /\ FiledInv' /\ RecordsInv'
  BY <1>1 DEF IInv, DistinctInv, FiledInv, RecordsInv, RecordOf
<1>3. CASE PollNothing \/ DispatchDone \/ FunctorsDone \/ UNCHANGED vars
  BY <1>1, <1>2, <1>3
  DEF IInv, TypeOK, OwnersInv, BatchInv, PollNothing, DispatchDone,
      FunctorsDone, vars, loopVars
<1>4. CASE CallbackReturn
  <2>1. calls' \in Seq(Callbacks)
    BY <1>4 DEF CallbackReturn, IInv, TypeOK
  <2> QED
    BY <1>1, <1>2, <1>4, <2>1
    DEF IInv, TypeOK, OwnersInv, BatchInv, CallbackReturn
<1>5. ASSUME NEW c \in Channels, HandleEvent(c) PROVE IInv'
  <2>1. /\ current = NoChannel /\ c \in todo /\ c \in alive
        /\ todo' = todo \ {c} /\ pc = "dispatch"
        /\ UNCHANGED <<pc, activeChannels_>>
    BY <1>5 DEF HandleEvent, IInv, BatchInv
  <2>2. \/ UNCHANGED <<current, calls>>
        \/ current' = c /\ calls' = CallbacksFor(revents_[c])
    BY <1>5 DEF HandleEvent
  <2>3. calls' \in Seq(Callbacks)
    BY <2>2, CallbacksType DEF IInv, TypeOK
  <2>4. TypeOK'
    BY <1>1, <2>1, <2>2, <2>3 DEF IInv, TypeOK
  <2>5. alive \subseteq owned
    BY <2>1 DEF IInv, OwnersInv, TypeOK
  <2>6. OwnersInv'
    BY <1>1, <2>1, <2>2, <2>5 DEF IInv, OwnersInv
  <2>7. BatchInv'
    BY <1>1, <2>1, <2>2 DEF IInv, BatchInv
  <2> QED
    BY <1>2, <2>4, <2>6, <2>7 DEF IInv
<1> QED
  BY <1>3, <1>4, <1>5

(* What happens to files changes nothing that the invariant is about.       *)
LEMMA ConditionStep ==
  ASSUME IInv, condition' \in [Fds -> SUBSET Conditions],
         UNCHANGED <<chanVars, pollVars, interest, ptr, loopVars>>
  PROVE IInv'
BY DEF IInv, TypeOK, DistinctInv, FiledInv, RecordsInv, RecordOf, OwnersInv,
       BatchInv, chanVars, pollVars, loopVars

-----------------------------------------------------------------------------
(* The initial states satisfy the invariant.                                *)
LEMMA InitInv == Init => IInv
<1> SUFFICES ASSUME Init PROVE IInv
  OBVIOUS
<1>1. calls \in Seq(Callbacks) /\ listSize \in Nat \ {0}
  BY SizeAssumption DEF Init
<1>2. TypeOK
  BY <1>1 DEF Init, TypeOK, Indexes
<1> QED
  BY <1>2 DEF Init, IInv, DistinctInv, FiledInv, RecordsInv, OwnersInv,
              BatchInv

(* The invariant is inductive.                                              *)
LEMMA InvStep == IInv /\ [Next]_vars => IInv'
<1> SUFFICES ASSUME IInv, [Next]_vars PROVE IInv'
  OBVIOUS
<1> USE FdOfAssumption, RaisedAssumption
<1>1. CASE Poll
  BY <1>1, PollStep
<1>2. CASE \/ PollNothing \/ (\E c \in Channels : HandleEvent(c))
           \/ CallbackReturn \/ DispatchDone \/ FunctorsDone \/ UNCHANGED vars
  BY <1>2, LoopStepStep
<1>3. CASE HandleReturn
  BY <1>3, HandleReturnStep
<1>4. ASSUME NEW r \in Raised, Raise(r[1], r[2]) PROVE IInv'
  <2>1. r[1] \in Fds /\ r[2] \in Conditions
    OBVIOUS
  <2>2. condition' \in [Fds -> SUBSET Conditions]
    BY <1>4, <2>1 DEF Raise, IInv, TypeOK
  <2> QED
    BY <1>4, <2>2, ConditionStep DEF Raise
<1>5. ASSUME NEW c \in Channels, NEW e \in Interests, Exhaust(c, e)
      PROVE IInv'
  <2>1. condition' \in [Fds -> SUBSET Conditions]
    BY <1>5 DEF Exhaust, IInv, TypeOK
  <2> QED
    BY <1>5, <2>1, ConditionStep DEF Exhaust
<1>6. ASSUME NEW c \in Channels, NEW e \in Interests,
             Enable(c, e) \/ Disable(c, e) \/ DisableAll(c)
      PROVE IInv'
  <2>1. PICK ev \in SUBSET Interests : SetInterest(c, ev)
    <3>1. /\ events_[c] \cup {e} \in SUBSET Interests
          /\ events_[c] \ {e} \in SUBSET Interests
          /\ {} \in SUBSET Interests
      BY DEF IInv, TypeOK
    <3> QED
      BY <1>6, <3>1, Zenon DEF Enable, Disable, DisableAll
  <2> QED
    BY <2>1, SetInterestStep
<1>7. ASSUME NEW c \in Channels, Create(c) \/ Remove(c) \/ Release(c)
      PROVE IInv'
  BY <1>7, CreateStep, RemoveStep, ReleaseStep
<1>8. "IN" \in Interests
  BY DEF Interests
<1> QED
  BY <1>1, <1>2, <1>3, <1>4, <1>5, <1>6, <1>7, <1>8
  DEF Next, LoopStep, UserStep

(* index_, channels_ and the kernel's epoll set say the same of every       *)
(* living channel: the assertions of updataChannel() and removeChannel()    *)
(* never fail.                                                              *)
THEOREM RegistrationsAgree == Spec => []RecordsAgree
<1>1. IInv => RecordsAgree
  BY DEF IInv, RecordsInv, RecordOf, RecordsAgree
<1> QED
  BY <1>1, InitInv, InvStep, PTL DEF Spec

(* Whatever handlers do in the middle of a batch, no pointer in the kernel, *)
(* in channels_, in the rest of the batch or in currentActiveChannel_ is to *)
(* a destructed channel.                                                    *)
THEOREM NoPointerDangles == Spec => []NoDanglingChannel
<1>1. IInv => NoDanglingChannel
  BY DEF IInv, TypeOK, FiledInv, OwnersInv, BatchInv, NoDanglingChannel
<1> QED
  BY <1>1, InitInv, InvStep, PTL DEF Spec
=============================================================================
