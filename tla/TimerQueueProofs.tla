-------------------------- MODULE TimerQueueProofs --------------------------
(***************************************************************************)
(* Proofs about TimerQueue for any number of threads, addresses and timers *)
(* and any delays: its two sets agree, a batch stays allocated, cancel()   *)
(* is for good and for its own timer only, and the timerfd is armed.       *)
(***************************************************************************)
EXTENDS TimerQueue, FiniteSetTheorems, WellFoundedInduction, TLAPS

(* Sequence numbers are used once.                                          *)
HeapInv ==
  /\ \A a \in Addrs : Allocated(a) => heap[a].sequence \in 1 .. numCreated
  /\ \A a, b \in Addrs :
       /\ Allocated(a) /\ Allocated(b)
       /\ heap[a].sequence = heap[b].sequence
       => a = b

(* What timers_ and the batch point to is there, and they do not overlap.   *)
FiledInv ==
  /\ \A e \in timers_ \cup expired :
       Allocated(e[2]) /\ heap[e[2]].expiration = e[1]
  /\ \A e \in expired, f \in timers_ : f[2] # e[2]

ActiveInv ==
  /\ \A e \in timers_ : Seq_(e) \in activeTimers_
  /\ \A at \in activeTimers_ :
       /\ <<heap[at[1]].expiration, at[1]>> \in timers_
       /\ heap[at[1]].sequence = at[2]

(* handleRead()'s locals agree with where it is.                            *)
BatchInv ==
  /\ callingExpiredTimers_ <=> pc \in {"batch", "callback"}
  /\ pc \in {"loop", "reported"} => expired = {}

IsAdd(i) == pendingFunctors_[i].op = "add"
AddrOf(i) == pendingFunctors_[i].id[1]

(* A Timer on its way to the loop belongs to one functor and to nobody else.*)
PendingInv ==
  /\ pendingFunctors_ \in Seq([op : {"add", "cancel"}, id : TimerIds])
  /\ \A i \in 1 .. Len(pendingFunctors_) : IsAdd(i) =>
       /\ Allocated(AddrOf(i))
       /\ heap[AddrOf(i)].sequence = pendingFunctors_[i].id[2]
       /\ \A e \in timers_ \cup expired : e[2] # AddrOf(i)
  /\ \A i, j \in 1 .. Len(pendingFunctors_) :
       IsAdd(i) /\ IsAdd(j) /\ AddrOf(i) = AddrOf(j) => i = j

(* A cancelled Timer that still exists is in the batch and will not restart.*)
CancelInv ==
  /\ cancelled \subseteq 1 .. numCreated
  /\ \A a \in Addrs : Allocated(a) /\ heap[a].sequence \in cancelled =>
       /\ <<heap[a].expiration, a>> \in expired
       /\ <<a, heap[a].sequence>> \in cancelingTimers_

StateInv ==
  /\ TypeOK /\ HeapInv /\ FiledInv /\ ActiveInv /\ BatchInv /\ PendingInv
  /\ CancelInv

(* Without a cancel() and with clocks that agree, the timerfd fires only    *)
(* when a timer is due.                                                     *)
AlarmInv ==
  /\ readable => deadline = Disarmed
  /\ cancelled = {} /\ clockSets = 0 =>
       /\ AlarmSet
       /\ readable => Due # {}
       /\ deadline # Disarmed => \E e \in timers_ : e[1] <= deadline
       /\ pc = "reported" => Due # {} /\ deadline = Disarmed
       /\ pc \in {"batch", "callback"} => expired # {}

-----------------------------------------------------------------------------
(* A set of numbers has a least one.                                        *)
LEMMA LeastNumber ==
  ASSUME NEW T, T \subseteq Nat, T # {}
  PROVE \E x \in T : \A y \in T : x <= y
<1> DEFINE R == {ss \in Nat \X Nat : ss[1] < ss[2]}
<1>1. IsWellFoundedOn(R, Nat)
  BY NatLessThanWellFounded DEF OpToRel
<1>2. PICK x \in T : \A y \in T : ~(<<y, x>> \in R)
  BY <1>1, WFMin
<1>3. ASSUME NEW y \in T PROVE x <= y
  <2>1. y \in Nat /\ x \in Nat
    OBVIOUS
  <2>2. ~(y < x)
    BY <1>2, <2>1
  <2> QED
    BY <2>1, <2>2
<1> QED
  BY <1>3

(* An Entry is a time and an address.                                       *)
LEMMA EntryPair ==
  ASSUME NEW e \in Nat \X Addrs
  PROVE e[1] \in Nat /\ e[2] \in Addrs /\ e = <<e[1], e[2]>>
OBVIOUS

(* std::set's begin() is the earliest of its entries.                       *)
LEMMA FirstLeast ==
  ASSUME NEW S \in SUBSET (Nat \X Addrs), S # {}
  PROVE First(S) \in S /\ \A f \in S : First(S)[1] <= f[1]
<1> USE AddrsAssumption
<1>P. \A e \in S : e[1] \in Nat /\ e[2] \in Nat /\ e = <<e[1], e[2]>>
  BY EntryPair
<1>1. PICK d \in S : \A e \in S : d[1] <= e[1]
  <2> DEFINE Times == {e[1] : e \in S}
  <2>1. Times \subseteq Nat /\ Times # {}
    BY <1>P
  <2>2. PICK t \in Times : \A u \in Times : t <= u
    <3> HIDE DEF Times
    <3> QED
      BY <2>1, LeastNumber
  <2>3. PICK d \in S : d[1] = t
    BY <2>2
  <2> QED
    BY <2>2, <2>3
<1>2. PICK c \in S : c[1] = d[1] /\ \A e \in S : e[1] = d[1] => c[2] <= e[2]
  <2> DEFINE Ties == {e[2] : e \in {f \in S : f[1] = d[1]}}
  <2>1. Ties \subseteq Nat /\ Ties # {}
    BY <1>P
  <2>2. PICK a \in Ties : \A b \in Ties : a <= b
    <3> HIDE DEF Ties
    <3> QED
      BY <2>1, LeastNumber
  <2>3. PICK c \in S : c[1] = d[1] /\ c[2] = a
    BY <2>2
  <2> QED
    BY <2>2, <2>3
<1>3. \A f \in S \ {c} : Before(c, f)
  <2> SUFFICES ASSUME NEW f \in S \ {c} PROVE Before(c, f)
    OBVIOUS
  <2>1. /\ c[1] \in Nat /\ c[2] \in Nat /\ f[1] \in Nat /\ f[2] \in Nat
        /\ c = <<c[1], c[2]>> /\ f = <<f[1], f[2]>>
    BY <1>P
  <2>2. c[1] <= f[1] /\ (f[1] = c[1] => c[2] <= f[2])
    BY <1>1, <1>2
  <2> QED
    BY <2>1, <2>2 DEF Before
<1>4. First(S) \in S /\ \A f \in S \ {First(S)} : Before(First(S), f)
  BY <1>3 DEF First
<1>5. ASSUME NEW f \in S PROVE First(S)[1] <= f[1]
  BY <1>4, <1>P DEF Before
<1> QED
  BY <1>4, <1>5

(* The timerfd is armed for the given time, or a little later if that is    *)
(* too close or has passed.                                                 *)
LEMMA Armed ==
  ASSUME TypeOK, NEW when \in Nat, ResetTimerfd(when)
  PROVE /\ deadline' = Later(when, now + MinDelay)
        /\ deadline' \in Int /\ readable' = FALSE
<1> USE BoundsAssumption, MinDelayAssumption
<1>1. now \in Nat /\ now + MinDelay \in Nat /\ MinDelay # 0
  BY DEF TypeOK
<1> DEFINE delay == HowMuchTimeFromNow(when)
<1>2. /\ deadline' = IF delay = 0 THEN Disarmed ELSE now + delay
      /\ readable' = FALSE
  BY DEF ResetTimerfd
<1>3. delay # 0 /\ now + delay = Later(when, now + MinDelay)
  BY <1>1 DEF HowMuchTimeFromNow, Later
<1>4. Later(when, now + MinDelay) \in Nat
  BY <1>1 DEF Later
<1> QED
  BY <1>2, <1>3, <1>4

-----------------------------------------------------------------------------
Timers == [sequence : 0 .. MaxTimers, expiration : Nat, interval : Nat]

(* An address is free exactly when its sequence number is 0.                *)
LEMMA AllocatedSequence ==
  ASSUME StateInv, NEW a \in Addrs
  PROVE /\ heap[a] \in Timers /\ heap[a].sequence \in Nat
        /\ Allocated(a) <=> heap[a].sequence # 0
BY BoundsAssumption DEF StateInv, TypeOK, HeapInv, Allocated, Freed, Timers

(* new Timer takes a free address and the next sequence number.             *)
LEMMA TimerCreated ==
  ASSUME StateInv, NEW a \in Addrs, NEW when \in Nat, NEW interval \in Nat,
         NewTimer(a, when, interval)
  PROVE /\ numCreated' \in 0 .. MaxTimers /\ numCreated' = numCreated + 1
        /\ heap' \in [Addrs -> Timers]
        /\ ~Allocated(a) /\ Allocated(a)'
        /\ heap'[a].sequence = numCreated + 1 /\ heap'[a].expiration = when
        /\ \A b \in Addrs : b # a => heap'[b] = heap[b]
        /\ HeapInv'
<1> USE BoundsAssumption
<1>1. /\ numCreated' \in 0 .. MaxTimers /\ numCreated' = numCreated + 1
      /\ numCreated \in Nat
  BY DEF StateInv, TypeOK, NewTimer
<1>2. heap \in [Addrs -> Timers]
  BY DEF StateInv, TypeOK, Timers
<1> DEFINE new == [sequence |-> numCreated + 1, expiration |-> when,
                   interval |-> interval]
<1>3. new \in Timers /\ new # Freed
  BY <1>1 DEF Timers, Freed
<1>4. heap' = [heap EXCEPT ![a] = new] /\ ~Allocated(a)
  BY DEF NewTimer
<1>5. heap' \in [Addrs -> Timers] /\ heap'[a] = new
  BY <1>2, <1>3, <1>4
<1>6. \A b \in Addrs : b # a => heap'[b] = heap[b]
  BY <1>2, <1>4
<1>7. Allocated(a)'
  BY <1>3, <1>5 DEF Allocated
<1>8. \A b \in Addrs : Allocated(b)' => heap'[b].sequence \in 1 .. numCreated'
  BY <1>1, <1>5, <1>6 DEF StateInv, HeapInv, Allocated
<1>9. \A b \in Addrs :
        b # a /\ Allocated(b)' => heap'[b].sequence # numCreated + 1
  BY <1>1, <1>6 DEF StateInv, HeapInv, Allocated
<1>10. ASSUME NEW b \in Addrs, NEW c \in Addrs, Allocated(b)', Allocated(c)',
              heap'[b].sequence = heap'[c].sequence
       PROVE b = c
  BY <1>5, <1>6, <1>9, <1>10 DEF StateInv, HeapInv, Allocated
<1> QED
  BY <1>1, <1>4, <1>5, <1>6, <1>7, <1>8, <1>10 DEF HeapInv

(* addTimerInLoop() files a Timer that neither set nor the batch had.       *)
LEMMA TimerAdded ==
  ASSUME StateInv, NEW a \in Addrs, NEW seq \in Sequences_, NEW when \in Nat,
         AddTimerInLoop(a, seq, when), expired' = expired,
         heap' \in [Addrs -> Timers],
         \A b \in Addrs : b # a => heap'[b] = heap[b],
         Allocated(a)', heap'[a].sequence = seq, heap'[a].expiration = when,
         \A e \in timers_ \cup expired : e[2] # a
  PROVE /\ timers_' = timers_ \cup {<<when, a>>}
        /\ timers_' \in SUBSET (Nat \X Addrs)
        /\ activeTimers_' \in SUBSET (Addrs \X Sequences_)
        /\ FiledInv' /\ ActiveInv'
<1>1. /\ timers_' = timers_ \cup {<<when, a>>}
      /\ activeTimers_' = activeTimers_ \cup {<<a, seq>>}
  BY DEF AddTimerInLoop
<1>2. /\ timers_ \in SUBSET (Nat \X Addrs)
      /\ expired \in SUBSET (Nat \X Addrs)
      /\ activeTimers_ \in SUBSET (Addrs \X Sequences_)
  BY DEF StateInv, TypeOK
<1>3. /\ timers_' \in SUBSET (Nat \X Addrs)
      /\ activeTimers_' \in SUBSET (Addrs \X Sequences_)
  BY <1>1, <1>2
<1>4. \A e \in timers_ \cup expired :
         e[2] \in Addrs /\ e[2] # a /\ heap'[e[2]] = heap[e[2]]
  BY <1>2, EntryPair
<1>5. FiledInv'
  <2>1. \A e \in timers_ \cup expired :
           Allocated(e[2])' /\ heap'[e[2]].expiration = e[1]
    BY <1>4 DEF StateInv, FiledInv, Allocated
  <2>2. \A e \in expired, f \in timers_' : f[2] # e[2]
    BY <1>1, <1>4 DEF StateInv, FiledInv
  <2> QED
    BY <1>1, <2>1, <2>2 DEF FiledInv
<1>6. ActiveInv'
  <2>1. \A e \in timers_ : Seq_(e)' \in activeTimers_'
    BY <1>1, <1>4 DEF StateInv, ActiveInv, Seq_
  <2>2. Seq_(<<when, a>>)' \in activeTimers_'
    BY <1>1 DEF Seq_
  <2>3. ASSUME NEW at \in activeTimers_
        PROVE /\ <<heap'[at[1]].expiration, at[1]>> \in timers_'
              /\ heap'[at[1]].sequence = at[2]
    <3>1. <<heap[at[1]].expiration, at[1]>> \in timers_
      BY DEF StateInv, ActiveInv
    <3>2. heap'[at[1]] = heap[at[1]]
      BY <3>1, <1>4
    <3> QED
      BY <3>1, <3>2, <1>1 DEF StateInv, ActiveInv
  <2>4. /\ <<heap'[a].expiration, a>> \in timers_'
        /\ heap'[a].sequence = seq
    BY <1>1
  <2> QED
    BY <1>1, <2>1, <2>2, <2>3, <2>4 DEF ActiveInv
<1> QED
  BY <1>1, <1>3, <1>5, <1>6

(* cancelInLoop() of a timer in the sets: its own entry and its own Timer.  *)
LEMMA TimerFound ==
  ASSUME StateInv, NEW id \in TimerIds, CancelInLoop(id), Find(id) # {}
  PROVE LET a == id[1]
            e == <<heap[a].expiration, a>> IN
        /\ id \in activeTimers_ /\ a \in Addrs /\ id = <<a, id[2]>>
        /\ e \in timers_ /\ timers_' = timers_ \ {e}
        /\ Allocated(a) /\ heap[a].sequence = id[2]
        /\ heap' = [heap EXCEPT ![a] = Freed]
        /\ activeTimers_' = activeTimers_ \ {id}
        /\ cancelingTimers_' = cancelingTimers_
        /\ cancelled' = cancelled \cup {id[2]}
<1>1. id \in activeTimers_ /\ Find(id) = {id}
  BY DEF Find
<1>2. id[1] \in Addrs /\ id = <<id[1], id[2]>>
  BY DEF TimerIds
<1>3. /\ <<heap[id[1]].expiration, id[1]>> \in timers_
      /\ heap[id[1]].sequence = id[2]
  BY <1>1 DEF StateInv, ActiveInv
<1>4. Allocated(id[1])
  BY <1>3 DEF StateInv, FiledInv
<1> QED
  BY <1>1, <1>2, <1>3, <1>4 DEF CancelInLoop, Known

(* cancelInLoop() of any other id only notes it, and only during a batch.   *)
LEMMA TimerNotFound ==
  ASSUME StateInv, NEW id \in TimerIds, CancelInLoop(id), Find(id) = {}
  PROVE /\ UNCHANGED <<timers_, activeTimers_, heap>>
        /\ id \notin activeTimers_
        /\ cancelingTimers_ \subseteq cancelingTimers_'
        /\ cancelingTimers_' \subseteq cancelingTimers_ \cup {id}
        /\ callingExpiredTimers_ => id \in cancelingTimers_'
        /\ cancelled \subseteq cancelled'
        /\ cancelled' \subseteq cancelled \cup {id[2]}
        /\ cancelled' # cancelled =>
             \E e \in expired : Seq_(e) = id
<1>1. id \notin activeTimers_
  BY DEF Find
<1> QED
  BY <1>1 DEF CancelInLoop, Known, setVars

(* cancelInLoop() keeps every part of the invariant it touches.             *)
LEMMA TimerCancelled ==
  ASSUME StateInv, NEW id \in TimerIds, CancelInLoop(id),
         UNCHANGED <<numCreated, expired>>
  PROVE /\ heap' \in [Addrs -> Timers]
        /\ timers_' \subseteq timers_ /\ activeTimers_' \subseteq activeTimers_
        /\ cancelingTimers_' \in SUBSET TimerIds
        /\ cancelled' \in SUBSET Sequences_
        /\ \A b \in Addrs : heap'[b] = heap[b] \/
             /\ Allocated(b) /\ ~Allocated(b)'
             /\ <<heap[b].expiration, b>> \in timers_
             /\ heap[b].sequence \in cancelled'
        /\ HeapInv' /\ FiledInv' /\ ActiveInv' /\ CancelInv'
<1> USE BoundsAssumption
<1>T. /\ heap \in [Addrs -> Timers] /\ Freed \in Timers
      /\ timers_ \in SUBSET (Nat \X Addrs)
      /\ expired \in SUBSET (Nat \X Addrs)
      /\ activeTimers_ \in SUBSET (Addrs \X Sequences_)
      /\ cancelingTimers_ \in SUBSET TimerIds
      /\ cancelled \in SUBSET Sequences_
      /\ numCreated \in 0 .. MaxTimers
  BY DEF StateInv, TypeOK, Timers, Freed
<1>E. \A e \in timers_ \cup expired : e[2] \in Addrs /\ e = <<e[1], e[2]>>
  BY <1>T, EntryPair
<1>1. CASE Find(id) # {}
  <2> DEFINE a == id[1]
             x == <<heap[a].expiration, a>>
  <2>1. /\ id \in activeTimers_ /\ a \in Addrs /\ id = <<a, id[2]>>
        /\ x \in timers_ /\ timers_' = timers_ \ {x}
        /\ Allocated(a) /\ heap[a].sequence = id[2]
        /\ heap' = [heap EXCEPT ![a] = Freed]
        /\ activeTimers_' = activeTimers_ \ {id}
        /\ cancelingTimers_' = cancelingTimers_
        /\ cancelled' = cancelled \cup {id[2]}
    BY <1>1, TimerFound
  <2> HIDE DEF a, x
  <2>2. /\ heap' \in [Addrs -> Timers] /\ heap'[a] = Freed
        /\ \A b \in Addrs : b # a => heap'[b] = heap[b]
    BY <2>1, <1>T
  <2>3. id[2] \in 1 .. numCreated
    BY <2>1 DEF StateInv, HeapInv
  <2>4. /\ ~Allocated(a)'
        /\ \A b \in Addrs : b # a => (Allocated(b)' <=> Allocated(b))
    BY <2>2 DEF Allocated
  <2>5. \A e \in timers_' \cup expired : e[2] # a
    BY <2>1, <1>E DEF StateInv, FiledInv, x
  <2>6. HeapInv'
    BY <2>2, <2>4 DEF StateInv, HeapInv
  <2>7. FiledInv'
    <3>1. \A e \in timers_' \cup expired :
            Allocated(e[2])' /\ heap'[e[2]].expiration = e[1]
      BY <1>E, <2>1, <2>2, <2>4, <2>5 DEF StateInv, FiledInv
    <3>2. \A e \in expired, f \in timers_' : f[2] # e[2]
      BY <2>1 DEF StateInv, FiledInv
    <3> QED
      BY <3>1, <3>2 DEF FiledInv
  <2>8. ActiveInv'
    <3>1. ASSUME NEW e \in timers_' PROVE Seq_(e)' \in activeTimers_'
      <4>1. e \in timers_ /\ e[2] # a /\ e[2] \in Addrs
        BY <1>E, <2>1, <2>5
      <4>2. Seq_(e)' = Seq_(e) /\ Seq_(e) # id
        BY <4>1, <2>2, <2>1 DEF Seq_
      <4> QED
        BY <4>1, <4>2, <2>1 DEF StateInv, ActiveInv
    <3>2. ASSUME NEW at \in activeTimers_'
          PROVE /\ <<heap'[at[1]].expiration, at[1]>> \in timers_'
                /\ heap'[at[1]].sequence = at[2]
      <4>1. at \in activeTimers_ /\ at # id /\ at = <<at[1], at[2]>>
            /\ at[1] \in Addrs
        BY <2>1, <1>T
      <4>2. /\ <<heap[at[1]].expiration, at[1]>> \in timers_
            /\ heap[at[1]].sequence = at[2]
        BY <4>1 DEF StateInv, ActiveInv
      <4>3. at[1] # a
        BY <4>1, <4>2, <2>1
      <4> QED
        BY <4>1, <4>2, <4>3, <2>1, <2>2 DEF x
    <3> QED
      BY <3>1, <3>2 DEF ActiveInv
  <2>9. CancelInv'
    <3>1. cancelled' \subseteq 1 .. numCreated'
      BY <2>1, <2>3 DEF StateInv, CancelInv
    <3>2. ASSUME NEW b \in Addrs, Allocated(b)',
                 heap'[b].sequence \in cancelled'
          PROVE /\ <<heap'[b].expiration, b>> \in expired'
                /\ <<b, heap'[b].sequence>> \in cancelingTimers_'
      <4>1. b # a /\ heap'[b] = heap[b] /\ Allocated(b)
        BY <3>2, <2>2, <2>4
      <4>2. heap[b].sequence \in cancelled
        BY <4>1, <3>2, <2>1 DEF StateInv, HeapInv
      <4> QED
        BY <4>1, <4>2, <2>1 DEF StateInv, CancelInv
    <3> QED
      BY <3>1, <3>2 DEF CancelInv
  <2>10. cancelled' \in SUBSET Sequences_
    BY <2>1, <2>3, <1>T DEF Sequences_
  <2> QED
    BY <1>T, <2>1, <2>2, <2>4, <2>6, <2>7, <2>8, <2>9, <2>10 DEF x
<1>2. CASE Find(id) = {}
  <2>1. /\ UNCHANGED <<timers_, activeTimers_, heap>>
        /\ cancelingTimers_ \subseteq cancelingTimers_'
        /\ cancelingTimers_' \subseteq cancelingTimers_ \cup {id}
        /\ callingExpiredTimers_ => id \in cancelingTimers_'
        /\ cancelled \subseteq cancelled'
        /\ cancelled' \subseteq cancelled \cup {id[2]}
        /\ cancelled' # cancelled => \E e \in expired : Seq_(e) = id
    BY <1>2, TimerNotFound
  <2>2. HeapInv' /\ FiledInv' /\ ActiveInv'
    BY <2>1 DEF StateInv, HeapInv, FiledInv, ActiveInv, Allocated, Seq_
  <2>3. CASE cancelled' = cancelled
    <3>1. CancelInv'
      BY <2>1, <2>3 DEF StateInv, CancelInv, Allocated
    <3> QED
      BY <1>T, <2>1, <2>2, <2>3, <3>1
  <2>4. CASE cancelled' # cancelled
    <3>1. PICK e \in expired : Seq_(e) = id
      BY <2>1, <2>4
    <3>2. /\ e[2] \in Addrs /\ Allocated(e[2]) /\ e = <<e[1], e[2]>>
          /\ heap[e[2]].expiration = e[1]
          /\ id = <<e[2], heap[e[2]].sequence>>
      BY <3>1, <1>E DEF Seq_, StateInv, FiledInv
    <3>3. id[2] = heap[e[2]].sequence /\ id[2] \in 1 .. numCreated
      BY <3>2 DEF StateInv, HeapInv
    <3>4. id \in cancelingTimers_'
      BY <2>1, <3>1 DEF StateInv, BatchInv, TypeOK
    <3>5. ASSUME NEW b \in Addrs, Allocated(b), heap[b].sequence \in cancelled'
          PROVE /\ <<heap[b].expiration, b>> \in expired
                /\ <<b, heap[b].sequence>> \in cancelingTimers_'
      <4>1. CASE heap[b].sequence \in cancelled
        BY <4>1, <3>5, <2>1 DEF StateInv, CancelInv
      <4>2. CASE heap[b].sequence = id[2]
        <5>1. b = e[2]
          BY <4>2, <3>2, <3>3, <3>5 DEF StateInv, HeapInv
        <5> QED
          BY <5>1, <3>2, <3>4
      <4> QED
        BY <4>1, <4>2, <3>5, <2>1
    <3>6. cancelled' \subseteq 1 .. numCreated
      BY <2>1, <3>3 DEF StateInv, CancelInv
    <3>7. CancelInv'
      BY <3>5, <3>6, <2>1 DEF CancelInv, Allocated
    <3> QED
      BY <1>T, <2>1, <2>2, <3>6, <3>7 DEF Sequences_
  <2> QED
    BY <2>3, <2>4
<1> QED
  BY <1>1, <1>2

(* A functor that waits keeps its Timer while others come and go.           *)
LEMMA PendingKept ==
  ASSUME StateInv, pendingFunctors_' = pendingFunctors_,
         \A i \in 1 .. Len(pendingFunctors_) : IsAdd(i) =>
           /\ heap'[AddrOf(i)] = heap[AddrOf(i)]
           /\ \A e \in timers_' \cup expired' : e[2] # AddrOf(i)
  PROVE PendingInv'
<1>1. \A i \in 1 .. Len(pendingFunctors_) :
        (IsAdd(i)' <=> IsAdd(i)) /\ AddrOf(i)' = AddrOf(i)
  BY DEF IsAdd, AddrOf
<1>2. ASSUME NEW i \in 1 .. Len(pendingFunctors_), IsAdd(i)
      PROVE /\ Allocated(AddrOf(i))'
            /\ heap'[AddrOf(i)'].sequence = pendingFunctors_'[i].id[2]
            /\ \A e \in timers_' \cup expired' : e[2] # AddrOf(i)'
  BY <1>1, <1>2 DEF StateInv, PendingInv, Allocated
<1>3. \A i, j \in 1 .. Len(pendingFunctors_') :
        IsAdd(i)' /\ IsAdd(j)' /\ AddrOf(i)' = AddrOf(j)' => i = j
  BY <1>1 DEF StateInv, PendingInv
<1>4. pendingFunctors_' \in Seq([op : {"add", "cancel"}, id : TimerIds])
  BY DEF StateInv, PendingInv
<1> QED
  BY <1>1, <1>2, <1>3, <1>4 DEF PendingInv

(* The address of a waiting functor's Timer.                                *)
LEMMA PendingAddr ==
  ASSUME StateInv, NEW i \in 1 .. Len(pendingFunctors_)
  PROVE /\ pendingFunctors_[i] \in [op : {"add", "cancel"}, id : TimerIds]
        /\ pendingFunctors_[i].id \in TimerIds
        /\ AddrOf(i) \in Addrs
<1> DEFINE F == [op : {"add", "cancel"}, id : TimerIds]
<1>1. pendingFunctors_[i] \in F
  <2>1. pendingFunctors_ \in Seq(F)
    BY DEF StateInv, PendingInv
  <2> HIDE DEF F
  <2> QED
    BY <2>1
<1>2. pendingFunctors_[i].id \in TimerIds
  BY <1>1
<1> QED
  BY <1>1, <1>2 DEF AddrOf, TimerIds

-----------------------------------------------------------------------------
(* addTimer() in the loop's thread keeps the invariant.                     *)
LEMMA AddTimerStep ==
  ASSUME StateInv, NEW a \in Addrs, NEW d \in Delays, NEW v \in Intervals,
         AddTimer(a, d, v)
  PROVE StateInv'
<1> USE BoundsAssumption, DelaysAssumption
<1>T. TypeOK /\ now + d \in Nat /\ v \in Nat
  BY DEF StateInv, TypeOK
<1>1. NewTimer(a, now + d, v) /\ AddTimerInLoop(a, numCreated + 1, now + d)
  BY DEF AddTimer
<1>2. /\ numCreated' \in 0 .. MaxTimers /\ numCreated' = numCreated + 1
      /\ heap' \in [Addrs -> Timers]
      /\ ~Allocated(a) /\ Allocated(a)'
      /\ heap'[a].sequence = numCreated + 1 /\ heap'[a].expiration = now + d
      /\ \A b \in Addrs : b # a => heap'[b] = heap[b]
      /\ HeapInv'
  BY <1>T, <1>1, TimerCreated
<1>3. numCreated + 1 \in Sequences_
  BY <1>2, <1>T DEF TypeOK, Sequences_
<1>4. \A e \in timers_ \cup expired : e[2] # a
  BY <1>2 DEF StateInv, FiledInv
<1>5. /\ timers_' = timers_ \cup {<<now + d, a>>}
      /\ timers_' \in SUBSET (Nat \X Addrs)
      /\ activeTimers_' \in SUBSET (Addrs \X Sequences_)
      /\ FiledInv' /\ ActiveInv'
  <2>1. expired' = expired
    BY DEF AddTimer, batchVars
  <2> QED
    BY <1>T, <1>1, <1>2, <1>3, <1>4, <2>1, TimerAdded
<1>6. deadline' \in Int /\ readable' \in BOOLEAN
  BY <1>1, <1>T, Armed DEF AddTimerInLoop, TypeOK
<1>7. TypeOK'
  <2>1. ids' \in SUBSET TimerIds
    BY <1>2, <1>T DEF AddTimer, TypeOK, TimerIds
  <2> QED
    BY <1>T, <1>2, <1>5, <1>6, <2>1 DEF TypeOK, AddTimer, batchVars, Timers
<1>8. BatchInv'
  BY DEF StateInv, BatchInv, AddTimer, batchVars
<1>9. PendingInv'
  <2>1. ASSUME NEW i \in 1 .. Len(pendingFunctors_), IsAdd(i)
        PROVE /\ heap'[AddrOf(i)] = heap[AddrOf(i)]
              /\ \A e \in timers_' \cup expired' : e[2] # AddrOf(i)
    <3>1. AddrOf(i) \in Addrs /\ AddrOf(i) # a
      BY <2>1, <1>2, PendingAddr DEF StateInv, PendingInv
    <3> QED
      BY <2>1, <3>1, <1>2, <1>5
      DEF StateInv, PendingInv, AddTimer, batchVars
  <2> QED
    BY <2>1, PendingKept DEF AddTimer
<1>10. CancelInv'
  <2>1. cancelled' = cancelled /\ expired' = expired
        /\ cancelingTimers_' = cancelingTimers_
    BY DEF AddTimer, batchVars
  <2>2. numCreated + 1 \notin cancelled /\ cancelled \subseteq 1 .. numCreated'
    BY <1>2, <1>T DEF StateInv, CancelInv, TypeOK
  <2> QED
    BY <2>1, <2>2, <1>2 DEF StateInv, CancelInv, Allocated
<1> QED
  BY <1>2, <1>5, <1>7, <1>8, <1>9, <1>10 DEF StateInv

(* addTimer() in another thread keeps the invariant.                        *)
LEMMA AddTimerFromStep ==
  ASSUME StateInv, NEW t \in Threads, NEW a \in Addrs, NEW d \in Delays,
         NEW v \in Intervals, AddTimerFrom(t, a, d, v)
  PROVE StateInv'
<1> USE BoundsAssumption, DelaysAssumption
<1>T. TypeOK /\ now + d \in Nat /\ v \in Nat
  BY DEF StateInv, TypeOK
<1>2. /\ numCreated' \in 0 .. MaxTimers /\ numCreated' = numCreated + 1
      /\ heap' \in [Addrs -> Timers]
      /\ ~Allocated(a) /\ Allocated(a)'
      /\ heap'[a].sequence = numCreated + 1 /\ heap'[a].expiration = now + d
      /\ \A b \in Addrs : b # a => heap'[b] = heap[b]
      /\ HeapInv'
  BY <1>T, TimerCreated DEF AddTimerFrom
<1> DEFINE id == <<a, numCreated + 1>>
           new == [op |-> "add", id |-> id]
<1>3. id \in TimerIds /\ new \in [op : {"add", "cancel"}, id : TimerIds]
  BY <1>2, <1>T DEF TypeOK, TimerIds
<1>4. /\ UNCHANGED <<now, clockSets, setVars, cancelingTimers_, deadline,
                     readable, pc,
                     batchVars, ids, cancelled>>
      /\ pendingFunctors_' = Append(pendingFunctors_, new)
      /\ returning' = [returning EXCEPT ![t] = id]
  BY DEF AddTimerFrom
<1>5. \A e \in timers_ \cup expired :
         e[2] \in Addrs /\ e[2] # a /\ heap'[e[2]] = heap[e[2]]
  BY <1>T, <1>2, EntryPair DEF TypeOK, StateInv, FiledInv
<1>6. TypeOK'
  BY <1>T, <1>2, <1>3, <1>4 DEF TypeOK, setVars, batchVars, Timers
<1>7. FiledInv'
  BY <1>4, <1>5 DEF StateInv, FiledInv, Allocated, setVars, batchVars
<1>8. ActiveInv'
  <2>1. \A e \in timers_ : Seq_(e)' \in activeTimers_'
    BY <1>4, <1>5 DEF StateInv, ActiveInv, Seq_, setVars
  <2>2. ASSUME NEW at \in activeTimers_
        PROVE /\ <<heap'[at[1]].expiration, at[1]>> \in timers_
              /\ heap'[at[1]].sequence = at[2]
    <3>1. <<heap[at[1]].expiration, at[1]>> \in timers_
      BY DEF StateInv, ActiveInv
    <3>2. heap'[at[1]] = heap[at[1]]
      BY <3>1, <1>5
    <3> QED
      BY <3>1, <3>2 DEF StateInv, ActiveInv
  <2> QED
    BY <2>1, <2>2, <1>4 DEF ActiveInv, setVars
<1>9. BatchInv'
  BY <1>4 DEF StateInv, BatchInv, batchVars
<1>10. PendingInv'
  <2>0. PICK n : n = Len(pendingFunctors_)
    OBVIOUS
  <2>1. /\ pendingFunctors_' \in Seq([op : {"add", "cancel"}, id : TimerIds])
        /\ Len(pendingFunctors_') = n + 1 /\ n \in Nat
        /\ \A i \in 1 .. n : pendingFunctors_'[i] = pendingFunctors_[i]
        /\ pendingFunctors_'[n + 1] = new
    BY <2>0, <1>3, <1>4 DEF StateInv, PendingInv
  <2>2. \A i \in 1 .. n : /\ IsAdd(i)' <=> IsAdd(i)
                          /\ AddrOf(i)' = AddrOf(i)
                          /\ IsAdd(i) => AddrOf(i) # a
                          /\ AddrOf(i) \in Addrs
    BY <2>0, <2>1, <1>2, PendingAddr DEF StateInv, PendingInv, IsAdd, AddrOf
  <2>3. IsAdd(n + 1)' /\ AddrOf(n + 1)' = a
    BY <2>1 DEF IsAdd, AddrOf
  <2>4. \A i \in 1 .. Len(pendingFunctors_') : i = n + 1 \/ i \in 1 .. n
    BY <2>1
  <2>5. ASSUME NEW i \in 1 .. n, IsAdd(i)
        PROVE /\ Allocated(AddrOf(i))'
              /\ heap'[AddrOf(i)'].sequence = pendingFunctors_'[i].id[2]
              /\ \A e \in timers_' \cup expired' : e[2] # AddrOf(i)'
    <3>1. heap'[AddrOf(i)] = heap[AddrOf(i)]
      BY <2>2, <2>5, <1>2
    <3>2. timers_' = timers_ /\ expired' = expired
      BY <1>4 DEF setVars, batchVars
    <3> QED
      BY <3>1, <3>2, <2>0, <2>1, <2>2, <2>5
      DEF StateInv, PendingInv, Allocated
  <2>6. /\ Allocated(AddrOf(n + 1))'
        /\ heap'[AddrOf(n + 1)'].sequence = pendingFunctors_'[n + 1].id[2]
        /\ \A e \in timers_' \cup expired' : e[2] # AddrOf(n + 1)'
    BY <2>1, <2>3, <1>2, <1>4, <1>5 DEF setVars, batchVars, Allocated
  <2>7. \A i, j \in 1 .. Len(pendingFunctors_') :
          IsAdd(i)' /\ IsAdd(j)' /\ AddrOf(i)' = AddrOf(j)' => i = j
    BY <2>0, <2>2, <2>3, <2>4 DEF StateInv, PendingInv
  <2> QED
    BY <2>1, <2>2, <2>4, <2>5, <2>6, <2>7 DEF PendingInv
<1>11. CancelInv'
  <2>2. numCreated + 1 \notin cancelled /\ cancelled \subseteq 1 .. numCreated'
    BY <1>2, <1>T DEF StateInv, CancelInv, TypeOK
  <2> QED
    BY <2>2, <1>2, <1>4 DEF StateInv, CancelInv, Allocated, batchVars
<1> QED
  BY <1>2, <1>6, <1>7, <1>8, <1>9, <1>10, <1>11 DEF StateInv

(* cancelInLoop() takes no Timer away from a functor that waits.            *)
LEMMA CancelSparesPending ==
  ASSUME StateInv, NEW id \in TimerIds, CancelInLoop(id),
         UNCHANGED <<numCreated, expired>>,
         NEW i \in 1 .. Len(pendingFunctors_), IsAdd(i)
  PROVE /\ heap'[AddrOf(i)] = heap[AddrOf(i)]
        /\ \A e \in timers_' \cup expired' : e[2] # AddrOf(i)
<1>1. AddrOf(i) \in Addrs /\ \A e \in timers_ \cup expired : e[2] # AddrOf(i)
  BY PendingAddr DEF StateInv, PendingInv
<1>2. /\ timers_' \subseteq timers_
      /\ heap'[AddrOf(i)] = heap[AddrOf(i)] \/
           <<heap[AddrOf(i)].expiration, AddrOf(i)>> \in timers_
  BY <1>1, TimerCancelled
<1> QED
  BY <1>1, <1>2

(* cancel() in the loop's thread keeps the invariant.                       *)
LEMMA CancelStep ==
  ASSUME StateInv, NEW id \in ids, Cancel(id)
  PROVE StateInv'
<1>1. id \in TimerIds /\ CancelInLoop(id)
  BY DEF StateInv, TypeOK, Cancel
<1>2. UNCHANGED <<now, clockSets, numCreated, deadline, readable, pc,
                  batchVars,
                  pendingFunctors_, returning, ids>>
  BY DEF Cancel
<1>3. UNCHANGED <<numCreated, expired>>
  BY <1>2 DEF batchVars
<1>4. /\ heap' \in [Addrs -> Timers]
      /\ timers_' \subseteq timers_ /\ activeTimers_' \subseteq activeTimers_
      /\ cancelingTimers_' \in SUBSET TimerIds
      /\ cancelled' \in SUBSET Sequences_
      /\ HeapInv' /\ FiledInv' /\ ActiveInv' /\ CancelInv'
  BY <1>1, <1>3, TimerCancelled
<1>5. TypeOK'
  BY <1>2, <1>4 DEF StateInv, TypeOK, batchVars, Timers
<1>6. BatchInv'
  BY <1>2 DEF StateInv, BatchInv, batchVars
<1>7. PendingInv'
  BY <1>1, <1>2, <1>3, CancelSparesPending, PendingKept
<1> QED
  BY <1>4, <1>5, <1>6, <1>7 DEF StateInv

(* cancel() in another thread queues a functor without a Timer of its own.  *)
LEMMA CancelFromStep ==
  ASSUME StateInv, NEW t \in Threads, NEW id \in ids, CancelFrom(t, id)
  PROVE StateInv'
<1> DEFINE F == [op : {"add", "cancel"}, id : TimerIds]
           new == [op |-> "cancel", id |-> id]
<1>1. new \in F
  BY DEF StateInv, TypeOK
<1>2. /\ UNCHANGED <<now, clockSets, heap, numCreated, setVars,
                     cancelingTimers_,
                     deadline, readable, pc, batchVars, returning, ids,
                     cancelled>>
      /\ pendingFunctors_' = Append(pendingFunctors_, new)
  BY DEF CancelFrom
<1>3. TypeOK' /\ HeapInv' /\ FiledInv' /\ ActiveInv' /\ BatchInv' /\ CancelInv'
  BY <1>2 DEF StateInv, TypeOK, HeapInv, FiledInv, ActiveInv, BatchInv,
              CancelInv, Allocated, Seq_, setVars, batchVars
<1>4. PendingInv'
  <2>0. PICK n : n = Len(pendingFunctors_)
    OBVIOUS
  <2>1. /\ pendingFunctors_' \in Seq(F)
        /\ Len(pendingFunctors_') = n + 1 /\ n \in Nat
        /\ \A i \in 1 .. n : pendingFunctors_'[i] = pendingFunctors_[i]
        /\ pendingFunctors_'[n + 1] = new
    <3>1. pendingFunctors_ \in Seq(F)
      BY DEF StateInv, PendingInv
    <3> HIDE DEF F, new
    <3> QED
      BY <3>1, <2>0, <1>1, <1>2
  <2>2. ~IsAdd(n + 1)'
    BY <2>1 DEF IsAdd
  <2>3. \A i \in 1 .. n :
          (IsAdd(i)' <=> IsAdd(i)) /\ AddrOf(i)' = AddrOf(i)
    BY <2>1 DEF IsAdd, AddrOf
  <2>4. \A i \in 1 .. Len(pendingFunctors_') : IsAdd(i)' => i \in 1 .. n
    BY <2>1, <2>2
  <2>5. ASSUME NEW i \in 1 .. n, IsAdd(i)
        PROVE /\ Allocated(AddrOf(i))'
              /\ heap'[AddrOf(i)'].sequence = pendingFunctors_'[i].id[2]
              /\ \A e \in timers_' \cup expired' : e[2] # AddrOf(i)'
    BY <2>0, <2>1, <2>3, <2>5, <1>2
    DEF StateInv, PendingInv, Allocated, setVars, batchVars
  <2>6. \A i, j \in 1 .. Len(pendingFunctors_') :
          IsAdd(i)' /\ IsAdd(j)' /\ AddrOf(i)' = AddrOf(j)' => i = j
    BY <2>0, <2>3, <2>4 DEF StateInv, PendingInv
  <2> QED
    BY <2>1, <2>3, <2>4, <2>5, <2>6 DEF PendingInv
<1> QED
  BY <1>3, <1>4 DEF StateInv

(* addTimer() in another thread returns an id, right or wrong.              *)
LEMMA ReturnTimerIdStep ==
  ASSUME StateInv, NEW t \in Threads, ReturnTimerId(t)
  PROVE StateInv'
<1>1. UNCHANGED <<now, clockSets, heap, numCreated, setVars,
                  cancelingTimers_, deadline, readable, pc, batchVars,
                  pendingFunctors_, cancelled>>
  BY DEF ReturnTimerId
<1>2. ids' \in SUBSET TimerIds
  <2>1. returning[t] \in TimerIds
    BY DEF ReturnTimerId, StateInv, TypeOK
  <2>2. returning[t][1] \in Addrs
    BY <2>1 DEF TimerIds
  <2> QED
    BY <2>2 DEF ReturnTimerId, StateInv, TypeOK, TimerIds
<1>3. TypeOK'
  <2>1. returning' \in [Threads -> TimerIds \cup {NoTimer}]
    BY DEF ReturnTimerId, StateInv, TypeOK
  <2> QED
    BY <1>1, <1>2, <2>1 DEF StateInv, TypeOK, setVars, batchVars
<1>4. HeapInv' /\ FiledInv' /\ ActiveInv' /\ BatchInv' /\ CancelInv'
  BY <1>1 DEF StateInv, HeapInv, FiledInv, ActiveInv, BatchInv,
              CancelInv, Allocated, Seq_, setVars, batchVars
<1>5. PendingInv'
  BY <1>1, PendingKept DEF StateInv, PendingInv, setVars, batchVars
<1> QED
  BY <1>3, <1>4, <1>5 DEF StateInv

(* The functors behind the one that runs keep their Timers.                 *)
LEMMA PendingShifted ==
  ASSUME StateInv, pendingFunctors_ # <<>>,
         pendingFunctors_' = Tail(pendingFunctors_),
         \A i \in 2 .. Len(pendingFunctors_) : IsAdd(i) =>
           /\ heap'[AddrOf(i)] = heap[AddrOf(i)]
           /\ \A e \in timers_' \cup expired' : e[2] # AddrOf(i)
  PROVE PendingInv'
<1> DEFINE F == [op : {"add", "cancel"}, id : TimerIds]
<1>0. PICK n : n = Len(pendingFunctors_)
  OBVIOUS
<1>1. /\ pendingFunctors_' \in Seq(F)
      /\ n \in Nat \ {0} /\ Len(pendingFunctors_') = n - 1
      /\ \A i \in 1 .. n - 1 : pendingFunctors_'[i] = pendingFunctors_[i + 1]
  <2>1. pendingFunctors_ \in Seq(F)
    BY DEF StateInv, PendingInv
  <2> HIDE DEF F
  <2> QED
    BY <2>1, <1>0
<1>2. \A i \in 1 .. n - 1 : /\ i + 1 \in 2 .. n /\ i + 1 \in 1 .. n
                            /\ IsAdd(i)' <=> IsAdd(i + 1)
                            /\ AddrOf(i)' = AddrOf(i + 1)
  BY <1>1 DEF IsAdd, AddrOf
<1>3. ASSUME NEW i \in 1 .. n - 1, IsAdd(i)'
      PROVE /\ Allocated(AddrOf(i))'
            /\ heap'[AddrOf(i)'].sequence = pendingFunctors_'[i].id[2]
            /\ \A e \in timers_' \cup expired' : e[2] # AddrOf(i)'
  BY <1>0, <1>1, <1>2, <1>3 DEF StateInv, PendingInv, Allocated
<1>4. \A i, j \in 1 .. n - 1 :
        IsAdd(i)' /\ IsAdd(j)' /\ AddrOf(i)' = AddrOf(j)' => i = j
  <2> SUFFICES ASSUME NEW i \in 1 .. n - 1, NEW j \in 1 .. n - 1,
                      IsAdd(i)', IsAdd(j)', AddrOf(i)' = AddrOf(j)'
               PROVE i = j
    OBVIOUS
  <2>1. i + 1 = j + 1
    BY <1>0, <1>2 DEF StateInv, PendingInv
  <2> QED
    BY <2>1
<1> QED
  BY <1>1, <1>3, <1>4 DEF PendingInv

(* A functor of addTimer() or cancel() keeps the invariant.                 *)
LEMMA RunFunctorStep ==
  ASSUME StateInv, RunFunctor
  PROVE StateInv'
<1> USE BoundsAssumption
<1>1. /\ pendingFunctors_ # <<>> /\ pendingFunctors_' = Tail(pendingFunctors_)
      /\ UNCHANGED <<now, clockSets, numCreated, pc, batchVars, returning,
                     ids>>
  BY DEF RunFunctor
<1>2. 1 \in 1 .. Len(pendingFunctors_)
      /\ Head(pendingFunctors_) = pendingFunctors_[1]
  BY <1>1 DEF StateInv, PendingInv
<1> DEFINE f == pendingFunctors_[1]
           a == f.id[1]
<1>3. f.id \in TimerIds /\ a \in Addrs /\ f.id[2] \in 0 .. MaxTimers
  BY <1>2, PendingAddr DEF TimerIds
<1>B. BatchInv'
  BY <1>1 DEF StateInv, BatchInv, batchVars
<1>4. CASE /\ f.op = "add"
           /\ AddTimerInLoop(f.id[1], f.id[2], heap[f.id[1]].expiration)
           /\ UNCHANGED <<heap, cancelingTimers_, cancelled>>
  <2> DEFINE seq == f.id[2]
             when == heap[a].expiration
  <2>1. /\ Allocated(a) /\ heap[a].sequence = seq
        /\ \A e \in timers_ \cup expired : e[2] # a
    BY <1>2, <1>4 DEF StateInv, PendingInv, IsAdd, AddrOf
  <2>2. heap \in [Addrs -> Timers] /\ when \in Nat /\ seq \in Sequences_
    BY <1>3, <2>1 DEF StateInv, TypeOK, HeapInv, Timers, Sequences_
  <2>3. AddTimerInLoop(a, seq, when) /\ expired' = expired
    BY <1>1, <1>4 DEF batchVars
  <2>4. /\ timers_' = timers_ \cup {<<when, a>>}
        /\ timers_' \in SUBSET (Nat \X Addrs)
        /\ activeTimers_' \in SUBSET (Addrs \X Sequences_)
        /\ FiledInv' /\ ActiveInv'
    <3> PICK b : b = a
      OBVIOUS
    <3> PICK s, w : s = seq /\ w = when
      OBVIOUS
    <3>1. /\ heap' \in [Addrs -> Timers]
          /\ \A c \in Addrs : c # b => heap'[c] = heap[c]
          /\ Allocated(b)' /\ heap'[b].sequence = s
          /\ heap'[b].expiration = w
      BY <1>4, <2>1, <2>2 DEF Allocated
    <3> HIDE DEF a, seq, when
    <3>2. /\ b \in Addrs /\ s \in Sequences_ /\ w \in Nat
          /\ AddTimerInLoop(b, s, w)
          /\ \A e \in timers_ \cup expired : e[2] # b
      BY <1>3, <2>1, <2>2, <2>3
    <3>3. /\ timers_' = timers_ \cup {<<w, b>>}
          /\ timers_' \in SUBSET (Nat \X Addrs)
          /\ activeTimers_' \in SUBSET (Addrs \X Sequences_)
          /\ FiledInv' /\ ActiveInv'
      BY <2>3, <3>1, <3>2, TimerAdded
    <3> QED
      BY <3>3
  <2>5. deadline' \in Int /\ readable' \in BOOLEAN
    BY <2>2, <2>3, Armed DEF AddTimerInLoop, StateInv, TypeOK
  <2>6. TypeOK'
    BY <1>1, <1>4, <2>4, <2>5 DEF StateInv, TypeOK, batchVars
  <2>7. PendingInv'
    <3>1. ASSUME NEW i \in 2 .. Len(pendingFunctors_), IsAdd(i)
          PROVE /\ heap'[AddrOf(i)] = heap[AddrOf(i)]
                /\ \A e \in timers_' \cup expired' : e[2] # AddrOf(i)
      <4>1. i \in 1 .. Len(pendingFunctors_) /\ i # 1
        BY <1>2
      <4>2. AddrOf(i) # a
        BY <1>2, <1>4, <3>1, <4>1 DEF StateInv, PendingInv, IsAdd, AddrOf
      <4>3. \A e \in timers_ \cup expired : e[2] # AddrOf(i)
        BY <3>1, <4>1 DEF StateInv, PendingInv
      <4> QED
        BY <1>4, <2>3, <2>4, <4>2, <4>3
    <3> QED
      BY <1>1, <3>1, PendingShifted
  <2>8. HeapInv' /\ CancelInv'
    BY <1>1, <1>4 DEF StateInv, HeapInv, CancelInv, Allocated, batchVars
  <2> QED
    BY <1>B, <2>4, <2>6, <2>7, <2>8 DEF StateInv
<1>5. CASE /\ f.op = "cancel"
           /\ CancelInLoop(f.id)
           /\ UNCHANGED <<deadline, readable>>
  <2>0. PICK id \in TimerIds : id = f.id
    BY <1>3
  <2>1. CancelInLoop(id) /\ UNCHANGED <<numCreated, expired>>
    BY <1>1, <1>5, <2>0 DEF batchVars
  <2>2. /\ heap' \in [Addrs -> Timers]
        /\ timers_' \subseteq timers_
        /\ activeTimers_' \subseteq activeTimers_
        /\ cancelingTimers_' \in SUBSET TimerIds
        /\ cancelled' \in SUBSET Sequences_
        /\ HeapInv' /\ FiledInv' /\ ActiveInv' /\ CancelInv'
    BY <2>1, TimerCancelled
  <2>3. TypeOK'
    BY <1>1, <1>5, <2>2 DEF StateInv, TypeOK, batchVars, Timers
  <2>4. PendingInv'
    <3>1. \A i \in 2 .. Len(pendingFunctors_) :
            i \in 1 .. Len(pendingFunctors_)
      OBVIOUS
    <3> QED
      BY <1>1, <2>1, <3>1, CancelSparesPending, PendingShifted
  <2> QED
    BY <1>B, <2>2, <2>3, <2>4 DEF StateInv
<1> QED
  BY <1>2, <1>4, <1>5 DEF RunFunctor

(* getExpired() moves the timers that are due from the sets to the batch.   *)
LEMMA HandleReadStep ==
  ASSUME StateInv, HandleRead
  PROVE StateInv'
<1>1. /\ UNCHANGED <<now, clockSets, heap, numCreated, deadline,
                     pendingFunctors_,
                     returning, ids, cancelled>>
      /\ pc = "reported" /\ pc' = "batch" /\ callingExpiredTimers_' = TRUE
      /\ readable' = FALSE /\ expiredAt' = now /\ cancelingTimers_' = {}
      /\ toRun' = expired' /\ expired' = Due
      /\ timers_' = timers_ \ Due
      /\ activeTimers_' = activeTimers_ \ {Seq_(e) : e \in Due}
  BY DEF HandleRead, GetExpired
<1>2. Due \subseteq timers_ /\ expired = {}
  BY <1>1 DEF Due, StateInv, BatchInv
<1>E. \A e \in timers_ : /\ e[2] \in Addrs /\ e = <<e[1], e[2]>>
                         /\ Allocated(e[2]) /\ heap[e[2]].expiration = e[1]
  BY EntryPair DEF StateInv, TypeOK, FiledInv
<1>3. TypeOK'
  BY <1>1, <1>2 DEF StateInv, TypeOK
<1>4. HeapInv' /\ BatchInv'
  BY <1>1 DEF StateInv, HeapInv, BatchInv, Allocated
<1>5. FiledInv'
  BY <1>1, <1>2, <1>E DEF FiledInv, Allocated
<1>6. ActiveInv'
  <2>1. ASSUME NEW e \in timers_ \ Due
        PROVE Seq_(e) \in activeTimers_ /\ Seq_(e) \notin {Seq_(d) : d \in Due}
    BY <1>2, <1>E DEF StateInv, ActiveInv, Seq_
  <2>2. ASSUME NEW at \in activeTimers_, at \notin {Seq_(d) : d \in Due}
        PROVE /\ <<heap[at[1]].expiration, at[1]>> \in timers_ \ Due
              /\ heap[at[1]].sequence = at[2]
    <3>1. /\ <<heap[at[1]].expiration, at[1]>> \in timers_
          /\ heap[at[1]].sequence = at[2] /\ at = <<at[1], at[2]>>
      BY DEF StateInv, ActiveInv, TypeOK
    <3>2. Seq_(<<heap[at[1]].expiration, at[1]>>) = at
      BY <3>1 DEF Seq_
    <3> QED
      BY <3>1, <3>2, <2>2
  <2> QED
    BY <2>1, <2>2, <1>1 DEF ActiveInv, Seq_
<1>7. PendingInv'
  BY <1>1, <1>2, PendingKept DEF StateInv, PendingInv
<1>8. CancelInv'
  BY <1>1, <1>2 DEF StateInv, CancelInv, Allocated
<1> QED
  BY <1>3, <1>4, <1>5, <1>6, <1>7, <1>8 DEF StateInv

(* Polling, starting and ending a callback, and the clocks, touch no timer. *)
LEMMA QuietStep ==
  ASSUME StateInv,
         \/ RunTimer \/ CallbackReturn \/ Poll \/ Tick \/ UNCHANGED vars
         \/ \E time \in 0 .. MaxTime : SetClock(time)
  PROVE StateInv'
<1>1. UNCHANGED <<heap, numCreated, timers_, activeTimers_,
                  cancelingTimers_, callingExpiredTimers_, expired,
                  expiredAt, pendingFunctors_, returning, ids, cancelled>>
  BY DEF RunTimer, CallbackReturn, Poll, Tick, SetClock, vars, setVars,
         batchVars
<1>2. HeapInv' /\ FiledInv' /\ ActiveInv' /\ CancelInv'
  BY <1>1 DEF StateInv, HeapInv, FiledInv, ActiveInv, CancelInv, Allocated,
              Seq_
<1>3. PendingInv'
  BY <1>1, PendingKept DEF StateInv, PendingInv
<1>4. BatchInv'
  BY <1>1 DEF StateInv, BatchInv, RunTimer, CallbackReturn, Poll, Tick,
              SetClock, vars, batchVars
<1>5. TypeOK'
  <2>1. now' \in 0 .. MaxTime
    BY BoundsAssumption DEF StateInv, TypeOK, RunTimer, CallbackReturn, Poll,
                            Tick, SetClock, vars
  <2>2. deadline' \in Int /\ readable' \in BOOLEAN
    <3>1. Disarmed \in Int
      BY BoundsAssumption, MinDelayAssumption DEF Disarmed
    <3>2. \/ deadline' = Disarmed /\ readable' = TRUE
          \/ UNCHANGED <<deadline, readable>>
          \/ \E time \in 0 .. MaxTime : SetClock(time)
      BY DEF RunTimer, CallbackReturn, Poll, Tick, vars
    <3>3. ASSUME NEW time \in 0 .. MaxTime, SetClock(time)
          PROVE deadline' \in Int /\ readable' \in BOOLEAN
      BY <3>1, <3>3, BoundsAssumption DEF SetClock, StateInv, TypeOK
    <3>4. deadline \in Int /\ readable \in BOOLEAN
      BY DEF StateInv, TypeOK
    <3> QED
      BY <3>1, <3>2, <3>3, <3>4
  <2>3. /\ pc' \in {"loop", "reported", "batch", "callback"}
        /\ toRun' \in SUBSET expired'
    BY DEF StateInv, TypeOK, RunTimer, CallbackReturn, Poll, Tick, SetClock,
           vars, batchVars
  <2>4. clockSets' \in 0 .. MaxClockSets
    BY BoundsAssumption DEF StateInv, TypeOK, RunTimer, CallbackReturn, Poll,
                            Tick, SetClock, vars
  <2> QED
    BY <1>1, <2>1, <2>2, <2>3, <2>4 DEF StateInv, TypeOK
<1> QED
  BY <1>2, <1>3, <1>4, <1>5 DEF StateInv

InBatch(a) == <<heap[a].expiration, a>> \in expired
Repeats(a) ==
  InBatch(a) /\ heap[a].interval > 0
    /\ <<a, heap[a].sequence>> \notin cancelingTimers_

(* What reset() does to each Timer and to the sets.                         *)
LEMMA ResetEffect ==
  ASSUME StateInv, Reset
  PROVE /\ heap' \in [Addrs -> Timers]
        /\ \A a \in Addrs :
             /\ Repeats(a) => heap'[a] = Restarted(heap[a])
             /\ InBatch(a) /\ ~Repeats(a) => heap'[a] = Freed
             /\ ~InBatch(a) => heap'[a] = heap[a]
        /\ timers_' = timers_ \cup
             {<<Restarted(heap[a]).expiration, a>> :
                a \in {b \in Addrs : Repeats(b)}}
        /\ activeTimers_' = activeTimers_ \cup
             {<<a, heap[a].sequence>> : a \in {b \in Addrs : Repeats(b)}}
<1> USE BoundsAssumption
<1> DEFINE again == {e \in expired : Restarts(e)}
           Addresses(E) == {e[2] : e \in E}
<1>1. /\ heap' = [a \in Addrs |->
              CASE a \in Addresses(again) -> Restarted(heap[a])
                [] a \in Addresses(expired \ again) -> Freed
                [] OTHER -> heap[a]]
      /\ timers_' = timers_ \cup
             {<<Restarted(heap[e[2]]).expiration, e[2]>> : e \in again}
      /\ activeTimers_' = activeTimers_ \cup {Seq_(e) : e \in again}
  BY DEF Reset
<1>E. \A e \in expired : /\ e[2] \in Addrs /\ InBatch(e[2])
                          /\ e = <<heap[e[2]].expiration, e[2]>>
  <2> SUFFICES ASSUME NEW e \in expired
               PROVE e[2] \in Addrs /\ e = <<heap[e[2]].expiration, e[2]>>
    BY DEF InBatch
  <2>1. e[2] \in Addrs /\ e = <<e[1], e[2]>>
    BY EntryPair DEF StateInv, TypeOK
  <2>2. heap[e[2]].expiration = e[1]
    BY DEF StateInv, FiledInv
  <2> QED
    BY <2>1, <2>2
<1>2. \A e \in expired : Restarts(e) <=> Repeats(e[2])
  BY <1>E DEF Restarts, Repeats, Seq_
<1>3. \A a \in Addrs : a \in Addresses(again) <=> Repeats(a)
  <2>1. ASSUME NEW a \in Addrs, Repeats(a) PROVE a \in Addresses(again)
    <3>1. <<heap[a].expiration, a>> \in again
      BY <1>2, <2>1 DEF Repeats, InBatch
    <3> QED
      BY <3>1
  <2> QED
    BY <1>2, <2>1
<1>4. \A a \in Addrs :
        a \in Addresses(expired \ again) <=> InBatch(a) /\ ~Repeats(a)
  <2>1. ASSUME NEW a \in Addrs, InBatch(a), ~Repeats(a)
        PROVE a \in Addresses(expired \ again)
    <3>1. <<heap[a].expiration, a>> \in expired \ again
      BY <1>2, <2>1 DEF InBatch
    <3> QED
      BY <3>1
  <2> QED
    BY <1>2, <1>E, <2>1
<1>5. ASSUME NEW a \in Addrs
      PROVE /\ Repeats(a) => heap'[a] = Restarted(heap[a])
            /\ InBatch(a) /\ ~Repeats(a) => heap'[a] = Freed
            /\ ~InBatch(a) => heap'[a] = heap[a]
  <2> HIDE DEF again, Addresses
  <2>1. heap'[a] = CASE a \in Addresses(again) -> Restarted(heap[a])
                     [] a \in Addresses(expired \ again) -> Freed
                     [] OTHER -> heap[a]
    BY <1>1
  <2> QED
    BY <2>1, <1>3, <1>4 DEF Repeats
<1>6. heap' \in [Addrs -> Timers]
  <2>1. ASSUME NEW a \in Addrs PROVE heap'[a] \in Timers
    <3>1. heap[a] \in Timers /\ Freed \in Timers /\ expiredAt \in Nat
      BY DEF StateInv, TypeOK, Timers, Freed
    <3>2. Restarted(heap[a]) \in Timers
      BY <3>1 DEF Restarted, Timers
    <3> QED
      BY <3>1, <3>2, <1>5
  <2>2. heap' = [a \in Addrs |-> heap'[a]]
    BY <1>1
  <2> QED
    BY <2>1, <2>2
<1>7. timers_' = timers_ \cup
        {<<Restarted(heap[a]).expiration, a>> :
           a \in {b \in Addrs : Repeats(b)}}
  <2>1. {<<Restarted(heap[e[2]]).expiration, e[2]>> : e \in again}
          = {<<Restarted(heap[a]).expiration, a>> : a \in Addresses(again)}
    OBVIOUS
  <2>2. Addresses(again) = {b \in Addrs : Repeats(b)}
    BY <1>3, <1>E
  <2> QED
    BY <1>1, <2>1, <2>2
<1>8. activeTimers_' = activeTimers_ \cup
        {<<a, heap[a].sequence>> : a \in {b \in Addrs : Repeats(b)}}
  <2>1. {Seq_(e) : e \in again}
          = {<<a, heap[a].sequence>> : a \in Addresses(again)}
    BY DEF Seq_
  <2>2. Addresses(again) = {b \in Addrs : Repeats(b)}
    BY <1>3, <1>E
  <2> QED
    BY <1>1, <2>1, <2>2
<1> QED
  BY <1>5, <1>6, <1>7, <1>8

(* reset() keeps the invariant.                                             *)
LEMMA ResetStep ==
  ASSUME StateInv, Reset
  PROVE StateInv'
<1> USE BoundsAssumption
<1>1. /\ heap' \in [Addrs -> Timers]
      /\ \A a \in Addrs :
           /\ Repeats(a) => heap'[a] = Restarted(heap[a])
           /\ InBatch(a) /\ ~Repeats(a) => heap'[a] = Freed
           /\ ~InBatch(a) => heap'[a] = heap[a]
      /\ timers_' = timers_ \cup {<<Restarted(heap[a]).expiration, a>> :
                                    a \in {b \in Addrs : Repeats(b)}}
      /\ activeTimers_' = activeTimers_ \cup
           {<<a, heap[a].sequence>> : a \in {b \in Addrs : Repeats(b)}}
  BY ResetEffect
<1>2. /\ UNCHANGED <<now, clockSets, numCreated, cancelingTimers_, toRun,
                     expiredAt,
                     pendingFunctors_, returning, ids, cancelled>>
      /\ expired' = {} /\ toRun = {} /\ pc' = "loop"
      /\ callingExpiredTimers_' = FALSE
  BY DEF Reset, BatchDone
<1>T. /\ heap \in [Addrs -> Timers] /\ expiredAt \in Nat
      /\ timers_ \in SUBSET (Nat \X Addrs)
      /\ activeTimers_ \in SUBSET (Addrs \X Sequences_)
  BY DEF StateInv, TypeOK, Timers
<1>3. \A a \in Addrs :
        /\ Restarted(heap[a]).sequence = heap[a].sequence
        /\ Restarted(heap[a]).expiration \in Nat
  BY <1>T DEF Restarted, Timers
<1>4. \A a \in Addrs : InBatch(a) => Allocated(a)
  BY DEF InBatch, StateInv, FiledInv
(* Each Timer that is left has kept its sequence number.                    *)
<1>5. \A a \in Addrs : Allocated(a)' =>
        /\ Allocated(a) /\ heap'[a].sequence = heap[a].sequence
        /\ InBatch(a) => Repeats(a)
  BY <1>1, <1>3, <1>4 DEF Allocated
<1>6. \A a \in Addrs : Repeats(a) =>
        Allocated(a)' /\ heap[a].sequence \in Sequences_
  <2> SUFFICES ASSUME NEW a \in Addrs, Repeats(a)
               PROVE Allocated(a)' /\ heap[a].sequence \in Sequences_
    OBVIOUS
  <2>1. heap[a].sequence \in 1 .. numCreated /\ numCreated \in 0 .. MaxTimers
    BY <1>4 DEF Repeats, StateInv, HeapInv, TypeOK
  <2>2. heap'[a].sequence # 0
    BY <2>1, <1>1, <1>3
  <2> QED
    BY <2>1, <2>2 DEF Allocated, Freed, Sequences_
<1>7. \A e \in timers_ :
        e[2] \in Addrs /\ ~InBatch(e[2]) /\ heap'[e[2]] = heap[e[2]]
  <2> SUFFICES ASSUME NEW e \in timers_
               PROVE e[2] \in Addrs /\ ~InBatch(e[2])
    BY <1>1
  <2>1. e[2] \in Addrs
    BY <1>T, EntryPair
  <2>2. ASSUME InBatch(e[2]) PROVE FALSE
    BY <2>2 DEF InBatch, StateInv, FiledInv
  <2> QED
    BY <2>1, <2>2
<1>8. HeapInv'
  BY <1>2, <1>5 DEF StateInv, HeapInv
<1>9. FiledInv'
  <2>1. ASSUME NEW e \in timers_'
        PROVE Allocated(e[2])' /\ heap'[e[2]].expiration = e[1]
    <3>1. CASE e \in timers_
      BY <3>1, <1>7 DEF StateInv, FiledInv, Allocated
    <3>2. CASE e \notin timers_
      <4>1. PICK a \in Addrs : /\ Repeats(a)
                               /\ e = <<Restarted(heap[a]).expiration, a>>
        BY <3>2, <1>1
      <4> QED
        BY <4>1, <1>1, <1>6
    <3> QED
      BY <3>1, <3>2
  <2> QED
    BY <2>1, <1>2 DEF FiledInv
<1>10. ActiveInv'
  <2>1. ASSUME NEW e \in timers_' PROVE Seq_(e)' \in activeTimers_'
    <3>1. CASE e \in timers_
      BY <3>1, <1>1, <1>7 DEF StateInv, ActiveInv, Seq_
    <3>2. CASE e \notin timers_
      <4>1. PICK a \in Addrs : /\ Repeats(a)
                               /\ e = <<Restarted(heap[a]).expiration, a>>
        BY <3>2, <1>1
      <4>2. Seq_(e)' = <<a, heap[a].sequence>>
        BY <4>1, <1>1, <1>3 DEF Seq_
      <4> QED
        BY <4>1, <4>2, <1>1
    <3> QED
      BY <3>1, <3>2
  <2>2. ASSUME NEW at \in activeTimers_'
        PROVE /\ <<heap'[at[1]].expiration, at[1]>> \in timers_'
              /\ heap'[at[1]].sequence = at[2]
    <3>1. CASE at \in activeTimers_
      <4>1. /\ <<heap[at[1]].expiration, at[1]>> \in timers_
            /\ heap[at[1]].sequence = at[2]
        BY <3>1 DEF StateInv, ActiveInv
      <4>2. heap'[at[1]] = heap[at[1]]
        BY <4>1, <1>7
      <4> QED
        BY <4>1, <4>2, <1>1
    <3>2. CASE at \notin activeTimers_
      <4>1. PICK a \in Addrs : Repeats(a) /\ at = <<a, heap[a].sequence>>
        BY <3>2, <1>1
      <4>2. at[1] = a /\ at[2] = heap[a].sequence
        BY <4>1
      <4>3. heap'[a] = Restarted(heap[a])
        BY <4>1, <1>1
      <4> QED
        BY <4>1, <4>2, <4>3, <1>1, <1>3
    <3> QED
      BY <3>1, <3>2
  <2> QED
    BY <2>1, <2>2 DEF ActiveInv
<1>11. BatchInv'
  BY <1>2 DEF BatchInv
<1>12. PendingInv'
  <2>1. ASSUME NEW i \in 1 .. Len(pendingFunctors_), IsAdd(i)
        PROVE /\ heap'[AddrOf(i)] = heap[AddrOf(i)]
              /\ \A e \in timers_' : e[2] # AddrOf(i)
    <3>1. AddrOf(i) \in Addrs /\ ~InBatch(AddrOf(i))
      BY <2>1, PendingAddr DEF StateInv, PendingInv, InBatch
    <3>2. ASSUME NEW e \in timers_' PROVE e[2] # AddrOf(i)
      <4>1. CASE e \in timers_
        BY <2>1, <4>1 DEF StateInv, PendingInv
      <4>2. CASE e \notin timers_
        <5>1. PICK a \in Addrs : /\ Repeats(a)
                                 /\ e = <<Restarted(heap[a]).expiration, a>>
          BY <4>2, <1>1
        <5> QED
          BY <5>1, <3>1 DEF Repeats
      <4> QED
        BY <4>1, <4>2
    <3> QED
      BY <3>1, <3>2, <1>1
  <2> QED
    BY <2>1, <1>2, PendingKept
<1>13. CancelInv'
  <2>1. ASSUME NEW a \in Addrs, Allocated(a)', heap'[a].sequence \in cancelled
        PROVE FALSE
    <3>1. /\ Allocated(a) /\ heap[a].sequence \in cancelled
          /\ InBatch(a) => Repeats(a)
      BY <2>1, <1>5
    <3>2. InBatch(a) /\ <<a, heap[a].sequence>> \in cancelingTimers_
      BY <3>1 DEF StateInv, CancelInv, InBatch
    <3> QED
      BY <3>1, <3>2 DEF Repeats
  <2> QED
    BY <2>1, <1>2 DEF StateInv, CancelInv
<1>14. TypeOK'
  <2>1. timers_' \in SUBSET (Nat \X Addrs)
    BY <1>1, <1>3, <1>T
  <2>2. activeTimers_' \in SUBSET (Addrs \X Sequences_)
    BY <1>1, <1>6, <1>T
  <2>3. deadline' \in Int /\ readable' \in BOOLEAN
    <3>1. CASE expired # {} /\ timers_' # {}
      <4>1. First(timers_') \in timers_'
        BY <2>1, <3>1, FirstLeast
      <4>2. First(timers_')[1] \in Nat
        BY <2>1, <4>1, EntryPair
      <4> QED
        BY <3>1, <4>2, Armed DEF Reset, StateInv
    <3>2. CASE ~(expired # {} /\ timers_' # {})
      BY <3>2 DEF Reset, StateInv, TypeOK
    <3> QED
      BY <3>1, <3>2
  <2> QED
    BY <1>1, <1>2, <2>1, <2>2, <2>3 DEF StateInv, TypeOK, Timers
<1> QED
  BY <1>8, <1>9, <1>10, <1>11, <1>12, <1>13, <1>14 DEF StateInv

-----------------------------------------------------------------------------
(* The initial states satisfy the invariant.                                *)
LEMMA StateInit == Init => StateInv
<1> SUFFICES ASSUME Init PROVE StateInv
  OBVIOUS
<1> USE BoundsAssumption, MinDelayAssumption
<1>1. heap \in [Addrs -> Timers] /\ \A a \in Addrs : ~Allocated(a)
  BY DEF Init, Timers, Freed, Allocated
<1>2. Disarmed \in Nat
  BY DEF Disarmed
<1>3. TypeOK
  <2>1. returning \in [Threads -> TimerIds \cup {NoTimer}]
    BY DEF Init
  <2>2. now \in 0 .. MaxTime /\ numCreated \in 0 .. MaxTimers
        /\ expiredAt \in 0 .. MaxTime
    BY DEF Init
  <2>3. heap \in [Addrs -> [sequence : 0 .. MaxTimers, expiration : Nat,
                            interval : Nat]]
    BY <1>1 DEF Timers
  <2>4. deadline \in Int /\ clockSets \in 0 .. MaxClockSets
    BY <1>2 DEF Init
  <2> QED
    BY <2>1, <2>2, <2>3, <2>4 DEF Init, TypeOK
<1>4. HeapInv /\ FiledInv /\ ActiveInv /\ BatchInv /\ CancelInv
  BY <1>1 DEF Init, HeapInv, FiledInv, ActiveInv, BatchInv, CancelInv
<1>5. PendingInv
  BY DEF Init, PendingInv
<1> QED
  BY <1>3, <1>4, <1>5 DEF StateInv

(* Every action keeps the invariant.                                        *)
LEMMA StateStep == StateInv /\ [Next]_vars => StateInv'
<1> SUFFICES ASSUME StateInv, [Next]_vars PROVE StateInv'
  OBVIOUS
<1>1. CASE \/ RunTimer \/ CallbackReturn \/ Poll \/ Tick \/ UNCHANGED vars
           \/ \E time \in 0 .. MaxTime : SetClock(time)
  BY <1>1, QuietStep
<1>2. CASE RunFunctor
  BY <1>2, RunFunctorStep
<1>3. CASE HandleRead
  BY <1>3, HandleReadStep
<1>4. CASE Reset
  BY <1>4, ResetStep
<1>5. ASSUME NEW a \in Addrs, NEW d \in Delays, NEW v \in Intervals,
             AddTimer(a, d, v) \/ \E t \in Threads : AddTimerFrom(t, a, d, v)
      PROVE StateInv'
  BY <1>5, AddTimerStep, AddTimerFromStep
<1>6. ASSUME NEW id \in ids, Cancel(id) \/ \E t \in Threads : CancelFrom(t, id)
      PROVE StateInv'
  BY <1>6, CancelStep, CancelFromStep
<1>7. ASSUME NEW t \in Threads, ReturnTimerId(t) PROVE StateInv'
  BY <1>7, ReturnTimerIdStep
<1> QED
  BY <1>1, <1>2, <1>3, <1>4, <1>5, <1>6, <1>7 DEF Next

-----------------------------------------------------------------------------
(* addTimerInLoop() leaves the timerfd armed for the earliest timer.        *)
LEMMA AddedAlarm ==
  ASSUME StateInv, StateInv', AlarmInv, NEW a \in Addrs, NEW seq,
         NEW when \in Nat, AddTimerInLoop(a, seq, when),
         pc = "reported" => now <= when,
         UNCHANGED <<now, clockSets, pc, expired, cancelled>>
  PROVE AlarmInv'
<1> USE BoundsAssumption, MinDelayAssumption
<1>T. /\ timers_ \in SUBSET (Nat \X Addrs)
      /\ timers_' \in SUBSET (Nat \X Addrs)
      /\ timers_' = timers_ \cup {<<when, a>>} /\ timers_' # {}
      /\ now \in Nat /\ deadline \in Int /\ deadline' \in Int
      /\ <<when, a>>[1] = when
  <2>1. /\ timers_ \in SUBSET (Nat \X Addrs)
        /\ timers_' \in SUBSET (Nat \X Addrs)
        /\ now \in Nat /\ deadline \in Int /\ deadline' \in Int
    BY DEF StateInv, TypeOK
  <2>2. timers_' = timers_ \cup {<<when, a>>}
    BY DEF AddTimerInLoop
  <2> QED
    BY <2>1, <2>2
<1>F. /\ First(timers_') \in timers_' /\ First(timers_')[1] \in Nat
      /\ \A e \in timers_' : First(timers_')[1] <= e[1]
  <2>1. /\ First(timers_') \in timers_'
        /\ \A e \in timers_' : First(timers_')[1] <= e[1]
    BY <1>T, FirstLeast
  <2> QED
    BY <1>T, <2>1, EntryPair
<1>1. CASE EarliestChanged(when)
  <2>1. /\ deadline' = Later(when, now + MinDelay) /\ readable' = FALSE
    BY <1>1, Armed DEF AddTimerInLoop, StateInv
  <2>2. when <= deadline' /\ <<when, a>> \in timers_'
    BY <2>1, <1>T DEF Later
  <2>3. First(timers_')[1] = when
    <3>1. First(timers_')[1] <= when
      BY <1>T, <1>F
    <3>2. ASSUME NEW e \in timers_ PROVE when <= e[1]
      <4>1. timers_ # {} /\ when < First(timers_)[1]
        BY <1>1 DEF EarliestChanged
      <4>2. /\ First(timers_) \in timers_ /\ First(timers_)[1] <= e[1]
        BY <1>T, <4>1, FirstLeast
      <4>3. First(timers_)[1] \in Nat /\ e[1] \in Nat
        BY <1>T, <4>2, EntryPair
      <4> QED
        BY <4>1, <4>2, <4>3
    <3>3. when <= First(timers_')[1]
      BY <1>T, <1>F, <3>2
    <3> QED
      BY <3>1, <3>3, <1>F
  <2>4. AlarmSet'
    BY <2>1, <2>3, <1>T DEF AlarmSet
  <2>5. pc = "reported" => Due = {}
    <3> SUFFICES ASSUME pc = "reported", NEW e \in Due PROVE FALSE
      OBVIOUS
    <3>1. e \in timers_ /\ e[1] <= now /\ e[1] \in Nat
      BY <1>T, EntryPair DEF Due
    <3>2. /\ First(timers_) \in timers_ /\ First(timers_)[1] <= e[1]
          /\ when < First(timers_)[1]
      BY <1>T, <1>1, <3>1, FirstLeast DEF EarliestChanged
    <3>3. First(timers_)[1] \in Nat
      BY <1>T, <3>2, EntryPair
    <3> QED
      BY <1>T, <3>1, <3>2, <3>3
  <2> QED
    BY <2>1, <2>2, <2>4, <2>5, <1>T DEF AlarmInv
<1>2. CASE ~EarliestChanged(when)
  <2>1. UNCHANGED <<deadline, readable>>
    BY <1>2 DEF AddTimerInLoop
  <2>2. /\ timers_ # {} /\ First(timers_)[1] <= when
        /\ First(timers_) \in timers_ /\ First(timers_)[1] \in Nat
        /\ \A e \in timers_ : First(timers_)[1] <= e[1]
    <3>1. timers_ # {} /\ ~(when < First(timers_)[1])
      BY <1>2 DEF EarliestChanged
    <3>2. /\ First(timers_) \in timers_
          /\ \A e \in timers_ : First(timers_)[1] <= e[1]
      BY <1>T, <3>1, FirstLeast
    <3> QED
      BY <1>T, <3>1, <3>2, EntryPair
  <2>3. First(timers_')[1] = First(timers_)[1]
    <3>1. First(timers_')[1] <= First(timers_)[1]
      BY <2>2, <1>F, <1>T
    <3>2. First(timers_)[1] <= First(timers_')[1]
      BY <2>2, <1>F, <1>T
    <3> QED
      BY <3>1, <3>2, <2>2, <1>F
  <2>4. ASSUME AlarmSet PROVE AlarmSet'
    BY <2>1, <2>2, <2>3, <2>4 DEF AlarmSet
  <2>5. Due \subseteq Due'
    BY <1>T DEF Due
  <2> QED
    BY <2>1, <2>4, <2>5, <1>T DEF AlarmInv
<1> QED
  BY <1>1, <1>2

(* cancelInLoop() changes what the timerfd is for only if it cancels.       *)
LEMMA CancelledAlarm ==
  ASSUME StateInv, AlarmInv, NEW id \in TimerIds, CancelInLoop(id),
         UNCHANGED <<now, clockSets, pc, expired, deadline, readable>>
  PROVE AlarmInv'
<1>1. CASE Find(id) # {}
  <2>1. cancelled' # {}
    BY <1>1, TimerFound
  <2> QED
    BY <2>1 DEF AlarmInv, Disarmed
<1>2. CASE Find(id) = {}
  <2>1. timers_' = timers_ /\ (cancelled' = {} => cancelled = {})
    BY <1>2, TimerNotFound
  <2> QED
    BY <2>1 DEF AlarmInv, AlarmSet, Due, Disarmed
<1> QED
  BY <1>1, <1>2

(* reset() arms the timerfd again, and has something to reset.              *)
LEMMA ResetAlarm ==
  ASSUME StateInv, StateInv', AlarmInv, Reset
  PROVE AlarmInv'
<1> USE BoundsAssumption, MinDelayAssumption
<1>T. /\ timers_' \in SUBSET (Nat \X Addrs) /\ timers_ \subseteq timers_'
      /\ now \in Nat /\ pc = "batch" /\ pc' = "loop"
      /\ UNCHANGED <<now, clockSets, cancelled>>
  BY DEF StateInv, TypeOK, Reset, BatchDone
<1>1. CASE expired # {} /\ timers_' # {}
  <2>1. First(timers_') \in timers_' /\ First(timers_')[1] \in Nat
    <3>1. First(timers_') \in timers_'
      BY <1>1, <1>T, FirstLeast
    <3> QED
      BY <3>1, <1>T, EntryPair
  <2>2. /\ deadline' = Later(First(timers_')[1], now + MinDelay)
        /\ readable' = FALSE
    BY <1>1, <2>1, Armed DEF Reset, StateInv
  <2>3. First(timers_')[1] <= deadline' /\ deadline' \in Int
    BY <2>1, <2>2, <1>T DEF Later
  <2>4. AlarmSet'
    BY <2>2, <2>3, <1>T DEF AlarmSet
  <2> QED
    BY <2>1, <2>2, <2>3, <2>4, <1>T DEF AlarmInv
<1>2. CASE ~(expired # {} /\ timers_' # {})
  <2>1. UNCHANGED <<deadline, readable>>
    BY <1>2 DEF Reset
  <2>2. cancelled = {} /\ clockSets = 0 => timers_' = {} /\ timers_ = {}
    BY <1>2, <1>T DEF AlarmInv
  <2> QED
    BY <2>1, <2>2, <1>T DEF AlarmInv, AlarmSet, Due, Disarmed
<1> QED
  BY <1>1, <1>2

(* The clock fires the timerfd at its deadline and never without one.       *)
LEMMA TickAlarm ==
  ASSUME StateInv, AlarmInv, Tick
  PROVE AlarmInv'
<1> USE BoundsAssumption, MinDelayAssumption
<1>T. /\ now \in Nat /\ now' = now + 1 /\ now' <= MaxTime
      /\ deadline \in Int /\ Disarmed > MaxTime
      /\ timers_ \in SUBSET (Nat \X Addrs)
      /\ UNCHANGED <<clockSets, timers_, pc, expired, cancelled>>
  BY DEF StateInv, TypeOK, Tick, Disarmed, setVars, batchVars
<1>E. \A e \in timers_ : e[1] \in Nat
  BY <1>T, EntryPair
<1>1. CASE deadline <= now'
  <2>1. readable' = TRUE /\ deadline' = Disarmed
    BY <1>1 DEF Tick
  <2>2. deadline # Disarmed
    BY <1>1, <1>T DEF Disarmed
  <2>3. ASSUME cancelled = {}, clockSets = 0 PROVE Due' # {}
    <3>1. PICK e \in timers_ : e[1] <= deadline
      BY <2>2, <2>3 DEF AlarmInv
    <3>2. e[1] <= now'
      BY <3>1, <1>1, <1>T, <1>E
    <3> QED
      BY <3>1, <3>2, <1>T DEF Due
  <2> QED
    BY <2>1, <2>3, <1>T DEF AlarmInv, AlarmSet, Disarmed
<1>2. CASE ~(deadline <= now')
  <2>1. UNCHANGED <<readable, deadline>>
    BY <1>2 DEF Tick
  <2>2. Due \subseteq Due'
    BY <1>T, <1>E DEF Due
  <2>3. ASSUME AlarmSet PROVE AlarmSet'
    <3> SUFFICES ASSUME pc' = "loop", timers_' # {}, ~readable'
                 PROVE deadline' <= Later(First(timers_')[1], now' + MinDelay)
      BY DEF AlarmSet
    <3>1. First(timers_) \in timers_
      BY <1>T, FirstLeast
    <3>2. First(timers_)[1] \in Nat
      BY <3>1, <1>E
    <3>3. deadline <= Later(First(timers_)[1], now + MinDelay)
      BY <2>1, <2>3, <1>T DEF AlarmSet
    <3>4. deadline <= Later(First(timers_)[1], now' + MinDelay)
      BY <3>2, <3>3, <1>T DEF Later
    <3> QED
      BY <3>4, <2>1, <1>T
  <2> QED
    BY <2>1, <2>2, <2>3, <1>T DEF AlarmInv, Disarmed
<1> QED
  BY <1>1, <1>2

(* Every action keeps the alarm.                                            *)
LEMMA AlarmStep ==
  StateInv /\ StateInv' /\ AlarmInv /\ [Next]_vars => AlarmInv'
<1> SUFFICES ASSUME StateInv, StateInv', AlarmInv, [Next]_vars
             PROVE AlarmInv'
  OBVIOUS
<1>1. ASSUME NEW a \in Addrs, NEW d \in Delays, NEW v \in Intervals,
             AddTimer(a, d, v)
      PROVE AlarmInv'
  <2>1. now + d \in Nat
    BY DelaysAssumption, BoundsAssumption DEF StateInv, TypeOK
  <2>2. PICK w \in Nat, s \in {numCreated + 1} : w = now + d
    BY <2>1
  <2>4. now <= w
    BY <2>2, DelaysAssumption, BoundsAssumption DEF StateInv, TypeOK
  <2>3. /\ AddTimerInLoop(a, s, w)
        /\ UNCHANGED <<now, clockSets, pc, expired, cancelled>>
    BY <1>1, <2>2 DEF AddTimer, batchVars
  <2> QED
    BY <2>3, <2>4, AddedAlarm
<1>2. ASSUME NEW id \in ids, Cancel(id) PROVE AlarmInv'
  BY <1>2, CancelledAlarm DEF Cancel, batchVars, StateInv, TypeOK
<1>3. CASE RunFunctor
  <2>1. /\ pendingFunctors_ # <<>> /\ pc = "loop"
        /\ UNCHANGED <<now, clockSets, pc, expired>>
    BY <1>3 DEF RunFunctor, batchVars
  <2>2. /\ 1 \in 1 .. Len(pendingFunctors_)
        /\ Head(pendingFunctors_) = pendingFunctors_[1]
    BY <2>1 DEF StateInv, PendingInv
  <2>3. PICK id \in TimerIds : id = pendingFunctors_[1].id
    BY <2>2, PendingAddr
  <2>4. id[1] \in Addrs
    BY DEF TimerIds
  <2>5. PICK w : w = heap[id[1]].expiration
    OBVIOUS
  <2>6. w \in Nat
    BY <2>4, <2>5 DEF StateInv, TypeOK
  <2>7. \/ AddTimerInLoop(id[1], id[2], w) /\ cancelled' = cancelled
        \/ CancelInLoop(id) /\ UNCHANGED <<deadline, readable>>
    BY <1>3, <2>2, <2>3, <2>5 DEF RunFunctor
  <2> QED
    BY <2>1, <2>4, <2>6, <2>7, AddedAlarm, CancelledAlarm
<1>4. CASE HandleRead
  BY <1>4 DEF HandleRead, GetExpired, AlarmInv, AlarmSet, Disarmed
<1>8. CASE Poll
  <2>1. /\ UNCHANGED <<now, clockSets, timers_, deadline, readable, cancelled,
                       expired>>
        /\ readable /\ pc = "loop" /\ pc' = "reported"
    BY <1>8 DEF Poll, setVars, batchVars
  <2> QED
    BY <2>1 DEF AlarmInv, AlarmSet, Due, Disarmed
<1>9. ASSUME NEW time \in 0 .. MaxTime, SetClock(time) PROVE AlarmInv'
  <2>1. clockSets' # 0 /\ readable' = readable
        /\ (deadline = Disarmed => deadline' = Disarmed)
    BY <1>9, BoundsAssumption DEF SetClock, StateInv, TypeOK
  <2> QED
    BY <2>1 DEF AlarmInv, Disarmed
<1>5. CASE Reset
  BY <1>5, ResetAlarm
<1>6. CASE Tick
  BY <1>6, TickAlarm
<1>7. CASE \/ RunTimer \/ CallbackReturn \/ UNCHANGED vars
           \/ \E t \in Threads :
                \/ \E id \in ids : CancelFrom(t, id)
                \/ ReturnTimerId(t)
                \/ \E a \in Addrs, d \in Delays, i \in Intervals :
                     AddTimerFrom(t, a, d, i)
  <2>1. /\ UNCHANGED <<now, clockSets, timers_, deadline, readable, cancelled,
                      expired>>
        /\ pc' = "loop" <=> pc = "loop"
        /\ pc' = "reported" <=> pc = "reported"
        /\ pc' \in {"batch", "callback"} => pc \in {"batch", "callback"}
    BY <1>7 DEF RunTimer, CallbackReturn, vars, CancelFrom, ReturnTimerId,
                AddTimerFrom, setVars, batchVars
  <2> QED
    BY <2>1 DEF AlarmInv, AlarmSet, Due, Disarmed
<1> QED
  BY <1>1, <1>2, <1>3, <1>4, <1>5, <1>6, <1>7, <1>8, <1>9 DEF Next

-----------------------------------------------------------------------------
(* A set of entries is finite and has one ActiveTimer for each.             *)
LEMMA SetsCorrespond == StateInv => SetsAgree
<1> SUFFICES ASSUME StateInv PROVE SetsAgree
  OBVIOUS
<1> USE BoundsAssumption
<1>E. \A e \in timers_ : /\ e[2] \in Addrs /\ e = <<e[1], e[2]>>
                         /\ Allocated(e[2]) /\ heap[e[2]].expiration = e[1]
  BY EntryPair DEF StateInv, TypeOK, FiledInv
<1>1. activeTimers_ = {Seq_(e) : e \in timers_}
  <2>1. ASSUME NEW at \in activeTimers_ PROVE \E e \in timers_ : at = Seq_(e)
    <3>1. /\ <<heap[at[1]].expiration, at[1]>> \in timers_
          /\ heap[at[1]].sequence = at[2] /\ at = <<at[1], at[2]>>
      BY DEF StateInv, ActiveInv, TypeOK
    <3>2. at = Seq_(<<heap[at[1]].expiration, at[1]>>)
      BY <3>1 DEF Seq_
    <3> QED
      BY <3>1, <3>2
  <2> QED
    BY <2>1 DEF StateInv, ActiveInv
<1>2. IsFiniteSet(timers_)
  <2> DEFINE f == [e \in timers_ |-> heap[e[2]].sequence]
  <2>1. ASSUME NEW e \in timers_
        PROVE heap[e[2]].sequence \in 1 .. MaxTimers
    BY <1>E DEF StateInv, HeapInv, TypeOK
  <2>2. ASSUME NEW d \in timers_, NEW e \in timers_, f[d] = f[e]
        PROVE d = e
    <3>1. d[2] = e[2]
      BY <1>E, <2>2 DEF StateInv, HeapInv
    <3> QED
      BY <1>E, <3>1
  <2>3. f \in Injection(timers_, 1 .. MaxTimers)
    BY <2>1, <2>2 DEF Injection, IsInjective
  <2>4. IsFiniteSet(1 .. MaxTimers)
    BY FS_Interval
  <2> HIDE DEF f
  <2> QED
    BY <2>3, <2>4, FS_Injection
<1>3. Cardinality(activeTimers_) = Cardinality(timers_)
  <2> DEFINE g == [e \in timers_ |-> Seq_(e)]
  <2>1. ASSUME NEW d \in timers_, NEW e \in timers_, g[d] = g[e]
        PROVE d = e
    <3>1. d[2] = e[2]
      BY <2>1 DEF Seq_
    <3> QED
      BY <1>E, <3>1
  <2>2. g \in Surjection(timers_, activeTimers_)
    BY <1>1 DEF Surjection
  <2>3. g \in Injection(timers_, activeTimers_)
    BY <2>1, <1>1 DEF Injection, IsInjective
  <2> HIDE DEF g
  <2> QED
    BY <1>2, <2>2, <2>3, FS_Surjection
<1> QED
  BY <1>1, <1>3, <1>E DEF SetsAgree, StateInv

(* timers_ and activeTimers_ hold the same timers at all times, the batch   *)
(* taken out of both: the assertions of TimerQueue.cc never fail.           *)
THEOREM TimerSetsAgree == Spec => []SetsAgree
BY StateInit, StateStep, SetsCorrespond, PTL DEF Spec

(* Between getExpired() and reset() the Timers of the batch stay allocated  *)
(* and out of timers_, whatever the callbacks add and cancel.               *)
THEOREM BatchIsSafe == Spec => []BatchStaysAllocated
<1>1. StateInv => BatchStaysAllocated
  BY DEF StateInv, FiledInv, BatchStaysAllocated
<1> QED
  BY <1>1, StateInit, StateStep, PTL DEF Spec

(* A timer that the loop had when it was cancelled is never waiting again,  *)
(* also if it is periodic and was cancelled from its own callback.          *)
THEOREM CancelIsForGood == Spec => []CancelledIsGone
<1>1. StateInv => CancelledIsGone
  <2> SUFFICES ASSUME StateInv, NEW e \in timers_,
                      heap[e[2]].sequence \in cancelled
               PROVE FALSE
    BY DEF CancelledIsGone
  <2>1. e[2] \in Addrs /\ Allocated(e[2])
    BY EntryPair DEF StateInv, TypeOK, FiledInv
  <2>2. <<heap[e[2]].expiration, e[2]>> \in expired
    BY <2>1 DEF StateInv, CancelInv
  <2> QED
    BY <2>2 DEF StateInv, FiledInv
<1> QED
  BY <1>1, StateInit, StateStep, PTL DEF Spec

(* As long as nobody cancels and nobody sets the clock, the timerfd is      *)
(* armed for the earliest timer or has already fired for it.                *)
THEOREM NoTimerForgotten == Spec => []AlarmSetUnlessCancelled
<1>1. Init => AlarmInv
  BY DEF Init, AlarmInv, AlarmSet, Due
<1>2. AlarmInv => AlarmSetUnlessCancelled
  BY DEF AlarmInv, AlarmSetUnlessCancelled
<1> QED
  BY <1>1, <1>2, StateInit, StateStep, AlarmStep, PTL DEF Spec

(* cancel() deletes the Timer of its own TimerId and no other that has the  *)
(* address by then; every other delete is reset()'s, of its own batch.      *)
THEOREM CancelDeletesItsOwn == Spec => DeletesOnlyItsOwn
<1> DEFINE Deletes ==
      \A a \in Addrs :
        Allocated(a) /\ heap'[a].sequence # heap[a].sequence
          => \/ heap[a].sequence \in cancelled'
             \/ \E e \in expired : e[2] = a
<1>1. StateInv /\ [Next]_vars => [Deletes]_vars
  <2> SUFFICES ASSUME StateInv, [Next]_vars, NEW a \in Addrs, Allocated(a),
                      heap'[a].sequence # heap[a].sequence,
                      heap[a].sequence \notin cancelled',
                      \A e \in expired : e[2] # a
               PROVE FALSE
    OBVIOUS
  <2>1. ASSUME NEW b \in Addrs, NEW when, NEW v, NewTimer(b, when, v)
        PROVE FALSE
    BY <2>1 DEF NewTimer, StateInv, TypeOK
  <2>2. ASSUME NEW id \in TimerIds, CancelInLoop(id),
               UNCHANGED <<numCreated, expired>>
        PROVE FALSE
    BY <2>2, TimerCancelled
  <2>3. CASE RunFunctor
    <3>1. /\ pendingFunctors_ # <<>>
          /\ UNCHANGED <<numCreated, expired>>
      BY <2>3 DEF RunFunctor, batchVars
    <3>2. /\ 1 \in 1 .. Len(pendingFunctors_)
          /\ Head(pendingFunctors_) = pendingFunctors_[1]
      BY <3>1 DEF StateInv, PendingInv
    <3>3. PICK id \in TimerIds : id = pendingFunctors_[1].id
      BY <3>2, PendingAddr
    <3>4. heap' = heap \/ CancelInLoop(id)
      BY <2>3, <3>2, <3>3 DEF RunFunctor
    <3> QED
      BY <3>1, <3>4, <2>2
  <2>4. CASE Reset
    <3>1. ~InBatch(a)
      BY DEF InBatch
    <3> QED
      BY <2>4, <3>1, ResetEffect
  <2>5. CASE \/ RunTimer \/ CallbackReturn \/ Poll \/ Tick \/ HandleRead
             \/ \E time \in 0 .. MaxTime : SetClock(time)
             \/ UNCHANGED vars
             \/ \E t \in Threads :
                  (\E id \in ids : CancelFrom(t, id)) \/ ReturnTimerId(t)
    BY <2>5 DEF RunTimer, CallbackReturn, Poll, Tick, HandleRead, SetClock,
                vars, CancelFrom, ReturnTimerId
  <2>6. ASSUME NEW b \in Addrs, NEW d \in Delays, NEW v \in Intervals,
               \/ AddTimer(b, d, v)
               \/ \E t \in Threads : AddTimerFrom(t, b, d, v)
        PROVE FALSE
    <3>1. PICK w : w = now + d
      OBVIOUS
    <3>2. NewTimer(b, w, v)
      BY <2>6, <3>1 DEF AddTimer, AddTimerFrom
    <3> QED
      BY <3>2, <2>1
  <2>7. ASSUME NEW id \in ids, Cancel(id) PROVE FALSE
    BY <2>7, <2>2 DEF Cancel, batchVars, StateInv, TypeOK
  <2> QED
    BY <2>3, <2>4, <2>5, <2>6, <2>7 DEF Next
<1>2. DeletesOnlyItsOwn <=> [][Deletes]_vars
  BY DEF DeletesOnlyItsOwn
<1> QED
  BY <1>1, <1>2, StateInit, StateStep, PTL DEF Spec
=============================================================================
