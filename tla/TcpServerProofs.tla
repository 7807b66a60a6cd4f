-------------------------- MODULE TcpServerProofs --------------------------
(***************************************************************************)
(* Proofs about TcpServer for any number of threads, loops and clients:    *)
(* the connections are dealt out evenly to the loops of the pool, each     *)
(* goes out of the map and out of life once, and a server that is          *)
(* destroyed in good order is not used afterwards.                         *)
(***************************************************************************)
EXTENDS TcpServer, FiniteSetTheorems, TLAPS

(* Where functors may be: those of loop 0 are bound to the server or        *)
(* destroy its own connections, those of the pool's loops are the           *)
(* connections'; forceCloseInLoop() is for those the users have disturbed.  *)
Destroys == {"destroy"} \X Conns
Forces == {"force"} \X (disturbed \cap Conns)
BaseFunctors == {<<"listen", 0>>} \cup ({"remove", "destroy"} \X Conns)
PoolFunctors == {"established", "destroy"} \X Conns
Place(i) == Forces \cup IF i = 0 THEN BaseFunctors ELSE PoolFunctors

PlaceInv ==
  /\ \A c \in Conns : conn[c] = "kDisconnecting" => c \in disturbed
  /\ \A i \in Loops : q[i] \in Seq(Place(i))
  /\ \A i \in PoolIds : /\ batch[i] \in Seq(Place(i))
                        /\ lpc[i] # "functors" => batch[i] = <<>>
                        /\ i > loops_ => lpc[i] = "none"

(* The pool is complete before the server listens, and the phases of the    *)
(* server.                                                                  *)
StartInv ==
  /\ listening_ => loops_ = numThreads_
  /\ \A k \in 1 .. Len(q[0]) : q[0][k] = <<"listen", 0>> =>
       loops_ = numThreads_
  /\ \A t \in Threads : spc[t] = "listen" => loops_ = numThreads_
  /\ server # "alive" => \A t \in Threads : spc[t] \in {"idle", "done"}
  /\ server = "alive" => joining = 0 /\ \A i \in PoolIds : ~quit_[i]
  /\ joining <= loops_
  /\ backlog + nextConnId_ <= MaxConns + 1
  /\ nextConnId_ > 1 => loops_ = numThreads_
  /\ useAfter => server = "gone"

(* Round-robin: the loops up to next_ are one connection ahead.             *)
Assigned(i) == {c \in 1 .. nextConnId_ - 1 : loopOf[c] = i}

RoundInv ==
  /\ numThreads_ = 0 => next_ = 0 /\ \A c \in Conns : loopOf[c] = 0
  /\ numThreads_ > 0 =>
       /\ next_ < numThreads_
       /\ Assigned(0) = {}
       /\ \A i \in 1 .. numThreads_ :
            Cardinality(Assigned(i)) =
              Cardinality(Assigned(numThreads_)) + IF i <= next_ THEN 1 ELSE 0
  /\ \A c \in Conns : loopOf[c] \in 0 .. numThreads_

(* How often s has f, and the functors of loop i in the order of their run. *)
Places(s, f) == {k \in 1 .. Len(s) : s[k] = f}
Times(s, f) == Cardinality(Places(s, f))
Line(i) == IF i = 0 THEN q[0] ELSE batch[i] \o q[i]
At(i, x, c) == Times(Line(i), <<x, c>>)

(* The life of connection c while the server lives: new or over, being      *)
(* established, open, closed and in the map, closed and out of it.  r, e    *)
(* and d count the functors under way for it.                               *)
Has(c, r, e, d) ==
  /\ At(0, "remove", c) = r
  /\ \A i \in PoolIds :
       At(i, "established", c) = IF i = loopOf[c] THEN e ELSE 0
  /\ \A i \in Loops : At(i, "destroy", c) = IF i = loopOf[c] THEN d ELSE 0

LifeOf(c) ==
  /\ c >= nextConnId_ => conn[c] = "none"
  /\ loopOf[c] = 0 => At(0, "remove", c) = 0 /\ conn[c] # "kConnecting"
  /\ \/ conn[c] \in {"none", "destroyed"} /\ c \notin connections_
        /\ Has(c, 0, 0, 0)
     \/ conn[c] = "kConnecting" /\ c \in connections_ /\ Has(c, 0, 1, 0)
     \/ conn[c] = "kConnected" /\ c \in connections_ /\ Has(c, 0, 0, 0)
     \/ conn[c] = "kDisconnected" /\ c \in connections_ /\ Has(c, 1, 0, 0)
     \/ conn[c] = "kDisconnected" /\ c \notin connections_
        /\ Has(c, 0, 0, 1)

LifeInv == server = "alive" => \A c \in Conns \ disturbed : LifeOf(c)

(* After ~TcpServer() began with nothing under way only connections are     *)
(* destroyed, as long as users disturb none.                                *)
TidyInv ==
  tidy /\ disturbed = {} =>
    /\ server # "alive"
    /\ q[0] \in Seq(Destroys)
    /\ \A i \in PoolIds : q[i] \in Seq(Destroys) /\ batch[i] \in Seq(Destroys)
    /\ \A c \in Conns : loopOf[c] # 0 => conn[c] # "kConnected"
    /\ ~useAfter

IInv ==
  /\ TypeOK /\ PlaceInv /\ StartInv /\ RoundInv /\ LifeInv /\ TidyInv

-----------------------------------------------------------------------------
(* What Head and Tail give of a queue that is not empty.                    *)
LEMMA TailOf ==
  ASSUME NEW S, NEW s \in Seq(S), s # <<>>
  PROVE  /\ Len(s) \in Nat \ {0}
         /\ Tail(s) \in Seq(S)
         /\ Len(Tail(s)) = Len(s) - 1
         /\ \A k \in 1 .. Len(Tail(s)) :
              k + 1 \in 1 .. Len(s) /\ Tail(s)[k] = s[k + 1]
         /\ Head(s) = s[1] /\ 1 \in 1 .. Len(s) /\ Head(s) \in S
  OBVIOUS

(* What Append gives.                                                       *)
LEMMA AppendOf ==
  ASSUME NEW S, NEW s \in Seq(S), NEW x \in S
  PROVE  /\ Append(s, x) \in Seq(S)
         /\ Len(Append(s, x)) = Len(s) + 1 /\ Len(s) \in Nat
         /\ \A k \in 1 .. Len(s) : Append(s, x)[k] = s[k]
         /\ Append(s, x)[Len(s) + 1] = x
  OBVIOUS

(* A batch and the functors queued behind it, as one sequence.              *)
LEMMA Joined ==
  ASSUME NEW S, NEW b \in Seq(S), NEW s \in Seq(S)
  PROVE  /\ b \o s \in Seq(S)
         /\ <<>> \o s = s /\ s \o <<>> = s
         /\ \A x \in S : b \o Append(s, x) = Append(b \o s, x)
         /\ b # <<>> => /\ b \o s # <<>> /\ Head(b \o s) = Head(b)
                        /\ Tail(b \o s) = Tail(b) \o s
<1>1. b \o s \in Seq(S) /\ <<>> \o s = s /\ s \o <<>> = s
  OBVIOUS
<1>2. \A x \in S : b \o Append(s, x) = Append(b \o s, x)
  OBVIOUS
<1>3. b # <<>> => /\ b \o s # <<>> /\ Head(b \o s) = Head(b)
                  /\ Tail(b \o s) = Tail(b) \o s
  OBVIOUS
<1> QED BY <1>1, <1>2, <1>3

(* A sequence over S whose elements are all in T is one over T.             *)
LEMMA Narrowed ==
  ASSUME NEW S, NEW T, NEW s \in Seq(S), \A k \in 1 .. Len(s) : s[k] \in T
  PROVE  s \in Seq(T)
  OBVIOUS

(* The places of f in s are finitely many.                                  *)
LEMMA TimesType ==
  ASSUME NEW S, NEW s \in Seq(S), NEW f
  PROVE  /\ IsFiniteSet(Places(s, f))
         /\ Times(s, f) \in Nat
<1>1. IsFiniteSet(1 .. Len(s))
  BY FS_Interval
<1>2. IsFiniteSet(Places(s, f))
  BY <1>1, FS_Subset DEF Places
<1> QED BY <1>2, FS_CardinalityType DEF Times

(* A functor put at the end is there once more.                             *)
LEMMA TimesAppend ==
  ASSUME NEW S, NEW s \in Seq(S), NEW x \in S, NEW f
  PROVE  Times(Append(s, x), f) = Times(s, f) + (IF x = f THEN 1 ELSE 0)
<1>1. IsFiniteSet(Places(s, f)) /\ Cardinality(Places(s, f)) \in Nat
  BY TimesType DEF Times
<1>2. Len(s) + 1 \notin Places(s, f)
  BY DEF Places
<1>3. CASE x = f
  <2>1. Places(Append(s, x), f) = Places(s, f) \cup {Len(s) + 1}
    BY <1>3, AppendOf DEF Places
  <2> QED BY <2>1, <1>1, <1>2, <1>3, FS_AddElement DEF Times
<1>4. CASE x # f
  <2>1. Places(Append(s, x), f) = Places(s, f)
    BY <1>4, AppendOf DEF Places
  <2> QED BY <2>1, <1>1, <1>4 DEF Times
<1> QED BY <1>3, <1>4

(* A functor taken from the front is there once less.                       *)
LEMMA TimesTail ==
  ASSUME NEW S, NEW s \in Seq(S), s # <<>>, NEW f
  PROVE  /\ Times(s, f) = Times(Tail(s), f) + (IF Head(s) = f THEN 1 ELSE 0)
         /\ Times(Tail(s), f) \in Nat
<1> DEFINE Rest == Places(s, f) \ {1}
           g == [k \in Places(Tail(s), f) |-> k + 1]
<1>1. /\ IsFiniteSet(Places(s, f)) /\ Cardinality(Places(s, f)) \in Nat
      /\ Tail(s) \in Seq(S) /\ IsFiniteSet(Places(Tail(s), f))
      /\ Cardinality(Places(Tail(s), f)) \in Nat
  BY TimesType, TailOf DEF Times
<1>2. g \in Bijection(Places(Tail(s), f), Rest)
  <2>1. g \in Injection(Places(Tail(s), f), Rest)
    <3>1. \A k \in Places(Tail(s), f) : k + 1 \in Rest
      BY TailOf DEF Places
    <3>2. \A j, k \in Places(Tail(s), f) : j + 1 = k + 1 => j = k
      BY DEF Places
    <3> QED BY <3>1, <3>2 DEF Injection, IsInjective
  <2>2. \A k \in Rest : k - 1 \in Places(Tail(s), f) /\ (k - 1) + 1 = k
    <3> SUFFICES ASSUME NEW k \in Rest
                 PROVE  k - 1 \in Places(Tail(s), f) /\ (k - 1) + 1 = k
      OBVIOUS
    <3>1. k \in 1 .. Len(s) /\ k # 1 /\ s[k] = f
      BY DEF Places
    <3>2. k - 1 \in 1 .. Len(Tail(s)) /\ (k - 1) + 1 = k
      BY <3>1, TailOf
    <3>3. Tail(s)[k - 1] = s[k]
      BY <3>2, TailOf
    <3> QED BY <3>1, <3>2, <3>3 DEF Places
  <2>3. g \in Surjection(Places(Tail(s), f), Rest)
    BY <2>1, <2>2 DEF Surjection, Injection
  <2> QED BY <2>1, <2>3 DEF Bijection
<1>3. IsFiniteSet(Rest) /\ Cardinality(Rest) = Cardinality(Places(Tail(s), f))
  BY <1>1, <1>2, FS_Bijection DEF ExistsBijection
<1>4. 1 \in Places(s, f) <=> Head(s) = f
  BY TailOf DEF Places
<1>5. CASE Head(s) = f
  BY <1>1, <1>3, <1>4, <1>5, FS_RemoveElement DEF Times
<1>6. CASE Head(s) # f
  BY <1>1, <1>3, <1>4, <1>6, FS_RemoveElement DEF Times
<1> QED BY <1>5, <1>6

(* What is there no time is nowhere.                                        *)
LEMMA TimesZero ==
  ASSUME NEW S, NEW s \in Seq(S), NEW f
  PROVE  Times(s, f) = 0 <=> \A k \in 1 .. Len(s) : s[k] # f
<1>1. IsFiniteSet(Places(s, f))
  BY TimesType
<1> QED BY <1>1, FS_EmptySet DEF Times, Places

-----------------------------------------------------------------------------
(* Which functors a loop may have, and what they look like.                 *)
LEMMA Kinds ==
  /\ 0 \in Loops /\ 0 \notin PoolIds /\ PoolIds \subseteq Loops
  /\ <<"listen", 0>> \in Place(0)
  /\ \A c \in Conns : /\ <<"remove", c>> \in Place(0)
                      /\ \A i \in PoolIds : <<"established", c>> \in Place(i)
                      /\ \A i \in Loops : <<"destroy", c>> \in Place(i)
  /\ \A i \in Loops : Place(i) \subseteq Functors
  /\ \A f \in Place(0) :
       \/ f = <<"listen", 0>> /\ f[1] = "listen"
       \/ \E c \in Conns : f = <<"remove", c>> /\ f[1] = "remove" /\ f[2] = c
       \/ \E c \in Conns : f = <<"destroy", c>> /\ f[1] = "destroy" /\ f[2] = c
       \/ \E c \in Conns : /\ f = <<"force", c>> /\ f[1] = "force" /\ f[2] = c
                            /\ c \in disturbed
  /\ \A i \in PoolIds : \A f \in Place(i) : \E c \in Conns :
       /\ f[2] = c
       /\ \/ f = <<"established", c>> /\ f[1] = "established"
          \/ f = <<"destroy", c>> /\ f[1] = "destroy"
          \/ f = <<"force", c>> /\ f[1] = "force" /\ c \in disturbed
<1>1. 0 \in Loops /\ 0 \notin PoolIds /\ PoolIds \subseteq Loops
  BY ServerAssumption DEF Loops, PoolIds
<1>2. <<"listen", 0>> \in Place(0) /\ Place(0) = Forces \cup BaseFunctors
  BY DEF Place, BaseFunctors
<1>3. \A i \in PoolIds : Place(i) = Forces \cup PoolFunctors
  BY <1>1 DEF Place
<1>4. /\ BaseFunctors \subseteq Functors /\ PoolFunctors \subseteq Functors
      /\ Forces \subseteq Functors
  BY DEF BaseFunctors, PoolFunctors, Functors, Forces
<1>5. \A c \in Conns :
        /\ <<"remove", c>> \in BaseFunctors /\ <<"destroy", c>> \in BaseFunctors
        /\ <<"established", c>> \in PoolFunctors
        /\ <<"destroy", c>> \in PoolFunctors
  BY DEF BaseFunctors, PoolFunctors
<1>6. \A f \in BaseFunctors :
        \/ f = <<"listen", 0>> /\ f[1] = "listen"
        \/ \E c \in Conns : f = <<"remove", c>> /\ f[1] = "remove" /\ f[2] = c
        \/ \E c \in Conns : f = <<"destroy", c>> /\ f[1] = "destroy" /\ f[2] = c
  BY DEF BaseFunctors
<1>7. \A f \in PoolFunctors : \E c \in Conns :
        /\ f[2] = c
        /\ \/ f = <<"established", c>> /\ f[1] = "established"
           \/ f = <<"destroy", c>> /\ f[1] = "destroy"
  BY DEF PoolFunctors
<1>8. \A i \in Loops : i = 0 \/ i \in PoolIds
  BY DEF Loops
<1>9. \A f \in Forces : \E c \in Conns :
        f = <<"force", c>> /\ f[1] = "force" /\ f[2] = c /\ c \in disturbed
  BY DEF Forces
<1>10. \A i \in Loops : Place(i) \subseteq Functors
  BY <1>2, <1>3, <1>4, <1>8
<1>11. \A c \in Conns :
         /\ <<"remove", c>> \in Place(0)
         /\ \A i \in PoolIds : <<"established", c>> \in Place(i)
         /\ \A i \in Loops : <<"destroy", c>> \in Place(i)
  BY <1>2, <1>3, <1>5, <1>8
<1>12. \A f \in Place(0) : f \in Forces \/ f \in BaseFunctors
  BY <1>2
<1>13. \A i \in PoolIds : \A f \in Place(i) : f \in Forces \/ f \in PoolFunctors
  BY <1>3
<1>14. \A i \in PoolIds : \A f \in Place(i) : \E c \in Conns :
         /\ f[2] = c
         /\ \/ f = <<"established", c>> /\ f[1] = "established"
            \/ f = <<"destroy", c>> /\ f[1] = "destroy"
            \/ f = <<"force", c>> /\ f[1] = "force" /\ c \in disturbed
  BY <1>7, <1>9, <1>13, Zenon
<1>15. \A f \in Place(0) :
         \/ f = <<"listen", 0>> /\ f[1] = "listen"
         \/ \E c \in Conns : f = <<"remove", c>> /\ f[1] = "remove" /\ f[2] = c
         \/ \E c \in Conns : /\ f = <<"destroy", c>> /\ f[1] = "destroy"
                              /\ f[2] = c
         \/ \E c \in Conns : /\ f = <<"force", c>> /\ f[1] = "force"
                              /\ f[2] = c /\ c \in disturbed
  BY <1>6, <1>9, <1>12, Zenon
<1> QED BY <1>1, <1>2, <1>10, <1>11, <1>14, <1>15

(* What the loops' queues are.                                              *)
Queues(Q) ==
  /\ Q \in [Loops -> Seq(Functors)]
  /\ \A i \in Loops : Q[i] \in Seq(Place(i))

(* They are so after one is replaced.                                       *)
LEMMA Replaced ==
  ASSUME NEW Q, Queues(Q), NEW i \in Loops, NEW s \in Seq(Place(i))
  PROVE  Queues([Q EXCEPT ![i] = s])
<1>1. s \in Seq(Functors)
  <2>1. \A k \in 1 .. Len(s) : s[k] \in Functors
    BY Kinds
  <2> QED BY <2>1, Narrowed
<1>2. [Q EXCEPT ![i] = s] \in [Loops -> Seq(Functors)]
  BY <1>1 DEF Queues
<1>3. \A j \in Loops :
        [Q EXCEPT ![i] = s][j] = IF j = i THEN s ELSE Q[j]
  BY DEF Queues
<1> QED BY <1>2, <1>3 DEF Queues

(* Every step but a user's forceClose() leaves the loops' queues so.        *)
LEMMA QueuesSame ==
  ASSUME TypeOK, PlaceInv, StartInv, RoundInv, Next,
         ~\E c \in Conns : ForceClose(c)
  PROVE  Queues(q')
<1> USE DEF startVars, acceptVars, loopVars, ghostVars
<1>1. Queues(q)
  BY DEF TypeOK, PlaceInv, Queues
<1>2. \A i \in Loops : \A f \in Place(i) : Queues(Queued(i, f))
  <2> SUFFICES ASSUME NEW i \in Loops, NEW f \in Place(i)
               PROVE  Queues(Queued(i, f))
    OBVIOUS
  <2>1. Append(q[i], f) \in Seq(Place(i))
    BY AppendOf DEF PlaceInv
  <2>2. Queued(i, f) = [q EXCEPT ![i] = Append(q[i], f)]
    BY DEF Queued
  <2>3. Queues([q EXCEPT ![i] = Append(q[i], f)])
    BY <1>1, <2>1, Replaced
  <2> QED BY <2>2, <2>3, Zenon
<1>3. \A i \in Loops : q[i] # <<>> => Queues([q EXCEPT ![i] = Tail(q[i])])
  BY <1>1, TailOf, Replaced DEF PlaceInv
<1>4. \A i \in Loops : Queues([q EXCEPT ![i] = <<>>])
  <2>1. \A i \in Loops : <<>> \in Seq(Place(i))
    OBVIOUS
  <2> QED BY <1>1, <2>1, Replaced
<1>5. \A c \in Conns : loopOf[c] \in Loops
  BY DEF TypeOK
<1>6. ASSUME NEW t \in Threads, StartListen(t) PROVE Queues(q')
  BY <1>1, <1>2, <1>6, Kinds DEF StartListen
<1>7. ASSUME HandleRead, NewConnection PROVE Queues(q')
  <2>1. nextConnId_ \in Conns
    BY <1>7, ServerAssumption DEF HandleRead, StartInv, TypeOK, Conns
  <2>2. NextLoop = 0 \/ NextLoop \in PoolIds
    BY <1>7, ServerAssumption
    DEF HandleRead, StartInv, RoundInv, TypeOK, NextLoop, PoolIds
  <2>3. \/ UNCHANGED q
        \/ NextLoop # 0 /\ q' = Queued(NextLoop, <<"established", nextConnId_>>)
    BY <1>7 DEF NewConnection
  <2>4. ASSUME NextLoop # 0
        PROVE  Queues(Queued(NextLoop, <<"established", nextConnId_>>))
    <3>1. NextLoop \in Loops
      BY <2>2, <2>4, Kinds
    <3>2. <<"established", nextConnId_>> \in Place(NextLoop)
      BY <2>1, <2>2, <2>4, Kinds
    <3> QED BY <1>2, <3>1, <3>2, Zenon
  <2>5. CASE UNCHANGED q
    BY <1>1, <2>5
  <2> QED BY <2>3, <2>4, <2>5, Zenon
<1>8. ASSUME NEW c \in Conns, HandleClose(c) PROVE Queues(q')
  <2>1. \/ q' = Queued(0, <<"destroy", c>>) \/ q' = Queued(0, <<"remove", c>>)
    BY <1>8 DEF HandleClose
  <2>2. /\ 0 \in Loops /\ <<"destroy", c>> \in Place(0)
        /\ <<"remove", c>> \in Place(0)
    BY Kinds
  <2> QED BY <1>2, <2>1, <2>2, Zenon
<1>9. ASSUME BaseFunctor PROVE Queues(q')
  <2>1. /\ q[0] # <<>> /\ Tail(q[0]) \in Seq(Place(0))
        /\ Head(q[0]) \in Place(0)
    BY <1>9, TailOf, Kinds DEF BaseFunctor, PlaceInv
  <2>2. ASSUME NEW c \in Conns, RemoveInLoop(c, Tail(q[0])) PROVE Queues(q')
    <3>1. Queues([q EXCEPT ![0] = Tail(q[0])])
      BY <1>3, <2>1, Kinds
    <3>2. CASE loopOf[c] = 0
      <4>1. q' = [q EXCEPT ![0] = Append(Tail(q[0]), <<"destroy", c>>)]
        BY <2>2, <3>2, Kinds DEF RemoveInLoop, TypeOK
      <4>2. Append(Tail(q[0]), <<"destroy", c>>) \in Seq(Place(0))
        BY <2>1, Kinds, AppendOf
      <4> QED BY <4>1, <4>2, <1>1, Replaced, Kinds
    <3>3. CASE loopOf[c] # 0
      <4> DEFINE Q == [q EXCEPT ![0] = Tail(q[0])]
      <4>1. q' = [Q EXCEPT ![loopOf[c]] =
                    Append(q[loopOf[c]], <<"destroy", c>>)]
        BY <2>2, <3>3, <1>5, Kinds DEF RemoveInLoop, TypeOK
      <4>2. Append(q[loopOf[c]], <<"destroy", c>>) \in Seq(Place(loopOf[c]))
        BY <1>5, Kinds, AppendOf DEF PlaceInv
      <4> QED BY <4>1, <4>2, <1>5, <3>1, Replaced
    <3> QED BY <3>2, <3>3
  <2>3. CASE q' = [q EXCEPT ![0] = Tail(@)]
    BY <2>1, <2>3, <1>3, Kinds
  <2>4. CASE \E c \in Conns : RemoveInLoop(c, Tail(q[0]))
    BY <2>2, <2>4
  <2>5. /\ Head(q[0])[1] = "remove" => Head(q[0])[2] \in Conns
        /\ Head(q[0])[1] = "force" => Head(q[0])[2] \in Conns
    BY <2>1, Kinds
  <2> QED BY <1>9, <2>3, <2>4, <2>5 DEF BaseFunctor, ClosesAgain
<1>10. ASSUME NEW i \in PoolIds, PoolStep(i) PROVE Queues(q')
  <2>1. CASE SwapFunctors(i) \/ LoopTest(i)
    BY <1>1, <1>4, <2>1, Kinds DEF SwapFunctors, LoopTest
  <2>2. CASE PoolFunctor(i)
    <3>1. Head(batch[i]) \in Place(i)
      BY <2>2, TailOf DEF PoolFunctor, PlaceInv
    <3>2. /\ Head(batch[i])[2] \in Conns
          /\ q' = q \/ q' = Queued(0, <<"remove", Head(batch[i])[2]>>)
      BY <2>2, <3>1, Kinds DEF PoolFunctor
    <3>3. 0 \in Loops /\ <<"remove", Head(batch[i])[2]>> \in Place(0)
      BY <3>2, Kinds
    <3> QED BY <1>1, <1>2, <3>2, <3>3, Zenon
  <2> QED BY <1>10, <2>1, <2>2 DEF PoolStep
<1>11. ASSUME DestructConnection PROVE Queues(q')
  <2> PICK c \in connections_ :
        IF loopOf[c] = 0 THEN UNCHANGED q
        ELSE q' = Queued(loopOf[c], <<"destroy", c>>)
    BY <1>11 DEF DestructConnection
  <2>1. c \in Conns
    BY DEF TypeOK
  <2>2. loopOf[c] \in Loops /\ <<"destroy", c>> \in Place(loopOf[c])
    BY <1>5, <2>1, Kinds
  <2> QED BY <1>1, <1>2, <2>2, Zenon
<1>12. CASE UNCHANGED q
  BY <1>1, <1>12
<1> QED
  BY <1>6, <1>7, <1>8, <1>9, <1>10, <1>11, <1>12
  DEF Next, StarterStep, DestructorStep, Start, StartLoop, Connect, HandleRead,
      AcceptFails, Destruct, DestructQuit, Destructed

(* A loop may have more functors as users disturb more connections.         *)
LEMMA PlaceGrows ==
  ASSUME disturbed \subseteq disturbed'
  PROVE  \A i \in Loops : /\ Place(i) \subseteq Place(i)'
                          /\ \A s \in Seq(Place(i)) : s \in Seq(Place(i)')
<1> SUFFICES ASSUME NEW i \in Loops
             PROVE  /\ Place(i) \subseteq Place(i)'
                    /\ \A s \in Seq(Place(i)) : s \in Seq(Place(i)')
  OBVIOUS
<1>1. Place(i) \subseteq Place(i)'
  <2>1. Forces \subseteq Forces'
    BY DEF Forces
  <2> QED BY <2>1 DEF Place, BaseFunctors, PoolFunctors
<1>2. ASSUME NEW s \in Seq(Place(i)) PROVE s \in Seq(Place(i)')
  <2>1. \A k \in 1 .. Len(s) : s[k] \in Place(i)'
    BY <1>1
  <2> QED BY <2>1, Narrowed
<1> QED BY <1>1, <1>2

(* Users only add to the connections they disturb.                          *)
LEMMA Grows ==
  ASSUME Next
  PROVE  /\ disturbed \subseteq disturbed'
         /\ UNCHANGED disturbed \/ \E c \in Conns : ForceClose(c)
<1> USE DEF startVars, acceptVars, loopVars, ghostVars
<1>1. UNCHANGED disturbed \/ \E c \in Conns : ForceClose(c)
  BY DEF Next, StarterStep, DestructorStep, PoolStep, Start, StartLoop,
         StartListen, Connect, HandleRead, NewConnection, AcceptFails,
         BaseFunctor, HandleClose, SwapFunctors, PoolFunctor, LoopTest,
         Destruct, DestructConnection, DestructQuit, Destructed
<1> QED BY <1>1 DEF ForceClose

(* A user's forceClose() has a functor of its connection queued.            *)
LEMMA ForceQueues ==
  ASSUME TypeOK, PlaceInv, NEW c \in Conns, ForceClose(c)
  PROVE  /\ loopOf[c] \in Loops /\ c \in disturbed'
         /\ disturbed \subseteq disturbed' /\ disturbed' \subseteq Conns
         /\ q' = [q EXCEPT ![loopOf[c]] = Append(q[loopOf[c]], <<"force", c>>)]
         /\ <<"force", c>> \in Place(loopOf[c])'
         /\ <<"force", c>> \in Functors
         /\ UNCHANGED <<batch, loopOf, nextConnId_, connections_, server,
                        useAfter, tidy>>
<1>1. /\ loopOf[c] \in Loops /\ disturbed' = disturbed \cup {c}
      /\ q' = [q EXCEPT ![loopOf[c]] = Append(q[loopOf[c]], <<"force", c>>)]
      /\ disturbed \subseteq Conns
      /\ UNCHANGED <<batch, loopOf, nextConnId_, connections_, server, useAfter,
                     tidy>>
  BY DEF ForceClose, TypeOK, Queued, acceptVars
<1>2. <<"force", c>> \in Forces'
  BY <1>1 DEF Forces
<1>3. <<"force", c>> \in Place(loopOf[c])'
  BY <1>1, <1>2 DEF Place
<1>4. <<"force", c>> \in Functors
  BY DEF Functors
<1> QED BY <1>1, <1>3, <1>4

(* Every step leaves the loops' queues so.                                  *)
LEMMA QueuesStep ==
  ASSUME TypeOK, PlaceInv, StartInv, RoundInv, Next
  PROVE  Queues(q)'
<1>1. \A i \in Loops : \A s \in Seq(Place(i)) : s \in Seq(Place(i)')
  BY Grows, PlaceGrows
<1>2. CASE ~\E c \in Conns : ForceClose(c)
  BY <1>1, <1>2, QueuesSame DEF Queues
<1>3. ASSUME NEW c \in Conns, ForceClose(c) PROVE Queues(q)'
  <2>1. PICK l \in Loops : l = loopOf[c]
    BY <1>3, ForceQueues
  <2>2. /\ q' = [q EXCEPT ![l] = Append(q[l], <<"force", c>>)]
        /\ <<"force", c>> \in Place(l)' /\ <<"force", c>> \in Functors
    BY <1>3, <2>1, ForceQueues
  <2>3. /\ q \in [Loops -> Seq(Functors)]
        /\ \A i \in Loops : q[i] \in Seq(Place(i)')
    BY <1>1 DEF TypeOK, PlaceInv
  <2>4. /\ Append(q[l], <<"force", c>>) \in Seq(Functors)
        /\ Append(q[l], <<"force", c>>) \in Seq(Place(l)')
    BY <2>2, <2>3, AppendOf
  <2>5. \A i \in Loops :
          q'[i] = IF i = l THEN Append(q[l], <<"force", c>>) ELSE q[i]
    BY <2>2, <2>3
  <2>6. q' \in [Loops -> Seq(Functors)]
    BY <2>2, <2>3, <2>4
  <2>7. \A i \in Loops : q'[i] \in Seq(Place(i)')
    BY <2>3, <2>4, <2>5
  <2> QED BY <2>6, <2>7 DEF Queues
<1> QED BY <1>2, <1>3

-----------------------------------------------------------------------------

(* A step that accepts a client.                                            *)
Accepts == HandleRead /\ NewConnection

(* Which actions change which variables.                                    *)
LEMMA Who ==
  ASSUME Next
  PROVE  /\ \/ UNCHANGED <<spc, started_>>
            \/ \E t \in Threads : Start(t) \/ StartLoop(t) \/ StartListen(t)
         /\ UNCHANGED numThreads_
         /\ UNCHANGED loops_ \/ \E t \in Threads : StartLoop(t)
         /\ UNCHANGED <<next_, nextConnId_, loopOf>> \/ Accepts
         /\ UNCHANGED backlog \/ Connect \/ Accepts \/ Destructed
         /\ \/ UNCHANGED listening_ \/ BaseFunctor \/ Destructed
            \/ \E t \in Threads : StartListen(t)
         /\ \/ UNCHANGED connections_ \/ Accepts \/ BaseFunctor
            \/ DestructConnection \/ \E c \in Conns : HandleClose(c)
         /\ \/ UNCHANGED conn \/ Accepts \/ BaseFunctor \/ DestructConnection
            \/ \E c \in Conns : HandleClose(c) \/ ForceClose(c)
            \/ \E i \in PoolIds : PoolFunctor(i) \/ LoopTest(i)
         /\ \/ UNCHANGED batch
            \/ \E i \in PoolIds : SwapFunctors(i) \/ PoolFunctor(i)
         /\ \/ UNCHANGED lpc \/ \E t \in Threads : StartLoop(t)
            \/ \E i \in PoolIds : SwapFunctors(i) \/ LoopTest(i)
         /\ UNCHANGED <<quit_, joining>> \/ DestructQuit
         /\ UNCHANGED server \/ Destruct \/ DestructQuit \/ Destructed
         /\ \/ UNCHANGED useAfter \/ BaseFunctor
            \/ \E i \in PoolIds : PoolFunctor(i)
         /\ UNCHANGED tidy \/ Destruct
         /\ UNCHANGED exited \/ AcceptFails
<1> USE DEF startVars, acceptVars, loopVars, ghostVars
<1>1. CASE \E t \in Threads : Start(t) \/ StartLoop(t) \/ StartListen(t)
  BY <1>1 DEF Start, StartLoop, StartListen
<1>2. CASE Connect \/ AcceptFails \/ Accepts
  BY <1>2 DEF Connect, AcceptFails, Accepts, NewConnection
<1>3. CASE BaseFunctor
  BY <1>3 DEF BaseFunctor
<1>4. CASE \E c \in Conns : HandleClose(c) \/ ForceClose(c)
  BY <1>4 DEF HandleClose, ForceClose
<1>5. CASE \E i \in PoolIds : SwapFunctors(i) \/ PoolFunctor(i) \/ LoopTest(i)
  BY <1>5 DEF SwapFunctors, PoolFunctor, LoopTest
<1>6. CASE Destruct \/ DestructConnection \/ DestructQuit \/ Destructed
  BY <1>6 DEF Destruct, DestructConnection, DestructQuit, Destructed
<1> QED
  BY <1>1, <1>2, <1>3, <1>4, <1>5, <1>6
  DEF Next, StarterStep, HandleRead, Accepts, PoolStep, DestructorStep

(* The flags of TypeOK, one by one.                                         *)
LEMMA Flags ==
  ASSUME TypeOK
  PROVE  /\ started_ \in BOOLEAN /\ listening_ \in BOOLEAN
         /\ exited \in BOOLEAN /\ useAfter \in BOOLEAN /\ tidy \in BOOLEAN
  BY DEF TypeOK

(* The loop a new connection is given, and its number.                      *)
LEMMA Given ==
  ASSUME TypeOK, StartInv, RoundInv
  PROVE  /\ NextLoop \in Loops
         /\ HandleRead => /\ nextConnId_ \in Conns /\ loops_ = numThreads_
                          /\ NextLoop \in 0 .. numThreads_
<1>1. ASSUME HandleRead
      PROVE  /\ nextConnId_ \in Conns /\ loops_ = numThreads_
             /\ NextLoop \in 0 .. numThreads_
  BY <1>1, ServerAssumption
  DEF HandleRead, StartInv, RoundInv, TypeOK, Conns, NextLoop
<1>2. NextLoop \in Loops
  BY ServerAssumption
  DEF NextLoop, Loops, PoolIds, TypeOK, RoundInv, StartInv
<1> QED BY <1>1, <1>2

(* The states of a connection.                                              *)
Any == {"none", "kConnecting", "kConnected", "kDisconnecting", "kDisconnected",
        "destroyed", "dropped"}

(* What a functor of a connection makes of its state.                       *)
LEMMA RanOf ==
  ASSUME TypeOK, NEW f, f[2] \in Conns
  PROVE  /\ Ran(f) \in [Conns -> Any]
         /\ \A c \in Conns : c # f[2] => Ran(f)[c] = conn[c]
         /\ f[1] = "established" => Ran(f)[f[2]] = "kConnected"
         /\ f[1] = "destroy" =>
              Ran(f)[f[2]] = IF conn[f[2]] = "kDisconnecting"
                             THEN "kDisconnecting" ELSE "destroyed"
         /\ f[1] \notin {"established", "destroy"} =>
              Ran(f)[f[2]] = conn[f[2]]
<1> DEFINE v == CASE f[1] = "established" -> "kConnected"
                  [] f[1] = "destroy" /\ conn[f[2]] # "kDisconnecting" ->
                       "destroyed"
                  [] OTHER -> conn[f[2]]
<1>1. conn \in [Conns -> Any]
  BY DEF TypeOK, Any
<1>2. Ran(f) = [conn EXCEPT ![f[2]] = v]
  BY DEF Ran
<1>3. /\ f[1] = "established" => v = "kConnected"
      /\ f[1] = "destroy" =>
           v = IF conn[f[2]] = "kDisconnecting" THEN "kDisconnecting"
               ELSE "destroyed"
      /\ f[1] \notin {"established", "destroy"} => v = conn[f[2]]
  OBVIOUS
<1>4. v \in Any
  BY <1>1, <1>3 DEF Any
<1> HIDE DEF v
<1> QED BY <1>1, <1>2, <1>3, <1>4

(* What becomes of the connections is one of their states.                  *)
LEMMA ConnType ==
  ASSUME TypeOK, PlaceInv, StartInv, RoundInv, Next
  PROVE  conn' \in [Conns -> Any]
<1> USE DEF Any
<1>1. \A c \in Conns : \A v \in Any : [conn EXCEPT ![c] = v] \in [Conns -> Any]
  BY DEF TypeOK
<1>2. CASE UNCHANGED conn
  BY <1>2 DEF TypeOK
<1>3. CASE Accepts
  BY <1>1, <1>3, Given DEF Accepts, NewConnection
<1>4. CASE BaseFunctor
  <2>1. /\ q[0] # <<>>
        /\ Head(q[0])[1] \in {"destroy", "force"} => Head(q[0])[2] \in Conns
    BY <1>4, TailOf, Kinds DEF PlaceInv, BaseFunctor
  <2>2. \/ UNCHANGED conn
        \/ Head(q[0])[2] \in Conns /\ conn' = Ran(Head(q[0]))
    BY <1>4, <2>1 DEF BaseFunctor
  <2> QED BY <1>2, <2>2, RanOf
<1>5. CASE DestructConnection
  <2>1. PICK c \in connections_ :
          UNCHANGED conn \/ conn' = Ran(<<"destroy", c>>)
    BY <1>5 DEF DestructConnection
  <2>2. c \in Conns /\ <<"destroy", c>>[2] = c
    BY DEF TypeOK
  <2>3. Ran(<<"destroy", c>>) \in [Conns -> Any]
    BY <2>2, RanOf
  <2> QED BY <1>2, <2>1, <2>3
<1>6. CASE \E c \in Conns : HandleClose(c) \/ ForceClose(c)
  <2>1. \A c \in Conns :
          [conn EXCEPT ![c] = IF @ = "kConnected" THEN "kDisconnecting" ELSE @]
            \in [Conns -> Any]
    BY DEF TypeOK
  <2> QED BY <1>1, <1>6, <2>1 DEF HandleClose, ForceClose
<1>7. CASE \E i \in PoolIds : PoolFunctor(i)
  <2>1. \A i \in PoolIds : batch[i] # <<>> => Head(batch[i])[2] \in Conns
    BY TailOf, Kinds DEF PlaceInv
  <2>2. PICK i \in PoolIds : PoolFunctor(i)
    BY <1>7
  <2>3. Head(batch[i])[2] \in Conns /\ conn' = Ran(Head(batch[i]))
    BY <2>1, <2>2 DEF PoolFunctor
  <2> QED BY <2>3, RanOf
<1>8. CASE \E i \in PoolIds : LoopTest(i)
  <2>1. PICK i \in PoolIds : LoopTest(i)
    BY <1>8
  <2>2. CASE quit_[i]
    <3>1. conn' = [c \in Conns |->
                     IF \E k \in 1 .. Len(q[i]) : q[i][k][2] = c
                     THEN "dropped" ELSE conn[c]]
      BY <2>1, <2>2 DEF LoopTest
    <3>2. \A c \in Conns : conn[c] \in Any
      BY DEF TypeOK
    <3> QED BY <3>1, <3>2
  <2> QED BY <1>2, <2>1, <2>2 DEF LoopTest
<1> QED BY <1>2, <1>3, <1>4, <1>5, <1>6, <1>7, <1>8, Who

(* Every action keeps TypeOK.                                               *)
LEMMA TypeStep ==
  ASSUME TypeOK, PlaceInv, StartInv, RoundInv, Next
  PROVE  TypeOK'
<1>1. MaxThreads \in Nat /\ MaxConns \in Nat
  BY ServerAssumption
<1>2. q' \in [Loops -> Seq(Functors)]
  BY QueuesStep DEF Queues
<1>3. conn' \in [Conns -> Any]
  BY ConnType
<1>4. server' \in {"alive", "closing", "joining", "gone"}
  BY Who DEF TypeOK, Destruct, DestructQuit, Destructed
<1>5. /\ spc' \in [Threads -> {"idle", "pool", "listen", "done"}]
      /\ started_' \in BOOLEAN
  BY Who, Flags DEF TypeOK, Start, StartLoop, StartListen
<1>6. /\ numThreads_' \in 0 .. MaxThreads
      /\ loops_' \in 0 .. numThreads_'
  <2>1. /\ numThreads_' = numThreads_
        /\ \/ loops_' = loops_
           \/ loops_ < numThreads_ /\ loops_' = loops_ + 1
    BY Who DEF StartLoop
  <2> QED BY <1>1, <2>1 DEF TypeOK
<1>7. next_' \in 0 .. MaxThreads
  <2>1. \/ next_' = next_ \/ next_' = 0
        \/ ~(next_ + 1 >= loops_) /\ next_' = next_ + 1
    BY Who DEF Accepts, NewConnection
  <2> QED BY <1>1, <2>1 DEF TypeOK
<1>8. nextConnId_' \in 1 .. MaxConns + 1 /\ backlog' \in 0 .. MaxConns
  <2>1. /\ UNCHANGED nextConnId_ \/ Accepts
        /\ UNCHANGED backlog \/ Connect \/ Accepts \/ Destructed
    BY Who
  <2>2. CASE Accepts
    BY <1>1, <2>2 DEF Accepts, HandleRead, NewConnection, StartInv, TypeOK
  <2>3. CASE ~Accepts
    BY <1>1, <2>1, <2>3 DEF Connect, Destructed, StartInv, TypeOK
  <2> QED BY <2>2, <2>3
<1>9. connections_' \subseteq Conns
  <2>1. ASSUME BaseFunctor PROVE connections_' \subseteq connections_
    BY <2>1 DEF BaseFunctor, RemoveInLoop
  <2> QED
    BY <2>1, Who, Given
    DEF TypeOK, Accepts, NewConnection, HandleClose, DestructConnection
<1>10. loopOf' \in [Conns -> Loops]
  BY Who, Given DEF TypeOK, Accepts, NewConnection
<1>11. batch' \in [PoolIds -> Seq(Functors)]
  <2>1. \A i \in PoolIds :
          /\ q[i] \in Seq(Functors)
          /\ batch[i] # <<>> => Tail(batch[i]) \in Seq(Functors)
    BY TailOf, Kinds DEF TypeOK
  <2> QED BY Who, <2>1 DEF TypeOK, SwapFunctors, PoolFunctor
<1>12. lpc' \in [PoolIds -> {"none", "events", "functors", "exited"}]
  BY Who DEF TypeOK, StartLoop, SwapFunctors, LoopTest
<1>13. quit_' \in [PoolIds -> BOOLEAN] /\ joining' \in 0 .. MaxThreads + 1
  <2>1. CASE DestructQuit
    <3>1. joining < loops_ /\ joining' = joining + 1
      BY <2>1 DEF DestructQuit
    <3>2. joining' \in 0 .. MaxThreads + 1
      BY <1>1, <3>1 DEF TypeOK
    <3>3. quit_' \in [PoolIds -> BOOLEAN]
      BY <2>1 DEF DestructQuit, TypeOK
    <3> QED BY <3>2, <3>3
  <2> QED BY <2>1, Who DEF TypeOK
<1>14. /\ listening_' \in BOOLEAN /\ exited' \in BOOLEAN
       /\ useAfter' \in BOOLEAN /\ tidy' \in BOOLEAN
  <2>1. useAfter' \in BOOLEAN
    BY Who, Flags DEF BaseFunctor, PoolFunctor
  <2> QED
    BY <2>1, Who, Flags
    DEF BaseFunctor, Destructed, StartListen, AcceptFails, Destruct
<1>15. disturbed' \subseteq Conns
  BY Grows, ForceQueues DEF TypeOK
<1> QED
  BY <1>2, <1>3, <1>4, <1>5, <1>6, <1>7, <1>8, <1>9, <1>10, <1>11, <1>12,
     <1>13, <1>14, <1>15, Zenon DEF TypeOK, Any

(* Every action keeps the functors where they belong.                       *)
LEMMA PlaceStep ==
  ASSUME TypeOK, PlaceInv, StartInv, RoundInv, Next
  PROVE  PlaceInv'
<1>1. \A i \in Loops : q'[i] \in Seq(Place(i)')
  BY QueuesStep DEF Queues
<1>2. ASSUME NEW i \in PoolIds
      PROVE  /\ batch'[i] \in Seq(Place(i))
             /\ lpc'[i] # "functors" => batch'[i] = <<>>
             /\ i > loops_' => lpc'[i] = "none"
  <2>1. /\ q[i] \in Seq(Place(i)) /\ batch[i] \in Seq(Place(i))
        /\ batch[i] # <<>> => Tail(batch[i]) \in Seq(Place(i))
        /\ lpc[i] # "functors" => batch[i] = <<>>
        /\ i > loops_ => lpc[i] = "none"
    BY TailOf, Kinds DEF PlaceInv
  <2>2. CASE \E j \in PoolIds : SwapFunctors(j)
    BY <2>1, <2>2 DEF SwapFunctors, startVars, TypeOK
  <2>3. CASE \E j \in PoolIds : PoolFunctor(j)
    BY <2>1, <2>3 DEF PoolFunctor, startVars, TypeOK
  <2>4. CASE \E j \in PoolIds : LoopTest(j)
    BY <2>1, <2>4 DEF LoopTest, startVars, TypeOK
  <2>5. CASE \E t \in Threads : StartLoop(t)
    <3>1. /\ UNCHANGED batch /\ loops_ \in Nat /\ i \in Nat
          /\ \/ UNCHANGED <<lpc, loops_>>
             \/ /\ lpc' = [lpc EXCEPT ![loops_ + 1] = "events"]
                /\ loops_' = loops_ + 1
      BY <2>5 DEF StartLoop, TypeOK, PoolIds
    <3>2. CASE UNCHANGED <<lpc, loops_>>
      BY <2>1, <3>1, <3>2
    <3>3. CASE i = loops_ + 1 /\ ~UNCHANGED <<lpc, loops_>>
      <4>1. batch[i] = <<>> /\ ~(i > loops_')
        BY <2>1, <3>1, <3>3
      <4> QED BY <2>1, <3>1, <4>1
    <3>4. CASE i # loops_ + 1 /\ ~UNCHANGED <<lpc, loops_>>
      <4>1. lpc'[i] = lpc[i] /\ (i > loops_' => i > loops_)
        BY <3>1, <3>4 DEF TypeOK
      <4> QED BY <2>1, <3>1, <4>1
    <3> QED BY <3>2, <3>3, <3>4
  <2> QED BY <2>1, <2>2, <2>3, <2>4, <2>5, Who
<1>3. \A i \in PoolIds : batch'[i] \in Seq(Place(i)')
  BY <1>2, Grows, PlaceGrows, Kinds
<1>4. ASSUME NEW c \in Conns, conn'[c] = "kDisconnecting" PROVE c \in disturbed'
  <2>1. CASE conn[c] = "kDisconnecting"
    BY <2>1, Grows DEF PlaceInv
  <2>2. CASE \E d \in Conns : ForceClose(d)
    BY <1>4, <2>1, <2>2 DEF ForceClose, TypeOK
  <2>3. ASSUME NEW f, f[2] \in Conns, conn' = Ran(f)
        PROVE  conn[c] = "kDisconnecting"
    BY <1>4, <2>3, RanOf
  <2>4. CASE BaseFunctor
    <3>1. /\ q[0] # <<>>
          /\ Head(q[0])[1] \in {"destroy", "force"} => Head(q[0])[2] \in Conns
      BY <2>4, TailOf, Kinds DEF PlaceInv, BaseFunctor
    <3>2. \/ UNCHANGED conn
          \/ Head(q[0])[2] \in Conns /\ conn' = Ran(Head(q[0]))
      BY <2>4, <3>1 DEF BaseFunctor
    <3> QED BY <1>4, <2>1, <2>3, <3>2
  <2>5. CASE \E j \in PoolIds : PoolFunctor(j)
    <3>1. \A j \in PoolIds : batch[j] # <<>> => Head(batch[j])[2] \in Conns
      BY TailOf, Kinds DEF PlaceInv
    <3> QED BY <2>1, <2>3, <2>5, <3>1 DEF PoolFunctor
  <2>6. CASE DestructConnection
    <3>1. PICK d \in connections_ :
            UNCHANGED conn \/ conn' = Ran(<<"destroy", d>>)
      BY <2>6 DEF DestructConnection
    <3>2. d \in Conns /\ <<"destroy", d>>[2] = d
      BY DEF TypeOK
    <3> QED BY <1>4, <2>1, <2>3, <3>1, <3>2
  <2>7. CASE Accepts \/ \E d \in Conns : HandleClose(d)
    <3>1. PICK d \in Conns, v \in Any :
            conn' = [conn EXCEPT ![d] = v] /\ v # "kDisconnecting"
      BY <2>7, Given DEF Accepts, NewConnection, HandleClose, Any
    <3> QED BY <1>4, <2>1, <3>1 DEF TypeOK
  <2>8. CASE \E j \in PoolIds : LoopTest(j)
    BY <1>4, <2>1, <2>8 DEF LoopTest
  <2> QED BY <1>4, <2>1, <2>2, <2>4, <2>5, <2>6, <2>7, <2>8, Who
<1> QED BY <1>1, <1>2, <1>3, <1>4 DEF PlaceInv

(* What a step may do to the functors of loop 0.                            *)
LEMMA BaseQueue ==
  ASSUME TypeOK, PlaceInv, StartInv, RoundInv, Next
  PROVE  \/ q'[0] = q[0]
         \/ \E t \in Threads : StartListen(t)
         \/ \E c \in Conns :
              /\ HandleClose(c)
              /\ q'[0] = Append(q[0], <<IF loopOf[c] = 0 THEN "destroy"
                                       ELSE "remove", c>>)
         \/ \E c \in disturbed' :
              /\ c \in Conns
              /\ \E x \in {"force", "remove"} :
                   q'[0] = Append(q[0], <<x, c>>)
         \/ q[0] # <<>> /\ q'[0] = Tail(q[0])
         \/ /\ q[0] # <<>> /\ server = "alive"
            /\ \E c \in Conns : q'[0] = Append(Tail(q[0]), <<"destroy", c>>)
<1> USE Kinds
<1>1. CASE UNCHANGED q
  BY <1>1
<1>2. ASSUME NEW i \in PoolIds, NEW s, q' = [q EXCEPT ![i] = s]
      PROVE  q'[0] = q[0]
  BY <1>2 DEF TypeOK
<1>3. CASE Accepts
  <2>1. NextLoop = 0 \/ NextLoop \in PoolIds
    BY Given DEF Loops
  <2> QED BY <1>1, <1>2, <1>3, <2>1 DEF Accepts, NewConnection, Queued
<1>4. CASE \E c \in Conns : HandleClose(c)
  <2>1. PICK c \in Conns : HandleClose(c)
    BY <1>4
  <2>2. \A f : Queued(0, f)[0] = Append(q[0], f)
    BY DEF Queued, TypeOK
  <2>3. CASE loopOf[c] = 0
    <3>1. q' = Queued(0, <<"destroy", c>>)
      BY <2>1, <2>3 DEF HandleClose
    <3> QED BY <2>1, <2>2, <2>3, <3>1, Zenon
  <2>4. CASE loopOf[c] # 0
    <3>1. q' = Queued(0, <<"remove", c>>)
      BY <2>1, <2>4 DEF HandleClose
    <3> QED BY <2>1, <2>2, <2>4, <3>1, Zenon
  <2> QED BY <2>3, <2>4
<1>5. CASE BaseFunctor
  <2>1. q[0] # <<>> /\ Head(q[0]) \in Place(0)
    BY <1>5, TailOf DEF BaseFunctor, PlaceInv
  <2>2. CASE q' = [q EXCEPT ![0] = Tail(@)]
    BY <2>1, <2>2 DEF TypeOK
  <2>3. CASE server = "alive" /\ \E c \in Conns : RemoveInLoop(c, Tail(q[0]))
    <3>1. PICK c \in Conns : RemoveInLoop(c, Tail(q[0]))
      BY <2>3
    <3>2. \/ q'[0] = Tail(q[0])
          \/ q'[0] = Append(Tail(q[0]), <<"destroy", c>>)
      BY <3>1 DEF RemoveInLoop, TypeOK
    <3> QED BY <2>1, <2>3, <3>2
  <2>4. /\ Head(q[0])[1] = "remove" => Head(q[0])[2] \in Conns
        /\ Head(q[0])[1] = "force" => Head(q[0])[2] \in Conns
    BY <2>1
  <2> QED BY <1>5, <2>2, <2>3, <2>4 DEF BaseFunctor, ClosesAgain
<1>6. CASE \E i \in PoolIds : SwapFunctors(i) \/ LoopTest(i)
  BY <1>1, <1>2, <1>6 DEF SwapFunctors, LoopTest
<1>8. ASSUME NEW i \in PoolIds, PoolFunctor(i)
      PROVE  \/ q'[0] = q[0]
             \/ \E c \in disturbed' :
                  /\ c \in Conns
                  /\ \E x \in {"force", "remove"} :
                       q'[0] = Append(q[0], <<x, c>>)
  <2>1. Head(batch[i]) \in Place(i)
    BY <1>8, TailOf DEF PoolFunctor, PlaceInv
  <2>2. \/ q' = q
        \/ /\ Head(batch[i])[1] = "force"
           /\ q' = Queued(0, <<"remove", Head(batch[i])[2]>>)
    BY <1>8 DEF PoolFunctor, ClosesAgain
  <2>3. Head(batch[i])[1] = "force" =>
          Head(batch[i])[2] \in Conns /\ Head(batch[i])[2] \in disturbed'
    BY <2>1, Grows
  <2>4. \A f : Queued(0, f)[0] = Append(q[0], f)
    BY DEF Queued, TypeOK
  <2> QED BY <2>2, <2>3, <2>4
<1>9. ASSUME NEW c \in Conns, ForceClose(c)
      PROVE  \/ q'[0] = q[0]
             \/ c \in disturbed' /\ q'[0] = Append(q[0], <<"force", c>>)
  <2>1. /\ loopOf[c] \in Loops /\ c \in disturbed'
        /\ q' = [q EXCEPT ![loopOf[c]] = Append(q[loopOf[c]], <<"force", c>>)]
    BY <1>9, ForceQueues
  <2>2. q \in [Loops -> Seq(Functors)] /\ 0 \in Loops
    BY DEF TypeOK
  <2>3. CASE loopOf[c] = 0
    <3>1. q'[0] = Append(q[0], <<"force", c>>)
      BY <2>1, <2>2, <2>3
    <3> QED BY <2>1, <3>1, Zenon
  <2>4. CASE loopOf[c] # 0
    BY <2>1, <2>2, <2>4
  <2> QED BY <2>3, <2>4
<1>7. CASE DestructConnection
  <2>1. PICK c \in connections_ :
          \/ UNCHANGED q
          \/ loopOf[c] # 0 /\ q' = Queued(loopOf[c], <<"destroy", c>>)
    BY <1>7 DEF DestructConnection
  <2>2. loopOf[c] # 0 => loopOf[c] \in PoolIds
    BY DEF TypeOK, Loops
  <2> QED BY <1>1, <1>2, <2>1, <2>2 DEF Queued
<1> QED
  BY <1>1, <1>3, <1>4, <1>5, <1>6, <1>7, <1>8, <1>9
  DEF PoolStep, Next, StarterStep, DestructorStep, Start, StartLoop, Connect, HandleRead,
      Accepts, AcceptFails, Destruct, DestructQuit, Destructed, loopVars

(* Every action keeps the order of the server's start and end.              *)
LEMMA StartStep ==
  ASSUME TypeOK, PlaceInv, StartInv, RoundInv, Next
  PROVE  StartInv'
<1>0. /\ loops_ \in 0 .. numThreads_ /\ numThreads_ \in Nat
      /\ numThreads_' = numThreads_
  BY Who, ServerAssumption DEF TypeOK
<1>1. loops_ = numThreads_ => loops_' = numThreads_'
  <2>1. loops_' = loops_ \/ loops_ < numThreads_
    BY Who DEF StartLoop
  <2> QED BY <1>0, <2>1
<1>2. ASSUME NEW t \in Threads, spc'[t] = "listen"
      PROVE  loops_' = numThreads_'
  <2>1. CASE spc[t] = "listen"
    BY <1>1, <2>1 DEF StartInv
  <2>2. CASE spc[t] # "listen"
    <3>1. PICK u \in Threads : Start(u) \/ StartLoop(u) \/ StartListen(u)
      BY <1>2, <2>2, Who
    <3>2. StartLoop(u) /\ ~(loops_ < numThreads_)
      BY <1>2, <2>2, <3>1 DEF Start, StartLoop, StartListen, TypeOK
    <3> QED BY <1>0, <1>1, <3>2
  <2> QED BY <2>1, <2>2
<1>3. /\ q[0] \in Seq(Place(0)) /\ q[0] \in Seq(Functors)
      /\ Place(0) \subseteq Functors
  BY Kinds DEF TypeOK, PlaceInv
<1>4. ASSUME listening_' PROVE loops_' = numThreads_'
  <2>1. CASE listening_
    BY <1>1, <2>1 DEF StartInv
  <2>2. CASE BaseFunctor /\ ~listening_
    <3>1. q[0] # <<>> /\ Head(q[0])[1] = "listen"
      BY <1>4, <2>2 DEF BaseFunctor
    <3>2. q[0][1] = <<"listen", 0>> /\ 1 \in 1 .. Len(q[0])
      BY <1>3, <3>1, TailOf, Kinds
    <3> QED BY <1>1, <3>2 DEF StartInv
  <2>3. CASE \E t \in Threads : StartListen(t)
    BY <1>1, <2>3 DEF StartListen, StartInv
  <2> QED BY <1>4, <2>1, <2>2, <2>3, Who DEF Destructed
<1>5. ASSUME NEW k \in 1 .. Len(q'[0]), q'[0][k] = <<"listen", 0>>
      PROVE  loops_' = numThreads_'
  <2>1. CASE \E t \in Threads : StartListen(t)
    BY <1>1, <2>1 DEF StartListen, StartInv
  <2>2. CASE \E j \in 1 .. Len(q[0]) : q[0][j] = <<"listen", 0>>
    BY <1>1, <2>2 DEF StartInv
  <2>4. CASE \E c \in Conns :
               \/ q'[0] = Append(q[0], <<"remove", c>>)
               \/ q'[0] = Append(q[0], <<"destroy", c>>)
               \/ q'[0] = Append(q[0], <<"force", c>>)
    <3>1. PICK c \in Conns : \/ q'[0] = Append(q[0], <<"remove", c>>)
                             \/ q'[0] = Append(q[0], <<"destroy", c>>)
                             \/ q'[0] = Append(q[0], <<"force", c>>)
      BY <2>4
    <3>2. /\ <<"remove", c>> \in Functors /\ <<"destroy", c>> \in Functors
          /\ <<"force", c>> \in Functors
          /\ <<"remove", c>> # <<"listen", 0>>
          /\ <<"destroy", c>> # <<"listen", 0>>
          /\ <<"force", c>> # <<"listen", 0>>
      BY DEF Functors
    <3>3. ASSUME NEW x \in Functors, x # <<"listen", 0>>,
                 q'[0] = Append(q[0], x)
          PROVE  k \in 1 .. Len(q[0]) /\ q[0][k] = <<"listen", 0>>
      <4>1. \A j \in 1 .. Len(Append(q[0], x)) :
              \/ Append(q[0], x)[j] = x
              \/ j \in 1 .. Len(q[0]) /\ Append(q[0], x)[j] = q[0][j]
        BY <1>3, <3>3, AppendOf
      <4> QED BY <1>5, <3>3, <4>1, Zenon
    <3> QED BY <2>2, <3>1, <3>2, <3>3, Zenon
  <2>5. CASE q[0] # <<>> /\ q'[0] = Tail(q[0])
    BY <1>3, <1>5, <2>2, <2>5, TailOf
  <2>6. CASE /\ q[0] # <<>>
             /\ \E c \in Conns : q'[0] = Append(Tail(q[0]), <<"destroy", c>>)
    <3>1. PICK c \in Conns : q'[0] = Append(Tail(q[0]), <<"destroy", c>>)
      BY <2>6
    <3>2. Tail(q[0]) \in Seq(Place(0)) /\ <<"destroy", c>> \in Place(0)
      BY <1>3, <2>6, TailOf, Kinds
    <3>3. k \in 1 .. Len(Tail(q[0])) /\ Tail(q[0])[k] = <<"listen", 0>>
      BY <1>5, <3>1, <3>2, AppendOf
    <3> QED BY <1>3, <2>2, <2>6, <3>3, TailOf
  <2> QED BY <1>5, <2>1, <2>2, <2>4, <2>5, <2>6, BaseQueue
<1>6. server' # "alive" => \A t \in Threads : spc'[t] \in {"idle", "done"}
  <2>1. CASE UNCHANGED server
    BY <2>1, Who DEF StartInv, Start, StartLoop, StartListen, TypeOK
  <2>2. CASE Destruct
    BY <2>2 DEF Destruct, startVars
  <2>3. CASE DestructQuit \/ Destructed
    BY <2>3 DEF DestructQuit, Destructed, StartInv, startVars
  <2> QED BY <2>1, <2>2, <2>3, Who
<1>7. server' = "alive" => joining' = 0 /\ \A i \in PoolIds : ~quit_'[i]
  BY Who DEF StartInv, Destruct, DestructQuit, Destructed
<1>8. joining' <= loops_'
  <2>1. /\ loops_' = loops_ \/ loops_' = loops_ + 1
        /\ joining' = joining \/ (joining < loops_ /\ joining' = joining + 1)
    <3>1. loops_' = loops_ \/ loops_' = loops_ + 1
      BY Who DEF StartLoop
    <3>2. joining' = joining \/ (joining < loops_ /\ joining' = joining + 1)
      BY Who DEF DestructQuit
    <3> QED BY <3>1, <3>2
  <2>2. DestructQuit => loops_' = loops_
    BY DEF DestructQuit, startVars
  <2>3. joining' = joining \/ loops_' = loops_
    BY <2>2, Who
  <2> QED BY <1>0, <2>1, <2>3 DEF StartInv, TypeOK
<1>9. backlog' + nextConnId_' <= MaxConns + 1
  <2>1. /\ UNCHANGED nextConnId_ \/ Accepts
        /\ UNCHANGED backlog \/ Connect \/ Accepts \/ Destructed
    BY Who
  <2>2. CASE Accepts
    BY <2>2, ServerAssumption DEF Accepts, NewConnection, StartInv, TypeOK
  <2>3. CASE ~Accepts
    BY <2>1, <2>3, ServerAssumption DEF Connect, Destructed, StartInv, TypeOK
  <2> QED BY <2>2, <2>3
<1>10. nextConnId_' > 1 => loops_' = numThreads_'
  BY <1>1, Who, Given DEF Accepts, StartInv
<1>11. useAfter' => server' = "gone"
  <2>1. CASE BaseFunctor \/ \E i \in PoolIds : PoolFunctor(i)
    BY <2>1 DEF BaseFunctor, PoolFunctor, StartInv
  <2>2. CASE Destruct \/ DestructQuit \/ Destructed
    BY <2>2 DEF Destruct, DestructQuit, Destructed, StartInv, ghostVars
  <2> QED BY <2>1, <2>2, Who DEF StartInv
<1> QED
  BY <1>2, <1>4, <1>5, <1>6, <1>7, <1>8, <1>9, <1>10, <1>11 DEF StartInv

-----------------------------------------------------------------------------
(* newConnection() takes the connections' shares one turn further.          *)
LEMMA RoundStep ==
  ASSUME TypeOK, PlaceInv, StartInv, RoundInv, Next
  PROVE  RoundInv'
<1>1. CASE UNCHANGED <<next_, nextConnId_, loopOf>>
  BY <1>1, Who DEF RoundInv, Assigned
<1>2. CASE Accepts
  <2>1. /\ nextConnId_ \in Conns /\ loops_ = numThreads_
        /\ NextLoop \in 0 .. numThreads_ /\ numThreads_' = numThreads_
        /\ numThreads_ \in Nat /\ next_ \in Nat /\ nextConnId_ \in Nat
        /\ nextConnId_ >= 1
    BY <1>2, Given, Who, ServerAssumption DEF Accepts, TypeOK
  <2>2. /\ next_' = IF loops_ = 0 \/ next_ + 1 >= loops_ THEN 0 ELSE next_ + 1
        /\ nextConnId_' = nextConnId_ + 1
        /\ loopOf' = [loopOf EXCEPT ![nextConnId_] = NextLoop]
    BY <1>2 DEF Accepts, NewConnection
  <2>3. \A c \in Conns :
          loopOf'[c] = IF c = nextConnId_ THEN NextLoop ELSE loopOf[c]
    BY <2>2 DEF TypeOK
  <2>4. \A c \in Conns : loopOf'[c] \in 0 .. numThreads_'
    BY <2>1, <2>3 DEF RoundInv
  <2>5. CASE numThreads_ = 0
    BY <2>1, <2>2, <2>3, <2>4, <2>5 DEF RoundInv, NextLoop
  <2>6. CASE numThreads_ > 0
    <3>1. /\ next_ < numThreads_ /\ NextLoop = next_ + 1
          /\ next_' = IF next_ + 1 = numThreads_ THEN 0 ELSE next_ + 1
      BY <2>1, <2>2, <2>6 DEF RoundInv, NextLoop
    <3>2. ASSUME NEW i
          PROVE  /\ IsFiniteSet(Assigned(i)) /\ nextConnId_ \notin Assigned(i)
                 /\ Cardinality(Assigned(i)) \in Nat
                 /\ Assigned(i)' = IF i = NextLoop
                                   THEN Assigned(i) \cup {nextConnId_}
                                   ELSE Assigned(i)
      <4>1. IsFiniteSet(1 .. nextConnId_ - 1)
        BY <2>1, FS_Interval
      <4>2. IsFiniteSet(Assigned(i)) /\ nextConnId_ \notin Assigned(i)
        BY <2>1, <4>1, FS_Subset DEF Assigned
      <4>3. /\ 1 .. nextConnId_' - 1 = (1 .. nextConnId_ - 1) \cup {nextConnId_}
            /\ nextConnId_ \notin 1 .. nextConnId_ - 1
            /\ 1 .. nextConnId_ - 1 \subseteq Conns
        BY <2>1, <2>2, ServerAssumption DEF Conns
      <4>4. Assigned(i)' = IF i = NextLoop
                           THEN Assigned(i) \cup {nextConnId_} ELSE Assigned(i)
        BY <2>1, <2>3, <4>3 DEF Assigned
      <4> QED BY <4>2, <4>4, FS_CardinalityType
    <3>3. ASSUME NEW i
          PROVE  Cardinality(Assigned(i)')
                   = Cardinality(Assigned(i)) + IF i = NextLoop THEN 1 ELSE 0
      BY <3>2, FS_AddElement
    <3>4. Assigned(0)' = {}
      BY <2>6, <3>1, <3>2, <2>1 DEF RoundInv
    <3>0. PICK n \in Nat : n = numThreads_ /\ n = numThreads_'
      BY <2>1
    <3>5. ASSUME NEW i \in 1 .. n
          PROVE  Cardinality(Assigned(i)')
                   = Cardinality(Assigned(n)')
                       + IF i <= next_' THEN 1 ELSE 0
      <4> DEFINE A == Cardinality(Assigned(i))
                 B == Cardinality(Assigned(n))
                 X == Cardinality(Assigned(i)')
                 Y == Cardinality(Assigned(n)')
      <4>1. A \in Nat /\ B \in Nat
        BY <3>2
      <4>2. X = A + IF i = NextLoop THEN 1 ELSE 0
        BY <3>3
      <4>3. Y = B + IF n = NextLoop THEN 1 ELSE 0
        BY <3>3
      <4>4. A = B + IF i <= next_ THEN 1 ELSE 0
        BY <2>6, <3>0, <3>5 DEF RoundInv
      <4> HIDE DEF A, B, X, Y
      <4>5. X = Y + IF i <= next_' THEN 1 ELSE 0
        BY <2>1, <3>0, <3>1, <4>1, <4>2, <4>3, <4>4
      <4> QED BY <4>5 DEF X, Y
    <3>6. next_' < numThreads_
      BY <2>1, <2>6, <3>1
    <3>7. numThreads_' > 0 /\ numThreads_' # 0
      BY <2>1, <2>6
    <3> QED BY <2>1, <2>4, <3>0, <3>4, <3>5, <3>6, <3>7 DEF RoundInv
  <2> QED BY <2>1, <2>5, <2>6
<1> QED BY <1>1, <1>2, Who

(* The shares of RoundInv differ by one at most.                            *)
LEMMA RoundServed == TypeOK /\ RoundInv => ServedByPool
<1> SUFFICES ASSUME TypeOK, RoundInv, numThreads_ > 0
             PROVE  /\ Cardinality(Assigned(0)) = 0
                    /\ \A i, j \in 1 .. numThreads_ :
                         Cardinality(Assigned(i))
                           <= Cardinality(Assigned(j)) + 1
  BY DEF ServedByPool, Assigned
<1>1. Cardinality(Assigned(0)) = 0
  BY FS_EmptySet DEF RoundInv
<1>2. Cardinality(Assigned(numThreads_)) \in Nat
  <2>1. IsFiniteSet(1 .. nextConnId_ - 1)
    BY FS_Interval DEF TypeOK
  <2>2. IsFiniteSet(Assigned(numThreads_))
    BY <2>1, FS_Subset DEF Assigned
  <2> QED BY <2>2, FS_CardinalityType
<1>3. ASSUME NEW i \in 1 .. numThreads_, NEW j \in 1 .. numThreads_
      PROVE  Cardinality(Assigned(i)) <= Cardinality(Assigned(j)) + 1
  BY <1>2 DEF RoundInv
<1> QED BY <1>1, <1>3

-----------------------------------------------------------------------------
(* The functors of a loop are in one line.                                  *)
LEMMA LineType ==
  ASSUME TypeOK, PlaceInv, NEW i \in Loops
  PROVE  /\ Line(i) \in Seq(Place(i))
         /\ \A f : Times(Line(i), f) \in Nat
<1>1. Line(i) \in Seq(Place(i))
  BY Joined, Kinds DEF Line, PlaceInv, Loops
<1> QED BY <1>1, TimesType

(* A functor queued in loop i is the last of its line.                      *)
LEMMA Pushed ==
  ASSUME TypeOK, PlaceInv, NEW i \in Loops, NEW f \in Place(i),
         q' = Queued(i, f), UNCHANGED batch, NEW j \in Loops, NEW g
  PROVE  Times(Line(j)', g)
           = Times(Line(j), g) + IF j = i /\ f = g THEN 1 ELSE 0
<1>1. q'[j] = IF j = i THEN Append(q[j], f) ELSE q[j]
  BY DEF Queued, TypeOK
<1>2. CASE j # i
  <2>1. Line(j)' = Line(j)
    BY <1>1, <1>2 DEF Line
  <2> QED BY <2>1, <1>2, LineType
<1>3. CASE j = i
  <2>1. Line(i)' = Append(Line(i), f)
    <3>1. CASE i = 0
      BY <1>1, <1>3, <3>1 DEF Line
    <3>2. CASE i # 0
      <4>1. batch[i] \in Seq(Place(i)) /\ q[i] \in Seq(Place(i))
        BY <3>2 DEF PlaceInv, Loops
      <4>2. batch[i] \o Append(q[i], f) = Append(batch[i] \o q[i], f)
        <5>1. \A b, s \in Seq(Place(i)) : b \o Append(s, f) = Append(b \o s, f)
          BY Joined
        <5> QED BY <4>1, <5>1, Zenon
      <4> QED BY <1>1, <1>3, <3>2, <4>2 DEF Line
    <3> QED BY <3>1, <3>2
  <2>2. Times(Append(Line(i), f), g)
          = Times(Line(i), g) + IF f = g THEN 1 ELSE 0
    BY LineType, TimesAppend
  <2> QED BY <1>3, <2>1, <2>2
<1> QED BY <1>2, <1>3

(* A loop takes the first of its line, f, to run it.                        *)
Takes(i, f) ==
  \/ /\ i = 0 /\ q[0] # <<>> /\ f = Head(q[0])
     /\ q' = [q EXCEPT ![0] = Tail(q[0])] /\ UNCHANGED batch
  \/ /\ i # 0 /\ batch[i] # <<>> /\ f = Head(batch[i])
     /\ batch' = [batch EXCEPT ![i] = Tail(batch[i])] /\ UNCHANGED q

(* That leaves it there once less.                                          *)
LEMMA Popped ==
  ASSUME TypeOK, PlaceInv, NEW i \in Loops, NEW j \in Loops, NEW g, NEW f,
         Takes(i, f)
  PROVE  /\ Times(Line(j)', g) \in Nat
         /\ Times(Line(j), g)
              = Times(Line(j)', g) + IF j = i /\ f = g THEN 1 ELSE 0
<1>1. /\ Line(i) # <<>> /\ Head(Line(i)) = f /\ Line(i)' = Tail(Line(i))
      /\ \A l \in Loops : l # i => Line(l)' = Line(l)
  <2>1. CASE i = 0
    BY <2>1 DEF Line, TypeOK, Takes
  <2>2. CASE i # 0
    <3>1. /\ batch[i] \in Seq(Place(i)) /\ q[i] \in Seq(Place(i))
          /\ i \in PoolIds /\ batch[i] # <<>> /\ f = Head(batch[i])
          /\ batch' = [batch EXCEPT ![i] = Tail(batch[i])] /\ q' = q
      BY <2>2 DEF PlaceInv, Loops, Takes
    <3>2. /\ batch[i] \o q[i] # <<>> /\ Head(batch[i] \o q[i]) = Head(batch[i])
          /\ Tail(batch[i] \o q[i]) = Tail(batch[i]) \o q[i]
      <4>1. \A b, s \in Seq(Place(i)) :
              b # <<>> => /\ b \o s # <<>> /\ Head(b \o s) = Head(b)
                          /\ Tail(b \o s) = Tail(b) \o s
        BY Joined
      <4> QED BY <3>1, <4>1, Zenon
    <3>3. \A l \in PoolIds :
            batch'[l] = IF l = i THEN Tail(batch[l]) ELSE batch[l]
      BY <3>1 DEF TypeOK
    <3>4. /\ Line(i) = batch[i] \o q[i] /\ Line(i)' = Tail(batch[i]) \o q[i]
          /\ \A l \in Loops : l # i => Line(l)' = Line(l)
      <4>1. /\ batch'[i] = Tail(batch[i]) /\ q' = q
            /\ \A l \in Loops : l = 0 \/ l \in PoolIds
        BY <3>1, <3>3 DEF Loops
      <4>2. ASSUME NEW l \in Loops, l # i PROVE Line(l)' = Line(l)
        <5>1. l # 0 => batch'[l] = batch[l]
          BY <3>3, <4>1, <4>2
        <5> QED BY <4>1, <5>1, Zenon DEF Line
      <4> QED BY <2>2, <4>1, <4>2, Zenon DEF Line
    <3> QED BY <3>1, <3>2, <3>4, Zenon
  <2> QED BY <2>1, <2>2
<1>2. CASE j # i
  BY <1>1, <1>2, LineType
<1>3. CASE j = i
  <2>1. /\ Times(Line(i), g) = Times(Tail(Line(i)), g)
                                 + IF f = g THEN 1 ELSE 0
        /\ Times(Tail(Line(i)), g) \in Nat
    BY <1>1, LineType, TimesTail
  <2> QED BY <1>1, <1>3, <2>1
<1> QED BY <1>1, <1>2, <1>3

(* removeConnectionInLoop() for a connection of the pool takes the first of *)
(* loop 0's line and puts f at the end of that of loop l, ...               *)
Moves(l, f) ==
  /\ q[0] # <<>> /\ q'[0] = Tail(q[0]) /\ q'[l] = Append(q[l], f)
  /\ \A i \in Loops : i # 0 /\ i # l => q'[i] = q[i]
  /\ UNCHANGED batch

(* ... which changes how often both are there.                              *)
LEMMA Moved ==
  ASSUME TypeOK, PlaceInv, NEW l \in PoolIds, NEW f \in Place(l),
         NEW j \in Loops, NEW g, Moves(l, f)
  PROVE  Times(Line(j)', g)
           = (Times(Line(j), g) - IF j = 0 /\ Head(q[0]) = g THEN 1 ELSE 0)
               + IF j = l /\ f = g THEN 1 ELSE 0
<1>0. /\ q[0] # <<>> /\ q'[0] = Tail(q[0]) /\ q'[l] = Append(q[l], f)
      /\ \A i \in Loops : i # 0 /\ i # l => q'[i] = q[i]
      /\ UNCHANGED batch
  BY DEF Moves
<1>1. l # 0 /\ l \in Loops
  BY Kinds
<1>2. CASE j = 0
  <2>1. /\ Times(q[0], g) = Times(Tail(q[0]), g)
                              + IF Head(q[0]) = g THEN 1 ELSE 0
        /\ Times(Tail(q[0]), g) \in Nat
    BY <1>0, Kinds, TimesTail DEF PlaceInv
  <2>2. Line(0)' = Tail(q[0]) /\ Line(0) = q[0]
    BY <1>0 DEF Line
  <2>3. /\ Times(Line(j)', g) = Times(Tail(q[0]), g)
        /\ Times(Line(j), g) = Times(q[0], g)
    BY <1>2, <2>2
  <2>4. j # l
    BY <1>1, <1>2
  <2>5. CASE Head(q[0]) = g
    BY <1>2, <2>1, <2>3, <2>4, <2>5
  <2>6. CASE Head(q[0]) # g
    BY <1>2, <2>1, <2>3, <2>4, <2>6
  <2> QED BY <2>5, <2>6
<1>3. CASE j = l
  <2>1. batch[l] \in Seq(Place(l)) /\ q[l] \in Seq(Place(l))
    BY <1>1 DEF PlaceInv
  <2>2. batch[l] \o Append(q[l], f) = Append(batch[l] \o q[l], f)
    <3>1. \A b, s \in Seq(Place(l)) : b \o Append(s, f) = Append(b \o s, f)
      BY Joined
    <3> QED BY <2>1, <3>1, Zenon
  <2>3. Line(l)' = Append(Line(l), f)
    BY <1>0, <1>1, <2>2 DEF Line
  <2>4. /\ Times(Append(Line(l), f), g)
             = Times(Line(l), g) + IF f = g THEN 1 ELSE 0
        /\ Times(Line(l), g) \in Nat
    BY <1>1, LineType, TimesAppend
  <2> QED BY <1>1, <1>3, <2>3, <2>4
<1>4. CASE j # 0 /\ j # l
  <2>1. Line(j)' = Line(j)
    <3>1. q'[j] = q[j]
      BY <1>0, <1>4
    <3>2. /\ Line(j) = batch[j] \o q[j] /\ Line(j)' = batch'[j] \o q'[j]
          /\ batch'[j] = batch[j]
      BY <1>0, <1>4 DEF Line
    <3> QED BY <3>1, <3>2, Zenon
  <2> QED BY <1>4, <2>1, LineType
<1> QED BY <1>2, <1>3, <1>4

-----------------------------------------------------------------------------
(* The functors of a connection.                                            *)
Steps == {"remove", "established", "destroy"}

(* How often a functor is in line is a number.                              *)
LEMMA AtType ==
  ASSUME TypeOK, PlaceInv
  PROVE  \A j \in Loops, x \in Steps, c \in Conns : At(j, x, c) \in Nat
  BY LineType DEF At

(* Queueing counts for one functor of one connection in one loop.           *)
LEMMA PushedAt ==
  ASSUME TypeOK, PlaceInv, NEW i \in Loops, NEW y \in Steps, NEW d \in Conns,
         <<y, d>> \in Place(i), q' = Queued(i, <<y, d>>), UNCHANGED batch
  PROVE  \A j \in Loops, x \in Steps, c \in Conns :
           At(j, x, c)' = At(j, x, c)
                            + IF j = i /\ x = y /\ c = d THEN 1 ELSE 0
<1> SUFFICES ASSUME NEW j \in Loops, NEW x \in Steps, NEW c \in Conns
             PROVE  At(j, x, c)' = At(j, x, c)
                                 + IF j = i /\ x = y /\ c = d THEN 1 ELSE 0
  OBVIOUS
<1>1. Times(Line(j)', <<x, c>>)
        = Times(Line(j), <<x, c>>)
            + IF j = i /\ <<y, d>> = <<x, c>> THEN 1 ELSE 0
  BY Pushed
<1>2. <<y, d>> = <<x, c>> <=> x = y /\ c = d
  OBVIOUS
<1> QED BY <1>1, <1>2 DEF At

(* So does running one.                                                     *)
LEMMA PoppedAt ==
  ASSUME TypeOK, PlaceInv, NEW i \in Loops, NEW y \in Steps, NEW d \in Conns,
         Takes(i, <<y, d>>)
  PROVE  \A j \in Loops, x \in Steps, c \in Conns :
           /\ At(j, x, c)' \in Nat
           /\ At(j, x, c) = At(j, x, c)'
                              + IF j = i /\ x = y /\ c = d THEN 1 ELSE 0
<1> SUFFICES ASSUME NEW j \in Loops, NEW x \in Steps, NEW c \in Conns
             PROVE  /\ At(j, x, c)' \in Nat
                    /\ At(j, x, c) = At(j, x, c)'
                                   + IF j = i /\ x = y /\ c = d THEN 1 ELSE 0
  OBVIOUS
<1>1. /\ Times(Line(j)', <<x, c>>) \in Nat
      /\ Times(Line(j), <<x, c>>)
           = Times(Line(j)', <<x, c>>)
               + IF j = i /\ <<y, d>> = <<x, c>> THEN 1 ELSE 0
  BY Popped
<1>2. <<y, d>> = <<x, c>> <=> x = y /\ c = d
  OBVIOUS
<1> QED BY <1>1, <1>2 DEF At

(* A step that only takes functors of connection d from the front of the    *)
(* lines, or puts some at their end, ...                                    *)
Kin(d) == {<<x, d>> : x \in Steps \cup {"force"}}

OnlyFor(d) ==
  \A j \in Loops :
    \/ Line(j)' = Line(j)
    \/ \E f \in Kin(d) : f \in Functors /\ Line(j)' = Append(Line(j), f)
    \/ /\ Line(j) # <<>> /\ Head(Line(j)) \in Kin(d)
       /\ \/ Line(j)' = Tail(Line(j))
          \/ \E f \in Kin(d) : /\ f \in Functors
                               /\ Line(j)' = Append(Tail(Line(j)), f)

(* ... counts for no other connection.                                      *)
LEMMA Apart ==
  ASSUME TypeOK, PlaceInv, NEW d \in Conns, OnlyFor(d)
  PROVE  \A c \in Conns \ {d} :
           \A j \in Loops, x \in Steps : At(j, x, c)' = At(j, x, c)
<1> SUFFICES ASSUME NEW c \in Conns \ {d}, NEW j \in Loops, NEW x \in Steps
             PROVE  Times(Line(j)', <<x, c>>) = Times(Line(j), <<x, c>>)
  BY DEF At
<1>1. \A f \in Kin(d) : f # <<x, c>>
  BY DEF Kin
<1>2. /\ Line(j) \in Seq(Functors) /\ Times(Line(j), <<x, c>>) \in Nat
      /\ Line(j) # <<>> => Tail(Line(j)) \in Seq(Functors)
  <2>1. Line(j) \in Seq(Place(j)) /\ Place(j) \subseteq Functors
    BY LineType, Kinds
  <2>2. Line(j) \in Seq(Functors)
    BY <2>1, Narrowed
  <2> QED BY <2>2, LineType, TailOf
<1>3. ASSUME NEW s \in Seq(Functors), NEW f \in Kin(d), f \in Functors
      PROVE  Times(Append(s, f), <<x, c>>) = Times(s, <<x, c>>)
  <2>1. Times(s, <<x, c>>) \in Nat
    BY TimesType
  <2> QED BY <1>1, <1>3, <2>1, TimesAppend
<1>4. ASSUME Line(j) # <<>>, Head(Line(j)) \in Kin(d)
      PROVE  Times(Tail(Line(j)), <<x, c>>) = Times(Line(j), <<x, c>>)
  BY <1>1, <1>2, <1>4, TimesTail
<1>5. CASE Line(j)' = Line(j)
  BY <1>5
<1>6. CASE \E f \in Kin(d) : f \in Functors /\ Line(j)' = Append(Line(j), f)
  BY <1>2, <1>3, <1>6
<1>7. CASE /\ Line(j) # <<>> /\ Head(Line(j)) \in Kin(d)
           /\ Line(j)' = Tail(Line(j))
  BY <1>4, <1>7
<1>8. CASE /\ Line(j) # <<>> /\ Head(Line(j)) \in Kin(d)
           /\ \E f \in Kin(d) : /\ f \in Functors
                                /\ Line(j)' = Append(Tail(Line(j)), f)
  <2>1. PICK f \in Kin(d) :
          f \in Functors /\ Line(j)' = Append(Tail(Line(j)), f)
    BY <1>8
  <2>2. Times(Append(Tail(Line(j)), f), <<x, c>>)
          = Times(Tail(Line(j)), <<x, c>>)
    BY <1>2, <1>3, <1>8, <2>1
  <2> QED BY <1>4, <1>8, <2>1, <2>2
<1> QED BY <1>5, <1>6, <1>7, <1>8, Zenon DEF OnlyFor

(* A step that leaves a connection and its functors alone leaves its life   *)
(* alone.                                                                   *)
LEMMA LifeKept ==
  ASSUME NEW c \in Conns, LifeOf(c), conn'[c] = conn[c],
         loopOf'[c] = loopOf[c], c \in connections_' <=> c \in connections_,
         c >= nextConnId_' => c >= nextConnId_,
         \A j \in Loops, x \in Steps : At(j, x, c)' = At(j, x, c)
  PROVE  LifeOf(c)'
<1>1. \A j \in Loops : /\ At(j, "remove", c)' = At(j, "remove", c)
                       /\ At(j, "established", c)' = At(j, "established", c)
                       /\ At(j, "destroy", c)' = At(j, "destroy", c)
  BY DEF Steps
<1>2. ASSUME NEW r, NEW e, NEW d, Has(c, r, e, d)
      PROVE  Has(c, r, e, d)'
  BY <1>1, <1>2, Kinds DEF Has
<1> QED BY <1>1, <1>2, Kinds DEF LifeOf

(* newConnection().                                                         *)
LEMMA AcceptLife ==
  ASSUME TypeOK, PlaceInv, StartInv, RoundInv, LifeInv, Accepts
  PROVE  LifeInv'
<1>1. /\ server = "alive" /\ server' = server /\ nextConnId_ \in Conns
      /\ NextLoop = 0 \/ NextLoop \in PoolIds
  BY Given DEF Accepts, HandleRead, NewConnection, Loops
<1>2. /\ UNCHANGED batch /\ nextConnId_' = nextConnId_ + 1
      /\ loopOf' = [loopOf EXCEPT ![nextConnId_] = NextLoop]
      /\ connections_' = connections_ \cup {nextConnId_}
      /\ \/ /\ NextLoop = 0 /\ UNCHANGED q
            /\ conn' = [conn EXCEPT ![nextConnId_] = "kConnected"]
         \/ /\ NextLoop # 0
            /\ conn' = [conn EXCEPT ![nextConnId_] = "kConnecting"]
            /\ q' = Queued(NextLoop, <<"established", nextConnId_>>)
  BY DEF Accepts, NewConnection
<1>3. PICK d \in Conns, n \in Loops : d = nextConnId_ /\ n = NextLoop
  BY <1>1, Kinds
<1>4. \A j \in Loops, x \in Steps, c \in Conns :
        At(j, x, c)' = At(j, x, c) + IF /\ n # 0 /\ j = n
                                        /\ x = "established" /\ c = d
                                     THEN 1 ELSE 0
  <2>1. CASE n = 0
    <3>1. \A j \in Loops, x \in Steps, c \in Conns : At(j, x, c)' = At(j, x, c)
      BY <1>2, <1>3, <2>1 DEF At, Line
    <3> QED BY <2>1, <3>1, AtType
  <2>2. CASE n # 0
    <3>1. <<"established", d>> \in Place(n) /\ "established" \in Steps
      BY <1>1, <1>3, <2>2, Kinds DEF Steps
    <3>2. q' = Queued(n, <<"established", d>>) /\ UNCHANGED batch
      BY <1>2, <1>3, <2>2
    <3>3. \A j \in Loops, x \in Steps, c \in Conns :
            At(j, x, c)' = At(j, x, c) + IF /\ j = n
                                            /\ x = "established" /\ c = d
                                         THEN 1 ELSE 0
      BY <3>1, <3>2, PushedAt
    <3> QED BY <2>2, <3>3
  <2> QED BY <2>1, <2>2
<1>5. ASSUME NEW c \in Conns \ disturbed PROVE LifeOf(c)'
  <2>1. LifeOf(c)
    BY <1>1 DEF LifeInv
  <2>2. CASE c # d
    <3>1. /\ conn'[c] = conn[c] /\ loopOf'[c] = loopOf[c]
          /\ c \in connections_' <=> c \in connections_
          /\ c >= nextConnId_' => c >= nextConnId_
      BY <1>2, <1>3, <2>2, ServerAssumption DEF TypeOK, Conns
    <3>2. \A j \in Loops, x \in Steps : At(j, x, c)' = At(j, x, c)
      BY <1>4, <2>2, AtType
    <3> QED BY <2>1, <3>1, <3>2, LifeKept
  <2>3. CASE c = d
    <3>1. /\ loopOf'[c] = n /\ c \in connections_' /\ ~(c >= nextConnId_')
          /\ conn'[c] = IF n = 0 THEN "kConnected" ELSE "kConnecting"
      BY <1>2, <1>3, <2>3, ServerAssumption DEF TypeOK, Conns
    <3>2. Has(c, 0, 0, 0)
      BY <1>3, <2>1, <2>3, ServerAssumption DEF LifeOf, TypeOK, Conns
    <3>3. Has(c, 0, IF n = 0 THEN 0 ELSE 1, 0)'
      BY <1>4, <2>3, <3>1, <3>2, Kinds DEF Has, Steps
    <3> QED BY <3>1, <3>3 DEF LifeOf, Has
  <2> QED BY <2>2, <2>3
<1>6. UNCHANGED disturbed
  BY DEF Accepts, NewConnection, ghostVars
<1> QED BY <1>5, <1>6 DEF LifeInv

(* A step of the life of connection d alone.                                *)
LEMMA LifeOne ==
  ASSUME LifeInv, server = "alive", NEW d \in Conns,
         d \in disturbed' \/ LifeOf(d)', disturbed \subseteq disturbed',
         UNCHANGED <<loopOf, nextConnId_>>,
         \A c \in Conns \ {d} :
           /\ conn'[c] = conn[c]
           /\ c \in connections_' <=> c \in connections_
           /\ \A j \in Loops, x \in Steps : At(j, x, c)' = At(j, x, c)
  PROVE  LifeInv'
<1> SUFFICES ASSUME NEW c \in Conns, c # d, c \notin disturbed'
             PROVE  LifeOf(c)'
  BY DEF LifeInv
<1>1. LifeOf(c)
  BY DEF LifeInv
<1> QED BY <1>1, LifeKept

(* A step that touches no connection.                                       *)
LEMMA LifeStill ==
  ASSUME LifeInv, server' = "alive" => server = "alive",
         disturbed \subseteq disturbed',
         UNCHANGED <<conn, connections_, loopOf, nextConnId_>>,
         \A j \in Loops, x \in Steps, c \in Conns : At(j, x, c)' = At(j, x, c)
  PROVE  LifeInv'
<1> SUFFICES ASSUME NEW c \in Conns, LifeOf(c) PROVE LifeOf(c)'
  <2>1. ASSUME server = "alive", NEW c \in Conns \ disturbed' PROVE LifeOf(c)
    BY <2>1 DEF LifeInv
  <2> QED BY <2>1 DEF LifeInv
<1> QED BY LifeKept

(* handleClose().                                                           *)
LEMMA CloseLife ==
  ASSUME TypeOK, PlaceInv, LifeInv, server = "alive", NEW d \in Conns,
         HandleClose(d)
  PROVE  LifeInv'
<1>1. /\ conn[d] = "kConnected" \/ d \in disturbed'
      /\ UNCHANGED <<loopOf, nextConnId_, batch, disturbed>>
      /\ conn'[d] = "kDisconnected"
      /\ \A c \in Conns \ {d} : conn'[c] = conn[c]
  BY DEF HandleClose, acceptVars, ghostVars, TypeOK, PlaceInv
<1>2. /\ \A c \in Conns \ {d} : c \in connections_' <=> c \in connections_
      /\ d \in connections_' <=> d \in connections_ /\ loopOf[d] # 0
  BY DEF HandleClose
<1>3. PICK y \in Steps : /\ y = IF loopOf[d] = 0 THEN "destroy" ELSE "remove"
                         /\ q' = Queued(0, <<y, d>>)
  <2>1. CASE loopOf[d] = 0
    BY <2>1 DEF HandleClose, Steps
  <2>2. CASE loopOf[d] # 0
    BY <2>2 DEF HandleClose, Steps
  <2> QED BY <2>1, <2>2
<1>4. <<y, d>> \in Place(0) /\ 0 \in Loops
  BY <1>3, Kinds
<1>5. \A j \in Loops, x \in Steps, c \in Conns :
        At(j, x, c)' = At(j, x, c) + IF j = 0 /\ x = y /\ c = d THEN 1 ELSE 0
  BY <1>1, <1>3, <1>4, PushedAt
<1>6. \A c \in Conns \ {d} :
        \A j \in Loops, x \in Steps : At(j, x, c)' = At(j, x, c)
  BY <1>5, AtType
<1>7. ASSUME d \notin disturbed' PROVE LifeOf(d)'
  <2>1. LifeOf(d) /\ conn[d] = "kConnected"
    BY <1>1, <1>7 DEF LifeInv
  <2>2. d \in connections_ /\ Has(d, 0, 0, 0) /\ ~(d >= nextConnId_)
    BY <1>1, <2>1 DEF LifeOf
  <2>3. CASE loopOf[d] = 0
    <3>1. Has(d, 0, 0, 1)'
      BY <1>1, <1>3, <1>5, <2>2, <2>3, Kinds DEF Has, Steps
    <3> QED BY <1>1, <1>2, <2>2, <2>3, <3>1 DEF LifeOf, Has
  <2>4. CASE loopOf[d] # 0
    <3>1. Has(d, 1, 0, 0)'
      BY <1>1, <1>3, <1>5, <2>2, <2>4, Kinds DEF Has, Steps
    <3> QED BY <1>1, <1>2, <2>2, <2>4, <3>1 DEF LifeOf, Has
  <2> QED BY <2>3, <2>4
<1> QED BY <1>1, <1>2, <1>6, <1>7, LifeOne

(* connectEstablished() or connectDestroyed() in loop i.                    *)
LEMMA RunLife ==
  ASSUME TypeOK, PlaceInv, LifeInv, server = "alive", NEW d \in Conns,
         NEW i \in Loops, NEW y \in {"established", "destroy"},
         y = "established" => i \in PoolIds,
         conn' = Ran(<<y, d>>), Takes(i, <<y, d>>),
         UNCHANGED <<loopOf, nextConnId_, connections_, disturbed>>
  PROVE  LifeInv'
<1>1. /\ d \notin disturbed =>
           conn'[d] = IF y = "established" THEN "kConnected" ELSE "destroyed"
      /\ \A c \in Conns \ {d} : conn'[c] = conn[c]
  <2>1. <<y, d>>[1] = y /\ <<y, d>>[2] = d
    OBVIOUS
  <2>2. d \notin disturbed => conn[d] # "kDisconnecting"
    BY DEF PlaceInv
  <2> QED BY <2>1, <2>2, RanOf
<1>2. \A j \in Loops, x \in Steps, c \in Conns :
        /\ At(j, x, c)' \in Nat
        /\ At(j, x, c) = At(j, x, c)' + IF j = i /\ x = y /\ c = d THEN 1 ELSE 0
  <2>1. y \in Steps
    BY DEF Steps
  <2> QED BY <2>1, PoppedAt
<1>3. \A c \in Conns \ {d} :
        \A j \in Loops, x \in Steps : At(j, x, c)' = At(j, x, c)
  BY <1>2
<1>4. ASSUME d \notin disturbed PROVE LifeOf(d)'
  <2>1. LifeOf(d) /\ At(i, y, d) > 0
    BY <1>2, <1>4 DEF LifeInv, Steps
  <2>2. CASE y = "established"
    <3>1. /\ conn[d] = "kConnecting" /\ d \in connections_ /\ Has(d, 0, 1, 0)
          /\ i = loopOf[d] /\ ~(d >= nextConnId_)
      BY <2>1, <2>2 DEF LifeOf, Has
    <3>2. Has(d, 0, 0, 0)'
      BY <1>2, <2>2, <3>1, Kinds DEF Has, Steps
    <3> QED BY <1>1, <1>4, <2>2, <3>1, <3>2 DEF LifeOf, Has
  <2>3. CASE y = "destroy"
    <3>1. /\ conn[d] = "kDisconnected" /\ d \notin connections_
          /\ Has(d, 0, 0, 1) /\ i = loopOf[d] /\ ~(d >= nextConnId_)
      BY <2>1, <2>3 DEF LifeOf, Has
    <3>2. Has(d, 0, 0, 0)'
      BY <1>2, <2>3, <3>1, Kinds DEF Has, Steps
    <3> QED BY <1>1, <1>4, <2>3, <3>1, <3>2 DEF LifeOf, Has
  <2> QED BY <2>2, <2>3
<1> QED BY <1>1, <1>3, <1>4, LifeOne

(* removeConnectionInLoop(): the connection is one of the pool's.           *)
LEMMA RemoveLife ==
  ASSUME TypeOK, PlaceInv, LifeInv, server = "alive", NEW d \in Conns,
         q[0] # <<>>, Head(q[0]) = <<"remove", d>>,
         RemoveInLoop(d, Tail(q[0])), d \notin disturbed,
         UNCHANGED <<conn, loopOf, nextConnId_, batch, disturbed>>
  PROVE  LifeInv'
<1>1. Line(0) = q[0] /\ Line(0) \in Seq(Place(0))
  BY Kinds, LineType DEF Line
<1>2. At(0, "remove", d) # 0
  <2>1. q[0][1] = <<"remove", d>> /\ 1 \in 1 .. Len(q[0])
    BY <1>1, TailOf
  <2> QED BY <1>1, <2>1, TimesZero DEF At
<1>3. /\ conn[d] = "kDisconnected" /\ d \in connections_ /\ Has(d, 1, 0, 0)
      /\ ~(d >= nextConnId_) /\ loopOf[d] # 0
  <2>1. LifeOf(d)
    BY DEF LifeInv
  <2> QED BY <1>2, <2>1 DEF LifeOf, Has
<1>4. PICK l \in PoolIds : l = loopOf[d]
  BY <1>3 DEF TypeOK, Loops
<1>5. /\ q'[0] = Tail(q[0]) /\ q'[l] = Append(q[l], <<"destroy", d>>)
      /\ \A i \in Loops : i # 0 /\ i # l => q'[i] = q[i]
      /\ connections_' = connections_ \ {d}
  BY <1>3, <1>4, Kinds DEF RemoveInLoop, TypeOK
<1>6. \A j \in Loops, x \in Steps, c \in Conns :
        At(j, x, c)' =
          (At(j, x, c) - IF j = 0 /\ x = "remove" /\ c = d THEN 1 ELSE 0)
            + IF j = l /\ x = "destroy" /\ c = d THEN 1 ELSE 0
  <2> SUFFICES ASSUME NEW j \in Loops, NEW x \in Steps, NEW c \in Conns
               PROVE  At(j, x, c)' =
                        (At(j, x, c)
                           - IF j = 0 /\ x = "remove" /\ c = d THEN 1 ELSE 0)
                          + IF j = l /\ x = "destroy" /\ c = d THEN 1 ELSE 0
    OBVIOUS
  <2>1. <<"destroy", d>> \in Place(l)
    BY Kinds
  <2>2. Times(Line(j)', <<x, c>>) =
          (Times(Line(j), <<x, c>>)
             - IF j = 0 /\ Head(q[0]) = <<x, c>> THEN 1 ELSE 0)
            + IF j = l /\ <<"destroy", d>> = <<x, c>> THEN 1 ELSE 0
    <3>1. Moves(l, <<"destroy", d>>)
      BY <1>5 DEF Moves
    <3> QED BY <2>1, <3>1, Moved
  <2>3. /\ <<"remove", d>> = <<x, c>> <=> x = "remove" /\ c = d
        /\ <<"destroy", d>> = <<x, c>> <=> x = "destroy" /\ c = d
    OBVIOUS
  <2> QED BY <2>2, <2>3 DEF At
<1>7. \A c \in Conns \ {d} :
        \A j \in Loops, x \in Steps : At(j, x, c)' = At(j, x, c)
  BY <1>6, AtType
<1>8. Has(d, 0, 0, 1)'
  BY <1>3, <1>4, <1>6, Kinds DEF Has, Steps
<1>9. LifeOf(d)'
  BY <1>3, <1>5, <1>8 DEF LifeOf, Has
<1> QED BY <1>5, <1>7, <1>9, LifeOne

(* A step of a connection that users have disturbed.                        *)
LEMMA LifeDisturbed ==
  ASSUME TypeOK, PlaceInv, LifeInv, server = "alive", NEW d \in Conns,
         d \in disturbed', disturbed \subseteq disturbed', OnlyFor(d),
         UNCHANGED <<loopOf, nextConnId_>>,
         \A c \in Conns \ {d} : /\ conn'[c] = conn[c]
                                /\ c \in connections_' <=> c \in connections_
  PROVE  LifeInv'
<1>1. \A c \in Conns \ {d} :
        \A j \in Loops, x \in Steps : At(j, x, c)' = At(j, x, c)
  BY Apart
<1> QED BY <1>1, LifeOne

(* The functors of connection d are what they are.                          *)
LEMMA KinOf ==
  ASSUME NEW d \in Conns
  PROVE  /\ \A x \in {"remove", "established", "destroy", "force"} :
              <<x, d>> \in Kin(d) /\ <<x, d>> \in Functors
  BY DEF Kin, Steps, Functors

(* removeConnectionInLoop() called in a functor of connection d.            *)
LEMMA RemoveOnly ==
  ASSUME TypeOK, PlaceInv, NEW d \in Conns, q[0] # <<>>,
         Head(q[0]) \in Kin(d), RemoveInLoop(d, Tail(q[0])), UNCHANGED batch
  PROVE  OnlyFor(d)
<1>1. Line(0) = q[0] /\ Line(0)' = q'[0] /\ 0 \in Loops
  BY Kinds DEF Line
<1>2. <<"destroy", d>> \in Kin(d) /\ <<"destroy", d>> \in Functors
  BY KinOf
<1>3. CASE loopOf[d] = 0
  <2>1. q' = [q EXCEPT ![0] = Append(Tail(q[0]), <<"destroy", d>>)]
    BY <1>1, <1>3 DEF RemoveInLoop, TypeOK
  <2>2. /\ q'[0] = Append(Tail(q[0]), <<"destroy", d>>)
        /\ \A j \in Loops : j # 0 => q'[j] = q[j]
    BY <1>1, <2>1 DEF TypeOK
  <2>3. \A j \in Loops : j # 0 => Line(j)' = Line(j)
    BY <2>2 DEF Line
  <2> QED BY <1>1, <1>2, <2>2, <2>3 DEF OnlyFor
<1>4. CASE loopOf[d] # 0
  <2>1. PICK l \in PoolIds : l = loopOf[d]
    BY <1>4 DEF TypeOK, Loops
  <2>2. /\ q'[0] = Tail(q[0]) /\ q'[l] = Append(q[l], <<"destroy", d>>)
        /\ \A j \in Loops : j # 0 /\ j # l => q'[j] = q[j]
    BY <1>1, <1>4, <2>1, Kinds DEF RemoveInLoop, TypeOK
  <2>3. \A j \in Loops : j # 0 /\ j # l => Line(j)' = Line(j)
    BY <2>2 DEF Line
  <2>4. Line(l)' = Append(Line(l), <<"destroy", d>>)
    <3>1. batch[l] \in Seq(Functors) /\ q[l] \in Seq(Functors) /\ l # 0
      BY Kinds DEF TypeOK
    <3>2. batch[l] \o Append(q[l], <<"destroy", d>>)
            = Append(batch[l] \o q[l], <<"destroy", d>>)
      <4>1. \A b, s \in Seq(Functors), f \in Functors :
              b \o Append(s, f) = Append(b \o s, f)
        BY Joined
      <4> QED BY <1>2, <3>1, <4>1, Zenon
    <3> QED BY <2>2, <3>1, <3>2 DEF Line
  <2> QED BY <1>1, <1>2, <2>2, <2>3, <2>4 DEF OnlyFor
<1> QED BY <1>3, <1>4

(* forceCloseInLoop() in a loop of the pool closes connection d once more.  *)
LEMMA AgainOnly ==
  ASSUME TypeOK, PlaceInv, NEW d \in Conns, NEW i \in PoolIds, batch[i] # <<>>,
         Head(batch[i]) \in Kin(d),
         batch' = [batch EXCEPT ![i] = Tail(batch[i])],
         q' = Queued(0, <<"remove", d>>)
  PROVE  OnlyFor(d)
<1>1. /\ 0 \in Loops /\ i # 0 /\ i \in Loops
      /\ <<"remove", d>> \in Kin(d) /\ <<"remove", d>> \in Functors
  BY Kinds, KinOf
<1>2. /\ q'[0] = Append(q[0], <<"remove", d>>)
      /\ \A j \in Loops : j # 0 => q'[j] = q[j]
      /\ batch'[i] = Tail(batch[i])
      /\ \A j \in PoolIds : j # i => batch'[j] = batch[j]
  BY <1>1 DEF Queued, TypeOK
<1>3. Line(0)' = Append(Line(0), <<"remove", d>>)
  BY <1>2 DEF Line
<1>4. ASSUME NEW j \in Loops, j # 0, j # i PROVE Line(j)' = Line(j)
  <2>1. q'[j] = q[j] /\ batch'[j] = batch[j]
    BY <1>2, <1>4 DEF Loops
  <2>2. Line(j) = batch[j] \o q[j] /\ Line(j)' = batch'[j] \o q'[j]
    BY <1>4 DEF Line
  <2> QED BY <2>1, <2>2
<1>5. /\ Line(i) # <<>> /\ Head(Line(i)) = Head(batch[i])
      /\ Line(i)' = Tail(Line(i))
  <2>1. batch[i] \in Seq(Functors) /\ q[i] \in Seq(Functors)
    BY <1>1 DEF TypeOK
  <2>2. /\ batch[i] \o q[i] # <<>> /\ Head(batch[i] \o q[i]) = Head(batch[i])
        /\ Tail(batch[i] \o q[i]) = Tail(batch[i]) \o q[i]
    <3>1. \A b, s \in Seq(Functors) :
            b # <<>> => /\ b \o s # <<>> /\ Head(b \o s) = Head(b)
                        /\ Tail(b \o s) = Tail(b) \o s
      BY Joined
    <3> QED BY <2>1, <3>1, Zenon
  <2>3. Line(i) = batch[i] \o q[i] /\ Line(i)' = batch'[i] \o q'[i]
    BY <1>1 DEF Line
  <2>4. batch'[i] = Tail(batch[i]) /\ q'[i] = q[i]
    BY <1>1, <1>2
  <2> QED BY <2>2, <2>3, <2>4
<1> QED BY <1>1, <1>3, <1>4, <1>5 DEF OnlyFor

(* A user's forceClose() of connection d.                                   *)
LEMMA ForceOnly ==
  ASSUME TypeOK, PlaceInv, NEW d \in Conns, ForceClose(d)
  PROVE  OnlyFor(d)
<1>1. PICK l \in Loops : l = loopOf[d]
  BY ForceQueues
<1>2. /\ q' = [q EXCEPT ![l] = Append(q[l], <<"force", d>>)]
      /\ <<"force", d>> \in Functors /\ UNCHANGED batch
      /\ <<"force", d>> \in Kin(d)
  BY <1>1, ForceQueues, KinOf
<1>3. /\ q'[l] = Append(q[l], <<"force", d>>)
      /\ \A j \in Loops : j # l => q'[j] = q[j]
  BY <1>2 DEF TypeOK
<1>4. \A j \in Loops : j # l => Line(j)' = Line(j)
  BY <1>2, <1>3 DEF Line
<1>5. Line(l)' = Append(Line(l), <<"force", d>>)
  <2>1. CASE l = 0
    BY <1>3, <2>1 DEF Line
  <2>2. CASE l # 0
    <3>1. batch[l] \in Seq(Functors) /\ q[l] \in Seq(Functors)
      BY <2>2 DEF TypeOK, Loops
    <3>2. batch[l] \o Append(q[l], <<"force", d>>)
            = Append(batch[l] \o q[l], <<"force", d>>)
      <4>1. \A b, s \in Seq(Functors), f \in Functors :
              b \o Append(s, f) = Append(b \o s, f)
        BY Joined
      <4> QED BY <1>2, <3>1, <4>1, Zenon
    <3> QED BY <1>2, <1>3, <2>2, <3>2 DEF Line
  <2> QED BY <2>1, <2>2
<1> QED BY <1>2, <1>4, <1>5 DEF OnlyFor

(* A functor of connection d is taken to be run.                            *)
LEMMA TakesOnly ==
  ASSUME TypeOK, PlaceInv, LifeInv, server = "alive", NEW d \in Conns,
         d \in disturbed, NEW i \in Loops, Takes(i, <<"force", d>>),
         UNCHANGED <<loopOf, nextConnId_, connections_, disturbed>>,
         \A c \in Conns \ {d} : conn'[c] = conn[c]
  PROVE  LifeInv'
<1>1. ASSUME NEW c \in Conns, NEW j \in Loops, NEW x \in Steps
      PROVE  At(j, x, c)' = At(j, x, c)
  <2>1. <<"force", d>> # <<x, c>>
    BY DEF Steps
  <2>2. /\ Times(Line(j)', <<x, c>>) \in Nat
        /\ Times(Line(j), <<x, c>>) =
              Times(Line(j)', <<x, c>>)
                + IF j = i /\ <<"force", d>> = <<x, c>> THEN 1 ELSE 0
    BY Popped
  <2> QED BY <2>1, <2>2 DEF At
<1> QED BY <1>1, LifeOne

(* Every action keeps the connections' lives in order.                      *)
LEMMA LifeStep ==
  ASSUME TypeOK, PlaceInv, StartInv, RoundInv, LifeInv, Next
  PROVE  LifeInv'
<1> USE DEF startVars, acceptVars, loopVars, ghostVars
<1> SUFFICES ASSUME server' = "alive" PROVE LifeInv'
  BY DEF LifeInv
<1>1. server = "alive"
  BY Who DEF Destruct, DestructQuit, Destructed
<1>2. ASSUME UNCHANGED <<q, batch>>
      PROVE  \A j \in Loops, x \in Steps, c \in Conns :
               At(j, x, c)' = At(j, x, c)
  BY <1>2 DEF At, Line
<1>3. CASE \E t \in Threads : Start(t) \/ StartLoop(t)
  BY <1>1, <1>2, <1>3, LifeStill DEF Start, StartLoop
<1>4. CASE Connect \/ AcceptFails
  BY <1>1, <1>2, <1>4, LifeStill DEF Connect, AcceptFails
<1>5. ASSUME NEW i \in Loops, NEW f, f \in {<<"listen", 0>>}, f \in Place(i),
             \/ q' = Queued(i, f) /\ UNCHANGED batch
             \/ Takes(i, f)
      PROVE  \A j \in Loops, x \in Steps, c \in Conns :
               At(j, x, c)' = At(j, x, c)
  <2> SUFFICES ASSUME NEW j \in Loops, NEW x \in Steps, NEW c \in Conns
               PROVE  Times(Line(j)', <<x, c>>) = Times(Line(j), <<x, c>>)
    BY DEF At
  <2>1. f # <<x, c>> /\ Times(Line(j), <<x, c>>) \in Nat
    BY <1>5, LineType DEF Steps
  <2>2. CASE q' = Queued(i, f) /\ UNCHANGED batch
    BY <1>5, <2>1, <2>2, Pushed
  <2>3. CASE Takes(i, f)
    BY <1>5, <2>1, <2>3, Popped
  <2> QED BY <1>5, <2>2, <2>3
<1>6. CASE \E t \in Threads : StartListen(t)
  <2>1. \/ UNCHANGED <<q, batch>>
        \/ q' = Queued(0, <<"listen", 0>>) /\ UNCHANGED batch
    BY <1>6 DEF StartListen
  <2>2. \A j \in Loops, x \in Steps, c \in Conns : At(j, x, c)' = At(j, x, c)
    BY <1>2, <1>5, <2>1, Kinds
  <2> QED BY <1>1, <1>6, <2>2, LifeStill DEF StartListen
<1>7. CASE Accepts
  BY <1>7, AcceptLife
<1>8. CASE \E c \in Conns : HandleClose(c)
  BY <1>1, <1>8, CloseLife
<1>9. CASE BaseFunctor
  <2>1. /\ q[0] # <<>> /\ Head(q[0]) \in Place(0)
        /\ UNCHANGED <<batch, loopOf, nextConnId_, disturbed>>
    BY <1>9, TailOf, Kinds DEF BaseFunctor, PlaceInv
  <2>2. CASE Head(q[0]) = <<"listen", 0>>
    <3>0. Head(q[0])[1] = "listen"
      BY <2>2
    <3>1. /\ Takes(0, <<"listen", 0>>)
          /\ UNCHANGED <<conn, connections_, loopOf, nextConnId_>>
      BY <1>1, <1>9, <2>1, <2>2, <3>0 DEF BaseFunctor, ClosesAgain, Takes
    <3>2. \A j \in Loops, x \in Steps, c \in Conns : At(j, x, c)' = At(j, x, c)
      BY <1>5, <2>1, <2>2, <3>1, Kinds
    <3> QED BY <1>1, <2>1, <3>1, <3>2, LifeStill
  <2>3. ASSUME NEW d \in Conns, d \in disturbed, Head(q[0]) \in Kin(d),
               RemoveInLoop(d, Tail(q[0])), UNCHANGED conn
        PROVE  LifeInv'
    <3>1. OnlyFor(d)
      BY <2>1, <2>3, RemoveOnly
    <3>2. \A c \in Conns \ {d} : c \in connections_' <=> c \in connections_
      BY <2>3 DEF RemoveInLoop
    <3> QED BY <1>1, <2>1, <2>3, <3>1, <3>2, LifeDisturbed
  <2>4. ASSUME NEW d \in Conns, Head(q[0]) = <<"remove", d>>
        PROVE  LifeInv'
    <3>1. Head(q[0])[1] = "remove" /\ Head(q[0])[2] = d
      BY <2>4
    <3>2. RemoveInLoop(d, Tail(q[0])) /\ UNCHANGED conn
      BY <1>1, <1>9, <3>1 DEF BaseFunctor
    <3>3. CASE d \notin disturbed
      BY <1>1, <2>1, <2>4, <3>2, <3>3, RemoveLife
    <3>4. CASE d \in disturbed
      BY <2>3, <2>4, <3>2, <3>4, KinOf
    <3> QED BY <3>3, <3>4
  <2>5. ASSUME NEW d \in Conns, Head(q[0]) = <<"destroy", d>>
        PROVE  LifeInv'
    <3>0. Head(q[0])[1] = "destroy"
      BY <2>5
    <3>1. /\ Takes(0, <<"destroy", d>>) /\ UNCHANGED connections_
          /\ conn' = Ran(<<"destroy", d>>)
      BY <1>1, <1>9, <2>1, <2>5, <3>0 DEF BaseFunctor, ClosesAgain, Takes
    <3> QED BY <1>1, <2>1, <2>5, <3>1, RunLife, Kinds
  <2>6. ASSUME NEW d \in Conns, Head(q[0]) = <<"force", d>>, d \in disturbed
        PROVE  LifeInv'
    <3>0. Head(q[0])[1] = "force" /\ Head(q[0])[2] = d
      BY <2>6
    <3>1. \/ RemoveInLoop(d, Tail(q[0])) /\ UNCHANGED conn
          \/ /\ Takes(0, <<"force", d>>) /\ UNCHANGED connections_
             /\ conn' = Ran(Head(q[0]))
      BY <1>1, <1>9, <2>1, <2>6, <3>0 DEF BaseFunctor, Takes
    <3>2. CASE RemoveInLoop(d, Tail(q[0])) /\ UNCHANGED conn
      BY <2>3, <2>6, <3>2, KinOf
    <3>3. CASE /\ Takes(0, <<"force", d>>) /\ UNCHANGED connections_
               /\ conn' = Ran(Head(q[0]))
      <4>1. \A c \in Conns \ {d} : conn'[c] = conn[c]
        BY <3>0, <3>3, RanOf
      <4> QED BY <1>1, <2>1, <2>6, <3>3, <4>1, TakesOnly, Kinds
    <3> QED BY <3>1, <3>2, <3>3
  <2> QED BY <2>1, <2>2, <2>4, <2>5, <2>6, Kinds
<1>10. ASSUME NEW i \in PoolIds, SwapFunctors(i) PROVE LifeInv'
  <2>1. /\ batch[i] = <<>> /\ q[i] \in Seq(Place(i)) /\ i \in Loops /\ i # 0
        /\ batch' = [batch EXCEPT ![i] = q[i]] /\ q' = [q EXCEPT ![i] = <<>>]
    BY <1>10, Kinds DEF SwapFunctors, PlaceInv
  <2>2. \A j \in Loops : Line(j)' = Line(j)
    <3> SUFFICES ASSUME NEW j \in Loops PROVE Line(j)' = Line(j)
      OBVIOUS
    <3>1. CASE j # i
      BY <2>1, <3>1 DEF Line, TypeOK, Loops
    <3>2. CASE j = i
      <4>1. <<>> \o q[i] = q[i] /\ q[i] \o <<>> = q[i]
        BY <2>1
      <4>2. batch'[i] = q[i] /\ q'[i] = <<>>
        BY <2>1 DEF TypeOK
      <4> QED BY <2>1, <3>2, <4>1, <4>2 DEF Line
    <3> QED BY <3>1, <3>2
  <2>3. \A j \in Loops, x \in Steps, c \in Conns : At(j, x, c)' = At(j, x, c)
    BY <2>2 DEF At
  <2> QED BY <1>1, <1>10, <2>3, LifeStill DEF SwapFunctors
<1>11. ASSUME NEW i \in PoolIds, PoolFunctor(i) PROVE LifeInv'
  <2>1. /\ batch[i] # <<>> /\ conn' = Ran(Head(batch[i]))
        /\ batch' = [batch EXCEPT ![i] = Tail(batch[i])]
        /\ UNCHANGED <<loopOf, nextConnId_, connections_, disturbed>>
        /\ i \in Loops /\ i # 0 /\ Head(batch[i]) \in Place(i)
    BY <1>11, TailOf, Kinds DEF PoolFunctor, PlaceInv
  <2>2. PICK d \in Conns :
          /\ Head(batch[i])[2] = d
          /\ \/ /\ Head(batch[i]) = <<"established", d>>
                /\ Head(batch[i])[1] = "established"
             \/ /\ Head(batch[i]) = <<"destroy", d>>
                /\ Head(batch[i])[1] = "destroy"
             \/ /\ Head(batch[i]) = <<"force", d>>
                /\ Head(batch[i])[1] = "force" /\ d \in disturbed
    BY <2>1, Kinds
  <2>3. \/ UNCHANGED q
        \/ /\ Head(batch[i]) = <<"force", d>> /\ d \in disturbed
           /\ q' = Queued(0, <<"remove", d>>)
    <3>1. CASE ClosesAgain(Head(batch[i]))
      <4>1. q' = Queued(0, <<"remove", Head(batch[i])[2]>>)
        BY <1>1, <1>11, <3>1 DEF PoolFunctor
      <4> QED BY <2>2, <3>1, <4>1 DEF ClosesAgain
    <3>2. CASE ~ClosesAgain(Head(batch[i]))
      BY <1>11, <3>2 DEF PoolFunctor
    <3> QED BY <3>1, <3>2
  <2>4. \A c \in Conns \ {d} : conn'[c] = conn[c]
    BY <2>1, <2>2, RanOf
  <2>5. CASE /\ Head(batch[i]) = <<"force", d>> /\ d \in disturbed
             /\ q' = Queued(0, <<"remove", d>>)
    <3>1. OnlyFor(d)
      BY <2>1, <2>5, AgainOnly, KinOf
    <3> QED BY <1>1, <2>1, <2>4, <2>5, <3>1, LifeDisturbed
  <2>6. CASE UNCHANGED q
    <3>1. Takes(i, Head(batch[i]))
      BY <2>1, <2>6 DEF Takes
    <3>2. CASE Head(batch[i]) = <<"force", d>> /\ d \in disturbed
      BY <1>1, <2>1, <2>4, <3>1, <3>2, TakesOnly
    <3>3. ASSUME NEW y \in {"established", "destroy"}, Head(batch[i]) = <<y, d>>
          PROVE  LifeInv'
      BY <1>1, <2>1, <3>1, <3>3, RunLife
    <3> QED BY <2>2, <3>2, <3>3
  <2> QED BY <2>3, <2>5, <2>6
<1>12. ASSUME NEW i \in PoolIds, LoopTest(i) PROVE LifeInv'
  <2>1. ~quit_[i]
    BY <1>1 DEF StartInv
  <2> QED BY <1>1, <1>2, <1>12, <2>1, LifeStill DEF LoopTest
<1>13. ~(Destruct \/ DestructorStep)
  BY <1>1
  DEF Destruct, DestructorStep, DestructConnection, DestructQuit, Destructed
<1>14. ASSUME NEW d \in Conns, ForceClose(d) PROVE LifeInv'
  <2>1. \A c \in Conns \ {d} : conn'[c] = conn[c]
    BY <1>14 DEF ForceClose, TypeOK
  <2>2. /\ d \in disturbed' /\ disturbed \subseteq disturbed' /\ OnlyFor(d)
        /\ UNCHANGED <<loopOf, nextConnId_, connections_>>
    BY <1>14, ForceQueues, ForceOnly
  <2> QED BY <1>1, <2>1, <2>2, LifeDisturbed
<1> QED
  BY <1>3, <1>4, <1>6, <1>7, <1>8, <1>9, <1>10, <1>11, <1>12, <1>13, <1>14
  DEF Next, StarterStep, HandleRead, Accepts, PoolStep

-----------------------------------------------------------------------------
(* What is not in a line is neither in the batch nor behind it.             *)
LEMMA Parts ==
  ASSUME NEW S, NEW b \in Seq(S), NEW s \in Seq(S), NEW f, Times(b \o s, f) = 0
  PROVE  /\ \A k \in 1 .. Len(b) : b[k] # f
         /\ \A k \in 1 .. Len(s) : s[k] # f
<1>1. \A k \in 1 .. Len(b \o s) : (b \o s)[k] # f
  BY Joined, TimesZero
<1>2. ASSUME NEW k \in 1 .. Len(b) PROVE b[k] # f
  <2>1. k \in 1 .. Len(b \o s) /\ (b \o s)[k] = b[k]
    OBVIOUS
  <2> QED BY <1>1, <2>1
<1>3. ASSUME NEW k \in 1 .. Len(s) PROVE s[k] # f
  <2>1. Len(b) + k \in 1 .. Len(b \o s) /\ (b \o s)[Len(b) + k] = s[k]
    OBVIOUS
  <2> QED BY <1>1, <2>1
<1> QED BY <1>2, <1>3

(* A destructor that begins with nothing under way.                         *)
LEMMA TidyBegins ==
  ASSUME TypeOK, PlaceInv, StartInv, RoundInv, LifeInv, Destruct, tidy',
         disturbed = {}
  PROVE  TidyInv'
<1>1. /\ server = "alive" /\ server' = "closing"
      /\ connections_ = {} \/ numThreads_ = 0
      /\ \A k \in 1 .. Len(q[0]) : q[0][k] # <<"listen", 0>>
      /\ UNCHANGED <<q, batch, conn, loopOf, useAfter>>
  BY DEF Destruct, acceptVars, loopVars
<1>2. ASSUME NEW c \in Conns
      PROVE  /\ At(0, "remove", c) = 0
             /\ \A i \in PoolIds : At(i, "established", c) = 0
             /\ loopOf[c] # 0 => conn[c] # "kConnected"
  <2>1. LifeOf(c) /\ (c \notin connections_ \/ loopOf[c] = 0)
    BY <1>1 DEF LifeInv, RoundInv
  <2> QED BY <2>1, Kinds DEF LifeOf, Has
<1>3. q[0] \in Seq(Destroys)
  <2>1. q[0] \in Seq(Place(0)) /\ Line(0) = q[0]
    BY Kinds DEF PlaceInv, Line
  <2>2. ASSUME NEW k \in 1 .. Len(q[0]) PROVE q[0][k] \in Destroys
    <3>1. q[0][k] \in Place(0)
      BY <2>1
    <3>2. \A c \in Conns : q[0][k] # <<"remove", c>>
      BY <1>2, <2>1, TimesZero DEF At
    <3>3. \A c \in Conns : <<"destroy", c>> \in Destroys
      BY DEF Destroys
    <3>4. \/ q[0][k] = <<"listen", 0>>
          \/ \E c \in Conns : q[0][k] = <<"remove", c>>
          \/ \E c \in Conns : q[0][k] = <<"destroy", c>>
      BY <3>1, Kinds
    <3> QED BY <1>1, <3>2, <3>3, <3>4, Zenon
  <2> QED BY <2>1, <2>2, Narrowed
<1>4. ASSUME NEW i \in PoolIds
      PROVE  q[i] \in Seq(Destroys) /\ batch[i] \in Seq(Destroys)
  <2>1. /\ q[i] \in Seq(Place(i)) /\ batch[i] \in Seq(Place(i))
        /\ Line(i) = batch[i] \o q[i]
    BY Kinds DEF PlaceInv, Line
  <2>2. ASSUME NEW c \in Conns
        PROVE  /\ \A k \in 1 .. Len(q[i]) : q[i][k] # <<"established", c>>
               /\ \A k \in 1 .. Len(batch[i]) :
                    batch[i][k] # <<"established", c>>
    <3>1. Times(batch[i] \o q[i], <<"established", c>>) = 0
      BY <1>2, <2>1 DEF At
    <3> QED BY <2>1, <3>1, Parts
  <2>3. \A f \in Place(i) :
          (\A c \in Conns : f # <<"established", c>>) => f \in Destroys
    <3>1. \A c \in Conns : <<"destroy", c>> \in Destroys
      BY DEF Destroys
    <3>2. \A f \in Place(i) : \E c \in Conns :
            f = <<"established", c>> \/ f = <<"destroy", c>>
      BY Kinds
    <3> QED BY <3>1, <3>2, Zenon
  <2>4. \A k \in 1 .. Len(q[i]) : q[i][k] \in Destroys
    BY <2>1, <2>2, <2>3
  <2>5. \A k \in 1 .. Len(batch[i]) : batch[i][k] \in Destroys
    BY <2>1, <2>2, <2>3
  <2> QED BY <2>1, <2>4, <2>5, Narrowed
<1>5. ~useAfter'
  BY <1>1 DEF StartInv
<1> QED BY <1>1, <1>2, <1>3, <1>4, <1>5 DEF TidyInv

(* After that, only connections are destroyed.                              *)
LEMMA TidyGoesOn ==
  ASSUME TypeOK, PlaceInv, StartInv, RoundInv, TidyInv, Next, tidy,
         disturbed = {}, disturbed' = {}
  PROVE  TidyInv'
<1> USE DEF startVars, acceptVars, loopVars, ghostVars
<1>1. /\ server # "alive" /\ q[0] \in Seq(Destroys) /\ ~useAfter
      /\ \A i \in PoolIds : q[i] \in Seq(Destroys) /\ batch[i] \in Seq(Destroys)
      /\ \A c \in Conns : loopOf[c] # 0 => conn[c] # "kConnected"
  BY DEF TidyInv
<1>2. \A c \in Conns : <<"destroy", c>> \in Destroys
  BY DEF Destroys
<1>3. \A f \in Destroys : /\ f \notin RawFunctors /\ f[1] = "destroy"
                          /\ f[2] \in Conns /\ ~ClosesAgain(f)
  BY DEF Destroys, RawFunctors, ClosesAgain
<1>4. server' # "alive"
  BY <1>1, Who DEF Destruct, DestructQuit, Destructed
<1>5. /\ ~Accepts /\ ~\E t \in Threads : StartListen(t)
      /\ ~\E c \in Conns : HandleClose(c) /\ loopOf[c] # 0
      /\ ~\E c \in Conns : ForceClose(c)
  <2>1. \A c \in Conns : conn[c] # "kDisconnecting"
    BY DEF PlaceInv
  <2>2. ~\E c \in Conns : HandleClose(c) /\ loopOf[c] # 0
    BY <1>1, <2>1 DEF HandleClose
  <2>3. ~\E c \in Conns : ForceClose(c)
    BY DEF ForceClose
  <2> QED
    BY <1>1, <2>2, <2>3 DEF Accepts, HandleRead, StartListen, StartInv
<1>6. q[0] # <<>> => Head(q[0]) \in Destroys /\ Tail(q[0]) \in Seq(Destroys)
  BY <1>1, TailOf
<1>7. q'[0] \in Seq(Destroys)
  <2>1. ASSUME NEW c \in Conns
        PROVE  Append(q[0], <<"destroy", c>>) \in Seq(Destroys)
    BY <1>1, <1>2, AppendOf
  <2> QED BY <1>1, <1>5, <1>6, <2>1, BaseQueue
<1>8. BaseFunctor => /\ q' = [q EXCEPT ![0] = Tail(q[0])]
                     /\ conn' = Ran(Head(q[0])) /\ UNCHANGED useAfter
  BY <1>1, <1>3, <1>6 DEF BaseFunctor
<1>13. ASSUME NEW j \in PoolIds, PoolFunctor(j)
       PROVE  /\ Head(batch[j]) \in Destroys /\ UNCHANGED <<q, useAfter>>
              /\ conn' = Ran(Head(batch[j]))
  <2>1. Head(batch[j]) \in Destroys
    BY <1>1, <1>13, TailOf DEF PoolFunctor
  <2>2. ~ClosesAgain(Head(batch[j]))
    BY <1>3, <2>1
  <2> QED BY <1>13, <2>1, <2>2 DEF PoolFunctor
<1>9. ~useAfter'
  BY <1>1, <1>8, <1>13, Who
<1>10. ASSUME NEW i \in PoolIds PROVE q'[i] \in Seq(Destroys)
  <2>1. i # 0 /\ i \in Loops /\ 0 \in Loops
    BY Kinds
  <2>2. CASE BaseFunctor \/ \E c \in Conns : HandleClose(c)
    <3>1. PICK s : q' = [q EXCEPT ![0] = s]
      BY <1>8, <2>2 DEF HandleClose, Queued
    <3>2. q'[i] = q[i]
      BY <2>1, <3>1 DEF TypeOK
    <3> QED BY <1>1, <3>2
  <2>3. CASE \E j \in PoolIds : PoolStep(j)
    <3>1. q'[i] = q[i] \/ q'[i] = <<>>
      BY <1>13, <2>1, <2>3 DEF PoolStep, SwapFunctors, LoopTest, TypeOK
    <3>2. <<>> \in Seq(Destroys)
      OBVIOUS
    <3> QED BY <1>1, <3>1, <3>2, Zenon
  <2>4. CASE DestructConnection
    <3>1. PICK c \in connections_ :
            \/ UNCHANGED q
            \/ q' = Queued(loopOf[c], <<"destroy", c>>)
      BY <2>4 DEF DestructConnection
    <3>2. q'[i] = q[i] \/ q'[i] = Append(q[i], <<"destroy", c>>)
      BY <2>1, <3>1 DEF Queued, TypeOK
    <3>3. Append(q[i], <<"destroy", c>>) \in Seq(Destroys)
      BY <1>1, <1>2, AppendOf DEF TypeOK
    <3> QED BY <1>1, <3>2, <3>3
  <2>5. CASE UNCHANGED q
    BY <1>1, <2>5
  <2> QED
    BY <1>5, <2>2, <2>3, <2>4, <2>5
    DEF Next, StarterStep, DestructorStep, Start, StartLoop, Connect,
        HandleRead, Accepts, AcceptFails, Destruct, DestructQuit, Destructed
<1>11. ASSUME NEW i \in PoolIds PROVE batch'[i] \in Seq(Destroys)
  <2>1. batch[i] # <<>> => Tail(batch[i]) \in Seq(Destroys)
    BY <1>1, TailOf
  <2>2. \/ batch'[i] = batch[i] \/ batch'[i] = q[i]
        \/ batch[i] # <<>> /\ batch'[i] = Tail(batch[i])
    <3>1. CASE \E j \in PoolIds : SwapFunctors(j)
      BY <3>1 DEF SwapFunctors, TypeOK
    <3>2. CASE \E j \in PoolIds : PoolFunctor(j)
      BY <3>2 DEF PoolFunctor, TypeOK
    <3> QED BY <3>1, <3>2, Who
  <2> QED BY <1>1, <2>1, <2>2
<1>12. ASSUME NEW c \in Conns, loopOf'[c] # 0 PROVE conn'[c] # "kConnected"
  <2>1. conn[c] # "kConnected"
    BY <1>1, <1>5, <1>12, Who
  <2>2. ASSUME NEW f \in Destroys PROVE Ran(f)[c] # "kConnected"
    BY <1>3, <2>1, RanOf
  <2>3. CASE BaseFunctor
    BY <1>6, <1>8, <2>2, <2>3 DEF BaseFunctor
  <2>4. CASE DestructConnection
    BY <1>2, <2>1, <2>2, <2>4 DEF DestructConnection, TypeOK
  <2>5. CASE \E d \in Conns : HandleClose(d)
    BY <2>1, <2>5 DEF HandleClose, TypeOK
  <2>6. CASE \E i \in PoolIds : PoolFunctor(i)
    BY <1>13, <2>2, <2>6
  <2>7. CASE \E i \in PoolIds : LoopTest(i)
    BY <2>1, <2>7 DEF LoopTest
  <2> QED BY <1>5, <2>1, <2>3, <2>4, <2>5, <2>6, <2>7, Who
<1> QED BY <1>4, <1>7, <1>9, <1>10, <1>11, <1>12 DEF TidyInv

-----------------------------------------------------------------------------
(* The invariant holds at first.                                            *)
LEMMA InitInv == Init => IInv
<1> SUFFICES ASSUME Init PROVE IInv
  OBVIOUS
<1>1. TypeOK
  <2>1. MaxThreads \in Nat /\ MaxConns \in Nat /\ 0 \in Loops
    BY ServerAssumption, Kinds
  <2>2. /\ numThreads_ \in 0 .. MaxThreads /\ loops_ \in 0 .. numThreads_
        /\ next_ \in 0 .. MaxThreads /\ nextConnId_ \in 1 .. MaxConns + 1
        /\ backlog \in 0 .. MaxConns /\ joining \in 0 .. MaxThreads + 1
    BY <2>1 DEF Init
  <2>3. /\ q \in [Loops -> Seq(Functors)]
        /\ batch \in [PoolIds -> Seq(Functors)]
        /\ loopOf \in [Conns -> Loops] /\ connections_ \subseteq Conns
    BY <2>1 DEF Init
  <2> QED BY <2>2, <2>3 DEF Init, TypeOK
<1>2. /\ \A i \in Loops : q[i] = <<>> /\ q[i] \in Seq(Place(i))
      /\ \A i \in PoolIds : batch[i] = <<>> /\ batch[i] \in Seq(Place(i))
      /\ 0 \in Loops /\ 0 \notin PoolIds
  BY Kinds DEF Init
<1>3. PlaceInv
  BY <1>2 DEF PlaceInv, Init
<1>4. StartInv
  BY <1>2, ServerAssumption DEF StartInv, Init
<1>5. RoundInv
  <2>1. \A i : Assigned(i) = {}
    BY DEF Assigned, Init
  <2>2. Cardinality({}) = 0 /\ numThreads_ \in Nat
    BY FS_EmptySet, <1>1, ServerAssumption DEF TypeOK
  <2>3. \A c \in Conns : loopOf[c] = 0
    BY DEF Init
  <2>4. numThreads_ > 0 =>
          \A i \in 1 .. numThreads_ :
            Cardinality(Assigned(i)) =
              Cardinality(Assigned(numThreads_)) + IF i <= next_ THEN 1 ELSE 0
    <3>1. next_ = 0 /\ \A i \in 1 .. numThreads_ : ~(i <= 0)
      BY <2>2 DEF Init
    <3> QED BY <2>1, <2>2, <3>1
  <2> QED BY <2>1, <2>2, <2>3, <2>4 DEF RoundInv, Init
<1>6. LifeInv
  <2>1. \A i \in Loops : Line(i) = <<>>
    BY <1>2 DEF Line, Loops
  <2>2. \A f : Times(<<>>, f) = 0
    BY FS_EmptySet DEF Times, Places
  <2>3. \A j \in Loops, x \in Steps, c \in Conns : At(j, x, c) = 0
    BY <2>1, <2>2 DEF At
  <2>4. \A c \in Conns : Has(c, 0, 0, 0)
    BY <2>3, Kinds DEF Has, Steps
  <2>5. \A c \in Conns : conn[c] = "none" /\ c \notin connections_
    BY DEF Init
  <2> QED BY <2>4, <2>5 DEF LifeInv, LifeOf, Has
<1>7. TidyInv
  BY DEF TidyInv, Init
<1> QED BY <1>1, <1>3, <1>4, <1>5, <1>6, <1>7 DEF IInv

(* Every step keeps it.                                                     *)
LEMMA InvStep == IInv /\ [Next]_vars => IInv'
<1> SUFFICES ASSUME IInv, [Next]_vars PROVE IInv'
  OBVIOUS
<1> USE DEF IInv
<1>1. CASE Next
  <2>1. TidyInv'
    <3>0. disturbed' = {} => disturbed = {}
      BY <1>1, Grows
    <3>1. CASE tidy /\ disturbed' = {}
      BY <1>1, <3>0, <3>1, TidyGoesOn
    <3>2. CASE ~tidy /\ tidy' /\ disturbed' = {}
      BY <1>1, <3>0, <3>2, Who, TidyBegins
    <3>3. CASE ~(tidy' /\ disturbed' = {})
      BY <3>3 DEF TidyInv
    <3> QED BY <3>1, <3>2, <3>3
  <2> QED
    BY <1>1, <2>1, TypeStep, PlaceStep, StartStep, RoundStep, LifeStep
<1>2. CASE UNCHANGED vars
  <2>1. /\ TypeOK' /\ StartInv' /\ TidyInv'
    BY <1>2
    DEF vars, startVars, acceptVars, loopVars, ghostVars, TypeOK, StartInv,
        TidyInv
  <2>4. PlaceInv'
    <3>1. \A i : Place(i)' = Place(i)
      BY <1>2 DEF vars, ghostVars, Place, Forces
    <3> QED
      BY <1>2, <3>1
      DEF vars, startVars, loopVars, ghostVars, PlaceInv
  <2>2. RoundInv'
    BY <1>2
    DEF vars, startVars, acceptVars, loopVars, ghostVars, RoundInv, Assigned
  <2>3. LifeInv'
    <3>1. \A j \in Loops, x \in Steps, c \in Conns : At(j, x, c)' = At(j, x, c)
      BY <1>2 DEF vars, loopVars, At, Line
    <3>2. disturbed \subseteq disturbed'
      BY <1>2 DEF vars, ghostVars
    <3> QED BY <1>2, <3>1, <3>2, LifeStill DEF vars, acceptVars
  <2> QED BY <2>1, <2>2, <2>3, <2>4
<1> QED BY <1>1, <1>2

(* newConnection() gives each loop of the pool as many connections as every *)
(* other, give or take one, and none to the accepting loop.                 *)
THEOREM PoolServes == Spec => []ServedByPool
<1>1. IInv => ServedByPool
  BY RoundServed DEF IInv
<1> QED BY <1>1, InitInv, InvStep, PTL DEF Spec

(* While the server lives a connection leaves its map once and is destroyed *)
(* once, whichever of its loop and the server's loop is ahead, unless users *)
(* force it to close or start reading when it is closed.                    *)
THEOREM LeavesOnce == Spec => []OneWayOut
<1>1. IInv => OneWayOut
  <2> SUFFICES ASSUME IInv, server = "alive", NEW c \in Conns \ disturbed
               PROVE  LET removes == At(0, "remove", c)
                          destroys == At(loopOf[c], "destroy", c)
                      IN  /\ conn[c] \in {"kConnecting", "kConnected"} =>
                               /\ c \in connections_
                               /\ removes = 0 /\ destroys = 0
                          /\ conn[c] = "kDisconnected" =>
                               /\ removes + destroys = 1
                               /\ (c \in connections_) = (removes = 1)
                          /\ conn[c] \in {"none", "destroyed"} =>
                               /\ c \notin connections_
                               /\ removes = 0 /\ destroys = 0
    BY DEF OneWayOut, Count, At, Times, Places, Line
  <2>1. LifeOf(c) /\ loopOf[c] \in Loops
    BY DEF IInv, LifeInv, TypeOK
  <2> QED BY <2>1 DEF LifeOf, Has
<1> QED BY <1>1, InitInv, InvStep, PTL DEF Spec

(* No functor uses a server whose destructor began with no listen() queued  *)
(* and with no connection left or no pool, unless users force a connection  *)
(* to close or start reading when it is closed.                             *)
THEOREM NoUseAfter == Spec => []NoUseAfterDestruct
<1>1. IInv => NoUseAfterDestruct
  BY DEF IInv, TidyInv, NoUseAfterDestruct
<1> QED BY <1>1, InitInv, InvStep, PTL DEF Spec

=============================================================================
