------------------------ MODULE TcpConnectionProofs ------------------------
(***************************************************************************)
(* Proofs about TcpConnection for any number of threads, any message size  *)
(* and high-water mark: its output is in order, it asks for writability    *)
(* while output waits, and, without forceClose() and startRead(), it is    *)
(* destroyed once and clean.                                               *)
(***************************************************************************)
EXTENDS TcpConnection, FiniteSetTheorems, TLAPS

(* The bytes on the wire and in outputBuffer_ are numbered through.         *)
InOrder(w, b, a) ==
  /\ Len(w) + Len(b) = a
  /\ \A i \in 1 .. Len(w) : w[i] = i
  /\ \A i \in 1 .. Len(b) : b[i] = Len(w) + i

OutputInv == InOrder(wire, outputBuffer_, accepted)

SendsIn(q) == {i \in 1 .. Len(q) : q[i] = "send"}
SendsCalled == {u \in Users : upc[u] = "send"}

(* Each message is one that user code has sent: it is accepted, its functor *)
(* waits, or the thread has yet to queue it.                                *)
Fits(a, s, n) == a + MsgLen * s <= MsgLen * n

CountInv ==
  /\ IsFiniteSet(SendsCalled)
  /\ Fits(accepted, Cardinality(SendsIn(ioQ)) + Cardinality(SendsCalled),
          numCalls)

(* Before connectEstablished() nobody but the server knows the connection.  *)
EarlyInv ==
  /\ state_ = "none" => ioQ = <<>> /\ ~inMap
  /\ state_ = "kConnecting" => ioQ = <<"established">> /\ inMap
  /\ state_ \in {"none", "kConnecting"} =>
       /\ ~userRef /\ ~timer /\ calls = <<>> /\ baseQ = <<>> /\ events_ = {}
       /\ ~added /\ ~epolled /\ outputBuffer_ = <<>>
       /\ closedFrom = "none" /\ destroyed = 0
       /\ \A u \in Users : upc[u] = "idle"
  /\ state_ \notin {"none", "kConnecting"} =>
       ioQ \in Seq((Strong \cup Raw) \ {"established"})
  /\ \A u \in Users : upc[u] # "forceCloseWithDelay"

(* What handleEvent() may have left to do on a channel that reads, and the  *)
(* functors that send(), shutdown() and the output queue.                   *)
PlainCallbacks ==
  {<<>>, <<"error">>, <<"read">>, <<"write">>, <<"error", "read">>,
   <<"error", "write">>, <<"read", "write">>, <<"error", "read", "write">>}
PlainFunctors == {"callback", "send", "shutdown"}

OneDestroy(q) ==
  \E k \in 1 .. Len(q) :
    /\ q[k] = "destroy"
    /\ \A i \in 1 .. Len(q) : i # k => q[i] \in PlainFunctors

(* Without forceClose() and startRead() the connection is open and polled   *)
(* for input until it is closed, and is then removed and destroyed, each    *)
(* once.                                                                    *)
OpenInv ==
  /\ state_ \in {"kConnected", "kDisconnected"}
  /\ closedFrom = "none"
  /\ inMap /\ epolled /\ added /\ "IN" \in events_
  /\ calls \in PlainCallbacks
  /\ baseQ = <<>> /\ ioQ \in Seq(PlainFunctors) /\ destroyed = 0

ClosedInv ==
  /\ state_ = "kDisconnected"
  /\ closedFrom # "none"
  /\ events_ = {} /\ ~epolled
  /\ calls \in {<<>>, <<"write">>}
  /\ \/ baseQ = <<"remove">> /\ ioQ \in Seq(PlainFunctors) /\ destroyed = 0
     \/ baseQ = <<>> /\ OneDestroy(ioQ) /\ destroyed = 0
     \/ baseQ = <<>> /\ ioQ \in Seq(PlainFunctors) /\ destroyed = 1 /\ ~added

PlainInv ==
  plain =>
    /\ ~timer
    /\ \A u \in Users : upc[u] \in {"idle", "send", "shutdown"}
    /\ state_ \in {"none", "kConnecting"} \/ OpenInv \/ ClosedInv

IInv ==
  /\ TypeOK /\ OutputInv /\ CountInv /\ EarlyInv /\ WritesWhilePending
  /\ PlainInv

-----------------------------------------------------------------------------
(* A product with MsgLen grows with its other factor, by MsgLen a step.     *)
LEMMA Product ==
  ASSUME NEW a \in Nat, NEW b \in Nat
  PROVE  /\ MsgLen * a \in Nat
         /\ MsgLen * (a + 1) = MsgLen * a + MsgLen
         /\ a <= b => MsgLen * a <= MsgLen * b
<1>1. MsgLen \in Nat
  BY SizesAssumption
<1>2. MsgLen * a \in Nat /\ MsgLen * (a + 1) = MsgLen * a + MsgLen
  BY <1>1
<1>3. ASSUME a <= b PROVE MsgLen * a <= MsgLen * b
  <2>1. PICK d \in Nat : b = a + d
    <3>1. b - a \in Nat /\ b = a + (b - a)
      BY <1>3
    <3> QED BY <3>1
  <2>2. MsgLen * b = MsgLen * a + MsgLen * d /\ MsgLen * d \in Nat
    BY <2>1, <1>1
  <2> QED BY <2>2, <1>2
<1> QED BY <1>2, <1>3

(* What Head and Tail give of a queue that is not empty.                    *)
LEMMA TailOf ==
  ASSUME NEW S, NEW q \in Seq(S), q # <<>>
  PROVE  /\ Len(q) \in Nat \ {0}
         /\ Tail(q) \in Seq(S)
         /\ Len(Tail(q)) = Len(q) - 1
         /\ \A i \in 1 .. Len(Tail(q)) :
              i + 1 \in 1 .. Len(q) /\ Tail(q)[i] = q[i + 1]
         /\ Head(q) = q[1] /\ 1 \in 1 .. Len(q)
  OBVIOUS

(* What Append gives.                                                       *)
LEMMA AppendOf ==
  ASSUME NEW S, NEW q \in Seq(S), NEW x \in S
  PROVE  /\ Append(q, x) \in Seq(S)
         /\ Len(Append(q, x)) = Len(q) + 1 /\ Len(q) \in Nat
         /\ \A i \in 1 .. Len(q) : Append(q, x)[i] = q[i]
         /\ Append(q, x)[Len(q) + 1] = x
  OBVIOUS

(* The sends of a queue are finitely many.                                  *)
LEMMA SendsFinite ==
  ASSUME NEW S, NEW q \in Seq(S)
  PROVE  IsFiniteSet(SendsIn(q)) /\ Cardinality(SendsIn(q)) \in Nat
<1>1. IsFiniteSet(1 .. Len(q))
  BY FS_Interval
<1>2. IsFiniteSet(SendsIn(q))
  BY <1>1, FS_Subset DEF SendsIn
<1> QED BY <1>2, FS_CardinalityType

(* A functor put at the end of a queue adds one to its sends if it is one.  *)
LEMMA SendsAppend ==
  ASSUME NEW S, NEW q \in Seq(S), NEW x \in S
  PROVE  Cardinality(SendsIn(Append(q, x)))
           = Cardinality(SendsIn(q)) + (IF x = "send" THEN 1 ELSE 0)
<1>1. IsFiniteSet(SendsIn(q)) /\ Cardinality(SendsIn(q)) \in Nat
  BY SendsFinite
<1>2. Len(q) + 1 \notin SendsIn(q)
  BY DEF SendsIn
<1>3. CASE x = "send"
  <2>1. SendsIn(Append(q, x)) = SendsIn(q) \cup {Len(q) + 1}
    BY <1>3, AppendOf DEF SendsIn
  <2> QED BY <2>1, <1>1, <1>2, <1>3, FS_AddElement
<1>4. CASE x # "send"
  <2>1. SendsIn(Append(q, x)) = SendsIn(q)
    BY <1>4, AppendOf DEF SendsIn
  <2> QED BY <2>1, <1>1, <1>4
<1> QED BY <1>3, <1>4

(* The functor taken from the front of a queue takes one if it is a send.   *)
LEMMA SendsTail ==
  ASSUME NEW S, NEW q \in Seq(S), q # <<>>
  PROVE  Cardinality(SendsIn(q))
           = Cardinality(SendsIn(Tail(q)))
               + (IF Head(q) = "send" THEN 1 ELSE 0)
<1> DEFINE Rest == SendsIn(q) \ {1}
<1> DEFINE f == [i \in SendsIn(Tail(q)) |-> i + 1]
<1>1. /\ IsFiniteSet(SendsIn(q)) /\ Cardinality(SendsIn(q)) \in Nat
      /\ Tail(q) \in Seq(S) /\ IsFiniteSet(SendsIn(Tail(q)))
      /\ Cardinality(SendsIn(Tail(q))) \in Nat
  BY SendsFinite, TailOf
<1>2. f \in Bijection(SendsIn(Tail(q)), Rest)
  <2>1. f \in Injection(SendsIn(Tail(q)), Rest)
    <3>1. \A i \in SendsIn(Tail(q)) : i + 1 \in Rest
      BY TailOf DEF SendsIn
    <3>2. \A i, j \in SendsIn(Tail(q)) : i + 1 = j + 1 => i = j
      BY DEF SendsIn
    <3> QED BY <3>1, <3>2 DEF Injection, IsInjective
  <2>2. \A k \in Rest : k - 1 \in SendsIn(Tail(q)) /\ (k - 1) + 1 = k
    <3> SUFFICES ASSUME NEW k \in Rest
                 PROVE  k - 1 \in SendsIn(Tail(q)) /\ (k - 1) + 1 = k
      OBVIOUS
    <3>1. k \in 1 .. Len(q) /\ k # 1 /\ q[k] = "send"
      BY DEF SendsIn
    <3>2. k - 1 \in 1 .. Len(Tail(q)) /\ (k - 1) + 1 = k
      BY <3>1, TailOf
    <3>3. Tail(q)[k - 1] = q[k]
      BY <3>2, TailOf
    <3> QED BY <3>1, <3>2, <3>3 DEF SendsIn
  <2>3. f \in Surjection(SendsIn(Tail(q)), Rest)
    BY <2>1, <2>2 DEF Surjection, Injection
  <2> QED BY <2>1, <2>3 DEF Bijection
<1>3. IsFiniteSet(Rest) /\ Cardinality(Rest) = Cardinality(SendsIn(Tail(q)))
  BY <1>1, <1>2, FS_Bijection DEF ExistsBijection
<1>4. 1 \in SendsIn(q) <=> Head(q) = "send"
  BY TailOf DEF SendsIn
<1>5. CASE Head(q) = "send"
  BY <1>1, <1>3, <1>4, <1>5, FS_RemoveElement
<1>6. CASE Head(q) # "send"
  BY <1>1, <1>3, <1>4, <1>6, FS_RemoveElement
<1> QED BY <1>5, <1>6

-----------------------------------------------------------------------------
(* The flags of TypeOK, one by one.                                         *)
LEMMA Flags ==
  ASSUME TypeOK
  PROVE  /\ oneLoop \in BOOLEAN /\ reading_ \in BOOLEAN /\ added \in BOOLEAN
         /\ epolled \in BOOLEAN /\ inbox \in BOOLEAN /\ wrShut \in BOOLEAN
         /\ inMap \in BOOLEAN /\ timer \in BOOLEAN /\ userRef \in BOOLEAN
         /\ plain \in BOOLEAN
  BY DEF TypeOK

(* SubSeq in the two ways in which the output is cut.                       *)
LEMMA Cut ==
  ASSUME NEW S, NEW s \in Seq(S), NEW n \in 0 .. Len(s)
  PROVE  /\ Len(s) \in Nat
         /\ SubSeq(s, 1, n) \in Seq(S) /\ Len(SubSeq(s, 1, n)) = n
         /\ \A i \in 1 .. n : SubSeq(s, 1, n)[i] = s[i]
         /\ From(s, n) \in Seq(S) /\ Len(From(s, n)) = Len(s) - n
         /\ \A i \in 1 .. Len(s) - n :
              i + n \in 1 .. Len(s) /\ From(s, n)[i] = s[i + n]
<1>1. /\ Len(s) \in Nat
      /\ SubSeq(s, 1, n) \in Seq(S) /\ Len(SubSeq(s, 1, n)) = n
      /\ \A i \in 1 .. n : SubSeq(s, 1, n)[i] = s[i]
  OBVIOUS
<1>2. /\ From(s, n) \in Seq(S) /\ Len(From(s, n)) = Len(s) - n
      /\ \A i \in 1 .. Len(s) - n :
           i + n \in 1 .. Len(s) /\ From(s, n)[i] = s[i + n]
  BY DEF From
<1> QED BY <1>1, <1>2

(* The bytes sendInLoop() is given.                                         *)
LEMMA NumberedBytes ==
  ASSUME TypeOK, accepted + MsgLen <= MaxBytes, MaxBytes \in Nat
  PROVE  /\ Numbered(MsgLen) \in Seq(1 .. MaxBytes)
         /\ Len(Numbered(MsgLen)) = MsgLen
         /\ \A i \in 1 .. MsgLen : Numbered(MsgLen)[i] = accepted + i
<1>1. MsgLen \in Nat /\ accepted \in Nat
  BY SizesAssumption DEF TypeOK
<1>2. \A i \in 1 .. MsgLen : accepted + i \in 1 .. MaxBytes
  BY <1>1
<1> QED BY <1>1, <1>2 DEF Numbered

(* What \o gives.                                                           *)
LEMMA Concat ==
  ASSUME NEW S, NEW s \in Seq(S), NEW t \in Seq(S)
  PROVE  /\ s \o t \in Seq(S) /\ Len(s) \in Nat /\ Len(t) \in Nat
         /\ Len(s \o t) = Len(s) + Len(t)
         /\ \A i \in 1 .. Len(s) : (s \o t)[i] = s[i]
         /\ \A i \in 1 .. Len(t) : (s \o t)[Len(s) + i] = t[i]
         /\ t # <<>> => s \o t # <<>>
  OBVIOUS

(* Bytes numbered on, put at the end of the wire when nothing waits.        *)
LEMMA WireGrows ==
  ASSUME NEW S, NEW w \in Seq(S), NEW t \in Seq(S), NEW a \in Nat,
         InOrder(w, <<>>, a), \A i \in 1 .. Len(t) : t[i] = a + i
  PROVE  InOrder(w \o t, <<>>, a + Len(t))
<1>1. Len(w) = a /\ \A i \in 1 .. Len(w) : w[i] = i
  BY DEF InOrder
<1>2. /\ Len(w \o t) = Len(w) + Len(t) /\ Len(w) \in Nat /\ Len(t) \in Nat
      /\ \A i \in 1 .. Len(w) : (w \o t)[i] = w[i]
      /\ \A i \in 1 .. Len(t) : (w \o t)[Len(w) + i] = t[i]
  BY Concat
<1>3. ASSUME NEW i \in 1 .. Len(w \o t) PROVE (w \o t)[i] = i
  <2>1. CASE i <= Len(w)
    BY <2>1, <1>1, <1>2
  <2>2. CASE ~(i <= Len(w))
    <3>1. i - Len(w) \in 1 .. Len(t) /\ Len(w) + (i - Len(w)) = i
      BY <2>2, <1>2
    <3>2. (w \o t)[i] = t[i - Len(w)] /\ t[i - Len(w)] = a + (i - Len(w))
      BY <3>1, <1>2
    <3> QED BY <3>1, <3>2, <1>1
  <2> QED BY <2>1, <2>2
<1>4. Len(w \o t) + 0 = a + Len(t)
  BY <1>1, <1>2
<1> QED BY <1>3, <1>4 DEF InOrder

(* Bytes numbered on, put at the end of outputBuffer_.                      *)
LEMMA BufferGrows ==
  ASSUME NEW S, NEW w \in Seq(S), NEW b \in Seq(S), NEW t \in Seq(S),
         NEW a \in Nat,
         InOrder(w, b, a), \A i \in 1 .. Len(t) : t[i] = a + i
  PROVE  InOrder(w, b \o t, a + Len(t))
<1>1. /\ Len(w) + Len(b) = a /\ Len(w) \in Nat
      /\ \A i \in 1 .. Len(b) : b[i] = Len(w) + i
  BY DEF InOrder
<1>2. /\ Len(b \o t) = Len(b) + Len(t) /\ Len(b) \in Nat /\ Len(t) \in Nat
      /\ \A i \in 1 .. Len(b) : (b \o t)[i] = b[i]
      /\ \A i \in 1 .. Len(t) : (b \o t)[Len(b) + i] = t[i]
  BY Concat
<1>3. ASSUME NEW i \in 1 .. Len(b \o t) PROVE (b \o t)[i] = Len(w) + i
  <2>1. CASE i <= Len(b)
    BY <2>1, <1>1, <1>2
  <2>2. CASE ~(i <= Len(b))
    <3>1. i - Len(b) \in 1 .. Len(t) /\ Len(b) + (i - Len(b)) = i
      BY <2>2, <1>2
    <3>2. (b \o t)[i] = t[i - Len(b)] /\ t[i - Len(b)] = a + (i - Len(b))
      BY <3>1, <1>2
    <3>3. Len(w) + Len(b) = a /\ Len(w) \in Nat /\ Len(b) \in Nat
      BY <1>1, <1>2
    <3>4. \A x, y \in Nat : (x + y) + (i - y) = x + i
      OBVIOUS
    <3> QED BY <3>2, <3>3, <3>4, Zenon
  <2> QED BY <2>1, <2>2
<1>4. Len(w) + Len(b \o t) = a + Len(t)
  <2>1. Len(w) + Len(b) = a /\ Len(w) \in Nat
    BY <1>1
  <2>2. Len(b \o t) = Len(b) + Len(t) /\ Len(b) \in Nat /\ Len(t) \in Nat
    BY <1>2
  <2>3. \A x, y, z \in Nat : x + (y + z) = (x + y) + z
    OBVIOUS
  <2>4. Len(w) + (Len(b) + Len(t)) = (Len(w) + Len(b)) + Len(t)
    BY <2>1, <2>2, <2>3, Zenon
  <2>5. Len(w) + (Len(b) + Len(t)) = a + Len(t)
    BY <2>1, <2>4, Zenon
  <2> QED BY <2>2, <2>5, Zenon
<1> QED BY <1>3, <1>4 DEF InOrder

(* The first n bytes of outputBuffer_ go to the wire.                       *)
LEMMA BufferMoves ==
  ASSUME NEW S, NEW w \in Seq(S), NEW b \in Seq(S), NEW a \in Nat,
         InOrder(w, b, a), NEW n \in 0 .. Len(b)
  PROVE  InOrder(w \o SubSeq(b, 1, n), From(b, n), a)
<1> DEFINE t == SubSeq(b, 1, n)
           r == From(b, n)
<1>1. /\ Len(w) + Len(b) = a /\ Len(w) \in Nat
      /\ \A i \in 1 .. Len(w) : w[i] = i
      /\ \A i \in 1 .. Len(b) : b[i] = Len(w) + i
  BY DEF InOrder
<1>2. /\ Len(b) \in Nat /\ t \in Seq(S) /\ Len(t) = n
      /\ \A i \in 1 .. n : t[i] = b[i]
      /\ Len(r) = Len(b) - n
      /\ \A i \in 1 .. Len(b) - n : i + n \in 1 .. Len(b) /\ r[i] = b[i + n]
  BY Cut
<1> HIDE DEF t, r
<1>3. /\ Len(w \o t) = Len(w) + n
      /\ \A i \in 1 .. Len(w) : (w \o t)[i] = w[i]
      /\ \A i \in 1 .. n : (w \o t)[Len(w) + i] = t[i]
  <2>1. t \in Seq(S) /\ Len(t) = n
    BY <1>2
  <2>2. /\ Len(w \o t) = Len(w) + Len(t)
        /\ \A i \in 1 .. Len(w) : (w \o t)[i] = w[i]
        /\ \A i \in 1 .. Len(t) : (w \o t)[Len(w) + i] = t[i]
    <3>1. \A u \in Seq(S) :
            /\ Len(w \o u) = Len(w) + Len(u)
            /\ \A i \in 1 .. Len(w) : (w \o u)[i] = w[i]
            /\ \A i \in 1 .. Len(u) : (w \o u)[Len(w) + i] = u[i]
      BY Concat
    <3> QED BY <2>1, <3>1, Zenon
  <2> QED BY <2>1, <2>2
<1>4. ASSUME NEW i \in 1 .. Len(w \o t) PROVE (w \o t)[i] = i
  <2>1. CASE i <= Len(w)
    BY <2>1, <1>1, <1>3
  <2>2. CASE ~(i <= Len(w))
    <3>1. /\ i - Len(w) \in 1 .. n /\ Len(w) + (i - Len(w)) = i
          /\ i - Len(w) \in 1 .. Len(b)
      BY <2>2, <1>1, <1>2, <1>3
    <3>2. (w \o t)[i] = t[i - Len(w)] /\ t[i - Len(w)] = b[i - Len(w)]
      BY <3>1, <1>2, <1>3
    <3> QED BY <3>1, <3>2, <1>1
  <2> QED BY <2>1, <2>2
<1>5. ASSUME NEW i \in 1 .. Len(r) PROVE r[i] = Len(w \o t) + i
  <2>1. i + n \in 1 .. Len(b) /\ r[i] = b[i + n]
    BY <1>2
  <2> QED BY <2>1, <1>1, <1>2, <1>3
<1>6. Len(w \o t) + Len(r) = a
  <2>1. /\ Len(w) + Len(b) = a /\ Len(w) \in Nat /\ Len(b) \in Nat
        /\ Len(r) = Len(b) - n /\ Len(w \o t) = Len(w) + n
    BY <1>1, <1>2, <1>3
  <2> QED BY <2>1
<1>7. InOrder(w \o t, r, a)
  BY <1>4, <1>5, <1>6 DEF InOrder
<1> QED BY <1>7 DEF t, r

(* sendInLoop() with n bytes written at once: order and numbers stay.       *)
LEMMA SendWrites ==
  ASSUME NEW B, NEW w \in Seq(B), NEW b \in Seq(B), NEW data \in Seq(B),
         NEW a \in Nat, InOrder(w, b, a), NEW n \in 0 .. Len(data),
         \A i \in 1 .. Len(data) : data[i] = a + i,
         b = <<>> \/ n = 0
  PROVE  /\ w \o SubSeq(data, 1, n) \in Seq(B)
         /\ b \o Remaining(data, n) \in Seq(B)
         /\ n < Len(data) => b \o Remaining(data, n) # <<>>
         /\ n = Len(data) => b \o Remaining(data, n) = b
         /\ InOrder(w \o SubSeq(data, 1, n), b \o Remaining(data, n),
                    a + Len(data))
<1> DEFINE t == SubSeq(data, 1, n)
           r == Remaining(data, n)
<1>1. /\ Len(data) \in Nat /\ t \in Seq(B) /\ Len(t) = n
      /\ \A i \in 1 .. n : t[i] = data[i]
      /\ r \in Seq(B) /\ Len(r) = Len(data) - n
      /\ \A i \in 1 .. Len(data) - n :
           i + n \in 1 .. Len(data) /\ r[i] = data[i + n]
  BY Cut DEF Remaining
<1> HIDE DEF t, r
<1>2. InOrder(w \o t, b, a + n)
  <2>1. CASE n = 0
    <3>1. t = <<>> /\ w \o t = w
      BY <2>1, <1>1
    <3> QED BY <3>1, <2>1
  <2>2. CASE b = <<>>
    <3>1. \A i \in 1 .. Len(t) : t[i] = a + i
      <4>1. \A i \in 1 .. n : i \in 1 .. Len(data) /\ t[i] = data[i]
        BY <1>1
      <4> QED BY <4>1, <1>1
    <3>2. InOrder(w \o t, <<>>, a + Len(t))
      BY <3>1, <1>1, <2>2, WireGrows
    <3> QED BY <3>2, <2>2, <1>1
  <2> QED BY <2>1, <2>2
<1>3. w \o t \in Seq(B) /\ a + n \in Nat
  BY <1>1, Concat
<1>4. \A i \in 1 .. Len(r) : r[i] = (a + n) + i
  BY <1>1
<1>5. InOrder(w \o t, b \o r, (a + n) + Len(r))
  BY <1>1, <1>2, <1>3, <1>4, BufferGrows
<1>6. (a + n) + Len(r) = a + Len(data)
  BY <1>1
<1>7. b \o r \in Seq(B)
  BY <1>1, Concat
<1>8. n < Len(data) => b \o r # <<>>
  <2>1. n < Len(data) => r # <<>>
    BY <1>1
  <2> QED BY <2>1, <1>1, Concat
<1>9. n = Len(data) => b \o r = b
  <2>1. n = Len(data) => r = <<>>
    BY <1>1
  <2> QED BY <2>1
<1> QED BY <1>3, <1>5, <1>6, <1>7, <1>8, <1>9 DEF t, r

-----------------------------------------------------------------------------
(* sendInLoop(), whatever it finds: the output stays in order, at most a    *)
(* callback is queued, and the channel is left alone or asks for            *)
(* writability, just when output begins to wait.                            *)
LEMMA SendEffect ==
  ASSUME TypeOK, OutputInv, WritesWhilePending,
         NEW q, SendInLoop(q), accepted + MsgLen <= MaxBytes,
         MaxBytes \in Nat, closedFrom' = closedFrom, destroyed' = destroyed
  PROVE  /\ wire' \in Seq(1 .. MaxBytes)
         /\ outputBuffer_' \in Seq(1 .. MaxBytes)
         /\ accepted' \in Nat /\ accepted' <= accepted + MsgLen
         /\ OutputInv'
         /\ peer' \in {"open", "closed", "reset", "dead"}
         /\ ioQ' = q \/ ioQ' = Append(q, "callback")
         /\ \/ UNCHANGED chanVars
            \/ state_ # "kDisconnected" /\ Updated(events_ \cup {"OUT"})
         /\ WritesWhilePending'
<1> DEFINE data == Numbered(MsgLen)
           B == 1 .. MaxBytes
<1>1. /\ wire \in Seq(B) /\ outputBuffer_ \in Seq(B) /\ accepted \in Nat
      /\ peer \in {"open", "closed", "reset", "dead"}
      /\ MsgLen \in Nat \ {0}
  BY SizesAssumption DEF TypeOK
<1>2. /\ data \in Seq(B) /\ Len(data) = MsgLen
      /\ \A i \in 1 .. MsgLen : data[i] = accepted + i
  BY NumberedBytes
<1>3. CASE UNCHANGED <<chanVars, dataVars>> /\ ioQ' = q
           /\ peer' \in {"open", "closed", "reset", "dead"}
  BY <1>1, <1>3 DEF OutputInv, WritesWhilePending, chanVars, dataVars
<1>4. CASE /\ state_ # "kDisconnected"
           /\ ~(CanWrite /\ Broken)
           /\ \E n \in 0 .. (IF CanWrite THEN MsgLen ELSE 0) :
                /\ wire' = wire \o SubSeq(data, 1, n)
                /\ outputBuffer_' = IF n = MsgLen THEN outputBuffer_
                                    ELSE outputBuffer_ \o Remaining(data, n)
                /\ ioQ' = IF \/ n = MsgLen
                             \/ /\ Len(outputBuffer_) < highWaterMark_
                                /\ Len(outputBuffer_) + MsgLen - n
                                     >= highWaterMark_
                          THEN Append(q, "callback") ELSE q
                /\ IF n = MsgLen \/ "OUT" \in events_ THEN UNCHANGED chanVars
                   ELSE Updated(events_ \cup {"OUT"})
           /\ accepted' = accepted + MsgLen
           /\ UNCHANGED peer
  <2>1. PICK n \in 0 .. (IF CanWrite THEN MsgLen ELSE 0) :
                /\ wire' = wire \o SubSeq(data, 1, n)
                /\ outputBuffer_' = IF n = MsgLen THEN outputBuffer_
                                    ELSE outputBuffer_ \o Remaining(data, n)
                /\ ioQ' \in {q, Append(q, "callback")}
                /\ IF n = MsgLen \/ "OUT" \in events_ THEN UNCHANGED chanVars
                   ELSE Updated(events_ \cup {"OUT"})
    BY <1>4
  <2> HIDE DEF data, B
  <2>2. /\ n \in 0 .. Len(data) /\ (outputBuffer_ = <<>> \/ n = 0)
        /\ \A i \in 1 .. Len(data) : data[i] = accepted + i
        /\ (n < Len(data) <=> n # MsgLen) /\ (n = Len(data) <=> n = MsgLen)
    BY <1>1, <1>2 DEF CanWrite
  <2>3. /\ wire \o SubSeq(data, 1, n) \in Seq(B)
        /\ outputBuffer_ \o Remaining(data, n) \in Seq(B)
        /\ n < Len(data) => outputBuffer_ \o Remaining(data, n) # <<>>
        /\ n = Len(data) => outputBuffer_ \o Remaining(data, n)
                              = outputBuffer_
        /\ InOrder(wire \o SubSeq(data, 1, n),
                   outputBuffer_ \o Remaining(data, n), accepted + Len(data))
    BY <2>2, <1>1, <1>2, SendWrites DEF OutputInv
  <2>4. outputBuffer_' = outputBuffer_ \o Remaining(data, n)
    BY <2>1, <2>2, <2>3
  <2>5. wire' \in Seq(B) /\ outputBuffer_' \in Seq(B)
    BY <2>1, <2>3, <2>4
  <2>6. OutputInv'
    BY <2>1, <2>3, <2>4, <1>2, <1>4 DEF OutputInv
  <2>7. \/ UNCHANGED chanVars
        \/ state_ # "kDisconnected" /\ Updated(events_ \cup {"OUT"})
    BY <2>1, <1>4
  <2>8. WritesWhilePending'
    <3>1. SUFFICES ASSUME closedFrom = "none", destroyed = 0
                   PROVE  "OUT" \in events_' <=> outputBuffer_' # <<>>
      BY DEF WritesWhilePending
    <3>2. "OUT" \in events_ <=> outputBuffer_ # <<>>
      BY <3>1 DEF WritesWhilePending
    <3>3. CASE n = MsgLen
      BY <3>2, <3>3, <2>1 DEF chanVars
    <3>4. CASE n # MsgLen
      <4>1. outputBuffer_' # <<>>
        BY <3>4, <2>2, <2>3, <2>4
      <4>2. "OUT" \in events_'
        BY <3>4, <2>1 DEF chanVars, Updated
      <4> QED BY <4>1, <4>2
    <3> QED BY <3>3, <3>4
  <2>9. accepted' \in Nat /\ accepted' <= accepted + MsgLen /\ peer' = peer
    BY <1>1, <1>4
  <2> QED BY <2>1, <2>5, <2>6, <2>7, <2>8, <2>9, <1>1 DEF B
<1>5. CASE /\ state_ # "kDisconnected"
           /\ CanWrite /\ Broken
           /\ peer' = IF peer = "reset" THEN "dead" ELSE peer
           /\ ioQ' = q
           /\ UNCHANGED <<chanVars, dataVars>>
  BY <1>1, <1>3, <1>5
<1>6. CASE state_ = "kDisconnected" /\ ioQ' = q
           /\ UNCHANGED <<chanVars, dataVars, peer>>
  BY <1>1, <1>3, <1>6
<1> QED BY <1>4, <1>5, <1>6 DEF SendInLoop

(* handleWrite(): what was written leaves outputBuffer_, and the channel    *)
(* stops asking for writability once that is empty.                         *)
LEMMA WriteEffect ==
  ASSUME TypeOK, OutputInv, WritesWhilePending, HandleWrite
  PROVE  /\ wire' \in Seq(1 .. MaxBytes)
         /\ outputBuffer_' \in Seq(1 .. MaxBytes)
         /\ OutputInv'
         /\ wrShut' \in BOOLEAN
         /\ ioQ' = ioQ \/ ioQ' = Append(ioQ, "callback")
         /\ "OUT" \in events_
         /\ UNCHANGED chanVars \/ Updated(events_ \ {"OUT"})
         /\ WritesWhilePending'
<1> DEFINE B == 1 .. MaxBytes
<1>1. /\ wire \in Seq(B) /\ outputBuffer_ \in Seq(B) /\ accepted \in Nat
      /\ wrShut \in BOOLEAN
  BY Flags DEF TypeOK
<1>2. PICK n \in 1 .. Len(outputBuffer_) :
       /\ wire' = wire \o SubSeq(outputBuffer_, 1, n)
       /\ outputBuffer_' = From(outputBuffer_, n)
       /\ IF n < Len(outputBuffer_) THEN UNCHANGED <<chanVars, ioQ, wrShut>>
          ELSE /\ DisableWriting
               /\ ioQ' = Append(ioQ, "callback")
               /\ wrShut' = (wrShut \/ state_ = "kDisconnecting")
  BY DEF HandleWrite
<1>3. "OUT" \in events_ /\ UNCHANGED <<accepted, ghostVars>>
  BY DEF HandleWrite
<1> HIDE DEF B
<1>4. n \in 0 .. Len(outputBuffer_) /\ Len(outputBuffer_) \in Nat
  BY <1>1
<1>5. /\ SubSeq(outputBuffer_, 1, n) \in Seq(B)
      /\ From(outputBuffer_, n) \in Seq(B)
      /\ Len(From(outputBuffer_, n)) = Len(outputBuffer_) - n
  BY <1>1, <1>4, Cut
<1>6. wire' \in Seq(B) /\ outputBuffer_' \in Seq(B)
  BY <1>1, <1>2, <1>5, Concat
<1>7. OutputInv'
  <2>1. InOrder(wire \o SubSeq(outputBuffer_, 1, n), From(outputBuffer_, n),
                accepted)
    BY <1>1, <1>4, BufferMoves DEF OutputInv
  <2> QED BY <2>1, <1>2, <1>3 DEF OutputInv
<1>8. n < Len(outputBuffer_) <=> outputBuffer_' # <<>>
  BY <1>2, <1>4, <1>5
<1>9. WritesWhilePending'
  BY <1>2, <1>3, <1>8
  DEF WritesWhilePending, chanVars, ghostVars, DisableWriting, Updated
<1>10. wrShut' \in BOOLEAN
  BY <1>1, <1>2, Zenon
<1> QED BY <1>2, <1>3, <1>6, <1>7, <1>9, <1>10 DEF B, DisableWriting

-----------------------------------------------------------------------------
(* What a step may do to the functors of the connection's loop.             *)
LEMMA QueueStep ==
  ASSUME Next
  PROVE  \/ ioQ' = ioQ
         \/ ioQ' = Append(ioQ, "callback") \/ ioQ' = Append(ioQ, "destroy")
         \/ ioQ' = Append(ioQ, "forceClose") /\ (timer \/ ~plain')
         \/ /\ ioQ # <<>> /\ calls = <<>>
            /\ \/ ioQ' = Tail(ioQ)
               \/ ioQ' = Append(Tail(ioQ), "callback")
               \/ ioQ' = Append(Tail(ioQ), "destroy")
         \/ \E u \in Users : CallFromGoesOn(u)
         \/ NewConnection
<1>1. CASE RunSend
  <2>1. ioQ' = Tail(ioQ) \/ ioQ' = Append(Tail(ioQ), "callback")
    BY <1>1 DEF RunSend, SendInLoop
  <2> QED BY <1>1, <2>1 DEF RunSend, Runs
<1>2. CASE SendHere
  BY <1>2 DEF SendHere, SendInLoop
<1>3. CASE HandleWrite
  BY <1>3 DEF HandleWrite
<1>4. CASE \/ ForceCloseInLoop \/ ConnectEstablished \/ RunShutdown
           \/ RunStartRead \/ RunCallback \/ ConnectDestroyed
  BY <1>4
  DEF ForceCloseInLoop, ConnectEstablished, RunShutdown, RunStartRead,
      RunCallback, ConnectDestroyed, Runs, HandleClose
<1>5. CASE HandleReadEof \/ HandleCloseCallback
  BY <1>5 DEF HandleReadEof, HandleCloseCallback, HandleClose
<1>6. CASE TimerFires
  BY <1>6 DEF TimerFires
<1>7. CASE ForceCloseHere
  BY <1>7 DEF ForceCloseHere, MayCall
<1>8. CASE RemoveConnectionInLoop
  BY <1>8 DEF RemoveConnectionInLoop
<1>9. CASE \/ HandleEvent \/ HandleReadMessage \/ HandleReadError
           \/ HandleError \/ HandleWriteFails
  BY <1>9
  DEF HandleEvent, HandleReadMessage, HandleReadError, HandleError,
      HandleWriteFails
<1>10. CASE \/ ShutdownHere \/ ForceCloseWithDelay \/ StartReadHere \/ DropRef
            \/ \E u \in Users : \E op \in Calls : CallFrom(u, op)
            \/ Arrive \/ PeerCloses \/ PeerResets
  BY <1>10
  DEF ShutdownHere, ForceCloseWithDelay, StartReadHere, DropRef, CallFrom,
      Arrive, PeerCloses, PeerResets
<1> QED
  BY <1>1, <1>2, <1>3, <1>4, <1>5, <1>6, <1>7, <1>8, <1>9, <1>10
  DEF Next, Functor, Handler, UserHere

(* What a step may do to the interest of the channel.                       *)
LEMMA ChannelStep ==
  ASSUME TypeOK, Next
  PROVE  \/ UNCHANGED chanVars
         \/ \E ev \in SUBSET Interests : Updated(ev)
         \/ ConnectDestroyed
<1>1. /\ {"IN"} \in SUBSET Interests /\ {} \in SUBSET Interests
      /\ events_ \cup {"IN"} \in SUBSET Interests
      /\ events_ \cup {"OUT"} \in SUBSET Interests
      /\ events_ \ {"OUT"} \in SUBSET Interests
  BY DEF TypeOK, Interests
<1>2. CASE NewConnection \/ ConnectEstablished
  BY <1>1, <1>2 DEF NewConnection, ConnectEstablished
<1>3. CASE RunSend \/ SendHere
  <2>1. UNCHANGED chanVars \/ Updated(events_ \cup {"OUT"})
    BY <1>3 DEF RunSend, SendHere, SendInLoop
  <2> QED BY <2>1, <1>1
<1>4. CASE RunStartRead \/ StartReadHere
  BY <1>1, <1>4 DEF RunStartRead, StartReadHere, StartReadInLoop, chanVars
<1>5. CASE ForceCloseInLoop \/ HandleReadEof \/ HandleCloseCallback
  BY <1>1, <1>5
  DEF ForceCloseInLoop, HandleReadEof, HandleCloseCallback, HandleClose,
      DisableAll
<1>6. CASE HandleWrite
  <2>1. UNCHANGED chanVars \/ Updated(events_ \ {"OUT"})
    BY <1>6 DEF HandleWrite, DisableWriting
  <2> QED BY <2>1, <1>1
<1>7. CASE \/ RemoveConnectionInLoop \/ RunShutdown \/ RunCallback
           \/ HandleEvent \/ HandleReadMessage \/ HandleReadError
           \/ HandleError \/ HandleWriteFails \/ ShutdownHere
           \/ ForceCloseHere \/ ForceCloseWithDelay
  BY <1>7
  DEF RemoveConnectionInLoop, RunShutdown, RunCallback, HandleEvent,
      HandleReadMessage, HandleReadError, HandleError, HandleWriteFails,
      ShutdownHere, ForceCloseHere, ForceCloseWithDelay
<1>8. CASE \/ TimerFires \/ DropRef
           \/ \E u \in Users : \/ \E op \in Calls : CallFrom(u, op)
                               \/ CallFromGoesOn(u)
           \/ Arrive \/ PeerCloses \/ PeerResets
  BY <1>8
  DEF TimerFires, DropRef, CallFrom, CallFromGoesOn, Arrive, PeerCloses,
      PeerResets
<1> QED
  BY <1>2, <1>3, <1>4, <1>5, <1>6, <1>7, <1>8
  DEF Next, Functor, Handler, UserHere

(* Concatenation to a pair and to a triple.                                 *)
LEMMA Pair ==
  ASSUME NEW a, NEW b
  PROVE  <<a>> \o <<b>> = <<a, b>>
<1> DEFINE S == {a, b}
           s == <<a>> \o <<b>>
           t == <<a, b>>
<1>1. /\ <<a>> \in Seq(S) /\ <<b>> \in Seq(S)
      /\ Len(<<a>>) = 1 /\ Len(<<b>>) = 1
  OBVIOUS
<1>2. s \in Seq(S) /\ t \in Seq(S) /\ Len(s) = 2 /\ Len(t) = 2
  BY <1>1
<1>3. s[1] = a /\ s[2] = b /\ t[1] = a /\ t[2] = b
  BY <1>1
<1>4. \A i \in 1 .. 2 : s[i] = t[i]
  BY <1>3
<1> HIDE DEF s, t, S
<1>5. s = t
  BY <1>2, <1>4
<1> QED BY <1>5 DEF s, t

(* The same with one element more.                                          *)
LEMMA Triple ==
  ASSUME NEW a, NEW b, NEW c
  PROVE  <<a, b>> \o <<c>> = <<a, b, c>>
<1> DEFINE S == {a, b, c}
           s == <<a, b>> \o <<c>>
           t == <<a, b, c>>
<1>1. /\ <<a, b>> \in Seq(S) /\ <<c>> \in Seq(S)
      /\ Len(<<a, b>>) = 2 /\ Len(<<c>>) = 1
  OBVIOUS
<1>2. s \in Seq(S) /\ t \in Seq(S) /\ Len(s) = 3 /\ Len(t) = 3
  BY <1>1
<1>3. /\ s[1] = a /\ s[2] = b /\ s[3] = c
      /\ t[1] = a /\ t[2] = b /\ t[3] = c
  BY <1>1
<1>4. \A i \in 1 .. 3 : s[i] = t[i]
  BY <1>3
<1> HIDE DEF s, t, S
<1>5. s = t
  BY <1>2, <1>4
<1> QED BY <1>5 DEF s, t

(* The callbacks for any events, and for those of a channel that reads:     *)
(* with "IN" the close callback is not among them.                          *)
LEMMA CallbacksOf ==
  ASSUME NEW re
  PROVE  /\ CallbacksFor(re) \in Seq(Callbacks)
         /\ ("HUP" \in re => "IN" \in re) => CallbacksFor(re) \in PlainCallbacks
<1>1. /\ <<>> \in Seq(Callbacks) /\ <<"close">> \in Seq(Callbacks)
      /\ <<"error">> \in Seq(Callbacks) /\ <<"read">> \in Seq(Callbacks)
      /\ <<"write">> \in Seq(Callbacks)
  BY DEF Callbacks
<1>2. CallbacksFor(re) \in Seq(Callbacks)
  BY <1>1 DEF CallbacksFor
<1>3. ASSUME "HUP" \in re => "IN" \in re
      PROVE  CallbacksFor(re) \in PlainCallbacks
  <2> DEFINE e == IF "ERR" \in re THEN <<"error">> ELSE <<>>
             r == IF "IN" \in re THEN <<"read">> ELSE <<>>
             w == IF "OUT" \in re THEN <<"write">> ELSE <<>>
  <2>1. CallbacksFor(re) = <<>> \o e \o r \o w
    BY <1>3 DEF CallbacksFor
  <2>2. <<>> \o e = e
    OBVIOUS
  <2>3. e \o r \in {<<>>, <<"error">>, <<"read">>, <<"error", "read">>}
    <3>1. /\ <<>> \o <<>> = <<>> /\ <<>> \o <<"read">> = <<"read">>
          /\ <<"error">> \o <<>> = <<"error">>
          /\ <<"error">> \o <<"read">> = <<"error", "read">>
      BY Pair
    <3> QED BY <3>1, Zenon
  <2>4. \A s \in {<<>>, <<"error">>, <<"read">>, <<"error", "read">>} :
          s \o w \in PlainCallbacks
    <3>1. /\ <<>> \o <<"write">> = <<"write">>
          /\ <<"error">> \o <<"write">> = <<"error", "write">>
          /\ <<"read">> \o <<"write">> = <<"read", "write">>
          /\ <<"error", "read">> \o <<"write">>
               = <<"error", "read", "write">>
      BY Pair, Triple
    <3>2. /\ <<>> \o <<>> = <<>> /\ <<"error">> \o <<>> = <<"error">>
          /\ <<"read">> \o <<>> = <<"read">>
          /\ <<"error", "read">> \o <<>> = <<"error", "read">>
      OBVIOUS
    <3>3. CASE "OUT" \in re
      BY <3>1, <3>3, Zenon DEF PlainCallbacks
    <3>4. CASE "OUT" \notin re
      BY <3>2, <3>4, Zenon DEF PlainCallbacks
    <3> QED BY <3>3, <3>4
  <2>5. <<>> \o e \o r \o w \in PlainCallbacks
    BY <2>2, <2>3, <2>4, Zenon
  <2> QED BY <2>1, <2>5
<1> QED BY <1>2, <1>3

(* What handleEvent() has left to do once a callback is made.               *)
LEMMA PlainTail ==
  ASSUME NEW c \in PlainCallbacks, c # <<>>
  PROVE  /\ Head(c) \in {"error", "read", "write"}
         /\ Tail(c) \in PlainCallbacks
         /\ Head(c) = "read" => Tail(c) \in {<<>>, <<"write">>}
<1>1. /\ Tail(<<"error">>) = <<>> /\ Head(<<"error">>) = "error"
      /\ Tail(<<"read">>) = <<>> /\ Head(<<"read">>) = "read"
      /\ Tail(<<"write">>) = <<>> /\ Head(<<"write">>) = "write"
  OBVIOUS
<1>2. /\ Tail(<<"error", "read">>) = <<"read">>
      /\ Tail(<<"error", "write">>) = <<"write">>
      /\ Tail(<<"read", "write">>) = <<"write">>
  OBVIOUS
<1>3. /\ Head(<<"error", "read">>) = "error"
      /\ Head(<<"error", "write">>) = "error"
      /\ Head(<<"read", "write">>) = "read"
  OBVIOUS
<1>4. /\ Tail(<<"error", "read", "write">>) = <<"read", "write">>
      /\ Head(<<"error", "read", "write">>) = "error"
  OBVIOUS
<1>5. CASE c \in {<<"error">>, <<"read">>, <<"write">>}
  BY <1>1, <1>5, Zenon DEF PlainCallbacks
<1>6. CASE c \in {<<"error", "read">>, <<"error", "write">>,
                  <<"read", "write">>, <<"error", "read", "write">>}
  BY <1>2, <1>3, <1>4, <1>6, Zenon DEF PlainCallbacks
<1> QED BY <1>5, <1>6 DEF PlainCallbacks

-----------------------------------------------------------------------------
(* The sends counted are natural numbers.                                   *)
LEMMA CountType ==
  ASSUME TypeOK, CountInv
  PROVE  /\ Cardinality(SendsIn(ioQ)) \in Nat
         /\ Cardinality(SendsCalled) \in Nat
         /\ accepted \in Nat /\ numCalls \in Nat /\ MaxCalls \in Nat
         /\ numCalls <= MaxCalls /\ MsgLen \in Nat \ {0}
<1>1. ioQ \in Seq(Strong \cup Raw) /\ accepted \in Nat /\ numCalls \in Nat
      /\ MaxCalls \in Nat /\ numCalls <= MaxCalls /\ MsgLen \in Nat \ {0}
  BY SizesAssumption DEF TypeOK
<1>2. Cardinality(SendsIn(ioQ)) \in Nat
  BY <1>1, SendsFinite
<1>3. Cardinality(SendsCalled) \in Nat
  BY FS_CardinalityType DEF CountInv
<1> QED BY <1>1, <1>2, <1>3

(* How the two sides of CountInv may move: a = bytes accepted, s = sends    *)
(* waiting, n = calls made, before and after.                               *)
LEMMA Balance ==
  ASSUME NEW a \in Nat, NEW s \in Nat, NEW n \in Nat,
         NEW a2 \in Nat, NEW s2 \in Nat, NEW n2 \in Nat,
         Fits(a, s, n),
         \/ a2 <= a /\ s2 <= s /\ n <= n2
         \/ a2 <= a + MsgLen /\ s2 + 1 <= s /\ n <= n2
         \/ a2 <= a + MsgLen /\ s2 <= s /\ n + 1 <= n2
         \/ a2 <= a /\ s2 <= s + 1 /\ n + 1 <= n2
  PROVE  Fits(a2, s2, n2)
<1> USE DEF Fits
<1>1. /\ MsgLen * a \in Nat /\ MsgLen * s \in Nat /\ MsgLen * s2 \in Nat
      /\ MsgLen * n \in Nat /\ MsgLen * n2 \in Nat /\ MsgLen \in Nat
  BY Product, SizesAssumption
<1>2. CASE a2 <= a /\ s2 <= s /\ n <= n2
  <2>1. MsgLen * s2 <= MsgLen * s /\ MsgLen * n <= MsgLen * n2
    BY <1>2, Product
  <2> QED BY <1>1, <1>2, <2>1
<1>3. CASE a2 <= a + MsgLen /\ s2 + 1 <= s /\ n <= n2
  <2>1. /\ MsgLen * (s2 + 1) <= MsgLen * s /\ MsgLen * n <= MsgLen * n2
        /\ MsgLen * (s2 + 1) = MsgLen * s2 + MsgLen
    BY <1>3, Product
  <2> QED BY <1>1, <1>3, <2>1
<1>4. CASE a2 <= a + MsgLen /\ s2 <= s /\ n + 1 <= n2
  <2>1. /\ MsgLen * s2 <= MsgLen * s /\ MsgLen * (n + 1) <= MsgLen * n2
        /\ MsgLen * (n + 1) = MsgLen * n + MsgLen
    BY <1>4, Product
  <2> QED BY <1>1, <1>4, <2>1
<1>5. CASE a2 <= a /\ s2 <= s + 1 /\ n + 1 <= n2
  <2>1. /\ MsgLen * s2 <= MsgLen * (s + 1)
        /\ MsgLen * (n + 1) <= MsgLen * n2
        /\ MsgLen * (n + 1) = MsgLen * n + MsgLen
        /\ MsgLen * (s + 1) = MsgLen * s + MsgLen
    BY <1>5, Product
  <2> QED BY <1>1, <1>5, <2>1
<1> QED BY <1>2, <1>3, <1>4, <1>5

(* A send that is run had its bytes counted when it was called.             *)
LEMMA SendFits ==
  ASSUME TypeOK, CountInv, RunSend \/ SendHere
  PROVE  accepted + MsgLen <= MaxBytes /\ MaxBytes \in Nat
<1> DEFINE s == Cardinality(SendsIn(ioQ)) + Cardinality(SendsCalled)
<1>1. /\ s \in Nat /\ accepted \in Nat /\ numCalls \in Nat /\ MaxCalls \in Nat
      /\ numCalls <= MaxCalls /\ MsgLen \in Nat
      /\ Fits(accepted, s, numCalls)
  BY CountType DEF CountInv
<1>2. accepted + MsgLen \in Nat /\ MsgLen * 0 = 0
  BY <1>1
<1>3. CASE RunSend
  <2>1. ioQ # <<>> /\ Head(ioQ) = "send" /\ ioQ \in Seq(Strong \cup Raw)
    BY <1>3 DEF RunSend, Runs, TypeOK
  <2>2. /\ Cardinality(SendsIn(ioQ)) = Cardinality(SendsIn(Tail(ioQ))) + 1
        /\ Cardinality(SendsIn(Tail(ioQ))) \in Nat
    BY <2>1, SendsTail, SendsFinite, TailOf
  <2>3. 0 + 1 <= s
    BY <2>2, CountType
  <2> HIDE DEF s
  <2>4. Fits(accepted + MsgLen, 0, MaxCalls)
    BY <2>3, <1>1, <1>2, Balance
  <2> QED BY <2>4, <1>1, <1>2, Product DEF MaxBytes, Fits
<1>4. CASE SendHere
  <2>1. numCalls + 1 <= MaxCalls
    BY <1>4, <1>1 DEF SendHere, MayCall
  <2> HIDE DEF s
  <2>2. Fits(accepted + MsgLen, 0, MaxCalls)
    BY <2>1, <1>1, <1>2, Balance
  <2> QED BY <2>2, <1>1, <1>2, Product DEF MaxBytes, Fits
<1> QED BY <1>3, <1>4

-----------------------------------------------------------------------------
(* Only sendInLoop() and handleWrite() touch the output.                    *)
LEMMA DataStep ==
  ASSUME Next
  PROVE  RunSend \/ SendHere \/ HandleWrite \/ UNCHANGED dataVars
<1>1. CASE \/ NewConnection \/ RemoveConnectionInLoop \/ ConnectEstablished
           \/ RunShutdown \/ RunStartRead \/ RunCallback \/ ForceCloseInLoop
           \/ ConnectDestroyed
  BY <1>1
  DEF NewConnection, RemoveConnectionInLoop, ConnectEstablished, RunShutdown,
      RunStartRead, RunCallback, ForceCloseInLoop, ConnectDestroyed
<1>2. CASE \/ HandleEvent \/ HandleReadMessage \/ HandleReadEof
           \/ HandleReadError \/ HandleCloseCallback \/ HandleError
           \/ HandleWriteFails
  BY <1>2
  DEF HandleEvent, HandleReadMessage, HandleReadEof, HandleReadError,
      HandleCloseCallback, HandleError, HandleWriteFails
<1>3. CASE \/ ShutdownHere \/ ForceCloseHere \/ ForceCloseWithDelay
           \/ StartReadHere \/ TimerFires \/ DropRef
           \/ \E u \in Users : \/ \E op \in Calls : CallFrom(u, op)
                               \/ CallFromGoesOn(u)
           \/ Arrive \/ PeerCloses \/ PeerResets
  BY <1>3
  DEF ShutdownHere, ForceCloseHere, ForceCloseWithDelay, StartReadHere,
      TimerFires, DropRef, CallFrom, CallFromGoesOn, Arrive, PeerCloses,
      PeerResets
<1> QED BY <1>1, <1>2, <1>3 DEF Next, Functor, Handler, UserHere

(* Every step keeps the output in order and within its bound.               *)
LEMMA OutputStep ==
  ASSUME TypeOK, OutputInv, CountInv, WritesWhilePending, Next
  PROVE  /\ OutputInv'
         /\ wire' \in Seq(1 .. MaxBytes)
         /\ outputBuffer_' \in Seq(1 .. MaxBytes)
         /\ accepted' \in Nat
         /\ \/ accepted' = accepted
            \/ (RunSend \/ SendHere) /\ accepted' <= accepted + MsgLen
<1>1. CASE RunSend
  <2>1. /\ SendInLoop(Tail(ioQ)) /\ closedFrom' = closedFrom
        /\ destroyed' = destroyed
    BY <1>1 DEF RunSend, ghostVars
  <2> QED BY <2>1, <1>1, SendFits, SendEffect
<1>2. CASE SendHere
  <2>1. SendInLoop(ioQ) /\ closedFrom' = closedFrom /\ destroyed' = destroyed
    BY <1>2 DEF SendHere, ghostVars
  <2> QED BY <2>1, <1>2, SendFits, SendEffect
<1>3. CASE HandleWrite
  <2>1. accepted' = accepted /\ accepted \in Nat
    BY <1>3 DEF HandleWrite, TypeOK
  <2> QED BY <1>3, <2>1, WriteEffect
<1>4. CASE UNCHANGED dataVars
  BY <1>4 DEF dataVars, OutputInv, TypeOK
<1> QED BY <1>1, <1>2, <1>3, <1>4, DataStep

(* The functors that wait, and those taken over from a thread, are known.   *)
LEMMA QueueType ==
  ASSUME TypeOK, EarlyInv, Next
  PROVE  ioQ' \in Seq(Strong \cup Raw)
<1> DEFINE F == Strong \cup Raw
<1>1. /\ ioQ \in Seq(F) /\ "callback" \in F /\ "destroy" \in F
      /\ "forceClose" \in F /\ "established" \in F
  BY DEF TypeOK, Strong, Raw
<1>2. \A u \in Users : upc[u] # "idle" => upc[u] \in F
  BY CallsAssumption DEF TypeOK, EarlyInv, Strong, Raw
<1>3. ioQ # <<>> => Tail(ioQ) \in Seq(F)
  BY <1>1, TailOf
<1>4. \A q \in Seq(F), x \in F : Append(q, x) \in Seq(F)
  BY AppendOf
<1>5. CASE \E u \in Users : CallFromGoesOn(u)
  <2>1. PICK u \in Users : ioQ' = Append(ioQ, upc[u]) /\ upc[u] # "idle"
    BY <1>5 DEF CallFromGoesOn
  <2>2. upc[u] \in F
    BY <2>1, <1>2
  <2> HIDE DEF F
  <2>3. ioQ' \in Seq(F)
    BY <2>1, <2>2, <1>1, <1>4
  <2> QED BY <2>3 DEF F
<1>6. CASE NewConnection
  <2> HIDE DEF F
  <2>1. ioQ' = ioQ \/ ioQ' = Append(ioQ, "established")
    BY <1>6 DEF NewConnection
  <2>2. ioQ' \in Seq(F)
    BY <2>1, <1>1, <1>4
  <2> QED BY <2>2 DEF F
<1>7. CASE /\ ~ \E u \in Users : CallFromGoesOn(u)
           /\ ~ NewConnection
  <2> HIDE DEF F
  <2>1. ioQ' \in Seq(F)
    BY <1>1, <1>3, <1>4, <1>7, QueueStep
  <2> QED BY <2>1 DEF F
<1> QED BY <1>5, <1>6, <1>7

(* Every step preserves TypeOK.                                             *)
LEMMA TypeStep ==
  ASSUME TypeOK, OutputInv, CountInv, EarlyInv, WritesWhilePending, Next,
         CountInv'
  PROVE  TypeOK'
<1>a. /\ baseQ \in Seq({"remove"})
      /\ Append(baseQ, "remove") \in Seq({"remove"})
      /\ baseQ # <<>> => Tail(baseQ) \in Seq({"remove"})
  BY TailOf, AppendOf DEF TypeOK
<1>b. /\ calls \in Seq(Callbacks)
      /\ calls # <<>> => Tail(calls) \in Seq(Callbacks)
  BY TailOf DEF TypeOK
<1>c. HandleEvent => calls' \in Seq(Callbacks)
  BY CallbacksOf DEF HandleEvent
<1> USE Flags
    DEF Next, Functor, Handler, UserHere, chanVars, kernelVars, userVars,
        ghostVars, NewConnection, RemoveConnectionInLoop, ConnectEstablished,
        RunSend, RunShutdown, RunStartRead, RunCallback, ForceCloseInLoop,
        ConnectDestroyed, HandleEvent, HandleReadMessage, HandleReadEof,
        HandleReadError, HandleCloseCallback, HandleError, HandleWrite,
        HandleWriteFails, SendHere, ShutdownHere, ForceCloseHere,
        ForceCloseWithDelay, StartReadHere, TimerFires, CallFrom,
        CallFromGoesOn, DropRef, Arrive, PeerCloses, PeerResets
<1>1. /\ oneLoop' \in BOOLEAN /\ timer' \in BOOLEAN /\ userRef' \in BOOLEAN
      /\ inbox' \in BOOLEAN
  OBVIOUS
<1>2. inMap' \in BOOLEAN
  BY DEF HandleClose
<1>3. plain' \in BOOLEAN
  BY DEF MayCall
<1>4. wrShut' \in BOOLEAN
  BY DEF ShutdownInLoop
<1>5. reading_' \in BOOLEAN
  BY DEF StartReadInLoop
<1>6. baseQ' \in Seq({"remove"})
  <2>1. \/ baseQ' = baseQ \/ baseQ' = Append(baseQ, "remove")
        \/ baseQ # <<>> /\ baseQ' = Tail(baseQ)
    BY DEF HandleClose
  <2> QED BY <2>1, <1>a, Zenon
<1>7. state_' \in States \cup {"none"}
  BY DEF HandleClose, TypeOK, States
<1>8. destroyed' \in 0 .. 2
  BY DEF TypeOK, AtMost
<1>9. closedFrom' \in States \cup {"none"}
  BY DEF TypeOK, HandleClose
<1>10. numCalls' \in 0 .. MaxCalls
  BY SizesAssumption DEF TypeOK, MayCall
<1>11. upc' \in [Users -> Calls \cup {"idle"}]
  BY DEF TypeOK
<1>12. peer' \in {"open", "closed", "reset", "dead"}
  BY DEF TypeOK, SendInLoop
<1>13. calls' \in Seq(Callbacks)
  <2> USE <1>b, <1>c DEF Calls_
  <2> HIDE DEF HandleEvent
  <2> QED OBVIOUS
<1>14. /\ added' \in BOOLEAN /\ epolled' \in BOOLEAN
       /\ events_' \in SUBSET Interests
  <2>1. CASE UNCHANGED chanVars
    BY <2>1 DEF TypeOK
  <2>2. CASE \E ev \in SUBSET Interests : Updated(ev)
    BY <2>2 DEF Updated
  <2>3. CASE ConnectDestroyed
    BY <2>3 DEF Remove, TypeOK
  <2> QED BY <2>1, <2>2, <2>3, ChannelStep
<1>15. ioQ' \in Seq(Strong \cup Raw)
  BY QueueType
<1>16. /\ wire' \in Seq(1 .. MaxBytes) /\ outputBuffer_' \in Seq(1 .. MaxBytes)
       /\ accepted' \in Nat /\ Len(wire') + Len(outputBuffer_') = accepted'
  BY OutputStep DEF OutputInv, InOrder
<1>17. accepted' <= MaxBytes /\ MaxBytes \in Nat
  <2> DEFINE s == (Cardinality(SendsIn(ioQ)) + Cardinality(SendsCalled))'
  <2>1. s \in Nat /\ accepted' + MsgLen * s <= MsgLen * numCalls'
    BY <1>15, SendsFinite, FS_CardinalityType DEF CountInv, Fits
  <2>2. numCalls' \in Nat /\ MaxCalls \in Nat /\ numCalls' <= MaxCalls
    BY <1>10, SizesAssumption
  <2> HIDE DEF s
  <2>3. /\ MsgLen * s \in Nat /\ MsgLen * numCalls' \in Nat
        /\ MsgLen * MaxCalls \in Nat /\ MsgLen * numCalls' <= MaxBytes
    BY <2>1, <2>2, Product DEF MaxBytes
  <2> QED BY <2>1, <2>3, <1>16 DEF MaxBytes
<1> HIDE Flags
    DEF Next, Functor, Handler, UserHere, chanVars, kernelVars, userVars,
        ghostVars, NewConnection, RemoveConnectionInLoop, ConnectEstablished,
        RunSend, RunShutdown, RunStartRead, RunCallback, ForceCloseInLoop,
        ConnectDestroyed, HandleEvent, HandleReadMessage, HandleReadEof,
        HandleReadError, HandleCloseCallback, HandleError, HandleWrite,
        HandleWriteFails, SendHere, ShutdownHere, ForceCloseHere,
        ForceCloseWithDelay, StartReadHere, TimerFires, CallFrom,
        CallFromGoesOn, DropRef, Arrive, PeerCloses, PeerResets
<1>18. {oneLoop, reading_, added, epolled, inbox, wrShut, inMap, timer,
        userRef, plain}' \subseteq BOOLEAN
  BY <1>1, <1>2, <1>3, <1>4, <1>5, <1>14
<1>19. /\ accepted' \in 0 .. MaxBytes
       /\ Len(wire') + Len(outputBuffer_') <= MaxBytes
  BY <1>16, <1>17
<1> QED
  BY <1>6, <1>7, <1>8, <1>9, <1>10, <1>11, <1>12, <1>13, <1>14, <1>15, <1>16,
     <1>18, <1>19 DEF TypeOK

(* What a step may do to the calls of user code.                            *)
LEMMA UserStep ==
  ASSUME TypeOK, Next
  PROVE  /\ \/ upc' = upc
            \/ \E u \in Users : \E op \in Calls : CallFrom(u, op)
            \/ \E u \in Users : CallFromGoesOn(u)
         /\ numCalls' \in Nat /\ numCalls <= numCalls'
<1>1. CASE \/ NewConnection \/ RemoveConnectionInLoop \/ ConnectEstablished
           \/ RunSend \/ RunShutdown \/ RunStartRead \/ RunCallback
           \/ ForceCloseInLoop \/ ConnectDestroyed \/ TimerFires \/ DropRef
  BY <1>1
  DEF NewConnection, RemoveConnectionInLoop, ConnectEstablished, RunSend,
      RunShutdown, RunStartRead, RunCallback, ForceCloseInLoop,
      ConnectDestroyed, TimerFires, DropRef, userVars, TypeOK
<1>2. CASE \/ HandleEvent \/ HandleReadMessage \/ HandleReadEof
           \/ HandleReadError \/ HandleCloseCallback \/ HandleError
           \/ HandleWrite \/ HandleWriteFails
           \/ Arrive \/ PeerCloses \/ PeerResets
  BY <1>2
  DEF HandleEvent, HandleReadMessage, HandleReadEof, HandleReadError,
      HandleCloseCallback, HandleError, HandleWrite, HandleWriteFails,
      Arrive, PeerCloses, PeerResets, userVars, TypeOK
<1>3. CASE \/ SendHere \/ ShutdownHere \/ ForceCloseHere
           \/ ForceCloseWithDelay \/ StartReadHere
  BY <1>3
  DEF SendHere, ShutdownHere, ForceCloseHere, ForceCloseWithDelay,
      StartReadHere, MayCall, TypeOK
<1>4. CASE \E u \in Users : \/ \E op \in Calls : CallFrom(u, op)
                            \/ CallFromGoesOn(u)
  <2>1. numCalls' = numCalls \/ numCalls' = numCalls + 1
    BY <1>4 DEF CallFrom, CallFromGoesOn, MayCall
  <2> QED BY <2>1, <1>4 DEF TypeOK
<1> QED BY <1>1, <1>2, <1>3, <1>4 DEF Next, Functor, Handler, UserHere

(* Every step keeps the bytes accepted, and to be accepted, within what     *)
(* user code has sent.                                                      *)
LEMMA CountStep ==
  ASSUME TypeOK, OutputInv, CountInv, EarlyInv, WritesWhilePending, Next
  PROVE  CountInv'
<1> DEFINE F == Strong \cup Raw
           sQ == Cardinality(SendsIn(ioQ))
           sC == Cardinality(SendsCalled)
           NoMore(q) == /\ Cardinality(SendsIn(q)) \in Nat
                        /\ Cardinality(SendsIn(q)) <= sQ
<1>1. /\ ioQ \in Seq(F) /\ sQ \in Nat /\ sC \in Nat /\ accepted \in Nat
      /\ numCalls \in Nat /\ IsFiniteSet(SendsCalled)
      /\ Fits(accepted, sQ + sC, numCalls)
      /\ "callback" \in F /\ "destroy" \in F /\ "forceClose" \in F
      /\ "established" \in F /\ MsgLen \in Nat
  BY CountType DEF TypeOK, CountInv, Strong, Raw
<1>2. accepted' \in Nat /\ numCalls' \in Nat /\ numCalls <= numCalls'
  BY OutputStep, UserStep
<1>3. ASSUME NEW x \in F, x # "send"
      PROVE  Cardinality(SendsIn(Append(ioQ, x))) = sQ
  <2> HIDE DEF F
  <2> QED BY <1>1, <1>3, SendsAppend
<1>4. ASSUME ioQ # <<>>
      PROVE  /\ Cardinality(SendsIn(Tail(ioQ))) \in Nat
             /\ Cardinality(SendsIn(Tail(ioQ))) <= sQ
             /\ Head(ioQ) = "send" => Cardinality(SendsIn(Tail(ioQ))) + 1 = sQ
             /\ \A x \in F : x # "send" =>
                  Cardinality(SendsIn(Append(Tail(ioQ), x)))
                    = Cardinality(SendsIn(Tail(ioQ)))
  <2> HIDE DEF F
  <2>1. Tail(ioQ) \in Seq(F)
    BY <1>1, <1>4, TailOf
  <2>2. Cardinality(SendsIn(Tail(ioQ))) \in Nat
    BY <2>1, SendsFinite
  <2>3. sQ = Cardinality(SendsIn(Tail(ioQ)))
               + (IF Head(ioQ) = "send" THEN 1 ELSE 0)
    BY <1>1, <1>4, SendsTail
  <2>4. ASSUME NEW x \in F, x # "send"
        PROVE  Cardinality(SendsIn(Append(Tail(ioQ), x)))
                 = Cardinality(SendsIn(Tail(ioQ)))
    <3>1. Cardinality(SendsIn(Append(Tail(ioQ), x)))
            = Cardinality(SendsIn(Tail(ioQ)))
                + (IF x = "send" THEN 1 ELSE 0)
      BY <2>1, SendsAppend
    <3> QED BY <3>1, <2>2, <2>4
  <2> QED BY <2>2, <2>3, <2>4, <1>1
<1>a. /\ Cardinality(SendsIn(Append(ioQ, "callback"))) = sQ
      /\ Cardinality(SendsIn(Append(ioQ, "destroy"))) = sQ
      /\ Cardinality(SendsIn(Append(ioQ, "forceClose"))) = sQ
      /\ Cardinality(SendsIn(Append(ioQ, "established"))) = sQ
  BY <1>1, <1>3
<1>b. ASSUME ioQ # <<>>
      PROVE  /\ Cardinality(SendsIn(Append(Tail(ioQ), "callback")))
                  = Cardinality(SendsIn(Tail(ioQ)))
             /\ Cardinality(SendsIn(Append(Tail(ioQ), "destroy")))
                  = Cardinality(SendsIn(Tail(ioQ)))
  BY <1>1, <1>4, <1>b
<1>c. \A s2, n2 \in Nat :
        \/ accepted' <= accepted /\ s2 <= sQ + sC /\ numCalls <= n2
        \/ accepted' <= accepted + MsgLen /\ s2 + 1 <= sQ + sC /\ numCalls <= n2
        \/ accepted' <= accepted + MsgLen /\ s2 <= sQ + sC /\ numCalls + 1 <= n2
        \/ accepted' <= accepted /\ s2 <= (sQ + sC) + 1 /\ numCalls + 1 <= n2
        => Fits(accepted', s2, n2)
  <2>1. PICK s \in Nat : s = sQ + sC /\ Fits(accepted, s, numCalls)
    BY <1>1
  <2>2. PICK a2 \in Nat : a2 = accepted'
    BY <1>2
  <2>3. PICK a, n \in Nat : a = accepted /\ n = numCalls
    BY <1>1
  <2> HIDE DEF sQ, sC
  <2>4. ASSUME NEW s2 \in Nat, NEW n2 \in Nat,
               \/ a2 <= a /\ s2 <= s /\ n <= n2
               \/ a2 <= a + MsgLen /\ s2 + 1 <= s /\ n <= n2
               \/ a2 <= a + MsgLen /\ s2 <= s /\ n + 1 <= n2
               \/ a2 <= a /\ s2 <= s + 1 /\ n + 1 <= n2
        PROVE  Fits(a2, s2, n2)
    <3>1. Fits(a, s, n)
      BY <2>1, <2>3
    <3> QED BY <3>1, <2>4, Balance
  <2> QED BY <2>1, <2>2, <2>3, <2>4
<1> HIDE DEF F
<1>5. CASE \E u \in Users : \E op \in Calls : CallFrom(u, op)
  <2>1. PICK u \in Users : \E op \in Calls : CallFrom(u, op)
    BY <1>5
  <2>2. PICK op \in Calls : CallFrom(u, op)
    BY <2>1
  <2>3. /\ upc[u] = "idle" /\ upc' = [upc EXCEPT ![u] = op] /\ ioQ' = ioQ
        /\ accepted' = accepted /\ numCalls' = numCalls + 1
        /\ upc \in [Users -> Calls \cup {"idle"}]
    BY <2>2 DEF CallFrom, MayCall, dataVars, TypeOK
  <2>4. SendsCalled' = IF op = "send" THEN SendsCalled \cup {u}
                       ELSE SendsCalled
    BY <2>3 DEF SendsCalled
  <2>5. /\ IsFiniteSet(SendsCalled') /\ Cardinality(SendsCalled') \in Nat
        /\ Cardinality(SendsCalled') <= sC + 1
    <3>1. CASE op = "send"
      <4>1. /\ IsFiniteSet(SendsCalled \cup {u})
            /\ Cardinality(SendsCalled \cup {u}) \in {sC, sC + 1}
        BY <1>1, FS_AddElement
      <4> QED BY <4>1, <3>1, <2>4, <1>1
    <3>2. CASE op # "send"
      BY <3>2, <2>4, <1>1
    <3> QED BY <3>1, <3>2
  <2>6. /\ sQ + Cardinality(SendsCalled') \in Nat
        /\ sQ + Cardinality(SendsCalled') <= (sQ + sC) + 1
        /\ sQ + sC \in Nat /\ numCalls + 1 <= numCalls'
    BY <2>5, <2>3, <1>1, <1>2
  <2>7. Fits(accepted', sQ + Cardinality(SendsCalled'), numCalls')
    BY <2>6, <2>3, <1>1, <1>2, <1>c
  <2> QED BY <2>3, <2>5, <2>7 DEF CountInv
<1>6. CASE \E u \in Users : CallFromGoesOn(u)
  <2>1. PICK u \in Users : CallFromGoesOn(u)
    BY <1>6
  <2>2. /\ upc[u] # "idle" /\ upc' = [upc EXCEPT ![u] = "idle"]
        /\ ioQ' = Append(ioQ, upc[u])
        /\ accepted' = accepted
        /\ upc \in [Users -> Calls \cup {"idle"}]
    BY <2>1 DEF CallFromGoesOn, dataVars, TypeOK
  <2>3. upc[u] \in F
    BY <2>2, CallsAssumption DEF EarlyInv, F, Strong, Raw
  <2>4. Cardinality(SendsIn(ioQ'))
          = sQ + (IF upc[u] = "send" THEN 1 ELSE 0)
    BY <2>2, <2>3, <1>1, SendsAppend
  <2>5. SendsCalled' = SendsCalled \ {u}
    BY <2>2 DEF SendsCalled
  <2>6. u \in SendsCalled <=> upc[u] = "send"
    BY DEF SendsCalled
  <2>7. /\ IsFiniteSet(SendsCalled') /\ Cardinality(SendsCalled') \in Nat
        /\ Cardinality(SendsCalled')
             = sC - (IF upc[u] = "send" THEN 1 ELSE 0)
    BY <2>5, <2>6, <1>1, FS_RemoveElement, FS_CardinalityType
  <2>8. Cardinality(SendsIn(ioQ')) + Cardinality(SendsCalled') = sQ + sC
    BY <2>4, <2>7, <1>1
  <2>9. sQ + sC \in Nat
    BY <1>1
  <2>10. Fits(accepted', sQ + sC, numCalls')
    BY <2>2, <2>9, <1>1, <1>2, <1>c
  <2> QED BY <2>7, <2>8, <2>10 DEF CountInv
<1>7. ASSUME upc' = upc, Cardinality(SendsIn(ioQ')) \in Nat,
             \/ /\ accepted' = accepted
                /\ Cardinality(SendsIn(ioQ')) <= sQ
             \/ /\ accepted' <= accepted + MsgLen
                /\ Cardinality(SendsIn(ioQ')) + 1 <= sQ
             \/ /\ accepted' <= accepted + MsgLen
                /\ Cardinality(SendsIn(ioQ')) <= sQ
                /\ numCalls + 1 <= numCalls'
      PROVE  CountInv'
  <2>1. SendsCalled' = SendsCalled
    BY <1>7 DEF SendsCalled
  <2> DEFINE s == sQ + sC
             s2 == Cardinality(SendsIn(ioQ')) + sC
  <2>2. /\ s \in Nat /\ s2 \in Nat
        /\ \/ accepted' <= accepted /\ s2 <= s /\ numCalls <= numCalls'
           \/ /\ accepted' <= accepted + MsgLen /\ s2 + 1 <= s
              /\ numCalls <= numCalls'
           \/ /\ accepted' <= accepted + MsgLen /\ s2 <= s
              /\ numCalls + 1 <= numCalls'
    BY <1>7, <1>1, <1>2
  <2>3. Fits(accepted', s2, numCalls')
    BY <2>2, <1>2, <1>c
  <2> QED BY <2>1, <2>3, <1>1 DEF CountInv
<1>8. CASE RunSend
  <2>1. ioQ # <<>> /\ Head(ioQ) = "send" /\ upc' = upc
    BY <1>8 DEF RunSend, Runs, userVars
  <2>2. ioQ' = Tail(ioQ) \/ ioQ' = Append(Tail(ioQ), "callback")
    BY <1>8 DEF RunSend, SendInLoop
  <2>3. /\ Cardinality(SendsIn(ioQ')) \in Nat
        /\ Cardinality(SendsIn(ioQ')) + 1 <= sQ
    <3> DEFINE Less(q) == /\ Cardinality(SendsIn(q)) \in Nat
                          /\ Cardinality(SendsIn(q)) + 1 <= sQ
    <3>1. Less(Tail(ioQ)) /\ Less(Append(Tail(ioQ), "callback"))
      BY <2>1, <1>1, <1>4, <1>b
    <3> QED BY <3>1, <2>2, Zenon
  <2>4. accepted' <= accepted + MsgLen
    BY OutputStep, <1>1
  <2> QED BY <2>1, <2>3, <2>4, <1>7
<1>9. CASE SendHere
  <2>1. upc' = upc /\ numCalls + 1 <= numCalls'
    BY <1>9, <1>1 DEF SendHere, MayCall
  <2>2. ioQ' = ioQ \/ ioQ' = Append(ioQ, "callback")
    BY <1>9 DEF SendHere, SendInLoop
  <2>3. /\ Cardinality(SendsIn(ioQ')) \in Nat
        /\ Cardinality(SendsIn(ioQ')) <= sQ
    <3>1. NoMore(ioQ) /\ NoMore(Append(ioQ, "callback"))
      BY <1>1, <1>a
    <3> QED BY <3>1, <2>2, Zenon
  <2>4. accepted' <= accepted + MsgLen
    BY OutputStep, <1>1
  <2> QED BY <2>1, <2>3, <2>4, <1>7
<1>10. CASE /\ ~RunSend /\ ~SendHere
            /\ ~ \E u \in Users : \E op \in Calls : CallFrom(u, op)
            /\ ~ \E u \in Users : CallFromGoesOn(u)
  <2>1. upc' = upc /\ accepted' = accepted
    BY <1>10, UserStep, OutputStep
  <2>2. NewConnection => ioQ' = ioQ \/ ioQ' = Append(ioQ, "established")
    BY DEF NewConnection
  <2>3. /\ Cardinality(SendsIn(ioQ')) \in Nat
        /\ Cardinality(SendsIn(ioQ')) <= sQ
    <3>1. /\ NoMore(ioQ) /\ NoMore(Append(ioQ, "callback"))
          /\ NoMore(Append(ioQ, "destroy"))
          /\ NoMore(Append(ioQ, "forceClose"))
          /\ NoMore(Append(ioQ, "established"))
      BY <1>1, <1>a
    <3>2. ioQ # <<>> => /\ NoMore(Tail(ioQ))
                        /\ NoMore(Append(Tail(ioQ), "callback"))
                        /\ NoMore(Append(Tail(ioQ), "destroy"))
      BY <1>1, <1>4, <1>b
    <3> QED BY <3>1, <3>2, <2>2, <1>10, QueueStep, Zenon
  <2> QED BY <2>1, <2>3, <1>7
<1> QED BY <1>5, <1>6, <1>8, <1>9, <1>10

-----------------------------------------------------------------------------
(* A connection that has work to do is past newConnection().                *)
LEMMA Known ==
  ASSUME EarlyInv,
         \/ ioQ # <<>> \/ userRef \/ timer \/ calls # <<>> \/ baseQ # <<>>
         \/ epolled \/ \E u \in Users : upc[u] # "idle"
  PROVE  state_ # "none"
  BY DEF EarlyInv

(* Every step keeps the channel's interest in writability to what waits.    *)
LEMMA WritesStep ==
  ASSUME TypeOK, OutputInv, CountInv, EarlyInv, WritesWhilePending, Next
  PROVE  WritesWhilePending'
<1>1. CASE RunSend
  <2>1. /\ SendInLoop(Tail(ioQ)) /\ closedFrom' = closedFrom
        /\ destroyed' = destroyed
    BY <1>1 DEF RunSend, ghostVars
  <2> QED BY <2>1, <1>1, SendFits, SendEffect
<1>2. CASE SendHere
  <2>1. SendInLoop(ioQ) /\ closedFrom' = closedFrom /\ destroyed' = destroyed
    BY <1>2 DEF SendHere, ghostVars
  <2> QED BY <2>1, <1>2, SendFits, SendEffect
<1>3. CASE HandleWrite
  BY <1>3, WriteEffect
<1>4. CASE NewConnection
  <2>1. events_ = {} /\ outputBuffer_ = <<>>
    BY <1>4 DEF NewConnection, EarlyInv
  <2>2. events_' \in {{}, {"IN"}} /\ outputBuffer_' = outputBuffer_
    BY <1>4, <2>1 DEF NewConnection, Updated, chanVars, dataVars
  <2> QED BY <2>1, <2>2 DEF WritesWhilePending
<1>5. CASE ConnectEstablished \/ RunStartRead \/ StartReadHere
  <2>1. /\ events_' = events_ \/ events_' = events_ \cup {"IN"}
        /\ UNCHANGED <<dataVars, ghostVars>>
    BY <1>5
    DEF ConnectEstablished, RunStartRead, StartReadHere, StartReadInLoop,
        Updated, chanVars
  <2>2. "OUT" \in events_' <=> "OUT" \in events_
    BY <2>1
  <2> QED BY <2>1, <2>2 DEF WritesWhilePending, dataVars, ghostVars
<1>6. CASE ForceCloseInLoop \/ HandleReadEof \/ HandleCloseCallback
  <2>1. /\ state_ # "none"
        /\ \/ closedFrom' = state_
           \/ UNCHANGED <<chanVars, dataVars, closedFrom, destroyed>>
    BY <1>6, Known
    DEF ForceCloseInLoop, HandleReadEof, HandleCloseCallback, Runs, Calls_,
        HandleClose
  <2> QED BY <2>1 DEF WritesWhilePending, chanVars, dataVars
<1>7. CASE ConnectDestroyed
  <2>1. destroyed \in Nat /\ destroyed' = AtMost(destroyed + 1, 2)
    BY <1>7 DEF ConnectDestroyed, TypeOK
  <2>2. destroyed' # 0
    BY <2>1 DEF AtMost
  <2> QED BY <2>2 DEF WritesWhilePending
<1>8. CASE UNCHANGED <<chanVars, dataVars, ghostVars>>
  BY <1>8 DEF WritesWhilePending, chanVars, dataVars, ghostVars
<1>9. CASE \/ RemoveConnectionInLoop \/ RunShutdown \/ RunCallback
           \/ HandleEvent \/ HandleReadMessage \/ HandleReadError
           \/ HandleError \/ HandleWriteFails \/ ShutdownHere
           \/ ForceCloseHere \/ ForceCloseWithDelay
  BY <1>8, <1>9
  DEF RemoveConnectionInLoop, RunShutdown, RunCallback, HandleEvent,
      HandleReadMessage, HandleReadError, HandleError, HandleWriteFails,
      ShutdownHere, ForceCloseHere, ForceCloseWithDelay
<1>10. CASE \/ TimerFires \/ DropRef
            \/ \E u \in Users : \/ \E op \in Calls : CallFrom(u, op)
                                \/ CallFromGoesOn(u)
            \/ Arrive \/ PeerCloses \/ PeerResets
  BY <1>8, <1>10
  DEF TimerFires, DropRef, CallFrom, CallFromGoesOn, Arrive, PeerCloses,
      PeerResets
<1> QED
  BY <1>1, <1>2, <1>3, <1>4, <1>5, <1>6, <1>7, <1>9, <1>10
  DEF Next, Functor, Handler, UserHere

(* Before connectEstablished() a step establishes the connection or is the  *)
(* network's.                                                               *)
LEMMA EarlySteps ==
  ASSUME EarlyInv, Next, state_ \in {"none", "kConnecting"}
  PROVE  \/ NewConnection /\ state_ = "none"
         \/ ConnectEstablished /\ state_ = "kConnecting"
         \/ UNCHANGED <<state_, ioQ, inMap, userRef, timer, calls, baseQ,
                        chanVars, dataVars, ghostVars, upc, plain>>
<1>1. /\ ~userRef /\ ~timer /\ calls = <<>> /\ baseQ = <<>> /\ ~epolled
      /\ \A u \in Users : upc[u] = "idle"
      /\ ioQ # <<>> => state_ = "kConnecting" /\ Head(ioQ) = "established"
  BY DEF EarlyInv
<1>2. CASE NewConnection \/ RemoveConnectionInLoop
  BY <1>1, <1>2 DEF NewConnection, RemoveConnectionInLoop
<1>3. CASE Functor
  BY <1>1, <1>3
  DEF Functor, ConnectEstablished, RunSend, RunShutdown, RunStartRead,
      RunCallback, ForceCloseInLoop, ConnectDestroyed, Runs
<1>4. CASE Handler
  BY <1>1, <1>4
  DEF Handler, HandleEvent, HandleReadMessage, HandleReadEof,
      HandleReadError, HandleCloseCallback, HandleError, HandleWrite,
      HandleWriteFails, Calls_
<1>5. CASE TimerFires \/ UserHere \/ DropRef
  BY <1>1, <1>5
  DEF TimerFires, UserHere, SendHere, ShutdownHere, ForceCloseHere,
      ForceCloseWithDelay, StartReadHere, MayCall, DropRef
<1>6. CASE \E u \in Users : \/ \E op \in Calls : CallFrom(u, op)
                            \/ CallFromGoesOn(u)
  BY <1>1, <1>6 DEF CallFrom, CallFromGoesOn, MayCall
<1>7. CASE Arrive \/ PeerCloses \/ PeerResets
  BY <1>7 DEF Arrive, PeerCloses, PeerResets, userVars
<1> QED BY <1>2, <1>3, <1>4, <1>5, <1>6, <1>7 DEF Next

(* No step brings a connection back to where it was before.                 *)
LEMMA LateStates ==
  ASSUME TypeOK, Next, state_ \notin {"none", "kConnecting"}
  PROVE  state_' \notin {"none", "kConnecting"} /\ ~NewConnection
<1>1. CASE RemoveConnectionInLoop \/ Functor
  BY <1>1
  DEF RemoveConnectionInLoop, Functor, ConnectEstablished, RunSend,
      RunShutdown, RunStartRead, RunCallback, ForceCloseInLoop,
      ConnectDestroyed, HandleClose, NewConnection
<1>2. CASE Handler
  BY <1>2
  DEF Handler, HandleEvent, HandleReadMessage, HandleReadEof,
      HandleReadError, HandleCloseCallback, HandleError, HandleWrite,
      HandleWriteFails, HandleClose, NewConnection
<1>3. CASE TimerFires \/ UserHere \/ DropRef
  BY <1>3
  DEF TimerFires, UserHere, SendHere, ShutdownHere, ForceCloseHere,
      ForceCloseWithDelay, StartReadHere, DropRef, NewConnection
<1>4. CASE \/ \E u \in Users : \/ \E op \in Calls : CallFrom(u, op)
                               \/ CallFromGoesOn(u)
           \/ Arrive \/ PeerCloses \/ PeerResets
  BY <1>4
  DEF CallFrom, CallFromGoesOn, Arrive, PeerCloses, PeerResets, NewConnection
<1> QED BY <1>1, <1>2, <1>3, <1>4 DEF Next, NewConnection

(* Every step preserves EarlyInv.                                           *)
LEMMA EarlyStep ==
  ASSUME TypeOK, EarlyInv, Next
  PROVE  EarlyInv'
<1>1. \A u \in Users : upc'[u] # "forceCloseWithDelay"
  <2>1. CASE upc' = upc
    BY <2>1 DEF EarlyInv
  <2>2. CASE \E u \in Users : \E op \in Calls : CallFrom(u, op)
    BY <2>2 DEF EarlyInv, CallFrom, TypeOK
  <2>3. CASE \E u \in Users : CallFromGoesOn(u)
    BY <2>3 DEF EarlyInv, CallFromGoesOn, TypeOK
  <2> QED BY <2>1, <2>2, <2>3, UserStep
<1>2. CASE state_ \in {"none", "kConnecting"}
  <2>1. CASE NewConnection /\ state_ = "none"
    <3>1. CASE oneLoop
      <4>1. state_' = "kConnected" /\ ioQ' = <<>>
        BY <2>1, <3>1 DEF NewConnection, EarlyInv
      <4> QED BY <4>1, <1>1 DEF EarlyInv
    <3>2. CASE ~oneLoop
      <4>1. /\ state_' = "kConnecting" /\ inMap' = TRUE
            /\ ioQ' = Append(<<>>, "established")
            /\ UNCHANGED <<chanVars, userRef, dataVars, baseQ, calls, timer,
                           upc, ghostVars>>
        BY <2>1, <3>2 DEF NewConnection, EarlyInv
      <4>2. ioQ' = <<"established">>
        BY <4>1
      <4> QED
        BY <4>1, <4>2, <1>1, <2>1
        DEF EarlyInv, chanVars, dataVars, ghostVars
    <3> QED BY <3>1, <3>2
  <2>2. CASE ConnectEstablished /\ state_ = "kConnecting"
    <3>1. state_' = "kConnected" /\ ioQ' = Tail(<<"established">>)
      BY <2>2 DEF ConnectEstablished, EarlyInv
    <3>2. ioQ' = <<>>
      BY <3>1
    <3> QED BY <3>1, <3>2, <1>1 DEF EarlyInv
  <2>3. CASE UNCHANGED <<state_, ioQ, inMap, userRef, timer, calls, baseQ,
                         chanVars, dataVars, ghostVars, upc, plain>>
    BY <2>3, <1>2 DEF EarlyInv, chanVars, dataVars, ghostVars
  <2> QED BY <1>2, <2>1, <2>2, <2>3, EarlySteps
<1>3. CASE state_ \notin {"none", "kConnecting"}
  <2> DEFINE L == (Strong \cup Raw) \ {"established"}
  <2>1. state_' \notin {"none", "kConnecting"} /\ ~NewConnection
    BY <1>3, LateStates
  <2>2. /\ ioQ \in Seq(L) /\ "callback" \in L /\ "destroy" \in L
        /\ "forceClose" \in L
        /\ \A u \in Users : upc[u] # "idle" => upc[u] \in L
    BY <1>3, CallsAssumption DEF EarlyInv, Strong, Raw, TypeOK
  <2>3. ioQ' \in Seq(L)
    <3>1. \A q \in Seq(L), x \in L : Append(q, x) \in Seq(L)
      BY AppendOf
    <3>2. ioQ # <<>> => Tail(ioQ) \in Seq(L)
      BY <2>2, TailOf
    <3>3. (\E u \in Users : CallFromGoesOn(u)) =>
            \E x \in L : ioQ' = Append(ioQ, x)
      BY <2>2 DEF CallFromGoesOn
    <3> HIDE DEF L
    <3> QED BY <2>1, <2>2, <3>1, <3>2, <3>3, QueueStep, Zenon
  <2> QED BY <2>1, <2>3, <1>1 DEF EarlyInv
<1> QED BY <1>2, <1>3

-----------------------------------------------------------------------------
(* A sequence is one of any set that its elements are in.                   *)
LEMMA Retype ==
  ASSUME NEW S, NEW T, NEW s \in Seq(S), \A i \in 1 .. Len(s) : s[i] \in T
  PROVE  s \in Seq(T)
  OBVIOUS

(* What becomes of the one "destroy" in a queue.                            *)
LEMMA DestroyQueued ==
  ASSUME NEW q \in Seq(PlainFunctors)
  PROVE  OneDestroy(Append(q, "destroy"))
<1> DEFINE k == Len(q) + 1
<1>1. /\ Len(Append(q, "destroy")) = k /\ Len(q) \in Nat
      /\ Append(q, "destroy")[k] = "destroy"
      /\ \A i \in 1 .. Len(q) : Append(q, "destroy")[i] = q[i]
  <2>1. q \in Seq(PlainFunctors \cup {"destroy"})
    OBVIOUS
  <2> QED BY <2>1, AppendOf
<1>2. \A i \in 1 .. k : i # k => Append(q, "destroy")[i] \in PlainFunctors
  BY <1>1
<1>3. k \in 1 .. Len(Append(q, "destroy"))
  BY <1>1
<1> QED BY <1>1, <1>2, <1>3 DEF OneDestroy

(* ... when another functor comes, ...                                      *)
LEMMA DestroyStays ==
  ASSUME NEW S, NEW q \in Seq(S), NEW x \in S, x \in PlainFunctors,
         OneDestroy(q)
  PROVE  OneDestroy(Append(q, x))
<1>1. PICK k \in 1 .. Len(q) :
        /\ q[k] = "destroy"
        /\ \A i \in 1 .. Len(q) : i # k => q[i] \in PlainFunctors
  BY DEF OneDestroy
<1>2. /\ Len(Append(q, x)) = Len(q) + 1 /\ Len(q) \in Nat
      /\ \A i \in 1 .. Len(q) : Append(q, x)[i] = q[i]
      /\ Append(q, x)[Len(q) + 1] = x
  BY AppendOf
<1>3. k \in 1 .. Len(q) + 1 /\ Append(q, x)[k] = "destroy"
  BY <1>1, <1>2
<1>4. \A i \in 1 .. Len(q) + 1 : i # k => Append(q, x)[i] \in PlainFunctors
  BY <1>1, <1>2
<1> QED BY <1>2, <1>3, <1>4 DEF OneDestroy

(* ... and when the first functor goes.                                     *)
LEMMA DestroyRuns ==
  ASSUME NEW S, NEW q \in Seq(S), q # <<>>, OneDestroy(q)
  PROVE  /\ Head(q) = "destroy" => Tail(q) \in Seq(PlainFunctors)
         /\ Head(q) # "destroy" =>
              Head(q) \in PlainFunctors /\ OneDestroy(Tail(q))
<1>1. PICK k \in 1 .. Len(q) :
        /\ q[k] = "destroy"
        /\ \A i \in 1 .. Len(q) : i # k => q[i] \in PlainFunctors
  BY DEF OneDestroy
<1>2. /\ Len(q) \in Nat \ {0} /\ Len(Tail(q)) = Len(q) - 1
      /\ Head(q) = q[1] /\ 1 \in 1 .. Len(q) /\ Tail(q) \in Seq(S)
      /\ \A i \in 1 .. Len(Tail(q)) :
           i + 1 \in 1 .. Len(q) /\ Tail(q)[i] = q[i + 1]
  BY TailOf
<1>3. "destroy" \notin PlainFunctors
  BY DEF PlainFunctors
<1>4. ASSUME Head(q) = "destroy" PROVE Tail(q) \in Seq(PlainFunctors)
  <2>1. k = 1
    BY <1>1, <1>2, <1>3, <1>4
  <2>2. \A i \in 1 .. Len(Tail(q)) : Tail(q)[i] \in PlainFunctors
    BY <2>1, <1>1, <1>2
  <2> QED BY <2>2, <1>2, Retype
<1>5. ASSUME Head(q) # "destroy"
      PROVE  Head(q) \in PlainFunctors /\ OneDestroy(Tail(q))
  <2>1. k # 1 /\ Head(q) \in PlainFunctors
    BY <1>1, <1>2, <1>5
  <2>2. k - 1 \in 1 .. Len(Tail(q)) /\ (k - 1) + 1 = k
    BY <2>1, <1>2
  <2>3. Tail(q)[k - 1] = "destroy"
    BY <2>2, <1>1, <1>2
  <2>4. \A i \in 1 .. Len(Tail(q)) : i # k - 1 => Tail(q)[i] \in PlainFunctors
    <3> SUFFICES ASSUME NEW i \in 1 .. Len(Tail(q)), i # k - 1
                 PROVE  Tail(q)[i] \in PlainFunctors
      OBVIOUS
    <3>1. i + 1 \in 1 .. Len(q) /\ i + 1 # k /\ Tail(q)[i] = q[i + 1]
      BY <1>2
    <3> QED BY <3>1, <1>1
  <2> QED BY <2>1, <2>2, <2>3, <2>4 DEF OneDestroy
<1> QED BY <1>4, <1>5

(* What PlainInv says of every connection, and which steps it rules out.    *)
LEMMA PlainSteps ==
  ASSUME TypeOK, PlainInv, Next, plain'
  PROVE  /\ plain
         /\ ~timer'
         /\ \A u \in Users : upc'[u] \in {"idle", "send", "shutdown"}
         /\ ~TimerFires /\ ~ForceCloseHere /\ ~ForceCloseWithDelay
         /\ ~StartReadHere
<1>1. plain
  <2>1. CASE \/ NewConnection \/ RemoveConnectionInLoop \/ Functor
             \/ TimerFires \/ DropRef
    BY <2>1
    DEF NewConnection, RemoveConnectionInLoop, Functor, ConnectEstablished,
        RunSend, RunShutdown, RunStartRead, RunCallback, ForceCloseInLoop,
        ConnectDestroyed, TimerFires, DropRef, userVars
  <2>2. CASE Handler \/ Arrive \/ PeerCloses \/ PeerResets
    BY <2>2
    DEF Handler, HandleEvent, HandleReadMessage, HandleReadEof,
        HandleReadError, HandleCloseCallback, HandleError, HandleWrite,
        HandleWriteFails, Arrive, PeerCloses, PeerResets, userVars
  <2>3. CASE UserHere
    BY <2>3
    DEF UserHere, SendHere, ShutdownHere, ForceCloseHere,
        ForceCloseWithDelay, StartReadHere, MayCall
  <2>4. CASE \E u \in Users : \/ \E op \in Calls : CallFrom(u, op)
                              \/ CallFromGoesOn(u)
    BY <2>4 DEF CallFrom, CallFromGoesOn, MayCall
  <2> QED BY <2>1, <2>2, <2>3, <2>4 DEF Next
<1>2. /\ ~timer
      /\ \A u \in Users : upc[u] \in {"idle", "send", "shutdown"}
  BY <1>1 DEF PlainInv
<1>3. ~TimerFires
  BY <1>2 DEF TimerFires
<1>4. ~ForceCloseHere /\ ~ForceCloseWithDelay /\ ~StartReadHere
  BY DEF ForceCloseHere, ForceCloseWithDelay, StartReadHere, MayCall
<1>5. ~timer'
  <2>1. CASE \/ NewConnection \/ RemoveConnectionInLoop \/ Functor \/ DropRef
    BY <1>2, <2>1
    DEF NewConnection, RemoveConnectionInLoop, Functor, ConnectEstablished,
        RunSend, RunShutdown, RunStartRead, RunCallback, ForceCloseInLoop,
        ConnectDestroyed, DropRef
  <2>2. CASE Handler \/ Arrive \/ PeerCloses \/ PeerResets
    BY <1>2, <2>2
    DEF Handler, HandleEvent, HandleReadMessage, HandleReadEof,
        HandleReadError, HandleCloseCallback, HandleError, HandleWrite,
        HandleWriteFails, Arrive, PeerCloses, PeerResets
  <2>3. CASE SendHere \/ ShutdownHere
    BY <1>2, <2>3 DEF SendHere, ShutdownHere
  <2>4. CASE \E u \in Users : \/ \E op \in Calls : CallFrom(u, op)
                              \/ CallFromGoesOn(u)
    BY <1>2, <2>4 DEF CallFrom, CallFromGoesOn
  <2> QED BY <2>1, <2>2, <2>3, <2>4, <1>3, <1>4 DEF Next, UserHere
<1>6. \A u \in Users : upc'[u] \in {"idle", "send", "shutdown"}
  <2>1. CASE upc' = upc
    BY <2>1, <1>2
  <2>2. CASE \E u \in Users : \E op \in Calls : CallFrom(u, op)
    BY <2>2, <1>2 DEF CallFrom, MayCall, TypeOK
  <2>3. CASE \E u \in Users : CallFromGoesOn(u)
    BY <2>3, <1>2 DEF CallFromGoesOn, TypeOK
  <2> QED BY <2>1, <2>2, <2>3, UserStep
<1> QED BY <1>1, <1>3, <1>4, <1>5, <1>6

(* The functors that plain calls put in the queue keep it plain.            *)
LEMMA PlainQueue ==
  ASSUME NEW q \in Seq(PlainFunctors)
  PROVE  /\ \A x \in PlainFunctors : Append(q, x) \in Seq(PlainFunctors)
         /\ q # <<>> => /\ Tail(q) \in Seq(PlainFunctors)
                        /\ Head(q) \in PlainFunctors
                        /\ Append(Tail(q), "callback") \in Seq(PlainFunctors)
<1>1. \A s \in Seq(PlainFunctors), x \in PlainFunctors :
        Append(s, x) \in Seq(PlainFunctors)
  BY AppendOf
<1>2. q # <<>> => Tail(q) \in Seq(PlainFunctors) /\ Head(q) \in PlainFunctors
  BY TailOf
<1>3. "callback" \in PlainFunctors
  BY DEF PlainFunctors
<1> QED BY <1>1, <1>2, <1>3, Zenon

(* An open connection stays open until handleRead() finds its end.          *)
LEMMA OpenStep ==
  ASSUME TypeOK, OutputInv, CountInv, WritesWhilePending, PlainInv, OpenInv,
         Next, plain'
  PROVE  OpenInv' \/ ClosedInv'
<1>1. /\ state_ \in {"kConnected", "kDisconnected"} /\ closedFrom = "none"
      /\ inMap /\ epolled /\ added /\ "IN" \in events_
      /\ calls \in PlainCallbacks /\ baseQ = <<>>
      /\ ioQ \in Seq(PlainFunctors) /\ destroyed = 0
  BY DEF OpenInv
<1>2. /\ \A x \in PlainFunctors : Append(ioQ, x) \in Seq(PlainFunctors)
      /\ ioQ # <<>> => /\ Tail(ioQ) \in Seq(PlainFunctors)
                       /\ Head(ioQ) \in PlainFunctors
                       /\ Append(Tail(ioQ), "callback") \in Seq(PlainFunctors)
      /\ Append(ioQ, "callback") \in Seq(PlainFunctors)
  <2>1. "callback" \in PlainFunctors
    BY DEF PlainFunctors
  <2> QED BY <1>1, <2>1, PlainQueue
<1>3. calls # <<>> => /\ Head(calls) \in {"error", "read", "write"}
                      /\ Tail(calls) \in PlainCallbacks
                      /\ Head(calls) = "read" =>
                           Tail(calls) \in {<<>>, <<"write">>}
  BY <1>1, PlainTail
<1>4. \A u \in Users : upc[u] \in {"idle", "send", "shutdown"}
  BY PlainSteps DEF PlainInv
<1>5. CASE HandleEvent
  <2>1. PICK re \in SUBSET Conditions :
          Reports(re) /\ calls' = CallbacksFor(re)
    BY <1>5 DEF HandleEvent
  <2>2. "HUP" \in re => "IN" \in re
    BY <2>1, <1>1 DEF Reports
  <2>3. calls' \in PlainCallbacks
    BY <2>1, <2>2, CallbacksOf
  <2> QED BY <2>3, <1>1, <1>5 DEF HandleEvent, OpenInv, chanVars, ghostVars
<1>6. CASE HandleReadEof
  <2>1. /\ calls' \in {<<>>, <<"write">>} /\ closedFrom' = state_
        /\ state_' = "kDisconnected" /\ events_' = {} /\ epolled' = FALSE
        /\ destroyed' = 0
    BY <1>1, <1>3, <1>6
    DEF HandleReadEof, Calls_, HandleClose, DisableAll, Updated
  <2>2. CASE oneLoop
    <3>1. ioQ' = Append(ioQ, "destroy") /\ baseQ' = <<>>
      BY <1>1, <1>6, <2>2 DEF HandleReadEof, HandleClose
    <3>2. OneDestroy(ioQ')
      BY <3>1, <1>1, DestroyQueued
    <3> QED BY <2>1, <3>1, <3>2, <1>1 DEF ClosedInv
  <2>3. CASE ~oneLoop
    <3>1. ioQ' = ioQ /\ baseQ' = Append(<<>>, "remove")
      BY <1>1, <1>6, <2>3 DEF HandleReadEof, HandleClose
    <3>2. baseQ' = <<"remove">>
      BY <3>1
    <3> QED BY <2>1, <3>1, <3>2, <1>1 DEF ClosedInv
  <2> QED BY <2>2, <2>3
<1>7. CASE HandleReadMessage \/ HandleReadError \/ HandleError
           \/ HandleWriteFails
  BY <1>1, <1>3, <1>7
  DEF HandleReadMessage, HandleReadError, HandleError, HandleWriteFails,
      Calls_, OpenInv, chanVars, ghostVars
<1>8. CASE HandleWrite
  <2>1. /\ UNCHANGED <<state_, baseQ, inMap, closedFrom, destroyed>>
        /\ calls' \in PlainCallbacks
    BY <1>3, <1>8 DEF HandleWrite, Calls_, ghostVars
  <2>2. /\ ioQ' = ioQ \/ ioQ' = Append(ioQ, "callback")
        /\ UNCHANGED chanVars \/ Updated(events_ \ {"OUT"})
    BY <1>8, WriteEffect
  <2>3. ioQ' \in Seq(PlainFunctors)
    BY <2>2, <1>1, <1>2
  <2>4. epolled' = TRUE /\ added' = TRUE /\ "IN" \in events_'
    BY <2>2, <1>1, Flags DEF chanVars, Updated
  <2> QED BY <2>1, <2>3, <2>4, <1>1 DEF OpenInv
<1>9. CASE RunSend \/ SendHere
  <2>1. UNCHANGED <<state_, baseQ, inMap, calls, closedFrom, destroyed>>
    BY <1>9 DEF RunSend, SendHere, ghostVars
  <2>2. PICK q : /\ SendInLoop(q)
                 /\ q = ioQ \/ (ioQ # <<>> /\ q = Tail(ioQ))
    BY <1>9 DEF RunSend, SendHere, Runs
  <2>3. /\ ioQ' = q \/ ioQ' = Append(q, "callback")
        /\ UNCHANGED chanVars \/ Updated(events_ \cup {"OUT"})
    BY <1>9, <2>1, <2>2, SendFits, SendEffect
  <2>4. ioQ' \in Seq(PlainFunctors)
    BY <2>2, <2>3, <1>1, <1>2
  <2>5. epolled' = TRUE /\ added' = TRUE /\ "IN" \in events_'
    BY <2>3, <1>1, Flags DEF chanVars, Updated
  <2> QED BY <2>1, <2>4, <2>5, <1>1 DEF OpenInv
<1>10. CASE RunShutdown \/ RunCallback
  <2>1. /\ UNCHANGED <<state_, chanVars, baseQ, inMap, calls, ghostVars>>
        /\ ioQ # <<>> /\ ioQ' = Tail(ioQ)
    BY <1>10 DEF RunShutdown, RunCallback, Runs
  <2>2. ioQ' \in Seq(PlainFunctors)
    BY <2>1, <1>2
  <2> QED BY <2>1, <2>2, <1>1 DEF OpenInv, chanVars, ghostVars
<1>11. CASE \/ ShutdownHere \/ DropRef
            \/ \E u \in Users : \E op \in Calls : CallFrom(u, op)
            \/ Arrive \/ PeerCloses \/ PeerResets
  <2>1. /\ UNCHANGED <<chanVars, baseQ, inMap, calls, ghostVars, ioQ>>
        /\ state_' = state_ \/ state_' = "kDisconnected"
    BY <1>11
    DEF ShutdownHere, DropRef, CallFrom, Arrive, PeerCloses, PeerResets
  <2> QED BY <2>1, <1>1 DEF OpenInv, chanVars, ghostVars
<1>12. CASE \E u \in Users : CallFromGoesOn(u)
  <2>1. PICK u \in Users : CallFromGoesOn(u)
    BY <1>12
  <2>2. /\ upc[u] \in PlainFunctors
        /\ state_' = state_ \/ state_' = "kDisconnected"
        /\ ioQ' = Append(ioQ, upc[u])
        /\ UNCHANGED <<chanVars, baseQ, inMap, calls, ghostVars>>
    BY <2>1, <1>4 DEF CallFromGoesOn, PlainFunctors
  <2>3. ioQ' \in Seq(PlainFunctors)
    BY <2>2, <1>2
  <2> QED BY <2>2, <2>3, <1>1 DEF OpenInv, chanVars, ghostVars
<1>13. /\ ~NewConnection /\ ~RemoveConnectionInLoop /\ ~HandleCloseCallback
       /\ ~ConnectEstablished /\ ~RunStartRead /\ ~ForceCloseInLoop
       /\ ~ConnectDestroyed
  BY <1>1, <1>2, <1>3
  DEF NewConnection, RemoveConnectionInLoop, HandleCloseCallback, Calls_,
      ConnectEstablished, RunStartRead, ForceCloseInLoop, ConnectDestroyed,
      Runs, PlainFunctors
<1> QED
  BY <1>5, <1>6, <1>7, <1>8, <1>9, <1>10, <1>11, <1>12, <1>13, PlainSteps
  DEF Next, Functor, Handler, UserHere

(* A closed connection is removed, destroyed and then left alone.           *)
LEMMA ClosedStep ==
  ASSUME TypeOK, PlainInv, ClosedInv, Next, plain'
  PROVE  ClosedInv'
<1> DEFINE Phase(b, q, d, ad) ==
             \/ b = <<"remove">> /\ q \in Seq(PlainFunctors) /\ d = 0
             \/ b = <<>> /\ OneDestroy(q) /\ d = 0
             \/ b = <<>> /\ q \in Seq(PlainFunctors) /\ d = 1 /\ ~ad
<1>1. /\ state_ = "kDisconnected" /\ closedFrom # "none" /\ events_ = {}
      /\ ~epolled /\ calls \in {<<>>, <<"write">>}
      /\ Phase(baseQ, ioQ, destroyed, added)
      /\ ioQ \in Seq(Strong \cup Raw)
  BY DEF ClosedInv, TypeOK
<1>2. calls # <<>> => Head(calls) = "write" /\ Tail(calls) = <<>>
  <2>1. Head(<<"write">>) = "write" /\ Tail(<<"write">>) = <<>>
    OBVIOUS
  <2>2. calls = <<>> \/ calls = <<"write">>
    BY <1>1
  <2> QED BY <2>1, <2>2, Zenon
<1>3. \A u \in Users : upc[u] \in {"idle", "send", "shutdown"}
  BY PlainSteps DEF PlainInv
<1>4. ASSUME ioQ # <<>>
      PROVE  /\ Head(ioQ) \in PlainFunctors \cup {"destroy"}
             /\ Head(ioQ) # "destroy" =>
                  Phase(baseQ, Tail(ioQ), destroyed, added)
             /\ Head(ioQ) = "destroy" =>
                  /\ Tail(ioQ) \in Seq(PlainFunctors)
                  /\ baseQ = <<>> /\ destroyed = 0
  <2>1. CASE ioQ \in Seq(PlainFunctors)
    <3>1. Tail(ioQ) \in Seq(PlainFunctors) /\ Head(ioQ) \in PlainFunctors
      BY <1>4, <2>1, PlainQueue
    <3>2. ~OneDestroy(ioQ)
      BY <2>1 DEF OneDestroy, PlainFunctors
    <3>3. Head(ioQ) # "destroy"
      BY <3>1 DEF PlainFunctors
    <3> QED BY <3>1, <3>2, <3>3, <1>1
  <2>2. CASE OneDestroy(ioQ) /\ baseQ = <<>> /\ destroyed = 0
    BY <1>1, <1>4, <2>2, DestroyRuns
  <2> QED BY <2>1, <2>2, <1>1
<1>5. ASSUME NEW x \in PlainFunctors
      PROVE  Phase(baseQ, Append(ioQ, x), destroyed, added)
  <2>1. CASE ioQ \in Seq(PlainFunctors)
    <3>1. Append(ioQ, x) \in Seq(PlainFunctors)
      BY <2>1, PlainQueue
    <3>2. ~OneDestroy(ioQ)
      BY <2>1 DEF OneDestroy, PlainFunctors
    <3> QED BY <3>1, <3>2, <1>1
  <2>2. CASE OneDestroy(ioQ) /\ baseQ = <<>> /\ destroyed = 0
    <3>1. x \in Strong \cup Raw
      BY DEF PlainFunctors, Strong, Raw
    <3>2. OneDestroy(Append(ioQ, x))
      BY <1>1, <2>2, <3>1, DestroyStays
    <3> QED BY <2>2, <3>2
  <2> QED BY <2>1, <2>2, <1>1
<1> HIDE DEF Phase
<1>6. ASSUME state_' = "kDisconnected", closedFrom' = closedFrom,
             events_' = {}, ~epolled', calls' \in {<<>>, <<"write">>},
             Phase(baseQ', ioQ', destroyed', added')
      PROVE  ClosedInv'
  BY <1>1, <1>6 DEF ClosedInv, Phase
<1>7. CASE RemoveConnectionInLoop
  <2>1. /\ UNCHANGED <<state_, chanVars, calls, ghostVars>>
        /\ baseQ # <<>> /\ baseQ' = Tail(baseQ)
        /\ ioQ' = Append(ioQ, "destroy")
    BY <1>7 DEF RemoveConnectionInLoop
  <2>2. baseQ = <<"remove">> /\ ioQ \in Seq(PlainFunctors) /\ destroyed = 0
    BY <2>1, <1>1 DEF Phase
  <2>3. baseQ' = <<>> /\ OneDestroy(ioQ')
    BY <2>1, <2>2, DestroyQueued
  <2>4. Phase(baseQ', ioQ', destroyed', added')
    BY <2>1, <2>2, <2>3 DEF Phase, ghostVars
  <2> QED BY <2>1, <2>4, <1>1, <1>6 DEF chanVars, ghostVars
<1>8. CASE RunSend \/ RunShutdown \/ RunCallback
  <2>1. /\ UNCHANGED <<state_, chanVars, baseQ, calls, ghostVars>>
        /\ ioQ # <<>> /\ Head(ioQ) # "destroy" /\ ioQ' = Tail(ioQ)
    BY <1>1, <1>8 DEF RunSend, SendInLoop, RunShutdown, RunCallback, Runs
  <2>2. Phase(baseQ, Tail(ioQ), destroyed, added)
    BY <2>1, <1>4
  <2>3. Phase(baseQ', ioQ', destroyed', added')
    BY <2>1, <2>2 DEF chanVars, ghostVars
  <2> QED BY <2>1, <2>3, <1>1, <1>6 DEF chanVars, ghostVars
<1>9. CASE ConnectDestroyed
  <2>1. /\ UNCHANGED <<baseQ, calls, closedFrom>>
        /\ state_' = state_ /\ events_' = events_
        /\ added' = FALSE /\ epolled' = FALSE
        /\ ioQ # <<>> /\ Head(ioQ) = "destroy" /\ ioQ' = Tail(ioQ)
        /\ destroyed' = AtMost(destroyed + 1, 2)
    BY <1>1, <1>9 DEF ConnectDestroyed, Runs, Remove
  <2>2. /\ Tail(ioQ) \in Seq(PlainFunctors) /\ baseQ = <<>>
        /\ destroyed = 0
    BY <2>1, <1>4
  <2>3. destroyed' = 1
    BY <2>1, <2>2 DEF AtMost
  <2>4. Phase(baseQ', ioQ', destroyed', added')
    BY <2>1, <2>2, <2>3 DEF Phase
  <2> QED BY <2>1, <2>4, <1>1, <1>6
<1>10. CASE \E u \in Users : CallFromGoesOn(u)
  <2>1. PICK u \in Users : CallFromGoesOn(u)
    BY <1>10
  <2>2. /\ upc[u] \in PlainFunctors
        /\ state_' = "kDisconnected"
        /\ ioQ' = Append(ioQ, upc[u])
        /\ UNCHANGED <<chanVars, baseQ, calls, ghostVars>>
    BY <2>1, <1>1, <1>3 DEF CallFromGoesOn, PlainFunctors
  <2>3. Phase(baseQ, Append(ioQ, upc[u]), destroyed, added)
    BY <2>2, <1>5
  <2>4. Phase(baseQ', ioQ', destroyed', added')
    BY <2>2, <2>3 DEF chanVars, ghostVars
  <2> QED BY <2>2, <2>4, <1>1, <1>6 DEF chanVars, ghostVars
<1>11. CASE \/ HandleWriteFails \/ DropRef \/ Arrive \/ PeerCloses
            \/ PeerResets
  <2>1. /\ UNCHANGED <<state_, chanVars, baseQ, ghostVars, ioQ>>
        /\ calls' \in {<<>>, <<"write">>}
    BY <1>1, <1>2, <1>11
    DEF HandleWriteFails, Calls_, DropRef, Arrive, PeerCloses, PeerResets
  <2>2. Phase(baseQ', ioQ', destroyed', added')
    BY <2>1, <1>1 DEF chanVars, ghostVars
  <2> QED BY <2>1, <2>2, <1>1, <1>6 DEF chanVars, ghostVars
<1>12. /\ ~NewConnection /\ ~SendHere /\ ~ShutdownHere /\ ~HandleEvent
       /\ ~HandleReadMessage /\ ~HandleReadEof /\ ~HandleReadError
       /\ ~HandleCloseCallback /\ ~HandleError /\ ~HandleWrite
  BY <1>1, <1>2
  DEF NewConnection, SendHere, ShutdownHere, HandleEvent, HandleReadMessage,
      HandleReadEof, HandleReadError, HandleCloseCallback, HandleError,
      HandleWrite, Calls_
<1>13. ~ConnectEstablished /\ ~RunStartRead /\ ~ForceCloseInLoop
  BY <1>4
  DEF ConnectEstablished, RunStartRead, ForceCloseInLoop, Runs,
      PlainFunctors
<1>14. ~ \E u \in Users : \E op \in Calls : CallFrom(u, op)
  BY <1>1 DEF CallFrom, MayCall, Tests
<1> QED
  BY <1>7, <1>8, <1>9, <1>10, <1>11, <1>12, <1>13, <1>14, PlainSteps
  DEF Next, Functor, Handler, UserHere

(* Every step preserves PlainInv.                                           *)
LEMMA PlainStep ==
  ASSUME TypeOK, OutputInv, CountInv, EarlyInv, WritesWhilePending, PlainInv,
         Next
  PROVE  PlainInv'
<1>1. SUFFICES ASSUME plain'
               PROVE  state_' \in {"none", "kConnecting"} \/ OpenInv'
                        \/ ClosedInv'
  BY PlainSteps DEF PlainInv
<1>2. CASE state_ \in {"none", "kConnecting"}
  <2>1. /\ calls = <<>> /\ baseQ = <<>> /\ events_ = {} /\ ~epolled
        /\ closedFrom = "none" /\ destroyed = 0
        /\ state_ = "none" => ioQ = <<>>
        /\ state_ = "kConnecting" => ioQ = <<"established">> /\ inMap
    BY <1>2 DEF EarlyInv
  <2>2. CASE NewConnection /\ state_ = "none" /\ oneLoop
    <3>1. /\ state_' = "kConnected" /\ inMap' = TRUE /\ Updated({"IN"})
          /\ UNCHANGED <<ioQ, baseQ, calls, ghostVars>>
      BY <2>2 DEF NewConnection
    <3>2. epolled' = TRUE /\ added' = TRUE /\ "IN" \in events_'
      BY <3>1, <2>1 DEF Updated
    <3>3. ioQ' \in Seq(PlainFunctors) /\ calls' \in PlainCallbacks
      BY <3>1, <2>1, <2>2 DEF PlainCallbacks
    <3> QED BY <3>1, <3>2, <3>3, <2>1 DEF OpenInv, ghostVars
  <2>3. CASE NewConnection /\ ~oneLoop
    BY <2>3 DEF NewConnection
  <2>4. CASE ConnectEstablished /\ state_ = "kConnecting"
    <3>1. /\ state_' = "kConnected" /\ Updated(events_ \cup {"IN"})
          /\ ioQ' = Tail(<<"established">>)
          /\ UNCHANGED <<inMap, baseQ, calls, ghostVars>>
      BY <2>1, <2>4 DEF ConnectEstablished
    <3>2. epolled' = TRUE /\ added' = TRUE /\ "IN" \in events_'
      BY <3>1, <2>1 DEF Updated
    <3>3. ioQ' = <<>>
      BY <3>1
    <3>4. ioQ' \in Seq(PlainFunctors) /\ calls' \in PlainCallbacks
      BY <3>1, <3>3, <2>1 DEF PlainCallbacks
    <3> QED BY <3>1, <3>2, <3>4, <2>1, <2>4 DEF OpenInv, ghostVars
  <2> QED BY <1>2, <2>2, <2>3, <2>4, EarlySteps
<1>3. CASE state_ \notin {"none", "kConnecting"}
  <2>1. OpenInv \/ ClosedInv
    BY <1>1, <1>3, PlainSteps DEF PlainInv
  <2> QED BY <1>1, <2>1, OpenStep, ClosedStep
<1> QED BY <1>2, <1>3

-----------------------------------------------------------------------------
(* The initial states satisfy the invariant.                                *)
LEMMA InitInv ==
  ASSUME Init
  PROVE  IInv
<1>1. 0 \in 0 .. MaxBytes /\ MaxBytes \in Nat /\ 0 \in 0 .. MaxCalls
  BY SizesAssumption, Product DEF MaxBytes
<1>2. SendsIn(ioQ) = {} /\ SendsCalled = {}
  BY DEF Init, SendsIn, SendsCalled
<1>3. CountInv
  <2>1. Cardinality(SendsIn(ioQ)) + Cardinality(SendsCalled) = 0
    BY <1>2, FS_EmptySet
  <2>2. Fits(0, 0, 0)
    BY SizesAssumption DEF Fits
  <2> QED BY <2>1, <2>2, <1>2, FS_EmptySet DEF CountInv, Init
<1>4. TypeOK
  <2>1. /\ oneLoop \in BOOLEAN /\ reading_ \in BOOLEAN /\ added \in BOOLEAN
        /\ epolled \in BOOLEAN /\ inbox \in BOOLEAN /\ wrShut \in BOOLEAN
        /\ inMap \in BOOLEAN /\ timer \in BOOLEAN /\ userRef \in BOOLEAN
        /\ plain \in BOOLEAN
    BY DEF Init
  <2>2. /\ wire \in Seq(1 .. MaxBytes) /\ outputBuffer_ \in Seq(1 .. MaxBytes)
        /\ Len(wire) = 0 /\ Len(outputBuffer_) = 0
    BY DEF Init
  <2>3. /\ ioQ \in Seq(Strong \cup Raw) /\ baseQ \in Seq({"remove"})
        /\ calls \in Seq(Callbacks)
    BY DEF Init
  <2>4. /\ upc \in [Users -> Calls \cup {"idle"}] /\ numCalls \in 0 .. MaxCalls
        /\ events_ \in SUBSET Interests /\ accepted \in 0 .. MaxBytes
        /\ state_ \in States \cup {"none"}
        /\ closedFrom \in States \cup {"none"} /\ destroyed \in 0 .. 2
        /\ peer \in {"open", "closed", "reset", "dead"}
    BY <1>1 DEF Init
  <2>5. Len(wire) + Len(outputBuffer_) <= MaxBytes
    BY <2>2, <1>1
  <2> QED BY <2>1, <2>2, <2>3, <2>4, <2>5 DEF TypeOK
<1>5. OutputInv
  BY DEF Init, OutputInv, InOrder
<1>6. EarlyInv /\ WritesWhilePending /\ PlainInv
  BY DEF Init, EarlyInv, WritesWhilePending, PlainInv
<1> QED BY <1>3, <1>4, <1>5, <1>6 DEF IInv

(* Every step preserves the invariant.                                      *)
LEMMA InvStep ==
  ASSUME IInv, [Next]_vars
  PROVE  IInv'
<1>1. CASE Next
  <2>1. /\ TypeOK /\ OutputInv /\ CountInv /\ EarlyInv /\ WritesWhilePending
        /\ PlainInv
    BY DEF IInv
  <2>2. CountInv'
    BY <1>1, <2>1, CountStep
  <2>3. TypeOK'
    BY <1>1, <2>1, <2>2, TypeStep
  <2>4. OutputInv'
    BY <1>1, <2>1, OutputStep
  <2>5. EarlyInv' /\ WritesWhilePending' /\ PlainInv'
    BY <1>1, <2>1, EarlyStep, WritesStep, PlainStep
  <2> QED BY <2>2, <2>3, <2>4, <2>5 DEF IInv
<1>2. CASE UNCHANGED vars
  <2> USE <1>2 DEF vars, chanVars, dataVars, kernelVars, userVars, ghostVars
  <2>1. TypeOK' /\ OutputInv'
    BY DEF IInv, TypeOK, OutputInv
  <2>2. CountInv' /\ EarlyInv' /\ WritesWhilePending'
    BY DEF IInv, CountInv, SendsCalled, EarlyInv, WritesWhilePending
  <2>3. PlainInv'
    BY DEF IInv, PlainInv, OpenInv, ClosedInv
  <2> QED BY <2>1, <2>2, <2>3 DEF IInv
<1> QED BY <1>1, <1>2

(* The output of a connection reaches the socket in the order of its        *)
(* sendInLoop() calls, whole and without repetition (TcpConnection.cc 120   *)
(* to 174 and 329 to 346), for any message size and any number of threads.  *)
THEOREM OutputInOrder == Spec => []WireInOrder
<1>1. IInv => WireInOrder
  <2>1. SUFFICES ASSUME IInv PROVE WireInOrder
    OBVIOUS
  <2> DEFINE B == 1 .. MaxBytes
             all == [i \in 1 .. accepted |-> i]
  <2>2. /\ TypeOK /\ wire \in Seq(B) /\ outputBuffer_ \in Seq(B)
        /\ accepted \in Nat /\ accepted <= MaxBytes /\ MaxBytes \in Nat
    BY <2>1, SizesAssumption, Product DEF IInv, TypeOK, MaxBytes
  <2>3. InOrder(wire, outputBuffer_, accepted)
    BY <2>1 DEF IInv, OutputInv
  <2>4. InOrder(wire \o SubSeq(outputBuffer_, 1, Len(outputBuffer_)),
                From(outputBuffer_, Len(outputBuffer_)), accepted)
    BY <2>2, <2>3, BufferMoves
  <2>5. SubSeq(outputBuffer_, 1, Len(outputBuffer_)) = outputBuffer_
    BY <2>2
  <2>6. Len(From(outputBuffer_, Len(outputBuffer_))) = 0
    BY <2>2, Cut
  <2>7. /\ wire \o outputBuffer_ \in Seq(B)
        /\ Len(wire \o outputBuffer_) \in Nat
    BY <2>2, Concat
  <2>8. /\ Len(wire \o outputBuffer_) = accepted
        /\ \A i \in 1 .. accepted : (wire \o outputBuffer_)[i] = i
    BY <2>4, <2>5, <2>6, <2>7 DEF InOrder
  <2>9. all \in Seq(B) /\ Len(all) = accepted
        /\ \A i \in 1 .. accepted : all[i] = i
    BY <2>2
  <2>10. wire \o outputBuffer_ = all
    <3>1. PICK s \in Seq(B) : s = wire \o outputBuffer_
      BY <2>7
    <3>2. Len(s) = accepted /\ \A i \in 1 .. accepted : s[i] = i
      BY <3>1, <2>8
    <3>3. s = all
      BY <3>2, <2>2
    <3> QED BY <3>1, <3>3
  <2> QED BY <2>2, <2>10 DEF WireInOrder
<1> QED BY <1>1, InitInv, InvStep, PTL DEF Spec

(* While a connection is open its channel asks for writability exactly when *)
(* output waits (lines 165 to 173 and 336 to 338): nothing is stuck in      *)
(* outputBuffer_ and no empty one keeps the loop awake.                     *)
THEOREM PendingIsPolled == Spec => []WritesWhilePending
<1>1. IInv => WritesWhilePending
  BY DEF IInv
<1> QED BY <1>1, InitInv, InvStep, PTL DEF Spec

(* connectDestroyed() runs at most once (TcpConnection.h line 106) when     *)
(* user code sends and shuts down only, on any number of threads.           *)
THEOREM DestroyedAtMostOnce == Spec => []DestroyedOnce
<1>1. IInv => DestroyedOnce
  BY DEF IInv, EarlyInv, PlainInv, OpenInv, ClosedInv, DestroyedOnce
<1> QED BY <1>1, InitInv, InvStep, PTL DEF Spec

(* The destructors of such a connection find it disconnected and its        *)
(* channel out of the loop (TcpConnection.cc line 60, Channel.cc line 32).  *)
THEOREM DestructorAsserts == Spec => []DestructedClean
<1>1. IInv => DestructedClean
  <2>1. SUFFICES ASSUME IInv, plain, state_ # "none", ~Referenced
                 PROVE  state_ = "kDisconnected" /\ ~added /\ ~epolled
    BY DEF DestructedClean
  <2>2. ~inMap /\ baseQ = <<>> /\ ~InQueue(ioQ, Strong)
    BY <2>1 DEF Referenced
  <2>3. state_ # "kConnecting" /\ ~OpenInv
    BY <2>1, <2>2 DEF IInv, EarlyInv, OpenInv
  <2>4. ClosedInv
    BY <2>1, <2>3 DEF IInv, PlainInv
  <2>5. ~OneDestroy(ioQ)
    BY <2>2 DEF OneDestroy, InQueue, Strong
  <2> QED BY <2>2, <2>4, <2>5 DEF ClosedInv
<1> QED BY <1>1, InitInv, InvStep, PTL DEF Spec

=============================================================================
