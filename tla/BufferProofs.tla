---------------------------- MODULE BufferProofs ----------------------------
(***************************************************************************)
(* Buffer implements ByteQueue, for every alphabet, every kCheapPrepend,   *)
(* initial size and size of extrabuf, and inputs of any length.            *)
(***************************************************************************)
EXTENDS Buffer, SequenceTheorems, TLAPS

(* A vector whose indexes are in order and which has the room that          *)
(* retrieveAll() takes for granted.                                         *)
Sound(s) ==
  /\ s.n \in Nat
  /\ s.n >= kCheapPrepend
  /\ s.b \in [0 .. s.n - 1 -> Bytes]
  /\ s.w \in 0 .. s.n
  /\ s.r \in 0 .. s.w

ContentOf(s) == Readable(s.b, s.r, s.w)

(* The content is a sequence of the bytes between the indexes.              *)
LEMMA ContentSeq ==
  ASSUME NEW s, Sound(s)
  PROVE  /\ ContentOf(s) \in Seq(Bytes)
         /\ Len(ContentOf(s)) = s.w - s.r
         /\ \A i \in 1 .. s.w - s.r : ContentOf(s)[i] = s.b[s.r + i - 1]
<1>1. s.w - s.r \in Nat
  BY DEF Sound
<1>2. \A i \in 1 .. s.w - s.r : s.b[s.r + i - 1] \in Bytes
  <2> TAKE i \in 1 .. s.w - s.r
  <2>1. s.r + i - 1 \in 0 .. s.n - 1
    BY DEF Sound
  <2> QED
    BY <2>1 DEF Sound
<1>3. ContentOf(s) \in Seq(Bytes)
  BY <1>1, <1>2, IsASeq DEF ContentOf, Readable
<1>4. DOMAIN ContentOf(s) = 1 .. s.w - s.r
  BY DEF ContentOf, Readable
<1>5. Len(ContentOf(s)) = s.w - s.r
  BY <1>1, <1>3, <1>4, LenProperties
<1> QED
  BY <1>3, <1>5 DEF ContentOf, Readable

(* Two sound vectors with the same bytes between their indexes.             *)
LEMMA SameContent ==
  ASSUME NEW s, NEW t, Sound(s), Sound(t), s.w - s.r = t.w - t.r,
         \A i \in 1 .. s.w - s.r : s.b[s.r + i - 1] = t.b[t.r + i - 1]
  PROVE  ContentOf(s) = ContentOf(t)
BY DEF ContentOf, Readable

(* ensureWritableBytes() makes the room it was asked for and keeps the      *)
(* content, whether it moves it or grows the vector (the assertion of       *)
(* Buffer.h line 186).                                                      *)
LEMMA EnsureKeeps ==
  ASSUME NEW s, Sound(s), NEW len \in Nat
  PROVE  LET t == EnsureWritable(s, len)
         IN Sound(t) /\ t.n - t.w >= len /\ ContentOf(t) = ContentOf(s)
<1> DEFINE t == EnsureWritable(s, len)
<1> USE SizesAssumption, ZeroAssumption
<1>1. CASE s.n - s.w >= len
  <2>1. t = s
    BY <1>1 DEF EnsureWritable, Sound
  <2> QED
    BY <1>1, <2>1
<1>2. CASE s.n - s.w < len /\ (s.n - s.w) + s.r < len + kCheapPrepend
  <2>1. t = Grow(s, s.w + len)
    BY <1>2 DEF EnsureWritable, MakeSpace
  <2>2. t.n = s.w + len /\ t.r = s.r /\ t.w = s.w
    BY <2>1 DEF Grow, Vec
  <2>3. t.b = [i \in 0 .. (s.w + len) - 1 |-> IF i < s.n THEN s.b[i] ELSE Zero]
    BY <2>1 DEF Grow, Vec
  <2> HIDE DEF t
  <2>4. Sound(t)
    <3>1. \A i \in 0 .. s.n - 1 : s.b[i] \in Bytes
      BY DEF Sound
    <3>2. t.b \in [0 .. (s.w + len) - 1 -> Bytes]
      BY <2>3, <3>1 DEF Sound
    <3>3. /\ s.w + len \in Nat /\ s.w \in 0 .. s.w + len
          /\ s.w + len >= kCheapPrepend
      BY <1>2 DEF Sound
    <3> QED
      BY <2>2, <3>2, <3>3 DEF Sound
  <2>5. \A i \in 1 .. s.w - s.r : s.b[s.r + i - 1] = t.b[t.r + i - 1]
    <3> TAKE i \in 1 .. s.w - s.r
    <3>1. s.r + i - 1 \in 0 .. (s.w + len) - 1 /\ s.r + i - 1 < s.n
      BY DEF Sound
    <3> QED
      BY <2>2, <2>3, <3>1
  <2>6. ContentOf(t) = ContentOf(s)
    BY <2>2, <2>4, <2>5, SameContent
  <2>7. t.n - t.w >= len
    BY <2>2 DEF Sound
  <2> QED
    BY <2>4, <2>6, <2>7 DEF t
<1>3. CASE s.n - s.w < len /\ ~((s.n - s.w) + s.r < len + kCheapPrepend)
  <2>1. t = Move(s)
    BY <1>3 DEF EnsureWritable, MakeSpace
  <2>2. t.n = s.n /\ t.r = kCheapPrepend /\ t.w = kCheapPrepend + (s.w - s.r)
    BY <2>1 DEF Move, Vec
  <2>3. t.b = [i \in 0 .. s.n - 1 |->
                 IF i >= kCheapPrepend /\ i < kCheapPrepend + (s.w - s.r)
                 THEN s.b[i - kCheapPrepend + s.r] ELSE s.b[i]]
    BY <2>1 DEF Move, Vec
  <2> HIDE DEF t
  <2>4. kCheapPrepend < s.r
    BY <1>3 DEF Sound
  <2>5. Sound(t)
    <3>1. ASSUME NEW i \in 0 .. s.n - 1, i >= kCheapPrepend,
                 i < kCheapPrepend + (s.w - s.r)
          PROVE  s.b[i - kCheapPrepend + s.r] \in Bytes
      <4>1. i - kCheapPrepend + s.r \in 0 .. s.n - 1
        BY <3>1 DEF Sound
      <4> QED
        BY <4>1 DEF Sound
    <3>2. \A i \in 0 .. s.n - 1 : s.b[i] \in Bytes
      BY DEF Sound
    <3>3. t.b \in [0 .. s.n - 1 -> Bytes]
      BY <2>3, <3>1, <3>2
    <3> QED
      BY <2>2, <2>4, <3>3 DEF Sound
  <2>6. \A i \in 1 .. s.w - s.r : s.b[s.r + i - 1] = t.b[t.r + i - 1]
    <3> TAKE i \in 1 .. s.w - s.r
    <3>1. /\ t.r + i - 1 \in 0 .. s.n - 1
          /\ t.r + i - 1 >= kCheapPrepend
          /\ t.r + i - 1 < kCheapPrepend + (s.w - s.r)
          /\ (t.r + i - 1) - kCheapPrepend + s.r = s.r + i - 1
      BY <2>2, <2>4 DEF Sound
    <3> QED
      BY <2>3, <3>1
  <2>7. ContentOf(t) = ContentOf(s)
    <3>1. s.w - s.r = t.w - t.r
      BY <2>2 DEF Sound
    <3> QED
      BY <2>5, <2>6, <3>1, SameContent
  <2>8. t.n - t.w >= len
    BY <1>3, <2>2 DEF Sound
  <2> QED
    BY <2>5, <2>7, <2>8 DEF t
<1> QED
  BY <1>1, <1>2, <1>3 DEF Sound

(* Bytes copied to the writer index, where there is room, follow the        *)
(* content.                                                                 *)
LEMMA CopyAppends ==
  ASSUME NEW s, Sound(s), NEW data \in Seq(Bytes), s.n - s.w >= Len(data)
  PROVE  LET t == Vec(CopyTo(s.b, s.n, data, s.w), s.n, s.r, s.w + Len(data))
         IN Sound(t) /\ ContentOf(t) = ContentOf(s) \o data
<1> DEFINE t == Vec(CopyTo(s.b, s.n, data, s.w), s.n, s.r, s.w + Len(data))
<1>1. t.n = s.n /\ t.r = s.r /\ t.w = s.w + Len(data)
  BY DEF Vec
<1>2. t.b = [i \in 0 .. s.n - 1 |->
               IF i >= s.w /\ i < s.w + Len(data) THEN data[i - s.w + 1]
               ELSE s.b[i]]
  BY DEF Vec, CopyTo
<1> HIDE DEF t
<1>3. Sound(t)
  BY <1>1, <1>2 DEF Sound
<1>4. /\ ContentOf(s) \in Seq(Bytes) /\ Len(ContentOf(s)) = s.w - s.r
      /\ \A i \in 1 .. s.w - s.r : ContentOf(s)[i] = s.b[s.r + i - 1]
  BY ContentSeq
<1>5. /\ ContentOf(t) \in Seq(Bytes) /\ Len(ContentOf(t)) = t.w - t.r
      /\ \A i \in 1 .. t.w - t.r : ContentOf(t)[i] = t.b[t.r + i - 1]
  BY <1>3, ContentSeq
<1>6. /\ ContentOf(s) \o data \in Seq(Bytes)
      /\ Len(ContentOf(s) \o data) = (s.w - s.r) + Len(data)
      /\ \A i \in 1 .. (s.w - s.r) + Len(data) : (ContentOf(s) \o data)[i] =
           IF i <= s.w - s.r THEN ContentOf(s)[i] ELSE data[i - (s.w - s.r)]
  BY <1>4, ConcatProperties
<1>7. t.w - t.r = (s.w - s.r) + Len(data)
  BY <1>1 DEF Sound
<1>8. ASSUME NEW i \in 1 .. (s.w - s.r) + Len(data)
      PROVE  ContentOf(t)[i] = (ContentOf(s) \o data)[i]
  <2>1. ContentOf(t)[i] = t.b[s.r + i - 1]
    BY <1>1, <1>5, <1>7
  <2>2. CASE i <= s.w - s.r
    <3>1. t.b[s.r + i - 1] = s.b[s.r + i - 1]
      BY <1>2, <2>2 DEF Sound
    <3> QED
      BY <1>4, <1>6, <2>1, <2>2, <3>1 DEF Sound
  <2>3. CASE i > s.w - s.r
    <3>1. t.b[s.r + i - 1] = data[(s.r + i - 1) - s.w + 1]
      <4>1. s.r + i - 1 \in 0 .. s.n - 1
        BY DEF Sound
      <4>2. s.r + i - 1 >= s.w /\ s.r + i - 1 < s.w + Len(data)
        BY <2>3 DEF Sound
      <4> QED
        BY <1>2, <4>1, <4>2
    <3>2. (s.r + i - 1) - s.w + 1 = i - (s.w - s.r)
      BY DEF Sound
    <3> QED
      BY <1>6, <2>1, <2>3, <3>1, <3>2 DEF Sound
  <2>4. Len(data) \in Nat /\ s.w - s.r \in Nat
    BY LenProperties DEF Sound
  <2>5. i <= s.w - s.r \/ i > s.w - s.r
    BY <2>4
  <2> QED
    BY <2>2, <2>3, <2>5
<1>9. ContentOf(t) = ContentOf(s) \o data
  BY <1>5, <1>6, <1>7, <1>8, SeqEqual
<1> QED
  BY <1>3, <1>9 DEF t

(* append() puts its bytes behind the content and changes nothing else.     *)
LEMMA AppendedAppends ==
  ASSUME NEW s, Sound(s), NEW data \in Seq(Bytes)
  PROVE  /\ Sound(Appended(s, data))
         /\ ContentOf(Appended(s, data)) = ContentOf(s) \o data
<1> DEFINE t == EnsureWritable(s, Len(data))
<1>1. Sound(t) /\ t.n - t.w >= Len(data) /\ ContentOf(t) = ContentOf(s)
  BY EnsureKeeps, LenProperties
<1> HIDE DEF t
<1>2. LET u == Vec(CopyTo(t.b, t.n, data, t.w), t.n, t.r, t.w + Len(data))
      IN Sound(u) /\ ContentOf(u) = ContentOf(t) \o data
  BY <1>1, CopyAppends
<1> QED
  BY <1>1, <1>2 DEF Appended, t
-----------------------------------------------------------------------------
(* TypeOK is not inductive: retrieveAll() needs kCheapPrepend bytes.        *)
IInv == TypeOK /\ size >= kCheapPrepend

(* The variables as one vector.                                             *)
LEMMA NowSound == ASSUME IInv PROVE Sound(Now) /\ Content = ContentOf(Now)
BY DEF IInv, TypeOK, Sound, Now, Vec, Content, ContentOf

(* A call that ends in a sound vector keeps the types.                      *)
LEMMA BecomesSound ==
  ASSUME NEW s, Sound(s), Becomes(s)
  PROVE  IInv' /\ Content' = ContentOf(s)
BY DEF Becomes, Sound, IInv, TypeOK, Content, ContentOf, Readable

(* prepend() puts its bytes before the content and changes nothing else.    *)
LEMMA PrependStep ==
  ASSUME IInv, NEW data \in Seq(Bytes), Prepend(data)
  PROVE  IInv' /\ Content' = data \o Content
<1> DEFINE at == readerIndex_ - Len(data)
           s == Vec(CopyTo(buffer_, size, data, at), size, at, writerIndex_)
<1>1. Len(data) \in Nat /\ \A i \in 1 .. Len(data) : data[i] \in Bytes
  BY LenProperties, ElementOfSeq
<1>2. at \in 0 .. writerIndex_ /\ readerIndex_ = at + Len(data)
  BY <1>1 DEF Prepend, prependableBytes, IInv, TypeOK
<1>3. /\ s.n = size /\ s.r = at /\ s.w = writerIndex_
      /\ s.b = [i \in 0 .. size - 1 |->
                  IF i >= at /\ i < at + Len(data) THEN data[i - at + 1]
                  ELSE buffer_[i]]
  BY DEF Vec, CopyTo
<1>4. Becomes(s)
  BY DEF Prepend
<1> HIDE DEF s, at
<1>5. Sound(s)
  <2>1. ASSUME NEW i \in 0 .. size - 1, i >= at, i < at + Len(data)
        PROVE  data[i - at + 1] \in Bytes
    <3>1. i - at + 1 \in 1 .. Len(data)
      BY <1>1, <1>2, <2>1 DEF IInv, TypeOK
    <3> QED
      BY <1>1, <3>1
  <2>2. s.b \in [0 .. size - 1 -> Bytes]
    BY <1>3, <2>1 DEF IInv, TypeOK
  <2> QED
    BY <1>2, <1>3, <2>2 DEF Sound, IInv, TypeOK
<1>6. /\ ContentOf(s) \in Seq(Bytes) /\ Len(ContentOf(s)) = writerIndex_ - at
      /\ \A i \in 1 .. writerIndex_ - at : ContentOf(s)[i] = s.b[at + i - 1]
  BY <1>3, <1>5, ContentSeq
<1>7. /\ Content \in Seq(Bytes) /\ Len(Content) = writerIndex_ - readerIndex_
      /\ \A i \in 1 .. writerIndex_ - readerIndex_ :
           Content[i] = buffer_[readerIndex_ + i - 1]
  BY NowSound, ContentSeq DEF Now, Vec
<1>8. /\ data \o Content \in Seq(Bytes)
      /\ Len(data \o Content) = Len(data) + (writerIndex_ - readerIndex_)
      /\ \A i \in 1 .. Len(data) + (writerIndex_ - readerIndex_) :
           (data \o Content)[i] =
             IF i <= Len(data) THEN data[i] ELSE Content[i - Len(data)]
  <2>1. /\ data \o Content \in Seq(Bytes)
        /\ Len(data \o Content) = Len(data) + Len(Content)
        /\ \A i \in 1 .. Len(data) + Len(Content) : (data \o Content)[i] =
             IF i <= Len(data) THEN data[i] ELSE Content[i - Len(data)]
    BY <1>7, ConcatProperties
  <2> QED
    BY <1>7, <2>1
<1>9. writerIndex_ - at = Len(data) + (writerIndex_ - readerIndex_)
  BY <1>1, <1>2 DEF IInv, TypeOK
<1>10. ASSUME NEW i \in 1 .. writerIndex_ - at
       PROVE  ContentOf(s)[i] = (data \o Content)[i]
  <2>1. at + i - 1 \in 0 .. size - 1
    BY <1>2 DEF IInv, TypeOK
  <2>2. CASE i <= Len(data)
    <3>1. at + i - 1 >= at /\ at + i - 1 < at + Len(data)
          /\ (at + i - 1) - at + 1 = i
      BY <1>1, <1>2, <2>2
    <3>2. s.b[at + i - 1] = data[i]
      BY <1>3, <2>1, <3>1
    <3> QED
      BY <1>6, <1>8, <1>9, <2>2, <3>2
  <2>3. CASE i > Len(data)
    <3>1. ~(at + i - 1 < at + Len(data))
      BY <1>1, <1>2, <2>3
    <3>2. s.b[at + i - 1] = buffer_[at + i - 1]
      BY <1>3, <2>1, <3>1
    <3>3. /\ i - Len(data) \in 1 .. writerIndex_ - readerIndex_
          /\ readerIndex_ + (i - Len(data)) - 1 = at + i - 1
      BY <1>1, <1>2, <2>3 DEF IInv, TypeOK
    <3>4. ~(i <= Len(data))
      BY <1>1, <2>3
    <3> QED
      BY <1>6, <1>7, <1>8, <1>9, <3>2, <3>3, <3>4
  <2>4. i <= Len(data) \/ i > Len(data)
    BY <1>1
  <2> QED
    BY <2>2, <2>3, <2>4
<1>11. ContentOf(s) = data \o Content
  BY <1>6, <1>8, <1>9, <1>10, SeqEqual
<1> QED
  BY <1>4, <1>5, <1>11, BecomesSound

(* retrieve() takes the first bytes away.                                   *)
LEMMA RetrieveStep ==
  ASSUME IInv, NEW len \in Nat, Retrieve(len)
  PROVE  /\ IInv'
         /\ len \in 0 .. Len(Content)
         /\ Content' = SubSeq(Content, len + 1, Len(Content))
<1>1. /\ Content \in Seq(Bytes) /\ Len(Content) = readableBytes
      /\ \A i \in 1 .. readableBytes : Content[i] = buffer_[readerIndex_ + i - 1]
  BY NowSound, ContentSeq DEF Now, Vec, readableBytes
<1>2. readableBytes \in Nat /\ len <= readableBytes
  BY DEF IInv, TypeOK, readableBytes, Retrieve
<1>3. CASE len < readableBytes
  <2>1. readerIndex_' = readerIndex_ + len /\ writerIndex_' = writerIndex_
        /\ buffer_' = buffer_ /\ size' = size
    BY <1>3 DEF Retrieve
  <2>2. IInv'
    BY <1>3, <2>1 DEF IInv, TypeOK, readableBytes
  <2>3. /\ Content' \in Seq(Bytes) /\ Len(Content') = readableBytes - len
        /\ \A i \in 1 .. readableBytes - len :
             Content'[i] = buffer_[(readerIndex_ + len) + i - 1]
    <3> DEFINE s == Vec(buffer_, size, readerIndex_ + len, writerIndex_)
    <3>1. Sound(s) /\ Content' = ContentOf(s)
      BY <2>1, <2>2 DEF Sound, Vec, IInv, TypeOK, Content, ContentOf, Readable
    <3>2. s.w - s.r = readableBytes - len /\ s.b = buffer_
          /\ s.r = readerIndex_ + len
      BY DEF Vec, readableBytes, IInv, TypeOK
    <3> HIDE DEF s
    <3> QED
      BY <3>1, <3>2, ContentSeq
  <2>4. /\ SubSeq(Content, len + 1, readableBytes) \in Seq(Bytes)
        /\ Len(SubSeq(Content, len + 1, readableBytes)) = readableBytes - len
        /\ \A i \in 1 .. readableBytes - len :
             SubSeq(Content, len + 1, readableBytes)[i] = Content[len + 1 + i - 1]
    <3>1. \A i \in len + 1 .. readableBytes : Content[i] \in Bytes
      BY <1>1, <1>2, ElementOfSeq
    <3>2. readableBytes - (len + 1) + 1 = readableBytes - len
          /\ len + 1 <= readableBytes /\ len + 1 \in Int /\ readableBytes \in Int
      BY <1>2, <1>3
    <3> QED
      BY <3>1, <3>2, SubSeqProperties
  <2>5. ASSUME NEW i \in 1 .. readableBytes - len
        PROVE  Content'[i] = SubSeq(Content, len + 1, readableBytes)[i]
    <3>1. len + 1 + i - 1 \in 1 .. readableBytes
          /\ readerIndex_ + (len + 1 + i - 1) - 1 = (readerIndex_ + len) + i - 1
      BY <1>2 DEF IInv, TypeOK
    <3> QED
      BY <1>1, <2>3, <2>4, <3>1
  <2>6. Content' = SubSeq(Content, len + 1, readableBytes)
    BY <2>3, <2>4, <2>5, SeqEqual
  <2> QED
    BY <1>1, <1>2, <2>2, <2>6
<1>4. CASE len = readableBytes
  <2>1. readerIndex_' = kCheapPrepend /\ writerIndex_' = kCheapPrepend
        /\ buffer_' = buffer_ /\ size' = size
    BY <1>2, <1>4 DEF Retrieve
  <2>2. IInv'
    BY <2>1, SizesAssumption DEF IInv, TypeOK
  <2>3. Content' = <<>>
    BY <2>1, SizesAssumption DEF Content, Readable
  <2>4. SubSeq(Content, len + 1, readableBytes) = <<>>
    BY <1>2, <1>4, SubSeqEmpty
  <2> QED
    BY <1>1, <1>2, <1>4, <2>2, <2>3, <2>4
<1> QED
  BY <1>2, <1>3, <1>4

(* unwrite() takes the last bytes away.                                     *)
LEMMA UnwriteStep ==
  ASSUME IInv, NEW len \in Nat, Unwrite(len)
  PROVE  /\ IInv'
         /\ len \in 0 .. Len(Content)
         /\ Content' = SubSeq(Content, 1, Len(Content) - len)
<1> DEFINE s == Vec(buffer_, size, readerIndex_, writerIndex_ - len)
<1>1. /\ Content \in Seq(Bytes) /\ Len(Content) = readableBytes
      /\ \A i \in 1 .. readableBytes : Content[i] = buffer_[readerIndex_ + i - 1]
  BY NowSound, ContentSeq DEF Now, Vec, readableBytes
<1>2. readableBytes \in Nat /\ len <= readableBytes
  BY DEF IInv, TypeOK, readableBytes, Unwrite
<1>3. s.w - s.r = readableBytes - len /\ s.b = buffer_ /\ s.r = readerIndex_
  BY DEF Vec, readableBytes, IInv, TypeOK
<1>4. Sound(s)
  BY <1>2 DEF Sound, Vec, IInv, TypeOK, readableBytes
<1>5. Becomes(s)
  BY DEF Becomes, Vec, Unwrite
<1> HIDE DEF s
<1>6. /\ ContentOf(s) \in Seq(Bytes) /\ Len(ContentOf(s)) = readableBytes - len
      /\ \A i \in 1 .. readableBytes - len :
           ContentOf(s)[i] = buffer_[readerIndex_ + i - 1]
  BY <1>3, <1>4, ContentSeq
<1>7. /\ SubSeq(Content, 1, readableBytes - len) \in Seq(Bytes)
      /\ Len(SubSeq(Content, 1, readableBytes - len)) = readableBytes - len
      /\ \A i \in 1 .. readableBytes - len :
           SubSeq(Content, 1, readableBytes - len)[i] = Content[i]
  <2>1. \A i \in 1 .. readableBytes - len : Content[i] \in Bytes
    BY <1>1, <1>2, ElementOfSeq
  <2>2. /\ 1 \in Int /\ readableBytes - len \in Int
        /\ readableBytes - len = (readableBytes - len) - 1 + 1
        /\ readableBytes - len >= 0
    BY <1>2
  <2>3. /\ SubSeq(Content, 1, readableBytes - len) \in Seq(Bytes)
        /\ Len(SubSeq(Content, 1, readableBytes - len)) =
             IF 1 <= readableBytes - len THEN (readableBytes - len) - 1 + 1 ELSE 0
        /\ \A i \in 1 .. (readableBytes - len) - 1 + 1 :
             SubSeq(Content, 1, readableBytes - len)[i] = Content[1 + i - 1]
    BY <2>1, <2>2, SubSeqProperties
  <2> QED
    BY <2>2, <2>3
<1>8. ASSUME NEW i \in 1 .. readableBytes - len
      PROVE  ContentOf(s)[i] = SubSeq(Content, 1, readableBytes - len)[i]
  <2>1. i \in 1 .. readableBytes
    BY <1>2
  <2> QED
    BY <1>1, <1>6, <1>7, <2>1
<1>9. ContentOf(s) = SubSeq(Content, 1, readableBytes - len)
  BY <1>6, <1>7, <1>8, SeqEqual
<1> QED
  BY <1>1, <1>2, <1>4, <1>5, <1>9, BecomesSound

(* shrink() keeps the content.                                              *)
LEMMA ShrinkStep ==
  ASSUME IInv, NEW reserve \in Nat, Shrink(reserve)
  PROVE  IInv' /\ Content' = Content
<1> DEFINE t == EnsureWritable(Fresh, readableBytes + reserve)
<1>1. Content \in Seq(Bytes)
  BY NowSound, ContentSeq
<1>2. Sound(Fresh)
  BY SizesAssumption, ZeroAssumption DEF Sound, Fresh, Vec
<1>3. ContentOf(Fresh) = <<>>
  BY SizesAssumption DEF ContentOf, Readable, Fresh, Vec
<1>4. readableBytes + reserve \in Nat
  BY DEF IInv, TypeOK, readableBytes
<1>5. Sound(t) /\ ContentOf(t) = <<>>
  BY <1>2, <1>3, <1>4, EnsureKeeps
<1>6. Becomes(Appended(t, Content))
  BY DEF Shrink
<1> HIDE DEF t
<1>7. Sound(Appended(t, Content)) /\ ContentOf(Appended(t, Content)) = <<>> \o Content
  BY <1>1, <1>5, AppendedAppends
<1>8. <<>> \o Content = Content
  BY <1>1, ConcatEmptySeq
<1> QED
  BY <1>6, <1>7, <1>8, BecomesSound

(* readFd() appends what readv() delivered, also what went into extrabuf.   *)
LEMMA ReadFdStep ==
  ASSUME IInv, NEW data \in Seq(Bytes), ReadFd(data)
  PROVE  IInv' /\ Content' = Content \o data
<1> DEFINE here == IF Len(data) <= writableBytes THEN Len(data) ELSE writableBytes
           front == SubSeq(data, 1, here)
           back == SubSeq(data, here + 1, Len(data))
           s == Vec(CopyTo(buffer_, size, front, writerIndex_), size,
                    readerIndex_, writerIndex_ + here)
<1>1. Len(data) \in Nat /\ \A i \in 1 .. Len(data) : data[i] \in Bytes
  BY LenProperties, ElementOfSeq
<1>2. here \in 0 .. Len(data) /\ here <= writableBytes /\ writableBytes \in Nat
  BY <1>1 DEF IInv, TypeOK, writableBytes
<1>3. Becomes(IF here = Len(data) THEN s ELSE Appended(s, back))
  BY DEF ReadFd
<1> HIDE DEF here
<1>4. front \in Seq(Bytes) /\ Len(front) = here
  <2>1. /\ front \in Seq(Bytes)
        /\ Len(front) = IF 1 <= here THEN here - 1 + 1 ELSE 0
    BY <1>1, <1>2, SubSeqProperties
  <2> QED
    BY <1>2, <2>1
<1>5. back \in Seq(Bytes)
  BY <1>1, <1>2, SubSeqProperties
<1>6. front \o back = data
  <2>1. /\ 1 \in 1 .. Len(data) + 1 /\ here \in 1 - 1 .. Len(data)
        /\ Len(data) \in here .. Len(data)
    BY <1>1, <1>2
  <2>2. front \o back = SubSeq(data, 1, Len(data))
    BY <2>1, ConcatAdjacentSubSeq
  <2> QED
    BY <2>2, SubSeqFull
<1>7. Content \in Seq(Bytes)
  BY NowSound, ContentSeq
<1>8. Sound(s) /\ ContentOf(s) = Content \o front
  <2>1. /\ Now.b = buffer_ /\ Now.n = size /\ Now.r = readerIndex_
        /\ Now.w = writerIndex_
    BY DEF Now, Vec
  <2>2. Now.n - Now.w >= Len(front)
    BY <1>2, <1>4, <2>1 DEF writableBytes
  <2> HIDE DEF front
  <2> QED
    BY <1>4, <2>1, <2>2, NowSound, CopyAppends
<1> HIDE DEF front, back, s
<1>9. CASE here = Len(data)
  <2>1. front = data
    BY <1>9, SubSeqFull DEF front
  <2> QED
    BY <1>3, <1>8, <1>9, <2>1, BecomesSound
<1>10. CASE here # Len(data)
  <2>1. /\ Sound(Appended(s, back))
        /\ ContentOf(Appended(s, back)) = (Content \o front) \o back
    BY <1>5, <1>8, AppendedAppends
  <2>2. (Content \o front) \o back = Content \o (front \o back)
    BY <1>4, <1>5, <1>7, ConcatAssociative
  <2> QED
    BY <1>3, <1>6, <1>10, <2>1, <2>2, BecomesSound
<1> QED
  BY <1>9, <1>10

-----------------------------------------------------------------------------
(* Every call keeps IInv and is a step of ByteQueue, or leaves the content. *)
LEMMA BufferStep ==
  ASSUME IInv, [Next]_vars
  PROVE  IInv' /\ [BQ!Next]_(BQ!vars)
<1>1. Content \in Seq(Bytes)
  BY NowSound, ContentSeq
<1>2. ASSUME NEW data \in Inputs, AppendBytes(data) \/ ReadFd(data)
      PROVE  IInv' /\ BQ!AppendBytes(data)
  <2>1. data \in Seq(Bytes)
    BY InputsAssumption
  <2>2. CASE AppendBytes(data)
    <3>1. /\ Sound(Appended(Now, data))
          /\ ContentOf(Appended(Now, data)) = Content \o data
      BY <2>1, NowSound, AppendedAppends
    <3> QED
      BY <2>2, <3>1, BecomesSound DEF AppendBytes, BQ!AppendBytes
  <2>3. CASE ReadFd(data)
    BY <2>1, <2>3, ReadFdStep DEF BQ!AppendBytes
  <2> QED
    BY <1>2, <2>2, <2>3
<1>3. ASSUME NEW data \in Inputs, Prepend(data)
      PROVE  IInv' /\ BQ!PrependBytes(data)
  BY <1>3, InputsAssumption, PrependStep DEF BQ!PrependBytes
<1>4. ASSUME NEW len \in Lengths, EnsureWritableBytes(len) \/ Shrink(len)
      PROVE  IInv' /\ UNCHANGED BQ!vars
  <2>1. len \in Nat
    BY SizesAssumption DEF Lengths
  <2>2. CASE EnsureWritableBytes(len)
    <3>1. /\ Sound(EnsureWritable(Now, len))
          /\ ContentOf(EnsureWritable(Now, len)) = Content
      BY <2>1, NowSound, EnsureKeeps
    <3> QED
      BY <2>2, <3>1, BecomesSound DEF EnsureWritableBytes, BQ!vars
  <2>3. CASE Shrink(len)
    BY <2>1, <2>3, ShrinkStep DEF BQ!vars
  <2> QED
    BY <1>4, <2>2, <2>3
<1>5. ASSUME NEW len \in Lengths, Retrieve(len)
      PROVE  IInv' /\ len \in 0 .. Len(Content) /\ BQ!Retrieve(len)
  <2>1. len \in Nat
    BY SizesAssumption DEF Lengths
  <2> QED
    BY <1>5, <2>1, RetrieveStep DEF BQ!Retrieve
<1>6. ASSUME NEW len \in Lengths, Unwrite(len)
      PROVE  IInv' /\ len \in 0 .. Len(Content) /\ BQ!Unwrite(len)
  <2>1. len \in Nat
    BY SizesAssumption DEF Lengths
  <2> QED
    BY <1>6, <2>1, UnwriteStep DEF BQ!Unwrite
<1>7. CASE UNCHANGED vars
  BY <1>7 DEF vars, IInv, TypeOK, BQ!vars, Content, Readable
<1> QED
  BY <1>2, <1>3, <1>4, <1>5, <1>6, <1>7 DEF Next, BQ!Next

(* A new Buffer satisfies IInv and is empty.                                *)
LEMMA BufferInit == ASSUME Init PROVE IInv /\ BQ!Init
<1>1. size \in Nat /\ size >= kCheapPrepend
  BY SizesAssumption DEF Init
<1>2. buffer_ \in [0 .. size - 1 -> Bytes]
  BY ZeroAssumption DEF Init
<1>3. readerIndex_ \in 0 .. writerIndex_ /\ writerIndex_ \in 0 .. size
  BY <1>1, SizesAssumption DEF Init
<1>4. Content = <<>>
  BY SizesAssumption DEF Init, Content, Readable
<1> QED
  BY <1>1, <1>2, <1>3, <1>4 DEF IInv, TypeOK, BQ!Init

(* The indexes stay in order and inside the vector, whatever is called.     *)
THEOREM BufferTypeCorrect == Spec => []TypeOK
<1>1. IInv => TypeOK
  BY DEF IInv
<1> QED
  BY <1>1, BufferInit, BufferStep, PTL DEF Spec

(* Buffer is a queue of bytes for every size of its parts and its inputs.   *)
THEOREM BufferRefinement == Spec => ImplementsByteQueue
BY BufferInit, BufferStep, PTL DEF Spec, ImplementsByteQueue, BQ!Spec
=============================================================================
