------------------------------- MODULE Buffer -------------------------------
(***************************************************************************)
(* muduo/net/Buffer.h and Buffer.cc: one vector with a reader index and a  *)
(* writer index.  Free space is in front of the reader index and behind    *)
(* the writer index; when the back is too small the content is moved to    *)
(* the front or the vector grows.                                          *)
(*                                                                         *)
(* Callers respect the assertions on lengths (lines 106, 201 and 312).     *)
(* appendInt*, readInt*, retrieveInt* and the other overloads are append(),*)
(* retrieve() and prepend() of so many bytes.                              *)
(***************************************************************************)
EXTENDS Naturals, Sequences

CONSTANTS Bytes,
          Zero,            \* the byte resize() fills with
          Inputs,          \* the byte strings that are appended or arrive
          kCheapPrepend,
          kInitialSize,
          ExtraBufSize,    \* sizeof(extrabuf) in readFd()
          MaxContent       \* bound: bytes held

ASSUME ZeroAssumption == Zero \in Bytes
ASSUME InputsAssumption == \A data \in Inputs : data \in Seq(Bytes)
ASSUME SizesAssumption ==
  /\ kCheapPrepend \in Nat /\ kInitialSize \in Nat
  /\ ExtraBufSize \in Nat /\ MaxContent \in Nat

VARIABLES buffer_,        \* a function on 0 .. size - 1
          size,           \* buffer_.size()
          readerIndex_,
          writerIndex_

vars == <<buffer_, size, readerIndex_, writerIndex_>>

(* 0 <= readerIndex <= writerIndex <= size, as the picture in Buffer.h.     *)
TypeOK ==
  /\ size \in Nat
  /\ buffer_ \in [0 .. size - 1 -> Bytes]
  /\ readerIndex_ \in 0 .. writerIndex_
  /\ writerIndex_ \in 0 .. size

readableBytes == writerIndex_ - readerIndex_
writableBytes == size - writerIndex_
prependableBytes == readerIndex_

Init ==
  /\ size = kCheapPrepend + kInitialSize
  /\ buffer_ = [i \in 0 .. size - 1 |-> Zero]
  /\ readerIndex_ = kCheapPrepend
  /\ writerIndex_ = kCheapPrepend

-----------------------------------------------------------------------------
(* A vector with its size and indexes, for the steps within one call.       *)
Vec(b, n, r, w) == [b |-> b, n |-> n, r |-> r, w |-> w]

Now == Vec(buffer_, size, readerIndex_, writerIndex_)

Becomes(s) ==
  /\ buffer_' = s.b
  /\ size' = s.n
  /\ readerIndex_' = s.r
  /\ writerIndex_' = s.w

(* std::copy of a byte string into a vector; what falls outside is lost.    *)
CopyTo(b, n, data, at) ==
  [i \in 0 .. n - 1 |->
     IF i >= at /\ i < at + Len(data) THEN data[i - at + 1] ELSE b[i]]

(* resize(): the new elements are zero.                                     *)
Grow(s, n) ==
  Vec([i \in 0 .. n - 1 |-> IF i < s.n THEN s.b[i] ELSE Zero], n, s.r, s.w)

(* Mutation: the indexes move, the bytes do not.                            *)
MoveIndexes(s) == Vec(s.b, s.n, kCheapPrepend, kCheapPrepend + (s.w - s.r))

(* std::copy of the content to kCheapPrepend.                               *)
Move(s) ==
  Vec([i \in 0 .. s.n - 1 |->
         IF i >= kCheapPrepend /\ i < kCheapPrepend + (s.w - s.r)
         THEN s.b[i - kCheapPrepend + s.r] ELSE s.b[i]],
      s.n, kCheapPrepend, kCheapPrepend + (s.w - s.r))

(* Mutation: the room that prepending keeps is not counted.                 *)
MakeSpaceTight(s, len) ==
  IF (s.n - s.w) + s.r < len THEN Grow(s, s.w + len) ELSE Move(s)

MakeSpace(s, len) ==
  IF (s.n - s.w) + s.r < len + kCheapPrepend THEN Grow(s, s.w + len)
  ELSE Move(s)

EnsureWritable(s, len) == IF s.n - s.w < len THEN MakeSpace(s, len) ELSE s

(* append(): make room, copy, hasWritten().                                 *)
Appended(s, data) ==
  LET t == EnsureWritable(s, Len(data))
  IN Vec(CopyTo(t.b, t.n, data, t.w), t.n, t.r, t.w + Len(data))

Room(data) == readableBytes + Len(data) <= MaxContent

AppendBytes(data) ==
  /\ Room(data)
  /\ Becomes(Appended(Now, data))

EnsureWritableBytes(len) == Becomes(EnsureWritable(Now, len))

Prepend(data) ==
  /\ Len(data) <= prependableBytes
  /\ Room(data)
  /\ Becomes(Vec(CopyTo(buffer_, size, data, readerIndex_ - Len(data)),
                 size, readerIndex_ - Len(data), writerIndex_))

(* retrieve(), and retrieveAll() when that is everything.                   *)
Retrieve(len) ==
  /\ len <= readableBytes
  /\ readerIndex_' = IF len < readableBytes THEN readerIndex_ + len
                     ELSE kCheapPrepend
  /\ writerIndex_' = IF len < readableBytes THEN writerIndex_ ELSE kCheapPrepend
  /\ UNCHANGED <<buffer_, size>>

Unwrite(len) ==
  /\ len <= readableBytes
  /\ writerIndex_' = writerIndex_ - len
  /\ UNCHANGED <<buffer_, size, readerIndex_>>

(* What peek() .. beginWrite() holds.                                       *)
Readable(b, r, w) == [i \in 1 .. w - r |-> b[r + i - 1]]

Content == Readable(buffer_, readerIndex_, writerIndex_)

Fresh ==
  Vec([i \in 0 .. kCheapPrepend + kInitialSize - 1 |-> Zero],
      kCheapPrepend + kInitialSize, kCheapPrepend, kCheapPrepend)

(* shrink(): the content is put into another Buffer, which takes over.      *)
Shrink(reserve) ==
  Becomes(Appended(EnsureWritable(Fresh, readableBytes + reserve), Content))

(* readFd(): readv() fills the free space behind the content and then       *)
(* extrabuf, from which the rest is appended.                               *)
ReadFd(data) ==
  /\ Room(data)
  /\ Len(data) <= writableBytes
                  + (IF writableBytes < ExtraBufSize THEN ExtraBufSize ELSE 0)
  /\ LET here == IF Len(data) <= writableBytes THEN Len(data) ELSE writableBytes
         s == Vec(CopyTo(buffer_, size, SubSeq(data, 1, here), writerIndex_),
                  size, readerIndex_, writerIndex_ + here)
     IN Becomes(IF here = Len(data) THEN s
                ELSE Appended(s, SubSeq(data, here + 1, Len(data))))

Lengths == 0 .. MaxContent

Next ==
  \/ \E data \in Inputs : AppendBytes(data) \/ Prepend(data) \/ ReadFd(data)
  \/ \E len \in Lengths :
       EnsureWritableBytes(len) \/ Retrieve(len) \/ Unwrite(len) \/ Shrink(len)

Spec == Init /\ [][Next]_vars
-----------------------------------------------------------------------------
BQ == INSTANCE ByteQueue WITH content <- Content

(* However content is moved, grown, shrunk and read around the end of the   *)
(* vector, callers see a queue of bytes: none is lost, changed, repeated or *)
(* out of order.                                                            *)
ImplementsByteQueue == BQ!Spec
=============================================================================
