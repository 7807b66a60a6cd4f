----------------------------- MODULE LogStream -----------------------------
(***************************************************************************)
(* muduo/base/LogStream.h and LogStream.cc: the conversion of numbers to   *)
(* characters, and the buffer of fixed size into which a log statement     *)
(* inserts its items.  Of the buffer's content only the length is kept.    *)
(***************************************************************************)
EXTENDS Integers, Sequences, SequencesExt

CONSTANTS SIZE,              \* of the FixedBuffer
          kMaxNumericSize,
          Half               \* the least signed integer is -Half and the
                             \* greatest unsigned one 2 * Half - 1

power10[n \in 0 .. kMaxNumericSize] == IF n = 0 THEN 1 ELSE 10 * power10[n - 1]

(* A number takes no more than kMaxNumericSize characters, with its sign or *)
(* prefix and the terminating zero.                                         *)
ASSUME SizeAssumption ==
  /\ {SIZE, kMaxNumericSize, Half} \subseteq Nat \ {0}
  /\ kMaxNumericSize >= 3
  /\ 2 * Half <= power10[kMaxNumericSize - 3]

digits == <<"9", "8", "7", "6", "5", "4", "3", "2", "1", "0", "1", "2", "3",
            "4", "5", "6", "7", "8", "9">>
zero(i) == digits[10 + i]
digitsHex == <<"0", "1", "2", "3", "4", "5", "6", "7", "8", "9", "A", "B",
               "C", "D", "E", "F">>

(* Signed and unsigned integers, and those that are not negative.           *)
Ints == -Half .. 2 * Half - 1
UInts == 0 .. 2 * Half - 1

(* i / 10 and i % 10 of C++, which round to zero.                           *)
Quotient(i) == IF i < 0 THEN -((-i) \div 10) ELSE i \div 10
Remainder(i) == i - 10 * Quotient(i)

(* Mutation: the loop goes on while i > 0.                                  *)
MoreIfPositive(i) == i > 0

(* The loop's condition.                                                    *)
More(i) == i # 0

(* The digits from the lowest one on, as the loop writes them.              *)
lowFirst[i \in Ints] ==
  <<zero(Remainder(i))>> \o IF More(Quotient(i)) THEN lowFirst[Quotient(i)]
                                                 ELSE <<>>

convert(value) ==
  Reverse(lowFirst[value] \o IF value < 0 THEN <<"-">> ELSE <<>>)

hexLowFirst[i \in UInts] ==
  <<digitsHex[1 + (i % 16)]>> \o IF i \div 16 # 0 THEN hexLowFirst[i \div 16]
                                                  ELSE <<>>

converHex(value) == Reverse(hexLowFirst[value])

-----------------------------------------------------------------------------
(* A FixedBuffer: its length, and whether an integer was written where less *)
(* than kMaxNumericSize was free.                                           *)
Buffers == [len : Nat, tight : BOOLEAN]
Empty == [len |-> 0, tight |-> FALSE]

avail(b) == SIZE - b.len
add(b, n) == [b EXCEPT !.len = @ + n]

(* append(): all or nothing.  A negative avail() is a huge size_t.          *)
Takes(b, n) == avail(b) < 0 \/ avail(b) > n
append(b, n) == IF Takes(b, n) THEN add(b, n) ELSE b

(* formatInteger() asks for no room.                                        *)
InsertInt(b, v) ==
  [add(b, Len(convert(v))) EXCEPT !.tight = @ \/ avail(b) < kMaxNumericSize]

(* Mutation: as formatInteger().                                            *)
RoomAlways(b) == TRUE

(* The condition of pointers and doubles.                                   *)
Room(b) == avail(b) >= kMaxNumericSize

InsertPointer(b, v) == IF Room(b) THEN add(b, 2 + Len(converHex(v))) ELSE b

(* n characters are what "%.12g" makes of the value.                        *)
InsertDouble(b, n) == IF Room(b) THEN add(b, n) ELSE b

-----------------------------------------------------------------------------
(* The value that a string of digits stands for.                            *)
Index(table, d) == CHOOSE k \in 1 .. Len(table) : table[k] = d
ValueOf(s, table) ==
  LET value[k \in 0 .. Len(s)] ==
        IF k = 0 THEN 0
                 ELSE Len(table) * value[k - 1] + Index(table, s[k]) - 1
  IN  value[Len(s)]

Canonical(s) == s # <<>> /\ (s[1] = "0" => Len(s) = 1)

decimal == SubSeq(digits, 10, 19)

(* The digits that convert() and converHex() write stand for the number and *)
(* have no superfluous zero.                                                *)
Exact(v) ==
  LET s == convert(v)
      magnitude == IF v < 0 THEN Tail(s) ELSE s
  IN  /\ v < 0 => s[1] = "-" /\ ValueOf(magnitude, decimal) = -v
      /\ v >= 0 => /\ ValueOf(magnitude, decimal) = v
                   /\ ValueOf(converHex(v), digitsHex) = v
                   /\ Canonical(converHex(v))
      /\ Canonical(magnitude)

AllExact == \A v \in Ints : Exact(v)
=============================================================================
