--------------------------- MODULE LoggingProofs ---------------------------
(***************************************************************************)
(* Proofs about LogStream, Logging and LogFile for integers of any width,  *)
(* any buffer and file sizes and any log statements: numbers are written   *)
(* exactly, lines fit their buffer, and the files that are rolled hold the *)
(* lines in order, lose only recent ones in a crash and are rolled in time.*)
(***************************************************************************)
EXTENDS Logging, SequenceTheorems, WellFoundedInduction, TLAPS

-----------------------------------------------------------------------------
(* A set of numbers has a least one.                                        *)
LEMMA LeastNumber ==
  ASSUME NEW T, T \subseteq Nat, T # {}
  PROVE \E x \in T : \A y \in T : x <= y
<1> DEFINE R == {ss \in Nat \X Nat : ss[1] < ss[2]}
<1>1. IsWellFoundedOn(R, Nat)
  BY NatLessThanWellFounded DEF OpToRel
<1>2. PICK x \in T : \A y \in T : ~(<<y, x>> \in R)
  BY <1>1, WFMin
<1>3. ASSUME NEW y \in T PROVE x <= y
  <2>1. y \in Nat /\ x \in Nat
    OBVIOUS
  <2>2. ~(y < x)
    BY <1>2, <2>1
  <2> QED
    BY <2>1, <2>2
<1> QED
  BY <1>3

(* Induction over a measure: a set that has d whenever it has everything    *)
(* of smaller measure has everything.                                       *)
LEMMA Induction ==
  ASSUME NEW D, NEW m \in [D -> Nat], NEW T,
         \A d \in D : (\A e \in D : m[e] < m[d] => e \in T) => d \in T
  PROVE  D \subseteq T
<1> SUFFICES ASSUME D \ T # {} PROVE FALSE
  OBVIOUS
<1> DEFINE M == {m[d] : d \in D \ T}
<1>1. M \subseteq Nat /\ M # {}
  OBVIOUS
<1>2. PICK x \in M : \A y \in M : x <= y
  <2> HIDE DEF M
  <2> QED
    BY <1>1, LeastNumber
<1>3. PICK d \in D \ T : x = m[d]
  OBVIOUS
<1>4. \A e \in D : m[e] < m[d] => e \in T
  <2> SUFFICES ASSUME NEW e \in D, m[e] < m[d], e \notin T PROVE FALSE
    OBVIOUS
  <2>1. m[e] \in M
    OBVIOUS
  <2>2. m[d] <= m[e]
    BY <1>2, <1>3, <2>1
  <2>3. m[d] \in Nat /\ m[e] \in Nat
    OBVIOUS
  <2> HIDE DEF M
  <2> QED
    BY <2>2, <2>3
<1> QED
  BY <1>3, <1>4

(* Induction up to a number.                                                *)
LEMMA InductionUpTo ==
  ASSUME NEW n \in Nat, NEW T, 0 \in T,
         \A k \in 1 .. n : k - 1 \in T => k \in T
  PROVE  0 .. n \subseteq T
<1> DEFINE D == 0 .. n
           m == [k \in D |-> k]
<1>1. m \in [D -> Nat]
  OBVIOUS
<1>2. ASSUME NEW k \in D, \A e \in D : m[e] < m[k] => e \in T PROVE k \in T
  <2>1. CASE k = 0
    BY <2>1
  <2>2. CASE k # 0
    <3>1. k \in 1 .. n /\ k - 1 \in D /\ m[k - 1] < m[k]
      BY <2>2
    <3> QED
      BY <1>2, <3>1
  <2> QED
    BY <2>1, <2>2
<1> HIDE DEF D, m
<1>3. D \subseteq T
  BY <1>1, <1>2, Induction
<1> QED
  BY <1>3 DEF D

(* A definition by recursion from d to pre[d], where a bounded measure is   *)
(* smaller.                                                                 *)
IsRecursion(D, S, N, m, base, init, pre, step) ==
  /\ N \in Nat
  /\ m \in [D -> 0 .. N]
  /\ base \in SUBSET D
  /\ init \in [D -> S]
  /\ pre \in [D -> D]
  /\ step \in [D \X S -> S]
  /\ \A d \in D \ base : m[pre[d]] < m[d]

(* The function that is so defined exists: by parts, each for the arguments *)
(* below a bound.                                                           *)
LEMMA Recursion ==
  ASSUME NEW D, NEW S, NEW N, NEW m, NEW base, NEW init, NEW pre, NEW step,
         IsRecursion(D, S, N, m, base, init, pre, step)
  PROVE  \E f \in [D -> S] :
           \A d \in D :
             f[d] = IF d \in base THEN init[d] ELSE step[<<d, f[pre[d]]>>]
<1>0. /\ N \in Nat /\ m \in [D -> 0 .. N] /\ base \in SUBSET D
      /\ init \in [D -> S] /\ pre \in [D -> D] /\ step \in [D \X S -> S]
      /\ \A d \in D \ base : m[pre[d]] < m[d]
  BY DEF IsRecursion
<1> DEFINE Below(n) == {d \in D : m[d] < n}
           Part(f, n) ==
             \A d \in Below(n) :
               f[d] = IF d \in base THEN init[d] ELSE step[<<d, f[pre[d]]>>]
           T == {n \in Nat : \E f \in [D -> S] : Part(f, n)}
<1>1. 0 \in T
  <2>1. init \in [D -> S] /\ Part(init, 0)
    BY <1>0
  <2> QED
    BY <2>1
<1>2. ASSUME NEW k \in 1 .. N + 1, k - 1 \in T PROVE k \in T
  <2>1. PICK g \in [D -> S] : Part(g, k - 1)
    BY <1>2
  <2> DEFINE f == [d \in D |-> IF m[d] < k - 1 \/ d \in base
                               THEN IF d \in base THEN init[d] ELSE g[d]
                               ELSE step[<<d, g[pre[d]]>>]]
  <2>2. f \in [D -> S]
    BY <1>0
  <2>3. ASSUME NEW d \in Below(k)
        PROVE  f[d] = IF d \in base THEN init[d] ELSE step[<<d, f[pre[d]]>>]
    <3>1. CASE d \in base
      BY <3>1
    <3>2. CASE d \notin base
      <4>1. m[d] \in Nat /\ m[pre[d]] \in Nat /\ m[pre[d]] < m[d] /\ m[d] < k
        BY <1>0, <3>2
      <4>2. m[pre[d]] < k - 1
        BY <4>1
      <4>3. f[pre[d]] = g[pre[d]]
        <5>1. CASE pre[d] \in base
          BY <1>0, <5>1, <4>2, <2>1
        <5>2. CASE pre[d] \notin base
          BY <1>0, <5>2, <4>2
        <5> QED
          BY <5>1, <5>2
      <4>4. f[d] = step[<<d, g[pre[d]]>>]
        <5>1. CASE m[d] < k - 1
          BY <5>1, <3>2, <2>1
        <5>2. CASE ~(m[d] < k - 1)
          BY <5>2, <3>2
        <5> QED
          BY <5>1, <5>2
      <4> HIDE DEF f
      <4> QED
        BY <3>2, <4>3, <4>4
    <3> QED
      BY <3>1, <3>2
  <2>4. Part(f, k)
    BY <2>3
  <2> HIDE DEF f
  <2> QED
    BY <2>2, <2>4
<1>3. N + 1 \in T
  <2> HIDE DEF T
  <2>1. PICK n \in Nat : n = N + 1
    BY <1>0
  <2>2. \A k \in 1 .. n : k - 1 \in T => k \in T
    BY <1>2, <2>1
  <2>3. 0 .. n \subseteq T
    BY <1>1, <2>2, InductionUpTo
  <2> QED
    BY <2>1, <2>3
<1>4. Below(N + 1) = D
  BY <1>0
<1> QED
  BY <1>3, <1>4

-----------------------------------------------------------------------------
Chars == {"0", "1", "2", "3", "4", "5", "6", "7", "8", "9", "A", "B", "C", "D",
          "E", "F", "-"}

(* A table of the digits of a number system, from "0" on.                   *)
IsTable(table) ==
  /\ table \in Seq(Chars)
  /\ Len(table) \in {10, 16}
  /\ table[1] = "0"
  /\ \A j, k \in 1 .. Len(table) : table[j] = table[k] => j = k

(* low has the digits of the numbers in D, the lowest one first: rem is the *)
(* value of that digit, quo the number without it, mag the magnitude.       *)
HasDigits(D, table, low, quo, rem, mag) ==
  /\ quo \in [D -> D]
  /\ mag \in [D -> Nat]
  /\ rem \in [D -> 0 .. Len(table) - 1]
  /\ \A i \in D : mag[i] = Len(table) * mag[quo[i]] + rem[i]
  /\ \A i \in D :
       low[i] = <<table[rem[i] + 1]>> \o
                  IF mag[quo[i]] # 0 THEN low[quo[i]] ELSE <<>>

(* What is left of a number without its last digit is smaller.              *)
LEMMA QuotientSmaller ==
  ASSUME NEW D, NEW table, NEW low, NEW quo, NEW rem, NEW mag,
         IsTable(table), HasDigits(D, table, low, quo, rem, mag),
         NEW i \in D
  PROVE  /\ quo[i] \in D /\ mag[i] \in Nat /\ mag[quo[i]] \in Nat
         /\ rem[i] \in 0 .. Len(table) - 1
         /\ mag[i] = Len(table) * mag[quo[i]] + rem[i]
         /\ mag[quo[i]] # 0 => mag[quo[i]] < mag[i]
         /\ 10 * mag[quo[i]] <= mag[i]
         /\ mag[i] < 10 => mag[quo[i]] = 0
<1>1. /\ quo[i] \in D /\ mag[i] \in Nat /\ mag[quo[i]] \in Nat
      /\ rem[i] \in 0 .. Len(table) - 1
      /\ mag[i] = Len(table) * mag[quo[i]] + rem[i]
  BY DEF HasDigits
<1>2. CASE Len(table) = 10
  BY <1>1, <1>2
<1>3. CASE Len(table) = 16
  BY <1>1, <1>3
<1> QED
  BY <1>2, <1>3 DEF IsTable

(* A digit put before a sequence of digits.                                 *)
LEMMA FirstDigit ==
  ASSUME NEW x \in Chars, NEW t \in Seq(Chars)
  PROVE  LET s == <<x>> \o t
         IN  /\ s \in Seq(Chars) /\ Len(s) = Len(t) + 1
             /\ s[1] = x
             /\ \A k \in 1 .. Len(t) : s[k + 1] = t[k]
OBVIOUS

(* The digits of a number are a sequence without superfluous zeros.         *)
LEMMA DigitsShape ==
  ASSUME NEW D, NEW table, NEW low, NEW quo, NEW rem, NEW mag,
         IsTable(table), HasDigits(D, table, low, quo, rem, mag)
  PROVE  \A i \in D : /\ low[i] \in Seq(Chars) /\ Len(low[i]) >= 1
                      /\ low[i][Len(low[i])] = "0" => mag[i] = 0
                      /\ mag[i] = 0 => Len(low[i]) = 1
<1> DEFINE Good(i) == /\ low[i] \in Seq(Chars) /\ Len(low[i]) >= 1
                      /\ low[i][Len(low[i])] = "0" => mag[i] = 0
                      /\ mag[i] = 0 => Len(low[i]) = 1
           T == {i \in D : Good(i)}
<1>1. ASSUME NEW i \in D, \A e \in D : mag[e] < mag[i] => e \in T
      PROVE  Good(i)
  <2> DEFINE x == table[rem[i] + 1]
  <2>1. /\ quo[i] \in D /\ mag[i] \in Nat /\ mag[quo[i]] \in Nat
        /\ rem[i] \in 0 .. Len(table) - 1
        /\ mag[i] = Len(table) * mag[quo[i]] + rem[i]
        /\ mag[quo[i]] # 0 => mag[quo[i]] < mag[i]
    BY QuotientSmaller
  <2>2. x \in Chars /\ (x = "0" => rem[i] = 0)
    <3>1. PICK r \in 1 .. Len(table) : r = rem[i] + 1
      BY <2>1 DEF IsTable
    <3>2. table[r] \in Chars /\ 1 \in 1 .. Len(table)
      BY DEF IsTable
    <3>3. table[r] = "0" => r = 1
      BY <3>2 DEF IsTable
    <3> QED
      BY <2>1, <3>1, <3>2, <3>3
  <2>3. CASE mag[quo[i]] = 0
    <3>1. low[i] = <<x>> \o <<>>
      BY <2>3 DEF HasDigits
    <3>2. low[i] = <<x>>
      BY <3>1, <2>2
    <3>3. mag[i] = rem[i]
      BY <2>1, <2>3 DEF IsTable
    <3> HIDE DEF x
    <3> QED
      BY <3>2, <3>3, <2>2
  <2>4. CASE mag[quo[i]] # 0
    <3>1. low[i] = <<x>> \o low[quo[i]]
      BY <2>4 DEF HasDigits
    <3>2. Good(quo[i])
      BY <1>1, <2>1, <2>4
    <3>3. PICK t \in Seq(Chars) : t = low[quo[i]]
      BY <3>2
    <3>4. Len(t) \in Nat /\ Len(t) >= 1 /\ t[Len(t)] # "0"
      BY <3>2, <3>3, <2>4
    <3>5. /\ low[i] \in Seq(Chars) /\ Len(low[i]) = Len(t) + 1
          /\ \A k \in 1 .. Len(t) : low[i][k + 1] = t[k]
      <4> HIDE DEF x
      <4> QED
        BY <3>1, <3>3, <2>2, FirstDigit
    <3>6. low[i][Len(low[i])] = t[Len(t)]
      BY <3>4, <3>5
    <3>7. mag[i] # 0
      BY <2>1, <2>4
    <3> QED
      BY <3>4, <3>5, <3>6, <3>7
  <2> QED
    BY <2>3, <2>4
<1>2. \A i \in D : (\A e \in D : mag[e] < mag[i] => e \in T) => i \in T
  BY <1>1
<1>3. D \subseteq T
  <2> HIDE DEF T
  <2> QED
    BY <1>2, Induction DEF HasDigits
<1> QED
  BY <1>3

(* A number below 10^k has at most k digits.                                *)
LEMMA DigitsLength ==
  ASSUME NEW D, NEW table, NEW low, NEW quo, NEW rem, NEW mag,
         IsTable(table), HasDigits(D, table, low, quo, rem, mag),
         NEW N \in Nat, NEW p \in [0 .. N -> Nat], p[0] = 1,
         \A k \in 1 .. N : p[k] = 10 * p[k - 1]
  PROVE  \A i \in D, k \in 1 .. N : mag[i] < p[k] => Len(low[i]) <= k
<1> DEFINE Good(i) == \A k \in 1 .. N : mag[i] < p[k] => Len(low[i]) <= k
           T == {i \in D : Good(i)}
<1>1. ASSUME NEW i \in D, \A e \in D : mag[e] < mag[i] => e \in T,
             NEW k \in 1 .. N, mag[i] < p[k]
      PROVE  Len(low[i]) <= k
  <2> DEFINE x == table[rem[i] + 1]
  <2>1. /\ quo[i] \in D /\ mag[i] \in Nat /\ mag[quo[i]] \in Nat
        /\ rem[i] \in 0 .. Len(table) - 1
        /\ mag[quo[i]] # 0 => mag[quo[i]] < mag[i]
        /\ 10 * mag[quo[i]] <= mag[i]
        /\ mag[i] < 10 => mag[quo[i]] = 0
    BY QuotientSmaller
  <2>2. x \in Chars
    BY <2>1 DEF IsTable
  <2>3. CASE mag[quo[i]] = 0
    <3>1. low[i] = <<x>> \o <<>>
      BY <2>3 DEF HasDigits
    <3>2. Len(low[i]) = 1
      BY <3>1, <2>2
    <3> QED
      BY <3>2
  <2>4. CASE mag[quo[i]] # 0
    <3>1. low[i] = <<x>> \o low[quo[i]]
      BY <2>4 DEF HasDigits
    <3>2. PICK t \in Seq(Chars) : t = low[quo[i]]
      BY <2>1, DigitsShape
    <3>3. Len(low[i]) = Len(t) + 1 /\ Len(t) \in Nat
      <4> HIDE DEF x
      <4> QED
        BY <3>1, <3>2, <2>2, FirstDigit
    <3>4. p[k] \in Nat /\ p[k - 1] \in Nat /\ p[k] = 10 * p[k - 1]
      OBVIOUS
    <3>5. k # 1
      <4> SUFFICES ASSUME k = 1 PROVE FALSE
        OBVIOUS
      <4>1. p[k] = 10
        BY <3>4
      <4> QED
        BY <4>1, <1>1, <2>1, <2>4
    <3>6. k - 1 \in 1 .. N /\ mag[quo[i]] < p[k - 1]
      <4>1. k - 1 \in 1 .. N
        BY <3>5
      <4>2. \A a, b, c, d \in Nat : 10 * a <= b /\ b < c /\ c = 10 * d => a < d
        OBVIOUS
      <4> QED
        BY <1>1, <4>1, <4>2, <3>4, <2>1
    <3>7. Len(t) <= k - 1
      BY <1>1, <2>1, <2>4, <3>2, <3>6
    <3> QED
      BY <3>3, <3>7
  <2> QED
    BY <2>3, <2>4
<1>2. \A i \in D : (\A e \in D : mag[e] < mag[i] => e \in T) => i \in T
  BY <1>1
<1>3. D \subseteq T
  <2> HIDE DEF T
  <2> QED
    BY <1>2, Induction DEF HasDigits
<1> QED
  BY <1>3

-----------------------------------------------------------------------------
(* f has the values of the beginnings of s, digit by digit.                 *)
Horner(f, s, table) ==
  /\ f \in [0 .. Len(s) -> Nat]
  /\ f[0] = 0
  /\ \A k \in 1 .. Len(s) :
       f[k] = Len(table) * f[k - 1] + Index(table, s[k]) - 1

(* Then the last of them is the value of s.                                 *)
LEMMA ValueIs ==
  ASSUME NEW table, NEW s \in Seq(Chars), NEW f, Horner(f, s, table)
  PROVE  ValueOf(s, table) = f[Len(s)]
<1> DEFINE Eq(g) ==
             g = [k \in 0 .. Len(s) |->
               IF k = 0 THEN 0
                        ELSE Len(table) * g[k - 1] + Index(table, s[k]) - 1]
           value == CHOOSE g : Eq(g)
           n == Len(s)
           T == {k \in 0 .. n : value[k] = f[k]}
<1>1. Eq(f)
  BY DEF Horner
<1>2. Eq(value)
  <2> HIDE DEF Eq
  <2> QED
    BY <1>1
<1>3. ValueOf(s, table) = value[n]
  BY DEF ValueOf
<1> HIDE DEF value
<1>4. n \in Nat
  OBVIOUS
<1>5. 0 \in T
  BY <1>2, <1>4 DEF Horner
<1>6. \A k \in 1 .. n : k - 1 \in T => k \in T
  <2> SUFFICES ASSUME NEW k \in 1 .. n, k - 1 \in T PROVE k \in T
    OBVIOUS
  <2>1. value[k] = Len(table) * value[k - 1] + Index(table, s[k]) - 1
    BY <1>2, <1>4
  <2>2. value[k - 1] = f[k - 1]
    OBVIOUS
  <2> QED
    BY <2>1, <2>2, <1>4 DEF Horner
<1>7. 0 .. n \subseteq T
  <2> HIDE DEF T, n
  <2> QED
    BY <1>4, <1>5, <1>6, InductionUpTo
<1> QED
  BY <1>3, <1>4, <1>7

(* A digit has its own place in the table.                                  *)
LEMMA DigitIndex ==
  ASSUME NEW table, IsTable(table), NEW r \in 0 .. Len(table) - 1
  PROVE  Index(table, table[r + 1]) = r + 1
<1>1. r + 1 \in 1 .. Len(table)
  BY DEF IsTable
<1>2. \A k \in 1 .. Len(table) : table[k] = table[r + 1] => k = r + 1
  BY <1>1 DEF IsTable
<1> QED
  BY <1>1, <1>2 DEF Index

(* Reversing moves the first digit to the end.                              *)
LEMMA ReverseFirst ==
  ASSUME NEW C, NEW x \in C, NEW t \in Seq(C)
  PROVE  LET r == Reverse(<<x>> \o t)
         IN  /\ r \in Seq(C) /\ Len(r) = Len(t) + 1
             /\ r[Len(t) + 1] = x
             /\ \A k \in 1 .. Len(t) : r[k] = Reverse(t)[k]
<1> DEFINE s == <<x>> \o t
<1>1. /\ s \in Seq(C) /\ Len(s) = Len(t) + 1 /\ Len(t) \in Nat
      /\ s[1] = x
      /\ \A k \in 1 .. Len(t) : s[k + 1] = t[k]
  BY FirstDigit
<1> HIDE DEF s
<1>2. Reverse(s) \in Seq(C) /\ Len(Reverse(s)) = Len(s)
  BY <1>1 DEF Reverse
<1>3. Reverse(s)[Len(t) + 1] = x
  BY <1>1 DEF Reverse
<1>4. ASSUME NEW k \in 1 .. Len(t) PROVE Reverse(s)[k] = Reverse(t)[k]
  <2>1. \A n \in Nat : \A i \in 1 .. n : \E j \in 1 .. n : j = n - i + 1
    <3>1. \A n \in Nat : \A i \in 1 .. n : n - i + 1 \in 1 .. n
      OBVIOUS
    <3> QED
      BY <3>1
  <2>2. PICK j \in 1 .. Len(t) : j = Len(t) - k + 1
    BY <1>1, <2>1
  <2>3. Reverse(s)[k] = s[j + 1]
    BY <1>1, <2>2 DEF Reverse
  <2>4. Reverse(t)[k] = t[j]
    BY <1>1, <2>2 DEF Reverse
  <2> QED
    BY <1>1, <2>3, <2>4
<1> QED
  BY <1>1, <1>2, <1>3, <1>4 DEF s

(* The digits of a number, the highest one first, stand for it.             *)
LEMMA DigitsValue ==
  ASSUME NEW D, NEW table, NEW low, NEW quo, NEW rem, NEW mag,
         IsTable(table), HasDigits(D, table, low, quo, rem, mag)
  PROVE  \A i \in D : /\ Reverse(low[i]) \in Seq(Chars)
                      /\ Len(Reverse(low[i])) = Len(low[i])
                      /\ ValueOf(Reverse(low[i]), table) = mag[i]
<1> DEFINE Good(i) == \E f : /\ Horner(f, Reverse(low[i]), table)
                             /\ f[Len(low[i])] = mag[i]
           T == {i \in D : Good(i)}
<1>S. \A i \in D : /\ low[i] \in Seq(Chars) /\ Len(low[i]) \in Nat
                   /\ Reverse(low[i]) \in Seq(Chars)
                   /\ Len(Reverse(low[i])) = Len(low[i])
  <2> SUFFICES ASSUME NEW i \in D
               PROVE  /\ low[i] \in Seq(Chars) /\ Len(low[i]) \in Nat
                      /\ Reverse(low[i]) \in Seq(Chars)
                      /\ Len(Reverse(low[i])) = Len(low[i])
    OBVIOUS
  <2>1. PICK t \in Seq(Chars) : t = low[i]
    BY DigitsShape
  <2> QED
    BY <2>1 DEF Reverse
<1>1. ASSUME NEW i \in D, \A e \in D : mag[e] < mag[i] => e \in T
      PROVE  Good(i)
  <2> DEFINE x == table[rem[i] + 1]
             t == IF mag[quo[i]] # 0 THEN low[quo[i]] ELSE <<>>
             r == Reverse(low[i])
  <2>1. /\ quo[i] \in D /\ mag[i] \in Nat /\ mag[quo[i]] \in Nat
        /\ rem[i] \in 0 .. Len(table) - 1
        /\ mag[i] = Len(table) * mag[quo[i]] + rem[i]
        /\ mag[quo[i]] # 0 => mag[quo[i]] < mag[i]
    BY QuotientSmaller
  <2>2. x \in Chars /\ t \in Seq(Chars) /\ Len(t) \in Nat
    BY <2>1, <1>S DEF IsTable
  <2>3. low[i] = <<x>> \o t
    BY DEF HasDigits
  <2>4. Index(table, x) = rem[i] + 1
    BY <2>1, DigitIndex
  <2>5. \E g : Horner(g, Reverse(t), table) /\ g[Len(t)] = mag[quo[i]]
    <3>1. CASE mag[quo[i]] # 0
      BY <3>1, <1>1, <2>1
    <3>2. CASE mag[quo[i]] = 0
      <4>1. t = <<>> /\ Reverse(t) = <<>>
        BY <3>2 DEF Reverse
      <4>2. Horner([k \in 0 .. 0 |-> 0], Reverse(t), table)
        BY <4>1 DEF Horner
      <4> QED
        BY <3>2, <4>1, <4>2
    <3> QED
      BY <3>1, <3>2
  <2>6. PICK g : Horner(g, Reverse(t), table) /\ g[Len(t)] = mag[quo[i]]
    BY <2>5
  <2>7. /\ r \in Seq(Chars) /\ Len(r) = Len(t) + 1
        /\ r[Len(t) + 1] = x
        /\ \A k \in 1 .. Len(t) : r[k] = Reverse(t)[k]
    <3> HIDE DEF x, t
    <3>1. LET q == Reverse(<<x>> \o t)
          IN  /\ q \in Seq(Chars) /\ Len(q) = Len(t) + 1
              /\ q[Len(t) + 1] = x
              /\ \A k \in 1 .. Len(t) : q[k] = Reverse(t)[k]
      BY <2>2, ReverseFirst
    <3>2. Reverse(<<x>> \o t) = r
      BY <2>3
    <3> HIDE DEF r
    <3> QED
      BY <3>1, <3>2
  <2>8. Len(Reverse(t)) = Len(t)
    <3> HIDE DEF t
    <3> QED
      BY <2>2 DEF Reverse
  <2> DEFINE n == Len(t)
             f == [k \in 0 .. n + 1 |-> IF k = n + 1 THEN mag[i] ELSE g[k]]
  <2> HIDE DEF x, t, r
  <2>9. /\ g \in [0 .. n -> Nat] /\ g[0] = 0 /\ n \in Nat
        /\ \A k \in 1 .. n :
             g[k] = Len(table) * g[k - 1] + Index(table, r[k]) - 1
    BY <2>2, <2>6, <2>7, <2>8 DEF Horner
  <2>G. g[n] = mag[quo[i]] /\ r[n + 1] = x /\ Len(r) = n + 1
    BY <2>6, <2>7
  <2> HIDE DEF n
  <2>10. f \in [0 .. n + 1 -> Nat] /\ f[0] = 0 /\ f[n + 1] = mag[i]
    BY <2>1, <2>9
  <2>11. ASSUME NEW k \in 1 .. n + 1
         PROVE  f[k] = Len(table) * f[k - 1] + Index(table, r[k]) - 1
    <3>1. CASE k = n + 1
      <4>1. f[k] = mag[i] /\ f[k - 1] = mag[quo[i]] /\ r[k] = x
        BY <3>1, <2>9, <2>G
      <4>2. \A a, y \in Int : a + y = a + (y + 1) - 1
        OBVIOUS
      <4>3. rem[i] \in Int /\ Len(table) * mag[quo[i]] \in Int
        BY <2>1 DEF IsTable
      <4> QED
        BY <4>1, <4>2, <4>3, <2>1, <2>4
    <3>2. CASE k # n + 1
      BY <3>2, <2>9
    <3> QED
      BY <3>1, <3>2
  <2>12. Horner(f, r, table)
    <3> HIDE DEF f
    <3> QED
      BY <2>7, <2>G, <2>10, <2>11 DEF Horner
  <2>13. Len(low[i]) = n + 1
    BY <2>2, <2>3, FirstDigit DEF n
  <2> QED
    BY <2>10, <2>12, <2>13 DEF r
<1>2. \A i \in D : (\A e \in D : mag[e] < mag[i] => e \in T) => i \in T
  BY <1>1
<1>3. D \subseteq T
  <2> HIDE DEF T
  <2> QED
    BY <1>2, Induction DEF HasDigits
<1> QED
  BY <1>3, <1>S, ValueIs

-----------------------------------------------------------------------------
(* The tables of LogStream.cc are tables of digits.                         *)
LEMMA HexTable == IsTable(digitsHex)
<1>1. digitsHex \in Seq(Chars) /\ Len(digitsHex) = 16 /\ digitsHex[1] = "0"
  BY DEF digitsHex, Chars
<1>2. ASSUME NEW j \in 1 .. 16, NEW k \in 1 .. 16, digitsHex[j] = digitsHex[k]
      PROVE  j = k
  BY <1>2 DEF digitsHex
<1> QED
  BY <1>1, <1>2 DEF IsTable

(* The second half of digits is the first one reversed.                     *)
LEMMA DecimalTable ==
  /\ IsTable(decimal) /\ Len(decimal) = 10
  /\ \A r \in -9 .. 9 :
       zero(r) = decimal[(IF r < 0 THEN -r ELSE r) + 1]
<1>1. digits \in Seq(Chars) /\ Len(digits) = 19
  BY DEF digits, Chars
<1>2. /\ decimal \in Seq(Chars) /\ Len(decimal) = 10
      /\ \A k \in 1 .. 10 : decimal[k] = digits[9 + k]
  <2>1. \A k \in 10 .. 19 : digits[k] \in Chars
    <3>1. \A k \in 10 .. 19 : k \in 1 .. Len(digits)
      BY <1>1
    <3> QED
      BY <1>1, <3>1, ElementOfSeq
  <2>2. /\ decimal \in Seq(Chars)
        /\ Len(decimal) = IF 10 <= 19 THEN 19 - 10 + 1 ELSE 0
        /\ \A k \in 1 .. 19 - 10 + 1 : decimal[k] = digits[10 + k - 1]
    BY <2>1, SubSeqProperties DEF decimal
  <2> QED
    BY <2>2
<1>3. decimal[1] = "0"
  BY <1>2 DEF digits
<1>4. ASSUME NEW j \in 1 .. 10, NEW k \in 1 .. 10, decimal[j] = decimal[k]
      PROVE  j = k
  BY <1>2, <1>4 DEF digits
<1>5. ASSUME NEW r \in -9 .. 9
      PROVE  zero(r) = decimal[(IF r < 0 THEN -r ELSE r) + 1]
  <2>1. PICK k \in 1 .. 10 : k = (IF r < 0 THEN -r ELSE r) + 1
    OBVIOUS
  <2>2. decimal[k] = digits[9 + k]
    BY <1>2
  <2>3. digits[10 + r] = digits[9 + k]
    BY <2>1 DEF digits
  <2> QED
    BY <2>1, <2>2, <2>3 DEF zero
<1> QED
  BY <1>2, <1>3, <1>4, <1>5 DEF IsTable

Magnitude(i) == IF i < 0 THEN -i ELSE i

(* Division that rounds to zero.                                            *)
LEMMA Division ==
  ASSUME NEW i \in Ints
  PROVE  /\ i \in Int /\ Quotient(i) \in Ints /\ Remainder(i) \in -9 .. 9
         /\ Magnitude(i) \in 0 .. 2 * Half
         /\ Magnitude(Quotient(i)) \in Nat
         /\ Magnitude(Remainder(i)) \in 0 .. 9
         /\ Magnitude(i)
              = 10 * Magnitude(Quotient(i)) + Magnitude(Remainder(i))
         /\ More(Quotient(i)) <=> Magnitude(Quotient(i)) # 0
<1>1. Half \in Nat \ {0} /\ i \in Int /\ -Half <= i /\ i <= 2 * Half - 1
  BY SizeAssumption DEF Ints
<1>2. CASE i < 0
  <2>1. PICK q \in Nat : q = (-i) \div 10
    BY <1>1, <1>2
  <2>2. 10 * q <= -i /\ -i <= 10 * q + 9
    BY <1>1, <1>2, <2>1
  <2>3. Quotient(i) = -q
    BY <1>2, <2>1 DEF Quotient
  <2> QED
    BY <1>1, <1>2, <2>1, <2>2, <2>3 DEF Ints, Remainder, Magnitude, More
<1>3. CASE ~(i < 0)
  <2>1. PICK q \in Nat : q = i \div 10
    BY <1>1, <1>3
  <2>2. 10 * q <= i /\ i <= 10 * q + 9
    BY <1>1, <1>3, <2>1
  <2>3. Quotient(i) = q
    BY <1>3, <2>1 DEF Quotient
  <2> QED
    BY <1>1, <1>3, <2>1, <2>2, <2>3 DEF Ints, Remainder, Magnitude, More
<1> QED
  BY <1>2, <1>3

(* The loop of convert() does what lowFirst says of it.                     *)
LEMMA LowFirst ==
  \A i \in Ints :
    lowFirst[i] = <<zero(Remainder(i))>> \o
                    IF More(Quotient(i)) THEN lowFirst[Quotient(i)] ELSE <<>>
<1> DEFINE Eq(g) ==
             g = [i \in Ints |->
                    <<zero(Remainder(i))>> \o
                      IF More(Quotient(i)) THEN g[Quotient(i)] ELSE <<>>]
           m == [i \in Ints |-> Magnitude(i)]
           base == {i \in Ints : ~More(Quotient(i))}
           init == [i \in Ints |-> <<zero(Remainder(i))>>]
           pre == [i \in Ints |-> Quotient(i)]
           step == [x \in Ints \X Seq(Chars) |->
                      <<zero(Remainder(x[1]))>> \o x[2]]
           N == 2 * Half
<1>1. \A i \in Ints : zero(Remainder(i)) \in Chars
  <2> SUFFICES ASSUME NEW i \in Ints PROVE zero(Remainder(i)) \in Chars
    OBVIOUS
  <2>1. Magnitude(Remainder(i)) \in 0 .. 9 /\ Remainder(i) \in -9 .. 9
    BY Division
  <2>2. zero(Remainder(i)) = decimal[Magnitude(Remainder(i)) + 1]
    BY <2>1, DecimalTable DEF Magnitude
  <2>3. \A k \in 1 .. 10 : decimal[k] \in Chars
    BY DecimalTable, ElementOfSeq DEF IsTable
  <2> QED
    BY <2>1, <2>2, <2>3
<1>2. /\ N \in Nat /\ m \in [Ints -> 0 .. N]
      /\ base \in SUBSET Ints /\ init \in [Ints -> Seq(Chars)]
      /\ pre \in [Ints -> Ints]
  BY <1>1, Division, SizeAssumption
<1>3. step \in [Ints \X Seq(Chars) -> Seq(Chars)]
  <2> SUFFICES ASSUME NEW i \in Ints, NEW t \in Seq(Chars)
               PROVE  <<zero(Remainder(i))>> \o t \in Seq(Chars)
    OBVIOUS
  <2> QED
    BY <1>1, FirstDigit
<1>4. \A i \in Ints \ base : m[pre[i]] < m[i]
  <2> SUFFICES ASSUME NEW i \in Ints \ base
               PROVE  Magnitude(Quotient(i)) < Magnitude(i)
    BY Division
  <2> QED
    BY Division
<1>5. PICK f \in [Ints -> Seq(Chars)] :
        \A i \in Ints :
          f[i] = IF i \in base THEN init[i] ELSE step[<<i, f[pre[i]]>>]
  <2>1. IsRecursion(Ints, Seq(Chars), N, m, base, init, pre, step)
    <3> HIDE DEF m, base, init, pre, step, N
    <3> QED
      BY <1>2, <1>3, <1>4 DEF IsRecursion
  <2> HIDE DEF m, base, init, pre, step, N
  <2> QED
    BY <2>1, Recursion
<1>6. ASSUME NEW i \in Ints
      PROVE  f[i] = <<zero(Remainder(i))>> \o
                      IF More(Quotient(i)) THEN f[Quotient(i)] ELSE <<>>
  <2>1. Quotient(i) \in Ints /\ zero(Remainder(i)) \in Chars
    BY Division, <1>1
  <2>2. CASE More(Quotient(i))
    <3>1. f[i] = step[<<i, f[Quotient(i)]>>]
      BY <1>5, <2>2, <2>1
    <3> QED
      BY <3>1, <2>1, <2>2
  <2>3. CASE ~More(Quotient(i))
    <3>1. f[i] = <<zero(Remainder(i))>>
      BY <1>5, <2>3
    <3> QED
      BY <3>1, <2>1, <2>3
  <2> QED
    BY <2>2, <2>3
<1>7. Eq(f)
  BY <1>6
<1>8. Eq(CHOOSE g : Eq(g))
  <2> HIDE DEF Eq
  <2> QED
    BY <1>7
<1>9. Eq(lowFirst)
  BY <1>8 DEF lowFirst
<1> QED
  BY <1>9

(* Division by 16.                                                          *)
LEMMA HexDivision ==
  ASSUME NEW i \in UInts
  PROVE  /\ i \in Nat /\ i \in 0 .. 2 * Half
         /\ i \div 16 \in UInts /\ i % 16 \in 0 .. 15
         /\ i = 16 * (i \div 16) + (i % 16)
         /\ i \div 16 # 0 => i \div 16 < i
<1>1. Half \in Nat \ {0} /\ i \in Nat /\ i <= 2 * Half - 1
  BY SizeAssumption DEF UInts
<1>2. PICK q \in Nat, r \in 0 .. 15 :
        q = i \div 16 /\ r = i % 16 /\ i = 16 * q + r
  BY <1>1
<1> QED
  BY <1>1, <1>2 DEF UInts

(* The loop of converHex() does what hexLowFirst says of it.                *)
LEMMA HexLowFirst ==
  \A i \in UInts :
    hexLowFirst[i] = <<digitsHex[1 + (i % 16)]>> \o
                       IF i \div 16 # 0 THEN hexLowFirst[i \div 16] ELSE <<>>
<1> DEFINE Eq(g) ==
             g = [i \in UInts |->
                    <<digitsHex[1 + (i % 16)]>> \o
                      IF i \div 16 # 0 THEN g[i \div 16] ELSE <<>>]
           m == [i \in UInts |-> i]
           base == {i \in UInts : i \div 16 = 0}
           init == [i \in UInts |-> <<digitsHex[1 + (i % 16)]>>]
           pre == [i \in UInts |-> i \div 16]
           step == [x \in UInts \X Seq(Chars) |->
                      <<digitsHex[1 + (x[1] % 16)]>> \o x[2]]
           N == 2 * Half
<1>1. \A i \in UInts : digitsHex[1 + (i % 16)] \in Chars
  <2>1. \A k \in 1 .. 16 : digitsHex[k] \in Chars
    BY DEF digitsHex, Chars
  <2>2. \A i \in UInts : 1 + (i % 16) \in 1 .. 16
    BY HexDivision
  <2> QED
    BY <2>1, <2>2
<1>2. /\ N \in Nat /\ m \in [UInts -> 0 .. N]
      /\ base \in SUBSET UInts /\ init \in [UInts -> Seq(Chars)]
      /\ pre \in [UInts -> UInts]
  BY <1>1, HexDivision, SizeAssumption
<1>3. step \in [UInts \X Seq(Chars) -> Seq(Chars)]
  <2> SUFFICES ASSUME NEW i \in UInts, NEW t \in Seq(Chars)
               PROVE  <<digitsHex[1 + (i % 16)]>> \o t \in Seq(Chars)
    OBVIOUS
  <2> QED
    BY <1>1, FirstDigit
<1>4. \A i \in UInts \ base : m[pre[i]] < m[i]
  BY HexDivision
<1>5. PICK f \in [UInts -> Seq(Chars)] :
        \A i \in UInts :
          f[i] = IF i \in base THEN init[i] ELSE step[<<i, f[pre[i]]>>]
  <2>1. IsRecursion(UInts, Seq(Chars), N, m, base, init, pre, step)
    <3> HIDE DEF m, base, init, pre, step, N
    <3> QED
      BY <1>2, <1>3, <1>4 DEF IsRecursion
  <2> HIDE DEF m, base, init, pre, step, N
  <2> QED
    BY <2>1, Recursion
<1>6. ASSUME NEW i \in UInts
      PROVE  f[i] = <<digitsHex[1 + (i % 16)]>> \o
                      IF i \div 16 # 0 THEN f[i \div 16] ELSE <<>>
  <2>1. i \div 16 \in UInts /\ digitsHex[1 + (i % 16)] \in Chars
    BY HexDivision, <1>1
  <2>2. CASE i \div 16 # 0
    <3>1. f[i] = step[<<i, f[i \div 16]>>]
      BY <1>5, <2>2, <2>1
    <3> QED
      BY <3>1, <2>1, <2>2
  <2>3. CASE i \div 16 = 0
    <3>1. f[i] = <<digitsHex[1 + (i % 16)]>>
      BY <1>5, <2>3
    <3> QED
      BY <3>1, <2>1, <2>3
  <2> QED
    BY <2>2, <2>3
<1>7. Eq(f)
  BY <1>6
<1>8. Eq(CHOOSE g : Eq(g))
  <2> HIDE DEF Eq
  <2> QED
    BY <1>7
<1>9. Eq(hexLowFirst)
  BY <1>8 DEF hexLowFirst
<1> QED
  BY <1>9

(* The powers of ten are what they should be.                               *)
LEMMA Powers ==
  /\ power10 \in [0 .. kMaxNumericSize -> Nat] /\ power10[0] = 1
  /\ \A k \in 1 .. kMaxNumericSize : power10[k] = 10 * power10[k - 1]
<1> DEFINE D == 0 .. kMaxNumericSize
           Eq(g) == g = [n \in D |-> IF n = 0 THEN 1 ELSE 10 * g[n - 1]]
           N == kMaxNumericSize
           m == [n \in D |-> n]
           base == {0}
           init == [n \in D |-> 1]
           pre == [n \in D |-> IF n = 0 THEN 0 ELSE n - 1]
           step == [x \in D \X Nat |-> 10 * x[2]]
<1>1. /\ N \in Nat /\ m \in [D -> 0 .. N]
      /\ base \in SUBSET D /\ init \in [D -> Nat]
      /\ pre \in [D -> D] /\ step \in [D \X Nat -> Nat]
  BY SizeAssumption
<1>2. \A n \in D \ base : m[pre[n]] < m[n]
  BY SizeAssumption
<1>3. PICK f \in [D -> Nat] :
        \A n \in D :
          f[n] = IF n \in base THEN init[n] ELSE step[<<n, f[pre[n]]>>]
  <2>1. IsRecursion(D, Nat, N, m, base, init, pre, step)
    <3> HIDE DEF D, m, base, init, pre, step, N
    <3> QED
      BY <1>1, <1>2 DEF IsRecursion
  <2> HIDE DEF D, m, base, init, pre, step, N
  <2> QED
    BY <2>1, Recursion
<1>4. ASSUME NEW n \in D
      PROVE  f[n] = IF n = 0 THEN 1 ELSE 10 * f[n - 1]
  <2>1. CASE n = 0
    BY <1>3, <2>1
  <2>2. CASE n # 0
    <3>1. n - 1 \in D /\ pre[n] = n - 1 /\ n \notin base
      BY <2>2, SizeAssumption
    <3>2. f[n] = step[<<n, f[n - 1]>>]
      BY <1>3, <3>1
    <3> QED
      BY <2>2, <3>1, <3>2
  <2> QED
    BY <2>1, <2>2
<1>5. Eq(f)
  BY <1>4
<1>6. Eq(CHOOSE g : Eq(g))
  <2> HIDE DEF Eq
  <2> QED
    BY <1>5
<1>7. Eq(power10)
  BY <1>6 DEF power10
<1>8. /\ power10[0] = 1
      /\ \A k \in 1 .. kMaxNumericSize : power10[k] = 10 * power10[k - 1]
  BY <1>7, SizeAssumption
<1>9. power10 \in [D -> Nat]
  <2> DEFINE T == {n \in D : power10[n] \in Nat}
  <2>1. 0 \in T
    BY <1>8, SizeAssumption
  <2>2. \A k \in 1 .. N : k - 1 \in T => k \in T
    BY <1>8, SizeAssumption
  <2>3. 0 .. N \subseteq T
    <3> HIDE DEF T, N
    <3> QED
      BY <1>1, <2>1, <2>2, InductionUpTo
  <2>4. \A n \in D : power10[n] \in Nat
    BY <2>3
  <2>5. power10 = [n \in D |-> power10[n]]
    BY <1>7
  <2> QED
    BY <2>4, <2>5
<1> QED
  BY <1>8, <1>9

-----------------------------------------------------------------------------
(* Both loops write the digits of their numbers, the lowest one first.      *)
LEMMA DecimalDigits ==
  HasDigits(Ints, decimal, lowFirst, [i \in Ints |-> Quotient(i)],
            [i \in Ints |-> Magnitude(Remainder(i))],
            [i \in Ints |-> Magnitude(i)])
<1> DEFINE quo == [i \in Ints |-> Quotient(i)]
           rem == [i \in Ints |-> Magnitude(Remainder(i))]
           mag == [i \in Ints |-> Magnitude(i)]
<1>1. Len(decimal) = 10
  BY DecimalTable
<1>2. /\ quo \in [Ints -> Ints] /\ mag \in [Ints -> Nat]
      /\ rem \in [Ints -> 0 .. Len(decimal) - 1]
  BY <1>1, Division
<1>3. \A i \in Ints : mag[i] = Len(decimal) * mag[quo[i]] + rem[i]
  BY <1>1, Division
<1>4. ASSUME NEW i \in Ints
      PROVE  lowFirst[i] = <<decimal[rem[i] + 1]>> \o
                             IF mag[quo[i]] # 0 THEN lowFirst[quo[i]] ELSE <<>>
  <2>1. zero(Remainder(i)) = decimal[rem[i] + 1]
    BY Division, DecimalTable DEF Magnitude
  <2>2. quo[i] = Quotient(i) /\ (More(Quotient(i)) <=> mag[quo[i]] # 0)
    BY Division
  <2> HIDE DEF quo, rem, mag
  <2> QED
    BY <2>1, <2>2, LowFirst
<1> HIDE DEF quo, rem, mag
<1>5. HasDigits(Ints, decimal, lowFirst, quo, rem, mag)
  BY <1>2, <1>3, <1>4 DEF HasDigits
<1> QED
  BY <1>5 DEF quo, rem, mag

(* So is the loop of converHex().                                           *)
LEMMA HexDigits ==
  HasDigits(UInts, digitsHex, hexLowFirst, [i \in UInts |-> i \div 16],
            [i \in UInts |-> i % 16], [i \in UInts |-> i])
<1> DEFINE quo == [i \in UInts |-> i \div 16]
           rem == [i \in UInts |-> i % 16]
           mag == [i \in UInts |-> i]
<1>1. Len(digitsHex) = 16
  BY DEF digitsHex
<1>2. /\ quo \in [UInts -> UInts] /\ mag \in [UInts -> Nat]
      /\ rem \in [UInts -> 0 .. Len(digitsHex) - 1]
  BY <1>1, HexDivision
<1>3. \A i \in UInts : mag[i] = Len(digitsHex) * mag[quo[i]] + rem[i]
  BY <1>1, HexDivision
<1>4. ASSUME NEW i \in UInts
      PROVE  hexLowFirst[i] =
               <<digitsHex[rem[i] + 1]>> \o
                 IF mag[quo[i]] # 0 THEN hexLowFirst[quo[i]] ELSE <<>>
  <2>1. 1 + (i % 16) = rem[i] + 1
    BY HexDivision
  <2>2. quo[i] = i \div 16 /\ (i \div 16 # 0 <=> mag[quo[i]] # 0)
    BY HexDivision
  <2> HIDE DEF quo, rem, mag
  <2> QED
    BY <2>1, <2>2, HexLowFirst
<1> HIDE DEF quo, rem, mag
<1>5. HasDigits(UInts, digitsHex, hexLowFirst, quo, rem, mag)
  BY <1>2, <1>3, <1>4 DEF HasDigits
<1> QED
  BY <1>5 DEF quo, rem, mag

(* What such a loop leaves, as a sequence, in length and as a number.       *)
LEMMA DigitsOf ==
  ASSUME NEW D, NEW table, NEW low, NEW quo, NEW rem, NEW mag,
         IsTable(table), HasDigits(D, table, low, quo, rem, mag),
         NEW v \in D, mag[v] < 2 * Half
  PROVE  LET s == low[v]
         IN  /\ s \in Seq(Chars) /\ Reverse(s) \in Seq(Chars)
             /\ Len(s) \in Nat /\ Len(s) >= 1 /\ Len(s) <= kMaxNumericSize - 3
             /\ Len(Reverse(s)) = Len(s)
             /\ ValueOf(Reverse(s), table) = mag[v]
             /\ Canonical(Reverse(s))
<1> DEFINE K == kMaxNumericSize - 3
<1>1. mag[v] \in Nat
  BY DEF HasDigits
<1>2. K \in 0 .. kMaxNumericSize /\ 2 * Half <= power10[K]
  BY SizeAssumption
<1>3. K \in 1 .. kMaxNumericSize /\ mag[v] < power10[K]
  <2>1. power10[K] \in Nat /\ power10[0] = 1 /\ Half \in Nat \ {0}
    BY <1>2, Powers, SizeAssumption
  <2>2. K # 0
    BY <1>2, <2>1
  <2> QED
    BY <1>1, <1>2, <2>1, <2>2
<1> HIDE DEF K
<1>4. Len(low[v]) <= K
  <2>1. kMaxNumericSize \in Nat
    BY SizeAssumption
  <2> QED
    BY <1>3, <2>1, Powers, DigitsLength
<1>5. /\ low[v] \in Seq(Chars) /\ Len(low[v]) >= 1
      /\ low[v][Len(low[v])] = "0" => Len(low[v]) = 1
  BY DigitsShape
<1>6. /\ Reverse(low[v]) \in Seq(Chars)
      /\ Len(Reverse(low[v])) = Len(low[v])
      /\ ValueOf(Reverse(low[v]), table) = mag[v]
  BY DigitsValue
<1>7. Len(low[v]) \in Nat
  BY <1>5
<1>8. Reverse(low[v])[1] = low[v][Len(low[v])]
  BY <1>5, <1>7 DEF Reverse
<1>9. Canonical(Reverse(low[v]))
  BY <1>5, <1>6, <1>7, <1>8 DEF Canonical
<1> QED
  BY <1>4, <1>5, <1>6, <1>7, <1>9 DEF K

(* The loop of convert() ...                                                *)
LEMMA DecimalLoop ==
  ASSUME NEW v \in Ints
  PROVE  LET s == lowFirst[v]
         IN  /\ s \in Seq(Chars) /\ Reverse(s) \in Seq(Chars)
             /\ Len(s) \in Nat /\ Len(s) >= 1 /\ Len(s) <= kMaxNumericSize - 3
             /\ Len(Reverse(s)) = Len(s)
             /\ ValueOf(Reverse(s), decimal) = Magnitude(v)
             /\ Canonical(Reverse(s))
<1> DEFINE quo == [i \in Ints |-> Quotient(i)]
           rem == [i \in Ints |-> Magnitude(Remainder(i))]
           mag == [i \in Ints |-> Magnitude(i)]
<1>1. IsTable(decimal) /\ HasDigits(Ints, decimal, lowFirst, quo, rem, mag)
  BY DecimalTable, DecimalDigits
<1>2. mag[v] = Magnitude(v) /\ mag[v] < 2 * Half
  BY SizeAssumption DEF Ints, Magnitude
<1> HIDE DEF quo, rem, mag
<1> QED
  BY <1>1, <1>2, DigitsOf

(* ... and that of converHex().                                             *)
LEMMA HexLoop ==
  ASSUME NEW v \in UInts
  PROVE  LET s == hexLowFirst[v]
         IN  /\ s \in Seq(Chars) /\ Reverse(s) \in Seq(Chars)
             /\ Len(s) \in Nat /\ Len(s) >= 1 /\ Len(s) <= kMaxNumericSize - 3
             /\ Len(Reverse(s)) = Len(s)
             /\ ValueOf(Reverse(s), digitsHex) = v
             /\ Canonical(Reverse(s))
<1> DEFINE quo == [i \in UInts |-> i \div 16]
           rem == [i \in UInts |-> i % 16]
           mag == [i \in UInts |-> i]
<1>1. /\ IsTable(digitsHex)
      /\ HasDigits(UInts, digitsHex, hexLowFirst, quo, rem, mag)
  BY HexTable, HexDigits
<1>2. mag[v] = v /\ mag[v] < 2 * Half
  BY SizeAssumption DEF UInts
<1> HIDE DEF quo, rem, mag
<1> QED
  BY <1>1, <1>2, DigitsOf

(* The sign is written behind the digits and comes to the front.            *)
LEMMA ReverseLast ==
  ASSUME NEW C, NEW x \in C, NEW s \in Seq(C)
  PROVE  LET r == Reverse(s \o <<x>>)
         IN  /\ r \in Seq(C) /\ Len(r) = Len(s) + 1
             /\ r[1] = x
             /\ Tail(r) = Reverse(s)
<1> DEFINE t == s \o <<x>>
           n == Len(s)
           r == Reverse(t)
<1>1. /\ n \in Nat /\ t \in Seq(C) /\ Len(t) = n + 1 /\ t[n + 1] = x
      /\ \A k \in 1 .. n : t[k] = s[k]
  OBVIOUS
<1> HIDE DEF t, n
<1>2. /\ r \in Seq(C) /\ Len(r) = n + 1
      /\ \A k \in 1 .. n + 1 : r[k] = t[n + 1 - k + 1]
  BY <1>1 DEF Reverse
<1>3. r[1] = x
  BY <1>1, <1>2
<1>4. Reverse(s) = [k \in 1 .. n |-> s[n - k + 1]]
  BY DEF Reverse, n
<1>5. ASSUME NEW k \in 1 .. n PROVE r[k + 1] = s[n - k + 1]
  <2>1. n - k + 1 \in 1 .. n /\ k + 1 \in 1 .. n + 1
        /\ n + 1 - (k + 1) + 1 = n - k + 1
    BY <1>1
  <2>2. r[k + 1] = t[n - k + 1]
    BY <1>2, <2>1
  <2> QED
    BY <1>1, <2>1, <2>2
<1> HIDE DEF r
<1>6. Tail(r) = [k \in 1 .. n |-> r[k + 1]]
  <2>1. r # <<>> /\ Tail(r) \in Seq(C) /\ Len(Tail(r)) = n
        /\ \A k \in 1 .. n : Tail(r)[k] = r[k + 1]
    BY <1>1, <1>2
  <2>2. \A q \in Seq(C) : q = [k \in 1 .. Len(q) |-> q[k]]
    OBVIOUS
  <2> QED
    BY <2>1, <2>2
<1>7. Tail(r) = Reverse(s)
  BY <1>4, <1>5, <1>6
<1> QED
  BY <1>2, <1>3, <1>7 DEF r, t, n

(* Numbers stay below kMaxNumericSize, with a sign or "0x".                 *)
LEMMA ConvertLength ==
  ASSUME NEW v \in Ints
  PROVE  /\ Len(convert(v)) \in 0 .. kMaxNumericSize - 2
         /\ v >= 0 => Len(converHex(v)) \in 0 .. kMaxNumericSize - 3
<1> DEFINE s == lowFirst[v]
<1>0. kMaxNumericSize \in Nat
  BY SizeAssumption
<1>1. /\ s \in Seq(Chars) /\ Len(s) \in Nat /\ Len(s) <= kMaxNumericSize - 3
      /\ Len(Reverse(s)) = Len(s)
  BY DecimalLoop
<1>2. Len(convert(v)) \in 0 .. kMaxNumericSize - 2
  <2> HIDE DEF s
  <2>1. CASE v < 0
    <3>1. convert(v) = Reverse(s \o <<"-">>)
      BY <2>1 DEF convert, s
    <3>2. "-" \in Chars
      BY DEF Chars
    <3>3. Len(Reverse(s \o <<"-">>)) = Len(s) + 1
      BY <1>1, <3>2, ReverseLast
    <3> QED
      BY <1>0, <1>1, <3>1, <3>3
  <2>2. CASE ~(v < 0)
    <3>1. convert(v) = Reverse(s \o <<>>)
      BY <2>2 DEF convert, s
    <3>2. s \o <<>> = s
      BY <1>1
    <3> QED
      BY <1>0, <1>1, <3>1, <3>2
  <2> QED
    BY <2>1, <2>2
<1>3. ASSUME v >= 0 PROVE Len(converHex(v)) \in 0 .. kMaxNumericSize - 3
  <2>1. v \in UInts
    BY <1>3 DEF Ints, UInts
  <2> QED
    BY <1>0, <2>1, HexLoop DEF converHex
<1> QED
  BY <1>2, <1>3

(* Every conversion is exact.                                               *)
LEMMA ConvertExact == AllExact
<1> SUFFICES ASSUME NEW v \in Ints PROVE Exact(v)
  BY DEF AllExact
<1> DEFINE s == lowFirst[v]
<1>1. /\ s \in Seq(Chars) /\ Reverse(s) \in Seq(Chars)
      /\ ValueOf(Reverse(s), decimal) = Magnitude(v)
      /\ Canonical(Reverse(s))
  BY DecimalLoop
<1>2. v \in Int
  BY Division
<1>3. CASE v < 0
  <2> HIDE DEF s
  <2>1. convert(v) = Reverse(s \o <<"-">>)
    BY <1>3 DEF convert, s
  <2>2. "-" \in Chars
    BY DEF Chars
  <2>3. convert(v)[1] = "-" /\ Tail(convert(v)) = Reverse(s)
    BY <1>1, <2>1, <2>2, ReverseLast
  <2>4. ~(v >= 0) /\ Magnitude(v) = -v
    BY <1>2, <1>3 DEF Magnitude
  <2> QED
    BY <1>1, <1>3, <2>3, <2>4 DEF Exact
<1>4. CASE ~(v < 0)
  <2>1. v \in UInts
    BY <1>2, <1>4 DEF Ints, UInts
  <2>2. ValueOf(converHex(v), digitsHex) = v /\ Canonical(converHex(v))
    BY <2>1, HexLoop DEF converHex
  <2> HIDE DEF s
  <2>3. convert(v) = Reverse(s)
    <3>1. convert(v) = Reverse(s \o <<>>)
      BY <1>4 DEF convert, s
    <3>2. s \o <<>> = s
      BY <1>1
    <3> QED
      BY <3>1, <3>2
  <2>4. Magnitude(v) = v
    BY <1>4 DEF Magnitude
  <2> QED
    BY <1>1, <1>4, <2>2, <2>3, <2>4 DEF Exact
<1> QED
  BY <1>3, <1>4

-----------------------------------------------------------------------------
(* A statement is begun only while there is a line left for it.             *)
BuildInv == lpc # "none" => lines < MaxLines

(* The line of a statement, apart from the exception that LineFits names.   *)
StreamInv ==
  \/ stream_.tight
  \/ stream_.len < SIZE /\ (lpc = "finish" => Takes(stream_, 1))

(* The members of a LogFile belong to the file it has open; without a       *)
(* LogFile nothing is buffered.                                             *)
OpenInv ==
  IF life = "open"
  THEN startOfPeriod_ = Period(lastRoll_)
  ELSE pending = {} /\ failed = FALSE /\ late = 0 /\ checkedAt = 0

(* No time is in the future unless the clock was set back.                  *)
ClockInv ==
  ~stepped => lastRoll_ <= now /\ lastFlush_ <= now /\ checkedAt <= now

(* What is buffered came after the last flush, if that has not failed.      *)
LossInv ==
  ~stepped /\ ~failed =>
    \A p \in pending : /\ lastFlush_ <= p[2] /\ p[2] <= now
                       /\ checkedAt <= p[2] + flushInterval_

(* writtenBytes_ counts what came after the first second, and more.         *)
RollInv == ~stepped => late <= writtenBytes_ /\ (now = lastRoll_ => late = 0)

(* No file has a later name than the one that is open or was last.          *)
OrderInv ==
  ~older => FilesInOrder /\ \A t \in Times : t > file => disk[t] = {}

FileInv ==
  LogFileTypeOK /\ OpenInv /\ ClockInv /\ LossInv /\ RollInv /\ OrderInv

IInv == TypeOK /\ FileInv /\ BuildInv /\ StreamInv

-----------------------------------------------------------------------------
(* The start of a period is a time of the clock.                            *)
LEMMA PeriodType == ASSUME NEW t \in Times PROVE Period(t) \in Times
<1>1. t \in Nat /\ t <= MaxTime /\ kRollPerSeconds_ \in Nat \ {0}
  BY LogFileAssumption DEF Times
<1>2. (t \div kRollPerSeconds_) * kRollPerSeconds_ <= t
  BY <1>1
<1>3. (t \div kRollPerSeconds_) * kRollPerSeconds_ \in Nat
  BY <1>1
<1> QED
  BY <1>1, <1>2, <1>3, LogFileAssumption DEF Times, Period

(* The types, one by one.                                                   *)
LEMMA FileTypes ==
  ASSUME LogFileTypeOK
  PROVE  /\ now \in Times /\ file \in Times /\ startOfPeriod_ \in Times
         /\ lastRoll_ \in Times /\ lastFlush_ \in Times /\ checkedAt \in Times
         /\ Times \subseteq Nat /\ 0 \in Times
         /\ stepped \in BOOLEAN /\ older \in BOOLEAN /\ failed \in BOOLEAN
         /\ localtime[now] \in Times /\ localtime[now] \in Nat
         /\ \A p \in pending : p[1] \in 1 .. lines /\ p[2] \in Times
         /\ now \in Nat /\ file \in Nat /\ lastFlush_ \in Nat
         /\ lastRoll_ \in Nat /\ checkedAt \in Nat /\ late \in Nat
         /\ writtenBytes_ \in Nat /\ \A p \in pending : p[2] \in Nat
         /\ rollSize_ \in Nat /\ flushInterval_ \in Nat /\ MaxTime \in Nat
         /\ checkEveryN_ \in Nat \ {0}
<1>1. Times \subseteq Nat /\ 0 \in Times /\ MaxTime \in Nat
  BY LogFileAssumption DEF Times
<1>2. /\ now \in Times /\ file \in Times /\ startOfPeriod_ \in Times
      /\ lastRoll_ \in Times /\ lastFlush_ \in Times /\ checkedAt \in Times
      /\ pending \subseteq (1 .. lines) \X Times
  BY DEF LogFileTypeOK
<1>3. \A p \in pending : p[1] \in 1 .. lines /\ p[2] \in Times
  BY <1>2
<1>4. /\ stepped \in BOOLEAN /\ older \in BOOLEAN /\ failed \in BOOLEAN
      /\ late \in Nat
  BY DEF LogFileTypeOK
<1>5. rollSize_ \in Nat /\ flushInterval_ \in Nat /\ checkEveryN_ \in Nat \ {0}
  BY LogFileAssumption
<1>6. writtenBytes_ \in Nat
  BY <1>5 DEF LogFileTypeOK
<1>7. \A t \in Times : t \in Nat
  BY <1>1
<1>8. localtime[now] \in Times
  BY <1>2, LogFileAssumption DEF Times
<1> QED
  BY <1>1, <1>2, <1>3, <1>4, <1>5, <1>6, <1>7, <1>8

(* Steps of others.                                                         *)
LEMMA FileSame ==
  ASSUME FileInv, UNCHANGED logFileVars
  PROVE  FileInv'
BY DEF FileInv, logFileVars, fileVars, dataVars, timeVars, LogFileTypeOK,
       OpenInv, ClockInv, LossInv, RollInv, OrderInv, FilesInOrder

(* LogFile() begins a file under the name of the local time.                *)
LEMMA FileConstruct ==
  ASSUME FileInv, Construct
  PROVE  FileInv'
<1>1. LogFileTypeOK /\ OpenInv /\ OrderInv
  BY DEF FileInv
<1>2. /\ life # "open" /\ life' = "open" /\ now' = now /\ disk' = disk
      /\ lines' = lines /\ pending' = pending /\ stepped' = stepped
      /\ writtenBytes_' = 0 /\ count_' = 0 /\ lastRoll_' = now
      /\ lastFlush_' = now /\ startOfPeriod_' = Period(now)
      /\ file' = localtime[now] /\ failed' = failed
      /\ late' = 0 /\ checkedAt' = now
      /\ older' = (older \/ localtime[now] < file)
  BY DEF Construct, Rolled, dataVars
<1>3. pending = {}
  BY <1>1, <1>2 DEF OpenInv
<1>4. Period(now) \in Times
  BY <1>1, PeriodType, FileTypes
<1>5. LogFileTypeOK'
  <2>1. older' \in BOOLEAN
    BY <1>1, <1>2, FileTypes
  <2>2. localtime[now] \in Times /\ now \in Times
    BY <1>1, FileTypes
  <2>3. 0 \in 0 .. rollSize_ /\ 0 \in 0 .. checkEveryN_ - 1
    BY LogFileAssumption
  <2> QED
    BY <1>1, <1>2, <1>4, <2>1, <2>2, <2>3 DEF LogFileTypeOK
<1>6. OpenInv'
  BY <1>2 DEF OpenInv, Period
<1>7. ClockInv' /\ LossInv' /\ RollInv'
  BY <1>1, <1>2, <1>3, FileTypes DEF ClockInv, LossInv, RollInv
<1>8. OrderInv'
  <2> SUFFICES ASSUME ~older' PROVE OrderInv'
    BY DEF OrderInv
  <2>1. ~older /\ ~(localtime[now] < file)
    BY <1>2
  <2>2. FilesInOrder /\ \A t \in Times : t > file => disk[t] = {}
    BY <1>1, <2>1 DEF OrderInv
  <2>3. FilesInOrder'
    BY <1>2, <2>1, <2>2 DEF FilesInOrder
  <2>4. \A t \in Times : t > localtime[now] => t > file
    BY <1>1, <2>1, FileTypes
  <2> QED
    BY <1>2, <2>2, <2>3, <2>4 DEF OrderInv
<1> QED
  BY <1>5, <1>6, <1>7, <1>8 DEF FileInv

(* The constructor does not get far with a wild fp_.                        *)
LEMMA FileConstructUninitialised ==
  ASSUME FileInv, ConstructUninitialised
  PROVE  FileInv'
<1>1. life # "open" /\ life' = "crashed"
  BY DEF ConstructUninitialised
<1> QED
  BY <1>1 DEF FileInv, ConstructUninitialised, dataVars, timeVars,
       LogFileTypeOK, OpenInv, ClockInv, LossInv, RollInv, OrderInv,
       FilesInOrder

(* flush() empties the buffer.                                              *)
LEMMA FileFlush ==
  ASSUME FileInv, Flush
  PROVE  FileInv'
<1>1. pending' = {} /\ failed' = FALSE
  BY DEF Flush
<1> QED
  BY <1>1 DEF FileInv, Flush, fileVars, timeVars, LogFileTypeOK, OpenInv,
       ClockInv, LossInv, RollInv, OrderInv, FilesInOrder

(* The LogFile goes, with or without what it had buffered.                  *)
LEMMA FileGone ==
  ASSUME FileInv, Gone, life' # "open", life' \in {"none", "crashed"},
         pending' = {}, failed' = FALSE,
         disk' \in [Times -> SUBSET (1 .. lines)],
         \A t \in Times : disk'[t] \subseteq disk[t]
  PROVE  FileInv'
<1>1. LogFileTypeOK /\ ClockInv /\ OrderInv
  BY DEF FileInv
<1>2. LogFileTypeOK'
  <2>1. 0 \in Times
    BY <1>1, FileTypes
  <2>2. 0 \in 0 .. rollSize_ /\ 0 \in 0 .. checkEveryN_ - 1
    BY LogFileAssumption
  <2> QED
    BY <1>1, <2>1, <2>2 DEF LogFileTypeOK, Gone
<1>3. OpenInv' /\ ClockInv' /\ LossInv' /\ RollInv'
  BY <1>1, FileTypes DEF Gone, OpenInv, ClockInv, LossInv, RollInv
<1>4. OrderInv'
  BY <1>1 DEF Gone, OrderInv, FilesInOrder
<1> QED
  BY <1>2, <1>3, <1>4 DEF FileInv

(* What is lost is lost from the file that is open.                         *)
LEMMA LostTakes ==
  ASSUME NEW S, NEW contents \in [Times -> SUBSET S], NEW unflushed
  PROVE  /\ Lost(contents, unflushed) \in [Times -> SUBSET S]
         /\ \A t \in Times : Lost(contents, unflushed)[t] \subseteq contents[t]
<1> DEFINE lost == {p[1] : p \in unflushed}
<1>1. Lost(contents, unflushed)
        = [contents EXCEPT ![file] = contents[file] \ lost]
  BY DEF Lost
<1> HIDE DEF lost
<1> QED
  BY <1>1

(* ~LogFile() loses what is buffered if it loses anything.                  *)
LEMMA FileDestruct ==
  ASSUME FileInv, Destruct
  PROVE  FileInv'
<1>1. disk \in [Times -> SUBSET (1 .. lines)]
  BY DEF FileInv, LogFileTypeOK
<1>2. disk' = disk \/ disk' = Lost(disk, pending)
  BY DEF Destruct, Closed
<1>3. /\ disk' \in [Times -> SUBSET (1 .. lines)]
      /\ \A t \in Times : disk'[t] \subseteq disk[t]
  BY <1>1, <1>2, LostTakes
<1> QED
  BY <1>3, FileGone DEF Destruct, Closed

(* A crash takes lines away, which leaves the others in their order.        *)
LEMMA FileCrash ==
  ASSUME FileInv, Crash
  PROVE  FileInv'
<1>1. disk \in [Times -> SUBSET (1 .. lines)] /\ disk' = Lost(disk, pending)
  BY DEF FileInv, LogFileTypeOK, Crash
<1>2. /\ disk' \in [Times -> SUBSET (1 .. lines)]
      /\ \A t \in Times : disk'[t] \subseteq disk[t]
  BY <1>1, LostTakes
<1> QED
  BY <1>2, FileGone DEF Crash

(* The clock.                                                               *)
LEMMA FileTick ==
  ASSUME FileInv, Tick
  PROVE  FileInv'
<1>1. LogFileTypeOK /\ ClockInv /\ LossInv /\ RollInv
  BY DEF FileInv
<1>2. now' = now + 1 /\ now' \in Times
  BY <1>1, FileTypes DEF Tick, Times
<1>3. LogFileTypeOK'
  BY <1>1, <1>2 DEF Tick, LogFileTypeOK, fileVars, timeVars, dataVars
<1>4. ClockInv' /\ LossInv' /\ RollInv'
  <2>0. /\ lastRoll_' = lastRoll_ /\ lastFlush_' = lastFlush_
        /\ checkedAt' = checkedAt /\ stepped' = stepped /\ failed' = failed
        /\ pending' = pending /\ late' = late
        /\ writtenBytes_' = writtenBytes_
    BY DEF Tick, fileVars, timeVars, dataVars
  <2> SUFFICES ASSUME ~stepped PROVE ClockInv' /\ LossInv' /\ RollInv'
    BY <2>0 DEF ClockInv, LossInv, RollInv
  <2>1. ClockInv'
    BY <1>1, <1>2, <2>0, FileTypes DEF ClockInv
  <2>2. LossInv'
    BY <1>1, <1>2, <2>0, FileTypes DEF LossInv
  <2>3. RollInv'
    BY <1>1, <1>2, <2>0, FileTypes DEF ClockInv, RollInv
  <2> QED
    BY <2>1, <2>2, <2>3
<1>5. OpenInv' /\ OrderInv'
  BY DEF Tick, FileInv, OpenInv, OrderInv, FilesInOrder, fileVars, timeVars,
         dataVars
<1> QED
  BY <1>3, <1>4, <1>5 DEF FileInv

(* Setting the clock back ends what holds of the times, and no more.        *)
LEMMA FileStepBack ==
  ASSUME FileInv, StepBack
  PROVE  FileInv'
<1>1. LogFileTypeOK
  BY DEF FileInv
<1>2. stepped' = TRUE /\ now' \in Times
  BY <1>1, FileTypes DEF StepBack, Times
<1>3. LogFileTypeOK'
  BY <1>1, <1>2 DEF StepBack, LogFileTypeOK, fileVars, timeVars, dataVars
<1>4. ClockInv' /\ LossInv' /\ RollInv'
  BY <1>2 DEF ClockInv, LossInv, RollInv
<1>5. OpenInv' /\ OrderInv'
  BY DEF StepBack, FileInv, OpenInv, OrderInv, FilesInOrder, fileVars,
         timeVars, dataVars
<1> QED
  BY <1>3, <1>4, <1>5 DEF FileInv

(* append() leaves the LogFile in one of three ways: rolled, after a flush  *)
(* that worked or failed, or with what is now in the buffer.                *)
Counted ==
  /\ writtenBytes_' \in 0 .. rollSize_
  /\ count_' \in 0 .. checkEveryN_ - 1
  /\ checkedAt' \in {checkedAt, now}

Kept ==
  /\ UNCHANGED <<startOfPeriod_, lastRoll_, file, older>>
  /\ late' \in Nat
  /\ ~stepped => late' <= writtenBytes_' /\ (now = lastRoll_ => late' = 0)

NameTaken ==
  /\ now > lastRoll_
  /\ Rolled
  /\ older' = (older \/ localtime[now] < file)

LeftRolled(contents, unflushed) ==
  Counted /\ NameTaken /\ Closed(contents, unflushed)

LeftFlushed(contents, unflushed) ==
  /\ Counted
  /\ Kept
  /\ lastFlush_' = now
  /\ disk' = contents
  /\ \/ pending' = {} /\ failed' = FALSE
     \/ pending' = unflushed /\ failed' = TRUE

LeftBuffered(contents, unflushed) ==
  /\ Counted
  /\ Kept
  /\ lastFlush_' = lastFlush_
  /\ Buffered(contents, unflushed)
  /\ ~stepped => \/ checkedAt' = checkedAt
                 \/ now <= lastFlush_ + flushInterval_

Left(contents, unflushed) ==
  \/ LeftRolled(contents, unflushed)
  \/ LeftFlushed(contents, unflushed)
  \/ LeftBuffered(contents, unflushed)

(* AppendTail() does one of them.  A roll by size that fails forgets bytes  *)
(* of the file's first second only, and one by period cannot fail.          *)
LEMMA TailOutcome ==
  ASSUME FileInv, life = "open", NEW written \in Nat, NEW contents,
         NEW unflushed, AppendTail(contents, written, unflushed)
  PROVE  Left(contents, unflushed)
<1> DEFINE bytes == writtenBytes_ + written
           grown == IF now > lastRoll_ THEN late + written ELSE late
           Same == /\ startOfPeriod_' = startOfPeriod_
                   /\ lastRoll_' = lastRoll_ /\ file' = file /\ older' = older
                   /\ late' = grown
           Declined == /\ lastFlush_' = lastFlush_
                       /\ Buffered(contents, unflushed)
                       /\ Same
           Looked == /\ disk' = contents /\ lastFlush_' = now
                     /\ \/ pending' = {} /\ failed' = FALSE
                        \/ pending' = unflushed /\ failed' = TRUE
           BySize == /\ bytes > rollSize_ /\ writtenBytes_' = 0
                     /\ rollFile(contents, unflushed, grown)
                     /\ count_' = count_ /\ checkedAt' = checkedAt
           Plain == /\ bytes <= rollSize_ /\ count_ + 1 < checkEveryN_
                    /\ writtenBytes_' = bytes /\ count_' = count_ + 1
                    /\ Declined
                    /\ checkedAt' = checkedAt
           ByPeriod == /\ Period(now) # startOfPeriod_
                       /\ rollFile(contents, unflushed, grown)
           ByInterval == Same /\ FlushDue /\ Looked
           NotDue == ~FlushDue /\ Declined
           Checked == /\ bytes <= rollSize_ /\ writtenBytes_' = bytes
                      /\ count_' = 0 /\ checkedAt' = now
                      /\ ByPeriod \/ ByInterval \/ NotDue
<1>1. LogFileTypeOK /\ OpenInv /\ ClockInv /\ LossInv /\ RollInv
  BY DEF FileInv
<1>2. startOfPeriod_ = Period(lastRoll_)
  BY <1>1 DEF OpenInv
<1>3. /\ now \in Nat /\ lastRoll_ \in Nat /\ late \in Nat
      /\ writtenBytes_ \in Nat
      /\ lastFlush_ \in Nat /\ flushInterval_ \in Nat /\ rollSize_ \in Nat
      /\ checkEveryN_ \in Nat \ {0} /\ stepped \in BOOLEAN
      /\ count_ \in 0 .. checkEveryN_ - 1
      /\ writtenBytes_ \in 0 .. rollSize_
  BY <1>1, FileTypes DEF LogFileTypeOK
<1>4. grown \in Nat /\ bytes \in Nat
  BY <1>3
<1>5. ~stepped => /\ lastRoll_ <= now
                  /\ grown <= bytes
                  /\ now = lastRoll_ => grown = 0
  BY <1>1, <1>3 DEF ClockInv, RollInv
<1>6. BySize \/ Plain \/ Checked
  BY Zenon DEF AppendTail, timeVars
<1>7. ASSUME rollFile(contents, unflushed, grown)
      PROVE  \/ NameTaken /\ Closed(contents, unflushed)
             \/ now <= lastRoll_ /\ Declined
  <2>1. CASE now > lastRoll_
    BY <1>7, <2>1 DEF rollFile, MayRoll, NameTaken
  <2>2. CASE ~(now > lastRoll_)
    <3>1. now <= lastRoll_
      BY <1>3, <2>2
    <3>2. Declined
      BY <1>7, <2>2 DEF rollFile, MayRoll, timeVars
    <3> QED
      BY <3>1, <3>2
  <2> QED
    BY <2>1, <2>2
<1> HIDE DEF bytes, grown
<1>8. ASSUME Same, grown <= writtenBytes_' \/ stepped,
             now = lastRoll_ => grown = 0 \/ stepped
      PROVE  Kept
  BY <1>4, <1>8 DEF Kept
<1>9. CASE BySize
  <2>1. Counted
    BY <1>3, <1>9 DEF Counted
  <2>2. CASE NameTaken /\ Closed(contents, unflushed)
    BY <2>1, <2>2 DEF Left, LeftRolled
  <2>3. CASE now <= lastRoll_ /\ Declined
    <3>1. ~stepped => grown = 0
      BY <1>3, <1>5, <2>3
    <3>2. Kept
      BY <1>8, <1>9, <2>3, <3>1
    <3> QED
      BY <1>9, <2>1, <2>3, <3>2 DEF Left, LeftBuffered
  <2> QED
    BY <1>7, <1>9, <2>2, <2>3
<1>10. CASE Plain
  <2>1. Counted
    BY <1>3, <1>4, <1>10 DEF Counted
  <2>2. Kept
    BY <1>5, <1>8, <1>10
  <2> QED
    BY <1>10, <2>1, <2>2 DEF Left, LeftBuffered
<1>11. CASE Checked
  <2>1. Counted
    BY <1>3, <1>4, <1>11 DEF Counted
  <2>2. Same => Kept
    BY <1>5, <1>8, <1>11
  <2>3. CASE ByPeriod
    <3>1. now # lastRoll_
      BY <1>2, <2>3
    <3>2. now <= lastRoll_ => stepped
      BY <1>3, <1>5, <3>1
    <3>3. CASE NameTaken /\ Closed(contents, unflushed)
      BY <2>1, <3>3 DEF Left, LeftRolled
    <3>4. CASE now <= lastRoll_ /\ Declined
      BY <2>1, <2>2, <3>2, <3>4 DEF Left, LeftBuffered
    <3> QED
      BY <1>7, <2>3, <3>3, <3>4
  <2>4. CASE ByInterval
    BY <2>1, <2>2, <2>4 DEF Left, LeftFlushed
  <2>5. CASE NotDue
    <3>1. now <= lastFlush_ + flushInterval_
      BY <1>3, <2>5 DEF FlushDue
    <3> QED
      BY <2>1, <2>2, <2>5, <3>1 DEF Left, LeftBuffered
  <2> QED
    BY <1>11, <2>3, <2>4, <2>5
<1> QED
  BY <1>6, <1>9, <1>10, <1>11

(* append(): the new line is the greatest, and goes to the last file.       *)
LEMMA FileAppend ==
  ASSUME FileInv, NEW len \in Nat, lines < MaxLines, Append_(len)
  PROVE  FileInv'
<1> DEFINE unflushed == pending \cup {<<lines + 1, now>>}
           Written == [disk EXCEPT ![file] = disk[file] \cup {lines + 1}]
<1>1. LogFileTypeOK /\ OpenInv /\ ClockInv /\ LossInv /\ RollInv /\ OrderInv
  BY DEF FileInv
<1>2. /\ life = "open" /\ life' = life /\ lines' = lines + 1 /\ now' = now
      /\ stepped' = stepped
  BY DEF Append_
<1>3. /\ lines \in Nat /\ MaxLines \in Nat
      /\ pending \subseteq (1 .. lines) \X Times
      /\ disk \in [Times -> SUBSET (1 .. lines)]
      /\ now \in Times /\ file \in Times /\ Times \subseteq Nat
      /\ now \in Nat /\ file \in Nat /\ lastFlush_ \in Nat /\ checkedAt \in Nat
      /\ lastRoll_ \in Nat /\ flushInterval_ \in Nat /\ lastFlush_ \in Times
      /\ localtime[now] \in Times /\ localtime[now] \in Nat
      /\ older \in BOOLEAN
  <2>1. /\ lines \in 0 .. MaxLines /\ pending \subseteq (1 .. lines) \X Times
        /\ disk \in [Times -> SUBSET (1 .. lines)]
    BY <1>1 DEF LogFileTypeOK
  <2>2. MaxLines \in Nat
    BY LogFileAssumption
  <2> QED
    BY <1>1, <2>1, <2>2, FileTypes
<1>4. PICK c \in {Written, disk}, u \in {unflushed, pending} : Left(c, u)
  <2>1. \/ AppendTail(Written, len, unflushed)
        \/ AppendTail(Written, 0, unflushed)
        \/ AppendTail(disk, 0, pending)
    BY DEF Append_
  <2> HIDE DEF unflushed, Written
  <2>2. CASE AppendTail(Written, len, unflushed)
    BY <1>2, <2>2, TailOutcome
  <2>3. CASE AppendTail(Written, 0, unflushed)
    BY <1>2, <2>3, TailOutcome
  <2>4. CASE AppendTail(disk, 0, pending)
    BY <1>2, <2>4, TailOutcome
  <2> QED
    BY <2>1, <2>2, <2>3, <2>4
<1>5. /\ Counted /\ pending' \subseteq unflushed
      /\ disk' = c \/ disk' = Lost(c, u)
      /\ failed' \in BOOLEAN
      /\ Kept \/ NameTaken
  BY <1>1, <1>4, FileTypes
     DEF Left, LeftRolled, LeftFlushed, LeftBuffered, Closed, Buffered
<1>6. 1 .. lines \subseteq 1 .. lines'
  BY <1>2, <1>3
<1>7. lines + 1 \in 1 .. lines'
  BY <1>2, <1>3
<1>8. /\ c \in [Times -> SUBSET (1 .. lines')]
      /\ \A t \in Times : t # file => c[t] = disk[t]
      /\ \A t \in Times : c[t] \subseteq disk[t] \cup {lines + 1}
  BY <1>3, <1>6, <1>7
<1>9. /\ disk' \in [Times -> SUBSET (1 .. lines')]
      /\ \A t \in Times : disk'[t] \subseteq c[t]
  BY <1>5, <1>8, LostTakes
<1>10. /\ \A t \in Times : t # file => disk'[t] \subseteq disk[t]
       /\ \A t \in Times : disk'[t] \subseteq disk[t] \cup {lines + 1}
  BY <1>8, <1>9
<1> HIDE DEF Written
<1>11. LogFileTypeOK'
  <2>1. pending' \subseteq (1 .. lines') \X Times
    BY <1>3, <1>5, <1>6, <1>7
  <2>2. lines' \in 0 .. MaxLines
    BY <1>2, <1>3
  <2>3. Period(now) \in Times
    BY <1>3, PeriodType
  <2>4. lastFlush_' \in Times
    BY <1>3, <1>4
       DEF Left, LeftRolled, LeftFlushed, LeftBuffered, NameTaken, Rolled
  <2>5. /\ file' \in Times /\ startOfPeriod_' \in Times /\ lastRoll_' \in Times
        /\ late' \in Nat
    BY <1>1, <1>3, <1>5, <2>3, FileTypes DEF Kept, NameTaken, Rolled
  <2>6. checkedAt' \in Times /\ now' \in Times
    BY <1>1, <1>2, <1>5, FileTypes DEF Counted
  <2>7. older' \in BOOLEAN
    BY <1>3, <1>5 DEF Kept, NameTaken
  <2> QED
    BY <1>1, <1>2, <1>5, <1>9, <2>1, <2>2, <2>4, <2>5, <2>6, <2>7
       DEF LogFileTypeOK, Counted
<1>12. OpenInv'
  BY <1>1, <1>2, <1>5 DEF OpenInv, Kept, NameTaken, Rolled, Period
<1>13. RollInv'
  <2>1. writtenBytes_' >= 0
    BY <1>1, <1>5, FileTypes DEF Counted
  <2> QED
    BY <1>2, <1>5, <2>1 DEF RollInv, Kept, NameTaken, Rolled
<1>14. ClockInv'
  BY <1>1, <1>2, <1>3, <1>4
     DEF ClockInv, Left, LeftRolled, LeftFlushed, LeftBuffered, Kept, Counted,
         NameTaken, Rolled
<1>15. LossInv'
  <2> SUFFICES ASSUME ~stepped, ~failed', NEW p \in pending'
               PROVE  /\ lastFlush_' <= p[2] /\ p[2] <= now
                      /\ checkedAt' <= p[2] + flushInterval_
    BY <1>2 DEF LossInv
  <2>1. LeftBuffered(c, u)
    BY <1>4 DEF Left, LeftRolled, LeftFlushed, Closed
  <2>2. /\ lastFlush_' = lastFlush_
        /\ \/ checkedAt' = checkedAt
           \/ checkedAt' = now /\ now <= lastFlush_ + flushInterval_
        /\ failed' = failed
    BY <2>1 DEF LeftBuffered, Counted, Buffered
  <2>3. CASE p \in pending
    <3>1. p[2] \in Nat
      BY <1>1, <2>3, FileTypes
    <3>2. /\ lastFlush_ <= p[2] /\ p[2] <= now
          /\ checkedAt <= p[2] + flushInterval_
      BY <1>1, <2>2, <2>3 DEF LossInv
    <3> QED
      BY <1>3, <2>2, <3>1, <3>2
  <2>4. CASE p = <<lines + 1, now>>
    <3>1. p[2] = now /\ lastFlush_ <= now /\ checkedAt <= now
      BY <1>1, <2>4 DEF ClockInv
    <3> QED
      BY <1>3, <2>2, <3>1
  <2> QED
    BY <1>5, <2>3, <2>4
<1>16. OrderInv'
  <2> SUFFICES ASSUME ~older' PROVE OrderInv'
    BY DEF OrderInv
  <2>1. ~older /\ file' \in Nat /\ file <= file'
    <3>1. CASE Kept
      BY <1>3, <3>1 DEF Kept
    <3>2. CASE NameTaken
      <4>1. file' = localtime[now] /\ older' = (older \/ localtime[now] < file)
        BY <3>2 DEF NameTaken, Rolled
      <4>2. ~older /\ ~(localtime[now] < file)
        BY <4>1, Zenon
      <4> QED
        BY <1>3, <4>1, <4>2
    <3> QED
      BY <1>5, <3>1, <3>2
  <2>2. /\ FilesInOrder
        /\ \A t \in Times : t > file => disk[t] = {}
    BY <1>1, <2>1 DEF OrderInv
  <2>3. \A t \in Times : t > file' => disk'[t] = {}
    BY <1>3, <1>10, <2>1, <2>2
  <2>4. ASSUME NEW s \in Times, NEW t \in Times, s < t,
               NEW l \in disk'[s], NEW m \in disk'[t]
        PROVE  l < m
    <3>1. t <= file
      BY <1>3, <1>10, <2>2, <2>4
    <3>2. s # file /\ l \in disk[s]
      BY <1>3, <1>10, <2>4, <3>1
    <3>3. l \in Nat /\ l <= lines
      BY <1>3, <3>2
    <3>4. m \in disk[t] \/ m = lines + 1
      BY <1>10
    <3>5. CASE m \in disk[t]
      BY <2>1, <2>2, <2>4, <3>2, <3>5 DEF FilesInOrder
    <3>6. CASE m = lines + 1
      BY <1>3, <3>3, <3>6
    <3> QED
      BY <3>4, <3>5, <3>6
  <2> QED
    BY <2>3, <2>4 DEF OrderInv, FilesInOrder
<1> QED
  BY <1>11, <1>12, <1>13, <1>14, <1>15, <1>16 DEF FileInv

-----------------------------------------------------------------------------
(* A line that was begun keeps within its buffer, whatever is inserted:     *)
(* append() takes an item only if it leaves a character free.               *)
Fits(b) == b \in Buffers /\ (b.tight \/ b.len < SIZE)

(* The sizes, one by one.                                                   *)
LEMMA SizeTypes ==
  /\ SIZE \in Nat \ {0} /\ kMaxNumericSize \in Nat /\ kMaxNumericSize >= 3
BY SizeAssumption

(* append() keeps within the buffer.                                        *)
LEMMA AppendFits ==
  ASSUME NEW b, Fits(b), NEW n \in Nat
  PROVE  Fits(append(b, n))
BY SizeTypes DEF Fits, Buffers, append, Takes, avail, add

(* An integer takes less than the room that is there unless it is tight,    *)
(* and then leaves more than one character.                                 *)
LEMMA InsertIntFits ==
  ASSUME NEW b, Fits(b), NEW v \in Ints
  PROVE  /\ Fits(InsertInt(b, v))
         /\ InsertInt(b, v).tight \/ Takes(InsertInt(b, v), 1)
<1> DEFINE n == Len(convert(v))
<1>1. n \in 0 .. kMaxNumericSize - 2
  BY ConvertLength
<1> HIDE DEF n
<1>2. InsertInt(b, v)
        = [add(b, n) EXCEPT !.tight = @ \/ avail(b) < kMaxNumericSize]
  BY DEF InsertInt, n
<1>3. b \in Buffers /\ b.len \in Nat /\ b.tight \in BOOLEAN
  BY DEF Fits, Buffers
<1>4. InsertInt(b, v)
        = [len |-> b.len + n,
           tight |-> (b.tight \/ avail(b) < kMaxNumericSize)]
  BY <1>2, <1>3 DEF add, Buffers
<1>5. InsertInt(b, v) \in Buffers
  BY <1>1, <1>3, <1>4, SizeTypes DEF Buffers
<1>6. ASSUME ~InsertInt(b, v).tight
      PROVE  InsertInt(b, v).len < SIZE - 1
  <2> DEFINE c == b.tight \/ avail(b) < kMaxNumericSize
  <2>0. InsertInt(b, v).tight = c
    <3>1. InsertInt(b, v) = [len |-> b.len + n, tight |-> c]
      BY <1>4
    <3> HIDE DEF c
    <3> QED
      BY <3>1
  <2>1. ~(SIZE - b.len < kMaxNumericSize)
    BY <1>6, <2>0, Zenon DEF avail
  <2>2. InsertInt(b, v).len = b.len + n
    BY <1>4
  <2> QED
    BY <1>1, <1>3, <2>1, <2>2, SizeTypes
<1> QED
  BY <1>3, <1>4, <1>5, <1>6, <1>1, SizeTypes DEF Fits, Takes, avail

(* Pointers and doubles are left out where there is no room.                *)
LEMMA InsertPointerFits ==
  ASSUME NEW b, Fits(b), NEW v \in Ints, v \in Nat
  PROVE  Fits(InsertPointer(b, v))
<1> DEFINE n == Len(converHex(v))
<1>1. n \in 0 .. kMaxNumericSize - 3
  BY ConvertLength
<1> HIDE DEF n
<1>2. InsertPointer(b, v) = IF Room(b) THEN add(b, 2 + n) ELSE b
  BY DEF InsertPointer, n
<1> QED
  BY <1>1, <1>2, SizeTypes DEF Fits, Buffers, Room, avail, add

(* A double takes less than the room that was asked for.                   *)
LEMMA InsertDoubleFits ==
  ASSUME NEW b, Fits(b), NEW n \in Doubles
  PROVE  Fits(InsertDouble(b, n))
BY SizeTypes, LoggingAssumption
   DEF Fits, Buffers, InsertDouble, Room, avail, add

(* An empty buffer has room, for there is no SIZE of 0.                     *)
LEMMA EmptyFits == Fits(Empty)
BY SizeTypes DEF Fits, Buffers, Empty

-----------------------------------------------------------------------------
(* The parts of the invariant that do not concern the file.                 *)
StatementType ==
  /\ g_logLevel \in {"INFO", "WARN"} /\ g_output \in {"stdout", "file"}
  /\ lpc \in {"none", "build", "finish"} /\ items \in 0 .. MaxItems
  /\ stream_ \in Buffers

(* They and FileInv are the whole.                                          *)
LEMMA Parts == IInv <=> FileInv /\ StatementType /\ BuildInv /\ StreamInv
BY DEF IInv, TypeOK, StatementType, FileInv

(* The same after a step.                                                   *)
LEMMA PartsNext ==
  ASSUME FileInv', StatementType', BuildInv', StreamInv'
  PROVE  IInv'
BY DEF IInv, TypeOK, StatementType, FileInv

(* The line that is being built fits.                                       *)
LEMMA StreamFits ==
  ASSUME IInv
  PROVE  Fits(stream_)
BY DEF IInv, TypeOK, StreamInv, Fits

(* What a step of a statement has to leave.                                 *)
LEMMA StreamKept ==
  ASSUME Fits(stream_'), lpc' # "finish"
  PROVE  StreamInv' /\ stream_' \in Buffers
BY DEF Fits, StreamInv

(* Initially there is neither a LogFile nor a statement.                    *)
LEMMA InitInv == Init => IInv
<1> SUFFICES ASSUME Init PROVE IInv
  OBVIOUS
<1>1. Fits(stream_)
  BY EmptyFits DEF Init
<1>2. /\ now = 1 /\ life = "none" /\ file = 0 /\ writtenBytes_ = 0
      /\ count_ = 0 /\ startOfPeriod_ = 0 /\ lastRoll_ = 0 /\ lastFlush_ = 0
      /\ disk = [t \in Times |-> {}] /\ lines = 0 /\ pending = {}
      /\ stepped = FALSE /\ older = FALSE /\ failed = FALSE
      /\ checkedAt = 0 /\ late = 0
  BY DEF Init, LogFileInit
<1>3. StatementType /\ BuildInv /\ StreamInv
  BY <1>1, LoggingAssumption
     DEF Init, StatementType, BuildInv, StreamInv, Fits
<1>4. LogFileTypeOK
  <2>1. 0 \in Times /\ 1 \in Times
    BY LogFileAssumption DEF Times
  <2>2. disk \in [Times -> SUBSET (1 .. lines)]
    BY <1>2
  <2>3. /\ writtenBytes_ \in 0 .. rollSize_ /\ count_ \in 0 .. checkEveryN_ - 1
        /\ lines \in 0 .. MaxLines
    BY <1>2, LogFileAssumption
  <2> QED
    BY <1>2, <2>1, <2>2, <2>3 DEF LogFileTypeOK
<1>5. OpenInv /\ ClockInv /\ LossInv /\ RollInv
  BY <1>2 DEF OpenInv, ClockInv, LossInv, RollInv
<1>6. OrderInv
  BY <1>2 DEF OrderInv, FilesInOrder
<1> QED
  BY <1>3, <1>4, <1>5, <1>6, Parts DEF FileInv

(* Logger(): the time and the level's name, where they fit.                 *)
LEMMA StepBegin ==
  ASSUME IInv, NEW level \in {"INFO", "WARN"}, Begin(level)
  PROVE  IInv'
<1>1. FileInv'
  BY Parts, FileSame DEF Begin
<1>2. Fits(stream_')
  <2>1. stream_' = append(append(Empty, TimeLen), NameLen)
    BY DEF Begin
  <2>2. TimeLen \in Nat /\ NameLen \in Nat
    BY LoggingAssumption
  <2> QED
    BY <2>1, <2>2, EmptyFits, AppendFits
<1>3. StreamInv' /\ stream_' \in Buffers
  BY <1>2, StreamKept DEF Begin
<1>4. lines' = lines
  BY DEF Begin, logFileVars, dataVars
<1>5. StatementType' /\ BuildInv'
  BY <1>3, <1>4, Parts DEF Begin, StatementType, BuildInv, globalVars
<1> QED
  BY <1>1, <1>3, <1>5, PartsNext

(* Insert: by the kind of the item.                                         *)
LEMMA StepInsert ==
  ASSUME IInv, Insert
  PROVE  IInv'
<1>1. FileInv'
  BY Parts, FileSame DEF Insert
<1>2. Fits(stream_')
  <2>1. Fits(stream_)
    BY StreamFits
  <2>2. CASE \E n \in Texts : stream_' = append(stream_, n)
    BY <2>1, <2>2, AppendFits, LoggingAssumption
  <2>3. CASE \E v \in Numbers : stream_' = InsertInt(stream_, v)
    BY <2>1, <2>3, InsertIntFits, LoggingAssumption
  <2>4. CASE \E v \in Numbers \cap Nat : stream_' = InsertPointer(stream_, v)
    BY <2>1, <2>4, InsertPointerFits, LoggingAssumption
  <2>5. CASE \E n \in Doubles : stream_' = InsertDouble(stream_, n)
    BY <2>1, <2>5, InsertDoubleFits
  <2> QED
    BY <2>2, <2>3, <2>4, <2>5 DEF Insert
<1>3. StreamInv' /\ stream_' \in Buffers
  BY <1>2, StreamKept DEF Insert
<1>4. lines' = lines
  BY DEF Insert, logFileVars, dataVars
<1>5. items' \in 0 .. MaxItems
  BY Parts, LoggingAssumption DEF Insert, StatementType
<1>6. StatementType' /\ BuildInv'
  BY <1>3, <1>4, <1>5, Parts DEF Insert, StatementType, BuildInv, globalVars
<1> QED
  BY <1>1, <1>3, <1>6, PartsNext

(* finish() ends with an integer, so that the newline has room.             *)
LEMMA StepFinish ==
  ASSUME IInv, Finish
  PROVE  IInv'
<1>1. FileInv'
  BY Parts, FileSame DEF Finish
<1>2. PICK line_ \in Numbers \cap Nat :
        stream_' = InsertInt(append(append(append(stream_, 3), BasenameLen),
                                    1), line_)
  BY DEF Finish
<1>3. Fits(append(append(append(stream_, 3), BasenameLen), 1))
  <2>1. BasenameLen \in Nat
    BY LoggingAssumption
  <2> QED
    BY <2>1, StreamFits, AppendFits
<1>4. line_ \in Ints
  BY LoggingAssumption
<1>5. Fits(stream_') /\ (stream_'.tight \/ Takes(stream_', 1))
  BY <1>2, <1>3, <1>4, InsertIntFits
<1>6. StreamInv' /\ stream_' \in Buffers
  BY <1>5 DEF Fits, StreamInv, Takes, avail
<1>7. lines' = lines
  BY DEF Finish, logFileVars, dataVars
<1>8. StatementType' /\ BuildInv'
  BY <1>6, <1>7, Parts DEF Finish, StatementType, BuildInv, globalVars
<1> QED
  BY <1>1, <1>6, <1>8, PartsNext

(* ~Logger(): the line goes to the file, or the process ends.               *)
LEMMA StepOutput ==
  ASSUME IInv, Output
  PROVE  IInv'
<1>1. FileInv /\ lines < MaxLines /\ stream_ \in Buffers
  BY Parts DEF Output, BuildInv, StatementType
<1>2. FileInv'
  <2>1. append(stream_, 1).len \in Nat
    BY <1>1 DEF append, add, Buffers
  <2> QED
    BY <1>1, <2>1, FileCrash, FileAppend, FileSame DEF Output
<1>3. Fits(stream_')
  BY EmptyFits DEF Output
<1>4. StreamInv' /\ stream_' \in Buffers
  BY <1>3, StreamKept DEF Output
<1>5. StatementType' /\ BuildInv'
  BY <1>4, Parts, LoggingAssumption
     DEF Output, StatementType, BuildInv, globalVars
<1> QED
  BY <1>2, <1>4, <1>5, PartsNext

(* Between statements nothing is left of the last one.                      *)
LEMMA StepOutside ==
  ASSUME IInv, SetOutput \/ Construct_ \/ FileStep
         \/ \E level \in {"INFO", "WARN"} : SetLogLevel(level)
  PROVE  IInv'
<1>1. /\ lpc = "none" /\ lpc' = lpc /\ stream_' = stream_ /\ items' = items
      /\ g_logLevel' \in {"INFO", "WARN"} /\ g_output' \in {"stdout", "file"}
  BY Parts DEF SetOutput, Construct_, FileStep, SetLogLevel, StatementType,
               globalVars
<1>2. FileInv'
  <2>1. FileInv
    BY Parts
  <2>2. CASE SetOutput \/ \E level \in {"INFO", "WARN"} : SetLogLevel(level)
    BY <2>1, <2>2, FileSame DEF SetOutput, SetLogLevel
  <2>3. CASE Construct_
    BY <2>1, <2>3, FileConstruct DEF Construct_
  <2>4. CASE FileStep
    BY <2>1, <2>4, FileConstructUninitialised, FileFlush, FileDestruct,
       FileCrash, FileTick, FileStepBack DEF FileStep
  <2> QED
    BY <2>2, <2>3, <2>4
<1>3. StatementType' /\ BuildInv' /\ StreamInv'
  BY <1>1, Parts DEF StatementType, BuildInv, StreamInv
<1> QED
  BY <1>2, <1>3, PartsNext

(* A step that changes nothing.                                             *)
LEMMA StepStutter ==
  ASSUME IInv, UNCHANGED vars
  PROVE  IInv'
<1>1. /\ lpc' = lpc /\ stream_' = stream_ /\ items' = items /\ lines' = lines
      /\ g_logLevel' = g_logLevel /\ g_output' = g_output
      /\ UNCHANGED logFileVars
  BY DEF vars, globalVars, logFileVars, dataVars
<1>2. FileInv'
  BY <1>1, Parts, FileSame
<1>3. StatementType' /\ BuildInv' /\ StreamInv'
  BY <1>1, Parts DEF StatementType, BuildInv, StreamInv
<1> QED
  BY <1>2, <1>3, PartsNext

-----------------------------------------------------------------------------
(* The invariant of the statements and of the file is inductive: whatever a *)
(* thread logs, however the clock is set and whenever the process ends.     *)
THEOREM LoggingInductive == Spec => []IInv
<1>1. IInv /\ [Next]_vars => IInv'
  <2> SUFFICES ASSUME IInv, [Next]_vars PROVE IInv'
    OBVIOUS
  <2> QED
    BY StepBegin, StepInsert, StepFinish, StepOutput, StepOutside, StepStutter
       DEF Next
<1> QED
  BY <1>1, InitInv, PTL DEF Spec

(* A line fits its buffer, newline included, unless an integer was inserted *)
(* where less than kMaxNumericSize was free.                                *)
THEOREM LinesFit == Spec => []LineFits
<1>1. IInv => LineFits
  BY DEF IInv, StreamInv, LineFits
<1> QED
  BY <1>1, LoggingInductive, PTL

(* convert() and converHex() write any integer of the range exactly.        *)
THEOREM ConversionsAreExact == Spec => []ConversionsExact
<1>1. ConversionsExact
  BY ConvertExact DEF ConversionsExact
<1> QED
  BY <1>1, PTL

(* The files hold the lines in order unless a process began with an older   *)
(* name, or a roll after the end of summer time took one.                   *)
THEOREM FilesStayInOrder == Spec => []FilesInOrder
<1>1. IInv => FilesInOrder
  BY DEF IInv, FileInv, OrderInv, FilesInOrder
<1> QED
  BY <1>1, LoggingInductive, PTL

(* A crash loses only lines that were recent when append() last looked,     *)
(* unless the clock was set back or the last due flush failed.              *)
THEOREM LossIsBounded == Spec => []BoundedLoss
<1>1. IInv => BoundedLoss
  BY DEF IInv, FileInv, LossInv, BoundedLoss
<1> QED
  BY <1>1, LoggingInductive, PTL

(* A line goes to no file that has already passed rollSize_, not counting   *)
(* what it got in its first second, unless the clock was set back.          *)
THEOREM RollsAreInTime == Spec => RollsInTime
<1>1. IInv => stepped \/ late <= rollSize_
  <2> SUFFICES ASSUME IInv PROVE stepped \/ late <= rollSize_
    OBVIOUS
  <2>1. FileInv /\ LogFileTypeOK /\ RollInv
    BY DEF IInv, FileInv
  <2> QED
    BY <2>1, FileTypes DEF RollInv, LogFileTypeOK
<1>2. IInv /\ [Next]_vars
        => [lines' # lines => stepped \/ late <= rollSize_]_logFileVars
  BY <1>1
<1> QED
  BY <1>2, LoggingInductive, PTL DEF Spec, RollsInTime

=============================================================================
