--------------------------- MODULE ConsoleProofs ---------------------------
(***************************************************************************)
(* Console for any number of processes, any size of the ring and any width *)
(* of its indices: no reader sleeps while there is something to read, and  *)
(* the ring with its three indices, which wrap, is a LineBuffer.           *)
(*                                                                         *)
(* What is in the ring from an index on is a Slice; the lemmas about       *)
(* slices speak of numbers and functions only.                             *)
(***************************************************************************)
EXTENDS Console, Integers, SequenceTheorems, TLAPS

-----------------------------------------------------------------------------
(* Remainders *)

LEMMA Division ==
  ASSUME NEW m \in Nat \ {0}, NEW a \in Int
  PROVE  a = (m * (a \div m)) + (a % m) /\ a \div m \in Int /\ a % m \in 0 .. m - 1
  OBVIOUS

LEMMA Remainder ==
  ASSUME NEW m \in Nat \ {0}, NEW q \in Int, NEW rest \in 0 .. m - 1
  PROVE  ((m * q) + rest) % m = rest
  OBVIOUS

LEMMA NoMultipleBetween ==
  ASSUME NEW m \in Nat \ {0}, NEW q \in Int, - m < m * q, m * q < m
  PROVE  q = 0
  OBVIOUS

\* Counting on by a multiple of m changes nothing.
LEMMA RemainderShift ==
  ASSUME NEW m \in Nat \ {0}, NEW q \in Int, NEW a \in Int
  PROVE  ((m * q) + a) % m = a % m
<1> DEFINE k == a \div m
           rest == a % m
<1>1. a = (m * k) + rest /\ k \in Int /\ rest \in 0 .. m - 1
  BY Division
<1> HIDE DEF k, rest
<1>2. (m * q) + a = (m * (q + k)) + rest /\ q + k \in Int
  BY <1>1
<1>3. ((m * (q + k)) + rest) % m = rest
  BY <1>1, <1>2, Remainder
<1> QED
  BY <1>2, <1>3 DEF rest

\* Numbers less than m apart have different remainders.
LEMMA RemaindersDiffer ==
  ASSUME NEW m \in Nat \ {0}, NEW a \in Int, NEW b \in Int, a < b, b < a + m
  PROVE  a % m # b % m
<1> SUFFICES ASSUME a % m = b % m PROVE FALSE
  OBVIOUS
<1> DEFINE k == a \div m
           l == b \div m
           rest == a % m
<1>1. a = (m * k) + rest /\ b = (m * l) + rest /\ k \in Int /\ l \in Int /\ rest \in 0 .. m - 1
  BY Division
<1> HIDE DEF k, l, rest
<1>2. b - a = m * (l - k) /\ l - k \in Int
  BY <1>1
<1>3. l - k = 0
  BY <1>2, NoMultipleBetween
<1> QED
  BY <1>1, <1>3

LEMMA WrapOnce ==
  ASSUME NEW m \in Nat \ {0}, NEW a \in 0 .. 2 * m - 1
  PROVE  /\ a < m => a % m = a
         /\ a >= m => a % m = a - m
<1>1. CASE a < m
  BY <1>1
<1>2. CASE a >= m
  <2>1. a = (m * 1) + (a - m) /\ a - m \in 0 .. m - 1
    BY <1>2
  <2> QED
    BY <1>2, <2>1, Remainder
<1> QED
  BY <1>1, <1>2

-----------------------------------------------------------------------------
(* The indices *)

Index == 0 .. UintSize - 1

LEMMA Constants ==
  ASSUME ConsoleAssumption
  PROVE  /\ INPUT_BUF \in Nat \ {0} /\ UintSize \in Nat \ {0} /\ UintSize > INPUT_BUF
         /\ 0 \in Index /\ Index \subseteq Int
         /\ Newline \in Char /\ CtrlD \in Char
         /\ Request \subseteq Nat /\ NoProc \notin Proc
         /\ \E q \in Int : UintSize = INPUT_BUF * q
<1>1. INPUT_BUF \in Nat \ {0} /\ UintSize \in Nat /\ UintSize > INPUT_BUF
  BY DEF ConsoleAssumption
<1>2. 0 \in Index /\ Index \subseteq Int /\ UintSize \in Nat \ {0}
  BY <1>1 DEF Index
<1>3. /\ UintSize = (INPUT_BUF * (UintSize \div INPUT_BUF)) + (UintSize % INPUT_BUF)
      /\ UintSize \div INPUT_BUF \in Int
  BY <1>1, Division
<1>4. UintSize % INPUT_BUF = 0
  BY DEF ConsoleAssumption
<1> DEFINE q == UintSize \div INPUT_BUF
<1>5. UintSize = INPUT_BUF * q /\ q \in Int
  BY <1>1, <1>3, <1>4
<1> HIDE DEF q
<1>6. /\ Newline \in Char /\ CtrlD \in Char
      /\ Request \subseteq Nat /\ NoProc \notin Proc
  BY DEF ConsoleAssumption
<1> QED
  BY <1>1, <1>2, <1>5, <1>6

LEMMA IncIs ==
  ASSUME ConsoleAssumption, NEW a \in Index
  PROVE  Inc(a) \in Index /\ Inc(a) = IF a + 1 = UintSize THEN 0 ELSE a + 1
<1>1. a \in Int /\ UintSize \in Nat \ {0} /\ a + 1 \in 0 .. 2 * UintSize - 1 /\ 0 <= a
      /\ a < UintSize
  BY Constants DEF Index
<1>2. /\ a + 1 < UintSize => (a + 1) % UintSize = a + 1
      /\ a + 1 >= UintSize => (a + 1) % UintSize = a + 1 - UintSize
  BY <1>1, WrapOnce
<1> QED
  BY <1>1, <1>2 DEF Inc, Index

LEMMA DecIs ==
  ASSUME ConsoleAssumption, NEW a \in Index
  PROVE  Dec(a) \in Index /\ Dec(a) = IF a = 0 THEN UintSize - 1 ELSE a - 1
<1>1. /\ a \in Int /\ UintSize \in Nat \ {0} /\ 0 <= a /\ a < UintSize
      /\ a + UintSize - 1 \in 0 .. 2 * UintSize - 1
  BY Constants DEF Index
<1> DEFINE b == a + UintSize - 1
<1>2. /\ b < UintSize => b % UintSize = b
      /\ b >= UintSize => b % UintSize = b - UintSize
  BY <1>1, WrapOnce
<1> QED
  BY <1>1, <1>2 DEF Dec, Index

LEMMA DistIs ==
  ASSUME ConsoleAssumption, NEW a \in Index, NEW b \in Index
  PROVE  Dist(a, b) \in Index /\ Dist(a, b) = IF b >= a THEN b - a ELSE b - a + UintSize
<1>1. /\ a \in Int /\ b \in Int /\ UintSize \in Nat \ {0} /\ 0 <= a /\ 0 <= b
      /\ a < UintSize /\ b < UintSize
      /\ b + UintSize - a \in 0 .. 2 * UintSize - 1
  BY Constants DEF Index
<1> DEFINE d == b + UintSize - a
<1>2. /\ d < UintSize => d % UintSize = d
      /\ d >= UintSize => d % UintSize = d - UintSize
  BY <1>1, WrapOnce
<1> QED
  BY <1>1, <1>2 DEF Dist, Index

\* How distances change with the index behind, or the one in front.
LEMMA DistSteps ==
  ASSUME ConsoleAssumption, NEW a \in Index, NEW b \in Index
  PROVE  /\ Dist(a, a) = 0
         /\ Dist(a, b) = 0 => a = b
         /\ Dist(a, b) < INPUT_BUF => Dist(a, Inc(b)) = Dist(a, b) + 1
         /\ Dist(a, b) < INPUT_BUF =>
              (Inc(b) = (a + INPUT_BUF) % UintSize <=> Dist(a, b) + 1 = INPUT_BUF)
         /\ a # b => Dist(a, Dec(b)) = Dist(a, b) - 1
         /\ a # b => Dist(Inc(a), b) = Dist(a, b) - 1
<1>1. /\ a \in Int /\ b \in Int /\ 0 <= a /\ 0 <= b /\ a < UintSize /\ b < UintSize
      /\ UintSize \in Nat /\ INPUT_BUF \in Nat /\ INPUT_BUF < UintSize
  BY Constants DEF Index
<1>2. Inc(b) \in Index /\ Inc(a) \in Index /\ Dec(b) \in Index
  BY IncIs, DecIs
<1>3. /\ Dist(a, a) = 0
      /\ Dist(a, b) = IF b >= a THEN b - a ELSE b - a + UintSize
  BY <1>1, DistIs
<1>4. Dist(a, b) < INPUT_BUF => Dist(a, Inc(b)) = Dist(a, b) + 1
  <2>1. Dist(a, Inc(b)) = IF Inc(b) >= a THEN Inc(b) - a ELSE Inc(b) - a + UintSize
    BY <1>2, DistIs
  <2>2. Inc(b) = IF b + 1 = UintSize THEN 0 ELSE b + 1
    BY IncIs
  <2> QED
    BY <1>1, <1>3, <2>1, <2>2
<1>5. a # b => Dist(a, Dec(b)) = Dist(a, b) - 1
  <2>1. Dist(a, Dec(b)) = IF Dec(b) >= a THEN Dec(b) - a ELSE Dec(b) - a + UintSize
    BY <1>2, DistIs
  <2>2. Dec(b) = IF b = 0 THEN UintSize - 1 ELSE b - 1
    BY DecIs
  <2> QED
    BY <1>1, <1>3, <2>1, <2>2
<1>6. a # b => Dist(Inc(a), b) = Dist(a, b) - 1
  <2>1. Dist(Inc(a), b) = IF b >= Inc(a) THEN b - Inc(a) ELSE b - Inc(a) + UintSize
    BY <1>2, DistIs
  <2>2. Inc(a) = IF a + 1 = UintSize THEN 0 ELSE a + 1
    BY IncIs
  <2> QED
    BY <1>1, <1>3, <2>1, <2>2
<1>7. Dist(a, b) < INPUT_BUF =>
        (Inc(b) = (a + INPUT_BUF) % UintSize <=> Dist(a, b) + 1 = INPUT_BUF)
  <2> DEFINE c == a + INPUT_BUF
  <2>1. c \in 0 .. 2 * UintSize - 1 /\ UintSize \in Nat \ {0}
    BY <1>1
  <2>2. /\ c < UintSize => c % UintSize = c
        /\ c >= UintSize => c % UintSize = c - UintSize
    <3> HIDE DEF c
    <3> QED
      BY <2>1, WrapOnce
  <2>3. Inc(b) = IF b + 1 = UintSize THEN 0 ELSE b + 1
    BY IncIs
  <2>4. PICK x : x = c % UintSize
    OBVIOUS
  <2>5. /\ c < UintSize => x = c
        /\ c >= UintSize => x = c - UintSize
    <3> HIDE DEF c
    <3> QED
      BY <2>2, <2>4
  <2>6. Dist(a, b) < INPUT_BUF => (Inc(b) = x <=> Dist(a, b) + 1 = INPUT_BUF)
    BY <1>1, <1>3, <2>3, <2>5
  <2> QED
    BY <2>4, <2>6
<1> QED
  BY <1>1, <1>3, <1>4, <1>5, <1>6, <1>7

-----------------------------------------------------------------------------
(* Slices of the ring *)

Slice(f, a, len) == [k \in 1 .. len |-> f[(a + k - 1) % INPUT_BUF]]

Ring == [0 .. INPUT_BUF - 1 -> Char]

LEMMA SliceType ==
  ASSUME ConsoleAssumption, NEW f \in Ring, NEW a \in Int, NEW len \in Nat
  PROVE  /\ Slice(f, a, len) \in Seq(Char) /\ Len(Slice(f, a, len)) = len
         /\ \A k \in 1 .. len : /\ Slice(f, a, len)[k] = f[(a + k - 1) % INPUT_BUF]
                                /\ (a + k - 1) % INPUT_BUF \in 0 .. INPUT_BUF - 1
<1>1. \A k \in 1 .. len : (a + k - 1) % INPUT_BUF \in 0 .. INPUT_BUF - 1
  <2> TAKE k \in 1 .. len
  <2> DEFINE x == a + k - 1
  <2>1. x \in Int /\ INPUT_BUF \in Nat \ {0}
    BY Constants
  <2> HIDE DEF x
  <2>2. x % INPUT_BUF \in 0 .. INPUT_BUF - 1
    BY <2>1, Division
  <2> QED
    BY <2>2 DEF x
<1>2. \A k \in 1 .. len : f[(a + k - 1) % INPUT_BUF] \in Char
  BY <1>1 DEF Ring
<1>3. PICK s : s = Slice(f, a, len)
  OBVIOUS
<1>4. /\ s \in [1 .. len -> Char]
      /\ \A k \in 1 .. len : s[k] = f[(a + k - 1) % INPUT_BUF]
  BY <1>2, <1>3 DEF Slice
<1>5. s \in Seq(Char) /\ Len(s) = len
  BY <1>4
<1> QED
  BY <1>1, <1>3, <1>4, <1>5

\* What is in the ring does not depend on how often the indices wrapped.
LEMMA SliceWraps ==
  ASSUME ConsoleAssumption, NEW f, NEW a \in Int, NEW len \in Nat
  PROVE  Slice(f, a + UintSize, len) = Slice(f, a, len)
<1>1. PICK q \in Int : UintSize = INPUT_BUF * q
  BY Constants
<1>2. \A k \in 1 .. len : ((a + UintSize) + k - 1) % INPUT_BUF = (a + k - 1) % INPUT_BUF
  <2> TAKE k \in 1 .. len
  <2> DEFINE c == a + k - 1
  <2>1. (a + UintSize) + k - 1 = (INPUT_BUF * q) + c /\ c \in Int /\ INPUT_BUF \in Nat \ {0}
    BY <1>1, Constants
  <2> HIDE DEF c
  <2>2. ((INPUT_BUF * q) + c) % INPUT_BUF = c % INPUT_BUF
    BY <2>1, RemainderShift
  <2> QED
    BY <2>1, <2>2 DEF c
<1> QED
  BY <1>2 DEF Slice

\* Setting a place that is not in the slice, or the one after it.
SetsBeyond(f, a, len, m, c, g) ==
  /\ f \in Ring /\ a \in Int /\ len \in Nat /\ m \in Nat /\ c \in Char
  /\ len <= m /\ m < INPUT_BUF
  /\ g = [f EXCEPT ![(a + m) % INPUT_BUF] = c]

LEMMA SliceSet ==
  ASSUME ConsoleAssumption, NEW f, NEW a, NEW len, NEW m, NEW c, NEW g,
         SetsBeyond(f, a, len, m, c, g)
  PROVE  /\ g \in Ring
         /\ Slice(g, a, len) = Slice(f, a, len)
         /\ m = len => Slice(g, a, len + 1) = Append(Slice(f, a, len), c)
<1>0. /\ f \in Ring /\ a \in Int /\ len \in Nat /\ m \in Nat /\ c \in Char
      /\ len <= m /\ m < INPUT_BUF
      /\ g = [f EXCEPT ![(a + m) % INPUT_BUF] = c]
  BY DEF SetsBeyond
<1>1. INPUT_BUF \in Nat \ {0} /\ a + m \in Int
  BY <1>0, Constants
<1>2. (a + m) % INPUT_BUF \in 0 .. INPUT_BUF - 1
  BY <1>1, Division
<1>3. g \in Ring
  BY <1>0, <1>2 DEF Ring
<1>4. \A k \in 1 .. len : (a + k - 1) % INPUT_BUF # (a + m) % INPUT_BUF
  <2> TAKE k \in 1 .. len
  <2> DEFINE x == a + k - 1
             y == a + m
  <2>1. x \in Int /\ y \in Int /\ x < y /\ y < x + INPUT_BUF
    BY <1>0, <1>1
  <2> HIDE DEF x, y
  <2>2. x % INPUT_BUF # y % INPUT_BUF
    BY <1>1, <2>1, RemaindersDiffer
  <2> QED
    BY <2>2 DEF x, y
<1>5. \A k \in 1 .. len : g[(a + k - 1) % INPUT_BUF] = f[(a + k - 1) % INPUT_BUF]
  <2> TAKE k \in 1 .. len
  <2> DEFINE x == (a + k - 1) % INPUT_BUF
             y == (a + m) % INPUT_BUF
  <2>1. x \in 0 .. INPUT_BUF - 1 /\ x # y
    BY <1>0, <1>4, SliceType
  <2> HIDE DEF x, y
  <2>2. g = [f EXCEPT ![y] = c] /\ f \in [0 .. INPUT_BUF - 1 -> Char]
    BY <1>0 DEF y, Ring
  <2>3. g[x] = f[x]
    BY <2>1, <2>2
  <2> QED
    BY <2>3 DEF x
<1>7. PICK l \in Nat : l = len + 1
  BY <1>0
<1>8. /\ Slice(g, a, l) \in Seq(Char) /\ Len(Slice(g, a, l)) = l
      /\ \A k \in 1 .. l : Slice(g, a, l)[k] = g[(a + k - 1) % INPUT_BUF]
  <2>1. \A h \in Ring : /\ Slice(h, a, l) \in Seq(Char) /\ Len(Slice(h, a, l)) = l
                        /\ \A k \in 1 .. l : Slice(h, a, l)[k] = h[(a + k - 1) % INPUT_BUF]
    BY <1>0, SliceType
  <2> QED
    BY <1>3, <2>1, Zenon
<1>6. Slice(g, a, len) = Slice(f, a, len)
  BY <1>5 DEF Slice
<1>9. ASSUME m = len PROVE Slice(g, a, len + 1) = Append(Slice(f, a, len), c)
  <2>1. Slice(f, a, len) \in Seq(Char) /\ Len(Slice(f, a, len)) = len
    BY <1>0, SliceType
  <2> DEFINE s == Append(Slice(f, a, len), c)
             t == Slice(g, a, len + 1)
  <2>2. /\ s \in Seq(Char) /\ Len(s) = len + 1
        /\ \A k \in 1 .. len : s[k] = Slice(f, a, len)[k]
        /\ s[len + 1] = c
    BY <1>0, <2>1, AppendProperties
  <2>3. /\ t \in Seq(Char) /\ Len(t) = len + 1
        /\ \A k \in 1 .. len + 1 : t[k] = g[(a + k - 1) % INPUT_BUF]
    BY <1>7, <1>8
  <2>4. t[len + 1] = c
    <3>1. a + (len + 1) - 1 = a + m /\ len + 1 \in 1 .. len + 1
      BY <1>0, <1>9
    <3>2. t[len + 1] = g[(a + (len + 1) - 1) % INPUT_BUF]
      BY <2>3, <3>1
    <3>3. PICK y : y = (a + m) % INPUT_BUF
      OBVIOUS
    <3>4. g = [f EXCEPT ![y] = c] /\ f \in [0 .. INPUT_BUF - 1 -> Char] /\ y \in 0 .. INPUT_BUF - 1
      BY <1>0, <1>2, <3>3 DEF Ring
    <3>5. g[y] = c
      BY <3>4
    <3> QED
      BY <3>1, <3>2, <3>3, <3>5
  <2>5. \A k \in 1 .. len : t[k] = s[k]
    <3> TAKE k \in 1 .. len
    <3>1. Slice(f, a, len)[k] = f[(a + k - 1) % INPUT_BUF]
      BY <1>0, SliceType
    <3>2. k \in 1 .. len + 1
      BY <1>0
    <3>3. t[k] = g[(a + k - 1) % INPUT_BUF]
      BY <2>3, <3>2
    <3> QED
      BY <1>5, <2>2, <3>1, <3>3
  <2> HIDE DEF s, t
  <2>6. \A k \in 1 .. len + 1 : t[k] = s[k]
    BY <1>0, <2>2, <2>4, <2>5
  <2> QED
    BY <2>2, <2>3, <2>6, SeqEqual DEF s, t
<1> QED
  BY <1>3, <1>6, <1>9

LEMMA SliceJoin ==
  ASSUME ConsoleAssumption, NEW f \in Ring, NEW a \in Int, NEW l1 \in Nat, NEW l2 \in Nat
  PROVE  Slice(f, a, l1 + l2) = Slice(f, a, l1) \o Slice(f, a + l1, l2)
<1> DEFINE s == Slice(f, a, l1)
           t == Slice(f, a + l1, l2)
           u == Slice(f, a, l1 + l2)
<1>0. l1 + l2 \in Nat /\ a + l1 \in Int
  OBVIOUS
<1>1. /\ s \in Seq(Char) /\ Len(s) = l1 /\ t \in Seq(Char) /\ Len(t) = l2
      /\ u \in Seq(Char) /\ Len(u) = l1 + l2
      /\ \A k \in 1 .. l1 : s[k] = f[(a + k - 1) % INPUT_BUF]
      /\ \A k \in 1 .. l2 : t[k] = f[((a + l1) + k - 1) % INPUT_BUF]
      /\ \A k \in 1 .. l1 + l2 : u[k] = f[(a + k - 1) % INPUT_BUF]
  BY <1>0, SliceType
<1> HIDE DEF s, t, u
<1>2. /\ s \o t \in Seq(Char) /\ Len(s \o t) = l1 + l2
      /\ \A k \in 1 .. l1 + l2 : (s \o t)[k] = IF k <= l1 THEN s[k] ELSE t[k - l1]
  BY <1>1, ConcatProperties
<1>3. ASSUME NEW k \in 1 .. l1 + l2 PROVE (s \o t)[k] = u[k]
  <2>1. CASE k <= l1
    <3>1. k \in 1 .. l1
      BY <2>1
    <3> QED
      BY <1>1, <1>2, <2>1, <3>1
  <2>2. CASE k > l1
    <3>1. k - l1 \in 1 .. l2
      BY <2>2
    <3>2. PICK j : j = k - l1
      OBVIOUS
    <3>3. PICK y : y = (a + l1) + j - 1
      OBVIOUS
    <3>4. t[j] = f[y % INPUT_BUF]
      BY <1>1, <3>1, <3>2, <3>3
    <3>5. y = a + k - 1
      BY <3>2, <3>3
    <3>6. (s \o t)[k] = t[k - l1]
      BY <1>2, <2>2
    <3>7. u[k] = f[(a + k - 1) % INPUT_BUF]
      BY <1>1
    <3> QED
      BY <3>2, <3>4, <3>5, <3>6, <3>7
  <2>3. k <= l1 \/ k > l1
    OBVIOUS
  <2> QED
    BY <2>1, <2>2, <2>3, Zenon
<1>4. u = s \o t
  BY <1>1, <1>2, <1>3, SeqEqual
<1> QED
  BY <1>4 DEF s, t, u

LEMMA SliceEnds ==
  ASSUME ConsoleAssumption, NEW f \in Ring, NEW a \in Int, NEW len \in Nat, len > 0
  PROVE  /\ Slice(f, a, len) # <<>>
         /\ Slice(f, a + 1, len - 1) = Tail(Slice(f, a, len))
         /\ Slice(f, a, len - 1) = SubSeq(Slice(f, a, len), 1, Len(Slice(f, a, len)) - 1)
<1> DEFINE s == Slice(f, a, len)
           t == Slice(f, a + 1, len - 1)
           u == Slice(f, a, len - 1)
<1>0. len - 1 \in Nat /\ a + 1 \in Int
  OBVIOUS
<1>1. /\ s \in Seq(Char) /\ Len(s) = len /\ t \in Seq(Char) /\ Len(t) = len - 1
      /\ u \in Seq(Char) /\ Len(u) = len - 1
      /\ \A k \in 1 .. len : s[k] = f[(a + k - 1) % INPUT_BUF]
      /\ \A k \in 1 .. len - 1 : t[k] = f[((a + 1) + k - 1) % INPUT_BUF]
      /\ \A k \in 1 .. len - 1 : u[k] = f[(a + k - 1) % INPUT_BUF]
  BY <1>0, SliceType
<1> HIDE DEF s, t, u
<1>2. s # <<>>
  BY <1>1
<1>3. /\ Tail(s) \in Seq(Char) /\ Len(Tail(s)) = len - 1
      /\ \A k \in 1 .. len - 1 : Tail(s)[k] = s[k + 1]
  BY <1>1, <1>2, HeadTailProperties
<1>4. \A k \in 1 .. len - 1 : t[k] = Tail(s)[k]
  <2> TAKE k \in 1 .. len - 1
  <2>1. (a + 1) + k - 1 = a + (k + 1) - 1 /\ k + 1 \in 1 .. len
    OBVIOUS
  <2>2. s[k + 1] = f[(a + (k + 1) - 1) % INPUT_BUF]
    BY <1>1, <2>1
  <2> QED
    BY <1>1, <1>3, <2>1, <2>2
<1>5. t = Tail(s)
  BY <1>1, <1>3, <1>4, SeqEqual
<1>6. PICK v : v = SubSeq(s, 1, len - 1)
  OBVIOUS
<1>7. /\ v \in Seq(Char) /\ Len(v) = len - 1
      /\ \A k \in 1 .. len - 1 : v[k] = s[k]
  BY <1>1, <1>6
<1>8. \A k \in 1 .. len - 1 : u[k] = v[k]
  <2> TAKE k \in 1 .. len - 1
  <2>1. k \in 1 .. len
    OBVIOUS
  <2> QED
    BY <1>1, <1>7, <2>1
<1>9. u = v
  BY <1>1, <1>7, <1>8, SeqEqual
<1> QED
  BY <1>1, <1>2, <1>5, <1>6, <1>9 DEF s, t, u

\* From an index on, as far as the distance to another, is the other index.
LEMMA EndIs ==
  ASSUME ConsoleAssumption, NEW a \in Index, NEW b \in Index
  PROVE  /\ a + Dist(a, b) = b \/ a + Dist(a, b) = b + UintSize
         /\ (a + Dist(a, b)) % INPUT_BUF = b % INPUT_BUF
<1>1. PICK q \in Int : UintSize = INPUT_BUF * q
  BY Constants
<1>2. /\ a \in Int /\ b \in Int /\ UintSize \in Nat \ {0} /\ INPUT_BUF \in Nat \ {0}
  BY Constants
<1>3. a + Dist(a, b) = b \/ a + Dist(a, b) = b + UintSize
  BY <1>2, DistIs
<1>4. ((INPUT_BUF * q) + b) % INPUT_BUF = b % INPUT_BUF
  BY <1>2, RemainderShift
<1>5. (b + UintSize) % INPUT_BUF = b % INPUT_BUF
  <2>1. b + UintSize = (INPUT_BUF * q) + b
    BY <1>1, <1>2
  <2> QED
    BY <1>4, <2>1
<1> QED
  BY <1>3, <1>5

LEMMA SliceFrom ==
  ASSUME ConsoleAssumption, NEW f \in Ring, NEW a \in Index, NEW b \in Index, NEW len \in Nat
  PROVE  /\ Slice(f, a + Dist(a, b), len) = Slice(f, b, len)
         /\ Slice(f, Inc(a), len) = Slice(f, a + 1, len)
<1>1. a \in Int /\ b \in Int /\ 0 \in Int /\ UintSize \in Int
  BY Constants
<1>2. Slice(f, b + UintSize, len) = Slice(f, b, len)
  BY <1>1, SliceWraps
<1>3. Slice(f, 0 + UintSize, len) = Slice(f, 0, len)
  BY <1>1, SliceWraps
<1>4. Inc(a) = a + 1 \/ (Inc(a) = 0 /\ a + 1 = 0 + UintSize)
  BY <1>1, IncIs
<1>5. Slice(f, a + Dist(a, b), len) = Slice(f, b, len)
  BY <1>2, EndIs
<1>6. Slice(f, Inc(a), len) = Slice(f, a + 1, len)
  BY <1>3, <1>4, Zenon
<1> QED
  BY <1>5, <1>6

LEMMA PlaceIs ==
  ASSUME ConsoleAssumption, NEW a \in Int
  PROVE  (a % UintSize) % INPUT_BUF = a % INPUT_BUF
<1>1. PICK q \in Int : UintSize = INPUT_BUF * q
  BY Constants
<1>2. UintSize \in Nat \ {0} /\ INPUT_BUF \in Nat \ {0}
  BY Constants
<1> DEFINE d == a \div UintSize
           rest == a % UintSize
<1>3. a = (UintSize * d) + rest /\ d \in Int /\ rest \in Int
  BY <1>2, Division
<1> HIDE DEF d, rest
<1>4. UintSize * d = INPUT_BUF * (q * d) /\ q * d \in Int
  BY <1>1, <1>2, <1>3
<1>5. PICK h \in Int : h = q * d
  BY <1>4
<1>6. a = (INPUT_BUF * h) + rest
  BY <1>3, <1>4, <1>5
<1>7. ((INPUT_BUF * h) + rest) % INPUT_BUF = rest % INPUT_BUF
  BY <1>2, <1>3, <1>5, RemainderShift
<1> QED
  BY <1>6, <1>7 DEF rest

LEMMA PartIsSlice ==
  ASSUME ConsoleAssumption, NEW f, NEW a \in Index, NEW b \in Index
  PROVE  [k \in 1 .. Dist(a, b) |-> f[((a + k - 1) % UintSize) % INPUT_BUF]]
           = Slice(f, a, Dist(a, b))
<1>1. \A k \in 1 .. Dist(a, b) : a + k - 1 \in Int
  BY DistIs, Constants
<1>2. \A k \in 1 .. Dist(a, b) :
        ((a + k - 1) % UintSize) % INPUT_BUF = (a + k - 1) % INPUT_BUF
  BY <1>1, PlaceIs
<1> QED
  BY <1>2 DEF Slice

-----------------------------------------------------------------------------
(* The line buffer in the ring *)

Finished == Part(r, w)
Edited == Part(w, e)

LEMMA PartsAre ==
  ASSUME ConsoleAssumption, TypeOK
  PROVE  /\ buf \in Ring /\ r \in Index /\ w \in Index /\ e \in Index
         /\ Finished = Slice(buf, r, Dist(r, w)) /\ Edited = Slice(buf, w, Dist(w, e))
         /\ Dist(r, w) \in Nat /\ Dist(w, e) \in Nat /\ Dist(r, e) \in Nat
<1>1. buf \in Ring /\ r \in Index /\ w \in Index /\ e \in Index
  BY DEF TypeOK, Ring, Index
<1>2. Finished = Slice(buf, r, Dist(r, w)) /\ Edited = Slice(buf, w, Dist(w, e))
  BY <1>1, PartIsSlice DEF Finished, Edited, Part, At
<1>3. Dist(r, w) \in Index /\ Dist(w, e) \in Index /\ Dist(r, e) \in Index
  BY <1>1, DistIs
<1> QED
  BY <1>1, <1>2, <1>3, Constants DEF Index

LEMMA PartsBecome ==
  ASSUME ConsoleAssumption, buf' \in Ring, r' \in Index, w' \in Index, e' \in Index
  PROVE  /\ Finished' = Slice(buf', r', Dist(r', w')) /\ Edited' = Slice(buf', w', Dist(w', e'))
  BY PartIsSlice DEF Finished, Edited, Part, At

\* What is still edited has no newline, in terms of slices.
LEMMA PlainIs ==
  ASSUME ConsoleAssumption, TypeOK, RingInv
  PROVE  \A k \in 1 .. Dist(w, e) : Slice(buf, w, Dist(w, e))[k] # Newline
  BY PartsAre DEF RingInv, Edited

LEMMA RingBecomes ==
  ASSUME ConsoleAssumption, buf' \in Ring, r' \in Index, w' \in Index, e' \in Index,
         Dist(r', w') + Dist(w', e') = Dist(r', e'), Dist(r', e') <= INPUT_BUF,
         \A k \in 1 .. Dist(w', e') : Slice(buf', w', Dist(w', e'))[k] # Newline
  PROVE  RingInv'
<1>1. Part(w, e)' = Slice(buf', w', Dist(w', e'))
  BY PartsBecome DEF Edited
<1> QED
  BY <1>1 DEF RingInv

\* A step that leaves the ring alone.
LEMMA RingSame ==
  ASSUME UNCHANGED ring
  PROVE  Finished' = Finished /\ Edited' = Edited /\ (RingInv => RingInv')
<1>1. Part(r, w)' = Part(r, w) /\ Part(w, e)' = Part(w, e)
  BY DEF ring, Part, At
<1> QED
  BY <1>1 DEF Finished, Edited, RingInv, ring

-----------------------------------------------------------------------------
(* The interrupt *)

\* What the interrupt finds: nobody is in the loop, or about to sleep.
LEMMA NobodyReads ==
  ASSUME ConsoleAssumption, LockInv, lock = NoProc, NEW p \in Proc
  PROVE  pc[p] \notin {"loop", "sleep", "release"}
  BY Constants DEF LockInv

LEMMA TypeSteps ==
  ASSUME ConsoleAssumption, ConsoleInv, NEW c \in Char, Type(c)
  PROVE  TypeOK' /\ RingInv' /\ Lines!Type(c)
<1> USE DEF ConsoleInv
<1> DEFINE i == Dist(r, w)
           j == Dist(w, e)
           m == Dist(r, e)
<1>1. /\ buf \in Ring /\ r \in Index /\ w \in Index /\ e \in Index
      /\ i \in Nat /\ j \in Nat /\ m \in Nat /\ INPUT_BUF \in Nat
      /\ Finished = Slice(buf, r, i) /\ Edited = Slice(buf, w, j)
  BY PartsAre, Constants
<1>2. i + j = m /\ m < INPUT_BUF /\ r' = r /\ e' = Inc(e)
  BY DEF RingInv, Type
<1>3. Index \subseteq Int
  BY Constants
<1>4. /\ Dist(r, e') = m + 1 /\ Dist(w, e') = j + 1
      /\ e' = (r + INPUT_BUF) % UintSize <=> m + 1 = INPUT_BUF
      /\ e' \in Index /\ Dist(e', e') = 0 /\ Dist(w, w) = 0
  <2>1. Dist(r, Inc(e)) = m + 1 /\ (Inc(e) = (r + INPUT_BUF) % UintSize <=> m + 1 = INPUT_BUF)
    BY <1>1, <1>2, DistSteps
  <2>2. j < INPUT_BUF
    BY <1>1, <1>2
  <2>3. Dist(w, Inc(e)) = j + 1
    BY <1>1, <2>2, DistSteps
  <2>4. Inc(e) \in Index
    BY <1>1, IncIs
  <2>5. Dist(Inc(e), Inc(e)) = 0 /\ Dist(w, w) = 0
    BY <1>1, <2>4, DistSteps
  <2> QED
    BY <1>2, <2>1, <2>3, <2>4, <2>5, Zenon
<1>5. (r + m) % INPUT_BUF = e % INPUT_BUF /\ (w + j) % INPUT_BUF = e % INPUT_BUF
  BY <1>1, EndIs
<1>6. buf' = [buf EXCEPT ![(r + m) % INPUT_BUF] = c] /\ buf' = [buf EXCEPT ![(w + j) % INPUT_BUF] = c]
  BY <1>5 DEF Type
<1> HIDE DEF i, j, m
<1>7. buf' \in Ring /\ Slice(buf', r, i) = Slice(buf, r, i)
  <2>1. SetsBeyond(buf, r, i, m, c, buf')
    BY <1>1, <1>2, <1>3, <1>6 DEF SetsBeyond
  <2> QED
    BY <2>1, SliceSet
<1>8. Slice(buf', w, j) = Slice(buf, w, j) /\ Slice(buf', w, j + 1) = Append(Edited, c)
  <2>1. buf \in Ring /\ w \in Int /\ j \in Nat /\ j <= j /\ j < INPUT_BUF
    BY <1>1, <1>2, <1>3
  <2>2. buf' = [buf EXCEPT ![(w + j) % INPUT_BUF] = c]
    BY <1>6
  <2>3. SetsBeyond(buf, w, j, j, c, buf')
    BY <2>1, <2>2, Zenon DEF SetsBeyond
  <2> QED
    BY <1>1, <2>3, SliceSet
<1>9. /\ Finished \in Seq(Char) /\ Len(Finished) = i
      /\ Edited \in Seq(Char) /\ Len(Edited) = j
  BY <1>1, <1>3, SliceType
<1>10. CASE c \in {Newline, CtrlD} \/ m + 1 = INPUT_BUF
  <2>1. w' = e' /\ Wakeup
    BY <1>4, <1>10 DEF Type
  <2>2. /\ Finished' = Slice(buf', r, m + 1) /\ Edited' = Slice(buf', e', 0)
    BY <1>1, <1>2, <1>4, <1>7, <2>1, PartsBecome
  <2>3. Edited' = <<>>
    BY <2>2 DEF Slice
  <2>4. Finished' = Slice(buf', r, i) \o Slice(buf', r + i, j + 1)
    <3>1. m + 1 = i + (j + 1) /\ j + 1 \in Nat
      BY <1>1, <1>2
    <3>2. PICK l \in Nat : l = j + 1
      BY <3>1
    <3>3. PICK f \in Ring : f = buf'
      BY <1>7
    <3>4. r \in Int /\ i \in Nat
      BY <1>1, <1>3
    <3>5. Slice(f, r, i + l) = Slice(f, r, i) \o Slice(f, r + i, l)
      BY <3>4, SliceJoin
    <3> QED
      BY <2>2, <3>1, <3>2, <3>3, <3>5
  <2>5. Slice(buf', r + i, j + 1) = Slice(buf', w, j + 1)
    <3>1. PICK l \in Nat : l = j + 1
      BY <1>1
    <3>2. Slice(buf', r + i, l) = Slice(buf', w, l)
      BY <1>1, <1>7, SliceFrom DEF i
    <3> QED
      BY <3>1, <3>2
  <2>6. Finished' = Finished \o Append(Edited, c)
    BY <1>1, <1>7, <1>8, <2>4, <2>5
  <2>7. Lines!Type(c)
    <3>1. Len(Finished) + Len(Edited) = m
      BY <1>2, <1>9
    <3> QED
      BY <1>2, <1>10, <2>3, <2>6, <3>1 DEF Lines!Type, Finished, Edited
  <2>8. RingInv'
    <3>1. Dist(r', w') = m + 1 /\ Dist(w', e') = 0 /\ Dist(r', e') = m + 1
      BY <1>2, <1>4, <2>1
    <3>2. \A k \in 1 .. Dist(w', e') : Slice(buf', w', Dist(w', e'))[k] # Newline
      BY <3>1
    <3>3. Dist(r', w') + Dist(w', e') = Dist(r', e') /\ Dist(r', e') <= INPUT_BUF
      BY <1>1, <1>2, <3>1
    <3> QED
      BY <1>1, <1>2, <1>4, <1>7, <2>1, <3>2, <3>3, RingBecomes
  <2>9. TypeOK'
    <3>1. pc' \in [Proc -> {"user", "ilock", "iunlock", "acquire", "loop", "sleep", "asleep",
                            "release", "output", "relock", "return"}]
      BY <2>1 DEF Wakeup, TypeOK
    <3> QED
      BY <1>1, <1>2, <1>4, <1>7, <2>1, <3>1 DEF Type, TypeOK, Ring, Index
  <2> QED
    BY <2>7, <2>8, <2>9
<1>11. CASE ~ (c \in {Newline, CtrlD} \/ m + 1 = INPUT_BUF)
  <2>1. w' = w /\ pc' = pc
    BY <1>4, <1>11 DEF Type
  <2>2. Finished' = Slice(buf', r, i) /\ Edited' = Slice(buf', w, j + 1)
    <3>1. Dist(r', w') = i /\ Dist(w', e') = j + 1
      BY <1>2, <1>4, <2>1 DEF i
    <3> QED
      BY <1>1, <1>2, <1>4, <1>7, <2>1, <3>1, PartsBecome
  <2>3. Finished' = Finished /\ Edited' = Append(Edited, c)
    BY <1>1, <1>7, <1>8, <2>2
  <2>4. Lines!Type(c)
    <3>1. Len(Finished) + Len(Edited) = m
      BY <1>2, <1>9
    <3> QED
      BY <1>2, <1>11, <2>3, <3>1 DEF Lines!Type, Finished, Edited
  <2>5. \A k \in 1 .. j + 1 : Append(Edited, c)[k] # Newline
    <3>1. \A k \in 1 .. j : Edited[k] # Newline
      BY <1>1, PlainIs DEF j
    <3>2. c # Newline
      BY <1>11
    <3>3. \A k \in 1 .. j : Append(Edited, c)[k] = Edited[k]
      BY <1>9, AppendProperties
    <3>4. Append(Edited, c)[j + 1] = c
      BY <1>9, AppendProperties
    <3>5. \A k \in 1 .. j + 1 : k \in 1 .. j \/ k = j + 1
      BY <1>1
    <3> QED
      BY <3>1, <3>2, <3>3, <3>4, <3>5, Zenon
  <2>6. RingInv'
    <3>1. Dist(r', w') = i /\ Dist(w', e') = j + 1 /\ Dist(r', e') = m + 1
      BY <1>2, <1>4, <2>1 DEF i
    <3>2. \A k \in 1 .. Dist(w', e') : Slice(buf', w', Dist(w', e'))[k] # Newline
      BY <1>8, <2>1, <2>5, <3>1
    <3>3. Dist(r', w') + Dist(w', e') = Dist(r', e') /\ Dist(r', e') <= INPUT_BUF
      BY <1>1, <1>2, <3>1
    <3> QED
      BY <1>1, <1>2, <1>4, <1>7, <2>1, <3>2, <3>3, RingBecomes
  <2>7. TypeOK'
    BY <1>1, <1>2, <1>4, <1>7, <2>1 DEF Type, TypeOK, Ring, Index
  <2> QED
    BY <2>4, <2>6, <2>7
<1> QED
  BY <1>10, <1>11

LEMMA BackspaceSteps ==
  ASSUME ConsoleAssumption, ConsoleInv, Backspace
  PROVE  RingInv' /\ Lines!Erase
<1> USE DEF ConsoleInv
<1> DEFINE i == Dist(r, w)
           j == Dist(w, e)
           m == Dist(r, e)
<1>1. /\ buf \in Ring /\ r \in Index /\ w \in Index /\ e \in Index
      /\ i \in Nat /\ j \in Nat /\ m \in Nat /\ INPUT_BUF \in Nat
      /\ Finished = Slice(buf, r, i) /\ Edited = Slice(buf, w, j)
  BY PartsAre, Constants
<1>2. i + j = m /\ m <= INPUT_BUF /\ e # w /\ e' = Dec(e) /\ UNCHANGED <<buf, r, w>>
  BY DEF RingInv, Backspace
<1>3. Index \subseteq Int
  BY Constants
<1>4. j > 0 /\ m > 0
  <2>1. j # 0
    BY <1>1, <1>2, DistSteps
  <2> HIDE DEF i, j, m
  <2> QED
    BY <1>1, <1>2, <2>1
<1>5. Dist(w, e') = j - 1 /\ Dist(r, e') = m - 1 /\ e' \in Index
  <2>1. r # e
    BY <1>1, <1>4, DistSteps
  <2>2. Dist(w, Dec(e)) = j - 1 /\ Dist(r, Dec(e)) = m - 1 /\ Dec(e) \in Index
    BY <1>1, <1>2, <2>1, DistSteps, DecIs
  <2> QED
    BY <1>2, <2>2, Zenon
<1>6. /\ Dist(r', w') = i /\ Dist(w', e') = j - 1 /\ Dist(r', e') = m - 1
      /\ buf' \in Ring /\ r' \in Index /\ w' \in Index
  BY <1>1, <1>2, <1>5
<1> HIDE DEF i, j, m
<1>7. Finished' = Slice(buf', r', i) /\ Edited' = Slice(buf', w', j - 1)
  BY <1>5, <1>6, PartsBecome
<1>8. /\ Edited # <<>>
      /\ Slice(buf, w, j - 1) = SubSeq(Edited, 1, Len(Edited) - 1)
  BY <1>1, <1>3, <1>4, SliceEnds
<1>9. Finished' = Finished /\ Edited' = SubSeq(Edited, 1, Len(Edited) - 1)
  BY <1>1, <1>2, <1>7, <1>8
<1>10. Lines!Erase
  BY <1>8, <1>9 DEF Lines!Erase, Finished, Edited
<1>11. \A k \in 1 .. j - 1 : Slice(buf, w, j - 1)[k] # Newline
  <2>1. \A k \in 1 .. j : Slice(buf, w, j)[k] # Newline
    BY PlainIs DEF j
  <2>2. \A k \in 1 .. j : Slice(buf, w, j)[k] = buf[(w + k - 1) % INPUT_BUF]
    BY <1>1, <1>3, SliceType
  <2>3. PICK l \in Nat : l = j - 1
    BY <1>1, <1>4
  <2>4. \A k \in 1 .. l : Slice(buf, w, l)[k] = buf[(w + k - 1) % INPUT_BUF]
    BY <1>1, <1>3, SliceType
  <2>5. \A k \in 1 .. l : k \in 1 .. j
    BY <1>1, <2>3
  <2> QED
    BY <2>1, <2>2, <2>3, <2>4, <2>5, Zenon
<1>12. RingInv'
  <2>1. \A k \in 1 .. Dist(w', e') : Slice(buf', w', Dist(w', e'))[k] # Newline
    BY <1>2, <1>6, <1>11
  <2>2. Dist(r', w') + Dist(w', e') = Dist(r', e') /\ Dist(r', e') <= INPUT_BUF
    BY <1>1, <1>2, <1>6
  <2> QED
    BY <1>5, <1>6, <2>1, <2>2, RingBecomes
<1> QED
  BY <1>10, <1>12

\* Ctrl-U finds no newline and goes back to w.
LEMMA KillLineSteps ==
  ASSUME ConsoleAssumption, ConsoleInv, KillLine
  PROVE  e' = w /\ RingInv' /\ Lines!EraseLine
<1> USE DEF ConsoleInv
<1>1. /\ buf \in Ring /\ r \in Index /\ w \in Index /\ e \in Index
      /\ Dist(r, w) \in Nat /\ Dist(w, e) \in Nat /\ Dist(r, e) \in Nat /\ INPUT_BUF \in Nat
      /\ Finished = Slice(buf, r, Dist(r, w))
  BY PartsAre, Constants
<1>2. /\ Dist(r, w) + Dist(w, e) = Dist(r, e) /\ Dist(r, e) <= INPUT_BUF
      /\ \A k \in 1 .. Dist(w, e) : Part(w, e)[k] # Newline
  BY DEF RingInv
<1>3. UNCHANGED <<buf, r, w>>
  BY DEF KillLine
<1> DEFINE stops == {k \in 0 .. Dist(w, e) : k = 0 \/ At((w + k - 1) % UintSize) = Newline}
           kept == CHOOSE k \in stops : \A j \in stops : j <= k
<1>4. stops = {0}
  <2>1. \A k \in 1 .. Dist(w, e) : At((w + k - 1) % UintSize) # Newline
    BY <1>2 DEF Part
  <2>2. \A k \in 0 .. Dist(w, e) : k = 0 \/ k \in 1 .. Dist(w, e)
    BY <1>1
  <2>3. 0 \in 0 .. Dist(w, e)
    BY <1>1
  <2> QED
    BY <2>1, <2>2, <2>3, Zenon
<1>5. e' = (w + kept) % UintSize
  BY DEF KillLine
<1>6. kept = 0
  <2> HIDE DEF stops
  <2>1. kept \in stops
    <3>1. 0 \in stops /\ \A j \in stops : j <= 0
      BY <1>4
    <3> QED
      BY <3>1
  <2> HIDE DEF kept
  <2> QED
    BY <1>4, <2>1
<1>7. e' = w
  <2> HIDE DEF kept
  <2>1. w \in 0 .. 2 * UintSize - 1 /\ w < UintSize /\ UintSize \in Nat \ {0} /\ w + 0 = w
    BY <1>1, Constants DEF Index
  <2>2. w % UintSize = w
    BY <2>1, WrapOnce
  <2> QED
    BY <1>5, <1>6, <2>1, <2>2
<1>8. Dist(w', e') = 0 /\ Dist(r', w') = Dist(r, w) /\ Dist(r', e') = Dist(r, w)
  <2>1. Dist(w, w) = 0
    BY <1>1, DistSteps
  <2> QED
    BY <1>3, <1>7, <2>1
<1>9. buf' \in Ring /\ r' \in Index /\ w' \in Index /\ e' \in Index
  BY <1>1, <1>3, <1>7
<1>10. Finished' = Slice(buf', r', Dist(r, w)) /\ Edited' = Slice(buf', w', 0)
  BY <1>8, <1>9, PartsBecome
<1>11. Finished' = Finished /\ Edited' = <<>>
  <2>1. Slice(buf', w', 0) = <<>>
    BY DEF Slice
  <2> QED
    BY <1>1, <1>3, <1>10, <2>1
<1>12. RingInv'
  <2>1. \A k \in 1 .. Dist(w', e') : Slice(buf', w', Dist(w', e'))[k] # Newline
    BY <1>8
  <2>2. Dist(r', w') + Dist(w', e') = Dist(r', e') /\ Dist(r', e') <= INPUT_BUF
    BY <1>1, <1>2, <1>8
  <2> QED
    BY <1>9, <2>1, <2>2, RingBecomes
<1> QED
  BY <1>7, <1>11, <1>12 DEF Lines!EraseLine, Finished, Edited

-----------------------------------------------------------------------------
(* The reader *)

\* r goes on by one: with Take, and with TakeEof when the read has nothing yet.
LEMMA TakeSteps ==
  ASSUME ConsoleAssumption, ConsoleInv, r # w, r' = Inc(r), UNCHANGED <<buf, w, e>>
  PROVE  r' \in Index /\ RingInv' /\ Lines!Take
<1> USE DEF ConsoleInv
<1> DEFINE i == Dist(r, w)
           j == Dist(w, e)
           m == Dist(r, e)
<1>1. /\ buf \in Ring /\ r \in Index /\ w \in Index /\ e \in Index
      /\ i \in Nat /\ j \in Nat /\ m \in Nat /\ INPUT_BUF \in Nat
      /\ Finished = Slice(buf, r, i) /\ Edited = Slice(buf, w, j)
  BY PartsAre, Constants
<1>2. i + j = m /\ m <= INPUT_BUF
  BY DEF RingInv
<1>3. Index \subseteq Int
  BY Constants
<1>4. i > 0 /\ m > 0
  <2>1. i # 0
    BY <1>1, DistSteps
  <2> HIDE DEF i, j, m
  <2> QED
    BY <1>1, <1>2, <2>1
<1>5. Dist(r', w) = i - 1 /\ Dist(r', e) = m - 1 /\ r' \in Index
  <2>1. r # e
    BY <1>1, <1>4, DistSteps
  <2>2. Dist(Inc(r), w) = i - 1 /\ Dist(Inc(r), e) = m - 1 /\ Inc(r) \in Index
    BY <1>1, <2>1, DistSteps, IncIs
  <2> QED
    BY <2>2, Zenon
<1>6. /\ Dist(r', w') = i - 1 /\ Dist(w', e') = j /\ Dist(r', e') = m - 1
      /\ buf' \in Ring /\ w' \in Index /\ e' \in Index
  BY <1>1, <1>5
<1> HIDE DEF i, j, m
<1>7. Finished' = Slice(buf', r', i - 1) /\ Edited' = Slice(buf', w', j)
  BY <1>5, <1>6, PartsBecome
<1>8. Finished # <<>> /\ Slice(buf, r + 1, i - 1) = Tail(Finished)
  BY <1>1, <1>3, <1>4, SliceEnds
<1>9. Slice(buf, Inc(r), i - 1) = Slice(buf, r + 1, i - 1)
  <2>1. PICK l \in Nat : l = i - 1
    BY <1>1, <1>4
  <2> QED
    BY <1>1, <2>1, SliceFrom
<1>10. Finished' = Tail(Finished) /\ Edited' = Edited
  BY <1>1, <1>7, <1>8, <1>9
<1>11. RingInv'
  <2>1. \A k \in 1 .. j : Slice(buf, w, j)[k] # Newline
    BY PlainIs DEF j
  <2>2. \A k \in 1 .. Dist(w', e') : Slice(buf', w', Dist(w', e'))[k] # Newline
    BY <1>6, <2>1
  <2>3. Dist(r', w') + Dist(w', e') = Dist(r', e') /\ Dist(r', e') <= INPUT_BUF
    BY <1>1, <1>2, <1>6
  <2> QED
    BY <1>5, <1>6, <2>2, <2>3, RingBecomes
<1> QED
  BY <1>5, <1>8, <1>10, <1>11 DEF Lines!Take, Finished, Edited

-----------------------------------------------------------------------------
(* The invariant *)

Places == {"user", "ilock", "iunlock", "acquire", "loop", "sleep", "asleep",
           "release", "output", "relock", "return"}

LEMMA InitInv == ASSUME ConsoleAssumption, Init PROVE ConsoleInv /\ Lines!Init
<1>1. 0 \in Index /\ Newline \in Char /\ INPUT_BUF \in Nat \ {0} /\ NoProc \notin Proc
      /\ UintSize \in Nat
  BY Constants
<1>2. Dist(0, 0) = 0
  BY <1>1, DistSteps
<1>3. TypeOK
  BY <1>1 DEF Init, TypeOK, Index
<1>4. RingInv
  BY <1>1, <1>2 DEF Init, RingInv
<1>5. LockInv
  BY <1>1 DEF Init, LockInv
<1>6. Part(r, w) = <<>> /\ Part(w, e) = <<>>
  BY <1>2 DEF Init, Part
<1> QED
  BY <1>3, <1>4, <1>5, <1>6 DEF ConsoleInv, Lines!Init

\* An interrupt that leaves w alone, and with it what the sleepers found.
LEMMA LockSame ==
  ASSUME LockInv, UNCHANGED <<r, w, lock, pc>>
  PROVE  LockInv'
  BY DEF LockInv

LEMMA TypeInv ==
  ASSUME ConsoleAssumption, ConsoleInv, NEW c \in Char, Type(c)
  PROVE  LockInv'
<1> USE DEF ConsoleInv
<1>1. lock = NoProc /\ lock' = NoProc /\ r' = r
  BY DEF Type
<1>2. CASE Wakeup
  <2> SUFFICES ASSUME NEW p \in Proc
               PROVE  /\ pc'[p] \in {"loop", "sleep", "release"} <=> lock' = p
                      /\ pc'[p] \in {"sleep", "asleep"} => r' = w'
    BY DEF LockInv
  <2>1. pc[p] \notin {"loop", "sleep", "release"}
    BY <1>1, NobodyReads
  <2>2. pc'[p] = IF pc[p] = "asleep" THEN "acquire" ELSE pc[p]
    BY <1>2 DEF Wakeup
  <2>3. lock' # p
    BY <1>1, Constants
  <2> QED
    BY <2>1, <2>2, <2>3
<1>3. CASE UNCHANGED <<w, pc>>
  BY <1>1, <1>3, LockSame
<1> QED
  BY <1>2, <1>3 DEF Type

\* p goes to a place x, and nobody else moves.
LEMMA PlaceChanges ==
  ASSUME TypeOK, NEW p \in Proc, NEW x \in Places, Become(p, x)
  PROVE  /\ pc' \in [Proc -> Places] /\ pc'[p] = x
         /\ \A q \in Proc \ {p} : pc'[q] = pc[q]
  BY DEF TypeOK, Places, Become

\* What p does without the lock of the ring leaves it alone.
LEMMA OutsideInv ==
  ASSUME ConsoleAssumption, ConsoleInv, NEW p \in Proc, NEW x \in Places, Become(p, x),
         pc[p] \notin {"loop", "sleep", "release"},
         x \notin {"loop", "sleep", "release", "asleep"},
         UNCHANGED <<ring, lock>>
  PROVE  LockInv'
<1> SUFFICES ASSUME NEW q \in Proc
             PROVE  /\ pc'[q] \in {"loop", "sleep", "release"} <=> lock' = q
                    /\ pc'[q] \in {"sleep", "asleep"} => r' = w'
  BY DEF LockInv
<1>1. r' = r /\ w' = w /\ lock' = lock
  BY DEF ring
<1>2. pc'[p] = x /\ \A y \in Proc \ {p} : pc'[y] = pc[y]
  BY PlaceChanges DEF ConsoleInv
<1>3. /\ pc[q] \in {"loop", "sleep", "release"} <=> lock = q
      /\ pc[q] \in {"sleep", "asleep"} => r = w
      /\ pc[p] \in {"loop", "sleep", "release"} <=> lock = p
  BY DEF ConsoleInv, LockInv
<1>4. CASE q = p
  BY <1>1, <1>2, <1>3, <1>4
<1>5. CASE q # p
  BY <1>1, <1>2, <1>3, <1>5
<1> QED
  BY <1>4, <1>5

\* What the holder p of the lock does: it keeps it, or gives it up as it leaves the loop.
LEMMA InsideInv ==
  ASSUME ConsoleAssumption, ConsoleInv, NEW p \in Proc, NEW x \in Places,
         pc'[p] = x, \A q \in Proc \ {p} : pc'[q] = pc[q],
         lock = p, w' = w,
         \/ lock' = p /\ x \in {"loop", "release"} /\ (r' = r \/ r # w)
         \/ lock' = p /\ x = "sleep" /\ r' = r /\ r = w
         \/ lock' = NoProc /\ x \notin {"loop", "sleep", "release"} /\ r' = r
            /\ (x = "asleep" => r = w)
  PROVE  LockInv'
<1> SUFFICES ASSUME NEW q \in Proc
             PROVE  /\ pc'[q] \in {"loop", "sleep", "release"} <=> lock' = q
                    /\ pc'[q] \in {"sleep", "asleep"} => r' = w'
  BY DEF LockInv
<1>1. NoProc \notin Proc
  BY Constants
<1>2. /\ pc[q] \in {"loop", "sleep", "release"} <=> lock = q
      /\ pc[q] \in {"sleep", "asleep"} => r = w
  BY DEF ConsoleInv, LockInv
<1>3. CASE q = p
  BY <1>1, <1>3
<1>4. CASE q # p
  BY <1>1, <1>2, <1>4
<1> QED
  BY <1>3, <1>4

LEMMA CallInv ==
  ASSUME ConsoleAssumption, ConsoleInv, NEW p \in Proc,
         \/ \E k \in Request : Call(p, "read", k)
         \/ Call(p, "write", 0)
  PROVE  ConsoleInv' /\ UNCHANGED ring
<1>1. PICK f \in {"read", "write"}, k \in Nat : Call(p, f, k)
  BY Constants
<1>2. /\ Become(p, "ilock") /\ pc[p] = "user" /\ UNCHANGED <<ring, lock>> /\ "ilock" \in Places
      /\ call' = [call EXCEPT ![p] = f] /\ target' = [target EXCEPT ![p] = k]
      /\ n' = [n EXCEPT ![p] = k] /\ UNCHANGED <<busy, killed>>
  BY <1>1 DEF Call, Places
<1>3. LockInv'
  BY <1>2, OutsideInv
<1>4. TypeOK'
  <2>1. pc' \in [Proc -> Places]
    BY <1>2, PlaceChanges DEF ConsoleInv
  <2> QED
    BY <1>2, <2>1 DEF ConsoleInv, TypeOK, Places, ring
<1> QED
  BY <1>2, <1>3, <1>4, RingSame DEF ConsoleInv

\* The steps of a process in the kernel that leave the ring alone.
LEMMA QuietInv ==
  ASSUME ConsoleAssumption, ConsoleInv, NEW p \in Proc,
         \/ Ilock(p) \/ Iunlock(p) \/ Output(p) \/ Return(p)
         \/ Acquire(p) \/ Sleep(p) \/ Wait(p) \/ Release(p)
  PROVE  ConsoleInv' /\ UNCHANGED ring
<1> USE DEF ConsoleInv
<1> SUFFICES /\ UNCHANGED ring
             /\ \E x \in Places : Become(p, x)
             /\ {lock', busy'} \subseteq Proc \cup {NoProc}
             /\ call' \in [Proc -> {"none", "read", "write"}]
             /\ target' \in [Proc -> Nat] /\ n' \in [Proc -> Nat] /\ killed' = killed
             /\ LockInv'
  <2>1. RingInv'
    BY RingSame
  <2>2. pc' \in [Proc -> Places]
    BY PlaceChanges
  <2>3. TypeOK'
    BY <2>2 DEF TypeOK, Places, ring
  <2> QED
    BY <2>1, <2>3
<1>1. {lock, busy} \subseteq Proc \cup {NoProc}
      /\ call \in [Proc -> {"none", "read", "write"}]
      /\ target \in [Proc -> Nat] /\ n \in [Proc -> Nat]
  BY DEF TypeOK
<1>2. /\ pc[p] \in {"loop", "sleep", "release"} <=> lock = p
      /\ pc[p] \in {"sleep", "asleep"} => r = w
  BY DEF LockInv
<1>3. NoProc \notin Proc
  BY Constants
<1>4. CASE Ilock(p)
  <2>1. PICK x \in {"iunlock", "return"} : Become(p, x)
    BY <1>4 DEF Ilock
  <2>2. /\ pc[p] \in {"ilock", "relock"} /\ UNCHANGED <<ring, lock>> /\ busy' = p /\ Same
        /\ x \in Places
    BY <1>4 DEF Ilock, Places
  <2>3. LockInv'
    BY <2>1, <2>2, OutsideInv
  <2> QED
    BY <1>1, <2>1, <2>2, <2>3 DEF Same
<1>5. CASE Iunlock(p)
  <2>1. PICK x \in {"acquire", "output"} : Become(p, x)
    BY <1>5 DEF Iunlock
  <2>2. /\ pc[p] = "iunlock" /\ UNCHANGED <<ring, lock>> /\ busy' = NoProc /\ Same
        /\ x \in Places
    BY <1>5 DEF Iunlock, Places
  <2>3. LockInv'
    BY <2>1, <2>2, OutsideInv
  <2> QED
    BY <1>1, <2>1, <2>2, <2>3 DEF Same
<1>6. CASE Output(p)
  <2>1. /\ pc[p] = "output" /\ Become(p, "relock") /\ UNCHANGED <<ring, lock, busy>> /\ Same
        /\ "relock" \in Places
    BY <1>6 DEF Output, Places
  <2>2. LockInv'
    BY <2>1, OutsideInv
  <2> QED
    BY <1>1, <2>1, <2>2 DEF Same
<1>7. CASE Return(p)
  <2>1. /\ pc[p] = "return" /\ Become(p, "user") /\ UNCHANGED <<ring, lock, killed>>
        /\ busy' = NoProc /\ "user" \in Places
        /\ call' = [call EXCEPT ![p] = "none"] /\ target' = [target EXCEPT ![p] = 0]
        /\ n' = [n EXCEPT ![p] = 0]
    BY <1>7 DEF Return, Places
  <2>2. LockInv'
    BY <2>1, OutsideInv
  <2> QED
    BY <1>1, <2>1, <2>2
<1>8. CASE Acquire(p)
  <2>1. /\ lock = NoProc /\ lock' = p /\ Become(p, "loop") /\ UNCHANGED <<ring, busy>> /\ Same
        /\ "loop" \in Places
    BY <1>8 DEF Acquire, Places
  <2>2. pc'[p] = "loop" /\ \A q \in Proc \ {p} : pc'[q] = pc[q]
    BY <2>1, PlaceChanges
  <2>3. LockInv'
    BY <1>3, <2>1, <2>2 DEF LockInv, ring
  <2> QED
    BY <1>1, <2>1, <2>3 DEF Same
<1>9. CASE Sleep(p)
  <2>1. /\ pc[p] = "sleep" /\ lock' = NoProc /\ Become(p, "asleep") /\ UNCHANGED <<ring, busy>>
        /\ Same /\ "asleep" \in Places
    BY <1>9 DEF Sleep, Places
  <2>2. pc'[p] = "asleep" /\ \A q \in Proc \ {p} : pc'[q] = pc[q]
    BY <2>1, PlaceChanges
  <2>3. lock = p /\ r' = r /\ w' = w /\ r = w
    BY <1>2, <2>1 DEF ring
  <2>4. LockInv'
    BY <2>1, <2>2, <2>3, InsideInv
  <2> QED
    BY <1>1, <2>1, <2>4 DEF Same
<1>10. CASE Wait(p)
  <2>1. /\ pc[p] = "loop" /\ r = w /\ Become(p, "sleep") /\ UNCHANGED <<ring, lock, busy>>
        /\ Same /\ "sleep" \in Places
    BY <1>10 DEF Wait, Places
  <2>2. pc'[p] = "sleep" /\ \A q \in Proc \ {p} : pc'[q] = pc[q]
    BY <2>1, PlaceChanges
  <2>3. lock = p /\ lock' = p /\ r' = r /\ w' = w
    BY <1>2, <2>1 DEF ring
  <2>4. LockInv'
    BY <2>1, <2>2, <2>3, InsideInv
  <2> QED
    BY <1>1, <2>1, <2>4 DEF Same
<1>11. CASE Release(p)
  <2>1. /\ pc[p] \in {"loop", "release"} /\ Become(p, "relock") /\ UNCHANGED <<ring, busy>>
        /\ lock' = NoProc /\ Same /\ "relock" \in Places
    BY <1>11 DEF Release, Places
  <2>2. pc'[p] = "relock" /\ \A q \in Proc \ {p} : pc'[q] = pc[q]
    BY <2>1, PlaceChanges
  <2>3. lock = p /\ r' = r /\ w' = w
    BY <1>2, <2>1 DEF ring
  <2>4. LockInv'
    BY <2>1, <2>2, <2>3, InsideInv
  <2> QED
    BY <1>1, <2>1, <2>4 DEF Same
<1> QED
  BY <1>4, <1>5, <1>6, <1>7, <1>8, <1>9, <1>10, <1>11

\* A step of the reader that may take a character: the line buffer stutters or takes.
LEMMA ReadInv ==
  ASSUME ConsoleAssumption, ConsoleInv, NEW p \in Proc, Take(p) \/ TakeEof(p)
  PROVE  ConsoleInv' /\ (UNCHANGED ring \/ Lines!Take)
<1> USE DEF ConsoleInv
<1>1. /\ pc[p] = "loop" /\ n[p] > 0 /\ r # w /\ UNCHANGED <<buf, w, e, lock, busy>>
      /\ UNCHANGED <<call, target, killed>> /\ (r' = r \/ r' = Inc(r))
      /\ n' = n \/ n' = [n EXCEPT ![p] = @ - 1]
  BY DEF Take, TakeEof, Same
<1>2. PICK x \in {"loop", "release"} :
        pc' \in [Proc -> Places] /\ pc'[p] = x /\ \A q \in Proc \ {p} : pc'[q] = pc[q]
  <2>1. CASE Become(p, "release")
    <3>1. "release" \in Places
      BY DEF Places
    <3> QED
      BY <2>1, <3>1, PlaceChanges
  <2>2. CASE UNCHANGED pc
    BY <1>1, <2>2 DEF TypeOK, Places
  <2> QED
    BY <2>1, <2>2 DEF Take, TakeEof
<1>3. /\ n \in [Proc -> Nat] /\ r \in Index
  BY DEF TypeOK, Index
<1>4. n' \in [Proc -> Nat]
  BY <1>1, <1>3
<1>5. r' \in Index /\ RingInv' /\ (UNCHANGED ring \/ Lines!Take)
  <2>1. CASE r' = r
    BY <1>1, <1>3, <2>1, RingSame DEF ring
  <2>2. CASE r' = Inc(r)
    BY <1>1, <2>2, TakeSteps
  <2> QED
    BY <1>1, <2>1, <2>2
<1>6. TypeOK'
  BY <1>1, <1>2, <1>4, <1>5 DEF TypeOK, Index, Places
<1>7. LockInv'
  <2>1. lock = p /\ lock' = p
    BY <1>1 DEF LockInv
  <2>2. x \in Places
    BY DEF Places
  <2> QED
    BY <1>1, <1>2, <2>1, <2>2, InsideInv
<1> QED
  BY <1>5, <1>6, <1>7

\* Kill, and the next life of the entry.
LEMMA OthersInv ==
  ASSUME ConsoleAssumption, ConsoleInv, NEW p \in Proc, Kill(p) \/ Reborn(p)
  PROVE  ConsoleInv' /\ UNCHANGED ring
<1> USE DEF ConsoleInv
<1>1. CASE Kill(p)
  <2>1. /\ UNCHANGED <<ring, lock, busy, call, target, n>>
        /\ killed' = [killed EXCEPT ![p] = TRUE]
        /\ pc' = [pc EXCEPT ![p] = IF pc[p] = "asleep" THEN "acquire" ELSE pc[p]]
    BY <1>1 DEF Kill
  <2>2. TypeOK'
    BY <2>1 DEF TypeOK, ring
  <2>3. LockInv'
    <3> SUFFICES ASSUME NEW q \in Proc
                 PROVE  /\ pc'[q] \in {"loop", "sleep", "release"} <=> lock' = q
                        /\ pc'[q] \in {"sleep", "asleep"} => r' = w'
      BY DEF LockInv
    <3>1. /\ pc[q] \in {"loop", "sleep", "release"} <=> lock = q
          /\ pc[q] \in {"sleep", "asleep"} => r = w
      BY DEF LockInv
    <3>2. pc'[q] = pc[q] \/ (pc[q] = "asleep" /\ pc'[q] = "acquire")
      BY <2>1 DEF TypeOK
    <3> QED
      BY <2>1, <3>1, <3>2 DEF ring
  <2> QED
    BY <2>1, <2>2, <2>3, RingSame
<1>2. CASE Reborn(p)
  <2>1. /\ UNCHANGED <<ring, lock, busy, pc, call, target, n>>
        /\ killed' = [killed EXCEPT ![p] = FALSE]
    BY <1>2 DEF Reborn
  <2>2. TypeOK'
    BY <2>1 DEF TypeOK, ring
  <2>3. LockInv'
    BY <2>1, LockSame DEF ring
  <2> QED
    BY <2>1, <2>2, <2>3, RingSame
<1> QED
  BY <1>1, <1>2

LEMMA InterruptInv ==
  ASSUME ConsoleAssumption, ConsoleInv,
         (\E c \in Char : Type(c)) \/ Backspace \/ KillLine
  PROVE  ConsoleInv' /\ Lines!Next
<1> USE DEF ConsoleInv
<1>1. ASSUME NEW c \in Char, Type(c) PROVE ConsoleInv' /\ Lines!Next
  BY <1>1, TypeSteps, TypeInv DEF Lines!Next
<1>2. CASE Backspace
  <2>1. /\ e' = Dec(e) /\ UNCHANGED <<buf, r, w, lock, busy, pc, call, target, n, killed>>
    BY <1>2 DEF Backspace
  <2>2. e' \in Index
    BY <2>1, PartsAre, DecIs
  <2>3. TypeOK'
    BY <2>1, <2>2 DEF TypeOK, Index
  <2> QED
    BY <1>2, <2>1, <2>3, BackspaceSteps, LockSame DEF Lines!Next
<1>3. CASE KillLine
  <2>1. e' = w /\ RingInv' /\ Lines!EraseLine
    BY <1>3, KillLineSteps
  <2>2. UNCHANGED <<buf, r, w, lock, busy, pc, call, target, n, killed>>
    BY <1>3 DEF KillLine
  <2>3. TypeOK'
    BY <2>1, <2>2 DEF TypeOK
  <2> QED
    BY <2>1, <2>2, <2>3, LockSame DEF Lines!Next
<1> QED
  BY <1>1, <1>2, <1>3

LEMMA StepInv ==
  ASSUME ConsoleAssumption, ConsoleInv, Next
  PROVE  ConsoleInv' /\ (UNCHANGED ring \/ Lines!Next)
<1>1. CASE (\E c \in Char : Type(c)) \/ Backspace \/ KillLine
  BY <1>1, InterruptInv
<1>2. ASSUME NEW p \in Proc, KernelStep(p) PROVE ConsoleInv' /\ (UNCHANGED ring \/ Lines!Next)
  <2>1. CASE Take(p) \/ TakeEof(p)
    BY <2>1, ReadInv DEF Lines!Next
  <2>2. CASE \/ Ilock(p) \/ Iunlock(p) \/ Output(p) \/ Return(p)
             \/ Acquire(p) \/ Sleep(p) \/ Wait(p) \/ Release(p)
    BY <2>2, QuietInv
  <2> QED
    BY <1>2, <2>1, <2>2 DEF KernelStep
<1>3. ASSUME NEW p \in Proc, Kill(p) \/ Reborn(p) PROVE ConsoleInv' /\ UNCHANGED ring
  BY <1>3, OthersInv
<1>4. ASSUME NEW p \in Proc,
             (\E k \in Request : Call(p, "read", k)) \/ Call(p, "write", 0)
      PROVE  ConsoleInv' /\ UNCHANGED ring
  BY <1>4, CallInv
<1> QED
  BY <1>1, <1>2, <1>3, <1>4 DEF Next

LEMMA StutterInv ==
  ASSUME ConsoleInv, UNCHANGED vars
  PROVE  ConsoleInv' /\ UNCHANGED ring
<1>1. UNCHANGED ring
  BY DEF vars, ring
<1>2. TypeOK'
  BY DEF vars, TypeOK, ConsoleInv
<1>3. LockInv'
  BY LockSame DEF vars, ConsoleInv
<1> QED
  BY <1>1, <1>2, <1>3, RingSame DEF ConsoleInv

-----------------------------------------------------------------------------
(* The theorems *)

\* The indices r, w and e stay in this order and at most the ring apart, what is being
\* edited has no newline, one process at a time is in the loop of consoleread(), and who
\* sleeps there has found nothing that is there now.
THEOREM RingCorrect == ASSUME ConsoleAssumption PROVE Spec => []ConsoleInv
<1>1. Init => ConsoleInv
  BY InitInv
<1>2. ConsoleInv /\ [Next]_vars => ConsoleInv'
  BY StepInv, StutterInv
<1> QED
  BY <1>1, <1>2, PTL DEF Spec

\* No reader sleeps while there is something to read: consoleintr() wakes at every newline,
\* end of file and full ring, and consoleread() tests and falls asleep under input.lock.
THEOREM ConsoleReadersAlwaysWoken == ASSUME ConsoleAssumption PROVE Spec => []ReadersWoken
<1>1. ConsoleInv => ReadersWoken
  BY DEF ConsoleInv, LockInv, ReadersWoken
<1> QED
  BY <1>1, RingCorrect, PTL

\* consoleintr() and consoleread() on the ring with its wrapping indices implement a line
\* buffer: what is typed can be erased until its line is finished, and then is read once,
\* in order.
THEOREM ConsoleIsLineBuffer == ASSUME ConsoleAssumption PROVE Spec => LineSpec
<1>1. Init => Lines!Init
  BY InitInv
<1>2. ConsoleInv /\ [Next]_vars => [Lines!Next]_Lines!lineVars
  <2>1. ConsoleInv /\ Next => UNCHANGED ring \/ Lines!Next
    BY StepInv
  <2>2. ConsoleInv /\ UNCHANGED vars => UNCHANGED ring
    BY StutterInv
  <2>3. UNCHANGED ring => UNCHANGED Lines!lineVars
    BY RingSame DEF Lines!lineVars, Finished, Edited
  <2> QED
    BY <2>1, <2>2, <2>3
<1> QED
  BY <1>1, <1>2, RingCorrect, PTL DEF Spec, LineSpec, Lines!Spec
=============================================================================
