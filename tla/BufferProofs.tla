---------------------------- MODULE BufferProofs ----------------------------
(***************************************************************************)
(* What is proved of the components that keep bytes for others.  The echo  *)
(* client loses nothing, for rings, blocks and channels of any size.  The  *)
(* pool below a rapidjson document never lays two blocks over each other   *)
(* or tears one, for any owners, sizes and capacities.  A reply is written *)
(* without a failed assertion, is one line, and is read back as it was     *)
(* filled in but for strings that were copied, for any strings, memory,    *)
(* counts, lists and widths of integers.                                   *)
(***************************************************************************)
EXTENDS EchoClient, Replies, SequenceTheorems, FiniteSetTheorems, WellFoundedInduction,
        TLAPS

-----------------------------------------------------------------------------
(* Rings.                                                                  *)

Bytes == Seq(Nat)

(* A ring of which at least one byte is free.                              *)
RingInv(r) ==
  /\ DOMAIN r = {"h", "size", "used", "data"}
  /\ r.size \in Nat \ {0} /\ r.h \in 0..(r.size - 1) /\ r.used \in 0..(r.size - 1)
  /\ r.data \in [0..(r.size - 1) -> Nat]

LEMMA Wraps ==
  ASSUME NEW s \in Nat, NEW n \in 0..(2 * s - 1), s > 0
  PROVE  n % s = IF n < s THEN n ELSE n - s
<1>1. n % s \in 0..(s - 1) /\ n = s * (n \div s) + (n % s) /\ n \div s \in Int
  OBVIOUS
<1> DEFINE q == n \div s
<1>2. q \in Int /\ s * q > -s /\ s * q < 2 * s
  BY <1>1
<1> HIDE DEF q
<1>3. q \in {0, 1}
  BY <1>2
<1> QED BY <1>1, <1>3 DEF q

LEMMA AtWraps ==
  ASSUME NEW r, RingInv(r), NEW n \in 0..r.size
  PROVE  /\ At(r, n) = IF r.h + n < r.size THEN r.h + n ELSE r.h + n - r.size
         /\ At(r, n) \in 0..(r.size - 1)
<1> DEFINE s == r.size
           h == r.h
           a == At(r, n)
<1>1. s \in Nat /\ s > 0 /\ h \in 0..(s - 1) /\ n \in 0..s /\ a = (h + n) % s
  BY DEF RingInv, At
<1> HIDE DEF s, h, a
<1>2. h + n \in 0..(2 * s - 1)
  BY <1>1
<1>3. (h + n) % s = IF h + n < s THEN h + n ELSE h + n - s
  BY <1>1, <1>2, Wraps
<1>4. a \in 0..(s - 1) /\ a = IF h + n < s THEN h + n ELSE h + n - s
  BY <1>1, <1>3
<1> QED BY <1>4, Zenon DEF s, h, a

(* Two bytes of a ring never lie in one place.                             *)
LEMMA AtInjective ==
  ASSUME NEW r, RingInv(r), NEW i \in 0..(r.size - 1), NEW j \in 0..(r.size - 1),
         At(r, i) = At(r, j)
  PROVE  i = j
<1> DEFINE s == r.size
           h == r.h
           a == At(r, i)
<1>1. s \in Nat /\ h \in Nat /\ i \in 0..(s - 1) /\ j \in 0..(s - 1)
  BY DEF RingInv
<1>2. i \in 0..r.size /\ j \in 0..r.size
  BY DEF RingInv
<1>3. /\ a = IF h + i < s THEN h + i ELSE h + i - s
      /\ a = IF h + j < s THEN h + j ELSE h + j - s
  BY <1>2, AtWraps, Zenon
<1> HIDE DEF s, h, a
<1> QED BY <1>1, <1>3

(* Positions count on from the head as it moves.                           *)
LEMMA AtMoves ==
  ASSUME NEW r, RingInv(r), NEW d, RingInv(d), NEW n \in Nat, NEW k \in Nat,
         n + k < r.size, d.h = At(r, n), d.size = r.size
  PROVE  At(d, k) = At(r, n + k)
<1> DEFINE s == r.size
           h == r.h
           g == At(r, n)
           x == At(r, n + k)
           y == At(d, k)
<1>1. s \in Nat /\ h \in 0..(s - 1) /\ n + k < s /\ n \in 0..s /\ k \in 0..s /\ n + k \in 0..s
  <2>1. s \in Nat /\ h \in 0..(s - 1) /\ n + k < s
    BY DEF RingInv
  <2> HIDE DEF s, h
  <2> QED BY <2>1
<1>2. n \in 0..r.size /\ k \in 0..d.size /\ n + k \in 0..r.size
  BY <1>1
<1>3. /\ g = IF h + n < s THEN h + n ELSE h + n - s
      /\ x = IF h + (n + k) < s THEN h + (n + k) ELSE h + (n + k) - s
      /\ y = IF g + k < s THEN g + k ELSE g + k - s
  BY <1>2, AtWraps, Zenon
<1> HIDE DEF s, h, g, x, y
<1>4. y = x
  BY <1>1, <1>3
<1> QED BY <1>4 DEF x, y

LEMMA RingBytesType ==
  ASSUME NEW r, RingInv(r)
  PROVE  /\ RingBytes(r) = [k \in 1..r.used |-> r.data[At(r, k - 1)]]
         /\ RingBytes(r) \in Bytes /\ Len(RingBytes(r)) = r.used /\ r.used \in Nat
         /\ \A k \in 1..r.used : At(r, k - 1) \in DOMAIN r.data /\ r.data[At(r, k - 1)] \in Nat
<1> DEFINE b == [k \in 1..r.used |-> r.data[At(r, k - 1)]]
<1>1. RingBytes(r) = b /\ r.used \in Nat
  BY DEF RingBytes, RingGet, RingInv, Least
<1>2. ASSUME NEW k \in 1..r.used
      PROVE  At(r, k - 1) \in DOMAIN r.data /\ r.data[At(r, k - 1)] \in Nat
  <2>1. k - 1 \in 0..r.size
    BY DEF RingInv
  <2>2. At(r, k - 1) \in 0..(r.size - 1)
    BY <2>1, AtWraps
  <2> QED BY <2>2 DEF RingInv
<1> QED BY <1>1, <1>2 DEF Bytes

(* What get returns are the first bytes.                                   *)
LEMMA GetIsFirst ==
  ASSUME NEW r, RingInv(r), NEW n \in Nat
  PROVE  RingGet(r, n) = First(RingBytes(r), n)
<1> DEFINE b == RingBytes(r)
           m == IF n < Len(b) THEN n ELSE Len(b)
<1>1. /\ b = [k \in 1..r.used |-> r.data[At(r, k - 1)]]
      /\ b \in Bytes /\ Len(b) = r.used /\ r.used \in Nat
  BY RingBytesType
<1>2. RingGet(r, n) = [k \in 1..m |-> r.data[At(r, k - 1)]]
  BY <1>1 DEF RingGet, Least
<1>3. First(b, n) = SubSeq(b, 1, m)
  BY DEF First
<1> HIDE DEF b
<1>4. m \in 0..r.used
  BY <1>1
<1> HIDE DEF m
<1>5. SubSeq(b, 1, m) = [k \in 1..m |-> b[k]]
  BY <1>1, <1>4 DEF Bytes
<1>6. \A k \in 1..m : b[k] = r.data[At(r, k - 1)]
  BY <1>1, <1>4
<1> QED BY <1>2, <1>3, <1>5, <1>6 DEF b

(* dec leaves the rest.                                                    *)
LEMMA DecLeavesRest ==
  ASSUME NEW r, RingInv(r), NEW n \in 0..r.used
  PROVE  RingInv(RingDec(r, n)) /\ RingBytes(RingDec(r, n)) = Rest(RingBytes(r), n)
<1> DEFINE d == RingDec(r, n)
           b == RingBytes(r)
           u == r.used
<1>1. d = [r EXCEPT !.h = At(r, n), !.used = @ - n]
  <2>1. r.size # 0 /\ Least(n, r.used) = n
    BY DEF RingInv, Least
  <2> QED BY <2>1, Zenon DEF RingDec
<1>2. /\ DOMAIN d = {"h", "size", "used", "data"}
      /\ d.h = At(r, n) /\ d.size = r.size /\ d.used = u - n /\ d.data = r.data
  BY <1>1 DEF RingInv
<1> HIDE DEF d
<1>3. n \in Nat /\ u \in Nat /\ n <= u /\ u < r.size /\ n \in 0..r.size /\ u - n \in 0..(r.size - 1)
  BY DEF RingInv
<1>4. At(r, n) \in 0..(r.size - 1)
  BY <1>3, AtWraps
<1>5. RingInv(d)
  BY <1>2, <1>3, <1>4 DEF RingInv
<1>6. /\ b = [k \in 1..u |-> r.data[At(r, k - 1)]] /\ b \in Bytes /\ Len(b) = u
      /\ RingBytes(d) = [k \in 1..(u - n) |-> r.data[At(d, k - 1)]]
  BY <1>2, <1>5, RingBytesType
<1> HIDE DEF u, b
<1>7. Rest(b, n) = [k \in 1..(u - n) |-> b[n + k]]
  <2>1. Rest(b, n) = SubSeq(b, n + 1, u) /\ u - (n + 1) + 1 = u - n
    BY <1>3, <1>6 DEF Rest
  <2>2. SubSeq(b, n + 1, u) = [k \in 1..(u - (n + 1) + 1) |-> b[n + 1 + k - 1]]
    BY <1>3, <1>6 DEF Bytes
  <2>3. \A k \in 1..(u - n) : n + 1 + k - 1 = n + k
    BY <1>3
  <2> QED BY <2>1, <2>2, <2>3
<1>8. ASSUME NEW k \in 1..(u - n) PROVE b[n + k] = r.data[At(d, k - 1)]
  <2>1. k - 1 \in Nat /\ n + (k - 1) < r.size /\ n + k - 1 = n + (k - 1) /\ n + k \in 1..u
    BY <1>3 DEF RingInv
  <2>2. At(d, k - 1) = At(r, n + (k - 1))
    BY <1>2, <1>3, <1>5, <2>1, AtMoves
  <2> QED BY <1>6, <2>1, <2>2
<1>9. RingBytes(d) = Rest(b, n)
  BY <1>6, <1>7, <1>8
<1> QED BY <1>5, <1>9 DEF d, b

(* add appends.                                                            *)
LEMMA AddAppends ==
  ASSUME NEW r, RingInv(r), NEW b \in Bytes, Len(b) < RingFree(r)
  PROVE  RingInv(RingAdd(r, b)) /\ RingBytes(RingAdd(r, b)) = RingBytes(r) \o b
<1> DEFINE n == Len(b)
           u == r.used
           c == RingBytes(r)
           a == RingAdd(r, b)
           Position(i) == {k \in 1..n : At(r, u + k - 1) = i}
           new == [i \in DOMAIN r.data |-> IF Position(i) = {} THEN r.data[i]
                                           ELSE b[CHOOSE k \in Position(i) : TRUE]]
<1>1. n \in Nat /\ u \in Nat /\ r.size \in Nat /\ u + n < r.size
  BY DEF RingFree, Bytes, RingInv
<1>2. /\ a.h = r.h /\ a.size = r.size /\ a.used = u + n /\ a.data = new
      /\ DOMAIN a = {"h", "size", "used", "data"}
  BY <1>1 DEF RingAdd, RingInv, RingFree, Least
<1> HIDE DEF a, n
<1>3. new \in [DOMAIN r.data -> Nat]
  <2>1. ASSUME NEW i \in DOMAIN r.data, Position(i) # {}
        PROVE  b[CHOOSE k \in Position(i) : TRUE] \in Nat
    <3>1. (CHOOSE k \in Position(i) : TRUE) \in Position(i)
      BY <2>1, Zenon
    <3> QED BY <3>1 DEF Bytes, n
  <2>2. \A i \in DOMAIN r.data : r.data[i] \in Nat
    BY DEF RingInv
  <2> HIDE DEF Position
  <2> QED BY <2>1, <2>2
<1>4. RingInv(a)
  <2> HIDE DEF new, u
  <2>1. u + n \in 0..(r.size - 1)
    BY <1>1
  <2> QED BY <1>2, <1>3, <2>1 DEF RingInv
<1>5. /\ c = [k \in 1..u |-> r.data[At(r, k - 1)]] /\ c \in Bytes /\ Len(c) = u
      /\ \A k \in 1..u : At(r, k - 1) \in DOMAIN r.data
  BY RingBytesType
<1>6. RingBytes(a) = [k \in 1..(u + n) |-> new[At(r, k - 1)]]
  <2>1. RingBytes(a) = [k \in 1..(u + n) |-> new[At(a, k - 1)]]
    <3>1. RingBytes(a) = [k \in 1..a.used |-> a.data[At(a, k - 1)]]
      BY <1>4, RingBytesType, Zenon
    <3> HIDE DEF new, u
    <3> QED BY <1>2, <3>1
  <2>2. \A k \in 1..(u + n) : At(a, k - 1) = At(r, k - 1)
    BY <1>2 DEF At
  <2> QED BY <2>1, <2>2
<1> HIDE DEF u, c
<1>7. ASSUME NEW k \in 1..u PROVE new[At(r, k - 1)] = c[k]
  <2>1. ASSUME NEW j \in 1..n PROVE At(r, u + j - 1) # At(r, k - 1)
    <3>1. k - 1 \in 0..(r.size - 1) /\ u + j - 1 \in 0..(r.size - 1) /\ k - 1 # u + j - 1
      BY <1>1
    <3> QED BY <3>1, AtInjective
  <2>2. Position(At(r, k - 1)) = {}
    BY <2>1
  <2> QED BY <1>5, <2>2
<1>8. ASSUME NEW k \in 1..n PROVE new[At(r, u + k - 1)] = b[k]
  <2>1. u + k - 1 \in 0..(r.size - 1) /\ u + k - 1 \in 0..r.size
    BY <1>1
  <2>2. At(r, u + k - 1) \in DOMAIN r.data
    BY <2>1, AtWraps DEF RingInv
  <2>3. ASSUME NEW j \in 1..n, At(r, u + j - 1) = At(r, u + k - 1) PROVE j = k
    <3>1. u + j - 1 \in 0..(r.size - 1)
      BY <1>1
    <3>2. u + j - 1 = u + k - 1
      BY <2>1, <3>1, <2>3, AtInjective
    <3> QED BY <1>1, <3>2
  <2>4. Position(At(r, u + k - 1)) = {k}
    BY <2>3
  <2> QED BY <2>2, <2>4
<1> HIDE DEF new
<1>9. c \o b = [k \in 1..(u + n) |-> IF k <= u THEN c[k] ELSE b[k - u]]
  <2>1. /\ c \in Bytes /\ b \in Bytes /\ Len(c) = u /\ Len(b) = n
    BY <1>5 DEF n
  <2>2. u \in Nat /\ n \in Nat
    BY <1>1
  <2> DEFINE d == c \o b
  <2>3. /\ d \in Seq(Nat) /\ Len(d) = u + n
        /\ \A k \in 1..(u + n) : d[k] = IF k <= u THEN c[k] ELSE b[k - u]
    BY ONLY <2>1, ConcatProperties DEF Bytes
  <2> HIDE DEF d
  <2>4. d = [k \in 1..(u + n) |-> d[k]]
    BY <2>3
  <2> QED BY <2>3, <2>4 DEF d
<1>10. ASSUME NEW k \in 1..(u + n) PROVE new[At(r, k - 1)] = IF k <= u THEN c[k] ELSE b[k - u]
  <2>1. CASE k <= u
    BY <2>1, <1>1, <1>7
  <2>2. CASE k > u
    <3> DEFINE j == k - u
    <3>1. j \in 1..n /\ u + j - 1 = k - 1 /\ ~(k <= u)
      BY <2>2, <1>1
    <3> HIDE DEF j
    <3>2. new[At(r, u + j - 1)] = b[j]
      BY <3>1, <1>8
    <3> QED BY <3>1, <3>2 DEF j
  <2> QED BY <1>1, <2>1, <2>2
<1> QED BY <1>4, <1>6, <1>9, <1>10 DEF a, c

(* Doubling keeps them.                                                    *)
LEMMA DoublingKeeps ==
  ASSUME NEW r, RingInv(r)
  PROVE  RingInv(Doubled(r)) /\ RingBytes(Doubled(r)) = RingBytes(r)
<1> DEFINE s == r.size
           u == r.used
           d == Doubled(r)
           b == RingBytes(r)
           new == [i \in 0..(2 * s - 1) |-> IF i < u THEN r.data[At(r, i)] ELSE 0]
<1>1. s \in Nat \ {0} /\ u \in 0..(s - 1) /\ ~(2 * s < u)
  BY DEF RingInv
<1>2. /\ b = [k \in 1..u |-> r.data[At(r, k - 1)]]
      /\ \A k \in 1..u : r.data[At(r, k - 1)] \in Nat
  BY RingBytesType
<1>3. d = [h |-> 0, size |-> 2 * s, used |-> u, data |-> new]
  BY <1>1, Zenon DEF Doubled, RingResize
<1>4. /\ DOMAIN d = {"h", "size", "used", "data"}
      /\ d.h = 0 /\ d.size = 2 * s /\ d.used = u /\ d.data = new
  BY <1>3
<1> HIDE DEF d, s, u, b
<1>5. \A i \in 0..(2 * s - 1) : i < u => r.data[At(r, i)] \in Nat
  <2> TAKE i \in 0..(2 * s - 1)
  <2> HAVE i < u
  <2>1. i + 1 \in 1..u /\ (i + 1) - 1 = i
    BY <1>1
  <2> QED BY <1>2, <2>1
<1>6. new \in [0..(2 * s - 1) -> Nat]
  BY <1>5
<1>7. \A k \in 1..u : new[k - 1] = r.data[At(r, k - 1)]
  BY <1>1
<1> HIDE DEF new
<1>8. RingInv(d)
  <2>1. 2 * s \in Nat \ {0} /\ 0 \in 0..(2 * s - 1) /\ u \in 0..(2 * s - 1)
    BY <1>1
  <2> QED BY <1>4, <1>6, <2>1 DEF RingInv
<1>9. RingBytes(d) = [k \in 1..u |-> new[At(d, k - 1)]]
  BY <1>4, <1>8, RingBytesType
<1>10. ASSUME NEW k \in 1..u PROVE At(d, k - 1) = k - 1
  <2>1. k - 1 \in 0..(2 * s) /\ 0 + (k - 1) < 2 * s /\ 0 + (k - 1) = k - 1
    BY <1>1
  <2>2. At(d, k - 1) = IF d.h + (k - 1) < d.size THEN d.h + (k - 1) ELSE d.h + (k - 1) - d.size
    BY <1>4, <1>8, <2>1, AtWraps, Zenon
  <2> QED BY <1>4, <2>1, <2>2
<1> QED BY <1>2, <1>7, <1>8, <1>9, <1>10 DEF d, b

-----------------------------------------------------------------------------
(* What is read or written of a sequence, and what is left.                *)

LEMMA FirstType ==
  ASSUME NEW s \in Bytes, NEW n \in Int
  PROVE  First(s, n) \in Bytes /\ Len(First(s, n)) \in 0..Len(s)
<1> DEFINE m == IF n < Len(s) THEN n ELSE Len(s)
<1>1. m \in Int /\ m <= Len(s) /\ Len(s) \in Nat /\ First(s, n) = SubSeq(s, 1, m)
  BY DEF Bytes, First
<1> HIDE DEF m
<1>2. SubSeq(s, 1, m) \in Bytes /\ Len(SubSeq(s, 1, m)) = IF 1 <= m THEN m ELSE 0
  BY <1>1 DEF Bytes
<1> QED BY <1>1, <1>2

LEMMA FirstAndRest ==
  ASSUME NEW s \in Bytes, NEW n \in Nat
  PROVE  Rest(s, n) \in Bytes /\ First(s, n) \o Rest(s, n) = s
<1>1. s \in Seq(Nat) /\ Len(s) \in Nat
  BY DEF Bytes
<1>2. CASE n < Len(s)
  <2> DEFINE a == SubSeq(s, 1, n)
             b == SubSeq(s, n + 1, Len(s))
  <2>1. First(s, n) = a /\ Rest(s, n) = b
    BY <1>2 DEF First, Rest
  <2>2. /\ a \in Seq(Nat) /\ Len(a) = n /\ \A i \in 1..n : a[i] = s[i]
        /\ b \in Seq(Nat) /\ Len(b) = Len(s) - n /\ \A i \in 1..(Len(s) - n) : b[i] = s[n + i]
    BY <1>1, <1>2
  <2> HIDE DEF a, b
  <2> DEFINE c == a \o b
  <2>3. /\ c \in Seq(Nat) /\ Len(c) = n + Len(b)
        /\ \A i \in 1..(n + Len(b)) : c[i] = IF i <= n THEN a[i] ELSE b[i - n]
    BY <2>2
  <2> HIDE DEF c
  <2>4. Len(c) = Len(s)
    BY <1>1, <2>2, <2>3
  <2>5. ASSUME NEW i \in 1..Len(s) PROVE c[i] = s[i]
    <3>1. CASE i <= n
      BY <3>1, <1>1, <1>2, <2>2, <2>3
    <3>2. CASE ~(i <= n)
      <4>1. i - n \in 1..(Len(s) - n) /\ n + (i - n) = i
        BY <3>2, <1>1, <1>2
      <4>2. c[i] = b[i - n]
        BY <3>2, <1>1, <1>2, <2>2, <2>3
      <4>3. b[i - n] = s[n + (i - n)]
        BY <4>1, <2>2, Zenon
      <4> QED BY <4>1, <4>2, <4>3
    <3> QED BY <3>1, <3>2
  <2>6. c = s
    BY <1>1, <2>3, <2>4, <2>5, SeqEqual
  <2> QED BY <2>1, <2>2, <2>6 DEF c, Bytes
<1>3. CASE ~(n < Len(s))
  <2>1. First(s, n) = SubSeq(s, 1, Len(s)) /\ Rest(s, n) = SubSeq(s, n + 1, Len(s))
    BY <1>3 DEF First, Rest
  <2>2. SubSeq(s, 1, Len(s)) = s
    BY <1>1, SubSeqFull
  <2>3. SubSeq(s, n + 1, Len(s)) = <<>>
    BY <1>1, <1>3, SubSeqEmpty
  <2>4. s \o <<>> = s /\ <<>> \in Bytes
    BY <1>1 DEF Bytes
  <2> QED BY <2>1, <2>2, <2>3, <2>4
<1> QED BY <1>2, <1>3

(* A part of what is read first is read first.                             *)
LEMMA FirstOfFirst ==
  ASSUME NEW s \in Bytes, NEW m \in Nat, NEW n \in Int
  PROVE  First(First(s, m), n) = First(s, Len(First(First(s, m), n)))
<1> DEFINE f == First(s, m)
           k == IF n < Len(f) THEN n ELSE Len(f)
           j == Len(First(f, n))
<1>1. f \in Bytes /\ Len(f) \in 0..Len(s) /\ Len(s) \in Nat /\ Len(f) \in Nat
  BY FirstType DEF Bytes
<1>2. f = [i \in 1..Len(f) |-> s[i]]
  <2>1. f = SubSeq(s, 1, IF m < Len(s) THEN m ELSE Len(s))
    BY DEF First
  <2> QED BY <2>1 DEF Bytes
<1> HIDE DEF f
<1>3. k \in Int /\ k <= Len(f) /\ First(f, n) = SubSeq(f, 1, k)
  BY <1>1 DEF First
<1> HIDE DEF k
<1>4. SubSeq(f, 1, k) = [i \in 1..k |-> f[i]]
  BY <1>1, <1>3 DEF Bytes
<1>5. j \in Nat /\ 1..j = 1..k /\ j <= Len(f)
  BY <1>1, <1>3, <1>4
<1> HIDE DEF j
<1>6. First(s, j) = [i \in 1..j |-> s[i]]
  <2>1. First(s, j) = SubSeq(s, 1, IF j < Len(s) THEN j ELSE Len(s))
    BY DEF First
  <2>2. First(s, j) = SubSeq(s, 1, j)
    BY <2>1, <1>1, <1>5
  <2> QED BY <2>2, <1>1, <1>5 DEF Bytes
<1>7. \A i \in 1..k : f[i] = s[i]
  BY <1>1, <1>2, <1>3
<1>8. First(f, n) = First(s, j)
  BY <1>3, <1>4, <1>5, <1>6, <1>7
<1> QED BY <1>8 DEF f, j

-----------------------------------------------------------------------------
(* The echo client.                                                        *)

(* Concatenation by a name that the provers leave alone.                   *)
Cat(s, t) == s \o t

(* The way of the bytes, from the output back to the keyboard.             *)
WayOf(a, b, c, d, e, f, g, h, i) ==
  Cat(Cat(Cat(Cat(Cat(Cat(Cat(Cat(a, b), c), d), e), f), g), h), i)

LEMMA Associates ==
  ASSUME NEW p \in Bytes, NEW x \in Bytes, NEW y \in Bytes
  PROVE  Cat(Cat(p, x), y) = Cat(p, Cat(x, y))
BY ConcatAssociative, SMTT(20) DEF Cat, Bytes

LEMMA Joined == ASSUME NEW s \in Bytes, NEW t \in Bytes PROVE Cat(s, t) \in Bytes
BY ConcatProperties DEF Bytes, Cat

(* Bytes that pass from one place to the next stay on the way, in order.   *)
Passing(a, b, c, d, e, f, g, h, i, v, w) ==
  /\ Cat(a, b) = Cat(v, w) => WayOf(a, b, c, d, e, f, g, h, i) = WayOf(v, w, c, d, e, f, g, h, i)
  /\ Cat(b, c) = Cat(v, w) => WayOf(a, b, c, d, e, f, g, h, i) = WayOf(a, v, w, d, e, f, g, h, i)
  /\ Cat(c, d) = Cat(v, w) => WayOf(a, b, c, d, e, f, g, h, i) = WayOf(a, b, v, w, e, f, g, h, i)
  /\ Cat(d, e) = Cat(v, w) => WayOf(a, b, c, d, e, f, g, h, i) = WayOf(a, b, c, v, w, f, g, h, i)
  /\ Cat(e, f) = Cat(v, w) => WayOf(a, b, c, d, e, f, g, h, i) = WayOf(a, b, c, d, v, w, g, h, i)
  /\ Cat(f, g) = Cat(v, w) => WayOf(a, b, c, d, e, f, g, h, i) = WayOf(a, b, c, d, e, v, w, h, i)
  /\ Cat(g, h) = Cat(v, w) => WayOf(a, b, c, d, e, f, g, h, i) = WayOf(a, b, c, d, e, f, v, w, i)
  /\ Cat(h, i) = Cat(v, w) => WayOf(a, b, c, d, e, f, g, h, i) = WayOf(a, b, c, d, e, f, g, v, w)

LEMMA Handover ==
  ASSUME NEW a \in Bytes, NEW b \in Bytes, NEW c \in Bytes, NEW d \in Bytes, NEW e \in Bytes,
         NEW f \in Bytes, NEW g \in Bytes, NEW h \in Bytes, NEW i \in Bytes,
         NEW v \in Bytes, NEW w \in Bytes
  PROVE  Passing(a, b, c, d, e, f, g, h, i, v, w)
<1> DEFINE ab == Cat(a, b)
           ac == Cat(ab, c)
           ad == Cat(ac, d)
           ae == Cat(ad, e)
           af == Cat(ae, f)
           ag == Cat(af, g)
<1>1. ab \in Bytes /\ ac \in Bytes /\ ad \in Bytes /\ ae \in Bytes /\ af \in Bytes /\ ag \in Bytes
  <2>1. ab \in Bytes
    BY Joined
  <2>2. ac \in Bytes
    BY <2>1, Joined
  <2>3. ad \in Bytes
    BY <2>2, Joined
  <2>4. ae \in Bytes
    BY <2>3, Joined
  <2>5. af \in Bytes
    BY <2>4, Joined
  <2>6. ag \in Bytes
    BY <2>5, Joined
  <2> QED BY <2>1, <2>2, <2>3, <2>4, <2>5, <2>6
<1> HIDE DEF ab, ac, ad, ae, af, ag
<1>2. Cat(b, c) = Cat(v, w) => Cat(Cat(a, b), c) = Cat(Cat(a, v), w)
  BY <1>1, Associates
<1>3. Cat(c, d) = Cat(v, w) => Cat(Cat(ab, c), d) = Cat(Cat(ab, v), w)
  BY <1>1, Associates
<1>4. Cat(d, e) = Cat(v, w) => Cat(Cat(ac, d), e) = Cat(Cat(ac, v), w)
  BY <1>1, Associates
<1>5. Cat(e, f) = Cat(v, w) => Cat(Cat(ad, e), f) = Cat(Cat(ad, v), w)
  BY <1>1, Associates
<1>6. Cat(f, g) = Cat(v, w) => Cat(Cat(ae, f), g) = Cat(Cat(ae, v), w)
  BY <1>1, Associates
<1>7. Cat(g, h) = Cat(v, w) => Cat(Cat(af, g), h) = Cat(Cat(af, v), w)
  BY <1>1, Associates
<1>8. Cat(h, i) = Cat(v, w) => Cat(Cat(ag, h), i) = Cat(Cat(ag, v), w)
  BY <1>1, Associates
<1> QED BY <1>2, <1>3, <1>4, <1>5, <1>6, <1>7, <1>8, Zenon DEF Passing, WayOf, ab, ac, ad, ae, af, ag

PeerBlock == IF pc = "addPeer" THEN block ELSE <<>>
TypedBlock == IF pc = "addTyped" THEN block ELSE <<>>
Way == WayOf(printed, RingBytes(cring), PeerBlock, fromPeer, held, toPeer,
             RingBytes(sring), TypedBlock, input)

TypeInv ==
  /\ RingInv(sring) /\ RingInv(cring) /\ block \in Bytes
  /\ typed \in Nat /\ input \in Bytes
  /\ toPeer \in Bytes /\ fromPeer \in Bytes /\ held \in Bytes /\ printed \in Bytes

(* A ring keeps a byte free; only a block between a read and the ring it   *)
(* goes into is looked at again.                                           *)
IInv ==
  /\ TypeInv
  /\ pc \notin {"addPeer", "addTyped"} => block = <<>>
  /\ Way = [k \in 1..typed |-> k]

LEMMA InitInv == Init => IInv
<1> SUFFICES ASSUME Init PROVE IInv
  OBVIOUS
<1>1. <<>> \in Bytes /\ <<>> \o <<>> = <<>> /\ [k \in 1..0 |-> k] = <<>>
  BY DEF Bytes
<1>2. RingInv(RingInit(INITRINGSIZE)) /\ RingBytes(RingInit(INITRINGSIZE)) = <<>>
  <2> DEFINE r == RingInit(INITRINGSIZE)
  <2>1. /\ DOMAIN r = {"h", "size", "used", "data"}
        /\ r.h = 0 /\ r.size = INITRINGSIZE /\ r.used = 0
        /\ r.data \in [0..(INITRINGSIZE - 1) -> Nat]
    BY DEF RingInit
  <2> HIDE DEF r
  <2>2. RingInv(r)
    BY <2>1, SizesAssumption DEF RingInv
  <2>3. Len(RingBytes(r)) = 0 /\ RingBytes(r) \in Bytes
    BY <2>1, <2>2, RingBytesType
  <2> QED BY <2>2, <2>3 DEF Bytes, r
<1>3. TypeInv
  BY <1>1, <1>2 DEF Init, TypeInv
<1>4. PeerBlock = <<>> /\ TypedBlock = <<>>
  BY DEF Init, PeerBlock, TypedBlock
<1>5. Way = <<>>
  <2>1. Way = WayOf(<<>>, <<>>, <<>>, <<>>, <<>>, <<>>, <<>>, <<>>, <<>>)
    BY <1>2, <1>4 DEF Init, Way
  <2>2. Cat(<<>>, <<>>) = <<>>
    BY <1>1 DEF Cat
  <2> QED BY <2>1, <2>2, Zenon DEF WayOf
<1> QED BY <1>1, <1>3, <1>5 DEF Init, IInv

LEMMA Places ==
  ASSUME IInv
  PROVE  /\ printed \in Bytes /\ RingBytes(cring) \in Bytes /\ PeerBlock \in Bytes
         /\ fromPeer \in Bytes /\ held \in Bytes /\ toPeer \in Bytes
         /\ RingBytes(sring) \in Bytes /\ TypedBlock \in Bytes /\ input \in Bytes
         /\ block \in Bytes /\ <<>> \in Bytes /\ RingInv(sring) /\ RingInv(cring)
         /\ \A s \in Bytes : Cat(<<>>, s) = s /\ Cat(s, <<>>) = s
<1>1. TypeInv /\ <<>> \in Bytes
  BY DEF IInv, Bytes
<1>2. RingBytes(cring) \in Bytes /\ RingBytes(sring) \in Bytes
  BY <1>1, RingBytesType, Zenon DEF TypeInv
<1>3. PeerBlock \in Bytes /\ TypedBlock \in Bytes
  BY <1>1 DEF TypeInv, PeerBlock, TypedBlock
<1>4. \A s \in Bytes : Cat(<<>>, s) = s /\ Cat(s, <<>>) = s
  BY ConcatEmptySeq DEF Bytes, Cat
<1> QED BY <1>1, <1>2, <1>3, <1>4 DEF TypeInv

LEMMA Passes ==
  ASSUME IInv, NEW v \in Bytes, NEW w \in Bytes
  PROVE  /\ Cat(printed, RingBytes(cring)) = Cat(v, w) =>
              Way = WayOf(v, w, PeerBlock, fromPeer, held, toPeer, RingBytes(sring), TypedBlock, input)
         /\ Cat(RingBytes(cring), PeerBlock) = Cat(v, w) =>
              Way = WayOf(printed, v, w, fromPeer, held, toPeer, RingBytes(sring), TypedBlock, input)
         /\ Cat(PeerBlock, fromPeer) = Cat(v, w) =>
              Way = WayOf(printed, RingBytes(cring), v, w, held, toPeer, RingBytes(sring), TypedBlock, input)
         /\ Cat(fromPeer, held) = Cat(v, w) =>
              Way = WayOf(printed, RingBytes(cring), PeerBlock, v, w, toPeer, RingBytes(sring), TypedBlock, input)
         /\ Cat(held, toPeer) = Cat(v, w) =>
              Way = WayOf(printed, RingBytes(cring), PeerBlock, fromPeer, v, w, RingBytes(sring), TypedBlock, input)
         /\ Cat(toPeer, RingBytes(sring)) = Cat(v, w) =>
              Way = WayOf(printed, RingBytes(cring), PeerBlock, fromPeer, held, v, w, TypedBlock, input)
         /\ Cat(RingBytes(sring), TypedBlock) = Cat(v, w) =>
              Way = WayOf(printed, RingBytes(cring), PeerBlock, fromPeer, held, toPeer, v, w, input)
         /\ Cat(TypedBlock, input) = Cat(v, w) =>
              Way = WayOf(printed, RingBytes(cring), PeerBlock, fromPeer, held, toPeer, RingBytes(sring), v, w)
<1>1. Passing(printed, RingBytes(cring), PeerBlock, fromPeer, held, toPeer, RingBytes(sring),
              TypedBlock, input, v, w)
  BY Places, Handover, Zenon
<1> QED BY <1>1, Zenon DEF Passing, Way

(* Steps that move no byte.                                                *)
LEMMA QuietStep ==
  ASSUME IInv, UNCHANGED <<sring, cring, block, typed, input, toPeer, fromPeer, held, printed>>,
         pc' = pc \/ {pc, pc'} \cap {"addPeer", "addTyped"} = {}
  PROVE  IInv'
<1>1. TypeInv'
  BY DEF IInv, TypeInv
<1>2. PeerBlock' = PeerBlock /\ TypedBlock' = TypedBlock
  BY DEF PeerBlock, TypedBlock
<1>3. Way' = Way
  BY <1>2 DEF Way
<1> QED BY <1>1, <1>3 DEF IInv

(* Steps that move bytes from one place to the next.                       *)
LEMMA MovingStep ==
  ASSUME IInv, TypeInv', UNCHANGED typed, Way' = Way,
         pc' \notin {"addPeer", "addTyped"} => block' = <<>>
  PROVE  IInv'
BY DEF IInv

LEMMA TypeStep == ASSUME IInv, Type PROVE IInv'
<1>1. /\ typed \in Nat /\ typed' = typed + 1 /\ input' = Append(input, typed + 1) /\ input \in Bytes
      /\ UNCHANGED <<pc, sring, cring, block, toPeer, fromPeer, held, printed>>
  BY DEF Type, client, peer, IInv, TypeInv
<1> DEFINE t == <<typed + 1>>
           w == Cat(Cat(Cat(Cat(Cat(Cat(Cat(printed, RingBytes(cring)), PeerBlock), fromPeer),
                                held), toPeer), RingBytes(sring)), TypedBlock)
<1>2. t \in Bytes /\ input' = Cat(input, t) /\ input' \in Bytes
  BY <1>1 DEF Bytes, Cat
<1> HIDE DEF t
<1>3. TypeInv'
  BY <1>1, <1>2 DEF IInv, TypeInv
<1>4. PeerBlock' = PeerBlock /\ TypedBlock' = TypedBlock
  BY <1>1 DEF PeerBlock, TypedBlock
<1>5. w \in Bytes
  BY Places, Joined
<1>6. Way = Cat(w, input)
  BY Zenon DEF Way, WayOf
<1>7. Way' = Cat(w, input')
  BY <1>1, <1>4 DEF Way, WayOf
<1> HIDE DEF w
<1>8. Way' = Cat(Way, t)
  BY <1>1, <1>2, <1>5, <1>6, <1>7, Associates
<1>9. Way = [k \in 1..typed |-> k]
  BY DEF IInv
<1>10. Cat([k \in 1..typed |-> k], t) = [k \in 1..(typed + 1) |-> k]
  BY <1>1 DEF Cat, t
<1> QED BY <1>1, <1>3, <1>8, <1>9, <1>10 DEF IInv

LEMMA PeerReadsStep == ASSUME IInv, PeerReads PROVE IInv'
<1>1. /\ held = <<>> /\ held' = First(toPeer, BLOCKSIZE) /\ toPeer' = Rest(toPeer, BLOCKSIZE)
      /\ UNCHANGED <<pc, sring, cring, block, typed, input, fromPeer, printed>>
  BY DEF PeerReads, client, user
<1>2. /\ First(toPeer, BLOCKSIZE) \in Bytes /\ Rest(toPeer, BLOCKSIZE) \in Bytes
      /\ Cat(First(toPeer, BLOCKSIZE), Rest(toPeer, BLOCKSIZE)) = toPeer
  <2>1. BLOCKSIZE \in Nat /\ BLOCKSIZE \in Int /\ toPeer \in Bytes
    BY Places, SizesAssumption
  <2> QED BY <2>1, FirstType, FirstAndRest, Zenon DEF Cat
<1>3. Cat(held, toPeer) = Cat(held', toPeer')
  BY <1>1, <1>2, Places
<1>4. Way = WayOf(printed, RingBytes(cring), PeerBlock, fromPeer, held', toPeer',
                  RingBytes(sring), TypedBlock, input)
  BY <1>1, <1>2, <1>3, Passes
<1>5. PeerBlock' = PeerBlock /\ TypedBlock' = TypedBlock
  BY <1>1 DEF PeerBlock, TypedBlock
<1>6. Way' = Way
  BY <1>1, <1>4, <1>5 DEF Way
<1>7. TypeInv'
  BY <1>1, <1>2 DEF IInv, TypeInv
<1> QED BY <1>1, <1>6, <1>7, MovingStep DEF IInv

LEMMA Splits ==
  ASSUME NEW s \in Bytes, NEW n \in Nat
  PROVE  First(s, n) \in Bytes /\ Rest(s, n) \in Bytes /\ Cat(First(s, n), Rest(s, n)) = s
<1>1. n \in Int
  OBVIOUS
<1> QED BY <1>1, FirstType, FirstAndRest, Zenon DEF Cat

LEMMA PeerWritesStep == ASSUME IInv, PeerWrites PROVE IInv'
<1> DEFINE n == Room - Len(fromPeer)
           a == First(held, n)
           b == Rest(held, n)
<1>1. /\ n > 0 /\ fromPeer' = Cat(fromPeer, a) /\ held' = b
      /\ UNCHANGED <<pc, sring, cring, block, typed, input, toPeer, printed>>
  BY DEF PeerWrites, client, user, Cat
<1>2. n \in Nat
  <2>1. Len(fromPeer) \in Nat /\ Room \in Nat
    BY Places, SizesAssumption DEF Bytes
  <2> QED BY <1>1, <2>1
<1> HIDE DEF n
<1>3. a \in Bytes /\ b \in Bytes /\ Cat(a, b) = held
  BY <1>2, Places, Splits
<1> HIDE DEF a, b
<1>4. Cat(fromPeer, a) \in Bytes /\ Cat(fromPeer, held) = Cat(fromPeer', held')
  BY <1>1, <1>3, Places, Joined, Associates
<1>5. Way = WayOf(printed, RingBytes(cring), PeerBlock, fromPeer', held', toPeer,
                  RingBytes(sring), TypedBlock, input)
  BY <1>1, <1>3, <1>4, Passes
<1>6. PeerBlock' = PeerBlock /\ TypedBlock' = TypedBlock
  BY <1>1 DEF PeerBlock, TypedBlock
<1>7. Way' = Way
  BY <1>1, <1>5, <1>6 DEF Way
<1>8. TypeInv'
  BY <1>1, <1>3, <1>4 DEF IInv, TypeInv
<1> QED BY <1>1, <1>7, <1>8, MovingStep DEF IInv

LEMMA ReadPeerStep == ASSUME IInv, ReadPeer PROVE IInv'
<1>1. /\ pc = "readPeer" /\ pc' = "addPeer"
      /\ block' = First(fromPeer, BLOCKSIZE) /\ fromPeer' = Rest(fromPeer, BLOCKSIZE)
      /\ UNCHANGED <<sring, cring, typed, input, toPeer, held, printed>>
  BY DEF ReadPeer, peer, user
<1>2. block' \in Bytes /\ fromPeer' \in Bytes /\ Cat(block', fromPeer') = fromPeer
  BY <1>1, Places, Splits, SizesAssumption
<1>3. PeerBlock = <<>> /\ PeerBlock' = block' /\ TypedBlock' = TypedBlock
  BY <1>1 DEF PeerBlock, TypedBlock
<1>4. Cat(PeerBlock, fromPeer) = Cat(PeerBlock', fromPeer')
  BY <1>2, <1>3, Places
<1>5. Way = WayOf(printed, RingBytes(cring), PeerBlock', fromPeer', held, toPeer,
                  RingBytes(sring), TypedBlock, input)
  BY <1>2, <1>3, <1>4, Passes
<1>6. Way' = Way
  BY <1>1, <1>3, <1>5 DEF Way
<1>7. TypeInv'
  BY <1>1, <1>2 DEF IInv, TypeInv
<1> QED BY <1>1, <1>6, <1>7, MovingStep

LEMMA ReadTypedStep == ASSUME IInv, ReadTyped PROVE IInv'
<1>1. /\ pc = "readTyped" /\ pc' = "addTyped"
      /\ block' = First(input, BLOCKSIZE) /\ input' = Rest(input, BLOCKSIZE)
      /\ UNCHANGED <<sring, cring, typed, fromPeer, toPeer, held, printed>>
  BY DEF ReadTyped, peer, user
<1>2. block' \in Bytes /\ input' \in Bytes /\ Cat(block', input') = input
  BY <1>1, Places, Splits, SizesAssumption
<1>3. TypedBlock = <<>> /\ TypedBlock' = block' /\ PeerBlock' = PeerBlock
  BY <1>1 DEF PeerBlock, TypedBlock
<1>4. Cat(TypedBlock, input) = Cat(TypedBlock', input')
  BY <1>2, <1>3, Places
<1>5. Way = WayOf(printed, RingBytes(cring), PeerBlock, fromPeer, held, toPeer,
                  RingBytes(sring), TypedBlock', input')
  BY <1>2, <1>3, <1>4, Passes
<1>6. Way' = Way
  BY <1>1, <1>3, <1>5 DEF Way
<1>7. TypeInv'
  BY <1>1, <1>2 DEF IInv, TypeInv
<1> QED BY <1>1, <1>6, <1>7, MovingStep

(* Growing moves the bytes of a ring, and leaves them in their order.      *)
LEMMA GrowStep == ASSUME IInv, GrowPeerRing \/ GrowTypedRing PROVE IInv'
<1>1. /\ cring' \in {cring, Doubled(cring)} /\ sring' \in {sring, Doubled(sring)}
      /\ UNCHANGED <<pc, block, typed, input, toPeer, fromPeer, held, printed>>
  BY DEF GrowPeerRing, GrowTypedRing, peer, user
<1>2. /\ RingInv(cring') /\ RingBytes(cring') = RingBytes(cring)
      /\ RingInv(sring') /\ RingBytes(sring') = RingBytes(sring)
  BY <1>1, Places, DoublingKeeps
<1>3. PeerBlock' = PeerBlock /\ TypedBlock' = TypedBlock
  BY <1>1 DEF PeerBlock, TypedBlock
<1>4. Way' = Way
  BY <1>1, <1>2, <1>3 DEF Way
<1>5. TypeInv'
  BY <1>1, <1>2 DEF IInv, TypeInv
<1> QED BY <1>1, <1>4, <1>5, MovingStep DEF IInv

LEMMA AddPeerStep == ASSUME IInv, AddPeer PROVE IInv'
<1>1. /\ pc = "addPeer" /\ pc' = "readTyped" /\ cring' = RingAdd(cring, block) /\ block' = <<>>
      /\ Len(block) < RingFree(cring)
      /\ UNCHANGED <<sring, typed, input, toPeer, fromPeer, held, printed>>
  BY DEF AddPeer, Fits, peer, user
<1>2. RingInv(cring') /\ RingBytes(cring') = Cat(RingBytes(cring), block)
  BY <1>1, Places, AddAppends DEF Cat
<1>3. PeerBlock = block /\ PeerBlock' = <<>> /\ TypedBlock' = TypedBlock /\ block \in Bytes
  BY <1>1, Places DEF PeerBlock, TypedBlock
<1>4. /\ RingBytes(cring') \in Bytes
      /\ Cat(RingBytes(cring), PeerBlock) = Cat(RingBytes(cring'), PeerBlock')
  BY <1>2, <1>3, Places, RingBytesType
<1>5. Way = WayOf(printed, RingBytes(cring'), PeerBlock', fromPeer, held, toPeer,
                  RingBytes(sring), TypedBlock, input)
  BY <1>3, <1>4, Places, Passes
<1>6. Way' = Way
  BY <1>1, <1>3, <1>5 DEF Way
<1>7. TypeInv'
  BY <1>1, <1>2, Places DEF IInv, TypeInv
<1> QED BY <1>1, <1>6, <1>7, MovingStep

LEMMA AddTypedStep == ASSUME IInv, AddTyped PROVE IInv'
<1>1. /\ pc = "addTyped" /\ pc' = "print" /\ sring' = RingAdd(sring, block) /\ block' = <<>>
      /\ Len(block) < RingFree(sring)
      /\ UNCHANGED <<cring, typed, input, toPeer, fromPeer, held, printed>>
  BY DEF AddTyped, Fits, peer, user
<1>2. RingInv(sring') /\ RingBytes(sring') = Cat(RingBytes(sring), block)
  BY <1>1, Places, AddAppends DEF Cat
<1>3. TypedBlock = block /\ TypedBlock' = <<>> /\ PeerBlock' = PeerBlock /\ block \in Bytes
  BY <1>1, Places DEF PeerBlock, TypedBlock
<1>4. /\ RingBytes(sring') \in Bytes
      /\ Cat(RingBytes(sring), TypedBlock) = Cat(RingBytes(sring'), TypedBlock')
  BY <1>2, <1>3, Places, RingBytesType
<1>5. Way = WayOf(printed, RingBytes(cring), PeerBlock, fromPeer, held, toPeer,
                  RingBytes(sring'), TypedBlock', input)
  BY <1>3, <1>4, Places, Passes
<1>6. Way' = Way
  BY <1>1, <1>3, <1>5 DEF Way
<1>7. TypeInv'
  BY <1>1, <1>2, Places DEF IInv, TypeInv
<1> QED BY <1>1, <1>6, <1>7, MovingStep

(* What a write takes of the block it is offered leaves the ring.          *)
LEMMA WriteTakes ==
  ASSUME NEW r, RingInv(r), NEW n \in Int,
         NEW a, a = First(RingGet(r, BLOCKSIZE), n)
  PROVE  /\ a \in Bytes /\ RingInv(RingDec(r, Len(a))) /\ RingBytes(RingDec(r, Len(a))) \in Bytes
         /\ Cat(a, RingBytes(RingDec(r, Len(a)))) = RingBytes(r)
<1> DEFINE s == RingBytes(r)
           d == RingDec(r, Len(a))
<1>1. s \in Bytes /\ Len(s) = r.used /\ r.used \in Nat /\ BLOCKSIZE \in Nat
  BY RingBytesType, SizesAssumption
<1>2. RingGet(r, BLOCKSIZE) = First(s, BLOCKSIZE)
  BY <1>1, GetIsFirst
<1> HIDE DEF s
<1>3. First(s, BLOCKSIZE) \in Bytes /\ Len(First(s, BLOCKSIZE)) \in 0..Len(s)
  BY <1>1, FirstType
<1>4. a \in Bytes /\ Len(a) \in 0..Len(First(s, BLOCKSIZE)) /\ Len(a) \in Nat
  BY <1>2, <1>3, FirstType DEF Bytes
<1>5. Len(a) \in 0..r.used
  BY <1>1, <1>3, <1>4
<1>6. a = First(s, Len(a))
  BY <1>1, <1>2, FirstOfFirst
<1>7. Rest(s, Len(a)) \in Bytes /\ Cat(First(s, Len(a)), Rest(s, Len(a))) = s
  BY <1>1, <1>4, Splits
<1>8. RingInv(d) /\ RingBytes(d) = Rest(s, Len(a))
  BY <1>5, DecLeavesRest DEF s
<1> QED BY <1>4, <1>6, <1>7, <1>8 DEF s

LEMMA WriteOutputStep == ASSUME IInv, WriteOutput PROVE IInv'
<1>1. PICK n \in 1..Len(RingGet(cring, BLOCKSIZE)) :
        /\ pc = "print" /\ pc' = "send"
        /\ printed' = Cat(printed, First(RingGet(cring, BLOCKSIZE), n))
        /\ cring' = RingDec(cring, n)
        /\ UNCHANGED <<sring, block, typed, input, toPeer, fromPeer, held>>
  BY DEF WriteOutput, Cat, peer, user
<1> DEFINE a == First(RingGet(cring, BLOCKSIZE), n)
<1>2. Len(a) = n /\ n \in Int
  <2> DEFINE g == RingGet(cring, BLOCKSIZE)
  <2>1. g \in Bytes
    <3>1. RingBytes(cring) \in Bytes /\ BLOCKSIZE \in Nat /\ BLOCKSIZE \in Int
      BY Places, SizesAssumption
    <3>2. g = First(RingBytes(cring), BLOCKSIZE)
      BY <3>1, Places, GetIsFirst
    <3> QED BY <3>1, <3>2, FirstType
  <2>2. n \in 1..Len(g)
    OBVIOUS
  <2> HIDE DEF g
  <2>3. Len(First(g, n)) = n
    BY <2>1, <2>2 DEF First, Bytes
  <2> QED BY <2>3 DEF g
<1>3. /\ a \in Bytes /\ RingInv(cring') /\ RingBytes(cring') \in Bytes
      /\ Cat(a, RingBytes(cring')) = RingBytes(cring)
  <2>1. /\ a \in Bytes /\ RingInv(RingDec(cring, Len(a))) /\ RingBytes(RingDec(cring, Len(a))) \in Bytes
        /\ Cat(a, RingBytes(RingDec(cring, Len(a)))) = RingBytes(cring)
    BY <1>2, Places, WriteTakes
  <2> QED BY <1>1, <1>2, <2>1
<1> HIDE DEF a
<1>4. /\ printed' = Cat(printed, a) /\ printed' \in Bytes
      /\ Cat(printed, RingBytes(cring)) = Cat(printed', RingBytes(cring'))
  <2>1. printed' = Cat(printed, a)
    BY <1>1 DEF a
  <2> QED BY <2>1, <1>3, Places, Joined, Associates
<1>5. Way = WayOf(printed', RingBytes(cring'), PeerBlock, fromPeer, held, toPeer,
                  RingBytes(sring), TypedBlock, input)
  BY <1>3, <1>4, Passes
<1>6. PeerBlock' = PeerBlock /\ TypedBlock' = TypedBlock
  BY <1>1 DEF PeerBlock, TypedBlock
<1>7. Way' = Way
  BY <1>1, <1>5, <1>6 DEF Way
<1>8. TypeInv'
  BY <1>1, <1>3, <1>4 DEF IInv, TypeInv
<1> QED BY <1>1, <1>7, <1>8, MovingStep DEF IInv

LEMMA SendStep == ASSUME IInv, Send PROVE IInv'
<1> DEFINE a == First(RingGet(sring, BLOCKSIZE), Room - Len(toPeer))
<1>1. /\ pc = "send" /\ pc' = "select"
      /\ toPeer' = Cat(toPeer, a) /\ sring' = RingDec(sring, Len(a))
      /\ UNCHANGED <<cring, block, typed, input, printed, fromPeer, held>>
  BY DEF Send, Offers, Cat, peer, user
<1>2. Room - Len(toPeer) \in Int
  BY Places, SizesAssumption DEF Bytes
<1>3. /\ a \in Bytes /\ RingInv(sring') /\ RingBytes(sring') \in Bytes
      /\ Cat(a, RingBytes(sring')) = RingBytes(sring)
  BY <1>1, <1>2, Places, WriteTakes
<1> HIDE DEF a
<1>4. /\ toPeer' \in Bytes /\ Cat(toPeer, RingBytes(sring)) = Cat(toPeer', RingBytes(sring'))
  BY <1>1, <1>3, Places, Joined, Associates
<1>5. Way = WayOf(printed, RingBytes(cring), PeerBlock, fromPeer, held, toPeer',
                  RingBytes(sring'), TypedBlock, input)
  BY <1>3, <1>4, Passes
<1>6. PeerBlock' = PeerBlock /\ TypedBlock' = TypedBlock
  BY <1>1 DEF PeerBlock, TypedBlock
<1>7. Way' = Way
  BY <1>1, <1>5, <1>6 DEF Way
<1>8. TypeInv'
  BY <1>1, <1>3, <1>4 DEF IInv, TypeInv
<1> QED BY <1>1, <1>7, <1>8, MovingStep DEF IInv

LEMMA ConnectingStep == ASSUME IInv, Connecting PROVE IInv'
<1>1. UNCHANGED <<sring, cring, block, typed, input, toPeer, fromPeer, held, printed>>
  BY DEF Connecting, SocketFails, ConnectFails, Connects, NoMoreAddresses, World, peer, user
<1>2. pc = "connect" /\ pc' \in {"connect", "select", "hangs"}
  BY DEF Connecting, SocketFails, ConnectFails, Connects, NoMoreAddresses
<1> QED BY <1>1, <1>2, QuietStep

(* The steps of the loop that find nothing to do, or the end.              *)
LEMMA PassingByStep ==
  ASSUME IInv, Select \/ SkipPeer \/ PeerEnds \/ SkipTyped \/ InputEnds
               \/ SkipOutput \/ SkipSend \/ SendFails
  PROVE  IInv'
<1>1. UNCHANGED <<sring, cring, block, typed, input, toPeer, fromPeer, held, printed>>
  BY DEF Select, Selects, SkipPeer, SkipTyped, SkipOutput, SkipSend, Skip, PeerEnds, InputEnds, SendFails,
         World, peer, user
<1>2. {pc, pc'} \cap {"addPeer", "addTyped"} = {}
  BY DEF Select, Selects, SkipPeer, SkipTyped, SkipOutput, SkipSend, Skip, PeerEnds, InputEnds, SendFails
<1> QED BY <1>1, <1>2, QuietStep

LEMMA LoopingStep == ASSUME IInv, Looping PROVE IInv'
<1>1. CASE Select \/ SkipPeer \/ PeerEnds \/ SkipTyped \/ InputEnds
           \/ SkipOutput \/ SkipSend \/ SendFails
  BY <1>1, PassingByStep
<1>2. CASE ReadPeer
  BY <1>2, ReadPeerStep
<1>3. CASE ReadTyped
  BY <1>3, ReadTypedStep
<1>4. CASE GrowPeerRing \/ GrowTypedRing
  BY <1>4, GrowStep
<1>5. CASE AddPeer
  BY <1>5, AddPeerStep
<1>6. CASE AddTyped
  BY <1>6, AddTypedStep
<1>7. CASE WriteOutput
  BY <1>7, WriteOutputStep
<1>8. CASE Send
  BY <1>8, SendStep
<1> QED BY <1>1, <1>2, <1>3, <1>4, <1>5, <1>6, <1>7, <1>8, Zenon DEF Looping

LEMMA EchoNextInv == IInv /\ [Next]_vars => IInv'
<1> SUFFICES ASSUME IInv, [Next]_vars PROVE IInv'
  OBVIOUS
<1>1. CASE Connecting
  BY <1>1, ConnectingStep
<1>2. CASE Looping
  BY <1>2, LoopingStep
<1>3. CASE Type
  BY <1>3, TypeStep
<1>4. CASE PeerReads
  BY <1>4, PeerReadsStep
<1>5. CASE PeerWrites
  BY <1>5, PeerWritesStep
<1>6. CASE CloseInput \/ PeerCloses \/ Idle \/ UNCHANGED vars
  <2>1. UNCHANGED <<sring, cring, block, typed, input, toPeer, fromPeer, held, printed>> /\ pc' = pc
    BY <1>6 DEF CloseInput, PeerCloses, Idle, vars, client, peer, user
  <2> QED BY <2>1, QuietStep
<1> QED BY <1>1, <1>2, <1>3, <1>4, <1>5, <1>6 DEF Next

(* NothingIsLostOnTheWay for any number of bytes, any size of block, ring  *)
(* and channel: partial reads and writes, wrapping and growing rings       *)
(* (echo_client) neither lose nor double a byte, nor change the order.     *)
THEOREM NothingIsLost == Spec => []NothingIsLostOnTheWay
<1>1. IInv => NothingIsLostOnTheWay
  <2> SUFFICES ASSUME IInv PROVE NothingIsLostOnTheWay
    OBVIOUS
  <2>1. RingOK(sring) /\ RingOK(cring)
    <3>1. RingInv(sring) /\ RingInv(cring)
      BY Places
    <3> QED BY <3>1 DEF RingInv, RingOK
  <2>2. Way = [k \in 1..typed |-> k]
    BY DEF IInv
  <2> QED BY <2>1, <2>2, Zenon DEF NothingIsLostOnTheWay, Way, WayOf, Cat, PeerBlock, TypedBlock
<1> QED BY <1>1, InitInv, EchoNextInv, PTL DEF Spec

-----------------------------------------------------------------------------
(* The pool.                                                               *)

Chunks == [capacity : Nat, size : Nat]
Memories == UNION {[0..(n - 1) -> Owners \cup {Nobody}] : n \in Nat}

(* An owner without a block has used none; an array's block has room for   *)
(* an element, so doubling it makes room for one more; the stack has a     *)
(* block from the start.                                                   *)
PoolSizes ==
  /\ \A o \in Owners : blocks[o].size = 0 => blocks[o].used = 0
  /\ \A o \in Arrays : blocks[o].size > 0 => blocks[o].size >= ElementSize
  /\ blocks[Stack].size > 0

(* What a block holds is only kept by moves that know where it lies, and   *)
(* where a block goes depends on what lies there: both are one invariant.  *)
PoolIInv == PoolInv /\ ContentsAreKept /\ mem \in Seq(Memories) /\ PoolSizes

-----------------------------------------------------------------------------
(* Sizes are rounded up to multiples of four.                              *)

LEMMA AlignedProperties ==
  ASSUME NEW n \in Nat
  PROVE  /\ Aligned(n) \in Nat /\ n <= Aligned(n) /\ Aligned(n) % 4 = 0
         /\ n % 4 = 0 => Aligned(n) = n
  BY DEF Aligned

LEMMA AlignedAdds ==
  ASSUME NEW a \in Nat, NEW n \in Nat, a % 4 = 0
  PROVE  Aligned(a + n) = a + Aligned(n)
<1>1. PICK q \in Nat : a = 4 * q
  BY SMTT(20)
<1>2. (a + n + 3) \div 4 = q + ((n + 3) \div 4)
  BY <1>1
<1> QED BY <1>1, <1>2 DEF Aligned

LEMMA MultiplesAdd ==
  ASSUME NEW a \in Nat, NEW b \in Nat, a % 4 = 0, b % 4 = 0
  PROVE  (a + b) % 4 = 0 /\ 0 % 4 = 0
  OBVIOUS

(* Writing to a block changes the bytes written and no other.              *)
LEMMA WritesWhere ==
  ASSUME NEW m \in Seq(Memories), NEW o \in Owners, NEW b, b.chunk \in 1..Len(m),
         NEW lo, NEW hi
  PROVE  LET w == Writes(m, o, b, lo, hi)
         IN /\ w \in Seq(Memories) /\ Len(w) = Len(m)
            /\ \A k \in 1..Len(m) : DOMAIN w[k] = DOMAIN m[k]
            /\ \A k \in 1..Len(m) : \A i \in DOMAIN m[k] :
                 w[k][i] = IF k = b.chunk /\ b.at + lo <= i /\ i < b.at + hi
                           THEN o ELSE m[k][i]
<1> DEFINE c == b.chunk
           f == [i \in DOMAIN m[c] |->
                   IF b.at + lo <= i /\ i < b.at + hi THEN o ELSE m[c][i]]
           w == [m EXCEPT ![c] = f]
<1>1. m[c] \in Memories
  BY ElementOfSeq
<1>2. PICK n \in Nat : m[c] \in [0..(n - 1) -> Owners \cup {Nobody}]
  BY <1>1 DEF Memories
<1>3. f \in [0..(n - 1) -> Owners \cup {Nobody}]
  BY <1>2
<1>4. f \in Memories /\ DOMAIN f = DOMAIN m[c]
  BY <1>3 DEF Memories
<1>5. /\ w \in Seq(Memories) /\ Len(w) = Len(m)
      /\ \A k \in 1..Len(m) : w[k] = IF k = c THEN f ELSE m[k]
  <2> HIDE DEF f
  <2> QED BY <1>4, ExceptSeq
<1>6. Writes(m, o, b, lo, hi) = w
  BY DEF Writes
<1>7. \A k \in 1..Len(m) : DOMAIN w[k] = DOMAIN m[k]
  BY <1>4, <1>5
<1>8. ASSUME NEW k \in 1..Len(m), NEW i \in DOMAIN m[k]
      PROVE  w[k][i] = IF k = c /\ b.at + lo <= i /\ i < b.at + hi THEN o ELSE m[k][i]
  BY <1>5
<1> QED BY <1>5, <1>6, <1>7, <1>8

-----------------------------------------------------------------------------
(* Where blocks lie.                                                       *)

(* A list of chunks as it should be.                                       *)
Sound(cs) ==
  /\ cs \in Seq(Chunks) /\ Len(cs) > 0
  /\ \A k \in 1..Len(cs) : cs[k].size <= cs[k].capacity /\ cs[k].size % 4 = 0

LEMMA ChunkOf ==
  ASSUME NEW cs, Sound(cs), NEW k \in 1..Len(cs)
  PROVE  /\ cs[k] \in Chunks /\ cs[k].size \in Nat /\ cs[k].capacity \in Nat
         /\ cs[k].size <= cs[k].capacity /\ cs[k].size % 4 = 0
<1>1. cs[k] \in Chunks
  BY ElementOfSeq DEF Sound
<1> QED BY <1>1 DEF Sound, Chunks

(* What is asked of a block for an owner, beside the blocks of the others. *)
Placed(o, b, cs) ==
  /\ b \in BlockType /\ b.size > 0 /\ b.used <= b.size /\ b.at % 4 = 0
  /\ b.chunk \in 1..Len(cs) /\ b.at + Aligned(b.size) <= cs[b.chunk].size
  /\ \A p \in Live : p # o /\ blocks[p].chunk = b.chunk =>
       End(p) <= b.at \/ b.at + Aligned(b.size) <= blocks[p].at

(* No chunk has gone or become smaller.                                    *)
Kept(cs) ==
  /\ Len(cs) >= HeadChunk
  /\ \A k \in 1..HeadChunk : cs[k].size >= chunks[k].size

(* The memory after: the owner's bytes are its own, the others' are as     *)
(* they were.                                                              *)
Remembered(o, b, cs, m) ==
  /\ m \in Seq(Memories) /\ Len(m) = Len(cs)
  /\ \A k \in 1..Len(cs) : DOMAIN m[k] = 0..(cs[k].capacity - 1)
  /\ \A i \in 0..(b.used - 1) : m[b.chunk][b.at + i] = o
  /\ \A p \in Live : p # o => \A i \in 0..(blocks[p].used - 1) :
       m[blocks[p].chunk][blocks[p].at + i] = p

LEMMA BlockOf ==
  ASSUME PoolIInv, NEW p \in Live
  PROVE  /\ p \in Owners /\ blocks[p] \in BlockType /\ blocks[p].size > 0
         /\ blocks[p].chunk \in 1..HeadChunk /\ End(p) = blocks[p].at + Aligned(blocks[p].size)
         /\ End(p) <= chunks[blocks[p].chunk].size /\ chunks[blocks[p].chunk] \in Chunks
         /\ blocks[p].used <= blocks[p].size /\ blocks[p].at % 4 = 0
         /\ blocks[p].size <= Aligned(blocks[p].size) /\ Aligned(blocks[p].size) \in Nat
<1>1. p \in Owners /\ blocks[p] \in BlockType /\ blocks[p].size > 0
  BY DEF PoolIInv, PoolInv, TypeOK, Live
<1>2. blocks[p].size \in Nat
  BY <1>1 DEF BlockType
<1>3. blocks[p].size <= Aligned(blocks[p].size) /\ Aligned(blocks[p].size) \in Nat
  BY <1>2, AlignedProperties
<1>4. /\ blocks[p].chunk \in 1..HeadChunk /\ End(p) <= chunks[blocks[p].chunk].size
      /\ blocks[p].used <= blocks[p].size /\ blocks[p].at % 4 = 0
  BY DEF PoolIInv, PoolInv, Inside, AlignedBlocks
<1>5. chunks[blocks[p].chunk] \in Chunks
  BY <1>4, ElementOfSeq DEF PoolIInv, PoolInv, TypeOK, HeadChunk, Chunks
<1> QED BY <1>1, <1>3, <1>4, <1>5 DEF End

LEMMA ChunksAreSound == ASSUME PoolIInv PROVE Sound(chunks) /\ HeadChunk = Len(chunks) /\ Kept(chunks)
<1>1. /\ chunks \in Seq(Chunks) /\ Len(chunks) > 0 /\ Len(chunks) \in Nat
      /\ \A k \in 1..Len(chunks) : chunks[k].size <= chunks[k].capacity /\ chunks[k].size % 4 = 0
  BY LenProperties DEF PoolIInv, PoolInv, TypeOK, Inside, AlignedBlocks, HeadChunk, Chunks
<1>2. \A k \in 1..Len(chunks) : chunks[k] \in Chunks
  BY <1>1, ElementOfSeq
<1>3. \A k \in 1..Len(chunks) : chunks[k].size \in Nat
  BY <1>2 DEF Chunks
<1> QED BY <1>1, <1>3 DEF Sound, Kept, HeadChunk

(* A block put in its place disturbs no other.                             *)
LEMMA PlacedStep ==
  ASSUME PoolIInv, NEW o \in Owners, NEW b, blocks' = [blocks EXCEPT ![o] = b],
         Sound(chunks'), Kept(chunks'), Placed(o, b, chunks'),
         Remembered(o, b, chunks', mem'), o \in Arrays => b.size >= ElementSize
  PROVE  PoolIInv'
<1>1. blocks \in [Owners -> BlockType]
  BY DEF PoolIInv, PoolInv, TypeOK
<1>2. /\ blocks' \in [Owners -> BlockType] /\ blocks'[o] = b
      /\ \A p \in Owners : p # o => blocks'[p] = blocks[p]
  BY <1>1 DEF Placed
<1>3. /\ b \in BlockType /\ b.size \in Nat /\ b.size > 0 /\ b.used <= b.size /\ b.at % 4 = 0
      /\ b.at \in Nat /\ b.chunk \in Nat /\ b.used \in Nat
      /\ b.chunk \in 1..Len(chunks') /\ b.at + Aligned(b.size) <= chunks'[b.chunk].size
  BY DEF Placed, BlockType
<1>4. o \in Live' /\ (\A p \in Live' : p # o => p \in Live) /\ \A p \in Live' : p \in Owners
  BY <1>2, <1>3 DEF Live
<1>5. End(o)' = b.at + Aligned(b.size) /\ \A p \in Live' : p # o => End(p)' = End(p)
  BY <1>2, <1>4 DEF End
<1>6. /\ chunks' \in Seq(Chunks) /\ Len(chunks') \in Nat /\ Len(chunks') > 0
      /\ HeadChunk' = Len(chunks') /\ HeadChunk = Len(chunks) /\ HeadChunk <= HeadChunk'
      /\ HeadChunk \in Nat /\ \A k \in 1..HeadChunk' : chunks'[k].size \in Nat
  <2>1. chunks' \in Seq(Chunks) /\ Len(chunks') \in Nat /\ Len(chunks') > 0
    BY LenProperties DEF Sound
  <2>2. chunks \in Seq(Chunks) /\ Len(chunks) \in Nat
    BY LenProperties DEF PoolIInv, PoolInv, TypeOK, Chunks
  <2>3. \A k \in 1..Len(chunks') : chunks'[k].size \in Nat
    BY ChunkOf
  <2>4. Len(chunks') >= Len(chunks)
    BY DEF Kept, HeadChunk
  <2> QED BY <2>1, <2>2, <2>3, <2>4 DEF HeadChunk
<1>7. TypeOK'
  BY <1>2, <1>6 DEF TypeOK, Remembered, Chunks
<1>8. ASSUME NEW p \in Live', p # o
      PROVE  /\ p \in Live /\ blocks'[p] = blocks[p] /\ End(p)' = End(p)
             /\ End(p) \in Nat /\ blocks[p].at \in Nat /\ blocks[p].used \in Nat /\ blocks[p].size \in Nat
             /\ blocks[p].chunk \in 1..HeadChunk' /\ blocks[p].used <= blocks[p].size
             /\ End(p) <= chunks'[blocks[p].chunk].size /\ blocks[p].at % 4 = 0
  <2>1. p \in Live /\ p \in Owners /\ blocks'[p] = blocks[p] /\ End(p)' = End(p)
    BY <1>2, <1>4, <1>5, <1>8
  <2> DEFINE c == blocks[p].chunk
             e == End(p)
             s == chunks[c].size
             t == chunks'[c].size
  <2>2. /\ c \in 1..HeadChunk /\ e <= s /\ s \in Nat
        /\ blocks[p].used <= blocks[p].size /\ blocks[p].at % 4 = 0
        /\ blocks[p].at \in Nat /\ blocks[p].used \in Nat /\ blocks[p].size \in Nat
        /\ e = blocks[p].at + Aligned(blocks[p].size) /\ Aligned(blocks[p].size) \in Nat
    BY <2>1, BlockOf DEF Chunks, BlockType
  <2>3. t >= s
    BY <2>2 DEF Kept
  <2>4. c \in 1..HeadChunk' /\ t \in Nat
    BY <2>2, <1>6
  <2>5. e \in Nat
    BY <2>2
  <2> HIDE DEF c, e, s, t
  <2>6. e <= t
    BY <2>2, <2>3, <2>4, <2>5
  <2> QED BY <2>1, <2>2, <2>4, <2>5, <2>6 DEF c, e, s, t
<1>9. Inside'
  <2>1. \A k \in 1..HeadChunk' : chunks'[k].size <= chunks'[k].capacity
    BY <1>6 DEF Sound
  <2>2. ASSUME NEW p \in Live'
        PROVE  /\ blocks'[p].chunk \in 1..HeadChunk'
               /\ End(p)' <= chunks'[blocks'[p].chunk].size
               /\ blocks'[p].used <= blocks'[p].size
    <3>1. CASE p = o
      BY <3>1, <1>2, <1>3, <1>5, <1>6
    <3>2. CASE p # o
      BY <3>2, <1>8
    <3> QED BY <3>1, <3>2
  <2> QED BY <2>1, <2>2 DEF Inside
<1>10. Disjoint'
  <2> SUFFICES ASSUME NEW p \in Live', NEW q \in Live', p # q,
                      blocks'[p].chunk = blocks'[q].chunk
               PROVE  End(p)' <= blocks'[q].at \/ End(q)' <= blocks'[p].at
    BY DEF Disjoint
  <2>1. CASE p = o
    BY <2>1, <1>2, <1>5, <1>8 DEF Placed
  <2>2. CASE q = o
    BY <2>2, <1>2, <1>5, <1>8 DEF Placed
  <2>3. CASE p # o /\ q # o
    BY <2>3, <1>8 DEF PoolIInv, PoolInv, Disjoint
  <2> QED BY <2>1, <2>2, <2>3
<1>11. AlignedBlocks'
  <2>1. \A k \in 1..HeadChunk' : chunks'[k].size % 4 = 0
    BY <1>6 DEF Sound
  <2>2. ASSUME NEW p \in Live' PROVE blocks'[p].at % 4 = 0
    BY <1>2, <1>3, <1>8
  <2> QED BY <2>1, <2>2 DEF AlignedBlocks
<1>12. ContentsAreKept'
  <2> SUFFICES ASSUME NEW p \in Live', NEW i \in 0..(blocks'[p].used - 1)
               PROVE  mem'[blocks'[p].chunk][blocks'[p].at + i] = p
    BY DEF ContentsAreKept
  <2>1. CASE p = o
    BY <2>1, <1>2 DEF Remembered
  <2>2. CASE p # o
    BY <2>2, <1>8 DEF Remembered
  <2> QED BY <2>1, <2>2
<1>13. mem' \in Seq(Memories)
  BY DEF Remembered
<1>14. PoolSizes'
  BY <1>2, <1>3 DEF PoolIInv, PoolSizes, Owners
<1> QED BY <1>7, <1>9, <1>10, <1>11, <1>12, <1>13, <1>14 DEF PoolIInv, PoolInv

(* An owner asks for more than it has used, and for something.             *)
LEMMA DemandsGrow ==
  ASSUME PoolIInv, NEW o \in Owners, NEW d \in Demands(o)
  PROVE  /\ d[1] \in Nat /\ d[1] > 0 /\ d[2] \in Nat
         /\ blocks[o].used <= d[2] /\ d[2] <= d[1]
         /\ o \in Arrays => d[1] >= ElementSize
<1> DEFINE b == blocks[o]
           size == b.size
           used == b.used
<1>1. size \in Nat /\ used \in Nat /\ used <= size
  <2>1. b \in BlockType
    BY DEF PoolIInv, PoolInv, TypeOK
  <2>2. size = 0 => used = 0
    BY DEF PoolIInv, PoolSizes
  <2>3. size > 0 => used <= size
    BY DEF PoolIInv, PoolInv, Inside, Live
  <2> QED BY <2>1, <2>2, <2>3 DEF BlockType
<1>2. CASE o \in Arrays
  <2> DEFINE n == IF size = 0 THEN ElementSize
                  ELSE IF used + ElementSize > size THEN 2 * size ELSE size
  <2>1. d = <<n, used + ElementSize>>
    <3>1. o \notin PoolStrings
      BY <1>2, OwnersAssumption
    <3>2. Demands(o) = {<<n, used + ElementSize>>}
      BY <1>2, <3>1 DEF Demands
    <3> QED BY <3>2
  <2>2. ElementSize \in Nat /\ ElementSize > 0
    BY OwnersAssumption
  <2>3. size > 0 => size >= ElementSize
    BY <1>2 DEF PoolIInv, PoolSizes
  <2>4. size = 0 => used = 0
    BY DEF PoolIInv, PoolSizes
  <2> HIDE DEF b, size, used
  <2>5. n \in Nat /\ n > 0 /\ n >= ElementSize /\ used + ElementSize <= n
    BY <1>1, <2>2, <2>3, <2>4
  <2> QED BY <1>1, <2>1, <2>2, <2>5 DEF b, used, size
<1>3. CASE o \notin Arrays /\ o \in PoolStrings
  <2>1. PICK n \in StringSizes : size = 0 /\ d = <<n, n>>
    BY <1>3 DEF Demands
  <2>2. n \in Nat /\ n > 0
    BY OwnersAssumption
  <2> QED BY <1>1, <1>3, <2>1, <2>2
<1>4. CASE o \notin Arrays /\ o \notin PoolStrings
  <2>1. PICK n \in PushSizes :
          d = <<IF used + n >= size THEN Larger(2 * size, used + n) ELSE size, used + n>>
    BY <1>4 DEF Demands
  <2>2. n \in Nat /\ o = Stack
    BY <1>4, OwnersAssumption DEF Owners
  <2>3. size > 0
    BY <2>2 DEF PoolIInv, PoolSizes
  <2> QED BY <1>1, <1>4, <2>1, <2>2, <2>3 DEF Larger
<1> QED BY <1>2, <1>3, <1>4

(* What an owner writes beyond what it has used: no other loses anything.  *)
LEMMA WritesRemembered ==
  ASSUME PoolIInv, NEW o \in Owners, NEW cs, Sound(cs), Kept(cs),
         NEW b, Placed(o, b, cs), NEW lo \in Nat,
         NEW m \in Seq(Memories), Len(m) = Len(cs),
         \A k \in 1..Len(cs) : DOMAIN m[k] = 0..(cs[k].capacity - 1),
         \A i \in 0..(lo - 1) : i < b.used => m[b.chunk][b.at + i] = o,
         \A p \in Live : p # o => \A i \in 0..(blocks[p].used - 1) :
            m[blocks[p].chunk][blocks[p].at + i] = p
  PROVE  Remembered(o, b, cs, Writes(m, o, b, lo, b.used))
<1> DEFINE w == Writes(m, o, b, lo, b.used)
<1>1. /\ b.size \in Nat /\ b.used \in Nat /\ b.at \in Nat /\ b.used <= b.size
      /\ b.chunk \in 1..Len(cs) /\ b.at + Aligned(b.size) <= cs[b.chunk].size
      /\ b.size <= Aligned(b.size) /\ Aligned(b.size) \in Nat
  BY AlignedProperties DEF Placed, BlockType
<1>2. /\ w \in Seq(Memories) /\ Len(w) = Len(m)
      /\ \A k \in 1..Len(m) : DOMAIN w[k] = DOMAIN m[k]
      /\ \A k \in 1..Len(m) : \A i \in DOMAIN m[k] :
           w[k][i] = IF k = b.chunk /\ b.at + lo <= i /\ i < b.at + b.used
                     THEN o ELSE m[k][i]
  BY <1>1, WritesWhere
<1> HIDE DEF w
<1>3. \A k \in 1..Len(cs) : cs[k].size \in Nat /\ cs[k].capacity \in Nat /\ cs[k].size <= cs[k].capacity
  BY ChunkOf
<1>4. ASSUME NEW i \in 0..(b.used - 1) PROVE w[b.chunk][b.at + i] = o
  <2> DEFINE cap == cs[b.chunk].capacity
             at == b.at
             used == b.used
             size == b.size
             al == Aligned(size)
             room == cs[b.chunk].size
  <2>1. /\ at \in Nat /\ used \in Nat /\ size \in Nat /\ al \in Nat /\ cap \in Nat /\ room \in Nat
        /\ used <= size /\ size <= al /\ at + al <= room /\ room <= cap /\ i \in 0..(used - 1)
    BY <1>1, <1>3
  <2> HIDE DEF cap, at, used, size, al, room
  <2>2. at + i \in 0..(cap - 1) /\ at + i < at + used /\ (i < lo => i \in 0..(lo - 1))
        /\ (i >= lo => at + lo <= at + i) /\ i < used
    BY <2>1
  <2>3. b.at + i \in DOMAIN m[b.chunk]
    BY <2>2, <1>1 DEF cap, at
  <2>4. CASE i < lo
    <3>1. m[b.chunk][b.at + i] = o
      BY <2>4, <2>2 DEF used
    <3> QED BY <3>1, <2>3, <1>1, <1>2
  <2>5. CASE i >= lo
    BY <2>5, <2>2, <2>3, <1>1, <1>2 DEF at, used
  <2> QED BY <2>4, <2>5, <2>1
<1>5. ASSUME NEW p \in Live, p # o, NEW i \in 0..(blocks[p].used - 1)
      PROVE  w[blocks[p].chunk][blocks[p].at + i] = p
  <2> DEFINE c == blocks[p].chunk
             at == blocks[p].at
             used == blocks[p].used
             size == blocks[p].size
             al == Aligned(size)
             room == cs[c].size
             cap == cs[c].capacity
  <2>1. /\ c \in 1..HeadChunk /\ at \in Nat /\ used \in Nat /\ size \in Nat /\ al \in Nat
        /\ used <= size /\ size <= al /\ at + al <= chunks[c].size /\ End(p) = at + al
        /\ chunks[c].size \in Nat
    BY BlockOf DEF BlockType, Chunks
  <2>2. c \in 1..Len(cs) /\ cs[c].size >= chunks[c].size
    <3>1. HeadChunk \in Nat /\ Len(cs) \in Nat /\ Len(cs) >= HeadChunk
      BY LenProperties DEF PoolIInv, PoolInv, TypeOK, HeadChunk, Sound, Kept
    <3>2. cs[c].size >= chunks[c].size
      BY <2>1 DEF Kept
    <3> HIDE DEF c
    <3> QED BY <3>1, <3>2, <2>1
  <2>3. cap \in Nat /\ room \in Nat /\ room <= cap
    BY <1>3, <2>2
  <2>4. at + al <= cap /\ i \in 0..(used - 1)
    <3> DEFINE old == chunks[c].size
    <3>1. old \in Nat /\ room >= old /\ at + al <= old
      BY <2>1, <2>2
    <3> HIDE DEF old, at, al, room, cap
    <3> QED BY <3>1, <2>1, <2>3
  <2>5. m[c][at + i] = p
    BY <1>5
  <2>6. c = b.chunk => at + al <= b.at \/ b.at + Aligned(b.size) <= at
    BY <1>5, <2>1 DEF Placed
  <2> HIDE DEF c, at, used, size, al, room, cap
  <2>7. at + i \in 0..(cap - 1) /\ at + i < at + al /\ at <= at + i
    BY <2>1, <2>3, <2>4
  <2>8. at + i \in DOMAIN m[c]
    BY <2>2, <2>7 DEF cap
  <2>9. ~(c = b.chunk /\ b.at + lo <= at + i /\ at + i < b.at + b.used)
    <3> DEFINE ba == b.at
               bs == b.size
               bu == b.used
               bl == Aligned(bs)
    <3>1. ba \in Nat /\ bs \in Nat /\ bu \in Nat /\ bl \in Nat /\ bu <= bs /\ bs <= bl
      BY <1>1
    <3>2. c = b.chunk => at + al <= ba \/ ba + bl <= at
      BY <2>6
    <3> HIDE DEF ba, bs, bu, bl
    <3>3. ~(c = b.chunk /\ ba + lo <= at + i /\ at + i < ba + bu)
      BY <3>1, <3>2, <2>1, <2>7
    <3> QED BY <3>3 DEF ba, bu
  <2>10. w[c][at + i] = m[c][at + i]
    BY <2>2, <2>8, <2>9, <1>2
  <2> QED BY <2>5, <2>10 DEF c, at
<1> QED BY <1>2, <1>4, <1>5 DEF Remembered, w

(* What Realloc copies.                                                    *)
Copied(m, from, to) ==
  [m EXCEPT ![to.chunk] = [i \in DOMAIN @ |->
     IF to.at <= i /\ i < to.at + from.size
     THEN m[from.chunk][from.at + (i - to.at)] ELSE @[i]]]

LEMMA CopiesWhere ==
  ASSUME NEW m \in Seq(Memories), NEW from, NEW to, to.chunk \in 1..Len(m),
         to.at \in Nat, from.size \in Nat,
         \A i \in 0..(from.size - 1) : m[from.chunk][from.at + i] \in Owners \cup {Nobody}
  PROVE  LET w == Copied(m, from, to)
         IN /\ w \in Seq(Memories) /\ Len(w) = Len(m)
            /\ \A k \in 1..Len(m) : DOMAIN w[k] = DOMAIN m[k]
            /\ \A k \in 1..Len(m) : \A i \in DOMAIN m[k] :
                 w[k][i] = IF k = to.chunk /\ to.at <= i /\ i < to.at + from.size
                           THEN m[from.chunk][from.at + (i - to.at)] ELSE m[k][i]
<1> DEFINE c == to.chunk
           f == [i \in DOMAIN m[c] |-> IF to.at <= i /\ i < to.at + from.size
                   THEN m[from.chunk][from.at + (i - to.at)] ELSE m[c][i]]
           w == [m EXCEPT ![c] = f]
<1>1. m[c] \in Memories
  BY ElementOfSeq
<1>2. PICK n \in Nat : m[c] \in [0..(n - 1) -> Owners \cup {Nobody}]
  BY <1>1 DEF Memories
<1>3. ASSUME NEW i \in 0..(n - 1), to.at <= i, i < to.at + from.size
      PROVE  m[from.chunk][from.at + (i - to.at)] \in Owners \cup {Nobody}
  <2>1. i - to.at \in 0..(from.size - 1)
    BY <1>3
  <2> QED BY <2>1
<1>4. f \in [0..(n - 1) -> Owners \cup {Nobody}]
  BY <1>2, <1>3
<1>5. f \in Memories /\ DOMAIN f = DOMAIN m[c]
  BY <1>4 DEF Memories
<1>6. /\ w \in Seq(Memories) /\ Len(w) = Len(m)
      /\ \A k \in 1..Len(m) : w[k] = IF k = c THEN f ELSE m[k]
  <2> HIDE DEF f
  <2> QED BY <1>5, ExceptSeq
<1>7. Copied(m, from, to) = w
  BY DEF Copied
<1>8. \A k \in 1..Len(m) : DOMAIN w[k] = DOMAIN m[k]
  BY <1>5, <1>6
<1>9. ASSUME NEW k \in 1..Len(m), NEW i \in DOMAIN m[k]
      PROVE  w[k][i] = IF k = c /\ to.at <= i /\ i < to.at + from.size
                       THEN m[from.chunk][from.at + (i - to.at)] ELSE m[k][i]
  BY <1>6
<1> QED BY <1>6, <1>7, <1>8, <1>9

-----------------------------------------------------------------------------
(* The actions.                                                            *)

(* The stack's block is the first.                                         *)
LEMMA PoolInitInv == ASSUME PoolInit PROVE PoolIInv
<1> DEFINE capacity == Larger(ChunkCapacity, Aligned(StackCapacity))
           first == [capacity |-> capacity, size |-> Aligned(StackCapacity)]
           stackBlock == [chunk |-> 1, at |-> 0, size |-> StackCapacity, used |-> 0]
<1>1. /\ StackCapacity \in Nat /\ StackCapacity > 0 /\ Aligned(StackCapacity) \in Nat
      /\ Aligned(StackCapacity) % 4 = 0 /\ StackCapacity <= Aligned(StackCapacity)
  BY AlignedProperties, OwnersAssumption
<1>2. capacity \in Nat /\ Aligned(StackCapacity) <= capacity
  BY <1>1, OwnersAssumption DEF Larger
<1> HIDE DEF capacity
<1>3. first \in Chunks /\ NewMem(capacity) \in Memories /\ DOMAIN NewMem(capacity) = 0..(capacity - 1)
  BY <1>1, <1>2 DEF Chunks, Memories, NewMem
<1>4. chunks = <<first>> /\ mem = <<NewMem(capacity)>>
      /\ blocks = [o \in Owners |-> IF o = Stack THEN stackBlock ELSE NoBlock]
  BY DEF PoolInit, capacity
<1>5. /\ chunks \in Seq(Chunks) /\ HeadChunk = 1 /\ chunks[1] = first
      /\ mem \in Seq(Memories) /\ Len(mem) = 1 /\ mem[1] = NewMem(capacity)
  BY <1>3, <1>4 DEF HeadChunk
<1>6. stackBlock \in BlockType /\ NoBlock \in BlockType
  BY <1>1 DEF BlockType, NoBlock
<1>7. /\ blocks \in [Owners -> BlockType] /\ Stack \in Owners /\ blocks[Stack] = stackBlock
      /\ \A o \in Owners : o # Stack => blocks[o] = NoBlock
  BY <1>4, <1>6 DEF Owners
<1>8. Live = {Stack}
  BY <1>1, <1>7 DEF Live, NoBlock
<1>9. TypeOK
  BY <1>3, <1>5, <1>7 DEF TypeOK, Chunks
<1>10. Inside /\ Disjoint /\ AlignedBlocks
  <2>1. \A k \in 1..HeadChunk : chunks[k] = first
    BY <1>5
  <2>2. End(Stack) = Aligned(StackCapacity)
    BY <1>1, <1>7 DEF End
  <2>3. Inside
    BY <2>1, <2>2, <1>1, <1>2, <1>5, <1>7, <1>8 DEF Inside
  <2>4. Disjoint
    BY <1>8 DEF Disjoint
  <2>5. AlignedBlocks
    <3>1. first.size % 4 = 0 /\ stackBlock.at = 0
      BY <1>1
    <3>2. 0 % 4 = 0
      OBVIOUS
    <3> HIDE DEF first, stackBlock
    <3> QED BY <2>1, <3>1, <3>2, <1>7, <1>8 DEF AlignedBlocks
  <2> QED BY <2>3, <2>4, <2>5
<1>11. ContentsAreKept
  BY <1>7, <1>8 DEF ContentsAreKept
<1>12. PoolSizes
  <2>1. Stack \notin Arrays
    BY OwnersAssumption
  <2>2. \A o \in Arrays : o \in Owners /\ o # Stack
    BY <2>1 DEF Owners
  <2>3. ASSUME NEW o \in Owners PROVE blocks[o].used = 0
    <3>1. CASE o = Stack
      BY <3>1, <1>7
    <3>2. CASE o # Stack
      BY <3>2, <1>7 DEF NoBlock
    <3> QED BY <3>1, <3>2
  <2>4. ASSUME NEW o \in Arrays PROVE blocks[o].size = 0
    <3>1. blocks[o] = NoBlock
      BY <1>7, <2>2
    <3> QED BY <3>1 DEF NoBlock
  <2>5. blocks[Stack].size > 0
    BY <1>1, <1>7
  <2> QED BY <2>3, <2>4, <2>5 DEF PoolSizes
<1> QED BY <1>5, <1>9, <1>10, <1>11, <1>12 DEF PoolIInv, PoolInv

(* A block that is large enough stays where it is.                         *)
LEMMA WriteStep ==
  ASSUME PoolIInv, NEW o \in Owners, NEW d \in Demands(o), IsEnough(o, d[1]), WriteMore(o, d[2])
  PROVE  PoolIInv'
<1> DEFINE old == blocks[o]
           b == [blocks[o] EXCEPT !.used = d[2]]
<1>1. /\ d[1] \in Nat /\ d[1] > 0 /\ d[2] \in Nat /\ old.used <= d[2] /\ d[2] <= d[1]
  BY DemandsGrow
<1>2. /\ blocks \in [Owners -> BlockType] /\ d[1] <= old.size
  BY DEF PoolIInv, PoolInv, TypeOK, IsEnough
<1>3. old \in BlockType /\ old.size \in Nat /\ old.size > 0 /\ old.used \in Nat
  BY <1>1, <1>2 DEF BlockType
<1>4. o \in Live
  BY <1>3 DEF Live
<1>5. /\ b \in BlockType /\ b.used = d[2]
      /\ b.size = old.size /\ b.at = old.at /\ b.chunk = old.chunk
  BY <1>1, <1>3 DEF BlockType
<1>6. blocks' = [blocks EXCEPT ![o] = b] /\ chunks' = chunks
      /\ mem' = Writes(mem, o, old, old.used, d[2])
  BY DEF WriteMore
<1>7. Writes(mem, o, old, old.used, d[2]) = Writes(mem, o, b, old.used, b.used)
  BY <1>5 DEF Writes
<1> HIDE DEF b
<1>8. Sound(chunks) /\ Kept(chunks) /\ HeadChunk = Len(chunks)
  BY ChunksAreSound
<1>9. Placed(o, b, chunks)
  <2>1. b.used <= b.size /\ b.size > 0
    BY <1>1, <1>2, <1>3, <1>5
  <2>2. /\ b.at % 4 = 0 /\ b.chunk \in 1..Len(chunks) /\ b.at + Aligned(b.size) <= chunks[b.chunk].size
    BY <1>4, <1>5, <1>8, BlockOf
  <2>3. \A p \in Live : p # o /\ blocks[p].chunk = b.chunk =>
       End(p) <= b.at \/ b.at + Aligned(b.size) <= blocks[p].at
    BY <1>4, <1>5 DEF PoolIInv, PoolInv, Disjoint, End
  <2> QED BY <1>5, <2>1, <2>2, <2>3 DEF Placed
<1>10. Remembered(o, b, chunks, mem')
  <2>1. /\ mem \in Seq(Memories) /\ Len(mem) = Len(chunks)
        /\ \A k \in 1..Len(chunks) : DOMAIN mem[k] = 0..(chunks[k].capacity - 1)
    BY DEF PoolIInv, PoolInv, TypeOK, HeadChunk
  <2>2. \A i \in 0..(old.used - 1) : mem[b.chunk][b.at + i] = o
    BY <1>4, <1>5 DEF PoolIInv, ContentsAreKept
  <2>3. \A p \in Live : p # o => \A i \in 0..(blocks[p].used - 1) :
            mem[blocks[p].chunk][blocks[p].at + i] = p
    BY DEF PoolIInv, ContentsAreKept
  <2> HIDE DEF old
  <2>4. Remembered(o, b, chunks, Writes(mem, o, b, old.used, b.used))
    BY <2>1, <2>2, <2>3, <1>3, <1>8, <1>9, WritesRemembered
  <2> QED BY <2>4, <1>6, <1>7
<1>11. o \in Arrays => b.size >= ElementSize
  BY <1>4, <1>5 DEF PoolIInv, PoolSizes, Live
<1> QED BY <1>6, <1>8, <1>9, <1>10, <1>11, PlacedStep

(* The block at the end of the head chunk grows where it is.               *)
LEMMA ExpandStep ==
  ASSUME PoolIInv, NEW o \in Owners, NEW d \in Demands(o),
         ~IsEnough(o, d[1]), CanExpand(o, d[1]), Expands(o, d[1], d[2])
  PROVE  PoolIInv'
<1> DEFINE old == blocks[o]
           b == [blocks[o] EXCEPT !.size = d[1], !.used = d[2]]
           top == chunks[HeadChunk].size
           inc == Increment(o, d[1])
<1>1. /\ d[1] \in Nat /\ d[1] > 0 /\ d[2] \in Nat /\ old.used <= d[2] /\ d[2] <= d[1]
      /\ o \in Arrays => d[1] >= ElementSize
  BY DemandsGrow
<1>2. blocks \in [Owners -> BlockType] /\ old \in BlockType /\ old.size \in Nat /\ old.at \in Nat
      /\ old.used \in Nat
  BY DEF PoolIInv, PoolInv, TypeOK, BlockType
<1>3. /\ old.size > 0 /\ old.chunk = HeadChunk /\ old.at + old.size = top
      /\ top + inc <= chunks[HeadChunk].capacity /\ old.size < d[1]
  BY <1>1, <1>2 DEF CanExpand, IsLast, IsEnough
<1>4. o \in Live
  BY <1>3 DEF Live
<1>5. /\ Sound(chunks) /\ Kept(chunks) /\ HeadChunk = Len(chunks)
      /\ chunks \in Seq(Chunks) /\ HeadChunk \in 1..Len(chunks) /\ chunks[HeadChunk] \in Chunks
      /\ top \in Nat /\ top % 4 = 0 /\ old.at % 4 = 0
  <2>1. Sound(chunks) /\ Kept(chunks) /\ HeadChunk = Len(chunks)
    BY ChunksAreSound
  <2>2. chunks \in Seq(Chunks) /\ Len(chunks) \in 1..Len(chunks)
    BY <2>1, LenProperties DEF Sound
  <2>3. chunks[Len(chunks)] \in Chunks /\ chunks[Len(chunks)].size % 4 = 0
    BY <2>1, <2>2, ElementOfSeq DEF Sound
  <2>4. old.at % 4 = 0
    BY <1>4, BlockOf
  <2> QED BY <2>1, <2>2, <2>3, <2>4 DEF Chunks
(* So the block had no padding, and what it grows by is all it needs.      *)
<1>6. /\ inc \in Nat /\ inc % 4 = 0 /\ Aligned(old.size) = old.size
      /\ old.at + Aligned(d[1]) = top + inc
  <2> DEFINE s == old.size
             at == old.at
             n == d[1] - s
  <2>1. s \in Nat /\ at \in Nat /\ n \in Nat /\ at % 4 = 0 /\ (at + s) % 4 = 0 /\ d[1] = s + n
        /\ inc = Aligned(n) /\ top = at + s
    <3>1. s \in Nat /\ at \in Nat /\ at % 4 = 0 /\ top = at + s /\ top % 4 = 0
      BY <1>2, <1>3, <1>5
    <3>2. n \in Nat /\ d[1] = s + n
      BY <1>1, <1>2, <1>3
    <3>3. inc = Aligned(n)
      BY DEF Increment
    <3>4. (at + s) % 4 = 0
      BY <3>1
    <3> HIDE DEF inc, n, s, at, top
    <3> QED BY <3>1, <3>2, <3>3, <3>4
  <2> HIDE DEF s, at, n, inc, top
  <2>2. s % 4 = 0
    BY <2>1
  <2>3. Aligned(s + n) = s + Aligned(n) /\ Aligned(s) = s
    BY <2>1, <2>2, AlignedAdds, AlignedProperties
  <2>4. Aligned(n) \in Nat /\ Aligned(n) % 4 = 0
    BY <2>1, AlignedProperties
  <2> QED BY <2>1, <2>3, <2>4 DEF s, at
<1>7. /\ b \in BlockType /\ b.used = d[2] /\ b.size = d[1] /\ b.at = old.at /\ b.chunk = HeadChunk
  BY <1>1, <1>2, <1>3 DEF BlockType
<1>8. /\ blocks' = [blocks EXCEPT ![o] = b]
      /\ mem' = Writes(mem, o, b, old.used, b.used)
  BY <1>7, <1>3 DEF Expands, Writes
<1> DEFINE e == [chunks[HeadChunk] EXCEPT !.size = top + inc]
<1>9. e \in Chunks /\ e.size = top + inc /\ e.capacity = chunks[HeadChunk].capacity
  <2>1. top + inc \in Nat
    BY <1>5, <1>6
  <2> HIDE DEF top, inc
  <2> QED BY <2>1, <1>5 DEF Chunks
<1>10. /\ chunks' \in Seq(Chunks) /\ Len(chunks') = Len(chunks)
       /\ \A k \in 1..Len(chunks) : chunks'[k] = IF k = HeadChunk THEN e ELSE chunks[k]
  <2>1. chunks' = [chunks EXCEPT ![HeadChunk] = e]
    BY <1>5 DEF Expands, Chunks
  <2> HIDE DEF e
  <2> QED BY <2>1, <1>5, <1>9, ExceptSeq
<1> HIDE DEF b, e, inc
<1>11. Sound(chunks')
  <2>1. (top + inc) % 4 = 0
    BY <1>5, <1>6, MultiplesAdd
  <2> QED BY <2>1, <1>3, <1>9, <1>10, <1>5 DEF Sound
<1>12. Kept(chunks')
  <2>1. top + inc >= top
    BY <1>5, <1>6
  <2>2. \A k \in 1..HeadChunk : chunks'[k].size >= chunks[k].size
    BY <2>1, <1>5, <1>9, <1>10 DEF Kept
  <2> QED BY <2>2, <1>5, <1>10 DEF Kept
<1>13. Placed(o, b, chunks')
  <2>1. b.size > 0 /\ b.used <= b.size /\ b.at % 4 = 0 /\ b.chunk \in 1..Len(chunks')
    BY <1>1, <1>5, <1>7, <1>10
  <2>2. b.at + Aligned(b.size) <= chunks'[b.chunk].size
    BY <1>5, <1>6, <1>7, <1>9, <1>10
  <2>3. ASSUME NEW p \in Live, p # o, blocks[p].chunk = b.chunk
        PROVE  End(p) <= b.at
    <3> DEFINE at == blocks[p].at
               al == Aligned(blocks[p].size)
    <3>1. at \in Nat /\ al \in Nat /\ al > 0 /\ End(p) = at + al /\ at + al <= top
      BY <2>3, <1>7, BlockOf DEF BlockType
    <3>2. End(p) <= old.at \/ End(o) <= at
      BY <2>3, <1>4, <1>7, <1>3 DEF PoolIInv, PoolInv, Disjoint
    <3>3. End(o) = top
      BY <1>3, <1>6 DEF End
    <3> HIDE DEF at, al, top
    <3>4. ~(End(o) <= at)
      BY <3>1, <3>3, <1>5
    <3> QED BY <3>2, <3>4, <1>7
  <2> QED BY <2>1, <2>2, <2>3, <1>7 DEF Placed
<1>14. Remembered(o, b, chunks', mem')
  <2>1. /\ mem \in Seq(Memories) /\ Len(mem) = Len(chunks')
        /\ \A k \in 1..Len(chunks') : DOMAIN mem[k] = 0..(chunks'[k].capacity - 1)
    BY <1>9, <1>10 DEF PoolIInv, PoolInv, TypeOK, HeadChunk
  <2>2. \A i \in 0..(old.used - 1) : mem[b.chunk][b.at + i] = o
    BY <1>4, <1>7, <1>3 DEF PoolIInv, ContentsAreKept
  <2>3. \A p \in Live : p # o => \A i \in 0..(blocks[p].used - 1) :
            mem[blocks[p].chunk][blocks[p].at + i] = p
    BY DEF PoolIInv, ContentsAreKept
  <2> HIDE DEF old
  <2>4. Remembered(o, b, chunks', Writes(mem, o, b, old.used, b.used))
    BY <2>1, <2>2, <2>3, <1>2, <1>11, <1>12, <1>13, WritesRemembered
  <2> QED BY <2>4, <1>8
<1>15. o \in Arrays => b.size >= ElementSize
  BY <1>1, <1>7
<1> QED BY <1>8, <1>11, <1>12, <1>13, <1>14, <1>15, PlacedStep

(* The block moves beyond all others of the head chunk, be that chunk new  *)
(* or not.                                                                 *)
LEMMA MoveStep ==
  ASSUME PoolIInv, NEW o \in Owners, NEW d \in Demands(o), ~IsEnough(o, d[1]),
         NEW cs, NEW m, Sound(cs), Len(cs) >= HeadChunk,
         m \in Seq(Memories), Len(m) = Len(cs),
         \A k \in 1..Len(cs) : DOMAIN m[k] = 0..(cs[k].capacity - 1),
         \A k \in 1..HeadChunk : cs[k] = chunks[k] /\ m[k] = mem[k],
         cs[Len(cs)].size + Aligned(d[1]) <= cs[Len(cs)].capacity,
         MoveTo(o, [chunk |-> Len(cs), at |-> cs[Len(cs)].size, size |-> d[1], used |-> d[2]],
                cs, m)
  PROVE  PoolIInv'
<1> DEFINE old == blocks[o]
           last == Len(cs)
           top == cs[last].size
           b == [chunk |-> last, at |-> top, size |-> d[1], used |-> d[2]]
           al == Aligned(d[1])
           e == [cs[last] EXCEPT !.size = top + al]
<1>1. /\ d[1] \in Nat /\ d[1] > 0 /\ d[2] \in Nat /\ old.used <= d[2] /\ d[2] <= d[1]
      /\ o \in Arrays => d[1] >= ElementSize
  BY DemandsGrow
<1>2. blocks \in [Owners -> BlockType] /\ old \in BlockType /\ old.size \in Nat /\ old.used \in Nat
      /\ old.size < d[1] /\ old.at \in Nat
  BY <1>1 DEF PoolIInv, PoolInv, TypeOK, BlockType, IsEnough
<1>3. al \in Nat /\ al % 4 = 0 /\ d[1] <= al
  BY <1>1, AlignedProperties
<1>4. /\ cs \in Seq(Chunks) /\ last \in 1..last /\ cs[last] \in Chunks /\ top \in Nat
      /\ top % 4 = 0 /\ top + al <= cs[last].capacity /\ HeadChunk \in Nat /\ HeadChunk <= last
  <2>1. cs \in Seq(Chunks) /\ Len(cs) \in 1..Len(cs)
    BY LenProperties DEF Sound
  <2>2. cs[Len(cs)] \in Chunks /\ cs[Len(cs)].size % 4 = 0
    BY <2>1, ElementOfSeq DEF Sound
  <2>3. HeadChunk \in Nat
    BY LenProperties DEF PoolIInv, PoolInv, TypeOK, HeadChunk
  <2> QED BY <2>1, <2>2, <2>3 DEF Chunks
<1>5. /\ b \in BlockType /\ b.chunk = last /\ b.at = top /\ b.size = d[1] /\ b.used = d[2]
  BY <1>1, <1>4 DEF BlockType
<1>6. /\ blocks' = [blocks EXCEPT ![o] = b]
      /\ mem' = Writes(Copied(m, old, b), o, b, old.used, b.used)
      /\ chunks' = [cs EXCEPT ![last] = e]
  <2>1. blocks' = [blocks EXCEPT ![o] = b]
    BY DEF MoveTo
  <2>2. mem' = Writes(Copied(m, old, b), o, b, old.used, b.used)
    BY DEF MoveTo, Copied
  <2>3. chunks' = [cs EXCEPT ![last].size = @ + Aligned(d[1])]
    BY <1>5 DEF MoveTo
  <2> QED BY <2>1, <2>2, <2>3, <1>4 DEF Chunks
<1> HIDE DEF b
<1>7. e \in Chunks /\ e.size = top + al /\ e.capacity = cs[last].capacity
  <2>1. top + al \in Nat
    BY <1>3, <1>4
  <2> HIDE DEF top, al
  <2> QED BY <2>1, <1>4 DEF Chunks
<1>8. /\ chunks' \in Seq(Chunks) /\ Len(chunks') = last
      /\ \A k \in 1..last : chunks'[k] = IF k = last THEN e ELSE cs[k]
  <2> HIDE DEF e
  <2> QED BY <1>4, <1>6, <1>7, ExceptSeq
<1> HIDE DEF e, al
<1>9. Sound(chunks')
  <2>1. (top + al) % 4 = 0
    BY <1>3, <1>4, MultiplesAdd
  <2> QED BY <2>1, <1>4, <1>7, <1>8 DEF Sound
<1>10. ASSUME NEW k \in 1..HeadChunk
       PROVE  /\ k \in 1..last /\ cs[k] = chunks[k] /\ m[k] = mem[k]
              /\ chunks[k].size \in Nat /\ chunks'[k].size >= chunks[k].size
  <2>1. k \in 1..last
    BY <1>4
  <2>2. cs[k] = chunks[k] /\ m[k] = mem[k]
    OBVIOUS
  <2>3. cs[k].size \in Nat
    BY <2>1, ChunkOf
  <2>4. CASE k = last
    <3>1. chunks'[k].size = top + al /\ chunks[k].size = top
      BY <2>1, <2>2, <2>4, <1>7, <1>8
    <3> QED BY <3>1, <2>1, <2>2, <1>3, <1>4
  <2>5. CASE k # last
    <3>1. chunks'[k].size = chunks[k].size
      BY <2>1, <2>2, <2>5, <1>8
    <3> QED BY <3>1, <2>1, <2>2, <2>3
  <2> QED BY <2>4, <2>5
<1>11. Kept(chunks')
  BY <1>4, <1>8, <1>10 DEF Kept
<1>12. ASSUME NEW p \in Live
       PROVE  /\ blocks[p].chunk \in 1..HeadChunk /\ m[blocks[p].chunk] = mem[blocks[p].chunk]
              /\ blocks[p].chunk = last => End(p) <= top
  <2>1. blocks[p].chunk \in 1..HeadChunk /\ End(p) <= chunks[blocks[p].chunk].size
    BY BlockOf
  <2> QED BY <2>1, <1>10
<1>13. Placed(o, b, chunks')
  <2>1. b.at + Aligned(b.size) <= chunks'[b.chunk].size
    <3>1. chunks'[b.chunk].size = top + al /\ b.at + Aligned(b.size) = top + al
      BY <1>4, <1>5, <1>7, <1>8 DEF al
    <3> QED BY <3>1, <1>3, <1>4
  <2>2. \A p \in Live : p # o /\ blocks[p].chunk = b.chunk => End(p) <= b.at
    BY <1>5, <1>12
  <2> QED BY <2>1, <2>2, <1>1, <1>4, <1>5, <1>8 DEF Placed
<1> DEFINE w == Copied(m, old, b)
<1>14. /\ w \in Seq(Memories) /\ Len(w) = Len(m)
       /\ \A k \in 1..Len(m) : DOMAIN w[k] = DOMAIN m[k]
       /\ \A k \in 1..Len(m) : \A i \in DOMAIN m[k] :
            w[k][i] = IF k = b.chunk /\ b.at <= i /\ i < b.at + old.size
                      THEN m[old.chunk][old.at + (i - b.at)] ELSE m[k][i]
  <2>1. ASSUME NEW i \in 0..(old.size - 1)
        PROVE  m[old.chunk][old.at + i] \in Owners \cup {Nobody}
    <3> DEFINE c == old.chunk
               cap == cs[c].capacity
               s == chunks[c].size
               at == old.at
               size == old.size
               a == Aligned(size)
    <3>1. o \in Live
      BY <2>1, <1>2 DEF Live
    <3>2. c \in 1..HeadChunk /\ at + a <= s /\ size <= a /\ a \in Nat
      BY <3>1, BlockOf
    <3>3. c \in 1..Len(cs) /\ s = cs[c].size /\ s \in Nat
      BY <3>2, <1>10
    <3>4. s <= cap /\ cap \in Nat
      BY <3>3, ChunkOf
    <3>5. at \in Nat /\ size \in Nat /\ i \in 0..(size - 1)
      BY <1>2
    <3> HIDE DEF cap, s, at, size, a, c
    <3>6. at + i \in 0..(cap - 1)
      BY <3>2, <3>3, <3>4, <3>5
    <3>7. m[c] \in Memories /\ DOMAIN m[c] = 0..(cap - 1)
      BY <3>3, ElementOfSeq DEF cap
    <3>8. m[c][at + i] \in Owners \cup {Nobody}
      <4>1. \A f \in Memories : \A k \in DOMAIN f : f[k] \in Owners \cup {Nobody}
        BY DEF Memories
      <4>2. at + i \in DOMAIN m[c]
        BY <3>6, <3>7
      <4> QED BY <3>7, <4>1, <4>2, Zenon
    <3> QED BY <3>8 DEF c, at
  <2>2. b.chunk \in 1..Len(m) /\ b.at \in Nat /\ old.size \in Nat
    BY <1>2, <1>4, <1>5
  <2> HIDE DEF old, last, top
  <2> QED BY ONLY m \in Seq(Memories), <2>1, <2>2, CopiesWhere
<1> HIDE DEF w
<1>15. \A k \in 1..Len(chunks') : DOMAIN w[k] = 0..(chunks'[k].capacity - 1)
  BY <1>4, <1>7, <1>8, <1>14
<1>16. ASSUME NEW i \in 0..(old.used - 1)
       PROVE  w[b.chunk][b.at + i] = o
  <2> DEFINE used == old.used
             size == old.size
             cap == cs[last].capacity
  <2>1. used \in Nat /\ size \in Nat /\ used <= size /\ o \in Live
    <3>1. used > 0
      BY <1>2
    <3>2. size > 0
      BY <3>1, <1>2 DEF PoolIInv, PoolSizes
    <3>3. o \in Live
      BY <3>2 DEF Live
    <3> QED BY <3>3, <1>2, BlockOf
  <2>2. i \in 0..(used - 1) /\ size < d[1] /\ d[1] <= al /\ top + al <= cap /\ cap \in Nat
    BY <1>2, <1>3, <1>4 DEF Chunks
  <2>3. m[old.chunk][old.at + i] = o
    BY <2>1, <1>12 DEF PoolIInv, ContentsAreKept
  <2> HIDE DEF used, size, cap, top
  <2>4. top + i \in 0..(cap - 1) /\ top <= top + i /\ top + i < top + size /\ (top + i) - top = i
    BY <2>1, <2>2, <1>1, <1>3, <1>4
  <2>5. top + i \in DOMAIN m[last]
    BY <2>4, <1>4 DEF cap
  <2>6. w[last][top + i] = m[old.chunk][old.at + ((top + i) - top)]
    BY <2>4, <2>5, <1>4, <1>5, <1>14 DEF size
  <2> QED BY <2>3, <2>4, <2>6, <1>5
<1>17. ASSUME NEW p \in Live, p # o, NEW i \in 0..(blocks[p].used - 1)
       PROVE  w[blocks[p].chunk][blocks[p].at + i] = p
  <2> DEFINE c == blocks[p].chunk
             at == blocks[p].at
             used == blocks[p].used
             size == blocks[p].size
             a == Aligned(size)
             s == chunks[c].size
             cap == cs[c].capacity
  <2>1. /\ c \in 1..HeadChunk /\ at \in Nat /\ used \in Nat /\ size \in Nat /\ a \in Nat
        /\ used <= size /\ size <= a /\ at + a <= s /\ End(p) = at + a
    BY BlockOf DEF BlockType
  <2>2. c \in 1..last /\ s \in Nat /\ s = cs[c].size /\ m[c] = mem[c] /\ (c = last => at + a <= top)
    BY <2>1, <1>10, <1>12
  <2>3. s <= cap /\ cap \in Nat
    BY <2>2, ChunkOf
  <2>4. mem[c][at + i] = p
    BY <1>17 DEF PoolIInv, ContentsAreKept
  <2>5. i \in 0..(used - 1)
    OBVIOUS
  <2> HIDE DEF c, at, used, size, a, s, cap, top
  <2>6. at + i \in 0..(cap - 1) /\ (c = last => ~(top <= at + i))
    BY <2>1, <2>2, <2>3, <2>5, <1>4
  <2>7. at + i \in DOMAIN m[c]
    BY <2>2, <2>6 DEF cap
  <2>8. w[c][at + i] = m[c][at + i]
    BY <2>2, <2>6, <2>7, <1>5, <1>14
  <2> QED BY <2>2, <2>4, <2>8 DEF c, at
<1>18. Remembered(o, b, chunks', mem')
  <2> HIDE DEF old
  <2>1. Remembered(o, b, chunks', Writes(w, o, b, old.used, b.used))
    BY <1>2, <1>8, <1>9, <1>11, <1>13, <1>14, <1>15, <1>16, <1>17, WritesRemembered
  <2> QED BY <2>1, <1>6 DEF w
<1>19. o \in Arrays => b.size >= ElementSize
  BY <1>1, <1>5
<1> QED BY <1>6, <1>9, <1>11, <1>13, <1>18, <1>19, PlacedStep

(* Realloc, in place or in the head chunk or in a new one.                 *)
LEMMA ReallocStep ==
  ASSUME PoolIInv, NEW o \in Owners, NEW d \in Demands(o), Realloc(o, d[1], d[2])
  PROVE  PoolIInv'
<1> USE DEF HeadChunk
<1>1. /\ Sound(chunks) /\ mem \in Seq(Memories) /\ Len(mem) = Len(chunks)
      /\ \A k \in 1..Len(chunks) : DOMAIN mem[k] = 0..(chunks[k].capacity - 1)
      /\ chunks \in Seq(Chunks) /\ Len(chunks) \in Nat /\ Len(chunks) > 0
  BY ChunksAreSound, LenProperties DEF PoolIInv, PoolInv, TypeOK, Sound
<1>2. CASE CanExpand(o, d[1]) /\ Expands(o, d[1], d[2])
  BY <1>2, ExpandStep DEF Realloc
<1>3. CASE Moves(o, d[1], d[2])
  <2>1. /\ chunks[Len(chunks)].size + Aligned(d[1]) <= chunks[Len(chunks)].capacity
        /\ MoveTo(o, [chunk |-> Len(chunks), at |-> chunks[Len(chunks)].size,
                      size |-> d[1], used |-> d[2]], chunks, mem)
        /\ ~IsEnough(o, d[1])
    BY <1>3 DEF Moves, HasRoom, Realloc
  <2> QED BY <1>1, <2>1, MoveStep
<1>4. CASE MovesToNewChunk(o, d[1], d[2])
  <2> DEFINE capacity == Larger(ChunkCapacity, Aligned(d[1]))
             cs == Append(chunks, NewChunk(capacity))
             m == Append(mem, NewMem(capacity))
  <2>1. d[1] \in Nat /\ Aligned(d[1]) \in Nat
    BY DemandsGrow, AlignedProperties
  <2>2. capacity \in Nat /\ Aligned(d[1]) <= capacity
    BY <2>1, OwnersAssumption DEF Larger
  <2>3. ~IsEnough(o, d[1]) /\ MoveTo(o, [chunk |-> Len(chunks) + 1, at |-> 0, size |-> d[1], used |-> d[2]], cs, m)
    BY <1>4 DEF MovesToNewChunk, Realloc
  <2> HIDE DEF capacity
  <2>4. /\ NewChunk(capacity) \in Chunks /\ NewChunk(capacity).size = 0
        /\ NewChunk(capacity).capacity = capacity
        /\ NewMem(capacity) \in Memories /\ DOMAIN NewMem(capacity) = 0..(capacity - 1)
    BY <2>2 DEF Chunks, Memories, NewChunk, NewMem
  <2>5. /\ cs \in Seq(Chunks) /\ Len(cs) = Len(chunks) + 1
        /\ \A k \in 1..Len(chunks) : cs[k] = chunks[k]
        /\ cs[Len(chunks) + 1] = NewChunk(capacity)
        /\ m \in Seq(Memories) /\ Len(m) = Len(mem) + 1
        /\ \A k \in 1..Len(mem) : m[k] = mem[k]
        /\ m[Len(mem) + 1] = NewMem(capacity)
    BY <1>1, <2>4, AppendProperties
  <2> HIDE DEF cs, m
  <2>6. Sound(cs)
    <3>1. 0 % 4 = 0 /\ 0 <= capacity
      BY <2>2, MultiplesAdd
    <3>2. ASSUME NEW k \in 1..Len(cs) PROVE cs[k].size <= cs[k].capacity /\ cs[k].size % 4 = 0
      <4>1. k \in 1..Len(chunks) \/ k = Len(chunks) + 1
        BY <1>1, <2>5
      <4>2. CASE k \in 1..Len(chunks)
        BY <4>2, <1>1, <2>5 DEF Sound
      <4>3. CASE k = Len(chunks) + 1
        BY <4>3, <3>1, <2>4, <2>5
      <4> QED BY <4>1, <4>2, <4>3
    <3> QED BY <3>2, <1>1, <2>5 DEF Sound
  <2>7. ASSUME NEW k \in 1..Len(cs) PROVE DOMAIN m[k] = 0..(cs[k].capacity - 1)
    <3>1. k \in 1..Len(chunks) \/ k = Len(chunks) + 1
      BY <1>1, <2>5
    <3>2. CASE k \in 1..Len(chunks)
      BY <3>2, <1>1, <2>5
    <3>3. CASE k = Len(chunks) + 1
      BY <3>3, <1>1, <2>4, <2>5
    <3> QED BY <3>1, <3>2, <3>3
  <2>8. /\ cs[Len(cs)].size + Aligned(d[1]) <= cs[Len(cs)].capacity
        /\ MoveTo(o, [chunk |-> Len(cs), at |-> cs[Len(cs)].size, size |-> d[1], used |-> d[2]], cs, m)
    BY <2>1, <2>2, <2>3, <2>4, <2>5
  <2>9. Len(cs) >= Len(chunks) /\ Len(m) = Len(cs)
        /\ \A k \in 1..Len(chunks) : cs[k] = chunks[k] /\ m[k] = mem[k]
    BY <1>1, <2>5
  <2> QED BY <2>3, <2>5, <2>6, <2>7, <2>8, <2>9, MoveStep
<1> QED BY <1>2, <1>3, <1>4 DEF Realloc

(* The end of a value gives up bytes of the stack, and no block.           *)
LEMMA PopStep == ASSUME PoolIInv, PopStack PROVE PoolIInv'
<1>1. PICK n \in PushSizes : /\ n <= blocks[Stack].used
                             /\ blocks' = [blocks EXCEPT ![Stack].used = @ - n]
  BY DEF PopStack
<1> DEFINE old == blocks[Stack]
           b == [old EXCEPT !.used = @ - n]
<1>2. Stack \in Owners /\ n \in Nat /\ blocks \in [Owners -> BlockType] /\ old \in BlockType
      /\ old.used \in Nat /\ Stack \in Live /\ Stack \notin Arrays /\ old.size \in Nat
  BY OwnersAssumption DEF PoolIInv, PoolInv, TypeOK, Owners, PoolSizes, Live, BlockType
<1>3. /\ b \in BlockType /\ b.used = old.used - n /\ b.used \in Nat
      /\ b.size = old.size /\ b.at = old.at /\ b.chunk = old.chunk
  BY <1>1, <1>2 DEF BlockType
<1>4. blocks' = [blocks EXCEPT ![Stack] = b] /\ chunks' = chunks /\ mem' = mem
  BY <1>1 DEF PopStack
<1> HIDE DEF b
<1>5. Sound(chunks) /\ Kept(chunks) /\ HeadChunk = Len(chunks)
  BY ChunksAreSound
<1>6. /\ old.used <= old.size /\ old.size > 0 /\ old.at % 4 = 0 /\ old.chunk \in 1..HeadChunk
      /\ End(Stack) <= chunks[old.chunk].size /\ End(Stack) = old.at + Aligned(old.size)
  BY <1>2, BlockOf
<1>7. Placed(Stack, b, chunks)
  <2>1. b.used <= b.size
    BY <1>2, <1>3, <1>6
  <2>2. \A p \in Live : p # Stack /\ blocks[p].chunk = b.chunk =>
       End(p) <= b.at \/ b.at + Aligned(b.size) <= blocks[p].at
    BY <1>2, <1>3, <1>6 DEF PoolIInv, PoolInv, Disjoint
  <2> QED BY <2>1, <2>2, <1>3, <1>5, <1>6 DEF Placed
<1>8. Remembered(Stack, b, chunks, mem)
  <2>1. \A i \in 0..(b.used - 1) : i \in 0..(old.used - 1)
    BY <1>2, <1>3
  <2>2. \A i \in 0..(b.used - 1) : mem[b.chunk][b.at + i] = Stack
    BY <2>1, <1>2, <1>3 DEF PoolIInv, ContentsAreKept
  <2>3. \A p \in Live : \A i \in 0..(blocks[p].used - 1) :
          mem[blocks[p].chunk][blocks[p].at + i] = p
    BY DEF PoolIInv, ContentsAreKept
  <2>4. /\ mem \in Seq(Memories) /\ Len(mem) = Len(chunks)
        /\ \A k \in 1..Len(chunks) : DOMAIN mem[k] = 0..(chunks[k].capacity - 1)
    BY DEF PoolIInv, PoolInv, TypeOK, HeadChunk
  <2> QED BY <2>2, <2>3, <2>4 DEF Remembered
<1> QED BY <1>2, <1>4, <1>5, <1>7, <1>8, PlacedStep

LEMMA PoolNextInv == PoolIInv /\ [PoolNext]_poolVars => PoolIInv'
<1> SUFFICES ASSUME PoolIInv, [PoolNext]_poolVars PROVE PoolIInv'
  OBVIOUS
<1>1. CASE \E o \in Owners : Demand(o)
  <2>1. PICK o \in Owners : Demand(o)
    BY <1>1
  <2>2. PICK d \in Demands(o) : (IsEnough(o, d[1]) /\ WriteMore(o, d[2])) \/ Realloc(o, d[1], d[2])
    BY <2>1 DEF Demand
  <2> QED BY <2>2, WriteStep, ReallocStep
<1>2. CASE PopStack
  BY <1>2, PopStep
<1>3. CASE UNCHANGED poolVars
  BY <1>3 DEF poolVars, PoolIInv, PoolInv, TypeOK, Inside, Disjoint, AlignedBlocks, ContentsAreKept,
     PoolSizes, Live, End, HeadChunk
<1> QED BY <1>1, <1>2, <1>3 DEF PoolNext

(* MemoryPoolAllocator hands out aligned blocks inside their chunks, never  *)
(* the same byte twice, and Realloc loses nothing of what it moves.        *)
THEOREM BlocksAreKept == PoolSpec => []PoolKeepsBlocks
<1>1. PoolInit => PoolIInv
  BY PoolInitInv
<1>2. PoolIInv /\ [PoolNext]_poolVars => PoolIInv'
  BY PoolNextInv
<1>3. PoolIInv => PoolKeepsBlocks
  BY DEF PoolIInv, PoolKeepsBlocks
<1> QED BY <1>1, <1>2, <1>3, PTL DEF PoolSpec

-----------------------------------------------------------------------------
(* Induction over the numbers, for a set of them.                          *)
LEMMA NumbersInduction ==
  ASSUME NEW S, 0 \in S, \A n \in Nat : n \in S => n + 1 \in S
  PROVE  Nat \subseteq S
<1> DEFINE T == Nat \ S
<1>1. SUFFICES ASSUME T # {} PROVE FALSE
  OBVIOUS
<1>2. IsWellFoundedOn(OpToRel(<, Nat), Nat)
  BY NatLessThanWellFounded
<1>3. PICK m \in T : \A k \in T : ~(<<k, m>> \in OpToRel(<, Nat))
  BY <1>1, <1>2, WFMin
<1>4. m \in Nat /\ m # 0 /\ m - 1 \in Nat /\ m - 1 + 1 = m
  OBVIOUS
<1>5. m - 1 \in T
  BY <1>4
<1>6. <<m - 1, m>> \in OpToRel(<, Nat)
  BY <1>4 DEF OpToRel
<1> QED BY <1>3, <1>5, <1>6

-----------------------------------------------------------------------------
(* Reading a text is reading its units one after the other.                *)

Scans(text, g) ==
  g = [k \in 0..Len(text) |-> IF k = 0 THEN Start ELSE Read(g[k - 1], text[k])]

LEMMA FrontAndLast ==
  ASSUME NEW U, NEW t \in Seq(U), t # <<>>
  PROVE  /\ Front(t) \in Seq(U) /\ Len(Front(t)) = Len(t) - 1 /\ Len(t) \in Nat \ {0}
         /\ \A k \in 1..(Len(t) - 1) : Front(t)[k] = t[k]
         /\ Last(t) \in U /\ Last(t) = t[Len(t)] /\ t = Append(Front(t), Last(t))
<1>1. Len(t) \in Nat \ {0}
  BY EmptySeq
<1>2. \A k \in 1..(Len(t) - 1) : t[k] \in U
  BY <1>1, ElementOfSeq
<1>3. /\ Front(t) \in Seq(U) /\ Len(Front(t)) = Len(t) - 1
      /\ \A k \in 1..(Len(t) - 1) : Front(t)[k] = t[k]
  <2> DEFINE n == Len(t) - 1
  <2>1. n \in Nat /\ \A k \in 1..n : t[k] \in U
    BY <1>1, <1>2
  <2> HIDE DEF n
  <2>2. /\ SubSeq(t, 1, n) \in Seq(U)
        /\ Len(SubSeq(t, 1, n)) = IF 1 <= n THEN n - 1 + 1 ELSE 0
        /\ \A k \in 1..(n - 1 + 1) : SubSeq(t, 1, n)[k] = t[1 + k - 1]
    BY <2>1, SubSeqProperties
  <2>3. n - 1 + 1 = n /\ (IF 1 <= n THEN n - 1 + 1 ELSE 0) = n
        /\ \A k \in 1..n : 1 + k - 1 = k
    BY <2>1
  <2>4. /\ SubSeq(t, 1, n) \in Seq(U) /\ Len(SubSeq(t, 1, n)) = n
        /\ \A k \in 1..n : SubSeq(t, 1, n)[k] = t[k]
    BY <2>2, <2>3
  <2> QED BY <2>4 DEF Front, n
<1>4. Last(t) = t[Len(t)] /\ Last(t) \in U
  BY <1>1, ElementOfSeq DEF Last
<1>5. /\ Append(Front(t), Last(t)) \in Seq(U) /\ Len(Append(Front(t), Last(t))) = Len(t)
      /\ \A k \in 1..Len(t) : Append(Front(t), Last(t))[k] = t[k]
  BY <1>1, <1>3, <1>4, AppendProperties
<1>6. t = Append(Front(t), Last(t))
  BY <1>5, SeqEqual
<1> QED BY <1>1, <1>3, <1>4, <1>6

LEMMA ScanExists ==
  ASSUME NEW U, NEW text \in Seq(U)
  PROVE  \E g : Scans(text, g)
<1> DEFINE S == {n \in Nat : \A t \in Seq(U) : Len(t) = n => \E g : Scans(t, g)}
<1>1. 0 \in S
  <2>1. ASSUME NEW t \in Seq(U), Len(t) = 0 PROVE Scans(t, [k \in {0} |-> Start])
    <3>1. 0..Len(t) = {0}
      BY <2>1
    <3> QED BY <3>1 DEF Scans
  <2> QED BY <2>1
<1>2. ASSUME NEW n \in Nat, n \in S PROVE n + 1 \in S
  <2>1. ASSUME NEW t \in Seq(U), Len(t) = n + 1 PROVE \E g : Scans(t, g)
    <3>1. t # <<>>
      BY <2>1
    <3>2. /\ Front(t) \in Seq(U) /\ Len(Front(t)) = n
          /\ \A k \in 1..n : Front(t)[k] = t[k]
      <4>1. /\ Front(t) \in Seq(U) /\ Len(Front(t)) = Len(t) - 1
            /\ \A k \in 1..(Len(t) - 1) : Front(t)[k] = t[k]
        BY ONLY <2>1, <3>1, FrontAndLast
      <4>2. Len(t) - 1 = n
        BY <2>1
      <4> QED BY ONLY <4>1, <4>2
    <3>3. PICK g : Scans(Front(t), g)
      BY <1>2, <3>2
    <3> DEFINE h == [k \in 0..(n + 1) |-> IF k = n + 1 THEN Read(g[n], t[n + 1]) ELSE g[k]]
    <3>4. g = [k \in 0..n |-> IF k = 0 THEN Start ELSE Read(g[k - 1], Front(t)[k])]
      BY <3>2, <3>3 DEF Scans
    <3>5. ASSUME NEW k \in 0..(n + 1)
          PROVE  h[k] = IF k = 0 THEN Start ELSE Read(h[k - 1], t[k])
      <4>1. CASE k = n + 1
        BY <4>1
      <4>2. CASE k = 0
        BY <4>2, <3>4
      <4>3. CASE k \in 1..n
        <5>1. h[k] = g[k] /\ h[k - 1] = g[k - 1]
          BY <4>3
        <5>2. g[k] = Read(g[k - 1], Front(t)[k])
          BY <4>3, <3>4
        <5> QED BY <5>1, <5>2, <4>3, <3>2
      <4> QED BY <4>1, <4>2, <4>3
    <3>6. Scans(t, h)
      <4> HIDE DEF h
      <4>1. h = [k \in 0..(n + 1) |-> h[k]]
        BY DEF h
      <4> QED BY <2>1, <3>5, <4>1, Zenon DEF Scans
    <3> QED BY <3>6
  <2> QED BY <2>1
<1>3. Nat \subseteq S
  <2> HIDE DEF S
  <2> QED BY <1>1, <1>2, NumbersInduction
<1> QED BY <1>3, LenProperties

LEMMA ScanIsUnique ==
  ASSUME NEW U, NEW text \in Seq(U), NEW u \in U, NEW g, NEW h,
         Scans(text, g), Scans(Append(text, u), h)
  PROVE  h[Len(text)] = g[Len(text)] /\ h[Len(text) + 1] = Read(h[Len(text)], u)
<1> DEFINE n == Len(text)
           S == {k \in Nat : k <= n => h[k] = g[k]}
           t == Append(text, u)
<1>1. n \in Nat /\ Len(t) = n + 1 /\ t[n + 1] = u /\ \A k \in 1..n : t[k] = text[k]
  BY LenProperties, AppendProperties
<1>2. h = [k \in 0..(n + 1) |-> IF k = 0 THEN Start ELSE Read(h[k - 1], t[k])]
  BY <1>1 DEF Scans
<1>3. g = [k \in 0..n |-> IF k = 0 THEN Start ELSE Read(g[k - 1], text[k])]
  BY DEF Scans
<1> HIDE DEF n, t
<1>4. 0 \in S
  <2>1. h[0] = Start /\ g[0] = Start
    BY <1>1, <1>2, <1>3
  <2> QED BY <2>1
<1>5. ASSUME NEW k \in Nat, k \in S PROVE k + 1 \in S
  <2>1. SUFFICES ASSUME k + 1 <= n PROVE h[k + 1] = g[k + 1]
    OBVIOUS
  <2>2. k + 1 \in 1..n /\ k + 1 \in 0..(n + 1) /\ k + 1 # 0 /\ (k + 1) - 1 = k
    BY <1>1, <2>1
  <2>3. h[k + 1] = Read(h[k], t[k + 1])
    BY ONLY <1>2, <2>2
  <2>6. k + 1 \in 0..n
    BY <2>2
  <2>5. g[k + 1] = Read(g[k], text[k + 1])
    BY ONLY <1>3, <2>2, <2>6
  <2>4. h[k] = g[k]
    BY <1>5, <1>1, <2>1
  <2> QED BY <2>2, <2>3, <2>4, <2>5, <1>1
<1>6. Nat \subseteq S
  <2> HIDE DEF S
  <2> QED BY <1>4, <1>5, NumbersInduction
<1>7. h[n] = g[n]
  BY <1>6, <1>1
<1>8. h[n + 1] = Read(h[n], t[n + 1])
  <2>1. n + 1 \in 0..(n + 1) /\ n + 1 # 0 /\ (n + 1) - 1 = n
    BY <1>1
  <2> QED BY <2>1, <1>2
<1> QED BY <1>7, <1>8, <1>1 DEF n

LEMMA ReadingScans ==
  ASSUME NEW U, NEW text \in Seq(U)
  PROVE  \E g : Scans(text, g) /\ Reading(text) = g[Len(text)]
<1> DEFINE g == CHOOSE f : Scans(text, f)
<1>1. Scans(text, g)
  BY ScanExists, Zenon
<1>2. Reading(text) = g[Len(text)]
  BY Zenon DEF Reading, Scans
<1> QED BY <1>1, <1>2

LEMMA ReadingStarts == Reading(<<>>) = Start
<1>1. PICK g : Scans(<<>>, g) /\ Reading(<<>>) = g[0]
  <2>1. <<>> \in Seq({0}) /\ Len(<<>>) = 0
    BY EmptySeq
  <2> QED BY <2>1, ReadingScans
<1> QED BY <1>1 DEF Scans

LEMMA ReadingGoesOn ==
  ASSUME NEW U, NEW text \in Seq(U), NEW u \in U
  PROVE  Reading(Append(text, u)) = Read(Reading(text), u)
<1>1. Append(text, u) \in Seq(U) /\ Len(Append(text, u)) = Len(text) + 1
  BY AppendProperties
<1>2. PICK g : Scans(text, g) /\ Reading(text) = g[Len(text)]
  BY ReadingScans
<1>3. PICK h : Scans(Append(text, u), h) /\ Reading(Append(text, u)) = h[Len(text) + 1]
  BY <1>1, ReadingScans
<1>4. h[Len(text)] = g[Len(text)] /\ h[Len(text) + 1] = Read(h[Len(text)], u)
  BY <1>2, <1>3, ScanIsUnique
<1> QED BY <1>2, <1>3, <1>4

-----------------------------------------------------------------------------
(* Strings.                                                                *)

(* All characters there are: those of the strings, and those of the text.  *)
StringChars == UNION {{s[k] : k \in DOMAIN s} : s \in Strings \cup Garbage}
Marks == {"beginObject", "endObject", "beginArray", "endArray", "comma", "colon", "quote",
          "backslash", "n", "u", "0001", "null", "true", "false", "NL", "SOH"}
Names == {"type", "fqdn", "status", "error", "counts", "errors", "ips", "ip"}
Words == {"ADD_DOMAIN", "SET_NS", "SNAPSHOT", "GET_COUNTS", "PASSED", "FAILED"}
Chars == StringChars \cup Marks \cup Names \cup Words
(* A line has no newline.                                                  *)
Units == ({"char"} \X (Chars \ {"NL"})) \cup ({"number"} \X (BOOLEAN \X Int))

LEMMA MarksAreChars ==
  \A c \in Marks : c \in Chars /\ (c # "NL" => Lit(c) \in Units)
  BY DEF Marks, Chars, Lit, Units

LEMMA LitsAreUnits == \A c \in Chars : c # "NL" => Lit(c) \in Units
  BY DEF Lit, Units

LEMMA TwoAreEqual ==
  ASSUME NEW U, NEW a \in Seq(U), NEW b \in Seq(U),
         Len(a) = 2, Len(b) = 2, a[1] = b[1], a[2] = b[2]
  PROVE  a = b
<1>1. \A i \in 1..2 : i = 1 \/ i = 2
  OBVIOUS
<1>2. \A i \in 1..Len(a) : a[i] = b[i]
  BY <1>1
<1> QED BY <1>2, SeqEqual

LEMMA ThreeAreEqual ==
  ASSUME NEW U, NEW a \in Seq(U), NEW b \in Seq(U),
         Len(a) = 3, Len(b) = 3, a[1] = b[1], a[2] = b[2], a[3] = b[3]
  PROVE  a = b
<1>1. \A i \in 1..3 : i = 1 \/ i = 2 \/ i = 3
  OBVIOUS
<1>2. \A i \in 1..Len(a) : a[i] = b[i]
  BY <1>1
<1> QED BY <1>2, SeqEqual

LEMMA Pairs ==
  ASSUME NEW U, NEW u \in U, NEW v \in U
  PROVE  /\ <<u>> \in Seq(U) /\ <<v>> \in Seq(U) /\ <<u, v>> \in Seq(U)
         /\ <<u, v>> = <<u>> \o <<v>>
<1> DEFINE a == Append(<<u>>, v)
           b == <<u, v>>
<1>1. <<u>> \in Seq(U) /\ Len(<<u>>) = 1 /\ <<u>>[1] = u /\ <<v>> \in Seq(U)
  OBVIOUS
<1>2. a \in Seq(U) /\ Len(a) = 2 /\ a[1] = u /\ a[2] = v
  BY <1>1, AppendProperties
<1>3. b \in Seq(U) /\ Len(b) = 2 /\ b[1] = u /\ b[2] = v
  OBVIOUS
<1>4. a = <<u>> \o <<v>>
  BY <1>1, AppendIsConcat
<1> HIDE DEF a, b
<1>5. a = b
  BY <1>2, <1>3, TwoAreEqual
<1> QED BY <1>1, <1>3, <1>4, <1>5 DEF b

LEMMA Triples ==
  ASSUME NEW U, NEW u \in U, NEW v \in U, NEW w \in U
  PROVE  <<u, v, w>> \in Seq(U) /\ <<u, v, w>> = <<u, v>> \o <<w>>
<1> DEFINE a == Append(<<u, v>>, w)
           b == <<u, v, w>>
<1>1. <<u, v>> \in Seq(U) /\ Len(<<u, v>>) = 2 /\ <<u, v>>[1] = u /\ <<u, v>>[2] = v
  OBVIOUS
<1>2. a \in Seq(U) /\ Len(a) = 3 /\ a[1] = u /\ a[2] = v /\ a[3] = w
  BY <1>1, AppendProperties
<1>3. b \in Seq(U) /\ Len(b) = 3 /\ b[1] = u /\ b[2] = v /\ b[3] = w
  OBVIOUS
<1>4. a = <<u, v>> \o <<w>>
  BY <1>1, AppendIsConcat
<1> HIDE DEF a, b
<1>5. a = b
  BY <1>2, <1>3, ThreeAreEqual
<1> QED BY <1>3, <1>4, <1>5 DEF b

LEMMA ReadsOne ==
  ASSUME NEW out \in Seq(Units), NEW u \in Units
  PROVE  out \o <<u>> \in Seq(Units) /\ Reading(out \o <<u>>) = Read(Reading(out), u)
  BY ReadingGoesOn, AppendIsConcat, AppendProperties

(* Two steps, and three.                                                   *)
LEMMA ReadsTwo ==
  ASSUME NEW out \in Seq(Units), NEW u \in Units, NEW v \in Units
  PROVE  /\ out \o <<u, v>> \in Seq(Units)
         /\ Reading(out \o <<u, v>>) = Read(Read(Reading(out), u), v)
<1> DEFINE a == <<u>>
           b == <<v>>
           c == <<u, v>>
<1>1. a \in Seq(Units) /\ b \in Seq(Units) /\ c = a \o b
  BY Pairs
<1>2. /\ out \o a \in Seq(Units) /\ Reading(out \o a) = Read(Reading(out), u)
      /\ (out \o a) \o b \in Seq(Units)
      /\ Reading((out \o a) \o b) = Read(Reading(out \o a), v)
  BY ReadsOne
<1> HIDE DEF a, b, c
<1>3. out \o c = (out \o a) \o b
  <2>1. a \in Seq(Units) /\ b \in Seq(Units) /\ out \in Seq(Units)
    BY <1>1
  <2>2. (out \o a) \o b = out \o (a \o b)
    BY ONLY <2>1, ConcatAssociative
  <2> QED BY <1>1, <2>2
<1>4. out \o c \in Seq(Units) /\ Reading(out \o c) = Read(Read(Reading(out), u), v)
  BY <1>2, <1>3
<1> QED BY <1>4 DEF c

LEMMA ReadsThree ==
  ASSUME NEW out \in Seq(Units), NEW u \in Units, NEW v \in Units, NEW w \in Units
  PROVE  /\ out \o <<u, v, w>> \in Seq(Units)
         /\ Reading(out \o <<u, v, w>>) = Read(Read(Read(Reading(out), u), v), w)
<1> DEFINE a == <<u, v>>
           b == <<w>>
           c == <<u, v, w>>
<1>1. a \in Seq(Units) /\ b \in Seq(Units) /\ c = a \o b
  BY Pairs, Triples
<1>2. out \o a \in Seq(Units) /\ Reading(out \o a) = Read(Read(Reading(out), u), v)
  BY ReadsTwo
<1> HIDE DEF a
<1>3. /\ (out \o a) \o b \in Seq(Units)
      /\ Reading((out \o a) \o b) = Read(Reading(out \o a), w)
  BY <1>2, ReadsOne
<1> HIDE DEF b, c
<1>4. out \o c = (out \o a) \o b
  <2>1. a \in Seq(Units) /\ b \in Seq(Units) /\ out \in Seq(Units)
    BY <1>1
  <2>2. (out \o a) \o b = out \o (a \o b)
    BY ONLY <2>1, ConcatAssociative
  <2> QED BY <1>1, <2>2
<1>5. out \o c \in Seq(Units) /\ Reading(out \o c) = Read(Read(Read(Reading(out), u), v), w)
  BY <1>2, <1>3, <1>4
<1> QED BY <1>5 DEF c

LEMMA LitsDiffer ==
  /\ \A c, d : Lit(c) = Lit(d) <=> c = d
  /\ \A c, d, m : Lit(c) # Num(d, m)
  /\ \A c : Lit(c)[1] = "char" /\ Lit(c)[2] = c
  BY DEF Lit, Num

LEMMA ReaderFields ==
  ASSUME NEW at, NEW open, NEW chars, NEW docs
  PROVE  LET r == Reader(at, open, chars, docs)
         IN r.at = at /\ r.open = open /\ r.chars = chars /\ r.docs = docs
  BY DEF Reader

(* What the reader does with one unit in a string, and behind a backslash. *)
LEMMA StringSteps ==
  ASSUME NEW open, NEW chars, NEW docs
  PROVE  LET r == Reader("string", open, chars, docs)
         IN /\ \A u : Read(r, u) = ReadString(r, u)
            /\ \A c : Takes(r, c) = Reader("string", open, Append(chars, c), docs)
            /\ Goes(r, "escape") = Reader("escape", open, chars, docs)
            /\ r.chars = chars
<1> DEFINE r == Reader("string", open, chars, docs)
<1>1. r.at = "string" /\ r.open = open /\ r.chars = chars /\ r.docs = docs
  BY ReaderFields
<1>2. /\ \A c : Takes(r, c) = Reader("string", open, Append(chars, c), docs)
      /\ Goes(r, "escape") = Reader("escape", open, chars, docs)
  BY <1>1, Zenon DEF Takes, Goes
<1> HIDE DEF r
<1>3. \A u : Read(r, u) = ReadString(r, u)
  BY <1>1 DEF Read
<1> QED BY <1>1, <1>2, <1>3 DEF r

LEMMA StringStep ==
  ASSUME NEW open, NEW chars, NEW docs, NEW c, c \notin Escaped
  PROVE  Read(Reader("string", open, chars, docs), Lit(c))
           = Reader("string", open, Append(chars, c), docs)
<1> DEFINE r == Reader("string", open, chars, docs)
<1>1. Read(r, Lit(c)) = ReadString(r, Lit(c))
      /\ Takes(r, c) = Reader("string", open, Append(chars, c), docs)
  BY StringSteps
<1> HIDE DEF r
<1>2. c # "quote" /\ c # "backslash" /\ c # "NL" /\ c # "SOH"
  BY DEF Escaped
<1>3. ReadString(r, Lit(c)) = Takes(r, c)
  BY <1>2, LitsDiffer DEF ReadString
<1> QED BY <1>1, <1>3 DEF r

LEMMA BackslashStep ==
  ASSUME NEW open, NEW chars, NEW docs
  PROVE  Read(Reader("string", open, chars, docs), Lit("backslash"))
           = Reader("escape", open, chars, docs)
<1> DEFINE r == Reader("string", open, chars, docs)
<1>1. Read(r, Lit("backslash")) = ReadString(r, Lit("backslash"))
      /\ Goes(r, "escape") = Reader("escape", open, chars, docs)
  BY StringSteps
<1> HIDE DEF r
<1>2. ReadString(r, Lit("backslash")) = Goes(r, "escape")
  BY LitsDiffer DEF ReadString
<1> QED BY <1>1, <1>2 DEF r

LEMMA QuoteStep ==
  ASSUME NEW open, NEW chars, NEW docs
  PROVE  Read(Reader("string", open, chars, docs), Lit("quote"))
           = Item(Reader("string", open, chars, docs), <<"String", chars>>)
<1> DEFINE r == Reader("string", open, chars, docs)
<1>1. Read(r, Lit("quote")) = ReadString(r, Lit("quote")) /\ r.chars = chars
  BY StringSteps
<1> HIDE DEF r
<1>2. ReadString(r, Lit("quote")) = Item(r, <<"String", r.chars>>)
  BY LitsDiffer DEF ReadString
<1> QED BY <1>1, <1>2 DEF r

LEMMA EscapeStep ==
  ASSUME NEW open, NEW chars, NEW docs, NEW c,
         c = "quote" \/ c = "backslash" \/ c = "n" \/ c = "u"
  PROVE  Read(Reader("escape", open, chars, docs), Lit(c))
           = CASE c = "n" -> Reader("string", open, Append(chars, "NL"), docs)
               [] c = "u" -> Reader("hex", open, chars, docs)
               [] OTHER -> Reader("string", open, Append(chars, c), docs)
<1> DEFINE r == Reader("escape", open, chars, docs)
<1>1. r.at = "escape" /\ r.open = open /\ r.chars = chars /\ r.docs = docs
  BY ReaderFields
<1>2. /\ \A d : Takes(r, d) = Reader("string", open, Append(chars, d), docs)
      /\ Goes(r, "hex") = Reader("hex", open, chars, docs)
  BY <1>1, Zenon DEF Takes, Goes
<1> HIDE DEF r
<1>3. Read(r, Lit(c)) = ReadEscape(r, Lit(c))
  BY <1>1 DEF Read
<1>4. ReadEscape(r, Lit(c))
        = CASE c = "n" -> Takes(r, "NL")
            [] c = "u" -> Goes(r, "hex")
            [] OTHER -> Takes(r, c)
  BY LitsDiffer DEF ReadEscape
<1> QED BY <1>2, <1>3, <1>4 DEF r

LEMMA HexStep ==
  ASSUME NEW open, NEW chars, NEW docs
  PROVE  Read(Reader("hex", open, chars, docs), Lit("0001"))
           = Reader("string", open, Append(chars, "SOH"), docs)
<1> DEFINE r == Reader("hex", open, chars, docs)
<1>1. r.at = "hex" /\ r.open = open /\ r.chars = chars /\ r.docs = docs
  BY ReaderFields
<1>2. Takes(r, "SOH") = Reader("string", open, Append(chars, "SOH"), docs)
  BY <1>1, Zenon DEF Takes
<1> HIDE DEF r
<1>3. Read(r, Lit("0001")) = ReadHex4(r, Lit("0001"))
  BY <1>1 DEF Read
<1> QED BY <1>2, <1>3 DEF r, ReadHex4

(* A character is read as it was, whether or not it is escaped.            *)
LEMMA CharIsRead ==
  ASSUME NEW out \in Seq(Units), NEW c \in Chars, NEW open, NEW chars, NEW docs,
         Reading(out) = Reader("string", open, chars, docs)
  PROVE  /\ WriteChar(c) \in Seq(Units) /\ out \o WriteChar(c) \in Seq(Units)
         /\ Reading(out \o WriteChar(c)) = Reader("string", open, Append(chars, c), docs)
<1> DEFINE q == Lit("backslash")
           x == Lit(c)
           n == Lit("n")
           u == Lit("u")
           z == Lit("0001")
           s == Reader("string", open, chars, docs)
           e == Reader("escape", open, chars, docs)
           h == Reader("hex", open, chars, docs)
           next == Reader("string", open, Append(chars, c), docs)
<1>1. q \in Units /\ (c # "NL" => x \in Units) /\ n \in Units /\ u \in Units /\ z \in Units
  BY MarksAreChars, LitsAreUnits DEF Marks
<1>2. Read(s, q) = e
  BY BackslashStep
<1>3. CASE c \notin Escaped
  <2>1. WriteChar(c) = <<x>>
    BY <1>3 DEF WriteChar
  <2>2. Read(s, x) = next
    BY ONLY <1>3, StringStep
  <2>3. <<x>> \in Seq(Units) /\ out \o <<x>> \in Seq(Units)
        /\ Reading(out \o <<x>>) = Read(s, x)
    <3>1. x \in Units
      BY <1>1, <1>3 DEF Escaped
    <3> QED BY <3>1, Pairs, ReadsOne
  <2> HIDE DEF x, s, next
  <2>4. <<x>> \in Seq(Units) /\ out \o <<x>> \in Seq(Units) /\ Reading(out \o <<x>>) = next
    BY <2>2, <2>3
  <2> QED BY <2>1, <2>4, Zenon DEF next
<1>4. CASE c \in {"quote", "backslash"}
  <2>1. WriteChar(c) = <<q, x>>
    BY <1>4 DEF WriteChar, Escaped
  <2>2. Read(e, x) = next
    BY <1>4, EscapeStep
  <2>3. <<q, x>> \in Seq(Units) /\ out \o <<q, x>> \in Seq(Units)
        /\ Reading(out \o <<q, x>>) = Read(Read(s, q), x)
    <3>1. x \in Units
      BY <1>1, <1>4
    <3> QED BY <1>1, <3>1, Pairs, ReadsTwo
  <2> HIDE DEF q, x, s, e, next
  <2>4. /\ <<q, x>> \in Seq(Units) /\ out \o <<q, x>> \in Seq(Units)
        /\ Reading(out \o <<q, x>>) = next
    BY <1>2, <2>2, <2>3
  <2> QED BY <2>1, <2>4, Zenon DEF next
<1>5. CASE c = "NL"
  <2>1. WriteChar(c) = <<q, n>>
    BY <1>5 DEF WriteChar, Escaped
  <2>2. Read(e, n) = next
    BY <1>5, EscapeStep
  <2>3. <<q, n>> \in Seq(Units) /\ out \o <<q, n>> \in Seq(Units)
        /\ Reading(out \o <<q, n>>) = Read(Read(s, q), n)
    BY <1>1, Pairs, ReadsTwo
  <2> HIDE DEF q, n, s, e, next
  <2>4. /\ <<q, n>> \in Seq(Units) /\ out \o <<q, n>> \in Seq(Units)
        /\ Reading(out \o <<q, n>>) = next
    BY <1>2, <2>2, <2>3
  <2> QED BY <2>1, <2>4, Zenon DEF next
<1>6. CASE c = "SOH"
  <2>1. WriteChar(c) = <<q, u, z>>
    BY <1>6 DEF WriteChar, Escaped
  <2>2. Read(e, u) = h /\ Read(h, z) = next
    BY <1>6, EscapeStep, HexStep
  <2>3. <<q, u, z>> \in Seq(Units) /\ out \o <<q, u, z>> \in Seq(Units)
        /\ Reading(out \o <<q, u, z>>) = Read(Read(Read(s, q), u), z)
    BY <1>1, Triples, ReadsThree
  <2> HIDE DEF q, u, z, s, e, h, next
  <2>4. /\ <<q, u, z>> \in Seq(Units) /\ out \o <<q, u, z>> \in Seq(Units)
        /\ Reading(out \o <<q, u, z>>) = next
    BY <1>2, <2>2, <2>3
  <2> QED BY <2>1, <2>4, Zenon DEF next
<1> QED BY <1>3, <1>4, <1>5, <1>6 DEF Escaped

Flattens(seqs, f, m) ==
  f = [i \in 1..m |-> IF i = 1 THEN seqs[i] ELSE f[i - 1] \o seqs[i]]

LEMMA FlattenGoesOn ==
  ASSUME NEW U, NEW seqs \in Seq(Seq(U)), seqs # <<>>
  PROVE  \E f : /\ f[1] = seqs[1]
                /\ \A k \in 2..Len(seqs) : f[k] = f[k - 1] \o seqs[k]
                /\ FlattenSeq(seqs) = f[Len(seqs)]
<1> DEFINE n == Len(seqs)
           S == {m \in Nat : \E f : Flattens(seqs, f, m)}
<1>1. n \in Nat \ {0}
  BY EmptySeq
<1>2. 0 \in S
  <2> DEFINE f == [i \in 1..0 |-> seqs[i]]
  <2>1. Flattens(seqs, f, 0)
    BY DEF Flattens
  <2> QED BY <2>1
<1>3. ASSUME NEW m \in Nat, m \in S PROVE m + 1 \in S
  <2>1. PICK f : Flattens(seqs, f, m)
    BY <1>3
  <2> DEFINE h == [i \in 1..(m + 1) |->
                    IF i = m + 1 THEN IF i = 1 THEN seqs[i] ELSE f[m] \o seqs[i] ELSE f[i]]
  <2>2. ASSUME NEW i \in 1..(m + 1)
        PROVE  h[i] = IF i = 1 THEN seqs[i] ELSE h[i - 1] \o seqs[i]
    <3>1. CASE i = m + 1 /\ m # 0
      <4>1. i # 1 /\ i - 1 = m /\ m \in 1..(m + 1) /\ m # m + 1
        BY <3>1
      <4>2. h[i - 1] = f[m]
        BY <4>1
      <4> QED BY <3>1, <4>1, <4>2
    <3>2. CASE i = m + 1 /\ m = 0
      BY <3>2
    <3>3. CASE i = 1 /\ m # 0
      <4>1. i \in 1..m /\ i # m + 1
        BY <3>3
      <4> QED BY <2>1, <4>1, <3>3 DEF Flattens
    <3>4. CASE i \in 2..m
      <4>1. i \in 1..m /\ i # m + 1 /\ i # 1 /\ i - 1 \in 1..(m + 1) /\ i - 1 # m + 1
        BY <3>4
      <4>2. h[i] = f[i] /\ h[i - 1] = f[i - 1]
        BY <4>1
      <4>3. f[i] = f[i - 1] \o seqs[i]
        BY <2>1, <4>1 DEF Flattens
      <4> QED BY <4>1, <4>2, <4>3
    <3> QED BY <3>1, <3>2, <3>3, <3>4
  <2>3. Flattens(seqs, h, m + 1)
    <3> HIDE DEF h
    <3>1. h = [i \in 1..(m + 1) |-> h[i]]
      BY DEF h
    <3> QED BY <2>2, <3>1, Zenon DEF Flattens
  <2> QED BY <2>3
<1>4. Nat \subseteq S
  <2> HIDE DEF S
  <2> QED BY <1>2, <1>3, NumbersInduction
<1> DEFINE g == CHOOSE f : Flattens(seqs, f, n)
<1>5. Flattens(seqs, g, n)
  BY <1>1, <1>4
<1>6. FlattenSeq(seqs) = g[n]
  BY <1>1, Zenon DEF FlattenSeq, Flattens
<1>7. \A k \in 1..n : g[k] = IF k = 1 THEN seqs[k] ELSE g[k - 1] \o seqs[k]
  <2> HIDE DEF g
  <2> QED BY <1>5 DEF Flattens
<1> HIDE DEF g
<1>8. g[1] = seqs[1]
  BY <1>1, <1>7
<1>9. ASSUME NEW k \in 2..n PROVE g[k] = g[k - 1] \o seqs[k]
  <2>1. k \in 1..n /\ k # 1
    BY <1>1
  <2> QED BY <2>1, <1>7
<1> QED BY <1>6, <1>8, <1>9

LEMMA PrefixesGrow ==
  ASSUME NEW U, NEW s \in Seq(U)
  PROVE  /\ SubSeq(s, 1, 0) = <<>> /\ SubSeq(s, 1, Len(s)) = s
         /\ \A k \in 0..Len(s) : SubSeq(s, 1, k) \in Seq(U) /\ Len(SubSeq(s, 1, k)) = k
         /\ \A k \in 0..(Len(s) - 1) : SubSeq(s, 1, k + 1) = Append(SubSeq(s, 1, k), s[k + 1])
<1>1. Len(s) \in Nat /\ \A i \in 1..Len(s) : s[i] \in U
  BY LenProperties, ElementOfSeq
<1>2. SubSeq(s, 1, 0) = <<>> /\ SubSeq(s, 1, Len(s)) = s
  BY SubSeqEmpty, SubSeqFull
<1>3. ASSUME NEW k \in 0..Len(s)
      PROVE  SubSeq(s, 1, k) \in Seq(U) /\ Len(SubSeq(s, 1, k)) = k
  <2>1. k \in Int /\ \A i \in 1..k : s[i] \in U
    BY <1>1
  <2>2. /\ SubSeq(s, 1, k) \in Seq(U)
        /\ Len(SubSeq(s, 1, k)) = IF 1 <= k THEN k - 1 + 1 ELSE 0
    BY <2>1, SubSeqProperties
  <2> QED BY <2>1, <2>2
<1>4. ASSUME NEW k \in 0..(Len(s) - 1)
      PROVE  SubSeq(s, 1, k + 1) = Append(SubSeq(s, 1, k), s[k + 1])
  <2>1. /\ 1 \in 1..Len(s) /\ k + 1 \in 1..Len(s) /\ (k + 1) - 1 = k /\ k \in 0..Len(s)
        /\ s[k + 1] \in U
    BY <1>1
  <2>2. SubSeq(s, 1, k + 1) = SubSeq(s, 1, (k + 1) - 1) \o <<s[k + 1]>>
    BY <2>1, SubSeqRecursiveSecond
  <2>3. SubSeq(s, 1, k) \in Seq(U)
    BY <2>1, <1>3
  <2>4. Append(SubSeq(s, 1, k), s[k + 1]) = SubSeq(s, 1, k) \o <<s[k + 1]>>
    BY <2>1, <2>3, AppendIsConcat
  <2> QED BY <2>1, <2>2, <2>4
<1> QED BY <1>2, <1>3, <1>4

(* A string is read as it was.                                             *)
LEMMA StringIsRead ==
  ASSUME NEW out \in Seq(Units), NEW s \in Seq(Chars), NEW open, NEW docs,
         Reading(out \o <<Lit("quote")>>) = Reader("string", open, <<>>, docs)
  PROVE  /\ out \o WriteString(s) \in Seq(Units)
         /\ Reading(out \o WriteString(s))
              = Item(Reader("string", open, s, docs), <<"String", s>>)
<1> DEFINE q == Lit("quote")
           b == out \o <<q>>
           seqs == [k \in DOMAIN s |-> WriteChar(s[k])]
           n == Len(s)
           flat == FlattenSeq(seqs)
<1>1. q \in Units /\ <<q>> \in Seq(Units) /\ b \in Seq(Units)
  <2>1. q \in Units
    BY MarksAreChars DEF Marks
  <2> QED BY <2>1, Pairs, ReadsOne
<1>2. n \in Nat /\ DOMAIN s = 1..n /\ \A k \in 1..n : s[k] \in Chars
  BY LenProperties, ElementOfSeq
<1>10. Reading(b) = Reader("string", open, <<>>, docs)
  OBVIOUS
<1>3. flat \in Seq(Units) /\ Reading(b \o flat) = Reader("string", open, s, docs)
  <2>1. CASE n = 0
    <3>1. s = <<>> /\ seqs = <<>>
      BY <2>1, <1>2, EmptySeq
    <3>2. flat = <<>>
      BY <3>1 DEF FlattenSeq
    <3>3. <<>> \in Seq(Units) /\ b \o <<>> = b
      BY <1>1, ConcatEmptySeq, EmptySeq
    <3> HIDE DEF flat, b, seqs
    <3> QED BY <1>10, <3>1, <3>2, <3>3, Zenon
  <2>2. CASE n # 0
    <3>1. \A k \in 1..n : seqs[k] = WriteChar(s[k]) /\ WriteChar(s[k]) \in Seq(Units)
      <4>1. ASSUME NEW c \in Chars PROVE WriteChar(c) \in Seq(Units)
        <5>1. \A d \in {"quote", "backslash", "NL", "SOH", "n", "u", "0001"} :
                d # "NL" => Lit(d) \in Units
          BY MarksAreChars DEF Marks
        <5>2. c \notin Escaped => Lit(c) \in Units
          BY LitsAreUnits DEF Escaped
        <5> QED BY <5>1, <5>2 DEF WriteChar, Escaped
      <4> QED BY <4>1, <1>2
    <3>2. seqs \in Seq(Seq(Units)) /\ Len(seqs) = n /\ seqs # <<>>
      <4>1. seqs \in [1..n -> Seq(Units)]
        BY <3>1, <1>2
      <4> HIDE DEF seqs
      <4> QED BY <4>1, <1>2, <2>2
    <3>10. /\ SubSeq(s, 1, 0) = <<>> /\ SubSeq(s, 1, n) = s
           /\ \A k \in 0..(n - 1) : SubSeq(s, 1, k + 1) = Append(SubSeq(s, 1, k), s[k + 1])
      BY PrefixesGrow
    <3>11. flat = FlattenSeq(seqs)
      OBVIOUS
    <3> HIDE DEF seqs, b, n, flat
    <3>3. PICK f : /\ f[1] = seqs[1]
                   /\ \A k \in 2..n : f[k] = f[k - 1] \o seqs[k]
                   /\ flat = f[n]
      BY <3>2, <3>11, FlattenGoesOn
    <3> DEFINE T == {k \in Nat : k + 1 <= n =>
                       /\ f[k + 1] \in Seq(Units)
                       /\ Reading(b \o f[k + 1])
                            = Reader("string", open, SubSeq(s, 1, k + 1), docs)}
    <3>4. 0 \in T
      <4>1. 1 \in 1..n /\ 0 \in 0..(n - 1) /\ 0 + 1 = 1
        BY <1>2, <2>2
      <4>2. SubSeq(s, 1, 1) = Append(<<>>, s[1])
        <5>1. SubSeq(s, 1, 0 + 1) = Append(SubSeq(s, 1, 0), s[0 + 1])
          BY <3>10, <4>1
        <5> QED BY <3>10, <4>1, <5>1
      <4>3. /\ WriteChar(s[1]) \in Seq(Units)
            /\ Reading(b \o WriteChar(s[1])) = Reader("string", open, Append(<<>>, s[1]), docs)
        <5>1. s[1] \in Chars
          BY <4>1, <1>2
        <5> DEFINE none == <<>>
        <5>2. Reading(b) = Reader("string", open, none, docs)
          BY <1>10
        <5> HIDE DEF none
        <5>3. /\ WriteChar(s[1]) \in Seq(Units)
              /\ Reading(b \o WriteChar(s[1])) = Reader("string", open, Append(none, s[1]), docs)
          BY ONLY <5>1, <5>2, <1>1, CharIsRead
        <5> QED BY <5>3, Zenon DEF none
      <4> QED BY <4>1, <4>2, <4>3, <3>1, <3>3
    <3>5. ASSUME NEW k \in Nat, k \in T PROVE k + 1 \in T
      <4>1. SUFFICES ASSUME k + 1 + 1 <= n
                     PROVE  /\ f[k + 1 + 1] \in Seq(Units)
                            /\ Reading(b \o f[k + 1 + 1])
                                 = Reader("string", open, SubSeq(s, 1, k + 1 + 1), docs)
        OBVIOUS
      <4> DEFINE m == k + 1 + 1
                 a == f[k + 1]
                 w == WriteChar(s[m])
                 chars == SubSeq(s, 1, k + 1)
      <4>2. m \in 2..n /\ m \in 1..n /\ m - 1 = k + 1 /\ k + 1 \in 0..(n - 1) /\ k + 1 <= n
        BY <1>2, <4>1
      <4>3. a \in Seq(Units) /\ Reading(b \o a) = Reader("string", open, chars, docs)
        BY <3>5, <4>2
      <4>4. f[m] = a \o w /\ w \in Seq(Units) /\ s[m] \in Chars
        BY <3>1, <3>3, <4>2, <1>2
      <4>5. SubSeq(s, 1, m) = Append(chars, s[m])
        BY <4>2, <3>10
      <4> HIDE DEF m, a, chars
      <4>6. b \o a \in Seq(Units) /\ b \o (a \o w) = (b \o a) \o w /\ a \o w \in Seq(Units)
        <5> HIDE DEF w, b
        <5>1. b \in Seq(Units) /\ a \in Seq(Units) /\ w \in Seq(Units)
          BY <1>1, <4>3, <4>4 DEF b
        <5>2. b \o a \in Seq(Units) /\ a \o w \in Seq(Units)
          BY ONLY <5>1, ConcatProperties
        <5>3. (b \o a) \o w = b \o (a \o w)
          BY ONLY <5>1, ConcatAssociative
        <5> QED BY <5>2, <5>3
      <4>7. Reading((b \o a) \o w) = Reader("string", open, Append(chars, s[m]), docs)
        <5>1. Reading(b \o a) = Reader("string", open, chars, docs)
          BY <4>3
        <5>2. b \o a \in Seq(Units) /\ s[m] \in Chars
          BY <4>4, <4>6
        <5> DEFINE out1 == b \o a
        <5> HIDE DEF out1, w
        <5>3. /\ out1 \in Seq(Units) /\ s[m] \in Chars
              /\ Reading(out1) = Reader("string", open, chars, docs)
          BY <5>1, <5>2 DEF out1
        <5>4. Reading(out1 \o WriteChar(s[m])) = Reader("string", open, Append(chars, s[m]), docs)
          BY ONLY <5>3, CharIsRead
        <5> QED BY <5>4 DEF out1, w
      <4> QED BY <4>4, <4>5, <4>6, <4>7 DEF m
    <3>6. Nat \subseteq T
      <4> HIDE DEF T
      <4> QED BY <3>4, <3>5, NumbersInduction
    <3>7. n - 1 \in T /\ n - 1 + 1 = n /\ n <= n
      <4>1. n - 1 \in Nat /\ n - 1 + 1 = n /\ n <= n
        BY <1>2, <2>2
      <4> HIDE DEF T
      <4> QED BY <3>6, <4>1
    <3>8. f[n] \in Seq(Units) /\ Reading(b \o f[n]) = Reader("string", open, SubSeq(s, 1, n), docs)
      BY <3>7
    <3> QED BY <3>3, <3>8, <3>10
  <2> QED BY <2>1, <2>2
<1>4. WriteString(s) = (<<q>> \o flat) \o <<q>>
  BY DEF WriteString
<1> HIDE DEF q, flat
<1>5. /\ <<q>> \o flat \in Seq(Units) /\ b \o flat = out \o (<<q>> \o flat)
      /\ b \o flat \in Seq(Units)
  BY <1>1, <1>3, ConcatProperties, ConcatAssociative
<1>6. out \o ((<<q>> \o flat) \o <<q>>) = (b \o flat) \o <<q>>
  BY <1>1, <1>3, <1>5, ConcatAssociative
<1>7. /\ (b \o flat) \o <<q>> \in Seq(Units)
      /\ Reading((b \o flat) \o <<q>>) = Read(Reading(b \o flat), q)
  BY <1>1, <1>5, ReadsOne
<1>8. Read(Reader("string", open, s, docs), q)
        = Item(Reader("string", open, s, docs), <<"String", s>>)
  BY QuoteStep DEF q
<1> QED BY <1>3, <1>4, <1>6, <1>7, <1>8

-----------------------------------------------------------------------------
(* Numbers.                                                                *)

LEMMA Widths ==
  ASSUME NEW half \in Nat, half > 0
  PROVE  /\ \A n \in 0..(2 * half - 1) : Unsigned(n, half) = n
         /\ Unsigned(-half, half) = half
         /\ \A n \in -half..(half - 1) : Signed(n, half) = n
         /\ Signed(half, half) = -half
<1> DEFINE s == 2 * half
<1>1. s \in Nat /\ s > 0 /\ half < s /\ half + half = s
  OBVIOUS
<1> HIDE DEF s
<1>2. ASSUME NEW n \in 0..(s - 1) PROVE n % s = n
  BY <1>1, Wraps
<1>3. s % s = 0
  BY <1>1, Wraps
<1>4. (-half) % s = half
  <2>1. (-half) % s \in 0..(s - 1) /\ -half = s * ((-half) \div s) + ((-half) % s)
        /\ (-half) \div s \in Int
    BY <1>1
  <2> DEFINE q == (-half) \div s
             m == (-half) % s
  <2>2. q \in Int /\ m \in 0..(s - 1) /\ -half = s * q + m
    BY <2>1
  <2> HIDE DEF q, m
  <2>3. q = -1
    BY <1>1, <2>2
  <2> QED BY <1>1, <2>2, <2>3 DEF m
<1>5. ASSUME NEW n \in -half..(half - 1) PROVE ((n + half) % s) - half = n
  <2>1. n + half \in 0..(s - 1)
    BY <1>1
  <2>2. (n + half) % s = n + half
    BY <1>2, <2>1
  <2> QED BY <2>2
<1>6. ((half + half) % s) - half = -half
  BY <1>1, <1>3
<1> QED BY <1>2, <1>4, <1>5, <1>6 DEF s, Unsigned, Signed

(* A number is read as it was, however wide the handler it was written by. *)
Integers64 == -Int64Half..(Int64Half - 1)
HalfOf(t) == IF t = "Int64" THEN Int64Half ELSE IntHalf
Digits(i, half) == Unsigned(IF i < 0 THEN Signed(-i, half) ELSE i, half)

LEMMA NumberIsKept ==
  ASSUME NEW n \in Integers64
  PROVE  \E t \in {"Int", "Uint", "Int64"}, i \in Int, m \in Int,
            u \in {"Int", "Uint", "Int64", "Uint64"} :
           /\ NumberEvent(n) = <<t, i>> /\ Digits(i, HalfOf(t)) = m
           /\ IntegerEvent(i < 0, m) = <<u, n>>
<1> DEFINE h == IntHalf
           l == Int64Half
<1>1. /\ h \in Nat /\ h > 0 /\ l \in Nat /\ l > 0 /\ l >= 2 * h /\ n \in -l..(l - 1)
  BY WidthsAssumption DEF Integers64
<1>2. /\ \A k \in 0..(2 * h - 1) : Unsigned(k, h) = k
      /\ Unsigned(-h, h) = h /\ Signed(h, h) = -h
      /\ \A k \in -h..(h - 1) : Signed(k, h) = k
  BY <1>1, Widths
<1>3. /\ \A k \in 0..(2 * l - 1) : Unsigned(k, l) = k
      /\ Unsigned(-l, l) = l /\ Signed(l, l) = -l
      /\ \A k \in -l..(l - 1) : Signed(k, l) = k
  BY <1>1, Widths
<1> HIDE DEF h, l
<1>7. n \in Int /\ -n \in Int
  BY <1>1
<1>4. CASE n \in -h..(h - 1)
  <2>1. NumberEvent(n) = <<"Int", n>>
    <3>1. "Int" \in Flags(n)
      BY <1>1, <1>4 DEF Flags, h
    <3> QED BY <3>1, <1>2, <1>4 DEF NumberEvent, h
  <2>2. HalfOf("Int") = h
    BY DEF HalfOf, h
  <2>3. CASE n >= 0
    <3>1. Digits(n, h) = n
      BY <1>1, <1>2, <1>4, <2>3 DEF Digits
    <3>2. IntegerEvent(FALSE, n) = <<"Uint", n>>
      BY <1>1, <1>4, <2>3 DEF IntegerEvent, IsWithin, h
    <3>9. (n < 0) = FALSE
      BY <2>3, <1>7
    <3> QED BY <1>7, <2>1, <2>2, <3>1, <3>2, <3>9, Zenon
  <2>4. CASE n < 0
    <3>1. Digits(n, h) = -n
      BY <1>1, <1>2, <1>4, <2>4 DEF Digits
    <3>2. Signed(-Signed(-n, h), h) = n
      BY <1>1, <1>2, <1>4, <2>4
    <3>3. IntegerEvent(TRUE, -n) = <<"Int", n>>
      BY <1>1, <1>4, <2>4, <3>2 DEF IntegerEvent, IsWithin, h
    <3>9. (n < 0) = TRUE
      BY <2>4
    <3> QED BY <1>7, <2>1, <2>2, <3>1, <3>3, <3>9, Zenon
  <2> QED BY <1>1, <2>3, <2>4
<1>5. CASE n \in h..(2 * h - 1)
  <2>1. NumberEvent(n) = <<"Uint", n>>
    <3>1. "Int" \notin Flags(n) /\ "Uint" \in Flags(n)
      BY <1>1, <1>5 DEF Flags, h
    <3>2. Unsigned(n, h) = n
      BY <1>1, <1>2, <1>5
    <3> QED BY <3>1, <3>2 DEF NumberEvent, h
  <2>2. HalfOf("Uint") = h
    BY DEF HalfOf, h
  <2>3. Digits(n, h) = n
    BY <1>1, <1>2, <1>5 DEF Digits
  <2>4. IntegerEvent(FALSE, n) = <<"Uint", n>>
    BY <1>1, <1>5 DEF IntegerEvent, IsWithin, h
  <2>5. (n < 0) = FALSE
    BY <1>1, <1>5
  <2> QED BY <1>7, <2>1, <2>2, <2>3, <2>4, <2>5, Zenon
<1>6. CASE n \notin -h..(2 * h - 1)
  <2>1. NumberEvent(n) = <<"Int64", n>>
    <3>1. "Int" \notin Flags(n) /\ "Uint" \notin Flags(n)
      BY <1>1, <1>6 DEF Flags, h
    <3> QED BY <3>1 DEF NumberEvent
  <2>2. HalfOf("Int64") = l
    BY DEF HalfOf, l
  <2>3. CASE n >= 0
    <3>1. Digits(n, l) = n
      BY <1>1, <1>3, <2>3 DEF Digits
    <3>2. IntegerEvent(FALSE, n) = <<"Uint64", n>>
      BY <1>1, <1>6, <2>3 DEF IntegerEvent, IsWithin, h, l
    <3>9. (n < 0) = FALSE
      BY <2>3, <1>7
    <3> QED BY <1>7, <2>1, <2>2, <3>1, <3>2, <3>9, Zenon
  <2>4. CASE n < 0
    <3>1. Digits(n, l) = -n
      BY <1>1, <1>3, <2>4 DEF Digits
    <3>2. IntegerEvent(TRUE, -n) = <<"Int64", n>>
      BY <1>1, <1>3, <1>6, <2>4 DEF IntegerEvent, IsWithin, h, l
    <3>9. (n < 0) = TRUE
      BY <2>4
    <3> QED BY <1>7, <2>1, <2>2, <3>1, <3>2, <3>9, Zenon
  <2> QED BY <1>1, <2>3, <2>4
<1> QED BY <1>1, <1>4, <1>5, <1>6

-----------------------------------------------------------------------------
(* The reader follows the writer: it is in the same objects and arrays,    *)
(* has met as many names and values in each, and has built docs.           *)

LevelType == [inArray : BOOLEAN, valueCount : Nat]
Place(levels) ==
  IF levels = <<>> THEN "end" ELSE IF Last(levels).valueCount = 0 THEN "first" ELSE "behind"
Follows(levels, out, docs) ==
  /\ levels \in Seq(LevelType) /\ out \in Seq(Units)
  /\ \E c : Reading(out) = Reader(Place(levels), levels, c, docs)

LEMMA WriterFields ==
  ASSUME NEW levels, NEW out
  PROVE  LET w == Writer(levels, out, TRUE)
         IN w.levels = levels /\ w.out = out /\ w.ok = TRUE
  BY DEF Writer

LEMMA Puts ==
  ASSUME NEW levels, NEW out, NEW units
  PROVE  Put(Writer(levels, out, TRUE), units) = Writer(levels, out \o units, TRUE)
  BY DEF Put, Writer

LEMMA LevelFields ==
  /\ \A a \in BOOLEAN, n \in Nat :
       Level(a, n) \in LevelType /\ Level(a, n).inArray = a /\ Level(a, n).valueCount = n
  /\ \A l \in LevelType :
       l = Level(l.inArray, l.valueCount) /\ l.inArray \in BOOLEAN /\ l.valueCount \in Nat
  BY DEF Level, LevelType

LEMMA CountedLevels ==
  ASSUME NEW levels \in Seq(LevelType), levels # <<>>
  PROVE  LET cl == Counted(levels)
             n == Len(levels)
         IN /\ n \in Nat /\ n > 0 /\ cl \in Seq(LevelType) /\ Len(cl) = n /\ cl # <<>>
            /\ \A i \in 1..(n - 1) : cl[i] = levels[i]
            /\ cl[n] = Level(levels[n].inArray, levels[n].valueCount + 1)
            /\ Last(cl) = cl[n] /\ Last(levels) = levels[n]
            /\ Last(levels) \in LevelType /\ Place(cl) = "behind"
<1> DEFINE n == Len(levels)
           e == Level(levels[n].inArray, levels[n].valueCount + 1)
           cl == Counted(levels)
<1>1. n \in Nat /\ n > 0 /\ n \in 1..n /\ levels[n] \in LevelType
  BY EmptySeq, ElementOfSeq
<1>2. e \in LevelType /\ e.valueCount = levels[n].valueCount + 1 /\ levels[n].valueCount \in Nat
  <2> DEFINE l == levels[n]
  <2> HIDE DEF l
  <2>1. l \in LevelType
    BY <1>1 DEF l
  <2>2. l.inArray \in BOOLEAN /\ l.valueCount \in Nat /\ l.valueCount + 1 \in Nat
    BY <2>1, LevelFields
  <2>3. /\ Level(l.inArray, l.valueCount + 1) \in LevelType
        /\ Level(l.inArray, l.valueCount + 1).valueCount = l.valueCount + 1
    BY <2>2, LevelFields
  <2> QED BY <2>2, <2>3 DEF l
<1>3. cl = [levels EXCEPT ![n] = e]
  BY DEF Counted
<1> HIDE DEF e, cl
<1>4. /\ cl \in Seq(LevelType) /\ Len(cl) = n
      /\ \A j \in 1..n : cl[j] = IF j = n THEN e ELSE levels[j]
  BY <1>1, <1>2, <1>3, ExceptSeq
<1> HIDE DEF n
<1>5. cl # <<>> /\ cl[n] = e /\ \A i \in 1..(n - 1) : cl[i] = levels[i]
  BY <1>1, <1>4
<1>6. Last(cl) = cl[n] /\ Last(levels) = levels[n]
  BY <1>4 DEF Last, n
<1>7. Place(cl) = "behind"
  BY <1>2, <1>5, <1>6 DEF Place
<1> QED BY <1>1, <1>4, <1>5, <1>6, <1>7 DEF n, e, cl

LEMMA Builds ==
  ASSUME NEW docs
  PROVE  /\ \A s : Build(docs, <<"String", s>>) = Append(docs, SetString(s))
         /\ \A t \in {"Int", "Uint", "Int64", "Uint64"} : \A n :
              Build(docs, <<t, n>>) = Append(docs, SetInt64(n))
         /\ Build(docs, <<"StartObject", 0>>) = Append(docs, SetObject)
         /\ Build(docs, <<"StartArray", 0>>) = Append(docs, SetArray)
<1>1. \A s : Build(docs, <<"String", s>>) = Append(docs, SetString(s))
  BY DEF Build
<1>2. \A t \in {"Int", "Uint", "Int64", "Uint64"} : \A n :
        Build(docs, <<t, n>>) = Append(docs, SetInt64(n))
  BY DEF Build
<1>3. /\ Build(docs, <<"StartObject", 0>>) = Append(docs, SetObject)
      /\ Build(docs, <<"StartArray", 0>>) = Append(docs, SetArray)
  BY DEF Build
<1> QED BY <1>1, <1>2, <1>3

(* What the reader does outside strings.                                   *)
LEMMA BetweenSteps ==
  ASSUME NEW r, NEW u, u # Lit("NL")
  PROVE  /\ r.at = "root" => Read(r, u) = ReadRoot(r, u)
         /\ r.at = "first" => Read(r, u) = ReadFirst(r, u)
         /\ r.at = "item" => Read(r, u) = ReadItem(r, u)
         /\ r.at = "behind" => Read(r, u) = ReadBehind(r, u)
<1>1. /\ r.at = "root" => ReadBetween(r, u) = ReadRoot(r, u)
      /\ r.at = "first" => ReadBetween(r, u) = ReadFirst(r, u)
      /\ r.at = "item" => ReadBetween(r, u) = ReadItem(r, u)
      /\ r.at = "behind" => ReadBetween(r, u) = ReadBehind(r, u)
  BY DEF ReadBetween
<1>2. r.at \in {"root", "first", "item", "behind"} => Read(r, u) = ReadBetween(r, u)
  BY DEF Read
<1> QED BY <1>1, <1>2

(* What it does where an item may stand.                                   *)
LEMMA ItemStep ==
  ASSUME NEW r, r.at = "first" \/ r.at = "item", NEW u,
         u # Lit("NL"), u # Lit("endArray"), u # Lit("endObject"),
         IsName(Last(r.open)) => u = Lit("quote")
  PROVE  Read(r, u) = ReadValue(r, u)
<1>1. ReadItem(r, u) = ReadValue(r, u)
  BY DEF ReadItem
<1>2. ReadFirst(r, u) = ReadItem(r, u)
  BY DEF ReadFirst, IsClosing
<1> QED BY <1>1, <1>2, BetweenSteps

(* ObjectsOf and arrays differ in their brackets, and the events in names.   *)
StartOf(a) == IF a THEN "StartArray" ELSE "StartObject"
EndOf(a) == IF a THEN "EndArray" ELSE "EndObject"
Kind(a) == IF a THEN "array" ELSE "object"
Bracket(a) == Lit(IF a THEN "beginArray" ELSE "beginObject")
Closing(a) == Lit(IF a THEN "endArray" ELSE "endObject")
Shell(a) == IF a THEN SetArray ELSE SetObject

LEMMA QuoteOpens ==
  ASSUME NEW r
  PROVE  ReadValue(r, Lit("quote")) = Reader("string", r.open, <<>>, r.docs)
  BY LitsDiffer DEF ReadValue

LEMMA BracketOpens ==
  ASSUME NEW r, NEW a \in BOOLEAN
  PROVE  ReadValue(r, Bracket(a)) = Opens(r, a)
<1>1. ReadValue(r, Lit("beginObject")) = Opens(r, FALSE)
  BY LitsDiffer DEF ReadValue
<1>2. ReadValue(r, Lit("beginArray")) = Opens(r, TRUE)
  BY LitsDiffer DEF ReadValue
<1> QED BY <1>1, <1>2 DEF Bracket

LEMMA NumberStep ==
  ASSUME NEW r, NEW b, NEW m
  PROVE  ReadValue(r, Num(b, m)) = Item(r, IntegerEvent(b, m))
<1>1. ReadValue(r, Num(b, m)) = ReadNumber(r, Num(b, m))
  BY LitsDiffer DEF ReadValue
<1>2. Num(b, m)[1] = "number" /\ Num(b, m)[2][1] = b /\ Num(b, m)[2][2] = m
  BY DEF Num
<1> QED BY <1>1, <1>2 DEF ReadNumber

(* What the writer puts in front of a name or a value.                     *)
LEMMA PrefixFollows ==
  ASSUME NEW levels, NEW out, NEW docs, Follows(levels, out, docs), levels # <<>>
  PROVE  LET l == Last(levels)
             o == out \o Separator(l)
         IN /\ o \in Seq(Units)
            /\ \E at \in {"first", "item"} : \E c : Reading(o) = Reader(at, levels, c, docs)
            /\ \A kind : (IsName(l) => kind = "string")
                 => Prefix(Writer(levels, out, TRUE), kind) = Writer(Counted(levels), o, TRUE)
<1> DEFINE l == Last(levels)
           sep == Separator(l)
           o == out \o sep
<1>1. PICK c : Reading(out) = Reader(Place(levels), levels, c, docs)
  BY DEF Follows
<1>2. /\ out \in Seq(Units) /\ levels \in Seq(LevelType)
      /\ l.inArray \in BOOLEAN /\ l.valueCount \in Nat
  <2>1. l \in LevelType
    BY CountedLevels DEF Follows
  <2> HIDE DEF l
  <2> QED BY <2>1 DEF Follows, LevelType
<1>3. ASSUME NEW kind, IsName(l) => kind = "string"
      PROVE  Prefix(Writer(levels, out, TRUE), kind) = Writer(Counted(levels), o, TRUE)
  <2> DEFINE w == Writer(levels, out, TRUE)
  <2>1. w.levels = levels /\ w.out = out /\ w.ok = TRUE
    BY WriterFields
  <2> HIDE DEF w
  <2>2. Prefix(w, kind) = Writer(Counted(levels), out \o Separator(Last(levels)),
                                 TRUE /\ (IsName(Last(levels)) => kind = "string"))
    BY <2>1 DEF Prefix
  <2>3. (TRUE /\ (IsName(Last(levels)) => kind = "string")) = TRUE
    BY <1>3
  <2> QED BY <2>2, <2>3 DEF w
<1> DEFINE Reads == /\ o \in Seq(Units)
                    /\ \E at \in {"first", "item"} : \E x : Reading(o) = Reader(at, levels, x, docs)
<1>4. ASSUME l.valueCount = 0 PROVE Reads
  <2>1. sep = <<>> /\ Place(levels) = "first"
    BY <1>4 DEF Separator, Place
  <2>2. o = out
    BY <1>2, <2>1, ConcatEmptySeq
  <2>3. Reading(o) = Reader("first", levels, c, docs)
    BY <1>1, <2>1, <2>2, Zenon
  <2> HIDE DEF o
  <2> QED BY <1>2, <2>2, <2>3
<1>5. ASSUME l.valueCount # 0 PROVE Reads
  <2> DEFINE r == Reader(Place(levels), levels, c, docs)
             mark == IF ~l.inArray /\ ~IsName(l) THEN "colon" ELSE "comma"
  <2>1. sep = <<Lit(mark)>> /\ Place(levels) = "behind"
    BY <1>2, <1>5 DEF Separator, Place
  <2>2. r.at = "behind" /\ r.open = levels /\ Goes(r, "item") = Reader("item", levels, c, docs)
    <3>1. r.at = Place(levels) /\ r.open = levels /\ r.chars = c /\ r.docs = docs
      BY ReaderFields
    <3> HIDE DEF r
    <3> QED BY <2>1, <3>1 DEF Goes
  <2>3. mark \in {"comma", "colon"}
    OBVIOUS
  <2>4. Lit(mark) \in Units /\ Lit(mark) # Lit("NL")
    BY <2>3, MarksAreChars, LitsDiffer DEF Marks
  <2>5. ReadBehind(r, Lit(mark)) = Goes(r, "item")
    <3> HIDE DEF r
    <3> DEFINE named == ~Last(r.open).inArray /\ ~IsName(Last(r.open))
    <3>1. mark = IF named THEN "colon" ELSE "comma"
      BY <2>2
    <3>2. ~IsClosing(r, Lit(mark))
      <4> HIDE DEF mark
      <4> QED BY <2>3, LitsDiffer DEF IsClosing
    <3> HIDE DEF mark
    <3> QED BY <3>1, <3>2 DEF ReadBehind
  <2> HIDE DEF r, mark
  <2>6. Read(r, Lit(mark)) = Reader("item", levels, c, docs)
    BY <2>2, <2>4, <2>5, BetweenSteps
  <2>7. o \in Seq(Units) /\ Reading(o) = Read(Reading(out), Lit(mark))
    <3>1. out \o <<Lit(mark)>> \in Seq(Units)
          /\ Reading(out \o <<Lit(mark)>>) = Read(Reading(out), Lit(mark))
      BY <1>2, <2>4, ReadsOne
    <3> HIDE DEF sep
    <3> QED BY <2>1, <3>1
  <2> HIDE DEF o
  <2>8. Reading(o) = Reader("item", levels, c, docs)
    BY <1>1, <2>6, <2>7 DEF r
  <2> QED BY <2>7, <2>8
<1>6. Reads
  <2> HIDE DEF Reads
  <2> QED BY <1>4, <1>5
<1> QED BY <1>3, <1>6

(* A string, which may be a name.                                          *)
LEMMA StringFollows ==
  ASSUME NEW levels, NEW out, NEW docs, Follows(levels, out, docs), levels # <<>>,
         NEW s \in Seq(Chars)
  PROVE  \E o : /\ Handle(Writer(levels, out, TRUE), <<"String", s>>)
                      = Writer(Counted(levels), o, TRUE)
               /\ Follows(Counted(levels), o, Append(docs, SetString(s)))
<1> DEFINE p == out \o Separator(Last(levels))
           o == p \o WriteString(s)
<1>1. p \in Seq(Units)
      /\ Prefix(Writer(levels, out, TRUE), "string") = Writer(Counted(levels), p, TRUE)
  BY PrefixFollows
<1>2. PICK at \in {"first", "item"} : \E c : Reading(p) = Reader(at, levels, c, docs)
  BY PrefixFollows
<1>3. PICK c : Reading(p) = Reader(at, levels, c, docs)
  BY <1>2
<1> DEFINE q == Lit("quote")
<1>4. q \in Units /\ q # Lit("NL") /\ q # Lit("endArray") /\ q # Lit("endObject")
  BY MarksAreChars, LitsDiffer DEF Marks
<1> HIDE DEF p
<1> DEFINE r == Reader(at, levels, c, docs)
<1>5. r.at = at /\ r.open = levels /\ r.docs = docs
  BY ReaderFields
<1> HIDE DEF r
<1>6. Read(r, q) = Reader("string", levels, <<>>, docs)
  <2>1. ReadValue(r, q) = Reader("string", levels, <<>>, docs)
    BY <1>5, QuoteOpens
  <2> HIDE DEF q
  <2> QED BY <1>2, <1>4, <1>5, <2>1, ItemStep DEF q
<1>7. Reading(p \o <<q>>) = Reader("string", levels, <<>>, docs)
  BY <1>1, <1>3, <1>4, <1>6, ReadsOne DEF r
<1>8. o \in Seq(Units)
      /\ Reading(o) = Item(Reader("string", levels, s, docs), <<"String", s>>)
  BY <1>1, <1>7, StringIsRead
<1>9. Item(Reader("string", levels, s, docs), <<"String", s>>)
        = Reader("behind", Counted(levels), s, Append(docs, SetString(s)))
  <2> DEFINE z == Reader("string", levels, s, docs)
  <2>1. z.open = levels /\ z.chars = s /\ z.docs = docs
    BY ReaderFields
  <2> HIDE DEF z
  <2>2. Build(docs, <<"String", s>>) = Append(docs, SetString(s))
    BY Builds
  <2>3. Item(z, <<"String", s>>) = Reader("behind", Counted(levels), s, Build(docs, <<"String", s>>))
    BY <2>1, Zenon DEF Item
  <2> QED BY <2>2, <2>3 DEF z
<1>10. Handle(Writer(levels, out, TRUE), <<"String", s>>) = Writer(Counted(levels), o, TRUE)
  <2>1. Handle(Writer(levels, out, TRUE), <<"String", s>>)
          = Put(Prefix(Writer(levels, out, TRUE), "string"), WriteString(s))
    BY DEF Handle
  <2>2. Put(Writer(Counted(levels), p, TRUE), WriteString(s)) = Writer(Counted(levels), o, TRUE)
    BY Puts
  <2> QED BY <1>1, <2>1, <2>2
<1>11. Counted(levels) \in Seq(LevelType) /\ Place(Counted(levels)) = "behind"
  BY CountedLevels DEF Follows
<1> HIDE DEF o
<1>12. Follows(Counted(levels), o, Append(docs, SetString(s)))
  BY <1>8, <1>9, <1>11 DEF Follows
<1> QED BY <1>10, <1>12

LEMMA NumberFollows ==
  ASSUME NEW levels, NEW out, NEW docs, Follows(levels, out, docs), levels # <<>>,
         ~IsName(Last(levels)), NEW n \in Integers64
  PROVE  \E o : /\ Handle(Writer(levels, out, TRUE), NumberEvent(n))
                      = Writer(Counted(levels), o, TRUE)
               /\ Follows(Counted(levels), o, Append(docs, SetInt64(n)))
<1>1. PICK t \in {"Int", "Uint", "Int64"}, i \in Int, m \in Int,
           u \in {"Int", "Uint", "Int64", "Uint64"} :
        /\ NumberEvent(n) = <<t, i>> /\ Digits(i, HalfOf(t)) = m
        /\ IntegerEvent(i < 0, m) = <<u, n>>
  BY NumberIsKept
<1> DEFINE p == out \o Separator(Last(levels))
           minus == i < 0
           d == Num(minus, m)
           o == p \o <<d>>
<1>20. minus \in BOOLEAN /\ IntegerEvent(minus, m) = <<u, n>>
  BY <1>1
<1>2. p \in Seq(Units)
      /\ Prefix(Writer(levels, out, TRUE), "number") = Writer(Counted(levels), p, TRUE)
  BY PrefixFollows
<1>3. PICK at \in {"first", "item"} : \E c : Reading(p) = Reader(at, levels, c, docs)
  BY PrefixFollows
<1>4. PICK c : Reading(p) = Reader(at, levels, c, docs)
  BY <1>3
<1>6. WriteInt(i, HalfOf(t)) = <<d>>
  BY <1>1 DEF WriteInt, Digits
<1> HIDE DEF p, minus
<1>5. d \in Units /\ \A x : d # Lit(x)
  BY <1>1, <1>20, LitsDiffer DEF Units, Num
<1>7. Handle(Writer(levels, out, TRUE), <<t, i>>) = Writer(Counted(levels), o, TRUE)
  <2>1. Handle(Writer(levels, out, TRUE), <<t, i>>)
          = Put(Prefix(Writer(levels, out, TRUE), "number"), WriteInt(i, HalfOf(t)))
    <3>1. CASE t = "Int64"
      BY <3>1 DEF Handle, HalfOf
    <3>2. CASE t \in {"Int", "Uint"}
      BY <3>2 DEF Handle, HalfOf
    <3> QED BY <1>1, <3>1, <3>2
  <2>2. Put(Writer(Counted(levels), p, TRUE), <<d>>) = Writer(Counted(levels), o, TRUE)
    BY Puts
  <2> HIDE DEF d
  <2> QED BY <1>2, <1>6, <2>1, <2>2
<1> DEFINE r == Reader(at, levels, c, docs)
<1>14. r.at = at /\ r.open = levels /\ r.chars = c /\ r.docs = docs
  BY ReaderFields
<1> HIDE DEF r
<1>8. ReadValue(r, d) = Item(r, <<u, n>>)
  <2>1. ReadValue(r, d) = Item(r, IntegerEvent(minus, m))
    BY NumberStep
  <2> QED BY <1>20, <2>1
<1> HIDE DEF d
<1>9. Read(r, d) = ReadValue(r, d)
  BY <1>3, <1>5, <1>14, ItemStep
<1>10. Item(r, <<u, n>>) = Reader("behind", Counted(levels), c, Append(docs, SetInt64(n)))
  <2>1. Build(docs, <<u, n>>) = Append(docs, SetInt64(n))
    BY <1>1, Builds
  <2>2. Item(r, <<u, n>>) = Reader("behind", Counted(levels), c, Build(docs, <<u, n>>))
    BY <1>14, Zenon DEF Item
  <2> QED BY <2>1, <2>2
<1>11. o \in Seq(Units) /\ Reading(o) = Read(Reading(p), d)
  BY <1>2, <1>5, ReadsOne
<1>12. Counted(levels) \in Seq(LevelType) /\ Place(Counted(levels)) = "behind"
  BY CountedLevels DEF Follows
<1> HIDE DEF o
<1>13. Follows(Counted(levels), o, Append(docs, SetInt64(n)))
  <2>1. Reading(o) = Reader("behind", Counted(levels), c, Append(docs, SetInt64(n)))
    BY <1>4, <1>8, <1>9, <1>10, <1>11, Zenon DEF r
  <2> QED BY <1>11, <1>12, <2>1 DEF Follows
<1> QED BY <1>1, <1>7, <1>13

(* The start of an object or an array, inside another and at the root.     *)
LEMMA HandlesStart ==
  ASSUME NEW w, NEW a \in BOOLEAN
  PROVE  Handle(w, <<StartOf(a), 0>>) = Put(Push(Prefix(w, Kind(a)), a), <<Bracket(a)>>)
<1>1. CASE a = TRUE
  BY <1>1 DEF Handle, StartOf, Kind, Bracket
<1>2. CASE a = FALSE
  BY <1>2 DEF Handle, StartOf, Kind, Bracket
<1> QED BY <1>1, <1>2

LEMMA Pushes ==
  ASSUME NEW levels, NEW out, NEW a \in BOOLEAN
  PROVE  Push(Writer(levels, out, TRUE), a) = Writer(Append(levels, Level(a, 0)), out, TRUE)
<1> DEFINE w == Writer(levels, out, TRUE)
<1>1. w.levels = levels /\ w.out = out /\ w.ok = TRUE
  BY WriterFields
<1> HIDE DEF w
<1>2. Push(w, a) = Writer(Append(levels, Level(a, 0)), out, TRUE)
  BY <1>1 DEF Push
<1> QED BY <1>2 DEF w

LEMMA BracketsAreUnits ==
  ASSUME NEW a \in BOOLEAN
  PROVE  /\ Bracket(a) \in Units /\ Closing(a) \in Units
         /\ Bracket(a) # Lit("NL") /\ Closing(a) # Lit("NL")
         /\ Bracket(a) # Lit("endArray") /\ Bracket(a) # Lit("endObject")
         /\ Closing(a) # Lit("comma") /\ Closing(a) # Lit("colon")
  BY MarksAreChars, LitsDiffer DEF Marks, Bracket, Closing

LEMMA AppendedLevels ==
  ASSUME NEW levels \in Seq(LevelType), NEW a \in BOOLEAN
  PROVE  LET al == Append(levels, Level(a, 0))
         IN /\ al \in Seq(LevelType) /\ al # <<>> /\ Len(al) = Len(levels) + 1
            /\ Last(al) = Level(a, 0) /\ Place(al) = "first"
            /\ \A i \in 1..Len(levels) : al[i] = levels[i]
            /\ al[Len(al)] = Level(a, 0)
<1> DEFINE al == Append(levels, Level(a, 0))
<1>1. Level(a, 0) \in LevelType /\ Level(a, 0).valueCount = 0 /\ Len(levels) \in Nat
  BY LevelFields
<1>2. /\ al \in Seq(LevelType) /\ al # <<>> /\ Len(al) = Len(levels) + 1
      /\ \A i \in 1..Len(levels) : al[i] = levels[i]
      /\ al[Len(levels) + 1] = Level(a, 0)
  BY <1>1, AppendProperties
<1> HIDE DEF al
<1>3. Last(al) = Level(a, 0)
  BY <1>2 DEF Last
<1> QED BY <1>1, <1>2, <1>3 DEF al, Place

LEMMA StartBuilds ==
  ASSUME NEW docs, NEW a \in BOOLEAN
  PROVE  Build(docs, <<StartOf(a), 0>>) = Append(docs, Shell(a))
  BY Builds DEF StartOf, Shell

LEMMA StartFollows ==
  ASSUME NEW levels, NEW out, NEW docs, Follows(levels, out, docs), levels # <<>>,
         ~IsName(Last(levels)), NEW a \in BOOLEAN
  PROVE  \E o : /\ Handle(Writer(levels, out, TRUE), <<StartOf(a), 0>>)
                      = Writer(Append(Counted(levels), Level(a, 0)), o, TRUE)
               /\ Follows(Append(Counted(levels), Level(a, 0)), o, Append(docs, Shell(a)))
<1> DEFINE p == out \o Separator(Last(levels))
           b == Bracket(a)
           o == p \o <<b>>
           new == Append(Counted(levels), Level(a, 0))
<1>1. p \in Seq(Units)
      /\ Prefix(Writer(levels, out, TRUE), Kind(a)) = Writer(Counted(levels), p, TRUE)
  BY PrefixFollows
<1>2. PICK at \in {"first", "item"} : \E c : Reading(p) = Reader(at, levels, c, docs)
  BY PrefixFollows
<1>3. PICK c : Reading(p) = Reader(at, levels, c, docs)
  BY <1>2
<1>4. /\ b \in Units /\ b # Lit("NL") /\ b # Lit("endArray") /\ b # Lit("endObject")
  BY BracketsAreUnits
<1>5. Handle(Writer(levels, out, TRUE), <<StartOf(a), 0>>) = Writer(new, o, TRUE)
  <2>1. Handle(Writer(levels, out, TRUE), <<StartOf(a), 0>>)
          = Put(Push(Writer(Counted(levels), p, TRUE), a), <<b>>)
    BY <1>1, HandlesStart
  <2>2. Push(Writer(Counted(levels), p, TRUE), a) = Writer(new, p, TRUE)
    BY Pushes
  <2>3. Put(Writer(new, p, TRUE), <<b>>) = Writer(new, o, TRUE)
    BY Puts
  <2> HIDE DEF p, b, o, new
  <2> QED BY <2>1, <2>2, <2>3
<1> DEFINE r == Reader(at, levels, c, docs)
<1>6. r.at = at /\ r.open = levels /\ r.chars = c /\ r.docs = docs
  BY ReaderFields
<1> HIDE DEF r, p
<1>7. ReadValue(r, b) = Opens(r, a)
  BY BracketOpens
<1>8. Opens(r, a) = Reader("first", new, c, Append(docs, Shell(a)))
  <2>1. Build(docs, <<StartOf(a), 0>>) = Append(docs, Shell(a))
    BY StartBuilds
  <2>2. (IF levels = <<>> THEN <<>> ELSE Counted(levels)) = Counted(levels)
    OBVIOUS
  <2> DEFINE d == Build(docs, <<StartOf(a), 0>>)
             cl == IF levels = <<>> THEN <<>> ELSE Counted(levels)
  <2>3. Opens(r, a) = Reader("first", Append(cl, Level(a, 0)), c, d)
    BY <1>6, Zenon DEF Opens, StartOf
  <2> QED BY <2>1, <2>2, <2>3, Zenon
<1> HIDE DEF b
<1>9. Read(r, b) = ReadValue(r, b)
  BY <1>2, <1>4, <1>6, ItemStep
<1>10. o \in Seq(Units) /\ Reading(o) = Read(Reading(p), b)
  BY <1>1, <1>4, ReadsOne
<1>11. new \in Seq(LevelType) /\ Place(new) = "first"
  <2>1. Counted(levels) \in Seq(LevelType)
    BY CountedLevels DEF Follows
  <2> QED BY <2>1, AppendedLevels
<1> HIDE DEF o, new
<1>12. Reading(o) = Reader("first", new, c, Append(docs, Shell(a)))
  BY <1>3, <1>7, <1>8, <1>9, <1>10, Zenon DEF r
<1>13. Follows(new, o, Append(docs, Shell(a)))
  BY <1>10, <1>11, <1>12 DEF Follows
<1> QED BY <1>5, <1>13 DEF new

LEMMA RootFollows ==
  ASSUME NEW a \in BOOLEAN
  PROVE  \E o : /\ Handle(NewWriter, <<StartOf(a), 0>>)
                      = Writer(Append(<<>>, Level(a, 0)), o, TRUE)
               /\ Follows(Append(<<>>, Level(a, 0)), o, Append(<<>>, Shell(a)))
<1> DEFINE none == <<>>
           b == Bracket(a)
           o == none \o <<b>>
           new == Append(none, Level(a, 0))
<1>1. none \in Seq(Units) /\ none \in Seq(LevelType) /\ NewWriter = Writer(none, none, TRUE)
  BY EmptySeq DEF NewWriter
<1>2. Reading(none) = Reader("root", none, none, none)
  BY ReadingStarts DEF Start
<1>3. none = <<>>
  OBVIOUS
<1> HIDE DEF none
<1>4. b \in Units /\ b # Lit("NL")
  BY BracketsAreUnits
<1>5. Handle(NewWriter, <<StartOf(a), 0>>) = Writer(new, o, TRUE)
  <2> DEFINE w == Writer(none, none, TRUE)
  <2>1. w.levels = none /\ w.out = none /\ w.ok = TRUE
    BY WriterFields
  <2> HIDE DEF w
  <2>2. Prefix(w, Kind(a)) = Writer(none, none, TRUE)
    <3>1. Kind(a) \in {"object", "array"}
      BY DEF Kind
    <3>2. (w.ok /\ Kind(a) \in {"object", "array"}) = TRUE
      BY <2>1, <3>1
    <3> QED BY <1>3, <2>1, <3>2 DEF Prefix
  <2>3. Handle(w, <<StartOf(a), 0>>) = Put(Push(Writer(none, none, TRUE), a), <<b>>)
    BY <2>2, HandlesStart
  <2>4. Push(Writer(none, none, TRUE), a) = Writer(new, none, TRUE)
    BY Pushes
  <2>5. Put(Writer(new, none, TRUE), <<b>>) = Writer(new, o, TRUE)
    BY Puts
  <2>6. NewWriter = w
    BY <1>1 DEF w
  <2> HIDE DEF b, o, new
  <2> QED BY <2>3, <2>4, <2>5, <2>6
<1> DEFINE r == Reader("root", none, none, none)
<1>6. r.at = "root" /\ r.open = none /\ r.chars = none /\ r.docs = none
  BY ReaderFields
<1> HIDE DEF r
<1>7. ReadValue(r, b) = Opens(r, a)
  BY BracketOpens
<1>8. Opens(r, a) = Reader("first", new, none, Append(none, Shell(a)))
  <2>1. Build(none, <<StartOf(a), 0>>) = Append(none, Shell(a))
    BY StartBuilds
  <2>2. (IF none = <<>> THEN <<>> ELSE Counted(none)) = none
    BY <1>3
  <2> DEFINE d == Build(none, <<StartOf(a), 0>>)
             cl == IF none = <<>> THEN <<>> ELSE Counted(none)
  <2>3. Opens(r, a) = Reader("first", Append(cl, Level(a, 0)), none, d)
    BY <1>6, Zenon DEF Opens, StartOf
  <2> QED BY <2>1, <2>2, <2>3, Zenon
<1>9. Read(r, b) = ReadValue(r, b)
  <2>1. ReadRoot(r, b) = ReadValue(r, b)
    BY DEF ReadRoot, Bracket
  <2> HIDE DEF b
  <2> QED BY <1>4, <1>6, <2>1, BetweenSteps
<1> HIDE DEF b
<1>10. o \in Seq(Units) /\ Reading(o) = Read(Reading(none), b)
  BY <1>1, <1>4, ReadsOne
<1>11. new \in Seq(LevelType) /\ Place(new) = "first"
  BY <1>1, AppendedLevels
<1> HIDE DEF o, new
<1>12. Reading(o) = Reader("first", new, none, Append(none, Shell(a)))
  BY <1>2, <1>7, <1>8, <1>9, <1>10, Zenon DEF r
<1>13. Follows(new, o, Append(none, Shell(a)))
  BY <1>10, <1>11, <1>12 DEF Follows
<1> QED BY <1>5, <1>13 DEF new, none

(* The end of an object or an array.                                       *)
LEMMA EndFollows ==
  ASSUME NEW levels, NEW out, NEW docs, Follows(levels, out, docs), levels # <<>>, NEW n,
         Last(levels).inArray \/ IsName(Last(levels)),
         Front(levels) = <<>> \/ Last(Front(levels)).valueCount # 0
  PROVE  LET l == Last(levels)
             e == <<EndOf(l.inArray), IF l.inArray THEN l.valueCount ELSE l.valueCount \div 2>>
         IN \E o : /\ Handle(Writer(levels, out, TRUE), <<EndOf(l.inArray), n>>)
                         = Writer(Front(levels), o, TRUE)
                  /\ Follows(Front(levels), o, Build(docs, e))
<1> DEFINE l == Last(levels)
           a == l.inArray
           e == <<EndOf(a), IF a THEN l.valueCount ELSE l.valueCount \div 2>>
           b == Closing(a)
           o == out \o <<b>>
<1>1. PICK c : Reading(out) = Reader(Place(levels), levels, c, docs)
  BY DEF Follows
<1>2. /\ out \in Seq(Units) /\ levels \in Seq(LevelType) /\ l \in LevelType /\ a \in BOOLEAN
      /\ Len(levels) \in Nat /\ Len(levels) > 0
  <2>1. l \in LevelType /\ Len(levels) \in Nat /\ Len(levels) > 0
    BY CountedLevels DEF Follows
  <2> HIDE DEF l
  <2> QED BY <2>1 DEF Follows, LevelType
<1>3. /\ Front(levels) \in Seq(LevelType) /\ Len(Front(levels)) = Len(levels) - 1
  BY <1>2, FrontAndLast
<1> DEFINE r == Reader(Place(levels), levels, c, docs)
<1>4. r.at = Place(levels) /\ r.open = levels /\ r.chars = c /\ r.docs = docs
  BY ReaderFields
<1>5. Place(levels) = "first" \/ Place(levels) = "behind"
  BY DEF Place
<1> HIDE DEF r
<1>6. b \in Units /\ b # Lit("NL") /\ b # Lit("comma") /\ b # Lit("colon")
  BY <1>2, BracketsAreUnits
<1>7. IsClosing(r, b)
  BY <1>4 DEF IsClosing, Closing
<1>8. ReadFirst(r, b) = Closes(r) /\ ReadBehind(r, b) = Closes(r)
  <2>1. ReadFirst(r, b) = Closes(r)
    BY <1>7 DEF ReadFirst
  <2> DEFINE named == ~Last(r.open).inArray /\ ~IsName(Last(r.open))
  <2>2. named = FALSE
    BY <1>4
  <2>3. b # Lit(IF named THEN "colon" ELSE "comma")
    BY <1>6, <2>2
  <2> HIDE DEF b
  <2>4. ReadBehind(r, b) = Closes(r)
    BY <1>7, <2>2, <2>3 DEF ReadBehind
  <2> QED BY <2>1, <2>4
<1>9. Closes(r) = Reader(Place(Front(levels)), Front(levels), c, Build(docs, e))
  <2>1. (IF Len(levels) = 1 THEN "end" ELSE "behind") = Place(Front(levels))
    <3>1. Len(levels) = 1 <=> Front(levels) = <<>>
      <4> DEFINE f == Front(levels)
      <4>1. f \in Seq(LevelType) /\ Len(f) = Len(levels) - 1
        BY <1>3
      <4> HIDE DEF f
      <4>2. f = <<>> <=> Len(f) = 0
        BY <4>1, EmptySeq
      <4> QED BY <1>2, <4>1, <4>2 DEF f
    <3> QED BY <3>1 DEF Place
  <2>2. (IF a THEN <<"EndArray", l.valueCount>> ELSE <<"EndObject", l.valueCount \div 2>>) = e
    BY DEF EndOf
  <2>3. Closes(r) = Reader(IF Len(levels) = 1 THEN "end" ELSE "behind", Front(levels), c,
                      Build(docs, IF a THEN <<"EndArray", l.valueCount>>
                                  ELSE <<"EndObject", l.valueCount \div 2>>))
    BY <1>4, Zenon DEF Closes
  <2> HIDE DEF a, e, l
  <2> QED BY <2>1, <2>2, <2>3, Zenon
<1> DEFINE d == Build(docs, e)
<1>10. Read(r, b) = Reader(Place(Front(levels)), Front(levels), c, d)
  <2> HIDE DEF b, d
  <2>1. Read(r, b) = Closes(r)
    BY <1>4, <1>5, <1>6, <1>8, BetweenSteps
  <2> QED BY <1>9, <2>1 DEF d
<1>11. Handle(Writer(levels, out, TRUE), <<EndOf(a), n>>) = Writer(Front(levels), o, TRUE)
  <2> DEFINE w == Writer(levels, out, TRUE)
  <2>1. w.levels = levels /\ w.out = out /\ w.ok = TRUE
    BY WriterFields
  <2> HIDE DEF w
  <2>2. Pop(w, a) = Writer(Front(levels), out, TRUE)
    <3>1. (w.ok /\ w.levels # <<>> /\ Last(w.levels).inArray = a) = TRUE
      BY <2>1
    <3> QED BY <2>1, <3>1 DEF Pop
  <2> HIDE DEF a, l
  <2>3. Handle(w, <<EndOf(a), n>>) = Put(Pop(w, a), <<b>>)
    <3>1. CASE a = TRUE
      BY <3>1 DEF Handle, EndOf, Closing
    <3>2. CASE a = FALSE
      BY <3>2 DEF Handle, EndOf, Closing
    <3> QED BY <1>2, <3>1, <3>2
  <2>4. Put(Writer(Front(levels), out, TRUE), <<b>>) = Writer(Front(levels), o, TRUE)
    BY Puts
  <2> HIDE DEF b, o
  <2> QED BY <2>2, <2>3, <2>4 DEF w
<1>12. o \in Seq(Units) /\ Reading(o) = Read(Reading(out), b)
  <2> HIDE DEF b
  <2> QED BY <1>2, <1>6, ReadsOne
<1>13. Follows(Front(levels), o, d)
  <2> HIDE DEF b, o, d
  <2>1. Reading(o) = Reader(Place(Front(levels)), Front(levels), c, d)
    BY <1>1, <1>10, <1>12, Zenon DEF r
  <2> QED BY <1>3, <1>12, <2>1 DEF Follows
<1> QED
  <2> HIDE DEF o, d
  <2>1. \E x : /\ Handle(Writer(levels, out, TRUE), <<EndOf(a), n>>) = Writer(Front(levels), x, TRUE)
              /\ Follows(Front(levels), x, d)
    BY <1>11, <1>13
  <2> QED BY <2>1, Zenon DEF d

-----------------------------------------------------------------------------
(* Values.                                                                 *)

Text == Seq(Chars)
Scalars == ({"string"} \X Text) \cup ({"int64"} \X Integers64)
Holding(S) == ({"array"} \X Seq(S)) \cup ({"object"} \X Seq(Text \X S))
Flat == Scalars \cup Holding(Scalars)
Deep == Flat \cup Holding(Flat)
Values == Deep \cup Holding(Deep)

LEMMA HoldingGrows ==
  ASSUME NEW S, NEW T, S \subseteq T
  PROVE  Holding(S) \subseteq Holding(T)
<1>1. Seq(S) \subseteq Seq(T)
  BY SeqMonotonic
<1>2. Text \X S \subseteq Text \X T
  OBVIOUS
<1>3. Seq(Text \X S) \subseteq Seq(Text \X T)
  BY <1>2, SeqMonotonic
<1> QED BY <1>1, <1>3 DEF Holding

LEMMA ValuesHold == Values \subseteq Scalars \cup Holding(Values)
<1>1. Scalars \subseteq Values /\ Flat \subseteq Values /\ Deep \subseteq Values
  BY DEF Flat, Deep, Values
<1>2. /\ Holding(Scalars) \subseteq Holding(Values) /\ Holding(Flat) \subseteq Holding(Values)
      /\ Holding(Deep) \subseteq Holding(Values)
  BY <1>1, HoldingGrows
<1> QED BY <1>2, Zenon DEF Flat, Deep, Values

LEMMA ValueForms ==
  ASSUME NEW v \in Values
  PROVE  \/ v[1] = "string" /\ v[2] \in Text /\ v = SetString(v[2])
         \/ v[1] = "int64" /\ v[2] \in Integers64 /\ v = SetInt64(v[2])
         \/ v[1] = "array" /\ v[2] \in Seq(Values) /\ v = <<"array", v[2]>>
         \/ v[1] = "object" /\ v[2] \in Seq(Text \X Values) /\ v = <<"object", v[2]>>
<1>1. v \in Scalars \/ v \in Holding(Values)
  BY ValuesHold
<1>2. CASE v \in Scalars
  BY <1>2 DEF Scalars, SetString, SetInt64
<1>3. CASE v \in Holding(Values)
  BY <1>3 DEF Holding
<1> QED BY <1>1, <1>2, <1>3

(* The elements of an array, and of an object names and values in turn.    *)
PartCount(v) == IF v[1] = "array" THEN Len(v[2]) ELSE 2 * Len(v[2])
Part(v, j) ==
  IF v[1] = "array" THEN v[2][j]
  ELSE IF j % 2 = 1 THEN SetString(v[2][(j + 1) \div 2][1]) ELSE v[2][j \div 2][2]

LEMMA TopOfStack ==
  ASSUME NEW U, NEW s \in Seq(U), NEW b \in Nat, NEW n \in Nat, b + n = Len(s)
  PROVE  /\ SubSeq(s, b + 1, b + n) \in Seq(U) /\ Len(SubSeq(s, b + 1, b + n)) = n
         /\ \A i \in 1..n : SubSeq(s, b + 1, b + n)[i] = s[b + i]
<1> DEFINE f == b + 1
           l == b + n
<1>1. f \in Int /\ l \in Int /\ f <= l + 1 /\ l - f + 1 = n /\ 1 <= f /\ l = Len(s)
  OBVIOUS
<1>2. (IF f <= l THEN l - f + 1 ELSE 0) = n
  OBVIOUS
<1>3. \A i \in f..l : s[i] \in U
  <2> HIDE DEF f, l
  <2>1. ASSUME NEW i \in f..l PROVE i \in 1..Len(s)
    BY <1>1
  <2> QED BY <2>1, ElementOfSeq
<1>4. \A i \in 1..n : f + i - 1 = b + i
  OBVIOUS
<1> HIDE DEF f, l
<1>5. /\ SubSeq(s, f, l) \in Seq(U)
      /\ Len(SubSeq(s, f, l)) = IF f <= l THEN l - f + 1 ELSE 0
      /\ \A i \in 1..(l - f + 1) : SubSeq(s, f, l)[i] = s[f + i - 1]
  BY <1>1, <1>3, SubSeqProperties
<1>6. /\ SubSeq(s, f, l) \in Seq(U) /\ Len(SubSeq(s, f, l)) = n
      /\ \A i \in 1..n : SubSeq(s, f, l)[i] = s[b + i]
  BY <1>1, <1>2, <1>4, <1>5
<1> QED BY <1>6 DEF f, l

LEMMA ObjectParts ==
  ASSUME NEW v, v[1] = "object", NEW k \in Nat
  PROVE  Part(v, 2 * k - 1) = SetString(v[2][k][1]) /\ Part(v, 2 * k) = v[2][k][2]
<1>1. (2 * k) % 2 = 0 /\ (2 * k) \div 2 = k /\ (2 * k - 1) + 1 = 2 * k
  OBVIOUS
<1>2. (2 * k - 1) % 2 = 1
  OBVIOUS
<1>3. Part(v, 2 * k - 1) = SetString(v[2][((2 * k - 1) + 1) \div 2][1])
  BY <1>2 DEF Part
<1>4. Part(v, 2 * k) = v[2][(2 * k) \div 2][2]
  BY <1>1 DEF Part
<1> QED BY <1>1, <1>3, <1>4

LEMMA EndBuilds ==
  ASSUME NEW docs \in Seq(Values), NEW v \in Values, Compound(v),
         NEW b \in Nat \ {0}, b + PartCount(v) = Len(docs),
         \A j \in 1..PartCount(v) : docs[b + j] = Part(v, j)
  PROVE  Build(docs, <<EndOf(v[1] = "array"), Len(v[2])>>) = Append(SubSeq(docs, 1, b - 1), v)
<1>1. CASE v[1] = "array"
  <2> DEFINE n == Len(v[2])
             top == SubSeq(docs, Len(docs) - n + 1, Len(docs))
             under == SubSeq(docs, 1, Len(docs) - n - 1)
  <2>1. v[2] \in Seq(Values) /\ v = <<"array", v[2]>> /\ n \in Nat
    BY <1>1, ValueForms, LenProperties
  <2>2. Len(docs) = b + n /\ Len(docs) \in Nat /\ \A j \in 1..n : docs[b + j] = v[2][j]
    BY <1>1 DEF PartCount, Part
  <2>3. Len(docs) - n + 1 = b + 1 /\ Len(docs) - n - 1 = b - 1
    BY <2>1, <2>2
  <2>4. top = v[2]
    <3>3. /\ SubSeq(docs, b + 1, b + n) \in Seq(Values) /\ Len(SubSeq(docs, b + 1, b + n)) = n
          /\ \A i \in 1..n : SubSeq(docs, b + 1, b + n)[i] = docs[b + i]
      <4> HIDE DEF n
      <4> QED BY <2>1, <2>2, TopOfStack
    <3> HIDE DEF n
    <3>4. \A i \in 1..n : SubSeq(docs, b + 1, b + n)[i] = v[2][i]
      BY <2>1, <2>2, <3>3
    <3>5. SubSeq(docs, b + 1, b + n) = v[2]
      BY <2>1, <3>3, <3>4, SeqEqual DEF n
    <3> QED BY <2>2, <2>3, <3>5 DEF n
  <2>5. Build(docs, <<"EndArray", n>>) = Append(under, <<"array", top>>)
    BY DEF Build
  <2> QED BY <1>1, <2>1, <2>3, <2>4, <2>5 DEF EndOf
<1>2. CASE v[1] = "object"
  <2> DEFINE n == Len(v[2])
             m == SubSeq(docs, Len(docs) - 2 * n + 1, Len(docs))
             under == SubSeq(docs, 1, Len(docs) - 2 * n - 1)
             made == [k \in 1..n |-> <<m[2 * k - 1][2], m[2 * k]>>]
  <2>1. v[2] \in Seq(Text \X Values) /\ v = <<"object", v[2]>> /\ n \in Nat
    BY <1>2, ValueForms, LenProperties
  <2>2. Len(docs) = b + 2 * n /\ Len(docs) \in Nat /\ \A j \in 1..(2 * n) : docs[b + j] = Part(v, j)
    BY <1>2 DEF PartCount
  <2>3. Len(docs) - 2 * n + 1 = b + 1 /\ Len(docs) - 2 * n - 1 = b - 1
    BY <2>1, <2>2
  <2>4. \A i \in 1..(2 * n) : m[i] = Part(v, i)
    <3> DEFINE z == 2 * n
    <3>0. z \in Nat /\ Len(docs) = b + z /\ \A j \in 1..z : docs[b + j] = Part(v, j)
      BY <2>1, <2>2
    <3>6. m = SubSeq(docs, b + 1, b + z)
      BY <2>2, <2>3
    <3> HIDE DEF z, m
    <3>3. \A i \in 1..z : SubSeq(docs, b + 1, b + z)[i] = docs[b + i]
      BY <3>0, TopOfStack
    <3>4. \A i \in 1..z : SubSeq(docs, b + 1, b + z)[i] = Part(v, i)
      BY <3>0, <3>3
    <3> QED BY <3>4, <3>6 DEF z
  <2>5. \A k \in 1..n : made[k] = v[2][k]
    <3> SUFFICES ASSUME NEW k \in 1..n PROVE made[k] = v[2][k]
      OBVIOUS
    <3>1. k \in Nat /\ 2 * k - 1 \in 1..(2 * n) /\ 2 * k \in 1..(2 * n)
      BY <2>1
    <3>2. m[2 * k - 1] = SetString(v[2][k][1]) /\ m[2 * k] = v[2][k][2]
      BY <1>2, <2>4, <3>1, ObjectParts
    <3>3. made[k] = <<m[2 * k - 1][2], m[2 * k]>>
      OBVIOUS
    <3> HIDE DEF m, made, n
    <3>4. made[k] = <<v[2][k][1], v[2][k][2]>>
      BY <3>2, <3>3 DEF SetString
    <3>5. v[2][k] \in Text \X Values
      BY <2>1, ElementOfSeq DEF n
    <3> QED BY <3>4, <3>5
  <2>6. made = v[2]
    <3> HIDE DEF made
    <3>1. v[2] = [k \in 1..n |-> v[2][k]]
      <4>1. v[2] \in [1..n -> Text \X Values]
        BY <2>1, LenProperties
      <4> QED BY <4>1
    <3>2. made = [k \in 1..n |-> made[k]]
      BY DEF made
    <3> HIDE DEF n
    <3> QED BY <2>5, <3>1, <3>2
  <2>7. Build(docs, <<"EndObject", n>>) = Append(under, <<"object", made>>)
    BY DEF Build
  <2> HIDE DEF made
  <2> QED BY <1>2, <2>1, <2>3, <2>6, <2>7 DEF EndOf
<1> QED BY <1>1, <1>2 DEF Compound

-----------------------------------------------------------------------------
(* The document's stack.  Behind each open object or array there lie the   *)
(* parts of it that are whole: all that were met, but for the one that is  *)
(* open itself.                                                            *)

WholeParts(levels, i) == IF i < Len(levels) THEN levels[i].valueCount - 1 ELSE levels[i].valueCount
Stacked(cs, levels, docs, base) ==
  LET n == Len(levels)
  IN /\ base \in [1..(n + 1) -> Nat \ {0}]
     /\ base[1] = 1 /\ base[n + 1] = Len(docs) + 1
     /\ \A i, k \in 1..(n + 1) : i <= k => base[i] <= base[k]
     /\ \A i \in 1..n :
           WholeParts(levels, i) \in Nat /\ base[i + 1] = base[i] + 1 + WholeParts(levels, i)
     /\ \A i \in 1..n : \A j \in 1..WholeParts(levels, i) :
          docs[base[i] + j] = Part(cs[i].value, j)

LEMMA BasesAreNumbers ==
  ASSUME NEW cs, NEW levels, NEW docs, NEW base, Stacked(cs, levels, docs, base)
  PROVE  \A i \in 1..(Len(levels) + 1) : base[i] \in Nat /\ base[i] >= 1
<1>1. base \in [1..(Len(levels) + 1) -> Nat \ {0}]
  BY DEF Stacked
<1> DEFINE n == Len(levels)
<1> HIDE DEF n
<1>2. \A i \in 1..(n + 1) : base[i] \in Nat \ {0}
  BY <1>1 DEF n
<1> QED BY <1>2 DEF n

(* Where the parts lie.                                                    *)
LEMMA PartsLie ==
  ASSUME NEW levels \in Seq(LevelType), NEW docs \in Seq(Values), NEW cs, NEW base,
         Stacked(cs, levels, docs, base), NEW i \in 1..Len(levels), NEW j \in 1..WholeParts(levels, i)
  PROVE  base[i] + j \in 1..Len(docs) /\ base[i] + j < base[i + 1]
<1> DEFINE n == Len(levels)
           p == WholeParts(levels, i)
<1>1. n \in Nat /\ Len(docs) \in Nat /\ p \in Nat /\ i \in 1..n /\ j \in 1..p
  BY LenProperties DEF Stacked
<1>2. /\ base[i] \in Nat \ {0} /\ base[i + 1] = base[i] + 1 + p /\ base[n + 1] = Len(docs) + 1
      /\ base[i + 1] <= base[n + 1]
  <2>1. /\ base \in [1..(n + 1) -> Nat \ {0}] /\ base[n + 1] = Len(docs) + 1
        /\ \A a, k \in 1..(n + 1) : a <= k => base[a] <= base[k]
        /\ \A k \in 1..n : base[k + 1] = base[k] + 1 + WholeParts(levels, k)
    BY DEF Stacked
  <2> HIDE DEF n
  <2>2. i \in 1..(n + 1) /\ i + 1 \in 1..(n + 1) /\ n + 1 \in 1..(n + 1) /\ i + 1 <= n + 1
    BY <1>1
  <2> QED BY <1>1, <2>1, <2>2
<1> HIDE DEF n, p
<1> QED BY <1>1, <1>2

(* A part is placed on the innermost.                                      *)
LEMMA PartIsPlaced ==
  ASSUME NEW levels \in Seq(LevelType), levels # <<>>, NEW docs \in Seq(Values), NEW x \in Values,
         NEW cs, NEW ds, NEW base, Stacked(cs, levels, docs, base),
         x = Part(cs[Len(levels)].value, levels[Len(levels)].valueCount + 1),
         \A i \in 1..Len(levels) : ds[i].value = cs[i].value
  PROVE  \E b : Stacked(ds, Counted(levels), Append(docs, x), b)
<1> DEFINE n == Len(levels)
           m == levels[n].valueCount
           cl == Counted(levels)
           dx == Append(docs, x)
           b == [i \in 1..(n + 1) |-> IF i = n + 1 THEN base[i] + 1 ELSE base[i]]
<1>1. /\ n \in Nat /\ n > 0 /\ Len(cl) = n /\ \A i \in 1..(n - 1) : cl[i] = levels[i]
      /\ cl[n].valueCount = m + 1 /\ m \in Nat
  <2>1. levels[n] \in LevelType /\ cl[n] = Level(levels[n].inArray, m + 1) /\ cl \in Seq(LevelType)
        /\ n \in Nat /\ n > 0 /\ Len(cl) = n /\ \A i \in 1..(n - 1) : cl[i] = levels[i]
    BY CountedLevels
  <2>2. m \in Nat
    BY <2>1, LevelFields
  <2>3. Level(levels[n].inArray, m + 1).valueCount = m + 1
    BY DEF Level
  <2> HIDE DEF n, m, cl
  <2> QED BY <2>1, <2>2, <2>3
<1>2. /\ Len(docs) \in Nat /\ Len(dx) = Len(docs) + 1 /\ dx[Len(docs) + 1] = x
      /\ \A k \in 1..Len(docs) : dx[k] = docs[k]
  BY AppendProperties, LenProperties
<1>3. /\ base \in [1..(n + 1) -> Nat \ {0}] /\ base[1] = 1 /\ base[n + 1] = Len(docs) + 1
      /\ \A i, k \in 1..(n + 1) : i <= k => base[i] <= base[k]
      /\ \A i \in 1..n :
           WholeParts(levels, i) \in Nat /\ base[i + 1] = base[i] + 1 + WholeParts(levels, i)
      /\ \A i \in 1..n : \A j \in 1..WholeParts(levels, i) :
           docs[base[i] + j] = Part(cs[i].value, j)
  BY DEF Stacked
<1>4. \A i \in 1..n : \A j \in 1..WholeParts(levels, i) : base[i] + j \in 1..Len(docs)
  BY PartsLie
<1>5. /\ WholeParts(levels, n) = m /\ WholeParts(cl, n) = m + 1
      /\ \A i \in 1..(n - 1) : WholeParts(cl, i) = WholeParts(levels, i)
  <2> HIDE DEF m, cl
  <2> QED BY <1>1 DEF WholeParts, m
<1>6. /\ b \in [1..(n + 1) -> Nat \ {0}] /\ b[n + 1] = base[n + 1] + 1
      /\ \A i \in 1..n : b[i] = base[i]
  <2>1. n + 1 \in 1..(n + 1) /\ \A i \in 1..n : i \in 1..(n + 1) /\ i # n + 1
    BY <1>1
  <2>2. \A i \in 1..(n + 1) : base[i] \in Nat \ {0}
    BY <1>3
  <2> HIDE DEF n
  <2> QED BY <2>1, <2>2
<1>7. x = Part(cs[n].value, m + 1) /\ \A i \in 1..n : ds[i].value = cs[i].value
  OBVIOUS
<1> HIDE DEF n, m, cl, dx, b
<1>8. b[1] = 1 /\ b[n + 1] = Len(dx) + 1
  BY <1>1, <1>2, <1>3, <1>6
<1>9. ASSUME NEW i \in 1..(n + 1), NEW k \in 1..(n + 1), i <= k PROVE b[i] <= b[k]
  <2>1. base[i] \in Nat /\ base[k] \in Nat /\ base[i] <= base[k]
    BY <1>3, <1>9
  <2>2. CASE i = n + 1
    <3>1. k = n + 1
      BY <1>1, <1>9, <2>2
    <3> QED BY <2>2, <3>1, <1>6, <2>1
  <2>3. CASE i # n + 1
    <3>1. b[i] = base[i]
      BY <1>1, <1>6, <2>3
    <3>2. b[k] = base[k] \/ b[k] = base[k] + 1
      BY <1>1, <1>6
    <3> QED BY <2>1, <3>1, <3>2
  <2> QED BY <2>2, <2>3
<1>10. \A i \in 1..n : WholeParts(cl, i) \in Nat /\ b[i + 1] = b[i] + 1 + WholeParts(cl, i)
  <2> SUFFICES ASSUME NEW i \in 1..n
               PROVE  WholeParts(cl, i) \in Nat /\ b[i + 1] = b[i] + 1 + WholeParts(cl, i)
    OBVIOUS
  <2>1. CASE i = n
    <3>1. base[n + 1] = base[n] + 1 + m /\ n \in 1..n /\ base[n] \in Nat /\ b[n] = base[n]
      BY <1>1, <1>3, <1>5, <1>6
    <3>2. /\ WholeParts(cl, i) = m + 1 /\ m + 1 \in Nat
          /\ b[i + 1] = base[n + 1] + 1 /\ b[i] = base[n]
      BY <1>1, <1>5, <1>6, <2>1, <3>1
    <3> DEFINE low == base[n]
               high == base[n + 1]
    <3>3. /\ WholeParts(cl, i) = m + 1 /\ m + 1 \in Nat /\ m \in Nat /\ low \in Nat
          /\ b[i + 1] = high + 1 /\ b[i] = low /\ high = low + 1 + m
      BY <1>1, <3>1, <3>2
    <3> HIDE DEF low, high
    <3> QED BY ONLY <3>3
  <2>2. CASE i # n
    <3>1. i \in 1..(n - 1) /\ i + 1 \in 1..n
      BY <1>1, <2>2
    <3> QED BY <1>3, <1>5, <1>6, <3>1
  <2> QED BY <2>1, <2>2
<1>11. ASSUME NEW i \in 1..n, NEW j \in 1..WholeParts(cl, i)
       PROVE  dx[b[i] + j] = Part(ds[i].value, j)
  <2>1. CASE i = n /\ j = m + 1
    <3>1. b[i] + j = Len(docs) + 1
      <4>1. base[n + 1] = base[n] + 1 + m /\ base[n] \in Nat /\ n \in 1..n
        BY <1>1, <1>3, <1>5
      <4> QED BY <1>1, <1>2, <1>3, <1>6, <2>1, <4>1
    <3> QED BY <1>1, <1>2, <1>7, <2>1, <3>1
  <2>2. CASE ~(i = n /\ j = m + 1)
    <3>1. j \in 1..WholeParts(levels, i)
      <4>1. CASE i = n
        BY <1>1, <1>5, <2>2, <4>1
      <4>2. CASE i # n
        BY <1>1, <1>5, <4>2
      <4> QED BY <4>1, <4>2
    <3>2. docs[base[i] + j] = Part(cs[i].value, j) /\ base[i] + j \in 1..Len(docs)
      BY <1>3, <1>4, <3>1
    <3> QED BY <1>2, <1>6, <1>7, <3>2
  <2> QED BY <2>1, <2>2
<1>12. Stacked(ds, cl, dx, b)
  BY <1>1, <1>6, <1>8, <1>9, <1>10, <1>11 DEF Stacked
<1> QED BY <1>12 DEF cl, dx

(* A shell is placed, inside the innermost: it is open.                    *)
LEMMA ShellIsPlaced ==
  ASSUME NEW levels \in Seq(LevelType), levels # <<>>, NEW docs \in Seq(Values), NEW x \in Values,
         NEW cs, NEW ds, NEW base, Stacked(cs, levels, docs, base), NEW a \in BOOLEAN,
         \A i \in 1..Len(levels) : ds[i].value = cs[i].value
  PROVE  \E b : Stacked(ds, Append(Counted(levels), Level(a, 0)), Append(docs, x), b)
<1> DEFINE n == Len(levels)
           m == levels[n].valueCount
           al == Append(Counted(levels), Level(a, 0))
           dx == Append(docs, x)
           b == [i \in 1..(n + 2) |-> IF i = n + 2 THEN base[n + 1] + 1 ELSE base[i]]
<1>1. /\ n \in Nat /\ n > 0 /\ Len(al) = n + 1 /\ \A i \in 1..(n - 1) : al[i] = levels[i]
      /\ al[n].valueCount = m + 1 /\ m \in Nat /\ al[n + 1].valueCount = 0
  <2> DEFINE cl == Counted(levels)
  <2>1. levels[n] \in LevelType /\ cl[n] = Level(levels[n].inArray, m + 1) /\ cl \in Seq(LevelType)
        /\ n \in Nat /\ n > 0 /\ Len(cl) = n /\ \A i \in 1..(n - 1) : cl[i] = levels[i]
    BY CountedLevels
  <2>2. m \in Nat
    BY <2>1, LevelFields
  <2>3. Level(levels[n].inArray, m + 1).valueCount = m + 1 /\ Level(a, 0).valueCount = 0
    BY DEF Level
  <2> HIDE DEF cl
  <2>4. /\ Len(Append(cl, Level(a, 0))) = Len(cl) + 1
        /\ \A i \in 1..Len(cl) : Append(cl, Level(a, 0))[i] = cl[i]
        /\ Append(cl, Level(a, 0))[Len(cl) + 1] = Level(a, 0)
    BY <2>1, AppendedLevels
  <2>5. Len(al) = n + 1 /\ al[n + 1] = Level(a, 0) /\ \A i \in 1..n : al[i] = cl[i]
    <3> HIDE DEF n, m
    <3> QED BY <2>1, <2>4 DEF cl
  <2> HIDE DEF n, m, al
  <2>6. n \in 1..n /\ \A i \in 1..(n - 1) : i \in 1..n
    BY <2>1
  <2> QED BY <2>1, <2>2, <2>3, <2>5, <2>6
<1>2. /\ Len(docs) \in Nat /\ Len(dx) = Len(docs) + 1
      /\ \A k \in 1..Len(docs) : dx[k] = docs[k]
  BY AppendProperties, LenProperties
<1>3. /\ base \in [1..(n + 1) -> Nat \ {0}] /\ base[1] = 1 /\ base[n + 1] = Len(docs) + 1
      /\ \A i, k \in 1..(n + 1) : i <= k => base[i] <= base[k]
      /\ \A i \in 1..n :
           WholeParts(levels, i) \in Nat /\ base[i + 1] = base[i] + 1 + WholeParts(levels, i)
      /\ \A i \in 1..n : \A j \in 1..WholeParts(levels, i) :
           docs[base[i] + j] = Part(cs[i].value, j)
  BY DEF Stacked
<1>4. \A i \in 1..n : \A j \in 1..WholeParts(levels, i) : base[i] + j \in 1..Len(docs)
  BY PartsLie
<1>5. WholeParts(al, n + 1) = 0 /\ \A i \in 1..n : WholeParts(al, i) = WholeParts(levels, i)
  <2> HIDE DEF m, al
  <2>1. WholeParts(al, n + 1) = 0
    BY <1>1 DEF WholeParts
  <2>2. WholeParts(al, n) = m /\ WholeParts(levels, n) = m
    BY <1>1 DEF WholeParts, m
  <2>3. ASSUME NEW i \in 1..(n - 1) PROVE WholeParts(al, i) = WholeParts(levels, i)
    BY <1>1 DEF WholeParts
  <2>4. \A i \in 1..n : i = n \/ i \in 1..(n - 1)
    BY <1>1
  <2> QED BY <2>1, <2>2, <2>3, <2>4
<1>6. /\ b \in [1..(n + 2) -> Nat \ {0}] /\ b[n + 2] = base[n + 1] + 1
      /\ \A i \in 1..(n + 1) : b[i] = base[i]
  <2>1. n + 2 \in 1..(n + 2) /\ \A i \in 1..(n + 1) : i \in 1..(n + 2) /\ i # n + 2
    BY <1>1
  <2>2. /\ \A i \in 1..(n + 2) : i = n + 2 \/ i \in 1..(n + 1)
        /\ n + 1 \in 1..(n + 1)
    <3>1. n \in Nat
      BY <1>1
    <3> HIDE DEF n
    <3> QED BY <3>1
  <2>4. \A i \in 1..(n + 1) : base[i] \in Nat \ {0}
    <3>1. \A i \in 1..(n + 1) : base[i] \in Nat /\ base[i] >= 1
      BY BasesAreNumbers
    <3> HIDE DEF n
    <3> QED BY <3>1
  <2>3. base[n + 1] \in Nat /\ base[n + 1] + 1 \in Nat \ {0}
    BY <2>2, <2>4
  <2> HIDE DEF n
  <2> QED BY <2>1, <2>2, <2>3, <2>4
<1>7. \A i \in 1..n : ds[i].value = cs[i].value
  OBVIOUS
<1>20. \A i \in 1..(n + 1) : base[i] \in Nat
  BY BasesAreNumbers
<1> HIDE DEF n, m, al, dx, b
<1>8. b[1] = 1 /\ b[n + 2] = Len(dx) + 1
  BY <1>1, <1>2, <1>3, <1>6
<1>9. ASSUME NEW i \in 1..(n + 2), NEW k \in 1..(n + 2), i <= k PROVE b[i] <= b[k]
  <2>1. CASE i = n + 2
    <3>1. k = i
      BY <1>1, <1>9, <2>1
    <3> QED BY <1>6, <3>1
  <2>2. CASE i # n + 2 /\ k # n + 2
    <3>1. i \in 1..(n + 1) /\ k \in 1..(n + 1)
      BY <1>1, <2>2
    <3> QED BY <1>3, <1>6, <1>9, <3>1
  <2>3. CASE i # n + 2 /\ k = n + 2
    <3>1. i \in 1..(n + 1) /\ n + 1 \in 1..(n + 1) /\ i <= n + 1
      BY <1>1, <2>3
    <3>2. base[i] <= base[n + 1] /\ base[i] \in Nat /\ base[n + 1] \in Nat
      BY <1>3, <3>1
    <3> QED BY <1>6, <2>3, <3>1, <3>2
  <2> QED BY <2>1, <2>2, <2>3
<1>10. \A i \in 1..(n + 1) : WholeParts(al, i) \in Nat /\ b[i + 1] = b[i] + 1 + WholeParts(al, i)
  <2> SUFFICES ASSUME NEW i \in 1..(n + 1)
               PROVE  WholeParts(al, i) \in Nat /\ b[i + 1] = b[i] + 1 + WholeParts(al, i)
    OBVIOUS
  <2>1. CASE i = n + 1
    <3>1. /\ WholeParts(al, i) = 0 /\ b[i + 1] = base[n + 1] + 1 /\ b[i] = base[n + 1]
          /\ base[n + 1] \in Nat
      BY <1>1, <1>3, <1>5, <1>6, <2>1
    <3> QED BY <3>1
  <2>2. CASE i # n + 1
    <3>1. i \in 1..n /\ i + 1 \in 1..(n + 1)
      BY <1>1, <2>2
    <3> QED BY <1>3, <1>5, <1>6, <3>1
  <2> QED BY <2>1, <2>2
<1>11. ASSUME NEW i \in 1..(n + 1), NEW j \in 1..WholeParts(al, i)
       PROVE  dx[b[i] + j] = Part(ds[i].value, j)
  <2>1. i \in 1..n /\ j \in 1..WholeParts(levels, i)
    <3>1. CASE i = n + 1
      BY <1>5, <3>1
    <3>2. CASE i # n + 1
      <4>1. i \in 1..n
        BY <1>1, <3>2
      <4> QED BY <1>5, <4>1
    <3> QED BY <3>1, <3>2
  <2>2. docs[base[i] + j] = Part(cs[i].value, j) /\ base[i] + j \in 1..Len(docs) /\ b[i] = base[i]
    BY <1>3, <1>4, <1>6, <2>1
  <2> QED BY <1>2, <1>7, <2>1, <2>2
<1>12. Stacked(ds, al, dx, b)
  <2>1. (n + 1) + 1 = n + 2
    BY <1>1
  <2> QED BY <1>1, <1>6, <1>8, <1>9, <1>10, <1>11, <2>1 DEF Stacked
<1> QED BY <1>12 DEF al, dx

(* The innermost is closed: it is a part of the next.                      *)
LEMMA ClosedIsPlaced ==
  ASSUME NEW levels \in Seq(LevelType), NEW docs \in Seq(Values), NEW v \in Values,
         NEW cs, NEW ds, NEW base, Stacked(cs, levels, docs, base), Len(levels) > 1,
         v = Part(cs[Len(levels) - 1].value, levels[Len(levels) - 1].valueCount),
         \A i \in 1..(Len(levels) - 1) : ds[i].value = cs[i].value
  PROVE  LET under == SubSeq(docs, 1, base[Len(levels)] - 1)
         IN \E b : Stacked(ds, Front(levels), Append(under, v), b)
<1> DEFINE n == Len(levels)
           z == n - 1
           m == levels[z].valueCount
           fl == Front(levels)
           under == SubSeq(docs, 1, base[n] - 1)
           dx == Append(under, v)
           b == [i \in 1..n |-> IF i = n THEN base[n] + 1 ELSE base[i]]
<1>1. /\ n \in Nat /\ n > 1 /\ z \in Nat /\ z > 0 /\ n = z + 1
      /\ Len(fl) = z /\ \A i \in 1..z : fl[i] = levels[i]
  <2>1. n \in Nat /\ n > 1 /\ levels # <<>>
    BY LenProperties
  <2> HIDE DEF n
  <2>2. /\ Len(fl) = Len(levels) - 1
        /\ \A k \in 1..(Len(levels) - 1) : fl[k] = levels[k]
    BY <2>1, FrontAndLast
  <2> QED BY <2>1, <2>2 DEF n
<1>3. /\ base \in [1..(n + 1) -> Nat \ {0}] /\ base[1] = 1 /\ base[n + 1] = Len(docs) + 1
      /\ \A i, k \in 1..(n + 1) : i <= k => base[i] <= base[k]
      /\ \A i \in 1..n :
           WholeParts(levels, i) \in Nat /\ base[i + 1] = base[i] + 1 + WholeParts(levels, i)
      /\ \A i \in 1..n : \A j \in 1..WholeParts(levels, i) :
           docs[base[i] + j] = Part(cs[i].value, j)
  BY DEF Stacked
<1>4. \A i \in 1..n : \A j \in 1..WholeParts(levels, i) :
        base[i] + j \in 1..Len(docs) /\ base[i] + j < base[i + 1]
  BY PartsLie
<1>20. \A i \in 1..(n + 1) : base[i] \in Nat /\ base[i] >= 1
  BY BasesAreNumbers
<1>7. v = Part(cs[z].value, m) /\ \A i \in 1..z : ds[i].value = cs[i].value
  OBVIOUS
<1>2. /\ Len(dx) = base[n] /\ dx[base[n]] = v
      /\ \A k \in 1..(base[n] - 1) : dx[k] = docs[k]
  <2> DEFINE p == base[n] - 1
  <2>1. Len(docs) \in Nat /\ p \in Nat /\ 0 + p = p /\ p <= Len(docs) /\ base[n] = p + 1
    <3>1. n \in 1..(n + 1) /\ n + 1 \in 1..(n + 1) /\ n <= n + 1 /\ Len(docs) \in Nat
      BY <1>1, LenProperties
    <3> HIDE DEF n
    <3>2. base[n] <= base[n + 1] /\ base[n] \in Nat /\ base[n] >= 1
      BY <1>3, <1>20, <3>1
    <3> QED BY <1>3, <3>1, <3>2
  <2>2. under = SubSeq(docs, 1, p)
    OBVIOUS
  <2> HIDE DEF p, under, n
  <2>3. under \in Seq(Values) /\ Len(under) = p
    BY <2>1, <2>2, PrefixesGrow
  <2>4. \A i \in 1..p : under[i] = docs[i]
    <3>1. \A i \in 1..p : docs[i] \in Values
      <4>1. \A i \in 1..p : i \in 1..Len(docs)
        BY <2>1
      <4> QED BY <4>1, ElementOfSeq
    <3>2. 1 \in Int /\ p \in Int /\ p - 1 + 1 = p /\ \A i \in 1..p : 1 + i - 1 = i
      BY <2>1
    <3>3. \A i \in 1..(p - 1 + 1) : SubSeq(docs, 1, p)[i] = docs[1 + i - 1]
      BY <3>1, <3>2, SubSeqProperties
    <3> QED BY <2>2, <3>2, <3>3
  <2>5. Len(dx) = p + 1 /\ dx[p + 1] = v /\ \A i \in 1..p : dx[i] = under[i]
    BY <2>3, AppendProperties
  <2> HIDE DEF dx
  <2>6. base[n] - 1 = p
    BY <2>1
  <2> QED BY <2>1, <2>4, <2>5, <2>6
<1>5. /\ WholeParts(fl, z) = m /\ WholeParts(levels, z) = m - 1
      /\ \A i \in 1..(z - 1) : WholeParts(fl, i) = WholeParts(levels, i)
  <2>0. Len(levels) = n
    OBVIOUS
  <2> HIDE DEF fl, n, z
  <2>1. z \in 1..z /\ z < n /\ z # n /\ Len(levels) = n
    BY <1>1, <2>0
  <2>2. WholeParts(fl, z) = m
    BY <1>1, <2>1 DEF WholeParts
  <2>3. WholeParts(levels, z) = m - 1
    BY <2>1 DEF WholeParts
  <2>4. ASSUME NEW i \in 1..(z - 1) PROVE WholeParts(fl, i) = WholeParts(levels, i)
    <3>1. i \in 1..z /\ i < z /\ i < n
      BY <1>1
    <3> QED BY <1>1, <2>1, <3>1 DEF WholeParts
  <2> QED BY <2>2, <2>3, <2>4
<1>6. /\ b \in [1..n -> Nat \ {0}] /\ b[n] = base[n] + 1
      /\ \A i \in 1..z : b[i] = base[i]
  <2> HIDE DEF n, z
  <2>1. n \in 1..n /\ \A i \in 1..z : i \in 1..n /\ i # n
    BY <1>1
  <2>2. \A i \in 1..n : base[i] \in Nat /\ base[i] \in Nat \ {0} /\ base[i] + 1 \in Nat \ {0}
    <3>1. \A i \in 1..n : i \in 1..(n + 1)
      BY <1>1
    <3> QED BY <1>20, <3>1
  <2> QED BY <2>1, <2>2
<1> HIDE DEF n, m, fl, dx, b, under, z
<1>8. b[1] = 1 /\ b[n] = Len(dx) + 1
  BY <1>1, <1>2, <1>3, <1>6
<1>9. ASSUME NEW i \in 1..n, NEW k \in 1..n, i <= k PROVE b[i] <= b[k]
  <2>1. i \in 1..(n + 1) /\ k \in 1..(n + 1)
    BY <1>1
  <2>2. base[i] \in Nat /\ base[k] \in Nat /\ base[i] <= base[k]
    BY <1>3, <1>9, <2>1
  <2>3. CASE i = n
    <3>1. k = i
      BY <1>1, <1>9, <2>3
    <3> QED BY <1>6, <2>2, <2>3, <3>1
  <2>4. CASE i # n
    <3>0. i \in 1..z /\ (k = n \/ k \in 1..z)
      BY ONLY <1>1, <2>4, i \in 1..n, k \in 1..n
    <3>1. b[i] = base[i]
      BY ONLY <1>6, <3>0
    <3>2. b[k] = base[k] \/ b[k] = base[k] + 1
      BY ONLY <1>6, <3>0
    <3> DEFINE bi == base[i]
               bk == base[k]
               lo == b[i]
               hi == b[k]
    <3>3. /\ bi \in Nat /\ bk \in Nat /\ bi <= bk
          /\ lo = bi /\ (hi = bk \/ hi = bk + 1)
      BY <2>2, <3>1, <3>2
    <3> HIDE DEF bi, bk, lo, hi
    <3>4. lo <= hi
      BY ONLY <3>3
    <3> QED BY <3>4 DEF lo, hi
  <2> QED BY <2>3, <2>4
<1>10. ASSUME NEW i \in 1..z PROVE WholeParts(fl, i) \in Nat /\ b[i + 1] = b[i] + 1 + WholeParts(fl, i)
  <2>0. i \in 1..n /\ i \in 1..(n + 1)
    BY <1>1
  <2>1. /\ i \in 1..n /\ WholeParts(levels, i) \in Nat /\ base[i] \in Nat
        /\ base[i + 1] = base[i] + 1 + WholeParts(levels, i)
    BY <1>3, <1>20, <2>0
  <2>2. CASE i = z
    <3>1. /\ WholeParts(fl, i) = m /\ WholeParts(levels, i) = m - 1 /\ b[i] = base[i]
          /\ b[i + 1] = base[i + 1] + 1 /\ m \in Int
      <4>1. m \in Int
        <5>1. levels[z] \in LevelType
          <6>1. z \in 1..Len(levels)
            BY <1>1 DEF n
          <6> QED BY <6>1, ElementOfSeq
        <5>2. levels[z].valueCount \in Nat
          BY <5>1, LevelFields
        <5> QED BY <5>2 DEF m
      <4> QED BY <1>1, <1>5, <1>6, <2>2, <4>1
    <3> QED BY <2>1, <3>1
  <2>3. CASE i # z
    <3>1. i \in 1..(z - 1) /\ i + 1 \in 1..z
      BY <1>1, <2>3
    <3> QED BY <1>5, <1>6, <2>1, <3>1
  <2> QED BY <2>2, <2>3
<1>11. ASSUME NEW i \in 1..z, NEW j \in 1..WholeParts(fl, i)
       PROVE  dx[b[i] + j] = Part(ds[i].value, j)
  <2>1. /\ i \in 1..n /\ WholeParts(levels, i) \in Nat /\ base[i] \in Nat
        /\ base[i + 1] = base[i] + 1 + WholeParts(levels, i) /\ b[i] = base[i]
    BY <1>1, <1>3, <1>6, <1>20
  <2>2. CASE j \in 1..WholeParts(levels, i)
    <3>1. docs[base[i] + j] = Part(cs[i].value, j) /\ base[i] + j \in 1..Len(docs)
          /\ base[i] + j < base[i + 1]
      BY <1>3, <1>4, <2>1, <2>2
    <3>2. i + 1 \in 1..(n + 1) /\ n \in 1..(n + 1) /\ i + 1 <= n
      BY <1>1
    <3>3. base[i + 1] <= base[n] /\ base[i + 1] \in Nat /\ base[n] \in Nat
      BY <1>3, <3>2
    <3>4. base[i] + j \in 1..(base[n] - 1)
      BY <2>1, <3>1, <3>3
    <3> QED BY <1>2, <1>7, <2>1, <3>1, <3>4
  <2>3. CASE j \notin 1..WholeParts(levels, i)
    <3>1. i = z
      <4>1. CASE i # z
        <5>1. i \in 1..(z - 1)
          BY <1>1, <4>1
        <5> QED BY <1>5, <2>3, <5>1
      <4> QED BY <4>1
    <3>2. WholeParts(levels, i) = m - 1 /\ WholeParts(fl, i) = m
      BY <1>5, <3>1
    <3>3. j = WholeParts(levels, i) + 1
      <4> DEFINE pl == WholeParts(levels, i)
                 pf == WholeParts(fl, i)
      <4>1. pl \in Nat /\ j \in 1..pf /\ j \notin 1..pl /\ pl = m - 1 /\ pf = m /\ pf \in Nat
        BY <1>10, <2>1, <2>3, <3>2
      <4> HIDE DEF pl, pf
      <4>2. pf = pl + 1
        BY <4>1
      <4>3. j = pl + 1
        BY <4>1, <4>2
      <4> QED BY <4>3 DEF pl
    <3>4. j = m
      <4>1. WholeParts(fl, i) \in Nat
        BY <1>10
      <4> QED BY <3>2, <3>3, <4>1
    <3>5. b[i] + j = base[n]
      <4> DEFINE pl == WholeParts(levels, i)
                 bi == base[i]
      <4>1. base[n] = bi + 1 + pl /\ n = i + 1 /\ j = pl + 1 /\ b[i] = bi
            /\ pl \in Nat /\ bi \in Nat
        BY <1>1, <2>1, <3>1, <3>3
      <4> HIDE DEF pl, bi
      <4>2. base[n] = bi + j
        BY <4>1
      <4> QED BY <4>1, <4>2
    <3> QED BY <1>2, <1>7, <3>1, <3>4, <3>5
  <2> QED BY <2>2, <2>3
<1>12. Stacked(ds, fl, dx, b)
  <2>1. Len(fl) + 1 = n
    BY <1>1
  <2> QED BY <1>1, <1>6, <1>8, <1>9, <1>10, <1>11, <2>1 DEF Stacked
<1> QED BY <1>12 DEF fl, dx, under, n

-----------------------------------------------------------------------------
(* The document.                                                           *)

Document == Members(copies)
AddressTexts == [ip : Text, error : Text, hasError : BOOLEAN]
ObjectsOf(S) == {"object"} \X Seq(Text \X S)
ArraysOf(S) == {"array"} \X Seq(S)

FieldsType ==
  /\ shared \in BOOLEAN
  /\ type \in Seq(Text) /\ fqdn \in Seq(Text) /\ status \in Seq(Text) /\ error \in Seq(Text)
  /\ errors \in Seq(Text) /\ nsRecords \in Seq(Text)
  /\ counts \in Seq([fqdn : Text, count : Integers64])
  /\ ips \in Seq(AddressTexts) /\ copies \in Seq(AddressTexts)

LEMMA StringsAreText ==
  Strings \subseteq Text /\ Garbage \subseteq Text /\ \A c \in Chars : <<c>> \in Text
<1>1. ASSUME NEW s \in Strings \cup Garbage PROVE s \in Text
  <2> DEFINE C == {s[k] : k \in DOMAIN s}
  <2>1. s \in Seq(C)
    BY StringsAssumption
  <2>2. C \subseteq Chars
    BY DEF Chars, StringChars
  <2> HIDE DEF C
  <2> QED BY <2>1, <2>2, SeqMonotonic DEF Text
<1>2. ASSUME NEW c \in Chars PROVE <<c>> \in Text
  <2> DEFINE none == <<>>
  <2>1. none \in Seq(Chars) /\ <<c>> = Append(none, c)
    BY EmptySeq
  <2> HIDE DEF none
  <2> QED BY <2>1, AppendProperties DEF Text
<1> QED BY <1>1, <1>2

LEMMA MembersAreAdded ==
  ASSUME NEW S, NEW obj \in ObjectsOf(S), NEW c \in Chars, NEW v \in S
  PROVE  AddMember(obj, c, v) \in ObjectsOf(S)
<1>1. obj[2] \in Seq(Text \X S)
  BY DEF ObjectsOf
<1>2. <<<<c>>, v>> \in Text \X S
  BY StringsAreText
<1>3. Append(obj[2], <<<<c>>, v>>) \in Seq(Text \X S)
  <2> DEFINE m == <<<<c>>, v>>
             T == Text \X S
             q == obj[2]
  <2> HIDE DEF m, T, q
  <2>1. m \in T /\ q \in Seq(T)
    BY <1>1, <1>2 DEF m, T, q
  <2>2. Append(q, m) \in Seq(T)
    BY <2>1, AppendProperties
  <2> QED BY <2>2 DEF m, T, q
<1> QED BY <1>3 DEF AddMember, ObjectsOf

LEMMA ElementsArePushed ==
  ASSUME NEW S, NEW arr \in ArraysOf(S), NEW v \in S
  PROVE  PushBack(arr, v) \in ArraysOf(S)
<1>1. arr[2] \in Seq(S)
  BY DEF ArraysOf
<1>2. Append(arr[2], v) \in Seq(S)
  BY <1>1, AppendProperties
<1> QED BY <1>2 DEF PushBack, ArraysOf

LEMMA ListsAreValues ==
  ASSUME NEW S, NEW n \in Nat, NEW f \in [1..n -> S]
  PROVE  <<"array", f>> \in ArraysOf(S)
  BY SeqDef DEF ArraysOf

LEMMA Shells ==
  ASSUME NEW S
  PROVE  SetArray \in ArraysOf(S) /\ SetObject \in ObjectsOf(S)
<1> DEFINE none == <<>>
<1>1. none \in Seq(S) /\ none \in Seq(Text \X S)
  BY EmptySeq
<1>2. SetArray = <<"array", none>> /\ SetObject = <<"object", none>>
  BY DEF SetArray, SetObject
<1> HIDE DEF none
<1> QED BY <1>1, <1>2 DEF ArraysOf, ObjectsOf

(* A string without what follows its first NUL is one still.               *)
LEMMA CutStrings == ASSUME NEW t \in Text PROVE CStr(t) \in Scalars
<1> DEFINE ends == {n \in 1..Len(t) : \A k \in 1..n : t[k] # "NUL"}
<1>1. Len(t) \in Nat /\ \A k \in 1..Len(t) : t[k] \in Chars
  BY LenProperties, ElementOfSeq DEF Text
<1>2. /\ IsFiniteSet(1..Len(t)) /\ Cardinality(1..Len(t)) = Len(t)
      /\ ends \subseteq 1..Len(t)
  BY <1>1, FS_Interval
<1>3. IsFiniteSet(ends) /\ Cardinality(ends) <= Len(t)
  BY <1>2, FS_Subset
<1>4. Cardinality(ends) \in 0..Len(t)
  BY <1>1, <1>3, FS_CardinalityType
<1> DEFINE n == Cardinality(ends)
<1>5. StrLen(t) = n
  BY DEF StrLen
<1> HIDE DEF ends, n
<1>6. SubSeq(t, 1, n) \in Seq(Chars)
  <2>1. n \in Int /\ \A k \in 1..n : t[k] \in Chars
    BY <1>1, <1>4 DEF n
  <2> QED BY <2>1, SubSeqProperties
<1> QED BY <1>5, <1>6 DEF CStr, SetString, Scalars, Text

LEMMA DocumentIsValue ==
  ASSUME FieldsType, NEW read \in Seq(AddressTexts)
  PROVE  /\ Members(read) \in Values
         /\ Members(read)[1] = "object" /\ Compound(Members(read))
<1>1. /\ \A t \in Text : CStr(t) \in Scalars
      /\ \A n \in Integers64 : SetInt64(n) \in Scalars
      /\ Scalars \subseteq Deep /\ ArraysOf(Flat) \subseteq Deep
      /\ ArraysOf(Scalars) \subseteq Flat /\ ObjectsOf(Scalars) \subseteq Flat
      /\ Scalars \subseteq Flat
      /\ ObjectsOf(Deep) \subseteq Values
  BY CutStrings DEF SetInt64, Scalars, Flat, Deep, Values, Holding, ArraysOf, ObjectsOf
<1>2. /\ "type" \in Chars /\ "fqdn" \in Chars /\ "status" \in Chars /\ "error" \in Chars
      /\ "counts" \in Chars /\ "errors" \in Chars /\ "ips" \in Chars /\ "ip" \in Chars
  BY DEF Chars, Names
<1>5. ASSUME NEW obj \in ObjectsOf(Deep), NEW c \in Chars, NEW one \in Seq(Text)
      PROVE  Optional(obj, c, one) \in ObjectsOf(Deep)
  <2>1. CASE one = <<>>
    BY <2>1 DEF Optional
  <2>2. CASE one # <<>>
    <3>1. one[1] \in Text
      <4>1. Len(one) \in Nat \ {0}
        BY <2>2, EmptySeq
      <4>2. 1 \in 1..Len(one)
        BY <4>1
      <4> QED BY <4>2, ElementOfSeq
    <3>2. CStr(one[1]) \in Deep
      BY <1>1, <3>1
    <3>3. AddMember(obj, c, CStr(one[1])) \in ObjectsOf(Deep)
      BY <3>2, MembersAreAdded
    <3> QED BY <2>2, <3>3 DEF Optional
  <2> QED BY <2>1, <2>2
<1> DEFINE one == Optional(Optional(Optional(Optional(SetObject, "type", type),
                    "fqdn", fqdn), "status", status), "error", error)
           two == List(one, "counts", counts, CountElement)
           three == List(two, "errors", errors, CStr)
<1>6. one \in ObjectsOf(Deep)
  <2> DEFINE a == Optional(SetObject, "type", type)
             b == Optional(a, "fqdn", fqdn)
             c == Optional(b, "status", status)
  <2>1. SetObject \in ObjectsOf(Deep)
    BY Shells
  <2>2. a \in ObjectsOf(Deep)
    BY <1>2, <1>5, <2>1 DEF FieldsType
  <2> HIDE DEF a
  <2>3. b \in ObjectsOf(Deep)
    BY <1>2, <1>5, <2>2 DEF FieldsType
  <2> HIDE DEF b
  <2>4. c \in ObjectsOf(Deep)
    BY <1>2, <1>5, <2>3 DEF FieldsType
  <2> HIDE DEF c
  <2>5. Optional(c, "error", error) \in ObjectsOf(Deep)
    BY <1>2, <1>5, <2>4 DEF FieldsType
  <2> QED BY <2>5 DEF a, b, c
<1>7. two \in ObjectsOf(Deep)
  <2> DEFINE f == [k \in DOMAIN counts |-> CountElement(counts[k])]
  <2>1. counts \in Seq([fqdn : Text, count : Integers64])
    BY DEF FieldsType
  <2>2. Len(counts) \in Nat /\ DOMAIN counts = 1..Len(counts)
        /\ \A k \in 1..Len(counts) : counts[k] \in [fqdn : Text, count : Integers64]
    BY <2>1, LenProperties, ElementOfSeq
  <2>3. ASSUME NEW fc \in [fqdn : Text, count : Integers64] PROVE CountElement(fc) \in Flat
    <3>1. CStr(fc.fqdn) \in Scalars /\ SetInt64(fc.count) \in Scalars
      BY <1>1
    <3>2. PushBack(SetArray, CStr(fc.fqdn)) \in ArraysOf(Scalars)
      BY <3>1, Shells, ElementsArePushed
    <3>3. PushBack(PushBack(SetArray, CStr(fc.fqdn)), SetInt64(fc.count)) \in ArraysOf(Scalars)
      BY <3>1, <3>2, ElementsArePushed
    <3> QED BY <1>1, <3>3 DEF CountElement
  <2>4. f \in [1..Len(counts) -> Flat]
    BY <2>2, <2>3
  <2>5. <<"array", f>> \in Deep
    BY <1>1, <2>2, <2>4, ListsAreValues
  <2>6. AddMember(one, "counts", <<"array", f>>) \in ObjectsOf(Deep)
    BY <1>2, <1>6, <2>5, MembersAreAdded
  <2> HIDE DEF one
  <2> QED BY <1>6, <2>6 DEF List
<1>8. three \in ObjectsOf(Deep)
  <2> DEFINE f == [k \in DOMAIN errors |-> CStr(errors[k])]
  <2>1. errors \in Seq(Text)
    BY DEF FieldsType
  <2>2. Len(errors) \in Nat /\ DOMAIN errors = 1..Len(errors)
        /\ \A k \in 1..Len(errors) : errors[k] \in Text
    BY <2>1, LenProperties, ElementOfSeq
  <2>4. f \in [1..Len(errors) -> Flat]
    BY <1>1, <2>2
  <2>5. <<"array", f>> \in Deep
    BY <1>1, <2>2, <2>4, ListsAreValues
  <2> HIDE DEF two
  <2>6. AddMember(two, "errors", <<"array", f>>) \in ObjectsOf(Deep)
    BY <1>2, <1>7, <2>5, MembersAreAdded
  <2> QED BY <1>7, <2>6 DEF List
<1> HIDE DEF three
<1>9. List(three, "ips", read, IpObj) \in ObjectsOf(Deep)
  <2> DEFINE f == [k \in DOMAIN read |-> IpObj(read[k])]
  <2>2. /\ Len(read) \in Nat /\ DOMAIN read = 1..Len(read)
        /\ \A k \in 1..Len(read) : read[k] \in AddressTexts
    BY LenProperties, ElementOfSeq
  <2>3. ASSUME NEW ij \in AddressTexts PROVE IpObj(ij) \in Flat
    <3> DEFINE o == AddMember(SetObject, "ip", CStr(ij.ip))
               p == AddMember(o, "error", CStr(ij.error))
    <3>1. CStr(ij.ip) \in Scalars /\ CStr(ij.error) \in Scalars
      BY <1>1 DEF AddressTexts
    <3>2. o \in ObjectsOf(Scalars)
      BY <1>2, <3>1, Shells, MembersAreAdded
    <3> HIDE DEF o
    <3>3. p \in ObjectsOf(Scalars)
      BY <1>2, <3>1, <3>2, MembersAreAdded
    <3>4. IpObj(ij) = IF ij.hasError THEN p ELSE o
      BY DEF IpObj, o
    <3> HIDE DEF p
    <3> QED BY <1>1, <3>2, <3>3, <3>4
  <2>4. f \in [1..Len(read) -> Flat]
    BY <2>2, <2>3
  <2>5. <<"array", f>> \in Deep
    BY <1>1, <2>2, <2>4, ListsAreValues
  <2>6. AddMember(three, "ips", <<"array", f>>) \in ObjectsOf(Deep)
    BY <1>2, <1>8, <2>5, MembersAreAdded
  <2> QED BY <1>8, <2>6 DEF List
<1> DEFINE d == Members(read)
<1>10. d = List(three, "ips", read, IpObj)
  BY DEF Members, three
<1>11. d \in ObjectsOf(Deep)
  BY <1>9, <1>10
<1> HIDE DEF d
<1>12. d[1] = "object"
  BY <1>11 DEF ObjectsOf
<1>13. d \in Values /\ Compound(d)
  BY <1>1, <1>11, <1>12 DEF Compound
<1> QED BY <1>12, <1>13 DEF d

-----------------------------------------------------------------------------
(* The calls of Accept that are under way.                                 *)

Compounds == {v \in Values : Compound(v)}
CountOf(call) == IF call.value[1] = "array" THEN call.done ELSE 2 * call.done
LevelOf(call) == Level(call.value[1] = "array", CountOf(call))
Calls == [value : Compounds, done : Nat]

(* Each is of the part that the one around it has come to.                 *)
Nested(cs, d) ==
  /\ cs \in Seq(Calls)
  /\ \A i \in 1..Len(cs) : cs[i].done <= Len(cs[i].value[2])
  /\ \A i \in 1..(Len(cs) - 1) :
       cs[i].done # 0 /\ cs[i + 1].value = Part(cs[i].value, CountOf(cs[i]))
  /\ cs # <<>> => cs[1].value = d
Agrees(cs, levels) ==
  Len(levels) = Len(cs) /\ \A i \in 1..Len(cs) : levels[i] = LevelOf(cs[i])

(* What was written reads as what was handed over of the document d.       *)
Written(cs, w, d) ==
  \E levels, out, docs :
    /\ w = Writer(levels, out, TRUE) /\ Follows(levels, out, docs) /\ docs \in Seq(Values)
    /\ Nested(cs, d) /\ Agrees(cs, levels)
    /\ cs = <<>> => docs = <<d>>
    /\ cs # <<>> => \E base : Stacked(cs, levels, docs, base)

JsonInv ==
  /\ FieldsType
  /\ \/ writer = NewWriter /\ calls = <<>>
     \/ type # <<>> /\ copies \in Copies /\ Written(calls, writer, Document)

LEMMA WrittenIsNotNew ==
  ASSUME NEW d, Written(calls, writer, d)
  PROVE  writer # NewWriter
<1>1. SUFFICES ASSUME writer = NewWriter PROVE FALSE
  OBVIOUS
<1>2. PICK levels, out, docs : writer = Writer(levels, out, TRUE) /\ Follows(levels, out, docs)
  BY DEF Written
<1>3. out = <<>>
  <2>1. Writer(levels, out, TRUE).out = out /\ NewWriter.out = <<>>
    BY DEF Writer, NewWriter
  <2> QED BY <1>1, <1>2, <2>1
<1>4. PICK c : Reading(out) = Reader(Place(levels), levels, c, docs)
  BY <1>2 DEF Follows
<1>5. Reading(<<>>).at = "root"
  BY ReadingStarts DEF Start, Reader
<1>6. Reader(Place(levels), levels, c, docs).at = Place(levels)
  BY DEF Reader
<1>7. Place(levels) # "root"
  BY DEF Place
<1> QED BY <1>3, <1>4, <1>5, <1>6, <1>7

LEMMA CallFields ==
  /\ \A v \in Compounds, n \in Nat :
       AcceptCall(v, n) \in Calls /\ AcceptCall(v, n).value = v /\ AcceptCall(v, n).done = n
  /\ \A c \in Calls : c.value \in Compounds /\ c.done \in Nat
  BY DEF AcceptCall, Calls

(* A value without members is handled at once.                             *)
LEMMA ScalarFollows ==
  ASSUME NEW levels, NEW out, NEW docs, Follows(levels, out, docs), levels # <<>>,
         ~IsName(Last(levels)), NEW v \in Values, ~Compound(v)
  PROVE  \E o : /\ Handle(Writer(levels, out, TRUE), ScalarEvent(v))
                      = Writer(Counted(levels), o, TRUE)
               /\ Follows(Counted(levels), o, Append(docs, v))
<1>1. CASE v[1] = "string"
  <2>1. v[2] \in Seq(Chars) /\ v = SetString(v[2])
    BY <1>1, ValueForms DEF Text
  <2>2. ScalarEvent(v) = <<"String", v[2]>>
    BY <1>1 DEF ScalarEvent
  <2> DEFINE s == v[2]
  <2>3. \E o : /\ Handle(Writer(levels, out, TRUE), <<"String", s>>)
                   = Writer(Counted(levels), o, TRUE)
              /\ Follows(Counted(levels), o, Append(docs, SetString(s)))
    <3>1. s \in Seq(Chars)
      BY <2>1
    <3> HIDE DEF s
    <3> QED BY <3>1, StringFollows
  <2> QED BY <2>1, <2>2, <2>3, Zenon
<1>2. CASE v[1] = "int64"
  <2>1. v[2] \in Integers64 /\ v = SetInt64(v[2])
    BY <1>2, ValueForms
  <2>2. ScalarEvent(v) = NumberEvent(v[2])
    BY <1>2 DEF ScalarEvent
  <2> DEFINE s == v[2]
  <2>3. \E o : /\ Handle(Writer(levels, out, TRUE), NumberEvent(s))
                   = Writer(Counted(levels), o, TRUE)
              /\ Follows(Counted(levels), o, Append(docs, SetInt64(s)))
    <3>1. s \in Integers64
      BY <2>1
    <3> HIDE DEF s
    <3> QED BY <3>1, NumberFollows
  <2> QED BY <2>1, <2>2, <2>3, Zenon
<1>3. v[1] = "string" \/ v[1] = "int64"
  BY ValueForms DEF Compound
<1> QED BY <1>1, <1>2, <1>3

(* The call that is the innermost.                                         *)
LEMMA InnermostCall ==
  ASSUME NEW cs \in Seq(Calls), cs # <<>>, NEW c, c = Last(cs)
  PROVE  /\ Len(cs) \in Nat /\ Len(cs) > 0 /\ c = cs[Len(cs)] /\ c \in Calls
         /\ c.value \in Values /\ Compound(c.value) /\ c.done \in Nat
<1>1. /\ Len(cs) \in Nat \ {0} /\ Last(cs) \in Calls /\ Last(cs) = cs[Len(cs)]
  BY FrontAndLast
<1>2. c.value \in Compounds /\ c.done \in Nat
  BY <1>1, CallFields
<1> QED BY <1>1, <1>2 DEF Compounds

(* It comes to one part more.                                              *)
LEMMA OneMoreCall ==
  ASSUME calls \in Seq(Calls), calls # <<>>
  PROVE  /\ OneMore \in Seq(Calls) /\ Len(OneMore) = Len(calls) /\ OneMore # <<>>
         /\ \A i \in 1..(Len(calls) - 1) : OneMore[i] = calls[i]
         /\ OneMore[Len(calls)] = AcceptCall(Call.value, Call.done + 1)
         /\ \A i \in 1..Len(calls) : OneMore[i].value = calls[i].value
<1> DEFINE n == Len(calls)
           c == calls[n]
           e == AcceptCall(c.value, c.done + 1)
           om == OneMore
<1>1. n \in Nat /\ n > 0 /\ Call = c /\ c \in Calls
  BY InnermostCall DEF Call
<1>2. c.value \in Compounds /\ c.done + 1 \in Nat
  <2> HIDE DEF c
  <2>1. c.value \in Compounds /\ c.done \in Nat
    BY <1>1, CallFields
  <2> QED BY <2>1
<1>3. e \in Calls /\ e.value = c.value
  BY <1>2, CallFields
<1>4. om = [calls EXCEPT ![n] = e]
  BY DEF OneMore
<1> HIDE DEF e, om
<1>5. /\ om \in Seq(Calls) /\ Len(om) = n
      /\ \A j \in 1..n : om[j] = IF j = n THEN e ELSE calls[j]
  BY <1>1, <1>3, <1>4, ExceptSeq
<1> HIDE DEF n
<1>6. om # <<>> /\ om[n] = e /\ \A j \in 1..(n - 1) : om[j] = calls[j]
  BY <1>1, <1>5
<1>7. \A j \in 1..n : om[j].value = calls[j].value
  <2>1. \A j \in 1..n : j = n \/ j \in 1..(n - 1)
    BY <1>1
  <2>2. om[n].value = calls[n].value
    BY <1>3, <1>6 DEF c
  <2> QED BY <1>6, <2>1, <2>2
<1> QED BY <1>1, <1>5, <1>6, <1>7 DEF n, e, om

(* A part of the innermost is accepted.                                    *)
LEMMA AcceptWrites ==
  ASSUME NEW levels, NEW out, NEW docs \in Seq(Values), Follows(levels, out, docs),
         NEW d, NEW cs, Nested(cs, d), cs # <<>>, Last(cs).done # 0, levels # <<>>,
         Agrees(cs, Counted(levels)), NEW base, Stacked(cs, levels, docs, base),
         ~IsName(Last(levels)), NEW v \in Values, v = Part(Last(cs).value, CountOf(Last(cs))),
         Accept(cs, Writer(levels, out, TRUE), v)
  PROVE  Written(calls', writer', d)
<1> DEFINE n == Len(cs)
           cl == Counted(levels)
           w == Writer(levels, out, TRUE)
<1>1. /\ cs \in Seq(Calls) /\ n \in Nat /\ n > 0 /\ Last(cs) = cs[n]
      /\ levels \in Seq(LevelType) /\ cl \in Seq(LevelType)
  <2>1. cs \in Seq(Calls) /\ levels \in Seq(LevelType)
    BY DEF Nested, Follows
  <2> HIDE DEF cl
  <2> QED BY <2>1, InnermostCall, CountedLevels DEF cl
<1>2. /\ Len(levels) = n /\ Len(cl) = n /\ \A i \in 1..n : cl[i] = LevelOf(cs[i])
      /\ cl[n] = Level(levels[n].inArray, levels[n].valueCount + 1)
  <2>1. Len(cl) = n /\ \A i \in 1..n : cl[i] = LevelOf(cs[i])
    BY DEF Agrees
  <2>2. /\ Len(cl) = Len(levels)
        /\ cl[Len(levels)]
             = Level(levels[Len(levels)].inArray, levels[Len(levels)].valueCount + 1)
    BY <1>1, CountedLevels
  <2> HIDE DEF cl
  <2> QED BY <2>1, <2>2
<1>3. levels[n].valueCount + 1 = CountOf(cs[n])
  <2>1. cl[n] = LevelOf(cs[n])
    BY <1>1, <1>2
  <2> HIDE DEF n, cl
  <2>2. Level(levels[n].inArray, levels[n].valueCount + 1).valueCount = LevelOf(cs[n]).valueCount
    BY <1>2, <2>1
  <2> QED BY <2>2 DEF Level, LevelOf
<1> HIDE DEF n, cl
<1>4. CASE ~Compound(v)
  <2>1. calls' = cs /\ writer' = Handle(w, ScalarEvent(v))
    BY <1>4 DEF Accept
  <2>2. PICK o : Handle(w, ScalarEvent(v)) = Writer(cl, o, TRUE) /\ Follows(cl, o, Append(docs, v))
    BY <1>4, ScalarFollows DEF cl
  <2>3. PICK b : Stacked(cs, cl, Append(docs, v), b)
    BY <1>1, <1>2, <1>3, PartIsPlaced DEF cl
  <2>4. Append(docs, v) \in Seq(Values)
    BY AppendProperties
  <2>5. Agrees(cs, cl)
    BY DEF cl
  <2> DEFINE ds == Append(docs, v)
  <2> HIDE DEF w, ds
  <2>6. Written(cs, Writer(cl, o, TRUE), d)
    BY <2>2, <2>3, <2>4, <2>5 DEF Written, ds
  <2> QED BY <2>1, <2>2, <2>6
<1>5. CASE Compound(v)
  <2> DEFINE a == v[1] = "array"
             c == AcceptCall(v, 0)
             new == Append(cs, c)
             al == Append(cl, Level(a, 0))
  <2>1. v \in Compounds /\ c \in Calls /\ c.value = v /\ c.done = 0
    BY <1>5, CallFields DEF Compounds
  <2>2. (IF v[1] = "object" THEN "StartObject" ELSE "StartArray") = StartOf(a)
    BY <1>5 DEF Compound, StartOf
  <2>3. calls' = new /\ writer' = Handle(w, <<StartOf(a), 0>>)
    BY <1>5, <2>2 DEF Accept
  <2>4. a \in BOOLEAN
    OBVIOUS
  <2>5. LevelOf(c) = Level(a, 0)
    <3>1. CountOf(c) = 0
      BY <2>1 DEF CountOf
    <3> QED BY <2>1, <3>1 DEF LevelOf
  <2> HIDE DEF a
  <2>6. PICK o : Handle(w, <<StartOf(a), 0>>) = Writer(al, o, TRUE)
               /\ Follows(al, o, Append(docs, Shell(a)))
    BY <2>4, StartFollows DEF cl
  <2>7. Shell(a) \in Values /\ Append(docs, Shell(a)) \in Seq(Values)
    <3>1. Shell(a) \in Values
      BY Shells DEF Shell, Values, Holding, ArraysOf, ObjectsOf
    <3> QED BY <3>1, AppendProperties
  <2>8. /\ new \in Seq(Calls) /\ Len(new) = n + 1 /\ new # <<>> /\ new[n + 1] = c
        /\ \A i \in 1..n : new[i] = cs[i]
    <3> HIDE DEF c
    <3> QED BY <1>1, <2>1, AppendProperties DEF n
  <2>9. PICK b : Stacked(new, al, Append(docs, Shell(a)), b)
    <3>1. \A i \in 1..Len(levels) : new[i].value = cs[i].value
      BY <1>2, <2>8
    <3> HIDE DEF new
    <3> QED BY <1>1, <2>4, <2>7, <3>1, ShellIsPlaced DEF cl
  <2>10. Agrees(new, al)
    <3>1. Len(al) = n + 1 /\ al[n + 1] = Level(a, 0) /\ \A i \in 1..n : al[i] = cl[i]
      BY <1>1, <1>2, <2>4, AppendedLevels
    <3> HIDE DEF al, new, c
    <3>2. \A i \in 1..(n + 1) : i = n + 1 \/ i \in 1..n
      BY <1>1
    <3> QED BY <1>2, <2>5, <2>8, <3>1, <3>2 DEF Agrees
  <2>11. Nested(new, d)
    <3> HIDE DEF new, c
    <3>1. ASSUME NEW i \in 1..(n + 1) PROVE new[i].done <= Len(new[i].value[2])
      <4>1. CASE i = n + 1
        <5>1. Len(v[2]) \in Nat
          BY <1>5, ValueForms, LenProperties DEF Compound
        <5> QED BY <2>1, <2>8, <4>1, <5>1
      <4>2. CASE i # n + 1
        <5>1. i \in 1..n
          BY <1>1, <4>2
        <5> QED BY <2>8, <5>1 DEF Nested, n
      <4> QED BY <4>1, <4>2
    <3>2. ASSUME NEW i \in 1..n
          PROVE  new[i].done # 0 /\ new[i + 1].value = Part(new[i].value, CountOf(new[i]))
      <4>1. CASE i = n
        BY <1>1, <2>1, <2>8, <4>1
      <4>2. CASE i # n
        <5>1. i \in 1..(n - 1) /\ i + 1 \in 1..n
          BY <1>1, <4>2
        <5>2. cs[i].done # 0 /\ cs[i + 1].value = Part(cs[i].value, CountOf(cs[i]))
          BY <5>1 DEF Nested, n
        <5> QED BY <2>8, <5>1, <5>2
      <4> QED BY <4>1, <4>2
    <3>3. new[1].value = d
      <4>1. 1 \in 1..n
        BY <1>1
      <4> QED BY <2>8, <4>1 DEF Nested
    <3>4. (n + 1) - 1 = n
      BY <1>1
    <3> QED BY <2>8, <3>1, <3>2, <3>3, <3>4 DEF Nested
  <2> DEFINE ds == Append(docs, Shell(a))
  <2> HIDE DEF w, ds, al, new
  <2>12. Written(new, Writer(al, o, TRUE), d)
    BY <2>6, <2>7, <2>8, <2>9, <2>10, <2>11 DEF Written, ds
  <2> QED BY <2>3, <2>6, <2>12
<1> QED BY <1>4, <1>5

LEMMA StackedAlike ==
  ASSUME NEW cs, NEW ds, NEW levels, NEW docs, NEW base, Stacked(cs, levels, docs, base),
         \A i \in 1..Len(levels) : ds[i].value = cs[i].value
  PROVE  Stacked(ds, levels, docs, base)
<1> DEFINE n == Len(levels)
           P(xs) == \A i \in 1..n : \A j \in 1..WholeParts(levels, i) :
                      docs[base[i] + j] = Part(xs[i].value, j)
<1>1. P(cs)
  BY DEF Stacked
<1>2. P(ds)
  <2> HIDE DEF n
  <2> QED BY <1>1 DEF n
<1> QED BY <1>2 DEF Stacked

LEMMA OneMoreNested ==
  ASSUME NEW d, Nested(calls, d), calls # <<>>, Call.done < Len(Elements)
  PROVE  Nested(OneMore, d) /\ Last(OneMore) = AcceptCall(Call.value, Call.done + 1)
<1> DEFINE n == Len(calls)
           om == OneMore
           c == Call
           e == AcceptCall(c.value, c.done + 1)
<1>1. /\ om \in Seq(Calls) /\ Len(om) = n /\ om # <<>>
      /\ \A i \in 1..(n - 1) : om[i] = calls[i]
      /\ om[n] = e
      /\ \A i \in 1..n : om[i].value = calls[i].value
  BY OneMoreCall DEF Nested
<1>2. n \in Nat /\ n > 0 /\ c = calls[n] /\ c.value \in Compounds /\ c.done \in Nat
  <2>1. n \in Nat /\ n > 0 /\ c = calls[n] /\ c \in Calls
    BY InnermostCall DEF Nested, Call
  <2> QED BY <2>1, CallFields
<1>3. e.value = c.value /\ e.done = c.done + 1
  BY <1>2, CallFields
<1>4. c.done + 1 <= Len(c.value[2])
  <2>1. c.done < Len(c.value[2])
    BY DEF Elements
  <2>2. Len(c.value[2]) \in Nat
    <3>1. c.value \in Values /\ Compound(c.value)
      BY <1>2 DEF Compounds
    <3> QED BY <3>1, ValueForms, LenProperties DEF Compound
  <2> QED BY <1>2, <2>1, <2>2
<1>5. Last(om) = e
  BY <1>1 DEF Last
<1> HIDE DEF om, e, c, n
<1>6. ASSUME NEW i \in 1..n PROVE om[i].done <= Len(om[i].value[2])
  <2>1. CASE i = n
    BY <1>1, <1>3, <1>4, <2>1
  <2>2. CASE i # n
    <3>1. i \in 1..(n - 1)
      BY <1>2, <2>2
    <3> QED BY <1>1, <3>1 DEF Nested, n
  <2> QED BY <2>1, <2>2
<1>7. ASSUME NEW i \in 1..(n - 1)
      PROVE  om[i].done # 0 /\ om[i + 1].value = Part(om[i].value, CountOf(om[i]))
  <2>1. i + 1 \in 1..n
    BY <1>2
  <2> QED BY <1>1, <2>1 DEF Nested, n
<1>8. om[1].value = d
  <2>1. 1 \in 1..n
    BY <1>2
  <2> QED BY <1>1, <2>1 DEF Nested
<1>9. Nested(om, d)
  BY <1>1, <1>6, <1>7, <1>8 DEF Nested
<1> QED BY <1>5, <1>9 DEF om, e, c

(* The level of the innermost, and what it has come to.                    *)
LEMMA InnermostLevel ==
  ASSUME NEW d, NEW levels, NEW out, NEW docs, Nested(calls, d), calls # <<>>,
         Agrees(calls, levels), Follows(levels, out, docs)
  PROVE  LET n == Len(calls)
         IN /\ n \in Nat /\ n > 0 /\ Len(levels) = n /\ levels # <<>> /\ levels \in Seq(LevelType)
            /\ Last(levels) = levels[n] /\ levels[n] = LevelOf(Call)
            /\ Last(levels).inArray = (Call.value[1] = "array")
            /\ Last(levels).valueCount = CountOf(Call)
            /\ Call = calls[n] /\ Call.value \in Values /\ Compound(Call.value)
            /\ Call.done \in Nat /\ Len(Elements) \in Nat
<1> DEFINE n == Len(calls)
<1>1. /\ n \in Nat /\ n > 0 /\ Call = calls[n] /\ Call.value \in Values /\ Compound(Call.value)
      /\ Call.done \in Nat
  BY InnermostCall DEF Nested, Call
<1>2. Len(Elements) \in Nat
  BY <1>1, ValueForms, LenProperties DEF Compound, Elements
<1> HIDE DEF n
<1>3. Len(levels) = n /\ levels[n] = LevelOf(Call) /\ levels \in Seq(LevelType)
  BY <1>1 DEF Agrees, Follows, n
<1>4. levels # <<>> /\ Last(levels) = levels[n]
  BY <1>1, <1>3, EmptySeq DEF Last
<1>5. LevelOf(Call).inArray = (Call.value[1] = "array") /\ LevelOf(Call).valueCount = CountOf(Call)
  BY DEF LevelOf, Level
<1> QED BY <1>1, <1>2, <1>3, <1>4, <1>5 DEF n

LEMMA ElementWrites ==
  ASSUME NEW d, Written(calls, writer, d), AcceptElement
  PROVE  Written(calls', writer', d)
<1> DEFINE n == Len(calls)
           om == OneMore
           v == Elements[Call.done + 1]
           e == AcceptCall(Call.value, Call.done + 1)
<1>1. /\ calls # <<>> /\ Call.value[1] = "array" /\ Call.done < Len(Elements)
      /\ Accept(om, writer, v)
  BY DEF AcceptElement
<1>2. PICK levels, out, docs :
        /\ writer = Writer(levels, out, TRUE) /\ Follows(levels, out, docs) /\ docs \in Seq(Values)
        /\ Nested(calls, d) /\ Agrees(calls, levels)
        /\ \E base : Stacked(calls, levels, docs, base)
  BY <1>1 DEF Written
<1>3. PICK base : Stacked(calls, levels, docs, base)
  BY <1>2
<1>4. /\ n \in Nat /\ n > 0 /\ Len(levels) = n /\ levels # <<>> /\ levels \in Seq(LevelType)
      /\ Last(levels) = levels[n] /\ Last(levels).inArray = TRUE
      /\ Last(levels).valueCount = Call.done
      /\ Call.value \in Values /\ Call.done \in Nat /\ Len(Elements) \in Nat
  BY <1>1, <1>2, InnermostLevel DEF CountOf
<1>5. v \in Values
  <2>1. Elements \in Seq(Values)
    BY <1>1, <1>4, ValueForms DEF Elements
  <2>2. Call.done + 1 \in 1..Len(Elements)
    BY <1>1, <1>4
  <2> QED BY <2>1, <2>2, ElementOfSeq
<1>6. /\ Len(om) = n /\ om # <<>> /\ om[n] = e
      /\ \A i \in 1..(n - 1) : om[i] = calls[i]
      /\ \A i \in 1..n : om[i].value = calls[i].value
  BY <1>1, <1>2, OneMoreCall DEF Nested
<1>7. Nested(om, d) /\ Last(om) = e
  BY <1>1, <1>2, OneMoreNested
<1>8. e.value = Call.value /\ e.done = Call.done + 1
  BY DEF AcceptCall
<1>9. e.done # 0 /\ CountOf(e) = Call.done + 1 /\ v = Part(e.value, CountOf(e))
  BY <1>1, <1>4, <1>8 DEF CountOf, Part, Elements
<1> HIDE DEF om, v, e, n
<1>10. Agrees(om, Counted(levels))
  <2>1. /\ Len(Counted(levels)) = n /\ \A i \in 1..(n - 1) : Counted(levels)[i] = levels[i]
        /\ Counted(levels)[n] = Level(levels[n].inArray, levels[n].valueCount + 1)
    BY <1>4, CountedLevels
  <2>2. LevelOf(e) = Level(levels[n].inArray, levels[n].valueCount + 1)
    BY <1>1, <1>4, <1>8, <1>9 DEF LevelOf
  <2>3. \A i \in 1..(n - 1) : levels[i] = LevelOf(calls[i])
    <3>1. \A i \in 1..(n - 1) : i \in 1..n
      BY <1>4
    <3> QED BY <1>2, <3>1 DEF Agrees, n
  <2>4. \A i \in 1..n : i = n \/ i \in 1..(n - 1)
    BY <1>4
  <2> QED BY <1>6, <2>1, <2>2, <2>3, <2>4 DEF Agrees
<1>11. Stacked(om, levels, docs, base)
  BY <1>3, <1>4, <1>6, StackedAlike
<1>12. ~IsName(Last(levels))
  BY <1>4 DEF IsName
<1>13. Accept(om, Writer(levels, out, TRUE), v)
  BY <1>1, <1>2
<1> QED BY <1>2, <1>4, <1>5, <1>6, <1>7, <1>9, <1>10, <1>11, <1>12, <1>13, AcceptWrites

LEMMA MemberWrites ==
  ASSUME NEW d, Written(calls, writer, d), AcceptMember
  PROVE  Written(calls', writer', d)
<1> DEFINE n == Len(calls)
           k == Call.done + 1
           om == OneMore
           m == Elements[k]
           v == m[2]
           x == SetString(m[1])
           e == AcceptCall(Call.value, k)
<1>1. /\ calls # <<>> /\ Call.value[1] = "object" /\ Call.done < Len(Elements)
      /\ Accept(om, Handle(writer, <<"String", m[1]>>), v)
  BY DEF AcceptMember
<1>2. PICK levels, out, docs :
        /\ writer = Writer(levels, out, TRUE) /\ Follows(levels, out, docs) /\ docs \in Seq(Values)
        /\ Nested(calls, d) /\ Agrees(calls, levels)
        /\ \E base : Stacked(calls, levels, docs, base)
  BY <1>1 DEF Written
<1>3. PICK base : Stacked(calls, levels, docs, base)
  BY <1>2
<1>4. /\ n \in Nat /\ n > 0 /\ Len(levels) = n /\ levels # <<>> /\ levels \in Seq(LevelType)
      /\ Last(levels) = levels[n] /\ Last(levels).inArray = FALSE
      /\ Last(levels).valueCount = 2 * Call.done /\ Call = calls[n]
      /\ Call.value \in Values /\ Call.done \in Nat /\ Len(Elements) \in Nat
  BY <1>1, <1>2, InnermostLevel DEF CountOf
<1>5. v \in Values /\ m[1] \in Seq(Chars) /\ x \in Values
  <2>1. Elements \in Seq(Text \X Values)
    BY <1>1, <1>4, ValueForms DEF Elements
  <2>2. k \in 1..Len(Elements)
    BY <1>1, <1>4
  <2>3. m \in Text \X Values
    BY <2>1, <2>2, ElementOfSeq
  <2> HIDE DEF m
  <2> QED BY <2>3 DEF Text, SetString, Values, Deep, Flat, Scalars
<1>6. /\ Len(om) = n /\ om # <<>> /\ om[n] = e
      /\ \A i \in 1..(n - 1) : om[i] = calls[i]
      /\ \A i \in 1..n : om[i].value = calls[i].value
  BY <1>1, <1>2, OneMoreCall DEF Nested
<1>7. Nested(om, d) /\ Last(om) = e
  BY <1>1, <1>2, OneMoreNested
<1>8. e.value = Call.value /\ e.done = k
  BY DEF AcceptCall
<1>9. /\ k \in Nat /\ e.done # 0 /\ CountOf(e) = 2 * k /\ 2 * Call.done + 1 = 2 * k - 1
      /\ x = Part(Call.value, 2 * Call.done + 1) /\ v = Part(e.value, CountOf(e))
  <2>1. k \in Nat /\ k # 0 /\ 2 * Call.done + 1 = 2 * k - 1
    BY <1>4
  <2>2. CountOf(e) = 2 * k
    <3> HIDE DEF k, e
    <3> QED BY <1>1, <1>8 DEF CountOf
  <2>3. Part(Call.value, 2 * k - 1) = SetString(Call.value[2][k][1])
        /\ Part(Call.value, 2 * k) = Call.value[2][k][2]
    BY <1>1, <2>1, ObjectParts
  <2> QED BY <1>8, <2>1, <2>2, <2>3 DEF Elements
<1> DEFINE cl == Counted(levels)
           docs1 == Append(docs, x)
<1>10. PICK o : /\ Handle(Writer(levels, out, TRUE), <<"String", m[1]>>) = Writer(cl, o, TRUE)
                /\ Follows(cl, o, docs1)
  <2> HIDE DEF m
  <2> QED BY <1>2, <1>4, <1>5, StringFollows
<1>11. docs1 \in Seq(Values)
  BY <1>2, <1>5, AppendProperties
<1>12. PICK b : Stacked(om, cl, docs1, b)
  <2> HIDE DEF m, om, x
  <2>1. /\ x = Part(calls[n].value, levels[n].valueCount + 1)
        /\ \A i \in 1..Len(levels) : om[i].value = calls[i].value
    BY <1>4, <1>6, <1>9
  <2> HIDE DEF n
  <2> QED BY <1>2, <1>3, <1>4, <1>5, <2>1, PartIsPlaced
<1> HIDE DEF om, m, e, n, x, v, k, docs1, cl
<1>13. /\ cl \in Seq(LevelType) /\ Len(cl) = n /\ cl # <<>> /\ Last(cl) = cl[n]
       /\ \A i \in 1..(n - 1) : cl[i] = levels[i]
       /\ cl[n] = Level(FALSE, 2 * Call.done + 1)
  <2>1. /\ cl \in Seq(LevelType) /\ Len(cl) = n /\ cl # <<>> /\ Last(cl) = cl[n]
        /\ \A i \in 1..(n - 1) : cl[i] = levels[i]
        /\ cl[n] = Level(levels[n].inArray, levels[n].valueCount + 1)
    BY <1>4, CountedLevels DEF cl
  <2>2. levels[n].inArray = FALSE /\ levels[n].valueCount = 2 * Call.done
    BY <1>4
  <2> QED BY <2>1, <2>2
<1>14. Level(FALSE, 2 * Call.done + 1).valueCount = 2 * Call.done + 1
       /\ Level(FALSE, 2 * Call.done + 1).inArray = FALSE
  BY DEF Level
<1>15. ~IsName(Last(cl))
  <2>1. (2 * Call.done + 1) % 2 = 1
    <3> DEFINE z == Call.done
    <3>1. z \in Nat
      BY <1>4
    <3> HIDE DEF z
    <3>2. (2 * z + 1) % 2 = 1
      BY <3>1
    <3> QED BY <3>2 DEF z
  <2>2. Last(cl).valueCount = 2 * Call.done + 1
    BY <1>13, <1>14
  <2>3. Last(cl).valueCount % 2 = 1
    BY <2>1, <2>2
  <2> QED BY <2>3 DEF IsName
<1>16. Agrees(om, Counted(cl))
  <2>1. /\ Len(Counted(cl)) = n /\ \A i \in 1..(n - 1) : Counted(cl)[i] = cl[i]
        /\ Counted(cl)[n] = Level(cl[n].inArray, cl[n].valueCount + 1)
    BY <1>13, CountedLevels
  <2>2. LevelOf(e) = Level(FALSE, 2 * k)
    <3>1. (e.value[1] = "array") = FALSE
      BY <1>1, <1>8
    <3> QED BY <1>9, <3>1 DEF LevelOf
  <2>3. Counted(cl)[n] = Level(FALSE, 2 * k)
    <3>1. (2 * Call.done + 1) + 1 = 2 * k
      BY <1>4 DEF k
    <3>2. cl[n].inArray = FALSE /\ cl[n].valueCount + 1 = 2 * k
      BY <1>13, <1>14, <3>1
    <3> QED BY <2>1, <3>2
  <2>4. \A i \in 1..(n - 1) : levels[i] = LevelOf(calls[i])
    <3>1. \A i \in 1..(n - 1) : i \in 1..n
      BY <1>4
    <3> QED BY <1>2, <3>1 DEF Agrees, n
  <2>5. \A i \in 1..n : i = n \/ i \in 1..(n - 1)
    BY <1>4
  <2> QED BY <1>6, <1>13, <2>1, <2>2, <2>3, <2>4, <2>5 DEF Agrees
<1>17. Accept(om, Writer(cl, o, TRUE), v)
  BY <1>1, <1>2, <1>10
<1> QED BY <1>5, <1>6, <1>7, <1>9, <1>10, <1>11, <1>12, <1>13, <1>15, <1>16, <1>17, AcceptWrites

LEMMA EndWrites ==
  ASSUME NEW d, Written(calls, writer, d), AcceptEnd
  PROVE  Written(calls', writer', d)
<1> DEFINE n == Len(calls)
           v == Call.value
           a == v[1] = "array"
           fc == Front(calls)
<1>1. /\ calls # <<>> /\ Call.done = Len(Elements) /\ calls' = fc
      /\ writer' = Handle(writer,
           <<IF Call.value[1] = "object" THEN "EndObject" ELSE "EndArray", Len(Elements)>>)
  BY DEF AcceptEnd
<1>2. PICK levels, out, docs :
        /\ writer = Writer(levels, out, TRUE) /\ Follows(levels, out, docs) /\ docs \in Seq(Values)
        /\ Nested(calls, d) /\ Agrees(calls, levels)
        /\ \E base : Stacked(calls, levels, docs, base)
  BY <1>1 DEF Written
<1>3. PICK base : Stacked(calls, levels, docs, base)
  BY <1>2
<1> DEFINE l == Last(levels)
           fl == Front(levels)
<1>4. /\ n \in Nat /\ n > 0 /\ Len(levels) = n /\ levels # <<>> /\ levels \in Seq(LevelType)
      /\ l = levels[n] /\ l.inArray = a /\ l.valueCount = PartCount(v)
      /\ v = calls[n].value /\ v \in Values /\ Compound(v) /\ Len(v[2]) \in Nat
  <2>1. /\ n \in Nat /\ n > 0 /\ Len(levels) = n /\ levels # <<>> /\ levels \in Seq(LevelType)
        /\ l = levels[n] /\ l.inArray = a /\ l.valueCount = CountOf(Call)
        /\ Call = calls[n] /\ v \in Values /\ Compound(v) /\ Len(v[2]) \in Nat
    BY <1>1, <1>2, InnermostLevel DEF Elements
  <2>2. CountOf(Call) = PartCount(v)
    BY <1>1 DEF CountOf, PartCount, Elements
  <2> QED BY <2>1, <2>2
<1>5. (IF v[1] = "object" THEN "EndObject" ELSE "EndArray") = EndOf(a)
  BY <1>4 DEF Compound, EndOf
<1>6. writer' = Handle(Writer(levels, out, TRUE), <<EndOf(a), Len(v[2])>>)
  BY <1>1, <1>2, <1>5 DEF Elements
<1>7. l.inArray \/ IsName(l)
  <2>1. CASE v[1] = "array"
    BY <1>4, <2>1
  <2>2. CASE v[1] # "array"
    <3> DEFINE z == Len(v[2])
    <3>1. z \in Nat /\ l.valueCount = 2 * z /\ l.inArray = FALSE
      BY <1>4, <2>2 DEF PartCount
    <3> HIDE DEF z, l
    <3>2. l.valueCount % 2 = 0
      BY <3>1
    <3> QED BY <3>1, <3>2 DEF IsName
  <2> QED BY <2>1, <2>2
<1>8. (IF l.inArray THEN l.valueCount ELSE l.valueCount \div 2) = Len(v[2])
  <2>1. CASE v[1] = "array"
    BY <1>4, <2>1 DEF PartCount
  <2>2. CASE v[1] # "array"
    <3> DEFINE z == Len(v[2])
    <3>1. z \in Nat /\ l.valueCount = 2 * z /\ l.inArray = FALSE
      BY <1>4, <2>2 DEF PartCount
    <3> HIDE DEF z, l
    <3>2. l.valueCount \div 2 = z
      BY <3>1
    <3> QED BY <3>1, <3>2 DEF z
  <2> QED BY <2>1, <2>2
<1>9. /\ fc \in Seq(Calls) /\ Len(fc) = n - 1 /\ \A i \in 1..(n - 1) : fc[i] = calls[i]
      /\ fl \in Seq(LevelType) /\ Len(fl) = n - 1 /\ \A i \in 1..(n - 1) : fl[i] = levels[i]
  <2>1. /\ Front(calls) \in Seq(Calls) /\ Len(Front(calls)) = Len(calls) - 1
        /\ \A i \in 1..(Len(calls) - 1) : Front(calls)[i] = calls[i]
    BY <1>1, <1>2, FrontAndLast DEF Nested
  <2>2. /\ Front(levels) \in Seq(LevelType) /\ Len(Front(levels)) = Len(levels) - 1
        /\ \A i \in 1..(Len(levels) - 1) : Front(levels)[i] = levels[i]
    BY <1>4, FrontAndLast
  <2> QED BY <1>4, <2>1, <2>2
<1>20. n # 1 =>
         /\ n - 1 \in 1..n /\ n - 1 \in 1..(n - 1)
         /\ calls[n - 1].done # 0 /\ v = Part(calls[n - 1].value, CountOf(calls[n - 1]))
         /\ levels[n - 1].valueCount = CountOf(calls[n - 1])
         /\ CountOf(calls[n - 1]) # 0 /\ Last(fl) = levels[n - 1] /\ fl # <<>>
  <2> SUFFICES ASSUME n # 1
               PROVE  /\ n - 1 \in 1..n /\ n - 1 \in 1..(n - 1)
                      /\ calls[n - 1].done # 0 /\ v = Part(calls[n - 1].value, CountOf(calls[n - 1]))
                      /\ levels[n - 1].valueCount = CountOf(calls[n - 1])
                      /\ CountOf(calls[n - 1]) # 0 /\ Last(fl) = levels[n - 1] /\ fl # <<>>
    OBVIOUS
  <2> DEFINE z == n - 1
  <2> HIDE DEF v, fl, l, n
  <2>1. z \in 1..n /\ z \in 1..z /\ z + 1 = n /\ z \in Nat
    BY <1>4
  <2> HIDE DEF z
  <2>2. calls[z].done # 0 /\ calls[z + 1].value = Part(calls[z].value, CountOf(calls[z]))
    BY <1>2, <2>1 DEF Nested, n, z
  <2>3. levels[z] = LevelOf(calls[z]) /\ calls[z] \in Calls
    BY <1>2, <2>1, ElementOfSeq DEF Agrees, Nested, n
  <2>4. LevelOf(calls[z]).valueCount = CountOf(calls[z])
    BY DEF LevelOf, Level
  <2>5. calls[z].done \in Nat
    BY <2>3, CallFields
  <2>6. CountOf(calls[z]) # 0
    BY <2>2, <2>5 DEF CountOf
  <2>7. Len(fl) = z /\ fl[z] = levels[z]
    BY <1>9, <2>1 DEF z
  <2>8. Last(fl) = levels[z] /\ fl # <<>>
    BY <2>1, <2>7, EmptySeq DEF Last
  <2>9. v = calls[z + 1].value
    BY <1>4, <2>1
  <2>10. z = n - 1
    BY DEF z
  <2> QED BY <2>1, <2>2, <2>3, <2>4, <2>6, <2>8, <2>9, <2>10
<1>10. n = 1 => fl = <<>> /\ fc = <<>>
  <2>1. n = 1 => Len(fl) = 0 /\ Len(fc) = 0
    BY <1>9
  <2> HIDE DEF fl, fc
  <2> QED BY <1>9, <2>1, EmptySeq
<1> DEFINE ds == Build(docs, <<EndOf(a), Len(v[2])>>)
           under == SubSeq(docs, 1, base[n] - 1)
<1>11. PICK o : /\ Handle(Writer(levels, out, TRUE), <<EndOf(a), Len(v[2])>>) = Writer(fl, o, TRUE)
                /\ Follows(fl, o, ds)
  <2>1. Front(levels) = <<>> \/ Last(Front(levels)).valueCount # 0
    BY <1>10, <1>20
  <2> DEFINE e == <<EndOf(l.inArray), IF l.inArray THEN l.valueCount ELSE l.valueCount \div 2>>
  <2>2. e = <<EndOf(a), Len(v[2])>>
    BY <1>4, <1>8, Zenon
  <2>3. \E x : /\ Handle(Writer(levels, out, TRUE), <<EndOf(l.inArray), Len(v[2])>>)
                    = Writer(Front(levels), x, TRUE)
              /\ Follows(Front(levels), x, Build(docs, e))
    <3> DEFINE z == Len(v[2])
    <3> HIDE DEF z
    <3>1. \E x : /\ Handle(Writer(levels, out, TRUE), <<EndOf(l.inArray), z>>)
                      = Writer(Front(levels), x, TRUE)
                /\ Follows(Front(levels), x, Build(docs, e))
      BY <1>2, <1>4, <1>7, <2>1, EndFollows
    <3> QED BY <3>1 DEF z
  <2> HIDE DEF e
  <2> QED BY <1>4, <2>2, <2>3, Zenon
<1>12. /\ base[n] \in Nat \ {0} /\ base[n] + PartCount(v) = Len(docs)
       /\ \A j \in 1..PartCount(v) : docs[base[n] + j] = Part(v, j)
  <2>1. WholeParts(levels, n) = PartCount(v)
    BY <1>4 DEF WholeParts
  <2>2. base[n] \in Nat /\ base[n] >= 1
    <3>1. n \in 1..(Len(levels) + 1)
      BY <1>4
    <3> QED BY <1>3, <3>1, BasesAreNumbers
  <2>3. /\ base[n + 1] = Len(docs) + 1 /\ base[n + 1] = base[n] + 1 + WholeParts(levels, n)
        /\ WholeParts(levels, n) \in Nat
        /\ \A j \in 1..WholeParts(levels, n) : docs[base[n] + j] = Part(calls[n].value, j)
    <3>1. n \in 1..n
      BY <1>4
    <3> QED BY <1>3, <1>4, <3>1 DEF Stacked
  <2>4. Len(docs) \in Nat
    BY <1>2, LenProperties
  <2>5. base[n] + PartCount(v) = Len(docs)
    <3> DEFINE parts == PartCount(v)
               bn == base[n]
    <3>1. parts \in Nat /\ bn \in Nat /\ Len(docs) + 1 = bn + 1 + parts
      BY <2>1, <2>2, <2>3
    <3> HIDE DEF parts, bn
    <3>2. bn + parts = Len(docs)
      BY <2>4, <3>1
    <3> QED BY <3>2 DEF parts, bn
  <2>6. base[n] \in Nat \ {0}
    BY <2>2
  <2> HIDE DEF v
  <2> QED BY <1>4, <2>1, <2>3, <2>5, <2>6
<1>13. ds = Append(under, v)
  <2> HIDE DEF v, n
  <2> QED BY <1>2, <1>4, <1>12, EndBuilds DEF n
<1>14. ds \in Seq(Values)
  <2> DEFINE p == base[n] - 1
  <2>0. Len(docs) \in Nat
    BY <1>2, LenProperties
  <2>1. p \in 0..Len(docs)
    <3>1. PartCount(v) \in Nat
      BY <1>4 DEF PartCount
    <3> DEFINE parts == PartCount(v)
               bn == base[n]
    <3>2. parts \in Nat /\ bn \in Nat \ {0} /\ bn + parts = Len(docs)
      BY <1>12, <3>1
    <3> HIDE DEF parts, bn
    <3>3. bn - 1 \in 0..Len(docs)
      BY <2>0, <3>2
    <3> QED BY <3>3 DEF bn
  <2>2. under = SubSeq(docs, 1, p)
    OBVIOUS
  <2> HIDE DEF p, under, v
  <2>3. under \in Seq(Values)
    BY <1>2, <2>1, <2>2, PrefixesGrow
  <2> HIDE DEF ds
  <2> QED BY <1>4, <1>13, <2>3, AppendProperties
<1>15. n = 1 => ds = <<d>>
  <2> SUFFICES ASSUME n = 1 PROVE ds = <<d>>
    OBVIOUS
  <2>1. base[1] = 1
    BY <1>3 DEF Stacked
  <2>2. under = <<>>
    <3>1. base[n] - 1 = 0
      BY <2>1
    <3>2. under = SubSeq(docs, 1, 0)
      BY <3>1
    <3> HIDE DEF under
    <3> QED BY <1>2, <3>2, PrefixesGrow
  <2>3. v = d
    BY <1>1, <1>2, <1>4 DEF Nested
  <2> HIDE DEF under, v, ds
  <2>4. ds = Append(<<>>, d)
    BY <1>13, <2>2, <2>3
  <2> QED BY <2>4
<1>16. Agrees(fc, fl)
  <2> HIDE DEF fc, fl, v, l
  <2>1. \A i \in 1..(n - 1) : i \in 1..n /\ levels[i] = LevelOf(calls[i])
    BY <1>2, <1>4 DEF Agrees
  <2> QED BY <1>9, <2>1 DEF Agrees
<1>17. Nested(fc, d)
  <2> HIDE DEF fc, fl, v, l
  <2>1. ASSUME NEW i \in 1..(n - 1) PROVE fc[i].done <= Len(fc[i].value[2])
    <3>1. i \in 1..n
      BY <1>4
    <3> QED BY <1>2, <1>9, <3>1 DEF Nested
  <2>2. ASSUME NEW i \in 1..((n - 1) - 1)
        PROVE  fc[i].done # 0 /\ fc[i + 1].value = Part(fc[i].value, CountOf(fc[i]))
    <3>1. i \in 1..(n - 1) /\ i + 1 \in 1..(n - 1)
      BY <1>4
    <3> QED BY <1>2, <1>9, <3>1 DEF Nested
  <2>3. ASSUME fc # <<>> PROVE fc[1].value = d
    <3>1. 1 \in 1..(n - 1)
      BY <1>4, <1>10, <2>3
    <3> QED BY <1>1, <1>2, <1>9, <3>1 DEF Nested
  <2> QED BY <1>9, <2>1, <2>2, <2>3 DEF Nested
<1>18. fc # <<>> => \E b : Stacked(fc, fl, ds, b)
  <2> SUFFICES ASSUME fc # <<>> PROVE \E b : Stacked(fc, fl, ds, b)
    OBVIOUS
  <2>1. n > 1 /\ n # 1
    BY <1>4, <1>10
  <2>2. /\ v = Part(calls[Len(levels) - 1].value, levels[Len(levels) - 1].valueCount)
        /\ \A i \in 1..(Len(levels) - 1) : fc[i].value = calls[i].value
    BY <1>4, <1>9, <1>20, <2>1
  <2> HIDE DEF fc, v, ds, l, a
  <2>3. \E b : Stacked(fc, Front(levels), Append(SubSeq(docs, 1, base[Len(levels)] - 1), v), b)
    BY <1>2, <1>3, <1>4, <2>1, <2>2, ClosedIsPlaced
  <2> QED BY <1>4, <1>13, <2>3
<1> HIDE DEF fc, fl, ds, v, l
<1>19. fc = <<>> => ds = <<d>>
  <2>1. fc = <<>> => Len(fc) = 0
    BY EmptySeq
  <2>2. fc = <<>> => n = 1
    BY <1>4, <1>9, <2>1
  <2> QED BY <1>15, <2>2
<1>21. Written(fc, Writer(fl, o, TRUE), d)
  BY <1>11, <1>14, <1>16, <1>17, <1>18, <1>19 DEF Written
<1> QED BY <1>1, <1>6, <1>11, <1>21

-----------------------------------------------------------------------------
(* The steps of the replies.                                               *)

LEMMA OneOf == ASSUME NEW U, NEW x \in U PROVE <<x>> \in Seq(U)
<1> DEFINE none == <<>>
<1>1. none \in Seq(U) /\ <<x>> = Append(none, x)
  BY EmptySeq
<1> HIDE DEF none
<1> QED BY <1>1, AppendProperties

(* A setter keeps the types, and everything but its own member.            *)
LEMMA SettersKeepTypes ==
  ASSUME FieldsType, \/ setType \/ setFqdn \/ setStatus \/ setError
                     \/ addError \/ addNSRecord \/ addCount \/ addIp
  PROVE  FieldsType' /\ calls' = calls /\ writer' = writer
                     /\ (type = <<>> \/ writer = NewWriter)
<1>1. \A t \in Text : <<t>> \in Seq(Text)
  BY OneOf
<1>2. /\ \A s \in Strings : s \in Text
      /\ \A c \in Words : <<c>> \in Text
      /\ <<>> \in Text
  BY StringsAreText, EmptySeq DEF Chars, Text
<1>3. CASE setType
  <2>1. type' \in Seq(Text)
    BY <1>1, <1>2, <1>3 DEF setType, Words
  <2> QED BY <1>3, <2>1 DEF setType, FieldsType
<1>4. CASE setFqdn
  <2>1. fqdn' \in Seq(Text)
    BY <1>1, <1>2, <1>4 DEF setFqdn, One
  <2> QED BY <1>4, <2>1 DEF setFqdn, For, Filling, FieldsType
<1>5. CASE setStatus
  <2>1. status' \in Seq(Text)
    BY <1>1, <1>2, <1>5 DEF setStatus, Words
  <2> QED BY <1>5, <2>1 DEF setStatus, Filling, FieldsType
<1>6. CASE setError
  <2>1. error' \in Seq(Text)
    BY <1>1, <1>2, <1>6 DEF setError, One
  <2> QED BY <1>6, <2>1 DEF setError, For, Filling, FieldsType
<1>7. CASE addError
  <2>1. PICK s \in Strings : errors' = Append(errors, s)
    BY <1>7 DEF addError
  <2>2. errors' \in Seq(Text)
    BY <1>2, <2>1, AppendProperties DEF FieldsType
  <2> QED BY <1>7, <2>2 DEF addError, For, Filling, FieldsType
<1>8. CASE addNSRecord
  <2>1. PICK s \in Strings : nsRecords' = Append(nsRecords, s)
    BY <1>8 DEF addNSRecord
  <2>2. nsRecords' \in Seq(Text)
    BY <1>2, <2>1, AppendProperties DEF FieldsType
  <2> QED BY <1>8, <2>2 DEF addNSRecord, For, Filling, FieldsType
<1>9. CASE addCount
  <2>1. PICK s \in Strings, n \in Counts : counts' = Append(counts, [fqdn |-> s, count |-> n])
    BY <1>9 DEF addCount
  <2>2. n \in Integers64
    BY StringsAssumption DEF Integers64
  <2> DEFINE c == [fqdn |-> s, count |-> n]
             C == [fqdn : Text, count : Integers64]
  <2>3. c \in C
    BY <1>2, <2>2
  <2>4. counts \in Seq(C)
    BY DEF FieldsType
  <2> HIDE DEF c, C
  <2>5. Append(counts, c) \in Seq(C)
    BY <2>3, <2>4, AppendProperties
  <2>6. counts' \in Seq([fqdn : Text, count : Integers64])
    BY <2>1, <2>5 DEF c, C
  <2> QED BY <1>9, <2>6 DEF addCount, For, Filling, FieldsType
<1>10. CASE addIp
  <2>1. PICK s \in Strings, e \in Strings \cup {<<>>} : ips' = Append(ips, IpJson(s, e))
    BY <1>10 DEF addIp
  <2>2. s \in Text /\ e \in Text
    BY <1>2
  <2>3. IpJson(s, e) \in AddressTexts
    BY <2>2 DEF IpJson, AddressTexts
  <2>4. ips \in Seq(AddressTexts)
    BY DEF FieldsType
  <2>5. Append(ips, IpJson(s, e)) \in Seq(AddressTexts)
    BY <2>3, <2>4, AppendProperties
  <2>6. ips' \in Seq(AddressTexts)
    BY <2>1, <2>5
  <2> QED BY <1>10, <2>6 DEF addIp, For, Filling, FieldsType
<1> QED BY <1>3, <1>4, <1>5, <1>6, <1>7, <1>8, <1>9, <1>10

(* What is read of the addresses is text, in as many entries.              *)
LEMMA CopiesAreAddresses ==
  ASSUME FieldsType, NEW c \in Copies
  PROVE  c \in Seq(AddressTexts)
<1>1. CASE shared
  BY <1>1 DEF Copies, FieldsType
<1>2. CASE ~shared
  <2>1. c \in [DOMAIN ips -> [ip : Garbage, error : Garbage, hasError : BOOLEAN]]
    BY <1>2 DEF Copies
  <2>2. DOMAIN ips = 1..Len(ips) /\ Len(ips) \in Nat
    BY LenProperties DEF FieldsType
  <2>3. c \in [1..Len(ips) -> AddressTexts]
    BY <2>1, <2>2, StringsAreText DEF AddressTexts
  <2> QED BY <2>2, <2>3, SeqDef
<1> QED BY <1>1, <1>2

(* The document begins.                                                    *)
LEMMA RootWrites ==
  ASSUME FieldsType, toJson
  PROVE  copies' \in Seq(AddressTexts) /\ Written(calls', writer', Members(copies'))
<1> DEFINE d == Members(copies')
           none == <<>>
           c == AcceptCall(d, 0)
           new == Append(none, c)
           nl == Append(none, Level(FALSE, 0))
           ds == Append(none, Shell(FALSE))
<1>0. copies' \in Seq(AddressTexts)
  BY CopiesAreAddresses DEF toJson
<1>1. d \in Values /\ d[1] = "object" /\ Compound(d) /\ d \in Compounds
  BY <1>0, DocumentIsValue DEF Compounds
<1>2. calls' = new /\ writer' = Handle(NewWriter, <<"StartObject", 0>>)
  <2>1. Accept(<<>>, NewWriter, d)
    BY DEF toJson
  <2> HIDE DEF d
  <2> QED BY <1>1, <2>1 DEF Accept
<1> HIDE DEF d
<1>3. c \in Calls /\ c.value = d /\ c.done = 0
  BY <1>1, CallFields
<1>4. none \in Seq(Calls) /\ Len(none) = 0 /\ none \in Seq(LevelType) /\ none \in Seq(Values)
  BY EmptySeq
<1>5. PICK o : Handle(NewWriter, <<"StartObject", 0>>) = Writer(nl, o, TRUE) /\ Follows(nl, o, ds)
  <2> DEFINE a == FALSE
  <2>1. a \in BOOLEAN /\ StartOf(a) = "StartObject"
    BY DEF StartOf
  <2> HIDE DEF a
  <2>2. \E o : /\ Handle(NewWriter, <<StartOf(a), 0>>) = Writer(Append(<<>>, Level(a, 0)), o, TRUE)
              /\ Follows(Append(<<>>, Level(a, 0)), o, Append(<<>>, Shell(a)))
    BY <2>1, RootFollows
  <2> QED BY <2>1, <2>2 DEF a
<1>6. Shell(FALSE) \in Values
  BY Shells DEF Shell, Values, Holding, ObjectsOf
<1>7. LevelOf(c) = Level(FALSE, 0)
  <2>1. CountOf(c) = 0
    BY <1>3 DEF CountOf
  <2>2. (c.value[1] = "array") = FALSE
    BY <1>1, <1>3
  <2> QED BY <2>1, <2>2 DEF LevelOf
<1> DEFINE s0 == Shell(FALSE)
           l0 == Level(FALSE, 0)
<1>8. l0 \in LevelType /\ l0.valueCount = 0
  BY LevelFields
<1> HIDE DEF none, c, s0, l0
<1>9. /\ new \in Seq(Calls) /\ Len(new) = 1 /\ new # <<>> /\ new[1] = c
      /\ Len(nl) = 1 /\ nl[1] = l0
      /\ ds \in Seq(Values) /\ Len(ds) = 1
  <2> DEFINE z == Len(none)
  <2>4. z = 0 /\ z + 1 = 1
    BY <1>4
  <2> HIDE DEF z
  <2>1. new \in Seq(Calls) /\ Len(new) = 1 /\ new # <<>> /\ new[1] = c
    <3>1. /\ Append(none, c) \in Seq(Calls) /\ Append(none, c) # <<>>
          /\ Len(Append(none, c)) = z + 1 /\ Append(none, c)[z + 1] = c
      <4>1. none \in Seq(Calls) /\ c \in Calls
        BY <1>3, <1>4
      <4> QED BY ONLY <4>1, AppendProperties DEF z
    <3> QED BY <2>4, <3>1
  <2>2. Len(Append(none, l0)) = 1 /\ Append(none, l0)[1] = l0
    <3>1. Len(Append(none, l0)) = z + 1 /\ Append(none, l0)[z + 1] = l0
      BY <1>4, <1>8, AppendProperties DEF z
    <3> QED BY <2>4, <3>1
  <2>3. Append(none, s0) \in Seq(Values) /\ Len(Append(none, s0)) = 1
    <3>1. s0 \in Values
      BY <1>6 DEF s0
    <3>2. Append(none, s0) \in Seq(Values) /\ Len(Append(none, s0)) = z + 1
      BY <1>4, <3>1, AppendProperties DEF z
    <3> QED BY <2>4, <3>2
  <2> QED BY <2>1, <2>2, <2>3 DEF l0, s0
<1> HIDE DEF new, nl, ds
<1>10. Nested(new, d)
  <2>1. Len(d[2]) \in Nat
    BY <1>1, ValueForms, LenProperties
  <2>2. \A i \in 1..1 : i = 1
    OBVIOUS
  <2>3. 1..(1 - 1) = {}
    OBVIOUS
  <2> QED BY <1>3, <1>9, <2>1, <2>2, <2>3 DEF Nested
<1>11. Agrees(new, nl)
  <2>1. \A i \in 1..1 : i = 1
    OBVIOUS
  <2> QED BY <1>7, <1>9, <2>1 DEF Agrees, l0
<1>12. Stacked(new, nl, ds, [i \in 1..2 |-> i])
  <2>1. WholeParts(nl, 1) = 0
    BY <1>8, <1>9 DEF WholeParts
  <2> QED BY <1>9, <2>1 DEF Stacked
<1>13. Written(new, Writer(nl, o, TRUE), d)
  BY <1>5, <1>9, <1>10, <1>11, <1>12 DEF Written
<1> QED BY <1>0, <1>2, <1>5, <1>13 DEF d

LEMMA JsonInitiated == JsonInit => JsonInv
<1>1. ASSUME JsonInit PROVE FieldsType
  <2> DEFINE none == <<>>
  <2>1. \A U : none \in Seq(U)
    BY EmptySeq
  <2>2. /\ shared \in BOOLEAN
        /\ type = none /\ fqdn = none /\ status = none /\ error = none
        /\ counts = none /\ errors = none /\ ips = none /\ nsRecords = none /\ copies = none
    BY <1>1 DEF JsonInit
  <2> HIDE DEF none
  <2> QED BY <2>1, <2>2 DEF FieldsType
<1> QED BY <1>1 DEF JsonInit, JsonInv

LEMMA JsonContinues == JsonInv /\ [JsonNext]_jsonVars => JsonInv'
<1>1. SUFFICES ASSUME JsonInv, [JsonNext]_jsonVars PROVE JsonInv'
  OBVIOUS
<1>2. FieldsType
  BY <1>1 DEF JsonInv
<1>3. ASSUME UNCHANGED <<shared, fields>>
      PROVE  /\ copies' \in Seq(AddressTexts) => FieldsType'
             /\ Document' = Members(copies')
             /\ Copies' = Copies /\ type' = type
  <2>1. /\ shared' = shared /\ type' = type /\ fqdn' = fqdn /\ status' = status
        /\ error' = error /\ counts' = counts /\ errors' = errors /\ ips' = ips
        /\ nsRecords' = nsRecords
    BY <1>3 DEF fields
  <2>2. copies' \in Seq(AddressTexts) => FieldsType'
    BY ONLY <1>2, <2>1 DEF FieldsType
  <2>3. Document' = Members(copies')
    BY ONLY <2>1 DEF Document, Members, Optional, List, CountElement
  <2>4. Copies' = Copies
    BY ONLY <2>1 DEF Copies
  <2> QED BY <2>1, <2>2, <2>3, <2>4
<1>8. ASSUME UNCHANGED <<shared, copies, fields>>
       PROVE  FieldsType' /\ Document' = Document /\ Copies' = Copies /\ UNCHANGED <<copies, type>>
  <2>1. UNCHANGED <<shared, fields>> /\ copies' = copies
    BY <1>8
  <2>2. copies \in Seq(AddressTexts)
    BY <1>2 DEF FieldsType
  <2>3. Document' = Members(copies') /\ Copies' = Copies /\ type' = type
    BY <1>3, <2>1
  <2>4. Document' = Document
    BY <2>1, <2>3 DEF Document
  <2>5. FieldsType'
    BY <1>3, <2>1, <2>2
  <2> QED BY <2>1, <2>3, <2>4, <2>5
<1>4. CASE \/ setType \/ setFqdn \/ setStatus \/ setError
           \/ addError \/ addNSRecord \/ addCount \/ addIp
  <2>1. FieldsType' /\ calls' = calls /\ writer' = writer
    BY <1>2, <1>4, SettersKeepTypes
  <2>2. type = <<>> \/ writer = NewWriter
    BY <1>4 DEF setType, setFqdn, setStatus, setError, addError, addNSRecord, addCount,
       addIp, For, Filling
  <2>3. writer = NewWriter /\ calls = <<>>
    BY <1>1, <2>2, WrittenIsNotNew DEF JsonInv
  <2>4. writer' = NewWriter /\ calls' = <<>>
    BY <2>1, <2>3
  <2> QED BY <2>1, <2>4 DEF JsonInv, NewWriter, Writer
<1>5. CASE toJson
  <2>1. copies' \in Seq(AddressTexts) /\ Written(calls', writer', Members(copies'))
    BY <1>2, <1>5, RootWrites
  <2>2. UNCHANGED <<shared, fields>> /\ copies' \in Copies /\ type # <<>>
    BY <1>5 DEF toJson
  <2>3. FieldsType' /\ Document' = Members(copies') /\ Copies' = Copies /\ type' = type
    BY <1>3, <2>1, <2>2
  <2> QED BY <2>1, <2>2, <2>3 DEF JsonInv
<1>6. CASE Accepts
  <2>1. calls # <<>>
    BY <1>6 DEF Accepts, AcceptMember, AcceptElement, AcceptEnd
  <2>2. Written(calls, writer, Document) /\ type # <<>> /\ copies \in Copies
    BY <1>1, <2>1 DEF JsonInv
  <2>3. Written(calls', writer', Document)
    BY <1>6, <2>2, MemberWrites, ElementWrites, EndWrites DEF Accepts
  <2>4. UNCHANGED <<shared, copies, fields>>
    BY <1>6 DEF Accepts
  <2>5. /\ FieldsType' /\ Document' = Document /\ Copies' = Copies
        /\ type' = type /\ copies' = copies
    BY <1>8, <2>4
  <2> QED BY <2>2, <2>3, <2>5 DEF JsonInv
<1>7. CASE UNCHANGED jsonVars
  <2>1. calls' = calls /\ writer' = writer /\ UNCHANGED <<shared, copies, fields>>
    BY <1>7 DEF jsonVars
  <2>2. /\ FieldsType' /\ Document' = Document /\ Copies' = Copies
        /\ type' = type /\ copies' = copies
    BY <1>8, <2>1
  <2> QED BY <1>1, <2>1, <2>2 DEF JsonInv
<1> QED BY <1>1, <1>4, <1>5, <1>6, <1>7 DEF JsonNext, Sent

(* What the properties say follows.                                        *)
LEMMA AssertionsHold == JsonInv => WriterAssertionsHold
<1>1. CASE writer = NewWriter /\ calls = <<>>
  <2>1. NewWriter.ok = TRUE /\ NewWriter.levels = <<>>
    BY DEF NewWriter, Writer
  <2> QED BY <1>1, <2>1 DEF WriterAssertionsHold
<1>2. ASSUME Written(calls, writer, Document) PROVE WriterAssertionsHold
  <2>1. PICK levels, out : writer = Writer(levels, out, TRUE) /\ Agrees(calls, levels)
    BY <1>2 DEF Written
  <2>2. writer.ok = TRUE /\ writer.levels = levels
    BY <2>1, WriterFields
  <2> QED BY <2>1, <2>2 DEF WriterAssertionsHold, Agrees
<1> QED BY <1>1, <1>2 DEF JsonInv

LEMMA RepliesRead == JsonInv => RepliesReadBack
<1>1. SUFFICES ASSUME JsonInv PROVE RepliesReadBack
  OBVIOUS
<1>2. ASSUME NEW k \in DOMAIN writer.out PROVE writer.out[k] # Lit("NL")
  <2>1. writer.out \in Seq(Units)
    <3>1. CASE writer = NewWriter
      <4>1. NewWriter.out = <<>>
        BY DEF NewWriter, Writer
      <4> QED BY <3>1, <4>1, EmptySeq
    <3>2. CASE Written(calls, writer, Document)
      <4>1. PICK levels, out, docs : writer = Writer(levels, out, TRUE) /\ Follows(levels, out, docs)
        BY <3>2 DEF Written
      <4>2. Writer(levels, out, TRUE).out = out
        BY WriterFields
      <4>3. out \in Seq(Units)
        BY <4>1 DEF Follows
      <4> QED BY <4>1, <4>2, <4>3
    <3> QED BY <1>1, <3>1, <3>2 DEF JsonInv
  <2>2. writer.out[k] \in Units
    BY <2>1, LenProperties, ElementOfSeq
  <2> QED BY <2>2, LitsDiffer DEF Units, Lit
<1>3. ASSUME Replied
      PROVE  Parse(writer.out) = Document
  <2>1. Written(calls, writer, Document) /\ calls = <<>>
    BY <1>1, <1>3 DEF JsonInv, Replied
  <2>2. PICK levels, out, docs : /\ writer = Writer(levels, out, TRUE) /\ Follows(levels, out, docs)
                                 /\ Agrees(calls, levels) /\ docs = <<Document>>
    BY <2>1 DEF Written
  <2>3. levels = <<>>
    <3>1. Len(levels) = 0 /\ levels \in Seq(LevelType)
      BY <2>1, <2>2 DEF Agrees, Follows
    <3> QED BY <3>1, EmptySeq
  <2>4. PICK c : Reading(out) = Reader(Place(levels), levels, c, docs)
    BY <2>2 DEF Follows
  <2>5. Place(levels) = "end"
    BY <2>3 DEF Place
  <2> DEFINE r == Reading(out)
  <2>6. r.at = "end" /\ r.docs = docs
    BY <2>4, <2>5, ReaderFields
  <2>7. writer.out = out
    BY <2>2, WriterFields
  <2> DEFINE d == Document
  <2>8. docs = <<d>>
    BY <2>2
  <2> HIDE DEF r, d
  <2>9. docs[1] = d
    BY <2>8
  <2>10. Parse(out) = r.docs[1]
    BY <2>6 DEF Parse, r
  <2> QED BY <2>6, <2>7, <2>9, <2>10 DEF d
<1>4. Document # Null
  <2>1. Document[1] = "object"
    BY <1>1, DocumentIsValue DEF JsonInv, FieldsType, Document
  <2>2. Null[1] = "null"
    BY DEF Null
  <2> QED BY <2>1, <2>2
<1>5. ASSUME Replied PROVE copies \in Copies
  BY <1>1, <1>5 DEF JsonInv, Replied
<1>6. ASSUME Replied PROVE \E read \in Copies : Parse(writer.out) = Members(read)
  BY <1>3, <1>5, <1>6 DEF Document
<1> QED BY <1>2, <1>3, <1>4, <1>6 DEF RepliesReadBack, RepliesAreOneLine

(* No assertion of the writer fails while a reply is written.              *)
THEOREM WriterIsSound == JsonSpec => []WriterAssertionsHold
<1>1. JsonInit => JsonInv
  BY JsonInitiated
<1>2. JsonInv /\ [JsonNext]_jsonVars => JsonInv'
  BY JsonContinues
<1>3. JsonInv => WriterAssertionsHold
  BY AssertionsHold
<1> QED BY <1>1, <1>2, <1>3, PTL DEF JsonSpec

(* A reply is one line, and is read back as it was filled in but for the   *)
(* texts of addresses that were copied.                                    *)
THEOREM RepliesAreReadBack == JsonSpec => []RepliesReadBack
<1>1. JsonInit => JsonInv
  BY JsonInitiated
<1>2. JsonInv /\ [JsonNext]_jsonVars => JsonInv'
  BY JsonContinues
<1>3. JsonInv => RepliesReadBack
  BY RepliesRead
<1> QED BY <1>1, <1>2, <1>3, PTL DEF JsonSpec
=============================================================================
