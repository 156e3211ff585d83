------------------------------ MODULE RouterProofs ------------------------------
(***************************************************************************)
(* Routing for any configuration, any geo files, any requests and any      *)
(* width of bytes and addresses.                                           *)
(***************************************************************************)
EXTENDS Router, WellFoundedInduction, TLAPS

(***************************************************************************)
(* Sequences.                                                              *)
(***************************************************************************)
\* A sequence is a function on 1..Len.
LEMMA LenProperties ==
  ASSUME NEW S, NEW seq \in Seq(S)
  PROVE  Len(seq) \in Nat /\ seq \in [1..Len(seq) -> S] /\ DOMAIN seq = 1..Len(seq)
OBVIOUS

\* And such a function is a sequence.
LEMMA FunctionIsSeq ==
  ASSUME NEW S, NEW n \in Nat, NEW s \in [1..n -> S]
  PROVE  s \in Seq(S) /\ Len(s) = n
OBVIOUS

\* The elements of a sequence over S are in S.
LEMMA ElementOfSeq ==
  ASSUME NEW S, NEW seq \in Seq(S), NEW n \in 1..Len(seq)
  PROVE  seq[n] \in S
OBVIOUS

\* Sequences with the same elements are the same.
LEMMA SeqEqual ==
  ASSUME NEW S, NEW s \in Seq(S), NEW t \in Seq(S),
         Len(s) = Len(t), \A i \in 1..Len(s) : s[i] = t[i]
  PROVE  s = t
OBVIOUS

\* The elements from m on.
LEMMA TailFromProperties ==
  ASSUME NEW S, NEW s \in Seq(S), NEW m \in 1..(Len(s) + 1)
  PROVE  /\ SubSeq(s, m, Len(s)) \in Seq(S)
         /\ Len(SubSeq(s, m, Len(s))) = Len(s) - m + 1
         /\ \A i \in 1..(Len(s) - m + 1) : SubSeq(s, m, Len(s))[i] = s[m + i - 1]
OBVIOUS

\* The elements but the first.
LEMMA TailProperties ==
  ASSUME NEW S, NEW s \in Seq(S), s # <<>>
  PROVE  /\ Tail(s) \in Seq(S) /\ Len(Tail(s)) = Len(s) - 1
         /\ \A i \in 1..(Len(s) - 1) : Tail(s)[i] = s[i + 1]
OBVIOUS
-----------------------------------------------------------------------------
(***************************************************************************)
(* Induction and recursion over the natural numbers, with sets and         *)
(* functions for predicates and steps.                                     *)
(***************************************************************************)
\* A set of natural numbers has a least element.
LEMMA LeastNat ==
  ASSUME NEW T, T \subseteq Nat, T # {}
  PROVE  \E x \in T : \A y \in T : x <= y
<1>. DEFINE R == {p \in Nat \X Nat : p[1] < p[2]}
<1>1. IsWellFoundedOn(R, Nat)
  BY NatLessThanWellFounded DEF OpToRel
<1>. HIDE DEF R
<1>2. PICK x \in T : \A y \in T : ~(<<y, x>> \in R)
  BY <1>1, WFMin, Zenon
<1>3. ASSUME NEW y \in T
      PROVE  x <= y
  <2>1. x \in Nat /\ y \in Nat
    OBVIOUS
  <2>2. <<y, x>> \in Nat \X Nat /\ <<y, x>>[1] = y /\ <<y, x>>[2] = x
    BY <2>1
  <2>3. ~(y < x)
    BY <1>2, <2>2 DEF R
  <2>. QED  BY <2>1, <2>3
<1>. QED  BY <1>3

\* A set that holds 0 and the successor of each of its numbers holds all.
LEMMA InductNat ==
  ASSUME NEW T, 0 \in T, \A n \in Nat : n \in T => n + 1 \in T
  PROVE  Nat \subseteq T
<1>. SUFFICES ASSUME Nat \ T # {} PROVE FALSE
  OBVIOUS
<1>1. PICK x \in Nat \ T : \A y \in Nat \ T : x <= y
  BY LeastNat, Zenon
<1>2. x - 1 \in Nat /\ x - 1 \in T
  BY <1>1
<1>3. (x - 1) + 1 \in T
  BY <1>2
<1>. QED  BY <1>3

\* The same for the numbers up to m.
LEMMA InductUpTo ==
  ASSUME NEW m \in Nat, NEW T, 0 \in T, \A n \in 0..m : n \in T /\ n # m => n + 1 \in T
  PROVE  0..m \subseteq T
<1>. DEFINE U == T \cup {n \in Nat : n > m}
<1>1. 0 \in U /\ \A n \in Nat : n \in U => n + 1 \in U
  OBVIOUS
<1>. HIDE DEF U
<1>2. Nat \subseteq U
  BY <1>1, InductNat
<1>. QED  BY <1>2 DEF U

\* The first n iterations of a step that depends on the index.
Runs(S, c, h, n) ==
  {g \in [0..n -> S] : g[0] = c /\ \A i \in 0..(n - 1) : g[i + 1] = h[<<i, g[i]>>]}

\* There are such iterations of every length.
LEMMA RunExists ==
  ASSUME NEW S, NEW c \in S, NEW h \in [Nat \X S -> S]
  PROVE  \A n \in Nat : Runs(S, c, h, n) # {}
<1>. DEFINE T == {n \in Nat : Runs(S, c, h, n) # {}}
<1>1. 0 \in T
  <2>1. [i \in 0..0 |-> c] \in Runs(S, c, h, 0)
    BY DEF Runs
  <2>. QED  BY <2>1
<1>2. ASSUME NEW n \in Nat, n \in T
      PROVE  n + 1 \in T
  <2>1. PICK g \in [0..n -> S] : g[0] = c /\ \A i \in 0..(n - 1) : g[i + 1] = h[<<i, g[i]>>]
    BY <1>2 DEF Runs
  <2>. DEFINE v == h[<<n, g[n]>>]
              k == [i \in 0..(n + 1) |-> IF i = n + 1 THEN v ELSE g[i]]
  <2>2. v \in S
    <3>1. <<n, g[n]>> \in Nat \X S
      BY <2>1
    <3>. QED  BY <3>1
  <2>. HIDE DEF v
  <2>3. k \in [0..(n + 1) -> S] /\ k[0] = c
    BY <2>1, <2>2
  <2>4. ASSUME NEW i \in 0..n
        PROVE  k[i + 1] = h[<<i, k[i]>>]
    <3>1. k[i] = g[i]
      OBVIOUS
    <3>2. CASE i = n
      <4>1. k[n + 1] = v
        OBVIOUS
      <4>. QED  BY <4>1, <3>1, <3>2, Zenon DEF v
    <3>3. CASE i \in 0..(n - 1)
      BY <2>1, <3>1, <3>3
    <3>. QED  BY <3>2, <3>3
  <2>5. (n + 1) - 1 = n
    OBVIOUS
  <2>. HIDE DEF k
  <2>6. k \in Runs(S, c, h, n + 1)
    BY <2>3, <2>4, <2>5 DEF Runs
  <2>. QED  BY <2>6
<1>. HIDE DEF T
<1>3. Nat \subseteq T
  BY <1>1, <1>2, InductNat
<1>. QED  BY <1>3 DEF T

\* A step with an index can be iterated from c for ever.
Steps(S) == [Nat \X S -> S]
Iterations(S, c, h) ==
  {f \in [Nat -> S] : f[0] = c /\ \A n \in Nat : f[n + 1] = h[<<n, f[n]>>]}

\* So there is a function on the natural numbers that repeats the step.
LEMMA Recursion ==
  ASSUME NEW S, NEW c \in S, NEW h \in Steps(S)
  PROVE  Iterations(S, c, h) # {}
<1>. DEFINE g(n) == CHOOSE r : r \in Runs(S, c, h, n)
            f == [n \in Nat |-> g(n)[n]]
<1>1. ASSUME NEW n \in Nat
      PROVE  g(n) \in Runs(S, c, h, n)
  BY RunExists DEF Steps
<1>. HIDE DEF g
<1>2. ASSUME NEW m \in Nat, NEW n \in Nat
      PROVE  \A i \in 0..m : i <= n => g(m)[i] = g(n)[i]
  <2>. DEFINE T == {i \in 0..m : i <= n => g(m)[i] = g(n)[i]}
  <2>1. 0 \in T
    BY <1>1 DEF Runs
  <2>2. ASSUME NEW i \in 0..m, i \in T, i # m
        PROVE  i + 1 \in T
    <3>1. SUFFICES ASSUME i + 1 <= n PROVE g(m)[i + 1] = g(n)[i + 1]
      BY <2>2
    <3>2. i \in 0..(m - 1) /\ i \in 0..(n - 1)
      BY <2>2, <3>1
    <3>3. g(m)[i + 1] = h[<<i, g(m)[i]>>]
      BY <1>1, <3>2 DEF Runs
    <3>4. g(n)[i + 1] = h[<<i, g(n)[i]>>]
      BY <1>1, <3>2 DEF Runs
    <3>5. g(m)[i] = g(n)[i]
      BY <2>2, <3>1
    <3>. QED  BY <3>3, <3>4, <3>5
  <2>. HIDE DEF T
  <2>3. 0..m \subseteq T
    BY <2>1, <2>2, InductUpTo
  <2>. QED  BY <2>3 DEF T
<1>3. f \in [Nat -> S] /\ f[0] = c
  BY <1>1 DEF Runs
<1>4. ASSUME NEW n \in Nat
      PROVE  f[n + 1] = h[<<n, f[n]>>]
  <2>1. g(n + 1)[n + 1] = h[<<n, g(n + 1)[n]>>]
    <3>1. n + 1 \in Nat /\ n \in 0..((n + 1) - 1)
      OBVIOUS
    <3>2. g(n + 1) \in Runs(S, c, h, n + 1)
      BY <1>1, <3>1
    <3>. QED  BY <3>1, <3>2 DEF Runs
  <2>2. g(n + 1)[n] = g(n)[n]
    BY <1>2
  <2>3. f[n + 1] = g(n + 1)[n + 1] /\ f[n] = g(n)[n]
    OBVIOUS
  <2>. QED  BY <2>1, <2>2, <2>3
<1>. HIDE DEF f
<1>5. f \in Iterations(S, c, h)
  BY <1>3, <1>4 DEF Iterations
<1>. QED  BY <1>5
-----------------------------------------------------------------------------
(***************************************************************************)
(* Powers of two and division.                                             *)
(***************************************************************************)
\* 1 << n doubles with n.
LEMMA Pow2Def ==
  /\ Pow2 \in [Nat -> Nat \ {0}]
  /\ Pow2[0] = 1
  /\ \A n \in Nat : Pow2[n + 1] = 2 * Pow2[n]
<1>. DEFINE h == [p \in Nat \X (Nat \ {0}) |-> 2 * p[2]]
            Eq(f) == f = [n \in Nat |-> IF n = 0 THEN 1 ELSE 2 * f[n - 1]]
<1>1. h \in [Nat \X (Nat \ {0}) -> Nat \ {0}]
  OBVIOUS
<1>2. \A n \in Nat, v \in Nat \ {0} : h[<<n, v>>] = 2 * v
  OBVIOUS
<1>. HIDE DEF h
<1>3. PICK f \in [Nat -> Nat \ {0}] : f[0] = 1 /\ \A n \in Nat : f[n + 1] = h[<<n, f[n]>>]
  <2>1. h \in Steps(Nat \ {0}) /\ 1 \in Nat \ {0}
    BY <1>1 DEF Steps
  <2>2. Iterations(Nat \ {0}, 1, h) # {}
    BY <2>1, Recursion
  <2>. QED  BY <2>2 DEF Iterations
<1>4. ASSUME NEW n \in Nat
      PROVE  f[n] = IF n = 0 THEN 1 ELSE 2 * f[n - 1]
  <2>1. CASE n = 0
    BY <1>3, <2>1
  <2>2. CASE n # 0
    <3>1. n - 1 \in Nat /\ (n - 1) + 1 = n
      BY <2>2
    <3>2. f[(n - 1) + 1] = 2 * f[n - 1]
      BY <1>2, <1>3, <3>1, Zenon
    <3>. QED  BY <2>2, <3>1, <3>2
  <2>. QED  BY <2>1, <2>2
<1>5. Eq(f)
  <2>1. f = [n \in Nat |-> f[n]]
    OBVIOUS
  <2>. QED  BY <1>4, <2>1
<1>6. Eq(Pow2)
  <2>1. Pow2 = CHOOSE k : Eq(k)
    BY DEF Pow2
  <2>. HIDE DEF Eq
  <2>. QED  BY <1>5, <2>1
<1>7. ASSUME NEW n \in Nat
      PROVE  Pow2[n] = IF n = 0 THEN 1 ELSE 2 * Pow2[n - 1]
  BY <1>6, Zenon
<1>8. Pow2[0] = 1
  BY <1>7
<1>9. ASSUME NEW n \in Nat
      PROVE  Pow2[n + 1] = 2 * Pow2[n]
  <2>1. n + 1 \in Nat /\ n + 1 # 0 /\ (n + 1) - 1 = n
    OBVIOUS
  <2>. QED  BY <1>7, <2>1
<1>10. \A n \in Nat : Pow2[n] \in Nat \ {0}
  <2>. DEFINE T == {n \in Nat : Pow2[n] \in Nat \ {0}}
  <2>1. 0 \in T /\ \A n \in Nat : n \in T => n + 1 \in T
    BY <1>8, <1>9
  <2>. HIDE DEF T
  <2>2. Nat \subseteq T
    BY <2>1, InductNat
  <2>. QED  BY <2>2 DEF T
<1>11. Pow2 = [n \in Nat |-> Pow2[n]]
  BY <1>6
<1>. QED  BY <1>8, <1>9, <1>10, <1>11, Zenon

\* 1 << (m + n) is the product.
LEMMA Pow2Add ==
  ASSUME NEW m \in Nat, NEW n \in Nat
  PROVE  Pow2[m + n] = Pow2[m] * Pow2[n]
<1>. DEFINE T == {k \in Nat : Pow2[m + k] = Pow2[m] * Pow2[k]}
<1>1. 0 \in T
  BY Pow2Def
<1>2. ASSUME NEW k \in Nat, k \in T
      PROVE  k + 1 \in T
  <2>1. Pow2[m] \in Nat /\ Pow2[k] \in Nat
    BY Pow2Def
  <2>2. m + (k + 1) = (m + k) + 1 /\ m + k \in Nat
    OBVIOUS
  <2>3. Pow2[(m + k) + 1] = 2 * Pow2[m + k] /\ Pow2[k + 1] = 2 * Pow2[k]
    BY <2>2, Pow2Def
  <2>4. Pow2[m + k] = Pow2[m] * Pow2[k]
    BY <1>2
  <2>5. ASSUME NEW x \in Nat, NEW y \in Nat
        PROVE  2 * (x * y) = x * (2 * y)
    OBVIOUS
  <2>6. 2 * (Pow2[m] * Pow2[k]) = Pow2[m] * (2 * Pow2[k])
    BY <2>1, <2>5
  <2>7. Pow2[m + (k + 1)] = Pow2[m] * Pow2[k + 1]
    BY <2>2, <2>3, <2>4, <2>6, Zenon
  <2>. QED  BY <2>7
<1>. HIDE DEF T
<1>3. Nat \subseteq T
  BY <1>1, <1>2, InductNat
<1>. QED  BY <1>3 DEF T

\* Quotient and remainder.
LEMMA DivMod ==
  ASSUME NEW a \in Nat, NEW b \in Nat \ {0}
  PROVE  a \div b \in Nat /\ (a % b) \in 0..(b - 1) /\ a = b * (a \div b) + (a % b)
OBVIOUS

\* A number is below c blocks of b just when its quotient by b is below c.
LEMMA DivBelow ==
  ASSUME NEW a \in Nat, NEW b \in Nat \ {0}, NEW c \in Nat
  PROVE  a < b * c <=> a \div b < c
<1>. DEFINE q == a \div b
            r == a % b
<1>1. q \in Nat /\ r \in 0..(b - 1) /\ a = b * q + r
  BY DivMod, Zenon
<1>. HIDE DEF q, r
<1>2. CASE q < c
  <2>1. b * q + b <= b * c
    BY <1>1, <1>2
  <2>. QED  BY <1>1, <1>2, <2>1 DEF q
<1>3. CASE q >= c
  <2>1. b * c <= b * q
    BY <1>1, <1>3
  <2>. QED  BY <1>1, <1>3, <2>1 DEF q
<1>. QED  BY <1>1, <1>2, <1>3

\* The quotient and the remainder are determined.
LEMMA DivUnique ==
  ASSUME NEW b \in Nat \ {0}, NEW q \in Nat, NEW r \in 0..(b - 1)
  PROVE  (b * q + r) \div b = q /\ ((b * q + r) % b) = r
OBVIOUS

\* Dividing twice.
LEMMA DivDiv ==
  ASSUME NEW a \in Nat, NEW b \in Nat \ {0}, NEW c \in Nat \ {0}
  PROVE  (a \div b) \div c = a \div (b * c)
<1>. DEFINE q == a \div b
            r == a % b
            p == q \div c
            s == q % c
<1>1. q \in Nat /\ r \in 0..(b - 1) /\ a = b * q + r
  BY DivMod, Zenon
<1>2. p \in Nat /\ s \in 0..(c - 1) /\ q = c * p + s
  BY <1>1, DivMod, Zenon
<1>. HIDE DEF q, r, p, s
<1>3. b * s + b <= b * c
  BY <1>2
<1>4. b * c \in Nat \ {0} /\ b * s \in Nat
  BY <1>2
<1>5. b * q = (b * c) * p + b * s
  BY <1>2
<1>6. b * s + r \in 0..(b * c - 1)
  BY <1>1, <1>3, <1>4
<1>7. a = (b * c) * p + (b * s + r)
  BY <1>1, <1>2, <1>4, <1>5
<1>8. a \div (b * c) = p
  BY <1>2, <1>4, <1>6, <1>7, DivUnique, Zenon
<1>. QED  BY <1>8 DEF p, q
-----------------------------------------------------------------------------
(***************************************************************************)
(* The table of geoip.dat.                                                 *)
(***************************************************************************)
\* How many addresses a prefix of length p covers.
BlockSize(p) == Pow2[Bits(FALSE) - p]

\* Addresses have bytes and bytes have bits.
LEMMA Widths ==
  /\ ByteBits \in Nat \ {0}
  /\ \A v6 \in BOOLEAN : Bytes(v6) \in Nat \ {0} /\ Bits(v6) \in Nat /\ Bits(v6) = ByteBits * Bytes(v6)
<1>1. ByteBits \in Nat \ {0} /\ V4Bytes \in Nat \ {0} /\ V6Bytes \in Nat \ {0}
  BY WidthsAssumption
<1>2. \A v6 \in BOOLEAN : Bytes(v6) \in Nat \ {0}
  BY <1>1 DEF Bytes
<1>3. \A b \in Nat : ByteBits * b \in Nat
  BY <1>1
<1>. QED  BY <1>1, <1>2, <1>3 DEF Bits

\* A block has addresses, and a whole number of blocks fills the address space.
LEMMA BlockSizes ==
  ASSUME NEW p \in 0..Bits(FALSE)
  PROVE  /\ BlockSize(p) \in Nat \ {0} /\ Pow2[p] \in Nat
         /\ BlockSize(0) \in Nat \ {0} /\ BlockSize(0) = BlockSize(p) * Pow2[p]
<1>. DEFINE w == Bits(FALSE)
<1>1. w \in Nat /\ p \in 0..w
  BY Widths, Zenon
<1>. HIDE DEF w
<1>2. p \in Nat /\ w - p \in Nat /\ (w - p) + p = w /\ w - 0 = w
  BY <1>1
<1>3. Pow2[(w - p) + p] = Pow2[w - p] * Pow2[p]
  BY <1>2, Pow2Add
<1>4. Pow2[w - p] \in Nat \ {0} /\ Pow2[p] \in Nat /\ Pow2[w] \in Nat \ {0}
  BY <1>1, <1>2, Pow2Def
<1>5. BlockSize(p) = Pow2[w - p] /\ BlockSize(0) = Pow2[w]
  BY <1>2, Zenon DEF BlockSize, w
<1>. QED  BY <1>2, <1>3, <1>4, <1>5

\* The address space of the table.
LEMMA GeoAddr ==
  Geo!Addr = 0..(BlockSize(0) - 1) /\ Geo!LastAddr = BlockSize(0) - 1
<1>1. 0 \in 0..Bits(FALSE)
  <2>1. Bits(FALSE) \in Nat
    BY Widths, Zenon
  <2>2. \A n \in Nat : 0 \in 0..n
    OBVIOUS
  <2>. QED  BY <2>1, <2>2, Zenon
<1>. QED  BY <1>1 DEF Geo!Addr, Geo!LastAddr, BlockSize

\* val & mask is the first address of the block val lies in.
LEMMA GeoFirst ==
  ASSUME NEW a \in Nat, NEW p \in 0..Bits(FALSE)
  PROVE  Geo!First(a, p) = BlockSize(p) * (a \div BlockSize(p))
<1>. DEFINE b == BlockSize(p)
<1>1. Geo!First(a, p) = a - (a % b)
  BY DEF Geo!First, BlockSize
<1>2. b \in Nat \ {0}
  BY BlockSizes, Zenon
<1>. HIDE DEF b
<1>3. a \div b \in Nat /\ (a % b) \in 0..(b - 1) /\ a = b * (a \div b) + (a % b)
  BY <1>2, DivMod, Zenon
<1>4. b * (a \div b) \in Nat
  BY <1>2, <1>3
<1>5. a - (a % b) = b * (a \div b)
  BY <1>3, <1>4
<1>. QED  BY <1>1, <1>5 DEF b

GeoRange == [start : Geo!Addr, end : Geo!Addr]

\* v lies in the range r.
In(v, r) == r.start <= v /\ v <= r.end

\* The range of a CIDR lies in the address space and holds its network.
LEMMA RangeOfCidr ==
  ASSUME NEW a \in Geo!Addr, NEW p \in 0..Bits(FALSE)
  PROVE  /\ Geo!RangeOf(a, p) \in GeoRange
         /\ Geo!RangeOf(a, p).start <= Geo!RangeOf(a, p).end
         /\ \A v \in Geo!Addr : In(v, Geo!RangeOf(a, p)) <=> Geo!First(v, p) = Geo!First(a, p)
<1>. DEFINE b == BlockSize(p)
            q == a \div b
            n == Pow2[p]
<1>1. b \in Nat \ {0} /\ n \in Nat /\ BlockSize(0) = b * n /\ b * n \in Nat \ {0}
  BY BlockSizes, Zenon
<1>2. Geo!Addr = 0..(b * n - 1)
  BY <1>1, GeoAddr
<1>3. a \in Nat /\ a < b * n
  BY <1>1, <1>2
<1>4. Geo!RangeOf(a, p) = [start |-> b * q, end |-> b * q + (b - 1)]
  <2>1. Geo!First(a, p) = b * q
    BY <1>3, GeoFirst, Zenon
  <2>2. [k \in 0..Bits(FALSE) |-> Pow2[Bits(FALSE) - k]][p] = b
    BY DEF BlockSize
  <2>. QED  BY <2>1, <2>2, Zenon DEF Geo!RangeOf
<1>. HIDE DEF b, n
<1>5. q \in Nat /\ q < n
  BY <1>1, <1>3, DivMod, DivBelow, Zenon
<1>6. b * q \in Nat /\ b * q + b <= b * n
  BY <1>1, <1>5
<1>7. b * q \in Geo!Addr /\ b * q + (b - 1) \in Geo!Addr /\ b * q <= b * q + (b - 1)
  BY <1>1, <1>2, <1>6
<1>8. ASSUME NEW v \in Geo!Addr
      PROVE  In(v, Geo!RangeOf(a, p)) <=> Geo!First(v, p) = Geo!First(a, p)
  <2>. DEFINE x == v \div b
              r == v % b
  <2>1. v \in Nat
    BY <1>1, <1>2
  <2>2. Geo!First(v, p) = b * x /\ Geo!First(a, p) = b * q
    BY <2>1, <1>3, GeoFirst, Zenon DEF b
  <2>3. x \in Nat /\ r \in 0..(b - 1) /\ v = b * x + r
    BY <1>1, <2>1, DivMod, Zenon
  <2>4. In(v, Geo!RangeOf(a, p)) <=> b * q <= v /\ v <= b * q + (b - 1)
    BY <1>4 DEF In
  <2>. HIDE DEF x, r, q
  <2>5. CASE x = q
    BY <1>1, <1>5, <1>6, <2>2, <2>3, <2>4, <2>5
  <2>6. CASE x < q
    <3>1. b * x + b <= b * q /\ b * x \in Nat
      BY <1>1, <1>5, <2>3, <2>6
    <3>. QED  BY <1>1, <1>6, <2>2, <2>3, <2>4, <3>1
  <2>7. CASE q < x
    <3>1. b * q + b <= b * x /\ b * x \in Nat
      BY <1>1, <1>5, <2>3, <2>7
    <3>. QED  BY <1>1, <1>6, <2>2, <2>3, <2>4, <3>1
  <2>. QED  BY <1>5, <2>3, <2>5, <2>6, <2>7
<1>. QED  BY <1>4, <1>7, <1>8 DEF GeoRange

\* The addresses are numbers up to the last one.
LEMMA AddrNat ==
  Geo!LastAddr \in Nat /\ \A v : v \in Geo!Addr <=> v \in Nat /\ v <= Geo!LastAddr
<1>1. BlockSize(0) \in Nat \ {0}
  <2>1. Bits(FALSE) \in Nat
    BY Widths, Zenon
  <2>2. \A n \in Nat : 0 \in 0..n
    OBVIOUS
  <2>. QED  BY <2>1, <2>2, BlockSizes, Zenon
<1>. QED  BY <1>1, GeoAddr

\* The addresses of the first n ranges of s, and of the blocks of the file.
Span(s, n) == {v \in Geo!Addr : \E i \in 1..n : In(v, s[i])}
Blocks == {v \in Geo!Addr : Geo!InSomeCidr(v)}

GeoTypes ==
  /\ geo_pc \in {"load", "merge", "ready"}
  /\ file \in Seq(Geo!Addr \X (0..Bits(FALSE)))
  /\ ranges \in Seq(GeoRange) /\ merged \in Seq(GeoRange) /\ next \in 1..(Len(ranges) + 1)

\* While the blocks are read, ranges follows the file.
Loading ==
  geo_pc = "load" =>
    /\ merged = <<>> /\ next = 1 /\ Len(ranges) <= Len(file)
    /\ \A i \in 1..Len(ranges) : ranges[i] = Geo!RangeOf(file[i][1], file[i][2])

\* Afterwards it has the addresses of the file, in order.
Loaded ==
  geo_pc # "load" => Span(ranges, Len(ranges)) = Blocks /\ Geo!SortedByStart(ranges)

\* merged has the addresses of the ranges before next, none touches the following
\* one, and the last starts before all the ranges that are left.
Merging ==
  /\ \A i \in 1..Len(ranges) : ranges[i].start <= ranges[i].end
  /\ \A i \in 1..Len(merged) : merged[i].start <= merged[i].end
  /\ Span(merged, Len(merged)) = Span(ranges, next - 1)
  /\ geo_pc = "merge" =>
       merged # <<>> /\ \A j \in next..Len(ranges) : merged[Len(merged)].start <= ranges[j].start
  /\ geo_pc = "ready" => next = Len(ranges) + 1
  /\ Geo!MergedApart

TableInv == GeoTypes /\ Loading /\ Loaded /\ Merging

\* The table is empty when the loader starts.
LEMMA TableInit ==
  ASSUME Geo!Init, file \in Seq(Geo!Addr \X (0..Bits(FALSE)))
  PROVE  TableInv
<1>1. ranges = <<>> /\ merged = <<>> /\ next = 1 /\ geo_pc = "load"
  BY DEF Geo!Init
<1>2. Len(ranges) = 0 /\ Len(merged) = 0 /\ 0 <= Len(file)
  BY <1>1
<1>3. GeoTypes
  BY <1>1, <1>2 DEF GeoTypes
<1>4. Span(merged, Len(merged)) = Span(ranges, next - 1)
  BY <1>1, <1>2 DEF Span
<1>. QED  BY <1>1, <1>2, <1>3, <1>4 DEF TableInv, Loading, Loaded, Merging, Geo!MergedApart

\* Reading a block: its range is the range of the CIDR.
LEMMA LoadStep ==
  ASSUME TableInv, Geo!Load
  PROVE  TableInv'
<1>. DEFINE n == Len(ranges)
            c == file[n + 1]
            r == Geo!RangeOf(c[1], c[2])
<1>1. /\ geo_pc = "load" /\ n < Len(file) /\ ranges' = Append(ranges, r)
      /\ file' = file /\ merged' = merged /\ next' = next /\ geo_pc' = geo_pc
  BY DEF Geo!Load
<1>2. /\ file \in Seq(Geo!Addr \X (0..Bits(FALSE))) /\ ranges \in Seq(GeoRange)
      /\ merged = <<>> /\ next = 1 /\ \A i \in 1..n : ranges[i] = Geo!RangeOf(file[i][1], file[i][2])
      /\ \A i \in 1..n : ranges[i].start <= ranges[i].end
  BY <1>1 DEF TableInv, GeoTypes, Loading, Merging
<1>3. c \in Geo!Addr \X (0..Bits(FALSE))
  <2>1. n + 1 \in 1..Len(file)
    BY <1>1, <1>2
  <2>. QED  BY <1>2, <2>1, ElementOfSeq, Zenon
<1>4. r \in GeoRange /\ r.start <= r.end
  BY <1>3, RangeOfCidr, Zenon
<1>. HIDE DEF r
<1>5. ranges' \in Seq(GeoRange) /\ Len(ranges') = n + 1 /\ ranges'[n + 1] = r
      /\ \A i \in 1..n : ranges'[i] = ranges[i]
  BY <1>1, <1>2, <1>4
<1>6. GeoTypes'
  BY <1>1, <1>2, <1>5 DEF GeoTypes
<1>7. Loading'
  <2>1. ASSUME NEW i \in 1..(n + 1)
        PROVE  ranges'[i] = Geo!RangeOf(file[i][1], file[i][2])
    BY <1>2, <1>5 DEF r
  <2>. QED  BY <1>1, <1>2, <1>5, <2>1 DEF Loading
<1>8. Merging'
  <2>1. \A i \in 1..(n + 1) : ranges'[i].start <= ranges'[i].end
    BY <1>2, <1>4, <1>5
  <2>2. merged' = <<>> /\ Len(merged') = 0 /\ next' - 1 = 0
    BY <1>1, <1>2
  <2>3. Span(merged, Len(merged))' = Span(ranges, next - 1)'
    BY <2>2 DEF Span
  <2>. QED  BY <1>1, <1>5, <2>1, <2>2, <2>3 DEF Merging, Geo!MergedApart
<1>. QED  BY <1>1, <1>6, <1>7, <1>8 DEF TableInv, Loaded

\* The ranges that have been read have the addresses of the file.
LEMMA RangesAreBlocks ==
  ASSUME TableInv, geo_pc = "load", Len(ranges) = Len(file)
  PROVE  Span(ranges, Len(ranges)) = Blocks
<1>1. /\ file \in Seq(Geo!Addr \X (0..Bits(FALSE)))
      /\ \A i \in 1..Len(file) : ranges[i] = Geo!RangeOf(file[i][1], file[i][2])
  BY DEF TableInv, GeoTypes, Loading
<1>2. ASSUME NEW v \in Geo!Addr, NEW i \in 1..Len(file)
      PROVE  In(v, ranges[i]) <=> Geo!First(v, file[i][2]) = Geo!First(file[i][1], file[i][2])
  <2>1. file[i] \in Geo!Addr \X (0..Bits(FALSE))
    BY <1>1, ElementOfSeq, Zenon
  <2>2. file[i][1] \in Geo!Addr /\ file[i][2] \in 0..Bits(FALSE)
    BY <2>1, Zenon
  <2>3. ranges[i] = Geo!RangeOf(file[i][1], file[i][2])
    BY <1>1
  <2>. QED  BY <2>2, <2>3, RangeOfCidr, Zenon
<1>3. ASSUME NEW v \in Geo!Addr
      PROVE  (\E i \in 1..Len(file) : In(v, ranges[i])) <=> Geo!InSomeCidr(v)
  BY <1>2, Zenon DEF Geo!InSomeCidr
<1>. QED  BY <1>3, Zenon DEF Span, Blocks

\* Sorting, in whatever order equal starts come out, loses no range; the merge
\* begins with the first one.
LEMMA SortStep ==
  ASSUME TableInv, Geo!Sort
  PROVE  TableInv'
<1>. DEFINE n == Len(ranges)
<1>1. geo_pc = "load" /\ n = Len(file) /\ file' = file
  BY DEF Geo!Sort
<1>2. /\ file \in Seq(Geo!Addr \X (0..Bits(FALSE))) /\ ranges \in Seq(GeoRange)
      /\ merged = <<>> /\ next = 1
      /\ \A i \in 1..n : ranges[i].start <= ranges[i].end
  BY <1>1 DEF TableInv, GeoTypes, Loading, Merging
<1>3. Span(ranges, n) = Blocks
  BY <1>1, RangesAreBlocks
<1>4. Blocks' = Blocks
  BY <1>1 DEF Blocks, Geo!InSomeCidr
<1>5. CASE ranges = <<>>
  <2>1. /\ geo_pc' = "ready" /\ ranges' = ranges /\ merged' = merged /\ next' = next
        /\ Len(ranges) = 0 /\ Len(ranges') = 0 /\ Len(merged') = 0
    BY <1>2, <1>5 DEF Geo!Sort
  <2>2. GeoTypes' /\ Loading'
    BY <1>1, <1>2, <2>1 DEF GeoTypes, Loading
  <2>3. Span(ranges, Len(ranges))' = Blocks'
    BY <1>3, <1>4, <2>1 DEF Span
  <2>4. Loaded'
    BY <2>1, <2>3 DEF Loaded, Geo!SortedByStart
  <2>5. Span(merged, Len(merged))' = Span(ranges, next - 1)'
    BY <1>2, <2>1 DEF Span
  <2>6. Merging'
    BY <1>2, <2>1, <2>5 DEF Merging, Geo!MergedApart
  <2>. QED  BY <2>2, <2>4, <2>6 DEF TableInv
<1>6. CASE ranges # <<>>
  <2>1. PICK order \in [1..n -> 1..n] :
          /\ \A i \in 1..n : \E j \in 1..n : order[j] = i
          /\ ranges' = [i \in 1..n |-> ranges[order[i]]]
    BY <1>6, Zenon DEF Geo!Sort
  <2>2. /\ Geo!SortedByStart(ranges') /\ merged' = <<ranges'[1]>> /\ next' = 2 /\ geo_pc' = "merge"
    BY <1>6 DEF Geo!Sort
  <2>3. n \in Nat /\ n >= 1
    BY <1>2, <1>6
  <2>4. /\ ranges' \in Seq(GeoRange) /\ Len(ranges') = n
        /\ \A i \in 1..n : ranges'[i] = ranges[order[i]]
    <3>1. \A i \in 1..n : ranges[order[i]] \in GeoRange
      BY <1>2, <2>1, ElementOfSeq, SMTT(20)
    <3>2. ranges' \in [1..n -> GeoRange]
      BY <2>1, <3>1, Zenon
    <3>3. ranges' \in Seq(GeoRange)
      BY <2>3, <3>2, FunctionIsSeq
    <3>. QED  BY <2>1, <2>3, <3>2, <3>3
  <2>5. ranges'[1] \in GeoRange
    BY <2>3, <2>4
  <2>6. merged' \in Seq(GeoRange) /\ Len(merged') = 1 /\ merged'[1] = ranges'[1] /\ merged' # <<>>
    BY <2>2, <2>5
  <2>7. GeoTypes'
    BY <1>1, <1>2, <2>2, <2>3, <2>4, <2>6 DEF GeoTypes
  <2>8. Span(ranges, Len(ranges))' = Span(ranges, n)
    <3>1. ASSUME NEW v
          PROVE  (\E i \in 1..n : In(v, ranges'[i])) <=> (\E i \in 1..n : In(v, ranges[i]))
      <4>1. ASSUME NEW i \in 1..n, In(v, ranges'[i])
            PROVE  \E k \in 1..n : In(v, ranges[k])
        BY <2>1, <2>4, <4>1, Zenon
      <4>2. ASSUME NEW k \in 1..n, In(v, ranges[k])
            PROVE  \E i \in 1..n : In(v, ranges'[i])
        <5>1. PICK j \in 1..n : order[j] = k
          BY <2>1
        <5>2. ranges'[j] = ranges[k]
          BY <2>4, <5>1
        <5>. QED  BY <4>2, <5>2
      <4>. QED  BY <4>1, <4>2
    <3>2. Span(ranges, Len(ranges))' = {v \in Geo!Addr : \E i \in 1..n : In(v, ranges'[i])}
      BY <2>4 DEF Span, In
    <3>. QED  BY <3>1, <3>2, Zenon DEF Span
  <2>9. Loaded'
    BY <1>3, <1>4, <2>2, <2>8 DEF Loaded, Geo!SortedByStart
  <2>10. Merging'
    <3>1. \A i \in 1..n : ranges'[i].start <= ranges'[i].end
      BY <1>2, <2>1, <2>4, Zenon
    <3>2. merged'[1].start <= merged'[1].end
      BY <2>3, <2>6, <3>1
    <3>3. Span(merged, Len(merged))' = Span(ranges, next - 1)'
      <4>1. next' - 1 = 1 /\ \A i \in 1..1 : merged'[i] = ranges'[i]
        BY <2>2, <2>6
      <4>. QED  BY <2>6, <4>1 DEF Span, In
    <3>4. \A j \in 2..n : merged'[1].start <= ranges'[j].start
      BY <2>2, <2>3, <2>4, <2>6 DEF Geo!SortedByStart
    <3>5. Geo!MergedApart'
      BY <2>6 DEF Geo!MergedApart
    <3>. QED  BY <2>2, <2>4, <2>6, <3>1, <3>2, <3>3, <3>4, <3>5 DEF Merging
  <2>11. Loading'
    BY <2>2 DEF Loading
  <2>. QED  BY <2>7, <2>9, <2>10, <2>11 DEF TableInv
<1>. QED  BY <1>5, <1>6

\* One range more adds its addresses.
LEMMA SpanNext ==
  ASSUME NEW s, NEW n \in Nat
  PROVE  Span(s, n + 1) = Span(s, n) \cup {v \in Geo!Addr : In(v, s[n + 1])}
<1>1. 1..(n + 1) = (1..n) \cup {n + 1}
  OBVIOUS
<1>. QED  BY <1>1, Zenon DEF Span

\* Merging a range into the table: it extends the last range when it touches it,
\* and begins a new one otherwise.
LEMMA MergeStep ==
  ASSUME TableInv, Geo!Merge
  PROVE  TableInv'
<1>. DEFINE n == Len(merged)
            b == merged[n]
            r == ranges[next]
            e == Geo!Extended(r, b)
<1>1. /\ geo_pc = "merge" /\ next <= Len(ranges) /\ next' = next + 1
      /\ file' = file /\ ranges' = ranges /\ geo_pc' = geo_pc
      /\ merged' = IF Geo!Touches(r, b) THEN [merged EXCEPT ![n] = e] ELSE Append(merged, r)
  BY DEF Geo!Merge
<1>2. /\ file \in Seq(Geo!Addr \X (0..Bits(FALSE))) /\ ranges \in Seq(GeoRange)
      /\ merged \in Seq(GeoRange) /\ next \in 1..(Len(ranges) + 1)
      /\ Span(ranges, Len(ranges)) = Blocks /\ Geo!SortedByStart(ranges)
  BY <1>1 DEF TableInv, GeoTypes, Loaded
<1>3. /\ \A i \in 1..Len(ranges) : ranges[i].start <= ranges[i].end
      /\ \A i \in 1..n : merged[i].start <= merged[i].end
      /\ Span(merged, n) = Span(ranges, next - 1) /\ Geo!MergedApart
      /\ merged # <<>> /\ \A j \in next..Len(ranges) : b.start <= ranges[j].start
  BY <1>1 DEF TableInv, Merging
<1>4. n \in Nat /\ n >= 1 /\ n \in 1..n /\ next \in 1..Len(ranges) /\ next - 1 \in Nat
      /\ Len(ranges) \in Nat
  BY <1>1, <1>2, <1>3
<1>5. b \in GeoRange /\ r \in GeoRange
  BY <1>2, <1>4, ElementOfSeq
<1>6. /\ b.start \in Nat /\ b.end \in Nat /\ r.start \in Nat /\ r.end \in Nat
      /\ b.start <= b.end /\ r.start <= r.end /\ b.start <= r.start /\ r.start <= Geo!LastAddr
  BY <1>3, <1>4, <1>5, AddrNat DEF GeoRange
<1>7. Span(ranges, (next + 1) - 1) = Span(ranges, next - 1) \cup {v \in Geo!Addr : In(v, r)}
  <2>1. (next + 1) - 1 = next /\ (next - 1) + 1 = next
    BY <1>4
  <2>. QED  BY <1>4, <2>1, SpanNext
<1>. HIDE DEF r, b, e
<1>8. SUFFICES
        /\ merged' \in Seq(GeoRange) /\ merged' # <<>>
        /\ \A i \in 1..Len(merged') : merged'[i].start <= merged'[i].end
        /\ {v \in Geo!Addr : \E i \in 1..Len(merged') : In(v, merged'[i])}
             = Span(merged, n) \cup {v \in Geo!Addr : In(v, r)}
        /\ \A j \in (next + 1)..Len(ranges) : merged'[Len(merged')].start <= ranges[j].start
        /\ \A i, j \in 1..Len(merged') : i < j => merged'[i].end + 1 < merged'[j].start
  <2>1. GeoTypes'
    BY <1>1, <1>2, <1>4, <1>8 DEF GeoTypes
  <2>2. Loading'
    BY <1>1 DEF Loading
  <2>3. Loaded'
    <3>1. Span(ranges, Len(ranges))' = Span(ranges, Len(ranges))
      BY <1>1 DEF Span, In
    <3>2. Blocks' = Blocks
      BY <1>1 DEF Blocks, Geo!InSomeCidr
    <3>3. Geo!SortedByStart(ranges)'
      BY <1>1, <1>2 DEF Geo!SortedByStart
    <3>. QED  BY <1>2, <3>1, <3>2, <3>3 DEF Loaded
  <2>4. Span(merged, Len(merged))' = Span(ranges, next - 1)'
    <3>1. Span(merged, Len(merged))' = Span(merged, n) \cup {v \in Geo!Addr : In(v, r)}
      BY <1>8 DEF Span, In
    <3>2. Span(ranges, next - 1)' = Span(ranges, (next + 1) - 1)
      BY <1>1 DEF Span, In
    <3>. QED  BY <1>3, <1>7, <3>1, <3>2
  <2>5. Geo!MergedApart'
    BY <1>8 DEF Geo!MergedApart
  <2>6. Merging'
    BY <1>1, <1>3, <1>8, <2>4, <2>5 DEF Merging
  <2>. QED  BY <2>1, <2>2, <2>3, <2>6 DEF TableInv
<1>9. CASE Geo!Touches(r, b)
  <2>1. e.start = b.start /\ e.end = IF b.end >= r.end THEN b.end ELSE r.end
    BY DEF e, Geo!Extended
  <2>2. e \in GeoRange
    BY <1>5, <2>1 DEF e, Geo!Extended, GeoRange
  <2>3. merged' = [merged EXCEPT ![n] = e]
    BY <1>1, <1>9
  <2>4. /\ merged' \in Seq(GeoRange) /\ Len(merged') = n /\ merged'[n] = e /\ merged' # <<>>
        /\ \A i \in 1..(n - 1) : merged'[i] = merged[i]
    BY <1>2, <1>4, <2>2, <2>3
  <2>5. r.start <= b.end + 1
    BY <1>6, <1>9 DEF Geo!Touches
  <2>6. ASSUME NEW v \in Geo!Addr
        PROVE  In(v, e) <=> In(v, b) \/ In(v, r)
    BY <1>6, <2>1, <2>5, AddrNat DEF In
  <2>7. 1..n = 1..(n - 1) \cup {n}
    BY <1>4
  <2>8. \A i \in 1..n : merged'[i].start <= merged'[i].end
    <3>1. e.start <= e.end
      BY <1>6, <2>1
    <3>. QED  BY <1>3, <2>4, <2>7, <3>1
  <2>9. ASSUME NEW v \in Geo!Addr
        PROVE  (\E i \in 1..n : In(v, merged'[i])) <=> (\E i \in 1..n : In(v, merged[i])) \/ In(v, r)
    BY <2>4, <2>6, <2>7 DEF b
  <2>10. {v \in Geo!Addr : \E i \in 1..n : In(v, merged'[i])}
             = Span(merged, n) \cup {v \in Geo!Addr : In(v, r)}
    BY <2>9, Zenon DEF Span
  <2>11. ASSUME NEW i \in 1..n, NEW j \in 1..n, i < j
         PROVE  merged'[i].end + 1 < merged'[j].start
    <3>1. i \in 1..(n - 1) /\ merged'[i] = merged[i]
      BY <1>4, <2>4, <2>11
    <3>2. merged'[j].start = merged[j].start
      BY <2>1, <2>4, <2>7 DEF b
    <3>. QED  BY <1>3, <2>11, <3>1, <3>2 DEF Geo!MergedApart
  <2>12. \A j \in (next + 1)..Len(ranges) : merged'[n].start <= ranges[j].start
    BY <1>3, <1>4, <2>1, <2>4
  <2>. QED  BY <2>4, <2>8, <2>10, <2>11, <2>12
<1>10. CASE ~Geo!Touches(r, b)
  <2>1. merged' = Append(merged, r)
    BY <1>1, <1>10
  <2>2. /\ merged' \in Seq(GeoRange) /\ Len(merged') = n + 1 /\ merged'[n + 1] = r /\ merged' # <<>>
        /\ \A i \in 1..n : merged'[i] = merged[i]
    BY <1>2, <1>5, <2>1
  <2>3. b.end + 1 < r.start
    BY <1>6, <1>10, AddrNat DEF Geo!Touches
  <2>4. 1..(n + 1) = (1..n) \cup {n + 1}
    BY <1>4
  <2>5. \A i \in 1..(n + 1) : merged'[i].start <= merged'[i].end
    BY <1>3, <1>6, <2>2, <2>4
  <2>6. ASSUME NEW v \in Geo!Addr
        PROVE  (\E i \in 1..(n + 1) : In(v, merged'[i])) <=> (\E i \in 1..n : In(v, merged[i])) \/ In(v, r)
    BY <2>2, <2>4, Zenon
  <2>7. {v \in Geo!Addr : \E i \in 1..(n + 1) : In(v, merged'[i])}
             = Span(merged, n) \cup {v \in Geo!Addr : In(v, r)}
    BY <2>6, Zenon DEF Span
  <2>8. ASSUME NEW i \in 1..n
        PROVE  merged[i].end + 1 < r.start
    <3>1. merged[i] \in GeoRange /\ merged[i].end \in Nat
      <4>1. merged[i] \in GeoRange
        BY <1>2, ElementOfSeq
      <4>. QED  BY <4>1, AddrNat DEF GeoRange
    <3>2. CASE i = n
      BY <2>3, <3>2 DEF b
    <3>3. CASE i < n
      <4>1. merged[i].end + 1 < b.start
        BY <1>3, <1>4, <3>3 DEF Geo!MergedApart, b
      <4>. QED  BY <1>6, <3>1, <4>1
    <3>. QED  BY <1>4, <3>2, <3>3
  <2>9. ASSUME NEW i \in 1..(n + 1), NEW j \in 1..(n + 1), i < j
        PROVE  merged'[i].end + 1 < merged'[j].start
    <3>1. i \in 1..n /\ merged'[i] = merged[i]
      BY <1>4, <2>2, <2>9
    <3>2. CASE j = n + 1
      BY <2>2, <2>8, <3>1, <3>2
    <3>3. CASE j \in 1..n
      BY <1>3, <2>2, <2>9, <3>1, <3>3 DEF Geo!MergedApart
    <3>. QED  BY <2>4, <3>2, <3>3
  <2>10. \A j \in (next + 1)..Len(ranges) : merged'[n + 1].start <= ranges[j].start
    BY <1>2, <1>4, <2>2 DEF Geo!SortedByStart, r
  <2>. QED  BY <2>2, <2>5, <2>7, <2>9, <2>10
<1>. QED  BY <1>9, <1>10

\* The end of the merge.
LEMMA FinishStep ==
  ASSUME TableInv, Geo!Finish
  PROVE  TableInv'
<1>1. /\ geo_pc = "merge" /\ next > Len(ranges) /\ geo_pc' = "ready"
      /\ file' = file /\ ranges' = ranges /\ merged' = merged /\ next' = next
  BY DEF Geo!Finish
<1>2. GeoTypes' /\ Loading'
  BY <1>1 DEF TableInv, GeoTypes, Loading
<1>3. Loaded'
  BY <1>1 DEF TableInv, Loaded, Span, In, Blocks, Geo!InSomeCidr, Geo!SortedByStart
<1>4. next = Len(ranges) + 1
  BY <1>1 DEF TableInv, GeoTypes
<1>5. Merging'
  BY <1>1, <1>4 DEF TableInv, Merging, Span, In, Geo!MergedApart
<1>. QED  BY <1>2, <1>3, <1>5 DEF TableInv

\* The loader keeps its invariant, and so do the steps that leave the table alone.
LEMMA TableNext ==
  ASSUME TableInv, Geo!Next \/ UNCHANGED geo
  PROVE  TableInv'
<1>1. CASE UNCHANGED geo
  <2>1. file' = file /\ ranges' = ranges /\ merged' = merged /\ next' = next /\ geo_pc' = geo_pc
    BY <1>1 DEF geo
  <2>2. GeoTypes' /\ Loading'
    BY <2>1 DEF TableInv, GeoTypes, Loading
  <2>3. Loaded'
    BY <2>1 DEF TableInv, Loaded, Span, In, Blocks, Geo!InSomeCidr, Geo!SortedByStart
  <2>4. Merging'
    BY <2>1 DEF TableInv, Merging, Span, In, Geo!MergedApart
  <2>. QED  BY <2>2, <2>3, <2>4 DEF TableInv
<1>. QED  BY <1>1, LoadStep, SortStep, MergeStep, FinishStep DEF Geo!Next

\* In a table whose ranges are in order and apart, the range before the upper bound
\* of v is the only one that can hold v.
LEMMA MatchIsSpan ==
  ASSUME TableInv, NEW v \in Geo!Addr
  PROVE  Geo!match(v) <=> v \in Span(merged, Len(merged))
<1>. DEFINE n == Len(merged)
<1>1. merged \in Seq(GeoRange) /\ n \in Nat
  BY DEF TableInv, GeoTypes
<1>2. \A i \in 1..n : merged[i].start \in Nat /\ merged[i].end \in Nat
  <2>1. \A i \in 1..n : merged[i] \in GeoRange
    BY <1>1, ElementOfSeq
  <2>. QED  BY <2>1, AddrNat DEF GeoRange
<1>3. /\ \A i \in 1..n : merged[i].start <= merged[i].end
      /\ \A i, j \in 1..n : i < j => merged[i].end + 1 < merged[j].start
  BY DEF TableInv, Merging, Geo!MergedApart
<1>4. v \in Nat
  BY AddrNat
<1>5. ASSUME Geo!match(v)
      PROVE  v \in Span(merged, n)
  <2>1. PICK u \in 2..(n + 1) : merged[u - 1].start <= v /\ v <= merged[u - 1].end
    BY <1>5 DEF Geo!match
  <2>2. u - 1 \in 1..n
    BY <1>1
  <2>. QED  BY <2>1, <2>2 DEF Span, In
<1>6. ASSUME v \in Span(merged, n)
      PROVE  Geo!match(v)
  <2>1. PICK i \in 1..n : merged[i].start <= v /\ v <= merged[i].end
    BY <1>6 DEF Span, In
  <2>2. i + 1 \in 2..(n + 1) /\ (i + 1) - 1 = i
    BY <1>1
  <2>3. ASSUME NEW j \in 1..n, j < i + 1
        PROVE  merged[j].start <= v
    <3>1. CASE j = i
      BY <2>1, <3>1
    <3>2. CASE j < i
      <4>1. merged[j].start <= merged[j].end /\ merged[j].end + 1 < merged[i].start
        BY <1>3, <3>2
      <4>. QED  BY <1>2, <1>4, <2>1, <4>1
    <3>. QED  BY <2>3, <3>1, <3>2
  <2>4. ASSUME NEW j \in 1..n, j >= i + 1
        PROVE  merged[j].start > v
    <3>1. merged[i].end + 1 < merged[j].start
      BY <1>3, <2>4
    <3>. QED  BY <1>2, <1>4, <2>1, <3>1
  <2>5. Geo!UpperBound(i + 1, v)
    BY <2>3, <2>4 DEF Geo!UpperBound
  <2>. QED  BY <2>1, <2>2, <2>5 DEF Geo!match
<1>. QED  BY <1>5, <1>6

\* The finished table answers as the blocks of the file do.
LEMMA TableIsExact ==
  ASSUME TableInv
  PROVE  TableExact /\ Geo!TypeOK
<1>1. Geo!MergedApart
  BY DEF TableInv, Merging
<1>2. ASSUME geo_pc = "ready", NEW v \in Geo!Addr
      PROVE  Geo!match(v) <=> Geo!InSomeCidr(v)
  <2>1. next = Len(ranges) + 1 /\ Len(ranges) \in Nat
    BY <1>2 DEF TableInv, Merging, GeoTypes
  <2>2. next - 1 = Len(ranges)
    BY <2>1
  <2>3. Span(merged, Len(merged)) = Span(ranges, Len(ranges))
    BY <2>2 DEF TableInv, Merging
  <2>4. Span(ranges, Len(ranges)) = Blocks
    BY <1>2 DEF TableInv, Loaded
  <2>. QED  BY <2>3, <2>4, MatchIsSpan DEF Blocks
<1>3. Geo!TypeOK
  BY DEF TableInv, GeoTypes, Geo!TypeOK, GeoRange
<1>. QED  BY <1>1, <1>2, <1>3 DEF TableExact, Geo!MatchExact
-----------------------------------------------------------------------------
(***************************************************************************)
(* Bits and prefixes.                                                      *)
(***************************************************************************)
\* What is left of x, a number of w bits, when only its first r bits are kept; and
\* its k-th bit from the left.
Top(w, x, r) == x \div Pow2[w - r]
BitOf(w, x, k) == Top(w, x, k) % 2

\* One bit more.
LEMMA TopNext ==
  ASSUME NEW w \in Nat, NEW x \in Nat, NEW r \in 0..(w - 1)
  PROVE  /\ Top(w, x, r) \in Nat /\ BitOf(w, x, r + 1) \in 0..1
         /\ Top(w, x, r + 1) = 2 * Top(w, x, r) + BitOf(w, x, r + 1)
<1>. DEFINE m == w - (r + 1)
            t == x \div Pow2[m]
<1>1. m \in Nat /\ m + 1 = w - r
  OBVIOUS
<1>. HIDE DEF m
<1>2. Pow2[m] \in Nat \ {0} /\ Pow2[m + 1] = 2 * Pow2[m]
  BY <1>1, Pow2Def
<1>3. t \in Nat
  BY <1>2, DivMod, Zenon
<1>4. t \div 2 = x \div Pow2[m + 1]
  <2>1. t \div 2 = x \div (Pow2[m] * 2)
    BY <1>2, DivDiv
  <2>2. Pow2[m] * 2 = 2 * Pow2[m]
    BY <1>2
  <2>. QED  BY <1>2, <2>1, <2>2
<1>5. Top(w, x, r) = t \div 2
  BY <1>1, <1>4 DEF Top
<1>6. Top(w, x, r + 1) = t /\ BitOf(w, x, r + 1) = t % 2
  BY DEF Top, BitOf, m
<1>. HIDE DEF t
<1>7. t \div 2 \in Nat /\ (t % 2) \in 0..1 /\ t = 2 * (t \div 2) + (t % 2)
  BY <1>3
<1>. QED  BY <1>5, <1>6, <1>7

\* Two numbers of w bits have the same first r bits when what is left of them is the same.
LEMMA TopBits ==
  ASSUME NEW w \in Nat, NEW x \in 0..(Pow2[w] - 1), NEW y \in 0..(Pow2[w] - 1), NEW r \in 0..w
  PROVE  Top(w, x, r) = Top(w, y, r) <=> \A k \in 1..r : BitOf(w, x, k) = BitOf(w, y, k)
<1>. DEFINE T == {n \in 0..w : Top(w, x, n) = Top(w, y, n)
                                 <=> \A k \in 1..n : BitOf(w, x, k) = BitOf(w, y, k)}
<1>0. x \in Nat /\ y \in Nat
  BY Pow2Def
<1>1. 0 \in T
  <2>1. Pow2[w] \in Nat \ {0} /\ w - 0 = w
    BY Pow2Def
  <2>2. \A p \in Nat \ {0} : \A z \in 0..(p - 1) : z \div p = 0
    OBVIOUS
  <2>3. x \div Pow2[w] = 0 /\ y \div Pow2[w] = 0
    BY <2>1, <2>2
  <2>. QED  BY <2>1, <2>3 DEF Top
<1>2. ASSUME NEW n \in 0..w, n \in T, n # w
      PROVE  n + 1 \in T
  <2>1. n \in 0..(w - 1)
    BY <1>2
  <2>2. /\ Top(w, x, n) \in Nat /\ BitOf(w, x, n + 1) \in 0..1
        /\ Top(w, x, n + 1) = 2 * Top(w, x, n) + BitOf(w, x, n + 1)
        /\ Top(w, y, n) \in Nat /\ BitOf(w, y, n + 1) \in 0..1
        /\ Top(w, y, n + 1) = 2 * Top(w, y, n) + BitOf(w, y, n + 1)
    BY <1>0, <2>1, TopNext, Zenon
  <2>3. Top(w, x, n + 1) = Top(w, y, n + 1)
          <=> Top(w, x, n) = Top(w, y, n) /\ BitOf(w, x, n + 1) = BitOf(w, y, n + 1)
    BY <2>2
  <2>4. 1..(n + 1) = (1..n) \cup {n + 1} /\ n + 1 \in 0..w
    BY <2>1
  <2>. QED  BY <1>2, <2>3, <2>4, Zenon
<1>. HIDE DEF T
<1>3. 0..w \subseteq T
  BY <1>1, <1>2, InductUpTo
<1>. QED  BY <1>3 DEF T

\* The byte of an address that has its k-th bit, and where in the byte.
LEMMA BitPlace ==
  ASSUME NEW k \in Nat \ {0}
  PROVE  LET i == (k - 1) \div ByteBits + 1
             j == ((k - 1) % ByteBits) + 1
         IN /\ i \in Nat \ {0} /\ j \in 1..ByteBits /\ k = ByteBits * (i - 1) + j
            /\ \A a : Bit(a, k) = BitOf(ByteBits, a[i], j)
<1>. DEFINE q == (k - 1) \div ByteBits
            r == (k - 1) % ByteBits
<1>1. ByteBits \in Nat \ {0} /\ k - 1 \in Nat
  BY Widths
<1>2. q \in Nat /\ r \in 0..(ByteBits - 1) /\ k - 1 = ByteBits * q + r
  BY <1>1, DivMod, Zenon
<1>3. ASSUME NEW a
      PROVE  Bit(a, k) = BitOf(ByteBits, a[q + 1], r + 1)
  <2>1. ByteBits - 1 - r = ByteBits - (r + 1)
    BY <1>1, <1>2
  <2>. QED  BY <2>1 DEF Bit, BitOf, Top
<1>. HIDE DEF q, r
<1>4. q + 1 \in Nat \ {0} /\ (q + 1) - 1 = q /\ r + 1 \in 1..ByteBits /\ ByteBits * q \in Nat
  BY <1>1, <1>2
<1>5. k = ByteBits * q + (r + 1)
  BY <1>1, <1>2, <1>4
<1>. QED  BY <1>3, <1>4, <1>5 DEF q, r

\* And back: the j-th bit of the i-th byte.
LEMMA BitAt ==
  ASSUME NEW i \in Nat \ {0}, NEW j \in 1..ByteBits, NEW a
  PROVE  /\ ByteBits * (i - 1) + j \in Nat \ {0}
         /\ Bit(a, ByteBits * (i - 1) + j) = BitOf(ByteBits, a[i], j)
<1>. DEFINE b == ByteBits * (i - 1)
<1>1. ByteBits \in Nat \ {0} /\ i - 1 \in Nat /\ j - 1 \in 0..(ByteBits - 1)
  BY Widths
<1>2. (b + (j - 1)) \div ByteBits = i - 1 /\ ((b + (j - 1)) % ByteBits) = j - 1
  BY <1>1, DivUnique, Zenon
<1>3. b \in Nat
  BY <1>1
<1>. HIDE DEF b
<1>4. (b + j) - 1 = b + (j - 1) /\ b + j \in Nat \ {0} /\ (i - 1) + 1 = i
      /\ ByteBits - 1 - (j - 1) = ByteBits - j
  BY <1>1, <1>3
<1>5. Bit(a, b + j) = BitOf(ByteBits, a[i], j)
  BY <1>2, <1>4, Zenon DEF Bit, BitOf, Top
<1>. QED  BY <1>4, <1>5 DEF b

\* The bytes of an address are bytes.
LEMMA AddressBytes ==
  ASSUME NEW v6 \in BOOLEAN, NEW a \in Address(v6), NEW i \in 1..Bytes(v6)
  PROVE  a[i] \in 0..(Pow2[ByteBits] - 1)
BY DEF Address

\* bitsEqual, which compares bytes and the top of one more, compares the first
\* prefix bits one by one.
LEMMA BitsEqualIsBits ==
  ASSUME NEW v6 \in BOOLEAN, NEW a \in Address(v6), NEW b \in Address(v6), NEW p \in 0..Bits(v6)
  PROVE  bitsEqual(a, b, p) <=> \A k \in 1..p : Bit(a, k) = Bit(b, k)
<1>. DEFINE w == ByteBits
            n == Bytes(v6)
            full == p \div w
            rem == p % w
            Rest == rem = 0 \/ Top(w, a[full + 1], rem) = Top(w, b[full + 1], rem)
<1>1. w \in Nat \ {0} /\ n \in Nat \ {0} /\ Bits(v6) = w * n /\ w * n \in Nat
  BY Widths
<1>2. p \in Nat /\ p <= w * n
  BY <1>1
<1>3. full \in Nat /\ rem \in 0..(w - 1) /\ p = w * full + rem
  BY <1>1, <1>2, DivMod, Zenon
<1>4. bitsEqual(a, b, p) <=> (\A i \in 1..full : a[i] = b[i]) /\ Rest
  BY DEF bitsEqual, Top
<1>. HIDE DEF full, rem, w, n
<1>5. w * full \in Nat
  BY <1>1, <1>3
<1>6. full <= n /\ (rem # 0 => full + 1 <= n)
  <2>1. ASSUME n < full PROVE FALSE
    <3>1. w * n + w <= w * full
      BY <1>1, <1>3, <2>1
    <3>. QED  BY <1>1, <1>2, <1>3, <1>5, <3>1
  <2>2. ASSUME rem # 0, n = full PROVE FALSE
    BY <1>1, <1>2, <1>3, <1>5, <2>2
  <2>. QED  BY <1>1, <1>3, <2>1, <2>2
<1>7. ASSUME NEW i \in 1..n
      PROVE  a[i] \in 0..(Pow2[w] - 1) /\ b[i] \in 0..(Pow2[w] - 1)
  BY AddressBytes DEF n, w
<1>8. ASSUME NEW i \in 1..n, NEW r \in 0..w
      PROVE  Top(w, a[i], r) = Top(w, b[i], r)
               <=> \A j \in 1..r : BitOf(w, a[i], j) = BitOf(w, b[i], j)
  <2>1. a[i] \in 0..(Pow2[w] - 1) /\ b[i] \in 0..(Pow2[w] - 1) /\ w \in Nat
    BY <1>1, <1>7
  <2>. QED  BY <2>1, TopBits
<1>9. ASSUME \A i \in 1..full : a[i] = b[i], Rest, NEW k \in 1..p
      PROVE  Bit(a, k) = Bit(b, k)
  <2>1. PICK i \in Nat \ {0}, j \in 1..w :
          k = w * (i - 1) + j /\ \A c : Bit(c, k) = BitOf(w, c[i], j)
    <3>1. k \in Nat \ {0}
      BY <1>2
    <3>. QED  BY <3>1, BitPlace, Zenon DEF w
  <2>2. SUFFICES BitOf(w, a[i], j) = BitOf(w, b[i], j)
    BY <2>1
  <2>3. CASE i <= full
    BY <1>9, <1>3, <2>3
  <2>4. CASE i > full + 1
    <3>1. w * full + w <= w * (i - 1) /\ w * (i - 1) \in Nat
      BY <1>1, <1>3, <2>4
    <3>. QED  BY <1>1, <1>2, <1>3, <1>5, <2>1, <3>1
  <2>5. CASE i = full + 1
    <3>1. i - 1 = full
      BY <1>3, <2>5
    <3>2. j <= rem
      BY <1>1, <1>2, <1>3, <1>5, <2>1, <3>1
    <3>3. rem # 0 /\ i \in 1..n /\ rem \in 0..w /\ j \in 1..rem
      BY <1>1, <1>3, <1>6, <2>5, <3>2
    <3>4. Top(w, a[i], rem) = Top(w, b[i], rem)
      BY <1>9, <2>5, <3>3
    <3>. QED  BY <1>8, <3>3, <3>4
  <2>. QED  BY <1>3, <2>3, <2>4, <2>5
<1>10. ASSUME \A k \in 1..p : Bit(a, k) = Bit(b, k)
       PROVE  (\A i \in 1..full : a[i] = b[i]) /\ Rest
  <2>1. ASSUME NEW i \in Nat \ {0}, NEW j \in 1..w, w * (i - 1) + j <= p
        PROVE  BitOf(w, a[i], j) = BitOf(w, b[i], j)
    <3>1. /\ w * (i - 1) + j \in Nat \ {0}
          /\ Bit(a, w * (i - 1) + j) = BitOf(w, a[i], j)
          /\ Bit(b, w * (i - 1) + j) = BitOf(w, b[i], j)
      BY BitAt DEF w
    <3>2. w * (i - 1) + j \in 1..p
      BY <1>2, <2>1, <3>1
    <3>. QED  BY <1>10, <3>1, <3>2
  <2>2. ASSUME NEW i \in 1..full
        PROVE  a[i] = b[i]
    <3>1. i \in Nat \ {0} /\ i - 1 \in Nat /\ i - 1 < full /\ i \in 1..n
      BY <1>1, <1>3, <1>6
    <3>2. w * (i - 1) + w <= w * full /\ w * (i - 1) \in Nat
      BY <1>1, <1>3, <3>1
    <3>3. \A j \in 1..w : w * (i - 1) + j <= p
      BY <1>1, <1>2, <1>3, <1>5, <3>2
    <3>4. \A j \in 1..w : BitOf(w, a[i], j) = BitOf(w, b[i], j)
      BY <2>1, <3>1, <3>3
    <3>5. Top(w, a[i], w) = Top(w, b[i], w)
      <4>1. w \in 0..w
        BY <1>1
      <4>. QED  BY <1>8, <3>1, <3>4, <4>1
    <3>6. a[i] \in Nat /\ b[i] \in Nat
      BY <1>1, <1>7, <3>1, Pow2Def
    <3>7. w - w = 0 /\ Pow2[0] = 1
      BY <1>1, Pow2Def
    <3>8. \A x \in Nat : x \div 1 = x
      OBVIOUS
    <3>. QED  BY <3>5, <3>6, <3>7, <3>8 DEF Top
  <2>3. ASSUME rem # 0
        PROVE  Top(w, a[full + 1], rem) = Top(w, b[full + 1], rem)
    <3>1. full + 1 \in Nat \ {0} /\ full + 1 \in 1..n /\ (full + 1) - 1 = full /\ rem \in 0..w
      BY <1>1, <1>3, <1>6, <2>3
    <3>2. \A j \in 1..rem : j \in 1..w /\ w * full + j <= p
      BY <1>1, <1>2, <1>3, <1>5
    <3>3. \A j \in 1..rem : BitOf(w, a[full + 1], j) = BitOf(w, b[full + 1], j)
      BY <2>1, <3>1, <3>2
    <3>. QED  BY <1>8, <3>1, <3>3
  <2>. QED  BY <2>2, <2>3
<1>. QED  BY <1>4, <1>9, <1>10

\* The values toU32 takes on, byte by byte.
IsPartial(a, f) ==
  f = [i \in 0..Len(a) |-> IF i = 0 THEN 0 ELSE f[i - 1] * Pow2[ByteBits] + a[i]]
Partial(a) == CHOOSE f : IsPartial(a, f)

\* They exist, and toU32 is the last of them.
LEMMA PartialSums ==
  ASSUME NEW n \in Nat, NEW a \in [1..n -> 0..(Pow2[ByteBits] - 1)]
  PROVE  /\ toU32(a) = Partial(a)[n] /\ Partial(a)[0] = 0
         /\ \A i \in 1..n : Partial(a)[i] = Partial(a)[i - 1] * Pow2[ByteBits] + a[i]
<1>. DEFINE M == Pow2[ByteBits]
            h == [x \in Nat \X Nat |-> x[2] * M + (IF x[1] < n THEN a[x[1] + 1] ELSE 0)]
<1>1. M \in Nat \ {0}
  BY Widths, Pow2Def, Zenon
<1>. HIDE DEF M
<1>2. Len(a) = n
  BY FunctionIsSeq
<1>3. h \in Steps(Nat) /\ 0 \in Nat
  <2>1. ASSUME NEW x \in Nat \X Nat
        PROVE  x[2] * M + (IF x[1] < n THEN a[x[1] + 1] ELSE 0) \in Nat
    <3>1. x[1] \in Nat /\ x[2] \in Nat /\ x[2] * M \in Nat
      BY <1>1
    <3>2. x[1] < n => a[x[1] + 1] \in Nat
      BY <1>1, <3>1 DEF M
    <3>. QED  BY <3>1, <3>2
  <2>. QED  BY <2>1 DEF Steps
<1>4. ASSUME NEW i \in Nat, NEW v \in Nat, i < n
      PROVE  h[<<i, v>>] = v * M + a[i + 1]
  BY <1>4
<1>. HIDE DEF h
<1>5. PICK f \in [Nat -> Nat] : f[0] = 0 /\ \A i \in Nat : f[i + 1] = h[<<i, f[i]>>]
  <2>1. Iterations(Nat, 0, h) # {}
    BY <1>3, Recursion, Zenon
  <2>. QED  BY <2>1, Zenon DEF Iterations
<1>. DEFINE g == [i \in 0..n |-> f[i]]
<1>6. ASSUME NEW i \in 0..n
      PROVE  f[i] = IF i = 0 THEN 0 ELSE g[i - 1] * M + a[i]
  <2>1. CASE i = 0
    BY <1>5, <2>1
  <2>2. CASE i # 0
    <3>1. i - 1 \in Nat /\ i - 1 < n /\ (i - 1) + 1 = i /\ i - 1 \in 0..n
      BY <2>2
    <3>2. f[(i - 1) + 1] = f[i - 1] * M + a[(i - 1) + 1]
      BY <1>4, <1>5, <3>1, Zenon
    <3>. QED  BY <2>2, <3>1, <3>2
  <2>. QED  BY <2>1, <2>2
<1>7. IsPartial(a, g)
  BY <1>2, <1>6, Zenon DEF IsPartial, M
<1>8. IsPartial(a, Partial(a))
  BY <1>7, Zenon DEF Partial
<1>9. ASSUME NEW i \in 0..n
      PROVE  Partial(a)[i] = IF i = 0 THEN 0 ELSE Partial(a)[i - 1] * Pow2[ByteBits] + a[i]
  BY <1>2, <1>8, Zenon DEF IsPartial
<1>10. toU32(a) = Partial(a)[n]
  BY <1>2 DEF toU32, Partial, IsPartial
<1>11. 0 \in 0..n /\ \A i \in 1..n : i \in 0..n /\ i # 0
  OBVIOUS
<1>. QED  BY <1>9, <1>10, <1>11, Zenon

\* The bits of the number are the bits of the bytes, in order.
LEMMA ToU32Bits ==
  ASSUME NEW a \in Address(FALSE)
  PROVE  /\ toU32(a) \in 0..(Pow2[Bits(FALSE)] - 1)
         /\ \A k \in 1..Bits(FALSE) : NumBit(toU32(a), k) = Bit(a, k)
<1>. DEFINE w == ByteBits
            n == Bytes(FALSE)
            M == Pow2[w]
            N == Partial(a)
<1>1. w \in Nat \ {0} /\ n \in Nat \ {0} /\ Bits(FALSE) = w * n
  BY Widths, Zenon
<1>2. M \in Nat \ {0} /\ a \in [1..n -> 0..(M - 1)]
  BY <1>1, Pow2Def, Zenon DEF Address
<1>3. toU32(a) = N[n] /\ N[0] = 0 /\ \A i \in 1..n : N[i] = N[i - 1] * M + a[i]
  BY <1>1, <1>2, PartialSums, Zenon
<1>. HIDE DEF N, n, M, w
<1>4. \A i \in 0..n : w * i \in Nat /\ Pow2[w * i] \in Nat \ {0}
  <2>1. \A i \in 0..n : w * i \in Nat
    BY <1>1
  <2>. QED  BY <2>1, Pow2Def
<1>5. ASSUME NEW i \in 0..n, i # n
      PROVE  /\ i + 1 \in 0..n /\ N[i + 1] = N[i] * M + a[i + 1] /\ a[i + 1] \in 0..(M - 1)
             /\ Pow2[w * (i + 1)] = Pow2[w * i] * M
  <2>1. i + 1 \in 1..n /\ (i + 1) - 1 = i
    BY <1>1, <1>5
  <2>2. w * (i + 1) = w * i + w /\ w * i \in Nat /\ w \in Nat
    BY <1>1
  <2>3. Pow2[w * i + w] = Pow2[w * i] * Pow2[w]
    BY <2>2, Pow2Add
  <2>. QED  BY <1>2, <1>3, <2>1, <2>2, <2>3 DEF M
\* Every partial value has as many bits as the bytes it has taken.
<1>6. \A i \in 0..n : N[i] \in 0..(Pow2[w * i] - 1)
  <2>. DEFINE T == {i \in 0..n : N[i] \in 0..(Pow2[w * i] - 1)}
  <2>1. 0 \in T
    <3>1. w * 0 = 0 /\ Pow2[0] = 1 /\ 0 \in 0..n
      BY <1>1, Pow2Def
    <3>. QED  BY <1>3, <3>1
  <2>2. ASSUME NEW i \in 0..n, i \in T, i # n
        PROVE  i + 1 \in T
    <3>. DEFINE P == Pow2[w * i]
                x == N[i]
                c == a[i + 1]
    <3>1. P \in Nat \ {0} /\ x \in 0..(P - 1) /\ c \in 0..(M - 1)
      BY <1>4, <1>5, <2>2
    <3>2. i + 1 \in 0..n /\ N[i + 1] = x * M + c /\ Pow2[w * (i + 1)] = P * M
      BY <1>5, <2>2
    <3>. HIDE DEF P, x, c
    <3>3. x * M + M <= P * M /\ x * M \in Nat /\ P * M \in Nat
      BY <1>2, <3>1
    <3>4. x * M + c \in 0..(P * M - 1)
      BY <1>2, <3>1, <3>3
    <3>. QED  BY <3>2, <3>4
  <2>. HIDE DEF T
  <2>3. 0..n \subseteq T
    BY <1>1, <2>1, <2>2, InductUpTo
  <2>. QED  BY <2>3 DEF T
\* The first i bytes are what is left when the others are shifted out.
<1>7. ASSUME NEW i \in 0..n
      PROVE  \A m \in 0..n : m >= i => N[m] \div Pow2[w * (m - i)] = N[i]
  <2>. DEFINE T == {m \in 0..n : m >= i => N[m] \div Pow2[w * (m - i)] = N[i]}
  <2>1. \A m \in 0..n : N[m] \in Nat
    BY <1>4, <1>6
  <2>2. i \in T
    <3>1. i - i = 0 /\ w * 0 = 0 /\ Pow2[0] = 1
      BY <1>1, Pow2Def
    <3>2. \A x \in Nat : x \div 1 = x
      OBVIOUS
    <3>. QED  BY <2>1, <3>1, <3>2
  <2>3. 0 \in T
    BY <1>1, <2>2
  <2>4. ASSUME NEW m \in 0..n, m \in T, m # n
        PROVE  m + 1 \in T
    <3>1. CASE m + 1 < i
      BY <1>1, <2>4, <3>1
    <3>2. CASE m + 1 = i
      BY <2>2, <3>2
    <3>3. CASE m >= i
      <4>. DEFINE d == m - i
      <4>1. d \in 0..n /\ d # n /\ (m + 1) - i = d + 1 /\ N[m] \div Pow2[w * d] = N[i]
        BY <1>1, <2>4, <3>3
      <4>. HIDE DEF d
      <4>2. Pow2[w * (d + 1)] = Pow2[w * d] * M /\ Pow2[w * d] \in Nat \ {0}
        BY <1>4, <1>5, <4>1
      <4>3. N[m + 1] = M * N[m] + a[m + 1] /\ a[m + 1] \in 0..(M - 1) /\ N[m] \in Nat /\ N[m + 1] \in Nat
            /\ m + 1 \in 0..n
        BY <1>2, <1>5, <2>1, <2>4
      <4>4. N[m + 1] \div M = N[m]
        <5>1. (M * N[m] + a[m + 1]) \div M = N[m]
          <6>. DEFINE q == N[m]  r == a[m + 1]
          <6>1. M \in Nat \ {0} /\ q \in Nat /\ r \in 0..(M - 1)
            BY <1>2, <4>3
          <6>. HIDE DEF M, q, r
          <6>2. (M * q + r) \div M = q
            BY <6>1, DivUnique, Zenon
          <6>. QED  BY <6>2, Zenon DEF q, r
        <5>. QED  BY <4>3, <5>1, Zenon
      <4>5. (N[m + 1] \div M) \div Pow2[w * d] = N[m + 1] \div (M * Pow2[w * d])
        BY <1>2, <4>2, <4>3, DivDiv, Zenon
      <4>6. M * Pow2[w * d] = Pow2[w * d] * M
        BY <1>2, <4>2
      <4>7. N[m + 1] \div Pow2[w * ((m + 1) - i)] = N[i]
        BY <4>1, <4>2, <4>4, <4>5, <4>6
      <4>. QED  BY <4>3, <4>7
    <3>. QED  BY <3>1, <3>2, <3>3
  <2>. HIDE DEF T
  <2>5. 0..n \subseteq T
    BY <1>1, <2>3, <2>4, InductUpTo
  <2>. QED  BY <2>5 DEF T
<1>8. ASSUME NEW k \in 1..Bits(FALSE)
      PROVE  NumBit(toU32(a), k) = Bit(a, k)
  <2>0. k \in Nat /\ w * n \in Nat /\ k <= w * n
    <3>1. k \in 1..(w * n)
      BY <1>1, Zenon
    <3>2. w * n \in Nat
      BY <1>1
    <3>. QED  BY <3>1, <3>2
  <2>1. PICK i \in Nat \ {0}, j \in 1..w :
          k = w * (i - 1) + j /\ \A c : Bit(c, k) = BitOf(w, c[i], j)
    <3>1. k \in Nat \ {0}
      BY <1>1
    <3>. QED  BY <3>1, BitPlace, Zenon DEF w
  <2>. DEFINE t == w - j
              P == Pow2[t]
              Q == Pow2[j - 1]
              x == N[i - 1]
              d == w * (n - i)
  <2>2. i <= n
    <3>1. ASSUME n < i PROVE FALSE
      <4>1. n <= i - 1 /\ i - 1 \in Nat
        BY <1>1, <3>1
      <4>2. w * n <= w * (i - 1) /\ w * n \in Nat /\ w * (i - 1) \in Nat
        BY <1>1, <4>1
      <4>. QED  BY <1>1, <2>0, <2>1, <4>2
    <3>. QED  BY <1>1, <3>1
  <2>3. t \in Nat /\ j - 1 \in Nat /\ n - i \in 0..n /\ i \in 1..n /\ i \in 0..n /\ i - 1 \in 0..n
    BY <1>1, <2>2
  <2>4. d \in Nat /\ Pow2[d] \in Nat \ {0}
    BY <1>4, <2>3
  <2>5. P \in Nat \ {0} /\ Q \in Nat \ {0} /\ M = P * (2 * Q)
    <3>1. w = t + j /\ j = (j - 1) + 1 /\ j \in Nat
      BY <1>1
    <3>2. Pow2[t + j] = P * Pow2[j] /\ Pow2[(j - 1) + 1] = 2 * Q
      BY <2>3, <3>1, Pow2Add, Pow2Def, Zenon
    <3>. QED  BY <2>3, <3>1, <3>2, Pow2Def DEF M
  <2>6. Bits(FALSE) - k = d + t
    <3>1. w * n = w * (i - 1) + w * (n - i) + w /\ w * (i - 1) \in Nat /\ w * n \in Nat
      BY <1>1, <2>3
    <3>2. w * n - k = d + t
      BY <1>1, <2>0, <2>1, <2>4, <3>1
    <3>. QED  BY <1>1, <3>2, Zenon
  <2>7. N[n] \in Nat /\ x \in Nat /\ N[i] = M * x + a[i] /\ a[i] \in Nat
    <3>1. n \in 0..n
      BY <1>1
    <3>2. N[n] \in Nat /\ x \in Nat
      BY <1>4, <1>6, <2>3, <3>1
    <3>3. N[i] = x * M + a[i] /\ a[i] \in 0..(M - 1)
      BY <1>2, <1>3, <2>3, SMTT(20)
    <3>. QED  BY <1>2, <3>2, <3>3
  <2>8. N[n] \div Pow2[d] = N[i]
    BY <1>1, <1>7, <2>3
  <2>. HIDE DEF t, P, Q, x, d
  <2>9. N[n] \div Pow2[d + t] = N[i] \div P
    <3>1. Pow2[d + t] = Pow2[d] * P
      BY <2>3, <2>4, Pow2Add DEF P
    <3>. QED  BY <2>4, <2>5, <2>7, <2>8, <3>1, DivDiv
  <2>10. N[i] \div P = 2 * (Q * x) + a[i] \div P
    <3>. DEFINE s == a[i] \div P
                r == a[i] % P
    <3>1. s \in Nat /\ r \in 0..(P - 1) /\ a[i] = P * s + r
      BY <2>5, <2>7, DivMod, Zenon
    <3>. HIDE DEF s, r
    <3>2. Q * x \in Nat /\ 2 * (Q * x) + s \in Nat
      BY <2>5, <2>7, <3>1
    <3>3. (P * (2 * Q)) * x = P * (2 * (Q * x))
      BY <2>5, <2>7
    <3>4. P * (2 * (Q * x)) + P * s = P * (2 * (Q * x) + s)
      BY <2>5, <3>1, <3>2
    <3>5. N[i] = P * (2 * (Q * x) + s) + r
      <4>1. P * (2 * (Q * x)) \in Nat /\ P * s \in Nat
        BY <2>5, <3>1, <3>2
      <4>. QED  BY <2>5, <2>7, <3>1, <3>3, <3>4, <4>1
    <3>6. N[i] \div P = 2 * (Q * x) + s
      BY <2>5, <3>1, <3>2, <3>5, DivUnique
    <3>. QED  BY <3>6 DEF s
  <2>11. (N[i] \div P) % 2 = (a[i] \div P) % 2
    <3>1. Q * x \in Nat /\ a[i] \div P \in Nat
      BY <2>5, <2>7, DivMod
    <3>2. \A y \in Nat, s \in Nat : (2 * y + s) % 2 = s % 2
      OBVIOUS
    <3>. QED  BY <2>10, <3>1, <3>2
  <2>12. Bit(a, k) = (a[i] \div P) % 2
    BY <2>1 DEF BitOf, Top, P, t
  <2>13. NumBit(toU32(a), k) = (N[n] \div Pow2[d + t]) % 2
    BY <1>3, <2>6, Zenon DEF NumBit
  <2>. QED  BY <2>9, <2>11, <2>12, <2>13
<1>9. n \in 0..n
  BY <1>1
<1>. QED  BY <1>1, <1>3, <1>6, <1>8, <1>9, Zenon

\* The blocks of the file, bit by bit.
LEMMA CidrBits ==
  ASSUME NEW x \in Geo!Addr, NEW y \in Geo!Addr, NEW p \in 0..Bits(FALSE)
  PROVE  Geo!First(x, p) = Geo!First(y, p) <=> \A k \in 1..p : NumBit(x, k) = NumBit(y, k)
<1>. DEFINE w == Bits(FALSE)
            b == BlockSize(p)
<1>1. w \in Nat /\ p \in 0..w /\ BlockSize(0) = Pow2[w] /\ b \in Nat \ {0}
  <2>1. w \in Nat
    BY Widths, Zenon
  <2>2. \A n \in Nat : n - 0 = n
    OBVIOUS
  <2>. QED  BY <2>1, <2>2, BlockSizes, Zenon DEF BlockSize
<1>2. x \in 0..(Pow2[w] - 1) /\ y \in 0..(Pow2[w] - 1)
  BY <1>1, GeoAddr, Zenon
<1>3. x \in Nat /\ y \in Nat
  BY AddrNat
<1>4. Geo!First(x, p) = b * (x \div b) /\ Geo!First(y, p) = b * (y \div b)
  BY <1>3, GeoFirst, Zenon
<1>5. Top(w, x, p) = x \div b /\ Top(w, y, p) = y \div b
  BY DEF Top, BlockSize
<1>6. \A z, k : BitOf(w, z, k) = NumBit(z, k)
  BY DEF BitOf, Top, NumBit
<1>. HIDE DEF w, b
<1>7. x \div b \in Nat /\ y \div b \in Nat
  BY <1>1, <1>3, DivMod, Zenon
<1>8. b * (x \div b) = b * (y \div b) <=> x \div b = y \div b
  BY <1>1, <1>7
<1>9. Top(w, x, p) = Top(w, y, p) <=> \A k \in 1..p : BitOf(w, x, k) = BitOf(w, y, k)
  BY <1>1, <1>2, TopBits
<1>. QED  BY <1>4, <1>5, <1>6, <1>8, <1>9
-----------------------------------------------------------------------------
(***************************************************************************)
(* Domains and their parents.                                              *)
(***************************************************************************)
\* A sequence is the tail of d from i just when it has its length and its elements.
LEMMA TailOf ==
  ASSUME NEW d \in Seq(STRING), NEW i \in 1..(Len(d) + 1), NEW s \in Seq(STRING)
  PROVE  s = SubSeq(d, i, Len(d))
           <=> Len(s) = Len(d) - i + 1 /\ \A k \in 1..Len(s) : s[k] = d[i + k - 1]
<1>. DEFINE m == Len(d)
            t == SubSeq(d, i, m)
<1>1. m \in Nat
  OBVIOUS
<1>3. /\ t \in Seq(STRING) /\ Len(t) = m - i + 1
      /\ \A k \in 1..(m - i + 1) : t[k] = d[i + k - 1]
  BY TailFromProperties
<1>. HIDE DEF m, t
<1>4. Len(t) = m - i + 1
  BY <1>1, <1>3 DEF m
<1>5. ASSUME Len(s) = m - i + 1, \A k \in 1..Len(s) : s[k] = d[i + k - 1]
      PROVE  s = t
  <2>1. Len(s) = Len(t) /\ \A k \in 1..Len(s) : s[k] = t[k]
    BY <1>3, <1>4, <1>5
  <2>. QED  BY <1>3, <2>1, SeqEqual
<1>6. ASSUME s = t
      PROVE  Len(s) = m - i + 1 /\ \A k \in 1..Len(s) : s[k] = d[i + k - 1]
  BY <1>3, <1>4, <1>6
<1>. QED  BY <1>5, <1>6 DEF m, t

\* The label tails of d, by where they start.
LEMMA LabelTailAt ==
  ASSUME NEW d \in Seq(STRING), NEW s \in Seq(STRING)
  PROVE  s \in LabelTails(d)
           <=> LET i == Len(d) - Len(s) + 1
               IN /\ Len(s) <= Len(d) /\ (i = 1 \/ d[i - 1] = ".")
                  /\ \A k \in 1..Len(s) : s[k] = d[i + k - 1]
<1>. DEFINE m == Len(d)
            i == m - Len(s) + 1
<1>1. m \in Nat /\ Len(s) \in Nat
  OBVIOUS
<1>2. ASSUME s \in LabelTails(d)
      PROVE  /\ Len(s) <= m /\ (i = 1 \/ d[i - 1] = ".")
             /\ \A k \in 1..Len(s) : s[k] = d[i + k - 1]
  <2>1. PICK j \in 1..(m + 1) : (j = 1 \/ d[j - 1] = ".") /\ s = SubSeq(d, j, m)
    BY <1>2 DEF LabelTails
  <2>2. Len(s) = m - j + 1 /\ \A k \in 1..Len(s) : s[k] = d[j + k - 1]
    BY <2>1, TailOf
  <2>3. j = i /\ Len(s) <= m
    BY <1>1, <2>2
  <2>. QED  BY <2>1, <2>2, <2>3
<1>3. ASSUME Len(s) <= m, i = 1 \/ d[i - 1] = ".", \A k \in 1..Len(s) : s[k] = d[i + k - 1]
      PROVE  s \in LabelTails(d)
  <2>1. i \in 1..(m + 1) /\ Len(s) = m - i + 1
    BY <1>1, <1>3
  <2>2. s = SubSeq(d, i, m)
    BY <1>3, <2>1, TailOf
  <2>. QED  BY <1>3, <2>1, <2>2, Zenon DEF LabelTails
<1>. QED  BY <1>2, <1>3

\* endsWithSuffix, on characters, is UnderSuffix, on labels.
LEMMA SuffixIsParent ==
  ASSUME NEW d \in Seq(STRING), NEW suf \in Seq(STRING)
  PROVE  endsWithSuffix(d, suf) <=> UnderSuffix(d, suf)
<1>. DEFINE m == Len(d)
            l == Len(suf)
<1>1. m \in Nat /\ l \in Nat
  OBVIOUS
<1>2. SUFFICES ASSUME suf # <<>> PROVE endsWithSuffix(d, suf) <=> UnderSuffix(d, suf)
  BY DEF endsWithSuffix, UnderSuffix
<1>3. l >= 1 /\ suf[1] = Head(suf)
  BY <1>2
<1>4. EndsWith(d, suf) <=> l <= m /\ \A k \in 1..l : suf[k] = d[m - l + k]
  <2>1. CASE l <= m
    <3>1. m - l + 1 \in 1..(m + 1) /\ l = m - (m - l + 1) + 1
      BY <1>1, <2>1
    <3>2. \A k \in 1..l : m - l + 1 + k - 1 = m - l + k
      BY <1>1
    <3>3. suf = SubSeq(d, m - l + 1, m) <=> \A k \in 1..l : suf[k] = d[m - l + 1 + k - 1]
      BY <3>1, TailOf, Zenon
    <3>. QED  BY <2>1, <3>2, <3>3 DEF EndsWith
  <2>. QED  BY <2>1 DEF EndsWith
<1>5. CASE Head(suf) # "."
  <2>1. suf \in LabelTails(d)
          <=> /\ l <= m /\ (m - l + 1 = 1 \/ d[m - l + 1 - 1] = ".")
              /\ \A k \in 1..l : suf[k] = d[m - l + 1 + k - 1]
    BY LabelTailAt
  <2>2. (m - l + 1 = 1 <=> m = l) /\ m - l + 1 - 1 = m - l /\ \A k \in 1..l : m - l + 1 + k - 1 = m - l + k
    BY <1>1
  <2>3. endsWithSuffix(d, suf) <=> EndsWith(d, suf) /\ (m = l \/ d[m - l] = ".")
    BY <1>2, <1>5 DEF endsWithSuffix
  <2>4. UnderSuffix(d, suf) <=> suf \in LabelTails(d)
    BY <1>2, <1>5 DEF UnderSuffix
  <2>. QED  BY <1>4, <2>1, <2>2, <2>3, <2>4
<1>6. CASE Head(suf) = "."
  <2>. DEFINE t == Tail(suf)
  <2>1. t \in Seq(STRING) /\ Len(t) = l - 1 /\ \A k \in 1..(l - 1) : t[k] = suf[k + 1]
    BY <1>2, TailProperties
  <2>. HIDE DEF t
  <2>2. t \in LabelTails(d)
          <=> /\ l - 1 <= m /\ (m - (l - 1) + 1 = 1 \/ d[m - (l - 1) + 1 - 1] = ".")
              /\ \A k \in 1..(l - 1) : t[k] = d[m - (l - 1) + 1 + k - 1]
    <3>1. t \in LabelTails(d)
            <=> /\ Len(t) <= m /\ (m - Len(t) + 1 = 1 \/ d[m - Len(t) + 1 - 1] = ".")
                /\ \A k \in 1..Len(t) : t[k] = d[m - Len(t) + 1 + k - 1]
      <4>1. ASSUME NEW s \in Seq(STRING)
            PROVE  s \in LabelTails(d)
                     <=> /\ Len(s) <= m /\ (m - Len(s) + 1 = 1 \/ d[m - Len(s) + 1 - 1] = ".")
                         /\ \A k \in 1..Len(s) : s[k] = d[m - Len(s) + 1 + k - 1]
        BY LabelTailAt
      <4>. QED  BY <2>1, <4>1, Zenon
    <3>. QED  BY <2>1, <3>1, Zenon
  <2>3. /\ m - (l - 1) + 1 - 1 = m - l + 1
        /\ \A k \in 1..(l - 1) : m - (l - 1) + 1 + k - 1 = m - l + (k + 1)
    BY <1>1
  <2>4. endsWithSuffix(d, suf) <=> EndsWith(d, suf)
    BY <1>2, <1>6 DEF endsWithSuffix
  <2>5. UnderSuffix(d, suf) <=> t \in LabelTails(d) /\ t # d
    BY <1>2, <1>6 DEF UnderSuffix, t
  <2>6. ASSUME EndsWith(d, suf)
        PROVE  t \in LabelTails(d) /\ t # d
    <3>1. l <= m /\ \A k \in 1..l : suf[k] = d[m - l + k]
      BY <1>4, <2>6
    <3>2. d[m - l + 1] = "."
      BY <1>1, <1>3, <1>6, <3>1
    <3>3. ASSUME NEW k \in 1..(l - 1)
          PROVE  t[k] = d[m - l + (k + 1)]
      <4>1. k + 1 \in 1..l
        BY <1>1
      <4>. QED  BY <2>1, <3>1, <4>1
    <3>4. l - 1 <= m /\ l - 1 # m
      BY <1>1, <3>1
    <3>. QED  BY <2>1, <2>2, <2>3, <3>2, <3>3, <3>4
  <2>7. ASSUME t \in LabelTails(d), t # d
        PROVE  EndsWith(d, suf)
    <3>1. l - 1 # m
      <4>1. ASSUME l - 1 = m PROVE FALSE
        <5>1. \A k \in 1..m : m - l + (k + 1) = k
          BY <1>1, <4>1
        <5>2. \A k \in 1..m : t[k] = d[k]
          BY <2>2, <2>3, <2>7, <4>1, <5>1
        <5>3. t = d
          BY <2>1, <4>1, <5>2, SeqEqual
        <5>. QED  BY <2>7, <5>3
      <4>. QED  BY <4>1
    <3>2. l - 1 <= m /\ l <= m /\ m - (l - 1) + 1 # 1
      BY <1>1, <2>2, <2>7, <3>1
    <3>3. d[m - l + 1] = "."
      BY <2>2, <2>3, <2>7, <3>2
    <3>4. ASSUME NEW k \in 1..l
          PROVE  suf[k] = d[m - l + k]
      <4>1. CASE k = 1
        BY <1>3, <1>6, <3>3, <4>1
      <4>2. CASE k # 1
        <5>1. k - 1 \in 1..(l - 1) /\ (k - 1) + 1 = k
          BY <1>1, <4>2
        <5>2. t[k - 1] = suf[k] /\ t[k - 1] = d[m - l + ((k - 1) + 1)]
          BY <2>1, <2>2, <2>3, <2>7, <5>1
        <5>. QED  BY <5>1, <5>2
      <4>. QED  BY <4>1, <4>2
    <3>. QED  BY <1>4, <3>2, <3>4
  <2>. QED  BY <2>4, <2>5, <2>6, <2>7
<1>. QED  BY <1>5, <1>6

\* The dots of d from i on, and the first of them.
Dots(d, i) == {k \in i..Len(d) : d[k] = "."}
FirstDot(d, i) == CHOOSE k \in Dots(d, i) : \A m \in Dots(d, i) : k <= m

\* One of the tails of d that begin at i or behind a later dot is among the suffixes.
TailFrom(d, suffixes, i) ==
  \E j \in i..(Len(d) + 1) : (j = i \/ d[j - 1] = ".") /\ SubSeq(d, j, Len(d)) \in suffixes

\* What a round of the loop looks at and what it leaves.
LEMMA WalkRound ==
  ASSUME NEW d \in Seq(STRING), NEW suffixes, NEW i \in 1..(Len(d) + 1)
  PROVE  /\ Dots(d, i) # {} => FirstDot(d, i) \in i..Len(d)
         /\ TailFrom(d, suffixes, i)
              <=> \/ SubSeq(d, i, Len(d)) \in suffixes
                  \/ Dots(d, i) # {} /\ TailFrom(d, suffixes, FirstDot(d, i) + 1)
<1>. DEFINE m == Len(d)
            D == Dots(d, i)
            f == FirstDot(d, i)
<1>1. m \in Nat /\ D \subseteq Nat /\ \A k : k \in D <=> k \in i..m /\ d[k] = "."
  BY DEF Dots
<1>2. D # {} => f \in D /\ \A k \in D : f <= k
  <2>1. ASSUME D # {} PROVE \E x \in D : \A y \in D : x <= y
    BY <1>1, <2>1, LeastNat
  <2>. QED  BY <2>1, Zenon DEF FirstDot
<1>. HIDE DEF m, D, f
<1>3. ASSUME TailFrom(d, suffixes, i), SubSeq(d, i, m) \notin suffixes
      PROVE  D # {} /\ TailFrom(d, suffixes, f + 1)
  <2>1. PICK j \in i..(m + 1) : (j = i \/ d[j - 1] = ".") /\ SubSeq(d, j, m) \in suffixes
    BY <1>3 DEF TailFrom, m
  <2>2. j # i /\ d[j - 1] = "."
    BY <1>3, <2>1
  <2>3. j - 1 \in i..m
    BY <1>1, <2>2
  <2>4. j - 1 \in D /\ f \in D /\ f <= j - 1
    BY <1>1, <1>2, <2>2, <2>3
  <2>5. j \in (f + 1)..(m + 1)
    BY <1>1, <2>1, <2>4
  <2>. QED  BY <2>1, <2>2, <2>4, <2>5 DEF TailFrom, m
<1>4. ASSUME SubSeq(d, i, m) \in suffixes
      PROVE  TailFrom(d, suffixes, i)
  <2>1. i \in i..(m + 1)
    BY <1>1 DEF m
  <2>. QED  BY <1>4, <2>1 DEF TailFrom, m
<1>5. ASSUME D # {}, TailFrom(d, suffixes, f + 1)
      PROVE  TailFrom(d, suffixes, i)
  <2>1. PICK j \in (f + 1)..(m + 1) : (j = f + 1 \/ d[j - 1] = ".") /\ SubSeq(d, j, m) \in suffixes
    BY <1>5 DEF TailFrom, m
  <2>2. f \in i..m /\ d[f] = "."
    BY <1>1, <1>2, <1>5
  <2>3. j \in i..(m + 1) /\ (f + 1) - 1 = f
    BY <1>1, <2>1, <2>2
  <2>4. d[j - 1] = "."
    BY <2>1, <2>2, <2>3
  <2>. QED  BY <2>1, <2>3, <2>4 DEF TailFrom, m
<1>6. D # {} => f \in i..m
  BY <1>1, <1>2
<1>. QED  BY <1>3, <1>4, <1>5, <1>6 DEF m, D, f

\* What Walk of WalkFinds satisfies.
IsWalk(d, suffixes, f) ==
  f = [i \in 1..(Len(d) + 1) |->
         \/ SubSeq(d, i, Len(d)) \in suffixes
         \/ Dots(d, i) # {} /\ f[FirstDot(d, i) + 1]]

\* The loop of GeoSiteMatcher::match finds a suffix just when the domain or one of
\* its parents is one.
LEMMA WalkIsTails ==
  ASSUME NEW d \in Seq(STRING), NEW suffixes
  PROVE  WalkFinds(d, suffixes) <=> LabelTails(d) \cap suffixes # {}
<1>. DEFINE m == Len(d)
            W == CHOOSE f : IsWalk(d, suffixes, f)
            g == [i \in 1..(m + 1) |-> TailFrom(d, suffixes, i)]
<1>1. m \in Nat
  OBVIOUS
<1>2. IsWalk(d, suffixes, g)
  <2>1. ASSUME NEW i \in 1..(m + 1)
        PROVE  TailFrom(d, suffixes, i)
                 <=> \/ SubSeq(d, i, m) \in suffixes
                     \/ Dots(d, i) # {} /\ g[FirstDot(d, i) + 1]
    <3>1. Dots(d, i) # {} => FirstDot(d, i) + 1 \in 1..(m + 1)
      <4>1. Dots(d, i) # {} => FirstDot(d, i) \in i..m
        BY WalkRound, Zenon
      <4>. QED  BY <1>1, <4>1
    <3>2. Dots(d, i) # {} => (g[FirstDot(d, i) + 1] <=> TailFrom(d, suffixes, FirstDot(d, i) + 1))
      BY <3>1
    <3>. QED  BY <3>2, WalkRound, Zenon
  <2>2. \A i \in 1..(m + 1) : TailFrom(d, suffixes, i)
           = (\/ SubSeq(d, i, m) \in suffixes
              \/ Dots(d, i) # {} /\ g[FirstDot(d, i) + 1])
    BY <2>1, Zenon DEF TailFrom
  <2>. HIDE DEF g
  <2>3. g = [i \in 1..(m + 1) |->
               \/ SubSeq(d, i, m) \in suffixes
               \/ Dots(d, i) # {} /\ g[FirstDot(d, i) + 1]]
    BY <2>2, Zenon DEF g
  <2>. QED  BY <2>3, Zenon DEF IsWalk
<1>3. IsWalk(d, suffixes, W)
  BY <1>2, Zenon
<1>4. WalkFinds(d, suffixes) = W[1]
  BY DEF WalkFinds, IsWalk, Dots, FirstDot
<1>. HIDE DEF W, g
<1>5. ASSUME NEW i \in 1..(m + 1)
      PROVE  W[i] <=> \/ SubSeq(d, i, m) \in suffixes
                      \/ Dots(d, i) # {} /\ W[FirstDot(d, i) + 1]
  BY <1>3, Zenon DEF IsWalk
<1>6. \A i \in 1..(m + 1) : W[i] <=> TailFrom(d, suffixes, i)
  <2>. DEFINE T == {n \in 0..m : \A i \in 1..(m + 1) : i >= m + 1 - n => (W[i] <=> TailFrom(d, suffixes, i))}
  <2>1. ASSUME NEW i \in 1..(m + 1),
               \A j \in 1..(m + 1) : j > i => (W[j] <=> TailFrom(d, suffixes, j))
        PROVE  W[i] <=> TailFrom(d, suffixes, i)
    <3>1. Dots(d, i) # {} => FirstDot(d, i) + 1 \in 1..(m + 1) /\ FirstDot(d, i) + 1 > i
      <4>1. Dots(d, i) # {} => FirstDot(d, i) \in i..m
        BY WalkRound, Zenon
      <4>. QED  BY <1>1, <4>1
    <3>2. Dots(d, i) # {} => (W[FirstDot(d, i) + 1] <=> TailFrom(d, suffixes, FirstDot(d, i) + 1))
      BY <2>1, <3>1
    <3>. QED  BY <1>5, <3>2, WalkRound, Zenon
  <2>2. 0 \in T
    <3>1. ASSUME NEW i \in 1..(m + 1), i >= m + 1 - 0
          PROVE  W[i] <=> TailFrom(d, suffixes, i)
      <4>1. \A j \in 1..(m + 1) : ~(j > i)
        BY <1>1, <3>1
      <4>. QED  BY <2>1, <4>1
    <3>. QED  BY <1>1, <3>1
  <2>3. ASSUME NEW n \in 0..m, n \in T, n # m
        PROVE  n + 1 \in T
    <3>1. ASSUME NEW i \in 1..(m + 1), i >= m + 1 - (n + 1)
          PROVE  W[i] <=> TailFrom(d, suffixes, i)
      <4>1. \A j \in 1..(m + 1) : j > i => (W[j] <=> TailFrom(d, suffixes, j))
        BY <1>1, <2>3, <3>1
      <4>. QED  BY <2>1, <4>1
    <3>2. n + 1 \in 0..m
      BY <1>1, <2>3
    <3>. QED  BY <3>1, <3>2
  <2>. HIDE DEF T
  <2>4. 0..m \subseteq T
    BY <1>1, <2>2, <2>3, InductUpTo
  <2>5. m \in T
    BY <1>1, <2>4
  <2>. QED  BY <1>1, <2>5 DEF T
<1>7. TailFrom(d, suffixes, 1) <=> LabelTails(d) \cap suffixes # {}
  BY Zenon DEF TailFrom, LabelTails
<1>8. 1 \in 1..(m + 1)
  BY <1>1
<1>. QED  BY <1>4, <1>6, <1>7, <1>8
-----------------------------------------------------------------------------
(***************************************************************************)
(* Rules: the compiled form matches what the written form covers.          *)
(***************************************************************************)
CidrTyped(c) ==
  c.v6 \in BOOLEAN /\ c.host \in Address(c.v6) /\ c.prefix \in Int /\ c.prefix < PrefixMod

RuleTyped(rc) ==
  /\ DOMAIN rc = {"inbound_tag", "domain_exact", "domain_suffix", "geosite", "cidrs", "geoip",
                  "outbound_tag"}
  /\ rc.domain_suffix \subseteq Seq(STRING) /\ \A c \in rc.cidrs : CidrTyped(c)

\* The address of a request has the length of its kind.
LEMMA RequestAddress ==
  ASSUME NEW q \in Requests, q.kind # "domain"
  PROVE  \/ q.kind = "v4" /\ (q.kind = "v6") = FALSE /\ q.addr \in Address(FALSE)
         \/ q.kind = "v6" /\ (q.kind = "v6") = TRUE /\ q.addr \in Address(TRUE)
<1>1. q.kind \in {"v4", "v6"} /\ q.addr \in Address(q.kind = "v6")
  BY RequestsAssumption
<1>2. CASE q.kind = "v4"
  <2>1. (q.kind = "v6") = FALSE
    BY <1>2
  <2>. QED  BY <1>1, <1>2, <2>1, Zenon
<1>3. CASE q.kind = "v6"
  <2>1. (q.kind = "v6") = TRUE
    BY <1>3
  <2>. QED  BY <1>1, <1>3, <2>1, Zenon
<1>. QED  BY <1>1, <1>2, <1>3, Zenon

\* The prefix length kept is the one written, or the whole address.
LEMMA PrefixKept ==
  ASSUME NEW c, CidrTyped(c), CidrOk(c)
  PROVE  PrefixLen(c) \in 0..Bits(c.v6) /\ PrefixLen(c) = IF c.prefix < 0 THEN Bits(c.v6) ELSE c.prefix
<1>. DEFINE b == Bits(c.v6)
<1>1. b \in Nat
  BY Widths DEF CidrTyped
<1>2. PrefixMod \in Nat \ {0} /\ c.prefix \in Int /\ c.prefix < PrefixMod
  BY WidthsAssumption DEF CidrTyped
<1>3. PrefixLen(c) <= b /\ PrefixLen(c) = IF c.prefix < 0 THEN b ELSE c.prefix % PrefixMod
  BY DEF CidrOk, PrefixLen
<1>. HIDE DEF b
<1>4. c.prefix >= 0 => c.prefix % PrefixMod = c.prefix
  BY <1>2
<1>5. PrefixLen(c) \in 0..b /\ PrefixLen(c) = IF c.prefix < 0 THEN b ELSE c.prefix
  BY <1>1, <1>2, <1>3, <1>4
<1>. QED  BY <1>5 DEF b

\* A compiled CIDR contains the addresses that share its bits.
LEMMA CidrExact ==
  ASSUME NEW c, CidrTyped(c), CidrOk(c), NEW q \in Requests, q.kind # "domain"
  PROVE  contains(parseCidr(c), q.addr, q.kind = "v6") <=> InCidr(c, q)
<1>. DEFINE p == PrefixLen(c)
<1>1. p \in 0..Bits(c.v6) /\ p = IF c.prefix < 0 THEN Bits(c.v6) ELSE c.prefix
  BY PrefixKept
<1>2. contains(parseCidr(c), q.addr, q.kind = "v6")
        <=> c.v6 = (q.kind = "v6") /\ bitsEqual(c.host, q.addr, p)
  BY DEF contains, parseCidr
<1>3. InCidr(c, q) <=> c.v6 = (q.kind = "v6") /\ \A k \in 1..p : Bit(c.host, k) = Bit(q.addr, k)
  BY <1>1 DEF InCidr
<1>4. ASSUME c.v6 = (q.kind = "v6")
      PROVE  bitsEqual(c.host, q.addr, p) <=> \A k \in 1..p : Bit(c.host, k) = Bit(q.addr, k)
  <2>1. q.addr \in Address(c.v6)
    <3>1. q.addr \in Address(q.kind = "v6")
      BY RequestsAssumption
    <3>. QED  BY <1>4, <3>1, Zenon
  <2>2. c.v6 \in BOOLEAN /\ c.host \in Address(c.v6)
    BY DEF CidrTyped
  <2>. HIDE DEF p
  <2>. QED  BY <1>1, <2>1, <2>2, BitsEqualIsBits, Zenon
<1>. QED  BY <1>2, <1>3, <1>4, Zenon

\* The table contains an IPv4 address that shares the bits of some block of the file.
LEMMA GeoIpExact ==
  ASSUME TableInv, geo_pc = "ready", NEW a \in Address(FALSE)
  PROVE  Geo!match(toU32(a))
           <=> \E i \in 1..Len(file) : \A k \in 1..file[i][2] : Bit(a, k) = NumBit(file[i][1], k)
<1>. DEFINE v == toU32(a)
<1>1. v \in 0..(Pow2[Bits(FALSE)] - 1) /\ \A k \in 1..Bits(FALSE) : NumBit(v, k) = Bit(a, k)
  BY ToU32Bits, Zenon
<1>2. v \in Geo!Addr
  <2>1. BlockSize(0) = Pow2[Bits(FALSE)]
    <3>1. Bits(FALSE) \in Nat
      BY Widths, Zenon
    <3>2. \A n \in Nat : n - 0 = n
      OBVIOUS
    <3>. QED  BY <3>1, <3>2, Zenon DEF BlockSize
  <2>. QED  BY <1>1, <2>1, GeoAddr, Zenon
<1>. HIDE DEF v
<1>3. Geo!match(v) <=> Geo!InSomeCidr(v)
  BY <1>2, TableIsExact, SMTT(20) DEF TableExact, Geo!MatchExact
<1>4. ASSUME NEW i \in 1..Len(file)
      PROVE  Geo!First(v, file[i][2]) = Geo!First(file[i][1], file[i][2])
               <=> \A k \in 1..file[i][2] : Bit(a, k) = NumBit(file[i][1], k)
  <2>. DEFINE x == file[i][1]
              p == file[i][2]
  <2>1. x \in Geo!Addr /\ p \in 0..Bits(FALSE)
    <3>1. file \in Seq(Geo!Addr \X (0..Bits(FALSE)))
      BY DEF TableInv, GeoTypes
    <3>2. file[i] \in Geo!Addr \X (0..Bits(FALSE))
      BY <3>1, ElementOfSeq, Zenon
    <3>. QED  BY <3>2, Zenon
  <2>. HIDE DEF x, p
  <2>2. Geo!First(v, p) = Geo!First(x, p) <=> \A k \in 1..p : NumBit(v, k) = NumBit(x, k)
    BY <1>2, <2>1, CidrBits, Zenon
  <2>3. \A k \in 1..p : k \in 1..Bits(FALSE)
    <3>1. Bits(FALSE) \in Nat
      BY Widths, Zenon
    <3>2. \A b \in Nat : \A m \in 0..b : \A k \in 1..m : k \in 1..b
      OBVIOUS
    <3>. QED  BY <2>1, <3>1, <3>2, Zenon
  <2>4. Geo!First(v, p) = Geo!First(x, p) <=> \A k \in 1..p : Bit(a, k) = NumBit(x, k)
    BY <1>1, <2>2, <2>3, Zenon
  <2>. QED  BY <2>4 DEF x, p
<1>. QED  BY <1>3, <1>4, Zenon DEF v, Geo!InSomeCidr

\* Compiling a rule changes its CIDRs and nothing else.
LEMMA CompiledFields ==
  ASSUME NEW rc, RuleTyped(rc)
  PROVE  /\ CompiledRule(rc).inbound_tag = rc.inbound_tag
         /\ CompiledRule(rc).domain_exact = rc.domain_exact
         /\ CompiledRule(rc).domain_suffix = rc.domain_suffix
         /\ CompiledRule(rc).geosite = rc.geosite
         /\ CompiledRule(rc).geoip = rc.geoip
         /\ CompiledRule(rc).outbound_tag = rc.outbound_tag
         /\ CompiledRule(rc).cidrs = {parseCidr(c) : c \in rc.cidrs}
<1>. DEFINE e == {parseCidr(c) : c \in rc.cidrs}
<1>1. CompiledRule(rc) = [rc EXCEPT !.cidrs = e]
  BY DEF CompiledRule
<1>. HIDE DEF e
<1>2. DOMAIN rc = {"inbound_tag", "domain_exact", "domain_suffix", "geosite", "cidrs", "geoip",
                   "outbound_tag"}
  BY DEF RuleTyped
<1>. QED  BY <1>1, <1>2 DEF e

\* What a rule says of domains, as the code searches it.
DomainHit(r, d) ==
  \/ d \in r.domain_exact
  \/ \E s \in r.domain_suffix : endsWithSuffix(d, s)
  \/ \E g \in r.geosite : GeoSiteMatch(d, g)

\* And as its labels define it.
LEMMA DomainExact ==
  ASSUME NEW rc, RuleTyped(rc), NEW d \in Seq(STRING)
  PROVE  DomainHit(rc, d)
           <=> \/ d \in rc.domain_exact
               \/ \E s \in rc.domain_suffix : UnderSuffix(d, s)
               \/ \E g \in rc.geosite \cap DOMAIN geosite :
                      \/ d \in geosite[g].exact
                      \/ LabelTails(d) \cap geosite[g].suffix # {}
<1>1. ASSUME NEW s \in rc.domain_suffix
      PROVE  endsWithSuffix(d, s) <=> UnderSuffix(d, s)
  <2>1. s \in Seq(STRING)
    BY DEF RuleTyped
  <2>. QED  BY <2>1, SuffixIsParent
<1>2. ASSUME NEW g
      PROVE  GeoSiteMatch(d, g)
               <=> /\ g \in DOMAIN geosite
                   /\ d \in geosite[g].exact \/ LabelTails(d) \cap geosite[g].suffix # {}
  BY WalkIsTails, ZenonT(30) DEF GeoSiteMatch
<1>. QED  BY <1>1, <1>2, Zenon DEF DomainHit

\* What a compiled rule says of addresses.
IpHit(r, q) ==
  \/ \E c \in r.cidrs : contains(c, q.addr, q.kind = "v6")
  \/ \E g \in r.geoip : GeoIpMatch(q.addr, q.kind = "v6", g)

\* And as the bits define it.
LEMMA IpExact ==
  ASSUME TableInv, geoip => geo_pc = "ready",
         NEW rc, RuleTyped(rc), \A c \in rc.cidrs : CidrOk(c),
         NEW q \in Requests, q.kind # "domain"
  PROVE  IpHit(CompiledRule(rc), q)
           <=> \/ \E c \in rc.cidrs : InCidr(c, q)
               \/ /\ geoip /\ GeoIpCode \in rc.geoip /\ q.kind = "v4"
                  /\ \E i \in 1..Len(file) : \A k \in 1..file[i][2] :
                         Bit(q.addr, k) = NumBit(file[i][1], k)
<1>. DEFINE r == CompiledRule(rc)
            Shares == \E i \in 1..Len(file) : \A k \in 1..file[i][2] :
                         Bit(q.addr, k) = NumBit(file[i][1], k)
<1>1. r.cidrs = {parseCidr(c) : c \in rc.cidrs} /\ r.geoip = rc.geoip
  BY CompiledFields, SMTT(20)
<1>2. ASSUME NEW c \in rc.cidrs
      PROVE  contains(parseCidr(c), q.addr, q.kind = "v6") <=> InCidr(c, q)
  <2>1. CidrTyped(c) /\ CidrOk(c)
    BY DEF RuleTyped
  <2>. QED  BY <2>1, CidrExact
<1>3. (\E c \in r.cidrs : contains(c, q.addr, q.kind = "v6")) <=> \E c \in rc.cidrs : InCidr(c, q)
  BY <1>1, <1>2, Zenon
<1>4. (\E g \in rc.geoip : GeoIpMatch(q.addr, q.kind = "v6", g))
        <=> geoip /\ GeoIpCode \in rc.geoip /\ q.kind = "v4" /\ Shares
  <2>1. CASE q.kind = "v6"
    <3>1. \A g : ~GeoIpMatch(q.addr, q.kind = "v6", g)
      BY <2>1, Zenon DEF GeoIpMatch
    <3>2. q.kind # "v4"
      BY <2>1
    <3>. QED  BY <3>1, <3>2, Zenon
  <2>2. CASE q.kind = "v4" /\ q.addr \in Address(FALSE)
    <3>1. q.kind # "v6"
      BY <2>2
    <3>2. geoip => (Geo!match(toU32(q.addr)) <=> Shares)
      BY <2>2, GeoIpExact, Zenon
    <3>. HIDE DEF Shares
    <3>. QED  BY <2>2, <3>1, <3>2, Zenon DEF GeoIpMatch
  <2>. QED  BY <2>1, <2>2, RequestAddress, Zenon
<1>. HIDE DEF Shares
<1>5. IpHit(r, q) <=> (\E c \in rc.cidrs : InCidr(c, q))
                        \/ (geoip /\ GeoIpCode \in rc.geoip /\ q.kind = "v4" /\ Shares)
  <2>. HIDE DEF r
  <2>. QED  BY <1>1, <1>3, <1>4, Zenon DEF IpHit
<1>. QED  BY <1>5 DEF Shares

\* A compiled rule matches the requests that the written rule covers.
LEMMA RuleExact ==
  ASSUME TableInv, geoip => geo_pc = "ready",
         NEW rc, RuleTyped(rc), \A c \in rc.cidrs : CidrOk(c),
         NEW q \in Requests
  PROVE  matches(CompiledRule(rc), q) <=> Covers(rc, q)
<1>. DEFINE r == CompiledRule(rc)
            RefDomain == \/ q.domain \in rc.domain_exact
                         \/ \E s \in rc.domain_suffix : UnderSuffix(q.domain, s)
                         \/ \E g \in rc.geosite \cap DOMAIN geosite :
                                \/ q.domain \in geosite[g].exact
                                \/ LabelTails(q.domain) \cap geosite[g].suffix # {}
            RefIp == \/ \E c \in rc.cidrs : InCidr(c, q)
                     \/ /\ geoip /\ GeoIpCode \in rc.geoip /\ q.kind = "v4"
                        /\ \E i \in 1..Len(file) : \A k \in 1..file[i][2] :
                               Bit(q.addr, k) = NumBit(file[i][1], k)
<1>1. /\ r.inbound_tag = rc.inbound_tag /\ r.domain_exact = rc.domain_exact
      /\ r.domain_suffix = rc.domain_suffix /\ r.geosite = rc.geosite /\ r.geoip = rc.geoip
      /\ r.cidrs = {parseCidr(c) : c \in rc.cidrs}
  BY CompiledFields
<1>2. r.cidrs = {} <=> rc.cidrs = {}
  BY <1>1, Zenon
<1>3. q.kind # "domain" => (IpHit(r, q) <=> RefIp)
  BY IpExact, Zenon
<1>4. q.kind = "domain" => (DomainHit(rc, q.domain) <=> RefDomain)
  <2>1. q.kind = "domain" => q.domain \in Seq(STRING)
    BY RequestsAssumption
  <2>. QED  BY <2>1, DomainExact, Zenon
<1>5. Covers(rc, q) <=> /\ rc.inbound_tag \in {None, q.inbound}
                        /\ \/ ~HasDomains(rc) /\ ~HasIps(rc) /\ rc.inbound_tag # None
                           \/ q.kind = "domain" /\ RefDomain
                           \/ q.kind # "domain" /\ RefIp
  BY Zenon DEF Covers
<1>. HIDE DEF RefDomain, RefIp, r
<1>6. HasDomains(r) <=> HasDomains(rc)
  BY <1>1, Zenon DEF HasDomains
<1>7. HasIps(r) <=> HasIps(rc)
  BY <1>1, <1>2, Zenon DEF HasIps
<1>8. DomainHit(r, q.domain) <=> DomainHit(rc, q.domain)
  BY <1>1, Zenon DEF DomainHit
<1>9. DomainHit(r, q.domain) => HasDomains(r)
  BY Zenon DEF DomainHit, HasDomains
<1>10. IpHit(r, q) => HasIps(r)
  BY Zenon DEF IpHit, HasIps
<1>11. MatchesTarget(r, q) <=> \/ q.kind = "domain" /\ HasDomains(r) /\ DomainHit(r, q.domain)
                               \/ q.kind # "domain" /\ HasIps(r) /\ IpHit(r, q)
  BY Zenon DEF MatchesTarget, DomainHit, IpHit
<1>12. matches(r, q) <=> /\ rc.inbound_tag \in {None, q.inbound}
                         /\ \/ ~HasDomains(rc) /\ ~HasIps(rc) /\ rc.inbound_tag # None
                            \/ (HasDomains(rc) \/ HasIps(rc)) /\ MatchesTarget(r, q)
  BY <1>1, <1>6, <1>7, Zenon DEF matches
<1>13. MatchesTarget(r, q) <=> \/ q.kind = "domain" /\ RefDomain
                               \/ q.kind # "domain" /\ RefIp
  BY <1>3, <1>4, <1>8, <1>9, <1>10, <1>11, Zenon
<1>14. MatchesTarget(r, q) => HasDomains(rc) \/ HasIps(rc)
  BY <1>6, <1>7, <1>11, Zenon
<1>15. matches(r, q) <=> Covers(rc, q)
  BY <1>5, <1>12, <1>13, <1>14, Zenon
<1>. QED  BY <1>15 DEF r
-----------------------------------------------------------------------------
(***************************************************************************)
(* The invariant of start-up and dispatch.                                 *)
(***************************************************************************)
\* What dispatch makes of a tag.
Fate(tag) ==
  IF tag = "" THEN "no route"
  ELSE IF \E o \in Elements(cfg.outbounds) : o.tag = tag THEN "handled" ELSE "not found"

\* What pick answers for each request.
Picks == [q \in Requests |-> pick(q)]

\* The configurations that validate accepts.
Validated == {c \in {i.cfg : i \in Installs} : validate(c)}

\* The configuration is the one installed, it has been validated once start-up goes on,
\* and the server serves with its rules compiled and its table finished; the last
\* request went where pick says.
RouteInv ==
  /\ phase \in {"start", "load", "exited", "serving"}
  /\ \E i \in Installs : cfg = i.cfg /\ file = i.file
  /\ phase \in {"load", "serving"} => cfg \in Validated
  /\ phase # "serving" => rules = <<>> /\ last = None
  /\ phase = "serving" =>
       /\ CidrsOk /\ (geoip => geo_pc = "ready")
       /\ rules = [i \in 1..Len(cfg.rules) |-> CompiledRule(cfg.rules[i])]
  /\ last # None =>
       last.req \in Requests /\ last.tag = Picks[last.req] /\ last.fate = Fate(last.tag)

\* What an installation gives is typed.
LEMMA InstallTyped ==
  ASSUME RouteInv
  PROVE  /\ file \in Seq(Geo!Addr \X (0..Bits(FALSE)))
         /\ Len(cfg.rules) \in Nat
         /\ \A i \in 1..Len(cfg.rules) : RuleTyped(cfg.rules[i])
<1>1. PICK i \in Installs : cfg = i.cfg /\ file = i.file
  BY DEF RouteInv
<1>2. /\ i.file \in Seq((0..(Pow2[Bits(FALSE)] - 1)) \X (0..Bits(FALSE)))
      /\ i.cfg.rules \in Seq(Elements(i.cfg.rules))
      /\ \A r \in Elements(i.cfg.rules) : RuleTyped(r)
  BY InstallsAssumption, Zenon DEF RuleTyped, CidrTyped
<1>3. Geo!Addr = 0..(Pow2[Bits(FALSE)] - 1)
  <2>1. Bits(FALSE) \in Nat
    BY Widths, Zenon
  <2>2. \A n \in Nat : n - 0 = n
    OBVIOUS
  <2>3. BlockSize(0) = Pow2[Bits(FALSE)]
    BY <2>1, <2>2, Zenon DEF BlockSize
  <2>. QED  BY <2>3, GeoAddr, Zenon
<1>4. file \in Seq(Geo!Addr \X (0..Bits(FALSE)))
  BY <1>1, <1>2, <1>3, Zenon
<1>5. cfg.rules \in Seq(Elements(cfg.rules)) /\ \A r \in Elements(cfg.rules) : RuleTyped(r)
  BY <1>1, <1>2, Zenon
<1>6. Len(cfg.rules) \in Nat
  BY <1>5, LenProperties
<1>7. \A i_1 \in 1..Len(cfg.rules) : cfg.rules[i_1] \in Elements(cfg.rules)
  BY SMTT(20) DEF Elements
<1>. QED  BY <1>4, <1>5, <1>6, <1>7

\* pick depends on nothing that changes while the server serves.
LEMMA PicksUnchanged ==
  ASSUME UNCHANGED <<cfg, rules, geosite, geoip, geo>>
  PROVE  Picks' = Picks
<1>1. /\ cfg' = cfg /\ rules' = rules /\ geosite' = geosite /\ geoip' = geoip /\ merged' = merged
  BY DEF geo
<1>. QED  BY <1>1, SMTT(30) DEF Picks, pick, matches, MatchesTarget, GeoSiteMatch, GeoIpMatch, Geo!match, Geo!UpperBound

\* Init and Next keep the invariant.
LEMMA RouteInit == Init => TableInv /\ RouteInv
<1>. SUFFICES ASSUME Init PROVE TableInv /\ RouteInv
  OBVIOUS
<1>1. RouteInv
  BY DEF Init, RouteInv
<1>2. TableInv
  BY <1>1, InstallTyped, TableInit DEF Init
<1>. QED  BY <1>1, <1>2

\* Every step of start-up and every request keeps both invariants.
LEMMA RouteNext == TableInv /\ RouteInv /\ [Next]_vars => TableInv' /\ RouteInv'
<1>. SUFFICES ASSUME TableInv, RouteInv, [Next]_vars PROVE TableInv' /\ RouteInv'
  OBVIOUS
<1>1. CASE Starts
  <2>1. UNCHANGED geo /\ cfg' = cfg /\ rules' = rules /\ last' = last /\ phase = "start"
    BY <1>1 DEF Starts, exits
  <2>2. file' = file /\ rules = <<>> /\ last = None
    BY <2>1 DEF geo, RouteInv
  <2>3. phase' = "exited" \/ (phase' = "load" /\ validate(cfg))
    BY <1>1 DEF Starts, exits
  <2>4. validate(cfg) => cfg \in Validated
    BY Zenon DEF RouteInv, Validated
  <2>5. RouteInv'
    BY <2>1, <2>2, <2>3, <2>4 DEF RouteInv
  <2>. QED  BY <2>1, <2>5, TableNext
<1>2. CASE LoadGeoIp
  <2>1. phase = "load" /\ phase' = phase /\ cfg' = cfg /\ rules' = rules /\ last' = last /\ Geo!Next
    BY <1>2 DEF LoadGeoIp
  <2>2. file' = file
    BY <2>1 DEF Geo!Next, Geo!Load, Geo!Sort, Geo!Merge, Geo!Finish
  <2>3. RouteInv'
    BY <2>1, <2>2 DEF RouteInv
  <2>. QED  BY <2>1, <2>3, TableNext
<1>3. CASE Compiles
  <2>1. phase = "load" /\ (geoip => geo_pc = "ready") /\ UNCHANGED <<cfg, geosite, geoip, last, geo>>
    BY <1>3 DEF Compiles, exits
  <2>2. file' = file /\ geo_pc' = geo_pc /\ last = None /\ rules = <<>>
    <3>1. file' = file /\ geo_pc' = geo_pc
      BY <2>1, Zenon DEF geo
    <3>2. phase # "serving"
      BY <2>1
    <3>. QED  BY <3>1, <3>2, Zenon DEF RouteInv
  <2>3. CASE phase' = "exited" /\ rules' = rules
    BY <2>1, <2>2, <2>3, TableNext DEF RouteInv
  <2>4. CASE /\ phase' = "serving" /\ CidrsOk
             /\ rules' = [i \in 1..Len(cfg.rules) |-> CompiledRule(cfg.rules[i])]
    <3>1. CidrsOk'
      BY <2>1, <2>4 DEF CidrsOk
    <3>2. RouteInv'
      BY <2>1, <2>2, <2>4, <3>1 DEF RouteInv
    <3>. QED  BY <2>1, <3>2, TableNext
  <2>. QED  BY <1>3, <2>3, <2>4 DEF Compiles, exits
<1>4. ASSUME NEW q \in Requests, dispatch(q)
      PROVE  TableInv' /\ RouteInv'
  <2>1. /\ phase = "serving" /\ phase' = phase /\ UNCHANGED <<cfg, rules, geosite, geoip, geo>>
    BY <1>4 DEF dispatch
  <2>2. last' = [req |-> q, tag |-> pick(q), fate |-> Fate(pick(q))]
    BY <1>4, Zenon DEF dispatch, Fate
  <2>3. file' = file /\ geo_pc' = geo_pc
    BY <2>1, SMTT(20) DEF geo
  <2>4. CidrsOk'
    BY <2>1 DEF CidrsOk, RouteInv
  <2>5. last'.req = q /\ last'.tag = pick(q) /\ last'.fate = Fate(pick(q))
    BY <2>2
  <2>6. last'.tag = Picks'[last'.req]
    <3>1. Picks' = Picks
      BY <2>1, PicksUnchanged, Zenon
    <3>2. Picks[q] = pick(q)
      BY DEF Picks
    <3>. QED  BY <2>5, <3>1, <3>2
  <2>7. last'.fate = Fate(last.tag)'
    BY <2>1, <2>5 DEF Fate, Elements
  <2>8. RouteInv'
    BY <2>1, <2>3, <2>4, <2>5, <2>6, <2>7 DEF RouteInv
  <2>. QED  BY <2>1, <2>8, TableNext
<1>5. CASE UNCHANGED vars
  <2>1. phase' = phase /\ last' = last /\ UNCHANGED <<cfg, rules, geosite, geoip, geo>>
    BY <1>5 DEF vars
  <2>2. file' = file /\ geo_pc' = geo_pc
    BY <2>1 DEF geo
  <2>3. CidrsOk' <=> CidrsOk
    BY <2>1 DEF CidrsOk
  <2>4. Picks' = Picks
    BY <2>1, PicksUnchanged
  <2>5. Fate(last.tag)' = Fate(last.tag)
    BY <2>1 DEF Fate, Elements
  <2>6. RouteInv'
    BY <2>1, <2>2, <2>3, <2>4, <2>5, ZenonT(30) DEF RouteInv
  <2>. QED  BY <2>1, <2>6, TableNext
<1>. QED  BY <1>1, <1>2, <1>3, <1>4, <1>5 DEF Next
-----------------------------------------------------------------------------
(***************************************************************************)
(* The results.                                                            *)
(***************************************************************************)
\* While the server serves, rule i matches what rule i of the configuration covers.
LEMMA ServedRules ==
  ASSUME TableInv, RouteInv, phase = "serving"
  PROVE  /\ Len(rules) = Len(cfg.rules)
         /\ \A i \in 1..Len(cfg.rules) :
              /\ rules[i] = CompiledRule(cfg.rules[i])
              /\ RuleTyped(cfg.rules[i]) /\ \A c \in cfg.rules[i].cidrs : CidrOk(c)
              /\ \A q \in Requests : matches(rules[i], q) <=> Covers(cfg.rules[i], q)
<1>. DEFINE n == Len(cfg.rules)
<1>1. n \in Nat /\ \A i \in 1..n : RuleTyped(cfg.rules[i])
  BY InstallTyped
<1>2. /\ rules = [i \in 1..n |-> CompiledRule(cfg.rules[i])] /\ (geoip => geo_pc = "ready")
      /\ \A i \in 1..n : \A c \in cfg.rules[i].cidrs : CidrOk(c)
  BY DEF RouteInv, CidrsOk
<1>. HIDE DEF n
<1>3. Len(rules) = n
  BY <1>1, <1>2
<1>4. \A i \in 1..n : rules[i] = CompiledRule(cfg.rules[i])
  BY <1>2, Zenon
<1>5. ASSUME NEW i \in 1..n, NEW q \in Requests
      PROVE  matches(rules[i], q) <=> Covers(cfg.rules[i], q)
  <2>1. matches(CompiledRule(cfg.rules[i]), q) <=> Covers(cfg.rules[i], q)
    BY <1>1, <1>2, RuleExact, Zenon
  <2>. QED  BY <1>4, <2>1, Zenon
<1>. QED  BY <1>1, <1>2, <1>3, <1>4, <1>5, SMTT(20) DEF n

\* What pick answers: the outbound of the first rule that covers, or the default.
LEMMA PickExact ==
  ASSUME TableInv, RouteInv, phase = "serving", NEW q \in Requests
  PROVE  \/ /\ \A i \in 1..Len(cfg.rules) : ~Covers(cfg.rules[i], q)
            /\ pick(q) = cfg.default_outbound
         \/ \E i \in 1..Len(cfg.rules) :
               /\ Covers(cfg.rules[i], q) /\ pick(q) = cfg.rules[i].outbound_tag
               /\ \A j \in 1..(i - 1) : ~Covers(cfg.rules[j], q)
<1>. DEFINE n == Len(cfg.rules)
            hits == {i \in 1..Len(rules) : matches(rules[i], q)}
            f == CHOOSE i \in hits : \A j \in hits : i <= j
<1>1. n \in Nat
  BY InstallTyped
<1>2. \A i : i \in hits <=> i \in 1..n /\ Covers(cfg.rules[i], q)
  BY ServedRules, Zenon
<1>3. pick(q) = IF hits = {} THEN cfg.default_outbound ELSE rules[f].outbound_tag
  BY DEF pick
<1>. HIDE DEF hits, n
<1>4. CASE hits = {}
  BY <1>2, <1>3, <1>4 DEF n
<1>5. CASE hits # {}
  <2>1. f \in hits /\ \A j \in hits : f <= j
    <3>1. hits \subseteq Nat
      BY <1>1, <1>2
    <3>2. \E i \in hits : \A j \in hits : i <= j
      BY <1>5, <3>1, LeastNat, Zenon
    <3>. QED  BY <3>2, Zenon
  <2>. HIDE DEF f
  <2>2. f \in 1..n /\ Covers(cfg.rules[f], q)
    BY <1>2, <2>1
  <2>3. rules[f].outbound_tag = cfg.rules[f].outbound_tag
    <3>1. rules[f] = CompiledRule(cfg.rules[f]) /\ RuleTyped(cfg.rules[f])
      BY <2>2, ServedRules, Zenon DEF n
    <3>. QED  BY <3>1, CompiledFields, Zenon
  <2>4. ASSUME NEW j \in 1..(f - 1)
        PROVE  ~Covers(cfg.rules[j], q)
    <3>1. j \in 1..n /\ ~(f <= j)
      BY <1>1, <2>2
    <3>. QED  BY <1>2, <2>1, <3>1
  <2>5. pick(q) = cfg.rules[f].outbound_tag
    BY <1>3, <1>5, <2>3
  <2>. QED  BY <2>2, <2>4, <2>5 DEF n
<1>. QED  BY <1>4, <1>5

\* The last request, in terms of the rules.
LEMMA LastExact == TableInv /\ RouteInv => RouteExact
<1>. SUFFICES ASSUME TableInv, RouteInv, last # None PROVE RouteExact
  BY DEF RouteExact
<1>1. phase = "serving" /\ last.req \in Requests /\ last.tag = pick(last.req)
  BY DEF RouteInv, Picks
<1>. QED  BY <1>1, PickExact, Zenon DEF RouteExact

\* A validated configuration names outbounds that exist.
LEMMA LastServed == TableInv /\ RouteInv => NoDrop
<1>. SUFFICES ASSUME TableInv, RouteInv PROVE NoDrop
  OBVIOUS
<1>1. TypeOK
  <2>1. ASSUME NEW i \in 1..Len(rules), NEW c \in rules[i].cidrs
        PROVE  c.prefix_len \in 0..Bits(c.is_v6)
    <3>1. phase = "serving"
      <4>1. ASSUME phase # "serving" PROVE FALSE
        <5>1. rules = <<>> /\ Len(rules) = 0
          BY <4>1 DEF RouteInv
        <5>. QED  BY <5>1
      <4>. QED  BY <4>1
    <3>2. i \in 1..Len(cfg.rules)
      BY <3>1, ServedRules
    <3>3. /\ rules[i] = CompiledRule(cfg.rules[i]) /\ RuleTyped(cfg.rules[i])
          /\ \A d \in cfg.rules[i].cidrs : CidrOk(d)
      BY <3>1, <3>2, ServedRules, Zenon
    <3>4. rules[i].cidrs = {parseCidr(d) : d \in cfg.rules[i].cidrs}
      BY <3>3, CompiledFields, Zenon
    <3>5. PICK d \in cfg.rules[i].cidrs : c = parseCidr(d)
      BY <3>4
    <3>6. PrefixLen(d) \in 0..Bits(d.v6)
      BY <3>3, PrefixKept DEF RuleTyped
    <3>7. c.prefix_len = PrefixLen(d) /\ c.is_v6 = d.v6
      BY <3>5 DEF parseCidr
    <3>. QED  BY <3>6, <3>7, Zenon
  <2>2. last = None \/ (last.req \in Requests /\ last.fate \in {"handled", "no route", "not found"})
    BY Zenon DEF RouteInv, Fate
  <2>. QED  BY <2>1, <2>2, TableIsExact DEF TypeOK, RouteInv
<1>2. ASSUME last # None, last.fate # "handled"
      PROVE  /\ cfg.default_outbound = "" /\ last.fate = "no route"
             /\ \A i \in 1..Len(cfg.rules) : ~Covers(cfg.rules[i], last.req)
  <2>1. phase = "serving" /\ last.fate = Fate(last.tag) /\ validate(cfg)
    BY <1>2 DEF RouteInv, Validated
  <2>2. ~\E o \in Elements(cfg.outbounds) : o.tag = last.tag
    <3>1. ASSUME NEW o \in Elements(cfg.outbounds), o.tag = last.tag PROVE FALSE
      <4>1. o.tag # ""
        BY <2>1 DEF validate, validateNoDefault, Elements
      <4>. QED  BY <1>2, <2>1, <3>1, <4>1 DEF Fate
    <3>. QED  BY <3>1
  <2>3. \A i \in 1..Len(cfg.rules) : \E o \in Elements(cfg.outbounds) : o.tag = cfg.rules[i].outbound_tag
    BY <2>1 DEF validate, validateNoDefault
  <2>4. /\ \A i \in 1..Len(cfg.rules) : ~Covers(cfg.rules[i], last.req)
        /\ last.tag = cfg.default_outbound
    <3>1. RouteExact
      BY LastExact
    <3>. QED  BY <1>2, <2>2, <2>3, <3>1, Zenon DEF RouteExact
  <2>5. last.tag = ""
    BY <2>1, <2>2, <2>4 DEF validate
  <2>. QED  BY <2>1, <2>4, <2>5 DEF Fate
<1>. QED  BY <1>1, <1>2 DEF NoDrop

\* The table of geoip.dat, whatever blocks the file has and in whatever order
\* std::sort leaves equal starts: once loaded it answers for every address as the
\* blocks do, and its ranges are in order and apart.
THEOREM GeoTableExact == Spec => []TableExact
<1>1. TableInv /\ RouteInv => TableExact
  BY TableIsExact
<1>. QED  BY <1>1, RouteInit, RouteNext, PTL DEF Spec

\* Every request leaves by the outbound of the first written rule that covers it,
\* whatever the rules, the geo files and the requests.
THEOREM RoutesExactly == Spec => []RouteExact
BY RouteInit, RouteNext, LastExact, PTL DEF Spec

\* A configuration that validate accepts never sends a request to an outbound that
\* does not exist, and no rule in use reads beyond an address.
THEOREM NothingDropped == Spec => []NoDrop
BY RouteInit, RouteNext, LastServed, PTL DEF Spec
===============================================================================
