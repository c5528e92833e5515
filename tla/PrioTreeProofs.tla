--------------------------- MODULE PrioTreeProofs ---------------------------
(***************************************************************************)
(* Proofs that the iterator over a priority tree hands over every vma of   *)
(* the page once, and nothing else, on every tree that is one.             *)
(***************************************************************************)
EXTENDS PrioTree, WellFoundedInduction, TLAPS

-----------------------------------------------------------------------------
(* Induction over the naturals, and division by a power of two.             *)

LessNat == {p \in Nat \X Nat : p[1] < p[2]}

LEMMA LessNatWellFounded == IsWellFoundedOn(LessNat, Nat)
  BY NatLessThanWellFounded DEF OpToRel, LessNat

LEMMA Least ==
  ASSUME NEW S, S \subseteq Nat, S # {}
  PROVE  \E k \in S : \A n \in S : k <= n
<1>1. PICK k \in S : \A n \in S : ~ (<<n, k>> \in LessNat)
  BY LessNatWellFounded, WFMin
<1>2. ASSUME NEW n \in S PROVE k <= n
  <2>1. k \in Nat /\ n \in Nat /\ ~ (<<n, k>> \in LessNat)
    BY <1>1
  <2> QED  BY <2>1 DEF LessNat
<1> QED  BY <1>2

LEMMA Induction ==
  ASSUME NEW S, 0 \in S, \A n \in Nat : n \in S => n + 1 \in S
  PROVE  Nat \subseteq S
<1>1. SUFFICES ASSUME Nat \ S # {} PROVE FALSE
  OBVIOUS
<1>2. PICK k \in Nat \ S : \A n \in Nat \ S : k <= n
  BY <1>1, Least
<1>3. k # 0 /\ k - 1 \in Nat /\ k - 1 \in S
  BY <1>2
<1> QED  BY <1>2, <1>3

LEMMA DivMod ==
  ASSUME NEW a \in Nat, NEW s \in Nat \ {0}
  PROVE  /\ a \div s \in Nat /\ a % s \in 0..s - 1
         /\ a = (a \div s) * s + (a % s)
<1>1. a \div s \in Int /\ a % s \in 0..s - 1
  OBVIOUS
<1>3. a = (a \div s) * s + (a % s)
  OBVIOUS
<1>2. a \div s >= 0
  BY <1>1
<1> QED  BY <1>1, <1>2

LEMMA Times ==
  ASSUME NEW a \in Nat, NEW b \in Nat, NEW s \in Nat
  PROVE  /\ a * s \in Nat
         /\ a < b => a * s + s <= b * s
<1>1. a * s \in Nat /\ b * s \in Nat
  OBVIOUS
<1>2. ASSUME a < b PROVE a * s + s <= b * s
  <2>1. PICK d \in Nat : b = a + 1 + d
    <3>1. b - a - 1 \in Nat /\ b = a + 1 + (b - a - 1)
      BY <1>2
    <3> QED  BY <3>1
  <2>2. b * s = a * s + s + d * s
    BY <2>1
  <2>3. d * s \in Nat
    OBVIOUS
  <2> QED  BY <1>1, <2>2, <2>3
<1> QED  BY <1>1, <1>2

\* ... and has no others.
LEMMA DivModIs ==
  ASSUME NEW q \in Nat, NEW s \in Nat \ {0}, NEW r \in 0..s - 1
  PROVE  (q * s + r) \div s = q /\ (q * s + r) % s = r /\ q * s + r \in Nat
<1> DEFINE a == q * s + r
<1>1. q * s \in Nat /\ a \in Nat
  OBVIOUS
<1> HIDE DEF a
<1>2. /\ a \div s \in Nat /\ a % s \in 0..s - 1 /\ a = (a \div s) * s + (a % s)
  BY <1>1, DivMod
<1> DEFINE d == a \div s
           t == a % s
<1>3. d \in Nat /\ t \in 0..s - 1 /\ d * s + t = q * s + r /\ d * s \in Nat /\ q * s \in Nat
  BY <1>1, <1>2, Times DEF a
<1> HIDE DEF d, t
<1>4. ~(d < q)
  <2>1. d < q => d * s + s <= q * s
    BY <1>3, Times
  <2> QED  BY <1>3, <2>1
<1>5. ~(q < d)
  <2>1. q < d => q * s + s <= d * s
    BY <1>3, Times
  <2> QED  BY <1>3, <2>1
<1>6. d = q
  BY <1>3, <1>4, <1>5
<1>7. t = r
  BY <1>3, <1>6
<1> QED  BY <1>1, <1>6, <1>7 DEF a, d, t

-----------------------------------------------------------------------------
(* Powers of two.                                                            *)

LEMMA Power == ASSUME NEW k \in 0..BITS_PER_LONG PROVE 2^k \in Nat \ {0}
<1> DEFINE S == {j \in Nat : j <= BITS_PER_LONG => 2^j \in Nat \ {0}}
<1>1. BITS_PER_LONG \in Nat
  BY PrioAssumption
<1>2. 0 \in S
  BY PowersOfTwo
<1>3. ASSUME NEW j \in Nat, j \in S PROVE j + 1 \in S
  <2>1. CASE j + 1 <= BITS_PER_LONG
    <3>1. j \in 0..BITS_PER_LONG - 1 /\ 2^j \in Nat \ {0}
      BY <1>1, <1>3, <2>1
    <3>2. 2^(j + 1) = 2 * 2^j
      BY <3>1, PowersOfTwo
    <3> QED  BY <3>1, <3>2
  <2> QED  BY <1>1, <2>1
<1> HIDE DEF S
<1>4. k \in S
  BY <1>1, <1>2, <1>3, Induction
<1> QED  BY <1>1, <1>4 DEF S

LEMMA NextPower ==
  ASSUME NEW k \in Nat \ {0}, k <= BITS_PER_LONG
  PROVE  2^k = 2 * 2^(k - 1) /\ 2^(k - 1) \in Nat \ {0} /\ 2^k \div 2 = 2^(k - 1)
<1>1. k - 1 \in 0..BITS_PER_LONG - 1 /\ (k - 1) + 1 = k /\ BITS_PER_LONG \in Nat
  BY PrioAssumption
<1>2. 2^((k - 1) + 1) = 2 * 2^(k - 1)
  BY <1>1, PowersOfTwo
<1>3. 2^(k - 1) \in Nat \ {0}
  BY <1>1, Power
<1> QED  BY <1>1, <1>2, <1>3

LEMMA PowersGrow ==
  ASSUME NEW k \in Nat, k < BITS_PER_LONG
  PROVE  2 * 2^k <= 2^BITS_PER_LONG
<1> DEFINE B == BITS_PER_LONG
           S == {j \in Nat : j < B => 2 * 2^(B - 1 - j) <= 2^B}
<1>1. B \in Nat \ {0}
  BY PrioAssumption
<1>2. 0 \in S
  <2>1. 2^B = 2 * 2^(B - 1) /\ 2^(B - 1) \in Nat /\ B - 1 - 0 = B - 1
    BY <1>1, NextPower
  <2> QED  BY <2>1
<1>3. ASSUME NEW j \in Nat, j \in S PROVE j + 1 \in S
  <2>1. CASE j + 1 < B
    <3>1. B - 1 - j \in Nat \ {0} /\ B - 1 - j <= B /\ (B - 1 - j) - 1 = B - 1 - (j + 1)
      BY <1>1, <2>1
    <3>2. /\ 2^(B - 1 - j) = 2 * 2^(B - 1 - (j + 1))
          /\ 2^(B - 1 - (j + 1)) \in Nat
      BY <3>1, NextPower
    <3>3. 2 * 2^(B - 1 - j) <= 2^B
      BY <1>1, <1>3, <2>1
    <3>4. 2^B \in Nat
      BY <1>1, Power
    <3> QED  BY <1>1, <2>1, <3>2, <3>3, <3>4
  <2> QED  BY <1>1, <2>1
<1> HIDE DEF S
<1>4. B - 1 - k \in S
  <2>1. B - 1 - k \in Nat
    BY <1>1
  <2> QED  BY <2>1, <1>2, <1>3, Induction
<1>5. B - 1 - k < B /\ B - 1 - (B - 1 - k) = k
  BY <1>1
<1> QED  BY <1>1, <1>4, <1>5 DEF S

-----------------------------------------------------------------------------
(* The numbers of a node.                                                    *)

\* The least radix index that the path to a node allows.
Floor(t, n) == (radix(n) \div Unit(t, Depth(t)[n])) * Unit(t, Depth(t)[n])

LEMMA UnitHalves ==
  ASSUME NEW t \in Trees, NEW d \in Nat
  PROVE  /\ Unit(t, d) \in Nat \ {0}
         /\ d < t.index_bits => /\ Unit(t, d) = 2 * Unit(t, d + 1)
                                /\ Unit(t, d + 1) = 2^(t.index_bits - 1 - d)
         /\ d >= t.index_bits => Unit(t, d) = 1
<1> DEFINE b == t.index_bits
<1>1. b \in 1..BITS_PER_LONG /\ BITS_PER_LONG \in Nat
  BY PrioAssumption DEF IsPrioTree
<1>2. 2^0 = 1
  BY PowersOfTwo
<1>3. CASE d < b
  <2>1. b - d \in Nat \ {0} /\ b - d <= BITS_PER_LONG /\ (b - d) - 1 = b - 1 - d
    BY <1>1, <1>3
  <2>2. 2^(b - d) = 2 * 2^(b - 1 - d) /\ 2^(b - 1 - d) \in Nat \ {0}
    BY <2>1, NextPower
  <2>3. Unit(t, d) = 2^(b - d)
    BY <1>3 DEF Unit
  <2>4. Unit(t, d + 1) = 2^(b - 1 - d)
    <3>1. CASE d + 1 < b
      <4>1. b - (d + 1) = b - 1 - d
        BY <1>1
      <4> QED  BY <3>1, <4>1 DEF Unit
    <3>2. CASE ~(d + 1 < b)
      <4>1. b - 1 - d = 0
        BY <1>1, <1>3, <3>2
      <4> QED  BY <3>2, <4>1 DEF Unit
    <3> QED  BY <3>1, <3>2
  <2> QED  BY <1>1, <1>3, <2>2, <2>3, <2>4
<1>4. CASE ~(d < b)
  BY <1>1, <1>2, <1>4 DEF Unit
<1> QED  BY <1>3, <1>4

LEMMA NodeFacts ==
  ASSUME NEW t \in Trees, NEW n \in Nodes(t)
  PROVE  /\ Depth(t)[n] \in 0..t.index_bits + BITS_PER_LONG
         /\ radix(n) \in 0..2^t.index_bits - 1 /\ radix(n) \in Nat /\ heap(n) \in Nat
         /\ t.index_bits \in 1..BITS_PER_LONG /\ BITS_PER_LONG \in Nat \ {0}
<1>1. IsPrioTree(t) /\ BITS_PER_LONG \in Nat \ {0}
  BY PrioAssumption
<1>2. t.index_bits \in 1..BITS_PER_LONG /\ t.index_bits \in 0..BITS_PER_LONG
  BY <1>1 DEF IsPrioTree
<1>3. 2^t.index_bits \in Nat
  BY <1>2, Power
<1>4. radix(n) \in 0..2^t.index_bits - 1 /\ heap(n) \in Nat
  BY <1>1 DEF IsPrioTree
<1>5. Depth(t)[n] \in 0..t.index_bits + BITS_PER_LONG
  BY <1>1 DEF IsPrioTree
<1> QED  BY <1>1, <1>2, <1>3, <1>4, <1>5

LEMMA FloorBelow ==
  ASSUME NEW t \in Trees, NEW n \in Nodes(t)
  PROVE  /\ Floor(t, n) \in Nat /\ Floor(t, n) <= radix(n)
         /\ radix(n) < Floor(t, n) + Unit(t, Depth(t)[n])
         /\ Depth(t)[n] >= t.index_bits => Floor(t, n) = radix(n)
<1> DEFINE u == Unit(t, Depth(t)[n])
           r == radix(n)
           q == r \div u
<1>1. Depth(t)[n] \in Nat /\ r \in Nat
  BY NodeFacts
<1>2. u \in Nat \ {0} /\ (Depth(t)[n] >= t.index_bits => u = 1)
  BY <1>1, UnitHalves
<1> HIDE DEF u, r
<1>3. q \in Nat /\ r % u \in 0..u - 1 /\ r = q * u + (r % u)
  BY <1>1, <1>2, DivMod
<1> HIDE DEF q
<1>4. q * u \in Nat
  BY <1>2, <1>3, Times
<1>5. Floor(t, n) = q * u
  BY DEF Floor, q, u, r
<1>6. u = 1 => q * u = q /\ r % u = 0
  BY <1>2, <1>3
<1>7. q * u <= r /\ r < q * u + u
  BY <1>1, <1>2, <1>3, <1>4
<1>8. u = 1 => q * u = r
  BY <1>3, <1>4, <1>6
<1> QED  BY <1>2, <1>4, <1>5, <1>7, <1>8 DEF u, r

LEMMA FloorOfChild ==
  ASSUME NEW t \in Trees, NEW n \in Nodes(t), NEW c, NEW side \in {0, 1},
         IsChild(t, n, c, side)
  PROVE  /\ c \in Nodes(t) /\ Depth(t)[c] = Depth(t)[n] + 1
         /\ Depth(t)[n] < t.index_bits =>
              /\ Floor(t, c) = Floor(t, n) + side * Unit(t, Depth(t)[c])
              /\ ~Bit(Floor(t, n), Unit(t, Depth(t)[c]))
              /\ (Bit(Floor(t, c), Unit(t, Depth(t)[c])) <=> side = 1)
         /\ Depth(t)[n] >= t.index_bits =>
              /\ Floor(t, c) = Floor(t, n)
              /\ Floor(t, c) = radix(n)
<1> DEFINE d == Depth(t)[n]
           u == Unit(t, d + 1)
           q == radix(n) \div Unit(t, d)
<1>1. c \in Nodes(t) \ {t.root} /\ t.parent[c] = n
  BY DEF IsChild
<1>2. Depth(t)[c] = 1 + d /\ d \in Nat
  BY <1>1, PrioAssumption, NodeFacts DEF IsPrioTree
<1>3. Depth(t)[c] = d + 1
  BY <1>2
<1>4. CASE d < t.index_bits
  <2>1. Unit(t, d) = 2 * u /\ u \in Nat \ {0}
    <3>1. d + 1 \in Nat
      BY <1>2
    <3> QED  BY <1>2, <1>4, <3>1, UnitHalves
  <2>2. radix(c) \div u = 2 * q + side
    BY <1>4 DEF IsChild
  <2>3. q \in Nat
    BY <1>2, NodeFacts, UnitHalves, DivMod
  <2>4. Floor(t, c) = (2 * q + side) * u /\ Floor(t, n) = q * Unit(t, d)
    BY <1>3, <2>2 DEF Floor
  <2> HIDE DEF u, q, d
  <2>5. Floor(t, n) = (2 * q + 0) * u + 0 /\ Floor(t, c) = (2 * q + side) * u + 0
    <3>1. q * u \in Nat /\ 2 * q + side \in Nat
      BY <2>1, <2>3, Times
    <3>2. (2 * q + side) * u \in Nat
      BY <2>1, <3>1, Times
    <3>3. q * (2 * u) = (2 * q) * u /\ (2 * q + 0) * u = (2 * q) * u /\ (2 * q) * u \in Nat
      BY <2>1, <2>3, <3>1
    <3> QED  BY <2>1, <2>4, <3>2, <3>3
  <2>6. (2 * q + side) * u = (2 * q + 0) * u + side * u
    BY <2>1, <2>3
  <2>7. Floor(t, n) \div u = 2 * q + 0 /\ Floor(t, c) \div u = 2 * q + side
    <3>1. 2 * q + 0 \in Nat /\ 2 * q + side \in Nat /\ 0 \in 0..u - 1
      BY <2>1, <2>3
    <3>2. ((2 * q + 0) * u + 0) \div u = 2 * q + 0
      BY <3>1, <2>1, DivModIs
    <3>3. ((2 * q + side) * u + 0) \div u = 2 * q + side
      BY <3>1, <2>1, DivModIs
    <3> QED  BY <2>5, <3>2, <3>3
  <2>8. (2 * q + 0) % 2 # 1 /\ ((2 * q + side) % 2 = 1 <=> side = 1)
    BY <2>3
  <2>9. Floor(t, c) = Floor(t, n) + side * u
    <3>1. (2 * q + 0) * u \in Nat /\ side * u \in Nat
      <4>1. 2 * q + 0 \in Nat /\ side \in Nat
        BY <2>3
      <4> QED  BY <4>1, <2>1, Times
    <3> QED  BY <2>5, <2>6, <3>1
  <2>10. ~Bit(Floor(t, n), u) /\ (Bit(Floor(t, c), u) <=> side = 1)
    BY <2>7, <2>8 DEF Bit
  <2>11. d \in Nat /\ t.index_bits \in Nat /\ ~(d >= t.index_bits)
    BY <1>2, <1>4, NodeFacts
  <2>12. u = Unit(t, Depth(t)[c])
    BY <1>3 DEF u
  <2> HIDE DEF u
  <2> QED  BY <1>1, <1>3, <2>9, <2>10, <2>11, <2>12 DEF d
<1>5. CASE ~(d < t.index_bits)
  <2>1. radix(c) = radix(n)
    BY <1>5 DEF IsChild
  <2>2. d >= t.index_bits /\ d + 1 >= t.index_bits /\ t.index_bits \in Nat
    BY <1>2, <1>5, NodeFacts
  <2>3. Floor(t, n) = radix(n) /\ Floor(t, c) = radix(c)
    BY <1>1, <1>3, <2>2, FloorBelow
  <2> QED  BY <1>1, <1>3, <1>5, <2>1, <2>3
<1> QED  BY <1>4, <1>5

-----------------------------------------------------------------------------
(* mask, value and size_level.                                               *)

MaskAt(t, d) ==
  IF d < t.index_bits THEN 2^(t.index_bits - 1 - d)
  ELSE IF d - t.index_bits = BITS_PER_LONG THEN ULONG_MAX
  ELSE 2^(BITS_PER_LONG - 1 - (d - t.index_bits))
LevelAt(t, d) == IF d < t.index_bits THEN 0 ELSE d - t.index_bits + 1

\* What IterMatchesPath asks for.
IterFor(t, n) ==
  [cur |-> n, mask |-> MaskAt(t, Depth(t)[n]), value |-> Floor(t, n),
   size_level |-> LevelAt(t, Depth(t)[n])]

LEMMA MaskDown ==
  ASSUME NEW t \in Trees, NEW d \in Nat, d < t.index_bits + BITS_PER_LONG
  PROVE  LET m == MaskAt(t, d) \div 2 IN
           /\ MaskAt(t, d + 1) = IF m # 0 THEN m
                                 ELSE IF LevelAt(t, d) # 0 THEN ULONG_MAX
                                 ELSE 2^(BITS_PER_LONG - 1)
           /\ LevelAt(t, d + 1) = IF LevelAt(t, d) # 0 THEN LevelAt(t, d) + 1
                                  ELSE IF m = 0 THEN 1 ELSE 0
<1> DEFINE b == t.index_bits
           B == BITS_PER_LONG
<1>1. b \in 1..B /\ B \in Nat \ {0}
  BY PrioAssumption DEF IsPrioTree
<1>2. 2^0 = 1 /\ 1 \div 2 = 0
  BY PowersOfTwo
<1>3. CASE d < b - 1
  <2>1. b - 1 - d \in Nat \ {0} /\ b - 1 - d <= B /\ (b - 1 - d) - 1 = b - 1 - (d + 1)
    BY <1>1, <1>3
  <2>2. 2^(b - 1 - d) \div 2 = 2^(b - 1 - (d + 1)) /\ 2^(b - 1 - (d + 1)) # 0
    BY <2>1, NextPower
  <2>3. d < b /\ d + 1 < b
    BY <1>1, <1>3
  <2> QED  BY <2>2, <2>3 DEF MaskAt, LevelAt
<1>4. CASE d = b - 1
  <2>1. d < b /\ ~(d + 1 < b) /\ b - 1 - d = 0 /\ (d + 1) - b = 0 /\ 0 # B
        /\ B - 1 - 0 = B - 1
    BY <1>1, <1>4
  <2>2. MaskAt(t, d) = 1 /\ LevelAt(t, d) = 0
    BY <1>2, <2>1 DEF MaskAt, LevelAt
  <2>3. MaskAt(t, d + 1) = 2^(B - 1) /\ LevelAt(t, d + 1) = 1
    BY <2>1 DEF MaskAt, LevelAt
  <2> QED  BY <1>2, <2>2, <2>3
<1>5. CASE d >= b
  <2>1. /\ ~(d < b) /\ ~(d + 1 < b) /\ d - b \in Nat /\ d - b < B /\ (d + 1) - b = (d - b) + 1
        /\ d - b # B /\ (d + 1) - b + 1 = (d - b + 1) + 1 /\ d - b + 1 # 0
    BY <1>1, <1>5
  <2>2. MaskAt(t, d) = 2^(B - 1 - (d - b)) /\ LevelAt(t, d) = d - b + 1
        /\ LevelAt(t, d + 1) = (d - b + 1) + 1 /\ LevelAt(t, d) # 0
    BY <2>1 DEF MaskAt, LevelAt
  <2>3. CASE (d + 1) - b = B
    <3>1. B - 1 - (d - b) = 0
      BY <1>1, <1>5, <2>3
    <3>2. MaskAt(t, d) = 1 /\ MaskAt(t, d + 1) = ULONG_MAX
      BY <1>2, <2>1, <2>2, <2>3, <3>1 DEF MaskAt
    <3> QED  BY <1>2, <2>2, <3>2
  <2>4. CASE (d + 1) - b # B
    <3>1. /\ B - 1 - (d - b) \in Nat \ {0} /\ B - 1 - (d - b) <= B
          /\ (B - 1 - (d - b)) - 1 = B - 1 - ((d + 1) - b)
      BY <1>1, <1>5, <2>1, <2>4
    <3>2. /\ 2^(B - 1 - (d - b)) \div 2 = 2^(B - 1 - ((d + 1) - b))
          /\ 2^(B - 1 - ((d + 1) - b)) # 0
      BY <3>1, NextPower
    <3>3. MaskAt(t, d + 1) = 2^(B - 1 - ((d + 1) - b))
      BY <2>1, <2>4 DEF MaskAt
    <3> QED  BY <2>2, <3>2, <3>3
  <2> QED  BY <2>3, <2>4
<1> QED  BY <1>1, <1>3, <1>4, <1>5

LEMMA MaskUp ==
  ASSUME NEW t \in Trees, NEW d \in Nat, d < t.index_bits + BITS_PER_LONG
  PROVE  LET mask == MaskAt(t, d + 1)
             level == LevelAt(t, d + 1) IN
           /\ MaskAt(t, d) = IF mask = ULONG_MAX \/ level = 1 THEN 1
                             ELSE (2 * mask) % 2^BITS_PER_LONG
           /\ LevelAt(t, d) = IF level = 0 THEN 0 ELSE level - 1
<1> DEFINE b == t.index_bits
           B == BITS_PER_LONG
<1>1. b \in 1..B /\ B \in Nat \ {0}
  BY PrioAssumption DEF IsPrioTree
<1>2. 2^0 = 1 /\ 2^B \in Nat /\ ULONG_MAX = 2^B - 1
  <2>1. 2^B \in Nat
    BY <1>1, Power
  <2> QED  BY <2>1, PowersOfTwo DEF ULONG_MAX
<1>3. ASSUME NEW k \in Nat, k + 1 < B
      PROVE  2^k # ULONG_MAX /\ (2 * 2^k) % 2^B = 2^(k + 1)
  <2>1. 2^(k + 1) = 2 * 2^k /\ 2^k \in Nat \ {0}
    <3>1. (k + 1) \in Nat \ {0} /\ k + 1 <= B /\ (k + 1) - 1 = k
      BY <1>1, <1>3
    <3> QED  BY <3>1, NextPower
  <2>2. 2 * 2^(k + 1) <= 2^B
    BY <1>1, <1>3, PowersGrow
  <2>3. 2^k + 1 < 2^B /\ 2 * 2^k \in 0..2^B - 1
    BY <1>2, <2>1, <2>2
  <2> QED  BY <1>2, <2>1, <2>3
<1>4. CASE d < b - 1
  <2>1. b - 1 - (d + 1) \in Nat /\ b - 1 - (d + 1) + 1 = b - 1 - d /\ b - 1 - d < B
    BY <1>1, <1>4
  <2>2. /\ 2^(b - 1 - (d + 1)) # ULONG_MAX
        /\ (2 * 2^(b - 1 - (d + 1))) % 2^B = 2^(b - 1 - d)
    BY <2>1, <1>3
  <2>3. d < b /\ d + 1 < b
    BY <1>1, <1>4
  <2>4. /\ MaskAt(t, d) = 2^(b - 1 - d) /\ LevelAt(t, d) = 0
        /\ MaskAt(t, d + 1) = 2^(b - 1 - (d + 1)) /\ LevelAt(t, d + 1) = 0
    BY <2>3 DEF MaskAt, LevelAt
  <2> QED  BY <2>2, <2>4
<1>5. CASE d = b - 1
  <2>1. d < b /\ ~(d + 1 < b) /\ b - 1 - d = 0 /\ (d + 1) - b = 0
    BY <1>1, <1>5
  <2>2. LevelAt(t, d) = 0 /\ LevelAt(t, d + 1) = 1
    BY <2>1 DEF LevelAt
  <2>3. MaskAt(t, d) = 1
    BY <1>2, <2>1 DEF MaskAt
  <2> QED  BY <2>2, <2>3
<1>6. CASE d >= b
  <2>1. /\ ~(d < b) /\ ~(d + 1 < b) /\ d - b \in Nat /\ d - b < B
        /\ d - b # B /\ (d + 1) - b + 1 = (d - b + 1) + 1
    BY <1>1, <1>6
  <2>2. MaskAt(t, d) = 2^(B - 1 - (d - b)) /\ LevelAt(t, d) = d - b + 1
        /\ LevelAt(t, d + 1) = (d - b + 1) + 1 /\ LevelAt(t, d + 1) # 0 /\ LevelAt(t, d + 1) # 1
        /\ LevelAt(t, d) = LevelAt(t, d + 1) - 1
    BY <2>1 DEF MaskAt, LevelAt
  <2>3. CASE (d + 1) - b = B
    <3>1. B - 1 - (d - b) = 0
      BY <1>1, <1>6, <2>3
    <3>2. MaskAt(t, d) = 1 /\ MaskAt(t, d + 1) = ULONG_MAX
      BY <1>2, <2>1, <2>2, <2>3, <3>1 DEF MaskAt
    <3> QED  BY <2>2, <3>2
  <2>4. CASE (d + 1) - b # B
    <3>1. /\ B - 1 - ((d + 1) - b) \in Nat /\ B - 1 - (d - b) < B
          /\ B - 1 - ((d + 1) - b) + 1 = B - 1 - (d - b)
      BY <1>1, <1>6, <2>1, <2>4
    <3>2. /\ 2^(B - 1 - ((d + 1) - b)) # ULONG_MAX
          /\ (2 * 2^(B - 1 - ((d + 1) - b))) % 2^B = 2^(B - 1 - (d - b))
      BY <3>1, <1>3
    <3>3. MaskAt(t, d + 1) = 2^(B - 1 - ((d + 1) - b))
      BY <2>1, <2>4 DEF MaskAt
    <3> QED  BY <2>2, <3>2, <3>3
  <2> QED  BY <2>3, <2>4
<1> QED  BY <1>1, <1>4, <1>5, <1>6

-----------------------------------------------------------------------------
(* Subtrees.                                                                 *)

Closed(t, S) ==
  \A m \in S : /\ t.left[m] # NoNode => t.left[m] \in S
               /\ t.right[m] # NoNode => t.right[m] \in S

\* A node and all that is below it; nothing for NoNode.
Below(t, n) ==
  {m \in Nodes(t) :
     n # NoNode /\ \A S \in SUBSET Nodes(t) : n \in S /\ Closed(t, S) => m \in S}

LEMMA ChildFacts ==
  ASSUME NEW t \in Trees, NEW n \in Nodes(t), NEW c, c # NoNode,
         c = t.left[n] \/ c = t.right[n]
  PROVE  /\ c \in Nodes(t) /\ c # t.root /\ t.parent[c] = n /\ heap(c) <= heap(n)
         /\ Depth(t)[c] = Depth(t)[n] + 1
         /\ Depth(t)[n] < t.index_bits + BITS_PER_LONG
<1>1. IsPrioTree(t)
  BY PrioAssumption
<1>2. IsChild(t, n, c, 0) \/ IsChild(t, n, c, 1)
  BY <1>1 DEF IsPrioTree
<1>3. c \in Nodes(t) /\ c # t.root /\ t.parent[c] = n /\ heap(c) <= heap(n)
  BY <1>2 DEF IsChild
<1>4. Depth(t)[c] = 1 + Depth(t)[n]
  BY <1>1, <1>3 DEF IsPrioTree
<1>5. /\ Depth(t)[n] \in 0..t.index_bits + BITS_PER_LONG
      /\ Depth(t)[c] \in 0..t.index_bits + BITS_PER_LONG
      /\ t.index_bits \in Nat /\ BITS_PER_LONG \in Nat
  BY <1>3, NodeFacts
<1> QED  BY <1>3, <1>4, <1>5

LEMMA BelowLeast ==
  ASSUME NEW t \in Trees, NEW n \in Nodes(t)
  PROVE  /\ n \in Below(t, n) /\ Below(t, n) \subseteq Nodes(t) /\ Closed(t, Below(t, n))
         /\ \A S \in SUBSET Nodes(t) : n \in S /\ Closed(t, S) => Below(t, n) \subseteq S
<1>1. n # NoNode
  BY PrioAssumption DEF IsPrioTree
<1>2. Closed(t, Below(t, n))
  <2>1. ASSUME NEW m \in Below(t, n), NEW c, c # NoNode, c = t.left[m] \/ c = t.right[m]
        PROVE  c \in Below(t, n)
    <3>1. m \in Nodes(t)
      BY DEF Below
    <3>2. c \in Nodes(t)
      BY <2>1, <3>1, ChildFacts
    <3>3. ASSUME NEW S \in SUBSET Nodes(t), n \in S, Closed(t, S) PROVE c \in S
      <4>1. m \in S
        BY <3>3 DEF Below
      <4> QED  BY <2>1, <3>3, <4>1 DEF Closed
    <3> QED  BY <1>1, <3>2, <3>3 DEF Below
  <2> QED  BY <2>1 DEF Closed
<1>3. n \in Below(t, n) /\ Below(t, n) \subseteq Nodes(t)
  BY <1>1 DEF Below
<1>4. \A S \in SUBSET Nodes(t) : n \in S /\ Closed(t, S) => Below(t, n) \subseteq S
  BY DEF Below
<1> QED  BY <1>2, <1>3, <1>4

LEMMA NoneBelow == ASSUME NEW t PROVE Below(t, NoNode) = {}
BY DEF Below

\* The subtree of a child is part of its parent's.
LEMMA BelowChild ==
  ASSUME NEW t \in Trees, NEW n \in Nodes(t), NEW m \in Below(t, n),
         NEW c, c = t.left[m] \/ c = t.right[m]
  PROVE  Below(t, c) \subseteq Below(t, n)
<1>1. CASE c = NoNode
  BY <1>1, NoneBelow
<1>2. CASE c # NoNode
  <2>1. c \in Below(t, n) /\ Closed(t, Below(t, n)) /\ Below(t, n) \subseteq Nodes(t)
    BY <1>2, BelowLeast DEF Closed
  <2> QED  BY <2>1, BelowLeast
<1> QED  BY <1>1, <1>2

LEMMA BelowSplit ==
  ASSUME NEW t \in Trees, NEW n \in Nodes(t)
  PROVE  Below(t, n) = {n} \cup Below(t, t.left[n]) \cup Below(t, t.right[n])
<1> DEFINE L == Below(t, t.left[n])
           R == Below(t, t.right[n])
           S == {n} \cup L \cup R
<1>1. L \subseteq Below(t, n) /\ R \subseteq Below(t, n) /\ n \in Below(t, n)
  BY BelowLeast, BelowChild
<1>2. Below(t, n) \subseteq Nodes(t)
  BY BelowLeast
<1>3. /\ t.left[n] # NoNode => t.left[n] \in L /\ Closed(t, L)
      /\ t.right[n] # NoNode => t.right[n] \in R /\ Closed(t, R)
      /\ t.left[n] = NoNode => L = {}
      /\ t.right[n] = NoNode => R = {}
  BY ChildFacts, BelowLeast, NoneBelow
<1>4. Closed(t, S)
  <2> HIDE DEF L, R
  <2>1. Closed(t, L) /\ Closed(t, R)
    BY <1>3 DEF Closed
  <2> QED  BY <1>3, <2>1 DEF Closed
<1>5. S \subseteq Nodes(t) /\ n \in S
  BY <1>1, <1>2
<1> HIDE DEF S
<1>6. Below(t, n) \subseteq S
  BY <1>4, <1>5, BelowLeast
<1> QED  BY <1>1, <1>6 DEF S

LEMMA BelowParent ==
  ASSUME NEW t \in Trees, NEW n \in Nodes(t), NEW m \in Below(t, n), m # n
  PROVE  m # t.root /\ t.parent[m] \in Below(t, n)
<1> DEFINE S == {k \in Below(t, n) : k = n \/ (k # t.root /\ t.parent[k] \in Below(t, n))}
<1>1. Below(t, n) \subseteq Nodes(t) /\ n \in Below(t, n) /\ Closed(t, Below(t, n))
  BY BelowLeast
<1>2. ASSUME NEW k \in S, NEW c, c # NoNode, c = t.left[k] \/ c = t.right[k] PROVE c \in S
  <2>1. c \in Below(t, n)
    BY <1>1, <1>2 DEF Closed
  <2>2. c # t.root /\ t.parent[c] = k
    BY <1>1, <1>2, ChildFacts
  <2> QED  BY <2>1, <2>2
<1>3. n \in S /\ S \subseteq Nodes(t)
  BY <1>1
<1> HIDE DEF S
<1>4. Closed(t, S)
  BY <1>2 DEF Closed
<1>5. m \in S
  BY <1>3, <1>4, BelowLeast
<1> QED  BY <1>5 DEF S

\* What grows on the way down.
LEMMA BelowOrder ==
  ASSUME NEW t \in Trees, NEW n \in Nodes(t), NEW m \in Below(t, n)
  PROVE  /\ m = n \/ Depth(t)[n] < Depth(t)[m]
         /\ heap(m) <= heap(n) /\ Floor(t, n) <= radix(m)
<1> DEFINE S == {k \in Nodes(t) : /\ k = n \/ Depth(t)[n] < Depth(t)[k]
                                  /\ Depth(t)[n] <= Depth(t)[k]
                                  /\ heap(k) <= heap(n) /\ Floor(t, n) <= Floor(t, k)}
<1>1. Depth(t)[n] \in Nat /\ heap(n) \in Nat /\ Floor(t, n) \in Nat
  BY NodeFacts, FloorBelow
<1>2. n \in S /\ S \subseteq Nodes(t)
  BY <1>1
<1>3. ASSUME NEW k \in S, NEW c, c # NoNode, c = t.left[k] \/ c = t.right[k] PROVE c \in S
  <2>1. k \in Nodes(t)
    OBVIOUS
  <2>2. /\ c \in Nodes(t) /\ heap(c) <= heap(k) /\ Depth(t)[c] = Depth(t)[k] + 1
    BY <1>3, <2>1, ChildFacts
  <2>3. /\ Depth(t)[k] \in Nat /\ heap(k) \in Nat /\ heap(c) \in Nat
        /\ Floor(t, k) \in Nat /\ Floor(t, c) \in Nat /\ t.index_bits \in Nat
        /\ Depth(t)[c] \in Nat
    BY <2>1, <2>2, NodeFacts, FloorBelow
  <2>4. Floor(t, k) <= Floor(t, c)
    <3>1. PICK side \in {0, 1} : IsChild(t, k, c, side)
      BY <1>3, <2>1, PrioAssumption DEF IsPrioTree
    <3>2. \/ Floor(t, c) = Floor(t, k) + side * Unit(t, Depth(t)[c])
          \/ Floor(t, c) = Floor(t, k)
      BY <2>1, <2>3, <3>1, FloorOfChild
    <3>3. Unit(t, Depth(t)[c]) \in Nat
      BY <2>3, UnitHalves
    <3>4. side * Unit(t, Depth(t)[c]) \in Nat
      BY <3>3
    <3> QED  BY <2>3, <3>2, <3>4
  <2> QED  BY <1>1, <2>1, <2>2, <2>3, <2>4
<1>4. m \in S
  <2> HIDE DEF S
  <2>1. Closed(t, S)
    BY <1>3 DEF Closed
  <2> QED  BY <1>2, <2>1, BelowLeast
<1>5. m \in Nodes(t) /\ Floor(t, m) <= radix(m) /\ Floor(t, m) \in Nat /\ radix(m) \in Nat
  BY <1>4, FloorBelow, NodeFacts
<1> QED  BY <1>1, <1>4, <1>5

\* A highest node.
LEMMA Highest ==
  ASSUME NEW t \in Trees, NEW S, S \subseteq Nodes(t), S # {}
  PROVE  \E n \in S : \A m \in S : Depth(t)[n] <= Depth(t)[m]
<1> DEFINE D == {Depth(t)[n] : n \in S}
<1>1. D \subseteq Nat /\ D # {}
  BY NodeFacts
<1>2. PICK k \in D : \A j \in D : k <= j
  <2> HIDE DEF D
  <2> QED  BY <1>1, Least
<1> QED  BY <1>2

LEMMA AllBelowRoot ==
  ASSUME NEW t \in Trees, t.root # NoNode
  PROVE  t.root \in Nodes(t) /\ Depth(t)[t.root] = 0 /\ Below(t, t.root) = Nodes(t)
<1>1. t.root \in Nodes(t) /\ Depth(t)[t.root] = 0
  BY PrioAssumption DEF IsPrioTree
<1>2. SUFFICES ASSUME Nodes(t) \ Below(t, t.root) # {} PROVE FALSE
  BY <1>1, BelowLeast
<1>3. PICK n \in Nodes(t) \ Below(t, t.root) :
        \A m \in Nodes(t) \ Below(t, t.root) : Depth(t)[n] <= Depth(t)[m]
  <2> DEFINE S == Nodes(t) \ Below(t, t.root)
  <2>1. S \subseteq Nodes(t) /\ S # {}
    BY <1>2
  <2> HIDE DEF S
  <2>2. \E n \in S : \A m \in S : Depth(t)[n] <= Depth(t)[m]
    BY <2>1, Highest
  <2> QED  BY <2>2 DEF S
<1> DEFINE p == t.parent[n]
<1>4. t.root \in Below(t, t.root) /\ Closed(t, Below(t, t.root))
  BY <1>1, BelowLeast
<1>5. /\ p \in Nodes(t) /\ n \in {t.left[p], t.right[p]} /\ n # NoNode
      /\ Depth(t)[n] = 1 + Depth(t)[p]
  BY <1>4, PrioAssumption DEF IsPrioTree
<1>6. Depth(t)[p] \in Nat /\ Depth(t)[n] \in Nat
  BY <1>5, NodeFacts
<1>7. p \in Below(t, t.root)
  BY <1>3, <1>5, <1>6
<1> QED  BY <1>4, <1>5, <1>7 DEF Closed

LEMMA SidesApart ==
  ASSUME NEW t \in Trees, NEW a \in Nodes(t)
  PROVE  Below(t, t.left[a]) \cap Below(t, t.right[a]) = {}
<1> DEFINE l == t.left[a]
           r == t.right[a]
           S == Below(t, l) \cap Below(t, r)
<1>1. SUFFICES ASSUME S # {} PROVE FALSE
  OBVIOUS
<1>2. l # NoNode /\ r # NoNode
  BY <1>1, NoneBelow
<1>3. /\ l \in Nodes(t) /\ r \in Nodes(t) /\ l # r
      /\ Depth(t)[l] = Depth(t)[a] + 1 /\ Depth(t)[r] = Depth(t)[a] + 1
  BY <1>2, ChildFacts, PrioAssumption DEF IsPrioTree
<1> HIDE DEF l, r
<1>4. S \subseteq Nodes(t)
  BY <1>3, BelowLeast
<1>5. PICK n \in S : \A m \in S : Depth(t)[n] <= Depth(t)[m]
  <2> HIDE DEF S
  <2> QED  BY <1>1, <1>4, Highest
<1>6. \A m \in Nodes(t) : Depth(t)[m] \in Nat
  BY NodeFacts
<1>7. n # l /\ n # r
  BY <1>3, <1>6, <1>5, BelowOrder
<1>8. n # t.root /\ t.parent[n] \in S
  BY <1>3, <1>5, <1>7, BelowParent
<1>9. n \in Nodes(t) /\ t.parent[n] \in Nodes(t) /\ Depth(t)[n] = 1 + Depth(t)[t.parent[n]]
  BY <1>4, <1>5, <1>8, PrioAssumption DEF IsPrioTree
<1> QED  BY <1>5, <1>6, <1>8, <1>9

-----------------------------------------------------------------------------
(* What is still to be visited.                                              *)

\* What lies right of the way from the root to n.
After(t, n) ==
  UNION {Below(t, t.right[a]) : a \in {k \in Nodes(t) : n \in Below(t, t.left[k])}}

LEMMA AfterRoot ==
  ASSUME NEW t \in Trees, t.root # NoNode
  PROVE  After(t, t.root) = {}
<1>1. t.root \in Nodes(t) /\ Depth(t)[t.root] = 0
  BY AllBelowRoot
<1>2. ASSUME NEW a \in Nodes(t), t.root \in Below(t, t.left[a]) PROVE FALSE
  <2>1. t.left[a] # NoNode
    BY <1>2, NoneBelow
  <2>2. t.left[a] \in Nodes(t) /\ Depth(t)[t.left[a]] = Depth(t)[a] + 1
    BY <2>1, ChildFacts
  <2>3. Depth(t)[a] \in Nat
    BY NodeFacts
  <2> QED  BY <1>1, <1>2, <2>2, <2>3, BelowOrder
<1> QED  BY <1>2 DEF After

LEMMA AfterChild ==
  ASSUME NEW t \in Trees, NEW n \in Nodes(t)
  PROVE  /\ t.left[n] # NoNode =>
              After(t, t.left[n]) = Below(t, t.right[n]) \cup After(t, n)
         /\ t.right[n] # NoNode => After(t, t.right[n]) = After(t, n)
<1>1. ASSUME NEW c, c # NoNode, c = t.left[n] \/ c = t.right[n], NEW a \in Nodes(t)
      PROVE  c \in Below(t, t.left[a]) <=> c = t.left[a] \/ n \in Below(t, t.left[a])
  <2>1. t.parent[c] = n
    BY <1>1, ChildFacts
  <2>2. CASE t.left[a] = NoNode
    BY <1>1, <2>2, NoneBelow
  <2>3. CASE t.left[a] # NoNode
    <3>1. t.left[a] \in Nodes(t)
      BY <2>3, ChildFacts
    <3>2. ASSUME c \in Below(t, t.left[a]), c # t.left[a] PROVE n \in Below(t, t.left[a])
      BY <2>1, <3>1, <3>2, BelowParent
    <3>3. /\ t.left[a] \in Below(t, t.left[a])
          /\ n \in Below(t, t.left[a]) => c \in Below(t, t.left[a])
      BY <1>1, <3>1, BelowLeast DEF Closed
    <3> QED  BY <3>2, <3>3
  <2> QED  BY <2>2, <2>3
<1>2. ASSUME t.left[n] # NoNode
      PROVE  After(t, t.left[n]) = Below(t, t.right[n]) \cup After(t, n)
  <2>1. \A a \in Nodes(t) : t.left[n] = t.left[a] => a = n
    BY <1>2, ChildFacts
  <2>2. \A a \in Nodes(t) : t.left[n] \in Below(t, t.left[a])
                              <=> a = n \/ n \in Below(t, t.left[a])
    BY <1>1, <1>2, <2>1
  <2> QED  BY <2>2 DEF After
<1>3. ASSUME t.right[n] # NoNode PROVE After(t, t.right[n]) = After(t, n)
  <2>1. ASSUME NEW a \in Nodes(t) PROVE t.right[n] # t.left[a]
    <3>1. SUFFICES ASSUME t.right[n] = t.left[a] PROVE FALSE
      OBVIOUS
    <3>2. t.parent[t.right[n]] = n /\ t.parent[t.left[a]] = a
      BY <1>3, <3>1, ChildFacts
    <3> QED  BY <1>3, <3>1, <3>2, PrioAssumption DEF IsPrioTree
  <2>2. \A a \in Nodes(t) : t.right[n] \in Below(t, t.left[a]) <=> n \in Below(t, t.left[a])
    BY <1>1, <1>3, <2>1
  <2> QED  BY <2>2 DEF After
<1> QED  BY <1>2, <1>3

\* A node is neither below itself nor after itself.
LEMMA NodeApart ==
  ASSUME NEW t \in Trees, NEW n \in Nodes(t)
  PROVE  /\ n \notin Below(t, t.left[n]) /\ n \notin Below(t, t.right[n])
         /\ n \notin After(t, n)
         /\ Below(t, t.left[n]) \subseteq Nodes(t) /\ Below(t, t.right[n]) \subseteq Nodes(t)
         /\ After(t, n) \subseteq Nodes(t)
<1>1. ASSUME NEW c, c = t.left[n] \/ c = t.right[n] PROVE n \notin Below(t, c)
  <2>1. SUFFICES ASSUME c # NoNode PROVE n \notin Below(t, c)
    BY NoneBelow
  <2>2. c \in Nodes(t) /\ Depth(t)[c] = Depth(t)[n] + 1 /\ Depth(t)[n] \in Nat
    BY <1>1, <2>1, ChildFacts, NodeFacts
  <2> QED  BY <2>2, BelowOrder
<1>2. n \notin After(t, n)
  BY SidesApart DEF After
<1>3. \A m : Below(t, m) \subseteq Nodes(t)
  BY DEF Below
<1> QED  BY <1>1, <1>2, <1>3 DEF After

-----------------------------------------------------------------------------
(* The cursor's moves.                                                       *)

LEMMA DescendIs ==
  ASSUME tree \in Trees, NEW n \in Nodes(tree), iter = IterFor(tree, n),
         NEW c, c # NoNode, c = tree.left[n] \/ c = tree.right[n],
         Descend(c, Floor(tree, c))
  PROVE  iter' = IterFor(tree, c)
<1> DEFINE d == Depth(tree)[n]
<1>1. Depth(tree)[c] = d + 1 /\ d \in Nat /\ d < tree.index_bits + BITS_PER_LONG
  BY ChildFacts, NodeFacts
<1>2. iter.mask = MaskAt(tree, d) /\ iter.size_level = LevelAt(tree, d)
  BY DEF IterFor
<1> HIDE DEF d
<1>3. iter' = [cur |-> c, value |-> Floor(tree, c),
               mask |-> MaskAt(tree, d + 1), size_level |-> LevelAt(tree, d + 1)]
  BY <1>1, <1>2, MaskDown DEF Descend
<1> QED  BY <1>1, <1>3 DEF IterFor

LEMMA DownLeft ==
  ASSUME tree \in Trees, NEW n \in Nodes(tree), iter = IterFor(tree, n),
         tree.left[n] # NoNode, Descend(tree.left[n], iter.value)
  PROVE  iter' = IterFor(tree, tree.left[n])
<1> DEFINE c == tree.left[n]
<1>1. IsChild(tree, n, c, 0)
  BY PrioAssumption DEF IsPrioTree
<1>2. /\ Depth(tree)[n] \in Nat /\ tree.index_bits \in Nat /\ c \in Nodes(tree)
      /\ Floor(tree, n) \in Nat /\ Unit(tree, Depth(tree)[c]) \in Nat
  BY ChildFacts, NodeFacts, FloorBelow, UnitHalves
<1>3. iter.value = Floor(tree, n)
  BY DEF IterFor
<1>4. Floor(tree, c) = Floor(tree, n)
  <2>1. CASE Depth(tree)[n] < tree.index_bits
    <3>1. Floor(tree, c) = Floor(tree, n) + 0 * Unit(tree, Depth(tree)[c])
      BY <1>1, <2>1, FloorOfChild
    <3> QED  BY <1>2, <3>1
  <2>2. CASE Depth(tree)[n] >= tree.index_bits
    BY <1>1, <2>2, FloorOfChild
  <2> QED  BY <1>2, <2>1, <2>2
<1> QED  BY <1>3, <1>4, DescendIs

LEMMA RightValueIs ==
  ASSUME tree \in Trees, NEW n \in Nodes(tree), iter = IterFor(tree, n),
         tree.right[n] # NoNode
  PROVE  RightValue = Floor(tree, tree.right[n])
<1> DEFINE c == tree.right[n]
           d == Depth(tree)[n]
<1>1. IsChild(tree, n, c, 1)
  BY PrioAssumption DEF IsPrioTree
<1>2. /\ d \in Nat /\ tree.index_bits \in Nat /\ Depth(tree)[c] = d + 1
      /\ Unit(tree, d + 1) \in Nat
  BY ChildFacts, NodeFacts, UnitHalves
<1>3. /\ iter.value = Floor(tree, n) /\ iter.mask = MaskAt(tree, d)
      /\ iter.size_level = LevelAt(tree, d)
  BY DEF IterFor
<1>4. CASE d < tree.index_bits
  <2>1. iter.mask = Unit(tree, d + 1) /\ iter.size_level = 0
    BY <1>2, <1>3, <1>4, UnitHalves DEF MaskAt, LevelAt
  <2>2. /\ Floor(tree, c) = Floor(tree, n) + 1 * Unit(tree, d + 1)
        /\ ~Bit(Floor(tree, n), Unit(tree, d + 1))
    BY <1>1, <1>2, <1>4, FloorOfChild
  <2> QED  BY <1>2, <1>3, <2>1, <2>2 DEF RightValue
<1>5. CASE d >= tree.index_bits
  <2>1. iter.size_level # 0
    BY <1>2, <1>3, <1>5 DEF LevelAt
  <2>2. Floor(tree, c) = Floor(tree, n)
    BY <1>1, <1>5, FloorOfChild
  <2> QED  BY <1>3, <2>1, <2>2 DEF RightValue
<1> QED  BY <1>2, <1>4, <1>5

LEMMA DownRight ==
  ASSUME tree \in Trees, NEW n \in Nodes(tree), iter = IterFor(tree, n),
         tree.right[n] # NoNode, Descend(tree.right[n], RightValue)
  PROVE  iter' = IterFor(tree, tree.right[n])
BY RightValueIs, DescendIs

LEMMA GoesUp ==
  ASSUME tree \in Trees, NEW c \in Nodes(tree), iter = IterFor(tree, c),
         c # tree.root, prio_tree_parent_user
  PROVE  /\ tree.parent[c] \in Nodes(tree) /\ iter' = IterFor(tree, tree.parent[c])
         /\ c = tree.left[tree.parent[c]] \/ c = tree.right[tree.parent[c]]
<1> DEFINE n == tree.parent[c]
           d == Depth(tree)[n]
<1>1. IsPrioTree(tree)
  BY PrioAssumption
<1>2. n \in Nodes(tree) /\ c \in {tree.left[n], tree.right[n]} /\ c # NoNode
  BY <1>1 DEF IsPrioTree
<1> HIDE DEF n
<1>3. PICK side \in {0, 1} : IsChild(tree, n, c, side)
  BY <1>1, <1>2 DEF IsPrioTree
<1>4. /\ d \in Nat /\ Depth(tree)[c] = d + 1 /\ d < tree.index_bits + BITS_PER_LONG
      /\ tree.index_bits \in Nat
  BY <1>2, ChildFacts, NodeFacts
<1>5. /\ iter.value = Floor(tree, c) /\ iter.mask = MaskAt(tree, d + 1)
      /\ iter.size_level = LevelAt(tree, d + 1) /\ iter.cur = c
  BY <1>4 DEF IterFor
<1> DEFINE mask == MaskAt(tree, d)
           level == LevelAt(tree, d)
<1>6. iter' = [cur |-> n, mask |-> mask, size_level |-> level,
               value |-> IF level = 0 /\ Bit(iter.value, mask) THEN iter.value - mask
                         ELSE iter.value]
  BY <1>4, <1>5, MaskUp DEF prio_tree_parent_user, n
<1>7. (IF level = 0 /\ Bit(Floor(tree, c), mask) THEN Floor(tree, c) - mask
       ELSE Floor(tree, c)) = Floor(tree, n)
  <2>1. Floor(tree, n) \in Nat
    BY <1>2, FloorBelow
  <2>2. CASE d < tree.index_bits
    <3>1. mask = Unit(tree, d + 1) /\ level = 0 /\ Unit(tree, d + 1) \in Nat
      <4>1. d + 1 \in Nat
        BY <1>4
      <4>2. Unit(tree, d + 1) \in Nat
        BY <4>1, UnitHalves
      <4>3. Unit(tree, d + 1) = 2^(tree.index_bits - 1 - d)
        BY <1>4, <2>2, UnitHalves
      <4> QED  BY <2>2, <4>2, <4>3 DEF MaskAt, LevelAt
    <3>2. /\ Floor(tree, c) = Floor(tree, n) + side * mask
          /\ Bit(Floor(tree, c), mask) <=> side = 1
      BY <1>2, <1>3, <1>4, <2>2, <3>1, FloorOfChild
    <3> HIDE DEF mask, level
    <3>3. CASE side = 0
      BY <2>1, <3>1, <3>2, <3>3
    <3>4. CASE side = 1
      BY <2>1, <3>1, <3>2, <3>4
    <3> QED  BY <3>3, <3>4
  <2>3. CASE d >= tree.index_bits
    <3>1. level # 0
      BY <1>4, <2>3 DEF LevelAt
    <3>2. Floor(tree, c) = Floor(tree, n)
      BY <1>2, <1>3, <2>3, FloorOfChild
    <3> QED  BY <3>1, <3>2
  <2> QED  BY <1>4, <2>2, <2>3
<1>8. iter' = [cur |-> n, mask |-> mask, size_level |-> level, value |-> Floor(tree, n)]
  BY <1>5, <1>6, <1>7
<1> QED  BY <1>2, <1>8 DEF IterFor, n

-----------------------------------------------------------------------------
(* What may be passed over.                                                  *)

LEMMA NoneLeft ==
  ASSUME tree \in Trees, stab \in Nat, iter.cur \in Nodes(tree), ~Left
  PROVE  \A m \in Below(tree, tree.left[iter.cur]) : ~Overlap(m)
<1> DEFINE c == tree.left[iter.cur]
<1>1. SUFFICES ASSUME NEW m \in Below(tree, c) PROVE ~Overlap(m)
  OBVIOUS
<1>2. c # NoNode
  BY NoneBelow
<1>3. c \in Nodes(tree) /\ m \in Nodes(tree)
  BY <1>2, ChildFacts DEF Below
<1>4. heap(c) \in Nat /\ heap(m) \in Nat /\ heap(m) <= heap(c)
  BY <1>3, NodeFacts, BelowOrder
<1> QED  BY <1>2, <1>4 DEF Left, Overlap

LEMMA NoneRight ==
  ASSUME tree \in Trees, stab \in Nat, iter.cur \in Nodes(tree),
         iter = IterFor(tree, iter.cur), ~Right
  PROVE  \A m \in Below(tree, tree.right[iter.cur]) : ~Overlap(m)
<1> DEFINE c == tree.right[iter.cur]
<1>1. SUFFICES ASSUME NEW m \in Below(tree, c) PROVE ~Overlap(m)
  OBVIOUS
<1>2. c # NoNode
  BY NoneBelow
<1>3. c \in Nodes(tree) /\ m \in Nodes(tree)
  BY <1>2, ChildFacts DEF Below
<1>4. /\ heap(c) \in Nat /\ heap(m) \in Nat /\ radix(m) \in Nat /\ Floor(tree, c) \in Nat
      /\ heap(m) <= heap(c) /\ Floor(tree, c) <= radix(m)
  BY <1>3, NodeFacts, FloorBelow, BelowOrder
<1>5. RightValue = Floor(tree, c)
  BY <1>2, RightValueIs
<1> QED  BY <1>2, <1>4, <1>5 DEF Right, Overlap

\* Going left without looking right, prio_tree_first_user misses nothing: a left
\* child that ends late enough and still does not overlap begins too late, and
\* so does all that is right of it.
LEMMA NoneRightOf ==
  ASSUME tree \in Trees, stab \in Nat, NEW n \in Nodes(tree), NEW c, c = tree.left[n],
         c # NoNode, stab <= heap(c), ~Overlap(c)
  PROVE  \A m \in Below(tree, tree.right[n]) : ~Overlap(m)
<1> DEFINE r == tree.right[n]
<1>1. SUFFICES ASSUME NEW m \in Below(tree, r) PROVE ~Overlap(m)
  OBVIOUS
<1>2. r # NoNode
  BY NoneBelow
<1>3. c \in Nodes(tree) /\ r \in Nodes(tree) /\ m \in Nodes(tree)
      /\ Depth(tree)[c] = Depth(tree)[n] + 1 /\ Depth(tree)[r] = Depth(tree)[n] + 1
  BY <1>2, ChildFacts DEF Below
<1>4. /\ heap(c) \in Nat /\ radix(c) \in Nat /\ radix(m) \in Nat
      /\ Floor(tree, r) \in Nat /\ Floor(tree, r) <= radix(m)
      /\ Depth(tree)[n] \in Nat /\ tree.index_bits \in Nat
      /\ Floor(tree, c) \in Nat /\ radix(c) < Floor(tree, c) + Unit(tree, Depth(tree)[c])
  BY <1>3, NodeFacts, FloorBelow, BelowOrder
<1>5. stab < radix(c)
  BY <1>4 DEF Overlap
<1>6. IsChild(tree, n, c, 0) /\ IsChild(tree, n, r, 1)
  BY <1>2, PrioAssumption DEF IsPrioTree
<1>7. radix(c) <= Floor(tree, r)
  <2>1. CASE Depth(tree)[n] < tree.index_bits
    <3> DEFINE u == Unit(tree, Depth(tree)[n] + 1)
    <3>1. u \in Nat
      BY <1>4, UnitHalves
    <3>2. Floor(tree, n) \in Nat
      BY FloorBelow
    <3>3. Floor(tree, c) = Floor(tree, n) + 0 * u /\ Floor(tree, r) = Floor(tree, n) + 1 * u
      BY <1>3, <1>6, <2>1, FloorOfChild
    <3>4. radix(c) < Floor(tree, c) + u
      BY <1>3, <1>4
    <3> HIDE DEF u
    <3> QED  BY <1>4, <3>1, <3>2, <3>3, <3>4
  <2>2. CASE Depth(tree)[n] >= tree.index_bits
    <3>1. Floor(tree, r) = radix(n) /\ Floor(tree, c) = radix(n)
      BY <1>6, <2>2, FloorOfChild
    <3>2. radix(c) = radix(n)
      BY <1>3, <1>4, <2>2, <3>1, FloorBelow
    <3> QED  BY <1>4, <3>1, <3>2
  <2> QED  BY <1>4, <2>1, <2>2
<1> QED  BY <1>4, <1>5, <1>7 DEF Overlap

-----------------------------------------------------------------------------
(* What has been found.                                                      *)

Vmas(t, S) == UNION {{<<n, k>> : k \in 0..t.more[n]} : n \in S}
Firsts(n, k) == {<<n, j>> : j \in 0..k}

Distinct(V, f) == f \in Seq(V) /\ IsInjective(f)

\* f is all the vmas of the nodes of S, each once ...
Whole(t, f, S) == Distinct(Nodes(t) \X Nat, f) /\ ToSet(f) = Vmas(t, S)

\* ... and those of n up to the place k.
Partly(t, f, S, n, k) ==
  Distinct(Nodes(t) \X Nat, f) /\ ToSet(f) = Vmas(t, S) \cup Firsts(n, k)

LEMMA OneMore ==
  ASSUME NEW V, NEW f, Distinct(V, f), NEW x, x \in V, x \notin ToSet(f)
  PROVE  Distinct(V, Append(f, x)) /\ ToSet(Append(f, x)) = ToSet(f) \cup {x}
<1> DEFINE g == Append(f, x)
<1>1. f \in Seq(V) /\ IsInjective(f) /\ Len(f) \in Nat /\ DOMAIN f = 1..Len(f)
  BY DEF Distinct
<1>2. /\ g \in Seq(V) /\ DOMAIN g = 1..(Len(f) + 1)
      /\ \A i \in 1..Len(f) : g[i] = f[i]
      /\ g[Len(f) + 1] = x
  BY <1>1
<1> HIDE DEF g
<1>3. ToSet(g) = ToSet(f) \cup {x}
  BY <1>1, <1>2 DEF ToSet
<1>4. IsInjective(g)
  <2>1. SUFFICES ASSUME NEW a \in DOMAIN g, NEW b \in DOMAIN g, g[a] = g[b] PROVE a = b
    BY DEF IsInjective
  <2>2. CASE a \in 1..Len(f) /\ b \in 1..Len(f)
    BY <1>1, <1>2, <2>1, <2>2 DEF IsInjective
  <2>3. CASE a = Len(f) + 1 \/ b = Len(f) + 1
    BY <1>1, <1>2, <2>1, <2>3 DEF ToSet
  <2> QED  BY <1>1, <1>2, <2>2, <2>3
<1> QED  BY <1>2, <1>3, <1>4 DEF Distinct, g

LEMMA WholeEmpty == ASSUME NEW t PROVE Whole(t, <<>>, {})
BY DEF Whole, Distinct, Vmas, IsInjective, ToSet

LEMMA FirstOfNode ==
  ASSUME NEW t, NEW f, NEW S, Whole(t, f, S), NEW n \in Nodes(t) \ S,
         NEW g, g = Append(f, <<n, 0>>)
  PROVE  Partly(t, g, S, n, 0)
<1> DEFINE V == Nodes(t) \X Nat
           x == <<n, 0>>
<1>1. x \in V \ ToSet(f)
  BY DEF Whole, Vmas
<1>2. Distinct(V, g) /\ ToSet(g) = ToSet(f) \cup {x}
  <2>1. Distinct(V, f) /\ g = Append(f, x)
    BY DEF Whole
  <2>2. x \in V /\ x \notin ToSet(f)
    BY <1>1
  <2> HIDE DEF V, x
  <2> QED  BY <2>1, <2>2, OneMore
<1>3. Firsts(n, 0) = {<<n, 0>>}
  BY DEF Firsts
<1> QED  BY <1>2, <1>3 DEF Whole, Partly

LEMMA NextOfNode ==
  ASSUME NEW t, NEW f, NEW S, NEW n \in Nodes(t) \ S, NEW k \in Nat,
         Partly(t, f, S, n, k), NEW g, g = Append(f, <<n, k + 1>>)
  PROVE  Partly(t, g, S, n, k + 1)
<1> DEFINE V == Nodes(t) \X Nat
           x == <<n, k + 1>>
<1>1. x \in V \ ToSet(f)
  BY DEF Partly, Vmas, Firsts
<1>2. Distinct(V, g) /\ ToSet(g) = ToSet(f) \cup {x}
  <2>1. Distinct(V, f) /\ g = Append(f, x)
    BY DEF Partly
  <2>2. x \in V /\ x \notin ToSet(f)
    BY <1>1
  <2> HIDE DEF V, x
  <2> QED  BY <2>1, <2>2, OneMore
<1>3. Firsts(n, k + 1) = Firsts(n, k) \cup {<<n, k + 1>>}
  BY DEF Firsts
<1> QED  BY <1>2, <1>3 DEF Partly

LEMMA NodeDone ==
  ASSUME NEW t, NEW f, NEW S, NEW n, Partly(t, f, S, n, t.more[n])
  PROVE  Whole(t, f, S \cup {n})
BY DEF Whole, Partly, Vmas, Firsts

-----------------------------------------------------------------------------
(* The walk.                                                                 *)

Hits == {n \in Nodes(tree) : Overlap(n)}

\* The nodes that have not been visited when the cursor is on n.
Todo(t, where, n) ==
  (IF where \in {"returned", "left"} THEN Below(t, t.left[n]) ELSE {})
    \cup (IF where # "up" THEN Below(t, t.right[n]) ELSE {})
    \cup After(t, n)

OnPath == iter.cur \in Nodes(tree) /\ iter = IterFor(tree, iter.cur)

PrioInd ==
  /\ tree \in Trees /\ stab \in Nat
  /\ at \in {"start", "first", "returned", "left", "right", "up", "end"}
  /\ at = "start" => iter = [cur |-> NoNode, mask |-> 0, value |-> 0, size_level |-> 0]
  /\ at \notin {"start", "end"} => OnPath
  /\ at \in {"start", "first"} => Whole(tree, found, {})
  /\ at = "first" =>
       /\ Hits \subseteq Below(tree, iter.cur) \cup After(tree, iter.cur)
       /\ ~Overlap(iter.cur) => Hits \subseteq Below(tree, iter.cur)
  /\ at = "returned" =>
       /\ vma = <<iter.cur, vma[2]>> /\ vma[2] \in 0..tree.more[iter.cur]
       /\ iter.cur \in Hits
       /\ Partly(tree, found, Hits \ (Todo(tree, "returned", iter.cur) \cup {iter.cur}),
                 iter.cur, vma[2])
  /\ at \in {"left", "right", "up"} =>
       Whole(tree, found, Hits \ Todo(tree, at, iter.cur))
  /\ at = "end" => Whole(tree, found, Hits)

LEMMA HitsStay == ASSUME UNCHANGED <<tree, stab>>
                  PROVE Hits' = Hits /\ \A n : Overlap(n)' <=> Overlap(n)
BY DEF Hits, Overlap

LEMMA TodoLeft ==
  ASSUME NEW t \in Trees, NEW n \in Nodes(t), t.left[n] # NoNode
  PROVE  Todo(t, "left", n) = {t.left[n]} \cup Todo(t, "left", t.left[n])
<1>1. t.left[n] \in Nodes(t)
  BY ChildFacts
<1>2. After(t, t.left[n]) = Below(t, t.right[n]) \cup After(t, n)
  BY AfterChild
<1>3. Below(t, t.left[n]) = {t.left[n]} \cup Below(t, t.left[t.left[n]])
                              \cup Below(t, t.right[t.left[n]])
  BY <1>1, BelowSplit
<1> QED  BY <1>2, <1>3 DEF Todo

LEMMA TodoRight ==
  ASSUME NEW t \in Trees, NEW n \in Nodes(t), t.right[n] # NoNode
  PROVE  Todo(t, "right", n) = {t.right[n]} \cup Todo(t, "left", t.right[n])
<1>1. t.right[n] \in Nodes(t)
  BY ChildFacts
<1>2. After(t, t.right[n]) = After(t, n)
  BY AfterChild
<1>3. Below(t, t.right[n]) = {t.right[n]} \cup Below(t, t.left[t.right[n]])
                               \cup Below(t, t.right[t.right[n]])
  BY <1>1, BelowSplit
<1> QED  BY <1>2, <1>3 DEF Todo

\* The cursor has come to c.
LEMMA Arrive ==
  ASSUME tree \in Trees, stab \in Nat, UNCHANGED <<tree, stab>>,
         NEW c \in Nodes(tree), iter' = IterFor(tree, c),
         Whole(tree, found, Hits \ ({c} \cup Todo(tree, "left", c))),
         IF Overlap(c) THEN Give(c) ELSE GoOn("left")
  PROVE  PrioInd'
<1>1. iter'.cur = c /\ OnPath'
  BY DEF IterFor, OnPath
<1>2. Hits' = Hits
  BY HitsStay
<1>3. tree.more[c] \in Nat
  BY PrioAssumption DEF IsPrioTree
<1> DEFINE S == Hits \ ({c} \cup Todo(tree, "left", c))
<1>4. CASE Overlap(c)
  <2>1. at' = "returned" /\ vma' = <<c, 0>> /\ found' = Append(found, <<c, 0>>)
    BY <1>4 DEF Give
  <2>2. Partly(tree, found', S, c, 0)
    <3>1. c \in Nodes(tree) \ S
      OBVIOUS
    <3> HIDE DEF S
    <3> QED  BY <2>1, <3>1, FirstOfNode DEF S
  <2>3. S = Hits \ (Todo(tree, "returned", c) \cup {c}) /\ c \in Hits
    BY <1>4 DEF Todo, Hits
  <2> HIDE DEF S
  <2>4. Partly(tree, found', Hits \ (Todo(tree, "returned", c) \cup {c}), c, 0)
    BY <2>2, <2>3
  <2>5. vma'[2] = 0 /\ vma' = <<c, vma'[2]>> /\ vma'[2] \in 0..tree.more[c]
    BY <1>3, <2>1
  <2>6. (/\ vma = <<iter.cur, vma[2]>> /\ vma[2] \in 0..tree.more[iter.cur]
         /\ iter.cur \in Hits
         /\ Partly(tree, found, Hits \ (Todo(tree, "returned", iter.cur) \cup {iter.cur}),
                   iter.cur, vma[2]))'
    BY <1>1, <1>2, <2>3, <2>4, <2>5
  <2> QED  BY <1>1, <2>1, <2>6 DEF PrioInd
<1>5. CASE ~Overlap(c)
  <2>1. at' = "left" /\ UNCHANGED <<vma, found>>
    BY <1>5 DEF GoOn
  <2>2. S = Hits \ Todo(tree, "left", c)
    BY <1>5 DEF Hits
  <2>3. Whole(tree, found, Hits \ Todo(tree, "left", c))
    BY <2>2
  <2> QED  BY <1>1, <1>2, <2>1, <2>3 DEF PrioInd
<1> QED  BY <1>4, <1>5

LEMMA StepFirst == PrioInd /\ First => PrioInd'
<1> SUFFICES ASSUME PrioInd, First PROVE PrioInd'
  OBVIOUS
<1>1. /\ at = "start" /\ tree \in Trees /\ stab \in Nat /\ UNCHANGED <<tree, stab>>
      /\ iter = [cur |-> NoNode, mask |-> 0, value |-> 0, size_level |-> 0]
      /\ Whole(tree, found, {})
  BY DEF First, PrioInd
<1>2. Hits' = Hits
  BY <1>1, HitsStay
<1>3. CASE tree.root = NoNode \/ stab > heap(tree.root)
  <2>1. at' = "end" /\ UNCHANGED <<iter, found>>
    BY <1>3 DEF First, Finish
  <2>2. Hits = {}
    <3>1. SUFFICES ASSUME NEW n \in Nodes(tree) PROVE ~Overlap(n)
      BY DEF Hits
    <3>2. tree.root # NoNode
      BY <1>1, PrioAssumption DEF IsPrioTree
    <3>3. tree.root \in Nodes(tree) /\ n \in Below(tree, tree.root)
      BY <1>1, <3>2, AllBelowRoot
    <3>4. heap(n) <= heap(tree.root) /\ heap(n) \in Nat /\ heap(tree.root) \in Nat
      BY <1>1, <3>3, BelowOrder, NodeFacts
    <3> QED  BY <1>1, <1>3, <3>2, <3>4 DEF Overlap
  <2> QED  BY <1>1, <1>2, <2>1, <2>2 DEF PrioInd
<1>4. CASE ~(tree.root = NoNode \/ stab > heap(tree.root))
  <2> DEFINE r == tree.root
  <2>1. /\ at' = "first" /\ UNCHANGED <<vma, found>>
        /\ iter' = [cur |-> r, mask |-> 2^(tree.index_bits - 1), value |-> 0, size_level |-> 0]
    BY <1>1, <1>4 DEF First, GoOn
  <2>2. r \in Nodes(tree) /\ Depth(tree)[r] = 0 /\ Below(tree, r) = Nodes(tree)
    BY <1>1, <1>4, AllBelowRoot
  <2>3. /\ tree.index_bits \in 1..BITS_PER_LONG /\ BITS_PER_LONG \in Nat
        /\ radix(r) \in 0..2^tree.index_bits - 1 /\ radix(r) \in Nat
    BY <1>1, <2>2, NodeFacts
  <2>4. MaskAt(tree, 0) = 2^(tree.index_bits - 1) /\ LevelAt(tree, 0) = 0
    <3>1. 0 < tree.index_bits /\ tree.index_bits - 1 - 0 = tree.index_bits - 1
      BY <2>3
    <3> QED  BY <3>1 DEF MaskAt, LevelAt
  <2>5. Floor(tree, r) = 0
    <3> DEFINE u == Unit(tree, 0)
    <3>1. u = 2^tree.index_bits
      <4>1. 0 < tree.index_bits /\ tree.index_bits - 0 = tree.index_bits
        BY <2>3
      <4> QED  BY <4>1 DEF Unit
    <3>2. u \in Nat \ {0} /\ radix(r) \in 0..u - 1
      BY <1>1, <2>3, <3>1, UnitHalves
    <3> HIDE DEF u
    <3>3. radix(r) \div u = 0
      BY <3>2, <2>3
    <3>4. Floor(tree, r) = (radix(r) \div u) * u
      BY <2>2 DEF Floor, u
    <3> QED  BY <3>2, <3>3, <3>4
  <2>6. iter' = IterFor(tree, r)
    BY <2>1, <2>2, <2>4, <2>5 DEF IterFor
  <2>7. OnPath' /\ iter'.cur = r
    BY <1>1, <2>1, <2>2, <2>6 DEF OnPath
  <2>8. Hits \subseteq Below(tree, r)
    BY <2>2 DEF Hits
  <2> QED  BY <1>1, <1>2, <2>1, <2>7, <2>8 DEF PrioInd
<1> QED  BY <1>3, <1>4

LEMMA StepFirstLoop == PrioInd /\ FirstLoop => PrioInd'
<1> SUFFICES ASSUME PrioInd, FirstLoop PROVE PrioInd'
  OBVIOUS
<1> DEFINE n == iter.cur
           l == tree.left[n]
           r == tree.right[n]
<1>1. /\ at = "first" /\ tree \in Trees /\ stab \in Nat /\ UNCHANGED <<tree, stab>>
      /\ n \in Nodes(tree) /\ iter = IterFor(tree, n) /\ Whole(tree, found, {})
      /\ Hits \subseteq Below(tree, n) \cup After(tree, n)
      /\ ~Overlap(n) => Hits \subseteq Below(tree, n)
  BY DEF FirstLoop, PrioInd, OnPath
<1>2. Hits' = Hits /\ \A m : Overlap(m)' <=> Overlap(m)
  BY <1>1, HitsStay
<1>3. Below(tree, n) = {n} \cup Below(tree, l) \cup Below(tree, r)
  BY <1>1, BelowSplit
<1>4. CASE Overlap(n) /\ Give(n) /\ UNCHANGED iter
  <2>1. Hits \ ({n} \cup Todo(tree, "left", n)) = {}
    BY <1>1, <1>3 DEF Todo
  <2>2. iter' = IterFor(tree, n)
    BY <1>1, <1>4
  <2> QED  BY <1>1, <1>4, <2>1, <2>2, Arrive
<1>5. CASE ~Overlap(n) /\ Left /\ Descend(l, iter.value) /\ GoOn("first")
  <2>1. l # NoNode /\ stab <= heap(l)
    BY <1>5 DEF Left
  <2>2. l \in Nodes(tree)
    BY <1>1, <2>1, ChildFacts
  <2>3. iter' = IterFor(tree, l)
    BY <1>1, <1>5, <2>1, DownLeft
  <2>4. iter'.cur = l /\ OnPath'
    BY <1>1, <2>2, <2>3 DEF IterFor, OnPath
  <2>5. After(tree, l) = Below(tree, r) \cup After(tree, n)
    BY <1>1, <2>1, AfterChild
  <2>6. n \notin Hits /\ Hits \subseteq Below(tree, l) \cup Below(tree, r)
    BY <1>1, <1>3, <1>5 DEF Hits
  <2>7. ~Overlap(l) => Hits \subseteq Below(tree, l)
    <3>1. ~Overlap(l) => \A m \in Below(tree, r) : ~Overlap(m)
      BY <1>1, <2>1, NoneRightOf
    <3> QED  BY <2>6, <3>1 DEF Hits
  <2>8. at' = "first" /\ UNCHANGED <<vma, found>>
    BY <1>5 DEF GoOn
  <2>9. Hits \subseteq Below(tree, l) \cup After(tree, l)
    BY <2>5, <2>6
  <2> HIDE DEF l
  <2> QED  BY <1>1, <1>2, <2>4, <2>7, <2>8, <2>9 DEF PrioInd
<1>6. CASE ~Overlap(n) /\ ~Left /\ Right /\ Descend(r, RightValue) /\ GoOn("first")
  <2>1. r # NoNode
    BY <1>6 DEF Right
  <2>2. r \in Nodes(tree)
    BY <1>1, <2>1, ChildFacts
  <2>3. iter' = IterFor(tree, r)
    BY <1>1, <1>6, <2>1, DownRight
  <2>4. iter'.cur = r /\ OnPath'
    BY <1>1, <2>2, <2>3 DEF IterFor, OnPath
  <2>5. Hits \subseteq Below(tree, r)
    <3>1. \A m \in Below(tree, l) : ~Overlap(m)
      BY <1>1, <1>6, NoneLeft
    <3> QED  BY <1>1, <1>3, <1>6, <3>1 DEF Hits
  <2>6. at' = "first" /\ UNCHANGED <<vma, found>>
    BY <1>6 DEF GoOn
  <2> HIDE DEF r
  <2> QED  BY <1>1, <1>2, <2>4, <2>5, <2>6 DEF PrioInd
<1>7. CASE ~Overlap(n) /\ ~Left /\ ~Right /\ Finish /\ UNCHANGED iter
  <2>1. /\ \A m \in Below(tree, l) : ~Overlap(m)
        /\ \A m \in Below(tree, r) : ~Overlap(m)
    BY <1>1, <1>7, NoneLeft, NoneRight
  <2>2. Hits = {}
    BY <1>1, <1>3, <1>7, <2>1 DEF Hits
  <2>3. at' = "end" /\ UNCHANGED <<vma, found>>
    BY <1>7 DEF Finish
  <2> QED  BY <1>1, <1>2, <2>2, <2>3 DEF PrioInd
<1> QED  BY <1>4, <1>5, <1>6, <1>7 DEF FirstLoop

LEMMA StepNextVma == PrioInd /\ NextVma => PrioInd'
<1> SUFFICES ASSUME PrioInd, NextVma PROVE PrioInd'
  OBVIOUS
<1> DEFINE n == iter.cur
           k == vma[2]
           S == Hits \ (Todo(tree, "returned", n) \cup {n})
<1>1. /\ at = "returned" /\ tree \in Trees /\ stab \in Nat /\ UNCHANGED <<tree, stab, iter>>
      /\ n \in Nodes(tree) /\ iter = IterFor(tree, n) /\ vma = <<n, k>>
      /\ k \in 0..tree.more[n] /\ n \in Hits /\ Partly(tree, found, S, n, k)
  BY DEF NextVma, PrioInd, OnPath
<1>2. Hits' = Hits /\ OnPath' /\ iter'.cur = n
  BY <1>1, HitsStay DEF OnPath
<1>3. tree.more[n] \in Nat /\ vma[1] = n
  BY <1>1, PrioAssumption DEF IsPrioTree
<1>4. n \notin S
  OBVIOUS
<1>5. CASE k < tree.more[n]
  <2>1. vma' = <<n, k + 1>> /\ found' = Append(found, <<n, k + 1>>) /\ at' = at
    BY <1>3, <1>5 DEF NextVma
  <2>2. k \in Nat /\ k + 1 \in 0..tree.more[n]
    BY <1>1, <1>3, <1>5
  <2>3. Partly(tree, found', S, n, k + 1)
    <3> HIDE DEF S, k
    <3> QED  BY <1>1, <1>4, <2>1, <2>2, NextOfNode
  <2>4. vma'[2] = k + 1 /\ vma' = <<n, vma'[2]>>
    BY <2>1
  <2>5. (/\ vma = <<iter.cur, vma[2]>> /\ vma[2] \in 0..tree.more[iter.cur]
         /\ iter.cur \in Hits
         /\ Partly(tree, found, Hits \ (Todo(tree, "returned", iter.cur) \cup {iter.cur}),
                   iter.cur, vma[2]))'
    BY <1>1, <1>2, <2>2, <2>3, <2>4
  <2> QED  BY <1>1, <1>2, <2>1, <2>5 DEF PrioInd
<1>6. CASE ~(k < tree.more[n])
  <2>1. at' = "left" /\ UNCHANGED <<vma, found>>
    BY <1>3, <1>6 DEF NextVma, GoOn
  <2>2. k = tree.more[n]
    BY <1>1, <1>3, <1>6
  <2>3. Whole(tree, found, S \cup {n})
    <3> HIDE DEF S, k
    <3> QED  BY <1>1, <2>2, NodeDone
  <2>4. n \notin Todo(tree, "left", n)
    BY <1>1, NodeApart DEF Todo
  <2>5. S \cup {n} = Hits \ Todo(tree, "left", n)
    BY <1>1, <2>4 DEF Todo
  <2>6. Whole(tree, found, Hits \ Todo(tree, "left", n))
    BY <2>3, <2>5
  <2> QED  BY <1>1, <1>2, <2>1, <2>6 DEF PrioInd
<1> QED  BY <1>5, <1>6

LEMMA StepLeftLoop == PrioInd /\ LeftLoop => PrioInd'
<1> SUFFICES ASSUME PrioInd, LeftLoop PROVE PrioInd'
  OBVIOUS
<1> DEFINE n == iter.cur
           l == tree.left[n]
<1>1. /\ at = "left" /\ tree \in Trees /\ stab \in Nat /\ UNCHANGED <<tree, stab>>
      /\ n \in Nodes(tree) /\ iter = IterFor(tree, n)
      /\ Whole(tree, found, Hits \ Todo(tree, "left", n))
  BY DEF LeftLoop, PrioInd, OnPath
<1>2. CASE Left
  <2>1. l # NoNode
    BY <1>2 DEF Left
  <2>2. l \in Nodes(tree)
    BY <1>1, <2>1, ChildFacts
  <2>3. Descend(l, iter.value) /\ IF Overlap(l) THEN Give(l) ELSE GoOn("left")
    BY <1>1, <1>2 DEF LeftLoop
  <2>4. iter' = IterFor(tree, l)
    BY <1>1, <2>1, <2>3, DownLeft
  <2>5. Whole(tree, found, Hits \ ({l} \cup Todo(tree, "left", l)))
    <3>1. Todo(tree, "left", n) = {l} \cup Todo(tree, "left", l)
      BY <1>1, <2>1, TodoLeft
    <3> QED  BY <1>1, <3>1
  <2> QED  BY <1>1, <2>2, <2>3, <2>4, <2>5, Arrive
<1>3. CASE ~Left
  <2>1. at' = "right" /\ UNCHANGED <<vma, found, iter>>
    BY <1>1, <1>3 DEF LeftLoop, GoOn
  <2>2. Hits' = Hits /\ OnPath' /\ iter'.cur = n
    BY <1>1, <2>1, HitsStay DEF OnPath
  <2>3. \A m \in Below(tree, l) : ~Overlap(m)
    BY <1>1, <1>3, NoneLeft
  <2>4. Hits \ Todo(tree, "left", n) = Hits \ Todo(tree, "right", n)
    BY <2>3 DEF Hits, Todo
  <2>5. Whole(tree, found, Hits \ Todo(tree, "right", n))
    BY <1>1, <2>4
  <2> QED  BY <1>1, <2>1, <2>2, <2>5 DEF PrioInd
<1> QED  BY <1>2, <1>3

LEMMA StepRightLoop == PrioInd /\ RightLoop => PrioInd'
<1> SUFFICES ASSUME PrioInd, RightLoop PROVE PrioInd'
  OBVIOUS
<1> DEFINE n == iter.cur
           r == tree.right[n]
<1>1. /\ at = "right" /\ tree \in Trees /\ stab \in Nat /\ UNCHANGED <<tree, stab>>
      /\ n \in Nodes(tree) /\ iter = IterFor(tree, n)
      /\ Whole(tree, found, Hits \ Todo(tree, "right", n))
  BY DEF RightLoop, PrioInd, OnPath
<1>2. CASE Right
  <2>1. r # NoNode
    BY <1>2 DEF Right
  <2>2. r \in Nodes(tree)
    BY <1>1, <2>1, ChildFacts
  <2>3. Descend(r, RightValue) /\ IF Overlap(r) THEN Give(r) ELSE GoOn("left")
    BY <1>1, <1>2 DEF RightLoop
  <2>4. iter' = IterFor(tree, r)
    BY <1>1, <2>1, <2>3, DownRight
  <2>5. Whole(tree, found, Hits \ ({r} \cup Todo(tree, "left", r)))
    <3>1. Todo(tree, "right", n) = {r} \cup Todo(tree, "left", r)
      BY <1>1, <2>1, TodoRight
    <3> QED  BY <1>1, <3>1
  <2> QED  BY <1>1, <2>2, <2>3, <2>4, <2>5, Arrive
<1>3. CASE ~Right
  <2>1. at' = "up" /\ UNCHANGED <<vma, found, iter>>
    BY <1>1, <1>3 DEF RightLoop, GoOn
  <2>2. Hits' = Hits /\ OnPath' /\ iter'.cur = n
    BY <1>1, <2>1, HitsStay DEF OnPath
  <2>3. \A m \in Below(tree, r) : ~Overlap(m)
    BY <1>1, <1>3, NoneRight
  <2>4. Hits \ Todo(tree, "right", n) = Hits \ Todo(tree, "up", n)
    BY <2>3 DEF Hits, Todo
  <2>5. Whole(tree, found, Hits \ Todo(tree, "up", n))
    BY <1>1, <2>4
  <2> QED  BY <1>1, <2>1, <2>2, <2>5 DEF PrioInd
<1> QED  BY <1>2, <1>3

LEMMA StepUpLoop == PrioInd /\ UpLoop => PrioInd'
<1> SUFFICES ASSUME PrioInd, UpLoop PROVE PrioInd'
  OBVIOUS
<1> DEFINE c == iter.cur
           p == tree.parent[c]
<1>1. /\ at = "up" /\ tree \in Trees /\ stab \in Nat /\ UNCHANGED <<tree, stab>>
      /\ c \in Nodes(tree) /\ iter = IterFor(tree, c)
      /\ Whole(tree, found, Hits \ Todo(tree, "up", c))
      /\ Todo(tree, "up", c) = After(tree, c)
  BY DEF UpLoop, PrioInd, OnPath, Todo
<1>2. Hits' = Hits
  BY <1>1, HitsStay
<1>3. CASE c = tree.root
  <2>1. at' = "end" /\ UNCHANGED <<vma, found, iter>>
    BY <1>1, <1>3 DEF UpLoop, IsRoot, Finish
  <2>2. tree.root # NoNode
    BY <1>1, <1>3, PrioAssumption DEF IsPrioTree
  <2>3. After(tree, c) = {}
    BY <1>1, <1>3, <2>2, AfterRoot
  <2>4. Whole(tree, found, Hits)
    BY <1>1, <2>3
  <2> QED  BY <1>1, <1>2, <2>1, <2>4 DEF PrioInd
<1>4. CASE c # tree.root
  <2>1. prio_tree_parent_user
    BY <1>1, <1>4 DEF UpLoop, IsRoot
  <2>2. p \in Nodes(tree) /\ iter' = IterFor(tree, p) /\ (c = tree.left[p] \/ c = tree.right[p])
    BY <1>1, <1>4, <2>1, GoesUp
  <2>3. iter'.cur = p /\ OnPath'
    BY <1>1, <2>2 DEF IterFor, OnPath
  <2>4. c # NoNode
    BY <1>1, PrioAssumption DEF IsPrioTree
  <2>5. UNCHANGED <<vma, found>>
    BY <1>1, <1>4 DEF UpLoop, IsRoot, GoOn
  <2>6. CASE tree.right[p] = c
    <3>1. at' = "up"
      BY <1>1, <1>4, <2>6 DEF UpLoop, IsRoot, GoOn
    <3>2. After(tree, c) = After(tree, p)
      BY <1>1, <2>2, <2>4, <2>6, AfterChild
    <3>3. Whole(tree, found, Hits \ Todo(tree, "up", p))
      BY <1>1, <3>2 DEF Todo
    <3> QED  BY <1>1, <1>2, <2>3, <2>5, <3>1, <3>3 DEF PrioInd
  <2>7. CASE tree.right[p] # c
    <3>1. at' = "right"
      BY <1>1, <1>4, <2>7 DEF UpLoop, IsRoot, GoOn
    <3>2. After(tree, c) = Below(tree, tree.right[p]) \cup After(tree, p)
      BY <1>1, <2>2, <2>4, <2>7, AfterChild
    <3>3. Whole(tree, found, Hits \ Todo(tree, "right", p))
      BY <1>1, <3>2 DEF Todo
    <3> QED  BY <1>1, <1>2, <2>3, <2>5, <3>1, <3>3 DEF PrioInd
  <2> QED  BY <2>6, <2>7
<1> QED  BY <1>3, <1>4

LEMMA PrioStart == PrioInit => PrioInd
<1> SUFFICES ASSUME NEW t \in Trees, NEW page \in Stabs, PrioBegin(t, page) PROVE PrioInd
  BY DEF PrioInit
<1>1. 2^BITS_PER_LONG \in Nat
  BY Power, PrioAssumption
<1>2. tree \in Trees /\ stab \in Nat
  BY <1>1, PrioAssumption DEF PrioBegin
<1> QED  BY <1>2, WholeEmpty DEF PrioBegin, PrioInd

LEMMA PrioStep == PrioInd /\ [PrioNext]_prioVars => PrioInd'
<1>1. PrioInd /\ UNCHANGED prioVars => PrioInd'
  BY DEF PrioInd, prioVars, Hits, Overlap, OnPath
<1> QED  BY <1>1, StepFirst, StepFirstLoop, StepNextVma, StepLeftLoop, StepRightLoop,
            StepUpLoop DEF PrioNext

LEMMA PrioIndCorrect == PrioSpec => []PrioInd
BY PrioStart, PrioStep, PTL DEF PrioSpec

LEMMA IndExact == PrioInd => VmasExact
<1> SUFFICES ASSUME PrioInd PROVE VmasExact
  OBVIOUS
<1>1. Mapping = Vmas(tree, Hits)
  BY DEF Mapping, Vmas, Hits
<1>2. \A S : S \subseteq Hits => Vmas(tree, S) \subseteq Vmas(tree, Hits)
  BY DEF Vmas
<1>3. ASSUME NEW S, S \subseteq Hits, Whole(tree, found, S) PROVE FoundOnce
  BY <1>1, <1>2, <1>3 DEF Whole, Distinct, FoundOnce
<1>4. ASSUME at = "returned" PROVE FoundOnce
  <2> DEFINE S == Hits \ (Todo(tree, "returned", iter.cur) \cup {iter.cur})
  <2>1. /\ Partly(tree, found, S, iter.cur, vma[2])
        /\ iter.cur \in Hits /\ vma[2] \in 0..tree.more[iter.cur] /\ tree \in Trees
        /\ iter.cur \in Nodes(tree)
    BY <1>4 DEF PrioInd, OnPath
  <2>2. tree.more[iter.cur] \in Nat
    BY <2>1, PrioAssumption DEF IsPrioTree
  <2>3. Firsts(iter.cur, vma[2]) \subseteq Vmas(tree, Hits)
    BY <2>1, <2>2 DEF Firsts, Vmas
  <2> HIDE DEF S
  <2>4. S \subseteq Hits
    BY DEF S
  <2> QED  BY <1>1, <1>2, <2>1, <2>3, <2>4 DEF Partly, Distinct, FoundOnce
<1>5. FoundOnce
  <2>1. CASE at \in {"start", "first"}
    BY <1>3, <2>1 DEF PrioInd
  <2>2. CASE at \in {"left", "right", "up"}
    BY <1>3, <2>2 DEF PrioInd
  <2>3. CASE at = "end"
    BY <1>3, <2>3 DEF PrioInd
  <2> QED  BY <1>4, <2>1, <2>2, <2>3 DEF PrioInd
<1>6. FoundAll
  BY <1>1 DEF FoundAll, PrioInd, Whole
<1> QED  BY <1>5, <1>6 DEF VmasExact

LEMMA IndPath == PrioInd => IterMatchesPath
<1> SUFFICES ASSUME PrioInd, at \notin {"start", "end"} PROVE IterMatchesPath
  BY DEF IterMatchesPath
<1> DEFINE n == iter.cur
<1>1. iter = IterFor(tree, n)
  BY DEF PrioInd, OnPath
<1>2. /\ iter.size_level = LevelAt(tree, Depth(tree)[n])
      /\ iter.mask = MaskAt(tree, Depth(tree)[n]) /\ iter.value = Floor(tree, n)
  BY <1>1 DEF IterFor
<1> QED  BY <1>2 DEF IterMatchesPath, LevelAt, MaskAt, Floor

\* The walk of a priority tree returns every vma that maps the page, each once,
\* and no others, whatever the tree and the page.
THEOREM VmasExactCorrect == PrioSpec => []VmasExact
BY PrioIndCorrect, IndExact, PTL

\* mask, value and size_level always belong to the place of the cursor, however
\* it has got there.
THEOREM IterMatchesPathCorrect == PrioSpec => []IterMatchesPath
BY PrioIndCorrect, IndPath, PTL
=============================================================================
