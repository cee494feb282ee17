--------------------------- MODULE ExpressionProofs ---------------------------
(***************************************************************************)
(* Proofs about the DWARF expression evaluator, DwarfExpression, and about *)
(* the programs of expressions, ExpressionTrees.                           *)
(*                                                                         *)
(* First arithmetic of words, so that the operations are what they mean;   *)
(* then the types of the evaluator; then that the recursive functions of   *)
(* the trees satisfy their equations.  The last parts follow the program   *)
(* of a tree backwards: a configuration is safe when every step from it is *)
(* to a safe one, and the program of a tree, wherever it stands in a       *)
(* larger one, starts safely when it may end safely with every value of    *)
(* the tree.                                                               *)
(***************************************************************************)
EXTENDS ExpressionTrees, FiniteSetTheorems, NaturalsInduction, SequenceTheorems,
        WellFoundedInduction, TLAPS

LEMMA DivMod ==
    ASSUME NEW a \in Int, NEW m \in Nat, m > 0
    PROVE  /\ a \div m \in Int /\ a % m \in Nat /\ a % m < m
           /\ a = m * (a \div m) + (a % m)
OBVIOUS

LEMMA DivModUnique ==
    ASSUME NEW a \in Int, NEW m \in Nat, m > 0, NEW q \in Int, NEW r \in Nat, r < m, a = m * q + r
    PROVE  a \div m = q /\ a % m = r
<1> DEFINE d == a \div m
           e == a % m
<1>1. d \in Int /\ e \in Nat /\ e < m /\ a = m * d + e
  BY DivMod
<1> HIDE DEF d, e
<1>2. d = q
  <2>1. CASE d < q
    <3>1. PICK k \in Nat : q = d + 1 + k
      <4>1. q - d - 1 \in Nat /\ q = d + 1 + (q - d - 1)
        BY <2>1, <1>1
      <4> QED
        BY <4>1
    <3>2. m * q = m * d + m + m * k /\ m * k \in Nat
      BY <3>1, <1>1
    <3> DEFINE md == m * d
               mq == m * q
               mk == m * k
    <3>3. md \in Int /\ mq \in Int /\ mk \in Nat /\ mq = md + m + mk /\ a = mq + r /\ a = md + e
      BY <3>2, <1>1
    <3> HIDE DEF md, mq, mk
    <3> QED
      BY <3>3, <1>1
  <2>2. CASE q < d
    <3>1. PICK k \in Nat : d = q + 1 + k
      <4>1. d - q - 1 \in Nat /\ d = q + 1 + (d - q - 1)
        BY <2>2, <1>1
      <4> QED
        BY <4>1
    <3>2. m * d = m * q + m + m * k /\ m * k \in Nat
      BY <3>1, <1>1
    <3> DEFINE md == m * d
               mq == m * q
               mk == m * k
    <3>3. md \in Int /\ mq \in Int /\ mk \in Nat /\ md = mq + m + mk /\ a = mq + r /\ a = md + e
      BY <3>2, <1>1
    <3> HIDE DEF md, mq, mk
    <3> QED
      BY <3>3, <1>1
  <2> QED
    BY <2>1, <2>2, <1>1
<1>3. e = r
  <2> DEFINE md == m * q
  <2>1. md \in Int /\ a = md + r /\ a = md + e
    BY <1>1, <1>2
  <2> HIDE DEF md
  <2> QED
    BY <2>1, <1>1
<1> QED
  BY <1>2, <1>3 DEF d, e

LEMMA ModuloShift ==
    ASSUME NEW a \in Int, NEW m \in Nat, m > 0
    PROVE  (a + m) % m = a % m
<1> DEFINE d == a \div m
           e == a % m
<1>1. d \in Int /\ e \in Nat /\ e < m /\ a = m * d + e
  BY DivMod
<1> HIDE DEF d, e
<1>2. a + m = m * (d + 1) + e
  BY <1>1
<1>3. (a + m) % m = e
  BY <1>1, <1>2, DivModUnique
<1> QED
  BY <1>3 DEF e

LEMMA ModuloSmall ==
    ASSUME NEW m \in Nat, m > 0, NEW a \in 0 .. m - 1
    PROVE  a % m = a /\ a \div m = 0
<1>1. a = m * 0 + a
  OBVIOUS
<1> QED
  BY <1>1, DivModUnique

LEMMA Quotient ==
    ASSUME NEW a \in Nat, NEW m \in Nat, m > 0
    PROVE  a \div m \in 0 .. a /\ a % m \in 0 .. a
<1> DEFINE d == a \div m
           e == a % m
<1>1. d \in Int /\ e \in Nat /\ e < m /\ a = m * d + e
  BY DivMod
<1> HIDE DEF d, e
<1>2. d >= 0
  <2>1. CASE d < 0
    <3>1. PICK k \in Nat : d = -1 - k
      <4>1. -1 - d \in Nat /\ d = -1 - (-1 - d)
        BY <2>1, <1>1
      <4> QED
        BY <4>1
    <3>2. m * d = -m - m * k /\ m * k \in Nat
      BY <3>1
    <3> DEFINE md == m * d
               mk == m * k
    <3>3. md = -m - mk /\ mk \in Nat /\ a = md + e /\ md \in Int
      BY <3>2, <1>1
    <3> HIDE DEF md, mk
    <3> QED
      BY <3>3, <1>1
  <2> QED
    BY <2>1, <1>1
<1>3. m * d = d + (m - 1) * d /\ (m - 1) * d \in Nat
  BY <1>1, <1>2
<1> DEFINE md == m * d
           nd == (m - 1) * d
<1>4. md = d + nd /\ nd \in Nat /\ a = md + e
  BY <1>1, <1>3
<1> HIDE DEF md, nd
<1>5. d \in 0 .. a /\ e \in 0 .. a
  BY <1>1, <1>2, <1>4
<1> QED
  BY <1>5 DEF d, e
LEMMA PowersOfTwo ==
    /\ 2 ^ 0 = 1
    /\ \A n \in Nat : 2 ^ n \in Nat /\ 2 ^ (n + 1) = 2 ^ n + 2 ^ n
<1>1. ASSUME NEW n \in Nat
      PROVE  IsFiniteSet(1 .. n) /\ Cardinality(1 .. n) = n
  <2>1. IsFiniteSet(1 .. n) /\ Cardinality(1 .. n) = IF 1 > n THEN 0 ELSE n - 1 + 1
    BY FS_Interval
  <2> QED
    BY <2>1
<1>2. ASSUME NEW n \in Nat
      PROVE  IsFiniteSet(SUBSET (1 .. n)) /\ Cardinality(SUBSET (1 .. n)) = 2 ^ n
  BY <1>1, FS_SUBSET
<1>3. 2 ^ 0 = 1
  <2>1. SUBSET (1 .. 0) = {{}}
    <3>1. 1 .. 0 = {}
      OBVIOUS
    <3> QED
      BY <3>1
  <2>2. Cardinality({{}}) = 1
    BY FS_Singleton
  <2> QED
    BY <1>2, <2>1, <2>2
<1>4. ASSUME NEW n \in Nat
      PROVE  2 ^ n \in Nat /\ 2 ^ (n + 1) = 2 ^ n + 2 ^ n
  <2> DEFINE S == SUBSET (1 .. n)
             T == {x \cup {n + 1} : x \in S}
  <2>1. IsFiniteSet(S) /\ Cardinality(S) = 2 ^ n
    BY <1>2
  <2>2. Cardinality(S) \in Nat
    BY <2>1, FS_CardinalityType
  <2>3. ExistsBijection(S, T)
    <3> DEFINE f == [x \in S |-> x \cup {n + 1}]
    <3>1. ASSUME NEW x \in S, NEW y \in S, f[x] = f[y]
          PROVE  x = y
      <4>1. n + 1 \notin x /\ n + 1 \notin y
        OBVIOUS
      <4> QED
        BY <3>1, <4>1
    <3>2. f \in Injection(S, T)
      <4>1. f \in [S -> T]
        OBVIOUS
      <4> HIDE DEF f
      <4> QED
        BY <3>1, <4>1 DEF Injection, IsInjective
    <3>3. f \in Surjection(S, T)
      BY DEF Surjection
    <3> QED
      BY <3>2, <3>3 DEF Bijection, ExistsBijection
  <2>4. IsFiniteSet(T) /\ Cardinality(T) = Cardinality(S)
    BY <2>1, <2>3, FS_Bijection
  <2>5. S \cap T = {}
    <3>1. \A x \in S : n + 1 \notin x
      OBVIOUS
    <3> QED
      BY <3>1
  <2>6. Cardinality(S \cup T) = Cardinality(S) + Cardinality(T) - Cardinality(S \cap T)
    BY <2>1, <2>4, FS_Union
  <2>7. SUBSET (1 .. n + 1) = S \cup T
    <3>1. ASSUME NEW x \in SUBSET (1 .. n + 1)
          PROVE  x \in S \cup T
      <4>1. CASE n + 1 \in x
        <5>1. x = (x \ {n + 1}) \cup {n + 1} /\ x \ {n + 1} \in S
          BY <4>1
        <5> QED
          BY <5>1
      <4>2. CASE n + 1 \notin x
        BY <4>2
      <4> QED
        BY <4>1, <4>2
    <3>2. ASSUME NEW x \in S \cup T
          PROVE  x \in SUBSET (1 .. n + 1)
      OBVIOUS
    <3> QED
      BY <3>1, <3>2
  <2>8. Cardinality(SUBSET (1 .. n + 1)) = 2 ^ (n + 1)
    BY <1>2
  <2>9. Cardinality({}) = 0
    BY FS_EmptySet
  <2> HIDE DEF S, T
  <2>10. Cardinality(S \cup T) = Cardinality(S) + Cardinality(S)
    <3> DEFINE c == Cardinality(S)
    <3>1. Cardinality(S \cup T) = c + c - 0 /\ c \in Nat
      BY <2>2, <2>4, <2>5, <2>6, <2>9
    <3> HIDE DEF c
    <3>2. Cardinality(S \cup T) = c + c
      BY <3>1
    <3> QED
      BY <3>2 DEF c
  <2> QED
    BY <2>1, <2>2, <2>7, <2>8, <2>10
<1> QED
  BY <1>3, <1>4

LEMMA LeastNumber ==
    ASSUME NEW T \in SUBSET Nat, T # {}
    PROVE  \E m \in T : \A k \in T : m <= k
<1> DEFINE R == OpToRel(<, Nat)
<1>1. IsWellFoundedOn(R, Nat)
  BY NatLessThanWellFounded, Zenon
<1>2. \A x, y \in Nat : <<x, y>> \in R <=> x < y
  BY DEF OpToRel
<1> HIDE DEF R
<1>3. PICK x \in T : \A y \in T : ~(<<y, x>> \in R)
  BY <1>1, WFMin
<1>4. \A y \in T : ~(y < x)
  BY <1>2, <1>3
<1> QED
  BY <1>4

LEMMA PositivePowers == \A n \in Nat : 2 ^ n \in Nat /\ 2 ^ n > 0
<1> DEFINE Bad == {n \in Nat : ~ 2 ^ n > 0}
<1>1. CASE Bad = {}
  BY <1>1, PowersOfTwo
<1>2. CASE Bad # {}
  <2>1. PICK n \in Bad : \A k \in Bad : n <= k
    BY <1>2, LeastNumber
  <2>2. n # 0 /\ n \in Nat
    <3>1. n \in Nat /\ ~ 2 ^ n > 0
      BY <2>1
    <3>2. 2 ^ 0 > 0
      BY PowersOfTwo
    <3> QED
      BY <3>1, <3>2
  <2> DEFINE k == n - 1
  <2>3. k \in Nat /\ k + 1 = n /\ k < n
    BY <2>2
  <2> HIDE DEF k
  <2>4. k \notin Bad
    <3> HIDE DEF Bad
    <3> QED
      BY <2>1, <2>3, <2>2
  <2>5. 2 ^ k > 0 /\ 2 ^ k \in Nat /\ 2 ^ n = 2 ^ k + 2 ^ k
    BY <2>3, <2>4, PowersOfTwo
  <2>6. 2 ^ n > 0
    BY <2>5
  <2> QED
    BY <2>1, <2>6
<1> QED
  BY <1>1, <1>2

LEMMA HalfFirst ==
    ASSUME NEW a \in Nat, NEW m \in Nat, m > 0
    PROVE  a \div (m + m) = (a \div 2) \div m
<1> DEFINE h == a \div 2
           b == a % 2
           q == h \div m
           r == h % m
<1>1. h \in Nat /\ b \in 0 .. 1 /\ a = 2 * h + b
  BY DivMod, Quotient
<1> HIDE DEF h, b
<1>2. q \in Int /\ r \in Nat /\ r < m /\ h = m * q + r
  BY <1>1, DivMod
<1> HIDE DEF q, r
<1>3. a = (m + m) * q + (2 * r + b)
  <2> DEFINE mq == m * q
  <2>1. mq \in Int /\ h = mq + r /\ (m + m) * q = mq + mq
    BY <1>2
  <2> HIDE DEF mq
  <2>2. a = (mq + mq) + (2 * r + b)
    BY <2>1, <1>1, <1>2
  <2> QED
    BY <2>1, <2>2
<1>4. 2 * r + b \in Nat /\ 2 * r + b < m + m /\ m + m \in Nat /\ m + m > 0
  BY <1>1, <1>2
<1>5. a \div (m + m) = q
  BY ONLY <1>2, <1>3, <1>4, a \in Nat, DivModUnique
<1> QED
  BY <1>5 DEF h, q

LEMMA BitOfHalf ==
    ASSUME NEW x \in Nat, NEW i \in Nat
    PROVE  Bit(x, i + 1) = Bit(x \div 2, i)
<1>1. 2 ^ i \in Nat /\ 2 ^ i > 0 /\ 2 ^ (i + 1) = 2 ^ i + 2 ^ i
  BY PowersOfTwo, PositivePowers
<1> QED
  BY <1>1, HalfFirst DEF Bit

LEMMA LowestBit ==
    ASSUME NEW x \in Nat
    PROVE  Bit(x, 0) = x % 2
<1>1. x \div 1 = x
  <2>1. x = 1 * x + 0
    OBVIOUS
  <2> QED
    BY <2>1, DivModUnique
<1> QED
  BY <1>1, PowersOfTwo DEF Bit

LEMMA BitsDetermine ==
    \A n \in Nat : \A x, y \in 0 .. 2 ^ n - 1 :
        (\A i \in 0 .. n - 1 : Bit(x, i) = Bit(y, i)) => x = y
<1> DEFINE P(n) == \A x, y \in 0 .. 2 ^ n - 1 :
                      (\A i \in 0 .. n - 1 : Bit(x, i) = Bit(y, i)) => x = y
           Bad == {n \in Nat : ~ P(n)}
<1>1. CASE Bad = {}
  BY <1>1
<1>2. CASE Bad # {}
  <2>1. PICK n \in Bad : \A k \in Bad : n <= k
    BY <1>2, LeastNumber
  <2>2. n \in Nat /\ ~ P(n)
    BY <2>1
  <2>3. n # 0
    <3>1. CASE n = 0
      <4>1. \A x, y \in 0 .. 2 ^ 0 - 1 : x = y
        BY PowersOfTwo
      <4> QED
        BY <4>1, <3>1, <2>2
    <3> QED
      BY <3>1
  <2> DEFINE k == n - 1
  <2>4. k \in Nat /\ k + 1 = n /\ k < n
    BY <2>2, <2>3
  <2> HIDE DEF k
  <2>5. P(k)
    <3>1. k \notin Bad
      <4> HIDE DEF Bad
      <4> QED
        BY <2>1, <2>2, <2>4
    <3> QED
      BY <3>1, <2>4
  <2>6. PICK x \in 0 .. 2 ^ n - 1, y \in 0 .. 2 ^ n - 1 :
          (\A i \in 0 .. n - 1 : Bit(x, i) = Bit(y, i)) /\ x # y
    BY <2>2
  <2>7. 2 ^ k \in Nat /\ 2 ^ n = 2 ^ k + 2 ^ k
    BY <2>4, PowersOfTwo
  <2>8. ASSUME NEW z \in 0 .. 2 ^ n - 1
        PROVE  /\ z \in Nat /\ z \div 2 \in 0 .. 2 ^ k - 1
               /\ z = 2 * (z \div 2) + (z % 2)
               /\ Bit(z, 0) = z % 2
               /\ \A i \in Nat : Bit(z, i + 1) = Bit(z \div 2, i)
    <3> DEFINE h == z \div 2
               b == z % 2
               m == 2 ^ k
    <3>1. z \in Nat
      BY <2>7
    <3>2. h \in Nat /\ b \in 0 .. 1 /\ z = 2 * h + b
      BY <3>1, DivMod, Quotient
    <3>3. m \in Nat /\ z < m + m
      BY <2>7
    <3> HIDE DEF h, b, m
    <3>4. h \in 0 .. m - 1
      BY <3>1, <3>2, <3>3
    <3>5. Bit(z, 0) = b /\ \A i \in Nat : Bit(z, i + 1) = Bit(h, i)
      BY <3>1, LowestBit, BitOfHalf DEF h, b
    <3> QED
      BY <3>1, <3>2, <3>4, <3>5 DEF h, b, m
  <2>9. \A i \in 0 .. k - 1 : Bit(x \div 2, i) = Bit(y \div 2, i)
    <3> SUFFICES ASSUME NEW i \in 0 .. k - 1
                 PROVE  Bit(x \div 2, i) = Bit(y \div 2, i)
      OBVIOUS
    <3>1. i \in Nat /\ i + 1 \in 0 .. n - 1
      BY <2>4
    <3>2. Bit(x, i + 1) = Bit(y, i + 1)
      BY <3>1, <2>6
    <3> QED
      BY <3>1, <3>2, <2>8
  <2>10. x \div 2 = y \div 2
    BY <2>5, <2>8, <2>9
  <2>11. 0 \in 0 .. n - 1
    BY <2>2, <2>3
  <2>12. x % 2 = y % 2
    BY <2>6, <2>8, <2>11
  <2>13. x = y
    BY <2>8, <2>10, <2>12
  <2> QED
    BY <2>6, <2>13
<1> QED
  BY <1>1, <1>2

LEMMA BitsExist ==
    \A n \in Nat : \A g \in [Nat -> {0, 1}] :
        \E x \in 0 .. 2 ^ n - 1 : \A i \in 0 .. n - 1 : Bit(x, i) = g[i]
<1> DEFINE P(n) == \A g \in [Nat -> {0, 1}] :
                      \E x \in 0 .. 2 ^ n - 1 : \A i \in 0 .. n - 1 : Bit(x, i) = g[i]
           Bad == {n \in Nat : ~ P(n)}
<1>1. CASE Bad = {}
  BY <1>1
<1>2. CASE Bad # {}
  <2>1. PICK n \in Bad : \A k \in Bad : n <= k
    BY <1>2, LeastNumber
  <2>2. n \in Nat /\ ~ P(n)
    BY <2>1
  <2>3. n # 0
    <3>1. CASE n = 0
      <4>1. 0 \in 0 .. 2 ^ 0 - 1
        BY PowersOfTwo
      <4>2. 0 .. 0 - 1 = {}
        OBVIOUS
      <4> QED
        BY <4>1, <4>2, <3>1, <2>2
    <3> QED
      BY <3>1
  <2> DEFINE k == n - 1
  <2>4. k \in Nat /\ k + 1 = n /\ k < n
    BY <2>2, <2>3
  <2> HIDE DEF k
  <2>5. P(k)
    <3>1. k \notin Bad
      <4> HIDE DEF Bad
      <4> QED
        BY <2>1, <2>2, <2>4
    <3> QED
      BY <3>1, <2>4
  <2>6. PICK g \in [Nat -> {0, 1}] :
          ~ \E x \in 0 .. 2 ^ n - 1 : \A i \in 0 .. n - 1 : Bit(x, i) = g[i]
    BY <2>2
  <2> DEFINE g1 == [i \in Nat |-> g[i + 1]]
  <2>7. g1 \in [Nat -> {0, 1}]
    OBVIOUS
  <2>8. PICK h \in 0 .. 2 ^ k - 1 : \A i \in 0 .. k - 1 : Bit(h, i) = g1[i]
    BY <2>5, <2>7
  <2> DEFINE b == g[0]
             x == 2 * h + b
             m == 2 ^ k
  <2>9. m \in Nat /\ 2 ^ n = m + m /\ h \in 0 .. m - 1 /\ b \in 0 .. 1
    BY <2>4, PowersOfTwo
  <2> HIDE DEF b, m
  <2>10. h \in Nat /\ x \in Nat /\ x \in 0 .. (m + m) - 1 /\ b \in Nat /\ b < 2
    BY <2>9
  <2>11. x \div 2 = h /\ x % 2 = b
    BY <2>10, DivModUnique
  <2> HIDE DEF x
  <2>12. ASSUME NEW i \in 0 .. n - 1
         PROVE  Bit(x, i) = g[i]
    <3>1. CASE i = 0
      BY <3>1, <2>10, <2>11, LowestBit DEF b
    <3>2. CASE i # 0
      <4> DEFINE j == i - 1
      <4>1. j \in Nat /\ j + 1 = i /\ j \in 0 .. k - 1
        BY <3>2, <2>4, <2>2
      <4> HIDE DEF j
      <4>2. Bit(x, j + 1) = Bit(h, j)
        BY <4>1, <2>10, <2>11, BitOfHalf
      <4>3. Bit(h, j) = g1[j] /\ g1[j] = g[j + 1]
        BY <4>1, <2>8
      <4> QED
        BY <4>1, <4>2, <4>3
    <3> QED
      BY <3>1, <3>2
  <2>13. x \in 0 .. 2 ^ n - 1
    BY <2>9, <2>10
  <2> QED
    BY <2>6, <2>12, <2>13
<1> QED
  BY <1>1, <1>2

----------------------------------------------------------------------------
(* Operations on words.                                                    *)

LEMMA Modulus ==
    /\ Width \in Nat /\ Width > 0
    /\ 2 ^ Width \in Nat /\ 2 ^ Width > 1
    /\ 2 ^ (Width - 1) \in Nat /\ 2 ^ (Width - 1) > 0
    /\ 2 ^ Width = 2 ^ (Width - 1) + 2 ^ (Width - 1)
<1>1. Width \in Nat /\ Width > 0
  BY ExpressionAssumption
<1> DEFINE k == Width - 1
<1>2. k \in Nat /\ k + 1 = Width
  BY <1>1
<1> HIDE DEF k
<1>3. 2 ^ k \in Nat /\ 2 ^ k > 0 /\ 2 ^ (k + 1) = 2 ^ k + 2 ^ k
  BY <1>2, PowersOfTwo, PositivePowers
<1>4. 2 ^ k \in Nat /\ 2 ^ k > 0 /\ 2 ^ Width = 2 ^ k + 2 ^ k
  BY <1>2, <1>3
<1>5. 2 ^ Width \in Nat /\ 2 ^ Width > 1
  BY <1>4
<1> QED
  BY <1>1, <1>4, <1>5 DEF k

LEMMA Words == \A v : v \in Word <=> v \in Nat /\ v < 2 ^ Width
BY Modulus DEF Word

LEMMA WrapIsWord == \A n \in Int : Wrap(n) \in Word
<1> SUFFICES ASSUME NEW n \in Int
             PROVE  Wrap(n) \in Word
  OBVIOUS
<1> DEFINE m == 2 ^ Width
<1>1. m \in Nat /\ m > 0
  BY Modulus
<1> HIDE DEF m
<1>2. n % m \in Nat /\ n % m < m
  BY <1>1, DivMod
<1> QED
  BY <1>2, Words DEF Wrap, m

LEMMA WrapOfWord == \A v \in Word : Wrap(v) = v
BY Modulus, Words, ModuloSmall DEF Wrap, Word

LEMMA SignedOfWord ==
    ASSUME NEW v \in Word
    PROVE  /\ Signed(v) \in Int
           /\ v < 2 ^ (Width - 1) => Signed(v) = v /\ Signed(v) >= 0
           /\ v >= 2 ^ (Width - 1) => Signed(v) = v - 2 ^ Width /\ Signed(v) < 0 /\ v > 0
BY Modulus, Words DEF Signed

LEMMA BitIsBit == \A v \in Nat, i \in Nat : Bit(v, i) \in {0, 1}
<1> SUFFICES ASSUME NEW v \in Nat, NEW i \in Nat
             PROVE  Bit(v, i) \in {0, 1}
  OBVIOUS
<1>1. 2 ^ i \in Nat /\ 2 ^ i > 0
  BY PositivePowers
<1> DEFINE q == v \div 2 ^ i
<1>2. q \in Int
  BY <1>1, DivMod
<1> HIDE DEF q
<1>3. q % 2 \in Nat /\ q % 2 < 2
  BY <1>2, DivMod
<1>4. q % 2 \in {0, 1}
  BY <1>3
<1> QED
  BY <1>4 DEF Bit, q

\* There is one word with given bits.
LEMMA WordOfBits ==
    ASSUME NEW g \in [Nat -> {0, 1}]
    PROVE  /\ \E x \in Word : \A i \in 0 .. Width - 1 : Bit(x, i) = g[i]
           /\ \A x, y \in Word : /\ \A i \in 0 .. Width - 1 : Bit(x, i) = g[i]
                                 /\ \A i \in 0 .. Width - 1 : Bit(y, i) = g[i]
                                 => x = y
<1>1. Width \in Nat
  BY Modulus
<1>2. \E x \in Word : \A i \in 0 .. Width - 1 : Bit(x, i) = g[i]
  BY <1>1, BitsExist DEF Word
<1>3. \A x, y \in Word : (\A i \in 0 .. Width - 1 : Bit(x, i) = Bit(y, i)) => x = y
  BY <1>1, BitsDetermine DEF Word
<1> QED
  BY <1>2, <1>3

AndBits(v, w) == [i \in 0 .. Width - 1 |-> Bit(v, i) * Bit(w, i)]
OrBits(v, w) == [i \in 0 .. Width - 1 |-> Bit(v, i) + Bit(w, i) - Bit(v, i) * Bit(w, i)]
XorBits(v, w) == [i \in 0 .. Width - 1 |-> (Bit(v, i) + Bit(w, i)) % 2]

AndWord(v, w) ==
    CHOOSE x \in Word : \A i \in 0 .. Width - 1 : Bit(x, i) = 1 <=> Bit(v, i) = 1 /\ Bit(w, i) = 1
OrWord(v, w) ==
    CHOOSE x \in Word : \A i \in 0 .. Width - 1 : Bit(x, i) = 1 <=> Bit(v, i) = 1 \/ Bit(w, i) = 1
XorWord(v, w) ==
    CHOOSE x \in Word : \A i \in 0 .. Width - 1 : Bit(x, i) = 1 <=> Bit(v, i) # Bit(w, i)

LEMMA BitwiseAnd ==
    ASSUME NEW v \in Word, NEW w \in Word
    PROVE  FromBits(AndBits(v, w)) \in Word /\ FromBits(AndBits(v, w)) = AndWord(v, w)
<1> DEFINE g == [i \in Nat |-> Bit(v, i) * Bit(w, i)]
           g0 == [i \in 0 .. Width - 1 |-> Bit(v, i) * Bit(w, i)]
           P(x) == \A i \in 0 .. Width - 1 : Bit(x, i) = g0[i]
           Q(x) == \A i \in 0 .. Width - 1 : Bit(x, i) = 1 <=> Bit(v, i) = 1 /\ Bit(w, i) = 1
<1>1. v \in Nat /\ w \in Nat
  BY Words
<1>2. \A i \in Nat : Bit(v, i) \in {0, 1} /\ Bit(w, i) \in {0, 1}
  BY <1>1, BitIsBit
<1>3. g \in [Nat -> {0, 1}]
  BY <1>2
<1>4. \A x \in Word : P(x) <=> \A i \in 0 .. Width - 1 : Bit(x, i) = g[i]
  BY Modulus
<1>5. \A x \in Word : P(x) <=> Q(x)
  <2> SUFFICES ASSUME NEW x \in Word, NEW i \in 0 .. Width - 1
               PROVE  (Bit(x, i) = g0[i]) <=> (Bit(x, i) = 1 <=> Bit(v, i) = 1 /\ Bit(w, i) = 1)
    OBVIOUS
  <2>1. x \in Nat /\ i \in Nat
    BY Words
  <2>2. Bit(x, i) \in {0, 1} /\ Bit(v, i) \in {0, 1} /\ Bit(w, i) \in {0, 1}
    BY <2>1, <1>1, BitIsBit
  <2> QED
    BY <2>2
<1> HIDE DEF g
<1>6. (\E x \in Word : P(x)) /\ (\A x, y \in Word : P(x) /\ P(y) => x = y)
  BY <1>3, <1>4, WordOfBits
<1>7. AndBits(v, w) = g0
  BY DEF AndBits
<1> HIDE DEF g0
<1>8. FromBits(g0) = CHOOSE x \in Word : P(x)
  BY DEF FromBits
<1>9. AndWord(v, w) = CHOOSE x \in Word : Q(x)
  BY DEF AndWord
<1> HIDE DEF P, Q
<1>10. (CHOOSE x \in Word : P(x)) \in Word /\ P(CHOOSE x \in Word : P(x))
  BY <1>6
<1>11. (CHOOSE x \in Word : Q(x)) \in Word /\ Q(CHOOSE x \in Word : Q(x))
  BY <1>5, <1>6
<1>12. (CHOOSE x \in Word : P(x)) = CHOOSE x \in Word : Q(x)
  BY <1>5, <1>6, <1>10, <1>11
<1> QED
  BY <1>7, <1>8, <1>9, <1>10, <1>12

LEMMA BitwiseOr ==
    ASSUME NEW v \in Word, NEW w \in Word
    PROVE  FromBits(OrBits(v, w)) \in Word /\ FromBits(OrBits(v, w)) = OrWord(v, w)
<1> DEFINE g == [i \in Nat |-> Bit(v, i) + Bit(w, i) - Bit(v, i) * Bit(w, i)]
           g0 == [i \in 0 .. Width - 1 |-> Bit(v, i) + Bit(w, i) - Bit(v, i) * Bit(w, i)]
           P(x) == \A i \in 0 .. Width - 1 : Bit(x, i) = g0[i]
           Q(x) == \A i \in 0 .. Width - 1 : Bit(x, i) = 1 <=> Bit(v, i) = 1 \/ Bit(w, i) = 1
<1>1. v \in Nat /\ w \in Nat
  BY Words
<1>2. \A i \in Nat : Bit(v, i) \in {0, 1} /\ Bit(w, i) \in {0, 1}
  BY <1>1, BitIsBit
<1>3. g \in [Nat -> {0, 1}]
  BY <1>2
<1>4. \A x \in Word : P(x) <=> \A i \in 0 .. Width - 1 : Bit(x, i) = g[i]
  BY Modulus
<1>5. \A x \in Word : P(x) <=> Q(x)
  <2> SUFFICES ASSUME NEW x \in Word, NEW i \in 0 .. Width - 1
               PROVE  (Bit(x, i) = g0[i]) <=> (Bit(x, i) = 1 <=> Bit(v, i) = 1 \/ Bit(w, i) = 1)
    OBVIOUS
  <2>1. x \in Nat /\ i \in Nat
    BY Words
  <2>2. Bit(x, i) \in {0, 1} /\ Bit(v, i) \in {0, 1} /\ Bit(w, i) \in {0, 1}
    BY <2>1, <1>1, BitIsBit
  <2> QED
    BY <2>2
<1> HIDE DEF g
<1>6. (\E x \in Word : P(x)) /\ (\A x, y \in Word : P(x) /\ P(y) => x = y)
  BY <1>3, <1>4, WordOfBits
<1>7. OrBits(v, w) = g0
  BY DEF OrBits
<1> HIDE DEF g0
<1>8. FromBits(g0) = CHOOSE x \in Word : P(x)
  BY DEF FromBits
<1>9. OrWord(v, w) = CHOOSE x \in Word : Q(x)
  BY DEF OrWord
<1> HIDE DEF P, Q
<1>10. (CHOOSE x \in Word : P(x)) \in Word /\ P(CHOOSE x \in Word : P(x))
  BY <1>6
<1>11. (CHOOSE x \in Word : Q(x)) \in Word /\ Q(CHOOSE x \in Word : Q(x))
  BY <1>5, <1>6
<1>12. (CHOOSE x \in Word : P(x)) = CHOOSE x \in Word : Q(x)
  BY <1>5, <1>6, <1>10, <1>11
<1> QED
  BY <1>7, <1>8, <1>9, <1>10, <1>12

LEMMA BitwiseXor ==
    ASSUME NEW v \in Word, NEW w \in Word
    PROVE  FromBits(XorBits(v, w)) \in Word /\ FromBits(XorBits(v, w)) = XorWord(v, w)
<1> DEFINE g == [i \in Nat |-> (Bit(v, i) + Bit(w, i)) % 2]
           g0 == [i \in 0 .. Width - 1 |-> (Bit(v, i) + Bit(w, i)) % 2]
           P(x) == \A i \in 0 .. Width - 1 : Bit(x, i) = g0[i]
           Q(x) == \A i \in 0 .. Width - 1 : Bit(x, i) = 1 <=> Bit(v, i) # Bit(w, i)
<1>1. v \in Nat /\ w \in Nat
  BY Words
<1>2. \A i \in Nat : Bit(v, i) \in {0, 1} /\ Bit(w, i) \in {0, 1}
  BY <1>1, BitIsBit
<1>3. g \in [Nat -> {0, 1}]
  BY <1>2
<1>4. \A x \in Word : P(x) <=> \A i \in 0 .. Width - 1 : Bit(x, i) = g[i]
  BY Modulus
<1>5. \A x \in Word : P(x) <=> Q(x)
  <2> SUFFICES ASSUME NEW x \in Word, NEW i \in 0 .. Width - 1
               PROVE  (Bit(x, i) = g0[i]) <=> (Bit(x, i) = 1 <=> Bit(v, i) # Bit(w, i))
    OBVIOUS
  <2>1. x \in Nat /\ i \in Nat
    BY Words
  <2>2. Bit(x, i) \in {0, 1} /\ Bit(v, i) \in {0, 1} /\ Bit(w, i) \in {0, 1}
    BY <2>1, <1>1, BitIsBit
  <2> QED
    BY <2>2
<1> HIDE DEF g
<1>6. (\E x \in Word : P(x)) /\ (\A x, y \in Word : P(x) /\ P(y) => x = y)
  BY <1>3, <1>4, WordOfBits
<1>7. XorBits(v, w) = g0
  BY DEF XorBits
<1> HIDE DEF g0
<1>8. FromBits(g0) = CHOOSE x \in Word : P(x)
  BY DEF FromBits
<1>9. XorWord(v, w) = CHOOSE x \in Word : Q(x)
  BY DEF XorWord
<1> HIDE DEF P, Q
<1>10. (CHOOSE x \in Word : P(x)) \in Word /\ P(CHOOSE x \in Word : P(x))
  BY <1>6
<1>11. (CHOOSE x \in Word : Q(x)) \in Word /\ Q(CHOOSE x \in Word : Q(x))
  BY <1>5, <1>6
<1>12. (CHOOSE x \in Word : P(x)) = CHOOSE x \in Word : Q(x)
  BY <1>5, <1>6, <1>10, <1>11
<1> QED
  BY <1>7, <1>8, <1>9, <1>10, <1>12

DividesByZero(op, w) == op \in {"div", "mod"} /\ w = 0

\* The top bit of a word tells the sign in the standard's reading.
Plain(v) == v < 2 ^ (Width - 1)

\* Where the evaluator's division and order comparisons are those of the reading taken: in the
\* signed one only a division of words with a clear top bit, and a comparison of words
\* whose top bits agree.
Agree(op, v, w) ==
    \/ Reading = "unsigned" \/ op \notin SignedOps
    \/ op = "div" /\ Plain(v) /\ Plain(w)
    \/ op # "div" /\ (Plain(v) <=> Plain(w))

LEMMA NumberOfWord ==
    ASSUME NEW v \in Word
    PROVE  /\ Number(v) \in Int
           /\ Reading = "unsigned" \/ Plain(v) => Number(v) = v
           /\ Reading # "unsigned" /\ ~ Plain(v) => Number(v) = v - 2 ^ Width /\ Number(v) < 0
           /\ v # 0 => Number(v) # 0
<1> DEFINE h == 2 ^ (Width - 1)
<1>1. v \in Nat /\ h \in Nat /\ Reading \in {"signed", "unsigned"}
  BY Words, Modulus, TreesAssumption
<1>2. /\ Signed(v) \in Int /\ (v < h => Signed(v) = v)
      /\ (v >= h => Signed(v) = v - 2 ^ Width /\ Signed(v) < 0)
  BY SignedOfWord
<1>3. Number(v) = (IF Reading = "signed" THEN Signed(v) ELSE v) /\ (Plain(v) <=> v < h)
  BY DEF Number, Plain
<1> HIDE DEF h
<1> QED
  BY <1>1, <1>2, <1>3

LEMMA OrderOfNumbers ==
    ASSUME NEW v \in Word, NEW w \in Word
    PROVE  /\ Reading = "unsigned" \/ (Plain(v) <=> Plain(w)) => (Number(v) < Number(w) <=> v < w)
           /\ Reading # "unsigned" /\ ~ (Plain(v) <=> Plain(w)) =>
                 (Number(v) < Number(w) <=> ~ v < w) /\ v # w /\ Number(v) # Number(w)
<1> DEFINE h == 2 ^ (Width - 1)
           m == 2 ^ Width
           n == Number(v)
           o == Number(w)
<1>1. v \in Nat /\ w \in Nat /\ h \in Nat /\ m \in Nat
  BY Words, Modulus
<1>2. /\ n \in Int /\ (Reading = "unsigned" \/ v < h => n = v)
      /\ (Reading # "unsigned" /\ ~ v < h => n = v - m /\ n < 0)
  BY NumberOfWord DEF Plain
<1>3. /\ o \in Int /\ (Reading = "unsigned" \/ w < h => o = w)
      /\ (Reading # "unsigned" /\ ~ w < h => o = w - m /\ o < 0)
  BY NumberOfWord DEF Plain
<1>4. (Plain(v) <=> v < h) /\ (Plain(w) <=> w < h)
  BY DEF Plain
<1> HIDE DEF h, m, n, o
<1>5. /\ Reading = "unsigned" \/ (v < h <=> w < h) => (n < o <=> v < w)
      /\ Reading # "unsigned" /\ ~ (v < h <=> w < h) => (n < o <=> ~ v < w) /\ v # w /\ n # o
  <2>1. CASE Reading = "unsigned"
    BY <1>2, <1>3, <2>1
  <2>2. CASE Reading # "unsigned" /\ v < h /\ w < h
    BY <1>2, <1>3, <2>2
  <2>3. CASE Reading # "unsigned" /\ ~ v < h /\ ~ w < h
    BY <1>1, <1>2, <1>3, <2>3
  <2>4. CASE Reading # "unsigned" /\ v < h /\ ~ w < h
    BY <1>1, <1>2, <1>3, <2>4
  <2>5. CASE Reading # "unsigned" /\ ~ v < h /\ w < h
    BY <1>1, <1>2, <1>3, <2>5
  <2> QED
    BY <2>1, <2>2, <2>3, <2>4, <2>5
<1> QED
  BY <1>4, <1>5 DEF n, o

LEMMA RatioIsInt == \A m, n \in Int : n # 0 => Ratio(m, n) \in Int
<1> SUFFICES ASSUME NEW m \in Int, NEW n \in Int, n # 0
             PROVE  Ratio(m, n) \in Int
  OBVIOUS
<1>1. CASE n > 0
  <2>1. m \div n \in Int /\ (-m) \div n \in Int
    BY <1>1, DivMod
  <2> QED
    BY <1>1, <2>1 DEF Ratio
<1>2. CASE ~ n > 0
  <2>1. -n \in Nat /\ -n > 0
    BY <1>2
  <2>2. m \div (-n) \in Int /\ (-m) \div (-n) \in Int
    BY <2>1, DivMod
  <2> QED
    BY <1>2, <2>2 DEF Ratio
<1> QED
  BY <1>1, <1>2

LEMMA TruthTells ==
    ASSUME NEW P \in BOOLEAN, NEW Q \in BOOLEAN
    PROVE  /\ Truth(P) \in Word
           /\ (P <=> Q) => {Truth(P)} = {Truth(Q)}
           /\ ~ (P <=> Q) => {Truth(P)} # {Truth(Q)}
BY Modulus, Words DEF Truth

LEMMA ArithmeticIsApplied ==
    ASSUME NEW v \in Word, NEW w \in Word, NEW op \in {"minus", "plus", "mul", "div", "mod"},
           ~ DividesByZero(op, w)
    PROVE  /\ Binary(op, v, w) \in SUBSET Word /\ Binary(op, v, w) # {}
           /\ Agree(op, v, w) => Apply(op, v, w) = Binary(op, v, w)
<1> DEFINE m == 2 ^ Width
<1>1. m \in Nat /\ m > 1
  BY Modulus
<1>2. v \in Nat /\ w \in Nat /\ v < m /\ w < m
  BY Words
<1>3. CASE op = "minus"
  <2>1. Binary(op, v, w) = {Wrap(v - w)}
    BY <1>3 DEF Binary, Shifts
  <2>2. Apply(op, v, w) = {(v + m - w) % m}
    BY <1>3 DEF Apply
  <2>3. Wrap(v - w) = (v - w) % m
    BY DEF Wrap
  <2> HIDE DEF m
  <2>4. v - w \in Int /\ (v - w) + m = v + m - w
    BY <1>1, <1>2
  <2>5. ((v - w) + m) % m = (v - w) % m
    BY <2>4, <1>1, ModuloShift
  <2>6. (v + m - w) % m = Wrap(v - w)
    BY <2>3, <2>4, <2>5
  <2> QED
    BY <2>1, <2>2, <2>4, <2>6, WrapIsWord
<1>4. CASE op = "plus"
  <2>1. Binary(op, v, w) = {Wrap(v + w)} /\ Apply(op, v, w) = {Wrap(v + w)}
    BY <1>4 DEF Binary, Shifts, Apply, Wrap
  <2>2. v + w \in Int
    BY <1>2
  <2> QED
    BY <2>1, <2>2, WrapIsWord
<1>5. CASE op = "mul"
  <2>1. Binary(op, v, w) = {Wrap(v * w)} /\ Apply(op, v, w) = {Wrap(v * w)}
    BY <1>5 DEF Binary, Shifts, Apply, Wrap
  <2>2. v * w \in Int
    BY <1>2
  <2> QED
    BY <2>1, <2>2, WrapIsWord
<1>6. CASE op = "div"
  <2>1. w # 0
    BY <1>6 DEF DividesByZero
  <2>2. Binary(op, v, w) = {v \div w} /\ Apply(op, v, w) = {Ratio(Number(v), Number(w)) % m}
    BY <1>6, <2>1 DEF Binary, Shifts, Apply
  <2>3. v \div w \in 0 .. v
    BY <2>1, <1>2, Quotient
  <2>4. v \div w \in Word
    BY <2>3, <1>1, <1>2, Words
  <2>5. ASSUME Agree(op, v, w)
        PROVE  Apply(op, v, w) = {v \div w}
    <3>1. Number(v) = v /\ Number(w) = w
      BY <1>6, <2>5, NumberOfWord DEF Agree, SignedOps
    <3>2. Ratio(v, w) = v \div w
      BY <1>2, <2>1 DEF Ratio
    <3> DEFINE q == v \div w
    <3>3. q \in 0 .. m - 1
      BY <2>4 DEF Word
    <3> HIDE DEF q, m
    <3>4. q % m = q
      BY <1>1, <3>3, ModuloSmall
    <3> QED
      BY <2>2, <3>1, <3>2, <3>4 DEF q
  <2> QED
    BY <2>2, <2>4, <2>5
<1>7. CASE op = "mod"
  <2>1. w # 0
    BY <1>7 DEF DividesByZero
  <2>2. Binary(op, v, w) = {v % w} /\ Apply(op, v, w) = {v - w * (v \div w)}
    BY <1>7, <2>1 DEF Binary, Shifts, Apply
  <2>3. v % w \in 0 .. v
    BY <2>1, <1>2, Quotient
  <2>4. v % w \in Word
    BY <2>3, <1>1, <1>2, Words
  <2>5. v - w * (v \div w) = v % w
    <3> DEFINE p == w * (v \div w)
               r == v % w
    <3>1. v \div w \in Int /\ r \in Nat /\ v = w * (v \div w) + r
      BY <2>1, <1>2, DivMod
    <3>2. v = p + r /\ p \in Int /\ r \in Nat
      BY <3>1, <1>2
    <3> HIDE DEF p, r
    <3>3. v - p = r
      BY <3>2
    <3> QED
      BY <3>3 DEF p, r
  <2> QED
    BY <2>2, <2>4, <2>5
<1> QED
  BY <1>3, <1>4, <1>5, <1>6, <1>7

LEMMA ComparisonsAreApplied ==
    ASSUME NEW v \in Word, NEW w \in Word, NEW op \in {"le", "ge", "eq", "lt", "gt", "ne"}
    PROVE  /\ Binary(op, v, w) \in SUBSET Word /\ Binary(op, v, w) # {}
           /\ Apply(op, v, w) \in SUBSET Word /\ Apply(op, v, w) # {}
           /\ Agree(op, v, w) => Apply(op, v, w) = Binary(op, v, w)
           /\ ~ Agree(op, v, w) => Apply(op, v, w) # Binary(op, v, w)
<1>1. v \in Nat /\ w \in Nat /\ Number(v) \in Int /\ Number(w) \in Int
  BY Words, NumberOfWord
<1>2. /\ Reading = "unsigned" \/ (Plain(v) <=> Plain(w)) =>
           (Number(v) < Number(w) <=> v < w) /\ (Number(w) < Number(v) <=> w < v)
      /\ Reading # "unsigned" /\ ~ (Plain(v) <=> Plain(w)) =>
           (Number(v) < Number(w) <=> ~ v < w) /\ (Number(w) < Number(v) <=> ~ w < v)
  BY OrderOfNumbers
<1>3. CASE op = "le"
  <2>1. Binary(op, v, w) = {Truth(v <= w)} /\ Apply(op, v, w) = {Truth(~ Number(w) < Number(v))}
    BY <1>3 DEF Binary, Shifts, Apply
  <2>2. /\ Agree(op, v, w) => (v <= w <=> ~ Number(w) < Number(v))
        /\ ~ Agree(op, v, w) => ~ (v <= w <=> ~ Number(w) < Number(v))
    BY <1>1, <1>2, <1>3 DEF Agree, SignedOps
  <2>3. (v <= w) \in BOOLEAN /\ (~ Number(w) < Number(v)) \in BOOLEAN
    OBVIOUS
  <2> QED
    BY <2>1, <2>2, <2>3, TruthTells
<1>4. CASE op = "ge"
  <2>1. Binary(op, v, w) = {Truth(v >= w)} /\ Apply(op, v, w) = {Truth(~ Number(v) < Number(w))}
    BY <1>4 DEF Binary, Shifts, Apply
  <2>2. /\ Agree(op, v, w) => (v >= w <=> ~ Number(v) < Number(w))
        /\ ~ Agree(op, v, w) => ~ (v >= w <=> ~ Number(v) < Number(w))
    BY <1>1, <1>2, <1>4 DEF Agree, SignedOps
  <2>3. (v >= w) \in BOOLEAN /\ (~ Number(v) < Number(w)) \in BOOLEAN
    OBVIOUS
  <2> QED
    BY <2>1, <2>2, <2>3, TruthTells
<1>5. CASE op = "lt"
  <2>1. Binary(op, v, w) = {Truth(v < w)} /\ Apply(op, v, w) = {Truth(Number(v) < Number(w))}
    BY <1>5 DEF Binary, Shifts, Apply
  <2>2. /\ Agree(op, v, w) => (v < w <=> Number(v) < Number(w))
        /\ ~ Agree(op, v, w) => ~ (v < w <=> Number(v) < Number(w))
    BY <1>1, <1>2, <1>5 DEF Agree, SignedOps
  <2>3. (v < w) \in BOOLEAN /\ (Number(v) < Number(w)) \in BOOLEAN
    OBVIOUS
  <2> QED
    BY <2>1, <2>2, <2>3, TruthTells
<1>6. CASE op = "gt"
  <2>1. Binary(op, v, w) = {Truth(v > w)} /\ Apply(op, v, w) = {Truth(Number(w) < Number(v))}
    BY <1>6 DEF Binary, Shifts, Apply
  <2>2. /\ Agree(op, v, w) => (v > w <=> Number(w) < Number(v))
        /\ ~ Agree(op, v, w) => ~ (v > w <=> Number(w) < Number(v))
    BY <1>1, <1>2, <1>6 DEF Agree, SignedOps
  <2>3. (v > w) \in BOOLEAN /\ (Number(w) < Number(v)) \in BOOLEAN
    OBVIOUS
  <2> QED
    BY <2>1, <2>2, <2>3, TruthTells
<1>7. CASE op = "eq"
  <2>1. Binary(op, v, w) = {Truth(v = w)} /\ Apply(op, v, w) = {Truth(v = w)} /\ Agree(op, v, w)
    BY <1>7 DEF Binary, Shifts, Apply, Agree, SignedOps
  <2>2. (v = w) \in BOOLEAN /\ (v = w <=> v = w)
    OBVIOUS
  <2> QED
    BY <2>1, <2>2, TruthTells
<1>8. CASE op = "ne"
  <2>1. Binary(op, v, w) = {Truth(v # w)} /\ Apply(op, v, w) = {Truth(~ v = w)} /\ Agree(op, v, w)
    BY <1>8 DEF Binary, Shifts, Apply, Agree, SignedOps
  <2>2. (v # w) \in BOOLEAN /\ (v # w <=> ~ v = w)
    OBVIOUS
  <2> QED
    BY <2>1, <2>2, TruthTells
<1> QED
  BY <1>3, <1>4, <1>5, <1>6, <1>7, <1>8

LEMMA BitwiseIsApplied ==
    ASSUME NEW v \in Word, NEW w \in Word, NEW op \in {"and", "or", "xor"}
    PROVE  /\ Binary(op, v, w) \in SUBSET Word /\ Binary(op, v, w) # {}
           /\ Apply(op, v, w) = Binary(op, v, w)
<1>1. CASE op = "and"
  <2>1. Binary(op, v, w) = {FromBits(AndBits(v, w))}
    BY <1>1 DEF Binary, Shifts, AndBits
  <2>2. Apply(op, v, w) = {AndWord(v, w)}
    BY <1>1 DEF Apply, AndWord
  <2> QED
    BY <2>1, <2>2, BitwiseAnd
<1>2. CASE op = "or"
  <2>1. Binary(op, v, w) = {FromBits(OrBits(v, w))}
    BY <1>2 DEF Binary, Shifts, OrBits
  <2>2. Apply(op, v, w) = {OrWord(v, w)}
    BY <1>2 DEF Apply, OrWord
  <2> QED
    BY <2>1, <2>2, BitwiseOr
<1>3. CASE op = "xor"
  <2>1. Binary(op, v, w) = {FromBits(XorBits(v, w))}
    BY <1>3 DEF Binary, Shifts, XorBits
  <2>2. Apply(op, v, w) = {XorWord(v, w)}
    BY <1>3 DEF Apply, XorWord
  <2> QED
    BY <2>1, <2>2, BitwiseXor
<1> QED
  BY <1>1, <1>2, <1>3

LEMMA ShiftsAreApplied ==
    ASSUME NEW v \in Word, NEW w \in Word, NEW op \in {"shl", "shr", "shra"}
    PROVE  /\ Binary(op, v, w) \in SUBSET Word /\ Binary(op, v, w) # {}
           /\ Apply(op, v, w) = Binary(op, v, w)
<1>1. v \in Nat /\ w \in Nat /\ v < 2 ^ Width
  BY Words
<1>2. Width \in Nat /\ Width > 0
  BY Modulus
<1>3. w % Width \in Nat
  BY <1>1, <1>2, DivMod
<1>4. 0 \in Word
  BY Modulus, Words
<1>5. CASE op = "shl"
  <2> DEFINE F(n) == Wrap(v * 2 ^ n)
  <2>1. Binary(op, v, w) = IF w < Width THEN {F(w)} ELSE {F(w % Width), 0}
    BY <1>5 DEF Binary, Shifts
  <2>2. Apply(op, v, w) = IF w >= Width THEN Binary(op, v, w) ELSE {F(w)}
    BY <1>5 DEF Apply, Wrap
  <2>3. \A n \in Nat : F(n) \in Word
    <3> SUFFICES ASSUME NEW n \in Nat
                 PROVE  F(n) \in Word
      OBVIOUS
    <3>1. 2 ^ n \in Nat
      BY PowersOfTwo
    <3>2. v * 2 ^ n \in Int
      BY <3>1, <1>1
    <3> QED
      BY <3>2, WrapIsWord
  <2> HIDE DEF F
  <2> QED
    BY <2>1, <2>2, <2>3, <1>1, <1>2, <1>3, <1>4
<1>6. CASE op = "shr"
  <2> DEFINE F(n) == v \div 2 ^ n
  <2>1. Binary(op, v, w) = IF w < Width THEN {F(w)} ELSE {F(w % Width), 0}
    BY <1>6 DEF Binary, Shifts
  <2>2. Apply(op, v, w) = IF w >= Width THEN Binary(op, v, w) ELSE {F(w)}
    BY <1>6 DEF Apply
  <2>3. \A n \in Nat : F(n) \in Word
    <3> SUFFICES ASSUME NEW n \in Nat
                 PROVE  F(n) \in Word
      OBVIOUS
    <3>1. 2 ^ n \in Nat /\ 2 ^ n > 0
      BY PositivePowers
    <3>2. F(n) \in 0 .. v
      BY <3>1, <1>1, Quotient
    <3> HIDE DEF F
    <3> QED
      BY <3>2, <1>1, Words, Modulus
  <2> HIDE DEF F
  <2> QED
    BY <2>1, <2>2, <2>3, <1>1, <1>2, <1>3, <1>4
<1>7. CASE op = "shra"
  <2> DEFINE F(n) == Wrap(Signed(v) \div 2 ^ n)
             o == Wrap(IF Signed(v) < 0 THEN -1 ELSE 0)
  <2>1. Binary(op, v, w) = IF w < Width THEN {F(w)} ELSE {F(w % Width), o}
    BY <1>7 DEF Binary, Shifts
  <2>2. Apply(op, v, w) = IF w >= Width THEN Binary(op, v, w) ELSE {F(w)}
    BY <1>7 DEF Apply, Wrap
  <2>3. \A n \in Nat : F(n) \in Word
    <3> SUFFICES ASSUME NEW n \in Nat
                 PROVE  F(n) \in Word
      OBVIOUS
    <3>1. 2 ^ n \in Nat /\ 2 ^ n > 0
      BY PositivePowers
    <3>2. Signed(v) \div 2 ^ n \in Int
      BY <3>1, SignedOfWord, DivMod
    <3> QED
      BY <3>2, WrapIsWord
  <2>4. o \in Word
    BY WrapIsWord
  <2> HIDE DEF F, o
  <2> QED
    BY <2>1, <2>2, <2>3, <2>4, <1>1, <1>2, <1>3
<1> QED
  BY <1>5, <1>6, <1>7

\* The arithmetic, comparisons, bit operations and shifts of the evaluator (the templates of
\* ApigeePLCrashAsyncDwarfExpression.cpp that apply C operators to machine words) yield, on
\* words of every width, at least one word, except a division by zero, which has no value.
\* With the evaluator's own unsigned reading they compute what Apply says of the integers the
\* words stand for.  With the signed reading of DWARF 4, section 2.5.1, which the comment
\* before plcrash_async_dwarf_expression_eval cites, they do so but for div and the order
\* comparisons: a div only where neither word has its top bit set, and le, ge, lt and gt
\* exactly where both have it or neither; elsewhere the comparison is answered the other way.
THEOREM BinaryIsApplied ==
    ASSUME NEW v \in Word, NEW w \in Word, NEW op \in BinaryOps
    PROVE  /\ DividesByZero(op, w) => Apply(op, v, w) = {Err}
           /\ ~ DividesByZero(op, w) =>
                 /\ Binary(op, v, w) \in SUBSET Word /\ Binary(op, v, w) # {}
                 /\ Agree(op, v, w) => Apply(op, v, w) = Binary(op, v, w)
                 /\ ~ Agree(op, v, w) /\ op # "div" => Apply(op, v, w) # Binary(op, v, w)
<1>1. DividesByZero(op, w) => Apply(op, v, w) = {Err}
  BY DEF DividesByZero, Apply
<1>2. ASSUME ~ DividesByZero(op, w)
      PROVE  /\ Binary(op, v, w) \in SUBSET Word /\ Binary(op, v, w) # {}
             /\ Agree(op, v, w) => Apply(op, v, w) = Binary(op, v, w)
             /\ ~ Agree(op, v, w) /\ op # "div" => Apply(op, v, w) # Binary(op, v, w)
  <2>1. CASE op \in {"minus", "plus", "mul", "div", "mod"}
    <3>1. ~ Agree(op, v, w) => op = "div"
      BY <2>1 DEF Agree, SignedOps
    <3> QED
      BY <1>2, <2>1, <3>1, ArithmeticIsApplied
  <2>2. CASE op \in {"le", "ge", "eq", "lt", "gt", "ne"}
    BY <2>2, ComparisonsAreApplied
  <2>3. CASE op \in {"and", "or", "xor"}
    <3>1. Agree(op, v, w)
      BY <2>3 DEF Agree, SignedOps
    <3> QED
      BY <2>3, <3>1, BitwiseIsApplied
  <2>4. CASE op \in {"shl", "shr", "shra"}
    <3>1. Agree(op, v, w)
      BY <2>4 DEF Agree, SignedOps
    <3> QED
      BY <2>4, <3>1, ShiftsAreApplied
  <2> QED
    BY <2>1, <2>2, <2>3, <2>4 DEF BinaryOps
<1> QED
  BY <1>1, <1>2

LEMMA UnaryIsWord ==
    ASSUME NEW v \in Word, NEW op \in UnaryOps
    PROVE  /\ Unary(op, v) \in Word
           /\ op = "abs" => Unary(op, v) = IF Signed(v) < 0 THEN 2 ^ Width - v ELSE v
           /\ op = "neg" => Unary(op, v) = (2 ^ Width - v) % 2 ^ Width
           /\ op = "not" => Unary(op, v) = (2 ^ Width - 1) - v
<1> DEFINE m == 2 ^ Width
           h == 2 ^ (Width - 1)
           s == Signed(v)
<1>1. m \in Nat /\ m > 1 /\ h \in Nat /\ h > 0 /\ m = h + h
  BY Modulus
<1>2. v \in Nat /\ v < m
  BY Words
<1>3. s \in Int /\ (v < h => s = v /\ s >= 0) /\ (v >= h => s = v - m /\ s < 0 /\ v > 0)
  BY SignedOfWord
<1>4. CASE op = "abs"
  <2>1. Unary(op, v) = IF s < 0 THEN (-s) % m ELSE v
    BY <1>4 DEF Unary, Wrap
  <2>2. ASSUME s < 0
        PROVE  Unary(op, v) = m - v /\ m - v \in Word
    <3>1. m - v \in Word
      <4>1. m - v \in 0 .. m - 1
        <5> HIDE DEF m, h, s
        <5> QED
          BY <1>1, <1>2, <1>3, <2>2
      <4> QED
        BY <4>1 DEF Word
    <3> HIDE DEF m, h, s
    <3>2. -s = m - v /\ m - v \in 0 .. m - 1
      BY <1>1, <1>2, <1>3, <2>2
    <3>3. (m - v) % m = m - v
      BY <3>2, <1>1, ModuloSmall
    <3> QED
      BY <2>1, <2>2, <3>1, <3>2, <3>3
  <2> QED
    BY <2>1, <2>2, <1>4
<1>5. CASE op = "neg"
  <2>1. Unary(op, v) = Wrap(0 - s) /\ Wrap(0 - s) = (0 - s) % m
    BY <1>5 DEF Unary, Wrap
  <2>2. Wrap(0 - s) \in Word
    BY <1>3, WrapIsWord
  <2> HIDE DEF m, h, s
  <2>3. (0 - s) % m = (m - v) % m
    <3>1. CASE v < h
      <4>1. 0 - s \in Int /\ (0 - s) + m = m - v
        BY <3>1, <1>1, <1>2, <1>3
      <4> QED
        BY <4>1, <1>1, ModuloShift
    <3>2. CASE v >= h
      <4>1. 0 - s = m - v
        BY <3>2, <1>1, <1>2, <1>3
      <4> QED
        BY <4>1
    <3> QED
      BY <3>1, <3>2, <1>1, <1>2
  <2> QED
    BY <2>1, <2>2, <2>3, <1>5 DEF m
<1>6. CASE op = "not"
  <2>1. Unary(op, v) = (m - 1) - v
    BY <1>6 DEF Unary
  <2>2. (m - 1) - v \in 0 .. m - 1
    <3> HIDE DEF m
    <3> QED
      BY <1>1, <1>2
  <2> QED
    BY <2>1, <2>2, <1>6 DEF Word
<1> QED
  BY <1>4, <1>5, <1>6 DEF UnaryOps

\* What a read returns is a word.
LEMMA MemoryIsWord ==
    ASSUME NEW a \in DOMAIN Memory, NEW n \in Nat
    PROVE  Memory[a] % 2 ^ (ByteWidth * n) \in Word
<1>1. ByteWidth * n \in Nat
  BY ExpressionAssumption
<1> DEFINE m == 2 ^ (ByteWidth * n)
           x == Memory[a]
<1>2. m \in Nat /\ m > 0
  BY <1>1, PositivePowers
<1>3. x \in Nat /\ x < 2 ^ Width
  BY ExpressionAssumption, Words
<1> HIDE DEF m, x
<1>4. x % m \in 0 .. x
  BY <1>2, <1>3, Quotient
<1>5. x % m \in Word
  BY <1>3, <1>4, Words, Modulus
<1> QED
  BY <1>5 DEF m, x

----------------------------------------------------------------------------
(* Stacks, and the type invariant.                                         *)

LEMMA StackEntries ==
    ASSUME NEW s \in Seq(Word)
    PROVE  /\ Len(s) \in Nat
           /\ \A i \in 1 .. Len(s) : s[i] \in Word
           /\ \A v \in Word : Append(s, v) \in Seq(Word) /\ Len(Append(s, v)) = Len(s) + 1
           /\ \A v, w \in Word : s \o <<v, w>> \in Seq(Word) /\ Len(s \o <<v, w>>) = Len(s) + 2
           /\ \A v, w, x \in Word : s \o <<v, w, x>> \in Seq(Word)
                                    /\ Len(s \o <<v, w, x>>) = Len(s) + 3
           /\ \A n \in 0 .. Len(s) : /\ SubSeq(s, 1, Len(s) - n) \in Seq(Word)
                                     /\ Len(SubSeq(s, 1, Len(s) - n)) = Len(s) - n
<1>1. Len(s) \in Nat /\ \A i \in 1 .. Len(s) : s[i] \in Word
  BY ElementOfSeq, LenProperties
<1>2. \A v \in Word : Append(s, v) \in Seq(Word) /\ Len(Append(s, v)) = Len(s) + 1
  BY AppendProperties
<1>3. ASSUME NEW v \in Word, NEW w \in Word
      PROVE  s \o <<v, w>> \in Seq(Word) /\ Len(s \o <<v, w>>) = Len(s) + 2
  OBVIOUS
<1>4. ASSUME NEW v \in Word, NEW w \in Word, NEW x \in Word
      PROVE  s \o <<v, w, x>> \in Seq(Word) /\ Len(s \o <<v, w, x>>) = Len(s) + 3
  OBVIOUS
<1>5. ASSUME NEW n \in 0 .. Len(s)
      PROVE  /\ SubSeq(s, 1, Len(s) - n) \in Seq(Word)
             /\ Len(SubSeq(s, 1, Len(s) - n)) = Len(s) - n
  <2>1. Len(s) - n \in 0 .. Len(s)
    BY <1>1
  <2>2. \A i \in 1 .. Len(s) - n : s[i] \in Word
    BY <1>1, <2>1
  <2> QED
    BY <1>1, <2>1, <2>2, SubSeqProperties
<1> QED
  BY <1>1, <1>2, <1>3, <1>4, <1>5

\* What TypeOK needs of a step that goes on.
Fits(s) == s \in Seq(Word) /\ Len(s) <= StackSize

LEMMA ContinueKeepsType ==
    ASSUME TypeOK, status = "running", ip < Len(program), Fits(stack'),
           ip' = ip + 1, UNCHANGED <<program, status, result>>
    PROVE  TypeOK'
<1>1. Len(program) \in Nat /\ ip \in Nat
  BY LenProperties DEF TypeOK
<1>2. ip' \in 0 .. Len(program)
  BY <1>1
<1> QED
  BY <1>2 DEF TypeOK, Fits

LEMMA FailKeepsType ==
    ASSUME TypeOK, NEW e \in Errors, Fail(e)
    PROVE  TypeOK'
BY DEF TypeOK, Fail, Errors

LEMMA LoadKeepsType ==
    ASSUME TypeOK, status = "running", ip < Len(program), NEW n \in 1 .. depth, NEW size \in Nat,
           Load(Below(n), peek(0), size)
    PROVE  TypeOK'
<1>1. CASE peek(0) \in DOMAIN Memory
  <2>1. PICK x \in Word : x = Memory[peek(0)] % 2 ^ (ByteWidth * size)
    BY <1>1, MemoryIsWord
  <2>2. PICK s : s = Below(n)
    OBVIOUS
  <2>3. stack' = Append(s, x) /\ ip' = ip + 1 /\ UNCHANGED <<program, status, result>>
    BY <1>1, <2>1, <2>2 DEF Load, Continue
  <2>4. stack \in Seq(Word) /\ Len(stack) <= StackSize /\ Len(stack) \in Nat
    BY LenProperties DEF TypeOK
  <2>5. s \in Seq(Word) /\ Len(s) = Len(stack) - n
    BY <2>2, <2>4, StackEntries DEF Below, depth
  <2>6. Append(s, x) \in Seq(Word) /\ Len(Append(s, x)) = Len(s) + 1
    BY <2>1, <2>5, StackEntries
  <2>7. Fits(stack')
    BY <2>3, <2>4, <2>5, <2>6, ExpressionAssumption DEF Fits, depth
  <2> QED
    BY <2>3, <2>7, ContinueKeepsType
<1>2. CASE peek(0) \notin DOMAIN Memory
  BY <1>2, FailKeepsType DEF Load, Errors
<1> QED
  BY <1>1, <1>2

LEMMA TypeInductive ==
    ASSUME TypeOK, Next
    PROVE  TypeOK'
<1> DEFINE d == Len(stack)
<1>1. /\ program \in Seq(Instructions) /\ Len(program) \in Nat
      /\ stack \in Seq(Word) /\ d \in Nat /\ d <= StackSize /\ StackSize \in Nat
      /\ ip \in 0 .. Len(program)
  BY LenProperties, ExpressionAssumption DEF TypeOK
<1>2. ASSUME NEW op, Instruction(op)
      PROVE  /\ status = "running" /\ ip < Len(program)
             /\ program[ip + 1] \in Instructions /\ program[ip + 1].op = op
  <2>1. ip + 1 \in 1 .. Len(program)
    BY <1>1, <1>2 DEF Instruction
  <2> QED
    BY <1>1, <1>2, <2>1, ElementOfSeq DEF Instruction
<1>3. \A e \in Errors : Fail(e) => TypeOK'
  BY FailKeepsType
<1>4. ASSUME NEW v \in Word, push(stack, v), status = "running", ip < Len(program)
      PROVE  TypeOK'
  <2>1. CASE Len(stack) < StackSize /\ Continue(Append(stack, v))
    <3>1. Append(stack, v) \in Seq(Word) /\ Len(Append(stack, v)) = d + 1
      BY <1>1, StackEntries
    <3>2. Fits(stack')
      BY <1>1, <2>1, <3>1 DEF Fits, Continue
    <3> QED
      BY <1>4, <2>1, <3>2, ContinueKeepsType DEF Continue
  <2>2. CASE Fail("EINTERNAL")
    BY <2>2, <1>3 DEF Errors
  <2> QED
    BY <1>4, <2>1, <2>2 DEF push
<1>5. ASSUME NEW r, RegisterFails(r)
      PROVE  TypeOK'
  BY <1>5, <1>3 DEF RegisterFails, Errors
<1>6. ASSUME NEW s, Continue(s), Fits(s), status = "running", ip < Len(program)
      PROVE  TypeOK'
  BY <1>6, ContinueKeepsType DEF Continue
<1>7. ASSUME NEW s, Jump(s), Fits(s)
      PROVE  TypeOK'
  <2>1. CASE Fail("EINVAL")
    BY <2>1, <1>3 DEF Errors
  <2>2. CASE /\ ip + 1 + arg \in 0 .. Len(program)
             /\ ip' = ip + 1 + arg
             /\ stack' = s
             /\ UNCHANGED <<program, status, result>>
    BY <1>7, <2>2 DEF TypeOK, Fits
  <2> QED
    BY <1>7, <2>1, <2>2 DEF Jump
<1>8. \A i \in 1 .. d : stack[i] \in Word
  BY <1>1, StackEntries
<1>9. \A n \in 0 .. d : /\ Below(n) \in Seq(Word) /\ Len(Below(n)) = d - n
                        /\ Fits(Below(n))
  <2> SUFFICES ASSUME NEW n \in 0 .. d
               PROVE  Below(n) \in Seq(Word) /\ Len(Below(n)) = d - n /\ Fits(Below(n))
    OBVIOUS
  <2>1. Below(n) \in Seq(Word) /\ Len(Below(n)) = d - n
    BY <1>1, StackEntries DEF Below, depth
  <2> QED
    BY <1>1, <2>1 DEF Fits
<1>10. \A n \in 1 .. d : \A v \in Word : Fits(Append(Below(n), v))
  <2> SUFFICES ASSUME NEW n \in 1 .. d, NEW v \in Word
               PROVE  Fits(Append(Below(n), v))
    OBVIOUS
  <2>1. PICK s : s = Below(n)
    OBVIOUS
  <2>2. s \in Seq(Word) /\ Len(s) = d - n
    BY <1>9, <2>1
  <2>3. Append(s, v) \in Seq(Word) /\ Len(Append(s, v)) = Len(s) + 1
    BY <2>2, StackEntries
  <2> QED
    BY <1>1, <2>1, <2>2, <2>3 DEF Fits
<1>11. \A k \in 0 .. d - 1 : peek(k) \in Word
  BY <1>1, <1>8 DEF peek, depth
<1>12. CASE constant
  <2>1. Instruction("const") /\ push(stack, Wrap(arg))
    BY <1>12 DEF constant
  <2>2. arg \in Int
    BY <2>1, <1>2 DEF arg, Instructions, UnaryOps, BinaryOps
  <2> QED
    BY <2>1, <2>2, <1>2, <1>4, WrapIsWord
<1>13. CASE breg
  <2>1. Instruction("breg")
    BY <1>13 DEF breg
  <2>2. CASE RegisterFails(arg.reg)
    BY <2>2, <1>5
  <2>3. CASE RegValue[arg.reg] \in Word /\ push(stack, Wrap(RegValue[arg.reg] + arg.off))
    <3>1. arg.off \in Int
      BY <2>1, <1>2 DEF arg, Instructions, UnaryOps, BinaryOps
    <3>2. RegValue[arg.reg] + arg.off \in Int
      BY <2>3, <3>1, Words
    <3> QED
      BY <2>1, <2>3, <3>2, <1>2, <1>4, WrapIsWord
  <2> QED
    BY <1>13, <2>2, <2>3 DEF breg
<1>14. CASE bregx
  <2> DEFINE v == Wrap(RegValue[arg.reg] + arg.off)
  <2>1. Instruction("bregx")
    BY <1>14 DEF bregx
  <2>2. CASE RegisterFails(arg.reg)
    BY <2>2, <1>5
  <2>3. CASE Fail("EINTERNAL") \/ Fail("EINVAL")
    BY <2>3, <1>3 DEF Errors
  <2>4. CASE RegValue[arg.reg] \in Word /\ depth + 1 < StackSize /\ Continue(stack \o <<v, v>>)
    <3>1. arg.off \in Int
      BY <2>1, <1>2 DEF arg, Instructions, UnaryOps, BinaryOps
    <3>2. RegValue[arg.reg] + arg.off \in Int
      BY <2>4, <3>1, Words
    <3>3. v \in Word
      BY <3>2, WrapIsWord
    <3> HIDE DEF v
    <3>4. stack \o <<v, v>> \in Seq(Word) /\ Len(stack \o <<v, v>>) = d + 2
      BY <3>3, <1>1, StackEntries
    <3>5. Fits(stack \o <<v, v>>)
      BY <3>4, <2>4, <1>1 DEF Fits, depth
    <3> QED
      BY <2>1, <2>4, <3>5, <1>2, <1>6
  <2> QED
    BY <1>14, <2>2, <2>3, <2>4 DEF bregx
<1>15. CASE dup
  <2>1. Instruction("dup")
    BY <1>15 DEF dup
  <2>2. CASE Fail("EINVAL")
    BY <2>2, <1>3 DEF Errors
  <2>3. CASE depth \in 1 .. StackSize - 1 /\ Continue(Append(stack, peek(0)))
    <3>1. peek(0) \in Word
      BY <2>3, <1>1, <1>11 DEF depth
    <3>2. Append(stack, peek(0)) \in Seq(Word) /\ Len(Append(stack, peek(0))) = d + 1
      BY <3>1, <1>1, StackEntries
    <3>3. Fits(Append(stack, peek(0)))
      BY <3>2, <2>3, <1>1 DEF Fits, depth
    <3> QED
      BY <2>1, <2>3, <3>3, <1>2, <1>6
  <2> QED
    BY <1>15, <2>2, <2>3 DEF dup
<1>16. CASE drop
  <2>1. Instruction("drop")
    BY <1>16 DEF drop
  <2>2. CASE Fail("EINVAL")
    BY <2>2, <1>3 DEF Errors
  <2>3. CASE depth > 0 /\ Continue(Below(1))
    <3>1. Fits(Below(1))
      BY <2>3, <1>1, <1>9 DEF depth
    <3> QED
      BY <2>1, <2>3, <3>1, <1>2, <1>6
  <2> QED
    BY <1>16, <2>2, <2>3 DEF drop
<1>17. CASE pick
  <2>1. Instruction("pick")
    BY <1>17 DEF pick
  <2>2. CASE Fail("EINVAL")
    BY <2>2, <1>3 DEF Errors
  <2>3. CASE depth > arg /\ Continue(IF depth = StackSize THEN stack ELSE Append(stack, peek(arg)))
    <3>1. arg \in Nat
      BY <2>1, <1>2 DEF arg, Instructions, UnaryOps, BinaryOps
    <3>2. peek(arg) \in Word
      BY <2>3, <3>1, <1>1, <1>11 DEF depth
    <3>3. Append(stack, peek(arg)) \in Seq(Word) /\ Len(Append(stack, peek(arg))) = d + 1
      BY <3>2, <1>1, StackEntries
    <3>4. Fits(IF depth = StackSize THEN stack ELSE Append(stack, peek(arg)))
      BY <3>3, <1>1 DEF Fits, depth
    <3> QED
      BY <2>1, <2>3, <3>4, <1>2, <1>6
  <2> QED
    BY <1>17, <2>2, <2>3 DEF pick
<1>18. CASE swap
  <2>1. Instruction("swap")
    BY <1>18 DEF swap
  <2>2. CASE Fail("EINVAL")
    BY <2>2, <1>3 DEF Errors
  <2>3. CASE depth >= 2 /\ Continue(Below(2) \o <<peek(0), peek(1)>>)
    <3>1. peek(0) \in Word /\ peek(1) \in Word
      BY <2>3, <1>1, <1>11 DEF depth
    <3>2. PICK v \in Word, w \in Word : v = peek(0) /\ w = peek(1)
      BY <3>1
    <3> DEFINE s == Below(2)
    <3>3. s \in Seq(Word) /\ Len(s) = d - 2
      BY <2>3, <1>1, <1>9 DEF depth
    <3>6. Continue(s \o <<v, w>>)
      BY <2>3, <3>2
    <3> HIDE DEF s
    <3>4. s \o <<v, w>> \in Seq(Word) /\ Len(s \o <<v, w>>) = Len(s) + 2
      BY <3>3, StackEntries
    <3>5. Fits(s \o <<v, w>>)
      BY <3>3, <3>4, <1>1 DEF Fits
    <3> QED
      BY <2>1, <3>5, <3>6, <1>2, <1>6
  <2> QED
    BY <1>18, <2>2, <2>3 DEF swap
<1>19. CASE rotate
  <2>1. Instruction("rot")
    BY <1>19 DEF rotate
  <2>2. CASE Fail("EINVAL")
    BY <2>2, <1>3 DEF Errors
  <2>3. CASE depth >= 3 /\ Continue(Below(3) \o <<peek(0), peek(2), peek(1)>>)
    <3>1. peek(0) \in Word /\ peek(1) \in Word /\ peek(2) \in Word
      BY <2>3, <1>1, <1>11 DEF depth
    <3>2. PICK v \in Word, w \in Word, x \in Word : v = peek(0) /\ w = peek(2) /\ x = peek(1)
      BY <3>1
    <3> DEFINE s == Below(3)
    <3>3. s \in Seq(Word) /\ Len(s) = d - 3
      BY <2>3, <1>1, <1>9 DEF depth
    <3>6. Continue(s \o <<v, w, x>>)
      BY <2>3, <3>2
    <3> HIDE DEF s
    <3>4. s \o <<v, w, x>> \in Seq(Word) /\ Len(s \o <<v, w, x>>) = Len(s) + 3
      BY <3>3, StackEntries
    <3>5. Fits(s \o <<v, w, x>>)
      BY <3>3, <3>4, <1>1 DEF Fits
    <3> QED
      BY <2>1, <3>5, <3>6, <1>2, <1>6
  <2> QED
    BY <1>19, <2>2, <2>3 DEF rotate
<1>20. WordSize \in Nat /\ \A n \in Sizes : n \in Nat
  BY ExpressionAssumption DEF WordSize, Sizes
<1>21. CASE deref
  <2>1. Instruction("deref")
    BY <1>21 DEF deref
  <2>2. CASE Fail("EINTERNAL")
    BY <2>2, <1>3 DEF Errors
  <2>3. CASE depth > 0 /\ Load(Below(1), peek(0), WordSize)
    <3>1. 1 \in 1 .. depth
      BY <2>3, <1>1 DEF depth
    <3> QED
      BY <2>1, <2>3, <3>1, <1>2, <1>20, LoadKeepsType
  <2> QED
    BY <1>21, <2>2, <2>3 DEF deref
<1>22. CASE xderef
  <2>1. Instruction("xderef")
    BY <1>22 DEF xderef
  <2>2. CASE Fail("EINVAL")
    BY <2>2, <1>3 DEF Errors
  <2>3. CASE depth >= 2 /\ Load(Below(2), peek(0), WordSize)
    <3>1. 2 \in 1 .. depth
      BY <2>3, <1>1 DEF depth
    <3> QED
      BY <2>1, <2>3, <3>1, <1>2, <1>20, LoadKeepsType
  <2> QED
    BY <1>22, <2>2, <2>3 DEF xderef
<1>23. CASE deref_size
  <2>1. Instruction("deref_size")
    BY <1>23 DEF deref_size
  <2>2. CASE Fail("EINVAL") \/ Fail("EINTERNAL")
    BY <2>2, <1>3 DEF Errors
  <2>3. CASE arg \in Sizes /\ depth > 0 /\ Load(Below(1), peek(0), arg)
    <3>1. 1 \in 1 .. depth
      BY <2>3, <1>1 DEF depth
    <3> QED
      BY <2>1, <2>3, <3>1, <1>2, <1>20, LoadKeepsType
  <2> QED
    BY <1>23, <2>2, <2>3 DEF deref_size
<1>24. CASE xderef_size
  <2>1. Instruction("xderef_size")
    BY <1>24 DEF xderef_size
  <2>2. CASE Fail("EINVAL")
    BY <2>2, <1>3 DEF Errors
  <2>3. CASE depth >= 2 /\ arg \in Sizes /\ Load(Below(2), peek(0), arg)
    <3>1. 2 \in 1 .. depth
      BY <2>3, <1>1 DEF depth
    <3> QED
      BY <2>1, <2>3, <3>1, <1>2, <1>20, LoadKeepsType
  <2> QED
    BY <1>24, <2>2, <2>3 DEF xderef_size
<1>25. ASSUME NEW op \in UnaryOps, unary(op)
       PROVE  TypeOK'
  <2>1. Instruction(op)
    BY <1>25 DEF unary
  <2>2. CASE Fail("EINTERNAL")
    BY <2>2, <1>3 DEF Errors
  <2>3. CASE depth > 0 /\ Continue(Append(Below(1), Unary(op, peek(0))))
    <3>1. Unary(op, peek(0)) \in Word
      BY <2>3, <1>1, <1>11, UnaryIsWord DEF depth
    <3>2. Fits(Append(Below(1), Unary(op, peek(0))))
      BY <2>3, <3>1, <1>1, <1>10 DEF depth
    <3> QED
      BY <2>1, <2>3, <3>2, <1>2, <1>6
  <2> QED
    BY <1>25, <2>2, <2>3 DEF unary
<1>26. ASSUME NEW op \in BinaryOps, binary(op)
       PROVE  TypeOK'
  <2>1. Instruction(op)
    BY <1>26 DEF binary
  <2>2. CASE Fail("EINTERNAL") \/ Fail("EINVAL")
    BY <2>2, <1>3 DEF Errors
  <2>3. CASE /\ depth >= 2
             /\ ~ (op \in {"div", "mod"} /\ peek(0) = 0)
             /\ \E v \in Binary(op, peek(1), peek(0)) : Continue(Append(Below(2), v))
    <3>1. PICK v \in Binary(op, peek(1), peek(0)) : Continue(Append(Below(2), v))
      BY <2>3
    <3>2. peek(0) \in Word /\ peek(1) \in Word
      BY <2>3, <1>1, <1>11 DEF depth
    <3>3. v \in Word
      BY <2>3, <3>1, <3>2, BinaryIsApplied DEF DividesByZero
    <3>4. Fits(Append(Below(2), v))
      BY <2>3, <3>3, <1>1, <1>10 DEF depth
    <3> QED
      BY <2>1, <3>1, <3>4, <1>2, <1>6
  <2> QED
    BY <1>26, <2>2, <2>3 DEF binary
<1>27. CASE plus_uconst
  <2>1. Instruction("plus_uconst")
    BY <1>27 DEF plus_uconst
  <2>2. CASE Fail("EINTERNAL")
    BY <2>2, <1>3 DEF Errors
  <2>3. CASE depth > 0 /\ Continue(Append(Below(1), Wrap(arg + peek(0))))
    <3>1. arg \in Int
      BY <2>1, <1>2 DEF arg, Instructions, UnaryOps, BinaryOps
    <3>2. peek(0) \in Word
      BY <2>3, <1>1, <1>11 DEF depth
    <3>3. arg + peek(0) \in Int
      BY <3>1, <3>2, Words
    <3>4. Fits(Append(Below(1), Wrap(arg + peek(0))))
      BY <2>3, <3>3, <1>1, <1>10, WrapIsWord DEF depth
    <3> QED
      BY <2>1, <2>3, <3>4, <1>2, <1>6
  <2> QED
    BY <1>27, <2>2, <2>3 DEF plus_uconst
<1>28. Fits(stack)
  BY <1>1 DEF Fits
<1>29. CASE skip
  BY <1>29, <1>7, <1>28 DEF skip
<1>30. CASE bra
  <2>1. Instruction("bra")
    BY <1>30 DEF bra
  <2>2. CASE Fail("EINTERNAL")
    BY <2>2, <1>3 DEF Errors
  <2>3. CASE depth > 0 /\ Jump(Below(1))
    <3>1. Fits(Below(1))
      BY <2>3, <1>1, <1>9 DEF depth
    <3> QED
      BY <2>3, <3>1, <1>7
  <2>4. CASE depth > 0 /\ Continue(Below(1))
    <3>1. Fits(Below(1))
      BY <2>4, <1>1, <1>9 DEF depth
    <3> QED
      BY <2>1, <2>4, <3>1, <1>2, <1>6
  <2> QED
    BY <1>30, <2>2, <2>3, <2>4 DEF bra
<1>31. CASE nop
  BY <1>31, <1>2, <1>6, <1>28 DEF nop
<1>32. CASE unsupported
  BY <1>32, <1>3 DEF unsupported, Errors
<1>33. CASE finish
  <2>1. CASE Fail("EINVAL")
    BY <2>1, <1>3 DEF Errors
  <2>2. CASE /\ depth > 0 /\ status' = "ESUCCESS" /\ result' = peek(0)
             /\ stack' = Below(1) /\ UNCHANGED <<program, ip>>
    <3>1. Fits(Below(1)) /\ peek(0) \in Word
      BY <2>2, <1>1, <1>9, <1>11 DEF depth
    <3>2. Fits(stack') /\ result' \in Word
      BY <2>2, <3>1
    <3> QED
      BY <2>2, <3>2 DEF TypeOK, Fits
  <2> QED
    BY <1>33, <2>1, <2>2 DEF finish
<1> QED
  BY <1>12, <1>13, <1>14, <1>15, <1>16, <1>17, <1>18, <1>19, <1>21, <1>22, <1>23, <1>24,
     <1>25, <1>26, <1>27, <1>29, <1>30, <1>31, <1>32, <1>33 DEF Next

LEMMA StartIsTyped ==
    ASSUME NEW p \in Seq(Instructions), Start(p)
    PROVE  TypeOK
<1>1. 0 \in Word
  BY Modulus, Words
<1>2. Len(p) \in Nat
  BY LenProperties
<1> QED
  BY <1>1, <1>2, ExpressionAssumption DEF Start, TypeOK

\* Whatever the program, the evaluator neither leaves it nor reads or writes outside of
\* its stack, and what it works with are words (dwarf_expression_eval, dwarf_stack).
THEOREM EvaluatorIsTyped == Spec => []TypeOK
<1>1. Init => TypeOK
  BY StartIsTyped, ExpressionAssumption DEF Init
<1>2. TypeOK /\ [Next]_vars => TypeOK'
  <2>1. TypeOK /\ UNCHANGED vars => TypeOK'
    BY DEF TypeOK, vars
  <2> QED
    BY <2>1, TypeInductive
<1> QED
  BY <1>1, <1>2, PTL DEF Spec

----------------------------------------------------------------------------
(* Recursion on trees.  A function of the trees is defined by an equation   *)
(* whose right side looks at it for the operands only, which are less high. *)

LooksBelow(S, h, R, step) ==
    /\ h \in [S -> Nat]
    /\ R # {}
    /\ step \in [S -> [[S -> R] -> R]]
    /\ \A t \in S : \A f, g \in [S -> R] :
          (\A u \in S : h[u] < h[t] => f[u] = g[u]) => step[t][f] = step[t][g]

Solvable(S, R, step) == \E f \in [S -> R] : \A t \in S : f[t] = step[t][f]

LEMMA RecursionOnHeight ==
    ASSUME NEW S, NEW h, NEW R, NEW step, LooksBelow(S, h, R, step)
    PROVE  Solvable(S, R, step)
<1> DEFINE Correct(f, n) == \A t \in S : h[t] < n => f[t] = step[t][f]
           Exists(n) == \E f \in [S -> R] : Correct(f, n)
           Same(n) == \A f, g \in [S -> R] : Correct(f, n) /\ Correct(g, n) =>
                         \A t \in S : h[t] < n => f[t] = g[t]
<1>1. \A f, g \in [S -> R], t \in S :
         (\A u \in S : h[u] < h[t] => f[u] = g[u]) => step[t][f] = step[t][g]
  BY DEF LooksBelow
<1>2. \A t \in S : \A f \in [S -> R] : step[t][f] \in R
  BY DEF LooksBelow
<1>3. \A t \in S : h[t] \in Nat
  BY DEF LooksBelow
<1>10. PICK r \in R : TRUE
  BY DEF LooksBelow
<1>4. \A n \in Nat : Same(n)
  <2> SUFFICES ASSUME NEW n \in Nat, NEW f \in [S -> R], NEW g \in [S -> R],
                      Correct(f, n), Correct(g, n)
               PROVE  \A t \in S : h[t] < n => f[t] = g[t]
    BY Zenon
  <2> DEFINE Bad == {k \in Nat : \E t \in S : h[t] = k /\ k < n /\ f[t] # g[t]}
  <2>1. CASE Bad = {}
    <3> SUFFICES ASSUME NEW t \in S, h[t] < n, f[t] # g[t]
                 PROVE  FALSE
      OBVIOUS
    <3>1. h[t] \in Bad
      BY <1>3
    <3> QED
      BY <3>1, <2>1
  <2>2. CASE Bad # {}
    <3>1. PICK k \in Bad : \A j \in Bad : k <= j
      BY <2>2, LeastNumber
    <3>2. PICK t \in S : h[t] = k /\ k < n /\ f[t] # g[t]
      BY <3>1
    <3>3. \A u \in S : h[u] < h[t] => f[u] = g[u]
      <4> SUFFICES ASSUME NEW u \in S, h[u] < h[t], f[u] # g[u]
                   PROVE  FALSE
        OBVIOUS
      <4>1. h[u] \in Nat /\ h[u] < n /\ k \in Nat
        BY <1>3, <3>1, <3>2
      <4>2. h[u] \in Bad
        BY <4>1
      <4> HIDE DEF Bad
      <4> QED
        BY <4>1, <4>2, <3>1, <3>2
    <3>4. step[t][f] = step[t][g]
      BY <3>3, <1>1
    <3>5. f[t] = step[t][f] /\ g[t] = step[t][g]
      BY <3>2
    <3> QED
      BY <3>2, <3>4, <3>5
  <2> QED
    BY <2>1, <2>2
<1>5. \A n \in Nat : Exists(n)
  <2> DEFINE Bad == {n \in Nat : ~ Exists(n)}
  <2>1. CASE Bad = {}
    BY <2>1
  <2>2. CASE Bad # {}
    <3>1. PICK n \in Bad : \A k \in Bad : n <= k
      BY <2>2, LeastNumber
    <3>2. n \in Nat /\ ~ Exists(n)
      BY <3>1
    <3>3. n # 0
      <4>1. [t \in S |-> r] \in [S -> R]
        OBVIOUS
      <4>2. Correct([t \in S |-> r], 0)
        BY <1>3
      <4> HIDE DEF Correct
      <4>3. Exists(0)
        BY <4>1, <4>2
      <4> QED
        BY <4>3, <3>2
    <3> DEFINE k == n - 1
    <3>4. k \in Nat /\ k + 1 = n /\ k < n
      BY <3>2, <3>3
    <3>12. \A x \in Nat : x < n => x < k \/ x = k
      BY <3>2
    <3> HIDE DEF k
    <3>5. Exists(k)
      <4>1. k \notin Bad
        <5> HIDE DEF Bad
        <5> QED
          BY <3>1, <3>2, <3>4
      <4> QED
        BY <4>1, <3>4
    <3>6. PICK g \in [S -> R] : Correct(g, k)
      BY <3>5
    <3> DEFINE f == [t \in S |-> IF h[t] < k THEN g[t] ELSE step[t][g]]
    <3>7. f \in [S -> R]
      BY <1>2
    <3>8. \A t \in S : f[t] = IF h[t] < k THEN g[t] ELSE step[t][g]
      OBVIOUS
    <3> HIDE DEF f
    <3>9. ASSUME NEW t \in S, h[t] < n
          PROVE  f[t] = step[t][f]
      <4>1. h[t] \in Nat /\ (h[t] < k \/ h[t] = k)
        BY <3>12, <3>9, <1>3
      <4>2. \A u \in S : h[u] < h[t] => f[u] = g[u]
        <5> SUFFICES ASSUME NEW u \in S, h[u] < h[t]
                     PROVE  f[u] = g[u]
          OBVIOUS
        <5>1. h[u] < k
          BY <4>1, <3>4, <1>3
        <5> QED
          BY <5>1, <3>8
      <4>3. step[t][f] = step[t][g]
        BY <4>2, <3>7, <1>1
      <4>4. f[t] = step[t][g]
        <5>1. CASE h[t] < k
          BY <5>1, <3>6, <3>8
        <5>2. CASE ~ h[t] < k
          BY <5>2, <3>8
        <5> QED
          BY <5>1, <5>2
      <4> QED
        BY <4>3, <4>4
    <3>10. Correct(f, n)
      BY <3>9
    <3> HIDE DEF Correct
    <3>11. Exists(n)
      BY <3>7, <3>10
    <3> QED
      BY <3>2, <3>11
  <2> QED
    BY <2>1, <2>2
<1> DEFINE A == [n \in Nat |-> CHOOSE f \in [S -> R] : Correct(f, n)]
           F == [t \in S |-> A[h[t] + 1][t]]
<1>6. \A n \in Nat : A[n] \in [S -> R] /\ Correct(A[n], n)
  <2> SUFFICES ASSUME NEW n \in Nat
               PROVE  A[n] \in [S -> R] /\ Correct(A[n], n)
    OBVIOUS
  <2>1. \E f \in [S -> R] : Correct(f, n)
    BY <1>5
  <2>2. A[n] = CHOOSE f \in [S -> R] : Correct(f, n)
    OBVIOUS
  <2> HIDE DEF Correct, A
  <2> QED
    BY <2>1, <2>2
<1> HIDE DEF A
<1>7. F \in [S -> R]
  BY <1>3, <1>6
<1>8. \A t \in S : F[t] = A[h[t] + 1][t]
  OBVIOUS
<1> HIDE DEF F
<1>9. ASSUME NEW t \in S
      PROVE  F[t] = step[t][F]
  <2> DEFINE n == h[t] + 1
  <2>1. n \in Nat /\ h[t] < n
    BY <1>3
  <2>2. A[n] \in [S -> R] /\ Correct(A[n], n)
    BY <2>1, <1>6
  <2>3. \A u \in S : h[u] < h[t] => F[u] = A[n][u]
    <3> SUFFICES ASSUME NEW u \in S, h[u] < h[t]
                 PROVE  F[u] = A[n][u]
      OBVIOUS
    <3> DEFINE m == h[u] + 1
    <3>1. m \in Nat /\ h[u] < m /\ m <= n
      BY <1>3
    <3>2. A[m] \in [S -> R] /\ Correct(A[m], m)
      BY <3>1, <1>6
    <3>3. Correct(A[n], m)
      <4> SUFFICES ASSUME NEW w \in S, h[w] < m
                   PROVE  A[n][w] = step[w][A[n]]
        OBVIOUS
      <4>1. h[w] < n
        BY <3>1, <2>1, <1>3
      <4> HIDE DEF n, m
      <4> QED
        BY <4>1, <2>2
    <3>4. F[u] = A[m][u]
      BY <1>8
    <3>5. Same(m)
      BY <3>1, <1>4
    <3> HIDE DEF m, n, Correct
    <3>6. A[m][u] = A[n][u]
      BY <3>1, <3>2, <3>3, <3>5, <2>2
    <3> QED
      BY <3>4, <3>6
  <2>4. F[t] = A[n][t]
    BY <1>8
  <2> HIDE DEF n
  <2>5. A[n][t] = step[t][A[n]]
    BY <2>1, <2>2
  <2>6. step[t][F] = step[t][A[n]]
    BY <2>2, <2>3, <1>1, <1>7
  <2> QED
    BY <2>4, <2>5, <2>6
<1> QED
  BY <1>7, <1>9 DEF Solvable

LEMMA EqualByHeight ==
    ASSUME NEW S, NEW h \in [S -> Nat], NEW f, NEW g,
           \A t \in S : (\A u \in S : h[u] < h[t] => f[u] = g[u]) => f[t] = g[t]
    PROVE  \A t \in S : f[t] = g[t]
<1> DEFINE Bad == {k \in Nat : \E t \in S : h[t] = k /\ f[t] # g[t]}
<1>1. \A t \in S : h[t] \in Nat
  OBVIOUS
<1>2. CASE Bad = {}
  <2> SUFFICES ASSUME NEW t \in S, f[t] # g[t]
               PROVE  FALSE
    OBVIOUS
  <2>1. h[t] \in Bad
    BY <1>1
  <2> QED
    BY <2>1, <1>2
<1>3. CASE Bad # {}
  <2>1. PICK k \in Bad : \A j \in Bad : k <= j
    BY <1>3, LeastNumber
  <2>2. PICK t \in S : h[t] = k /\ f[t] # g[t]
    BY <2>1
  <2>3. \A u \in S : h[u] < h[t] => f[u] = g[u]
    <3> SUFFICES ASSUME NEW u \in S, h[u] < h[t], f[u] # g[u]
                 PROVE  FALSE
      OBVIOUS
    <3>1. h[u] \in Nat /\ h[u] < k /\ k \in Nat
      BY <1>1, <2>1, <2>2
    <3>2. h[u] \in Bad
      BY <3>1
    <3> HIDE DEF Bad
    <3> QED
      BY <3>1, <3>2, <2>1
  <2> QED
    BY <2>2, <2>3
<1> QED
  BY <1>2, <1>3

\* The codes that trees are compiled to are made of these.
LEMMA CodeOfOps ==
    /\ \A i \in Instructions : <<i>> \in Seq(Instructions)
    /\ \A o \in UnaryOps \cup BinaryOps \cup {"dup", "drop", "swap", "rot", "deref", "xderef", "nop"} :
          op0(o) \in Seq(Instructions)
    /\ \A o \in {"const", "plus_uconst", "skip", "bra"}, n \in Int : op1(o, n) \in Seq(Instructions)
    /\ \A o \in {"pick", "deref_size", "xderef_size"}, n \in Nat : op1(o, n) \in Seq(Instructions)
<1>1. \A i \in Instructions : <<i>> \in Seq(Instructions)
  OBVIOUS
<1>2. ASSUME NEW o \in UnaryOps \cup BinaryOps \cup {"dup", "drop", "swap", "rot", "deref", "xderef", "nop"}
      PROVE  op0(o) \in Seq(Instructions)
  <2>1. [op |-> o] \in Instructions
    BY DEF Instructions
  <2> QED
    BY <1>1, <2>1 DEF op0
<1>3. ASSUME NEW o \in {"const", "plus_uconst", "skip", "bra"}, NEW n \in Int
      PROVE  op1(o, n) \in Seq(Instructions)
  <2>1. [op |-> o, arg |-> n] \in Instructions
    BY DEF Instructions
  <2> QED
    BY <1>1, <2>1 DEF op1
<1>4. ASSUME NEW o \in {"pick", "deref_size", "xderef_size"}, NEW n \in Nat
      PROVE  op1(o, n) \in Seq(Instructions)
  <2>1. [op |-> o, arg |-> n] \in Instructions
    BY DEF Instructions
  <2> QED
    BY <1>1, <2>1 DEF op1
<1> QED
  BY <1>1, <1>2, <1>3, <1>4

LEMMA Joined == \A c, d \in Seq(Instructions) : c \o d \in Seq(Instructions)
OBVIOUS

LEMMA CompileOfIsCode ==
    ASSUME NEW c \in [Trees -> Seq(Instructions)], NEW t \in Trees
    PROVE  CompileOf(c, t) \in Seq(Instructions)
<1> DEFINE K == t.kind
<1>1. IsTree(t)
  BY TreesAssumption
<1>2. \A u \in Trees : c[u] \in Seq(Instructions) /\ Len(c[u]) \in Nat
  BY LenProperties
<1>3. CASE K = "leaf"
  BY <1>1, <1>3, CodeOfOps DEF IsTree, IsLeaf, CompileOf
<1>4. CASE K = "malformed"
  BY <1>1, <1>4 DEF IsTree, CompileOf
<1>5. CASE K = "unary"
  <2>1. CompileOf(c, t) = c[t.a] \o op0(t.op)
    BY <1>5 DEF CompileOf
  <2> QED
    BY <1>1, <1>2, <1>5, <2>1, CodeOfOps, Joined DEF IsTree, Operand
<1>6. CASE K = "uconst"
  <2>1. CompileOf(c, t) = c[t.a] \o op1("plus_uconst", t.n)
    BY <1>6 DEF CompileOf
  <2> QED
    BY <1>1, <1>2, <1>6, <2>1, CodeOfOps, Joined DEF IsTree, Operand
<1>7. CASE K = "load"
  <2>1. CompileOf(c, t) = c[t.a] \o op0("deref")
    BY <1>7 DEF CompileOf
  <2> QED
    BY <1>1, <1>2, <1>7, <2>1, CodeOfOps, Joined DEF IsTree, Operand
<1>8. CASE K = "loadSize"
  <2>1. CompileOf(c, t) = c[t.a] \o op1("deref_size", t.n)
    BY <1>8 DEF CompileOf
  <2> QED
    BY <1>1, <1>2, <1>8, <2>1, CodeOfOps, Joined DEF IsTree, Operand
<1>9. CASE K = "farLoad"
  <2>1. CompileOf(c, t) = op1("const", 1) \o c[t.a] \o op0("xderef")
    BY <1>9 DEF CompileOf
  <2> QED
    BY <1>1, <1>2, <1>9, <2>1, CodeOfOps, Joined DEF IsTree, Operand
<1>10. CASE K = "farLoadSize"
  <2>1. CompileOf(c, t) = op1("const", 1) \o c[t.a] \o op1("xderef_size", t.n)
    BY <1>10 DEF CompileOf
  <2> QED
    BY <1>1, <1>2, <1>10, <2>1, CodeOfOps, Joined DEF IsTree, Operand
<1>11. CASE K = "binary"
  <2>1. CompileOf(c, t) = c[t.a] \o c[t.b] \o op0(t.op)
    BY <1>11 DEF CompileOf
  <2> QED
    BY <1>1, <1>2, <1>11, <2>1, CodeOfOps, Joined DEF IsTree, Operand
<1>12. CASE K = "reversed"
  <2>1. CompileOf(c, t) = c[t.b] \o c[t.a] \o op0("swap") \o op0(t.op)
    BY <1>12 DEF CompileOf
  <2> QED
    BY <1>1, <1>2, <1>12, <2>1, CodeOfOps, Joined DEF IsTree, Operand
<1>13. CASE K = "twice"
  <2>1. CompileOf(c, t) = c[t.a] \o op0("dup") \o op0(t.op)
    BY <1>13 DEF CompileOf
  <2> QED
    BY <1>1, <1>2, <1>13, <2>1, CodeOfOps, Joined DEF IsTree, Operand
<1>14. CASE K = "first"
  <2>1. CompileOf(c, t) = c[t.a] \o c[t.b] \o op0("drop") \o op0("nop")
    BY <1>14 DEF CompileOf
  <2> QED
    BY <1>1, <1>2, <1>14, <2>1, CodeOfOps, Joined DEF IsTree, Operand
<1>15. CASE K = "over"
  <2>1. CompileOf(c, t) = c[t.a] \o c[t.b] \o op1("pick", 1) \o op0("minus") \o op0(t.op)
    BY <1>15 DEF CompileOf
  <2>2. op0("minus") \in Seq(Instructions) /\ op1("pick", 1) \in Seq(Instructions)
    BY CodeOfOps DEF BinaryOps
  <2> QED
    BY <1>1, <1>2, <1>15, <2>1, <2>2, CodeOfOps, Joined DEF IsTree, Operand
<1>16. CASE K = "rot"
  <2>1. CompileOf(c, t) = c[t.a] \o c[t.b] \o c[t.c] \o op0("rot") \o op0("minus") \o op0(t.op)
    BY <1>16 DEF CompileOf
  <2>2. op0("minus") \in Seq(Instructions)
    BY CodeOfOps DEF BinaryOps
  <2> QED
    BY <1>1, <1>2, <1>16, <2>1, <2>2, CodeOfOps, Joined DEF IsTree, Operand
<1>17. CASE K = "if"
  <2>1. CompileOf(c, t) = c[t.a] \o op1("bra", Len(c[t.c]) + 1) \o c[t.c]
                          \o op1("skip", Len(c[t.b])) \o c[t.b]
    BY <1>17 DEF CompileOf
  <2>2. c[t.a] \in Seq(Instructions) /\ c[t.b] \in Seq(Instructions) /\ c[t.c] \in Seq(Instructions)
        /\ Len(c[t.b]) \in Int /\ Len(c[t.c]) + 1 \in Int
    BY <1>1, <1>2, <1>17 DEF IsTree, Operand
  <2>3. op1("bra", Len(c[t.c]) + 1) \in Seq(Instructions) /\ op1("skip", Len(c[t.b])) \in Seq(Instructions)
    BY <2>2, CodeOfOps
  <2> QED
    BY <2>1, <2>2, <2>3, Joined
<1> QED
  BY <1>1, <1>3, <1>4, <1>5, <1>6, <1>7, <1>8, <1>9, <1>10, <1>11, <1>12, <1>13, <1>14, <1>15,
     <1>16, <1>17 DEF IsTree

LEMMA CompileOfIsLocal ==
    ASSUME NEW f, NEW g, NEW t \in Trees, \A u \in Trees : Height[u] < Height[t] => f[u] = g[u]
    PROVE  CompileOf(f, t) = CompileOf(g, t)
<1> DEFINE K == t.kind
<1>1. IsTree(t)
  BY TreesAssumption
<1>2. \A u : Operand(u, t) => f[u] = g[u]
  BY DEF Operand
<1>3. CASE K \in {"leaf", "malformed"}
  BY <1>3 DEF CompileOf
<1>4. CASE K \in {"unary", "uconst", "load", "loadSize", "farLoad", "farLoadSize", "twice"}
  <2>1. f[t.a] = g[t.a]
    BY <1>1, <1>2, <1>4 DEF IsTree
  <2> QED
    BY <1>4, <2>1 DEF CompileOf
<1>5. CASE K \in {"binary", "reversed", "first", "over"}
  <2>1. f[t.a] = g[t.a] /\ f[t.b] = g[t.b]
    BY <1>1, <1>2, <1>5 DEF IsTree
  <2> QED
    BY <1>5, <2>1 DEF CompileOf
<1>6. CASE K \in {"rot", "if"}
  <2>1. f[t.a] = g[t.a] /\ f[t.b] = g[t.b] /\ f[t.c] = g[t.c]
    BY <1>1, <1>2, <1>6 DEF IsTree
  <2> QED
    BY <1>6, <2>1 DEF CompileOf
<1> QED
  BY <1>1, <1>3, <1>4, <1>5, <1>6 DEF IsTree

LEMMA CompileEquation ==
    /\ Compile \in [Trees -> Seq(Instructions)]
    /\ \A t \in Trees : Compile[t] = CompileOf(Compile, t)
<1> DEFINE R == Seq(Instructions)
           step == [t \in Trees |-> [f \in [Trees -> R] |-> CompileOf(f, t)]]
<1>1. \A t \in Trees, f \in [Trees -> R] : CompileOf(f, t) \in R
  BY CompileOfIsCode
<1>2. step \in [Trees -> [[Trees -> R] -> R]]
  BY <1>1
<1>3. \A t \in Trees, f \in [Trees -> R] : step[t][f] = CompileOf(f, t)
  OBVIOUS
<1>4. R # {}
  <2>1. <<>> \in R
    OBVIOUS
  <2> QED
    BY <2>1
<1>5. Height \in [Trees -> Nat]
  BY TreesAssumption
<1> HIDE DEF R, step
<1>6. LooksBelow(Trees, Height, R, step)
  <2>1. ASSUME NEW t \in Trees, NEW f \in [Trees -> R], NEW g \in [Trees -> R],
               \A u \in Trees : Height[u] < Height[t] => f[u] = g[u]
        PROVE  step[t][f] = step[t][g]
    BY <1>3, <2>1, CompileOfIsLocal
  <2> QED
    BY <1>2, <1>4, <1>5, <2>1 DEF LooksBelow
<1>7. \E f \in [Trees -> R] : \A t \in Trees : f[t] = step[t][f]
  BY <1>6, RecursionOnHeight DEF Solvable
<1>8. PICK f \in [Trees -> R] : \A t \in Trees : f[t] = CompileOf(f, t)
  BY <1>3, <1>7
<1>9. f = [t \in Trees |-> CompileOf(f, t)]
  BY <1>8
<1>10. Compile = [t \in Trees |-> CompileOf(Compile, t)]
  BY <1>9, Zenon DEF Compile
<1>11. \A t \in Trees : Compile[t] = CompileOf(Compile, t)
  BY <1>10
<1>12. \A t \in Trees : (\A u \in Trees : Height[u] < Height[t] => Compile[u] = f[u]) => Compile[t] = f[t]
  BY <1>8, <1>11, CompileOfIsLocal
<1>13. \A t \in Trees : Compile[t] = f[t]
  BY <1>5, <1>12, EqualByHeight
<1>14. Compile = [t \in Trees |-> f[t]]
  BY <1>8, <1>10, <1>11, <1>13
<1>15. Compile \in [Trees -> R]
  BY <1>14
<1> QED
  BY <1>11, <1>15 DEF R

LEMMA NeedOfIsLocal ==
    ASSUME NEW f, NEW g, NEW t \in Trees, \A u \in Trees : Height[u] < Height[t] => f[u] = g[u]
    PROVE  NeedOf(f, t) = NeedOf(g, t)
<1> DEFINE K == t.kind
<1>1. IsTree(t)
  BY TreesAssumption
<1>2. \A u : Operand(u, t) => f[u] = g[u]
  BY DEF Operand
<1>3. CASE K \in {"leaf", "malformed"}
  BY <1>3 DEF NeedOf
<1>4. CASE K \in {"unary", "uconst", "load", "loadSize", "farLoad", "farLoadSize", "twice"}
  <2>1. f[t.a] = g[t.a]
    BY <1>1, <1>2, <1>4 DEF IsTree
  <2> QED
    BY <1>4, <2>1 DEF NeedOf
<1>5. CASE K \in {"binary", "reversed", "first", "over"}
  <2>1. f[t.a] = g[t.a] /\ f[t.b] = g[t.b]
    BY <1>1, <1>2, <1>5 DEF IsTree
  <2> QED
    BY <1>5, <2>1 DEF NeedOf
<1>6. CASE K \in {"rot", "if"}
  <2>1. f[t.a] = g[t.a] /\ f[t.b] = g[t.b] /\ f[t.c] = g[t.c]
    BY <1>1, <1>2, <1>6 DEF IsTree
  <2> QED
    BY <1>6, <2>1 DEF NeedOf
<1> QED
  BY <1>1, <1>3, <1>4, <1>5, <1>6 DEF IsTree

Positive == Nat \ {0}

LEMMA NeedOfIsPositive ==
    ASSUME NEW f \in [Trees -> Positive], NEW t \in Trees
    PROVE  NeedOf(f, t) \in Positive
<1> DEFINE K == t.kind
<1>1. IsTree(t)
  BY TreesAssumption
<1>2. \A u : Operand(u, t) => f[u] \in Positive
  BY DEF Operand
<1>3. \A m, n \in Positive : Larger(m, n) \in Positive /\ m + n \in Positive
  BY DEF Larger, Positive
<1>4. 1 \in Positive /\ 2 \in Positive /\ 3 \in Positive
  BY DEF Positive
<1>5. CASE K \in {"leaf", "malformed"}
  BY <1>4, <1>5 DEF NeedOf
<1>6. CASE K \in {"unary", "uconst", "load", "loadSize", "farLoad", "farLoadSize", "twice"}
  <2>1. f[t.a] \in Positive
    BY <1>1, <1>2, <1>6 DEF IsTree
  <2> QED
    BY <1>3, <1>4, <1>6, <2>1 DEF NeedOf
<1>7. CASE K \in {"binary", "reversed", "first", "over"}
  <2>1. f[t.a] \in Positive /\ f[t.b] \in Positive
    BY <1>1, <1>2, <1>7 DEF IsTree
  <2> QED
    BY <1>3, <1>4, <1>7, <2>1 DEF NeedOf
<1>8. CASE K \in {"rot", "if"}
  <2>1. f[t.a] \in Positive /\ f[t.b] \in Positive /\ f[t.c] \in Positive
    BY <1>1, <1>2, <1>8 DEF IsTree
  <2> QED
    BY <1>3, <1>4, <1>8, <2>1 DEF NeedOf
<1> QED
  BY <1>1, <1>5, <1>6, <1>7, <1>8 DEF IsTree

LEMMA NeedEquation ==
    /\ Need \in [Trees -> Positive]
    /\ \A t \in Trees : Need[t] = NeedOf(Need, t)
<1> DEFINE R == Positive
           step == [t \in Trees |-> [f \in [Trees -> R] |-> NeedOf(f, t)]]
<1>1. \A t \in Trees, f \in [Trees -> R] : NeedOf(f, t) \in R
  BY NeedOfIsPositive
<1>2. step \in [Trees -> [[Trees -> R] -> R]]
  BY <1>1
<1>3. \A t \in Trees, f \in [Trees -> R] : step[t][f] = NeedOf(f, t)
  OBVIOUS
<1>4. R # {}
  <2>1. 1 \in R
    BY DEF Positive
  <2> QED
    BY <2>1
<1>5. Height \in [Trees -> Nat]
  BY TreesAssumption
<1> HIDE DEF R, step
<1>6. LooksBelow(Trees, Height, R, step)
  <2>1. ASSUME NEW t \in Trees, NEW f \in [Trees -> R], NEW g \in [Trees -> R],
               \A u \in Trees : Height[u] < Height[t] => f[u] = g[u]
        PROVE  step[t][f] = step[t][g]
    BY <1>3, <2>1, NeedOfIsLocal
  <2> QED
    BY <1>2, <1>4, <1>5, <2>1 DEF LooksBelow
<1>7. \E f \in [Trees -> R] : \A t \in Trees : f[t] = step[t][f]
  BY <1>6, RecursionOnHeight DEF Solvable
<1>8. PICK f \in [Trees -> R] : \A t \in Trees : f[t] = NeedOf(f, t)
  BY <1>3, <1>7
<1>9. f = [t \in Trees |-> NeedOf(f, t)]
  BY <1>8
<1>10. Need = [t \in Trees |-> NeedOf(Need, t)]
  BY <1>9, Zenon DEF Need
<1>11. \A t \in Trees : Need[t] = NeedOf(Need, t)
  BY <1>10
<1>12. \A t \in Trees : (\A u \in Trees : Height[u] < Height[t] => Need[u] = f[u]) => Need[t] = f[t]
  BY <1>8, <1>11, NeedOfIsLocal
<1>13. \A t \in Trees : Need[t] = f[t]
  BY <1>5, <1>12, EqualByHeight
<1>14. Need = [t \in Trees |-> f[t]]
  BY <1>8, <1>10, <1>11, <1>13
<1>15. Need \in [Trees -> R]
  BY <1>14
<1> QED
  BY <1>11, <1>15 DEF R

----------------------------------------------------------------------------
(* The values of trees.                                                    *)

Outcomes == (SUBSET (Word \cup {Err})) \ {{}}

LEMMA ApplyHasOutcome ==
    \A op \in BinaryOps, v, w \in Word : Apply(op, v, w) \in Outcomes
<1> SUFFICES ASSUME NEW op \in BinaryOps, NEW v \in Word, NEW w \in Word
             PROVE  Apply(op, v, w) \in Outcomes
  OBVIOUS
<1>1. CASE op \notin SignedOps
  BY <1>1, BinaryIsApplied DEF Outcomes, Agree
<1>2. CASE op = "div" /\ w = 0
  BY <1>2, BinaryIsApplied DEF Outcomes, DividesByZero
<1>3. CASE op = "div" /\ w # 0
  <2>1. Apply(op, v, w) = {Wrap(Ratio(Number(v), Number(w)))}
    BY <1>3 DEF Apply, Wrap
  <2>2. Ratio(Number(v), Number(w)) \in Int
    BY <1>3, NumberOfWord, RatioIsInt
  <2> QED
    BY <2>1, <2>2, WrapIsWord DEF Outcomes
<1>4. CASE op \in SignedOps /\ op # "div"
  BY <1>4, ComparisonsAreApplied DEF Outcomes, SignedOps
<1> QED
  BY <1>1, <1>2, <1>3, <1>4

LEMMA MinusHasValue == \A v, w \in Word : Apply("minus", v, w) \in SUBSET Word /\ Apply("minus", v, w) # {}
<1>1. "minus" \in BinaryOps /\ ~ \E w \in Word : DividesByZero("minus", w)
  BY DEF BinaryOps, DividesByZero
<1>2. \A v, w \in Word : Agree("minus", v, w)
  BY DEF Agree, SignedOps
<1> QED
  BY <1>1, <1>2, BinaryIsApplied

LEMMA Lifted1 ==
    ASSUME NEW A \in Outcomes, NEW g \in [Word -> Outcomes]
    PROVE  /\ Lift1(A, g) \in Outcomes
           /\ Err \in A => Err \in Lift1(A, g)
           /\ \A v \in A \cap Word : g[v] \subseteq Lift1(A, g)
<1>1. A # {} /\ A \subseteq Word \cup {Err} /\ Err \notin Word
  BY TreesAssumption DEF Outcomes
<1>2. \A v \in Word : g[v] # {} /\ g[v] \subseteq Word \cup {Err}
  BY DEF Outcomes
<1>3. \A x : x \in Lift1(A, g) <=> \E v \in A : x \in IF v = Err THEN {Err} ELSE g[v]
  BY DEF Lift1
<1>4. Lift1(A, g) \subseteq Word \cup {Err}
  BY <1>1, <1>2, <1>3
<1>5. Err \in A => Err \in Lift1(A, g)
  BY <1>3
<1>6. ASSUME NEW v \in A \cap Word
      PROVE  g[v] \subseteq Lift1(A, g)
  BY <1>1, <1>3
<1>7. Lift1(A, g) # {}
  <2>1. CASE Err \in A
    BY <2>1, <1>5
  <2>2. CASE Err \notin A
    <3>1. PICK v \in A : v \in Word
      BY <2>2, <1>1
    <3> QED
      BY <3>1, <1>2, <1>6
  <2> QED
    BY <2>1, <2>2
<1> QED
  BY <1>4, <1>5, <1>6, <1>7 DEF Outcomes

LEMMA Lifted2 ==
    ASSUME NEW A \in Outcomes, NEW B \in Outcomes, NEW g \in [Word -> [Word -> Outcomes]]
    PROVE  /\ Lift2(A, B, g) \in Outcomes
           /\ Err \in A \cup B => Err \in Lift2(A, B, g)
           /\ \A v \in A \cap Word, w \in B \cap Word : g[v][w] \subseteq Lift2(A, B, g)
<1> DEFINE G == [v \in Word |-> Lift1(B, g[v])]
<1>1. \A v \in Word : g[v] \in [Word -> Outcomes]
  OBVIOUS
<1>2. \A v \in Word : /\ Lift1(B, g[v]) \in Outcomes
                      /\ Err \in B => Err \in Lift1(B, g[v])
                      /\ \A w \in B \cap Word : g[v][w] \subseteq Lift1(B, g[v])
  BY <1>1, Lifted1
<1>3. G \in [Word -> Outcomes] /\ \A v \in Word : G[v] = Lift1(B, g[v])
  BY <1>2
<1>4. Lift2(A, B, g) = Lift1(A, G)
  BY DEF Lift2
<1> HIDE DEF G
<1>5. /\ Lift1(A, G) \in Outcomes
      /\ Err \in A => Err \in Lift1(A, G)
      /\ \A v \in A \cap Word : G[v] \subseteq Lift1(A, G)
  BY <1>3, Lifted1
<1>6. ASSUME Err \in B
      PROVE  Err \in Lift1(A, G)
  <2>1. CASE Err \in A
    BY <2>1, <1>5
  <2>2. CASE Err \notin A
    <3>1. PICK v \in A : v \in Word
      BY <2>2 DEF Outcomes
    <3> QED
      BY <3>1, <1>2, <1>3, <1>5, <1>6
  <2> QED
    BY <2>1, <2>2
<1>7. ASSUME NEW v \in A \cap Word, NEW w \in B \cap Word
      PROVE  g[v][w] \subseteq Lift1(A, G)
  BY <1>2, <1>3, <1>5
<1> QED
  BY <1>4, <1>5, <1>6, <1>7

\* What the values of a tree are made of, by its kind.
LEMMA LeafValues ==
    ASSUME NEW f, NEW t \in Trees, t.kind = "leaf"
    PROVE  /\ t.leaf.op = "const" => ValuesOf(f, t) = {Wrap(t.leaf.arg)}
           /\ t.leaf.op \in {"breg", "bregx"} =>
                 ValuesOf(f, t) = {IF RegValue[t.leaf.arg.reg] \in Word
                                   THEN Wrap(RegValue[t.leaf.arg.reg] + t.leaf.arg.off) ELSE Err}
           /\ t.leaf.op = "unsupported" => ValuesOf(f, t) = {Err}
BY DEF ValuesOf, Wrap

LEMMA UnaryValues ==
    ASSUME NEW f \in [Trees -> Outcomes], NEW t \in Trees, t.kind = "unary"
    PROVE  /\ ValuesOf(f, t) \in Outcomes
           /\ Err \in f[t.a] => Err \in ValuesOf(f, t)
           /\ \A v \in f[t.a] \cap Word : Unary(t.op, v) \in ValuesOf(f, t)
<1> DEFINE A == f[t.a]
           U(v) == CASE t.op = "abs" -> IF Signed(v) < 0 THEN 2 ^ Width - v ELSE v
                     [] t.op = "neg" -> (2 ^ Width - v) % 2 ^ Width
                     [] t.op = "not" -> (2 ^ Width - 1) - v
           g == [v \in Word |-> {U(v)}]
<1>1. t.op \in UnaryOps /\ t.a \in Trees
  BY TreesAssumption DEF IsTree, Operand
<1>2. A \in Outcomes
  BY <1>1
<1>3. ValuesOf(f, t) = Lift1(A, g)
  BY DEF ValuesOf
<1>4. \A v \in Word : U(v) = Unary(t.op, v) /\ Unary(t.op, v) \in Word
  BY <1>1, UnaryIsWord DEF UnaryOps
<1> HIDE DEF A, U
<1>5. g \in [Word -> Outcomes] /\ \A v \in Word : g[v] = {Unary(t.op, v)}
  BY <1>4 DEF Outcomes
<1> HIDE DEF g
<1> QED
  BY <1>2, <1>3, <1>5, Lifted1 DEF A

LEMMA UconstValues ==
    ASSUME NEW f \in [Trees -> Outcomes], NEW t \in Trees, t.kind = "uconst"
    PROVE  /\ ValuesOf(f, t) \in Outcomes
           /\ Err \in f[t.a] => Err \in ValuesOf(f, t)
           /\ \A v \in f[t.a] \cap Word : Wrap(t.n + v) \in ValuesOf(f, t)
<1> DEFINE A == f[t.a]
           g == [v \in Word |-> {(v + t.n) % 2 ^ Width}]
<1>1. t.n \in Int /\ t.a \in Trees
  BY TreesAssumption DEF IsTree, Operand
<1>2. A \in Outcomes
  BY <1>1
<1>3. ValuesOf(f, t) = Lift1(A, g)
  BY DEF ValuesOf
<1>4. \A v \in Word : (v + t.n) % 2 ^ Width = Wrap(t.n + v) /\ Wrap(t.n + v) \in Word
  <2> SUFFICES ASSUME NEW v \in Word
               PROVE  (v + t.n) % 2 ^ Width = Wrap(t.n + v) /\ Wrap(t.n + v) \in Word
    OBVIOUS
  <2>1. v + t.n = t.n + v /\ v + t.n \in Int
    BY <1>1, Words
  <2> QED
    BY <2>1, WrapIsWord DEF Wrap
<1>5. g \in [Word -> Outcomes] /\ \A v \in Word : g[v] = {Wrap(t.n + v)}
  BY <1>4 DEF Outcomes
<1> HIDE DEF g, A
<1> QED
  BY <1>2, <1>3, <1>5, Lifted1 DEF A

\* A read of memory.
Read(a, n) == IF a \in DOMAIN Memory /\ n \in Sizes THEN Memory[a] % 2 ^ (ByteWidth * n) ELSE Err

LEMMA LoadValues ==
    ASSUME NEW f \in [Trees -> Outcomes], NEW t \in Trees, NEW n,
           \/ t.kind \in {"load", "farLoad"} /\ n = WordSize
           \/ t.kind \in {"loadSize", "farLoadSize"} /\ n = t.n
    PROVE  /\ ValuesOf(f, t) \in Outcomes
           /\ Err \in f[t.a] => Err \in ValuesOf(f, t)
           /\ \A v \in f[t.a] \cap Word : Read(v, n) \in ValuesOf(f, t)
<1> DEFINE A == f[t.a]
           g == [v \in Word |-> {Read(v, n)}]
<1>1. t.a \in Trees
  BY TreesAssumption DEF IsTree, Operand
<1>2. A \in Outcomes
  BY <1>1
<1>3. ValuesOf(f, t) = Lift1(A, g)
  <2>1. ValuesOf(f, t) = LoadValue(A, n)
    BY DEF ValuesOf
  <2> QED
    BY <2>1 DEF LoadValue, Read
<1>4. \A v \in Word : Read(v, n) \in Word \cup {Err}
  BY MemoryIsWord DEF Read, Sizes
<1>5. g \in [Word -> Outcomes] /\ \A v \in Word : g[v] = {Read(v, n)}
  BY <1>4 DEF Outcomes
<1> HIDE DEF g, A
<1> QED
  BY <1>2, <1>3, <1>5, Lifted1 DEF A

LEMMA BinaryValues ==
    ASSUME NEW f \in [Trees -> Outcomes], NEW t \in Trees, t.kind \in {"binary", "reversed"}
    PROVE  /\ ValuesOf(f, t) \in Outcomes
           /\ Err \in f[t.a] \cup f[t.b] => Err \in ValuesOf(f, t)
           /\ \A v \in f[t.a] \cap Word, w \in f[t.b] \cap Word :
                 Apply(t.op, v, w) \subseteq ValuesOf(f, t)
<1> DEFINE g == [v \in Word |-> [w \in Word |-> Apply(t.op, v, w)]]
<1>1. t.op \in BinaryOps /\ f[t.a] \in Outcomes /\ f[t.b] \in Outcomes
  BY TreesAssumption DEF IsTree, Operand
<1>2. ValuesOf(f, t) = Lift2(f[t.a], f[t.b], g)
  BY DEF ValuesOf
<1>3. g \in [Word -> [Word -> Outcomes]] /\ \A v, w \in Word : g[v][w] = Apply(t.op, v, w)
  BY <1>1, ApplyHasOutcome
<1> HIDE DEF g
<1>4. /\ Lift2(f[t.a], f[t.b], g) \in Outcomes
      /\ Err \in f[t.a] \cup f[t.b] => Err \in Lift2(f[t.a], f[t.b], g)
      /\ \A v \in f[t.a] \cap Word, w \in f[t.b] \cap Word : g[v][w] \subseteq Lift2(f[t.a], f[t.b], g)
  BY <1>1, <1>3, Lifted2
<1> QED
  BY <1>2, <1>3, <1>4

LEMMA TwiceValues ==
    ASSUME NEW f \in [Trees -> Outcomes], NEW t \in Trees, t.kind = "twice"
    PROVE  /\ ValuesOf(f, t) \in Outcomes
           /\ Err \in f[t.a] => Err \in ValuesOf(f, t)
           /\ \A v \in f[t.a] \cap Word : Apply(t.op, v, v) \subseteq ValuesOf(f, t)
<1> DEFINE g == [v \in Word |-> Apply(t.op, v, v)]
<1>1. t.op \in BinaryOps /\ f[t.a] \in Outcomes
  BY TreesAssumption DEF IsTree, Operand
<1>2. ValuesOf(f, t) = Lift1(f[t.a], g)
  BY DEF ValuesOf
<1>3. g \in [Word -> Outcomes] /\ \A v \in Word : g[v] = Apply(t.op, v, v)
  BY <1>1, ApplyHasOutcome
<1> HIDE DEF g
<1> QED
  BY <1>1, <1>2, <1>3, Lifted1

LEMMA FirstValues ==
    ASSUME NEW f \in [Trees -> Outcomes], NEW t \in Trees, t.kind = "first"
    PROVE  /\ ValuesOf(f, t) \in Outcomes
           /\ Err \in f[t.a] \cup f[t.b] => Err \in ValuesOf(f, t)
           /\ \A v \in f[t.a] \cap Word, w \in f[t.b] \cap Word : v \in ValuesOf(f, t)
<1> DEFINE g == [v \in Word |-> [w \in Word |-> {v}]]
<1>1. f[t.a] \in Outcomes /\ f[t.b] \in Outcomes
  BY TreesAssumption DEF IsTree, Operand
<1>2. ValuesOf(f, t) = Lift2(f[t.a], f[t.b], g)
  BY DEF ValuesOf
<1>3. g \in [Word -> [Word -> Outcomes]] /\ \A v, w \in Word : g[v][w] = {v}
  BY <1>1 DEF Outcomes
<1> HIDE DEF g
<1>4. /\ Lift2(f[t.a], f[t.b], g) \in Outcomes
      /\ Err \in f[t.a] \cup f[t.b] => Err \in Lift2(f[t.a], f[t.b], g)
      /\ \A v \in f[t.a] \cap Word, w \in f[t.b] \cap Word : g[v][w] \subseteq Lift2(f[t.a], f[t.b], g)
  BY <1>1, <1>3, Lifted2
<1> QED
  BY <1>2, <1>3, <1>4

LEMMA OverValues ==
    ASSUME NEW f \in [Trees -> Outcomes], NEW t \in Trees, t.kind = "over"
    PROVE  /\ ValuesOf(f, t) \in Outcomes
           /\ Err \in f[t.a] \cup f[t.b] => Err \in ValuesOf(f, t)
           /\ \A v \in f[t.a] \cap Word, w \in f[t.b] \cap Word : \A d \in Apply("minus", w, v) :
                 Apply(t.op, v, d) \subseteq ValuesOf(f, t)
<1> DEFINE g1(v) == [d \in Word |-> Apply(t.op, v, d)]
           g == [v \in Word |-> [w \in Word |-> Lift1(Apply("minus", w, v), g1(v))]]
<1>1. t.op \in BinaryOps /\ f[t.a] \in Outcomes /\ f[t.b] \in Outcomes
  BY TreesAssumption DEF IsTree, Operand
<1>2. ValuesOf(f, t) = Lift2(f[t.a], f[t.b], g)
  BY DEF ValuesOf
<1>3. \A v \in Word : g1(v) \in [Word -> Outcomes] /\ \A d \in Word : g1(v)[d] = Apply(t.op, v, d)
  BY <1>1, ApplyHasOutcome
<1> HIDE DEF g1
<1>4. \A v, w \in Word : Apply("minus", w, v) \in Outcomes /\ Apply("minus", w, v) \in SUBSET Word
  BY MinusHasValue DEF Outcomes
<1>5. \A v, w \in Word : /\ Lift1(Apply("minus", w, v), g1(v)) \in Outcomes
                         /\ \A d \in Apply("minus", w, v) :
                               Apply(t.op, v, d) \subseteq Lift1(Apply("minus", w, v), g1(v))
  BY <1>3, <1>4, Lifted1
<1>6. /\ g \in [Word -> [Word -> Outcomes]]
      /\ \A v, w \in Word : g[v][w] = Lift1(Apply("minus", w, v), g1(v))
  BY <1>5
<1> HIDE DEF g
<1>7. /\ Lift2(f[t.a], f[t.b], g) \in Outcomes
      /\ Err \in f[t.a] \cup f[t.b] => Err \in Lift2(f[t.a], f[t.b], g)
      /\ \A v \in f[t.a] \cap Word, w \in f[t.b] \cap Word : g[v][w] \subseteq Lift2(f[t.a], f[t.b], g)
  BY <1>1, <1>6, Lifted2
<1> QED
  BY <1>2, <1>5, <1>6, <1>7

LEMMA RotValues ==
    ASSUME NEW f \in [Trees -> Outcomes], NEW t \in Trees, t.kind = "rot"
    PROVE  /\ ValuesOf(f, t) \in Outcomes
           /\ Err \in f[t.a] \cup f[t.b] \cup f[t.c] => Err \in ValuesOf(f, t)
           /\ \A v \in f[t.a] \cap Word, w \in f[t.b] \cap Word, x \in f[t.c] \cap Word :
                 \A d \in Apply("minus", v, w) : Apply(t.op, x, d) \subseteq ValuesOf(f, t)
<1> DEFINE h == [d \in Word |-> [x \in Word |-> Apply(t.op, x, d)]]
           g == [v \in Word |-> [w \in Word |-> Lift2(Apply("minus", v, w), f[t.c], h)]]
<1>1. t.op \in BinaryOps /\ f[t.a] \in Outcomes /\ f[t.b] \in Outcomes /\ f[t.c] \in Outcomes
  BY TreesAssumption DEF IsTree, Operand
<1>2. ValuesOf(f, t) = Lift2(f[t.a], f[t.b], g)
  BY DEF ValuesOf
<1>3. h \in [Word -> [Word -> Outcomes]] /\ \A d, x \in Word : h[d][x] = Apply(t.op, x, d)
  BY <1>1, ApplyHasOutcome
<1> HIDE DEF h
<1>4. \A v, w \in Word : Apply("minus", v, w) \in Outcomes /\ Apply("minus", v, w) \in SUBSET Word
  BY MinusHasValue DEF Outcomes
<1>5. \A v, w \in Word :
         /\ Lift2(Apply("minus", v, w), f[t.c], h) \in Outcomes
         /\ Err \in f[t.c] => Err \in Lift2(Apply("minus", v, w), f[t.c], h)
         /\ \A d \in Apply("minus", v, w), x \in f[t.c] \cap Word :
               Apply(t.op, x, d) \subseteq Lift2(Apply("minus", v, w), f[t.c], h)
  <2> SUFFICES ASSUME NEW v \in Word, NEW w \in Word
               PROVE  /\ Lift2(Apply("minus", v, w), f[t.c], h) \in Outcomes
                      /\ Err \in f[t.c] => Err \in Lift2(Apply("minus", v, w), f[t.c], h)
                      /\ \A d \in Apply("minus", v, w), x \in f[t.c] \cap Word :
                            Apply(t.op, x, d) \subseteq Lift2(Apply("minus", v, w), f[t.c], h)
    OBVIOUS
  <2> DEFINE D == Apply("minus", v, w)
  <2>1. D \in Outcomes /\ D \in SUBSET Word
    BY <1>4
  <2> HIDE DEF D
  <2>2. /\ Lift2(D, f[t.c], h) \in Outcomes
        /\ Err \in D \cup f[t.c] => Err \in Lift2(D, f[t.c], h)
        /\ \A d \in D \cap Word, x \in f[t.c] \cap Word : h[d][x] \subseteq Lift2(D, f[t.c], h)
    BY <1>1, <1>3, <2>1, Lifted2
  <2> QED
    BY <1>3, <2>1, <2>2 DEF D
<1>6. /\ g \in [Word -> [Word -> Outcomes]]
      /\ \A v, w \in Word : g[v][w] = Lift2(Apply("minus", v, w), f[t.c], h)
  BY <1>5
<1> HIDE DEF g
<1>7. /\ Lift2(f[t.a], f[t.b], g) \in Outcomes
      /\ Err \in f[t.a] \cup f[t.b] => Err \in Lift2(f[t.a], f[t.b], g)
      /\ \A v \in f[t.a] \cap Word, w \in f[t.b] \cap Word : g[v][w] \subseteq Lift2(f[t.a], f[t.b], g)
  BY <1>1, <1>6, Lifted2
<1>8. ASSUME Err \in f[t.c]
      PROVE  Err \in Lift2(f[t.a], f[t.b], g)
  <2>1. CASE Err \in f[t.a] \cup f[t.b]
    BY <2>1, <1>7
  <2>2. CASE Err \notin f[t.a] \cup f[t.b]
    <3>1. PICK v \in f[t.a], w \in f[t.b] : v \in Word /\ w \in Word
      BY <2>2, <1>1 DEF Outcomes
    <3>2. Err \in g[v][w]
      BY <3>1, <1>5, <1>6, <1>8
    <3> QED
      BY <3>1, <3>2, <1>7
  <2> QED
    BY <2>1, <2>2
<1>9. ASSUME NEW v \in f[t.a] \cap Word, NEW w \in f[t.b] \cap Word, NEW x \in f[t.c] \cap Word,
             NEW d \in Apply("minus", v, w)
      PROVE  Apply(t.op, x, d) \subseteq Lift2(f[t.a], f[t.b], g)
  <2>1. Apply(t.op, x, d) \subseteq g[v][w]
    BY <1>5, <1>6
  <2> QED
    BY <2>1, <1>7
<1> QED
  BY <1>2, <1>7, <1>8, <1>9

LEMMA IfValues ==
    ASSUME NEW f \in [Trees -> Outcomes], NEW t \in Trees, t.kind = "if"
    PROVE  /\ ValuesOf(f, t) \in Outcomes
           /\ Err \in f[t.a] => Err \in ValuesOf(f, t)
           /\ \A v \in f[t.a] \cap Word : IF v # 0 THEN f[t.b] \subseteq ValuesOf(f, t)
                                          ELSE f[t.c] \subseteq ValuesOf(f, t)
<1> DEFINE g == [v \in Word |-> IF v # 0 THEN f[t.b] ELSE f[t.c]]
<1>1. f[t.a] \in Outcomes /\ f[t.b] \in Outcomes /\ f[t.c] \in Outcomes
  BY TreesAssumption DEF IsTree, Operand
<1>2. ValuesOf(f, t) = Lift1(f[t.a], g)
  BY DEF ValuesOf
<1>3. g \in [Word -> Outcomes] /\ \A v \in Word : g[v] = IF v # 0 THEN f[t.b] ELSE f[t.c]
  BY <1>1
<1> HIDE DEF g
<1>4. /\ Lift1(f[t.a], g) \in Outcomes
      /\ Err \in f[t.a] => Err \in Lift1(f[t.a], g)
      /\ \A v \in f[t.a] \cap Word : g[v] \subseteq Lift1(f[t.a], g)
  BY <1>1, <1>3, Lifted1
<1> QED
  BY <1>2, <1>3, <1>4

LEMMA ValuesOfIsOutcome ==
    ASSUME NEW f \in [Trees -> Outcomes], NEW t \in Trees
    PROVE  ValuesOf(f, t) \in Outcomes
<1> DEFINE K == t.kind
<1>1. IsTree(t)
  BY TreesAssumption
<1>2. \A v \in Word \cup {Err} : {v} \in Outcomes
  BY DEF Outcomes
<1>3. CASE K = "leaf"
  <2>1. IsLeaf(t.leaf)
    BY <1>1, <1>3 DEF IsTree
  <2>2. CASE t.leaf.op = "const"
    <3>1. t.leaf.arg \in Int
      BY <2>1, <2>2 DEF IsLeaf, Instructions, UnaryOps, BinaryOps
    <3> QED
      BY <1>2, <1>3, <2>2, <3>1, LeafValues, WrapIsWord
  <2>3. CASE t.leaf.op \in {"breg", "bregx"}
    <3>1. t.leaf.arg.off \in Int
      BY <2>1, <2>3 DEF IsLeaf, Instructions, UnaryOps, BinaryOps
    <3>2. RegValue[t.leaf.arg.reg] \in Word => Wrap(RegValue[t.leaf.arg.reg] + t.leaf.arg.off) \in Word
      BY <3>1, WrapIsWord, Words
    <3> QED
      BY <1>2, <1>3, <2>3, <3>2, LeafValues
  <2>4. CASE t.leaf.op = "unsupported"
    BY <1>2, <1>3, <2>4, LeafValues
  <2> QED
    BY <2>1, <2>2, <2>3, <2>4 DEF IsLeaf
<1>4. CASE K = "malformed"
  <2>1. ValuesOf(f, t) = {Err}
    BY <1>4 DEF ValuesOf
  <2> QED
    BY <1>2, <2>1
<1>5. CASE K \in {"unary", "uconst", "twice"}
  BY <1>5, UnaryValues, UconstValues, TwiceValues
<1>6. CASE K \in {"load", "farLoad"}
  BY <1>6, LoadValues
<1>7. CASE K \in {"loadSize", "farLoadSize"}
  BY <1>7, LoadValues
<1>8. CASE K \in {"binary", "reversed", "first", "over", "rot", "if"}
  BY <1>8, BinaryValues, FirstValues, OverValues, RotValues, IfValues
<1> QED
  BY <1>1, <1>3, <1>4, <1>5, <1>6, <1>7, <1>8 DEF IsTree

LEMMA ValuesOfIsLocal ==
    ASSUME NEW f, NEW g, NEW t \in Trees, \A u \in Trees : Height[u] < Height[t] => f[u] = g[u]
    PROVE  ValuesOf(f, t) = ValuesOf(g, t)
<1> DEFINE K == t.kind
<1>1. IsTree(t)
  BY TreesAssumption
<1>2. \A u : Operand(u, t) => f[u] = g[u]
  BY DEF Operand
<1>3. CASE K = "leaf"
  <2>1. IsLeaf(t.leaf)
    BY <1>1, <1>3 DEF IsTree
  <2> QED
    BY <1>3, <2>1, LeafValues DEF IsLeaf
<1>4. CASE K = "malformed"
  BY <1>4 DEF ValuesOf
<1>5. CASE K = "unary"
  <2>1. f[t.a] = g[t.a]
    BY <1>1, <1>2, <1>5 DEF IsTree
  <2> QED
    BY <1>5, <2>1 DEF ValuesOf
<1>6. CASE K \in {"uconst", "load", "loadSize", "farLoad", "farLoadSize", "twice"}
  <2>1. f[t.a] = g[t.a]
    BY <1>1, <1>2, <1>6 DEF IsTree
  <2> QED
    BY <1>6, <2>1 DEF ValuesOf
<1>7. CASE K \in {"binary", "reversed", "first", "over"}
  <2>1. f[t.a] = g[t.a] /\ f[t.b] = g[t.b]
    BY <1>1, <1>2, <1>7 DEF IsTree
  <2> QED
    BY <1>7, <2>1 DEF ValuesOf
<1>8. CASE K \in {"rot", "if"}
  <2>1. f[t.a] = g[t.a] /\ f[t.b] = g[t.b] /\ f[t.c] = g[t.c]
    BY <1>1, <1>2, <1>8 DEF IsTree
  <2> QED
    BY <1>8, <2>1 DEF ValuesOf
<1> QED
  BY <1>1, <1>3, <1>4, <1>5, <1>6, <1>7, <1>8 DEF IsTree

LEMMA ValuesEquation ==
    /\ Values \in [Trees -> Outcomes]
    /\ \A t \in Trees : Values[t] = ValuesOf(Values, t)
<1> DEFINE R == Outcomes
           step == [t \in Trees |-> [f \in [Trees -> R] |-> ValuesOf(f, t)]]
<1>1. \A t \in Trees, f \in [Trees -> R] : ValuesOf(f, t) \in R
  BY ValuesOfIsOutcome
<1>2. step \in [Trees -> [[Trees -> R] -> R]]
  BY <1>1
<1>3. \A t \in Trees, f \in [Trees -> R] : step[t][f] = ValuesOf(f, t)
  OBVIOUS
<1>4. R # {}
  <2>1. {Err} \in R
    BY DEF Outcomes
  <2> QED
    BY <2>1
<1>5. Height \in [Trees -> Nat]
  BY TreesAssumption
<1> HIDE DEF R, step
<1>6. LooksBelow(Trees, Height, R, step)
  <2>1. ASSUME NEW t \in Trees, NEW f \in [Trees -> R], NEW g \in [Trees -> R],
               \A u \in Trees : Height[u] < Height[t] => f[u] = g[u]
        PROVE  step[t][f] = step[t][g]
    BY <1>3, <2>1, ValuesOfIsLocal
  <2> QED
    BY <1>2, <1>4, <1>5, <2>1 DEF LooksBelow
<1>7. \E f \in [Trees -> R] : \A t \in Trees : f[t] = step[t][f]
  BY <1>6, RecursionOnHeight DEF Solvable
<1>8. PICK f \in [Trees -> R] : \A t \in Trees : f[t] = ValuesOf(f, t)
  BY <1>3, <1>7
<1>9. f = [t \in Trees |-> ValuesOf(f, t)]
  BY <1>8
<1>10. Values = [t \in Trees |-> ValuesOf(Values, t)]
  BY <1>9, Zenon DEF Values
<1>11. \A t \in Trees : Values[t] = ValuesOf(Values, t)
  BY <1>10
<1>12. \A t \in Trees : (\A u \in Trees : Height[u] < Height[t] => Values[u] = f[u]) => Values[t] = f[t]
  BY <1>8, <1>11, ValuesOfIsLocal
<1>13. \A t \in Trees : Values[t] = f[t]
  BY <1>5, <1>12, EqualByHeight
<1>14. Values = [t \in Trees |-> f[t]]
  BY <1>8, <1>10, <1>11, <1>13
<1>15. Values \in [Trees -> R]
  BY <1>14
<1> QED
  BY <1>11, <1>15 DEF R

----------------------------------------------------------------------------
(* Configurations <<k, s>>: the next instruction and the stack.            *)

Peek(s, n) == s[Len(s) - n]
Rest(s, n) == SubSeq(s, 1, Len(s) - n)
Loaded(a, n) == Memory[a] % 2 ^ (ByteWidth * n)

\* Instruction i turns the stack s into z, and the next instruction follows.
Does(i, s, z) ==
    \/ i.op = "const" /\ Len(s) < StackSize /\ z = Append(s, Wrap(i.arg))
    \/ i.op = "breg" /\ RegValue[i.arg.reg] \in Word /\ Len(s) < StackSize
       /\ z = Append(s, Wrap(RegValue[i.arg.reg] + i.arg.off))
    \/ i.op = "bregx" /\ RegValue[i.arg.reg] \in Word /\ Len(s) + 1 < StackSize
       /\ z = s \o <<Wrap(RegValue[i.arg.reg] + i.arg.off), Wrap(RegValue[i.arg.reg] + i.arg.off)>>
    \/ i.op = "dup" /\ Len(s) \in 1 .. StackSize - 1 /\ z = Append(s, Peek(s, 0))
    \/ i.op = "drop" /\ Len(s) > 0 /\ z = Rest(s, 1)
    \/ i.op = "pick" /\ Len(s) > i.arg
       /\ z = IF Len(s) = StackSize THEN s ELSE Append(s, Peek(s, i.arg))
    \/ i.op = "swap" /\ Len(s) >= 2 /\ z = Rest(s, 2) \o <<Peek(s, 0), Peek(s, 1)>>
    \/ i.op = "rot" /\ Len(s) >= 3 /\ z = Rest(s, 3) \o <<Peek(s, 0), Peek(s, 2), Peek(s, 1)>>
    \/ i.op = "deref" /\ Len(s) > 0 /\ Peek(s, 0) \in DOMAIN Memory
       /\ z = Append(Rest(s, 1), Loaded(Peek(s, 0), WordSize))
    \/ i.op = "xderef" /\ Len(s) >= 2 /\ Peek(s, 0) \in DOMAIN Memory
       /\ z = Append(Rest(s, 2), Loaded(Peek(s, 0), WordSize))
    \/ i.op = "deref_size" /\ i.arg \in Sizes /\ Len(s) > 0 /\ Peek(s, 0) \in DOMAIN Memory
       /\ z = Append(Rest(s, 1), Loaded(Peek(s, 0), i.arg))
    \/ i.op = "xderef_size" /\ i.arg \in Sizes /\ Len(s) >= 2 /\ Peek(s, 0) \in DOMAIN Memory
       /\ z = Append(Rest(s, 2), Loaded(Peek(s, 0), i.arg))
    \/ i.op \in UnaryOps /\ Len(s) > 0 /\ z = Append(Rest(s, 1), Unary(i.op, Peek(s, 0)))
    \/ i.op \in BinaryOps /\ Len(s) >= 2 /\ ~ DividesByZero(i.op, Peek(s, 0))
       /\ \E v \in Binary(i.op, Peek(s, 1), Peek(s, 0)) : z = Append(Rest(s, 2), v)
    \/ i.op = "plus_uconst" /\ Len(s) > 0 /\ z = Append(Rest(s, 1), Wrap(i.arg + Peek(s, 0)))
    \/ i.op = "bra" /\ Len(s) > 0 /\ Peek(s, 0) = 0 /\ z = Rest(s, 1)
    \/ i.op = "nop" /\ z = s

\* Instruction i turns the stack s into z, and jumps.
Goes(i, s, z) ==
    \/ i.op = "skip" /\ z = s
    \/ i.op = "bra" /\ Len(s) > 0 /\ Peek(s, 0) # 0 /\ z = Rest(s, 1)

\* Instruction i fails on the stack s.
Stops(i, s) ==
    \/ i.op = "const" /\ Len(s) = StackSize
    \/ i.op = "breg" /\ (RegValue[i.arg.reg] \notin Word \/ Len(s) = StackSize)
    \/ i.op = "bregx" /\ (RegValue[i.arg.reg] \notin Word \/ Len(s) + 1 >= StackSize)
    \/ i.op = "dup" /\ Len(s) \in {0, StackSize}
    \/ i.op = "drop" /\ Len(s) = 0
    \/ i.op = "pick" /\ Len(s) <= i.arg
    \/ i.op = "swap" /\ Len(s) < 2
    \/ i.op = "rot" /\ Len(s) < 3
    \/ i.op = "deref" /\ (Len(s) = 0 \/ Peek(s, 0) \notin DOMAIN Memory)
    \/ i.op = "xderef" /\ (Len(s) < 2 \/ Peek(s, 0) \notin DOMAIN Memory)
    \/ i.op = "deref_size" /\ (i.arg \notin Sizes \/ Len(s) = 0 \/ Peek(s, 0) \notin DOMAIN Memory)
    \/ i.op = "xderef_size" /\ (i.arg \notin Sizes \/ Len(s) < 2 \/ Peek(s, 0) \notin DOMAIN Memory)
    \/ i.op \in UnaryOps /\ Len(s) = 0
    \/ i.op \in BinaryOps /\ (Len(s) < 2 \/ DividesByZero(i.op, Peek(s, 0)))
    \/ i.op = "plus_uconst" /\ Len(s) = 0
    \/ i.op = "bra" /\ Len(s) = 0
    \/ i.op = "unsupported"

\* From <<k, s>> the program p goes on inside Y, and fails only if f.
Fine(p, f, Y, k, s) ==
    /\ k \in 0 .. Len(p) - 1 /\ s \in Seq(Word)
    /\ \A z : Does(p[k + 1], s, z) => <<k + 1, z>> \in Y
    /\ \A z : Goes(p[k + 1], s, z) => /\ k + 1 + p[k + 1].arg \in 0 .. Len(p)
                                      /\ <<k + 1 + p[k + 1].arg, z>> \in Y
    /\ Stops(p[k + 1], s) => f

Closed(p, f, K, Y) == \A y \in Y : y \in K \/ Fine(p, f, Y, y[1], y[2])

\* The configurations from which p, if it ends, ends in K, or fails and f.
Safe(p, f, K) == UNION {Y \in SUBSET (Nat \X Seq(Word)) : Closed(p, f, K, Y)}

LEMMA FineGrows ==
    ASSUME NEW p, NEW f, NEW X, NEW Y, X \subseteq Y, NEW k, NEW s, Fine(p, f, X, k, s)
    PROVE  Fine(p, f, Y, k, s)
BY DEF Fine

LEMMA SafeIsClosed ==
    ASSUME NEW p, NEW f, NEW K
    PROVE  /\ Safe(p, f, K) \subseteq Nat \X Seq(Word)
           /\ Closed(p, f, K, Safe(p, f, K))
<1>1. Safe(p, f, K) \subseteq Nat \X Seq(Word)
  BY DEF Safe
<1>2. ASSUME NEW y \in Safe(p, f, K), y \notin K
      PROVE  Fine(p, f, Safe(p, f, K), y[1], y[2])
  <2>1. PICK X \in SUBSET (Nat \X Seq(Word)) : Closed(p, f, K, X) /\ y \in X
    BY DEF Safe
  <2>2. Fine(p, f, X, y[1], y[2])
    BY <1>2, <2>1 DEF Closed
  <2>3. X \subseteq Safe(p, f, K)
    BY <2>1 DEF Safe
  <2> QED
    BY <2>2, <2>3, FineGrows
<1> QED
  BY <1>1, <1>2 DEF Closed

LEMMA EndIsSafe ==
    ASSUME NEW p, NEW f, NEW K \in SUBSET (Nat \X Seq(Word))
    PROVE  K \subseteq Safe(p, f, K)
<1>1. Closed(p, f, K, K)
  BY DEF Closed
<1> QED
  BY <1>1 DEF Safe

LEMMA SafeBefore ==
    ASSUME NEW p \in Seq(Instructions), NEW f, NEW K, NEW k, NEW s, Fine(p, f, Safe(p, f, K), k, s)
    PROVE  <<k, s>> \in Safe(p, f, K)
<1> DEFINE S == Safe(p, f, K)
           Y == S \cup {<<k, s>>}
<1>1. S \subseteq Nat \X Seq(Word) /\ Closed(p, f, K, S)
  BY SafeIsClosed
<1>2. k \in Nat /\ s \in Seq(Word)
  BY LenProperties DEF Fine
<1>3. Fine(p, f, Y, k, s)
  BY FineGrows
<1>4. \A y \in S : y \in K \/ Fine(p, f, Y, y[1], y[2])
  BY <1>1, FineGrows DEF Closed
<1>5. Closed(p, f, K, Y)
  <2>1. ASSUME NEW y \in Y
        PROVE  y \in K \/ Fine(p, f, Y, y[1], y[2])
    <3>1. CASE y \in S
      BY <3>1, <1>4
    <3>2. CASE y = <<k, s>>
      BY <3>2, <1>3
    <3> QED
      BY <3>1, <3>2
  <2> QED
    BY <2>1 DEF Closed
<1>6. Y \in SUBSET (Nat \X Seq(Word))
  BY <1>1, <1>2
<1> HIDE DEF Y
<1>7. Y \subseteq Safe(p, f, K)
  BY <1>5, <1>6 DEF Safe
<1> QED
  BY <1>7 DEF Y

\* What a step does with a configuration.
Onward(f, Y) ==
    /\ UNCHANGED program
    /\ \/ status' = "running" /\ <<ip', stack'>> \in Y
       \/ status' \in Errors /\ f /\ UNCHANGED <<stack, result>>

LEMMA StepIsFine ==
    ASSUME TypeOK, NEW f \in BOOLEAN, NEW Y, Fine(program, f, Y, ip, stack), Next
    PROVE  Onward(f, Y)
<1> DEFINE i == program[ip + 1]
<1>1. /\ Len(program) \in Nat /\ ip \in 0 .. Len(program) - 1 /\ i \in Instructions
      /\ Len(stack) \in Nat /\ Len(stack) <= StackSize /\ StackSize \in Nat \ {0}
      /\ \A n \in 0 .. Len(stack) - 1 : Peek(stack, n) \in Word
  <2>1. /\ program \in Seq(Instructions) /\ Len(program) \in Nat
        /\ stack \in Seq(Word) /\ Len(stack) \in Nat /\ ip \in 0 .. Len(program) - 1
    BY LenProperties DEF TypeOK, Fine
  <2>2. ip + 1 \in 1 .. Len(program)
    BY <2>1
  <2>3. i \in Instructions
    BY <2>1, <2>2, ElementOfSeq
  <2>4. ASSUME NEW n \in 0 .. Len(stack) - 1
        PROVE  Peek(stack, n) \in Word
    <3>1. Len(stack) - n \in 1 .. Len(stack)
      BY <2>1
    <3> QED
      BY <2>1, <3>1, ElementOfSeq DEF Peek
  <2> QED
    BY <2>1, <2>3, <2>4, ExpressionAssumption DEF TypeOK
<1>2. \A e \in Errors : status = "running" /\ Stops(i, stack) /\ Fail(e) => Onward(f, Y)
  BY DEF Fine, Fail, Onward
<1>3. \A z : status = "running" /\ Does(i, stack, z) /\ Continue(z) => Onward(f, Y)
  BY DEF Fine, Continue, Onward
<1>4. \A z : status = "running" /\ Goes(i, stack, z) /\ Jump(z) => Onward(f, Y)
  BY DEF Fine, Jump, Onward, arg
<1>5. ASSUME NEW op, Instruction(op)
      PROVE  status = "running" /\ i.op = op
  BY <1>5 DEF Instruction
<1>6. /\ peek(0) = Peek(stack, 0) /\ peek(1) = Peek(stack, 1) /\ peek(2) = Peek(stack, 2)
      /\ Below(1) = Rest(stack, 1) /\ Below(2) = Rest(stack, 2) /\ Below(3) = Rest(stack, 3)
      /\ depth = Len(stack) /\ arg = i.arg
  BY DEF peek, Below, depth, Peek, Rest, arg
<1>7. {"EINVAL", "EINTERNAL", "ENOTSUP", "ENOTFOUND"} \subseteq Errors
  BY DEF Errors
<1> HIDE DEF i
<1>8. ASSUME NEW n \in Nat, NEW a, NEW z, status = "running", Load(z, a, n),
             a \in DOMAIN Memory => Does(i, stack, Append(z, Loaded(a, n))),
             a \notin DOMAIN Memory => Stops(i, stack)
      PROVE  Onward(f, Y)
  <2>1. CASE a \in DOMAIN Memory
    BY <2>1, <1>3, <1>8 DEF Load, Loaded
  <2>2. CASE a \notin DOMAIN Memory
    BY <2>2, <1>2, <1>7, <1>8 DEF Load
  <2> QED
    BY <2>1, <2>2
<1>10. ASSUME constant
      PROVE  Onward(f, Y)
  <2>1. status = "running" /\ i.op = "const"
    BY <1>10, <1>5 DEF constant
  <2> QED
    BY <1>10, <2>1, <1>1, <1>2, <1>3, <1>6, <1>7 DEF constant, Does, Stops, push
<1>11. ASSUME breg
      PROVE  Onward(f, Y)
  <2>1. status = "running" /\ i.op = "breg"
    BY <1>11, <1>5 DEF breg
  <2> QED
    BY <1>11, <2>1, <1>1, <1>2, <1>3, <1>6, <1>7, ExpressionAssumption DEF breg, Does, Stops, push,
       RegisterFails
<1>12. ASSUME bregx
      PROVE  Onward(f, Y)
  <2> DEFINE v == Wrap(RegValue[i.arg.reg] + i.arg.off)
             r == RegValue[i.arg.reg]
  <2>1. status = "running" /\ i.op = "bregx"
    BY <1>12, <1>5 DEF bregx
  <2>2. \/ r = Unsupported /\ Fail("ENOTSUP")
        \/ r = Missing /\ Fail("ENOTFOUND")
        \/ Len(stack) = StackSize /\ Fail("EINTERNAL")
        \/ Len(stack) + 1 = StackSize /\ Fail("EINVAL")
        \/ r \in Word /\ Len(stack) + 1 < StackSize /\ Continue(stack \o <<v, v>>)
    BY <1>12, <1>6 DEF bregx, RegisterFails
  <2>3. (r = Unsupported \/ r = Missing) => Stops(i, stack)
    BY <2>1, ExpressionAssumption DEF Stops
  <2>4. (Len(stack) = StackSize \/ Len(stack) + 1 = StackSize) => Stops(i, stack)
    BY <2>1, <1>1 DEF Stops
  <2>5. r \in Word /\ Len(stack) + 1 < StackSize => Does(i, stack, stack \o <<v, v>>)
    BY <2>1 DEF Does
  <2> HIDE DEF v, r
  <2> QED
    BY <2>1, <2>2, <2>3, <2>4, <2>5, <1>2, <1>3, <1>7
<1>13. ASSUME dup
      PROVE  Onward(f, Y)
  <2>1. status = "running" /\ i.op = "dup"
    BY <1>13, <1>5 DEF dup
  <2> QED
    BY <1>13, <2>1, <1>1, <1>2, <1>3, <1>6, <1>7 DEF dup, Does, Stops
<1>14. ASSUME drop
      PROVE  Onward(f, Y)
  <2>1. status = "running" /\ i.op = "drop"
    BY <1>14, <1>5 DEF drop
  <2> QED
    BY <1>14, <2>1, <1>1, <1>2, <1>3, <1>6, <1>7 DEF drop, Does, Stops
<1>15. ASSUME pick
      PROVE  Onward(f, Y)
  <2>1. status = "running" /\ i.op = "pick"
    BY <1>15, <1>5 DEF pick
  <2> QED
    BY <1>15, <2>1, <1>1, <1>2, <1>3, <1>6, <1>7 DEF pick, Does, Stops, peek, Peek
<1>16. ASSUME swap
      PROVE  Onward(f, Y)
  <2>1. status = "running" /\ i.op = "swap"
    BY <1>16, <1>5 DEF swap
  <2> QED
    BY <1>16, <2>1, <1>1, <1>2, <1>3, <1>6, <1>7 DEF swap, Does, Stops
<1>17. ASSUME rotate
      PROVE  Onward(f, Y)
  <2>1. status = "running" /\ i.op = "rot"
    BY <1>17, <1>5 DEF rotate
  <2> QED
    BY <1>17, <2>1, <1>1, <1>2, <1>3, <1>6, <1>7 DEF rotate, Does, Stops
<1>18. ASSUME deref
      PROVE  Onward(f, Y)
  <2>1. status = "running" /\ i.op = "deref"
    BY <1>18, <1>5 DEF deref
  <2>2. CASE depth > 0
    <3>1. Load(Below(1), peek(0), WordSize)
      BY <1>18, <2>2, <1>1, <1>6 DEF deref
    <3>2. WordSize \in Nat
      BY ExpressionAssumption DEF WordSize
    <3>3. peek(0) \in DOMAIN Memory => Does(i, stack, Append(Below(1), Loaded(peek(0), WordSize)))
      BY <2>1, <2>2, <1>6 DEF Does
    <3>4. peek(0) \notin DOMAIN Memory => Stops(i, stack)
      BY <2>1, <2>2, <1>6 DEF Stops
    <3> QED
      BY <1>8, <2>1, <3>1, <3>2, <3>3, <3>4
  <2>3. CASE ~ (depth > 0)
    <3>1. Stops(i, stack)
      BY <2>1, <2>3, <1>1, <1>6 DEF Stops
    <3>2. \E e \in Errors : Fail(e)
      BY <1>18, <2>3, <1>1, <1>6, <1>7 DEF deref
    <3> QED
      BY <2>1, <3>1, <3>2, <1>2
  <2> QED
    BY <2>2, <2>3
<1>19. ASSUME xderef
      PROVE  Onward(f, Y)
  <2>1. status = "running" /\ i.op = "xderef"
    BY <1>19, <1>5 DEF xderef
  <2>2. CASE depth >= 2
    <3>1. Load(Below(2), peek(0), WordSize)
      BY <1>19, <2>2, <1>1, <1>6 DEF xderef
    <3>2. WordSize \in Nat
      BY ExpressionAssumption DEF WordSize
    <3>3. peek(0) \in DOMAIN Memory => Does(i, stack, Append(Below(2), Loaded(peek(0), WordSize)))
      BY <2>1, <2>2, <1>6 DEF Does
    <3>4. peek(0) \notin DOMAIN Memory => Stops(i, stack)
      BY <2>1, <2>2, <1>6 DEF Stops
    <3> QED
      BY <1>8, <2>1, <3>1, <3>2, <3>3, <3>4
  <2>3. CASE ~ (depth >= 2)
    <3>1. Stops(i, stack)
      BY <2>1, <2>3, <1>1, <1>6 DEF Stops
    <3>2. \E e \in Errors : Fail(e)
      BY <1>19, <2>3, <1>1, <1>6, <1>7 DEF xderef
    <3> QED
      BY <2>1, <3>1, <3>2, <1>2
  <2> QED
    BY <2>2, <2>3
<1>20. ASSUME deref_size
      PROVE  Onward(f, Y)
  <2>1. status = "running" /\ i.op = "deref_size"
    BY <1>20, <1>5 DEF deref_size
  <2>2. CASE depth > 0 /\ arg \in Sizes
    <3>1. Load(Below(1), peek(0), arg)
      BY <1>20, <2>2, <1>1, <1>6 DEF deref_size
    <3>2. arg \in Nat
      BY <2>2 DEF Sizes
    <3>3. peek(0) \in DOMAIN Memory => Does(i, stack, Append(Below(1), Loaded(peek(0), arg)))
      BY <2>1, <2>2, <1>6 DEF Does
    <3>4. peek(0) \notin DOMAIN Memory => Stops(i, stack)
      BY <2>1, <2>2, <1>6 DEF Stops
    <3> QED
      BY <1>8, <2>1, <3>1, <3>2, <3>3, <3>4
  <2>3. CASE ~ (depth > 0 /\ arg \in Sizes)
    <3>1. Stops(i, stack)
      BY <2>1, <2>3, <1>1, <1>6 DEF Stops
    <3>2. \E e \in Errors : Fail(e)
      BY <1>20, <2>3, <1>1, <1>6, <1>7 DEF deref_size
    <3> QED
      BY <2>1, <3>1, <3>2, <1>2
  <2> QED
    BY <2>2, <2>3
<1>21. ASSUME xderef_size
      PROVE  Onward(f, Y)
  <2>1. status = "running" /\ i.op = "xderef_size"
    BY <1>21, <1>5 DEF xderef_size
  <2>2. CASE depth >= 2 /\ arg \in Sizes
    <3>1. Load(Below(2), peek(0), arg)
      BY <1>21, <2>2, <1>1, <1>6 DEF xderef_size
    <3>2. arg \in Nat
      BY <2>2 DEF Sizes
    <3>3. peek(0) \in DOMAIN Memory => Does(i, stack, Append(Below(2), Loaded(peek(0), arg)))
      BY <2>1, <2>2, <1>6 DEF Does
    <3>4. peek(0) \notin DOMAIN Memory => Stops(i, stack)
      BY <2>1, <2>2, <1>6 DEF Stops
    <3> QED
      BY <1>8, <2>1, <3>1, <3>2, <3>3, <3>4
  <2>3. CASE ~ (depth >= 2 /\ arg \in Sizes)
    <3>1. Stops(i, stack)
      BY <2>1, <2>3, <1>1, <1>6 DEF Stops
    <3>2. \E e \in Errors : Fail(e)
      BY <1>21, <2>3, <1>1, <1>6, <1>7 DEF xderef_size
    <3> QED
      BY <2>1, <3>1, <3>2, <1>2
  <2> QED
    BY <2>2, <2>3
<1>22. ASSUME NEW op \in UnaryOps, unary(op)
      PROVE  Onward(f, Y)
  <2>1. status = "running" /\ i.op = op
    BY <1>22, <1>5 DEF unary
  <2>2. CASE Len(stack) < 1
    <3>1. Stops(i, stack)
      BY <2>1, <2>2, <1>1 DEF Stops
    <3> QED
      BY <1>22, <2>1, <2>2, <3>1, <1>1, <1>2, <1>6, <1>7 DEF unary
  <2>3. CASE Len(stack) >= 1
    <3>1. Continue(Append(Rest(stack, 1), Unary(op, Peek(stack, 0))))
      BY <1>22, <2>3, <1>1, <1>6 DEF unary
    <3>2. Does(i, stack, Append(Rest(stack, 1), Unary(op, Peek(stack, 0))))
      BY <2>1, <2>3, <1>1 DEF Does
    <3> QED
      BY <2>1, <3>1, <3>2, <1>3
  <2> QED
    BY <2>2, <2>3, <1>1
<1>23. ASSUME NEW op \in BinaryOps, binary(op)
      PROVE  Onward(f, Y)
  <2>1. status = "running" /\ i.op = op
    BY <1>23, <1>5 DEF binary
  <2>2. CASE Len(stack) < 2
    <3>1. Stops(i, stack)
      BY <2>1, <2>2, <1>1 DEF Stops
    <3> QED
      BY <1>23, <2>1, <2>2, <3>1, <1>1, <1>2, <1>6, <1>7 DEF binary
  <2>3. CASE Len(stack) >= 2 /\ DividesByZero(op, Peek(stack, 0))
    <3>1. Stops(i, stack)
      BY <2>1, <2>3, <1>1 DEF Stops
    <3> QED
      BY <1>23, <2>1, <2>3, <3>1, <1>1, <1>2, <1>6, <1>7 DEF binary, DividesByZero
  <2>4. CASE Len(stack) >= 2 /\ ~ DividesByZero(op, Peek(stack, 0))
    <3>1. PICK v \in Binary(op, Peek(stack, 1), Peek(stack, 0)) : Continue(Append(Rest(stack, 2), v))
      BY <1>23, <2>4, <1>1, <1>6 DEF binary, DividesByZero
    <3>2. Does(i, stack, Append(Rest(stack, 2), v))
      BY <2>1, <2>4, <3>1, <1>1 DEF Does
    <3> QED
      BY <2>1, <3>1, <3>2, <1>3
  <2> QED
    BY <2>2, <2>3, <2>4, <1>1
<1>24. ASSUME plus_uconst
      PROVE  Onward(f, Y)
  <2>1. status = "running" /\ i.op = "plus_uconst"
    BY <1>24, <1>5 DEF plus_uconst
  <2> QED
    BY <1>24, <2>1, <1>1, <1>2, <1>3, <1>6, <1>7 DEF plus_uconst, Does, Stops
<1>25. ASSUME skip
      PROVE  Onward(f, Y)
  <2>1. status = "running" /\ i.op = "skip" /\ Jump(stack)
    BY <1>25, <1>5 DEF skip
  <2>2. Goes(i, stack, stack)
    BY <2>1 DEF Goes
  <2> QED
    BY <2>1, <2>2, <1>4
<1>26. ASSUME bra
      PROVE  Onward(f, Y)
  <2>1. status = "running" /\ i.op = "bra"
    BY <1>26, <1>5 DEF bra
  <2>2. CASE Len(stack) = 0
    BY <1>26, <2>1, <2>2, <1>1, <1>2, <1>6, <1>7 DEF bra, Stops
  <2>3. CASE Len(stack) > 0 /\ Peek(stack, 0) # 0
    <3>1. Jump(Rest(stack, 1))
      BY <1>26, <2>3, <1>1, <1>6 DEF bra
    <3>2. Goes(i, stack, Rest(stack, 1))
      BY <2>1, <2>3 DEF Goes
    <3> QED
      BY <2>1, <3>1, <3>2, <1>4
  <2>4. CASE Len(stack) > 0 /\ Peek(stack, 0) = 0
    <3>1. Continue(Rest(stack, 1))
      BY <1>26, <2>4, <1>1, <1>6 DEF bra
    <3>2. Does(i, stack, Rest(stack, 1))
      BY <2>1, <2>4 DEF Does
    <3> QED
      BY <2>1, <3>1, <3>2, <1>3
  <2> QED
    BY <2>2, <2>3, <2>4, <1>1
<1>27. ASSUME nop
      PROVE  Onward(f, Y)
  <2>1. status = "running" /\ i.op = "nop"
    BY <1>27, <1>5 DEF nop
  <2> QED
    BY <1>27, <2>1, <1>1, <1>2, <1>3, <1>6, <1>7 DEF nop, Does, Stops
<1>28. ASSUME unsupported
      PROVE  Onward(f, Y)
  <2>1. status = "running" /\ i.op = "unsupported"
    BY <1>28, <1>5 DEF unsupported
  <2> QED
    BY <1>28, <2>1, <1>1, <1>2, <1>3, <1>6, <1>7 DEF unsupported, Does, Stops
<1>29. ~ finish
  BY <1>1 DEF finish
<1> QED
  BY <1>10, <1>11, <1>12, <1>13, <1>14, <1>15, <1>16, <1>17, <1>18, <1>19, <1>20, <1>21, <1>22, <1>23,
     <1>24, <1>25, <1>26, <1>27, <1>28, <1>29 DEF Next

----------------------------------------------------------------------------
(* The code c at b in the program p, and what one instruction of it does.  *)

At(p, b, c) ==
    /\ b \in Nat /\ b + Len(c) <= Len(p)
    /\ \A j \in 1 .. Len(c) : p[b + j] = c[j]

LEMMA AtJoined ==
    ASSUME NEW p \in Seq(Instructions), NEW b, NEW c \in Seq(Instructions), NEW d \in Seq(Instructions),
           At(p, b, c \o d)
    PROVE  /\ At(p, b, c)
           /\ At(p, b + Len(c), d)
<1>1. /\ Len(p) \in Nat /\ Len(c) \in Nat /\ Len(d) \in Nat /\ b \in Nat
  BY LenProperties DEF At
<1>2. /\ Len(c \o d) = Len(c) + Len(d)
      /\ \A j \in 1 .. Len(c) : (c \o d)[j] = c[j]
      /\ \A j \in 1 .. Len(d) : (c \o d)[Len(c) + j] = d[j]
  <2>1. /\ Len(c \o d) = Len(c) + Len(d)
        /\ \A j \in 1 .. Len(c) + Len(d) :
              (c \o d)[j] = IF j <= Len(c) THEN c[j] ELSE d[j - Len(c)]
    BY ConcatProperties
  <2>2. ASSUME NEW j \in 1 .. Len(c)
        PROVE  (c \o d)[j] = c[j]
    BY <1>1, <2>1
  <2>3. ASSUME NEW j \in 1 .. Len(d)
        PROVE  (c \o d)[Len(c) + j] = d[j]
    <3>1. Len(c) + j \in 1 .. Len(c) + Len(d) /\ ~ Len(c) + j <= Len(c) /\ Len(c) + j - Len(c) = j
      BY <1>1
    <3> QED
      BY <2>1, <3>1
  <2> QED
    BY <2>1, <2>2, <2>3
<1>3. b + Len(c) + Len(d) <= Len(p) /\ \A j \in 1 .. Len(c) + Len(d) : p[b + j] = (c \o d)[j]
  BY <1>1, <1>2 DEF At
<1>4. At(p, b, c)
  <2>1. b + Len(c) <= Len(p)
    BY <1>1, <1>3
  <2>2. \A j \in 1 .. Len(c) : j \in 1 .. Len(c) + Len(d)
    BY <1>1
  <2> QED
    BY <1>1, <1>2, <1>3, <2>1, <2>2 DEF At
<1>5. At(p, b + Len(c), d)
  <2>1. b + Len(c) \in Nat
    BY <1>1
  <2>2. ASSUME NEW j \in 1 .. Len(d)
        PROVE  p[b + Len(c) + j] = d[j]
    <3>1. Len(c) + j \in 1 .. Len(c) + Len(d) /\ b + (Len(c) + j) = b + Len(c) + j
      BY <1>1
    <3> QED
      BY <1>2, <1>3, <3>1
  <2> QED
    BY <1>3, <2>1, <2>2 DEF At
<1> QED
  BY <1>4, <1>5

LEMMA LengthOfJoined ==
    \A c, d \in Seq(Instructions) : Len(c \o d) = Len(c) + Len(d)
BY ConcatProperties

LEMMA AtOne ==
    ASSUME NEW p \in Seq(Instructions), NEW k, NEW i, At(p, k, <<i>>)
    PROVE  k \in 0 .. Len(p) - 1 /\ p[k + 1] = i
<1>1. Len(<<i>>) = 1 /\ <<i>>[1] = i
  OBVIOUS
<1>2. Len(p) \in Nat
  BY LenProperties
<1>3. k \in Nat /\ k + 1 <= Len(p) /\ \A j \in 1 .. 1 : p[k + j] = <<i>>[j]
  BY <1>1 DEF At
<1> QED
  BY <1>1, <1>2, <1>3

\* What the configurations Y allow when they are followed backwards.
Backwards(p, f, Y) ==
    /\ p \in Seq(Instructions) /\ f \in BOOLEAN
    /\ \A k, s : Fine(p, f, Y, k, s) => <<k, s>> \in Y

LEMMA Before ==
    ASSUME NEW p, NEW f, NEW Y, Backwards(p, f, Y), NEW k, NEW i, At(p, k, <<i>>), NEW s \in Seq(Word),
           \A z : Does(i, s, z) => <<k + 1, z>> \in Y,
           i.op \notin {"skip", "bra"},
           Stops(i, s) => f
    PROVE  <<k, s>> \in Y
<1>1. p \in Seq(Instructions)
  BY DEF Backwards
<1>2. k \in 0 .. Len(p) - 1 /\ p[k + 1] = i
  BY <1>1, AtOne
<1>3. \A z : ~ Goes(i, s, z)
  BY DEF Goes
<1>4. Fine(p, f, Y, k, s)
  BY <1>2, <1>3 DEF Fine
<1> QED
  BY <1>4 DEF Backwards

LEMMA OneOnTop ==
    ASSUME NEW r \in Seq(Word), NEW v \in Word
    PROVE  LET s == Append(r, v)
           IN  s \in Seq(Word) /\ Len(s) = Len(r) + 1 /\ Len(r) \in Nat /\ Peek(s, 0) = v /\ Rest(s, 1) = r
<1> DEFINE s == Append(r, v)
<1>1. s \in Seq(Word) /\ Len(s) = Len(r) + 1 /\ Len(r) \in Nat
  BY StackEntries
<1>2. s[Len(r) + 1] = v /\ \A j \in 1 .. Len(r) : s[j] = r[j]
  BY AppendProperties
<1>3. Peek(s, 0) = v
  BY <1>1, <1>2 DEF Peek
<1>4. Rest(s, 1) = r
  <2>1. Len(s) - 1 = Len(r)
    BY <1>1
  <2>2. SubSeq(s, 1, Len(r)) = r
    <3>1. SubSeq(s, 1, Len(r)) \in Seq(Word) /\ Len(SubSeq(s, 1, Len(r))) = Len(r)
      <4>1. 1 \in 0 .. Len(s)
        BY <1>1
      <4> QED
        BY <1>1, <2>1, <4>1, StackEntries
    <3>2. \A j \in 1 .. Len(r) : SubSeq(s, 1, Len(r))[j] = s[j]
      <4>1. \A j \in 1 .. Len(r) : s[j] \in Word
        BY <1>2, ElementOfSeq
      <4> QED
        BY <1>1, <4>1, SubSeqProperties
    <3> QED
      BY <1>2, <3>1, <3>2, SeqEqual
  <2> QED
    BY <2>1, <2>2 DEF Rest
<1> QED
  BY <1>1, <1>3, <1>4

LEMMA TwoOnTop ==
    ASSUME NEW r \in Seq(Word), NEW v \in Word, NEW w \in Word
    PROVE  LET s == Append(Append(r, v), w)
           IN  /\ s \in Seq(Word) /\ Len(s) = Len(r) + 2 /\ Len(r) \in Nat
               /\ Peek(s, 0) = w /\ Peek(s, 1) = v /\ Rest(s, 2) = r
<1> DEFINE q == Append(r, v)
           s == Append(q, w)
<1>1. q \in Seq(Word) /\ Len(q) = Len(r) + 1 /\ Len(r) \in Nat /\ Peek(q, 0) = v /\ Rest(q, 1) = r
  BY OneOnTop
<1>2. s \in Seq(Word) /\ Len(s) = Len(q) + 1 /\ Peek(s, 0) = w /\ Rest(s, 1) = q
  BY <1>1, OneOnTop
<1>3. \A j \in 1 .. Len(q) : s[j] = q[j]
  BY <1>1, AppendProperties
<1>4. Peek(s, 1) = v
  <2>1. Len(s) - 1 = Len(q) /\ Len(q) \in 1 .. Len(q) /\ Len(q) - 0 = Len(q)
    BY <1>1, <1>2
  <2> QED
    BY <1>1, <1>3, <2>1 DEF Peek
<1>5. Rest(s, 2) = r
  <2>1. Len(s) - 2 = Len(r) /\ Len(q) - 1 = Len(r)
    BY <1>1, <1>2
  <2>2. r \in Seq(Word) /\ SubSeq(s, 1, Len(r)) \in Seq(Word) /\ Len(SubSeq(s, 1, Len(r))) = Len(r)
    <3>1. 2 \in 0 .. Len(s)
      BY <1>1, <1>2
    <3> QED
      BY <1>2, <2>1, <3>1, StackEntries
  <2>3. ASSUME NEW j \in 1 .. Len(r)
        PROVE  SubSeq(s, 1, Len(r))[j] = r[j]
    <3>1. \A m \in 1 .. Len(r) : s[m] \in Word
      BY <1>1, <1>2, ElementOfSeq
    <3>2. SubSeq(s, 1, Len(r))[j] = s[j]
      BY <1>1, <3>1, SubSeqProperties
    <3>3. s[j] = q[j]
      BY <1>1, <1>3
    <3>4. q[j] = r[j]
      BY AppendProperties
    <3> QED
      BY <3>2, <3>3, <3>4
  <2>4. SubSeq(s, 1, Len(r)) = r
    BY <2>2, <2>3, SeqEqual
  <2> QED
    BY <2>1, <2>4 DEF Rest
<1> HIDE DEF q
<1> QED
  BY <1>1, <1>2, <1>4, <1>5 DEF q

LEMMA ThreeOnTop ==
    ASSUME NEW r \in Seq(Word), NEW v \in Word, NEW w \in Word, NEW x \in Word
    PROVE  LET s == Append(Append(Append(r, v), w), x)
           IN  /\ s \in Seq(Word) /\ Len(s) = Len(r) + 3 /\ Len(r) \in Nat
               /\ Peek(s, 0) = x /\ Peek(s, 1) = w /\ Peek(s, 2) = v /\ Rest(s, 3) = r
<1> DEFINE q == Append(Append(r, v), w)
           s == Append(q, x)
<1>1. q \in Seq(Word) /\ Len(q) = Len(r) + 2 /\ Len(r) \in Nat
      /\ Peek(q, 0) = w /\ Peek(q, 1) = v /\ Rest(q, 2) = r
  BY TwoOnTop
<1> HIDE DEF q
<1>2. s \in Seq(Word) /\ Len(s) = Len(q) + 1 /\ Peek(s, 0) = x /\ Rest(s, 1) = q
  BY <1>1, OneOnTop
<1>3. \A j \in 1 .. Len(q) : s[j] = q[j]
  BY <1>1, AppendProperties
<1>4. Peek(s, 1) = w /\ Peek(s, 2) = v
  <2>1. Len(s) - 1 = Len(q) - 0 /\ Len(s) - 2 = Len(q) - 1 /\ Len(q) - 0 \in 1 .. Len(q)
        /\ Len(q) - 1 \in 1 .. Len(q)
    BY <1>1, <1>2
  <2> QED
    BY <1>1, <1>3, <2>1 DEF Peek
<1>5. Rest(s, 3) = r
  <2>1. Len(s) - 3 = Len(r) /\ Len(q) - 2 = Len(r)
    BY <1>1, <1>2
  <2>2. r \in Seq(Word) /\ SubSeq(s, 1, Len(r)) \in Seq(Word) /\ Len(SubSeq(s, 1, Len(r))) = Len(r)
    <3>1. 3 \in 0 .. Len(s)
      BY <1>1, <1>2
    <3> QED
      BY <1>2, <2>1, <3>1, StackEntries
  <2>3. ASSUME NEW j \in 1 .. Len(r)
        PROVE  SubSeq(s, 1, Len(r))[j] = r[j]
    <3>1. \A m \in 1 .. Len(r) : s[m] \in Word
      BY <1>1, <1>2, ElementOfSeq
    <3>2. SubSeq(s, 1, Len(r))[j] = s[j]
      BY <1>1, <3>1, SubSeqProperties
    <3>3. s[j] = q[j]
      BY <1>1, <1>3
    <3>4. q[j] = SubSeq(q, 1, Len(q) - 2)[j]
      <4>1. \A m \in 1 .. Len(r) : q[m] \in Word
        BY <1>1, ElementOfSeq
      <4> QED
        BY <1>1, <2>1, <4>1, SubSeqProperties
    <3> QED
      BY <1>1, <3>2, <3>3, <3>4 DEF Rest
  <2>4. SubSeq(s, 1, Len(r)) = r
    BY <2>2, <2>3, SeqEqual
  <2> QED
    BY <2>1, <2>4 DEF Rest
<1> QED
  BY <1>1, <1>2, <1>4, <1>5 DEF q

LEMMA AppendedPairs ==
    ASSUME NEW r \in Seq(Word), NEW v \in Word, NEW w \in Word, NEW x \in Word
    PROVE  /\ r \o <<v, w>> = Append(Append(r, v), w)
           /\ r \o <<v, w, x>> = Append(Append(Append(r, v), w), x)
<1> DEFINE p == Append(r, v)
           q == Append(p, w)
           s == Append(q, x)
<1>1. /\ Len(r) \in Nat /\ p \in Seq(Word) /\ Len(p) = Len(r) + 1 /\ p[Len(r) + 1] = v
      /\ \A j \in 1 .. Len(r) : p[j] = r[j]
  BY StackEntries, AppendProperties
<1> HIDE DEF p
<1>2. /\ q \in Seq(Word) /\ Len(q) = Len(r) + 2 /\ q[Len(r) + 2] = w
      /\ \A j \in 1 .. Len(r) + 1 : q[j] = p[j]
  <2>1. q \in Seq(Word) /\ Len(q) = Len(p) + 1 /\ q[Len(p) + 1] = w /\ \A j \in 1 .. Len(p) : q[j] = p[j]
    BY <1>1, AppendProperties
  <2> QED
    BY <1>1, <2>1
<1> HIDE DEF q
<1>3. /\ s \in Seq(Word) /\ Len(s) = Len(r) + 3 /\ s[Len(r) + 3] = x
      /\ \A j \in 1 .. Len(r) + 2 : s[j] = q[j]
  <2>1. s \in Seq(Word) /\ Len(s) = Len(q) + 1 /\ s[Len(q) + 1] = x /\ \A j \in 1 .. Len(q) : s[j] = q[j]
    BY <1>2, AppendProperties
  <2> QED
    BY <1>1, <1>2, <2>1
<1> HIDE DEF s
<1> DEFINE two == <<v, w>>
           three == <<v, w, x>>
<1>4. /\ two \in Seq(Word) /\ Len(two) = 2 /\ two[1] = v /\ two[2] = w
      /\ three \in Seq(Word) /\ Len(three) = 3 /\ three[1] = v /\ three[2] = w /\ three[3] = x
  OBVIOUS
<1> HIDE DEF two, three
<1>5. /\ r \o two \in Seq(Word) /\ Len(r \o two) = Len(r) + 2
      /\ \A j \in 1 .. Len(r) + 2 : (r \o two)[j] = IF j <= Len(r) THEN r[j] ELSE two[j - Len(r)]
  <2>1. /\ r \o two \in Seq(Word) /\ Len(r \o two) = Len(r) + Len(two)
        /\ \A j \in 1 .. Len(r) + Len(two) : (r \o two)[j] = IF j <= Len(r) THEN r[j] ELSE two[j - Len(r)]
    BY <1>4, ConcatProperties, Zenon
  <2> QED
    BY <1>4, <2>1
<1>6. /\ r \o three \in Seq(Word) /\ Len(r \o three) = Len(r) + 3
      /\ \A j \in 1 .. Len(r) + 3 : (r \o three)[j] = IF j <= Len(r) THEN r[j] ELSE three[j - Len(r)]
  <2>1. /\ r \o three \in Seq(Word) /\ Len(r \o three) = Len(r) + Len(three)
        /\ \A j \in 1 .. Len(r) + Len(three) : (r \o three)[j] = IF j <= Len(r) THEN r[j] ELSE three[j - Len(r)]
    BY <1>4, ConcatProperties, Zenon
  <2> QED
    BY <1>4, <2>1
<1>7. /\ \A j \in 1 .. Len(r) + 2 : j \in 1 .. Len(r) \/ j = Len(r) + 1 \/ j = Len(r) + 2
      /\ \A j \in 1 .. Len(r) + 3 : j \in 1 .. Len(r) \/ j = Len(r) + 1 \/ j = Len(r) + 2 \/ j = Len(r) + 3
  BY <1>1
<1>8. r \o two = q
  <2>1. ASSUME NEW j \in 1 .. Len(r) + 2
        PROVE  (r \o two)[j] = q[j]
    <3>1. CASE j \in 1 .. Len(r)
      BY <3>1, <1>1, <1>2, <1>5
    <3>2. CASE j = Len(r) + 1
      BY <3>2, <1>1, <1>2, <1>4, <1>5
    <3>3. CASE j = Len(r) + 2
      BY <3>3, <1>1, <1>2, <1>4, <1>5
    <3> QED
      BY <3>1, <3>2, <3>3, <1>7
  <2> QED
    BY <2>1, <1>2, <1>5, SeqEqual
<1>9. r \o three = s
  <2>1. ASSUME NEW j \in 1 .. Len(r) + 3
        PROVE  (r \o three)[j] = s[j]
    <3>1. CASE j \in 1 .. Len(r)
      BY <3>1, <1>1, <1>2, <1>3, <1>6
    <3>2. CASE j = Len(r) + 1
      BY <3>2, <1>1, <1>2, <1>3, <1>4, <1>6
    <3>3. CASE j = Len(r) + 2
      BY <3>3, <1>1, <1>2, <1>3, <1>4, <1>6
    <3>4. CASE j = Len(r) + 3
      BY <3>4, <1>1, <1>3, <1>4, <1>6
    <3> QED
      BY <3>1, <3>2, <3>3, <3>4, <1>7
  <2> QED
    BY <2>1, <1>3, <1>6, SeqEqual
<1> QED
  BY <1>8, <1>9 DEF p, q, s, two, three

----------------------------------------------------------------------------
(* Each instruction backwards.                                             *)

LEMMA WordSizeIsSize == WordSize \in Sizes
BY ExpressionAssumption DEF Sizes, WordSize

LEMMA SizesAreNat == \A n \in Sizes : n \in Nat
BY DEF Sizes

LEMMA ReadFails ==
    ASSUME NEW a, NEW n, a \notin DOMAIN Memory \/ n \notin Sizes
    PROVE  Read(a, n) = Err
BY DEF Read

LEMMA ReadIsLoaded ==
    ASSUME NEW a \in DOMAIN Memory, NEW n \in Sizes
    PROVE  Read(a, n) = Loaded(a, n) /\ Read(a, n) \in Word /\ Read(a, n) # Err
<1>1. Read(a, n) = Memory[a] % 2 ^ (ByteWidth * n)
  BY DEF Read
<1>2. Read(a, n) \in Word
  BY <1>1, SizesAreNat, MemoryIsWord
<1> QED
  BY <1>1, <1>2, TreesAssumption DEF Loaded


LEMMA BeforeConst ==
    ASSUME NEW p, NEW f, NEW Y, Backwards(p, f, Y), NEW k, NEW r \in Seq(Word),
           NEW n \in Int,
           At(p, k, op1("const", n)),
           Len(r) >= StackSize => f,
           <<k + 1, Append(r, Wrap(n))>> \in Y
    PROVE  <<k, r>> \in Y
<1> DEFINE i == [op |-> "const", arg |-> n]
           s == r
<1>1. At(p, k, <<i>>)
  BY DEF op0, op1
<1>2. s \in Seq(Word) /\ Len(s) \in Nat
  BY LenProperties
<1>3. ASSUME NEW z, Does(i, s, z)
      PROVE  <<k + 1, z>> \in Y
  BY <1>2, <1>3, ExpressionAssumption DEF Does, UnaryOps, BinaryOps
<1>4. Stops(i, s) => f
  BY <1>2, ExpressionAssumption DEF Stops, UnaryOps, BinaryOps
<1>5. i.op \notin {"skip", "bra"}
  BY DEF UnaryOps, BinaryOps
<1>6. <<k, s>> \in Y
  <2> HIDE DEF i, s
  <2> QED
    BY <1>1, <1>2, <1>3, <1>4, <1>5, Before
<1> QED
  BY <1>6 DEF s

LEMMA BeforeBreg ==
    ASSUME NEW p, NEW f, NEW Y, Backwards(p, f, Y), NEW k, NEW r \in Seq(Word),
           NEW a,
           At(p, k, op1("breg", a)),
           Len(r) >= StackSize => f,
           RegValue[a.reg] \notin Word => f,
           RegValue[a.reg] \in Word => <<k + 1, Append(r, Wrap(RegValue[a.reg] + a.off))>> \in Y
    PROVE  <<k, r>> \in Y
<1> DEFINE i == [op |-> "breg", arg |-> a]
           s == r
<1>1. At(p, k, <<i>>)
  BY DEF op0, op1
<1>2. s \in Seq(Word) /\ Len(s) \in Nat
  BY LenProperties
<1>3. ASSUME NEW z, Does(i, s, z)
      PROVE  <<k + 1, z>> \in Y
  BY <1>2, <1>3, ExpressionAssumption DEF Does, UnaryOps, BinaryOps
<1>4. Stops(i, s) => f
  BY <1>2, ExpressionAssumption DEF Stops, UnaryOps, BinaryOps
<1>5. i.op \notin {"skip", "bra"}
  BY DEF UnaryOps, BinaryOps
<1>6. <<k, s>> \in Y
  <2> HIDE DEF i, s
  <2> QED
    BY <1>1, <1>2, <1>3, <1>4, <1>5, Before
<1> QED
  BY <1>6 DEF s

LEMMA BeforeUnsupported ==
    ASSUME NEW p, NEW f, NEW Y, Backwards(p, f, Y), NEW k, NEW r \in Seq(Word),
           At(p, k, op0("unsupported")),
           f
    PROVE  <<k, r>> \in Y
<1> DEFINE i == [op |-> "unsupported"]
           s == r
<1>1. At(p, k, <<i>>)
  BY DEF op0, op1
<1>2. s \in Seq(Word) /\ Len(s) \in Nat
  BY LenProperties
<1>3. ASSUME NEW z, Does(i, s, z)
      PROVE  <<k + 1, z>> \in Y
  BY <1>2, <1>3, ExpressionAssumption DEF Does, UnaryOps, BinaryOps
<1>4. Stops(i, s) => f
  BY <1>2, ExpressionAssumption DEF Stops, UnaryOps, BinaryOps
<1>5. i.op \notin {"skip", "bra"}
  BY DEF UnaryOps, BinaryOps
<1>6. <<k, s>> \in Y
  <2> HIDE DEF i, s
  <2> QED
    BY <1>1, <1>2, <1>3, <1>4, <1>5, Before
<1> QED
  BY <1>6 DEF s

LEMMA BeforeUnary ==
    ASSUME NEW p, NEW f, NEW Y, Backwards(p, f, Y), NEW k, NEW r \in Seq(Word),
           NEW v \in Word, NEW op \in UnaryOps,
           At(p, k, op0(op)),
           <<k + 1, Append(r, Unary(op, v))>> \in Y
    PROVE  <<k, Append(r, v)>> \in Y
<1> DEFINE i == [op |-> op]
           s == Append(r, v)
<1>1. At(p, k, <<i>>)
  BY DEF op0, op1
<1>2. s \in Seq(Word) /\ Len(s) = Len(r) + 1 /\ Len(r) \in Nat /\ Peek(s, 0) = v /\ Rest(s, 1) = r
  BY OneOnTop
<1> HIDE DEF s
<1>3. ASSUME NEW z, Does(i, s, z)
      PROVE  <<k + 1, z>> \in Y
  BY <1>2, <1>3, ExpressionAssumption DEF Does, UnaryOps, BinaryOps
<1>4. Stops(i, s) => f
  BY <1>2, ExpressionAssumption DEF Stops, UnaryOps, BinaryOps
<1>5. i.op \notin {"skip", "bra"}
  BY DEF UnaryOps, BinaryOps
<1>6. <<k, s>> \in Y
  <2> HIDE DEF i, s
  <2> QED
    BY <1>1, <1>2, <1>3, <1>4, <1>5, Before
<1> QED
  BY <1>6 DEF s

LEMMA BeforeUconst ==
    ASSUME NEW p, NEW f, NEW Y, Backwards(p, f, Y), NEW k, NEW r \in Seq(Word),
           NEW v \in Word, NEW n \in Int,
           At(p, k, op1("plus_uconst", n)),
           <<k + 1, Append(r, Wrap(n + v))>> \in Y
    PROVE  <<k, Append(r, v)>> \in Y
<1> DEFINE i == [op |-> "plus_uconst", arg |-> n]
           s == Append(r, v)
<1>1. At(p, k, <<i>>)
  BY DEF op0, op1
<1>2. s \in Seq(Word) /\ Len(s) = Len(r) + 1 /\ Len(r) \in Nat /\ Peek(s, 0) = v /\ Rest(s, 1) = r
  BY OneOnTop
<1> HIDE DEF s
<1>3. ASSUME NEW z, Does(i, s, z)
      PROVE  <<k + 1, z>> \in Y
  BY <1>2, <1>3, ExpressionAssumption DEF Does, UnaryOps, BinaryOps
<1>4. Stops(i, s) => f
  BY <1>2, ExpressionAssumption DEF Stops, UnaryOps, BinaryOps
<1>5. i.op \notin {"skip", "bra"}
  BY DEF UnaryOps, BinaryOps
<1>6. <<k, s>> \in Y
  <2> HIDE DEF i, s
  <2> QED
    BY <1>1, <1>2, <1>3, <1>4, <1>5, Before
<1> QED
  BY <1>6 DEF s

LEMMA BeforeDeref ==
    ASSUME NEW p, NEW f, NEW Y, Backwards(p, f, Y), NEW k, NEW r \in Seq(Word),
           NEW v \in Word,
           At(p, k, op0("deref")),
           Read(v, WordSize) = Err => f,
           Read(v, WordSize) # Err => <<k + 1, Append(r, Read(v, WordSize))>> \in Y
    PROVE  <<k, Append(r, v)>> \in Y
<1> DEFINE i == [op |-> "deref"]
           s == Append(r, v)
<1>1. At(p, k, <<i>>)
  BY DEF op0, op1
<1>2. s \in Seq(Word) /\ Len(s) = Len(r) + 1 /\ Len(r) \in Nat /\ Peek(s, 0) = v /\ Rest(s, 1) = r
  BY OneOnTop
<1> HIDE DEF s
<1>3. ASSUME NEW z, Does(i, s, z)
      PROVE  <<k + 1, z>> \in Y
  BY <1>2, <1>3, SizesAreNat, WordSizeIsSize, ReadIsLoaded DEF Does, UnaryOps, BinaryOps
<1>4. Stops(i, s) => f
  BY <1>2, ReadFails DEF Stops, UnaryOps, BinaryOps
<1>5. i.op \notin {"skip", "bra"}
  BY DEF UnaryOps, BinaryOps
<1>6. <<k, s>> \in Y
  <2> HIDE DEF i, s
  <2> QED
    BY <1>1, <1>2, <1>3, <1>4, <1>5, Before
<1> QED
  BY <1>6 DEF s

LEMMA BeforeDerefSize ==
    ASSUME NEW p, NEW f, NEW Y, Backwards(p, f, Y), NEW k, NEW r \in Seq(Word),
           NEW v \in Word, NEW n \in Nat,
           At(p, k, op1("deref_size", n)),
           Read(v, n) = Err => f,
           Read(v, n) # Err => <<k + 1, Append(r, Read(v, n))>> \in Y
    PROVE  <<k, Append(r, v)>> \in Y
<1> DEFINE i == [op |-> "deref_size", arg |-> n]
           s == Append(r, v)
<1>1. At(p, k, <<i>>)
  BY DEF op0, op1
<1>2. s \in Seq(Word) /\ Len(s) = Len(r) + 1 /\ Len(r) \in Nat /\ Peek(s, 0) = v /\ Rest(s, 1) = r
  BY OneOnTop
<1> HIDE DEF s
<1>3. ASSUME NEW z, Does(i, s, z)
      PROVE  <<k + 1, z>> \in Y
  BY <1>2, <1>3, ReadIsLoaded DEF Does, UnaryOps, BinaryOps
<1>4. Stops(i, s) => f
  BY <1>2, ReadFails DEF Stops, UnaryOps, BinaryOps
<1>5. i.op \notin {"skip", "bra"}
  BY DEF UnaryOps, BinaryOps
<1>6. <<k, s>> \in Y
  <2> HIDE DEF i, s
  <2> QED
    BY <1>1, <1>2, <1>3, <1>4, <1>5, Before
<1> QED
  BY <1>6 DEF s

LEMMA BeforeXderef ==
    ASSUME NEW p, NEW f, NEW Y, Backwards(p, f, Y), NEW k, NEW r \in Seq(Word),
           NEW v \in Word, NEW w \in Word,
           At(p, k, op0("xderef")),
           Read(w, WordSize) = Err => f,
           Read(w, WordSize) # Err => <<k + 1, Append(r, Read(w, WordSize))>> \in Y
    PROVE  <<k, Append(Append(r, v), w)>> \in Y
<1> DEFINE i == [op |-> "xderef"]
           s == Append(Append(r, v), w)
<1>1. At(p, k, <<i>>)
  BY DEF op0, op1
<1>2. /\ s \in Seq(Word) /\ Len(s) = Len(r) + 2 /\ Len(r) \in Nat
      /\ Peek(s, 0) = w /\ Peek(s, 1) = v /\ Rest(s, 2) = r
  BY TwoOnTop
<1> HIDE DEF s
<1>3. ASSUME NEW z, Does(i, s, z)
      PROVE  <<k + 1, z>> \in Y
  BY <1>2, <1>3, SizesAreNat, WordSizeIsSize, ReadIsLoaded DEF Does, UnaryOps, BinaryOps
<1>4. Stops(i, s) => f
  BY <1>2, ReadFails DEF Stops, UnaryOps, BinaryOps
<1>5. i.op \notin {"skip", "bra"}
  BY DEF UnaryOps, BinaryOps
<1>6. <<k, s>> \in Y
  <2> HIDE DEF i, s
  <2> QED
    BY <1>1, <1>2, <1>3, <1>4, <1>5, Before
<1> QED
  BY <1>6 DEF s

LEMMA BeforeXderefSize ==
    ASSUME NEW p, NEW f, NEW Y, Backwards(p, f, Y), NEW k, NEW r \in Seq(Word),
           NEW v \in Word, NEW w \in Word, NEW n \in Nat,
           At(p, k, op1("xderef_size", n)),
           Read(w, n) = Err => f,
           Read(w, n) # Err => <<k + 1, Append(r, Read(w, n))>> \in Y
    PROVE  <<k, Append(Append(r, v), w)>> \in Y
<1> DEFINE i == [op |-> "xderef_size", arg |-> n]
           s == Append(Append(r, v), w)
<1>1. At(p, k, <<i>>)
  BY DEF op0, op1
<1>2. /\ s \in Seq(Word) /\ Len(s) = Len(r) + 2 /\ Len(r) \in Nat
      /\ Peek(s, 0) = w /\ Peek(s, 1) = v /\ Rest(s, 2) = r
  BY TwoOnTop
<1> HIDE DEF s
<1>3. ASSUME NEW z, Does(i, s, z)
      PROVE  <<k + 1, z>> \in Y
  BY <1>2, <1>3, ReadIsLoaded DEF Does, UnaryOps, BinaryOps
<1>4. Stops(i, s) => f
  BY <1>2, ReadFails DEF Stops, UnaryOps, BinaryOps
<1>5. i.op \notin {"skip", "bra"}
  BY DEF UnaryOps, BinaryOps
<1>6. <<k, s>> \in Y
  <2> HIDE DEF i, s
  <2> QED
    BY <1>1, <1>2, <1>3, <1>4, <1>5, Before
<1> QED
  BY <1>6 DEF s

LEMMA BeforeBinary ==
    ASSUME NEW p, NEW f, NEW Y, Backwards(p, f, Y), NEW k, NEW r \in Seq(Word),
           NEW v \in Word, NEW w \in Word, NEW op \in BinaryOps,
           At(p, k, op0(op)), ReadAlike(p),
           Err \in Apply(op, v, w) => f,
           \A y \in Apply(op, v, w) \cap Word : <<k + 1, Append(r, y)>> \in Y
    PROVE  <<k, Append(Append(r, v), w)>> \in Y
<1> DEFINE i == [op |-> op]
           s == Append(Append(r, v), w)
<1>1. At(p, k, <<i>>)
  BY DEF op0, op1
<1>2. /\ s \in Seq(Word) /\ Len(s) = Len(r) + 2 /\ Len(r) \in Nat
      /\ Peek(s, 0) = w /\ Peek(s, 1) = v /\ Rest(s, 2) = r
  BY TwoOnTop
<1> HIDE DEF s
<1>3. Agree(op, v, w)
  <2>1. k \in Nat /\ k + 1 \in 1 .. Len(p) /\ p[k + 1].op = op
    <3>1. k \in 0 .. Len(p) - 1 /\ p[k + 1] = i
      BY <1>1, AtOne DEF Backwards
    <3>2. Len(p) \in Nat
      BY LenProperties DEF Backwards
    <3> QED
      BY <3>1, <3>2
  <2>2. Uses(p, op)
    BY <2>1 DEF Uses
  <2>3. Reading \in {"signed", "unsigned"}
    BY TreesAssumption
  <2> QED
    BY <2>2, <2>3 DEF ReadAlike, Agree
<1>4. ASSUME NEW z, Does(i, s, z)
      PROVE  <<k + 1, z>> \in Y
  <2>1. i.op = op
    OBVIOUS
  <2> HIDE DEF i
  <2>2. ~ DividesByZero(op, w) /\ \E y \in Binary(op, v, w) : z = Append(r, y)
    BY <1>2, <1>4, <2>1 DEF Does, UnaryOps, BinaryOps
  <2>3. PICK y \in Binary(op, v, w) : z = Append(r, y)
    BY <2>2
  <2>4. y \in Apply(op, v, w) \cap Word
    BY <2>2, <1>3, BinaryIsApplied
  <2> QED
    BY <2>3, <2>4
<1>5. Stops(i, s) => f
  <2>1. i.op = op
    OBVIOUS
  <2> HIDE DEF i
  <2>2. Stops(i, s) => DividesByZero(op, w)
    BY <1>2, <2>1 DEF Stops, UnaryOps, BinaryOps
  <2>3. DividesByZero(op, w) => Err \in Apply(op, v, w)
    BY BinaryIsApplied
  <2> QED
    BY <2>2, <2>3
<1>6. i.op \notin {"skip", "bra"}
  BY DEF UnaryOps, BinaryOps
<1>7. <<k, s>> \in Y
  <2> HIDE DEF i, s
  <2> QED
    BY <1>1, <1>2, <1>4, <1>5, <1>6, Before
<1> QED
  BY <1>7 DEF s

LEMMA BeforeSwap ==
    ASSUME NEW p, NEW f, NEW Y, Backwards(p, f, Y), NEW k, NEW r \in Seq(Word),
           NEW v \in Word, NEW w \in Word,
           At(p, k, op0("swap")),
           <<k + 1, Append(Append(r, w), v)>> \in Y
    PROVE  <<k, Append(Append(r, v), w)>> \in Y
<1> DEFINE i == [op |-> "swap"]
           s == Append(Append(r, v), w)
<1>1. At(p, k, <<i>>)
  BY DEF op0, op1
<1>2. /\ s \in Seq(Word) /\ Len(s) = Len(r) + 2 /\ Len(r) \in Nat
      /\ Peek(s, 0) = w /\ Peek(s, 1) = v /\ Rest(s, 2) = r
  BY TwoOnTop
<1> HIDE DEF s
<1>3. ASSUME NEW z, Does(i, s, z)
      PROVE  <<k + 1, z>> \in Y
  BY <1>2, <1>3, AppendedPairs DEF Does, UnaryOps, BinaryOps
<1>4. Stops(i, s) => f
  BY <1>2, ExpressionAssumption DEF Stops, UnaryOps, BinaryOps
<1>5. i.op \notin {"skip", "bra"}
  BY DEF UnaryOps, BinaryOps
<1>6. <<k, s>> \in Y
  <2> HIDE DEF i, s
  <2> QED
    BY <1>1, <1>2, <1>3, <1>4, <1>5, Before
<1> QED
  BY <1>6 DEF s

LEMMA BeforeDup ==
    ASSUME NEW p, NEW f, NEW Y, Backwards(p, f, Y), NEW k, NEW r \in Seq(Word),
           NEW v \in Word,
           At(p, k, op0("dup")),
           Len(r) + 2 > StackSize => f,
           <<k + 1, Append(Append(r, v), v)>> \in Y
    PROVE  <<k, Append(r, v)>> \in Y
<1> DEFINE i == [op |-> "dup"]
           s == Append(r, v)
<1>1. At(p, k, <<i>>)
  BY DEF op0, op1
<1>2. s \in Seq(Word) /\ Len(s) = Len(r) + 1 /\ Len(r) \in Nat /\ Peek(s, 0) = v /\ Rest(s, 1) = r
  BY OneOnTop
<1> HIDE DEF s
<1>3. ASSUME NEW z, Does(i, s, z)
      PROVE  <<k + 1, z>> \in Y
  BY <1>2, <1>3, ExpressionAssumption DEF Does, UnaryOps, BinaryOps, s
<1>4. Stops(i, s) => f
  BY <1>2, ExpressionAssumption DEF Stops, UnaryOps, BinaryOps
<1>5. i.op \notin {"skip", "bra"}
  BY DEF UnaryOps, BinaryOps
<1>6. <<k, s>> \in Y
  <2> HIDE DEF i, s
  <2> QED
    BY <1>1, <1>2, <1>3, <1>4, <1>5, Before
<1> QED
  BY <1>6 DEF s

LEMMA BeforeDrop ==
    ASSUME NEW p, NEW f, NEW Y, Backwards(p, f, Y), NEW k, NEW r \in Seq(Word),
           NEW v \in Word,
           At(p, k, op0("drop")),
           <<k + 1, r>> \in Y
    PROVE  <<k, Append(r, v)>> \in Y
<1> DEFINE i == [op |-> "drop"]
           s == Append(r, v)
<1>1. At(p, k, <<i>>)
  BY DEF op0, op1
<1>2. s \in Seq(Word) /\ Len(s) = Len(r) + 1 /\ Len(r) \in Nat /\ Peek(s, 0) = v /\ Rest(s, 1) = r
  BY OneOnTop
<1> HIDE DEF s
<1>3. ASSUME NEW z, Does(i, s, z)
      PROVE  <<k + 1, z>> \in Y
  BY <1>2, <1>3, ExpressionAssumption DEF Does, UnaryOps, BinaryOps
<1>4. Stops(i, s) => f
  BY <1>2, ExpressionAssumption DEF Stops, UnaryOps, BinaryOps
<1>5. i.op \notin {"skip", "bra"}
  BY DEF UnaryOps, BinaryOps
<1>6. <<k, s>> \in Y
  <2> HIDE DEF i, s
  <2> QED
    BY <1>1, <1>2, <1>3, <1>4, <1>5, Before
<1> QED
  BY <1>6 DEF s

LEMMA BeforeNop ==
    ASSUME NEW p, NEW f, NEW Y, Backwards(p, f, Y), NEW k, NEW r \in Seq(Word),
           At(p, k, op0("nop")),
           <<k + 1, r>> \in Y
    PROVE  <<k, r>> \in Y
<1> DEFINE i == [op |-> "nop"]
           s == r
<1>1. At(p, k, <<i>>)
  BY DEF op0, op1
<1>2. s \in Seq(Word) /\ Len(s) \in Nat
  BY LenProperties
<1>3. ASSUME NEW z, Does(i, s, z)
      PROVE  <<k + 1, z>> \in Y
  BY <1>2, <1>3, ExpressionAssumption DEF Does, UnaryOps, BinaryOps
<1>4. Stops(i, s) => f
  BY <1>2, ExpressionAssumption DEF Stops, UnaryOps, BinaryOps
<1>5. i.op \notin {"skip", "bra"}
  BY DEF UnaryOps, BinaryOps
<1>6. <<k, s>> \in Y
  <2> HIDE DEF i, s
  <2> QED
    BY <1>1, <1>2, <1>3, <1>4, <1>5, Before
<1> QED
  BY <1>6 DEF s

LEMMA BeforeOver ==
    ASSUME NEW p, NEW f, NEW Y, Backwards(p, f, Y), NEW k, NEW r \in Seq(Word),
           NEW v \in Word, NEW w \in Word,
           At(p, k, op1("pick", 1)),
           Len(r) + 3 <= StackSize,
           <<k + 1, Append(Append(Append(r, v), w), v)>> \in Y
    PROVE  <<k, Append(Append(r, v), w)>> \in Y
<1> DEFINE i == [op |-> "pick", arg |-> 1]
           s == Append(Append(r, v), w)
<1>1. At(p, k, <<i>>)
  BY DEF op0, op1
<1>2. /\ s \in Seq(Word) /\ Len(s) = Len(r) + 2 /\ Len(r) \in Nat
      /\ Peek(s, 0) = w /\ Peek(s, 1) = v /\ Rest(s, 2) = r
  BY TwoOnTop
<1> HIDE DEF s
<1>3. ASSUME NEW z, Does(i, s, z)
      PROVE  <<k + 1, z>> \in Y
  <2>1. z = IF Len(s) = StackSize THEN s ELSE Append(s, Peek(s, 1))
    BY <1>2, <1>3 DEF Does, UnaryOps, BinaryOps
  <2>2. Len(s) # StackSize
    BY <1>2, ExpressionAssumption
  <2>3. z = Append(s, v)
    BY <1>2, <2>1, <2>2
  <2> QED
    BY <2>3 DEF s
<1>4. Stops(i, s) => f
  BY <1>2, ExpressionAssumption DEF Stops, UnaryOps, BinaryOps
<1>5. i.op \notin {"skip", "bra"}
  BY DEF UnaryOps, BinaryOps
<1>6. <<k, s>> \in Y
  <2> HIDE DEF i, s
  <2> QED
    BY <1>1, <1>2, <1>3, <1>4, <1>5, Before
<1> QED
  BY <1>6 DEF s

LEMMA BeforeRot ==
    ASSUME NEW p, NEW f, NEW Y, Backwards(p, f, Y), NEW k, NEW r \in Seq(Word),
           NEW v \in Word, NEW w \in Word, NEW x \in Word,
           At(p, k, op0("rot")),
           <<k + 1, Append(Append(Append(r, x), v), w)>> \in Y
    PROVE  <<k, Append(Append(Append(r, v), w), x)>> \in Y
<1> DEFINE i == [op |-> "rot"]
           s == Append(Append(Append(r, v), w), x)
<1>1. At(p, k, <<i>>)
  BY DEF op0, op1
<1>2. /\ s \in Seq(Word) /\ Len(s) = Len(r) + 3 /\ Len(r) \in Nat
      /\ Peek(s, 0) = x /\ Peek(s, 1) = w /\ Peek(s, 2) = v /\ Rest(s, 3) = r
  BY ThreeOnTop
<1> HIDE DEF s
<1>3. ASSUME NEW z, Does(i, s, z)
      PROVE  <<k + 1, z>> \in Y
  <2>1. z = r \o <<x, v, w>>
    BY <1>2, <1>3 DEF Does, UnaryOps, BinaryOps
  <2>2. r \o <<x, v, w>> = Append(Append(Append(r, x), v), w)
    BY AppendedPairs
  <2> QED
    BY <2>1, <2>2
<1>4. Stops(i, s) => f
  BY <1>2, ExpressionAssumption DEF Stops, UnaryOps, BinaryOps
<1>5. i.op \notin {"skip", "bra"}
  BY DEF UnaryOps, BinaryOps
<1>6. <<k, s>> \in Y
  <2> HIDE DEF i, s
  <2> QED
    BY <1>1, <1>2, <1>3, <1>4, <1>5, Before
<1> QED
  BY <1>6 DEF s

LEMMA BeforeSkip ==
    ASSUME NEW p, NEW f, NEW Y, Backwards(p, f, Y), NEW k, NEW r \in Seq(Word), NEW n \in Nat,
           At(p, k, op1("skip", n)), k + 1 + n <= Len(p),
           <<k + 1 + n, r>> \in Y
    PROVE  <<k, r>> \in Y
<1> DEFINE i == [op |-> "skip", arg |-> n]
<1>1. p \in Seq(Instructions) /\ Len(p) \in Nat
  BY LenProperties DEF Backwards
<1>2. k \in 0 .. Len(p) - 1 /\ p[k + 1] = i
  BY <1>1, AtOne DEF op1
<1>3. \A z : ~ Does(i, r, z)
  BY DEF Does, UnaryOps, BinaryOps
<1>4. ~ Stops(i, r)
  BY DEF Stops, UnaryOps, BinaryOps
<1>5. \A z : Goes(i, r, z) => z = r
  BY DEF Goes
<1>6. i.arg = n /\ k + 1 + n \in 0 .. Len(p)
  BY <1>1, <1>2
<1> HIDE DEF i
<1>7. Fine(p, f, Y, k, r)
  BY <1>2, <1>3, <1>4, <1>5, <1>6 DEF Fine
<1> QED
  BY <1>7 DEF Backwards

LEMMA BeforeBranch ==
    ASSUME NEW p, NEW f, NEW Y, Backwards(p, f, Y), NEW k, NEW r \in Seq(Word), NEW n \in Nat,
           NEW v \in Word,
           At(p, k, op1("bra", n)), k + 1 + n <= Len(p),
           v # 0 => <<k + 1 + n, r>> \in Y,
           v = 0 => <<k + 1, r>> \in Y
    PROVE  <<k, Append(r, v)>> \in Y
<1> DEFINE i == [op |-> "bra", arg |-> n]
           s == Append(r, v)
<1>1. p \in Seq(Instructions) /\ Len(p) \in Nat
  BY LenProperties DEF Backwards
<1>2. k \in 0 .. Len(p) - 1 /\ p[k + 1] = i
  BY <1>1, AtOne DEF op1
<1>3. s \in Seq(Word) /\ Len(s) = Len(r) + 1 /\ Len(r) \in Nat /\ Peek(s, 0) = v /\ Rest(s, 1) = r
  BY OneOnTop
<1> HIDE DEF s
<1>4. \A z : Does(i, s, z) => z = r /\ v = 0
  BY <1>3 DEF Does, UnaryOps, BinaryOps
<1>5. ~ Stops(i, s)
  BY <1>3 DEF Stops, UnaryOps, BinaryOps
<1>6. \A z : Goes(i, s, z) => z = r /\ v # 0
  BY <1>3 DEF Goes
<1>7. i.arg = n /\ k + 1 + n \in 0 .. Len(p)
  BY <1>1, <1>2
<1> HIDE DEF i
<1>8. Fine(p, f, Y, k, s)
  BY <1>2, <1>3, <1>4, <1>5, <1>6, <1>7 DEF Fine
<1> QED
  BY <1>8 DEF Backwards, s

----------------------------------------------------------------------------
(* The program of a tree, placed in a larger one.                          *)

Fit(p, f, n) == n > StackSize => f /\ ~ Uses(p, "pick")

\* What is asked before the program of t starts at b on the stack s, and what is ...
Pre(p, f, Y, t, b, s) ==
    /\ s \in Seq(Word)
    /\ At(p, b, Compile[t])
    /\ Err \in Values[t] => f
    /\ Fit(p, f, Len(s) + Need[t])
    /\ \A v \in Values[t] \cap Word : <<b + Len(Compile[t]), Append(s, v)>> \in Y

\* ... claimed.
Claim(p, f, Y, t) == \A b, s : Pre(p, f, Y, t, b, s) => <<b, s>> \in Y

Ready(p, f, Y, t) ==
    /\ Backwards(p, f, Y) /\ ~ Uses(p, "bregx") /\ ReadAlike(p)
    /\ t \in Trees
    /\ \A u : Operand(u, t) => Claim(p, f, Y, u)

LEMMA SmallerFits ==
    ASSUME NEW p, NEW f, NEW m \in Nat, NEW n \in Nat, n <= m, Fit(p, f, m)
    PROVE  Fit(p, f, n)
BY ExpressionAssumption DEF Fit

LEMMA OperandFacts ==
    ASSUME NEW p, NEW f, NEW Y, NEW t, Ready(p, f, Y, t), NEW u, Operand(u, t)
    PROVE  /\ u \in Trees /\ Claim(p, f, Y, u)
           /\ Compile[u] \in Seq(Instructions) /\ Len(Compile[u]) \in Nat
           /\ Values[u] \in Outcomes
           /\ Need[u] \in Nat /\ Need[u] >= 1
<1>1. u \in Trees /\ Claim(p, f, Y, u)
  BY DEF Ready, Operand
<1>2. Compile[u] \in Seq(Instructions) /\ Len(Compile[u]) \in Nat
  BY <1>1, CompileEquation, LenProperties
<1>3. Values[u] \in Outcomes
  BY <1>1, ValuesEquation
<1>4. Need[u] \in Positive
  BY <1>1, NeedEquation
<1> QED
  BY <1>1, <1>2, <1>3, <1>4 DEF Positive

LEMMA ContextFacts ==
    ASSUME NEW p, NEW f, NEW Y, NEW t, Ready(p, f, Y, t), NEW b, NEW s, Pre(p, f, Y, t, b, s)
    PROVE  /\ p \in Seq(Instructions) /\ f \in BOOLEAN /\ Backwards(p, f, Y)
           /\ b \in Nat /\ s \in Seq(Word) /\ Len(s) \in Nat
           /\ At(p, b, Compile[t])
           /\ t \in Trees /\ IsTree(t) /\ ReadAlike(p)
BY TreesAssumption, LenProperties DEF Ready, Pre, Backwards, At

LEMMA LargerOfTwo ==
    ASSUME NEW m, NEW n, m \in Nat, n \in Nat
    PROVE  Larger(m, n) \in Nat /\ Larger(m, n) >= m /\ Larger(m, n) >= n
BY DEF Larger

LEMMA WordsAreIntegers == \A v \in Word, n \in Int : n + v \in Int /\ Wrap(n + v) \in Word
BY WrapIsWord, Words

LEMMA LengthsAreIntegers == \A n \in Nat : n \in Int /\ n + 1 \in Int
OBVIOUS

LEMMA OneInstruction ==
    \A o, a : Len(op0(o)) = 1 /\ Len(op1(o, a)) = 1
BY DEF op0, op1

Join2(c, d) == c \o d
Split2(p, b, c, d) ==
    /\ At(p, b, c)
    /\ At(p, b + Len(c), d)
    /\ b + Len(Join2(c, d)) = b + Len(c) + Len(d)

Join3(c, d, e) == c \o d \o e
Split3(p, b, c, d, e) ==
    /\ At(p, b, c)
    /\ At(p, b + Len(c), d)
    /\ At(p, b + Len(c) + Len(d), e)
    /\ b + Len(Join3(c, d, e)) = b + Len(c) + Len(d) + Len(e)

Join4(c, d, e, g) == c \o d \o e \o g
Split4(p, b, c, d, e, g) ==
    /\ At(p, b, c)
    /\ At(p, b + Len(c), d)
    /\ At(p, b + Len(c) + Len(d), e)
    /\ At(p, b + Len(c) + Len(d) + Len(e), g)
    /\ b + Len(Join4(c, d, e, g)) = b + Len(c) + Len(d) + Len(e) + Len(g)

Join5(c, d, e, g, h) == c \o d \o e \o g \o h
Split5(p, b, c, d, e, g, h) ==
    /\ At(p, b, c)
    /\ At(p, b + Len(c), d)
    /\ At(p, b + Len(c) + Len(d), e)
    /\ At(p, b + Len(c) + Len(d) + Len(e), g)
    /\ At(p, b + Len(c) + Len(d) + Len(e) + Len(g), h)
    /\ b + Len(Join5(c, d, e, g, h)) = b + Len(c) + Len(d) + Len(e) + Len(g) + Len(h)

Join6(c, d, e, g, h, m) == c \o d \o e \o g \o h \o m
Split6(p, b, c, d, e, g, h, m) ==
    /\ At(p, b, c)
    /\ At(p, b + Len(c), d)
    /\ At(p, b + Len(c) + Len(d), e)
    /\ At(p, b + Len(c) + Len(d) + Len(e), g)
    /\ At(p, b + Len(c) + Len(d) + Len(e) + Len(g), h)
    /\ At(p, b + Len(c) + Len(d) + Len(e) + Len(g) + Len(h), m)
    /\ b + Len(Join6(c, d, e, g, h, m)) = b + Len(c) + Len(d) + Len(e) + Len(g) + Len(h) + Len(m)

LEMMA Parts2 ==
    ASSUME NEW p \in Seq(Instructions), NEW b, NEW c \in Seq(Instructions), NEW d \in Seq(Instructions),
           At(p, b, Join2(c, d))
    PROVE  Split2(p, b, c, d)
<1>1. At(p, b, c) /\ At(p, b + Len(c), d)
  BY AtJoined DEF Join2
<1>2. Len(c \o d) = Len(c) + Len(d) /\ Len(c) \in Nat /\ Len(d) \in Nat /\ b \in Nat
  BY LengthOfJoined, LenProperties DEF At
<1> QED
  BY <1>1, <1>2 DEF Split2, Join2

LEMMA Parts3 ==
    ASSUME NEW p \in Seq(Instructions), NEW b, NEW c \in Seq(Instructions), NEW d \in Seq(Instructions),
           NEW e \in Seq(Instructions),
           At(p, b, Join3(c, d, e))
    PROVE  Split3(p, b, c, d, e)
<1> DEFINE q == Join2(c, d)
<1>1. q \in Seq(Instructions)
  BY Joined DEF Join2
<1>2. Join3(c, d, e) = Join2(q, e)
  BY DEF Join3, Join2, Join2
<1> HIDE DEF q
<1>3. Split2(p, b, q, e)
  BY <1>1, <1>2, Parts2
<1>4. At(p, b, q) /\ At(p, b + Len(q), e) /\ b + Len(Join3(c, d, e)) = b + Len(q) + Len(e)
  BY <1>2, <1>3 DEF Split2
<1>5. Split2(p, b, c, d)
  BY <1>4, Parts2 DEF q
<1>6. b + Len(q) = b + Len(c) + Len(d)
  BY <1>5 DEF Split2, q
<1> QED
  BY <1>4, <1>5, <1>6 DEF Split2, Split3

LEMMA Parts4 ==
    ASSUME NEW p \in Seq(Instructions), NEW b, NEW c \in Seq(Instructions), NEW d \in Seq(Instructions),
           NEW e \in Seq(Instructions), NEW g \in Seq(Instructions),
           At(p, b, Join4(c, d, e, g))
    PROVE  Split4(p, b, c, d, e, g)
<1> DEFINE q == Join3(c, d, e)
<1>1. q \in Seq(Instructions)
  BY Joined DEF Join3
<1>2. Join4(c, d, e, g) = Join2(q, g)
  BY DEF Join4, Join3, Join2
<1> HIDE DEF q
<1>3. Split2(p, b, q, g)
  BY <1>1, <1>2, Parts2
<1>4. At(p, b, q) /\ At(p, b + Len(q), g) /\ b + Len(Join4(c, d, e, g)) = b + Len(q) + Len(g)
  BY <1>2, <1>3 DEF Split2
<1>5. Split3(p, b, c, d, e)
  BY <1>4, Parts3 DEF q
<1>6. b + Len(q) = b + Len(c) + Len(d) + Len(e)
  BY <1>5 DEF Split3, q
<1> QED
  BY <1>4, <1>5, <1>6 DEF Split3, Split4

LEMMA Parts5 ==
    ASSUME NEW p \in Seq(Instructions), NEW b, NEW c \in Seq(Instructions), NEW d \in Seq(Instructions),
           NEW e \in Seq(Instructions), NEW g \in Seq(Instructions), NEW h \in Seq(Instructions),
           At(p, b, Join5(c, d, e, g, h))
    PROVE  Split5(p, b, c, d, e, g, h)
<1> DEFINE q == Join4(c, d, e, g)
<1>1. q \in Seq(Instructions)
  BY Joined DEF Join4
<1>2. Join5(c, d, e, g, h) = Join2(q, h)
  BY DEF Join5, Join4, Join2
<1> HIDE DEF q
<1>3. Split2(p, b, q, h)
  BY <1>1, <1>2, Parts2
<1>4. At(p, b, q) /\ At(p, b + Len(q), h) /\ b + Len(Join5(c, d, e, g, h)) = b + Len(q) + Len(h)
  BY <1>2, <1>3 DEF Split2
<1>5. Split4(p, b, c, d, e, g)
  BY <1>4, Parts4 DEF q
<1>6. b + Len(q) = b + Len(c) + Len(d) + Len(e) + Len(g)
  BY <1>5 DEF Split4, q
<1> QED
  BY <1>4, <1>5, <1>6 DEF Split4, Split5

LEMMA Parts6 ==
    ASSUME NEW p \in Seq(Instructions), NEW b, NEW c \in Seq(Instructions), NEW d \in Seq(Instructions),
           NEW e \in Seq(Instructions), NEW g \in Seq(Instructions), NEW h \in Seq(Instructions),
           NEW m \in Seq(Instructions),
           At(p, b, Join6(c, d, e, g, h, m))
    PROVE  Split6(p, b, c, d, e, g, h, m)
<1> DEFINE q == Join5(c, d, e, g, h)
<1>1. q \in Seq(Instructions)
  BY Joined DEF Join5
<1>2. Join6(c, d, e, g, h, m) = Join2(q, m)
  BY DEF Join6, Join5, Join2
<1> HIDE DEF q
<1>3. Split2(p, b, q, m)
  BY <1>1, <1>2, Parts2
<1>4. At(p, b, q) /\ At(p, b + Len(q), m) /\ b + Len(Join6(c, d, e, g, h, m)) = b + Len(q) + Len(m)
  BY <1>2, <1>3 DEF Split2
<1>5. Split5(p, b, c, d, e, g, h)
  BY <1>4, Parts5 DEF q
<1>6. b + Len(q) = b + Len(c) + Len(d) + Len(e) + Len(g) + Len(h)
  BY <1>5 DEF Split5, q
<1> QED
  BY <1>4, <1>5, <1>6 DEF Split5, Split6

LEMMA LeafClaim ==
    ASSUME NEW p, NEW f, NEW Y, NEW t, Ready(p, f, Y, t), t.kind = "leaf"
    PROVE  Claim(p, f, Y, t)
<1> SUFFICES ASSUME NEW b, NEW s, Pre(p, f, Y, t, b, s)
             PROVE  <<b, s>> \in Y
  BY DEF Claim
<1> DEFINE i == t.leaf
<1>1. /\ p \in Seq(Instructions) /\ f \in BOOLEAN /\ Backwards(p, f, Y)
      /\ b \in Nat /\ s \in Seq(Word) /\ Len(s) \in Nat /\ At(p, b, Compile[t])
      /\ t \in Trees /\ IsTree(t)
  BY ContextFacts
<1>2. IsLeaf(i)
  BY <1>1 DEF IsTree
<1>3. Compile[t] = <<i>>
  <2>1. Compile[t] = CompileOf(Compile, t)
    BY <1>1, CompileEquation
  <2> QED
    BY <2>1 DEF CompileOf
<1>4. At(p, b, <<i>>) /\ b + Len(Compile[t]) = b + 1
  BY <1>1, <1>3
<1>5. Len(s) >= StackSize => f
  <2>1. Need[t] = 1
    <3>1. Need[t] = NeedOf(Need, t)
      BY <1>1, NeedEquation
    <3> QED
      BY <3>1 DEF NeedOf
  <2> QED
    BY <1>1, <2>1, ExpressionAssumption DEF Pre, Fit
<1>6. \A v \in Values[t] \cap Word : <<b + 1, Append(s, v)>> \in Y
  BY <1>4 DEF Pre
<1>7. /\ Err \in Values[t] => f
      /\ i.op = "const" => Values[t] = {Wrap(i.arg)}
      /\ i.op \in {"breg", "bregx"} =>
            Values[t] = {IF RegValue[i.arg.reg] \in Word
                         THEN Wrap(RegValue[i.arg.reg] + i.arg.off) ELSE Err}
      /\ i.op = "unsupported" => Values[t] = {Err}
  <2>1. Values[t] = ValuesOf(Values, t)
    BY <1>1, ValuesEquation
  <2>2. Err \in Values[t] => f
    BY DEF Pre
  <2> QED
    BY <1>1, <2>1, <2>2, LeafValues
<1>8. CASE i.op = "const"
  <2>1. i = [op |-> "const", arg |-> i.arg] /\ i.arg \in Int
    BY <1>2, <1>8 DEF IsLeaf, Instructions, UnaryOps, BinaryOps
  <2>2. At(p, b, op1("const", i.arg))
    BY <1>4, <2>1 DEF op1
  <2>3. <<b + 1, Append(s, Wrap(i.arg))>> \in Y
    BY <1>6, <1>7, <1>8, <2>1, WrapIsWord
  <2> HIDE DEF i
  <2> QED
    BY <1>1, <1>5, <2>1, <2>2, <2>3, BeforeConst
<1>9. CASE i.op = "breg"
  <2>1. i = [op |-> "breg", arg |-> i.arg] /\ i.arg.off \in Int
    BY <1>2, <1>9 DEF IsLeaf, Instructions, UnaryOps, BinaryOps
  <2>2. At(p, b, op1("breg", i.arg))
    BY <1>4, <2>1 DEF op1
  <2> DEFINE r == RegValue[i.arg.reg]
  <2>3. r \in Word => <<b + 1, Append(s, Wrap(r + i.arg.off))>> \in Y
    <3>1. r \in Word => Wrap(r + i.arg.off) \in Word
      BY <2>1, WrapIsWord, Words
    <3> QED
      BY <1>6, <1>7, <1>9, <3>1
  <2>4. r \notin Word => f
    BY <1>7, <1>9
  <2> HIDE DEF i
  <2> QED
    BY <1>1, <1>5, <2>1, <2>2, <2>3, <2>4, BeforeBreg
<1>10. i.op # "bregx"
  <2>1. b \in 0 .. Len(p) - 1 /\ p[b + 1] = i
    BY <1>1, <1>4, AtOne
  <2>2. b + 1 \in 1 .. Len(p)
    BY <1>1, <2>1, LenProperties
  <2> QED
    BY <2>1, <2>2 DEF Ready, Uses
<1>11. CASE i.op = "unsupported"
  <2>1. i = [op |-> "unsupported"]
    BY <1>2, <1>11 DEF IsLeaf, Instructions, UnaryOps, BinaryOps
  <2>2. At(p, b, op0("unsupported"))
    BY <1>4, <2>1 DEF op0
  <2>3. f
    BY <1>7, <1>11
  <2> QED
    BY <1>1, <2>2, <2>3, BeforeUnsupported
<1> QED
  BY <1>2, <1>8, <1>9, <1>10, <1>11 DEF IsLeaf

LEMMA UnaryClaim ==
    ASSUME NEW p, NEW f, NEW Y, NEW t, Ready(p, f, Y, t), t.kind = "unary"
    PROVE  Claim(p, f, Y, t)
<1> SUFFICES ASSUME NEW b, NEW s, Pre(p, f, Y, t, b, s)
             PROVE  <<b, s>> \in Y
  BY DEF Claim
<1> DEFINE ca == Compile[t.a]
<1>1. /\ p \in Seq(Instructions) /\ f \in BOOLEAN /\ Backwards(p, f, Y)
      /\ b \in Nat /\ s \in Seq(Word) /\ Len(s) \in Nat /\ At(p, b, Compile[t])
      /\ t \in Trees /\ IsTree(t)
  BY ContextFacts
<1>2. Operand(t.a, t) /\ t.op \in UnaryOps
  BY <1>1 DEF IsTree
<1>3. /\ t.a \in Trees /\ Claim(p, f, Y, t.a) /\ ca \in Seq(Instructions) /\ Len(ca) \in Nat
      /\ Values[t.a] \in Outcomes /\ Need[t.a] \in Nat /\ Need[t.a] >= 1
  BY <1>2, OperandFacts
<1>4. Compile[t] = ca \o op0(t.op)
  <2>1. Compile[t] = CompileOf(Compile, t)
    BY <1>1, CompileEquation
  <2> QED
    BY <2>1 DEF CompileOf
<1>5. op0(t.op) \in Seq(Instructions)
  <2>1. op0(t.op) \in Seq(Instructions)
    BY <1>2, <1>3, LengthsAreIntegers, CodeOfOps DEF BinaryOps
  <2> QED
    BY <2>1
<1> HIDE DEF ca
<1>6. /\ At(p, b, ca)
      /\ At(p, b + Len(ca), op0(t.op))
      /\ b + Len(Compile[t]) = b + Len(ca) + 1
  <2>1. At(p, b, Join2(ca, op0(t.op))) /\ Compile[t] = Join2(ca, op0(t.op))
    BY <1>1, <1>4 DEF Join2
  <2>2. Split2(p, b, ca, op0(t.op))
    BY <1>1, <1>3, <1>5, <2>1, Parts2
  <2>3. Len(op0(t.op)) = 1
    BY OneInstruction
  <2> QED
    BY <2>1, <2>2, <2>3 DEF Split2
<1>7. Fit(p, f, Len(s) + Need[t.a])
  <2> DEFINE n == Need[t]
  <2>1. n = Need[t.a]
    <3>1. n = NeedOf(Need, t)
      BY <1>1, NeedEquation
    <3> QED
      BY <3>1 DEF NeedOf
  <2>2. n \in Nat /\ Fit(p, f, Len(s) + n)
    BY <1>1, NeedEquation DEF Pre, Positive
  <2> HIDE DEF n
  <2>3. /\ Len(s) + Need[t.a] \in Nat /\ Len(s) + Need[t.a] <= Len(s) + n
        /\ Len(s) + n \in Nat
    <3> DEFINE na == Need[t.a]
    <3>1. na \in Nat /\ Len(s) \in Nat
      BY <1>1, <1>3
    <3>2. n = na
      BY <2>1
    <3> HIDE DEF na
    <3>3. /\ Len(s) + na \in Nat /\ Len(s) + na <= Len(s) + n
          /\ Len(s) + n \in Nat
      BY <2>2, <3>1, <3>2
    <3> QED
      BY <3>3 DEF na
  <2> QED
    BY <2>2, <2>3, SmallerFits
<1>8. /\ Err \in Values[t.a] => f
      /\ \A v \in Values[t.a] \cap Word : Unary(t.op, v) \in Values[t]
  <2>1. Values[t] = ValuesOf(Values, t) /\ Values \in [Trees -> Outcomes]
    BY <1>1, ValuesEquation
  <2> QED
    BY <1>1, <2>1, UnaryValues DEF Pre
<1>9. \A v \in Values[t] \cap Word : <<b + Len(ca) + 1, Append(s, v)>> \in Y
  BY <1>6 DEF Pre
<1>10. ASSUME NEW v \in Values[t.a] \cap Word
      PROVE  <<b + Len(ca), Append(s, v)>> \in Y
  BY <1>1, <1>2, <1>6, <1>8, <1>9, BeforeUnary, UnaryIsWord
<1> QED
  BY <1>1, <1>3, <1>6, <1>7, <1>8, <1>10 DEF Claim, Pre, ca

LEMMA UconstClaim ==
    ASSUME NEW p, NEW f, NEW Y, NEW t, Ready(p, f, Y, t), t.kind = "uconst"
    PROVE  Claim(p, f, Y, t)
<1> SUFFICES ASSUME NEW b, NEW s, Pre(p, f, Y, t, b, s)
             PROVE  <<b, s>> \in Y
  BY DEF Claim
<1> DEFINE ca == Compile[t.a]
<1>1. /\ p \in Seq(Instructions) /\ f \in BOOLEAN /\ Backwards(p, f, Y)
      /\ b \in Nat /\ s \in Seq(Word) /\ Len(s) \in Nat /\ At(p, b, Compile[t])
      /\ t \in Trees /\ IsTree(t)
  BY ContextFacts
<1>2. Operand(t.a, t) /\ t.n \in Int
  BY <1>1 DEF IsTree
<1>3. /\ t.a \in Trees /\ Claim(p, f, Y, t.a) /\ ca \in Seq(Instructions) /\ Len(ca) \in Nat
      /\ Values[t.a] \in Outcomes /\ Need[t.a] \in Nat /\ Need[t.a] >= 1
  BY <1>2, OperandFacts
<1>4. Compile[t] = ca \o op1("plus_uconst", t.n)
  <2>1. Compile[t] = CompileOf(Compile, t)
    BY <1>1, CompileEquation
  <2> QED
    BY <2>1 DEF CompileOf
<1>5. op1("plus_uconst", t.n) \in Seq(Instructions)
  <2>1. op1("plus_uconst", t.n) \in Seq(Instructions)
    BY <1>2, <1>3, LengthsAreIntegers, CodeOfOps DEF BinaryOps
  <2> QED
    BY <2>1
<1> HIDE DEF ca
<1>6. /\ At(p, b, ca)
      /\ At(p, b + Len(ca), op1("plus_uconst", t.n))
      /\ b + Len(Compile[t]) = b + Len(ca) + 1
  <2>1. At(p, b, Join2(ca, op1("plus_uconst", t.n))) /\ Compile[t] = Join2(ca, op1("plus_uconst", t.n))
    BY <1>1, <1>4 DEF Join2
  <2>2. Split2(p, b, ca, op1("plus_uconst", t.n))
    BY <1>1, <1>3, <1>5, <2>1, Parts2
  <2>3. Len(op1("plus_uconst", t.n)) = 1
    BY OneInstruction
  <2> QED
    BY <2>1, <2>2, <2>3 DEF Split2
<1>7. Fit(p, f, Len(s) + Need[t.a])
  <2> DEFINE n == Need[t]
  <2>1. n = Need[t.a]
    <3>1. n = NeedOf(Need, t)
      BY <1>1, NeedEquation
    <3> QED
      BY <3>1 DEF NeedOf
  <2>2. n \in Nat /\ Fit(p, f, Len(s) + n)
    BY <1>1, NeedEquation DEF Pre, Positive
  <2> HIDE DEF n
  <2>3. /\ Len(s) + Need[t.a] \in Nat /\ Len(s) + Need[t.a] <= Len(s) + n
        /\ Len(s) + n \in Nat
    <3> DEFINE na == Need[t.a]
    <3>1. na \in Nat /\ Len(s) \in Nat
      BY <1>1, <1>3
    <3>2. n = na
      BY <2>1
    <3> HIDE DEF na
    <3>3. /\ Len(s) + na \in Nat /\ Len(s) + na <= Len(s) + n
          /\ Len(s) + n \in Nat
      BY <2>2, <3>1, <3>2
    <3> QED
      BY <3>3 DEF na
  <2> QED
    BY <2>2, <2>3, SmallerFits
<1>8. /\ Err \in Values[t.a] => f
      /\ \A v \in Values[t.a] \cap Word : Wrap(t.n + v) \in Values[t]
  <2>1. Values[t] = ValuesOf(Values, t) /\ Values \in [Trees -> Outcomes]
    BY <1>1, ValuesEquation
  <2> QED
    BY <1>1, <2>1, UconstValues DEF Pre
<1>9. \A v \in Values[t] \cap Word : <<b + Len(ca) + 1, Append(s, v)>> \in Y
  BY <1>6 DEF Pre
<1>10. ASSUME NEW v \in Values[t.a] \cap Word
      PROVE  <<b + Len(ca), Append(s, v)>> \in Y
  BY <1>1, <1>2, <1>6, <1>8, <1>9, BeforeUconst, WrapIsWord, WordsAreIntegers
<1> QED
  BY <1>1, <1>3, <1>6, <1>7, <1>8, <1>10 DEF Claim, Pre, ca

LEMMA LoadClaim ==
    ASSUME NEW p, NEW f, NEW Y, NEW t, Ready(p, f, Y, t), t.kind = "load"
    PROVE  Claim(p, f, Y, t)
<1> SUFFICES ASSUME NEW b, NEW s, Pre(p, f, Y, t, b, s)
             PROVE  <<b, s>> \in Y
  BY DEF Claim
<1> DEFINE ca == Compile[t.a]
<1>1. /\ p \in Seq(Instructions) /\ f \in BOOLEAN /\ Backwards(p, f, Y)
      /\ b \in Nat /\ s \in Seq(Word) /\ Len(s) \in Nat /\ At(p, b, Compile[t])
      /\ t \in Trees /\ IsTree(t)
  BY ContextFacts
<1>2. Operand(t.a, t)
  BY <1>1 DEF IsTree
<1>3. /\ t.a \in Trees /\ Claim(p, f, Y, t.a) /\ ca \in Seq(Instructions) /\ Len(ca) \in Nat
      /\ Values[t.a] \in Outcomes /\ Need[t.a] \in Nat /\ Need[t.a] >= 1
  BY <1>2, OperandFacts
<1>4. Compile[t] = ca \o op0("deref")
  <2>1. Compile[t] = CompileOf(Compile, t)
    BY <1>1, CompileEquation
  <2> QED
    BY <2>1 DEF CompileOf
<1>5. op0("deref") \in Seq(Instructions)
  <2>1. op0("deref") \in Seq(Instructions)
    BY <1>2, <1>3, LengthsAreIntegers, CodeOfOps DEF BinaryOps
  <2> QED
    BY <2>1
<1> HIDE DEF ca
<1>6. /\ At(p, b, ca)
      /\ At(p, b + Len(ca), op0("deref"))
      /\ b + Len(Compile[t]) = b + Len(ca) + 1
  <2>1. At(p, b, Join2(ca, op0("deref"))) /\ Compile[t] = Join2(ca, op0("deref"))
    BY <1>1, <1>4 DEF Join2
  <2>2. Split2(p, b, ca, op0("deref"))
    BY <1>1, <1>3, <1>5, <2>1, Parts2
  <2>3. Len(op0("deref")) = 1
    BY OneInstruction
  <2> QED
    BY <2>1, <2>2, <2>3 DEF Split2
<1>7. Fit(p, f, Len(s) + Need[t.a])
  <2> DEFINE n == Need[t]
  <2>1. n = Need[t.a]
    <3>1. n = NeedOf(Need, t)
      BY <1>1, NeedEquation
    <3> QED
      BY <3>1 DEF NeedOf
  <2>2. n \in Nat /\ Fit(p, f, Len(s) + n)
    BY <1>1, NeedEquation DEF Pre, Positive
  <2> HIDE DEF n
  <2>3. /\ Len(s) + Need[t.a] \in Nat /\ Len(s) + Need[t.a] <= Len(s) + n
        /\ Len(s) + n \in Nat
    <3> DEFINE na == Need[t.a]
    <3>1. na \in Nat /\ Len(s) \in Nat
      BY <1>1, <1>3
    <3>2. n = na
      BY <2>1
    <3> HIDE DEF na
    <3>3. /\ Len(s) + na \in Nat /\ Len(s) + na <= Len(s) + n
          /\ Len(s) + n \in Nat
      BY <2>2, <3>1, <3>2
    <3> QED
      BY <3>3 DEF na
  <2> QED
    BY <2>2, <2>3, SmallerFits
<1>8. /\ Err \in Values[t.a] => f
      /\ Err \in Values[t] => f
      /\ \A v \in Values[t.a] \cap Word : Read(v, WordSize) \in Values[t]
  <2>1. Values[t] = ValuesOf(Values, t) /\ Values \in [Trees -> Outcomes]
    BY <1>1, ValuesEquation
  <2> QED
    BY <1>1, <2>1, LoadValues DEF Pre
<1>9. \A v \in Values[t] \cap Word : <<b + Len(ca) + 1, Append(s, v)>> \in Y
  BY <1>6 DEF Pre
<1>10. ASSUME NEW v \in Values[t.a] \cap Word
      PROVE  <<b + Len(ca), Append(s, v)>> \in Y
  <2>1. Read(v, WordSize) \in Values[t]
    BY <1>8
  <2>2. Read(v, WordSize) # Err => Read(v, WordSize) \in Word
    BY ReadIsLoaded, ReadFails
  <2>3. Read(v, WordSize) = Err => f
    BY <1>8, <2>1
  <2>4. Read(v, WordSize) # Err => <<b + Len(ca) + 1, Append(s, Read(v, WordSize))>> \in Y
    BY <1>9, <2>1, <2>2
  <2> QED
    BY <1>1, <1>2, <1>6, <2>3, <2>4, BeforeDeref
<1> QED
  BY <1>1, <1>3, <1>6, <1>7, <1>8, <1>10 DEF Claim, Pre, ca

LEMMA LoadSizeClaim ==
    ASSUME NEW p, NEW f, NEW Y, NEW t, Ready(p, f, Y, t), t.kind = "loadSize"
    PROVE  Claim(p, f, Y, t)
<1> SUFFICES ASSUME NEW b, NEW s, Pre(p, f, Y, t, b, s)
             PROVE  <<b, s>> \in Y
  BY DEF Claim
<1> DEFINE ca == Compile[t.a]
<1>1. /\ p \in Seq(Instructions) /\ f \in BOOLEAN /\ Backwards(p, f, Y)
      /\ b \in Nat /\ s \in Seq(Word) /\ Len(s) \in Nat /\ At(p, b, Compile[t])
      /\ t \in Trees /\ IsTree(t)
  BY ContextFacts
<1>2. Operand(t.a, t) /\ t.n \in Nat
  BY <1>1 DEF IsTree
<1>3. /\ t.a \in Trees /\ Claim(p, f, Y, t.a) /\ ca \in Seq(Instructions) /\ Len(ca) \in Nat
      /\ Values[t.a] \in Outcomes /\ Need[t.a] \in Nat /\ Need[t.a] >= 1
  BY <1>2, OperandFacts
<1>4. Compile[t] = ca \o op1("deref_size", t.n)
  <2>1. Compile[t] = CompileOf(Compile, t)
    BY <1>1, CompileEquation
  <2> QED
    BY <2>1 DEF CompileOf
<1>5. op1("deref_size", t.n) \in Seq(Instructions)
  <2>1. op1("deref_size", t.n) \in Seq(Instructions)
    BY <1>2, <1>3, LengthsAreIntegers, CodeOfOps DEF BinaryOps
  <2> QED
    BY <2>1
<1> HIDE DEF ca
<1>6. /\ At(p, b, ca)
      /\ At(p, b + Len(ca), op1("deref_size", t.n))
      /\ b + Len(Compile[t]) = b + Len(ca) + 1
  <2>1. At(p, b, Join2(ca, op1("deref_size", t.n))) /\ Compile[t] = Join2(ca, op1("deref_size", t.n))
    BY <1>1, <1>4 DEF Join2
  <2>2. Split2(p, b, ca, op1("deref_size", t.n))
    BY <1>1, <1>3, <1>5, <2>1, Parts2
  <2>3. Len(op1("deref_size", t.n)) = 1
    BY OneInstruction
  <2> QED
    BY <2>1, <2>2, <2>3 DEF Split2
<1>7. Fit(p, f, Len(s) + Need[t.a])
  <2> DEFINE n == Need[t]
  <2>1. n = Need[t.a]
    <3>1. n = NeedOf(Need, t)
      BY <1>1, NeedEquation
    <3> QED
      BY <3>1 DEF NeedOf
  <2>2. n \in Nat /\ Fit(p, f, Len(s) + n)
    BY <1>1, NeedEquation DEF Pre, Positive
  <2> HIDE DEF n
  <2>3. /\ Len(s) + Need[t.a] \in Nat /\ Len(s) + Need[t.a] <= Len(s) + n
        /\ Len(s) + n \in Nat
    <3> DEFINE na == Need[t.a]
    <3>1. na \in Nat /\ Len(s) \in Nat
      BY <1>1, <1>3
    <3>2. n = na
      BY <2>1
    <3> HIDE DEF na
    <3>3. /\ Len(s) + na \in Nat /\ Len(s) + na <= Len(s) + n
          /\ Len(s) + n \in Nat
      BY <2>2, <3>1, <3>2
    <3> QED
      BY <3>3 DEF na
  <2> QED
    BY <2>2, <2>3, SmallerFits
<1>8. /\ Err \in Values[t.a] => f
      /\ Err \in Values[t] => f
      /\ \A v \in Values[t.a] \cap Word : Read(v, t.n) \in Values[t]
  <2>1. Values[t] = ValuesOf(Values, t) /\ Values \in [Trees -> Outcomes]
    BY <1>1, ValuesEquation
  <2> QED
    BY <1>1, <2>1, LoadValues DEF Pre
<1>9. \A v \in Values[t] \cap Word : <<b + Len(ca) + 1, Append(s, v)>> \in Y
  BY <1>6 DEF Pre
<1>10. ASSUME NEW v \in Values[t.a] \cap Word
      PROVE  <<b + Len(ca), Append(s, v)>> \in Y
  <2>1. Read(v, t.n) \in Values[t]
    BY <1>8
  <2>2. Read(v, t.n) # Err => Read(v, t.n) \in Word
    BY ReadIsLoaded, ReadFails
  <2>3. Read(v, t.n) = Err => f
    BY <1>8, <2>1
  <2>4. Read(v, t.n) # Err => <<b + Len(ca) + 1, Append(s, Read(v, t.n))>> \in Y
    BY <1>9, <2>1, <2>2
  <2> QED
    BY <1>1, <1>2, <1>6, <2>3, <2>4, BeforeDerefSize
<1> QED
  BY <1>1, <1>3, <1>6, <1>7, <1>8, <1>10 DEF Claim, Pre, ca

LEMMA FarLoadClaim ==
    ASSUME NEW p, NEW f, NEW Y, NEW t, Ready(p, f, Y, t), t.kind = "farLoad"
    PROVE  Claim(p, f, Y, t)
<1> SUFFICES ASSUME NEW b, NEW s, Pre(p, f, Y, t, b, s)
             PROVE  <<b, s>> \in Y
  BY DEF Claim
<1> DEFINE ca == Compile[t.a]
<1>1. /\ p \in Seq(Instructions) /\ f \in BOOLEAN /\ Backwards(p, f, Y)
      /\ b \in Nat /\ s \in Seq(Word) /\ Len(s) \in Nat /\ At(p, b, Compile[t])
      /\ t \in Trees /\ IsTree(t)
  BY ContextFacts
<1>2. Operand(t.a, t)
  BY <1>1 DEF IsTree
<1>3. /\ t.a \in Trees /\ Claim(p, f, Y, t.a) /\ ca \in Seq(Instructions) /\ Len(ca) \in Nat
      /\ Values[t.a] \in Outcomes /\ Need[t.a] \in Nat /\ Need[t.a] >= 1
  BY <1>2, OperandFacts
<1>4. Compile[t] = op1("const", 1) \o ca \o op0("xderef")
  <2>1. Compile[t] = CompileOf(Compile, t)
    BY <1>1, CompileEquation
  <2> QED
    BY <2>1 DEF CompileOf
<1>5. op1("const", 1) \in Seq(Instructions) /\ op0("xderef") \in Seq(Instructions)
  <2>1. op1("const", 1) \in Seq(Instructions)
    BY <1>2, <1>3, LengthsAreIntegers, CodeOfOps DEF BinaryOps
  <2>2. op0("xderef") \in Seq(Instructions)
    BY <1>2, <1>3, LengthsAreIntegers, CodeOfOps DEF BinaryOps
  <2> QED
    BY <2>1, <2>2
<1> HIDE DEF ca
<1>6. /\ At(p, b, op1("const", 1))
      /\ At(p, b + 1, ca)
      /\ At(p, b + 1 + Len(ca), op0("xderef"))
      /\ b + Len(Compile[t]) = b + 1 + Len(ca) + 1
  <2>1. At(p, b, Join3(op1("const", 1), ca, op0("xderef")))
        /\ Compile[t] = Join3(op1("const", 1), ca, op0("xderef"))
    BY <1>1, <1>4 DEF Join3
  <2>2. Split3(p, b, op1("const", 1), ca, op0("xderef"))
    BY <1>1, <1>3, <1>5, <2>1, Parts3
  <2>3. Len(op1("const", 1)) = 1 /\ Len(op0("xderef")) = 1
    BY OneInstruction
  <2> QED
    BY <2>1, <2>2, <2>3 DEF Split3
<1>7. Fit(p, f, Len(s) + 1 + Need[t.a])
  <2> DEFINE n == Need[t]
  <2>1. n = 1 + Need[t.a]
    <3>1. n = NeedOf(Need, t)
      BY <1>1, NeedEquation
    <3> QED
      BY <3>1 DEF NeedOf
  <2>2. n \in Nat /\ Fit(p, f, Len(s) + n)
    BY <1>1, NeedEquation DEF Pre, Positive
  <2> HIDE DEF n
  <2>3. /\ Len(s) + 1 + Need[t.a] \in Nat /\ Len(s) + 1 + Need[t.a] <= Len(s) + n
        /\ Len(s) + n \in Nat
    <3> DEFINE na == Need[t.a]
    <3>1. na \in Nat /\ Len(s) \in Nat
      BY <1>1, <1>3
    <3>2. n = 1 + na
      BY <2>1
    <3> HIDE DEF na
    <3>3. /\ Len(s) + 1 + na \in Nat /\ Len(s) + 1 + na <= Len(s) + n
          /\ Len(s) + n \in Nat
      BY <2>2, <3>1, <3>2
    <3> QED
      BY <3>3 DEF na
  <2> QED
    BY <2>2, <2>3, SmallerFits
<1>8. /\ Err \in Values[t.a] => f
      /\ Err \in Values[t] => f
      /\ \A v \in Values[t.a] \cap Word : Read(v, WordSize) \in Values[t]
  <2>1. Values[t] = ValuesOf(Values, t) /\ Values \in [Trees -> Outcomes]
    BY <1>1, ValuesEquation
  <2> QED
    BY <1>1, <2>1, LoadValues DEF Pre
<1>9. \A v \in Values[t] \cap Word : <<b + 1 + Len(ca) + 1, Append(s, v)>> \in Y
  BY <1>6 DEF Pre
<1> DEFINE one == Wrap(1)
           q == Append(s, one)
<1>10. one \in Word /\ q \in Seq(Word) /\ Len(q) = Len(s) + 1
  BY <1>1, WrapIsWord, StackEntries
<1>11. ASSUME NEW v \in Values[t.a] \cap Word
      PROVE  <<b + 1 + Len(ca), Append(q, v)>> \in Y
  <2>1. Read(v, WordSize) \in Values[t]
    BY <1>8
  <2>2. Read(v, WordSize) # Err => Read(v, WordSize) \in Word
    BY ReadIsLoaded, ReadFails
  <2>3. Read(v, WordSize) = Err => f
    BY <1>8, <2>1
  <2>4. Read(v, WordSize) # Err => <<b + 1 + Len(ca) + 1, Append(s, Read(v, WordSize))>> \in Y
    BY <1>9, <2>1, <2>2
  <2>5. At(p, b + 1 + Len(ca), op0("xderef"))
    BY <1>6
  <2>6. Backwards(p, f, Y) /\ s \in Seq(Word) /\ one \in Word /\ v \in Word
    BY <1>1, <1>2, <1>10
  <2> HIDE DEF one
  <2> QED
    BY <2>3, <2>4, <2>5, <2>6, BeforeXderef
<1> HIDE DEF q
<1>12. <<b + 1, q>> \in Y
  BY <1>1, <1>3, <1>6, <1>7, <1>8, <1>10, <1>11 DEF Claim, Pre, ca
<1>13. Len(s) >= StackSize => f
  BY <1>1, <1>3, <1>7, ExpressionAssumption DEF Fit
<1>14. At(p, b, op1("const", 1)) /\ 1 \in Int /\ <<b + 1, Append(s, Wrap(1))>> \in Y
  BY <1>6, <1>12 DEF q
<1> QED
  BY <1>1, <1>13, <1>14, BeforeConst

LEMMA FarLoadSizeClaim ==
    ASSUME NEW p, NEW f, NEW Y, NEW t, Ready(p, f, Y, t), t.kind = "farLoadSize"
    PROVE  Claim(p, f, Y, t)
<1> SUFFICES ASSUME NEW b, NEW s, Pre(p, f, Y, t, b, s)
             PROVE  <<b, s>> \in Y
  BY DEF Claim
<1> DEFINE ca == Compile[t.a]
<1>1. /\ p \in Seq(Instructions) /\ f \in BOOLEAN /\ Backwards(p, f, Y)
      /\ b \in Nat /\ s \in Seq(Word) /\ Len(s) \in Nat /\ At(p, b, Compile[t])
      /\ t \in Trees /\ IsTree(t)
  BY ContextFacts
<1>2. Operand(t.a, t) /\ t.n \in Nat
  BY <1>1 DEF IsTree
<1>3. /\ t.a \in Trees /\ Claim(p, f, Y, t.a) /\ ca \in Seq(Instructions) /\ Len(ca) \in Nat
      /\ Values[t.a] \in Outcomes /\ Need[t.a] \in Nat /\ Need[t.a] >= 1
  BY <1>2, OperandFacts
<1>4. Compile[t] = op1("const", 1) \o ca \o op1("xderef_size", t.n)
  <2>1. Compile[t] = CompileOf(Compile, t)
    BY <1>1, CompileEquation
  <2> QED
    BY <2>1 DEF CompileOf
<1>5. op1("const", 1) \in Seq(Instructions) /\ op1("xderef_size", t.n) \in Seq(Instructions)
  <2>1. op1("const", 1) \in Seq(Instructions)
    BY <1>2, <1>3, LengthsAreIntegers, CodeOfOps DEF BinaryOps
  <2>2. op1("xderef_size", t.n) \in Seq(Instructions)
    BY <1>2, <1>3, LengthsAreIntegers, CodeOfOps DEF BinaryOps
  <2> QED
    BY <2>1, <2>2
<1> HIDE DEF ca
<1>6. /\ At(p, b, op1("const", 1))
      /\ At(p, b + 1, ca)
      /\ At(p, b + 1 + Len(ca), op1("xderef_size", t.n))
      /\ b + Len(Compile[t]) = b + 1 + Len(ca) + 1
  <2>1. At(p, b, Join3(op1("const", 1), ca, op1("xderef_size", t.n)))
        /\ Compile[t] = Join3(op1("const", 1), ca, op1("xderef_size", t.n))
    BY <1>1, <1>4 DEF Join3
  <2>2. Split3(p, b, op1("const", 1), ca, op1("xderef_size", t.n))
    BY <1>1, <1>3, <1>5, <2>1, Parts3
  <2>3. Len(op1("const", 1)) = 1 /\ Len(op1("xderef_size", t.n)) = 1
    BY OneInstruction
  <2> QED
    BY <2>1, <2>2, <2>3 DEF Split3
<1>7. Fit(p, f, Len(s) + 1 + Need[t.a])
  <2> DEFINE n == Need[t]
  <2>1. n = 1 + Need[t.a]
    <3>1. n = NeedOf(Need, t)
      BY <1>1, NeedEquation
    <3> QED
      BY <3>1 DEF NeedOf
  <2>2. n \in Nat /\ Fit(p, f, Len(s) + n)
    BY <1>1, NeedEquation DEF Pre, Positive
  <2> HIDE DEF n
  <2>3. /\ Len(s) + 1 + Need[t.a] \in Nat /\ Len(s) + 1 + Need[t.a] <= Len(s) + n
        /\ Len(s) + n \in Nat
    <3> DEFINE na == Need[t.a]
    <3>1. na \in Nat /\ Len(s) \in Nat
      BY <1>1, <1>3
    <3>2. n = 1 + na
      BY <2>1
    <3> HIDE DEF na
    <3>3. /\ Len(s) + 1 + na \in Nat /\ Len(s) + 1 + na <= Len(s) + n
          /\ Len(s) + n \in Nat
      BY <2>2, <3>1, <3>2
    <3> QED
      BY <3>3 DEF na
  <2> QED
    BY <2>2, <2>3, SmallerFits
<1>8. /\ Err \in Values[t.a] => f
      /\ Err \in Values[t] => f
      /\ \A v \in Values[t.a] \cap Word : Read(v, t.n) \in Values[t]
  <2>1. Values[t] = ValuesOf(Values, t) /\ Values \in [Trees -> Outcomes]
    BY <1>1, ValuesEquation
  <2> QED
    BY <1>1, <2>1, LoadValues DEF Pre
<1>9. \A v \in Values[t] \cap Word : <<b + 1 + Len(ca) + 1, Append(s, v)>> \in Y
  BY <1>6 DEF Pre
<1> DEFINE one == Wrap(1)
           q == Append(s, one)
<1>10. one \in Word /\ q \in Seq(Word) /\ Len(q) = Len(s) + 1
  BY <1>1, WrapIsWord, StackEntries
<1>11. ASSUME NEW v \in Values[t.a] \cap Word
      PROVE  <<b + 1 + Len(ca), Append(q, v)>> \in Y
  <2>1. Read(v, t.n) \in Values[t]
    BY <1>8
  <2>2. Read(v, t.n) # Err => Read(v, t.n) \in Word
    BY ReadIsLoaded, ReadFails
  <2>3. Read(v, t.n) = Err => f
    BY <1>8, <2>1
  <2>4. Read(v, t.n) # Err => <<b + 1 + Len(ca) + 1, Append(s, Read(v, t.n))>> \in Y
    BY <1>9, <2>1, <2>2
  <2>5. At(p, b + 1 + Len(ca), op1("xderef_size", t.n))
    BY <1>6
  <2>6. Backwards(p, f, Y) /\ s \in Seq(Word) /\ one \in Word /\ v \in Word /\ t.n \in Nat
    BY <1>1, <1>2, <1>10
  <2> HIDE DEF one
  <2> QED
    BY <2>3, <2>4, <2>5, <2>6, BeforeXderefSize
<1> HIDE DEF q
<1>12. <<b + 1, q>> \in Y
  BY <1>1, <1>3, <1>6, <1>7, <1>8, <1>10, <1>11 DEF Claim, Pre, ca
<1>13. Len(s) >= StackSize => f
  BY <1>1, <1>3, <1>7, ExpressionAssumption DEF Fit
<1>14. At(p, b, op1("const", 1)) /\ 1 \in Int /\ <<b + 1, Append(s, Wrap(1))>> \in Y
  BY <1>6, <1>12 DEF q
<1> QED
  BY <1>1, <1>13, <1>14, BeforeConst

LEMMA BinaryClaim ==
    ASSUME NEW p, NEW f, NEW Y, NEW t, Ready(p, f, Y, t), t.kind = "binary"
    PROVE  Claim(p, f, Y, t)
<1> SUFFICES ASSUME NEW b, NEW s, Pre(p, f, Y, t, b, s)
             PROVE  <<b, s>> \in Y
  BY DEF Claim
<1> DEFINE ca == Compile[t.a]
           cb == Compile[t.b]
<1>1. /\ p \in Seq(Instructions) /\ f \in BOOLEAN /\ Backwards(p, f, Y)
      /\ b \in Nat /\ s \in Seq(Word) /\ Len(s) \in Nat /\ At(p, b, Compile[t])
      /\ t \in Trees /\ IsTree(t) /\ ReadAlike(p)
  BY ContextFacts
<1>2. Operand(t.a, t) /\ Operand(t.b, t) /\ t.op \in BinaryOps
  BY <1>1 DEF IsTree
<1>3. /\ t.a \in Trees /\ Claim(p, f, Y, t.a) /\ ca \in Seq(Instructions) /\ Len(ca) \in Nat
      /\ Values[t.a] \in Outcomes /\ Need[t.a] \in Nat /\ Need[t.a] >= 1
      /\ t.b \in Trees /\ Claim(p, f, Y, t.b) /\ cb \in Seq(Instructions) /\ Len(cb) \in Nat
      /\ Values[t.b] \in Outcomes /\ Need[t.b] \in Nat /\ Need[t.b] >= 1
  BY <1>2, OperandFacts
<1>4. Compile[t] = ca \o cb \o op0(t.op)
  <2>1. Compile[t] = CompileOf(Compile, t)
    BY <1>1, CompileEquation
  <2> QED
    BY <2>1 DEF CompileOf
<1>5. op0(t.op) \in Seq(Instructions)
  <2>1. op0(t.op) \in Seq(Instructions)
    BY <1>2, <1>3, LengthsAreIntegers, CodeOfOps DEF BinaryOps
  <2> QED
    BY <2>1
<1> HIDE DEF ca, cb
<1>6. /\ At(p, b, ca)
      /\ At(p, b + Len(ca), cb)
      /\ At(p, b + Len(ca) + Len(cb), op0(t.op))
      /\ b + Len(Compile[t]) = b + Len(ca) + Len(cb) + 1
  <2>1. At(p, b, Join3(ca, cb, op0(t.op))) /\ Compile[t] = Join3(ca, cb, op0(t.op))
    BY <1>1, <1>4 DEF Join3
  <2>2. Split3(p, b, ca, cb, op0(t.op))
    BY <1>1, <1>3, <1>5, <2>1, Parts3
  <2>3. Len(op0(t.op)) = 1
    BY OneInstruction
  <2> QED
    BY <2>1, <2>2, <2>3 DEF Split3
<1>7. Fit(p, f, Len(s) + Need[t.a]) /\ Fit(p, f, Len(s) + 1 + Need[t.b])
  <2> DEFINE n == Need[t]
  <2>1. n = Larger(Need[t.a], 1 + Need[t.b])
    <3>1. n = NeedOf(Need, t)
      BY <1>1, NeedEquation
    <3> QED
      BY <3>1 DEF NeedOf
  <2>2. n \in Nat /\ Fit(p, f, Len(s) + n)
    BY <1>1, NeedEquation DEF Pre, Positive
  <2> HIDE DEF n
  <2>3. /\ Len(s) + Need[t.a] \in Nat /\ Len(s) + Need[t.a] <= Len(s) + n
        /\ Len(s) + 1 + Need[t.b] \in Nat /\ Len(s) + 1 + Need[t.b] <= Len(s) + n
        /\ Len(s) + n \in Nat
    <3> DEFINE na == Need[t.a]
               nb == Need[t.b]
    <3>1. na \in Nat /\ nb \in Nat /\ Len(s) \in Nat
      BY <1>1, <1>3
    <3>2. n = Larger(na, 1 + nb)
      BY <2>1
    <3> HIDE DEF na, nb
    <3>3. Larger(na, 1 + nb) \in Nat /\ Larger(na, 1 + nb) >= na /\ Larger(na, 1 + nb) >= 1 + nb
      BY <3>1, LargerOfTwo
    <3>4. /\ Len(s) + na \in Nat /\ Len(s) + na <= Len(s) + n
          /\ Len(s) + 1 + nb \in Nat /\ Len(s) + 1 + nb <= Len(s) + n
          /\ Len(s) + n \in Nat
      BY <2>2, <3>1, <3>2, <3>3
    <3> QED
      BY <3>4 DEF na, nb
  <2> QED
    BY <2>2, <2>3, SmallerFits
<1>8. /\ Err \in Values[t.a] \cup Values[t.b] => f
      /\ Err \in Values[t] => f
      /\ \A v \in Values[t.a] \cap Word, w \in Values[t.b] \cap Word : Apply(t.op, v, w) \subseteq Values[t]
  <2>1. Values[t] = ValuesOf(Values, t) /\ Values \in [Trees -> Outcomes]
    BY <1>1, ValuesEquation
  <2> QED
    BY <1>1, <2>1, BinaryValues DEF Pre
<1>9. \A v \in Values[t] \cap Word : <<b + Len(ca) + Len(cb) + 1, Append(s, v)>> \in Y
  BY <1>6 DEF Pre
<1>10. ASSUME NEW v \in Values[t.a] \cap Word
      PROVE  <<b + Len(ca), Append(s, v)>> \in Y
  <2> DEFINE q == Append(s, v)
  <2>1. q \in Seq(Word) /\ Len(q) = Len(s) + 1
    BY <1>1, StackEntries
  <2>2. ASSUME NEW w \in Values[t.b] \cap Word
        PROVE  <<b + Len(ca) + Len(cb), Append(q, w)>> \in Y
    <3>1. Apply(t.op, v, w) \subseteq Values[t]
      BY <1>8
    <3> QED
      BY <1>1, <1>2, <1>6, <1>8, <1>9, <3>1, BeforeBinary
  <2> HIDE DEF q
  <2>3. <<b + Len(ca), q>> \in Y
    BY <1>1, <1>3, <1>6, <1>7, <1>8, <2>1, <2>2 DEF Claim, Pre, ca, cb
  <2> QED
    BY <2>3 DEF q
<1> QED
  BY <1>1, <1>3, <1>6, <1>7, <1>8, <1>10 DEF Claim, Pre, ca

LEMMA ReversedClaim ==
    ASSUME NEW p, NEW f, NEW Y, NEW t, Ready(p, f, Y, t), t.kind = "reversed"
    PROVE  Claim(p, f, Y, t)
<1> SUFFICES ASSUME NEW b, NEW s, Pre(p, f, Y, t, b, s)
             PROVE  <<b, s>> \in Y
  BY DEF Claim
<1> DEFINE ca == Compile[t.a]
           cb == Compile[t.b]
<1>1. /\ p \in Seq(Instructions) /\ f \in BOOLEAN /\ Backwards(p, f, Y)
      /\ b \in Nat /\ s \in Seq(Word) /\ Len(s) \in Nat /\ At(p, b, Compile[t])
      /\ t \in Trees /\ IsTree(t) /\ ReadAlike(p)
  BY ContextFacts
<1>2. Operand(t.a, t) /\ Operand(t.b, t) /\ t.op \in BinaryOps
  BY <1>1 DEF IsTree
<1>3. /\ t.a \in Trees /\ Claim(p, f, Y, t.a) /\ ca \in Seq(Instructions) /\ Len(ca) \in Nat
      /\ Values[t.a] \in Outcomes /\ Need[t.a] \in Nat /\ Need[t.a] >= 1
      /\ t.b \in Trees /\ Claim(p, f, Y, t.b) /\ cb \in Seq(Instructions) /\ Len(cb) \in Nat
      /\ Values[t.b] \in Outcomes /\ Need[t.b] \in Nat /\ Need[t.b] >= 1
  BY <1>2, OperandFacts
<1>4. Compile[t] = cb \o ca \o op0("swap") \o op0(t.op)
  <2>1. Compile[t] = CompileOf(Compile, t)
    BY <1>1, CompileEquation
  <2> QED
    BY <2>1 DEF CompileOf
<1>5. op0("swap") \in Seq(Instructions) /\ op0(t.op) \in Seq(Instructions)
  <2>1. op0("swap") \in Seq(Instructions)
    BY <1>2, <1>3, LengthsAreIntegers, CodeOfOps DEF BinaryOps
  <2>2. op0(t.op) \in Seq(Instructions)
    BY <1>2, <1>3, LengthsAreIntegers, CodeOfOps DEF BinaryOps
  <2> QED
    BY <2>1, <2>2
<1> HIDE DEF ca, cb
<1>6. /\ At(p, b, cb)
      /\ At(p, b + Len(cb), ca)
      /\ At(p, b + Len(cb) + Len(ca), op0("swap"))
      /\ At(p, b + Len(cb) + Len(ca) + 1, op0(t.op))
      /\ b + Len(Compile[t]) = b + Len(cb) + Len(ca) + 1 + 1
  <2>1. At(p, b, Join4(cb, ca, op0("swap"), op0(t.op)))
        /\ Compile[t] = Join4(cb, ca, op0("swap"), op0(t.op))
    BY <1>1, <1>4 DEF Join4
  <2>2. Split4(p, b, cb, ca, op0("swap"), op0(t.op))
    BY <1>1, <1>3, <1>5, <2>1, Parts4
  <2>3. Len(op0("swap")) = 1 /\ Len(op0(t.op)) = 1
    BY OneInstruction
  <2> QED
    BY <2>1, <2>2, <2>3 DEF Split4
<1>7. Fit(p, f, Len(s) + Need[t.b]) /\ Fit(p, f, Len(s) + 1 + Need[t.a])
  <2> DEFINE n == Need[t]
  <2>1. n = Larger(Need[t.b], 1 + Need[t.a])
    <3>1. n = NeedOf(Need, t)
      BY <1>1, NeedEquation
    <3> QED
      BY <3>1 DEF NeedOf
  <2>2. n \in Nat /\ Fit(p, f, Len(s) + n)
    BY <1>1, NeedEquation DEF Pre, Positive
  <2> HIDE DEF n
  <2>3. /\ Len(s) + Need[t.b] \in Nat /\ Len(s) + Need[t.b] <= Len(s) + n
        /\ Len(s) + 1 + Need[t.a] \in Nat /\ Len(s) + 1 + Need[t.a] <= Len(s) + n
        /\ Len(s) + n \in Nat
    <3> DEFINE na == Need[t.a]
               nb == Need[t.b]
    <3>1. na \in Nat /\ nb \in Nat /\ Len(s) \in Nat
      BY <1>1, <1>3
    <3>2. n = Larger(nb, 1 + na)
      BY <2>1
    <3> HIDE DEF na, nb
    <3>3. Larger(nb, 1 + na) \in Nat /\ Larger(nb, 1 + na) >= nb /\ Larger(nb, 1 + na) >= 1 + na
      BY <3>1, LargerOfTwo
    <3>4. /\ Len(s) + nb \in Nat /\ Len(s) + nb <= Len(s) + n
          /\ Len(s) + 1 + na \in Nat /\ Len(s) + 1 + na <= Len(s) + n
          /\ Len(s) + n \in Nat
      BY <2>2, <3>1, <3>2, <3>3
    <3> QED
      BY <3>4 DEF na, nb
  <2> QED
    BY <2>2, <2>3, SmallerFits
<1>8. /\ Err \in Values[t.a] \cup Values[t.b] => f
      /\ Err \in Values[t] => f
      /\ \A v \in Values[t.a] \cap Word, w \in Values[t.b] \cap Word : Apply(t.op, v, w) \subseteq Values[t]
  <2>1. Values[t] = ValuesOf(Values, t) /\ Values \in [Trees -> Outcomes]
    BY <1>1, ValuesEquation
  <2> QED
    BY <1>1, <2>1, BinaryValues DEF Pre
<1>9. \A v \in Values[t] \cap Word : <<b + Len(cb) + Len(ca) + 1 + 1, Append(s, v)>> \in Y
  BY <1>6 DEF Pre
<1>10. ASSUME NEW v \in Values[t.b] \cap Word
      PROVE  <<b + Len(cb), Append(s, v)>> \in Y
  <2> DEFINE q == Append(s, v)
  <2>1. q \in Seq(Word) /\ Len(q) = Len(s) + 1
    BY <1>1, StackEntries
  <2>2. ASSUME NEW w \in Values[t.a] \cap Word
        PROVE  <<b + Len(cb) + Len(ca), Append(q, w)>> \in Y
    <3>1. Apply(t.op, w, v) \subseteq Values[t]
      BY <1>8
    <3>2. <<b + Len(cb) + Len(ca) + 1, Append(Append(s, w), v)>> \in Y
      BY <1>1, <1>2, <1>6, <1>8, <1>9, <3>1, BeforeBinary
    <3> QED
      BY <1>1, <1>6, <3>2, BeforeSwap
  <2> HIDE DEF q
  <2>3. <<b + Len(cb), q>> \in Y
    BY <1>1, <1>3, <1>6, <1>7, <1>8, <2>1, <2>2 DEF Claim, Pre, cb, ca
  <2> QED
    BY <2>3 DEF q
<1> QED
  BY <1>1, <1>3, <1>6, <1>7, <1>8, <1>10 DEF Claim, Pre, cb

LEMMA FirstClaim ==
    ASSUME NEW p, NEW f, NEW Y, NEW t, Ready(p, f, Y, t), t.kind = "first"
    PROVE  Claim(p, f, Y, t)
<1> SUFFICES ASSUME NEW b, NEW s, Pre(p, f, Y, t, b, s)
             PROVE  <<b, s>> \in Y
  BY DEF Claim
<1> DEFINE ca == Compile[t.a]
           cb == Compile[t.b]
<1>1. /\ p \in Seq(Instructions) /\ f \in BOOLEAN /\ Backwards(p, f, Y)
      /\ b \in Nat /\ s \in Seq(Word) /\ Len(s) \in Nat /\ At(p, b, Compile[t])
      /\ t \in Trees /\ IsTree(t)
  BY ContextFacts
<1>2. Operand(t.a, t) /\ Operand(t.b, t)
  BY <1>1 DEF IsTree
<1>3. /\ t.a \in Trees /\ Claim(p, f, Y, t.a) /\ ca \in Seq(Instructions) /\ Len(ca) \in Nat
      /\ Values[t.a] \in Outcomes /\ Need[t.a] \in Nat /\ Need[t.a] >= 1
      /\ t.b \in Trees /\ Claim(p, f, Y, t.b) /\ cb \in Seq(Instructions) /\ Len(cb) \in Nat
      /\ Values[t.b] \in Outcomes /\ Need[t.b] \in Nat /\ Need[t.b] >= 1
  BY <1>2, OperandFacts
<1>4. Compile[t] = ca \o cb \o op0("drop") \o op0("nop")
  <2>1. Compile[t] = CompileOf(Compile, t)
    BY <1>1, CompileEquation
  <2> QED
    BY <2>1 DEF CompileOf
<1>5. op0("drop") \in Seq(Instructions) /\ op0("nop") \in Seq(Instructions)
  <2>1. op0("drop") \in Seq(Instructions)
    BY <1>2, <1>3, LengthsAreIntegers, CodeOfOps DEF BinaryOps
  <2>2. op0("nop") \in Seq(Instructions)
    BY <1>2, <1>3, LengthsAreIntegers, CodeOfOps DEF BinaryOps
  <2> QED
    BY <2>1, <2>2
<1> HIDE DEF ca, cb
<1>6. /\ At(p, b, ca)
      /\ At(p, b + Len(ca), cb)
      /\ At(p, b + Len(ca) + Len(cb), op0("drop"))
      /\ At(p, b + Len(ca) + Len(cb) + 1, op0("nop"))
      /\ b + Len(Compile[t]) = b + Len(ca) + Len(cb) + 1 + 1
  <2>1. At(p, b, Join4(ca, cb, op0("drop"), op0("nop")))
        /\ Compile[t] = Join4(ca, cb, op0("drop"), op0("nop"))
    BY <1>1, <1>4 DEF Join4
  <2>2. Split4(p, b, ca, cb, op0("drop"), op0("nop"))
    BY <1>1, <1>3, <1>5, <2>1, Parts4
  <2>3. Len(op0("drop")) = 1 /\ Len(op0("nop")) = 1
    BY OneInstruction
  <2> QED
    BY <2>1, <2>2, <2>3 DEF Split4
<1>7. Fit(p, f, Len(s) + Need[t.a]) /\ Fit(p, f, Len(s) + 1 + Need[t.b])
  <2> DEFINE n == Need[t]
  <2>1. n = Larger(Need[t.a], 1 + Need[t.b])
    <3>1. n = NeedOf(Need, t)
      BY <1>1, NeedEquation
    <3> QED
      BY <3>1 DEF NeedOf
  <2>2. n \in Nat /\ Fit(p, f, Len(s) + n)
    BY <1>1, NeedEquation DEF Pre, Positive
  <2> HIDE DEF n
  <2>3. /\ Len(s) + Need[t.a] \in Nat /\ Len(s) + Need[t.a] <= Len(s) + n
        /\ Len(s) + 1 + Need[t.b] \in Nat /\ Len(s) + 1 + Need[t.b] <= Len(s) + n
        /\ Len(s) + n \in Nat
    <3> DEFINE na == Need[t.a]
               nb == Need[t.b]
    <3>1. na \in Nat /\ nb \in Nat /\ Len(s) \in Nat
      BY <1>1, <1>3
    <3>2. n = Larger(na, 1 + nb)
      BY <2>1
    <3> HIDE DEF na, nb
    <3>3. Larger(na, 1 + nb) \in Nat /\ Larger(na, 1 + nb) >= na /\ Larger(na, 1 + nb) >= 1 + nb
      BY <3>1, LargerOfTwo
    <3>4. /\ Len(s) + na \in Nat /\ Len(s) + na <= Len(s) + n
          /\ Len(s) + 1 + nb \in Nat /\ Len(s) + 1 + nb <= Len(s) + n
          /\ Len(s) + n \in Nat
      BY <2>2, <3>1, <3>2, <3>3
    <3> QED
      BY <3>4 DEF na, nb
  <2> QED
    BY <2>2, <2>3, SmallerFits
<1>8. /\ Err \in Values[t.a] \cup Values[t.b] => f
      /\ Err \in Values[t] => f
      /\ \A v \in Values[t.a] \cap Word, w \in Values[t.b] \cap Word : v \in Values[t]
  <2>1. Values[t] = ValuesOf(Values, t) /\ Values \in [Trees -> Outcomes]
    BY <1>1, ValuesEquation
  <2> QED
    BY <1>1, <2>1, FirstValues DEF Pre
<1>9. \A v \in Values[t] \cap Word : <<b + Len(ca) + Len(cb) + 1 + 1, Append(s, v)>> \in Y
  BY <1>6 DEF Pre
<1>10. ASSUME NEW v \in Values[t.a] \cap Word
      PROVE  <<b + Len(ca), Append(s, v)>> \in Y
  <2> DEFINE q == Append(s, v)
  <2>1. q \in Seq(Word) /\ Len(q) = Len(s) + 1
    BY <1>1, StackEntries
  <2>2. ASSUME NEW w \in Values[t.b] \cap Word
        PROVE  <<b + Len(ca) + Len(cb), Append(q, w)>> \in Y
    <3>1. v \in Values[t]
      BY <1>8
    <3>2. <<b + Len(ca) + Len(cb) + 1, q>> \in Y
      BY <1>1, <1>6, <1>9, <2>1, <3>1, BeforeNop
    <3> HIDE DEF q
    <3> QED
      BY <1>1, <1>6, <2>1, <3>2, BeforeDrop
  <2> HIDE DEF q
  <2>3. <<b + Len(ca), q>> \in Y
    BY <1>1, <1>3, <1>6, <1>7, <1>8, <2>1, <2>2 DEF Claim, Pre, ca, cb
  <2> QED
    BY <2>3 DEF q
<1> QED
  BY <1>1, <1>3, <1>6, <1>7, <1>8, <1>10 DEF Claim, Pre, ca

LEMMA TwiceClaim ==
    ASSUME NEW p, NEW f, NEW Y, NEW t, Ready(p, f, Y, t), t.kind = "twice"
    PROVE  Claim(p, f, Y, t)
<1> SUFFICES ASSUME NEW b, NEW s, Pre(p, f, Y, t, b, s)
             PROVE  <<b, s>> \in Y
  BY DEF Claim
<1> DEFINE ca == Compile[t.a]
<1>1. /\ p \in Seq(Instructions) /\ f \in BOOLEAN /\ Backwards(p, f, Y)
      /\ b \in Nat /\ s \in Seq(Word) /\ Len(s) \in Nat /\ At(p, b, Compile[t])
      /\ t \in Trees /\ IsTree(t) /\ ReadAlike(p)
  BY ContextFacts
<1>2. Operand(t.a, t) /\ t.op \in BinaryOps
  BY <1>1 DEF IsTree
<1>3. /\ t.a \in Trees /\ Claim(p, f, Y, t.a) /\ ca \in Seq(Instructions) /\ Len(ca) \in Nat
      /\ Values[t.a] \in Outcomes /\ Need[t.a] \in Nat /\ Need[t.a] >= 1
  BY <1>2, OperandFacts
<1>4. Compile[t] = ca \o op0("dup") \o op0(t.op)
  <2>1. Compile[t] = CompileOf(Compile, t)
    BY <1>1, CompileEquation
  <2> QED
    BY <2>1 DEF CompileOf
<1>5. op0("dup") \in Seq(Instructions) /\ op0(t.op) \in Seq(Instructions)
  <2>1. op0("dup") \in Seq(Instructions)
    BY <1>2, <1>3, LengthsAreIntegers, CodeOfOps DEF BinaryOps
  <2>2. op0(t.op) \in Seq(Instructions)
    BY <1>2, <1>3, LengthsAreIntegers, CodeOfOps DEF BinaryOps
  <2> QED
    BY <2>1, <2>2
<1> HIDE DEF ca
<1>6. /\ At(p, b, ca)
      /\ At(p, b + Len(ca), op0("dup"))
      /\ At(p, b + Len(ca) + 1, op0(t.op))
      /\ b + Len(Compile[t]) = b + Len(ca) + 1 + 1
  <2>1. At(p, b, Join3(ca, op0("dup"), op0(t.op))) /\ Compile[t] = Join3(ca, op0("dup"), op0(t.op))
    BY <1>1, <1>4 DEF Join3
  <2>2. Split3(p, b, ca, op0("dup"), op0(t.op))
    BY <1>1, <1>3, <1>5, <2>1, Parts3
  <2>3. Len(op0("dup")) = 1 /\ Len(op0(t.op)) = 1
    BY OneInstruction
  <2> QED
    BY <2>1, <2>2, <2>3 DEF Split3
<1>7. Fit(p, f, Len(s) + Need[t.a])
  <2> DEFINE n == Need[t]
  <2>1. n = Larger(Need[t.a], 2)
    <3>1. n = NeedOf(Need, t)
      BY <1>1, NeedEquation
    <3> QED
      BY <3>1 DEF NeedOf
  <2>2. n \in Nat /\ Fit(p, f, Len(s) + n)
    BY <1>1, NeedEquation DEF Pre, Positive
  <2> HIDE DEF n
  <2>3. /\ Len(s) + Need[t.a] \in Nat /\ Len(s) + Need[t.a] <= Len(s) + n
        /\ Len(s) + n \in Nat
    <3> DEFINE na == Need[t.a]
    <3>1. na \in Nat /\ Len(s) \in Nat
      BY <1>1, <1>3
    <3>2. n = Larger(na, 2)
      BY <2>1
    <3> HIDE DEF na
    <3>3. Larger(na, 2) \in Nat /\ Larger(na, 2) >= na /\ Larger(na, 2) >= 2
      BY <3>1, LargerOfTwo
    <3>4. /\ Len(s) + na \in Nat /\ Len(s) + na <= Len(s) + n
          /\ Len(s) + n \in Nat
      BY <2>2, <3>1, <3>2, <3>3
    <3> QED
      BY <3>4 DEF na
  <2> QED
    BY <2>2, <2>3, SmallerFits
<1>8. /\ Err \in Values[t.a] => f
      /\ Err \in Values[t] => f
      /\ \A v \in Values[t.a] \cap Word : Apply(t.op, v, v) \subseteq Values[t]
  <2>1. Values[t] = ValuesOf(Values, t) /\ Values \in [Trees -> Outcomes]
    BY <1>1, ValuesEquation
  <2> QED
    BY <1>1, <2>1, TwiceValues DEF Pre
<1>9. \A v \in Values[t] \cap Word : <<b + Len(ca) + 1 + 1, Append(s, v)>> \in Y
  BY <1>6 DEF Pre
<1>10. Len(s) + 2 > StackSize => f
  <2> DEFINE n == Need[t]
  <2>1. n = Larger(Need[t.a], 2)
    <3>1. n = NeedOf(Need, t)
      BY <1>1, NeedEquation
    <3> QED
      BY <3>1 DEF NeedOf
  <2>2. Fit(p, f, Len(s) + n)
    BY DEF Pre
  <2>3. n \in Nat /\ n >= 2
    BY <1>3, <2>1, SMTT(30) DEF Larger
  <2> HIDE DEF n
  <2> QED
    BY <1>1, <2>2, <2>3, ExpressionAssumption DEF Fit
<1>11. ASSUME NEW v \in Values[t.a] \cap Word
      PROVE  <<b + Len(ca), Append(s, v)>> \in Y
  <2>1. Apply(t.op, v, v) \subseteq Values[t]
    BY <1>8
  <2>2. <<b + Len(ca) + 1, Append(Append(s, v), v)>> \in Y
    BY <1>1, <1>2, <1>6, <1>8, <1>9, <2>1, BeforeBinary
  <2> QED
    BY <1>1, <1>6, <1>10, <2>2, BeforeDup
<1> QED
  BY <1>1, <1>3, <1>6, <1>7, <1>8, <1>11 DEF Claim, Pre, ca

LEMMA OverClaim ==
    ASSUME NEW p, NEW f, NEW Y, NEW t, Ready(p, f, Y, t), t.kind = "over"
    PROVE  Claim(p, f, Y, t)
<1> SUFFICES ASSUME NEW b, NEW s, Pre(p, f, Y, t, b, s)
             PROVE  <<b, s>> \in Y
  BY DEF Claim
<1> DEFINE ca == Compile[t.a]
           cb == Compile[t.b]
<1>1. /\ p \in Seq(Instructions) /\ f \in BOOLEAN /\ Backwards(p, f, Y)
      /\ b \in Nat /\ s \in Seq(Word) /\ Len(s) \in Nat /\ At(p, b, Compile[t])
      /\ t \in Trees /\ IsTree(t) /\ ReadAlike(p)
  BY ContextFacts
<1>2. Operand(t.a, t) /\ Operand(t.b, t) /\ t.op \in BinaryOps
  BY <1>1 DEF IsTree
<1>3. /\ t.a \in Trees /\ Claim(p, f, Y, t.a) /\ ca \in Seq(Instructions) /\ Len(ca) \in Nat
      /\ Values[t.a] \in Outcomes /\ Need[t.a] \in Nat /\ Need[t.a] >= 1
      /\ t.b \in Trees /\ Claim(p, f, Y, t.b) /\ cb \in Seq(Instructions) /\ Len(cb) \in Nat
      /\ Values[t.b] \in Outcomes /\ Need[t.b] \in Nat /\ Need[t.b] >= 1
  BY <1>2, OperandFacts
<1>4. Compile[t] = ca \o cb \o op1("pick", 1) \o op0("minus") \o op0(t.op)
  <2>1. Compile[t] = CompileOf(Compile, t)
    BY <1>1, CompileEquation
  <2> QED
    BY <2>1 DEF CompileOf
<1>5. op1("pick", 1) \in Seq(Instructions) /\ op0("minus") \in Seq(Instructions)
      /\ op0(t.op) \in Seq(Instructions)
  <2>1. op1("pick", 1) \in Seq(Instructions)
    BY <1>2, <1>3, LengthsAreIntegers, CodeOfOps DEF BinaryOps
  <2>2. op0("minus") \in Seq(Instructions)
    BY <1>2, <1>3, LengthsAreIntegers, CodeOfOps DEF BinaryOps
  <2>3. op0(t.op) \in Seq(Instructions)
    BY <1>2, <1>3, LengthsAreIntegers, CodeOfOps DEF BinaryOps
  <2> QED
    BY <2>1, <2>2, <2>3
<1> HIDE DEF ca, cb
<1>6. /\ At(p, b, ca)
      /\ At(p, b + Len(ca), cb)
      /\ At(p, b + Len(ca) + Len(cb), op1("pick", 1))
      /\ At(p, b + Len(ca) + Len(cb) + 1, op0("minus"))
      /\ At(p, b + Len(ca) + Len(cb) + 1 + 1, op0(t.op))
      /\ b + Len(Compile[t]) = b + Len(ca) + Len(cb) + 1 + 1 + 1
  <2>1. At(p, b, Join5(ca, cb, op1("pick", 1), op0("minus"), op0(t.op)))
        /\ Compile[t] = Join5(ca, cb, op1("pick", 1), op0("minus"), op0(t.op))
    BY <1>1, <1>4 DEF Join5
  <2>2. Split5(p, b, ca, cb, op1("pick", 1), op0("minus"), op0(t.op))
    BY <1>1, <1>3, <1>5, <2>1, Parts5
  <2>3. Len(op1("pick", 1)) = 1 /\ Len(op0("minus")) = 1 /\ Len(op0(t.op)) = 1
    BY OneInstruction
  <2> QED
    BY <2>1, <2>2, <2>3 DEF Split5
<1>7. Fit(p, f, Len(s) + Need[t.a]) /\ Fit(p, f, Len(s) + 1 + Need[t.b])
  <2> DEFINE n == Need[t]
  <2>1. n = Larger(Larger(Need[t.a], 1 + Need[t.b]), 3)
    <3>1. n = NeedOf(Need, t)
      BY <1>1, NeedEquation
    <3> QED
      BY <3>1 DEF NeedOf
  <2>2. n \in Nat /\ Fit(p, f, Len(s) + n)
    BY <1>1, NeedEquation DEF Pre, Positive
  <2> HIDE DEF n
  <2>3. /\ Len(s) + Need[t.a] \in Nat /\ Len(s) + Need[t.a] <= Len(s) + n
        /\ Len(s) + 1 + Need[t.b] \in Nat /\ Len(s) + 1 + Need[t.b] <= Len(s) + n
        /\ Len(s) + n \in Nat
    <3> DEFINE na == Need[t.a]
               nb == Need[t.b]
    <3>1. na \in Nat /\ nb \in Nat /\ Len(s) \in Nat
      BY <1>1, <1>3
    <3>2. n = Larger(Larger(na, 1 + nb), 3)
      BY <2>1
    <3> HIDE DEF na, nb
    <3>3. Larger(na, 1 + nb) \in Nat /\ Larger(na, 1 + nb) >= na /\ Larger(na, 1 + nb) >= 1 + nb
      BY <3>1, LargerOfTwo
    <3>4. Larger(Larger(na, 1 + nb), 3) \in Nat /\ Larger(Larger(na, 1 + nb), 3) >= Larger(na, 1 + nb)
          /\ Larger(Larger(na, 1 + nb), 3) >= 3
      BY <3>1, <3>3, LargerOfTwo
    <3>5. /\ Len(s) + na \in Nat /\ Len(s) + na <= Len(s) + n
          /\ Len(s) + 1 + nb \in Nat /\ Len(s) + 1 + nb <= Len(s) + n
          /\ Len(s) + n \in Nat
      BY <2>2, <3>1, <3>2, <3>3, <3>4
    <3> QED
      BY <3>5 DEF na, nb
  <2> QED
    BY <2>2, <2>3, SmallerFits
<1>8. /\ Err \in Values[t.a] \cup Values[t.b] => f
      /\ Err \in Values[t] => f
      /\ \A v \in Values[t.a] \cap Word, w \in Values[t.b] \cap Word : \A d \in Apply("minus", w, v) :
            Apply(t.op, v, d) \subseteq Values[t]
  <2>1. Values[t] = ValuesOf(Values, t) /\ Values \in [Trees -> Outcomes]
    BY <1>1, ValuesEquation
  <2> QED
    BY <1>1, <2>1, OverValues DEF Pre
<1>9. \A v \in Values[t] \cap Word : <<b + Len(ca) + Len(cb) + 1 + 1 + 1, Append(s, v)>> \in Y
  BY <1>6 DEF Pre
<1> DEFINE k == b + Len(ca) + Len(cb)
<1>11. Len(s) + 3 <= StackSize
  <2> DEFINE n == Need[t]
  <2>1. n = Larger(Larger(Need[t.a], 1 + Need[t.b]), 3)
    <3>1. n = NeedOf(Need, t)
      BY <1>1, NeedEquation
    <3> QED
      BY <3>1 DEF NeedOf
  <2>2. Fit(p, f, Len(s) + n)
    BY DEF Pre
  <2>3. n \in Nat /\ n >= 3
    BY <1>3, <2>1, SMTT(30) DEF Larger
  <2>4. Uses(p, "pick")
    <3>1. At(p, k, <<[op |-> "pick", arg |-> 1]>>)
      BY <1>6 DEF op1
    <3> HIDE DEF k
    <3>2. k \in 0 .. Len(p) - 1 /\ p[k + 1] = [op |-> "pick", arg |-> 1] /\ Len(p) \in Nat
      BY <1>1, <3>1, AtOne, LenProperties
    <3>3. k + 1 \in 1 .. Len(p) /\ p[k + 1].op = "pick"
      BY <3>2
    <3> QED
      BY <3>3 DEF Uses
  <2> HIDE DEF n
  <2> QED
    BY <1>1, <2>2, <2>3, <2>4, ExpressionAssumption DEF Fit
<1>10. ASSUME NEW v \in Values[t.a] \cap Word
      PROVE  <<b + Len(ca), Append(s, v)>> \in Y
  <2> DEFINE q == Append(s, v)
  <2>1. q \in Seq(Word) /\ Len(q) = Len(s) + 1
    BY <1>1, StackEntries
  <2>2. ASSUME NEW w \in Values[t.b] \cap Word
        PROVE  <<b + Len(ca) + Len(cb), Append(q, w)>> \in Y
    <3>1. ASSUME NEW d \in Apply("minus", w, v) \cap Word
          PROVE  <<k + 1 + 1, Append(Append(s, v), d)>> \in Y
      <4>1. Apply(t.op, v, d) \subseteq Values[t]
        BY <1>8
      <4> QED
        BY <1>1, <1>2, <1>6, <1>8, <1>9, <4>1, BeforeBinary
    <3>2. "minus" \in BinaryOps /\ Err \notin Apply("minus", w, v)
      BY MinusHasValue, TreesAssumption DEF BinaryOps
    <3>3. <<k + 1, Append(Append(q, w), v)>> \in Y
      BY <1>1, <1>6, <2>1, <3>1, <3>2, BeforeBinary
    <3> QED
      BY <1>1, <1>6, <1>11, <3>3, BeforeOver
  <2> HIDE DEF q
  <2>3. <<b + Len(ca), q>> \in Y
    BY <1>1, <1>3, <1>6, <1>7, <1>8, <2>1, <2>2 DEF Claim, Pre, ca, cb
  <2> QED
    BY <2>3 DEF q
<1> QED
  BY <1>1, <1>3, <1>6, <1>7, <1>8, <1>10 DEF Claim, Pre, ca

LEMMA RotClaim ==
    ASSUME NEW p, NEW f, NEW Y, NEW t, Ready(p, f, Y, t), t.kind = "rot"
    PROVE  Claim(p, f, Y, t)
<1> SUFFICES ASSUME NEW b, NEW s, Pre(p, f, Y, t, b, s)
             PROVE  <<b, s>> \in Y
  BY DEF Claim
<1> DEFINE ca == Compile[t.a]
           cb == Compile[t.b]
           cc == Compile[t.c]
<1>1. /\ p \in Seq(Instructions) /\ f \in BOOLEAN /\ Backwards(p, f, Y)
      /\ b \in Nat /\ s \in Seq(Word) /\ Len(s) \in Nat /\ At(p, b, Compile[t])
      /\ t \in Trees /\ IsTree(t) /\ ReadAlike(p)
  BY ContextFacts
<1>2. Operand(t.a, t) /\ Operand(t.b, t) /\ Operand(t.c, t) /\ t.op \in BinaryOps
  BY <1>1 DEF IsTree
<1>3. /\ t.a \in Trees /\ Claim(p, f, Y, t.a) /\ ca \in Seq(Instructions) /\ Len(ca) \in Nat
      /\ Values[t.a] \in Outcomes /\ Need[t.a] \in Nat /\ Need[t.a] >= 1
      /\ t.b \in Trees /\ Claim(p, f, Y, t.b) /\ cb \in Seq(Instructions) /\ Len(cb) \in Nat
      /\ Values[t.b] \in Outcomes /\ Need[t.b] \in Nat /\ Need[t.b] >= 1
      /\ t.c \in Trees /\ Claim(p, f, Y, t.c) /\ cc \in Seq(Instructions) /\ Len(cc) \in Nat
      /\ Values[t.c] \in Outcomes /\ Need[t.c] \in Nat /\ Need[t.c] >= 1
  BY <1>2, OperandFacts
<1>4. Compile[t] = ca \o cb \o cc \o op0("rot") \o op0("minus") \o op0(t.op)
  <2>1. Compile[t] = CompileOf(Compile, t)
    BY <1>1, CompileEquation
  <2> QED
    BY <2>1 DEF CompileOf
<1>5. op0("rot") \in Seq(Instructions) /\ op0("minus") \in Seq(Instructions)
      /\ op0(t.op) \in Seq(Instructions)
  <2>1. op0("rot") \in Seq(Instructions)
    BY <1>2, <1>3, LengthsAreIntegers, CodeOfOps DEF BinaryOps
  <2>2. op0("minus") \in Seq(Instructions)
    BY <1>2, <1>3, LengthsAreIntegers, CodeOfOps DEF BinaryOps
  <2>3. op0(t.op) \in Seq(Instructions)
    BY <1>2, <1>3, LengthsAreIntegers, CodeOfOps DEF BinaryOps
  <2> QED
    BY <2>1, <2>2, <2>3
<1> HIDE DEF ca, cb, cc
<1>6. /\ At(p, b, ca)
      /\ At(p, b + Len(ca), cb)
      /\ At(p, b + Len(ca) + Len(cb), cc)
      /\ At(p, b + Len(ca) + Len(cb) + Len(cc), op0("rot"))
      /\ At(p, b + Len(ca) + Len(cb) + Len(cc) + 1, op0("minus"))
      /\ At(p, b + Len(ca) + Len(cb) + Len(cc) + 1 + 1, op0(t.op))
      /\ b + Len(Compile[t]) = b + Len(ca) + Len(cb) + Len(cc) + 1 + 1 + 1
  <2>1. At(p, b, Join6(ca, cb, cc, op0("rot"), op0("minus"), op0(t.op)))
        /\ Compile[t] = Join6(ca, cb, cc, op0("rot"), op0("minus"), op0(t.op))
    BY <1>1, <1>4 DEF Join6
  <2>2. Split6(p, b, ca, cb, cc, op0("rot"), op0("minus"), op0(t.op))
    BY <1>1, <1>3, <1>5, <2>1, Parts6
  <2>3. Len(op0("rot")) = 1 /\ Len(op0("minus")) = 1 /\ Len(op0(t.op)) = 1
    BY OneInstruction
  <2> QED
    BY <2>1, <2>2, <2>3 DEF Split6
<1>7. Fit(p, f, Len(s) + Need[t.a]) /\ Fit(p, f, Len(s) + 1 + Need[t.b])
      /\ Fit(p, f, Len(s) + 2 + Need[t.c])
  <2> DEFINE n == Need[t]
  <2>1. n = Larger(Larger(Need[t.a], 1 + Need[t.b]), 2 + Need[t.c])
    <3>1. n = NeedOf(Need, t)
      BY <1>1, NeedEquation
    <3> QED
      BY <3>1 DEF NeedOf
  <2>2. n \in Nat /\ Fit(p, f, Len(s) + n)
    BY <1>1, NeedEquation DEF Pre, Positive
  <2> HIDE DEF n
  <2>3. /\ Len(s) + Need[t.a] \in Nat /\ Len(s) + Need[t.a] <= Len(s) + n
        /\ Len(s) + 1 + Need[t.b] \in Nat /\ Len(s) + 1 + Need[t.b] <= Len(s) + n
        /\ Len(s) + 2 + Need[t.c] \in Nat /\ Len(s) + 2 + Need[t.c] <= Len(s) + n
        /\ Len(s) + n \in Nat
    <3> DEFINE na == Need[t.a]
               nb == Need[t.b]
               nc == Need[t.c]
    <3>1. na \in Nat /\ nb \in Nat /\ nc \in Nat /\ Len(s) \in Nat
      BY <1>1, <1>3
    <3>2. n = Larger(Larger(na, 1 + nb), 2 + nc)
      BY <2>1
    <3> HIDE DEF na, nb, nc
    <3>3. Larger(na, 1 + nb) \in Nat /\ Larger(na, 1 + nb) >= na /\ Larger(na, 1 + nb) >= 1 + nb
      BY <3>1, LargerOfTwo
    <3>4. Larger(Larger(na, 1 + nb), 2 + nc) \in Nat
          /\ Larger(Larger(na, 1 + nb), 2 + nc) >= Larger(na, 1 + nb)
                /\ Larger(Larger(na, 1 + nb), 2 + nc) >= 2 + nc
      BY <3>1, <3>3, LargerOfTwo
    <3>5. /\ Len(s) + na \in Nat /\ Len(s) + na <= Len(s) + n
          /\ Len(s) + 1 + nb \in Nat /\ Len(s) + 1 + nb <= Len(s) + n
          /\ Len(s) + 2 + nc \in Nat /\ Len(s) + 2 + nc <= Len(s) + n
          /\ Len(s) + n \in Nat
      BY <2>2, <3>1, <3>2, <3>3, <3>4
    <3> QED
      BY <3>5 DEF na, nb, nc
  <2> QED
    BY <2>2, <2>3, SmallerFits
<1>8. /\ Err \in Values[t.a] \cup Values[t.b] \cup Values[t.c] => f
      /\ Err \in Values[t] => f
      /\ \A v \in Values[t.a] \cap Word, w \in Values[t.b] \cap Word, x \in Values[t.c] \cap Word :
            \A d \in Apply("minus", v, w) : Apply(t.op, x, d) \subseteq Values[t]
  <2>1. Values[t] = ValuesOf(Values, t) /\ Values \in [Trees -> Outcomes]
    BY <1>1, ValuesEquation
  <2> QED
    BY <1>1, <2>1, RotValues DEF Pre
<1>9. \A v \in Values[t] \cap Word : <<b + Len(ca) + Len(cb) + Len(cc) + 1 + 1 + 1, Append(s, v)>> \in Y
  BY <1>6 DEF Pre
<1> DEFINE k == b + Len(ca) + Len(cb)
<1>10. ASSUME NEW v \in Values[t.a] \cap Word
      PROVE  <<b + Len(ca), Append(s, v)>> \in Y
  <2> DEFINE q == Append(s, v)
  <2>1. q \in Seq(Word) /\ Len(q) = Len(s) + 1
    BY <1>1, StackEntries
  <2>2. ASSUME NEW w \in Values[t.b] \cap Word
        PROVE  <<b + Len(ca) + Len(cb), Append(q, w)>> \in Y
    <3> DEFINE z == Append(q, w)
    <3>1. z \in Seq(Word) /\ Len(z) = Len(s) + 2
      BY <1>1, <2>1, StackEntries
    <3>2. ASSUME NEW x \in Values[t.c] \cap Word
          PROVE  <<k + Len(cc), Append(z, x)>> \in Y
      <4>1. ASSUME NEW d \in Apply("minus", v, w) \cap Word
            PROVE  <<k + Len(cc) + 1 + 1, Append(Append(s, x), d)>> \in Y
        <5>1. Apply(t.op, x, d) \subseteq Values[t]
          BY <1>8
        <5> QED
          BY <1>1, <1>2, <1>6, <1>8, <1>9, <5>1, BeforeBinary
      <4>2. "minus" \in BinaryOps /\ Err \notin Apply("minus", v, w)
        BY MinusHasValue, TreesAssumption DEF BinaryOps
      <4>3. <<k + Len(cc) + 1, Append(Append(Append(s, x), v), w)>> \in Y
        <5> DEFINE y == Append(s, x)
        <5>1. y \in Seq(Word)
          BY <1>1, StackEntries
        <5> HIDE DEF y
        <5>2. \A d \in Apply("minus", v, w) \cap Word : <<k + Len(cc) + 1 + 1, Append(y, d)>> \in Y
          BY <4>1 DEF y
        <5>3. <<k + Len(cc) + 1, Append(Append(y, v), w)>> \in Y
          BY <1>1, <1>6, <4>2, <5>1, <5>2, BeforeBinary
        <5> QED
          BY <5>3 DEF y
      <4> QED
        BY <1>1, <1>6, <4>3, BeforeRot
    <3> HIDE DEF z
    <3>3. <<k, z>> \in Y
      BY <1>1, <1>3, <1>6, <1>7, <1>8, <3>1, <3>2 DEF Claim, Pre, ca, cb, cc
    <3> QED
      BY <3>3 DEF z
  <2> HIDE DEF q
  <2>3. <<b + Len(ca), q>> \in Y
    BY <1>1, <1>3, <1>6, <1>7, <1>8, <2>1, <2>2 DEF Claim, Pre, ca, cb
  <2> QED
    BY <2>3 DEF q
<1> QED
  BY <1>1, <1>3, <1>6, <1>7, <1>8, <1>10 DEF Claim, Pre, ca

LEMMA IfClaim ==
    ASSUME NEW p, NEW f, NEW Y, NEW t, Ready(p, f, Y, t), t.kind = "if"
    PROVE  Claim(p, f, Y, t)
<1> SUFFICES ASSUME NEW b, NEW s, Pre(p, f, Y, t, b, s)
             PROVE  <<b, s>> \in Y
  BY DEF Claim
<1> DEFINE ca == Compile[t.a]
           cb == Compile[t.b]
           cc == Compile[t.c]
<1>1. /\ p \in Seq(Instructions) /\ f \in BOOLEAN /\ Backwards(p, f, Y)
      /\ b \in Nat /\ s \in Seq(Word) /\ Len(s) \in Nat /\ At(p, b, Compile[t])
      /\ t \in Trees /\ IsTree(t)
  BY ContextFacts
<1>2. Operand(t.a, t) /\ Operand(t.b, t) /\ Operand(t.c, t)
  BY <1>1 DEF IsTree
<1>3. /\ t.a \in Trees /\ Claim(p, f, Y, t.a) /\ ca \in Seq(Instructions) /\ Len(ca) \in Nat
      /\ Values[t.a] \in Outcomes /\ Need[t.a] \in Nat /\ Need[t.a] >= 1
      /\ t.b \in Trees /\ Claim(p, f, Y, t.b) /\ cb \in Seq(Instructions) /\ Len(cb) \in Nat
      /\ Values[t.b] \in Outcomes /\ Need[t.b] \in Nat /\ Need[t.b] >= 1
      /\ t.c \in Trees /\ Claim(p, f, Y, t.c) /\ cc \in Seq(Instructions) /\ Len(cc) \in Nat
      /\ Values[t.c] \in Outcomes /\ Need[t.c] \in Nat /\ Need[t.c] >= 1
  BY <1>2, OperandFacts
<1>4. Compile[t] = ca \o op1("bra", Len(cc) + 1) \o cc \o op1("skip", Len(cb)) \o cb
  <2>1. Compile[t] = CompileOf(Compile, t)
    BY <1>1, CompileEquation
  <2> QED
    BY <2>1 DEF CompileOf
<1>5. op1("bra", Len(cc) + 1) \in Seq(Instructions) /\ op1("skip", Len(cb)) \in Seq(Instructions)
  <2>1. op1("bra", Len(cc) + 1) \in Seq(Instructions)
    BY <1>2, <1>3, LengthsAreIntegers, CodeOfOps DEF BinaryOps
  <2>2. op1("skip", Len(cb)) \in Seq(Instructions)
    BY <1>2, <1>3, LengthsAreIntegers, CodeOfOps DEF BinaryOps
  <2> QED
    BY <2>1, <2>2
<1> HIDE DEF ca, cb, cc
<1>6. /\ At(p, b, ca)
      /\ At(p, b + Len(ca), op1("bra", Len(cc) + 1))
      /\ At(p, b + Len(ca) + 1, cc)
      /\ At(p, b + Len(ca) + 1 + Len(cc), op1("skip", Len(cb)))
      /\ At(p, b + Len(ca) + 1 + Len(cc) + 1, cb)
      /\ b + Len(Compile[t]) = b + Len(ca) + 1 + Len(cc) + 1 + Len(cb)
  <2>1. At(p, b, Join5(ca, op1("bra", Len(cc) + 1), cc, op1("skip", Len(cb)), cb))
        /\ Compile[t] = Join5(ca, op1("bra", Len(cc) + 1), cc, op1("skip", Len(cb)), cb)
    BY <1>1, <1>4 DEF Join5
  <2>2. Split5(p, b, ca, op1("bra", Len(cc) + 1), cc, op1("skip", Len(cb)), cb)
    BY <1>1, <1>3, <1>5, <2>1, Parts5
  <2>3. Len(op1("bra", Len(cc) + 1)) = 1 /\ Len(op1("skip", Len(cb))) = 1
    BY OneInstruction
  <2> QED
    BY <2>1, <2>2, <2>3 DEF Split5
<1>7. Fit(p, f, Len(s) + Need[t.a]) /\ Fit(p, f, Len(s) + Need[t.b]) /\ Fit(p, f, Len(s) + Need[t.c])
  <2> DEFINE n == Need[t]
  <2>1. n = Larger(Need[t.a], Larger(Need[t.b], Need[t.c]))
    <3>1. n = NeedOf(Need, t)
      BY <1>1, NeedEquation
    <3> QED
      BY <3>1 DEF NeedOf
  <2>2. n \in Nat /\ Fit(p, f, Len(s) + n)
    BY <1>1, NeedEquation DEF Pre, Positive
  <2> HIDE DEF n
  <2>3. /\ Len(s) + Need[t.a] \in Nat /\ Len(s) + Need[t.a] <= Len(s) + n
        /\ Len(s) + Need[t.b] \in Nat /\ Len(s) + Need[t.b] <= Len(s) + n
        /\ Len(s) + Need[t.c] \in Nat /\ Len(s) + Need[t.c] <= Len(s) + n
        /\ Len(s) + n \in Nat
    <3> DEFINE na == Need[t.a]
               nb == Need[t.b]
               nc == Need[t.c]
    <3>1. na \in Nat /\ nb \in Nat /\ nc \in Nat /\ Len(s) \in Nat
      BY <1>1, <1>3
    <3>2. n = Larger(na, Larger(nb, nc))
      BY <2>1
    <3> HIDE DEF na, nb, nc
    <3>3. Larger(nb, nc) \in Nat /\ Larger(nb, nc) >= nb /\ Larger(nb, nc) >= nc
      BY <3>1, LargerOfTwo
    <3>4. Larger(na, Larger(nb, nc)) \in Nat /\ Larger(na, Larger(nb, nc)) >= na
          /\ Larger(na, Larger(nb, nc)) >= Larger(nb, nc)
      BY <3>1, <3>3, LargerOfTwo
    <3>5. /\ Len(s) + na \in Nat /\ Len(s) + na <= Len(s) + n
          /\ Len(s) + nb \in Nat /\ Len(s) + nb <= Len(s) + n
          /\ Len(s) + nc \in Nat /\ Len(s) + nc <= Len(s) + n
          /\ Len(s) + n \in Nat
      BY <2>2, <3>1, <3>2, <3>3, <3>4
    <3> QED
      BY <3>5 DEF na, nb, nc
  <2> QED
    BY <2>2, <2>3, SmallerFits
<1>8. /\ Err \in Values[t.a] => f
      /\ Err \in Values[t] => f
      /\ \A v \in Values[t.a] \cap Word : IF v # 0 THEN Values[t.b] \subseteq Values[t]
                                          ELSE Values[t.c] \subseteq Values[t]
  <2>1. Values[t] = ValuesOf(Values, t) /\ Values \in [Trees -> Outcomes]
    BY <1>1, ValuesEquation
  <2> QED
    BY <1>1, <2>1, IfValues DEF Pre
<1>9. \A v \in Values[t] \cap Word : <<b + Len(ca) + 1 + Len(cc) + 1 + Len(cb), Append(s, v)>> \in Y
  BY <1>6 DEF Pre
<1> DEFINE k == b + Len(ca)
           end == b + Len(ca) + 1 + Len(cc) + 1 + Len(cb)
<1>10. /\ k + 1 + (Len(cc) + 1) = k + 1 + Len(cc) + 1 /\ k + 1 + (Len(cc) + 1) <= Len(p)
       /\ k + 1 + Len(cc) + 1 + Len(cb) = end /\ end <= Len(p)
       /\ Len(cc) + 1 \in Nat
  <2>1. end <= Len(p) /\ Len(p) \in Nat
    BY <1>1, <1>6, LenProperties DEF At
  <2> QED
    BY <1>1, <1>3, <2>1
<1>11. ASSUME Values[t.b] \subseteq Values[t]
      PROVE  <<k + 1 + Len(cc) + 1, s>> \in Y
  <2>1. \A v \in Values[t.b] \cap Word : <<end, Append(s, v)>> \in Y
    BY <1>9, <1>11
  <2> QED
    BY <1>1, <1>3, <1>6, <1>7, <1>8, <1>11, <2>1 DEF Claim, Pre, cb
<1>12. ASSUME Values[t.c] \subseteq Values[t]
      PROVE  <<k + 1, s>> \in Y
  <2>1. ASSUME NEW v \in Values[t.c] \cap Word
        PROVE  <<k + 1 + Len(cc), Append(s, v)>> \in Y
    <3> DEFINE q == Append(s, v)
    <3>1. q \in Seq(Word)
      BY <1>1, StackEntries
    <3>2. <<end, q>> \in Y
      BY <1>9, <1>12
    <3> HIDE DEF q
    <3>3. <<k + 1 + Len(cc), q>> \in Y
      BY <1>1, <1>3, <1>6, <1>10, <3>1, <3>2, BeforeSkip
    <3> QED
      BY <3>3 DEF q
  <2> QED
    BY <1>1, <1>3, <1>6, <1>7, <1>8, <1>12, <2>1 DEF Claim, Pre, cc
<1>13. ASSUME NEW v \in Values[t.a] \cap Word
      PROVE  <<k, Append(s, v)>> \in Y
  <2>1. v # 0 => <<k + 1 + (Len(cc) + 1), s>> \in Y
    BY <1>8, <1>10, <1>11
  <2>2. v = 0 => <<k + 1, s>> \in Y
    BY <1>8, <1>12
  <2>3. At(p, k, op1("bra", Len(cc) + 1)) /\ Len(cc) + 1 \in Nat /\ k + 1 + (Len(cc) + 1) <= Len(p)
    BY <1>6, <1>10
  <2> HIDE DEF k
  <2> QED
    BY <1>1, <2>1, <2>2, <2>3, BeforeBranch
<1> QED
  BY <1>1, <1>3, <1>6, <1>7, <1>8, <1>13 DEF Claim, Pre, ca


----------------------------------------------------------------------------
(* The value of a tree.                                                    *)

LEMMA EveryClaim ==
    ASSUME NEW p, NEW f, NEW Y, Backwards(p, f, Y), ~ Uses(p, "bregx"), ReadAlike(p)
    PROVE  \A t \in Trees : t.kind # "malformed" => Claim(p, f, Y, t)
<1> DEFINE Refuted == {t \in Trees : t.kind # "malformed" /\ ~ Claim(p, f, Y, t)}
           Heights == {Height[t] : t \in Refuted}
<1>1. Height \in [Trees -> Nat]
  BY TreesAssumption
<1>2. SUFFICES ASSUME Heights # {}
               PROVE  FALSE
  OBVIOUS
<1>3. Heights \in SUBSET Nat
  BY <1>1
<1> HIDE DEF Heights
<1>4. PICK n \in Heights : \A m \in Heights : n <= m
  BY <1>2, <1>3, LeastNumber
<1>5. PICK t \in Refuted : Height[t] = n
  BY <1>4 DEF Heights
<1>6. ASSUME NEW u, Operand(u, t)
      PROVE  Claim(p, f, Y, u)
  <2>1. u \in Trees /\ Height[u] < Height[t] /\ u.kind # "malformed"
    BY <1>6 DEF Operand
  <2>2. SUFFICES ASSUME ~ Claim(p, f, Y, u)
                 PROVE  FALSE
    OBVIOUS
  <2>3. Height[u] \in Heights
    BY <2>1, <2>2 DEF Heights
  <2> QED
    BY <1>1, <1>4, <1>5, <2>1, <2>3
<1>7. Ready(p, f, Y, t)
  BY <1>5, <1>6 DEF Ready
<1>8. IsTree(t) /\ t.kind # "malformed" /\ ~ Claim(p, f, Y, t)
  BY <1>5, TreesAssumption
<1>9. \/ t.kind \in {"leaf", "unary", "uconst", "load", "loadSize", "farLoad", "farLoadSize"}
      \/ t.kind \in {"binary", "reversed", "twice", "first", "over", "rot", "if"}
  BY <1>8 DEF IsTree
<1>10. CASE t.kind \in {"leaf", "unary", "uconst", "load", "loadSize", "farLoad", "farLoadSize"}
  BY <1>7, <1>8, <1>10, LeafClaim, UnaryClaim, UconstClaim, LoadClaim, LoadSizeClaim,
     FarLoadClaim, FarLoadSizeClaim
<1>11. CASE t.kind \in {"binary", "reversed", "twice", "first", "over", "rot", "if"}
  BY <1>7, <1>8, <1>11, BinaryClaim, ReversedClaim, TwiceClaim, FirstClaim, OverClaim,
     RotClaim, IfClaim
<1> QED
  BY <1>9, <1>10, <1>11

MayFail(t) == Err \in Values[t] \/ Len(InitialStack) + Need[t] > StackSize

\* Where the program of t may end: at its last instruction, with a value of t on the stack.
Ends(t) == {<<Len(Compile[t]), Append(InitialStack, v)>> : v \in Values[t] \cap Word}

LEMMA StartIsSafe ==
    ASSUME NEW t \in Trees, t.kind # "malformed", ~ Uses(Compile[t], "bregx"), ReadAlike(Compile[t]),
           Uses(Compile[t], "pick") => Len(InitialStack) + Need[t] <= StackSize
    PROVE  <<0, InitialStack>> \in Safe(Compile[t], MayFail(t), Ends(t))
<1> DEFINE p == Compile[t]
           f == MayFail(t)
           S == Safe(p, f, Ends(t))
<1>1. p \in Seq(Instructions) /\ Len(p) \in Nat
  BY CompileEquation, LenProperties
<1>2. InitialStack \in Seq(Word) /\ Len(InitialStack) \in Nat /\ StackSize \in Nat
  BY ExpressionAssumption, LenProperties
<1>3. f \in BOOLEAN
  BY DEF MayFail
<1>4. Need[t] \in Nat
  BY NeedEquation DEF Positive
<1>5. Ends(t) \in SUBSET (Nat \X Seq(Word))
  <2>1. ASSUME NEW v \in Values[t] \cap Word
        PROVE  <<Len(p), Append(InitialStack, v)>> \in Nat \X Seq(Word)
    BY <1>1, <1>2, StackEntries
  <2> QED
    BY <2>1 DEF Ends
<1>6. Ends(t) \subseteq S
  <2> HIDE DEF p, f
  <2> QED
    BY <1>5, EndIsSafe
<1>7. At(p, 0, p) /\ 0 + Len(p) = Len(p)
  BY <1>1 DEF At
<1>8. Fit(p, f, Len(InitialStack) + Need[t])
  BY <1>2, <1>4 DEF Fit, MayFail
<1>9. Err \in Values[t] => f
  BY DEF MayFail
<1>10. \A v \in Values[t] \cap Word : <<0 + Len(p), Append(InitialStack, v)>> \in S
  BY <1>6, <1>7 DEF Ends
<1> HIDE DEF p, f
<1>11. Backwards(p, f, S)
  BY <1>1, <1>3, SafeBefore DEF Backwards
<1> HIDE DEF S
<1>12. Claim(p, f, S, t)
  BY <1>11, EveryClaim DEF p
<1>13. Pre(p, f, S, t, 0, InitialStack)
  BY <1>2, <1>7, <1>8, <1>9, <1>10 DEF Pre, p
<1>14. <<0, InitialStack>> \in S
  BY <1>12, <1>13 DEF Claim
<1> QED
  BY <1>14 DEF S, p, f

\* What holds on the way: the instruction and the stack are such that the program comes to
\* a value of the tree, or fails where it may.
OnTheWay == status = "running" => <<ip, stack>> \in Safe(program, MayFail(tree), Ends(tree))

IndInv ==
    /\ TypeOK
    /\ tree \in Trees /\ program = Compile[tree]
    /\ Exact => OnTheWay /\ ExpressionValue

LEMMA NextRuns == Next => status = "running" /\ (ip < Len(program) \/ finish)
<1> SUFFICES ASSUME Next
             PROVE  status = "running" /\ (ip < Len(program) \/ finish)
  OBVIOUS
<1>1. \A op : Instruction(op) => status = "running" /\ ip < Len(program)
  BY DEF Instruction
<1>2. CASE constant \/ breg \/ bregx \/ dup \/ drop \/ pick \/ swap \/ rotate
  BY <1>1, <1>2 DEF constant, breg, bregx, dup, drop, pick, swap, rotate
<1>3. CASE deref \/ xderef \/ deref_size \/ xderef_size \/ plus_uconst \/ skip \/ bra \/ nop \/ unsupported
  BY <1>1, <1>3 DEF deref, xderef, deref_size, xderef_size, plus_uconst, skip, bra, nop, unsupported
<1>4. CASE \E op \in UnaryOps : unary(op)
  BY <1>1, <1>4 DEF unary
<1>5. CASE \E op \in BinaryOps : binary(op)
  BY <1>1, <1>5 DEF binary
<1>6. CASE finish
  BY <1>6 DEF finish
<1> QED
  BY <1>2, <1>3, <1>4, <1>5, <1>6 DEF Next

LEMMA ExactStep ==
    ASSUME TypeOK, tree \in Trees, program = Compile[tree], OnTheWay,
           Next, UNCHANGED tree
    PROVE  OnTheWay' /\ ExpressionValue'
<1> DEFINE S == Safe(program, MayFail(tree), Ends(tree))
<1>1. status = "running" /\ (ip < Len(program) \/ finish)
  BY NextRuns
<1>2. <<ip, stack>> \in S
  BY <1>1 DEF OnTheWay
<1>3. \/ <<ip, stack>> \in Ends(tree)
      \/ Fine(program, MayFail(tree), S, ip, stack)
  BY <1>2, SafeIsClosed DEF Closed
<1>4. Len(program) \in Nat /\ ip \in 0 .. Len(program)
  BY LenProperties DEF TypeOK
<1>5. MayFail(tree) \in BOOLEAN
  BY DEF MayFail
<1>6. program' = program => S' = S
  OBVIOUS
<1>7. CASE ip < Len(program)
  <2>1. <<ip, stack>> \notin Ends(tree)
    BY <1>4, <1>7 DEF Ends
  <2>2. Fine(program, MayFail(tree), S, ip, stack)
    BY <1>3, <2>1
  <2> HIDE DEF S
  <2>3. Onward(MayFail(tree), S)
    BY <1>5, <2>2, StepIsFine
  <2>4. CASE status' = "running" /\ <<ip', stack'>> \in S
    <3>1. OnTheWay'
      BY <2>3, <2>4, <1>6 DEF Onward, OnTheWay, S
    <3>2. ExpressionValue'
      BY <2>4 DEF ExpressionValue, Errors
    <3> QED
      BY <3>1, <3>2
  <2>5. CASE status' \in Errors /\ MayFail(tree)
    BY <2>5 DEF OnTheWay, ExpressionValue, MayFail, Errors
  <2> QED
    BY <2>3, <2>4, <2>5 DEF Onward
<1>8. CASE ~ ip < Len(program)
  <2>1. ~ Fine(program, MayFail(tree), S, ip, stack)
    <3> HIDE DEF S
    <3> QED
      BY <1>4, <1>8 DEF Fine
  <2>2. PICK v \in Values[tree] \cap Word : stack = Append(InitialStack, v)
    BY <1>3, <2>1 DEF Ends
  <2>3. InitialStack \in Seq(Word)
    BY ExpressionAssumption
  <2>4. Len(stack) = Len(InitialStack) + 1 /\ Len(InitialStack) \in Nat
        /\ Peek(stack, 0) = v /\ Rest(stack, 1) = InitialStack
    BY <2>2, <2>3, OneOnTop
  <2>5. finish
    BY <1>1, <1>8
  <2>6. status' = "ESUCCESS" /\ result' = v /\ stack' = InitialStack
    BY <2>4, <2>5 DEF finish, depth, peek, Below, Peek, Rest
  <2> QED
    BY <2>6 DEF OnTheWay, ExpressionValue, Errors
<1> QED
  BY <1>7, <1>8

LEMMA TreeStarts == TreeInit => IndInv
<1> SUFFICES ASSUME TreeInit
             PROVE  IndInv
  OBVIOUS
<1>1. PICK t \in Trees : tree = t /\ Start(Compile[t])
  BY DEF TreeInit
<1>2. Compile[t] \in Seq(Instructions)
  BY CompileEquation
<1>3. TypeOK
  BY <1>1, <1>2, StartIsTyped
<1>4. program = Compile[t] /\ ip = 0 /\ stack = InitialStack /\ status = "running"
  BY <1>1 DEF Start
<1>5. Exact => OnTheWay
  BY <1>1, <1>4, StartIsSafe DEF Exact, OnTheWay
<1>6. ExpressionValue
  BY <1>4 DEF ExpressionValue, Errors
<1> QED
  BY <1>1, <1>3, <1>4, <1>5, <1>6 DEF IndInv

LEMMA ProgramStays ==
    ASSUME TypeOK, Next
    PROVE  UNCHANGED program
<1>1. \A z : Continue(z) => UNCHANGED program
  BY DEF Continue
<1>2. \A e : Fail(e) => UNCHANGED program
  BY DEF Fail
<1>3. \A z : Jump(z) => UNCHANGED program
  BY <1>2 DEF Jump
<1>4. \A z, a, n : Load(z, a, n) => UNCHANGED program
  BY <1>1, <1>2 DEF Load
<1>5. \A z, v : push(z, v) => UNCHANGED program
  BY <1>1, <1>2 DEF push
<1>6. \A r : RegisterFails(r) => UNCHANGED program
  BY <1>2 DEF RegisterFails
<1>7. CASE constant \/ breg \/ bregx \/ dup \/ drop \/ pick \/ swap \/ rotate
  BY <1>1, <1>2, <1>5, <1>6, <1>7 DEF constant, breg, bregx, dup, drop, pick, swap, rotate
<1>8. CASE deref \/ xderef \/ deref_size \/ xderef_size \/ plus_uconst \/ skip \/ bra \/ nop \/ unsupported
  BY <1>1, <1>2, <1>3, <1>4, <1>8 DEF deref, xderef, deref_size, xderef_size, plus_uconst, skip, bra,
     nop, unsupported
<1>9. CASE \E op \in UnaryOps : unary(op)
  BY <1>1, <1>2, <1>9 DEF unary
<1>10. CASE \E op \in BinaryOps : binary(op)
  BY <1>1, <1>2, <1>10 DEF binary
<1>11. CASE finish
  BY <1>2, <1>11 DEF finish
<1> QED
  BY <1>7, <1>8, <1>9, <1>10, <1>11 DEF Next

LEMMA TreeStepKeeps == IndInv /\ [Next /\ UNCHANGED tree]_treeVars => IndInv'
<1> SUFFICES ASSUME IndInv, [Next /\ UNCHANGED tree]_treeVars
             PROVE  IndInv'
  OBVIOUS
<1>1. CASE Next /\ UNCHANGED tree
  <2>1. TypeOK' /\ UNCHANGED program
    BY <1>1, TypeInductive, ProgramStays DEF IndInv
  <2>2. Exact' => Exact
    BY <1>1, <2>1 DEF Exact
  <2>3. Exact => OnTheWay' /\ ExpressionValue'
    BY <1>1, ExactStep DEF IndInv
  <2> QED
    BY <1>1, <2>1, <2>2, <2>3 DEF IndInv
<1>2. CASE UNCHANGED treeVars
  <2>1. UNCHANGED <<tree, program, ip, stack, status, result>>
    BY <1>2 DEF treeVars, vars
  <2>2. TypeOK' /\ (Exact' => Exact) /\ (OnTheWay => OnTheWay') /\ (ExpressionValue => ExpressionValue')
    BY <2>1 DEF IndInv, TypeOK, Exact, OnTheWay, ExpressionValue
  <2> QED
    BY <2>1, <2>2 DEF IndInv
<1> QED
  BY <1>1, <1>2

\* The programs of the trees, too, keep within their instructions and their stack
\* (dwarf_expression_eval, dwarf_stack).
THEOREM TreesAreTyped == TreeSpec => []TypeOK
<1>1. IndInv => TypeOK
  BY DEF IndInv
<1> QED
  BY <1>1, TreeStarts, TreeStepKeeps, PTL DEF TreeSpec

\* However deep the expression, evaluating its program gives a value of it and leaves the
\* stack below as it was, or fails where there is no value or no room (dwarf_expression_eval):
\* except for what bregx pushes twice and for an over that finds the stack full, and, where
\* the value is the one of DWARF 4, section 2.5, with its signed division and order
\* comparisons, except for the programs that use one of these.
THEOREM ExpressionsHaveTheirValue == TreeSpec => [](Exact => ExpressionValue)
<1>1. IndInv => (Exact => ExpressionValue)
  BY DEF IndInv
<1> QED
  BY <1>1, TreeStarts, TreeStepKeeps, PTL DEF TreeSpec

----------------------------------------------------------------------------
(* The way forward.                                                        *)

\* A program of an expression, which only branches forward, executes no instruction twice.
StepsForward ==
    [][tree.kind # "malformed" /\ status' = "running" => ip' > ip]_treeVars

Ahead(c) == \A k \in 1 .. Len(c) : c[k].op \in {"skip", "bra"} => c[k].arg \in Nat

LEMMA AheadJoined ==
    ASSUME NEW c \in Seq(Instructions), NEW d \in Seq(Instructions), Ahead(c), Ahead(d)
    PROVE  Ahead(c \o d)
<1>1. /\ Len(c) \in Nat /\ Len(d) \in Nat /\ Len(c \o d) = Len(c) + Len(d)
      /\ \A k \in 1 .. Len(c) + Len(d) : (c \o d)[k] = IF k <= Len(c) THEN c[k] ELSE d[k - Len(c)]
  BY LenProperties, ConcatProperties
<1>2. ASSUME NEW k \in 1 .. Len(c) + Len(d), (c \o d)[k].op \in {"skip", "bra"}
      PROVE  (c \o d)[k].arg \in Nat
  <2>1. CASE k <= Len(c)
    <3>1. k \in 1 .. Len(c) /\ (c \o d)[k] = c[k]
      BY <1>1, <2>1
    <3> QED
      BY <1>2, <3>1 DEF Ahead
  <2>2. CASE ~ k <= Len(c)
    <3>1. k - Len(c) \in 1 .. Len(d) /\ (c \o d)[k] = d[k - Len(c)]
      BY <1>1, <2>2
    <3> QED
      BY <1>2, <3>1 DEF Ahead
  <2> QED
    BY <2>1, <2>2
<1> QED
  BY <1>1, <1>2 DEF Ahead

LEMMA AheadOne ==
    ASSUME NEW i, i.op \in {"skip", "bra"} => i.arg \in Nat
    PROVE  Ahead(<<i>>)
<1>1. Len(<<i>>) = 1 /\ <<i>>[1] = i
  OBVIOUS
<1>2. \A k \in 1 .. 1 : k = 1
  OBVIOUS
<1> QED
  BY <1>1, <1>2 DEF Ahead

LEMMA AheadOps ==
    /\ \A o : o \notin {"skip", "bra"} => Ahead(op0(o))
    /\ \A o, a : o \notin {"skip", "bra"} \/ a \in Nat => Ahead(op1(o, a))
<1>1. ASSUME NEW o, o \notin {"skip", "bra"}
      PROVE  Ahead(op0(o))
  BY <1>1, AheadOne DEF op0
<1>2. ASSUME NEW o, NEW a, o \notin {"skip", "bra"} \/ a \in Nat
      PROVE  Ahead(op1(o, a))
  BY <1>2, AheadOne DEF op1
<1> QED
  BY <1>1, <1>2

\* Code that only branches forward.
Forwards(c) == c \in Seq(Instructions) /\ Ahead(c)

LEMMA ForwardsJoined == \A c, d : Forwards(c) /\ Forwards(d) => Forwards(c \o d)
BY AheadJoined, Joined DEF Forwards

LEMMA ForwardsOps ==
    /\ \A o \in UnaryOps \cup BinaryOps \cup {"dup", "drop", "swap", "rot", "deref", "xderef", "nop"} :
          Forwards(op0(o))
    /\ \A n \in Int : Forwards(op1("const", n)) /\ Forwards(op1("plus_uconst", n))
    /\ \A o \in {"pick", "deref_size", "xderef_size", "skip", "bra"}, n \in Nat : Forwards(op1(o, n))
<1>1. ASSUME NEW o \in UnaryOps \cup BinaryOps \cup {"dup", "drop", "swap", "rot", "deref", "xderef", "nop"}
      PROVE  Forwards(op0(o))
  <2>1. o \notin {"skip", "bra"}
    BY DEF UnaryOps, BinaryOps
  <2> QED
    BY <2>1, CodeOfOps, AheadOps DEF Forwards
<1>2. ASSUME NEW n \in Int
      PROVE  Forwards(op1("const", n)) /\ Forwards(op1("plus_uconst", n))
  BY CodeOfOps, AheadOps DEF Forwards
<1>3. ASSUME NEW o \in {"pick", "deref_size", "xderef_size", "skip", "bra"}, NEW n \in Nat
      PROVE  Forwards(op1(o, n))
  <2>1. op1(o, n) \in Seq(Instructions)
    <3>1. n \in Int
      OBVIOUS
    <3>2. CASE o \in {"pick", "deref_size", "xderef_size"}
      BY <3>1, <3>2, CodeOfOps
    <3>3. CASE o \in {"skip", "bra"}
      BY <3>1, <3>3, CodeOfOps
    <3> QED
      BY <3>2, <3>3
  <2>2. Ahead(op1(o, n))
    BY AheadOps
  <2> QED
    BY <2>1, <2>2 DEF Forwards
<1> QED
  BY <1>1, <1>2, <1>3

LEMMA TreesGoForward ==
    ASSUME NEW t \in Trees, t.kind # "malformed",
           \A u : Operand(u, t) => Forwards(Compile[u])
    PROVE  Forwards(Compile[t])
<1> DEFINE ca == Compile[t.a]
           cb == Compile[t.b]
           cc == Compile[t.c]
<1>1. IsTree(t) /\ Compile[t] = CompileOf(Compile, t)
  BY TreesAssumption, CompileEquation
<1>2. Forwards(op0("minus"))
  BY ForwardsOps DEF BinaryOps
<1>3. CASE t.kind = "leaf"
  <2>1. Compile[t] = <<t.leaf>> /\ IsLeaf(t.leaf)
    BY <1>1, <1>3 DEF CompileOf, IsTree
  <2>2. t.leaf \in Instructions /\ t.leaf.op \notin {"skip", "bra"}
    BY <2>1 DEF IsLeaf
  <2> QED
    BY <2>1, <2>2, CodeOfOps, AheadOne DEF Forwards
<1>4. CASE t.kind = "unary"
  <2>1. Compile[t] = ca \o op0(t.op) /\ Forwards(ca) /\ Forwards(op0(t.op))
    BY <1>1, <1>4, ForwardsOps DEF CompileOf, IsTree
  <2> QED
    BY <2>1, ForwardsJoined
<1>5. CASE t.kind = "uconst"
  <2>1. Compile[t] = ca \o op1("plus_uconst", t.n) /\ Forwards(ca) /\ Forwards(op1("plus_uconst", t.n))
    BY <1>1, <1>5, ForwardsOps DEF CompileOf, IsTree
  <2> QED
    BY <2>1, ForwardsJoined
<1>6. CASE t.kind = "load"
  <2>1. Compile[t] = ca \o op0("deref") /\ Forwards(ca) /\ Forwards(op0("deref"))
    BY <1>1, <1>6, ForwardsOps DEF CompileOf, IsTree
  <2> QED
    BY <2>1, ForwardsJoined
<1>7. CASE t.kind = "loadSize"
  <2>1. Compile[t] = ca \o op1("deref_size", t.n) /\ Forwards(ca) /\ Forwards(op1("deref_size", t.n))
    BY <1>1, <1>7, ForwardsOps DEF CompileOf, IsTree
  <2> QED
    BY <2>1, ForwardsJoined
<1>8. CASE t.kind = "farLoad"
  <2>1. /\ Compile[t] = op1("const", 1) \o ca \o op0("xderef")
        /\ Forwards(op1("const", 1)) /\ Forwards(ca) /\ Forwards(op0("xderef"))
    BY <1>1, <1>8, ForwardsOps DEF CompileOf, IsTree
  <2> QED
    BY <2>1, ForwardsJoined
<1>9. CASE t.kind = "farLoadSize"
  <2>1. /\ Compile[t] = op1("const", 1) \o ca \o op1("xderef_size", t.n)
        /\ t.n \in Nat /\ Operand(t.a, t)
    BY <1>1, <1>9 DEF CompileOf, IsTree
  <2>2. Forwards(ca)
    BY <2>1
  <2>3. Forwards(op1("const", 1)) /\ Forwards(op1("xderef_size", t.n))
    BY <2>1, ForwardsOps
  <2> QED
    BY <2>1, <2>2, <2>3, ForwardsJoined
<1>10. CASE t.kind = "binary"
  <2>1. /\ Compile[t] = ca \o cb \o op0(t.op)
        /\ Forwards(ca) /\ Forwards(cb) /\ Forwards(op0(t.op))
    BY <1>1, <1>10, ForwardsOps DEF CompileOf, IsTree
  <2> QED
    BY <2>1, ForwardsJoined
<1>11. CASE t.kind = "reversed"
  <2>1. /\ Compile[t] = cb \o ca \o op0("swap") \o op0(t.op)
        /\ Forwards(cb) /\ Forwards(ca) /\ Forwards(op0("swap")) /\ Forwards(op0(t.op))
    BY <1>1, <1>11, ForwardsOps DEF CompileOf, IsTree
  <2> QED
    BY <2>1, ForwardsJoined
<1>12. CASE t.kind = "twice"
  <2>1. /\ Compile[t] = ca \o op0("dup") \o op0(t.op)
        /\ Forwards(ca) /\ Forwards(op0("dup")) /\ Forwards(op0(t.op))
    BY <1>1, <1>12, ForwardsOps DEF CompileOf, IsTree
  <2> QED
    BY <2>1, ForwardsJoined
<1>13. CASE t.kind = "first"
  <2>1. /\ Compile[t] = ca \o cb \o op0("drop") \o op0("nop")
        /\ Forwards(ca) /\ Forwards(cb) /\ Forwards(op0("drop")) /\ Forwards(op0("nop"))
    BY <1>1, <1>13, ForwardsOps DEF CompileOf, IsTree
  <2> QED
    BY <2>1, ForwardsJoined
<1>14. CASE t.kind = "over"
  <2>1. /\ Compile[t] = ca \o cb \o op1("pick", 1) \o op0("minus") \o op0(t.op)
        /\ Forwards(ca) /\ Forwards(cb) /\ Forwards(op1("pick", 1)) /\ Forwards(op0(t.op))
    BY <1>1, <1>14, ForwardsOps DEF CompileOf, IsTree
  <2> QED
    BY <1>2, <2>1, ForwardsJoined
<1>15. CASE t.kind = "rot"
  <2>1. /\ Compile[t] = ca \o cb \o cc \o op0("rot") \o op0("minus") \o op0(t.op)
        /\ Forwards(ca) /\ Forwards(cb) /\ Forwards(cc) /\ Forwards(op0("rot")) /\ Forwards(op0(t.op))
    BY <1>1, <1>15, ForwardsOps DEF CompileOf, IsTree
  <2> QED
    BY <1>2, <2>1, ForwardsJoined
<1>16. CASE t.kind = "if"
  <2>1. /\ Compile[t] = ca \o op1("bra", Len(cc) + 1) \o cc \o op1("skip", Len(cb)) \o cb
        /\ Forwards(ca) /\ Forwards(cb) /\ Forwards(cc)
    BY <1>1, <1>16 DEF CompileOf, IsTree
  <2>2. Len(cb) \in Nat /\ Len(cc) + 1 \in Nat
    BY <2>1, LenProperties DEF Forwards
  <2>3. Forwards(op1("bra", Len(cc) + 1)) /\ Forwards(op1("skip", Len(cb)))
    BY <2>2, ForwardsOps
  <2> QED
    BY <2>1, <2>3, ForwardsJoined
<1> QED
  BY <1>1, <1>3, <1>4, <1>5, <1>6, <1>7, <1>8, <1>9, <1>10, <1>11, <1>12, <1>13, <1>14, <1>15,
     <1>16 DEF IsTree

LEMMA EveryTreeGoesForward == \A t \in Trees : t.kind # "malformed" => Forwards(Compile[t])
<1> DEFINE Bad == {t \in Trees : t.kind # "malformed" /\ ~ Forwards(Compile[t])}
           Heights == {Height[t] : t \in Bad}
<1>1. Height \in [Trees -> Nat]
  BY TreesAssumption
<1>2. SUFFICES ASSUME Heights # {}
               PROVE  FALSE
  OBVIOUS
<1>3. Heights \in SUBSET Nat
  BY <1>1
<1> HIDE DEF Heights
<1>4. PICK n \in Heights : \A m \in Heights : n <= m
  BY <1>2, <1>3, LeastNumber
<1>5. PICK t \in Bad : Height[t] = n
  BY <1>4 DEF Heights
<1>6. ASSUME NEW u, Operand(u, t)
      PROVE  Forwards(Compile[u])
  <2>1. u \in Trees /\ Height[u] < Height[t] /\ u.kind # "malformed"
    BY <1>6 DEF Operand
  <2>2. SUFFICES ASSUME ~ Forwards(Compile[u])
                 PROVE  FALSE
    OBVIOUS
  <2>3. Height[u] \in Heights
    BY <2>1, <2>2 DEF Heights
  <2> QED
    BY <1>1, <1>4, <1>5, <2>1, <2>3
<1> QED
  BY <1>5, <1>6, TreesGoForward

LEMMA StepGoesForward ==
    ASSUME TypeOK, Ahead(program), Next, status' = "running"
    PROVE  ip' > ip
<1>1. Len(program) \in Nat /\ ip \in Nat
  BY LenProperties DEF TypeOK
<1>2. \A z : Continue(z) => ip' > ip
  BY <1>1 DEF Continue
<1>3. \A e \in Errors : ~ Fail(e)
  BY DEF Fail, Errors
<1>4. {"EINVAL", "EINTERNAL", "ENOTSUP", "ENOTFOUND"} \subseteq Errors
  BY DEF Errors
<1>5. ASSUME NEW z, NEW op \in {"skip", "bra"}, Instruction(op), Jump(z)
      PROVE  ip' > ip
  <2>1. ip + 1 \in 1 .. Len(program) /\ program[ip + 1].op \in {"skip", "bra"}
    BY <1>1, <1>5 DEF Instruction
  <2>2. arg \in Nat
    BY <2>1 DEF Ahead, arg
  <2>3. ip' = ip + 1 + arg
    BY <1>3, <1>4, <1>5 DEF Jump
  <2> QED
    BY <1>1, <2>2, <2>3
<1>6. \A z, a, n : Load(z, a, n) => ip' > ip
  BY <1>2, <1>3, <1>4 DEF Load
<1>7. \A z, v : push(z, v) => ip' > ip
  BY <1>2, <1>3, <1>4 DEF push
<1>8. \A r : ~ RegisterFails(r)
  BY <1>3, <1>4 DEF RegisterFails
<1>9. CASE constant \/ breg \/ bregx \/ dup \/ drop \/ pick \/ swap \/ rotate
  BY <1>2, <1>3, <1>4, <1>7, <1>8, <1>9 DEF constant, breg, bregx, dup, drop, pick, swap, rotate
<1>10. CASE deref \/ xderef \/ deref_size \/ xderef_size \/ plus_uconst \/ nop \/ unsupported
  BY <1>2, <1>3, <1>4, <1>6, <1>10 DEF deref, xderef, deref_size, xderef_size, plus_uconst, nop, unsupported
<1>11. CASE skip \/ bra
  BY <1>2, <1>3, <1>4, <1>5, <1>11 DEF skip, bra
<1>12. CASE \E op \in UnaryOps : unary(op)
  BY <1>2, <1>3, <1>4, <1>12 DEF unary
<1>13. CASE \E op \in BinaryOps : binary(op)
  BY <1>2, <1>3, <1>4, <1>13 DEF binary
<1>14. ~ finish
  BY <1>3, <1>4 DEF finish
<1> QED
  BY <1>9, <1>10, <1>11, <1>12, <1>13, <1>14 DEF Next

\* What makes the evaluation end: a program of an expression, which only branches forward,
\* executes none of its instructions twice (DW_OP_skip and DW_OP_bra).
THEOREM ExpressionsStepForward == TreeSpec => StepsForward
<1>1. IndInv /\ [Next /\ UNCHANGED tree]_treeVars =>
         [tree.kind # "malformed" /\ status' = "running" => ip' > ip]_treeVars
  <2>1. ASSUME IndInv, Next, tree.kind # "malformed", status' = "running"
        PROVE  ip' > ip
    <3>1. Ahead(program)
      BY <2>1, EveryTreeGoesForward DEF IndInv, Forwards
    <3> QED
      BY <2>1, <3>1, StepGoesForward DEF IndInv
  <2> QED
    BY <2>1
<1> QED
  BY <1>1, TreeStarts, TreeStepKeeps, PTL DEF TreeSpec, StepsForward
=============================================================================
