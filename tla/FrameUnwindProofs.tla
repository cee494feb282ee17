-------------------------- MODULE FrameUnwindProofs --------------------------
(***************************************************************************)
(* For every program that the assumptions of FrameUnwind admit, however    *)
(* the linker cuts the unwind section into pages, and however the thread   *)
(* calls them: the search in the section finds the function that a pc is   *)
(* in, a list of registers is read back as it was packed, every frame that *)
(* the cursor returns has the registers with which its callee would have   *)
(* returned, and none is left out when all functions are described.        *)
(*                                                                         *)
(* StackInv says what the calls have left on the stack, WalkInv from which *)
(* of them the frames were read, and CompleteInv that none was passed over *)
(* where every function in progress is described.                          *)
(***************************************************************************)
EXTENDS FrameUnwind, FiniteSetTheorems, NaturalsInduction, SequenceTheorems, WellFoundedInduction, TLAPS

\* A set of numbers that is not empty has a least one.
LEMMA LeastNumber ==
    ASSUME NEW T \in SUBSET Nat, T # {}
    PROVE  \E m \in T : \A k \in T : m <= k
<1> DEFINE R == OpToRel(<, Nat)
<1>1. IsWellFoundedOn(R, Nat)
  BY NatLessThanWellFounded, Zenon
<1>2. \A x, y \in Nat : <<x, y>> \in R <=> x < y
  BY DEF OpToRel
<1> HIDE DEF R
<1>3. PICK x \in T : \A y \in T : ~(<<y, x>> \in R)
  BY <1>1, WFMin
<1>4. \A y \in T : ~(y < x)
  BY <1>2, <1>3
<1> QED
  BY <1>4

----------------------------------------------------------------------------
(* Numbers in order.                                                       *)

Below(S, x) == {y \in S : y < x}

LEMMA Ranks ==
    ASSUME NEW S \in SUBSET Int, IsFiniteSet(S)
    PROVE  /\ Cardinality(S) \in Nat
           /\ \A x \in S : Cardinality(Below(S, x)) \in 0 .. Cardinality(S) - 1
           /\ \A x, y \in S : x < y => Cardinality(Below(S, x)) < Cardinality(Below(S, y))
<1>1. Cardinality(S) \in Nat
  BY FS_CardinalityType
<1>2. ASSUME NEW x \in S
      PROVE  /\ IsFiniteSet(Below(S, x)) /\ Cardinality(Below(S, x)) \in Nat
             /\ Cardinality(Below(S, x)) < Cardinality(S)
  <2>1. Below(S, x) \in SUBSET S /\ Below(S, x) # S
    BY DEF Below
  <2>2. IsFiniteSet(Below(S, x)) /\ Cardinality(Below(S, x)) <= Cardinality(S)
        /\ Cardinality(Below(S, x)) # Cardinality(S)
    BY <2>1, FS_Subset
  <2>3. Cardinality(Below(S, x)) \in Nat
    BY <2>2, FS_CardinalityType
  <2> QED
    BY <1>1, <2>2, <2>3
<1>3. ASSUME NEW x \in S, NEW y \in S, x < y
      PROVE  Cardinality(Below(S, x)) < Cardinality(Below(S, y))
  <2>1. Below(S, x) \in SUBSET Below(S, y) /\ x \in Below(S, y) /\ x \notin Below(S, x)
    <3>1. \A z \in S : z < x => z < y
      BY <1>3
    <3>2. \A z \in Below(S, x) : z \in Below(S, y)
      BY <3>1 DEF Below
    <3>3. ~ (x < x)
      OBVIOUS
    <3> QED
      BY <1>3, <3>2, <3>3 DEF Below
  <2>2. Cardinality(Below(S, x)) <= Cardinality(Below(S, y))
        /\ Cardinality(Below(S, x)) # Cardinality(Below(S, y))
    BY <1>2, <2>1, FS_Subset
  <2> QED
    BY <1>2, <2>2
<1> QED
  BY <1>1, <1>2, <1>3

LEMMA Ascends ==
    ASSUME NEW S \in SUBSET Int, IsFiniteSet(S)
    PROVE  LET o == Ascending(S)
               n == Cardinality(S)
           IN /\ n \in Nat /\ o \in [1 .. n -> S]
              /\ \A i, j \in 1 .. n : i < j => o[i] < o[j]
              /\ \A x \in S : \E i \in 1 .. n : o[i] = x
<1> DEFINE n == Cardinality(S)
           rank == [x \in S |-> Cardinality(Below(S, x)) + 1]
           o == Ascending(S)
<1>1. n \in Nat
  BY Ranks
<1>2. rank \in [S -> 1 .. n]
  BY <1>1, Ranks
<1>3. \A x, y \in S : x < y => rank[x] < rank[y]
  <2>1. \A x \in S : Cardinality(Below(S, x)) \in Int
    BY <1>1, Ranks
  <2>2. \A x, y \in S : x < y => Cardinality(Below(S, x)) < Cardinality(Below(S, y))
    BY Ranks
  <2> QED
    BY <2>1, <2>2
<1>4. \A x, y \in S : rank[x] = rank[y] => x = y
  <2> HIDE DEF rank
  <2>1. \A x \in S : rank[x] \in Int
    BY <1>1, <1>2
  <2> QED
    BY <1>3, <2>1
<1>5. \A k \in 1 .. n : \E x \in S : rank[x] = k
  <2>1. rank \in Injection(S, 1 .. n)
    BY <1>2, <1>4 DEF Injection, IsInjective
  <2>2. IsFiniteSet(1 .. n) /\ Cardinality(1 .. n) = n
    BY <1>1, FS_Interval
  <2> HIDE DEF rank, n
  <2>3. rank \in Surjection(S, 1 .. n)
    <3>1. Cardinality(S) = n
      BY DEF n
    <3> QED
      BY <2>1, <2>2, <3>1, FS_Injection
  <2> QED
    BY <2>3 DEF Surjection
<1>6. ASSUME NEW k \in 1 .. n PROVE o[k] \in S /\ rank[o[k]] = k
  <2>1. o[k] = CHOOSE x \in S : Cardinality(Below(S, x)) = k - 1
    BY DEF Ascending, Kth, Below
  <2>2. \E x \in S : Cardinality(Below(S, x)) = k - 1
    <3>1. PICK x \in S : rank[x] = k
      BY <1>5
    <3>2. Cardinality(Below(S, x)) \in Int
      BY <1>1, Ranks
    <3> QED
      BY <3>1, <3>2
  <2> HIDE DEF o
  <2>3. o[k] \in S /\ Cardinality(Below(S, o[k])) = k - 1
    BY <2>1, <2>2
  <2> QED
    BY <2>3
<1>7. o = [k \in 1 .. n |-> Kth(S, k)]
  BY DEF Ascending
<1> HIDE DEF o, rank
<1>8. o \in [1 .. n -> S]
  BY <1>6, <1>7
<1>9. ASSUME NEW i \in 1 .. n, NEW j \in 1 .. n, i < j PROVE o[i] < o[j]
  <2>1. o[i] \in Int /\ o[j] \in Int
    BY <1>6
  <2>2. ~ (o[j] < o[i]) /\ o[j] # o[i]
    <3>1. rank[o[i]] = i /\ rank[o[j]] = j /\ o[i] \in S /\ o[j] \in S
      BY <1>6
    <3>2. o[j] < o[i] => rank[o[j]] < rank[o[i]]
      BY <1>3, <3>1
    <3> QED
      BY <1>1, <1>9, <3>1, <3>2
  <2> QED
    BY <2>1, <2>2
<1>10. ASSUME NEW x \in S PROVE \E i \in 1 .. n : o[i] = x
  <2>1. rank[x] \in 1 .. n
    BY <1>2
  <2> QED
    BY <1>4, <1>6, <2>1
<1> QED
  BY <1>1, <1>8, <1>9, <1>10 DEF o

----------------------------------------------------------------------------
(* The binary search.                                                      *)

\* A step of it, for a function that answers for narrower bounds.
Half(g, offsets, pc, min, max) ==
    LET mid == (min + max) \div 2 IN
    IF max < min THEN 0
    ELSE IF offsets[mid] < pc
    THEN IF mid = max \/ offsets[mid + 1] > pc THEN mid ELSE g[<<mid + 1, max>>]
    ELSE IF offsets[mid] = pc THEN mid
    ELSE IF mid = 1 THEN 0 ELSE g[<<min, mid - 1>>]

Bounds(n) == (1 .. n + 1) \X (0 .. n)

\* A function that answers for the bounds up to a width.
Answers(g, offsets, pc, width) ==
    \A min \in 1 .. Len(offsets) + 1, max \in 0 .. Len(offsets) :
        max - min < width => g[<<min, max>>] = Half(g, offsets, pc, min, max)

LEMMA NarrowerBounds ==
    ASSUME NEW n \in Nat, NEW min \in 1 .. n + 1, NEW max \in 0 .. n, ~ (max < min)
    PROVE  LET mid == (min + max) \div 2
           IN /\ mid \in min .. max
              /\ mid # max => mid + 1 \in 1 .. n + 1
              /\ mid # 1 => mid - 1 \in 0 .. n
OBVIOUS

LEMMA SameHalf ==
    ASSUME NEW n \in Nat, NEW min \in 1 .. n + 1, NEW max \in 0 .. n, NEW offsets, NEW pc, NEW g, NEW h,
           \A a \in 1 .. n + 1, b \in 0 .. n : b - a < max - min => g[<<a, b>>] = h[<<a, b>>]
    PROVE  Half(g, offsets, pc, min, max) = Half(h, offsets, pc, min, max)
<1> DEFINE mid == (min + max) \div 2
<1>1. CASE max < min
  BY <1>1 DEF Half
<1>2. CASE ~ (max < min)
  <2>1. /\ mid \in min .. max
        /\ mid # max => mid + 1 \in 1 .. n + 1
        /\ mid # 1 => mid - 1 \in 0 .. n
    BY <1>2, NarrowerBounds
  <2> HIDE DEF mid
  <2>2. mid # max => g[<<mid + 1, max>>] = h[<<mid + 1, max>>]
    BY <2>1
  <2>3. mid # 1 => g[<<min, mid - 1>>] = h[<<min, mid - 1>>]
    BY <2>1
  <2> QED
    BY <1>2, <2>2, <2>3 DEF Half, mid
<1> QED
  BY <1>1, <1>2

LEMMA AnswersExist ==
    ASSUME NEW offsets, NEW pc, Len(offsets) \in Nat
    PROVE  \A width \in Nat : \E g : Answers(g, offsets, pc, width - Len(offsets) - 1)
<1> DEFINE n == Len(offsets)
           T == {w \in Nat : ~ \E g : Answers(g, offsets, pc, w - n - 1)}
<1>0. n \in Nat
  OBVIOUS
<1> HIDE DEF n
<1>1. SUFFICES ASSUME T # {} PROVE FALSE
  BY DEF n
<1>2. PICK w \in T : \A v \in T : w <= v
  <2>1. T \in SUBSET Nat
    OBVIOUS
  <2> HIDE DEF T
  <2> QED
    BY <1>1, <2>1, LeastNumber
<1>3. w # 0
  <2>1. \A g : Answers(g, offsets, pc, 0 - n - 1)
    BY <1>0 DEF Answers, n
  <2> QED
    BY <1>2, <2>1
<1>4. w - 1 \in Nat /\ w - 1 \notin T
  BY <1>2, <1>3
<1>5. PICK g : Answers(g, offsets, pc, w - 1 - n - 1)
  BY <1>4
<1> DEFINE h == [b \in Bounds(n) |-> IF b[2] - b[1] = w - 1 - n - 1
                                     THEN Half(g, offsets, pc, b[1], b[2]) ELSE g[b]]
<1>6. \A a \in 1 .. n + 1, b \in 0 .. n :
          h[<<a, b>>] = IF b - a = w - 1 - n - 1 THEN Half(g, offsets, pc, a, b) ELSE g[<<a, b>>]
  BY DEF Bounds
<1> HIDE DEF h
<1>7. Answers(h, offsets, pc, w - n - 1)
  <2> SUFFICES ASSUME NEW min \in 1 .. n + 1, NEW max \in 0 .. n, max - min < w - n - 1
               PROVE  h[<<min, max>>] = Half(h, offsets, pc, min, max)
    BY DEF Answers, n
  <2>1. Half(h, offsets, pc, min, max) = Half(g, offsets, pc, min, max)
    <3>1. \A a \in 1 .. n + 1, b \in 0 .. n : b - a < max - min => h[<<a, b>>] = g[<<a, b>>]
      BY <1>0, <1>6
    <3> HIDE DEF T
    <3> QED
      BY <1>0, <3>1, SameHalf, SMTT(30)
  <2>2. CASE max - min = w - 1 - n - 1
    BY <1>6, <2>1, <2>2
  <2>3. CASE max - min # w - 1 - n - 1
    <3>1. max - min < w - 1 - n - 1
      BY <1>0, <2>3
    <3> QED
      BY <1>5, <1>6, <2>1, <2>3, <3>1 DEF Answers, n
  <2> QED
    BY <2>2, <2>3
<1> QED
  BY <1>2, <1>7

\* The search is the function that answers for all bounds.
LEMMA SearchAnswers ==
    ASSUME NEW offsets, NEW pc, Len(offsets) \in Nat
    PROVE  \E g : /\ Answers(g, offsets, pc, Len(offsets))
                  /\ Search(offsets, pc) = g[<<1, Len(offsets)>>]
<1> DEFINE n == Len(offsets)
           Is(g) == g = [b \in Bounds(n) |-> Half(g, offsets, pc, b[1], b[2])]
           at == CHOOSE g : Is(g)
<1>1. PICK g : Answers(g, offsets, pc, n)
  <2>1. PICK w \in Nat : w = n + n + 1
    OBVIOUS
  <2>2. \E g : Answers(g, offsets, pc, w - n - 1)
    BY AnswersExist
  <2>3. w - n - 1 = n
    BY <2>1
  <2> QED
    BY <2>2, <2>3
<1> DEFINE h == [b \in Bounds(n) |-> g[b]]
<1>2. \A min \in 1 .. n + 1, max \in 0 .. n : h[<<min, max>>] = g[<<min, max>>]
  BY DEF Bounds
<1>3. Is(h)
  <2>1. ASSUME NEW min \in 1 .. n + 1, NEW max \in 0 .. n
        PROVE  h[<<min, max>>] = Half(h, offsets, pc, min, max)
    <3>1. max - min < n
      OBVIOUS
    <3> HIDE DEF h
    <3>2. Half(h, offsets, pc, min, max) = Half(g, offsets, pc, min, max)
      BY <1>2, SameHalf, SMTT(30)
    <3> QED
      BY <1>1, <1>2, <3>1, <3>2 DEF Answers
  <2>2. h = [b \in Bounds(n) |-> g[b]]
    OBVIOUS
  <2> HIDE DEF h
  <2>3. \A b \in Bounds(n) : h[b] = Half(h, offsets, pc, b[1], b[2])
    BY <2>1 DEF Bounds
  <2> QED
    BY <2>2, <2>3
<1>4. Is(at)
  <2> HIDE DEF Is, h
  <2> QED
    BY <1>3
<1>5. Search(offsets, pc) = at[<<1, n>>]
  BY DEF Search, Half, Bounds
<1>6. Answers(at, offsets, pc, n)
  <2> HIDE DEF at
  <2> QED
    BY <1>4 DEF Answers, Bounds
<1> HIDE DEF at
<1> QED
  BY <1>5, <1>6

\* In a table in order the search finds the last entry that is not above the pc.
LEMMA SearchFinds ==
    ASSUME NEW offsets, NEW n \in Nat, Len(offsets) = n,
           \A i \in 1 .. n : offsets[i] \in Int,
           \A i, j \in 1 .. n : i < j => offsets[i] < offsets[j],
           NEW pc \in Int, NEW k \in 1 .. n, offsets[k] <= pc, k < n => pc < offsets[k + 1]
    PROVE  Search(offsets, pc) = k
<1>1. PICK g : Answers(g, offsets, pc, n) /\ Search(offsets, pc) = g[<<1, n>>]
  BY SearchAnswers
<1>2. \A i \in 1 .. n : /\ i <= k => offsets[i] <= pc
                        /\ i > k => offsets[i] > pc
                        /\ offsets[i] = pc => i = k
  <2> TAKE i \in 1 .. n
  <2>1. i < k => offsets[i] < offsets[k]
    OBVIOUS
  <2>2. i > k => k + 1 \in 1 .. n /\ pc < offsets[k + 1]
    OBVIOUS
  <2>3. i > k /\ i # k + 1 => offsets[k + 1] < offsets[i]
    <3>1. i > k /\ i # k + 1 => k + 1 \in 1 .. n /\ k + 1 < i
      OBVIOUS
    <3> QED
      BY <3>1
  <2>4. offsets[i] \in Int /\ offsets[k] \in Int /\ (i > k => offsets[k + 1] \in Int)
    BY <2>2
  <2> QED
    BY <2>1, <2>2, <2>3, <2>4
<1> DEFINE T == {w \in Nat : \E min \in 1 .. k, max \in k .. n : max - min = w /\ g[<<min, max>>] # k}
<1>3. T = {}
  <2> SUFFICES ASSUME T # {} PROVE FALSE
    OBVIOUS
  <2>1. PICK w \in T : \A v \in T : w <= v
    <3>1. T \in SUBSET Nat
      OBVIOUS
    <3> HIDE DEF T
    <3> QED
      BY <3>1, LeastNumber
  <2>2. PICK min \in 1 .. k, max \in k .. n : max - min = w /\ g[<<min, max>>] # k
    BY <2>1
  <2> DEFINE mid == (min + max) \div 2
  <2>3. /\ mid \in min .. max /\ mid \in 1 .. n /\ ~ (max < min)
        /\ min \in 1 .. n + 1 /\ max \in 0 .. n /\ max - min < n
    OBVIOUS
  <2>4. g[<<min, max>>] = Half(g, offsets, pc, min, max)
    BY <1>1, <2>3 DEF Answers
  <2>5. \A a \in 1 .. k, b \in k .. n : b - a < w => g[<<a, b>>] = k
    <3> TAKE a \in 1 .. k, b \in k .. n
    <3>1. b - a < w => b - a \in Nat /\ b - a \notin T
      <4>1. b - a \in Nat /\ (b - a < w => ~ (w <= b - a))
        OBVIOUS
      <4> HIDE DEF T
      <4> QED
        BY <2>1, <4>1
    <3> QED
      BY <3>1
  <2> HIDE DEF mid, T
  <2>6. CASE offsets[mid] < pc
    <3>1. mid <= k /\ (mid = max => mid = k)
      BY <1>2, <2>3, <2>6
    <3>2. mid # max => mid + 1 \in 1 .. n /\ (offsets[mid + 1] > pc => mid + 1 > k)
      BY <1>2, <2>3
    <3>3. mid # max /\ ~ (offsets[mid + 1] > pc) => mid + 1 <= k
      BY <1>2, <2>3
    <3>4. mid # max /\ ~ (offsets[mid + 1] > pc) => g[<<mid + 1, max>>] = k
      BY <2>2, <2>3, <2>5, <3>3
    <3> QED
      BY <2>2, <2>3, <2>4, <2>6, <3>1, <3>2, <3>4 DEF Half, mid
  <2>7. CASE offsets[mid] = pc
    BY <1>2, <2>2, <2>3, <2>4, <2>7 DEF Half, mid
  <2>8. CASE ~ (offsets[mid] < pc) /\ offsets[mid] # pc
    <3>1. mid > k
      BY <1>2, <2>3, <2>8
    <3>2. mid # 1 /\ mid - 1 \in k .. n /\ mid - 1 - min < w
      BY <2>2, <2>3, <3>1
    <3>3. g[<<min, mid - 1>>] = k
      BY <2>5, <3>2
    <3> QED
      BY <2>2, <2>3, <2>4, <2>8, <3>2, <3>3 DEF Half, mid
  <2> QED
    BY <2>6, <2>7, <2>8
<1>4. 1 \in 1 .. k /\ n \in k .. n /\ n - 1 \in Nat
  OBVIOUS
<1>5. g[<<1, n>>] = k
  BY <1>3, <1>4
<1> QED
  BY <1>1, <1>5

----------------------------------------------------------------------------
(* The functions of a program and the sections that describe them.         *)

ProgramOK == functions \in Programs /\ layout \in Layouts /\ arch \in Architectures

LEMMA ProgramFacts ==
    ASSUME ProgramOK
    PROVE  /\ Len(functions) \in Nat /\ Functions = 1 .. Len(functions)
           /\ \A f \in Functions : IsFunction(functions[f])
           /\ InImage \subseteq Functions /\ InImage # {} /\ IsFiniteSet(InImage)
           /\ FunctionSize * (Len(functions) + 1) <= HeaderAddr
           /\ HeaderAddr \in Nat
<1>1. /\ Len(functions) \in Nat /\ Functions = 1 .. Len(functions)
      /\ \A f \in Functions : IsFunction(functions[f])
      /\ FunctionSize * (Len(functions) + 1) <= HeaderAddr
      /\ \E f \in Functions : functions[f].info # "outside"
  BY ProgramAssumption DEF ProgramOK, Functions
<1>2. InImage \subseteq Functions /\ InImage # {}
  BY <1>1 DEF InImage
<1>3. IsFiniteSet(InImage)
  <2>1. IsFiniteSet(1 .. Len(functions))
    BY <1>1, FS_Interval
  <2>2. InImage \in SUBSET (1 .. Len(functions))
    BY <1>1, <1>2
  <2> QED
    BY <2>1, <2>2, FS_Subset
<1> QED
  BY <1>1, <1>2, <1>3, UnwindAssumption

LEMMA StartIs ==
    ASSUME ProgramOK, NEW f \in Functions
    PROVE  /\ Start(f) \in Nat
           /\ f \in InImage => Start(f) = HeaderAddr + FunctionSize * f
           /\ f \notin InImage => Start(f) = 2 * HeaderAddr + FunctionSize * f
BY ProgramFacts DEF Start, InImage, FunctionSize

\* The functions of the image by their numbers.
Order == Ascending(InImage)
Count == Cardinality(InImage)
Offset == [i \in 1 .. Count |-> Start(Order[i]) - HeaderAddr]
Encodings == [i \in 1 .. Count |-> Encoding(functions[Order[i]])]
Common == SubSeq(Encodings, 1, IF layout.common < Count THEN layout.common ELSE Count)

LEMMA OrderIs ==
    ASSUME ProgramOK
    PROVE  /\ Count \in Nat \ {0} /\ Order \in [1 .. Count -> InImage]
           /\ \A i, j \in 1 .. Count : i < j => Order[i] < Order[j]
           /\ \A f \in InImage : \E i \in 1 .. Count : Order[i] = f
<1>1. InImage \in SUBSET Int /\ IsFiniteSet(InImage) /\ InImage # {}
  BY ProgramFacts
<1>2. Count # 0
  BY <1>1, FS_EmptySet DEF Count
<1> QED
  BY <1>1, <1>2, Ascends DEF Order, Count

LEMMA OffsetIs ==
    ASSUME ProgramOK
    PROVE  /\ \A i \in 1 .. Count : Offset[i] = FunctionSize * Order[i] /\ Offset[i] \in Nat
           /\ \A i, j \in 1 .. Count : i < j => Offset[i] + FunctionSize <= Offset[j]
<1>1. \A i \in 1 .. Count : Order[i] \in InImage /\ Order[i] \in Nat /\ Order[i] \in Functions
  BY OrderIs, ProgramFacts
<1>2. \A i \in 1 .. Count : Offset[i] = FunctionSize * Order[i] /\ Offset[i] \in Nat
  <2> TAKE i \in 1 .. Count
  <2>1. Start(Order[i]) = HeaderAddr + FunctionSize * Order[i]
    BY <1>1, StartIs
  <2> QED
    BY <1>1, <2>1, ProgramFacts DEF Offset, FunctionSize
<1>3. ASSUME NEW i \in 1 .. Count, NEW j \in 1 .. Count, i < j
      PROVE  Offset[i] + FunctionSize <= Offset[j]
  <2>1. Order[i] < Order[j]
    BY <1>3, OrderIs
  <2> QED
    BY <1>1, <1>2, <2>1 DEF FunctionSize
<1> QED
  BY <1>2, <1>3

LEMMA EncodingsAre ==
    ASSUME ProgramOK
    PROVE  LET m == IF layout.common < Count THEN layout.common ELSE Count
           IN /\ m \in 0 .. Count /\ Len(Common) = m /\ DOMAIN Common = 1 .. m
              /\ \A c \in 1 .. m : Common[c] = Encodings[c]
              /\ DOMAIN Encodings = 1 .. Count
<1> DEFINE m == IF layout.common < Count THEN layout.common ELSE Count
<1>1. m \in 0 .. Count /\ Count \in Nat
  BY OrderIs, ProgramAssumption DEF ProgramOK
<1>2. DOMAIN Encodings = 1 .. Count
  BY DEF Encodings
<1>3. Common = SubSeq(Encodings, 1, m)
  BY DEF Common
<1> HIDE DEF m
<1> DEFINE S == {Encodings[i] : i \in 1 .. Count}
<1>4. Encodings \in Seq(S)
  <2>1. Encodings \in [1 .. Count -> S]
    BY <1>2 DEF Encodings
  <2> HIDE DEF S
  <2> QED
    BY <1>1, <2>1
<1>5. Len(Encodings) = Count
  BY <1>1, <1>2, <1>4
<1> HIDE DEF S
<1>6. Len(Common) = m /\ DOMAIN Common = 1 .. m /\ \A c \in 1 .. m : Common[c] = Encodings[c]
  BY <1>1, <1>3, <1>4, <1>5
<1> QED
  BY <1>1, <1>2, <1>6 DEF m

PageOffsets(base, page) == [e \in DOMAIN page.entries |-> base + page.entries[e].offset]

\* The entry that a search in a compressed page finds, and its position among the page's own.
EntryOf(base, page, pc) == page.entries[Search(PageOffsets(base, page), pc)]
OwnOf(common, base, page, pc) == EntryOf(base, page, pc).encoding - Len(common)

LEMMA CompressedEntryIs ==
    ASSUME NEW common, NEW base, NEW page, NEW pc,
           Search(PageOffsets(base, page), pc) # 0, Len(page.encodings) \in Nat,
           OwnOf(common, base, page, pc) \in Int,
           OwnOf(common, base, page, pc) < Len(page.encodings)
    PROVE  CompressedEntry(common, base, page, pc) =
              [error |-> "ESUCCESS", function |-> base + EntryOf(base, page, pc).offset,
               encoding |-> IF OwnOf(common, base, page, pc) < 0
                            THEN common[EntryOf(base, page, pc).encoding + 1]
                            ELSE page.encodings[OwnOf(common, base, page, pc) + 1]]
<1> DEFINE i == Search(PageOffsets(base, page), pc)
           own == page.entries[i].encoding - Len(common)
<1>1. i # 0 /\ own \in Int /\ own < Len(page.encodings)
      /\ EntryOf(base, page, pc) = page.entries[i] /\ OwnOf(common, base, page, pc) = own
  BY DEF EntryOf, OwnOf
<1>2. i = Search([e \in DOMAIN page.entries |-> base + page.entries[e].offset], pc)
  BY DEF PageOffsets
<1> HIDE DEF i
<1>3. CASE own < 0
  <2>1. ~ (own \in 0 .. Len(page.encodings) - 1) /\ ~ (own >= Len(page.encodings))
    BY <1>1, <1>3
  <2> QED
    BY <1>1, <1>2, <1>3, <2>1 DEF CompressedEntry
<1>4. CASE ~ (own < 0)
  <2>1. own \in 0 .. Len(page.encodings) - 1 /\ ~ (own >= Len(page.encodings))
    BY <1>1, <1>4
  <2> QED
    BY <1>1, <1>2, <1>4, <2>1 DEF CompressedEntry
<1> QED
  BY <1>3, <1>4

\* The offsets of the functions from the a-th to the b-th.
Table(a, b) == [j \in 1 .. b - a + 1 |-> Offset[a + j - 1]]

LEMMA TableFinds ==
    ASSUME ProgramOK, NEW a \in 1 .. Count, NEW b \in a .. Count, NEW i \in a .. b,
           NEW pc \in Offset[i] .. Offset[i] + FunctionSize - 1
    PROVE  Search(Table(a, b), pc) = i - a + 1
<1> DEFINE n == b - a + 1
           k == i - a + 1
           table == Table(a, b)
<1>0. n \in Nat /\ k \in 1 .. n /\ Count \in Nat /\ a + k - 1 = i
      /\ \A j \in 1 .. n : a + j - 1 \in 1 .. Count
  BY OrderIs
<1>1. /\ \A j \in 1 .. Count : Offset[j] \in Int
      /\ \A h, j \in 1 .. Count : h < j => Offset[h] < Offset[j] /\ Offset[h] + FunctionSize <= Offset[j]
  BY OffsetIs DEF FunctionSize
<1>2. table = [j \in 1 .. n |-> Offset[a + j - 1]]
  BY DEF Table
<1> HIDE DEF table, n, k
<1>3. Len(table) = n
  BY <1>0, <1>2
<1>4. \A j \in 1 .. n : table[j] \in Int
  BY <1>0, <1>1, <1>2
<1>5. \A h, j \in 1 .. n : h < j => table[h] < table[j]
  <2> TAKE h, j \in 1 .. n
  <2>1. table[h] = Offset[a + h - 1] /\ table[j] = Offset[a + j - 1]
    BY <1>2
  <2> QED
    BY <1>0, <1>1, <2>1
<1>6. table[k] = Offset[i]
  BY <1>0, <1>2
<1>7. i \in 1 .. Count /\ Offset[i] \in Int
  BY <1>0, <1>1
<1>8. pc \in Int /\ table[k] <= pc /\ pc < Offset[i] + FunctionSize
  BY <1>6, <1>7 DEF FunctionSize
<1>9. k < n => pc < table[k + 1]
  <2> SUFFICES ASSUME k < n PROVE pc < table[k + 1]
    OBVIOUS
  <2>1. k + 1 \in 1 .. n /\ a + (k + 1) - 1 = i + 1 /\ i + 1 \in 1 .. Count
    BY <1>0
  <2>2. table[k + 1] = Offset[i + 1]
    BY <1>2, <2>1
  <2>3. Offset[i] + FunctionSize <= Offset[i + 1] /\ Offset[i + 1] \in Int
    BY <1>1, <1>7, <2>1
  <2> QED
    BY <1>7, <1>8, <2>2, <2>3 DEF FunctionSize
<1>10. Search(table, pc) = k
  BY <1>0, <1>3, <1>4, <1>5, <1>8, <1>9, SearchFinds
<1> QED
  BY <1>10 DEF table, k

Answer(i) == [error |-> "ESUCCESS", function |-> Offset[i], encoding |-> Encodings[i]]

\* In a page of either kind a function of it is found.
LEMMA RegularFinds ==
    ASSUME ProgramOK, NEW a \in 1 .. Count, NEW b \in a .. Count, NEW i \in a .. b,
           NEW pc \in Offset[i] .. Offset[i] + FunctionSize - 1
    PROVE  RegularEntry(RegularPage(Offset, Encodings, a, b), pc) = Answer(i)
<1> DEFINE page == RegularPage(Offset, Encodings, a, b)
           k == i - a + 1
<1>1. k \in 1 .. b - a + 1 /\ a + k - 1 = i /\ k # 0
  BY OrderIs
<1>2. page.entries = [j \in 1 .. b - a + 1 |-> [offset |-> Offset[a + j - 1], encoding |-> Encodings[a + j - 1]]]
  BY DEF RegularPage
<1>3. Offsets(page.entries) = Table(a, b)
  BY <1>2 DEF Offsets, Table
<1>4. Search(Offsets(page.entries), pc) = k
  BY <1>3, TableFinds
<1> HIDE DEF page, k
<1>5. page.entries[k] = [offset |-> Offset[i], encoding |-> Encodings[i]]
  BY <1>1, <1>2
<1>6. RegularEntry(page, pc) = Answer(i)
  BY <1>1, <1>4, <1>5 DEF RegularEntry, Answer
<1> QED
  BY <1>6 DEF page

\* What the page of a compressed entry has for the i-th encoding.
Position(a, i) ==
    IF Encodings[i] \in ToSet(Common) THEN (CHOOSE c \in DOMAIN Common : Common[c] = Encodings[i]) - 1
    ELSE Len(Common) + i - a

LEMMA CompressedFinds ==
    ASSUME ProgramOK, NEW a \in 1 .. Count, NEW b \in a .. Count, NEW i \in a .. b,
           NEW pc \in Offset[i] .. Offset[i] + FunctionSize - 1
    PROVE  CompressedEntry(Common, Offset[a], CompressedPage(Common, Offset, Encodings, a, b), pc) = Answer(i)
<1> DEFINE page == CompressedPage(Common, Offset, Encodings, a, b)
           n == b - a + 1
           k == i - a + 1
           own == Position(a, i) - Len(Common)
<1>1. k \in 1 .. n /\ a + k - 1 = i /\ k # 0 /\ \A j \in 1 .. n : a + j - 1 \in 1 .. Count
  BY OrderIs
<1>2. page.entries = [j \in 1 .. n |->
          [offset |-> Offset[a + j - 1] - Offset[a], encoding |-> Position(a, a + j - 1)]]
  BY DEF CompressedPage, Position
<1>3. page.encodings = SubSeq(Encodings, a, b)
  BY DEF CompressedPage
<1> HIDE DEF page
<1>4. DOMAIN page.entries = 1 .. n /\ \A j \in 1 .. n : page.entries[j].offset = Offset[a + j - 1] - Offset[a]
  BY <1>2
<1>5. \A j \in 1 .. n : Offset[a] + page.entries[j].offset = Offset[a + j - 1]
  <2>1. \A x, y \in Int : x + (y - x) = y
    OBVIOUS
  <2>2. \A j \in 1 .. Count : Offset[j] \in Int
    BY OffsetIs
  <2>3. TAKE j \in 1 .. n
  <2>4. a + j - 1 \in 1 .. Count /\ page.entries[j].offset = Offset[a + j - 1] - Offset[a]
    BY <1>1, <1>4
  <2>5. Offset[a] \in Int /\ Offset[a + j - 1] \in Int
    BY <2>2, <2>4
  <2> QED
    BY <2>1, <2>4, <2>5
<1>6. PageOffsets(Offset[a], page) = Table(a, b)
  BY <1>4, <1>5 DEF Table, PageOffsets
<1>7. Search(PageOffsets(Offset[a], page), pc) = k
  BY <1>6, TableFinds
<1> HIDE DEF k
<1>8. page.entries[k].encoding = Position(a, i) /\ Offset[a] + page.entries[k].offset = Offset[i]
  <2>1. k \in 1 .. n /\ a + k - 1 = i
    BY <1>1
  <2>2. page.entries[k].encoding = Position(a, a + k - 1)
    BY <1>2, <2>1
  <2>3. Offset[a] + page.entries[k].offset = Offset[a + k - 1]
    BY <1>5, <2>1
  <2> QED
    BY <2>1, <2>2, <2>3
<1>8a. k # 0 /\ n \in Nat
  BY <1>1
<1>8b. Len(page.encodings) = n /\ \A j \in 1 .. n : page.encodings[j] = Encodings[a + j - 1]
  <2> DEFINE S == {Encodings[j] : j \in 1 .. Count}
  <2>1. Encodings \in [1 .. Count -> S] /\ Count \in Nat
    BY OrderIs DEF Encodings
  <2> HIDE DEF S
  <2>2. Encodings \in Seq(S) /\ Len(Encodings) = Count
    BY <2>1
  <2> QED
    BY <1>3, <2>1, <2>2
<1> HIDE DEF n
<1>9. CASE Encodings[i] \in ToSet(Common)
  <2> DEFINE c == CHOOSE d \in DOMAIN Common : Common[d] = Encodings[i]
  <2>1. \E d \in DOMAIN Common : Common[d] = Encodings[i]
    BY <1>9 DEF ToSet
  <2>2. c \in DOMAIN Common /\ Common[c] = Encodings[i]
    BY <2>1
  <2>3. Position(a, i) = c - 1
    BY <1>9 DEF Position
  <2> HIDE DEF c
  <2>4. c \in 1 .. Len(Common) /\ Len(Common) \in Nat
    BY <2>2, EncodingsAre
  <2>5. own \in Int /\ own < 0 /\ Position(a, i) + 1 = c
    BY <2>3, <2>4
  <2>6. own = page.entries[k].encoding - Len(Common)
    BY <1>8
  <2> HIDE DEF own
  <2>7. EntryOf(Offset[a], page, pc) = page.entries[k] /\ OwnOf(Common, Offset[a], page, pc) = own
    BY <1>7, <2>6 DEF EntryOf, OwnOf
  <2>8. own < Len(page.encodings) /\ Len(page.encodings) \in Nat
    BY <1>8a, <1>8b, <2>5
  <2>9. CompressedEntry(Common, Offset[a], page, pc) =
            [error |-> "ESUCCESS", function |-> Offset[a] + page.entries[k].offset,
             encoding |-> Common[page.entries[k].encoding + 1]]
    BY <1>7, <1>8a, <2>5, <2>7, <2>8, CompressedEntryIs
  <2> QED
    BY <1>8, <2>2, <2>5, <2>9 DEF Answer, page
<1>10. CASE Encodings[i] \notin ToSet(Common)
  <2>1. Position(a, i) = Len(Common) + i - a /\ Len(Common) \in Nat
    BY <1>10, EncodingsAre DEF Position
  <2>2. own = i - a /\ own \in Nat /\ own \in 0 .. n - 1 /\ own + 1 \in 1 .. n
    BY <2>1 DEF n
  <2>3. own = page.entries[k].encoding - Len(Common)
    BY <1>8
  <2>4. page.encodings[own + 1] = Encodings[i]
    <3>1. page.encodings[own + 1] = Encodings[a + (own + 1) - 1]
      BY <1>8b, <2>2
    <3>2. a + (own + 1) - 1 = i
      BY <2>2
    <3> QED
      BY <3>1, <3>2
  <2> HIDE DEF own
  <2>5. own \in Nat /\ own < Len(page.encodings) /\ Len(page.encodings) \in Nat
    BY <1>8a, <1>8b, <2>2
  <2>6. CompressedEntry(Common, Offset[a], page, pc) =
            [error |-> "ESUCCESS", function |-> Offset[a] + page.entries[k].offset,
             encoding |-> Encodings[i]]
    <3>1. EntryOf(Offset[a], page, pc) = page.entries[k] /\ OwnOf(Common, Offset[a], page, pc) = own
      BY <1>7, <2>3 DEF EntryOf, OwnOf
    <3>2. own \in Int /\ ~ (own < 0)
      BY <2>5
    <3> QED
      BY <1>7, <1>8a, <2>4, <2>5, <3>1, <3>2, CompressedEntryIs
  <2> QED
    BY <1>8, <2>2, <2>4, <2>6 DEF Answer, page
<1> QED
  BY <1>9, <1>10

IndexOf(i, k) == [offset |-> Offset[i], page |-> k]
PageOf(k, a, b) == Page(layout.kinds[k], Common, Offset, Encodings, a, b)
Sentinel == [offset |-> Offset[Count] + FunctionSize, page |-> 0]

LEMMA InfoIs ==
    /\ layout.split < Count =>
          UnwindInfo = [common |-> Common,
                        index |-> <<IndexOf(1, 1), IndexOf(layout.split + 1, 2), Sentinel>>,
                        pages |-> <<PageOf(1, 1, layout.split), PageOf(2, layout.split + 1, Count)>>]
    /\ ~ (layout.split < Count) =>
          UnwindInfo = [common |-> Common, index |-> <<IndexOf(1, 1), Sentinel>>,
                        pages |-> <<PageOf(1, 1, Count)>>]
BY DEF UnwindInfo, IndexOf, PageOf, Sentinel, Common, Offset, Encodings, Count, Order

LEMMA FrontIs ==
    /\ \A x, y : Front(<<x, y>>) = <<x>> /\ <<x, y>> # <<>>
    /\ \A x, y, z : Front(<<x, y, z>>) = <<x, y>> /\ <<x, y, z>> # <<>>
<1>1. ASSUME NEW x, NEW y PROVE Front(<<x, y>>) = <<x>> /\ <<x, y>> # <<>>
  <2> DEFINE s == <<x, y>>
  <2>1. s \in Seq({x, y}) /\ Len(s) = 2
    OBVIOUS
  <2> DEFINE S == {x, y}
             u == SubSeq(s, 1, 1)
             v == <<x>>
  <2>1a. u \in Seq(S) /\ v \in Seq(S) /\ Len(u) = 1 /\ Len(v) = 1 /\ u[1] = v[1]
    OBVIOUS
  <2>2. SubSeq(s, 1, 1) = <<s[1]>>
    <3>1. \A i \in 1 .. Len(u) : u[i] = v[i]
      BY <2>1a
    <3> HIDE DEF S, u, v
    <3>2. u = v
      BY <2>1a, <3>1, SeqEqual
    <3> QED
      BY <3>2 DEF u, v
  <2> QED
    BY <2>1, <2>2 DEF Front
<1>2. ASSUME NEW x, NEW y, NEW z PROVE Front(<<x, y, z>>) = <<x, y>> /\ <<x, y, z>> # <<>>
  <2> DEFINE s == <<x, y, z>>
  <2>1. s \in Seq({x, y, z}) /\ Len(s) = 3
    OBVIOUS
  <2> DEFINE S == {x, y, z}
             u == SubSeq(s, 1, 2)
             v == <<x, y>>
  <2>1a. u \in Seq(S) /\ v \in Seq(S) /\ Len(u) = 2 /\ Len(v) = 2 /\ u[1] = v[1] /\ u[2] = v[2]
    OBVIOUS
  <2>2. SubSeq(s, 1, 2) = <<s[1], s[2]>>
    <3>1. \A i \in 1 .. Len(u) : u[i] = v[i]
      BY <2>1a
    <3> HIDE DEF S, u, v
    <3>2. u = v
      BY <2>1a, <3>1, SeqEqual
    <3> QED
      BY <3>2 DEF u, v
  <2> QED
    BY <2>1, <2>2 DEF Front
<1> QED
  BY <1>1, <1>2

LEMMA PageFinds ==
    ASSUME ProgramOK, NEW k \in 1 .. 2, NEW a \in 1 .. Count, NEW b \in a .. Count, NEW i \in a .. b,
           NEW pc \in Offset[i] .. Offset[i] + FunctionSize - 1
    PROVE  (IF PageOf(k, a, b).kind = "regular" THEN RegularEntry(PageOf(k, a, b), pc)
            ELSE CompressedEntry(Common, Offset[a], PageOf(k, a, b), pc)) = Answer(i)
<1>1. CASE layout.kinds[k] = "regular"
  <2>1. PageOf(k, a, b) = RegularPage(Offset, Encodings, a, b)
    BY <1>1 DEF PageOf, Page
  <2>2. PageOf(k, a, b).kind = "regular"
    BY <2>1 DEF RegularPage
  <2> QED
    BY <2>1, <2>2, RegularFinds
<1>2. CASE layout.kinds[k] # "regular"
  <2>1. PageOf(k, a, b) = CompressedPage(Common, Offset, Encodings, a, b)
    BY <1>2 DEF PageOf, Page
  <2>2. PageOf(k, a, b).kind = "compressed"
    BY <2>1 DEF CompressedPage
  <2> QED
    BY <2>1, <2>2, CompressedFinds
<1> QED
  BY <1>1, <1>2

LEMMA InfoFinds ==
    ASSUME ProgramOK, NEW i \in 1 .. Count,
           NEW pc \in Offset[i] .. Offset[i] + FunctionSize - 1
    PROVE  find_pc(UnwindInfo, pc) = Answer(i)
<1>0. Count \in Nat \ {0} /\ layout.split \in Nat \ {0}
  BY OrderIs, ProgramAssumption DEF ProgramOK
<1>1. /\ \A j \in 1 .. Count : Offset[j] \in Int
      /\ \A h, j \in 1 .. Count : h < j => Offset[h] + FunctionSize <= Offset[j]
  BY OffsetIs
<1>2. pc \in Int /\ Offset[i] <= pc /\ pc < Offset[i] + FunctionSize /\ FunctionSize = 3
  BY <1>1 DEF FunctionSize
<1>3. CASE layout.split < Count
  <2> DEFINE index == <<IndexOf(1, 1), IndexOf(layout.split + 1, 2)>>
             table == <<Offset[1], Offset[layout.split + 1]>>
             k == IF i <= layout.split THEN 1 ELSE 2
  <2>1. /\ Front(UnwindInfo.index) = index /\ UnwindInfo.index # <<>> /\ UnwindInfo.common = Common
        /\ UnwindInfo.pages = <<PageOf(1, 1, layout.split), PageOf(2, layout.split + 1, Count)>>
    <3> DEFINE x == IndexOf(1, 1)
               y == IndexOf(layout.split + 1, 2)
               s == Sentinel
    <3>1. /\ UnwindInfo.index = <<x, y, s>> /\ UnwindInfo.common = Common
          /\ UnwindInfo.pages = <<PageOf(1, 1, layout.split), PageOf(2, layout.split + 1, Count)>>
      BY <1>3, InfoIs
    <3> HIDE DEF x, y, s
    <3>2. Front(UnwindInfo.index) = <<x, y>> /\ UnwindInfo.index # <<>>
      BY <3>1, FrontIs
    <3> QED
      BY <3>1, <3>2 DEF x, y
  <2>2. Offsets(index) = table
    BY DEF Offsets, IndexOf
  <2>3. layout.split \in 1 .. Count /\ layout.split + 1 \in 1 .. Count /\ 1 \in 1 .. Count
    BY <1>0, <1>3
  <2>4. Offset[1] \in Int /\ Offset[layout.split + 1] \in Int /\ Offset[i] \in Int
        /\ Offset[1] < Offset[layout.split + 1]
    BY <1>0, <1>1, <1>2, <2>3
  <2>5. table[k] <= pc
    <3>1. CASE i <= layout.split
      BY <1>1, <1>2, <2>3, <2>4, <3>1
    <3>2. CASE ~ (i <= layout.split)
      BY <1>1, <1>2, <2>3, <2>4, <3>2
    <3> QED
      BY <3>1, <3>2
  <2>6. k < 2 => pc < table[k + 1]
    <3> SUFFICES ASSUME i <= layout.split PROVE pc < Offset[layout.split + 1]
      OBVIOUS
    <3>1. Offset[i] + FunctionSize <= Offset[layout.split + 1]
      BY <1>1, <2>3
    <3> QED
      BY <1>2, <2>4, <3>1
  <2>7. Search(table, pc) = k
    <3>1. PICK two \in Nat : two = 2
      OBVIOUS
    <3>2. Len(table) = two /\ k \in 1 .. two
      BY <3>1
    <3>3. \A j \in 1 .. two : table[j] \in Int
      BY <2>4, <3>1
    <3>4. \A h, j \in 1 .. two : h < j => table[h] < table[j]
      BY <2>4, <3>1
    <3> HIDE DEF table, k
    <3> QED
      BY <1>2, <2>5, <2>6, <3>1, <3>2, <3>3, <3>4, SearchFinds
  <2>8. CASE i <= layout.split
    <3>1. k = 1 /\ index[1] = [offset |-> Offset[1], page |-> 1]
      BY <2>8 DEF IndexOf
    <3>2. i \in 1 .. layout.split /\ layout.split \in 1 .. Count
      BY <2>3, <2>8
    <3>3. UnwindInfo.pages[1] = PageOf(1, 1, layout.split)
      BY <2>1
    <3> HIDE DEF index, table, k
    <3>4. find_pc(UnwindInfo, pc) =
             (IF PageOf(1, 1, layout.split).kind = "regular" THEN RegularEntry(PageOf(1, 1, layout.split), pc)
              ELSE CompressedEntry(Common, Offset[1], PageOf(1, 1, layout.split), pc))
      BY <2>1, <2>2, <2>7, <3>1, <3>3 DEF find_pc
    <3>5. 1 \in 1 .. 2 /\ 1 \in 1 .. Count /\ layout.split \in 1 .. Count
      BY <2>3
    <3> QED
      BY <3>2, <3>4, <3>5, PageFinds
  <2>9. CASE ~ (i <= layout.split)
    <3>1. k = 2 /\ index[2] = [offset |-> Offset[layout.split + 1], page |-> 2]
      BY <2>9 DEF IndexOf
    <3>2. i \in layout.split + 1 .. Count /\ Count \in layout.split + 1 .. Count
      BY <1>0, <2>3, <2>9
    <3>3. UnwindInfo.pages[2] = PageOf(2, layout.split + 1, Count)
      BY <2>1
    <3> HIDE DEF index, table, k
    <3>4. PICK a \in 1 .. Count : a = layout.split + 1
      BY <2>3
    <3>5. find_pc(UnwindInfo, pc) =
             (IF PageOf(2, a, Count).kind = "regular" THEN RegularEntry(PageOf(2, a, Count), pc)
              ELSE CompressedEntry(Common, Offset[a], PageOf(2, a, Count), pc))
      BY <2>1, <2>2, <2>7, <3>1, <3>3, <3>4 DEF find_pc
    <3>6. 2 \in 1 .. 2 /\ i \in a .. Count /\ Count \in a .. Count
      BY <3>2, <3>4
    <3> QED
      BY <3>5, <3>6, PageFinds
  <2> QED
    BY <2>8, <2>9
<1>4. CASE ~ (layout.split < Count)
  <2> DEFINE index == <<IndexOf(1, 1)>>
             table == <<Offset[1]>>
  <2>1. /\ Front(UnwindInfo.index) = index /\ UnwindInfo.index # <<>> /\ UnwindInfo.common = Common
        /\ UnwindInfo.pages = <<PageOf(1, 1, Count)>>
    <3> DEFINE x == IndexOf(1, 1)
               s == Sentinel
    <3>1. /\ UnwindInfo.index = <<x, s>> /\ UnwindInfo.common = Common
          /\ UnwindInfo.pages = <<PageOf(1, 1, Count)>>
      BY <1>4, InfoIs
    <3> HIDE DEF x, s
    <3>2. Front(UnwindInfo.index) = <<x>> /\ UnwindInfo.index # <<>>
      BY <3>1, FrontIs
    <3> QED
      BY <3>1, <3>2 DEF x
  <2>2. Offsets(index) = table
    BY DEF Offsets, IndexOf
  <2>3. 1 \in 1 .. Count /\ Count \in 1 .. Count
    BY <1>0
  <2>4. Offset[1] \in Int /\ Offset[1] <= pc
    BY <1>1, <1>2, <2>3
  <2>5. Search(table, pc) = 1
    <3>1. PICK one \in Nat : one = 1
      OBVIOUS
    <3>2. Len(table) = one /\ one \in 1 .. one /\ ~ (one < one)
      BY <3>1
    <3>3. (\A j \in 1 .. one : table[j] \in Int) /\ table[one] <= pc
      BY <2>4, <3>1
    <3>4. \A h, j \in 1 .. one : h < j => table[h] < table[j]
      BY <3>1
    <3> HIDE DEF table
    <3>5. Search(table, pc) = one
      BY <1>2, <3>2, <3>3, <3>4, SearchFinds
    <3> QED
      BY <3>1, <3>5
  <2>6. index[1] = [offset |-> Offset[1], page |-> 1] /\ UnwindInfo.pages[1] = PageOf(1, 1, Count)
    BY <2>1 DEF IndexOf
  <2> HIDE DEF index, table
  <2>7. find_pc(UnwindInfo, pc) =
           (IF PageOf(1, 1, Count).kind = "regular" THEN RegularEntry(PageOf(1, 1, Count), pc)
            ELSE CompressedEntry(Common, Offset[1], PageOf(1, 1, Count), pc))
    BY <2>1, <2>2, <2>5, <2>6 DEF find_pc
  <2>8. 1 \in 1 .. 2
    OBVIOUS
  <2> QED
    BY <2>3, <2>7, <2>8, PageFinds
<1> QED
  BY <1>3, <1>4

LEMMA ProgramStays == Spec => []ProgramOK
<1>1. Init => ProgramOK
  BY DEF Init, ProgramOK
<1>2. ProgramOK /\ [Next]_vars => ProgramOK'
  <2> SUFFICES ASSUME ProgramOK, [Next]_vars PROVE UNCHANGED <<arch, functions, layout>>
    BY DEF ProgramOK
  <2> QED
    BY DEF Next, vars, program, cursor, Call, crash, firstFrame, cursor_next, next_with_readers, tryReader, takeFrame
<1> QED
  BY <1>1, <1>2, PTL DEF Spec

\* LookupFindsTheFunction: the binary searches of find_pc, in the index and in a page of either
\* kind, find the function that a pc is in and its own encoding.
THEOREM SearchIsRight == Spec => []LookupFindsTheFunction
<1>1. ASSUME ProgramOK PROVE LookupFindsTheFunction
  <2> SUFFICES ASSUME NEW f \in InImage, NEW pc \in Start(f) .. Start(f) + FunctionSize - 1
               PROVE  LET found == find_pc(UnwindInfo, pc - HeaderAddr) IN
                      /\ Succeeded(found)
                      /\ HeaderAddr + found.function = Start(f)
                      /\ found.encoding = Encoding(functions[f])
    BY DEF LookupFindsTheFunction
  <2>1. PICK i \in 1 .. Count : Order[i] = f
    BY <1>1, OrderIs
  <2>2. Start(f) \in Nat /\ HeaderAddr \in Nat /\ Start(f) = HeaderAddr + FunctionSize * f /\ f \in Nat
    BY <1>1, ProgramFacts, StartIs
  <2>3. Offset[i] = Start(f) - HeaderAddr /\ Encodings[i] = Encoding(functions[f])
    BY <2>1 DEF Offset, Encodings
  <2>4. PICK at : at = pc - HeaderAddr
    OBVIOUS
  <2>5. at \in Offset[i] .. Offset[i] + FunctionSize - 1
    BY <2>2, <2>3, <2>4 DEF FunctionSize
  <2>6. find_pc(UnwindInfo, pc - HeaderAddr) = Answer(i)
    BY <1>1, <2>4, <2>5, InfoFinds
  <2> QED
    BY <2>2, <2>3, <2>6 DEF Answer, Succeeded
<1> QED
  BY <1>1, ProgramStays, PTL

----------------------------------------------------------------------------
(* Recursion over the numbers up to n, with a step that is a function.     *)

IsStep(F, n, X) == F \in [(1 .. n) \X X -> X]
Runs(h, n, X, b, F) ==
    h \in [0 .. n -> X] /\ h[0] = b /\ \A i \in 1 .. n : h[i] = F[<<i, h[i - 1]>>]

LEMMA Recursion ==
    ASSUME NEW n \in Nat, NEW X, NEW b \in X, NEW F, IsStep(F, n, X)
    PROVE  \E h : Runs(h, n, X, b, F)
<1>0. F \in [(1 .. n) \X X -> X]
  BY DEF IsStep
<1> DEFINE Good(h, m) == h[0] = b /\ \A i \in 1 .. n : i <= m => h[i] = F[<<i, h[i - 1]>>]
           T == {m \in Nat : m <= n /\ ~ \E h \in [0 .. n -> X] : Good(h, m)}
<1>1. SUFFICES ASSUME T # {} PROVE FALSE
  <2>1. n \notin T
    BY <1>1
  <2>2. PICK h \in [0 .. n -> X] : Good(h, n)
    BY <2>1
  <2>3. Runs(h, n, X, b, F)
    BY <2>2 DEF Runs
  <2> QED
    BY <2>3
<1>2. PICK m \in T : \A v \in T : m <= v
  <2>1. T \in SUBSET Nat
    OBVIOUS
  <2> HIDE DEF T
  <2> QED
    BY <1>1, <2>1, LeastNumber
<1>3. m \in Nat /\ m <= n
  OBVIOUS
<1>4. m # 0
  <2> DEFINE h == [i \in 0 .. n |-> b]
  <2>1. h \in [0 .. n -> X] /\ Good(h, 0)
    OBVIOUS
  <2> QED
    BY <2>1
<1>5. PICK h \in [0 .. n -> X] : Good(h, m - 1)
  <2>1. m - 1 \in Nat /\ m - 1 <= n /\ ~ (m <= m - 1)
    BY <1>3, <1>4
  <2>2. m - 1 \notin T
    <3> HIDE DEF T
    <3> QED
      BY <1>2, <2>1
  <2> QED
    BY <2>1, <2>2
<1>6. m \in 1 .. n /\ m - 1 \in 0 .. n /\ <<m, h[m - 1]>> \in (1 .. n) \X X
  BY <1>3, <1>4
<1>7. PICK x \in X : x = F[<<m, h[m - 1]>>]
  BY <1>0, <1>6
<1> DEFINE g == [h EXCEPT ![m] = x]
<1>8. g \in [0 .. n -> X]
  OBVIOUS
<1>9. g[0] = b
  BY <1>5, <1>6
<1>10. ASSUME NEW i \in 1 .. n, i <= m PROVE g[i] = F[<<i, g[i - 1]>>]
  <2>1. CASE i = m
    <3>1. g[m] = x /\ g[m - 1] = h[m - 1]
      BY <1>6
    <3> QED
      BY <1>7, <2>1, <3>1
  <2>2. CASE i # m
    <3>1. i <= m - 1 /\ i - 1 # m /\ i - 1 \in 0 .. n
      BY <1>3, <1>10, <2>2
    <3>2. g[i] = h[i] /\ g[i - 1] = h[i - 1]
      BY <2>2, <3>1
    <3>3. h[i] = F[<<i, h[i - 1]>>]
      BY <1>5, <3>1
    <3> QED
      BY <3>2, <3>3
  <2> QED
    BY <2>1, <2>2
<1>11. Good(g, m)
  BY <1>9, <1>10
<1> QED
  BY <1>2, <1>8, <1>11

----------------------------------------------------------------------------
(* The number that a list of registers is packed into, and back.           *)

IsList(s) == /\ s \in Seq(1 .. RegisterMax) /\ Len(s) \in 0 .. RegisterMax
             /\ \A i, j \in 1 .. Len(s) : s[i] = s[j] => i = j

\* The registers of a list before the i-th one that are less, those that are left for it,
\* and its number among these.
Before(s, i) == {j \in 1 .. i - 1 : s[j] < s[i]}
Taken(s, i) == {s[j] : j \in 1 .. i - 1}
Left(s, i) == (1 .. RegisterMax) \ Taken(s, i)
Digit(s, i) == s[i] - Cardinality(Before(s, i)) - 1

LEMMA Intervals ==
    ASSUME NEW n \in Int
    PROVE  IsFiniteSet(1 .. n) /\ (n \in Nat => Cardinality(1 .. n) = n)
<1>1. IsFiniteSet(1 .. n) /\ Cardinality(1 .. n) = IF 1 > n THEN 0 ELSE n - 1 + 1
  BY FS_Interval
<1> QED
  BY <1>1

LEMMA ListIs ==
    ASSUME NEW s, IsList(s)
    PROVE  /\ Len(s) \in 0 .. RegisterMax /\ \A j \in 1 .. Len(s) : s[j] \in 1 .. RegisterMax
           /\ \A h, j \in 1 .. Len(s) : s[h] = s[j] => h = j
<1> DEFINE S == 1 .. RegisterMax
<1>1. s \in Seq(S)
  BY DEF IsList
<1> HIDE DEF S
<1>2. \A j \in 1 .. Len(s) : s[j] \in S
  BY <1>1
<1> QED
  BY <1>2 DEF IsList, S

LEMMA Digits ==
    ASSUME NEW s, IsList(s), NEW i \in 1 .. Len(s)
    PROVE  /\ s[i] \in Left(s, i) /\ Left(s, i) \in SUBSET Int /\ IsFiniteSet(Left(s, i))
           /\ Cardinality(Below(Left(s, i), s[i])) = Digit(s, i)
           /\ Digit(s, i) \in 0 .. RegisterMax - i
<1>1. /\ Len(s) \in 0 .. RegisterMax /\ \A j \in 1 .. Len(s) : s[j] \in 1 .. RegisterMax
      /\ \A h, j \in 1 .. Len(s) : s[h] = s[j] => h = j
  BY ListIs
<1>2. RegisterMax = 6 /\ i \in 1 .. 6 /\ s[i] \in 1 .. 6 /\ \A j \in 1 .. i - 1 : j \in 1 .. Len(s) /\ j # i
  BY <1>1 DEF RegisterMax
<1>3. Taken(s, i) \in SUBSET (1 .. 6) /\ s[i] \notin Taken(s, i)
  BY <1>1, <1>2 DEF Taken
<1>4. IsFiniteSet(1 .. 6) /\ Cardinality(1 .. 6) = 6
  <2>1. PICK n \in Nat : n = 6
    OBVIOUS
  <2> QED
    <3>1. IsFiniteSet(1 .. n) /\ Cardinality(1 .. n) = n
      BY Intervals
    <3> QED
      BY <2>1, <3>1
<1>5. /\ s[i] \in Left(s, i) /\ Left(s, i) \in SUBSET Int /\ IsFiniteSet(Left(s, i))
      /\ Left(s, i) = (1 .. 6) \ Taken(s, i)
  <2>1. Left(s, i) = (1 .. 6) \ Taken(s, i) /\ Left(s, i) \in SUBSET (1 .. 6)
    BY <1>2 DEF Left
  <2> QED
    BY <1>2, <1>3, <1>4, <2>1, FS_Subset
<1>6. IsFiniteSet(Taken(s, i)) /\ Cardinality(Taken(s, i)) = i - 1
  <2> DEFINE g == [j \in 1 .. i - 1 |-> s[j]]
  <2>1. g \in Surjection(1 .. i - 1, Taken(s, i)) /\ g \in Injection(1 .. i - 1, Taken(s, i))
    BY <1>1, <1>2 DEF Surjection, Injection, IsInjective, Taken
  <2>2. IsFiniteSet(1 .. i - 1) /\ Cardinality(1 .. i - 1) = i - 1
    <3>1. PICK n \in Nat : n = i - 1
      BY <1>2
    <3> QED
      BY <3>1, Intervals
  <2> HIDE DEF g
  <2> QED
    BY <2>1, <2>2, FS_Surjection
<1>7. Cardinality(Left(s, i)) = 6 - (i - 1)
  <2>1. (1 .. 6) \cap Taken(s, i) = Taken(s, i)
    BY <1>3
  <2>2. PICK S : S = 1 .. 6
      OBVIOUS
  <2>3. IsFiniteSet(S) /\ Left(s, i) = S \ Taken(s, i) /\ S \cap Taken(s, i) = Taken(s, i) /\ Cardinality(S) = 6
      BY <1>4, <1>5, <2>1, <2>2
  <2>4. Cardinality(S \ Taken(s, i)) = Cardinality(S) - Cardinality(S \cap Taken(s, i))
      BY <1>6, <2>3, FS_Difference
  <2> QED
    BY <1>6, <2>3, <2>4
<1>8. Cardinality(Below(Left(s, i), s[i])) \in 0 .. 6 - i
  <2>1. Cardinality(Below(Left(s, i), s[i])) \in 0 .. Cardinality(Left(s, i)) - 1
    BY <1>5, Ranks
  <2> QED
    BY <1>2, <1>7, <2>1
<1> DEFINE A == {s[j] : j \in Before(s, i)}
           B == Below(Left(s, i), s[i])
<1>9. IsFiniteSet(A) /\ Cardinality(A) = Cardinality(Before(s, i))
  <2> DEFINE g == [j \in Before(s, i) |-> s[j]]
  <2>1. Before(s, i) \in SUBSET (1 .. i - 1)
    BY DEF Before
  <2>2. g \in Surjection(Before(s, i), A) /\ g \in Injection(Before(s, i), A)
    BY <1>1, <1>2, <2>1 DEF Surjection, Injection, IsInjective
  <2>3. IsFiniteSet(Before(s, i))
    <3>1. PICK n \in Int : n = i - 1
      BY <1>2
    <3> QED
      BY <2>1, <3>1, Intervals, FS_Subset
  <2> HIDE DEF g, A
  <2> QED
    BY <2>2, <2>3, FS_Surjection
<1>10. IsFiniteSet(B)
  BY <1>5, FS_Subset DEF Below
<1>11. A \cap B = {} /\ A \cup B = 1 .. s[i] - 1
  <2>1. A \cap B = {}
    BY DEF Before, Below, Left, Taken
  <2>2. A \cup B \subseteq 1 .. s[i] - 1
    BY <1>1, <1>2, <1>5 DEF Before, Below
  <2>3. ASSUME NEW v \in 1 .. s[i] - 1 PROVE v \in A \cup B
    <3>1. v \in 1 .. 6 /\ v < s[i]
      BY <1>2
    <3>2. CASE v \in Taken(s, i)
      BY <3>1, <3>2 DEF Taken, Before
    <3>3. CASE v \notin Taken(s, i)
      BY <1>5, <3>1, <3>3 DEF Below
    <3> QED
      BY <3>2, <3>3
  <2> QED
    BY <2>1, <2>2, <2>3
<1> HIDE DEF A, B
<1>12. Cardinality(A \cup B) = s[i] - 1
  <2>1. PICK n \in Nat : n = s[i] - 1
    BY <1>2
  <2> QED
    <3>1. IsFiniteSet(1 .. n) /\ Cardinality(1 .. n) = n
      BY Intervals
    <3> QED
      BY <1>11, <2>1, <3>1
<1>13. Cardinality(A \cup B) = Cardinality(A) + Cardinality(B)
  <2>1. Cardinality(A \cup B) = Cardinality(A) + Cardinality(B) - Cardinality(A \cap B)
    BY <1>9, <1>10, FS_Union
  <2>2. Cardinality(A) \in Nat /\ Cardinality(B) \in Nat /\ Cardinality(A \cap B) = 0
    BY <1>9, <1>10, <1>11, FS_CardinalityType, FS_EmptySet
  <2> QED
    BY <2>1, <2>2
<1>14. Cardinality(A) \in Nat /\ Cardinality(B) \in Nat
  BY <1>9, <1>10, FS_CardinalityType
<1>15. Cardinality(B) = Digit(s, i)
  BY <1>2, <1>9, <1>12, <1>13, <1>14 DEF Digit
<1> QED
  BY <1>2, <1>5, <1>8, <1>15 DEF B

LEMMA FactorsAreNumbers ==
    \A n \in 1 .. RegisterMax : \A i \in 1 .. n : Factors[n][i] \in Nat \ {0}
BY DEF Factors, RegisterMax

\* The sums of register_encode.
LEMMA EncodeIs ==
    ASSUME NEW s, IsList(s)
    PROVE  \E g \in [0 .. Len(s) -> Int] :
              /\ register_encode(s) = g[Len(s)] /\ g[0] = 0
              /\ \A i \in 1 .. Len(s) : g[i] = g[i - 1] + Factors[Len(s)][i] * Digit(s, i)
<1> DEFINE n == Len(s)
           step(g, i) == IF i = 0 THEN 0 ELSE g[i - 1] + Factors[n][i] * Digit(s, i)
           Is(g) == g = [i \in 0 .. n |-> step(g, i)]
           sum == CHOOSE g : Is(g)
           F == [p \in (1 .. n) \X Int |-> p[2] + Factors[n][p[1]] * Digit(s, p[1])]
<1>1. n \in 0 .. RegisterMax /\ n \in Nat /\ \A i \in 1 .. n : Digit(s, i) \in Int
  BY ListIs, Digits DEF RegisterMax
<1> HIDE DEF n
<1>2. \A i \in 1 .. n : Factors[n][i] * Digit(s, i) \in Int
  <2> TAKE i \in 1 .. n
  <2>1. n \in 1 .. RegisterMax
    BY <1>1 DEF RegisterMax
  <2>2. Factors[n][i] \in Nat \ {0}
    BY <2>1, FactorsAreNumbers
  <2> QED
    BY <1>1, <2>2
<1>3. F \in [(1 .. n) \X Int -> Int]
  BY <1>2
<1>4. PICK h : Runs(h, n, Int, 0, F)
  <2>1. IsStep(F, n, Int)
    BY <1>3 DEF IsStep
  <2>2. 0 \in Int
    OBVIOUS
  <2> HIDE DEF F
  <2> QED
    BY <1>1, <2>1, <2>2, Recursion
<1>4a. h \in [0 .. n -> Int] /\ h[0] = 0 /\ \A i \in 1 .. n : h[i] = F[<<i, h[i - 1]>>]
  BY <1>4 DEF Runs
<1>5. \A i \in 0 .. n : h[i] = step(h, i)
  <2> TAKE i \in 0 .. n
  <2>1. CASE i = 0
    BY <1>4a, <2>1
  <2>2. CASE i # 0
    <3>1. i \in 1 .. n /\ h[i - 1] \in Int
      BY <1>1, <1>4a, <2>2
    <3> QED
      BY <1>4a, <2>2, <3>1
  <2> QED
    BY <2>1, <2>2
<1> HIDE DEF step
<1>6. Is(h)
  <2>1. h = [i \in 0 .. n |-> h[i]]
    BY <1>4a
  <2> QED
    BY <1>5, <2>1
<1>7. Is(sum)
  BY <1>6
<1> HIDE DEF sum
<1>8. \A i \in 0 .. n : sum[i] = step(sum, i)
  BY <1>7
<1>9. sum[0] = 0 /\ \A i \in 1 .. n : sum[i] = sum[i - 1] + Factors[n][i] * Digit(s, i)
  <2>1. 0 \in 0 .. n /\ \A i \in 1 .. n : i \in 0 .. n /\ i # 0
    BY <1>1
  <2>2. sum[0] = step(sum, 0) /\ \A i \in 1 .. n : sum[i] = step(sum, i)
    BY <1>8, <2>1
  <2> QED
    BY <2>1, <2>2 DEF step
<1>10. \A i \in 0 .. n : sum[i] \in Int
  <2> DEFINE T == {i \in Nat : i <= n /\ sum[i] \notin Int}
  <2>1. SUFFICES ASSUME T # {} PROVE FALSE
    BY <1>1
  <2>2. PICK i \in T : \A v \in T : i <= v
    <3>1. T \in SUBSET Nat
      OBVIOUS
    <3> HIDE DEF T
    <3> QED
      BY <2>1, <3>1, LeastNumber
  <2>3. i # 0 /\ i \in 1 .. n /\ i - 1 \in Nat /\ ~ (i <= i - 1) /\ i - 1 <= n
    BY <1>1, <1>9
  <2>4. i - 1 \notin T
    <3> HIDE DEF T
    <3> QED
      BY <2>2, <2>3
  <2>5. sum[i - 1] \in Int
    BY <2>3, <2>4
  <2>6. sum[i] \in Int
    BY <1>2, <1>9, <2>3, <2>5
  <2> QED
    BY <2>2, <2>6
<1>11. sum \in [0 .. n -> Int]
  BY <1>7, <1>10
<1>12. register_encode(s) = sum[n]
  BY DEF register_encode, sum, step, n, Digit, Before
<1> QED
  BY <1>9, <1>11, <1>12 DEF n

\* What PERMUTE leaves of a permutation.
LEMMA RestIs ==
    ASSUME NEW p \in Int, NEW n \in 0 .. RegisterMax
    PROVE  /\ Rest(p, n)[0] = p
           /\ \A i \in 1 .. n : Rest(p, n)[i] = Rest(p, n)[i - 1] % Factors[n][i]
<1> DEFINE step(g, i) == IF i = 0 THEN p ELSE g[i - 1] % Factors[n][i]
           Is(g) == g = [i \in 0 .. n |-> step(g, i)]
           rest == CHOOSE g : Is(g)
           F == [q \in (1 .. n) \X Int |-> q[2] % Factors[n][q[1]]]
<1>1. n \in Nat
  BY DEF RegisterMax
<1>2. F \in [(1 .. n) \X Int -> Int]
  <2>1. \A i \in 1 .. n : Factors[n][i] \in Nat \ {0}
    <3> TAKE i \in 1 .. n
    <3>1. n \in 1 .. RegisterMax
      BY DEF RegisterMax
    <3> QED
      BY <3>1, FactorsAreNumbers
  <2>2. ASSUME NEW x \in Int, NEW y \in Nat \ {0} PROVE x % y \in Int
    OBVIOUS
  <2> QED
    BY <2>1, <2>2
<1>3. PICK h : Runs(h, n, Int, p, F)
  <2>1. IsStep(F, n, Int)
    BY <1>2 DEF IsStep
  <2> HIDE DEF F
  <2> QED
    BY <1>1, <2>1, Recursion
<1>4. h \in [0 .. n -> Int] /\ h[0] = p /\ \A i \in 1 .. n : h[i] = F[<<i, h[i - 1]>>]
  BY <1>3 DEF Runs
<1>5. \A i \in 0 .. n : h[i] = step(h, i)
  <2> TAKE i \in 0 .. n
  <2>1. CASE i = 0
    BY <1>4, <2>1
  <2>2. CASE i # 0
    <3>1. i \in 1 .. n /\ i - 1 \in 0 .. n /\ h[i - 1] \in Int
      BY <1>1, <1>4, <2>2
    <3>2. h[i] = F[<<i, h[i - 1]>>]
      BY <1>4, <3>1
    <3>3. F[<<i, h[i - 1]>>] = h[i - 1] % Factors[n][i]
      BY <3>1
    <3> QED
      BY <2>2, <3>2, <3>3
  <2> QED
    BY <2>1, <2>2
<1> HIDE DEF step
<1>6. Is(h)
  <2>1. h = [i \in 0 .. n |-> h[i]]
    BY <1>4
  <2> QED
    BY <1>5, <2>1
<1>7. Is(rest)
  BY <1>6
<1> HIDE DEF rest
<1>8. \A i \in 0 .. n : rest[i] = step(rest, i)
  BY <1>7
<1>9. rest[0] = p /\ \A i \in 1 .. n : rest[i] = rest[i - 1] % Factors[n][i]
  <2>1. 0 \in 0 .. n /\ \A i \in 1 .. n : i \in 0 .. n /\ i # 0
    BY <1>1
  <2>2. rest[0] = step(rest, 0) /\ \A i \in 1 .. n : rest[i] = step(rest, i)
    BY <1>8, <2>1
  <2> QED
    BY <2>1, <2>2 DEF step
<1>10. Rest(p, n) = rest
  BY DEF Rest, rest, step
<1> QED
  BY <1>9, <1>10

LEMMA ModuloOne == \A x \in Int : x % 1 = 0 /\ x \div 1 = x
OBVIOUS

\* Digits, the sums that they are packed with, and what is left in unpacking the last one.
Unpacks(n, d, g, r) ==
    /\ \A i \in 1 .. n : d[i] \in 0 .. RegisterMax - i
    /\ g[0] = 0 /\ \A i \in 1 .. n : g[i] = g[i - 1] + Factors[n][i] * d[i]
    /\ r[0] = g[n] /\ \A i \in 1 .. n : r[i] = r[i - 1] % Factors[n][i]

\* Every digit comes back.
LEMMA Unpacked ==
    ASSUME NEW n \in 0 .. RegisterMax, NEW d, NEW g, NEW r, Unpacks(n, d, g, r)
    PROVE  \A i \in 1 .. n : r[i - 1] \div Factors[n][i] = d[i]
<1>0. RegisterMax = 6 /\ n \in 0 .. 6
  BY DEF RegisterMax
<1>1. CASE n = 0
  BY <1>1
<1>2. CASE n = 1
  BY <1>0, <1>2 DEF Factors, Unpacks
<1>3. CASE n = 2
  BY <1>0, <1>3 DEF Factors, Unpacks
<1>4. CASE n = 3
  BY <1>0, <1>4 DEF Factors, Unpacks
<1>5. CASE n = 4
  BY <1>0, <1>5, SMTT(30) DEF Factors, Unpacks
<1>6. CASE n = 5
  <2>1. /\ g[0] = 0 /\ r[0] = g[5]
        /\ g[1] = g[0] + 120 * d[1] /\ d[1] \in 0 .. 5 /\ r[1] = r[0] % 120
        /\ g[2] = g[1] + 24 * d[2] /\ d[2] \in 0 .. 4 /\ r[2] = r[1] % 24
        /\ g[3] = g[2] + 6 * d[3] /\ d[3] \in 0 .. 3 /\ r[3] = r[2] % 6
        /\ g[4] = g[3] + 2 * d[4] /\ d[4] \in 0 .. 2 /\ r[4] = r[3] % 2
        /\ g[5] = g[4] + 1 * d[5] /\ d[5] \in 0 .. 1 /\ r[5] = r[4] % 1
    BY <1>0, <1>6 DEF Factors, Unpacks
  <2> DEFINE d1 == d[1]
             d2 == d[2]
             d3 == d[3]
             d4 == d[4]
             d5 == d[5]
             r0 == r[0]
             r1 == r[1]
             r2 == r[2]
             r3 == r[3]
             r4 == r[4]
  <2>2. d1 \in 0 .. 5 /\ d2 \in 0 .. 4 /\ d3 \in 0 .. 3 /\ d4 \in 0 .. 2 /\ d5 \in 0 .. 1
    BY ONLY <2>1
  <2>3. g[1] = 120 * d1
    BY ONLY <2>1, <2>2, SMTT(30)
  <2>4. g[2] = 120 * d1 + 24 * d2
    BY ONLY <2>1, <2>2, <2>3
  <2>5. g[3] = 120 * d1 + 24 * d2 + 6 * d3
    BY ONLY <2>1, <2>2, <2>4
  <2>6. g[4] = 120 * d1 + 24 * d2 + 6 * d3 + 2 * d4
    BY ONLY <2>1, <2>2, <2>5
  <2>7. g[5] = 120 * d1 + 24 * d2 + 6 * d3 + 2 * d4 + 1 * d5
    BY ONLY <2>1, <2>2, <2>6
  <2>8. r0 = 120 * d1 + 24 * d2 + 6 * d3 + 2 * d4 + 1 * d5 /\ r0 \in Int
    BY ONLY <2>1, <2>2, <2>7
  <2>9. r1 = r0 % 120 /\ r1 \in Int
    BY ONLY <2>1, <2>8
  <2>10. r2 = r1 % 24 /\ r2 \in Int
    BY ONLY <2>1, <2>9, SMTT(30)
  <2>11. r3 = r2 % 6 /\ r3 \in Int
    BY ONLY <2>1, <2>10, SMTT(30)
  <2>12. r4 = r3 % 2 /\ r4 \in Int
    BY ONLY <2>1, <2>11, SMTT(30)
  <2> HIDE DEF d1, d2, d3, d4, d5, r0, r1, r2, r3, r4
  <2>13. r0 \div 120 = d1 /\ r1 \div 24 = d2 /\ r2 \div 6 = d3 /\ r3 \div 2 = d4 /\ r4 \div 1 = d5
    BY ONLY <2>2, <2>8, <2>9, <2>10, <2>11, <2>12
  <2> QED
    BY <1>6, <2>13 DEF Factors, d1, d2, d3, d4, d5, r0, r1, r2, r3, r4
<1>7. CASE n = 6
  <2>1. /\ g[0] = 0 /\ r[0] = g[6]
        /\ g[1] = g[0] + 120 * d[1] /\ d[1] \in 0 .. 5 /\ r[1] = r[0] % 120
        /\ g[2] = g[1] + 24 * d[2] /\ d[2] \in 0 .. 4 /\ r[2] = r[1] % 24
        /\ g[3] = g[2] + 6 * d[3] /\ d[3] \in 0 .. 3 /\ r[3] = r[2] % 6
        /\ g[4] = g[3] + 2 * d[4] /\ d[4] \in 0 .. 2 /\ r[4] = r[3] % 2
        /\ g[5] = g[4] + 1 * d[5] /\ d[5] \in 0 .. 1 /\ r[5] = r[4] % 1
        /\ g[6] = g[5] + 1 * d[6] /\ d[6] \in 0 .. 0
    BY <1>0, <1>7 DEF Factors, Unpacks
  <2> DEFINE d1 == d[1]
             d2 == d[2]
             d3 == d[3]
             d4 == d[4]
             d5 == d[5]
             d6 == d[6]
             r0 == r[0]
             r1 == r[1]
             r2 == r[2]
             r3 == r[3]
             r4 == r[4]
  <2>2. d1 \in 0 .. 5 /\ d2 \in 0 .. 4 /\ d3 \in 0 .. 3 /\ d4 \in 0 .. 2 /\ d5 \in 0 .. 1 /\ d6 \in 0 .. 0
    BY ONLY <2>1
  <2>3. g[1] = 120 * d1
    BY ONLY <2>1, <2>2, SMTT(30)
  <2>4. g[2] = 120 * d1 + 24 * d2
    BY ONLY <2>1, <2>2, <2>3
  <2>5. g[3] = 120 * d1 + 24 * d2 + 6 * d3
    BY ONLY <2>1, <2>2, <2>4
  <2>6. g[4] = 120 * d1 + 24 * d2 + 6 * d3 + 2 * d4
    BY ONLY <2>1, <2>2, <2>5
  <2>7. g[5] = 120 * d1 + 24 * d2 + 6 * d3 + 2 * d4 + 1 * d5
    BY ONLY <2>1, <2>2, <2>6
  <2>8. g[6] = 120 * d1 + 24 * d2 + 6 * d3 + 2 * d4 + 1 * d5 + 1 * d6
    BY ONLY <2>1, <2>2, <2>7
  <2>9. r0 = 120 * d1 + 24 * d2 + 6 * d3 + 2 * d4 + 1 * d5 + 1 * d6 /\ r0 \in Int
    BY ONLY <2>1, <2>2, <2>8
  <2>10. r1 = r0 % 120 /\ r1 \in Int
    BY ONLY <2>1, <2>9
  <2>11. r2 = r1 % 24 /\ r2 \in Int
    BY ONLY <2>1, <2>10, SMTT(30)
  <2>12. r3 = r2 % 6 /\ r3 \in Int
    BY ONLY <2>1, <2>11, SMTT(30)
  <2>13. r4 = r3 % 2 /\ r4 \in Int
    BY ONLY <2>1, <2>12, SMTT(30)
  <2> HIDE DEF d1, d2, d3, d4, d5, d6, r0, r1, r2, r3, r4
  <2>14. r0 \div 120 = d1 /\ r1 \div 24 = d2 /\ r2 \div 6 = d3 /\ r3 \div 2 = d4 /\ r4 = d5
    BY ONLY <2>2, <2>9, <2>10, <2>11, <2>12, <2>13
  <2>15. r[4] \div 1 = d[5] /\ r[5] \div 1 = d[6]
    <3>1. r[4] = d[5] /\ d[5] \in Int /\ d[6] = 0
      BY ONLY <2>1, <2>14, SMTT(30) DEF r4, d5
    <3>2. r[5] = r[4] % 1
      BY ONLY <2>1
    <3> QED
      BY ONLY <3>1, <3>2, ModuloOne
  <2> QED
    BY <1>7, <2>14, <2>15 DEF Factors, d1, d2, d3, d4, d5, d6, r0, r1, r2, r3, r4
<1> QED
  BY <1>0, <1>1, <1>2, <1>3, <1>4, <1>5, <1>6, <1>7

Prefix(s, i) == SubSeq(s, 1, i)

LEMMA WholePrefix ==
    ASSUME NEW s, IsList(s)
    PROVE  Prefix(s, 0) = <<>> /\ Prefix(s, Len(s)) = s
<1> DEFINE S == 1 .. RegisterMax
<1>1. s \in Seq(S)
  BY DEF IsList
<1> HIDE DEF S
<1>2. Prefix(s, 0) = <<>> /\ Prefix(s, Len(s)) = s
  <2>1. SubSeq(s, 1, Len(s)) = s
    BY <1>1, SubSeqFull
  <2> QED
    BY <1>1, <2>1, SubSeqEmpty DEF Prefix
<1> QED
  BY <1>2

LEMMA NextPrefix ==
    ASSUME NEW s, IsList(s), NEW i \in 1 .. Len(s)
    PROVE  ToSet(Prefix(s, i - 1)) = Taken(s, i) /\ Append(Prefix(s, i - 1), s[i]) = Prefix(s, i)
<1> DEFINE S == 1 .. RegisterMax
<1>1. s \in Seq(S)
  BY DEF IsList
<1> HIDE DEF S
<1>3. ToSet(Prefix(s, i - 1)) = Taken(s, i) /\ Append(Prefix(s, i - 1), s[i]) = Prefix(s, i)
  <2>1. Len(s) \in Nat /\ \A j \in 1 .. Len(s) : s[j] \in S
    BY <1>1
  <2> DEFINE t == SubSeq(s, 1, i - 1)
  <2>2. t \in Seq(S) /\ Len(t) = i - 1 /\ \A j \in 1 .. i - 1 : t[j] = s[j]
    BY <1>1, <2>1
  <2>3. ToSet(t) = Taken(s, i)
    <3>1. DOMAIN t = 1 .. i - 1
      BY <2>2
    <3> HIDE DEF t
    <3> QED
      BY <2>2, <3>1 DEF ToSet, Taken
  <2>4. Append(t, s[i]) = SubSeq(s, 1, i)
    <3> DEFINE u == Append(t, s[i])
               v == SubSeq(s, 1, i)
    <3>1. v \in Seq(S) /\ Len(v) = i /\ \A j \in 1 .. i : v[j] = s[j]
      BY <1>1, <2>1
    <3> HIDE DEF t
    <3>2. u \in Seq(S) /\ Len(u) = i /\ \A j \in 1 .. i : u[j] = s[j]
      BY <2>1, <2>2
    <3> HIDE DEF u, v
    <3>3. Len(u) = Len(v) /\ \A j \in 1 .. Len(u) : u[j] = v[j]
      BY <3>1, <3>2
    <3>4. u = v
      BY <3>1, <3>2, <3>3, SeqEqual
    <3> QED
      BY <3>4 DEF u, v
  <2> QED
    BY <2>3, <2>4 DEF Prefix
<1> QED
  BY <1>3

\* The register that decode takes of those that are left.
Chosen(left, number) == CHOOSE u \in left : Cardinality({v \in left : v < u}) = number

LEMMA TakenBack ==
    ASSUME NEW s, IsList(s), NEW i \in 1 .. Len(s)
    PROVE  Chosen(Left(s, i), Digit(s, i)) = s[i]
<1> DEFINE left == Left(s, i)
           at == CHOOSE u \in left : Cardinality(Below(left, u)) = Digit(s, i)
<1>1. s[i] \in left /\ left \in SUBSET Int /\ IsFiniteSet(left) /\ Cardinality(Below(left, s[i])) = Digit(s, i)
  BY Digits
<1>2. Chosen(left, Digit(s, i)) = at
  BY DEF Chosen, Below
<1> HIDE DEF left
<1>3. at \in left /\ Cardinality(Below(left, at)) = Digit(s, i)
  BY <1>1
<1> HIDE DEF at
<1>4. ~ (at < s[i]) /\ ~ (s[i] < at)
  <2>1. \A x, y \in left : x < y => Cardinality(Below(left, x)) < Cardinality(Below(left, y))
    BY <1>1, Ranks
  <2>2. Digit(s, i) \in Int
    BY Digits
  <2> QED
    <3>1. at < s[i] => Cardinality(Below(left, at)) < Cardinality(Below(left, s[i]))
      BY <1>1, <1>3, <2>1
    <3>2. s[i] < at => Cardinality(Below(left, s[i])) < Cardinality(Below(left, at))
      BY <1>1, <1>3, <2>1
    <3> QED
      BY <1>1, <1>3, <2>2, <3>1, <3>2
<1>5. at \in Int /\ s[i] \in Int
  BY <1>1, <1>3
<1> QED
  BY <1>2, <1>4, <1>5 DEF left

LEMMA DigitsComeBack ==
    ASSUME NEW s, IsList(s)
    PROVE  \A i \in 1 .. Len(s) :
              Rest(register_encode(s), Len(s))[i - 1] \div Factors[Len(s)][i] = Digit(s, i)
<1> DEFINE n == Len(s)
           r == Rest(register_encode(s), n)
           d == [i \in 1 .. n |-> Digit(s, i)]
<1>1. n \in 0 .. RegisterMax /\ \A i \in 1 .. n : Digit(s, i) \in 0 .. RegisterMax - i
  BY ListIs, Digits
<1>2. PICK g \in [0 .. n -> Int] :
          /\ register_encode(s) = g[n] /\ g[0] = 0
          /\ \A i \in 1 .. n : g[i] = g[i - 1] + Factors[n][i] * Digit(s, i)
  BY EncodeIs
<1> HIDE DEF n
<1>3. register_encode(s) \in Int
  BY <1>1, <1>2 DEF RegisterMax
<1>4. r[0] = g[n] /\ \A i \in 1 .. n : r[i] = r[i - 1] % Factors[n][i]
  BY <1>1, <1>2, <1>3, RestIs
<1>5. \A i \in 1 .. n : d[i] = Digit(s, i) /\ d[i] \in 0 .. RegisterMax - i /\ g[i] = g[i - 1] + Factors[n][i] * d[i]
  BY <1>1, <1>2
<1> HIDE DEF r, d
<1>6. \A i \in 1 .. n : r[i - 1] \div Factors[n][i] = d[i]
  <2>1. Unpacks(n, d, g, r)
    BY <1>2, <1>4, <1>5 DEF Unpacks
  <2> QED
    BY <1>1, <2>1, Unpacked
<1> QED
  BY <1>5, <1>6 DEF n, r

LEMMA ListComesBack ==
    ASSUME NEW s, IsList(s)
    PROVE  register_decode(register_encode(s), Len(s)) = s
<1> DEFINE n == Len(s)
           rest == Rest(register_encode(s), n)
           step(g, i) == IF i = 0 THEN <<>>
                         ELSE Append(g[i - 1], Chosen((1 .. RegisterMax) \ ToSet(g[i - 1]),
                                                      rest[i - 1] \div Factors[n][i]))
           Is(g) == g = [i \in 0 .. n |-> step(g, i)]
           list == CHOOSE g : Is(g)
           h == [i \in 0 .. n |-> Prefix(s, i)]
<1>1. n \in Nat
  BY ListIs DEF RegisterMax
<1>1a. \A i \in 1 .. Len(s) : /\ ToSet(Prefix(s, i - 1)) = Taken(s, i)
                              /\ Append(Prefix(s, i - 1), s[i]) = Prefix(s, i)
  <2> TAKE i \in 1 .. Len(s)
  <2> HIDE DEF n, rest, step, Is, list, h
  <2> QED
    BY NextPrefix
<1>2. ASSUME NEW i \in 1 .. n, NEW g, g[i - 1] = Prefix(s, i - 1) PROVE step(g, i) = Prefix(s, i)
  <2>1. rest[i - 1] \div Factors[n][i] = Digit(s, i)
    BY DigitsComeBack
  <2>2. (1 .. RegisterMax) \ ToSet(g[i - 1]) = Left(s, i)
    <3>1. ToSet(Prefix(s, i - 1)) = Taken(s, i)
      BY <1>1a
    <3> QED
      BY <1>2, <3>1 DEF Left
  <2>3. Chosen(Left(s, i), Digit(s, i)) = s[i] /\ Append(Prefix(s, i - 1), s[i]) = Prefix(s, i)
    <3>1. Append(Prefix(s, i - 1), s[i]) = Prefix(s, i)
      BY <1>1a
    <3>2. Chosen(Left(s, i), Digit(s, i)) = s[i]
      BY TakenBack
    <3> QED
      BY <3>1, <3>2
  <2>4. i # 0
    BY <1>1
  <2> HIDE DEF rest, n
  <2> QED
    BY <1>2, <2>1, <2>2, <2>3, <2>4
<1>3. \A g : step(g, 0) = Prefix(s, 0)
  BY WholePrefix
<1> HIDE DEF step
<1>4. \A i \in 0 .. n : h[i] = step(h, i)
  <2> TAKE i \in 0 .. n
  <2>1. CASE i = 0
    BY <1>3, <2>1
  <2>2. CASE i # 0
    <3>1. i \in 1 .. n /\ i - 1 \in 0 .. n
      BY <1>1, <2>2
    <3>2. h[i - 1] = Prefix(s, i - 1) /\ h[i] = Prefix(s, i)
      BY <3>1
    <3> HIDE DEF h, n
    <3> QED
      BY <1>2, <3>1, <3>2
  <2> QED
    BY <2>1, <2>2
<1>5. Is(h)
  <2>1. h = [i \in 0 .. n |-> h[i]]
    OBVIOUS
  <2> HIDE DEF h
  <2> QED
    BY <1>4, <2>1
<1>6. Is(list)
  <2> HIDE DEF h
  <2> QED
    BY <1>5
<1> HIDE DEF list, n
<1>7. \A i \in 0 .. n : list[i] = step(list, i)
  BY <1>6
<1>8. list[n] = Prefix(s, n)
  <2> DEFINE T == {i \in Nat : i <= n /\ list[i] # Prefix(s, i)}
  <2>1. SUFFICES ASSUME T # {} PROVE FALSE
    BY <1>1
  <2>2. PICK i \in T : \A v \in T : i <= v
    <3>1. T \in SUBSET Nat
      OBVIOUS
    <3> HIDE DEF T
    <3> QED
      BY <2>1, <3>1, LeastNumber
  <2>3. i \in 0 .. n /\ i # 0 /\ i \in 1 .. n /\ i - 1 \in Nat /\ ~ (i <= i - 1) /\ i - 1 <= n
    BY <1>1, <1>3, <1>7
  <2>4. i - 1 \notin T
    <3> HIDE DEF T
    <3> QED
      BY <2>2, <2>3
  <2>5. list[i - 1] = Prefix(s, i - 1)
    BY <2>3, <2>4
  <2> QED
    BY <1>2, <1>7, <2>2, <2>3, <2>5
<1>9. register_decode(register_encode(s), Len(s)) = list[n]
  BY DEF register_decode, list, step, n, rest, Chosen
<1> QED
  <2>1. Prefix(s, Len(s)) = s
    BY WholePrefix
  <2> QED
    BY <1>8, <1>9, <2>1 DEF n

\* What IsFunction says of the registers that are pushed.
LEMMA FunctionIs ==
    ASSUME NEW s, IsFunction(s)
    PROVE  /\ Len(s.saved) \in Nat /\ DOMAIN s.saved = 1 .. Len(s.saved)
           /\ \A i \in 1 .. Len(s.saved) : s.saved[i] \in 0 .. RegisterMax
           /\ Used(s) \subseteq 1 .. Len(s.saved)
           /\ \A i \in 1 .. Len(s.saved) : i \in Used(s) <=> s.saved[i] # 0
           /\ s.room \in Nat /\ s.framed \in BOOLEAN
<1> DEFINE S == 0 .. RegisterMax
           l == s.saved
<1>1. l \in Seq(S)
  BY DEF IsFunction
<1> HIDE DEF S, l
<1>2. Len(l) \in Nat /\ DOMAIN l = 1 .. Len(l) /\ \A i \in 1 .. Len(l) : l[i] \in S
  BY <1>1
<1>3. Used(s) = {i \in DOMAIN l : l[i] # 0}
  BY DEF Used, l
<1> QED
  BY <1>2, <1>3 DEF S, l, IsFunction

LEMMA FramelessList ==
    ASSUME NEW s, IsFunction(s), s.info \in {"immediate", "indirect"}
    PROVE  IsList(s.saved) /\ \A i \in 1 .. Len(s.saved) : s.saved[i] # 0
<1>1. Len(s.saved) <= RegisterMax /\ Used(s) = DOMAIN s.saved
  BY DEF IsFunction, Pushed
<1>2. \A i \in 1 .. Len(s.saved) : s.saved[i] # 0 /\ s.saved[i] \in 1 .. RegisterMax /\ i \in Used(s)
  BY <1>1, FunctionIs DEF RegisterMax
<1>3. \A i, j \in 1 .. Len(s.saved) : s.saved[i] = s.saved[j] => i = j
  BY <1>2 DEF IsFunction
<1>4. s.saved \in Seq(1 .. RegisterMax)
  <2> DEFINE S == 1 .. RegisterMax
             T == 0 .. RegisterMax
             l == s.saved
  <2>1. l \in Seq(T) /\ \A i \in 1 .. Len(l) : l[i] \in S
    BY <1>2 DEF IsFunction
  <2> HIDE DEF S, T, l
  <2>2. l \in Seq(S)
    BY <2>1
  <2> QED
    BY <2>2 DEF S, l
<1> QED
  BY <1>1, <1>2, <1>3, <1>4, FunctionIs DEF IsList

LEMMA ListIsNamed ==
    ASSUME ProgramOK, NEW f \in Functions, functions[f].info \in {"immediate", "indirect"}
    PROVE  entry_init(arch, Encoding(functions[f])).register_list
              = [i \in DOMAIN functions[f].saved |-> Name(functions[f].saved[i])]
<1> DEFINE s == functions[f]
           e == Encoding(s)
<1>1. IsFunction(s)
  BY ProgramFacts
<1> HIDE DEF s
<1>2. IsList(s.saved) /\ \A i \in 1 .. Len(s.saved) : s.saved[i] # 0
  BY <1>1, FramelessList DEF s
<1>3. DOMAIN s.saved = 1 .. Len(s.saved)
  BY <1>1, FunctionIs
<1>4. e.mode \in {"immediate", "indirect"} /\ e.permutation = register_encode(s.saved) /\ e.count = Len(s.saved)
  BY DEF Encoding, s, Pushed
<1> HIDE DEF e
<1>5. register_decode(e.permutation, e.count) = s.saved
  BY <1>2, <1>4, ListComesBack
<1>6. entry_init(arch, e).register_list = RegisterList(arch, s.saved)
  BY <1>4, <1>5 DEF entry_init
<1>7. RegisterList(arch, s.saved) = [i \in DOMAIN s.saved |-> Name(s.saved[i])]
  BY <1>2, <1>3 DEF RegisterList, RegisterName, Name
<1> QED
  BY <1>6, <1>7 DEF s, e

\* RegistersRoundTrip: a list of up to six registers, packed by register_encode into a
\* number, comes out of register_decode as it was.
THEOREM ListsAreReadBack == Spec => []RegistersRoundTrip
<1>1. ProgramOK => RegistersRoundTrip
  BY ListIsNamed DEF RegistersRoundTrip
<1> QED
  BY <1>1, ProgramStays, PTL

----------------------------------------------------------------------------
(* The thread: what its stack holds.                                       *)

\* The calls in progress.
L == Len(callers)

\* The registers at a level: those found by the caller at a return, and the crashed ones.
Level(n) == IF n <= L THEN callers[n] ELSE regs

\* The words of a frame, from the stack pointer of the caller and the function called.
Base(c, s) == IF s.framed THEN c["SP"] - 2 ELSE c["SP"] - 1
Low(c, s) == Base(c, s) - Pushed(s)
SavedNames(s) == {Name(s.saved[i]) : i \in Used(s)}
Changed(s) == SavedNames(s) \cup {"IP", "SP", Acc[arch]}
              \cup (IF s.rule = "register" THEN {Name(1)} ELSE {})
              \cup (IF s.framed THEN {"FP"} ELSE {})

\* What a call of s by c leaves: the stack, and the registers d of the function called.
Words(c, s) ==
    /\ mem[c["SP"] - 1] = c["IP"]
    /\ s.framed => mem[c["SP"] - 2] = c["FP"]
    /\ \A i \in Used(s) : mem[Low(c, s) + i - 1] = c[Name(s.saved[i])]
Kept(c, s, d) ==
    /\ d["SP"] = Low(c, s) - s.room
    /\ s.framed => d["FP"] = c["SP"] - 2
    /\ s.rule = "register" => d[Name(5)] = c[Name(1)]
    /\ \A r \in Registers \ Changed(s) : d[r] = c[r]

\* The n-th call is one of f.
CallIs(n, f) ==
    /\ Words(callers[n], functions[f])
    /\ Kept(callers[n], functions[f], Level(n + 1))
    /\ Level(n + 1)["IP"] = IF n = L THEN Body(f) ELSE ReturnTo(f)

\* A frame pointer is 0, or no address, or that of a function that was called with one.
Readable == DOMAIN mem \cup {Start(f) : f \in InImage}
IsFramePtr(v, n) ==
    \/ v = 0 \/ v \notin Readable
    \/ \E m \in 1 .. n : /\ v = callers[m]["SP"] - 2 /\ regs["SP"] <= v
                         /\ mem[v] = callers[m]["FP"] /\ mem[v + 1] = callers[m]["IP"]

Bottom == StackTop - StackSize

StackInv ==
    /\ callers \in Seq([Registers -> Int]) /\ regs \in [Registers -> Int] /\ L <= MaxDepth
    /\ mem \in [Bottom .. StackTop - 1 -> Int]
    /\ \A n \in 1 .. L + 1 : /\ Level(n)["SP"] \in regs["SP"] .. StackTop
                             /\ IsFramePtr(Level(n)["FP"], n - 1)
    /\ Bottom <= regs["SP"]
    /\ Level(1)["IP"] = 0
    /\ \A n \in 1 .. L : \E f \in Functions : CallIs(n, f)

----------------------------------------------------------------------------
(* The registers of the architectures.                                     *)

LEMMA RegistersAre ==
    ASSUME arch \in Architectures
    PROVE  /\ \A k \in 1 .. RegisterMax : Name(k) \in Registers /\ Name(k) \notin {"IP", "SP", Acc[arch]}
           /\ \A j, k \in 1 .. RegisterMax : Name(j) = Name(k) => j = k
           /\ Name(RegisterMax) = "FP" /\ {"IP", "SP", "FP", Acc[arch]} \subseteq Registers
           /\ Acc[arch] \notin {"IP", "SP", "FP"}
           /\ \A r \in Registers : r \in {"IP", "SP", Acc[arch]} \/ \E k \in 1 .. RegisterMax : r = Name(k)
<1>1. CASE arch = "x86"
  <2>1. map_register_name[arch] = <<"EBX", "ECX", "EDX", "EDI", "ESI", "FP">> /\ Acc[arch] = "EAX"
    BY <1>1 DEF map_register_name, Acc
  <2>2. Registers = {"IP", "SP", "EAX", "EBX", "ECX", "EDX", "EDI", "ESI", "FP"}
    BY <2>1 DEF Registers, ToSet
  <2> QED
    BY <2>1, <2>2 DEF Name, RegisterMax
<1>2. CASE arch = "x86_64"
  <2>1. map_register_name[arch] = <<"RBX", "R12", "R13", "R14", "R15", "FP">> /\ Acc[arch] = "RAX"
    BY <1>2 DEF map_register_name, Acc
  <2>2. Registers = {"IP", "SP", "RAX", "RBX", "R12", "R13", "R14", "R15", "FP"}
    BY <2>1 DEF Registers, ToSet
  <2> QED
    BY <2>1, <2>2 DEF Name, RegisterMax
<1> QED
  BY <1>1, <1>2 DEF Architectures

\* The stack grows downward, from one call to the next.
LEMMA InitStack == Init => StackInv
<1> SUFFICES ASSUME Init PROVE StackInv
  OBVIOUS
<1>1. ProgramOK /\ callers = <<>> /\ L = 0
  BY DEF Init, ProgramOK, L
<1>2. "SP" \in Registers /\ "FP" \in Registers /\ "IP" \in Registers
  BY <1>1, RegistersAre DEF ProgramOK
<1>3. /\ regs \in [Registers -> Int] /\ regs["SP"] = StackTop /\ regs["FP"] = 0 /\ regs["IP"] = 0
      /\ mem \in [Bottom .. StackTop - 1 -> Int]
  BY <1>2, UnwindAssumption DEF Init, Bottom
<1>4. \A n \in 1 .. L + 1 : Level(n) = regs
  BY <1>1 DEF Level
<1>5. \A n \in 1 .. L + 1 : Level(n)["SP"] \in regs["SP"] .. StackTop /\ IsFramePtr(Level(n)["FP"], n - 1)
  BY <1>3, <1>4, UnwindAssumption DEF IsFramePtr
<1>6. Bottom <= regs["SP"] /\ Level(1)["IP"] = 0
  BY <1>1, <1>3, <1>4, UnwindAssumption DEF Bottom
<1>7. callers \in Seq([Registers -> Int]) /\ L <= MaxDepth
  BY <1>1, UnwindAssumption
<1> QED
  BY <1>1, <1>3, <1>5, <1>6, <1>7 DEF StackInv

----------------------------------------------------------------------------
(* What a call does.                                                       *)

RetAddr == IF callers = <<>> THEN 0 ELSE regs["IP"] + 1
Caught == [regs EXCEPT !["IP"] = RetAddr]

LEMMA FreshIs ==
    ASSUME ProgramOK, NEW n \in 1 .. MaxDepth
    PROVE  /\ \A r \in Registers \ {"IP", "SP"} : Fresh(n, r) \in Int
           /\ Fresh(n, "FP") = 8 * n + RegisterMax
<1>1. MaxDepth \in Nat /\ n \in Nat
  BY UnwindAssumption
<1>2. /\ \A j, k \in 1 .. RegisterMax : Name(j) = Name(k) => j = k
      /\ Name(RegisterMax) = "FP" /\ Acc[arch] # "FP" /\ RegisterMax \in 1 .. RegisterMax
      /\ \A r \in Registers : r \in {"IP", "SP", Acc[arch]} \/ \E k \in 1 .. RegisterMax : r = Name(k)
  BY RegistersAre DEF ProgramOK, RegisterMax
<1>3. ASSUME NEW r \in Registers \ {"IP", "SP"} PROVE Fresh(n, r) \in Int
  <2>1. CASE r = Acc[arch]
    BY <1>1, <2>1 DEF Fresh
  <2>2. CASE r # Acc[arch]
    <3> DEFINE k == CHOOSE k \in 1 .. RegisterMax : Name(k) = r
    <3>1. k \in 1 .. RegisterMax
      BY <1>2, <2>2
    <3>2. Fresh(n, r) = 8 * n + k
      BY <2>2 DEF Fresh
    <3> HIDE DEF k
    <3> QED
      BY <1>1, <3>1, <3>2
  <2> QED
    BY <2>1, <2>2
<1>4. Fresh(n, "FP") = 8 * n + RegisterMax
  <2> DEFINE k == CHOOSE k \in 1 .. RegisterMax : Name(k) = "FP"
  <2>1. k \in 1 .. RegisterMax /\ Name(k) = "FP"
    BY <1>2
  <2>2. Fresh(n, "FP") = 8 * n + k
    BY <1>2 DEF Fresh
  <2> HIDE DEF k
  <2> QED
    BY <1>2, <2>1, <2>2
<1> QED
  BY <1>3, <1>4

\* The stack and the registers after a call of s.
Pushes(s) == {Low(regs, s) + i - 1 : i \in Used(s)}
WordAfter(s, a) ==
    CASE a = regs["SP"] - 1 -> RetAddr
      [] a = Base(regs, s) /\ s.framed -> regs["FP"]
      [] a \in Pushes(s) -> regs[Name(s.saved[a - Low(regs, s) + 1])]
      [] a \notin Pushes(s) \cup {regs["SP"] - 1} /\ ~ (a = Base(regs, s) /\ s.framed) -> mem[a]

Clobbered(s) == SavedNames(s) \cup {Acc[arch]} \cup (IF s.rule = "register" THEN {Name(1)} ELSE {})
RegAfter(s, f, r) ==
    CASE r = "IP" -> Body(f)
      [] r = "SP" -> Low(regs, s) - s.room
      [] r = "FP" /\ s.framed -> Base(regs, s)
      [] r = Name(5) /\ s.rule = "register" -> regs[Name(1)]
      [] r \in Clobbered(s) /\ ~ (r = Name(5) /\ s.rule = "register") /\ ~ (r = "FP" /\ s.framed) -> Fresh(L + 1, r)
      [] r \notin Clobbered(s) \cup {"IP", "SP"} /\ ~ (r = "FP" /\ s.framed) -> regs[r]

LEMMA CallsTo ==
    ASSUME ProgramOK, StackInv, NEW f \in Functions, Call(f)
    PROVE  LET s == functions[f]
           IN /\ L + 1 <= MaxDepth /\ Bottom <= Low(regs, s) - s.room
              /\ callers' = Append(callers, Caught)
              /\ UNCHANGED <<arch, functions, layout, cursor>>
              /\ mem' = [a \in DOMAIN mem |-> WordAfter(s, a)]
              /\ regs' = [r \in Registers |-> RegAfter(s, f, r)]
<1> DEFINE s == functions[f]
           at == regs["SP"] - 1
           base == IF s.framed THEN at - 1 ELSE at
<1>1. regs["SP"] \in Int /\ at - 1 = regs["SP"] - 2
  <2>1. "SP" \in Registers
    BY RegistersAre DEF ProgramOK
  <2> QED
    BY <2>1 DEF StackInv
<1>2. base = Base(regs, s)
  BY <1>1 DEF Base
<1>3. base - Pushed(s) = Low(regs, s)
  BY <1>2 DEF Low
<1>4. mem' = [a \in DOMAIN mem |-> WordAfter(s, a)]
  BY <1>2, <1>3, SMTT(30) DEF Call, WordAfter, Pushes, RetAddr
<1>5. regs' = [r \in Registers |-> RegAfter(s, f, r)]
  BY <1>2, <1>3, SMTT(30) DEF Call, RegAfter, Clobbered, SavedNames, L
<1>6. callers' = Append(callers, Caught)
  BY DEF Call, Caught, RetAddr
<1>7. L + 1 <= MaxDepth /\ Bottom <= Low(regs, s) - s.room
  <2>1. L + 1 <= MaxDepth /\ Low(regs, s) - s.room >= Bottom
    BY <1>2, <1>3 DEF Call, L, Bottom
  <2>2. Low(regs, s) - s.room \in Int /\ Bottom \in Int
    <3>1. IsFunction(s) /\ Pushed(s) \in Nat /\ s.room \in Nat
      BY ProgramFacts, FunctionIs DEF Pushed
    <3> QED
      BY <1>1, <3>1, UnwindAssumption DEF Low, Base, Bottom
  <2> QED
    BY <2>1, <2>2
<1> QED
  BY <1>4, <1>5, <1>6, <1>7 DEF Call

LEMMA StackFacts ==
    ASSUME ProgramOK, StackInv
    PROVE  /\ L \in Nat /\ L <= MaxDepth /\ DOMAIN callers = 1 .. L
           /\ \A n \in 1 .. L : callers[n] \in [Registers -> Int]
           /\ \A n \in 1 .. L + 1 : Level(n) \in [Registers -> Int] /\ Level(n)["SP"] \in Int
           /\ {"IP", "SP", "FP"} \subseteq Registers
           /\ regs["SP"] \in Int /\ regs["FP"] \in Int /\ regs["IP"] \in Int /\ regs["SP"] <= StackTop
           /\ Bottom <= regs["SP"]
           /\ Bottom \in Int /\ StackTop \in Int /\ HeaderAddr \in Int /\ StackTop < HeaderAddr
           /\ Level(L + 1) = regs /\ \A n \in 1 .. L : Level(n) = callers[n]
<1> DEFINE S == [Registers -> Int]
<1>1. callers \in Seq(S) /\ regs \in S
  BY DEF StackInv
<1> HIDE DEF S
<1>2. L \in Nat /\ DOMAIN callers = 1 .. L /\ \A n \in 1 .. L : callers[n] \in S
  BY <1>1 DEF L
<1>3. {"IP", "SP", "FP"} \subseteq Registers
  BY RegistersAre DEF ProgramOK
<1>4. Level(L + 1) = regs /\ \A n \in 1 .. L : Level(n) = callers[n]
  BY <1>2 DEF Level
<1>5. \A n \in 1 .. L + 1 : Level(n) \in S
  BY <1>1, <1>2 DEF Level
<1>6. \A n \in 1 .. L + 1 : Level(n)["SP"] \in Int
  BY <1>3, <1>5 DEF S
<1>7. regs["SP"] \in Int /\ regs["FP"] \in Int /\ regs["IP"] \in Int
  BY <1>1, <1>3 DEF S
<1>8. regs["SP"] <= StackTop /\ Bottom <= regs["SP"] /\ L <= MaxDepth
  <2>1. Level(L + 1)["SP"] \in regs["SP"] .. StackTop /\ L + 1 \in 1 .. L + 1
    BY <1>2 DEF StackInv
  <2> QED
    BY <1>4, <1>7, <2>1, UnwindAssumption DEF StackInv
<1>9. Bottom \in Int /\ StackTop \in Int /\ HeaderAddr \in Int /\ StackTop < HeaderAddr
  BY UnwindAssumption DEF Bottom
<1> QED
  BY <1>2, <1>3, <1>4, <1>5, <1>6, <1>7, <1>8, <1>9 DEF S

\* The words that a call writes lie between the new stack pointer and the old one.
LEMMA FrameIs ==
    ASSUME ProgramOK, NEW f \in Functions, NEW c, c["SP"] \in Int
    PROVE  LET s == functions[f]
           IN /\ Low(c, s) \in Int /\ Base(c, s) \in Int /\ Pushed(s) \in Nat /\ s.room \in Nat
              /\ Low(c, s) = Base(c, s) - Pushed(s)
              /\ (s.framed => Base(c, s) = c["SP"] - 2) /\ (~ s.framed => Base(c, s) = c["SP"] - 1)
              /\ \A i \in Used(s) : i \in 1 .. Pushed(s) /\ Low(c, s) + i - 1 \in Low(c, s) .. Base(c, s) - 1
                                    /\ s.saved[i] \in 1 .. RegisterMax /\ Name(s.saved[i]) \in Registers
<1> DEFINE s == functions[f]
<1>1. IsFunction(s)
  BY ProgramFacts
<1> HIDE DEF s
<1>2. /\ Pushed(s) \in Nat /\ s.room \in Nat /\ s.framed \in BOOLEAN
      /\ \A i \in Used(s) : i \in 1 .. Pushed(s) /\ s.saved[i] \in 1 .. RegisterMax
  BY <1>1, FunctionIs DEF Pushed, RegisterMax
<1>3. Base(c, s) \in Int /\ (s.framed => Base(c, s) = c["SP"] - 2) /\ (~ s.framed => Base(c, s) = c["SP"] - 1)
  BY <1>2 DEF Base
<1>4. Low(c, s) = Base(c, s) - Pushed(s) /\ Low(c, s) \in Int
  BY <1>2, <1>3 DEF Low
<1>5. \A i \in Used(s) : /\ i \in 1 .. Pushed(s) /\ Low(c, s) + i - 1 \in Low(c, s) .. Base(c, s) - 1
                         /\ s.saved[i] \in 1 .. RegisterMax /\ Name(s.saved[i]) \in Registers
  <2> TAKE i \in Used(s)
  <2>1. i \in 1 .. Pushed(s) /\ s.saved[i] \in 1 .. RegisterMax
    BY <1>2
  <2>2. Low(c, s) + i - 1 \in Low(c, s) .. Base(c, s) - 1
    BY <1>2, <1>3, <1>4, <2>1
  <2>3. Name(s.saved[i]) \in Registers
    BY <2>1, RegistersAre DEF ProgramOK
  <2> QED
    BY <2>1, <2>2, <2>3
<1> QED
  BY <1>2, <1>3, <1>4, <1>5 DEF s

\* The stack after a call.
LEMMA WordsAfter ==
    ASSUME ProgramOK, StackInv, NEW f \in Functions, Bottom <= Low(regs, functions[f]) - functions[f].room
    PROVE  LET s == functions[f]
           IN /\ \A a \in DOMAIN mem : WordAfter(s, a) \in Int
              /\ \A a \in DOMAIN mem : a >= regs["SP"] => WordAfter(s, a) = mem[a]
              /\ DOMAIN mem = Bottom .. StackTop - 1
              /\ Low(regs, s) .. regs["SP"] - 1 \subseteq DOMAIN mem
              /\ WordAfter(s, regs["SP"] - 1) = RetAddr
              /\ s.framed => WordAfter(s, regs["SP"] - 2) = regs["FP"]
              /\ \A i \in Used(s) : WordAfter(s, Low(regs, s) + i - 1) = regs[Name(s.saved[i])]
<1> DEFINE s == functions[f]
           low == Low(regs, s)
           base == Base(regs, s)
           sp == regs["SP"]
<1>1. /\ sp \in Int /\ Bottom \in Int /\ StackTop \in Int /\ sp <= StackTop
      /\ regs["FP"] \in Int /\ regs["IP"] \in Int /\ regs \in [Registers -> Int]
      /\ DOMAIN mem = Bottom .. StackTop - 1 /\ \A a \in DOMAIN mem : mem[a] \in Int
  BY StackFacts DEF StackInv
<1>2. /\ low \in Int /\ base \in Int /\ Pushed(s) \in Nat /\ s.room \in Nat /\ low = base - Pushed(s)
      /\ (s.framed => base = sp - 2) /\ (~ s.framed => base = sp - 1)
      /\ \A i \in Used(s) : low + i - 1 \in low .. base - 1 /\ Name(s.saved[i]) \in Registers /\ i \in Nat
  <2>1. sp \in Int
    BY <1>1
  <2>2. /\ low \in Int /\ base \in Int /\ Pushed(s) \in Nat /\ s.room \in Nat /\ low = base - Pushed(s)
        /\ (s.framed => base = sp - 2) /\ (~ s.framed => base = sp - 1)
        /\ \A i \in Used(s) : i \in 1 .. Pushed(s) /\ low + i - 1 \in low .. base - 1
                              /\ Name(s.saved[i]) \in Registers
    BY <2>1, FrameIs
  <2> HIDE DEF low, base, sp, s
  <2> QED
    BY <2>2
<1>3. Bottom <= low - s.room
  OBVIOUS
<1> HIDE DEF low, base, sp, s
<1>4. Pushes(s) = {low + i - 1 : i \in Used(s)}
  BY DEF Pushes, low
<1>5. Pushes(s) \subseteq low .. base - 1
  BY <1>2, <1>4
<1>6. low .. sp - 1 \subseteq DOMAIN mem
  BY <1>1, <1>2, <1>3
<1>7. WordAfter(s, sp - 1) = RetAddr
  <2>1. ~ (sp - 1 = base /\ s.framed) /\ sp - 1 \notin Pushes(s)
    BY <1>1, <1>2, <1>5
  <2> QED
    BY <2>1 DEF WordAfter, base, sp
<1>8. s.framed => WordAfter(s, sp - 2) = regs["FP"]
  <2> SUFFICES ASSUME s.framed PROVE WordAfter(s, sp - 2) = regs["FP"]
    OBVIOUS
  <2>1. sp - 2 = base /\ sp - 2 # sp - 1 /\ sp - 2 \notin Pushes(s)
    BY <1>1, <1>2, <1>5
  <2> QED
    BY <2>1 DEF WordAfter, base, sp
<1>9. ASSUME NEW i \in Used(s) PROVE WordAfter(s, low + i - 1) = regs[Name(s.saved[i])]
  <2>1. PICK a : a = low + i - 1
    OBVIOUS
  <2>2. a \in Pushes(s) /\ a # sp - 1 /\ ~ (a = base /\ s.framed) /\ a - low + 1 = i
    <3>1. a \in Pushes(s)
      BY <1>4, <2>1
    <3>2. a \in low .. base - 1 /\ i \in Nat
      BY <1>2, <2>1
    <3>3. base \in Int /\ low \in Int /\ base <= sp - 1 /\ sp \in Int
      BY <1>1, <1>2
    <3>4. a # sp - 1 /\ a # base /\ a - low + 1 = i
      BY <2>1, <3>2, <3>3
    <3> QED
      BY <3>1, <3>4
  <2>3. WordAfter(s, a) = regs[Name(s.saved[a - low + 1])]
    BY <2>2 DEF WordAfter, base, sp, low
  <2> QED
    BY <2>1, <2>2, <2>3
<1>10. ASSUME NEW a \in DOMAIN mem, a >= sp PROVE WordAfter(s, a) = mem[a]
  <2>1. a \in Int /\ a # sp - 1 /\ ~ (a = base /\ s.framed) /\ a \notin Pushes(s)
    BY <1>1, <1>2, <1>5, <1>10
  <2> QED
    BY <2>1 DEF WordAfter, base, sp
<1>11. ASSUME NEW a \in DOMAIN mem PROVE WordAfter(s, a) \in Int
  <2>1. RetAddr \in Int
    BY <1>1 DEF RetAddr
  <2>2. CASE a = sp - 1
    BY <1>7, <2>1, <2>2
  <2>3. CASE a # sp - 1 /\ a = base /\ s.framed
    BY <1>1, <1>2, <1>8, <2>3
  <2>4. CASE a \in Pushes(s)
    <3>1. PICK i \in Used(s) : a = low + i - 1
      BY <1>4, <2>4
    <3>2. WordAfter(s, a) = regs[Name(s.saved[i])]
      BY <1>9, <3>1
    <3> QED
      BY <1>1, <1>2, <3>2
  <2>5. CASE a # sp - 1 /\ ~ (a = base /\ s.framed) /\ a \notin Pushes(s)
    <3>1. WordAfter(s, a) = mem[a]
      BY <2>5 DEF WordAfter, base, sp
    <3> QED
      BY <1>1, <3>1
  <2> QED
    BY <2>2, <2>3, <2>4, <2>5
<1> QED
  BY <1>1, <1>6, <1>7, <1>8, <1>9, <1>10, <1>11 DEF s, low, sp

\* The registers after a call.
LEMMA RegsAfter ==
    ASSUME ProgramOK, StackInv, NEW f \in Functions, L + 1 <= MaxDepth
    PROVE  LET s == functions[f]
           IN /\ RegAfter(s, f, "IP") = Body(f)
              /\ RegAfter(s, f, "SP") = Low(regs, s) - s.room
              /\ s.framed => RegAfter(s, f, "FP") = regs["SP"] - 2
              /\ ~ s.framed => RegAfter(s, f, "FP") \in {regs["FP"], 8 * (L + 1) + RegisterMax}
              /\ s.rule = "register" => RegAfter(s, f, Name(5)) = regs[Name(1)]
              /\ \A r \in Registers \ Changed(s) : RegAfter(s, f, r) = regs[r]
              /\ \A r \in Registers : RegAfter(s, f, r) \in Int
<1> DEFINE s == functions[f]
           sp == regs["SP"]
<1>1. /\ sp \in Int /\ regs \in [Registers -> Int] /\ L \in Nat
  BY StackFacts DEF StackInv
<1>2. /\ Low(regs, s) \in Int /\ Base(regs, s) \in Int /\ s.room \in Nat
      /\ (s.framed => Base(regs, s) = sp - 2)
  BY <1>1, FrameIs
<1>3. /\ \A k \in 1 .. RegisterMax : Name(k) \in Registers /\ Name(k) \notin {"IP", "SP", Acc[arch]}
      /\ \A j, k \in 1 .. RegisterMax : Name(j) = Name(k) => j = k
      /\ Name(RegisterMax) = "FP" /\ "FP" \in Registers
      /\ Acc[arch] \notin {"IP", "SP", "FP"}
      /\ 1 \in 1 .. RegisterMax /\ 5 \in 1 .. RegisterMax /\ RegisterMax \in 1 .. RegisterMax /\ 5 # RegisterMax
  BY RegistersAre DEF ProgramOK, RegisterMax
<1>4. Name(5) \notin {"IP", "SP", "FP"} /\ Name(1) \in Registers /\ Name(5) \in Registers
  BY <1>3
<1>5. Body(f) \in Int
  BY ProgramFacts, StartIs DEF Body
<1>6. /\ \A r \in Registers \ {"IP", "SP"} : Fresh(L + 1, r) \in Int
      /\ Fresh(L + 1, "FP") = 8 * (L + 1) + RegisterMax
  <2>1. PICK n \in 1 .. MaxDepth : n = L + 1
    BY <1>1, UnwindAssumption
  <2> QED
    BY <2>1, FreshIs
<1> HIDE DEF s, sp
<1>6a. "IP" \notin Clobbered(s) /\ "SP" \notin Clobbered(s)
  <2>1. \A i \in Used(s) : Name(s.saved[i]) \notin {"IP", "SP"}
    <3>1. \A i \in Used(s) : s.saved[i] \in 1 .. RegisterMax
      BY <1>1, FrameIs DEF s, sp
    <3> QED
      BY <1>3, <3>1
  <2> QED
    BY <1>3, <2>1 DEF Clobbered, SavedNames
<1>7. RegAfter(s, f, "IP") = Body(f) /\ RegAfter(s, f, "SP") = Low(regs, s) - s.room
  BY <1>4, <1>6a DEF RegAfter
<1>8. s.framed => RegAfter(s, f, "FP") = sp - 2
  BY <1>2, <1>4 DEF RegAfter
<1>8a. s.rule = "register" => Name(5) \in SavedNames(s)
  <2> SUFFICES ASSUME s.rule = "register" PROVE Name(5) \in SavedNames(s)
    OBVIOUS
  <2>1. IsFunction(s)
    BY ProgramFacts DEF s
  <2>2. 5 \in ToSet(s.saved)
    BY <2>1 DEF IsFunction
  <2>3. PICK i \in DOMAIN s.saved : s.saved[i] = 5
    BY <2>2 DEF ToSet
  <2> QED
    BY <2>3 DEF SavedNames, Used
<1>9. s.rule = "register" => RegAfter(s, f, Name(5)) = regs[Name(1)]
  BY <1>4, <1>8a DEF RegAfter, Clobbered
<1>10. ~ s.framed => RegAfter(s, f, "FP") \in {regs["FP"], 8 * (L + 1) + RegisterMax}
  <2> SUFFICES ASSUME ~ s.framed PROVE RegAfter(s, f, "FP") \in {regs["FP"], Fresh(L + 1, "FP")}
    BY <1>6
  <2>1. CASE "FP" \in Clobbered(s)
    BY <1>4, <2>1 DEF RegAfter
  <2>2. CASE "FP" \notin Clobbered(s)
    BY <1>4, <2>2 DEF RegAfter
  <2> QED
    BY <2>1, <2>2
<1>11. ASSUME NEW r \in Registers \ Changed(s) PROVE RegAfter(s, f, r) = regs[r]
  <2>1. /\ r \notin {"IP", "SP"} /\ r \notin Clobbered(s) /\ ~ (r = "FP" /\ s.framed)
    BY DEF Changed, Clobbered
  <2>2. ~ (r = Name(5) /\ s.rule = "register")
    BY <1>8a DEF Changed
  <2> QED
    BY <2>1, <2>2 DEF RegAfter
<1>12. ASSUME NEW r \in Registers PROVE RegAfter(s, f, r) \in Int
  <2>1. CASE r \in {"IP", "SP"}
    BY <1>2, <1>5, <1>7, <2>1
  <2>2. CASE r = "FP" /\ s.framed
    BY <1>1, <1>8, <2>2 DEF sp
  <2>3. CASE r = Name(5) /\ s.rule = "register"
    BY <1>1, <1>4, <1>9, <2>3
  <2>4. CASE r \notin {"IP", "SP"} /\ ~ (r = "FP" /\ s.framed) /\ ~ (r = Name(5) /\ s.rule = "register")
    <3>1. RegAfter(s, f, r) \in {Fresh(L + 1, r), regs[r]}
      BY <2>4 DEF RegAfter
    <3>2. Fresh(L + 1, r) \in Int /\ regs[r] \in Int
      BY <1>1, <1>6, <2>4
    <3> QED
      BY <3>1, <3>2
  <2> QED
    BY <2>1, <2>2, <2>3, <2>4
<1> QED
  BY <1>7, <1>8, <1>9, <1>10, <1>11, <1>12 DEF s, sp

LEMMA LevelsAfter ==
    ASSUME ProgramOK, StackInv, callers' = Append(callers, Caught)
    PROVE  /\ L' = L + 1 /\ callers' \in Seq([Registers -> Int]) /\ Caught \in [Registers -> Int]
           /\ \A n \in 1 .. L : callers'[n] = callers[n] /\ Level(n)' = Level(n)
           /\ callers'[L + 1] = Caught
           /\ \A n : n = L + 1 => Level(n)' = Caught
           /\ \A n : n = L + 2 => Level(n)' = regs'
           /\ \A r \in Registers \ {"IP"} : Caught[r] = regs[r]
           /\ Caught["IP"] = RetAddr
<1> DEFINE S == [Registers -> Int]
<1>0. /\ regs \in [Registers -> Int] /\ L \in Nat
      /\ {"IP", "SP", "FP"} \subseteq Registers /\ regs["IP"] \in Int
      /\ \A n \in 1 .. L : Level(n) = callers[n]
  BY StackFacts DEF StackInv
<1>1. RetAddr \in Int
  BY <1>0 DEF RetAddr
<1>2. Caught \in S /\ Caught["IP"] = RetAddr /\ \A r \in Registers \ {"IP"} : Caught[r] = regs[r]
  BY <1>0, <1>1 DEF Caught
<1>3. callers \in Seq(S)
  BY DEF StackInv
<1> HIDE DEF S
<1>4. /\ callers' \in Seq(S) /\ Len(callers') = Len(callers) + 1
      /\ callers'[Len(callers) + 1] = Caught
      /\ \A n \in 1 .. Len(callers) : callers'[n] = callers[n]
  BY <1>2, <1>3
<1>5. L' = L + 1
  BY <1>4 DEF L
<1>6. \A n \in 1 .. L : Level(n)' = Level(n)
  BY <1>0, <1>4, <1>5 DEF Level, L
<1>7. ASSUME NEW n, n = L + 1 PROVE Level(n)' = Caught
  <2>1. n <= L'
    BY <1>0, <1>5, <1>7
  <2>2. callers'[n] = Caught
    BY <1>4, <1>7 DEF L
  <2> QED
    BY <2>1, <2>2 DEF Level
<1>8. ASSUME NEW n, n = L + 2 PROVE Level(n)' = regs'
  <2>1. ~ (n <= L')
    BY <1>0, <1>5, <1>8
  <2> QED
    BY <2>1 DEF Level
<1> QED
  BY <1>2, <1>4, <1>5, <1>6, <1>7, <1>8 DEF S, L

\* What a call leaves alone: the program, and the words of the calls before it.
Pushing(f) ==
    LET s == functions[f]
    IN /\ L + 1 <= MaxDepth /\ Bottom <= Low(regs, s) - s.room
       /\ callers' = Append(callers, Caught)
       /\ arch' = arch /\ functions' = functions
       /\ mem' = [a \in DOMAIN mem |-> WordAfter(s, a)]
       /\ regs' = [r \in Registers |-> RegAfter(s, f, r)]

LEMMA Unchanged ==
    ASSUME arch' = arch, functions' = functions
    PROVE  /\ Functions' = Functions /\ Registers' = Registers /\ InImage' = InImage /\ Bottom' = Bottom
           /\ \A g : Start(g)' = Start(g) /\ Body(g)' = Body(g) /\ ReturnTo(g)' = ReturnTo(g)
           /\ \A k : Name(k)' = Name(k)
<1>1. \A g : Start(g)' = Start(g)
  BY DEF Start
<1>2. Functions' = Functions /\ Registers' = Registers /\ Bottom' = Bottom
  BY DEF Functions, Registers, Bottom
<1>3. InImage' = InImage
  BY <1>2 DEF InImage
<1> QED
  BY <1>1, <1>2, <1>3 DEF Body, ReturnTo, Name

LEMMA MemStays ==
    ASSUME ProgramOK, StackInv, NEW f \in Functions, Pushing(f)
    PROVE  /\ DOMAIN mem' = DOMAIN mem /\ DOMAIN mem = Bottom .. StackTop - 1
           /\ \A a \in regs["SP"] .. StackTop - 1 : mem'[a] = mem[a]
           /\ regs'["SP"] \in Int /\ regs'["SP"] <= regs["SP"] /\ Bottom <= regs'["SP"]
           /\ mem' \in [Bottom .. StackTop - 1 -> Int]
           /\ regs' \in [Registers -> Int]
<1> DEFINE s == functions[f]
           sp == regs["SP"]
<1>1. /\ sp \in Int /\ Bottom \in Int /\ StackTop \in Int /\ Bottom <= sp /\ sp <= StackTop
      /\ {"IP", "SP", "FP"} \subseteq Registers
  BY StackFacts
<1>2. /\ Low(regs, s) \in Int /\ Base(regs, s) \in Int /\ s.room \in Nat /\ Pushed(s) \in Nat
      /\ Low(regs, s) = Base(regs, s) - Pushed(s)
      /\ (s.framed => Base(regs, s) = sp - 2) /\ (~ s.framed => Base(regs, s) = sp - 1)
  BY <1>1, FrameIs
<1>3. /\ \A a \in DOMAIN mem : WordAfter(s, a) \in Int
      /\ \A a \in DOMAIN mem : a >= sp => WordAfter(s, a) = mem[a]
      /\ DOMAIN mem = Bottom .. StackTop - 1
  BY WordsAfter DEF Pushing
<1>4. /\ RegAfter(s, f, "SP") = Low(regs, s) - s.room
      /\ \A r \in Registers : RegAfter(s, f, r) \in Int
  BY RegsAfter DEF Pushing
<1>5. /\ mem' = [a \in DOMAIN mem |-> WordAfter(s, a)] /\ regs' = [r \in Registers |-> RegAfter(s, f, r)]
      /\ Bottom <= Low(regs, s) - s.room
  BY DEF Pushing
<1> HIDE DEF s, sp
<1>6. regs'["SP"] = Low(regs, s) - s.room
  BY <1>1, <1>4, <1>5
<1>7. regs'["SP"] \in Int /\ regs'["SP"] <= sp /\ Bottom <= regs'["SP"]
  BY <1>1, <1>2, <1>5, <1>6
<1>8. \A a \in sp .. StackTop - 1 : mem'[a] = mem[a]
  <2> TAKE a \in sp .. StackTop - 1
  <2>1. a \in DOMAIN mem /\ a >= sp
    BY <1>1, <1>3
  <2> QED
    BY <1>3, <1>5, <2>1
<1> QED
  BY <1>1, <1>3, <1>4, <1>5, <1>7, <1>8 DEF sp

LEMMA FramePtrStays ==
    ASSUME ProgramOK, StackInv, NEW f \in Functions, Pushing(f),
           NEW CONSTANT v, NEW CONSTANT n \in 0 .. L, NEW CONSTANT m \in Nat, n <= m, m <= L + 1, IsFramePtr(v, n)
    PROVE  IsFramePtr(v, m)'
<1>1. /\ DOMAIN mem' = DOMAIN mem /\ \A a \in regs["SP"] .. StackTop - 1 : mem'[a] = mem[a]
      /\ regs'["SP"] \in Int /\ regs'["SP"] <= regs["SP"]
  BY MemStays
<1>2. InImage' = InImage /\ \A g : Start(g)' = Start(g)
  BY Unchanged DEF Pushing
<1>3. Readable' = Readable
  BY <1>1, <1>2 DEF Readable
<1>4. \A k \in 1 .. L : callers'[k] = callers[k]
  BY LevelsAfter DEF Pushing
<1>5. CASE v = 0 \/ v \notin Readable
  BY <1>3, <1>5 DEF IsFramePtr
<1>6. CASE ~ (v = 0 \/ v \notin Readable)
  <2>1. PICK k \in 1 .. n : /\ v = callers[k]["SP"] - 2 /\ regs["SP"] <= v
                            /\ mem[v] = callers[k]["FP"] /\ mem[v + 1] = callers[k]["IP"]
    BY <1>6 DEF IsFramePtr
  <2>2. k \in 1 .. L /\ k \in 1 .. m /\ L \in Nat
    BY StackFacts
  <2>3. /\ callers[k]["SP"] \in Int /\ callers[k]["SP"] <= StackTop /\ regs["SP"] \in Int /\ StackTop \in Int
    <3>1. k \in 1 .. L + 1
      BY <2>2
    <3>2. Level(k)["SP"] \in regs["SP"] .. StackTop /\ Level(k) = callers[k]
      BY <2>2, <3>1, StackFacts DEF StackInv
    <3> QED
      BY <3>2, StackFacts
  <2>4. v \in regs["SP"] .. StackTop - 1 /\ v + 1 \in regs["SP"] .. StackTop - 1
    BY <2>1, <2>3
  <2>5. mem'[v] = mem[v] /\ mem'[v + 1] = mem[v + 1] /\ callers'[k] = callers[k]
    BY <1>1, <1>4, <2>2, <2>4
  <2>6. regs'["SP"] <= v
    BY <1>1, <2>3, <2>4
  <2> QED
    BY <2>1, <2>2, <2>5, <2>6 DEF IsFramePtr
<1> QED
  BY <1>5, <1>6

LEMMA CallStays ==
    ASSUME ProgramOK, StackInv, NEW f \in Functions, Pushing(f),
           NEW CONSTANT n \in 1 .. L, NEW CONSTANT g \in Functions, CallIs(n, g)
    PROVE  CallIs(n, g)'
<1> DEFINE s == functions[g]
           c == callers[n]
           d == Level(n + 1)
<1>1. /\ L \in Nat /\ n \in Nat /\ n <= L /\ c \in [Registers -> Int] /\ {"IP", "SP", "FP"} \subseteq Registers
      /\ regs["SP"] \in Int /\ StackTop \in Int
  BY StackFacts
<1>2. c["SP"] \in Int /\ c["SP"] <= StackTop /\ regs["SP"] <= d["SP"]
  <2>1. n \in 1 .. L + 1 /\ n + 1 \in 1 .. L + 1
    BY <1>1
  <2>2. Level(n) = c
    BY StackFacts
  <2>3. Level(n)["SP"] \in regs["SP"] .. StackTop /\ d["SP"] \in regs["SP"] .. StackTop
    BY <2>1 DEF StackInv
  <2> QED
    BY <1>1, <2>2, <2>3
<1>3. /\ Low(c, s) \in Int /\ Base(c, s) \in Int /\ Pushed(s) \in Nat /\ s.room \in Nat
      /\ Low(c, s) = Base(c, s) - Pushed(s)
      /\ (s.framed => Base(c, s) = c["SP"] - 2) /\ (~ s.framed => Base(c, s) = c["SP"] - 1)
      /\ \A i \in Used(s) : Low(c, s) + i - 1 \in Low(c, s) .. Base(c, s) - 1
  BY <1>2, FrameIs
<1>4. Words(c, s) /\ Kept(c, s, d) /\ d["IP"] = IF n = L THEN Body(g) ELSE ReturnTo(g)
  BY DEF CallIs
<1>5. \A a \in regs["SP"] .. StackTop - 1 : mem'[a] = mem[a]
  BY MemStays
<1>6. callers'[n] = c /\ L' = L + 1 /\ functions' = functions /\ arch' = arch
  BY LevelsAfter DEF Pushing
<1>6a. Functions' = Functions /\ Registers' = Registers /\ ReturnTo(g)' = ReturnTo(g) /\ \A k : Name(k)' = Name(k)
  BY <1>6, Unchanged
<1>7. Words(c, s)'
  <2>1. d["SP"] = Low(c, s) - s.room
    BY <1>4 DEF Kept
  <2>2. regs["SP"] <= Low(c, s) /\ Base(c, s) <= c["SP"] - 1
    <3> HIDE DEF c, s, d
    <3> QED
      BY <1>1, <1>2, <1>3, <2>1
  <2> DEFINE w == c["SP"] - 1
             x == c["SP"] - 2
  <2>3. w \in regs["SP"] .. StackTop - 1
    <3> HIDE DEF c, s, d
    <3> QED
      BY <1>1, <1>2, <1>3, <2>2
  <2>4. s.framed => x \in regs["SP"] .. StackTop - 1
    <3> HIDE DEF c, s, d
    <3> QED
      BY <1>1, <1>2, <1>3, <2>2
  <2>5. \A i \in Used(s) : Low(c, s) + i - 1 \in regs["SP"] .. StackTop - 1
    <3> HIDE DEF c, s, d
    <3> QED
      BY <1>1, <1>2, <1>3, <2>2
  <2>6. mem'[w] = c["IP"]
    BY <1>4, <1>5, <2>3 DEF Words
  <2>7. s.framed => mem'[x] = c["FP"]
    BY <1>4, <1>5, <2>4 DEF Words
  <2>8. \A i \in Used(s) : mem'[Low(c, s) + i - 1] = c[Name(s.saved[i])]
    BY <1>4, <1>5, <2>5 DEF Words
  <2>9. c' = c /\ s' = s
    BY <1>6
  <2>10. Low(c, s)' = Low(c, s) /\ Used(s)' = Used(s)
    BY <2>9 DEF Low, Base, Used, Pushed
  <2> QED
    BY <1>6a, <2>6, <2>7, <2>8, <2>9, <2>10 DEF Words
<1>8. Level(n + 1)' = IF n = L THEN Caught ELSE d
  <2>1. CASE n = L
    BY <2>1, LevelsAfter DEF Pushing
  <2>2. CASE n # L
    <3>1. n + 1 \in 1 .. L
      BY <1>1, <2>2
    <3> QED
      BY <2>2, <3>1, LevelsAfter DEF Pushing
  <2> QED
    BY <2>1, <2>2
<1>9. \A r \in Registers \ {"IP"} : Level(n + 1)'[r] = d[r]
  <2>1. CASE n = L
    <3>1. d = regs
      BY <2>1, StackFacts
    <3> QED
      BY <1>8, <2>1, <3>1, LevelsAfter DEF Pushing
  <2> QED
    BY <1>8, <2>1
<1>10. Level(n + 1)'["IP"] = ReturnTo(g)
  <2>1. CASE n = L
    <3>1. d = regs
      BY <2>1, StackFacts
    <3>2. regs["IP"] = Body(g)
      BY <1>4, <2>1, <3>1
    <3>3. callers # <<>>
      BY <1>1 DEF L
    <3>4. Caught["IP"] = regs["IP"] + 1
      BY <3>3, LevelsAfter DEF Pushing, RetAddr
    <3>5. Start(g) \in Int
      BY ProgramFacts, StartIs
    <3> QED
      BY <1>8, <2>1, <3>2, <3>4, <3>5 DEF Body, ReturnTo
  <2> QED
    BY <1>4, <1>8, <2>1
<1>11. Kept(c, s, d)'
  <2>1. c' = c /\ s' = s
    BY <1>6
  <2>2. Low(c, s)' = Low(c, s) /\ Changed(s)' = Changed(s)
    BY <1>6, <1>6a, <2>1 DEF Low, Base, Used, Pushed, Changed, SavedNames
  <2>3. Name(5) \in Registers \ {"IP"} /\ "SP" \in Registers \ {"IP"} /\ "FP" \in Registers \ {"IP"}
    BY RegistersAre DEF ProgramOK, RegisterMax
  <2>4. "IP" \in Changed(s)
    BY DEF Changed
  <2>5. /\ d'["SP"] = Low(c, s) - s.room
        /\ s.framed => d'["FP"] = c["SP"] - 2
        /\ s.rule = "register" => d'[Name(5)] = c[Name(1)]
        /\ \A r \in Registers \ Changed(s) : d'[r] = c[r]
    BY <1>4, <1>9, <2>3, <2>4 DEF Kept
  <2> QED
    BY <1>6a, <2>1, <2>2, <2>5 DEF Kept
<1>12. n # L'
  BY <1>1, <1>6
<1> QED
  BY <1>6a, <1>7, <1>10, <1>11, <1>12 DEF CallIs

\* The call that a call adds.
LEMMA NewCall ==
    ASSUME ProgramOK, StackInv, NEW CONSTANT f \in Functions, Pushing(f)
    PROVE  \A n : n = L + 1 => CallIs(n, f)'
<1> SUFFICES ASSUME NEW CONSTANT n, n = L + 1 PROVE CallIs(n, f)'
  OBVIOUS
<1> DEFINE s == functions[f]
           c == callers[n]
           d == Level(n + 1)
<1>1. /\ L \in Nat /\ {"IP", "SP", "FP"} \subseteq Registers /\ regs["SP"] \in Int /\ regs \in [Registers -> Int]
  BY StackFacts DEF StackInv
<1>2. /\ callers'[n] = Caught /\ Level(n + 1)' = regs' /\ L' = n
      /\ Caught["IP"] = RetAddr /\ \A r \in Registers \ {"IP"} : Caught[r] = regs[r]
  <2>1. n + 1 = L + 2
    BY <1>1
  <2> QED
    BY <2>1, LevelsAfter DEF Pushing
<1>3. functions' = functions /\ arch' = arch
  BY DEF Pushing
<1>4. Functions' = Functions /\ Registers' = Registers /\ Body(f)' = Body(f) /\ \A k : Name(k)' = Name(k)
  BY <1>3, Unchanged
<1>5. /\ RegAfter(s, f, "IP") = Body(f)
      /\ RegAfter(s, f, "SP") = Low(regs, s) - s.room
      /\ s.framed => RegAfter(s, f, "FP") = regs["SP"] - 2
      /\ s.rule = "register" => RegAfter(s, f, Name(5)) = regs[Name(1)]
      /\ \A r \in Registers \ Changed(s) : RegAfter(s, f, r) = regs[r]
  BY RegsAfter DEF Pushing
<1>6. /\ Low(regs, s) .. regs["SP"] - 1 \subseteq DOMAIN mem
      /\ WordAfter(s, regs["SP"] - 1) = RetAddr
      /\ s.framed => WordAfter(s, regs["SP"] - 2) = regs["FP"]
      /\ \A i \in Used(s) : WordAfter(s, Low(regs, s) + i - 1) = regs[Name(s.saved[i])]
  BY WordsAfter DEF Pushing
<1>7. /\ Low(regs, s) \in Int /\ Base(regs, s) \in Int /\ Pushed(s) \in Nat /\ s.room \in Nat
      /\ Low(regs, s) = Base(regs, s) - Pushed(s)
      /\ (s.framed => Base(regs, s) = regs["SP"] - 2) /\ (~ s.framed => Base(regs, s) = regs["SP"] - 1)
      /\ \A i \in Used(s) : Low(regs, s) + i - 1 \in Low(regs, s) .. Base(regs, s) - 1
                            /\ s.saved[i] \in 1 .. RegisterMax
  BY <1>1, FrameIs
<1>8. mem' = [a \in DOMAIN mem |-> WordAfter(s, a)] /\ regs' = [r \in Registers |-> RegAfter(s, f, r)]
  BY DEF Pushing
<1>9. Low(Caught, s) = Low(regs, s) /\ Caught["SP"] = regs["SP"] /\ Caught["FP"] = regs["FP"]
  BY <1>1, <1>2 DEF Low, Base
<1>9a. /\ Name(1) \in Registers \ {"IP"} /\ Name(5) \in Registers
       /\ \A k \in 1 .. RegisterMax : Name(k) \in Registers \ {"IP"}
  BY RegistersAre DEF ProgramOK, RegisterMax
<1>10. Words(c, s)'
  <2> DEFINE w == regs["SP"] - 1
             x == regs["SP"] - 2
             low == Low(regs, s)
             sp == regs["SP"]
  <2>0. low \in Int /\ sp \in Int /\ low <= w /\ (s.framed => low <= x)
    <3> HIDE DEF low, s
    <3> QED
      BY <1>1, <1>7 DEF low
  <2>1. w \in DOMAIN mem /\ (s.framed => x \in DOMAIN mem)
    <3>1. w \in low .. sp - 1 /\ (s.framed => x \in low .. sp - 1)
      <4> HIDE DEF low, sp, s
      <4>1. w = sp - 1 /\ x = sp - 2
        BY DEF sp
      <4> HIDE DEF w, x
      <4> QED
        BY <2>0, <4>1
    <3> QED
      BY <1>6, <3>1
  <2>2. \A i \in Used(s) : low + i - 1 \in DOMAIN mem
    <3>1. \A i \in Used(s) : low + i - 1 \in low .. Base(regs, s) - 1
      BY <1>7
    <3>2. Base(regs, s) - 1 <= sp - 1 /\ Base(regs, s) \in Int
      BY <1>1, <1>7
    <3>3. \A i \in Used(s) : low + i - 1 \in low .. sp - 1
      <4> HIDE DEF low, s, sp
      <4> QED
        BY <2>0, <3>1, <3>2
    <3> QED
      BY <1>6, <3>3
  <2>3. mem'[w] = RetAddr /\ (s.framed => mem'[x] = regs["FP"])
    BY <1>6, <1>8, <2>1
  <2>4. \A i \in Used(s) : mem'[low + i - 1] = regs[Name(s.saved[i])]
    BY <1>6, <1>8, <2>2
  <2>5. \A i \in Used(s) : Caught[Name(s.saved[i])] = regs[Name(s.saved[i])]
    BY <1>2, <1>7, <1>9a
  <2>6. Words(c, s)'
    <3>1. Low(c, s)' = low /\ Used(s)' = Used(s) /\ s' = s
      BY <1>2, <1>3, <1>9 DEF Low, Base, Used, Pushed
    <3>2. c'["SP"] = sp /\ c'["IP"] = RetAddr /\ c'["FP"] = regs["FP"]
      BY <1>2, <1>9
    <3>3. \A i \in Used(s) : mem'[low + i - 1] = c'[Name(s.saved[i])]
      BY <1>2, <2>4, <2>5
    <3> QED
      BY <1>4, <2>3, <3>1, <3>2, <3>3 DEF Words
  <2> QED
    BY <2>6
<1>11. Kept(c, s, d)'
  <2>1. "IP" \in Changed(s) /\ "SP" \in Registers /\ "FP" \in Registers
    BY <1>1 DEF Changed
  <2>2. /\ regs'["SP"] = Low(regs, s) - s.room
        /\ s.framed => regs'["FP"] = regs["SP"] - 2
        /\ s.rule = "register" => regs'[Name(5)] = Caught[Name(1)]
    BY <1>2, <1>5, <1>8, <1>9a, <2>1
  <2>3. \A r \in Registers \ Changed(s) : regs'[r] = Caught[r]
    BY <1>2, <1>5, <1>8, <2>1
  <2>4. Low(c, s)' = Low(regs, s) /\ Changed(s)' = Changed(s) /\ s' = s
    BY <1>2, <1>3, <1>4, <1>9 DEF Low, Base, Used, Pushed, Changed, SavedNames
  <2> QED
    BY <1>2, <1>4, <1>9, <2>2, <2>3, <2>4 DEF Kept
<1>12. d'["IP"] = Body(f)
  BY <1>1, <1>2, <1>5, <1>8
<1> QED
  BY <1>2, <1>4, <1>10, <1>11, <1>12 DEF CallIs

LEMMA CallKeepsStack ==
    ASSUME ProgramOK, StackInv, NEW CONSTANT f \in Functions, Call(f)
    PROVE  StackInv'
<1> DEFINE s == functions[f]
<1>1. Pushing(f) /\ UNCHANGED <<arch, functions, layout, cursor>>
  BY CallsTo DEF Pushing
<1>2. /\ L \in Nat /\ {"IP", "SP", "FP"} \subseteq Registers /\ regs["SP"] \in Int /\ regs["SP"] <= StackTop
      /\ Bottom \in Int /\ StackTop \in Int /\ HeaderAddr \in Int /\ StackTop < HeaderAddr /\ regs["FP"] \in Int
      /\ Level(L + 1) = regs /\ \A n \in 1 .. L : Level(n) = callers[n]
  BY StackFacts
<1>3. /\ L' = L + 1 /\ callers' \in Seq([Registers -> Int])
      /\ \A n \in 1 .. L : callers'[n] = callers[n] /\ Level(n)' = Level(n)
      /\ callers'[L + 1] = Caught
      /\ \A n : n = L + 1 => Level(n)' = Caught
      /\ \A n : n = L + 2 => Level(n)' = regs'
      /\ \A r \in Registers \ {"IP"} : Caught[r] = regs[r]
      /\ Caught["IP"] = RetAddr
  BY <1>1, LevelsAfter DEF Pushing
<1>4. /\ DOMAIN mem' = DOMAIN mem /\ DOMAIN mem = Bottom .. StackTop - 1
      /\ \A a \in regs["SP"] .. StackTop - 1 : mem'[a] = mem[a]
      /\ regs'["SP"] \in Int /\ regs'["SP"] <= regs["SP"] /\ Bottom <= regs'["SP"]
      /\ mem' \in [Bottom .. StackTop - 1 -> Int]
      /\ regs' \in [Registers -> Int]
  BY <1>1, MemStays
<1>5. Functions' = Functions /\ Registers' = Registers /\ Bottom' = Bottom
  BY <1>1, Unchanged
<1>6. L' <= MaxDepth
  BY <1>1, <1>3 DEF Pushing
<1>7. ASSUME NEW CONSTANT n, n \in 1 .. L + 2
      PROVE  Level(n)'["SP"] \in regs'["SP"] .. StackTop /\ IsFramePtr(Level(n)["FP"], n - 1)'
  <2>0. \A v : Level(n)'["FP"] = v /\ IsFramePtr(v, n - 1)' => IsFramePtr(Level(n)["FP"], n - 1)'
    BY DEF IsFramePtr
  <2>1. CASE n \in 1 .. L + 1
    <3>1. Level(n)["SP"] \in regs["SP"] .. StackTop /\ IsFramePtr(Level(n)["FP"], n - 1)
      BY <2>1 DEF StackInv
    <3>2. Level(n)'["SP"] = Level(n)["SP"] /\ Level(n)'["FP"] = Level(n)["FP"]
      <4>1. CASE n = L + 1
        BY <1>2, <1>3, <4>1
      <4>2. CASE n \in 1 .. L
        BY <1>3, <4>2
      <4> QED
        BY <1>2, <2>1, <4>1, <4>2
    <3>3. PICK v : v = Level(n)["FP"]
      OBVIOUS
    <3>4. n - 1 \in 0 .. L /\ n - 1 \in Nat /\ n - 1 <= n - 1 /\ n - 1 <= L + 1
      BY <1>2, <2>1
    <3>5. IsFramePtr(v, n - 1)
      BY <3>1, <3>3
    <3>6. PICK k : k = n - 1
      OBVIOUS
    <3>7. IsFramePtr(v, k)'
      BY <1>1, <3>4, <3>5, <3>6, FramePtrStays
    <3>8. IsFramePtr(v, n - 1)'
      BY <3>6, <3>7
    <3> QED
      BY <1>2, <1>4, <2>0, <3>1, <3>2, <3>3, <3>8
  <2>2. CASE n = L + 2
    <3>1. Level(n)' = regs'
      BY <1>3, <2>2
    <3>2. regs'["SP"] \in regs'["SP"] .. StackTop
      BY <1>2, <1>4
    <3>3. regs' = [r \in Registers |-> RegAfter(s, f, r)] /\ L + 1 <= MaxDepth
          /\ mem' = [a \in DOMAIN mem |-> WordAfter(s, a)]
      BY <1>1 DEF Pushing
    <3>4. PICK v : v = regs'["FP"]
      OBVIOUS
    <3>5. v = RegAfter(s, f, "FP")
      BY <1>2, <3>3, <3>4
    <3>6. s.framed \in BOOLEAN
      BY ProgramFacts, FunctionIs
    <3>7. PICK k \in Nat : k = L + 1 /\ k = n - 1
      BY <1>2, <2>2
    <3>8. IsFramePtr(v, k)'
      <4>1. CASE s.framed
        <5>1. v = regs["SP"] - 2
          BY <1>1, <3>3, <3>5, <4>1, RegsAfter
        <5>2. /\ WordAfter(s, regs["SP"] - 2) = regs["FP"] /\ WordAfter(s, regs["SP"] - 1) = RetAddr
              /\ Low(regs, s) .. regs["SP"] - 1 \subseteq DOMAIN mem
          BY <1>1, <4>1, WordsAfter DEF Pushing
        <5>3. /\ Low(regs, s) \in Int /\ Low(regs, s) <= regs["SP"] - 2 /\ s.room \in Nat
          <6>1. /\ Low(regs, s) \in Int /\ Low(regs, s) = Base(regs, s) - Pushed(s)
                /\ Base(regs, s) = regs["SP"] - 2 /\ Pushed(s) \in Nat /\ s.room \in Nat
            BY <1>2, <4>1, FrameIs
          <6> HIDE DEF s
          <6> QED
            BY <1>2, <6>1
        <5>4. v \in Low(regs, s) .. regs["SP"] - 1 /\ v + 1 \in Low(regs, s) .. regs["SP"] - 1 /\ v + 1 = regs["SP"] - 1
          <6> HIDE DEF s
          <6> QED
            BY <1>2, <5>1, <5>3
        <5>5. mem'[v] = regs["FP"] /\ mem'[v + 1] = RetAddr
          BY <3>3, <5>1, <5>2, <5>4
        <5>6. callers'[k] = Caught /\ Caught["SP"] = regs["SP"] /\ Caught["FP"] = regs["FP"]
          BY <1>2, <1>3, <3>7
        <5>7. regs'["SP"] <= v
          <6>1. regs'["SP"] = Low(regs, s) - s.room
            BY <1>2, <3>3, RegsAfter
          <6> HIDE DEF s
          <6> QED
            BY <1>2, <5>1, <5>3, <6>1
        <5>8. k \in 1 .. k
          BY <1>2, <3>7
        <5> QED
          BY <1>3, <5>1, <5>5, <5>6, <5>7, <5>8 DEF IsFramePtr
      <4>2. CASE ~ s.framed /\ v = regs["FP"]
        <5>1. PICK j \in 1 .. L + 1 : j = L + 1
          BY <1>2
        <5>1a. IsFramePtr(Level(j)["FP"], j - 1)
          BY DEF StackInv
        <5>1b. j - 1 = L /\ Level(j)["FP"] = v
          BY <1>2, <4>2, <5>1
        <5>2. IsFramePtr(v, L)
          BY <5>1a, <5>1b
        <5>3. PICK i \in 0 .. L : i = L
          BY <1>2
        <5>4. k <= L + 1 /\ i <= k
          BY <1>2, <3>7, <5>3
        <5>5. IsFramePtr(v, i)
          BY <5>2, <5>3
        <5> QED
          BY <1>1, <3>7, <5>4, <5>5, FramePtrStays
      <4>3. CASE ~ s.framed /\ v = 8 * (L + 1) + RegisterMax
        <5>1. v \in Int /\ v < Bottom
          BY <1>2, <3>3, <4>3, UnwindAssumption DEF Bottom, RegisterMax
        <5>2. v \notin DOMAIN mem
          BY <1>2, <1>4, <5>1
        <5>3. \A g \in InImage : v # Start(g)
          <6> TAKE g \in InImage
          <6>1. Start(g) \in Int /\ Start(g) >= HeaderAddr
            <7>1. g \in Functions /\ functions[g].info # "outside" /\ g \in Nat
              BY ProgramFacts DEF InImage
            <7>2. Start(g) = HeaderAddr + 3 * g
              BY <7>1 DEF Start, FunctionSize
            <7> QED
              BY <1>2, <7>1, <7>2
          <6> QED
            BY <1>2, <5>1, <6>1, UnwindAssumption DEF Bottom
        <5>4. v \notin Readable
          BY <5>2, <5>3 DEF Readable
        <5>5. Readable' = Readable
          BY <1>1, <1>4, Unchanged DEF Readable
        <5> QED
          BY <5>4, <5>5 DEF IsFramePtr
      <4> QED
        BY <3>3, <3>5, <3>6, <4>1, <4>2, <4>3, RegsAfter, <1>1
    <3>9. IsFramePtr(v, n - 1)'
      BY <3>7, <3>8
    <3> QED
      BY <2>0, <3>1, <3>2, <3>4, <3>9
  <2> QED
    BY <1>2, <1>7, <2>1, <2>2
<1>8. Level(1)'["IP"] = 0
  <2>1. CASE L = 0
    <3>1. callers = <<>>
      BY <2>1, StackFacts DEF L, StackInv
    <3>2. RetAddr = 0
      BY <3>1 DEF RetAddr
    <3>3. Level(1)' = Caught
      BY <1>3, <2>1
    <3> QED
      BY <1>3, <3>2, <3>3
  <2>2. CASE L # 0
    <3>1. 1 \in 1 .. L
      BY <1>2, <2>2
    <3>2. Level(1)' = Level(1) /\ Level(1)["IP"] = 0
      BY <1>3, <3>1 DEF StackInv
    <3> QED
      BY <3>2
  <2> QED
    BY <2>1, <2>2
<1>9. ASSUME NEW CONSTANT n, n \in 1 .. L + 1 PROVE \E g \in Functions : CallIs(n, g)'
  <2>1. CASE n = L + 1
    BY <1>1, <2>1, NewCall
  <2>2. CASE n \in 1 .. L
    <3>1. PICK g \in Functions : CallIs(n, g)
      BY <2>2 DEF StackInv
    <3> QED
      BY <1>1, <2>2, <3>1, CallStays
  <2> QED
    BY <1>2, <1>9, <2>1, <2>2
<1>10. \A n \in 1 .. L + 2 : Level(n)'["SP"] \in regs'["SP"] .. StackTop /\ IsFramePtr(Level(n)["FP"], n - 1)'
  BY <1>7
<1>11. L' + 1 = L + 2
  BY <1>2, <1>3
<1>12. \A n \in 1 .. L' : \E g \in Functions' : CallIs(n, g)'
  BY <1>3, <1>5, <1>9
<1>13. \A n \in 1 .. L' + 1 : Level(n)'["SP"] \in regs'["SP"] .. StackTop /\ IsFramePtr(Level(n)["FP"], n - 1)'
  BY <1>10, <1>11
<1> QED
  BY <1>3, <1>4, <1>5, <1>6, <1>8, <1>12, <1>13 DEF StackInv

\* The walker changes nothing that the thread has.
LEMMA WalkerReads ==
    ASSUME crash \/ firstFrame \/ cursor_next \/ next_with_readers
    PROVE  UNCHANGED program
BY DEF crash, firstFrame, cursor_next, next_with_readers, tryReader

LEMMA StackUnchanged ==
    ASSUME UNCHANGED program
    PROVE  /\ (ProgramOK <=> ProgramOK') /\ (StackInv <=> StackInv') /\ L' = L
           /\ \A n : Level(n)' = Level(n)
<1>1. UNCHANGED <<arch, functions, layout, regs, mem, callers>>
  BY DEF program
<1>2. L' = L /\ \A n : Level(n)' = Level(n)
  BY <1>1 DEF L, Level
<1>3. Functions' = Functions /\ Registers' = Registers /\ InImage' = InImage /\ Bottom' = Bottom
      /\ (\A g : Start(g)' = Start(g) /\ Body(g)' = Body(g) /\ ReturnTo(g)' = ReturnTo(g))
      /\ (\A k : Name(k)' = Name(k))
  BY <1>1, Unchanged
<1>4. ProgramOK <=> ProgramOK'
  BY <1>1 DEF ProgramOK
<1>5. Readable' = Readable
  BY <1>1, <1>3 DEF Readable
<1>6. \A v, n : IsFramePtr(v, n)' <=> IsFramePtr(v, n)
  BY <1>1, <1>5 DEF IsFramePtr
<1>7. \A n, f : CallIs(n, f)' <=> CallIs(n, f)
  BY <1>1, <1>2, <1>3 DEF CallIs, Words, Kept, Low, Base, Used, Pushed, Changed, SavedNames
<1>8. \A n : IsFramePtr(Level(n)["FP"], n - 1)' <=> IsFramePtr(Level(n)["FP"], n - 1)
  BY <1>1, <1>2, <1>5 DEF IsFramePtr
<1> QED
  BY <1>1, <1>2, <1>3, <1>4, <1>7, <1>8 DEF StackInv

LEMMA StackStays == Spec => [](ProgramOK /\ StackInv)
<1>1. Init => ProgramOK /\ StackInv
  BY InitStack DEF Init, ProgramOK
<1>2. ProgramOK /\ StackInv /\ [Next]_vars => ProgramOK' /\ StackInv'
  <2> SUFFICES ASSUME ProgramOK, StackInv, [Next]_vars PROVE ProgramOK' /\ StackInv'
    OBVIOUS
  <2>1. ASSUME NEW f \in Functions, Call(f) PROVE ProgramOK' /\ StackInv'
    <3>1. StackInv'
      BY <2>1, CallKeepsStack
    <3>2. UNCHANGED <<arch, functions, layout>>
      BY <2>1 DEF Call
    <3> QED
      BY <3>1, <3>2 DEF ProgramOK
  <2>2. CASE crash \/ firstFrame \/ cursor_next \/ next_with_readers
    BY <2>2, WalkerReads, StackUnchanged
  <2>3. CASE UNCHANGED vars
    BY <2>3, StackUnchanged DEF vars
  <2> QED
    BY <2>1, <2>2, <2>3 DEF Next
<1> QED
  BY <1>1, <1>2, PTL DEF Spec

----------------------------------------------------------------------------
(* What the readers find.                                                  *)

LEMMA MemoryIs ==
    ASSUME ProgramOK, StackInv
    PROVE  /\ DOMAIN Memory = Readable /\ DOMAIN mem = Bottom .. StackTop - 1
           /\ \A a \in DOMAIN mem : a \in Readable /\ Memory[a] = mem[a]
           /\ \A f \in InImage : Start(f) \in Readable /\ Memory[Start(f)] = functions[f].room
<1>1. DOMAIN mem = Bottom .. StackTop - 1 /\ Bottom \in Int /\ StackTop \in Int /\ HeaderAddr \in Int
      /\ StackTop < HeaderAddr
  BY StackFacts DEF StackInv
<1>2. ASSUME NEW f \in InImage
      PROVE  Start(f) \in Readable /\ Start(f) \notin DOMAIN mem /\ Memory[Start(f)] = functions[f].room
  <2>1. \A g \in InImage : g \in Nat /\ Start(g) = HeaderAddr + 3 * g
    BY ProgramFacts, StartIs DEF FunctionSize
  <2>2. \A g \in InImage : Start(g) = Start(f) => g = f
    BY <1>1, <2>1
  <2>3. (CHOOSE g \in InImage : Start(g) = Start(f)) = f
    BY <2>2
  <2>4. Start(f) \notin DOMAIN mem
    BY <1>1, <2>1
  <2>5. Start(f) \in Readable
    BY DEF Readable
  <2> QED
    BY <2>3, <2>4, <2>5 DEF Memory, Readable
<1>3. DOMAIN Memory = Readable
  BY DEF Memory, Readable
<1>4. \A a \in DOMAIN mem : a \in Readable /\ Memory[a] = mem[a]
  BY DEF Memory, Readable
<1> QED
  BY <1>1, <1>2, <1>3, <1>4

\* A state of a level: what is known of the registers there.
Fits(st, d) == DOMAIN st \subseteq Registers /\ \A r \in DOMAIN st : st[r] = d[r]

\* The frame of the n-th call, whose caller has the registers c and which was left with d.
FrameOf(n, f, c, d, st) ==
    /\ n \in 1 .. L /\ f \in Functions /\ CallIs(n, f) /\ c = callers[n] /\ d = Level(n + 1)
    /\ Fits(st, d)

LEMMA FrameFacts ==
    ASSUME ProgramOK, StackInv, NEW n, NEW f, NEW c, NEW d, NEW st, FrameOf(n, f, c, d, st)
    PROVE  LET s == functions[f]
           IN /\ IsFunction(s) /\ f \in Functions
              /\ c \in [Registers -> Int] /\ d \in [Registers -> Int]
              /\ c["SP"] \in Int /\ c["SP"] - 1 \in DOMAIN mem /\ Memory[c["SP"] - 1] = c["IP"]
              /\ Low(c, s) \in Int /\ Base(c, s) \in Int /\ Pushed(s) \in Nat /\ s.room \in Nat
              /\ Low(c, s) = Base(c, s) - Pushed(s) /\ d["SP"] = Low(c, s) - s.room
              /\ s.framed => /\ Base(c, s) = c["SP"] - 2 /\ d["FP"] = c["SP"] - 2
                             /\ c["SP"] - 2 \in DOMAIN mem /\ Memory[c["SP"] - 2] = c["FP"]
              /\ ~ s.framed => Base(c, s) = c["SP"] - 1
              /\ \A i \in Used(s) : /\ i \in 1 .. Pushed(s) /\ s.saved[i] \in 1 .. RegisterMax
                                    /\ Low(c, s) + i - 1 \in DOMAIN mem
                                    /\ Memory[Low(c, s) + i - 1] = c[Name(s.saved[i])]
              /\ Kept(c, s, d) /\ d["IP"] \in Start(f) .. Start(f) + FunctionSize - 1
<1> DEFINE s == functions[f]
<1>1. n \in 1 .. L /\ f \in Functions /\ CallIs(n, f) /\ c = callers[n] /\ d = Level(n + 1)
  BY DEF FrameOf
<1>2. /\ L \in Nat /\ n \in Nat /\ n <= L /\ c \in [Registers -> Int] /\ {"IP", "SP", "FP"} \subseteq Registers
      /\ regs["SP"] \in Int /\ StackTop \in Int /\ Bottom \in Int /\ Bottom <= regs["SP"]
  BY <1>1, StackFacts
<1>2a. n \in 1 .. L + 1 /\ n + 1 \in 1 .. L + 1
  BY <1>2, <1>1
<1>3. c["SP"] \in Int /\ c["SP"] <= StackTop /\ regs["SP"] <= d["SP"] /\ d \in [Registers -> Int]
  <2>2. Level(n) = c
    BY <1>1, StackFacts
  <2>3. Level(n)["SP"] \in regs["SP"] .. StackTop /\ d["SP"] \in regs["SP"] .. StackTop
    BY <1>1, <1>2a DEF StackInv
  <2> QED
    BY <1>1, <1>2, <1>2a, <2>2, <2>3, StackFacts
<1>4. /\ Low(c, s) \in Int /\ Base(c, s) \in Int /\ Pushed(s) \in Nat /\ s.room \in Nat
      /\ Low(c, s) = Base(c, s) - Pushed(s)
      /\ (s.framed => Base(c, s) = c["SP"] - 2) /\ (~ s.framed => Base(c, s) = c["SP"] - 1)
      /\ \A i \in Used(s) : i \in 1 .. Pushed(s) /\ Low(c, s) + i - 1 \in Low(c, s) .. Base(c, s) - 1
                            /\ s.saved[i] \in 1 .. RegisterMax
  BY <1>1, <1>3, FrameIs
<1>5. Words(c, s) /\ Kept(c, s, d) /\ d["IP"] = IF n = L THEN Body(f) ELSE ReturnTo(f)
  BY <1>1 DEF CallIs
<1>6. d["SP"] = Low(c, s) - s.room /\ (s.framed => d["FP"] = c["SP"] - 2)
  BY <1>5 DEF Kept
<1>7. /\ DOMAIN mem = Bottom .. StackTop - 1 /\ \A a \in DOMAIN mem : Memory[a] = mem[a]
  BY MemoryIs
<1>8. IsFunction(s) /\ s.framed \in BOOLEAN
  BY <1>1, ProgramFacts, FunctionIs
<1> DEFINE sp == c["SP"]
           low == Low(c, s)
<1>9. /\ sp - 1 \in DOMAIN mem /\ (s.framed => sp - 2 \in DOMAIN mem)
      /\ \A i \in Used(s) : low + i - 1 \in DOMAIN mem
  <2> DEFINE M == DOMAIN mem
  <2>1. M = Bottom .. StackTop - 1
    BY <1>7
  <2>2. sp \in Int /\ low \in Int
    BY <1>3, <1>4
  <2>3. Bottom <= low
    BY <1>2, <1>3, <1>4, <1>6
  <2>4. (s.framed => low <= sp - 2) /\ low <= sp - 1
    <3>1. /\ low = Base(c, s) - Pushed(s) /\ (s.framed => Base(c, s) = sp - 2)
          /\ (~ s.framed => Base(c, s) = sp - 1) /\ Base(c, s) \in Int /\ Pushed(s) \in Nat
          /\ s.framed \in BOOLEAN
      BY <1>4, <1>8
    <3> HIDE DEF s, low, sp
    <3> QED
      BY <2>2, <3>1
  <2>5. \A i \in Used(s) : low + i - 1 \in low .. sp - 1
    <3>1. \A i \in Used(s) : low + i - 1 \in low .. Base(c, s) - 1
      BY <1>4
    <3>2. Base(c, s) <= sp /\ Base(c, s) \in Int
      <4> HIDE DEF s
      <4> QED
        BY <1>3, <1>4, <1>8
    <3> HIDE DEF low, s, sp
    <3> QED
      BY <2>2, <3>1, <3>2
  <2>6. sp <= StackTop
    BY <1>3
  <2> HIDE DEF M, s, low, sp
  <2>7. sp - 1 \in M /\ (s.framed => sp - 2 \in M)
    BY <1>2, <2>1, <2>2, <2>3, <2>4, <2>6
  <2>8. \A i \in Used(s) : low + i - 1 \in M
    BY <1>2, <2>1, <2>2, <2>3, <2>5, <2>6
  <2> QED
    BY <2>7, <2>8 DEF M
<1>10. d["IP"] \in Start(f) .. Start(f) + FunctionSize - 1
  BY <1>1, <1>5, StartIs DEF Body, ReturnTo, FunctionSize
<1>11. Memory[sp - 1] = c["IP"] /\ (s.framed => Memory[sp - 2] = c["FP"])
  BY <1>5, <1>7, <1>9 DEF Words
<1>12. \A i \in Used(s) : Memory[low + i - 1] = c[Name(s.saved[i])]
  BY <1>5, <1>7, <1>9 DEF Words
<1> QED
  BY <1>1, <1>2, <1>3, <1>4, <1>5, <1>6, <1>8, <1>9, <1>10, <1>11, <1>12

\* Induction, on a set of numbers.
LEMMA UpTo ==
    ASSUME NEW n \in Nat, NEW S \in SUBSET Nat, 0 \in S, \A i \in 1 .. n : i - 1 \in S => i \in S
    PROVE  \A i \in 0 .. n : i \in S
<1> DEFINE T == {i \in Nat : i <= n /\ i \notin S}
<1>1. SUFFICES ASSUME T # {} PROVE FALSE
  <2>1. \A i \in 0 .. n : i \notin T
    BY <1>1
  <2> QED
    BY <2>1
<1>2. PICK m \in T : \A v \in T : m <= v
  <2>1. T \in SUBSET Nat
    OBVIOUS
  <2> HIDE DEF T
  <2> QED
    BY <1>1, <2>1, LeastNumber
<1>3. m \in 1 .. n /\ m - 1 \in Nat /\ ~ (m <= m - 1)
  OBVIOUS
<1>4. m - 1 \notin T
  <2> HIDE DEF T
  <2> QED
    BY <1>2, <1>3
<1>5. m - 1 \in S
  BY <1>3, <1>4
<1> QED
  BY <1>3, <1>5

LEMMA MaxIs ==
    ASSUME NEW m \in Nat, NEW S \in SUBSET (0 .. m), S # {}
    PROVE  Max(S) \in S /\ \A y \in S : y <= Max(S)
<1> DEFINE T == {m - x : x \in S}
<1>1. T \in SUBSET Nat /\ T # {}
  <2>1. \A x \in S : m - x \in Nat
    OBVIOUS
  <2>2. PICK x \in S : TRUE
    OBVIOUS
  <2>3. m - x \in T
    OBVIOUS
  <2> QED
    BY <2>1, <2>3
<1> HIDE DEF T
<1>2. PICK t \in T : \A v \in T : t <= v
  BY <1>1, LeastNumber
<1>3. PICK x \in S : t = m - x
  BY <1>2 DEF T
<1>4. \A y \in S : x >= y
  <2> TAKE y \in S
  <2>1. m - y \in T
    BY DEF T
  <2>2. t <= m - y
    BY <1>2, <2>1
  <2> QED
    BY <1>3, <2>2
<1>5. \E z \in S : \A y \in S : z >= y
  BY <1>4
<1>6. Max(S) = CHOOSE z \in S : \A y \in S : z >= y
  BY DEF Max
<1>7. Max(S) \in S /\ \A y \in S : Max(S) >= y
  BY <1>5, <1>6
<1> QED
  BY <1>7

----------------------------------------------------------------------------
(* A state, of which some registers have got the values of the caller.     *)

Overlay(st, c, T) == [r \in DOMAIN st \cup T |-> IF r \in T THEN c[r] ELSE st[r]]

\* A list of registers lies in the memory from some address on.
Holding(list, k) == {list[i] : i \in {j \in 1 .. k : list[j] # "gap"}}
SavedAt(M, from, list, c) ==
    /\ Len(list) \in Nat /\ DOMAIN list = 1 .. Len(list)
    /\ \A i \in 1 .. Len(list) :
          list[i] # "gap" => from + i - 1 \in DOMAIN M /\ M[from + i - 1] = c[list[i]]

LEMMA Restores ==
    ASSUME NEW M, NEW from, NEW list, NEW c, SavedAt(M, from, list, c), NEW st, NEW T
    PROVE  RestoreSaved(M, from, list, Overlay(st, c, T))
              = Read(Overlay(st, c, T \cup Holding(list, Len(list))))
<1> DEFINE n == Len(list)
           used == {i \in DOMAIN list : list[i] # "gap"}
           state == Overlay(st, c, T)
           Next1(h, i) == IF i = 0 THEN state
                          ELSE IF i \notin used THEN h[i - 1]
                          ELSE set_reg(h[i - 1], list[i], M[from + i - 1])
           h == [i \in 0 .. n |-> Overlay(st, c, T \cup Holding(list, i))]
           restored == CHOOSE g : g = [i \in 0 .. n |-> Next1(g, i)]
<1>1. n \in Nat /\ DOMAIN list = 1 .. n
  BY DEF SavedAt
<1>2. {from + i - 1 : i \in used} \subseteq DOMAIN M /\ \A i \in used : M[from + i - 1] = c[list[i]]
  BY DEF SavedAt
<1>3. Holding(list, 0) = {}
  BY DEF Holding
<1>4. ASSUME NEW i \in 1 .. n, NEW g, g[i - 1] = Overlay(st, c, T \cup Holding(list, i - 1))
      PROVE  Next1(g, i) = Overlay(st, c, T \cup Holding(list, i))
  <2>1. CASE i \notin used
    <3>1. Holding(list, i) = Holding(list, i - 1)
      BY <1>1, <2>1 DEF Holding
    <3> QED
      BY <1>4, <2>1, <3>1
  <2>2. CASE i \in used
    <3>1. Holding(list, i) = Holding(list, i - 1) \cup {list[i]}
      BY <1>1, <2>2 DEF Holding
    <3> DEFINE U == T \cup Holding(list, i - 1)
    <3>2. Next1(g, i) = set_reg(Overlay(st, c, U), list[i], c[list[i]])
      BY <1>2, <1>4, <2>2
    <3>3. T \cup Holding(list, i) = U \cup {list[i]}
      BY <3>1
    <3> HIDE DEF U
    <3>4. set_reg(Overlay(st, c, U), list[i], c[list[i]]) = Overlay(st, c, U \cup {list[i]})
      BY DEF set_reg, Overlay
    <3> QED
      BY <3>2, <3>3, <3>4
  <2> QED
    BY <2>1, <2>2
<1>5. T \cup Holding(list, 0) = T
  BY <1>3
<1>6. h = [i \in 0 .. n |-> Next1(h, i)]
  <2> SUFFICES ASSUME NEW i \in 0 .. n PROVE h[i] = Next1(h, i)
    OBVIOUS
  <2>1. CASE i = 0
    BY <1>5, <2>1
  <2>2. CASE i # 0
    <3>1. i \in 1 .. n /\ i - 1 \in 0 .. n
      BY <1>1, <2>2
    <3>2. h[i - 1] = Overlay(st, c, T \cup Holding(list, i - 1))
      BY <3>1
    <3> HIDE DEF Next1, h
    <3>3. Next1(h, i) = Overlay(st, c, T \cup Holding(list, i))
      BY <1>4, <3>1, <3>2
    <3> QED
      BY <3>3 DEF h
  <2> QED
    BY <2>1, <2>2
<1>7. restored = [i \in 0 .. n |-> Next1(restored, i)]
  <2> HIDE DEF Next1, h
  <2> QED
    BY <1>6
<1> HIDE DEF restored
<1> DEFINE S == {i \in Nat : i <= n => restored[i] = Overlay(st, c, T \cup Holding(list, i))}
<1>8. \A i \in 0 .. n : i \in S
  <2>1. 0 \in S
    <3>1. restored[0] = Next1(restored, 0)
      BY <1>1, <1>7
    <3> QED
      BY <1>5, <3>1
  <2>2. ASSUME NEW i \in 1 .. n, i - 1 \in S PROVE i \in S
    <3>1. i \in 0 .. n /\ i - 1 <= n
      BY <1>1
    <3>2. restored[i] = Next1(restored, i)
      <4> HIDE DEF Next1
      <4> QED
        BY <1>7, <3>1
    <3>3. restored[i - 1] = Overlay(st, c, T \cup Holding(list, i - 1))
      BY <2>2, <3>1
    <3> HIDE DEF Next1
    <3>4. Next1(restored, i) = Overlay(st, c, T \cup Holding(list, i))
      BY <1>4, <3>3
    <3> QED
      BY <3>2, <3>4
  <2>3. S \in SUBSET Nat
    OBVIOUS
  <2> HIDE DEF S
  <2> QED
    BY <1>1, <2>1, <2>2, <2>3, UpTo
<1>9. restored[n] = Overlay(st, c, T \cup Holding(list, n))
  BY <1>1, <1>8
<1>10. RestoreSaved(M, from, list, state) = Read(restored[n])
  BY <1>2 DEF RestoreSaved, restored
<1> QED
  BY <1>9, <1>10

\* Every register of which a reader needs the value.
Full(st) == {"IP"} \cup nonvolatile_registers[arch] \subseteq DOMAIN st

LEMMA NonvolatilesAre ==
    ASSUME arch \in Architectures
    PROVE  /\ nonvolatile_registers[arch] \subseteq Registers
           /\ {"SP", "FP", Name(1), Name(5)} \subseteq nonvolatile_registers[arch]
           /\ Acc[arch] \notin nonvolatile_registers[arch] /\ "IP" \notin nonvolatile_registers[arch]
<1>1. CASE arch = "x86"
  <2>1. map_register_name[arch] = <<"EBX", "ECX", "EDX", "EDI", "ESI", "FP">> /\ Acc[arch] = "EAX"
        /\ nonvolatile_registers[arch] = {"EBX", "FP", "ESI", "EDI", "SP"}
    BY <1>1 DEF map_register_name, Acc, nonvolatile_registers
  <2>2. Registers = {"IP", "SP", "EAX", "EBX", "ECX", "EDX", "EDI", "ESI", "FP"}
    BY <2>1 DEF Registers, ToSet
  <2> QED
    BY <2>1, <2>2 DEF Name
<1>2. CASE arch = "x86_64"
  <2>1. map_register_name[arch] = <<"RBX", "R12", "R13", "R14", "R15", "FP">> /\ Acc[arch] = "RAX"
        /\ nonvolatile_registers[arch] = {"RBX", "SP", "FP", "R12", "R13", "R14", "R15"}
    BY <1>2 DEF map_register_name, Acc, nonvolatile_registers
  <2>2. Registers = {"IP", "SP", "RAX", "RBX", "R12", "R13", "R14", "R15", "FP"}
    BY <2>1 DEF Registers, ToSet
  <2> QED
    BY <2>1, <2>2 DEF Name
<1> QED
  BY <1>1, <1>2 DEF Architectures

\* What the function has not changed is still the caller's.
LEMMA KeptFits ==
    ASSUME ProgramOK, StackInv, NEW n, NEW f, NEW c, NEW d, NEW st, FrameOf(n, f, c, d, st),
           NEW T \in SUBSET Registers, Changed(functions[f]) \ {Acc[arch]} \subseteq T
    PROVE  LET new == Overlay(clear_volatile_regs(arch, st), c, T)
           IN Fits(new, c) /\ (Full(st) => Full(new)) /\ "IP" \in DOMAIN new
<1> DEFINE kept == clear_volatile_regs(arch, st)
           new == Overlay(kept, c, T)
<1>1. Kept(c, functions[f], d) /\ Fits(st, d)
  BY FrameFacts DEF FrameOf
<1>2. kept = [r \in DOMAIN st \cap nonvolatile_registers[arch] |-> st[r]]
  BY DEF clear_volatile_regs
<1>3. "IP" \in T
  BY RegistersAre DEF Changed, ProgramOK
<1>4. Acc[arch] \notin nonvolatile_registers[arch]
  BY NonvolatilesAre DEF ProgramOK
<1>5. ASSUME NEW r \in DOMAIN kept, r \notin T PROVE kept[r] = c[r]
  <2>1. r \in DOMAIN st /\ r \in nonvolatile_registers[arch] /\ kept[r] = st[r]
    BY <1>2
  <2>2. r \in Registers /\ st[r] = d[r]
    BY <1>1, <2>1 DEF Fits
  <2>3. r \notin Changed(functions[f])
    BY <1>4, <1>5, <2>1
  <2> QED
    BY <1>1, <2>1, <2>2, <2>3 DEF Kept
<1>6. DOMAIN new = DOMAIN kept \cup T /\ \A r \in DOMAIN new : new[r] = IF r \in T THEN c[r] ELSE kept[r]
  BY DEF Overlay
<1>7. DOMAIN kept \subseteq Registers
  BY <1>1, <1>2 DEF Fits
<1>8. Fits(new, c)
  <2> HIDE DEF new, kept
  <2> QED
    BY <1>5, <1>6, <1>7 DEF Fits
<1>9. Full(st) => Full(new)
  <2>1. Full(st) => nonvolatile_registers[arch] \subseteq DOMAIN kept
    BY <1>2 DEF Full
  <2> HIDE DEF new, kept
  <2> QED
    BY <1>3, <1>6, <2>1 DEF Full
<1> QED
  BY <1>3, <1>6, <1>8, <1>9

\* The lists of the encodings.
ListOf(s) == IF s.info = "frame" THEN RegisterList(arch, UpToLast(s.saved))
             ELSE [i \in DOMAIN s.saved |-> Name(s.saved[i])]

LEMMA NamesAreReal ==
    ASSUME arch \in Architectures
    PROVE  \A k \in 1 .. RegisterMax : Name(k) # "gap"
<1>1. CASE arch = "x86"
  BY <1>1 DEF map_register_name, Name, RegisterMax
<1>2. CASE arch = "x86_64"
  BY <1>2 DEF map_register_name, Name, RegisterMax
<1> QED
  BY <1>1, <1>2 DEF Architectures

LEMMA UpToLastIs ==
    ASSUME NEW s, IsFunction(s)
    PROVE  LET u == UpToLast(s.saved)
           IN /\ Len(u) \in 0 .. Len(s.saved) /\ DOMAIN u = 1 .. Len(u)
              /\ \A i \in 1 .. Len(u) : u[i] = s.saved[i]
              /\ \A i \in Used(s) : i \in 1 .. Len(u)
<1> DEFINE l == s.saved
           U == {0} \cup Used(s)
           k == Max(U)
           S == 0 .. RegisterMax
<1>1. Len(l) \in Nat /\ Used(s) \subseteq 1 .. Len(l)
  BY FunctionIs
<1>2. U \in SUBSET (0 .. Len(l)) /\ U # {}
  BY <1>1
<1> HIDE DEF U
<1>3. k \in U /\ \A y \in U : y <= k
  BY <1>1, <1>2, MaxIs
<1>4. UpToLast(l) = SubSeq(l, 1, k)
  BY DEF UpToLast, U, Used
<1>5. k \in 0 .. Len(l) /\ \A i \in Used(s) : i \in 1 .. k
  <2>1. k \in 0 .. Len(l)
    BY <1>2, <1>3
  <2>2. ASSUME NEW i \in Used(s) PROVE i \in 1 .. k
    <3>1. i \in U /\ i \in 1 .. Len(l)
      BY <1>1 DEF U
    <3>2. i <= k
      BY <1>3, <3>1
    <3> HIDE DEF k, l
    <3> QED
      BY <1>1, <2>1, <3>1, <3>2
  <2> QED
    BY <2>1, <2>2
<1>6. l \in Seq(S)
  BY DEF IsFunction
<1> HIDE DEF k, l, S
<1> DEFINE u == SubSeq(l, 1, k)
<1>7. u \in Seq(S) /\ Len(u) = k /\ \A i \in 1 .. k : u[i] = l[i]
  BY <1>5, <1>6
<1> HIDE DEF u
<1>8. DOMAIN u = 1 .. Len(u)
  BY <1>7
<1> QED
  BY <1>4, <1>5, <1>7, <1>8 DEF l, u

Compact == {"frame", "immediate", "indirect"}

LEMMA ListIsSaved ==
    ASSUME ProgramOK, StackInv, NEW n, NEW f, NEW c, NEW d, NEW st, FrameOf(n, f, c, d, st),
           functions[f].info \in Compact
    PROVE  LET s == functions[f]
           IN /\ SavedAt(Memory, Low(c, s), ListOf(s), c)
              /\ Holding(ListOf(s), Len(ListOf(s))) = SavedNames(s)
              /\ s.info # "frame" => Len(ListOf(s)) = Pushed(s)
<1> DEFINE s == functions[f]
           l == s.saved
           list == ListOf(s)
           low == Low(c, s)
<1>1. /\ IsFunction(s) /\ low \in Int
      /\ \A i \in Used(s) : /\ i \in 1 .. Pushed(s) /\ s.saved[i] \in 1 .. RegisterMax
                            /\ low + i - 1 \in DOMAIN mem /\ Memory[low + i - 1] = c[Name(l[i])]
  BY FrameFacts
<1>2. \A a \in DOMAIN mem : a \in DOMAIN Memory
  BY MemoryIs
<1>3. /\ Len(l) \in Nat /\ DOMAIN l = 1 .. Len(l)
      /\ Used(s) \subseteq 1 .. Len(l) /\ \A i \in 1 .. Len(l) : i \in Used(s) <=> l[i] # 0
  BY <1>1, FunctionIs
<1>4. \A i \in Used(s) : Name(l[i]) # "gap"
  BY <1>1, NamesAreReal DEF ProgramOK
<1>5. /\ Len(list) \in Nat /\ DOMAIN list = 1 .. Len(list) /\ Len(list) <= Len(l)
      /\ \A i \in 1 .. Len(list) : list[i] = IF i \in Used(s) THEN Name(l[i]) ELSE "gap"
      /\ \A i \in Used(s) : i \in 1 .. Len(list)
      /\ s.info # "frame" => Len(list) = Pushed(s)
  <2>1. CASE s.info = "frame"
    <3> DEFINE u == UpToLast(l)
    <3>1. /\ Len(u) \in 0 .. Len(l) /\ DOMAIN u = 1 .. Len(u)
          /\ \A i \in 1 .. Len(u) : u[i] = l[i]
          /\ \A i \in Used(s) : i \in 1 .. Len(u)
      BY <1>1, UpToLastIs
    <3>2. list = [i \in DOMAIN u |-> RegisterName(arch, u[i])]
      BY <2>1 DEF ListOf, RegisterList
    <3> HIDE DEF u, list
    <3>3. DOMAIN list = 1 .. Len(u) /\ Len(list) = Len(u)
      BY <3>1, <3>2
    <3>4. \A i \in 1 .. Len(u) : list[i] = IF i \in Used(s) THEN Name(l[i]) ELSE "gap"
      <4> TAKE i \in 1 .. Len(u)
      <4>1. list[i] = RegisterName(arch, l[i])
        BY <3>1, <3>2
      <4>2. i \in Used(s) <=> l[i] # 0
        BY <1>3, <3>1
      <4> QED
        BY <4>1, <4>2 DEF RegisterName, Name
    <3> QED
      BY <1>3, <2>1, <3>1, <3>3, <3>4
  <2>2. CASE s.info \in {"immediate", "indirect"}
    <3>1. \A i \in 1 .. Len(l) : i \in Used(s)
      BY <1>1, <1>3, <2>2, FramelessList
    <3>2. list = [i \in 1 .. Len(l) |-> Name(l[i])]
      BY <1>3, <2>2 DEF ListOf
    <3> HIDE DEF list
    <3>3. DOMAIN list = 1 .. Len(l) /\ Len(list) = Len(l)
      BY <1>3, <3>2
    <3> QED
      BY <1>3, <3>1, <3>2, <3>3 DEF Pushed
  <2> QED
    BY <2>1, <2>2 DEF Compact
<1> HIDE DEF list
<1>6. SavedAt(Memory, low, list, c)
  <2> SUFFICES ASSUME NEW i \in 1 .. Len(list), list[i] # "gap"
               PROVE  low + i - 1 \in DOMAIN Memory /\ Memory[low + i - 1] = c[list[i]]
    BY <1>5 DEF SavedAt
  <2>1. i \in Used(s) /\ list[i] = Name(l[i])
    BY <1>5
  <2> QED
    BY <1>1, <1>2, <2>1
<1>7. Holding(list, Len(list)) = SavedNames(s)
  <2>1. {j \in 1 .. Len(list) : list[j] # "gap"} = Used(s)
    BY <1>4, <1>5
  <2>2. \A i \in Used(s) : list[i] = Name(l[i])
    BY <1>5
  <2> QED
    BY <2>1, <2>2 DEF Holding, SavedNames
<1> QED
  BY <1>5, <1>6, <1>7 DEF list

\* The entries that the encodings are.
LEMMA EntryIs ==
    ASSUME ProgramOK, NEW f \in Functions
    PROVE  LET s == functions[f]
               entry == entry_init(arch, Encoding(s))
           IN /\ s.info = "frame" =>
                    entry = [type |-> "FRAME_PTR", stack_offset |-> -Pushed(s), stack_adjust |-> 0,
                             register_list |-> ListOf(s)]
              /\ s.info = "immediate" =>
                    entry = [type |-> "FRAMELESS_IMMD", stack_offset |-> FrameSize(s), stack_adjust |-> 0,
                             register_list |-> ListOf(s)]
              /\ s.info = "indirect" =>
                    entry = [type |-> "FRAMELESS_INDIRECT", stack_offset |-> 0, stack_adjust |-> Pushed(s) + 1,
                             register_list |-> ListOf(s)]
              /\ s.info = "dwarf" => entry.type = "DWARF"
              /\ s.info = "none" => entry.type = "NONE"
<1> DEFINE s == functions[f]
           e == Encoding(s)
<1>1. CASE s.info = "frame"
  <2>1. e = [mode |-> "frame", offset |-> Pushed(s), registers |-> s.saved]
    BY <1>1 DEF Encoding
  <2> HIDE DEF e
  <2>2. e.mode = "frame" /\ e.offset = Pushed(s) /\ e.registers = s.saved
    BY <2>1
  <2> QED
    BY <1>1, <2>2 DEF entry_init, ListOf, e
<1>2. CASE s.info \in {"immediate", "indirect"}
  <2>1. entry_init(arch, e).register_list = ListOf(s)
    BY <1>2, ListIsNamed DEF ListOf
  <2>2. e.mode = s.info
    BY <1>2 DEF Encoding
  <2>3. s.info = "immediate" => e.size = FrameSize(s) /\ e.adjust = 0
    BY DEF Encoding
  <2>4. s.info = "indirect" => e.size = 0 /\ e.adjust = Pushed(s) + 1
    BY DEF Encoding
  <2> HIDE DEF e
  <2>5. entry_init(arch, e) =
            [type |-> IF e.mode = "immediate" THEN "FRAMELESS_IMMD" ELSE "FRAMELESS_INDIRECT",
             stack_offset |-> e.size, stack_adjust |-> e.adjust,
             register_list |-> RegisterList(arch, register_decode(e.permutation, e.count))]
    BY <1>2, <2>2 DEF entry_init
  <2> DEFINE q == RegisterList(arch, register_decode(e.permutation, e.count))
  <2>6. q = ListOf(s)
    BY <2>1, <2>5
  <2> HIDE DEF q, s
  <2>7. entry_init(arch, e) =
            [type |-> IF e.mode = "immediate" THEN "FRAMELESS_IMMD" ELSE "FRAMELESS_INDIRECT",
             stack_offset |-> e.size, stack_adjust |-> e.adjust, register_list |-> q]
    BY <2>5 DEF q
  <2> QED
    BY <1>2, <2>2, <2>3, <2>4, <2>6, <2>7 DEF e, s
<1>3. CASE s.info = "dwarf"
  BY <1>3 DEF entry_init, Encoding
<1>4. CASE s.info = "none"
  BY <1>4 DEF entry_init, Encoding
<1> QED
  BY <1>1, <1>2, <1>3, <1>4

\* An encoding that is applied to the state restores the caller's registers.
LEMMA FramedApplies ==
    ASSUME ProgramOK, StackInv, NEW n, NEW f, NEW c, NEW d, NEW st, FrameOf(n, f, c, d, st),
           functions[f].info = "frame"
    PROVE  LET s == functions[f]
               applied == entry_apply(arch, Memory, Start(f), st, entry_init(arch, Encoding(s)))
           IN IF "FP" \in DOMAIN st
              THEN applied = Read(Overlay(clear_volatile_regs(arch, st), c, {"SP", "IP", "FP"} \cup SavedNames(s)))
              ELSE ~ Succeeded(applied)
<1> DEFINE s == functions[f]
           entry == entry_init(arch, Encoding(s))
           at == FrameLayout(Memory, Start(f), st, entry)
           applied == entry_apply(arch, Memory, Start(f), st, entry)
           kept == clear_volatile_regs(arch, st)
           list == ListOf(s)
<1>1. /\ IsFunction(s) /\ f \in Functions /\ c["SP"] \in Int
      /\ c["SP"] - 1 \in DOMAIN mem /\ Memory[c["SP"] - 1] = c["IP"]
      /\ Low(c, s) \in Int /\ Pushed(s) \in Nat /\ Low(c, s) = Base(c, s) - Pushed(s)
      /\ s.framed => /\ Base(c, s) = c["SP"] - 2 /\ d["FP"] = c["SP"] - 2
                     /\ c["SP"] - 2 \in DOMAIN mem /\ Memory[c["SP"] - 2] = c["FP"]
  BY FrameFacts
<1>2. s.framed
  BY <1>1 DEF IsFunction
<1>3. entry = [type |-> "FRAME_PTR", stack_offset |-> -Pushed(s), stack_adjust |-> 0, register_list |-> list]
  BY <1>1, EntryIs
<1>4. SavedAt(Memory, Low(c, s), list, c) /\ Holding(list, Len(list)) = SavedNames(s)
  BY ListIsSaved DEF Compact
<1>5. Fits(st, d)
  BY DEF FrameOf
<1>6. \A a \in DOMAIN mem : a \in DOMAIN Memory
  BY MemoryIs
<1> HIDE DEF entry, list
<1>7. entry.type = "FRAME_PTR" /\ entry.stack_offset = -Pushed(s) /\ entry.register_list = list
  BY <1>3
<1>8. at = FramePtrLayout(Memory, st, entry)
  BY <1>7 DEF FrameLayout
<1>9. CASE "FP" \notin DOMAIN st
  <2>1. at = Failed("ENOTFOUND")
    BY <1>8, <1>9 DEF FramePtrLayout, has_reg
  <2>2. ~ Succeeded(at)
    BY <2>1 DEF Failed, Succeeded
  <2> HIDE DEF at
  <2>3. applied = at
    BY <2>2 DEF entry_apply, at
  <2> QED
    BY <1>9, <2>2, <2>3 DEF entry
<1>10. CASE "FP" \in DOMAIN st
  <2> DEFINE fp == get_reg(st, "FP")
  <2>1. fp = c["SP"] - 2 /\ fp + 1 = c["SP"] - 1
    BY <1>1, <1>2, <1>5, <1>10 DEF get_reg, Fits
  <2>2. {fp, fp + 1} \subseteq DOMAIN Memory /\ Memory[fp] = c["FP"] /\ Memory[fp + 1] = c["IP"]
    BY <1>1, <1>2, <1>6, <2>1
  <2>3. fp + entry.stack_offset = Low(c, s) /\ fp + 2 = c["SP"]
    <3>1. Low(c, s) = fp - Pushed(s) /\ fp \in Int
      BY <1>1, <1>2, <2>1
    <3> HIDE DEF fp, s
    <3> QED
      BY <1>1, <1>7, <2>1, <3>1
  <2> HIDE DEF fp
  <2>4. at = [error |-> "ESUCCESS", saved |-> Low(c, s), sp |-> c["SP"], fp |-> <<c["FP"]>>, ip |-> c["IP"]]
    BY <1>8, <1>10, <2>2, <2>3 DEF FramePtrLayout, has_reg, fp
  <2> HIDE DEF at
  <2>5. /\ Succeeded(at) /\ at.saved = Low(c, s) /\ at.sp = c["SP"] /\ at.fp # <<>> /\ at.fp[1] = c["FP"]
        /\ at.ip = c["IP"]
    BY <2>4 DEF Succeeded
  <2>6. applied = RestoreSaved(Memory, Low(c, s), list,
                               set_reg(set_reg(set_reg(kept, "SP", c["SP"]), "IP", c["IP"]), "FP", c["FP"]))
    BY <1>7, <2>5 DEF entry_apply, at
  <2>7. set_reg(set_reg(set_reg(kept, "SP", c["SP"]), "IP", c["IP"]), "FP", c["FP"])
            = Overlay(kept, c, {"SP", "IP", "FP"})
    <3> HIDE DEF kept
    <3> QED
      BY DEF set_reg, Overlay
  <2> DEFINE T == {"SP", "IP", "FP"}
             low == Low(c, s)
  <2>8. RestoreSaved(Memory, low, list, Overlay(kept, c, T))
           = Read(Overlay(kept, c, T \cup Holding(list, Len(list))))
    <3>1. SavedAt(Memory, low, list, c)
      BY <1>4
    <3> DEFINE M == Memory
    <3>2. SavedAt(M, low, list, c)
      BY <3>1
    <3> HIDE DEF T, low, kept, M
    <3>3. RestoreSaved(M, low, list, Overlay(kept, c, T)) = Read(Overlay(kept, c, T \cup Holding(list, Len(list))))
      BY <3>2, Restores
    <3> QED
      BY <3>3 DEF M
  <2> QED
    BY <1>4, <1>10, <2>6, <2>7, <2>8 DEF entry
<1> QED
  BY <1>9, <1>10

LEMMA FramelessApplies ==
    ASSUME ProgramOK, StackInv, NEW n, NEW f, NEW c, NEW d, NEW st, FrameOf(n, f, c, d, st),
           functions[f].info \in {"immediate", "indirect"}, f \in InImage
    PROVE  LET s == functions[f]
               applied == entry_apply(arch, Memory, Start(f), st, entry_init(arch, Encoding(s)))
           IN IF "SP" \in DOMAIN st
              THEN applied = Read(Overlay(clear_volatile_regs(arch, st), c, {"SP", "IP"} \cup SavedNames(s)))
              ELSE ~ Succeeded(applied)
<1> DEFINE s == functions[f]
           entry == entry_init(arch, Encoding(s))
           at == FrameLayout(Memory, Start(f), st, entry)
           applied == entry_apply(arch, Memory, Start(f), st, entry)
           kept == clear_volatile_regs(arch, st)
           list == ListOf(s)
           indirect == entry.type = "FRAMELESS_INDIRECT"
<1>1. /\ IsFunction(s) /\ f \in Functions /\ c["SP"] \in Int
      /\ c["SP"] - 1 \in DOMAIN mem /\ Memory[c["SP"] - 1] = c["IP"] /\ s.room \in Nat
      /\ Low(c, s) \in Int /\ Pushed(s) \in Nat /\ Low(c, s) = Base(c, s) - Pushed(s)
      /\ d["SP"] = Low(c, s) - s.room
      /\ ~ s.framed => Base(c, s) = c["SP"] - 1
  BY FrameFacts
<1>2. ~ s.framed
  BY <1>1 DEF IsFunction
<1>3. /\ s.info = "immediate" =>
            entry = [type |-> "FRAMELESS_IMMD", stack_offset |-> FrameSize(s), stack_adjust |-> 0,
                     register_list |-> list]
      /\ s.info = "indirect" =>
            entry = [type |-> "FRAMELESS_INDIRECT", stack_offset |-> 0, stack_adjust |-> Pushed(s) + 1,
                     register_list |-> list]
  BY <1>1, EntryIs
<1>4. SavedAt(Memory, Low(c, s), list, c) /\ Holding(list, Len(list)) = SavedNames(s) /\ Len(list) = Pushed(s)
  BY ListIsSaved DEF Compact
<1>5. Fits(st, d)
  BY DEF FrameOf
<1>6. (\A a \in DOMAIN mem : a \in DOMAIN Memory) /\ Start(f) \in DOMAIN Memory /\ Memory[Start(f)] = s.room
  BY MemoryIs
<1> HIDE DEF entry, list
<1>7. /\ entry.type \in {"FRAMELESS_IMMD", "FRAMELESS_INDIRECT"} /\ entry.register_list = list
      /\ indirect => entry.stack_offset = 0 /\ entry.stack_adjust = Pushed(s) + 1
      /\ ~ indirect => entry.stack_offset = FrameSize(s)
  <2>1. CASE s.info = "immediate"
    BY <1>3, <2>1
  <2>2. CASE s.info = "indirect"
    BY <1>3, <2>2
  <2> QED
    BY <2>1, <2>2
<1>8. at = FramelessLayout(Memory, Start(f), st, entry)
  BY <1>7 DEF FrameLayout
<1>9. CASE "SP" \notin DOMAIN st
  <2>1. at = Failed("ENOTFOUND")
    BY <1>8, <1>9 DEF FramelessLayout, has_reg
  <2>2. ~ Succeeded(at)
    BY <2>1 DEF Failed, Succeeded
  <2> HIDE DEF at
  <2>3. applied = at
    BY <2>2 DEF entry_apply, at
  <2> QED
    BY <1>9, <2>2, <2>3 DEF entry
<1>10. CASE "SP" \in DOMAIN st
  <2> DEFINE a == Start(f) + entry.stack_offset
             size == IF indirect THEN Memory[a] + entry.stack_adjust ELSE entry.stack_offset
             retaddr == get_reg(st, "SP") + size - 1
  <2>1. indirect => a = Start(f)
    BY <1>1, <1>7, StartIs
  <2>2. size = s.room + Pushed(s) + 1
    <3>1. CASE indirect
      <4>1. size = s.room + (Pushed(s) + 1)
        BY <1>6, <1>7, <2>1, <3>1
      <4> HIDE DEF s, size
      <4> QED
        BY <1>1, <4>1
    <3>2. CASE ~ indirect
      BY <1>7, <3>2 DEF FrameSize
    <3> QED
      BY <3>1, <3>2
  <2>3. get_reg(st, "SP") = Low(c, s) - s.room
    BY <1>1, <1>5, <1>10 DEF get_reg, Fits
  <2> HIDE DEF size
  <2>4. retaddr = c["SP"] - 1
    <3>1. retaddr = (Low(c, s) - s.room) + (s.room + Pushed(s) + 1) - 1
      BY <2>2, <2>3
    <3>2. Low(c, s) = c["SP"] - 1 - Pushed(s)
      BY <1>1, <1>2
    <3> HIDE DEF s, retaddr
    <3> QED
      BY <1>1, <3>1, <3>2
  <2>5. retaddr - Len(list) = Low(c, s) /\ retaddr + 1 = c["SP"]
    <3>1. Low(c, s) = c["SP"] - 1 - Pushed(s)
      BY <1>1, <1>2
    <3> HIDE DEF s, retaddr
    <3> QED
      BY <1>1, <1>4, <2>4, <3>1
  <2>6. retaddr \in DOMAIN Memory /\ Memory[retaddr] = c["IP"] /\ (indirect => a \in DOMAIN Memory)
    BY <1>1, <1>6, <2>1, <2>4
  <2> HIDE DEF retaddr, a
  <2>7. at = [error |-> "ESUCCESS", saved |-> Low(c, s), sp |-> c["SP"], fp |-> <<>>, ip |-> c["IP"]]
    <3>1. FramelessLayout(Memory, Start(f), st, entry)
            = IF ~ has_reg(st, "SP") THEN Failed("ENOTFOUND")
              ELSE IF indirect /\ a \notin DOMAIN Memory THEN Failed("EINVAL")
              ELSE IF retaddr \notin DOMAIN Memory THEN Failed("EINVAL")
              ELSE [error |-> "ESUCCESS", saved |-> retaddr - Len(entry.register_list),
                    sp |-> retaddr + 1, fp |-> <<>>, ip |-> Memory[retaddr]]
      BY DEF FramelessLayout, retaddr, size, a
    <3> HIDE DEF at
    <3> QED
      BY <1>7, <1>8, <1>10, <2>5, <2>6, <3>1 DEF has_reg, at
  <2> HIDE DEF at
  <2>8. /\ Succeeded(at) /\ at.saved = Low(c, s) /\ at.sp = c["SP"] /\ at.fp = <<>> /\ at.ip = c["IP"]
    BY <2>7 DEF Succeeded
  <2>9. applied = RestoreSaved(Memory, Low(c, s), list, set_reg(set_reg(kept, "SP", c["SP"]), "IP", c["IP"]))
    BY <1>7, <2>8 DEF entry_apply, at
  <2>10. set_reg(set_reg(kept, "SP", c["SP"]), "IP", c["IP"]) = Overlay(kept, c, {"SP", "IP"})
    <3> HIDE DEF kept
    <3> QED
      BY DEF set_reg, Overlay
  <2> DEFINE T == {"SP", "IP"}
             low == Low(c, s)
  <2>11. RestoreSaved(Memory, low, list, Overlay(kept, c, T))
           = Read(Overlay(kept, c, T \cup Holding(list, Len(list))))
    <3> DEFINE M == Memory
    <3>2. SavedAt(M, low, list, c)
      BY <1>4
    <3> HIDE DEF T, low, kept, M
    <3>3. RestoreSaved(M, low, list, Overlay(kept, c, T)) = Read(Overlay(kept, c, T \cup Holding(list, Len(list))))
      BY <3>2, Restores
    <3> QED
      BY <3>3 DEF M
  <2> QED
    BY <1>4, <1>10, <2>9, <2>10, <2>11 DEF entry
<1> QED
  BY <1>9, <1>10

\* The function that a pc is in, and what the unwind section says of it.
LEMMA Located ==
    ASSUME ProgramOK, NEW f \in Functions, NEW pc \in Start(f) .. Start(f) + FunctionSize - 1
    PROVE  /\ image_containing(pc) <=> f \in InImage
           /\ f \in InImage =>
                 LET found == find_pc(UnwindInfo, pc - HeaderAddr) IN
                 Succeeded(found) /\ HeaderAddr + found.function = Start(f)
                 /\ found.encoding = Encoding(functions[f])
<1>1. /\ Len(functions) \in Nat /\ f \in 1 .. Len(functions) /\ HeaderAddr \in Nat
      /\ 3 * (Len(functions) + 1) <= HeaderAddr
  BY ProgramFacts DEF FunctionSize
<1>2. Start(f) \in Nat /\ (f \in InImage => Start(f) = HeaderAddr + 3 * f)
      /\ (f \notin InImage => Start(f) = 2 * HeaderAddr + 3 * f)
  BY StartIs DEF FunctionSize
<1>3. pc \in Int /\ Start(f) <= pc /\ pc < Start(f) + 3
  BY <1>2 DEF FunctionSize
<1> DEFINE m == Len(functions)
<1>4. image_containing(pc) <=> HeaderAddr <= pc /\ pc < HeaderAddr + 3 * (m + 1)
  BY DEF image_containing, FunctionSize
<1>5. m \in Nat /\ f \in 1 .. m /\ 3 * (m + 1) <= HeaderAddr
  BY <1>1
<1>6. image_containing(pc) <=> f \in InImage
  <2> HIDE DEF m
  <2>1. CASE f \in InImage
    BY <1>1, <1>2, <1>3, <1>4, <1>5, <2>1
  <2>2. CASE f \notin InImage
    BY <1>1, <1>2, <1>3, <1>4, <1>5, <2>2
  <2> QED
    BY <2>1, <2>2
<1>7. ASSUME f \in InImage
      PROVE  LET found == find_pc(UnwindInfo, pc - HeaderAddr) IN
             Succeeded(found) /\ HeaderAddr + found.function = Start(f)
             /\ found.encoding = Encoding(functions[f])
  <2>1. PICK i \in 1 .. Count : Order[i] = f
    BY <1>7, OrderIs
  <2>2. Offset[i] = Start(f) - HeaderAddr /\ Encodings[i] = Encoding(functions[f])
    BY <2>1 DEF Offset, Encodings
  <2>3. PICK at : at = pc - HeaderAddr
    OBVIOUS
  <2>4. at \in Offset[i] .. Offset[i] + FunctionSize - 1
    BY <1>1, <1>2, <1>3, <1>7, <2>2, <2>3 DEF FunctionSize
  <2>5. find_pc(UnwindInfo, pc - HeaderAddr) = Answer(i)
    BY <2>3, <2>4, InfoFinds
  <2> QED
    BY <1>1, <1>2, <2>2, <2>5 DEF Answer, Succeeded
<1> QED
  BY <1>6, <1>7

\* What a reader finds is the caller's, and enough of it for the next step.
Finds(read, c) ==
    /\ Succeeded(read)
    /\ Fits(read.state, c) /\ "IP" \in DOMAIN read.state
    /\ Full(frame) => Full(read.state)

LEMMA CompactReads ==
    ASSUME ProgramOK, StackInv, NEW n, NEW f, NEW c, NEW d, FrameOf(n, f, c, d, frame)
    PROVE  LET s == functions[f]
           IN /\ Succeeded(read_compact_unwind) => Finds(read_compact_unwind, c)
              /\ Full(frame) /\ layout.unwind_info /\ s.info \in Compact => Succeeded(read_compact_unwind)
<1> DEFINE s == functions[f]
           read == read_compact_unwind
           pc == get_reg(frame, "IP")
           found == find_pc(UnwindInfo, pc - HeaderAddr)
           entry == entry_init(arch, Encoding(s))
           applied == entry_apply(arch, Memory, Start(f), frame, entry)
           kept == clear_volatile_regs(arch, frame)
<1>1. f \in Functions /\ IsFunction(s) /\ d["IP"] \in Start(f) .. Start(f) + FunctionSize - 1 /\ Fits(frame, d)
  BY FrameFacts DEF FrameOf
<1>2. CASE "IP" \notin DOMAIN frame
  <2>1. read = Failed("EBADFRAME")
    BY <1>2 DEF read_compact_unwind, has_reg
  <2>2. ~ Succeeded(read)
    BY <2>1 DEF Failed, Succeeded
  <2>3. ~ Full(frame)
    BY <1>2 DEF Full
  <2> HIDE DEF read
  <2> QED
    BY <2>2, <2>3 DEF read
<1>3. CASE "IP" \in DOMAIN frame
  <2>1. pc \in Start(f) .. Start(f) + FunctionSize - 1
    BY <1>1, <1>3 DEF get_reg, Fits
  <2>2. image_containing(pc) <=> f \in InImage
    <3> HIDE DEF pc
    <3> QED
      BY <1>1, <2>1, Located
  <2>3. f \in InImage => Succeeded(found) /\ HeaderAddr + found.function = Start(f) /\ found.encoding = Encoding(s)
    <3> HIDE DEF pc
    <3> QED
      BY <1>1, <2>1, Located
  <2>4. CASE f \notin InImage \/ ~ layout.unwind_info
    <3>1. read = Failed("ENOTSUP")
      BY <1>3, <2>2, <2>4 DEF read_compact_unwind, has_reg
    <3>2. ~ Succeeded(read)
      BY <3>1 DEF Failed, Succeeded
    <3>3. s.info \in Compact => f \in InImage
      BY <1>1 DEF Compact, InImage
    <3> HIDE DEF read
    <3> QED
      BY <2>4, <3>2, <3>3 DEF read
  <2>5. CASE f \in InImage /\ layout.unwind_info
    <3>1. read = IF entry.type = "NONE" \/ ~ Succeeded(applied) THEN Failed("ENOFRAME") ELSE applied
      <4> HIDE DEF pc
      <4>1. read = LET e == entry_init(arch, found.encoding)
                       a == entry_apply(arch, Memory, HeaderAddr + found.function, frame, e)
                   IN IF e.type = "NONE" \/ ~ Succeeded(a) THEN Failed("ENOFRAME") ELSE a
        BY <1>3, <2>2, <2>3, <2>5 DEF read_compact_unwind, has_reg, pc
      <4> HIDE DEF found, read
      <4> QED
        BY <2>3, <2>5, <4>1
    <3>2. ~ Succeeded(Failed("ENOFRAME"))
      BY DEF Failed, Succeeded
    <3>3. s.info # "outside"
      BY <2>5 DEF InImage
    <3>4. CASE s.info \in {"dwarf", "none"}
      <4>1. entry.type \in {"DWARF", "NONE"}
        BY <1>1, <3>4, EntryIs
      <4> HIDE DEF entry
      <4>2. FrameLayout(Memory, Start(f), frame, entry) = Failed("ENOTSUP")
        BY <4>1 DEF FrameLayout
      <4>3. ~ Succeeded(Failed("ENOTSUP"))
        BY DEF Failed, Succeeded
      <4>4. ~ Succeeded(applied)
        BY <4>2, <4>3 DEF entry_apply
      <4>5. ~ Succeeded(read)
        <5> HIDE DEF applied, read
        <5> QED
          BY <3>1, <3>2, <4>4
      <4> HIDE DEF read
      <4> QED
        BY <3>4, <4>5 DEF Compact, read
    <3>5. CASE s.info \in Compact
      <4> DEFINE T == IF s.info = "frame" THEN {"SP", "IP", "FP"} \cup SavedNames(s) ELSE {"SP", "IP"} \cup SavedNames(s)
                 R == IF s.info = "frame" THEN "FP" ELSE "SP"
                 new == Overlay(kept, c, T)
      <4>1. IF R \in DOMAIN frame THEN applied = Read(new) ELSE ~ Succeeded(applied)
        <5>1. CASE s.info = "frame"
          BY <5>1, FramedApplies
        <5>2. CASE s.info # "frame"
          <6>1. s.info \in {"immediate", "indirect"}
            BY <3>5, <5>2 DEF Compact
          <6> QED
            BY <2>5, <5>2, <6>1, FramelessApplies
        <5> QED
          BY <5>1, <5>2
      <4>2. entry.type # "NONE"
        <5>1. entry.type \in {"FRAME_PTR", "FRAMELESS_IMMD", "FRAMELESS_INDIRECT"}
          <6>1. /\ s.info = "frame" =>
                      entry = [type |-> "FRAME_PTR", stack_offset |-> -Pushed(s), stack_adjust |-> 0,
                               register_list |-> ListOf(s)]
                /\ s.info = "immediate" =>
                      entry = [type |-> "FRAMELESS_IMMD", stack_offset |-> FrameSize(s), stack_adjust |-> 0,
                               register_list |-> ListOf(s)]
                /\ s.info = "indirect" =>
                      entry = [type |-> "FRAMELESS_INDIRECT", stack_offset |-> 0, stack_adjust |-> Pushed(s) + 1,
                               register_list |-> ListOf(s)]
            BY <1>1, EntryIs
          <6> HIDE DEF entry, s
          <6>2. CASE s.info = "frame"
            BY <6>1, <6>2
          <6>3. CASE s.info = "immediate"
            BY <6>1, <6>3
          <6>4. CASE s.info = "indirect"
            BY <6>1, <6>4
          <6> QED
            BY <3>5, <6>2, <6>3, <6>4 DEF Compact
        <5> HIDE DEF entry
        <5> QED
          BY <5>1
      <4>3. T \in SUBSET Registers /\ Changed(s) \ {Acc[arch]} \subseteq T
        <5>1. {"IP", "SP", "FP"} \subseteq Registers /\ \A k \in 1 .. RegisterMax : Name(k) \in Registers
          BY RegistersAre DEF ProgramOK
        <5>2. \A i \in Used(s) : s.saved[i] \in 1 .. RegisterMax
          BY FrameFacts
        <5>3. SavedNames(s) \subseteq Registers
          BY <5>1, <5>2 DEF SavedNames
        <5>4. s.rule = "none" /\ (s.framed <=> s.info = "frame")
          BY <1>1, <3>5 DEF IsFunction, Compact
        <5> QED
          BY <5>1, <5>3, <5>4 DEF Changed
      <4>4. Fits(new, c) /\ (Full(frame) => Full(new)) /\ "IP" \in DOMAIN new
        <5> HIDE DEF T
        <5> QED
          BY <4>3, KeptFits
      <4>5. Full(frame) => R \in DOMAIN frame
        BY NonvolatilesAre DEF Full, ProgramOK
      <4>6. Succeeded(Read(new)) /\ Read(new).state = new
        BY DEF Read, Succeeded
      <4> HIDE DEF new, applied, entry, read, R
      <4>7. Succeeded(read) => read = Read(new)
        BY <3>1, <3>2, <4>1
      <4>8. R \in DOMAIN frame => read = Read(new)
        BY <3>1, <4>1, <4>2, <4>6
      <4> QED
        BY <4>4, <4>5, <4>6, <4>7, <4>8 DEF Finds, read
    <3> QED
      BY <1>1, <3>3, <3>4, <3>5 DEF IsFunction, Compact
  <2> QED
    BY <2>4, <2>5
<1> QED
  BY <1>2, <1>3

----------------------------------------------------------------------------
(* The DWARF rules of a function.                                          *)

LEMMA ListingIs ==
    ASSUME NEW S, IsFiniteSet(S)
    PROVE  LET q == SetToSeq(S)
           IN /\ Cardinality(S) \in Nat /\ q \in [1 .. Cardinality(S) -> S]
              /\ \A x \in S : \E i \in 1 .. Cardinality(S) : q[i] = x
<1> DEFINE n == Cardinality(S)
           q == SetToSeq(S)
<1>1. n \in Nat /\ ExistsBijection(1 .. n, S)
  BY FS_NatBijection, FS_CardinalityType
<1>2. \E g \in [1 .. n -> S] : IsInjective(g)
  BY <1>1 DEF ExistsBijection, Bijection, Injection
<1>3. q \in [1 .. n -> S] /\ IsInjective(q)
  BY <1>2 DEF SetToSeq
<1> HIDE DEF q
<1>4. q \in Injection(1 .. n, S)
  BY <1>3 DEF Injection
<1>5. Cardinality(1 .. n) = n
  BY <1>1, Intervals
<1>6. q \in Surjection(1 .. n, S)
  BY <1>4, <1>5, FS_Injection
<1>7. \A x \in S : \E i \in 1 .. n : q[i] = x
  BY <1>6 DEF Surjection
<1> QED
  BY <1>1, <1>3, <1>7 DEF q

\* The registers that the rules are about, by name and by number.
Ruled == {"SP"} \cup {Name(k) : k \in 1 .. RegisterMax}

LEMMA NumbersAre ==
    ASSUME arch \in Architectures
    PROVE  /\ \A r \in Ruled : /\ Dwarf(r) \in Nat /\ Mapped(arch, Dwarf(r)) /\ map_dwarf_to_reg(arch, Dwarf(r)) = r
                               /\ Dwarf(r) # return_address_register[arch]
           /\ return_address_register[arch] \in Nat /\ Target(arch, return_address_register[arch]) = "IP"
           /\ "unsupported" \notin Registers
<1>1. CASE arch = "x86"
  <2>1. map_register_name[arch] = <<"EBX", "ECX", "EDX", "EDI", "ESI", "FP">> /\ Acc[arch] = "EAX"
    BY <1>1 DEF map_register_name, Acc
  <2>2. Registers = {"IP", "SP", "EAX", "EBX", "ECX", "EDX", "EDI", "ESI", "FP"}
    BY <2>1 DEF Registers, ToSet
  <2>3. Ruled = {"SP", "EBX", "ECX", "EDX", "EDI", "ESI", "FP"}
    BY <2>1 DEF Ruled, Name, RegisterMax
  <2> DEFINE t == dwarf_table[arch]
  <2>4. t = <<"EAX", "ECX", "EDX", "EBX", "FP", "SP", "ESI", "EDI", "IP">>
    BY <1>1 DEF dwarf_table
  <2>5. Len(t) = 9
    BY <2>4
  <2>6. \A r \in Ruled : \E n \in 0 .. 8 : t[n + 1] = r
    <3>1. /\ t[1 + 1] = "ECX" /\ t[2 + 1] = "EDX" /\ t[3 + 1] = "EBX" /\ t[4 + 1] = "FP"
          /\ t[5 + 1] = "SP" /\ t[6 + 1] = "ESI" /\ t[7 + 1] = "EDI" /\ t[8 + 1] = "IP"
      BY <2>4
    <3> HIDE DEF t
    <3>2. \A n \in {1, 2, 3, 4, 5, 6, 7} : n \in 0 .. 8
      OBVIOUS
    <3> QED
      BY <2>3, <3>1, <3>2
  <2>6a. t[9] = "IP"
    BY <2>4
  <2> HIDE DEF t
  <2>7. \A r \in Ruled : Dwarf(r) \in 0 .. 8 /\ t[Dwarf(r) + 1] = r
    <3> TAKE r \in Ruled
    <3> DEFINE m == CHOOSE n \in 0 .. 8 : t[n + 1] = r
    <3>1. m \in 0 .. 8 /\ t[m + 1] = r
      BY <2>6
    <3>2. Dwarf(r) = m
      BY <2>5 DEF Dwarf, map_reg_to_dwarf, t
    <3> QED
      BY <3>1, <3>2
  <2>8. return_address_register[arch] = 8
    BY <1>1 DEF return_address_register
  <2>9. \A r \in Ruled : Dwarf(r) # 8
    <3> SUFFICES ASSUME NEW r \in Ruled, Dwarf(r) = 8 PROVE FALSE
      OBVIOUS
    <3>1. t[8 + 1] = r
      BY <2>7
    <3> QED
      BY <2>3, <2>6a, <3>1
  <2>10. Mapped(arch, 8) /\ map_dwarf_to_reg(arch, 8) = "IP"
    BY <2>5, <2>6a DEF Mapped, map_dwarf_to_reg, t
  <2>11. \A r \in Ruled : Mapped(arch, Dwarf(r)) /\ map_dwarf_to_reg(arch, Dwarf(r)) = r
    BY <2>5, <2>7 DEF Mapped, map_dwarf_to_reg, t
  <2> QED
    BY <2>2, <2>7, <2>8, <2>9, <2>10, <2>11 DEF Target
<1>2. CASE arch = "x86_64"
  <2>1. map_register_name[arch] = <<"RBX", "R12", "R13", "R14", "R15", "FP">> /\ Acc[arch] = "RAX"
    BY <1>2 DEF map_register_name, Acc
  <2>2. Registers = {"IP", "SP", "RAX", "RBX", "R12", "R13", "R14", "R15", "FP"}
    BY <2>1 DEF Registers, ToSet
  <2>3. Ruled = {"SP", "RBX", "R12", "R13", "R14", "R15", "FP"}
    BY <2>1 DEF Ruled, Name, RegisterMax
  <2> DEFINE t == dwarf_table[arch]
  <2>4. t = <<"RAX", "RDX", "RCX", "RBX", "RSI", "RDI", "FP", "SP", "R8", "R9", "R10", "R11",
              "R12", "R13", "R14", "R15">>
    BY <1>2 DEF dwarf_table
  <2>5. Len(t) = 16
    BY <2>4
  <2>6. \A r \in Ruled : \E n \in 0 .. 15 : t[n + 1] = r
    <3>1. /\ t[3 + 1] = "RBX" /\ t[6 + 1] = "FP" /\ t[7 + 1] = "SP" /\ t[12 + 1] = "R12"
          /\ t[13 + 1] = "R13" /\ t[14 + 1] = "R14" /\ t[15 + 1] = "R15"
      BY <2>4
    <3> HIDE DEF t
    <3>2. \A n \in {3, 6, 7, 12, 13, 14, 15} : n \in 0 .. 15
      OBVIOUS
    <3> QED
      BY <2>3, <3>1, <3>2
  <2> HIDE DEF t
  <2>7. \A r \in Ruled : Dwarf(r) \in 0 .. 15 /\ t[Dwarf(r) + 1] = r
    <3> TAKE r \in Ruled
    <3> DEFINE m == CHOOSE n \in 0 .. 15 : t[n + 1] = r
    <3>1. m \in 0 .. 15 /\ t[m + 1] = r
      BY <2>6
    <3>2. Dwarf(r) = m
      BY <2>5 DEF Dwarf, map_reg_to_dwarf, t
    <3> QED
      BY <3>1, <3>2
  <2>8. return_address_register[arch] = 16
    BY <1>2 DEF return_address_register
  <2>9. \A r \in Ruled : Dwarf(r) # 16
    BY <2>7
  <2>10. ~ Mapped(arch, 16)
    BY <2>5 DEF Mapped, t
  <2>11. \A r \in Ruled : Mapped(arch, Dwarf(r)) /\ map_dwarf_to_reg(arch, Dwarf(r)) = r
    BY <2>5, <2>7 DEF Mapped, map_dwarf_to_reg, t
  <2> QED
    BY <2>2, <2>7, <2>8, <2>9, <2>10, <2>11 DEF Target
<1> QED
  BY <1>1, <1>2 DEF Architectures

LEMMA Joined ==
    ASSUME NEW S, NEW p \in Seq(S), NEW q \in Seq(S)
    PROVE  p \o q \in Seq(S) /\ ToSet(p \o q) = ToSet(p) \cup ToSet(q)
<1> DEFINE u == p \o q
<1>1. /\ u \in Seq(S) /\ Len(u) = Len(p) + Len(q) /\ Len(p) \in Nat /\ Len(q) \in Nat
      /\ \A i \in 1 .. Len(p) : u[i] = p[i]
      /\ \A i \in 1 .. Len(q) : u[Len(p) + i] = q[i]
  OBVIOUS
<1>2. DOMAIN u = 1 .. Len(u) /\ DOMAIN p = 1 .. Len(p) /\ DOMAIN q = 1 .. Len(q)
  OBVIOUS
<1>3. \A i \in DOMAIN u : i \in DOMAIN p \/ \E j \in DOMAIN q : i = Len(p) + j
  <2> TAKE i \in DOMAIN u
  <2>1. i \in 1 .. Len(p) \/ i - Len(p) \in 1 .. Len(q)
    <3> HIDE DEF u
    <3> QED
      BY <1>1, <1>2
  <2>2. i = Len(p) + (i - Len(p))
    <3> HIDE DEF u
    <3> QED
      BY <1>1, <1>2
  <2> QED
    BY <1>2, <2>1, <2>2
<1> HIDE DEF u
<1>4. \A i \in DOMAIN p : i \in DOMAIN u
  BY <1>1, <1>2
<1>5. \A i \in DOMAIN q : Len(p) + i \in DOMAIN u
  BY <1>1, <1>2
<1>6. ToSet(u) = ToSet(p) \cup ToSet(q)
  <2>1. ASSUME NEW x \in ToSet(u) PROVE x \in ToSet(p) \cup ToSet(q)
    BY <1>1, <1>2, <1>3 DEF ToSet
  <2>2. ASSUME NEW x \in ToSet(p) PROVE x \in ToSet(u)
    BY <1>1, <1>2, <1>4 DEF ToSet
  <2>3. ASSUME NEW x \in ToSet(q) PROVE x \in ToSet(u)
    <3>1. PICK j \in DOMAIN q : x = q[j]
      BY DEF ToSet
    <3>2. Len(p) + j \in DOMAIN u /\ u[Len(p) + j] = x
      BY <1>1, <1>2, <1>5, <3>1
    <3> QED
      BY <3>2 DEF ToSet
  <2> QED
    BY <2>1, <2>2, <2>3
<1> QED
  BY <1>1, <1>6 DEF u

\* A rule that is true of the frame: it leads to the value that the caller has.
Source(x) == IF x.rule.type = "register" THEN map_dwarf_to_reg(arch, x.rule.value) ELSE Target(arch, x.reg)
TrueRule(x, c, d) ==
    LET t == Target(arch, x.reg)
        at == c["SP"] + x.rule.value
    IN /\ t \in Registers /\ (x.reg = return_address_register[arch] => t = "IP")
       /\ \/ x.rule.type \in {"offset", "expression"} /\ at \in DOMAIN Memory /\ Memory[at] = c[t]
          \/ x.rule.type \in {"val_offset", "val_expression"} /\ at = c[t]
          \/ /\ x.rule.type = "register" /\ Mapped(arch, x.rule.value)
             /\ Source(x) \in nonvolatile_registers[arch] /\ d[Source(x)] = c[t]
          \/ x.rule.type = "same_value" /\ t \in nonvolatile_registers[arch] /\ d[t] = c[t]

RuleTypes == {"offset", "expression", "val_offset", "val_expression", "register", "same_value"}
RuleSet == [reg : Nat, rule : [type : RuleTypes, value : Int]]
RuleFor(r, type, value) == [reg |-> Dwarf(r), rule |-> [type |-> type, value |-> value]]
ReturnRule == [reg |-> return_address_register[arch], rule |-> [type |-> "offset", value |-> -1]]
SlotRule(s, i) == RuleFor(Name(s.saved[i]), IF s.rule = "expression" THEN "expression" ELSE "offset", Slot(s, i))
OtherRules(s) ==
    CASE s.rule = "register" -> {RuleFor(Name(1), "register", Dwarf(Name(5)))}
      [] s.rule = "same_value" -> {RuleFor(Name(1), "same_value", 0)}
      [] s.rule = "val_offset" -> {RuleFor("SP", "val_offset", 0)}
      [] s.rule = "expression" -> {RuleFor("SP", "val_expression", 0)}
      [] s.rule = "none" -> {}

LEMMA OneRule ==
    ASSUME NEW x \in RuleSet
    PROVE  <<x>> \in Seq(RuleSet) /\ ToSet(<<x>>) = {x}
<1> DEFINE S == RuleSet
<1>1. x \in S
  OBVIOUS
<1> HIDE DEF S
<1>2. <<x>> \in Seq(S) /\ DOMAIN <<x>> = {1} /\ <<x>>[1] = x
  BY <1>1
<1> QED
  BY <1>2 DEF S, ToSet

LEMMA RuleIn ==
    ASSUME NEW n \in Nat, NEW t \in RuleTypes, NEW v \in Int
    PROVE  [reg |-> n, rule |-> [type |-> t, value |-> v]] \in RuleSet
<1> DEFINE S == [type : RuleTypes, value : Int]
<1>1. [type |-> t, value |-> v] \in S
  OBVIOUS
<1> DEFINE x == [type |-> t, value |-> v]
<1> HIDE DEF S, x
<1>2. [reg |-> n, rule |-> x] \in [reg : Nat, rule : S]
  BY <1>1 DEF x
<1> QED
  BY <1>2 DEF x, S, RuleSet

LEMMA RuleForIn ==
    ASSUME NEW r, Dwarf(r) \in Nat, NEW t \in RuleTypes, NEW v \in Int
    PROVE  RuleFor(r, t, v) \in RuleSet
<1> PICK n \in Nat : n = Dwarf(r)
  OBVIOUS
<1> QED
  BY RuleIn DEF RuleFor

LEMMA RulesAre ==
    ASSUME ProgramOK, NEW f \in Functions
    PROVE  LET s == functions[f]
           IN /\ RowRules(s) \in Seq(RuleSet)
              /\ ToSet(RowRules(s)) = {SlotRule(s, i) : i \in Used(s)}
                                      \cup (IF s.framed THEN {RuleFor("FP", "offset", -2)} ELSE {})
                                      \cup OtherRules(s) \cup {ReturnRule}
<1> DEFINE s == functions[f]
           type == IF s.rule = "expression" THEN "expression" ELSE "offset"
           words == SetToSeq(Used(s))
           pushed == [k \in DOMAIN words |->
               [reg |-> Dwarf(Name(s.saved[words[k]])), rule |-> [type |-> type, value |-> Slot(s, words[k])]]]
           A == IF s.framed THEN Rule(Dwarf("FP"), "offset", -2) ELSE <<>>
           B == CASE s.rule = "register" -> Rule(Dwarf(Name(1)), "register", Dwarf(Name(5)))
                  [] s.rule = "same_value" -> Rule(Dwarf(Name(1)), "same_value", 0)
                  [] s.rule = "val_offset" -> Rule(Dwarf("SP"), "val_offset", 0)
                  [] s.rule = "expression" -> Rule(Dwarf("SP"), "val_expression", 0)
                  [] s.rule = "none" -> <<>>
           C == Rule(return_address_register[arch], "offset", -1)
<1>1. RowRules(s) = ((pushed \o A) \o B) \o C
  BY DEF RowRules
<1>2. IsFunction(s) /\ \A i \in Used(s) : s.saved[i] \in 1 .. RegisterMax /\ i \in Nat
  <2>1. IsFunction(s)
    BY ProgramFacts
  <2> HIDE DEF s
  <2> QED
    BY <2>1, FunctionIs DEF RegisterMax
<1>3. /\ \A r \in Ruled : Dwarf(r) \in Nat
      /\ return_address_register[arch] \in Nat
  BY NumbersAre DEF ProgramOK
<1>4. "SP" \in Ruled /\ "FP" \in Ruled /\ Name(1) \in Ruled /\ Name(5) \in Ruled
      /\ \A k \in 1 .. RegisterMax : Name(k) \in Ruled
  BY RegistersAre DEF Ruled, ProgramOK, RegisterMax
<1>5. Pushed(s) \in Nat /\ s.framed \in BOOLEAN
  BY <1>2, FunctionIs DEF Pushed
<1>6. \A i \in Used(s) : SlotRule(s, i) \in RuleSet
  <2> TAKE i \in Used(s)
  <2>1. Slot(s, i) \in Int
    BY <1>2, <1>5 DEF Slot
  <2>2. Dwarf(Name(s.saved[i])) \in Nat
    BY <1>2, <1>3, <1>4
  <2> DEFINE r == Name(s.saved[i])
             v == Slot(s, i)
  <2>3. Dwarf(r) \in Nat /\ v \in Int /\ type \in RuleTypes
    BY <2>1, <2>2 DEF RuleTypes
  <2>4. SlotRule(s, i) = RuleFor(r, type, v)
    BY DEF SlotRule
  <2> HIDE DEF s, r, v, type
  <2> QED
    BY <2>3, <2>4, RuleForIn
<1>7. IsFiniteSet(Used(s))
  <2>1. Used(s) \subseteq 1 .. Len(s.saved) /\ Len(s.saved) \in Nat
    BY <1>2, FunctionIs
  <2> HIDE DEF s
  <2>2. IsFiniteSet(1 .. Len(s.saved))
    BY <2>1, Intervals
  <2> QED
    BY <2>1, <2>2, FS_Subset
<1> HIDE DEF s
<1>8. pushed \in Seq(RuleSet) /\ ToSet(pushed) = {SlotRule(s, i) : i \in Used(s)}
  <2> DEFINE n == Cardinality(Used(s))
  <2>1. n \in Nat /\ words \in [1 .. n -> Used(s)] /\ \A x \in Used(s) : \E i \in 1 .. n : words[i] = x
    BY <1>7, ListingIs
  <2> HIDE DEF n, words
  <2>2. pushed = [k \in 1 .. n |-> SlotRule(s, words[k])]
    BY <2>1 DEF SlotRule, RuleFor
  <2> HIDE DEF pushed
  <2>3. \A k \in 1 .. n : SlotRule(s, words[k]) \in RuleSet
    BY <1>6, <2>1
  <2> DEFINE S == RuleSet
  <2>4. pushed \in [1 .. n -> S]
    BY <2>2, <2>3
  <2> HIDE DEF S
  <2>5. pushed \in Seq(S)
    BY <2>1, <2>4
  <2>6. ToSet(pushed) = {SlotRule(s, words[k]) : k \in 1 .. n}
    BY <2>2 DEF ToSet
  <2>7. {SlotRule(s, words[k]) : k \in 1 .. n} = {SlotRule(s, i) : i \in Used(s)}
    BY <2>1
  <2> QED
    BY <2>5, <2>6, <2>7 DEF S
<1>9. A \in Seq(RuleSet) /\ ToSet(A) = IF s.framed THEN {RuleFor("FP", "offset", -2)} ELSE {}
  <2>1. RuleFor("FP", "offset", -2) \in RuleSet
    BY <1>3, <1>4, RuleForIn DEF RuleTypes
  <2>2. <<>> \in Seq(RuleSet) /\ ToSet(<<>>) = {}
    BY DEF ToSet
  <2> DEFINE x == RuleFor("FP", "offset", -2)
  <2>3. Rule(Dwarf("FP"), "offset", -2) = <<x>>
    BY DEF Rule, RuleFor
  <2>4. <<x>> \in Seq(RuleSet) /\ ToSet(<<x>>) = {x}
    BY <2>1, OneRule
  <2> HIDE DEF x
  <2> QED
    BY <2>2, <2>3, <2>4 DEF x
<1>10. B \in Seq(RuleSet) /\ ToSet(B) = OtherRules(s)
  <2>1. <<>> \in Seq(RuleSet) /\ ToSet(<<>>) = {}
    BY DEF ToSet
  <2>2. CASE s.rule = "register"
    <3> DEFINE x == RuleFor(Name(1), "register", Dwarf(Name(5)))
    <3>1. x \in RuleSet
      BY <1>3, <1>4, RuleForIn DEF RuleTypes
    <3>2. B = <<x>> /\ OtherRules(s) = {x}
      BY <2>2 DEF RuleFor, Rule, OtherRules
    <3> HIDE DEF x, B
    <3> QED
      BY <3>1, <3>2, OneRule
  <2>3. CASE s.rule = "same_value"
    <3> DEFINE x == RuleFor(Name(1), "same_value", 0)
    <3>1. x \in RuleSet
      BY <1>3, <1>4, RuleForIn DEF RuleTypes
    <3>2. B = <<x>> /\ OtherRules(s) = {x}
      BY <2>3 DEF RuleFor, Rule, OtherRules
    <3> HIDE DEF x, B
    <3> QED
      BY <3>1, <3>2, OneRule
  <2>4. CASE s.rule = "val_offset"
    <3> DEFINE x == RuleFor("SP", "val_offset", 0)
    <3>1. x \in RuleSet
      BY <1>3, <1>4, RuleForIn DEF RuleTypes
    <3>2. B = <<x>> /\ OtherRules(s) = {x}
      BY <2>4 DEF RuleFor, Rule, OtherRules
    <3> HIDE DEF x, B
    <3> QED
      BY <3>1, <3>2, OneRule
  <2>5. CASE s.rule = "expression"
    <3> DEFINE x == RuleFor("SP", "val_expression", 0)
    <3>1. x \in RuleSet
      BY <1>3, <1>4, RuleForIn DEF RuleTypes
    <3>2. B = <<x>> /\ OtherRules(s) = {x}
      BY <2>5 DEF RuleFor, Rule, OtherRules
    <3> HIDE DEF x, B
    <3> QED
      BY <3>1, <3>2, OneRule
  <2>6. CASE s.rule = "none"
    <3>1. B = <<>> /\ OtherRules(s) = {}
      BY <2>6 DEF OtherRules
    <3> HIDE DEF B
    <3> QED
      BY <2>1, <3>1
  <2> QED
    BY <1>2, <2>2, <2>3, <2>4, <2>5, <2>6 DEF IsFunction
<1>11. C \in Seq(RuleSet) /\ ToSet(C) = {ReturnRule}
  <2> DEFINE x == ReturnRule
  <2>0. x \in RuleSet
    <3> PICK m \in Nat : m = return_address_register[arch]
      BY <1>3
    <3> PICK t \in RuleTypes : t = "offset"
      BY DEF RuleTypes
    <3> QED
      BY RuleIn DEF ReturnRule
  <2>1. x \in RuleSet /\ C = <<x>>
    BY <2>0 DEF ReturnRule, Rule
  <2> HIDE DEF x, C
  <2>2. C \in Seq(RuleSet) /\ ToSet(C) = {x}
    BY <2>1, OneRule
  <2> QED
    BY <2>2 DEF x
<1> HIDE DEF pushed, A, B, C
<1> DEFINE p1 == pushed \o A
           p2 == p1 \o B
           p3 == p2 \o C
<1>12. p1 \in Seq(RuleSet) /\ ToSet(p1) = ToSet(pushed) \cup ToSet(A)
  BY <1>8, <1>9, Joined
<1> HIDE DEF p1
<1>13. p2 \in Seq(RuleSet) /\ ToSet(p2) = ToSet(p1) \cup ToSet(B)
  BY <1>10, <1>12, Joined
<1> HIDE DEF p2
<1>14. p3 \in Seq(RuleSet) /\ ToSet(p3) = ToSet(p2) \cup ToSet(C)
  BY <1>11, <1>13, Joined
<1> HIDE DEF p3
<1>15. RowRules(s) = p3
  BY <1>1 DEF p1, p2, p3
<1>16. ToSet(p3) = {SlotRule(s, i) : i \in Used(s)}
                   \cup (IF s.framed THEN {RuleFor("FP", "offset", -2)} ELSE {})
                   \cup OtherRules(s) \cup {ReturnRule}
  BY <1>8, <1>9, <1>10, <1>11, <1>12, <1>13, <1>14
<1> QED
  BY <1>14, <1>15, <1>16 DEF s

Targets(X) == {Target(arch, x.reg) : x \in X}

LEMMA RulesAreTrue ==
    ASSUME ProgramOK, StackInv, NEW n, NEW f, NEW c, NEW d, NEW st, FrameOf(n, f, c, d, st)
    PROVE  LET s == functions[f]
               X == ToSet(RowRules(s))
           IN /\ \A x \in X : TrueRule(x, c, d)
              /\ Changed(s) \ {Acc[arch], "SP"} \subseteq Targets(X)
<1> DEFINE s == functions[f]
           X == ToSet(RowRules(s))
           sp == c["SP"]
<1>1. /\ IsFunction(s) /\ f \in Functions /\ sp \in Int
      /\ c \in [Registers -> Int] /\ d \in [Registers -> Int]
      /\ sp - 1 \in DOMAIN mem /\ Memory[sp - 1] = c["IP"]
      /\ Low(c, s) \in Int /\ Base(c, s) \in Int /\ Pushed(s) \in Nat
      /\ Low(c, s) = Base(c, s) - Pushed(s)
      /\ s.framed => /\ Base(c, s) = sp - 2
                     /\ sp - 2 \in DOMAIN mem /\ Memory[sp - 2] = c["FP"]
      /\ ~ s.framed => Base(c, s) = sp - 1
      /\ \A i \in Used(s) : /\ i \in 1 .. Pushed(s) /\ s.saved[i] \in 1 .. RegisterMax
                            /\ Low(c, s) + i - 1 \in DOMAIN mem
                            /\ Memory[Low(c, s) + i - 1] = c[Name(s.saved[i])]
      /\ Kept(c, s, d)
  BY FrameFacts
<1>2. \A a \in DOMAIN mem : a \in DOMAIN Memory
  BY MemoryIs
<1>3. X = {SlotRule(s, i) : i \in Used(s)}
          \cup (IF s.framed THEN {RuleFor("FP", "offset", -2)} ELSE {})
          \cup OtherRules(s) \cup {ReturnRule}
  BY <1>1, RulesAre
<1>4. /\ \A r \in Ruled : /\ Dwarf(r) \in Nat /\ Mapped(arch, Dwarf(r)) /\ map_dwarf_to_reg(arch, Dwarf(r)) = r
                          /\ Dwarf(r) # return_address_register[arch]
      /\ return_address_register[arch] \in Nat /\ Target(arch, return_address_register[arch]) = "IP"
  BY NumbersAre DEF ProgramOK
<1>5. /\ "SP" \in Ruled /\ "FP" \in Ruled /\ Name(1) \in Ruled /\ Name(5) \in Ruled
      /\ (\A k \in 1 .. RegisterMax : Name(k) \in Ruled) /\ Ruled \subseteq Registers /\ "IP" \in Registers
      /\ Name(1) \notin {"IP", "SP", Acc[arch], "FP"}
      /\ \A j, k \in 1 .. RegisterMax : Name(j) = Name(k) => j = k
  <2>1. 1 \in 1 .. RegisterMax /\ 5 \in 1 .. RegisterMax /\ RegisterMax \in 1 .. RegisterMax /\ 1 # RegisterMax
    BY DEF RegisterMax
  <2> QED
    BY <2>1, RegistersAre DEF Ruled, ProgramOK
<1>6. \A r \in Ruled : Target(arch, Dwarf(r)) = r
  BY <1>4 DEF Target
<1>7. {Name(1), Name(5)} \subseteq nonvolatile_registers[arch]
  BY NonvolatilesAre DEF ProgramOK
<1>8. s.framed \in BOOLEAN
  BY <1>1, FunctionIs
<1> HIDE DEF s, sp
<1>9. ASSUME NEW i \in Used(s) PROVE TrueRule(SlotRule(s, i), c, d) /\ Target(arch, SlotRule(s, i).reg) = Name(s.saved[i])
  <2> DEFINE r == Name(s.saved[i])
             x == SlotRule(s, i)
  <2>1. r \in Ruled
    BY <1>1, <1>5
  <2>2. x.reg = Dwarf(r) /\ x.rule.type \in {"offset", "expression"} /\ x.rule.value = Slot(s, i)
    BY DEF SlotRule, RuleFor
  <2>3. Target(arch, x.reg) = r /\ x.reg # return_address_register[arch] /\ r \in Registers
    BY <1>4, <1>5, <1>6, <2>1, <2>2
  <2>4. sp + Slot(s, i) = Low(c, s) + i - 1
    <3>1. i \in Int
      BY <1>1
    <3>2. CASE s.framed
      <4>1. Slot(s, i) = (i - 1) - Pushed(s) - 2 /\ Low(c, s) = sp - 2 - Pushed(s)
        BY <1>1, <3>2 DEF Slot
      <4> QED
        BY <1>1, <3>1, <4>1
    <3>3. CASE ~ s.framed
      <4>1. Slot(s, i) = (i - 1) - Pushed(s) - 1 /\ Low(c, s) = sp - 1 - Pushed(s)
        BY <1>1, <3>3 DEF Slot
      <4> QED
        BY <1>1, <3>1, <4>1
    <3> QED
      BY <3>2, <3>3
  <2>5. sp + Slot(s, i) \in DOMAIN Memory /\ Memory[sp + Slot(s, i)] = c[r]
    BY <1>1, <1>2, <2>4
  <2> HIDE DEF x, r
  <2>6. TrueRule(x, c, d)
    BY <2>2, <2>3, <2>5 DEF TrueRule, sp
  <2> QED
    BY <2>3, <2>6 DEF x, r
<1>10. ASSUME s.framed
       PROVE  TrueRule(RuleFor("FP", "offset", -2), c, d) /\ Target(arch, RuleFor("FP", "offset", -2).reg) = "FP"
  <2> DEFINE x == RuleFor("FP", "offset", -2)
  <2>1. x.reg = Dwarf("FP") /\ x.rule.type = "offset" /\ x.rule.value = -2
    BY DEF RuleFor
  <2>2. Target(arch, x.reg) = "FP" /\ x.reg # return_address_register[arch] /\ "FP" \in Registers
    BY <1>4, <1>5, <1>6, <2>1
  <2>3. sp + (-2) = sp - 2
    BY <1>1
  <2>4. sp + (-2) \in DOMAIN Memory /\ Memory[sp + (-2)] = c["FP"]
    BY <1>1, <1>2, <1>10, <2>3
  <2> HIDE DEF x
  <2>5. TrueRule(x, c, d)
    BY <2>1, <2>2, <2>4 DEF TrueRule, sp
  <2> QED
    BY <2>2, <2>5 DEF x
<1>11. TrueRule(ReturnRule, c, d) /\ Target(arch, ReturnRule.reg) = "IP"
  <2> DEFINE x == ReturnRule
  <2>1. x.reg = return_address_register[arch] /\ x.rule.type = "offset" /\ x.rule.value = -1
    BY DEF ReturnRule
  <2>2. sp + (-1) = sp - 1
    BY <1>1
  <2>3. sp + (-1) \in DOMAIN Memory /\ Memory[sp + (-1)] = c["IP"]
    BY <1>1, <1>2, <2>2
  <2> HIDE DEF x
  <2>4. TrueRule(x, c, d)
    BY <1>4, <1>5, <2>1, <2>3 DEF TrueRule, sp
  <2> QED
    BY <1>4, <2>1, <2>4 DEF x
<1>12. ASSUME NEW x \in OtherRules(s) PROVE TrueRule(x, c, d)
  <2>1. CASE s.rule = "register"
    <3>1. x = RuleFor(Name(1), "register", Dwarf(Name(5)))
      BY <2>1 DEF OtherRules
    <3>2. x.reg = Dwarf(Name(1)) /\ x.rule.type = "register" /\ x.rule.value = Dwarf(Name(5))
      BY <3>1 DEF RuleFor
    <3>3. Target(arch, x.reg) = Name(1) /\ x.reg # return_address_register[arch] /\ Name(1) \in Registers
      BY <1>4, <1>5, <1>6, <3>2
    <3>4. Source(x) = Name(5) /\ Mapped(arch, x.rule.value)
      BY <1>4, <1>5, <3>2 DEF Source
    <3>5. d[Name(5)] = c[Name(1)]
      BY <1>1, <2>1 DEF Kept
    <3> QED
      BY <1>7, <3>2, <3>3, <3>4, <3>5 DEF TrueRule
  <2>2. CASE s.rule = "same_value"
    <3>1. x = RuleFor(Name(1), "same_value", 0)
      BY <2>2 DEF OtherRules
    <3>2. x.reg = Dwarf(Name(1)) /\ x.rule.type = "same_value"
      BY <3>1 DEF RuleFor
    <3>3. Target(arch, x.reg) = Name(1) /\ x.reg # return_address_register[arch] /\ Name(1) \in Registers
      BY <1>4, <1>5, <1>6, <3>2
    <3>4. Name(1) \notin SavedNames(s)
      <4> SUFFICES ASSUME NEW i \in Used(s), Name(s.saved[i]) = Name(1) PROVE FALSE
        BY DEF SavedNames
      <4>1. s.saved[i] = 1
        BY <1>1, <1>5 DEF RegisterMax
      <4>2. i \in DOMAIN s.saved
        BY DEF Used
      <4>3. 1 \in ToSet(s.saved)
        BY <4>1, <4>2 DEF ToSet
      <4> QED
        BY <1>1, <2>2, <4>3 DEF IsFunction
    <3>5. Name(1) \notin Changed(s)
      BY <1>5, <2>2, <3>4 DEF Changed
    <3>6. d[Name(1)] = c[Name(1)]
      BY <1>1, <3>3, <3>5 DEF Kept
    <3> QED
      BY <1>7, <3>2, <3>3, <3>6 DEF TrueRule
  <2>3. CASE s.rule \in {"val_offset", "expression"}
    <3>1. x = RuleFor("SP", IF s.rule = "val_offset" THEN "val_offset" ELSE "val_expression", 0)
      <4>1. CASE s.rule = "val_offset"
        BY <4>1 DEF OtherRules
      <4>2. CASE s.rule = "expression"
        BY <4>2 DEF OtherRules
      <4> QED
        BY <2>3, <4>1, <4>2
    <3>2. x.reg = Dwarf("SP") /\ x.rule.type \in {"val_offset", "val_expression"} /\ x.rule.value = 0
      BY <3>1 DEF RuleFor
    <3>3. Target(arch, x.reg) = "SP" /\ x.reg # return_address_register[arch] /\ "SP" \in Registers
      BY <1>4, <1>5, <1>6, <3>2
    <3>4. sp + 0 = sp
      BY <1>1
    <3> QED
      BY <3>2, <3>3, <3>4 DEF TrueRule, sp
  <2>4. CASE s.rule = "none"
    <3>1. OtherRules(s) = {}
      BY <2>4 DEF OtherRules
    <3> QED
      BY <3>1
  <2> QED
    BY <1>1, <2>1, <2>2, <2>3, <2>4 DEF IsFunction
<1>13. \A x \in X : TrueRule(x, c, d)
  BY <1>3, <1>9, <1>10, <1>11, <1>12
<1>14. ASSUME NEW r \in Changed(s), r \notin {Acc[arch], "SP"} PROVE r \in Targets(X)
  <2>1. CASE r \in SavedNames(s)
    <3>1. PICK i \in Used(s) : r = Name(s.saved[i])
      BY <2>1 DEF SavedNames
    <3>2. SlotRule(s, i) \in X /\ Target(arch, SlotRule(s, i).reg) = r
      BY <1>3, <1>9, <3>1
    <3> QED
      BY <3>2 DEF Targets
  <2>2. CASE r = "IP"
    <3>1. ReturnRule \in X
      BY <1>3
    <3> QED
      BY <1>11, <2>2, <3>1 DEF Targets
  <2>3. CASE r = "FP" /\ s.framed
    <3>1. RuleFor("FP", "offset", -2) \in X
      BY <1>3, <2>3
    <3> QED
      BY <1>10, <2>3, <3>1 DEF Targets
  <2>4. CASE s.rule = "register" /\ r = Name(1)
    <3> DEFINE x == RuleFor(Name(1), "register", Dwarf(Name(5)))
    <3>1. x \in X
      BY <1>3, <2>4 DEF OtherRules
    <3>2. x.reg = Dwarf(Name(1))
      BY DEF RuleFor
    <3> HIDE DEF x
    <3>3. Target(arch, x.reg) = r
      BY <1>5, <1>6, <2>4, <3>2
    <3> QED
      BY <3>1, <3>3 DEF Targets
  <2> QED
    BY <1>14, <2>1, <2>2, <2>3, <2>4 DEF Changed
<1> HIDE DEF X
<1> QED
  BY <1>13, <1>14 DEF s, X

\* The rule reads a register that the frame does not have.
Lacks(x, st) == x.rule.type \in {"register", "same_value"} /\ Source(x) \notin DOMAIN st

LEMMA RuleApplies ==
    ASSUME ProgramOK, NEW x, NEW c, NEW d, NEW st, NEW new, TrueRule(x, c, d), Fits(st, d)
    PROVE  apply_rule(arch, Memory, st, new, c["SP"], x.reg, x.rule)
              = IF Lacks(x, st) THEN Failed("ENOTFOUND")
                ELSE Read(set_reg(new, Target(arch, x.reg), c[Target(arch, x.reg)]))
<1> DEFINE t == Target(arch, x.reg)
           type == x.rule.type
           v == x.rule.value
           at == c["SP"] + v
           M == Memory
           done == Read(set_reg(new, t, c[t]))
           outcome == apply_register(arch, M, st, new, c["SP"], t, x.rule)
<1>1. t \in Registers /\ t # "unsupported" /\ (x.reg = return_address_register[arch] => t = "IP")
  BY NumbersAre DEF TrueRule, ProgramOK
<1>2. \/ type \in {"offset", "expression"} /\ at \in DOMAIN M /\ M[at] = c[t]
      \/ type \in {"val_offset", "val_expression"} /\ at = c[t]
      \/ type = "register" /\ Mapped(arch, v) /\ Source(x) \in Registers /\ d[Source(x)] = c[t]
      \/ type = "same_value" /\ d[t] = c[t]
  BY NonvolatilesAre DEF TrueRule, ProgramOK
<1>3. ~ Succeeded(Failed("ENOTFOUND")) /\ Succeeded(done) /\ done.state = set_reg(new, t, c[t])
  BY DEF Failed, Succeeded, Read
<1> HIDE DEF M, t
<1>4. outcome = IF Lacks(x, st) THEN Failed("ENOTFOUND") ELSE done
  <2>1. CASE type \in {"offset", "expression"} /\ at \in DOMAIN M /\ M[at] = c[t]
    <3>1. ~ Lacks(x, st)
      BY <2>1 DEF Lacks
    <3>2. outcome = Read(set_reg(new, t, M[at]))
      BY <2>1 DEF apply_register
    <3> QED
      BY <2>1, <3>1, <3>2
  <2>2. CASE type \in {"val_offset", "val_expression"} /\ at = c[t]
    <3>1. ~ Lacks(x, st)
      BY <2>2 DEF Lacks
    <3>2. outcome = Read(set_reg(new, t, at))
      BY <2>2 DEF apply_register
    <3> QED
      BY <2>2, <3>1, <3>2
  <2>3. CASE type = "register" /\ Mapped(arch, v) /\ d[Source(x)] = c[t]
    <3>1. Source(x) = map_dwarf_to_reg(arch, v)
      BY <2>3 DEF Source
    <3>2. outcome = IF Source(x) \in DOMAIN st THEN Read(set_reg(new, t, st[Source(x)])) ELSE Failed("ENOTFOUND")
      BY <2>3, <3>1 DEF apply_register, has_reg, get_reg
    <3>3. Source(x) \in DOMAIN st => st[Source(x)] = c[t]
      BY <2>3 DEF Fits
    <3>4. Lacks(x, st) <=> Source(x) \notin DOMAIN st
      BY <2>3 DEF Lacks
    <3> HIDE DEF outcome
    <3> QED
      BY <3>2, <3>3, <3>4
  <2>4. CASE type = "same_value" /\ d[t] = c[t]
    <3>1. Source(x) = t
      BY <2>4 DEF Source, t
    <3>2. outcome = IF t \in DOMAIN st THEN Read(set_reg(new, t, st[t])) ELSE Failed("ENOTFOUND")
      BY <2>4 DEF apply_register, has_reg, get_reg
    <3>3. t \in DOMAIN st => st[t] = c[t]
      BY <2>4 DEF Fits
    <3>4. Lacks(x, st) <=> t \notin DOMAIN st
      BY <2>4, <3>1 DEF Lacks
    <3> HIDE DEF outcome
    <3> QED
      BY <3>2, <3>3, <3>4
  <2> QED
    BY <1>2, <2>1, <2>2, <2>3, <2>4
<1> DEFINE all == apply_rule(arch, M, st, new, c["SP"], x.reg, x.rule)
<1>5. all = IF Succeeded(outcome) /\ x.reg = return_address_register[arch]
            THEN Read(set_reg(outcome.state, "IP", get_reg(outcome.state, t)))
            ELSE outcome
  BY <1>1 DEF apply_rule, t
<1>6. t = "IP" => Read(set_reg(set_reg(new, t, c[t]), "IP", get_reg(set_reg(new, t, c[t]), t))) = done
  <2>1. ASSUME t = "IP" PROVE set_reg(set_reg(new, t, c[t]), "IP", get_reg(set_reg(new, t, c[t]), t)) = set_reg(new, t, c[t])
    BY <2>1 DEF set_reg, get_reg
  <2> QED
    BY <2>1
<1> HIDE DEF all, outcome, done
<1>7. all = IF Lacks(x, st) THEN Failed("ENOTFOUND") ELSE done
  BY <1>1, <1>3, <1>4, <1>5, <1>6
<1> QED
  BY <1>7 DEF all, done, M, t

\* The row of a function, applied to the state.
CfaReg(s) == IF s.framed THEN "FP" ELSE "SP"

LEMMA RowApplies ==
    ASSUME ProgramOK, StackInv, NEW n, NEW f, NEW c, NEW d, NEW st, FrameOf(n, f, c, d, st)
    PROVE  LET s == functions[f]
               X == ToSet(RowRules(s))
               applied == apply_state(arch, Memory, st, Row(s))
           IN IF CfaReg(s) \in DOMAIN st /\ \A x \in X : ~ Lacks(x, st)
              THEN applied = Read(Overlay(clear_volatile_regs(arch, st), c, {"SP"} \cup Targets(X)))
              ELSE ~ Succeeded(applied)
<1> DEFINE s == functions[f]
           X == ToSet(RowRules(s))
           M == Memory
           row == Row(s)
           applied == apply_state(arch, M, st, row)
           rules == RowRules(s)
           kept == clear_volatile_regs(arch, st)
           cfa == cfa_value(arch, st, row.cfa)
           len == Len(rules)
<1>1. /\ IsFunction(s) /\ f \in Functions /\ c["SP"] \in Int
      /\ Low(c, s) \in Int /\ Base(c, s) \in Int /\ Pushed(s) \in Nat /\ s.room \in Nat
      /\ Low(c, s) = Base(c, s) - Pushed(s) /\ d["SP"] = Low(c, s) - s.room
      /\ s.framed => Base(c, s) = c["SP"] - 2 /\ d["FP"] = c["SP"] - 2
      /\ ~ s.framed => Base(c, s) = c["SP"] - 1
  BY FrameFacts
<1>2. Fits(st, d)
  BY DEF FrameOf
<1>3. \A x \in X : TrueRule(x, c, d)
  BY RulesAreTrue
<1>4. rules \in Seq(RuleSet)
  BY <1>1, RulesAre
<1>5. \A r \in {"SP", "FP"} : Mapped(arch, Dwarf(r)) /\ map_dwarf_to_reg(arch, Dwarf(r)) = r
  <2>1. "SP" \in Ruled /\ "FP" \in Ruled
    BY RegistersAre DEF Ruled, ProgramOK, RegisterMax
  <2> QED
    BY <2>1, NumbersAre DEF ProgramOK
<1>6. s.framed \in BOOLEAN
  BY <1>1, FunctionIs
<1> HIDE DEF s
<1> DEFINE base == IF s.framed THEN [reg |-> Dwarf("FP"), off |-> 2]
                   ELSE [reg |-> Dwarf("SP"), off |-> FrameSize(s)]
<1>7. /\ row.rules = rules
      /\ row.cfa = IF s.rule = "expression" THEN [type |-> "expression", breg |-> base]
                   ELSE [type |-> "register", reg |-> base.reg, off |-> base.off]
  BY DEF Row
<1>8. cfa = IF CfaReg(s) \in DOMAIN st THEN [error |-> "ESUCCESS", value |-> c["SP"]] ELSE Failed("ENOTFOUND")
  <2> DEFINE r == CfaReg(s)
             off == IF s.framed THEN 2 ELSE FrameSize(s)
  <2>1. r \in {"SP", "FP"}
    BY DEF CfaReg
  <2>2. base.reg = Dwarf(r) /\ base.off = off
    BY DEF CfaReg
  <2>3. r \in DOMAIN st => st[r] + off = c["SP"]
    <3> SUFFICES ASSUME r \in DOMAIN st PROVE st[r] + off = c["SP"]
      OBVIOUS
    <3>1. st[r] = d[r]
      BY <1>2 DEF Fits
    <3>2. CASE s.framed
      BY <1>1, <3>1, <3>2 DEF CfaReg
    <3>3. CASE ~ s.framed
      <4>1. st[r] = c["SP"] - 1 - Pushed(s) - s.room /\ off = s.room + Pushed(s) + 1
        BY <1>1, <3>1, <3>3 DEF CfaReg, FrameSize
      <4> HIDE DEF off, r
      <4> QED
        BY <1>1, <4>1
    <3> QED
      BY <1>6, <3>2, <3>3
  <2>4. cfa = IF ~ has_reg(st, r) THEN Failed("ENOTFOUND")
              ELSE [error |-> "ESUCCESS", value |-> get_reg(st, r) + off]
    <3> HIDE DEF row, r, off, base
    <3>1. cfa = register_value(arch, st, base.reg, base.off)
      BY <1>7 DEF cfa_value
    <3> HIDE DEF cfa
    <3> QED
      BY <1>5, <2>1, <2>2, <3>1 DEF register_value
  <2> HIDE DEF cfa, off, r
  <2> QED
    BY <2>3, <2>4 DEF has_reg, get_reg, r
<1> HIDE DEF cfa, rules, row, M
<1>9. CASE CfaReg(s) \notin DOMAIN st
  <2>1. ~ Succeeded(cfa)
    BY <1>8, <1>9 DEF Failed, Succeeded
  <2>2. applied = cfa
    BY <2>1 DEF apply_state, cfa
  <2> HIDE DEF applied
  <2>3. ~ Succeeded(applied)
    BY <2>1, <2>2
  <2> QED
    BY <1>9, <2>3 DEF s, X, rules, applied, row, M
<1>10. CASE CfaReg(s) \in DOMAIN st
  <2> DEFINE T(i) == {"SP"} \cup {Target(arch, rules[j].reg) : j \in 1 .. i}
             V(i) == IF \E j \in 1 .. i : Lacks(rules[j], st) THEN Failed("ENOTFOUND")
                     ELSE Read(Overlay(kept, c, T(i)))
             Step(g, i) == IF i = 0 THEN Read(set_reg(kept, "SP", cfa.value))
                           ELSE IF ~ Succeeded(g[i - 1]) THEN g[i - 1]
                           ELSE apply_rule(arch, M, st, g[i - 1].state, cfa.value, rules[i].reg, rules[i].rule)
             h == [i \in 0 .. len |-> V(i)]
             a == CHOOSE g : g = [i \in 0 .. len |-> Step(g, i)]
  <2>1. cfa.value = c["SP"] /\ Succeeded(cfa)
    BY <1>8, <1>10 DEF Succeeded
  <2>2. applied = a[len]
    BY <1>7, <2>1 DEF apply_state, cfa
  <2>3. len \in Nat /\ DOMAIN rules = 1 .. len
    <3> DEFINE S == RuleSet
    <3>1. rules \in Seq(S)
      BY <1>4
    <3> HIDE DEF S
    <3> QED
      BY <3>1
  <2>4. \A i \in 1 .. len : rules[i] \in X
    BY <2>3 DEF ToSet, rules
  <2>5. V(0) = Read(set_reg(kept, "SP", c["SP"]))
    <3>1. T(0) = {"SP"}
      OBVIOUS
    <3>2. Overlay(kept, c, {"SP"}) = set_reg(kept, "SP", c["SP"])
      <4> HIDE DEF kept
      <4> QED
        BY DEF Overlay, set_reg
    <3> HIDE DEF T
    <3> QED
      BY <3>1, <3>2
  <2>6. ASSUME NEW i \in 1 .. len, NEW g, g[i - 1] = V(i - 1) PROVE Step(g, i) = V(i)
    <3>1. i \in Nat /\ i # 0 /\ 1 .. i = (1 .. i - 1) \cup {i}
      BY <2>3
    <3>2. CASE \E j \in 1 .. i - 1 : Lacks(rules[j], st)
      <4>1. V(i - 1) = Failed("ENOTFOUND") /\ V(i) = Failed("ENOTFOUND")
        BY <3>1, <3>2
      <4>2. ~ Succeeded(Failed("ENOTFOUND"))
        BY DEF Failed, Succeeded
      <4> HIDE DEF V
      <4> QED
        BY <2>6, <3>1, <4>1, <4>2
    <3>3. CASE ~ \E j \in 1 .. i - 1 : Lacks(rules[j], st)
      <4> DEFINE U == T(i - 1)
                 x == rules[i]
                 t == Target(arch, x.reg)
                 new == Overlay(kept, c, U)
      <4>1. V(i - 1) = Read(new)
        BY <3>3
      <4>2. Succeeded(Read(new)) /\ Read(new).state = new
        BY DEF Succeeded, Read
      <4> HIDE DEF V, new
      <4>3. Step(g, i) = apply_rule(arch, M, st, new, c["SP"], x.reg, x.rule)
        BY <2>1, <2>6, <3>1, <4>1, <4>2
      <4>4. TrueRule(x, c, d)
        BY <1>3, <2>4
      <4> HIDE DEF x
      <4>5. apply_rule(arch, M, st, new, c["SP"], x.reg, x.rule)
               = IF Lacks(x, st) THEN Failed("ENOTFOUND") ELSE Read(set_reg(new, t, c[t]))
        BY <1>2, <4>4, RuleApplies DEF M
      <4>6. T(i) = U \cup {t}
        BY <3>1 DEF x
      <4>7. set_reg(new, t, c[t]) = Overlay(kept, c, U \cup {t})
        <5> HIDE DEF kept, t, U
        <5> QED
          BY DEF set_reg, Overlay, new
      <4>8. V(i) = IF Lacks(x, st) THEN Failed("ENOTFOUND") ELSE Read(Overlay(kept, c, T(i)))
        BY <3>1, <3>3 DEF V, x
      <4> HIDE DEF Step, T, U
      <4> QED
        BY <4>3, <4>5, <4>6, <4>7, <4>8
    <3> QED
      BY <3>2, <3>3
  <2> HIDE DEF V
  <2>7. h = [i \in 0 .. len |-> Step(h, i)]
    <3> SUFFICES ASSUME NEW i \in 0 .. len PROVE h[i] = Step(h, i)
      OBVIOUS
    <3>1. CASE i = 0
      BY <2>1, <2>5, <3>1
    <3>2. CASE i # 0
      <4>1. i \in 1 .. len /\ i - 1 \in 0 .. len
        BY <2>3, <3>2
      <4>2. h[i - 1] = V(i - 1)
        BY <4>1
      <4> HIDE DEF Step, h
      <4>3. Step(h, i) = V(i)
        BY <2>6, <4>1, <4>2
      <4> QED
        BY <4>3 DEF h
    <3> QED
      BY <3>1, <3>2
  <2>8. a = [i \in 0 .. len |-> Step(a, i)]
    <3> HIDE DEF Step, h
    <3> QED
      BY <2>7
  <2> HIDE DEF a
  <2> DEFINE S == {i \in Nat : i <= len => a[i] = V(i)}
  <2>9. \A i \in 0 .. len : i \in S
    <3>1. 0 \in S
      <4>1. a[0] = Step(a, 0)
        BY <2>3, <2>8
      <4> QED
        BY <2>1, <2>5, <4>1
    <3>2. ASSUME NEW i \in 1 .. len, i - 1 \in S PROVE i \in S
      <4>1. i \in 0 .. len /\ i - 1 <= len
        BY <2>3
      <4>2. a[i] = Step(a, i)
        <5> HIDE DEF Step
        <5> QED
          BY <2>8, <4>1
      <4>3. a[i - 1] = V(i - 1)
        BY <3>2, <4>1
      <4> HIDE DEF Step
      <4>4. Step(a, i) = V(i)
        BY <2>6, <4>3
      <4> QED
        BY <4>2, <4>4
    <3>3. S \in SUBSET Nat
      OBVIOUS
    <3> HIDE DEF S
    <3> QED
      BY <2>3, <3>1, <3>2, <3>3, UpTo
  <2>10. a[len] = V(len)
    BY <2>3, <2>9
  <2>11. T(len) = {"SP"} \cup Targets(X)
    BY <2>3 DEF Targets, ToSet, rules
  <2>12. (\E j \in 1 .. len : Lacks(rules[j], st)) <=> \E x \in X : Lacks(x, st)
    BY <2>3 DEF ToSet, rules
  <2>13. ~ Succeeded(Failed("ENOTFOUND"))
    BY DEF Failed, Succeeded
  <2>14. V(len) = IF \E x \in X : Lacks(x, st) THEN Failed("ENOTFOUND") ELSE Read(Overlay(kept, c, {"SP"} \cup Targets(X)))
    BY <2>11, <2>12 DEF V
  <2> HIDE DEF applied, a, X
  <2>15. IF \A x \in X : ~ Lacks(x, st) THEN applied = Read(Overlay(kept, c, {"SP"} \cup Targets(X))) ELSE ~ Succeeded(applied)
    BY <2>2, <2>10, <2>13, <2>14
  <2> QED
    BY <1>10, <2>15 DEF s, X, rules, applied, row, M
<1> QED
  BY <1>9, <1>10

\* The functions that the frame section describes, and their entries.
Described == {f \in InImage : /\ HasInfo(f)
                              /\ functions[f].info = "dwarf" \/ ~ layout.unwind_info}
Fde(f) == [kind |-> "fde", start |-> Start(f), end |-> Start(f) + FunctionSize, row |-> Row(functions[f])]

LEMMA Concatenated ==
    ASSUME NEW S, NEW p \in Seq(S), NEW q \in Seq(S)
    PROVE  /\ p \o q \in Seq(S) /\ Len(p \o q) = Len(p) + Len(q) /\ Len(p) \in Nat /\ Len(q) \in Nat
           /\ \A i \in 1 .. Len(p) : (p \o q)[i] = p[i]
           /\ \A i \in 1 .. Len(q) : (p \o q)[Len(p) + i] = q[i]
OBVIOUS

SectionOf(o) == <<[kind |-> "cie"]>> \o [i \in DOMAIN o |-> Fde(o[i])] \o <<[kind |-> "end"]>>

LEMMA SectionIs ==
    ASSUME ProgramOK
    PROVE  \E n \in Nat : \E o \in [1 .. n -> Described] :
              /\ \A f \in Described : \E k \in 1 .. n : o[k] = f
              /\ DOMAIN FrameSection = 1 .. n + 2
              /\ FrameSection[1].kind = "cie" /\ FrameSection[n + 2].kind = "end"
              /\ \A k \in 1 .. n : FrameSection[k + 1] = Fde(o[k])
<1> DEFINE D == Described
           n == Cardinality(D)
           up == Ascending(D)
           o == Reverse(up)
           cie == [kind |-> "cie"]
           end == [kind |-> "end"]
           fdes == [i \in DOMAIN o |-> Fde(o[i])]
<1>1. D \in SUBSET Int /\ IsFiniteSet(D)
  <2>1. InImage \subseteq Functions /\ Functions = 1 .. Len(functions) /\ IsFiniteSet(InImage) /\ D \subseteq InImage
        /\ Len(functions) \in Nat
    BY ProgramFacts DEF Described
  <2> DEFINE m == Len(functions)
  <2>2. m \in Nat /\ D \subseteq 1 .. m
    BY <2>1
  <2> HIDE DEF D, m
  <2>3. D \in SUBSET Int
    BY <2>2
  <2>4. IsFiniteSet(D)
    BY <2>1, FS_Subset
  <2> QED
    BY <2>3, <2>4
<1> HIDE DEF D
<1>2. /\ n \in Nat /\ up \in [1 .. n -> D] /\ \A x \in D : \E i \in 1 .. n : up[i] = x
  BY <1>1, Ascends
<1> HIDE DEF n, up
<1>3. Len(up) = n
  <2>1. DOMAIN up = 1 .. n
    BY <1>2
  <2> QED
    BY <1>2, <2>1
<1>4. o = [i \in 1 .. n |-> up[(n - i) + 1]]
  BY <1>3 DEF Reverse
<1> HIDE DEF o
<1>5. \A i \in 1 .. n : (n - i) + 1 \in 1 .. n
  BY <1>2
<1>6. o \in [1 .. n -> D] /\ DOMAIN o = 1 .. n
  BY <1>2, <1>4, <1>5
<1>7. \A f \in D : \E k \in 1 .. n : o[k] = f
  <2> TAKE f \in D
  <2>1. PICK i \in 1 .. n : up[i] = f
    BY <1>2
  <2>2. (n - i) + 1 \in 1 .. n /\ (n - ((n - i) + 1)) + 1 = i
    BY <1>2
  <2>3. o[(n - i) + 1] = f
    BY <1>4, <2>1, <2>2
  <2> QED
    BY <2>2, <2>3
<1>8. FrameSection = <<cie>> \o fdes \o <<end>>
  <2>1. FrameSection = SectionOf(Reverse(Ascending(Described)))
    BY DEF FrameSection, SectionOf, Described, Fde
  <2> QED
    BY <2>1 DEF SectionOf, D, o, up
<1> DEFINE S == {cie, end} \cup {Fde(f) : f \in D}
<1>9. fdes \in [1 .. n -> S] /\ \A k \in 1 .. n : fdes[k] = Fde(o[k])
  BY <1>6
<1>10. cie \in S /\ end \in S
  OBVIOUS
<1>11. cie.kind = "cie" /\ end.kind = "end"
  OBVIOUS
<1> HIDE DEF S, cie, end, fdes
<1>12. fdes \in Seq(S) /\ Len(fdes) = n
  <2>1. DOMAIN fdes = 1 .. n
    BY <1>9
  <2> QED
    BY <1>2, <1>9, <2>1
<1>13. <<cie>> \in Seq(S) /\ Len(<<cie>>) = 1 /\ <<cie>>[1] = cie /\ <<end>> \in Seq(S) /\ Len(<<end>>) = 1 /\ <<end>>[1] = end
  BY <1>10
<1> DEFINE a == <<cie>>
           z == <<end>>
           p == a \o fdes
           q == p \o z
<1>14. a \in Seq(S) /\ Len(a) = 1 /\ a[1] = cie /\ z \in Seq(S) /\ Len(z) = 1 /\ z[1] = end
  BY <1>13
<1> HIDE DEF a, z
<1>15. p \in Seq(S) /\ Len(p) = n + 1 /\ p[1] = cie /\ \A k \in 1 .. n : p[k + 1] = fdes[k]
  <2>a. a \in Seq(S)
    BY <1>14
  <2>b. fdes \in Seq(S)
    BY <1>12
  <2>0. /\ p \in Seq(S) /\ Len(p) = Len(a) + Len(fdes)
        /\ \A i \in 1 .. Len(a) : p[i] = a[i]
        /\ \A i \in 1 .. Len(fdes) : p[Len(a) + i] = fdes[i]
    BY <2>a, <2>b, Concatenated
  <2>1. p \in Seq(S) /\ Len(p) = 1 + n
    BY <1>12, <1>14, <2>0
  <2>2. p[1] = a[1]
    BY <1>14, <2>0
  <2>3. \A k \in 1 .. n : p[1 + k] = fdes[k]
    BY <1>12, <1>14, <2>0
  <2>4. \A k \in 1 .. n : k + 1 = 1 + k
    OBVIOUS
  <2> HIDE DEF p
  <2> QED
    BY <1>2, <1>14, <2>1, <2>2, <2>3, <2>4
<1> HIDE DEF p
<1>16. q \in Seq(S) /\ Len(q) = n + 2 /\ q[1] = cie /\ q[n + 2] = end /\ \A k \in 1 .. n : q[k + 1] = fdes[k]
  <2>a. p \in Seq(S)
    BY <1>15
  <2>b. z \in Seq(S)
    BY <1>14
  <2>0. /\ q \in Seq(S) /\ Len(q) = Len(p) + Len(z)
        /\ \A i \in 1 .. Len(p) : q[i] = p[i]
        /\ \A i \in 1 .. Len(z) : q[Len(p) + i] = z[i]
    BY <2>a, <2>b, Concatenated
  <2>1. q \in Seq(S) /\ Len(q) = n + 1 + 1
    BY <1>2, <1>14, <1>15, <2>0
  <2>2. \A i \in 1 .. n + 1 : q[i] = p[i]
    BY <1>2, <1>14, <1>15, <2>0
  <2>3. q[n + 1 + 1] = z[1]
    BY <1>2, <1>14, <1>15, <2>0
  <2>4. 1 \in 1 .. n + 1 /\ (\A k \in 1 .. n : k + 1 \in 1 .. n + 1) /\ n + 1 + 1 = n + 2
    BY <1>2
  <2> HIDE DEF q
  <2> QED
    BY <1>14, <1>15, <2>1, <2>2, <2>3, <2>4
<1>17. FrameSection = q
  BY <1>8 DEF q, p, a, z
<1> HIDE DEF q
<1>18. DOMAIN q = 1 .. n + 2
  BY <1>16
<1>19. \A k \in 1 .. n : q[k + 1] = Fde(o[k])
  BY <1>9, <1>16
<1>20. q[1].kind = "cie" /\ q[n + 2].kind = "end"
  BY <1>11, <1>16
<1> QED
  BY <1>2, <1>6, <1>7, <1>17, <1>18, <1>19, <1>20 DEF D

\* The search finds the entry of the function that the pc is in, or nothing.
LEMMA FdeIsFound ==
    ASSUME ProgramOK, NEW f \in Functions, NEW pc \in Start(f) .. Start(f) + FunctionSize - 1
    PROVE  LET found == find_fde(FrameSection, pc)
           IN IF f \in Described THEN Succeeded(found) /\ found.row = Row(functions[f]) ELSE ~ Succeeded(found)
<1>0. PICK n \in Nat : \E o \in [1 .. n -> Described] :
              /\ \A g \in Described : \E k \in 1 .. n : o[k] = g
              /\ DOMAIN FrameSection = 1 .. n + 2
              /\ FrameSection[1].kind = "cie" /\ FrameSection[n + 2].kind = "end"
              /\ \A k \in 1 .. n : FrameSection[k + 1] = Fde(o[k])
  BY SectionIs
<1>1. PICK o \in [1 .. n -> Described] :
              /\ \A g \in Described : \E k \in 1 .. n : o[k] = g
              /\ DOMAIN FrameSection = 1 .. n + 2
              /\ FrameSection[1].kind = "cie" /\ FrameSection[n + 2].kind = "end"
              /\ \A k \in 1 .. n : FrameSection[k + 1] = Fde(o[k])
  BY <1>0
<1> DEFINE sec == FrameSection
           F == {i \in DOMAIN sec : Covers(sec[i], pc) /\ \A e \in EndMarker(sec) : i < e}
<1>2. /\ DOMAIN sec = 1 .. n + 2 /\ sec[1].kind = "cie" /\ sec[n + 2].kind = "end"
      /\ \A k \in 1 .. n : sec[k + 1] = Fde(o[k])
  BY <1>1
<1> HIDE DEF sec
<1>3. \A g \in Functions : /\ g \in Nat /\ Start(g) \in Nat
                           /\ g \in InImage => Start(g) = HeaderAddr + 3 * g
                           /\ g \notin InImage => Start(g) = 2 * HeaderAddr + 3 * g
  BY ProgramFacts, StartIs DEF FunctionSize
<1>3a. /\ Len(functions) \in Nat /\ \A g \in Functions : g <= Len(functions)
  BY ProgramFacts
<1>3b. HeaderAddr \in Nat /\ 3 * (Len(functions) + 1) <= HeaderAddr
  BY ProgramFacts DEF FunctionSize
<1>4. pc \in Int /\ Start(f) <= pc /\ pc < Start(f) + 3
  BY <1>3 DEF FunctionSize
<1>5. ASSUME NEW g \in InImage, Start(g) <= pc, pc < Start(g) + 3 PROVE g = f
  <2>1. g \in Functions /\ Start(g) = HeaderAddr + 3 * g
    BY <1>3, ProgramFacts
  <2>2. CASE f \in InImage
    <3>1. HeaderAddr \in Nat
      BY <1>3b
    <3> QED
      BY <1>3, <1>4, <1>5, <2>1, <2>2, <3>1
  <2>3. CASE f \notin InImage
    <3>1. Start(f) = 2 * HeaderAddr + 3 * f
      BY <1>3, <2>3
    <3>2. g <= Len(functions) /\ g \in Nat /\ f \in Nat
      BY <1>3, <1>3a, <2>1
    <3> DEFINE m == Len(functions)
    <3>3. m \in Nat /\ 3 * (m + 1) <= HeaderAddr /\ g <= m
      BY <1>3a, <1>3b, <3>2
    <3> HIDE DEF m
    <3> QED
      BY <1>3b, <1>4, <1>5, <2>1, <3>1, <3>2, <3>3
  <2> QED
    BY <2>2, <2>3
<1>6. \A k \in 1 .. n : Covers(sec[k + 1], pc) <=> o[k] = f
  <2> TAKE k \in 1 .. n
  <2> DEFINE g == o[k]
  <2>1. g \in InImage /\ g \in Functions
    BY ProgramFacts DEF Described
  <2>2. Fde(g).kind = "fde" /\ Fde(g).start = Start(g) /\ Fde(g).end = Start(g) + 3
    BY DEF Fde, FunctionSize
  <2>3. Covers(sec[k + 1], pc) <=> Start(g) <= pc /\ pc < Start(g) + 3
    <3>1. sec[k + 1] = Fde(g)
      BY <1>2
    <3> HIDE DEF g
    <3> QED
      BY <2>2, <3>1 DEF Covers
  <2> HIDE DEF g
  <2>4. Covers(sec[k + 1], pc) <=> g = f
    BY <1>4, <1>5, <2>1, <2>3
  <2> QED
    BY <2>4 DEF g
<1>7. EndMarker(sec) = {n + 2}
  <2>1. ASSUME NEW i \in DOMAIN sec, sec[i].kind = "end" PROVE i = n + 2
    <3>1. i \in 1 .. n + 2
      BY <1>2
    <3>2. i # 1
      BY <1>2, <2>1
    <3>3. CASE i \in 2 .. n + 1
      <4>1. PICK k \in 1 .. n : i = k + 1
        <5>1. i - 1 \in 1 .. n /\ i = (i - 1) + 1
          BY <3>3
        <5> QED
          BY <5>1
      <4>2. sec[i] = Fde(o[k]) /\ Fde(o[k]).kind = "fde"
        BY <1>2, <4>1 DEF Fde
      <4> QED
        BY <2>1, <4>2
    <3> QED
      BY <3>1, <3>2, <3>3
  <2>2. n + 2 \in DOMAIN sec
    BY <1>2
  <2> QED
    BY <1>2, <2>1, <2>2 DEF EndMarker
<1>8. \A i \in F : \E k \in 1 .. n : i = k + 1 /\ o[k] = f
  <2> TAKE i \in F
  <2>1. i \in 1 .. n + 2 /\ Covers(sec[i], pc) /\ i < n + 2
    BY <1>2, <1>7
  <2>2. i # 1
    BY <1>2, <2>1 DEF Covers
  <2>3. i - 1 \in 1 .. n /\ i = (i - 1) + 1
    BY <2>1, <2>2
  <2>4. PICK k \in 1 .. n : i = k + 1
    BY <2>3
  <2> QED
    BY <1>6, <2>1, <2>4
<1>9. \A k \in 1 .. n : o[k] = f => k + 1 \in F
  <2> TAKE k \in 1 .. n
  <2>1. k + 1 \in 1 .. n + 2 /\ k + 1 < n + 2
    OBVIOUS
  <2> QED
    BY <1>2, <1>6, <1>7, <2>1
<1>10. find_fde(sec, pc) = IF F = {} THEN Failed("ENOTFOUND")
                           ELSE [error |-> "ESUCCESS", row |-> sec[CHOOSE i \in F : \A j \in F : i <= j].row]
  BY DEF find_fde
<1>11. F \in SUBSET Nat
  <2>1. \A i \in F : i \in Nat
    BY <1>8
  <2> QED
    BY <2>1
<1> HIDE DEF F
<1>12. CASE f \in Described
  <2>1. F # {}
    <3>1. PICK k \in 1 .. n : o[k] = f
      BY <1>1, <1>12
    <3> QED
      BY <1>9, <3>1
  <2> DEFINE i == CHOOSE i \in F : \A j \in F : i <= j
  <2>2. \E m \in F : \A j \in F : m <= j
    BY <1>11, <2>1, LeastNumber
  <2>3. i \in F
    BY <2>2
  <2> HIDE DEF i
  <2>4. PICK k \in 1 .. n : i = k + 1 /\ o[k] = f
    BY <1>8, <2>3
  <2>5. sec[i] = Fde(f)
    BY <1>2, <2>4
  <2>6. sec[i].row = Row(functions[f])
    <3>1. Fde(f).row = Row(functions[f])
      BY DEF Fde
    <3> QED
      BY <2>5, <3>1
  <2>7. find_fde(sec, pc) = [error |-> "ESUCCESS", row |-> sec[i].row]
    BY <1>10, <2>1 DEF i
  <2> QED
    BY <1>12, <2>6, <2>7 DEF Succeeded, sec
<1>13. CASE f \notin Described
  <2>1. F = {}
    BY <1>8, <1>13
  <2>2. find_fde(sec, pc) = Failed("ENOTFOUND")
    BY <1>10, <2>1
  <2> QED
    BY <1>13, <2>2 DEF Failed, Succeeded, sec
<1> QED
  BY <1>12, <1>13

LEMMA DwarfReads ==
    ASSUME ProgramOK, StackInv, NEW n, NEW f, NEW c, NEW d, FrameOf(n, f, c, d, frame)
    PROVE  /\ Succeeded(read_dwarf_unwind) => Finds(read_dwarf_unwind, c)
           /\ Full(frame) /\ f \in Described => Succeeded(read_dwarf_unwind)
<1> DEFINE s == functions[f]
           X == ToSet(RowRules(s))
           read == read_dwarf_unwind
           pc == get_reg(frame, "IP")
           found == find_fde(FrameSection, pc)
           applied == apply_state(arch, Memory, frame, Row(s))
           T == {"SP"} \cup Targets(X)
           new == Overlay(clear_volatile_regs(arch, frame), c, T)
<1>1. f \in Functions /\ IsFunction(s) /\ d["IP"] \in Start(f) .. Start(f) + FunctionSize - 1 /\ Fits(frame, d)
  BY FrameFacts DEF FrameOf
<1>2. CASE "IP" \notin DOMAIN frame
  <2>1. read = Failed("EBADFRAME")
    BY <1>2 DEF read_dwarf_unwind, has_reg
  <2>2. ~ Succeeded(read)
    BY <2>1 DEF Failed, Succeeded
  <2>3. ~ Full(frame)
    BY <1>2 DEF Full
  <2> HIDE DEF read
  <2> QED
    BY <2>2, <2>3 DEF read
<1>3. CASE "IP" \in DOMAIN frame
  <2>1. pc \in Start(f) .. Start(f) + FunctionSize - 1
    BY <1>1, <1>3 DEF get_reg, Fits
  <2>2. image_containing(pc) <=> f \in InImage
    <3> HIDE DEF pc
    <3> QED
      BY <1>1, <2>1, Located
  <2>3. IF f \in Described THEN Succeeded(found) /\ found.row = Row(s) ELSE ~ Succeeded(found)
    <3> HIDE DEF pc
    <3> QED
      BY <1>1, <2>1, FdeIsFound
  <2>4. f \in Described => layout.frame_section
    BY DEF Described, HasInfo
  <2>5. CASE f \notin InImage \/ f \notin Described
    <3>1. read \in {Failed("ENOTSUP"), Failed("ENOFRAME")}
      <4> HIDE DEF found
      <4> QED
        BY <1>3, <2>2, <2>3, <2>4, <2>5 DEF read_dwarf_unwind, read_dwarf_unwind_int, has_reg, found, pc
    <3>2. ~ Succeeded(read)
      BY <3>1 DEF Failed, Succeeded
    <3>3. f \notin Described
      BY <2>5 DEF Described
    <3> HIDE DEF read
    <3> QED
      BY <3>2, <3>3 DEF read
  <2>6. CASE f \in InImage /\ f \in Described
    <3>1. read = IF ~ Succeeded(applied) THEN Failed("ENOFRAME") ELSE applied
      <4>1. read = read_dwarf_unwind_int(pc)
        BY <1>3, <2>2, <2>6 DEF read_dwarf_unwind, has_reg
      <4>2. PICK p : p = pc
        OBVIOUS
      <4>3. read_dwarf_unwind_int(p) =
              LET row == find_fde(FrameSection, p)
                  a == apply_state(arch, Memory, frame, row.row)
              IN IF ~ layout.frame_section THEN Failed("ENOFRAME")
                 ELSE IF ~ Succeeded(row) THEN Failed("ENOTSUP")
                 ELSE IF ~ Succeeded(a) THEN Failed("ENOFRAME")
                 ELSE a
        BY DEF read_dwarf_unwind_int
      <4>4. find_fde(FrameSection, p) = found
        BY <4>2
      <4> HIDE DEF found, read, pc
      <4> QED
        BY <2>3, <2>4, <2>6, <4>1, <4>2, <4>3, <4>4
    <3>2. ~ Succeeded(Failed("ENOFRAME"))
      BY DEF Failed, Succeeded
    <3>3. IF CfaReg(s) \in DOMAIN frame /\ \A x \in X : ~ Lacks(x, frame)
          THEN applied = Read(new) ELSE ~ Succeeded(applied)
      BY RowApplies
    <3>4. (\A x \in X : TrueRule(x, c, d)) /\ Changed(s) \ {Acc[arch], "SP"} \subseteq Targets(X)
      BY RulesAreTrue
    <3>5. T \in SUBSET Registers /\ Changed(s) \ {Acc[arch]} \subseteq T
      <4>1. "SP" \in Registers
        BY RegistersAre DEF ProgramOK
      <4> HIDE DEF X, s
      <4>2. Targets(X) \subseteq Registers
        BY <3>4 DEF Targets, TrueRule
      <4> QED
        BY <3>4, <4>1, <4>2
    <3>6. Fits(new, c) /\ (Full(frame) => Full(new)) /\ "IP" \in DOMAIN new
      <4> HIDE DEF T
      <4> QED
        BY <3>5, KeptFits
    <3>7. Full(frame) => CfaReg(s) \in DOMAIN frame
      BY NonvolatilesAre DEF Full, ProgramOK, CfaReg
    <3>8. Full(frame) => \A x \in X : ~ Lacks(x, frame)
      <4> SUFFICES ASSUME Full(frame), NEW x \in X PROVE ~ Lacks(x, frame)
        OBVIOUS
      <4> HIDE DEF X, s
      <4>1. TrueRule(x, c, d)
        BY <3>4
      <4>2. x.rule.type \in {"register", "same_value"} => Source(x) \in nonvolatile_registers[arch]
        <5>1. CASE x.rule.type = "register"
          BY <4>1, <5>1 DEF TrueRule
        <5>2. CASE x.rule.type = "same_value"
          BY <4>1, <5>2 DEF TrueRule, Source
        <5> QED
          BY <5>1, <5>2
      <4> QED
        BY <4>2 DEF Lacks, Full
    <3>9. Succeeded(Read(new)) /\ Read(new).state = new
      BY DEF Read, Succeeded
    <3> HIDE DEF new, applied, read, X, s
    <3>10. Succeeded(read) => read = Read(new)
      BY <3>1, <3>2, <3>3
    <3>11. Full(frame) => read = Read(new)
      BY <3>1, <3>3, <3>7, <3>8, <3>9
    <3> QED
      BY <3>6, <3>9, <3>10, <3>11 DEF Finds, read
  <2> QED
    BY <2>5, <2>6
<1> QED
  BY <1>2, <1>3

\* The third reader finds a frame of the same thread, of which it knows two registers.
LEMMA FramePtrReads ==
    ASSUME ProgramOK, StackInv, NEW n, NEW f, NEW c, NEW d, FrameOf(n, f, c, d, frame),
           Succeeded(read_frame_ptr)
    PROVE  \E m \in 1 .. n : Fits(read_frame_ptr.state, callers[m]) /\ "IP" \in DOMAIN read_frame_ptr.state
<1> DEFINE fp == get_reg(frame, "FP")
           new == [r \in {"FP", "IP"} |-> IF r = "FP" THEN Memory[fp] ELSE Memory[fp + 1]]
<1>1. n \in 1 .. L /\ d = Level(n + 1) /\ Fits(frame, d)
  BY DEF FrameOf
<1>2. /\ "FP" \in DOMAIN frame /\ fp # 0 /\ fp \in DOMAIN Memory /\ read_frame_ptr = Read(new)
  <2>1. ~ Succeeded(Failed("EBADFRAME")) /\ ~ Succeeded(Failed("ENOFRAME"))
    BY DEF Failed, Succeeded
  <2> QED
    BY <2>1 DEF read_frame_ptr, has_reg
<1>3. L \in Nat /\ {"IP", "SP", "FP"} \subseteq Registers /\ Bottom \in Int /\ StackTop \in Int
      /\ Bottom <= regs["SP"] /\ regs["SP"] \in Int
      /\ \A m \in 1 .. L : Level(m) = callers[m] /\ callers[m] \in [Registers -> Int]
  BY StackFacts
<1>4. n + 1 \in 1 .. L + 1 /\ (n + 1) - 1 = n
  BY <1>1, <1>3
<1>5. fp = d["FP"]
  BY <1>1, <1>2 DEF get_reg, Fits
<1>6. IsFramePtr(fp, n)
  <2>1. IsFramePtr(Level(n + 1)["FP"], (n + 1) - 1)
    BY <1>4 DEF StackInv
  <2> QED
    BY <1>1, <1>4, <1>5, <2>1
<1>7. DOMAIN Memory = Readable /\ DOMAIN mem = Bottom .. StackTop - 1
      /\ \A a \in DOMAIN mem : a \in Readable /\ Memory[a] = mem[a]
  BY MemoryIs
<1> HIDE DEF fp
<1>8. PICK m \in 1 .. n : /\ fp = callers[m]["SP"] - 2 /\ regs["SP"] <= fp
                          /\ mem[fp] = callers[m]["FP"] /\ mem[fp + 1] = callers[m]["IP"]
  BY <1>2, <1>6, <1>7 DEF IsFramePtr
<1>9. m \in 1 .. L /\ m \in 1 .. L + 1
  BY <1>1, <1>3
<1>10. callers[m]["SP"] \in Int /\ callers[m]["SP"] <= StackTop
  <2>1. Level(m)["SP"] \in regs["SP"] .. StackTop
    BY <1>9 DEF StackInv
  <2> QED
    BY <1>3, <1>9, <2>1
<1>11. fp \in DOMAIN mem /\ fp + 1 \in DOMAIN mem
  <2> DEFINE M == DOMAIN mem
             sp == callers[m]["SP"]
             low == regs["SP"]
  <2>1. M = Bottom .. StackTop - 1 /\ low \in Int /\ Bottom <= low /\ low <= fp
        /\ Bottom \in Int /\ StackTop \in Int /\ sp \in Int /\ sp <= StackTop /\ fp = sp - 2
    BY <1>3, <1>7, <1>8, <1>10
  <2> HIDE DEF M, sp, low
  <2>2. fp \in M /\ fp + 1 \in M
    BY <2>1
  <2> QED
    BY <2>2 DEF M
<1>12. Memory[fp] = callers[m]["FP"] /\ Memory[fp + 1] = callers[m]["IP"]
  BY <1>7, <1>8, <1>11
<1>13. Fits(new, callers[m]) /\ "IP" \in DOMAIN new
  BY <1>3, <1>12 DEF Fits
<1>14. Read(new).state = new
  BY DEF Read
<1> HIDE DEF new
<1> QED
  BY <1>2, <1>13, <1>14

----------------------------------------------------------------------------
(* The walk.                                                               *)

\* lv[k] is the level of the k-th frame that was walked.
IsWalk(lv) ==
    /\ depth > 0 => lv[1] = L + 1
    /\ \A k \in 2 .. depth : lv[k] < lv[k - 1]
    /\ \A k \in 1 .. depth : Fits(walked[k], Level(lv[k])) /\ "IP" \in DOMAIN walked[k]

\* The frames have been read from levels farther and farther out.
WalkInv ==
    /\ depth \in Nat /\ walked = [k \in 1 .. depth |-> walked[k]]
    /\ reader \in {"none", "compact", "dwarf", "frame_ptr"}
    /\ result \in {"running", "ESUCCESS", "ENOFRAME", "EBADFRAME"}
    /\ result = "running" => depth = 0 /\ reader = "none" /\ frame = NoState
    /\ result # "running" => L >= 1
    /\ result # "running" /\ depth = 0 => frame = regs /\ result = "ESUCCESS" /\ reader = "none"
    /\ depth > 0 => frame = walked[depth]
    /\ reader # "none" => result = "ESUCCESS"
    /\ IsState(prev_frame)
    /\ \E lv \in [1 .. depth -> 2 .. L + 1] : IsWalk(lv)

\* With unwind information about all functions in progress none is left out: the frame
\* has the registers that a reader needs, and a reader before the last one finds the next.
AllInfo == \A f \in RunningFunctions : HasInfo(f)
CompleteInv ==
    AllInfo /\ depth > 0 =>
        /\ depth <= L /\ Fits(frame, Level(L + 2 - depth)) /\ Full(frame)
        /\ reader # "frame_ptr"
        /\ reader = "dwarf" => \A f \in Functions : CallIs(L + 1 - depth, f) => f \in Described
        /\ result = "ESUCCESS" \/ (depth = L /\ result = "ENOFRAME")

LEMMA Appended ==
    ASSUME NEW m \in Nat, NEW w, w = [k \in 1 .. m |-> w[k]], NEW e
    PROVE  LET u == Append(w, e)
           IN /\ Len(w) = m
              /\ u = [k \in 1 .. m + 1 |-> u[k]] /\ u[m + 1] = e /\ \A k \in 1 .. m : u[k] = w[k]
<1> DEFINE S == {w[k] : k \in 1 .. m} \cup {e}
           u == Append(w, e)
<1>1. w \in [1 .. m -> S]
  OBVIOUS
<1>2. e \in S
  OBVIOUS
<1> HIDE DEF S
<1>3. w \in Seq(S)
  BY <1>1
<1>4. Len(w) = m
  <2>1. DOMAIN w = 1 .. m
    BY <1>1
  <2> QED
    BY <1>3, <2>1
<1>5. u \in Seq(S) /\ Len(u) = Len(w) + 1 /\ (\A k \in 1 .. Len(w) : u[k] = w[k]) /\ u[Len(w) + 1] = e
  BY <1>2, <1>3
<1> HIDE DEF u
<1>6. u \in [1 .. Len(u) -> S]
  BY <1>5
<1>7. u = [k \in 1 .. Len(u) |-> u[k]]
  BY <1>6
<1> QED
  BY <1>4, <1>5, <1>7 DEF u

\* A level of the stack that is not the outermost one has a pc in a function.
LEMMA LevelIs ==
    ASSUME ProgramOK, StackInv, NEW l \in 1 .. L + 1
    PROVE  /\ Level(l) \in [Registers -> Int]
           /\ l = 1 => Level(l)["IP"] = 0
           /\ l # 1 => \E f \in Functions : CallIs(l - 1, f) /\ Level(l)["IP"] \in Start(f) .. Start(f) + FunctionSize - 1
           /\ l # 1 => Level(l)["IP"] > PageSize
<1>1. L \in Nat /\ Level(l) \in [Registers -> Int] /\ (l = 1 => Level(l)["IP"] = 0)
  BY StackFacts DEF StackInv
<1>2. ASSUME l # 1
      PROVE  /\ \E f \in Functions : CallIs(l - 1, f) /\ Level(l)["IP"] \in Start(f) .. Start(f) + FunctionSize - 1
             /\ Level(l)["IP"] > PageSize
  <2>1. l - 1 \in 1 .. L /\ (l - 1) + 1 = l
    BY <1>1, <1>2
  <2>2. PICK f \in Functions : CallIs(l - 1, f)
    BY <2>1 DEF StackInv
  <2>3. Level(l)["IP"] \in {Body(f), ReturnTo(f)}
    BY <2>1, <2>2 DEF CallIs
  <2>4. Start(f) \in Nat /\ Start(f) >= HeaderAddr /\ HeaderAddr \in Nat
    <3>1. f \in Nat /\ HeaderAddr \in Nat
      BY ProgramFacts
    <3>2. Start(f) = HeaderAddr + 3 * f \/ Start(f) = 2 * HeaderAddr + 3 * f
      BY StartIs DEF FunctionSize
    <3> QED
      BY <3>1, <3>2
  <2>5. Level(l)["IP"] \in Start(f) .. Start(f) + FunctionSize - 1 /\ Level(l)["IP"] > HeaderAddr
    BY <2>3, <2>4 DEF Body, ReturnTo, FunctionSize
  <2>6. HeaderAddr > PageSize /\ PageSize \in Nat
    BY UnwindAssumption
  <2>7. Level(l)["IP"] \in Int
    BY <2>3, <2>4 DEF Body, ReturnTo
  <2> QED
    BY <2>2, <2>4, <2>5, <2>6, <2>7
<1> QED
  BY <1>1, <1>2

\* The frame of a walk and its call.
LEMMA Walked ==
    ASSUME ProgramOK, StackInv, WalkInv, depth > 0
    PROVE  \E lv \in [1 .. depth -> 2 .. L + 1] :
              /\ IsWalk(lv)
              /\ lv[depth] - 1 \in 1 .. L /\ (lv[depth] - 1) + 1 = lv[depth]
              /\ \E f \in Functions :
                    FrameOf(lv[depth] - 1, f, callers[lv[depth] - 1], Level(lv[depth]), frame)
<1>1. PICK lv \in [1 .. depth -> 2 .. L + 1] : IsWalk(lv)
  BY DEF WalkInv
<1>2. depth \in Nat /\ depth \in 1 .. depth /\ L \in Nat
  BY StackFacts DEF WalkInv
<1>3. lv[depth] \in 2 .. L + 1
  BY <1>1, <1>2
<1>4. PICK n : n = lv[depth] - 1
  OBVIOUS
<1>5. n \in 1 .. L /\ n + 1 = lv[depth]
  BY <1>2, <1>3, <1>4
<1>6. Fits(frame, Level(lv[depth]))
  BY <1>1, <1>2 DEF IsWalk, WalkInv
<1>7. PICK f \in Functions : CallIs(n, f)
  BY <1>5 DEF StackInv
<1>8. FrameOf(n, f, callers[n], Level(lv[depth]), frame)
  BY <1>5, <1>6, <1>7 DEF FrameOf
<1> QED
  BY <1>1, <1>4, <1>5, <1>8

Readers == {read_compact_unwind, read_dwarf_unwind, read_frame_ptr}

LEMMA ReadersFind ==
    ASSUME ProgramOK, StackInv, NEW n, NEW f, NEW c, NEW d, FrameOf(n, f, c, d, frame),
           NEW read \in Readers, Succeeded(read)
    PROVE  \E m \in 1 .. n : Fits(read.state, callers[m]) /\ "IP" \in DOMAIN read.state
<1>1. n \in 1 .. L /\ c = callers[n] /\ n \in 1 .. n
  <2>1. L \in Nat
    BY StackFacts
  <2> QED
    BY <2>1 DEF FrameOf
<1>2. CASE read = read_compact_unwind
  <2>1. Finds(read, c)
    BY <1>2, CompactReads
  <2> QED
    BY <1>1, <2>1 DEF Finds
<1>3. CASE read = read_dwarf_unwind
  <2>1. Finds(read, c)
    BY <1>3, DwarfReads
  <2> QED
    BY <1>1, <2>1 DEF Finds
<1>4. CASE read = read_frame_ptr
  BY <1>4, FramePtrReads
<1> QED
  BY <1>2, <1>3, <1>4 DEF Readers

\* What the readers return when they fail.
LEMMA ReadersFail ==
    ASSUME ~ Succeeded(read_frame_ptr)
    PROVE  read_frame_ptr.error \in {"EBADFRAME", "ENOFRAME"}
<1>1. Failed("EBADFRAME").error = "EBADFRAME" /\ Failed("ENOFRAME").error = "ENOFRAME"
  BY DEF Failed
<1>2. \A s : Succeeded(Read(s))
  BY DEF Read, Succeeded
<1> QED
  BY <1>1, <1>2 DEF read_frame_ptr

LEMMA InitWalk ==
    ASSUME Init
    PROVE  WalkInv /\ CompleteInv
<1>1. depth = 0 /\ walked = <<>> /\ reader = "none" /\ result = "running" /\ frame = NoState /\ prev_frame = NoState
  BY DEF Init
<1>2. walked = [k \in 1 .. depth |-> walked[k]]
  <2> DEFINE w == <<>>
             v == [k \in 1 .. 0 |-> w[k]]
  <2>1. DOMAIN w = 1 .. 0 /\ w \in [1 .. 0 -> {}]
    OBVIOUS
  <2>2. w = v
    BY <2>1
  <2> QED
    BY <1>1, <2>2
<1>3. IsState(prev_frame)
  BY <1>1 DEF IsState, NoState
<1>4. \E lv \in [1 .. depth -> 2 .. L + 1] : IsWalk(lv)
  <2> DEFINE lv == [k \in 1 .. 0 |-> 2]
  <2>1. \A k : k \notin 1 .. 0 /\ k \notin 2 .. 0
    OBVIOUS
  <2>2. lv \in [1 .. 0 -> 2 .. L + 1]
    BY <2>1
  <2>3. IsWalk(lv)
    BY <1>1, <2>1 DEF IsWalk
  <2> QED
    BY <1>1, <2>2, <2>3
<1>5. /\ depth \in Nat /\ ~ (depth > 0) /\ reader \in {"none", "compact", "dwarf", "frame_ptr"}
      /\ result \in {"running", "ESUCCESS", "ENOFRAME", "EBADFRAME"}
      /\ result = "running" /\ depth = 0 /\ reader = "none" /\ frame = NoState
  BY <1>1
<1>6. WalkInv
  BY <1>2, <1>3, <1>4, <1>5 DEF WalkInv
<1> QED
  BY <1>5, <1>6 DEF CompleteInv

LEMMA CallKeepsWalk ==
    ASSUME WalkInv, NEW f \in Functions, Call(f)
    PROVE  WalkInv' /\ CompleteInv'
<1>1. result = "running" /\ UNCHANGED <<arch, functions, layout, depth, frame, prev_frame, walked, reader, result>>
  BY DEF Call, cursor
<1>2. depth = 0 /\ depth' = 0 /\ reader = "none" /\ frame = NoState /\ IsState(prev_frame)
      /\ walked = [k \in 1 .. depth |-> walked[k]]
  BY <1>1 DEF WalkInv
<1>3. IsState(prev_frame)'
  BY <1>1, <1>2 DEF IsState, Registers
<1>4. (\E lv \in [1 .. depth -> 2 .. L + 1] : IsWalk(lv))'
  <2> DEFINE lv == [k \in 1 .. 0 |-> 2]
  <2>1. \A k : k \notin 1 .. 0 /\ k \notin 2 .. 0
    OBVIOUS
  <2>2. lv \in [1 .. 0 -> 2 .. L' + 1]
    BY <2>1
  <2>3. IsWalk(lv)'
    BY <1>2, <2>1 DEF IsWalk
  <2> QED
    BY <1>2, <2>2, <2>3
<1>5. WalkInv'
  BY <1>1, <1>2, <1>3, <1>4 DEF WalkInv, NoState
<1> QED
  BY <1>2, <1>5 DEF CompleteInv

\* A step that returns no frame leaves the walk as it is.
LEMMA SameWalk ==
    ASSUME WalkInv, UNCHANGED program, UNCHANGED <<depth, walked>>
    PROVE  (\E lv \in [1 .. depth -> 2 .. L + 1] : IsWalk(lv))'
<1>1. PICK lv \in [1 .. depth -> 2 .. L + 1] : IsWalk(lv)
  BY DEF WalkInv
<1>2. L' = L /\ \A n : Level(n)' = Level(n)
  BY StackUnchanged
<1>3. IsWalk(lv)'
  BY <1>1, <1>2 DEF IsWalk, Fits, Registers, program
<1> QED
  BY <1>1, <1>2, <1>3

LEMMA SameStates ==
    ASSUME UNCHANGED program
    PROVE  \A s : IsState(s)' <=> IsState(s)
BY DEF program, IsState, Registers

LEMMA CrashKeepsWalk ==
    ASSUME ProgramOK, StackInv, WalkInv, crash
    PROVE  WalkInv'
<1>1. result = "running" /\ callers # <<>> /\ frame' = regs /\ result' = "ESUCCESS"
      /\ UNCHANGED <<program, depth, prev_frame, walked, reader>>
  BY DEF crash
<1>2. depth = 0 /\ reader = "none" /\ IsState(prev_frame) /\ walked = [k \in 1 .. depth |-> walked[k]]
  BY <1>1 DEF WalkInv
<1>3. L' = L /\ regs' = regs /\ IsState(prev_frame)'
  BY <1>1, <1>2, StackUnchanged DEF program, IsState, Registers
<1>4. L >= 1
  <2> DEFINE S == [Registers -> Int]
  <2>1. callers \in Seq(S)
    BY DEF StackInv
  <2> HIDE DEF S
  <2> QED
    BY <1>1, <2>1 DEF L
<1>5. (\E lv \in [1 .. depth -> 2 .. L + 1] : IsWalk(lv))'
  BY <1>1, SameWalk
<1>6. /\ depth' = 0 /\ depth' \in Nat /\ ~ (depth' > 0) /\ reader' = "none" /\ result' = "ESUCCESS"
      /\ reader' \in {"none", "compact", "dwarf", "frame_ptr"} /\ result' # "running"
      /\ result' \in {"running", "ESUCCESS", "ENOFRAME", "EBADFRAME"} /\ frame' = regs' /\ L' >= 1
  BY <1>1, <1>2, <1>3, <1>4
<1>7. walked' = [k \in 1 .. depth' |-> walked'[k]]
  <2>1. walked' = walked /\ depth' = depth
    BY <1>1
  <2> QED
    BY <1>2, <2>1
<1> QED
  BY <1>3, <1>5, <1>6, <1>7 DEF WalkInv

LEMMA FirstKeepsWalk ==
    ASSUME ProgramOK, StackInv, WalkInv, firstFrame
    PROVE  WalkInv'
<1>1. /\ result = "ESUCCESS" /\ reader = "none" /\ depth = 0 /\ depth' = 1 /\ walked' = <<frame>>
      /\ UNCHANGED <<program, frame, prev_frame, reader, result>>
  BY DEF firstFrame
<1>2. frame = regs /\ L >= 1 /\ IsState(prev_frame)
  BY <1>1 DEF WalkInv
<1>3. L' = L /\ (\A n : Level(n)' = Level(n)) /\ IsState(prev_frame)' /\ regs' = regs /\ Registers' = Registers
  BY <1>1, <1>2, StackUnchanged DEF program, IsState, Registers
<1>4. walked' = [k \in 1 .. 1 |-> walked'[k]] /\ walked'[1] = regs
  BY <1>1, <1>2
<1>5. L \in Nat /\ Level(L + 1) = regs /\ regs \in [Registers -> Int] /\ "IP" \in Registers
  BY StackFacts DEF StackInv
<1> DEFINE lv == [k \in 1 .. 1 |-> L + 1]
<1>6. lv \in [1 .. 1 -> 2 .. L + 1] /\ lv[1] = L + 1
  BY <1>2, <1>5
<1>7. PICK lw \in [1 .. 1 -> 2 .. L + 1] : lw[1] = L + 1
  BY <1>6
<1>8. IsWalk(lw)'
  <2>1. Fits(regs, Level(L + 1)) /\ "IP" \in DOMAIN regs
    BY <1>5 DEF Fits
  <2>2. Level(lw[1])' = regs
    BY <1>3, <1>5, <1>7
  <2>3. \A k \in 1 .. 1 : k = 1
    OBVIOUS
  <2>4. \A k : k \notin 2 .. 1
    OBVIOUS
  <2>5. Fits(walked[1], Level(lw[1]))'
    BY <1>3, <1>4, <1>5, <2>1, <2>2 DEF Fits
  <2>6. ("IP" \in DOMAIN walked[1])'
    BY <1>4, <2>1
  <2> QED
    BY <1>1, <1>3, <1>7, <2>3, <2>4, <2>5, <2>6 DEF IsWalk
<1>9. (\E l \in [1 .. depth -> 2 .. L + 1] : IsWalk(l))'
  BY <1>1, <1>3, <1>7, <1>8
<1> QED
  BY <1>1, <1>2, <1>3, <1>4, <1>9 DEF WalkInv

LEMMA NextKeepsWalk ==
    ASSUME ProgramOK, StackInv, WalkInv, cursor_next
    PROVE  WalkInv'
<1>1. /\ result = "ESUCCESS" /\ depth > 0 /\ reader' = "compact"
      /\ UNCHANGED <<program, depth, frame, prev_frame, walked, result>>
  BY DEF cursor_next
<1>2. L' = L /\ regs' = regs
  BY <1>1, StackUnchanged DEF program
<1>3. IsState(prev_frame)'
  BY <1>1 DEF WalkInv, IsState, Registers, program
<1>4. (\E l \in [1 .. depth -> 2 .. L + 1] : IsWalk(l))'
  BY <1>1, SameWalk
<1>5. depth \in Nat /\ depth # 0
  BY <1>1 DEF WalkInv
<1> QED
  BY <1>1, <1>2, <1>3, <1>4, <1>5 DEF WalkInv

\* A frame that is taken was read from a level farther out, which is not the outermost one.
LEMMA TakeKeepsWalk ==
    ASSUME ProgramOK, StackInv, WalkInv, depth > 0, result = "ESUCCESS", UNCHANGED program,
           NEW read \in Readers, Succeeded(read), takeFrame(read.state)
    PROVE  WalkInv'
<1>1. PICK lv \in [1 .. depth -> 2 .. L + 1] :
          /\ IsWalk(lv)
          /\ lv[depth] - 1 \in 1 .. L /\ (lv[depth] - 1) + 1 = lv[depth]
          /\ \E f \in Functions :
                FrameOf(lv[depth] - 1, f, callers[lv[depth] - 1], Level(lv[depth]), frame)
  BY Walked
<1>2. PICK n : n = lv[depth] - 1
  OBVIOUS
<1>3. PICK f \in Functions : FrameOf(n, f, callers[n], Level(lv[depth]), frame)
  BY <1>1, <1>2
<1>4. PICK m \in 1 .. n : Fits(read.state, callers[m]) /\ "IP" \in DOMAIN read.state
  BY <1>3, ReadersFind
<1> DEFINE st == read.state
<1>5. L \in Nat /\ L >= 1 /\ n \in 1 .. L /\ m \in 1 .. L /\ lv[depth] = n + 1 /\ Level(m) = callers[m]
      /\ depth \in Nat /\ depth \in 1 .. depth
  <2>1. L \in Nat /\ \A k \in 1 .. L : Level(k) = callers[k]
    BY StackFacts
  <2>2. L >= 1 /\ depth \in Nat
    BY DEF WalkInv
  <2>3. n \in 1 .. L /\ lv[depth] = n + 1
    BY <1>1, <1>2
  <2>4. m \in 1 .. L
    BY <2>1, <2>3
  <2> QED
    BY <2>1, <2>2, <2>3, <2>4
<1>6. L' = L /\ (\A k : Level(k)' = Level(k)) /\ Registers' = Registers /\ regs' = regs
  BY StackUnchanged DEF program, Registers
<1>7. Fits(st, Level(m)) /\ "IP" \in DOMAIN st
  BY <1>4, <1>5
<1>8. IsState(frame)
  <2>1. Fits(frame, Level(lv[depth])) /\ lv[depth] \in 1 .. L + 1
    BY <1>3, <1>5 DEF FrameOf
  <2>2. Level(lv[depth]) \in [Registers -> Int]
    BY <2>1, StackFacts
  <2> QED
    BY <2>1, <2>2 DEF Fits, IsState
<1> HIDE DEF st
<1>9. reader' = "none"
  BY DEF takeFrame, st
<1>10. CASE /\ has_reg(st, "IP") /\ get_reg(st, "IP") > PageSize
            /\ prev_frame' = frame /\ frame' = st /\ depth' = depth + 1
            /\ walked' = Append(walked, st) /\ UNCHANGED result
  <2>1. m # 1
    <3> SUFFICES ASSUME m = 1 PROVE FALSE
      OBVIOUS
    <3>1. 1 \in 1 .. L + 1 /\ Level(1)["IP"] = 0
      BY <1>5, StackFacts DEF StackInv
    <3>2. get_reg(st, "IP") = 0
      BY <1>7, <3>1 DEF Fits, get_reg
    <3>3. PageSize \in Nat
      BY UnwindAssumption
    <3> QED
      BY <1>10, <3>2, <3>3
  <2>2. m \in 2 .. L + 1 /\ m < lv[depth]
    BY <1>5, <2>1
  <2>3. walked = [k \in 1 .. depth |-> walked[k]]
    BY DEF WalkInv
  <2>4. /\ walked' = [k \in 1 .. depth + 1 |-> walked'[k]] /\ walked'[depth + 1] = st
        /\ \A k \in 1 .. depth : walked'[k] = walked[k]
    BY <1>5, <1>10, <2>3, Appended
  <2> DEFINE lw == [k \in 1 .. depth + 1 |-> IF k = depth + 1 THEN m ELSE lv[k]]
  <2>5. \A k \in 1 .. depth + 1 : k = depth + 1 \/ k \in 1 .. depth
    BY <1>5
  <2>6. lw \in [1 .. depth + 1 -> 2 .. L + 1]
    BY <1>1, <2>2, <2>5
  <2>7. lw[depth + 1] = m /\ \A k \in 1 .. depth : lw[k] = lv[k]
    BY <1>5
  <2>8. PICK w \in [1 .. depth + 1 -> 2 .. L + 1] : w[depth + 1] = m /\ \A k \in 1 .. depth : w[k] = lv[k]
    BY <2>6, <2>7
  <2> HIDE DEF lw
  <2>9. w[1] = L + 1
    <3>1. 1 \in 1 .. depth /\ lv[1] = L + 1
      BY <1>1, <1>5 DEF IsWalk
    <3> QED
      BY <2>8, <3>1
  <2>10. \A k \in 2 .. depth + 1 : w[k] < w[k - 1]
    <3> TAKE k \in 2 .. depth + 1
    <3>1. CASE k = depth + 1
      <4>1. k - 1 = depth
        BY <1>5, <3>1
      <4> QED
        BY <1>5, <2>2, <2>8, <3>1, <4>1
    <3>2. CASE k \in 2 .. depth
      <4>1. k \in 1 .. depth /\ k - 1 \in 1 .. depth
        BY <1>5, <3>2
      <4>2. lv[k] < lv[k - 1]
        BY <1>1, <3>2 DEF IsWalk
      <4> QED
        BY <2>8, <4>1, <4>2
    <3> QED
      BY <1>5, <3>1, <3>2
  <2>11. \A k \in 1 .. depth + 1 : Fits(walked'[k], Level(w[k])) /\ "IP" \in DOMAIN walked'[k]
    <3> TAKE k \in 1 .. depth + 1
    <3>1. CASE k = depth + 1
      BY <1>7, <2>4, <2>8, <3>1
    <3>2. CASE k \in 1 .. depth
      <4>1. Fits(walked[k], Level(lv[k])) /\ "IP" \in DOMAIN walked[k]
        BY <1>1, <3>2 DEF IsWalk
      <4> QED
        BY <2>4, <2>8, <3>2, <4>1
    <3> QED
      BY <2>5, <3>1, <3>2
  <2>12. \A k \in 1 .. depth + 1 : Fits(walked[k], Level(w[k]))'
    BY <1>6, <2>11 DEF Fits
  <2>13. IsWalk(w)'
    BY <1>6, <1>10, <2>9, <2>10, <2>11, <2>12 DEF IsWalk
  <2>14. (\E l \in [1 .. depth -> 2 .. L + 1] : IsWalk(l))'
    BY <1>6, <1>10, <2>8, <2>13
  <2>15. IsState(prev_frame)'
    BY <1>6, <1>8, <1>10 DEF IsState
  <2>16. /\ depth' \in Nat /\ depth' # 0 /\ reader' \in {"none", "compact", "dwarf", "frame_ptr"}
         /\ result' = "ESUCCESS" /\ result' # "running" /\ L' >= 1
         /\ result' \in {"running", "ESUCCESS", "ENOFRAME", "EBADFRAME"} /\ frame' = walked'[depth']
    BY <1>5, <1>6, <1>9, <1>10, <2>4
  <2>17. walked' = [k \in 1 .. depth' |-> walked'[k]]
    BY <1>10, <2>4
  <2> QED
    BY <2>14, <2>15, <2>16, <2>17 DEF WalkInv
<1>11. CASE result' = "ENOFRAME" /\ UNCHANGED <<depth, frame, prev_frame, walked>>
  <2>1. (\E l \in [1 .. depth -> 2 .. L + 1] : IsWalk(l))'
    BY <1>11, SameWalk
  <2>2. IsState(prev_frame)'
    BY <1>6, <1>11 DEF WalkInv, IsState
  <2>3. /\ depth' \in Nat /\ depth' # 0 /\ reader' = "none" /\ reader' \in {"none", "compact", "dwarf", "frame_ptr"}
        /\ result' # "running" /\ L' >= 1 /\ result' \in {"running", "ESUCCESS", "ENOFRAME", "EBADFRAME"}
    BY <1>5, <1>6, <1>9, <1>11
  <2>4. walked' = [k \in 1 .. depth' |-> walked'[k]] /\ frame' = walked'[depth']
    <3>1. walked = [k \in 1 .. depth |-> walked[k]] /\ frame = walked[depth]
      BY <1>5 DEF WalkInv
    <3> QED
      BY <1>11, <3>1
  <2> QED
    BY <2>1, <2>2, <2>3, <2>4 DEF WalkInv
<1> QED
  BY <1>10, <1>11 DEF takeFrame, st

\* A reader that fails.
LEMMA FailKeepsWalk ==
    ASSUME ProgramOK, StackInv, WalkInv, depth > 0, result = "ESUCCESS", UNCHANGED program,
           UNCHANGED <<depth, frame, prev_frame, walked>>,
           reader' \in {"none", "dwarf", "frame_ptr"}, result' \in {"ESUCCESS", "ENOFRAME", "EBADFRAME"},
           reader' # "none" => result' = "ESUCCESS"
    PROVE  WalkInv'
<1>1. (\E l \in [1 .. depth -> 2 .. L + 1] : IsWalk(l))'
  BY SameWalk
<1>2. L' = L /\ IsState(prev_frame)'
  BY StackUnchanged DEF program, Registers, WalkInv, IsState
<1>3. /\ depth' \in Nat /\ depth' # 0 /\ L' >= 1 /\ result' # "running"
      /\ reader' \in {"none", "compact", "dwarf", "frame_ptr"}
      /\ result' \in {"running", "ESUCCESS", "ENOFRAME", "EBADFRAME"}
  BY <1>2 DEF WalkInv
<1>4. walked' = [k \in 1 .. depth' |-> walked'[k]] /\ frame' = walked'[depth']
  <2>1. walked = [k \in 1 .. depth |-> walked[k]] /\ frame = walked[depth]
    BY DEF WalkInv
  <2> QED
    BY <2>1
<1> QED
  BY <1>1, <1>2, <1>3, <1>4 DEF WalkInv

LEMMA ReadKeepsWalk ==
    ASSUME ProgramOK, StackInv, WalkInv, NEW r \in {"compact", "dwarf", "frame_ptr"}, NEW read \in Readers,
           NEW next \in {"none", "dwarf", "frame_ptr"},
           next = "none" => read = read_frame_ptr, tryReader(r, read, next)
    PROVE  WalkInv'
<1>1. reader = r /\ UNCHANGED program
      /\ \/ Succeeded(read) /\ takeFrame(read.state)
         \/ /\ ~ Succeeded(read) /\ reader' = next
            /\ result' = IF next = "none" THEN read.error ELSE result
            /\ UNCHANGED <<depth, frame, prev_frame, walked>>
  BY DEF tryReader
<1>2. depth > 0 /\ result = "ESUCCESS"
  <2>1. reader # "none"
    BY <1>1
  <2>2. depth \in Nat /\ result \in {"running", "ESUCCESS", "ENOFRAME", "EBADFRAME"}
    BY DEF WalkInv
  <2>3. result # "running" /\ depth # 0
    BY <2>1 DEF WalkInv
  <2>4. result = "ESUCCESS"
    BY <2>1 DEF WalkInv
  <2> QED
    BY <2>2, <2>3, <2>4
<1>3. CASE Succeeded(read) /\ takeFrame(read.state)
  BY <1>1, <1>2, <1>3, TakeKeepsWalk
<1>4. CASE ~ Succeeded(read)
  <2>1. /\ reader' = next /\ UNCHANGED <<depth, frame, prev_frame, walked>>
        /\ result' = IF next = "none" THEN read.error ELSE result
    BY <1>1, <1>4
  <2>2. result' \in {"ESUCCESS", "ENOFRAME", "EBADFRAME"} /\ (reader' # "none" => result' = "ESUCCESS")
    BY <1>2, <1>4, <2>1, ReadersFail
  <2> QED
    BY <1>1, <1>2, <2>1, <2>2, FailKeepsWalk
<1> QED
  BY <1>1, <1>3, <1>4

LEMMA WalkStays == Spec => []WalkInv
<1>1. Init => WalkInv
  BY InitWalk
<1>2. ProgramOK /\ StackInv /\ WalkInv /\ [Next]_vars => WalkInv'
  <2> SUFFICES ASSUME ProgramOK, StackInv, WalkInv, [Next]_vars PROVE WalkInv'
    OBVIOUS
  <2>1. ASSUME NEW f \in Functions, Call(f) PROVE WalkInv'
    BY <2>1, CallKeepsWalk
  <2>2. CASE crash
    BY <2>2, CrashKeepsWalk
  <2>3. CASE firstFrame
    BY <2>3, FirstKeepsWalk
  <2>4. CASE cursor_next
    BY <2>4, NextKeepsWalk
  <2>5. CASE next_with_readers
    <3>0. read_compact_unwind \in Readers /\ read_dwarf_unwind \in Readers /\ read_frame_ptr \in Readers
      BY DEF Readers
    <3>1. CASE tryReader("compact", read_compact_unwind, "dwarf")
      BY <3>0, <3>1, ReadKeepsWalk
    <3>2. CASE tryReader("dwarf", read_dwarf_unwind, "frame_ptr")
      BY <3>0, <3>2, ReadKeepsWalk
    <3>3. CASE tryReader("frame_ptr", read_frame_ptr, "none")
      BY <3>0, <3>3, ReadKeepsWalk
    <3> QED
      BY <2>5, <3>1, <3>2, <3>3 DEF next_with_readers
  <2>6. CASE UNCHANGED vars
    <3>1. UNCHANGED program /\ UNCHANGED <<depth, frame, prev_frame, walked, reader, result>>
      BY <2>6 DEF vars, cursor
    <3>2. (\E l \in [1 .. depth -> 2 .. L + 1] : IsWalk(l))'
      BY <3>1, SameWalk
    <3>3. L' = L /\ regs' = regs /\ IsState(prev_frame)'
      BY <3>1, StackUnchanged DEF program, Registers, WalkInv, IsState
    <3> QED
      BY <3>1, <3>2, <3>3 DEF WalkInv, NoState
  <2> QED
    BY <2>1, <2>2, <2>3, <2>4, <2>5, <2>6 DEF Next
<1> QED
  BY <1>1, <1>2, StackStays, PTL DEF Spec

\* TypeOK: the states that the readers leave in the cursor are thread states, and every frame
\* that the cursor has returned has a pc in a function of the program.
THEOREM FramesAreStates == Spec => []TypeOK
<1>1. ProgramOK /\ StackInv /\ WalkInv => TypeOK
  <2> SUFFICES ASSUME ProgramOK, StackInv, WalkInv PROVE TypeOK
    OBVIOUS
  <2>1. PICK lv \in [1 .. depth -> 2 .. L + 1] : IsWalk(lv)
    BY DEF WalkInv
  <2>2. depth \in Nat /\ depth = Len(walked) /\ DOMAIN walked = 1 .. depth
    <3>1. depth \in Nat /\ walked = [k \in 1 .. depth |-> walked[k]]
      BY DEF WalkInv
    <3> QED
      BY <3>1, Appended
  <2>3. /\ L \in Nat /\ L <= MaxDepth /\ regs \in [Registers -> Int] /\ mem \in [Bottom .. StackTop - 1 -> Int]
    BY StackFacts DEF StackInv
  <2>4. ASSUME NEW k \in 1 .. depth
        PROVE  IsState(walked[k]) /\ "IP" \in DOMAIN walked[k] /\ walked[k]["IP"] \in Addresses
    <3>1. Fits(walked[k], Level(lv[k])) /\ "IP" \in DOMAIN walked[k] /\ lv[k] \in 1 .. L + 1 /\ lv[k] # 1
      BY <2>1, <2>3 DEF IsWalk
    <3>2. PICK l \in 1 .. L + 1 : l = lv[k]
      BY <3>1
    <3>3. Level(l) \in [Registers -> Int]
          /\ \E f \in Functions : Level(l)["IP"] \in Start(f) .. Start(f) + FunctionSize - 1
      BY <3>1, <3>2, LevelIs
    <3>4. Level(l)["IP"] \in Addresses
      BY <3>3 DEF Addresses
    <3> QED
      BY <3>1, <3>2, <3>3, <3>4 DEF Fits, IsState
  <2>5. IsState(frame)
    <3>1. CASE depth > 0
      <4>0. frame = walked[depth]
        BY <3>1 DEF WalkInv
      <4>1. frame = walked[depth] /\ depth \in 1 .. depth
        BY <2>2, <3>1, <4>0
      <4> QED
        BY <2>4, <4>1
    <3>2. CASE depth = 0
      <4>1. frame = NoState \/ frame = regs
        BY <3>2 DEF WalkInv
      <4>2. IsState(NoState)
        BY DEF IsState, NoState
      <4>3. IsState(regs)
        BY <2>3 DEF IsState
      <4> QED
        BY <4>1, <4>2, <4>3
    <3> QED
      BY <2>2, <3>1, <3>2
  <2>6. IsState(regs) /\ DOMAIN regs = Registers /\ Len(callers) <= MaxDepth /\ \A a \in DOMAIN mem : mem[a] \in Int
    BY <2>3 DEF IsState, L
  <2>7. arch \in Architectures /\ IsState(prev_frame) /\ reader \in {"none", "compact", "dwarf", "frame_ptr"}
        /\ result \in {"running", "ESUCCESS", "ENOFRAME", "EBADFRAME"}
    BY DEF ProgramOK, WalkInv
  <2> QED
    BY <2>2, <2>4, <2>5, <2>6, <2>7 DEF TypeOK
<1> QED
  BY <1>1, StackStays, WalkStays, PTL

\* The innermost level that each frame can be of is at least the one it was read from.
Innermost(k, l) == Max({0} \cup {n \in 1 .. l - 1 : IsCaller(walked[k], n)})

LEMMA InnermostIs ==
    ASSUME NEW m \in Nat, NEW k, NEW l \in 0 .. m + 1
    PROVE  /\ Innermost(k, l) \in 0 .. m + 1
           /\ \A n \in 1 .. l - 1 : IsCaller(walked[k], n) => n <= Innermost(k, l)
           /\ Innermost(k, l) < l \/ Innermost(k, l) = 0
<1> DEFINE S == {0} \cup {n \in 1 .. l - 1 : IsCaller(walked[k], n)}
           a == Max(S)
<1>1. S \in SUBSET (0 .. m + 1) /\ S # {} /\ m + 1 \in Nat
  OBVIOUS
<1>2. \A n \in S : n = 0 \/ n <= l - 1
  OBVIOUS
<1>3. \A n \in 1 .. l - 1 : IsCaller(walked[k], n) => n \in S
  OBVIOUS
<1>4. Innermost(k, l) = a
  BY DEF Innermost
<1> HIDE DEF S
<1>5. a \in S /\ \A y \in S : y <= a
  BY <1>1, MaxIs
<1> HIDE DEF a
<1> QED
  BY <1>1, <1>2, <1>3, <1>4, <1>5

LEMMA CallerIs ==
    ASSUME L \in Nat, Len(walked) \in Nat, Len(walked) >= 1
    PROVE  /\ Caller[1] = L + 1
           /\ \A k \in 2 .. Len(walked) : Caller[k] = Innermost(k, Caller[k - 1])
           /\ \A k \in 1 .. Len(walked) : Caller[k] \in 0 .. L + 1
<1> DEFINE len == Len(walked)
           n == len - 1
           X == 0 .. L + 1
           b == L + 1
           F == [p \in (1 .. n) \X X |-> Innermost(p[1] + 1, p[2])]
<1>1. n \in Nat /\ b \in X
  OBVIOUS
<1>2. ASSUME NEW i \in 1 .. n, NEW x \in X PROVE Innermost(i + 1, x) \in X /\ F[<<i, x>>] = Innermost(i + 1, x)
  <2>1. PICK k : k = i + 1
    OBVIOUS
  <2>2. Innermost(k, x) \in X
    BY InnermostIs
  <2>3. <<i, x>> \in (1 .. n) \X X
    OBVIOUS
  <2> QED
    BY <2>1, <2>2, <2>3
<1>3. F \in [(1 .. n) \X X -> X]
  <2> SUFFICES ASSUME NEW p \in (1 .. n) \X X PROVE Innermost(p[1] + 1, p[2]) \in X
    OBVIOUS
  <2>1. p[1] \in 1 .. n /\ p[2] \in X
    OBVIOUS
  <2> QED
    BY <1>2, <2>1
<1> HIDE DEF F
<1>4. IsStep(F, n, X)
  BY <1>3 DEF IsStep
<1> HIDE DEF X, b
<1> PICK m \in Nat : m = n
  BY <1>1
<1>5. PICK h : Runs(h, m, X, b, F)
  BY <1>1, <1>4, Recursion
<1>6. h \in [0 .. n -> X] /\ h[0] = b /\ \A i \in 1 .. n : h[i] = F[<<i, h[i - 1]>>]
  BY <1>5 DEF Runs
<1> DEFINE Step(g, k) == IF k = 1 THEN L + 1 ELSE Innermost(k, g[k - 1])
           a == [k \in 1 .. len |-> h[k - 1]]
<1>7. a = [k \in 1 .. len |-> Step(a, k)]
  <2> SUFFICES ASSUME NEW k \in 1 .. len PROVE h[k - 1] = Step(a, k)
    OBVIOUS
  <2>1. CASE k = 1
    BY <1>6, <2>1 DEF b
  <2>2. CASE k # 1
    <3>1. k - 1 \in 1 .. n /\ k - 1 \in 1 .. len /\ (k - 1) - 1 \in 0 .. n /\ (k - 1) + 1 = k
      BY <2>2
    <3>2. h[(k - 1) - 1] \in X
      BY <1>6, <3>1
    <3>3. h[k - 1] = F[<<k - 1, h[(k - 1) - 1]>>]
      BY <1>6, <3>1
    <3>4. F[<<k - 1, h[(k - 1) - 1]>>] = Innermost((k - 1) + 1, h[(k - 1) - 1])
      BY <1>2, <3>1, <3>2
    <3>5. a[k - 1] = h[(k - 1) - 1]
      BY <3>1
    <3> HIDE DEF a
    <3> QED
      BY <2>2, <3>1, <3>3, <3>4, <3>5
  <2> QED
    BY <2>1, <2>2
<1> DEFINE c == CHOOSE g : g = [k \in 1 .. len |-> Step(g, k)]
<1>8. c = [k \in 1 .. len |-> Step(c, k)]
  <2> HIDE DEF Step, a
  <2> QED
    BY <1>7
<1>9. Caller = c
  BY DEF Caller, Innermost, L
<1> HIDE DEF c
<1>10. Caller[1] = L + 1
  BY <1>8, <1>9
<1>11. \A k \in 2 .. len : Caller[k] = Innermost(k, Caller[k - 1])
  <2> TAKE k \in 2 .. len
  <2>1. k \in 1 .. len /\ k # 1
    OBVIOUS
  <2> QED
    BY <1>8, <1>9, <2>1
<1>12. \A k \in 1 .. len : Caller[k] \in 0 .. L + 1
  <2> DEFINE S == {k \in Nat : k \in 1 .. len => Caller[k] \in 0 .. L + 1}
  <2>1. \A i \in 0 .. len : i \in S
    <3>1. 0 \in S
      OBVIOUS
    <3>2. ASSUME NEW i \in 1 .. len, i - 1 \in S PROVE i \in S
      <4>1. CASE i = 1
        BY <1>10, <4>1
      <4>2. CASE i # 1
        <5>1. i \in 2 .. len /\ i - 1 \in 1 .. len
          BY <4>2
        <5>2. Caller[i - 1] \in 0 .. L + 1
          BY <3>2, <5>1
        <5>3. Innermost(i, Caller[i - 1]) \in 0 .. L + 1
          <6> PICK x \in 0 .. L + 1 : x = Caller[i - 1]
            BY <5>2
          <6> QED
            BY InnermostIs
        <5> QED
          BY <1>11, <5>1, <5>3
      <4> QED
        BY <4>1, <4>2
    <3>3. S \in SUBSET Nat
      OBVIOUS
    <3> HIDE DEF S
    <3> QED
      BY <3>1, <3>2, <3>3, UpTo
  <2> QED
    BY <2>1
<1> QED
  BY <1>10, <1>11, <1>12

\* FramesAreReal: whichever of the three readers found it, a frame of the walk is a caller
\* farther out than the one before, and its valid registers are those with which its callee
\* would have returned.
THEOREM ReportedFramesAreReal == Spec => []FramesAreReal
<1>1. ProgramOK /\ StackInv /\ WalkInv => FramesAreReal
  <2> SUFFICES ASSUME ProgramOK, StackInv, WalkInv PROVE FramesAreReal
    OBVIOUS
  <2>1. PICK lv \in [1 .. depth -> 2 .. L + 1] : IsWalk(lv)
    BY DEF WalkInv
  <2>2. depth \in Nat /\ depth = Len(walked) /\ L \in Nat
    <3>1. depth \in Nat /\ walked = [k \in 1 .. depth |-> walked[k]]
      BY DEF WalkInv
    <3> QED
      BY <3>1, Appended, StackFacts
  <2>3. CASE depth = 0
    <3>1. \A k : k \notin 2 .. Len(walked)
      BY <2>2, <2>3
    <3> QED
      BY <3>1 DEF FramesAreReal
  <2>4. CASE depth >= 1
    <3>1. /\ Caller[1] = L + 1
          /\ \A k \in 2 .. depth : Caller[k] = Innermost(k, Caller[k - 1])
          /\ \A k \in 1 .. depth : Caller[k] \in 0 .. L + 1
      BY <2>2, <2>4, CallerIs
    <3>2. ASSUME NEW k \in 2 .. depth PROVE lv[k] \in 2 .. L /\ lv[k] < lv[k - 1] /\ IsCaller(walked[k], lv[k])
      <4>1. k \in 1 .. depth /\ k - 1 \in 1 .. depth
        BY <2>2
      <4>2. lv[k] < lv[k - 1]
        BY <2>1 DEF IsWalk
      <4>3. lv[k] \in 2 .. L
        BY <2>1, <2>2, <4>1, <4>2
      <4>4. Fits(walked[k], Level(lv[k]))
        BY <2>1, <4>1 DEF IsWalk
      <4>5. Level(lv[k]) = callers[lv[k]]
        <5> PICK l \in 1 .. L : l = lv[k]
          BY <2>2, <4>3
        <5> QED
          BY StackFacts
      <4> QED
        BY <4>2, <4>3, <4>4, <4>5 DEF Fits, IsCaller
    <3> DEFINE S == {k \in Nat : k \in 1 .. depth => Caller[k] >= lv[k]}
    <3>3. \A i \in 0 .. depth : i \in S
      <4>1. 0 \in S
        OBVIOUS
      <4>2. ASSUME NEW i \in 1 .. depth, i - 1 \in S PROVE i \in S
        <5>1. CASE i = 1
          <6>1. lv[1] = L + 1
            BY <2>1, <2>2, <2>4 DEF IsWalk
          <6> QED
            BY <2>2, <3>1, <5>1, <6>1
        <5>2. CASE i # 1
          <6>1. i \in 2 .. depth /\ i - 1 \in 1 .. depth
            BY <2>2, <5>2
          <6>2. Caller[i - 1] >= lv[i - 1] /\ lv[i - 1] \in 2 .. L + 1
            BY <2>1, <4>2, <6>1
          <6>3. PICK x \in 0 .. L + 1 : x = Caller[i - 1]
            BY <3>1, <6>1
          <6>4. lv[i] \in 1 .. x - 1 /\ IsCaller(walked[i], lv[i])
            BY <2>2, <3>2, <6>1, <6>2, <6>3
          <6>5. lv[i] <= Innermost(i, x)
            BY <2>2, <6>4, InnermostIs
          <6>6. Caller[i] = Innermost(i, x) /\ Caller[i] \in 0 .. L + 1 /\ lv[i] \in 2 .. L
            BY <3>1, <3>2, <6>1, <6>3
          <6> QED
            BY <2>2, <6>5, <6>6
        <5> QED
          BY <5>1, <5>2
      <4>3. S \in SUBSET Nat
        OBVIOUS
      <4> HIDE DEF S
      <4> QED
        BY <2>2, <4>1, <4>2, <4>3, UpTo
    <3>4. ASSUME NEW k \in 2 .. depth PROVE Caller[k] > 0
      <4>1. k \in 0 .. depth /\ k \in 1 .. depth
        BY <2>2
      <4>2. Caller[k] >= lv[k] /\ Caller[k] \in 0 .. L + 1 /\ lv[k] \in 2 .. L
        BY <3>1, <3>2, <3>3, <4>1
      <4> QED
        BY <2>2, <4>2
    <3> QED
      BY <2>2, <3>4 DEF FramesAreReal
  <2> QED
    BY <2>2, <2>3, <2>4
<1> QED
  BY <1>1, StackStays, WalkStays, PTL

----------------------------------------------------------------------------
(* With unwind information about every function in progress.               *)

LEMMA InfoUnchanged ==
    ASSUME UNCHANGED program
    PROVE  (AllInfo' <=> AllInfo) /\ Described' = Described /\ \A n, f : CallIs(n, f)' <=> CallIs(n, f)
<1>1. UNCHANGED <<arch, functions, layout, regs, mem, callers>>
  BY DEF program
<1>2. L' = L /\ \A n : Level(n)' = Level(n)
  BY <1>1 DEF L, Level
<1>3. Functions' = Functions /\ Registers' = Registers /\ InImage' = InImage
      /\ (\A g : Start(g)' = Start(g) /\ Body(g)' = Body(g) /\ ReturnTo(g)' = ReturnTo(g))
      /\ (\A k : Name(k)' = Name(k))
  BY <1>1, Unchanged
<1>4. \A n, f : CallIs(n, f)' <=> CallIs(n, f)
  BY <1>1, <1>2, <1>3 DEF CallIs, Words, Kept, Low, Base, Used, Pushed, Changed, SavedNames
<1>5. Described' = Described
  BY <1>1, <1>3 DEF Described, HasInfo
<1>6. RunningFunctions' = RunningFunctions
  BY <1>1, <1>3 DEF RunningFunctions
<1>7. AllInfo' <=> AllInfo
  BY <1>1, <1>6 DEF AllInfo, HasInfo
<1> QED
  BY <1>4, <1>5, <1>7

\* The function of a call in progress is described somewhere.
LEMMA RunningIs ==
    ASSUME ProgramOK, StackInv, AllInfo, NEW n \in 1 .. L, NEW f \in Functions, CallIs(n, f)
    PROVE  f \in InImage /\ HasInfo(f) /\ (functions[f].info \in Compact \/ functions[f].info = "dwarf")
<1>1. L \in Nat /\ Len(callers) = L /\ Level(L + 1) = regs /\ \A k \in 1 .. L : Level(k) = callers[k]
  BY StackFacts DEF L
<1>2. f \in RunningFunctions
  <2>1. CASE n = L
    BY <1>1, <2>1 DEF CallIs, RunningFunctions
  <2>2. CASE n # L
    <3>1. n + 1 \in 2 .. L /\ n + 1 \in 1 .. L
      BY <1>1, <2>2
    <3>2. callers[n + 1]["IP"] = ReturnTo(f)
      BY <1>1, <2>2, <3>1 DEF CallIs
    <3> QED
      BY <1>1, <3>1, <3>2 DEF RunningFunctions
  <2> QED
    BY <2>1, <2>2
<1>3. HasInfo(f) /\ IsFunction(functions[f])
  BY <1>2, ProgramFacts DEF AllInfo
<1> QED
  BY <1>3 DEF HasInfo, IsFunction, InImage, Compact

\* The frame of the n-th call, and what is known of it.
LEMMA Covered ==
    ASSUME ProgramOK, StackInv, WalkInv, CompleteInv, AllInfo, depth > 0
    PROVE  /\ L + 1 - depth \in 1 .. L /\ (L + 1 - depth) + 1 = L + 2 - depth /\ Full(frame)
           /\ L \in Nat /\ depth \in Nat
           /\ \E f \in Functions : CallIs(L + 1 - depth, f)
           /\ \A f \in Functions : CallIs(L + 1 - depth, f) =>
                 FrameOf(L + 1 - depth, f, callers[L + 1 - depth], Level(L + 2 - depth), frame)
<1>1. depth <= L /\ Fits(frame, Level(L + 2 - depth)) /\ Full(frame)
  BY DEF CompleteInv
<1>2. L \in Nat /\ depth \in Nat
  BY StackFacts DEF WalkInv
<1>3. PICK n : n = L + 1 - depth
  OBVIOUS
<1>4. n \in 1 .. L /\ n + 1 = L + 2 - depth
  BY <1>1, <1>2, <1>3
<1>5. \E f \in Functions : CallIs(n, f)
  BY <1>4 DEF StackInv
<1>6. \A f \in Functions : CallIs(n, f) => FrameOf(n, f, callers[n], Level(L + 2 - depth), frame)
  BY <1>1, <1>4 DEF FrameOf
<1> QED
  BY <1>1, <1>2, <1>3, <1>4, <1>5, <1>6

LEMMA TakeKeepsComplete ==
    ASSUME ProgramOK, StackInv, WalkInv, CompleteInv, AllInfo, depth > 0, result = "ESUCCESS",
           UNCHANGED program, NEW read, Finds(read, callers[L + 1 - depth]), takeFrame(read.state)
    PROVE  CompleteInv'
<1> DEFINE st == read.state
<1>0. PICK n : n = L + 1 - depth
  OBVIOUS
<1>1. n \in 1 .. L /\ n + 1 = L + 2 - depth /\ L \in Nat /\ depth \in Nat /\ Full(frame)
  BY <1>0, Covered
<1>2. L' = L /\ (\A k : Level(k)' = Level(k)) /\ Registers' = Registers /\ arch' = arch
  BY StackUnchanged DEF program, Registers
<1>3. Fits(st, callers[n]) /\ "IP" \in DOMAIN st /\ Full(st)
  BY <1>0, <1>1 DEF Finds
<1>4. Level(n) = callers[n] /\ n \in 1 .. L + 1
  BY <1>1, StackFacts
<1>5. st["IP"] = Level(n)["IP"]
  BY <1>3, <1>4 DEF Fits
<1>6. IF n = 1 THEN st["IP"] = 0 ELSE st["IP"] > PageSize
  BY <1>4, <1>5, LevelIs
<1>7. Fits(st, Level(n))
  BY <1>3, <1>4
<1>8. Fits(frame, Level(n + 1))
  BY <1>1 DEF CompleteInv
<1> HIDE DEF st
<1>9. reader' = "none"
  BY DEF takeFrame, st
<1>10. CASE /\ has_reg(st, "IP") /\ get_reg(st, "IP") > PageSize
            /\ prev_frame' = frame /\ frame' = st /\ depth' = depth + 1
            /\ walked' = Append(walked, st) /\ UNCHANGED result
  <2>1. n # 1
    <3>1. PageSize \in Nat
      BY UnwindAssumption
    <3> QED
      BY <1>6, <1>10, <3>1 DEF get_reg
  <2>2. depth' <= L' /\ L' + 2 - depth' = n
    BY <1>0, <1>1, <1>2, <1>10, <2>1
  <2>3. Full(frame)'
    BY <1>2, <1>3, <1>10 DEF Full
  <2>4. Fits(frame', Level(n)')
    BY <1>2, <1>7, <1>10
  <2>5. \A k : k = n => Fits(frame, Level(k))'
    BY <1>2, <2>4 DEF Fits
  <2>6. Fits(frame, Level(L + 2 - depth))'
    BY <2>2, <2>4, <1>2, <1>10, <1>7 DEF Fits, Level
  <2>7. reader' = "none" /\ reader' # "frame_ptr" /\ reader' # "dwarf" /\ result' = "ESUCCESS"
    BY <1>9, <1>10
  <2> QED
    BY <2>2, <2>3, <2>6, <2>7 DEF CompleteInv
<1>11. CASE /\ ~ (has_reg(st, "IP") /\ get_reg(st, "IP") > PageSize)
            /\ result' = "ENOFRAME" /\ UNCHANGED <<depth, frame, prev_frame, walked>>
  <2>1. n = 1
    BY <1>3, <1>6, <1>11 DEF has_reg, get_reg
  <2>2. depth' = L' /\ depth' = depth /\ frame' = frame /\ depth' <= L'
    BY <1>0, <1>1, <1>2, <1>11, <2>1
  <2>3. Full(frame)'
    BY <1>1, <1>2, <2>2 DEF Full
  <2>4. Fits(frame, Level(L + 2 - depth))'
    BY <1>1, <1>2, <1>8, <2>2 DEF Fits, Level, program
  <2>5. reader' = "none" /\ reader' # "frame_ptr" /\ reader' # "dwarf" /\ result' = "ENOFRAME"
    BY <1>9, <1>11
  <2> QED
    BY <2>2, <2>3, <2>4, <2>5 DEF CompleteInv
<1> QED
  BY <1>10, <1>11 DEF takeFrame, st

\* A step that leaves the frame as it is.
LEMMA SameFrame ==
    ASSUME ProgramOK, StackInv, WalkInv, CompleteInv, AllInfo, depth > 0,
           UNCHANGED program, UNCHANGED <<depth, frame>>, result' = "ESUCCESS", reader' # "frame_ptr",
           reader' = "dwarf" => \A f \in Functions : CallIs(L + 1 - depth, f) => f \in Described
    PROVE  CompleteInv'
<1>1. L' = L /\ (\A k : Level(k)' = Level(k)) /\ Registers' = Registers /\ Functions' = Functions
      /\ arch' = arch
  BY StackUnchanged DEF program, Registers, Functions
<1>2. Described' = Described /\ \A n, f : CallIs(n, f)' <=> CallIs(n, f)
  BY InfoUnchanged
<1>3. PICK n : n = L + 1 - depth
  OBVIOUS
<1>4. depth <= L /\ Fits(frame, Level(L + 2 - depth)) /\ Full(frame)
  BY DEF CompleteInv
<1>5. depth' <= L' /\ Full(frame)'
  BY <1>1, <1>4 DEF Full
<1>6. Fits(frame, Level(L + 2 - depth))'
  BY <1>1, <1>4 DEF Fits, Level, program
<1>7. reader' = "dwarf" => \A f \in Functions : CallIs(n, f)' => f \in Described'
  BY <1>2, <1>3
<1>8. L' + 1 - depth' = n
  BY <1>1, <1>3
<1>9. (reader = "dwarf" => \A f \in Functions : CallIs(L + 1 - depth, f) => f \in Described)'
  <2> SUFFICES ASSUME reader' = "dwarf", NEW f \in Functions, CallIs(L + 1 - depth, f)' PROVE f \in Described'
    BY <1>1
  <2>1. (L + 1 - depth)' = n
    BY <1>8
  <2>2. CallIs(n, f)'
    BY <2>1 DEF CallIs, Words, Kept, Level
  <2> QED
    BY <1>7, <2>2
<1> QED
  BY <1>5, <1>6, <1>9 DEF CompleteInv

LEMMA ReadKeepsComplete ==
    ASSUME ProgramOK, StackInv, WalkInv, CompleteInv, AllInfo, depth > 0, next_with_readers
    PROVE  CompleteInv'
<1>1. PICK n : n = L + 1 - depth
  OBVIOUS
<1>2. n \in 1 .. L /\ n + 1 = L + 2 - depth /\ Full(frame)
      /\ (\E f \in Functions : CallIs(n, f))
      /\ \A f \in Functions : CallIs(n, f) => FrameOf(n, f, callers[n], Level(n + 1), frame)
  BY <1>1, Covered
<1>3. \A f \in Functions : CallIs(n, f) => f \in InImage /\ HasInfo(f)
         /\ (functions[f].info \in Compact \/ functions[f].info = "dwarf")
  BY <1>2, RunningIs
<1>4. reader \in {"compact", "dwarf", "frame_ptr"} /\ result = "ESUCCESS" /\ UNCHANGED program
  <2>1. reader \in {"compact", "dwarf", "frame_ptr"} /\ UNCHANGED program
    BY DEF next_with_readers, tryReader
  <2> QED
    BY <2>1 DEF WalkInv
<1>5. reader # "frame_ptr"
  BY DEF CompleteInv
<1>6. CASE tryReader("compact", read_compact_unwind, "dwarf")
  <2>1. CASE Succeeded(read_compact_unwind) /\ takeFrame(read_compact_unwind.state)
    <3>1. PICK f \in Functions : FrameOf(n, f, callers[n], Level(n + 1), frame)
      BY <1>2
    <3>2. Finds(read_compact_unwind, callers[n])
      BY <2>1, <3>1, CompactReads
    <3> QED
      BY <1>1, <1>4, <2>1, <3>2, TakeKeepsComplete
  <2>2. CASE /\ ~ Succeeded(read_compact_unwind) /\ reader' = "dwarf" /\ result' = result
             /\ UNCHANGED <<depth, frame, prev_frame, walked>>
    <3>1. ASSUME NEW f \in Functions, CallIs(n, f) PROVE f \in Described
      <4>1. FrameOf(n, f, callers[n], Level(n + 1), frame)
        BY <1>2, <3>1
      <4>2. ~ (layout.unwind_info /\ functions[f].info \in Compact)
        BY <1>2, <2>2, <4>1, CompactReads
      <4>3. f \in InImage /\ HasInfo(f) /\ (functions[f].info \in Compact \/ functions[f].info = "dwarf")
        BY <1>3, <3>1
      <4> QED
        BY <4>2, <4>3 DEF Described
    <3> QED
      BY <1>1, <1>4, <2>2, <3>1, SameFrame
  <2> QED
    BY <1>6, <2>1, <2>2 DEF tryReader
<1>7. CASE tryReader("dwarf", read_dwarf_unwind, "frame_ptr")
  <2>1. reader = "dwarf"
    BY <1>7 DEF tryReader
  <2>2. PICK f \in Functions : CallIs(n, f)
    BY <1>2
  <2>3. FrameOf(n, f, callers[n], Level(n + 1), frame) /\ f \in Described
    BY <1>1, <1>2, <2>1, <2>2 DEF CompleteInv
  <2>4. Succeeded(read_dwarf_unwind) /\ Finds(read_dwarf_unwind, callers[n])
    BY <1>2, <2>3, DwarfReads
  <2>5. takeFrame(read_dwarf_unwind.state)
    BY <1>7, <2>4 DEF tryReader
  <2> QED
    BY <1>1, <1>4, <2>4, <2>5, TakeKeepsComplete
<1>8. CASE tryReader("frame_ptr", read_frame_ptr, "none")
  BY <1>5, <1>8 DEF tryReader
<1> QED
  BY <1>6, <1>7, <1>8 DEF next_with_readers

LEMMA CompleteStays == Spec => []CompleteInv
<1>1. Init => CompleteInv
  BY InitWalk
<1>2. ProgramOK /\ StackInv /\ WalkInv /\ CompleteInv /\ [Next]_vars => CompleteInv'
  <2> SUFFICES ASSUME ProgramOK, StackInv, WalkInv, CompleteInv, [Next]_vars PROVE CompleteInv'
    OBVIOUS
  <2>1. ASSUME NEW f \in Functions, Call(f) PROVE CompleteInv'
    BY <2>1, CallKeepsWalk
  <2>2. CASE crash
    <3>1. depth = 0 /\ depth' = depth
      BY <2>2 DEF crash, WalkInv
    <3> QED
      BY <3>1 DEF CompleteInv
  <2>3. CASE firstFrame
    <3>1. /\ result = "ESUCCESS" /\ reader = "none" /\ depth = 0 /\ depth' = 1
          /\ UNCHANGED <<program, frame, reader, result>>
      BY <2>3 DEF firstFrame
    <3>2. frame = regs /\ L >= 1
      BY <3>1 DEF WalkInv
    <3>3. L \in Nat /\ Level(L + 1) = regs /\ regs \in [Registers -> Int] /\ "IP" \in Registers
      BY StackFacts DEF StackInv
    <3>4. Full(regs) /\ Fits(regs, Level(L + 1))
      BY <3>3, NonvolatilesAre DEF Full, Fits, ProgramOK
    <3>5. L' = L /\ (\A k : Level(k)' = Level(k)) /\ Registers' = Registers /\ arch' = arch /\ regs' = regs
      BY <3>1, StackUnchanged DEF program, Registers
    <3>6. L' + 2 - depth' = L + 1 /\ depth' <= L'
      BY <3>1, <3>2, <3>3, <3>5
    <3>7. Full(frame)'
      BY <3>1, <3>2, <3>4, <3>5 DEF Full
    <3>8. Fits(frame, Level(L + 2 - depth))'
      BY <3>1, <3>2, <3>4, <3>5, <3>6 DEF Fits, Level, program
    <3> QED
      BY <3>1, <3>6, <3>7, <3>8 DEF CompleteInv
  <2>4. ASSUME cursor_next \/ next_with_readers \/ UNCHANGED vars, ~ (AllInfo /\ depth > 0)
        PROVE  CompleteInv'
    <3>1. CASE ~ AllInfo
      <4>1. UNCHANGED program
        BY <2>4, WalkerReads DEF vars
      <4> QED
        BY <3>1, <4>1, InfoUnchanged DEF CompleteInv
    <3>2. CASE ~ (depth > 0)
      <4>1. depth \in Nat /\ reader = "none"
        BY <3>2 DEF WalkInv
      <4>2. UNCHANGED vars
        BY <2>4, <3>2, <4>1 DEF cursor_next, next_with_readers, tryReader
      <4> QED
        BY <3>2, <4>2 DEF vars, cursor, CompleteInv
    <3> QED
      BY <2>4, <3>1, <3>2
  <2>5. CASE AllInfo /\ depth > 0 /\ cursor_next
    BY <2>5, SameFrame DEF cursor_next
  <2>6. CASE AllInfo /\ depth > 0 /\ next_with_readers
    BY <2>6, ReadKeepsComplete
  <2>7. CASE AllInfo /\ depth > 0 /\ UNCHANGED vars
    <3>1. UNCHANGED program /\ UNCHANGED <<depth, frame, reader, result>>
      BY <2>7 DEF vars, cursor
    <3>2. CASE result = "ESUCCESS"
      BY <2>7, <3>1, <3>2, SameFrame DEF CompleteInv
    <3>3. CASE result # "ESUCCESS"
      <4>1. depth <= L /\ Fits(frame, Level(L + 2 - depth)) /\ Full(frame) /\ depth = L /\ result = "ENOFRAME"
            /\ reader # "frame_ptr"
        BY <2>7, <3>3 DEF CompleteInv
      <4>2. reader = "none"
        BY <3>3 DEF WalkInv
      <4>3. L' = L
        BY <3>1, StackUnchanged
      <4>4. Full(frame)' /\ depth' <= L' /\ depth' = L'
        BY <3>1, <4>1, <4>3 DEF Full, program
      <4>5. Fits(frame, Level(L + 2 - depth))'
        BY <3>1, <4>1, <4>3 DEF Fits, Level, program, Registers
      <4> QED
        BY <3>1, <4>1, <4>2, <4>4, <4>5 DEF CompleteInv
    <3> QED
      BY <3>2, <3>3
  <2> QED
    BY <2>1, <2>2, <2>3, <2>4, <2>5, <2>6, <2>7 DEF Next
<1> QED
  BY <1>1, <1>2, StackStays, WalkStays, PTL DEF Spec

\* NoFrameIsMissing: where the compact or the frame section describes every function in
\* progress, the walk leaves no frame out and ends at the outermost function.
THEOREM WalksAreComplete == Spec => []NoFrameIsMissing
<1>1. ProgramOK /\ StackInv /\ WalkInv /\ CompleteInv => NoFrameIsMissing
  <2> SUFFICES ASSUME ProgramOK, StackInv, WalkInv, CompleteInv,
                      result \notin {"running", "ESUCCESS"}, AllInfo
               PROVE  Len(walked) = Len(callers) /\ result = "ENOFRAME"
    BY DEF NoFrameIsMissing, AllInfo
  <2>1. depth \in Nat /\ depth # 0 /\ walked = [k \in 1 .. depth |-> walked[k]]
    BY DEF WalkInv
  <2>2. Len(walked) = depth
    BY <2>1, Appended
  <2>3. depth = L /\ result = "ENOFRAME"
    BY <2>1 DEF CompleteInv
  <2> QED
    BY <2>2, <2>3 DEF L
<1> QED
  BY <1>1, StackStays, WalkStays, CompleteStays, PTL
=============================================================================
