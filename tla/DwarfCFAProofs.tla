---------------------------- MODULE DwarfCFAProofs ----------------------------
(***************************************************************************)
(* The table of register rules is a set of disjoint lists in one array, at *)
(* every step of every CFA program, an iteration over it is complete, and  *)
(* each opcode does to the rows what DwarfRows says: for any entries,      *)
(* buckets and saved states.                                               *)
(***************************************************************************)
EXTENDS DwarfCFA, FiniteSetTheorems, NaturalsInduction, WellFoundedInduction, TLAPS

\* Nil is not an index.
LEMMA NilIsNoIndex == Nil \notin Indexes /\ IsFiniteSet(Indexes)
<1>1. IsFiniteSet(0 .. MaxRegisters - 1)
  BY FS_Interval, CFAAssumption
<1> QED
  BY <1>1, CFAAssumption DEF Nil, Indexes

----------------------------------------------------------------------------
(* What Reach is: the least set with e that next does not lead out of.     *)

Nexts == [Indexes -> Indexes \cup {Nil}]
Closed(next, S) == \A y \in S : next[y] \in S \cup {Nil}

\* It is a part of every such set.
LEMMA ReachIsLeast ==
    ASSUME NEW next, NEW e, NEW S \in SUBSET Indexes, e \in S \cup {Nil}, Closed(next, S)
    PROVE  Reach(next, e) \subseteq S
BY DEF Reach, Closed

\* It is a set of indexes, nothing if e is Nil.
LEMMA ReachIndexes ==
    ASSUME NEW next, NEW e
    PROVE  Reach(next, e) \subseteq Indexes /\ Reach(next, Nil) = {}
<1>1. Reach(next, e) \subseteq Indexes
  BY DEF Reach
<1>2. Reach(next, Nil) \subseteq {}
  <2>1. {} \in SUBSET Indexes /\ Nil \in {} \cup {Nil} /\ Closed(next, {})
    BY DEF Closed
  <2> QED
    BY <2>1, ReachIsLeast
<1> QED
  BY <1>1, <1>2

\* It holds e, and with an index the next one.
LEMMA ReachHolds ==
    ASSUME NEW next \in Nexts, NEW e \in Indexes
    PROVE  e \in Reach(next, e) /\ Closed(next, Reach(next, e))
<1>n. Nil \notin Indexes
  BY NilIsNoIndex
<1>1. e \in Reach(next, e)
  BY <1>n DEF Reach
<1>2. ASSUME NEW y \in Reach(next, e), next[y] # Nil PROVE next[y] \in Reach(next, e)
  <2>1. next[y] \in Indexes
    BY <1>2, ReachIndexes DEF Nexts
  <2>2. ASSUME NEW S \in SUBSET Indexes, e \in S \cup {Nil}, \A z \in S : next[z] \in S \cup {Nil}
        PROVE  next[y] \in S
    BY <1>2, <2>2 DEF Reach
  <2> QED
    BY <2>1, <2>2 DEF Reach
<1> QED
  BY <1>1, <1>2 DEF Closed

\* What it holds but e, it holds together with one that leads to it.
LEMMA ReachHasParents ==
    ASSUME NEW next \in Nexts, NEW e \in Indexes \cup {Nil}, NEW x \in Reach(next, e), x # e
    PROVE  \E y \in Reach(next, e) : y # x /\ next[y] = x
<1> DEFINE R == Reach(next, e)
<1>1. SUFFICES ASSUME \A y \in R : y # x => next[y] # x PROVE FALSE
  OBVIOUS
<1>2. e \in Indexes
  BY ReachIndexes
<1>3. e \in R /\ Closed(next, R) /\ R \subseteq Indexes
  BY <1>2, ReachHolds, ReachIndexes
<1>4. R \ {x} \in SUBSET Indexes /\ e \in (R \ {x}) \cup {Nil} /\ Closed(next, R \ {x})
  BY <1>1, <1>3 DEF Closed
<1>5. R \subseteq R \ {x}
  BY <1>4, ReachIsLeast
<1> QED
  BY <1>5

\* Where next is the same, it is the same.
LEMMA ReachUnchanged ==
    ASSUME NEW next \in Nexts, NEW other \in Nexts, NEW e \in Indexes \cup {Nil},
           \A x \in Reach(next, e) : other[x] = next[x]
    PROVE  Reach(other, e) = Reach(next, e)
<1>1. CASE e = Nil
  BY <1>1, ReachIndexes
<1>2. CASE e \in Indexes
  <2> DEFINE R == Reach(next, e)
             O == Reach(other, e)
  <2>1. e \in R /\ Closed(next, R) /\ R \subseteq Indexes
    BY <1>2, ReachHolds, ReachIndexes
  <2>2. e \in O /\ Closed(other, O) /\ O \subseteq Indexes
    BY <1>2, ReachHolds, ReachIndexes
  <2>3. Closed(other, R)
    BY <2>1 DEF Closed
  <2>4. O \subseteq R
    BY <2>1, <2>3, ReachIsLeast
  <2>5. Closed(next, O)
    BY <2>2, <2>4 DEF Closed
  <2>6. R \subseteq O
    BY <2>2, <2>5, ReachIsLeast
  <2> QED
    BY <2>4, <2>6
<1> QED
  BY <1>1, <1>2

\* After e comes what its next leads to.
LEMMA ReachFromNext ==
    ASSUME NEW next \in Nexts, NEW e \in Indexes
    PROVE  Reach(next, e) = {e} \cup Reach(next, next[e])
<1> DEFINE R == Reach(next, e)
           N == Reach(next, next[e])
<1>1. e \in R /\ Closed(next, R) /\ R \subseteq Indexes
  BY ReachHolds, ReachIndexes
<1>2. N \subseteq R
  BY <1>1, ReachIsLeast DEF Closed
<1>3. Closed(next, {e} \cup N) /\ {e} \cup N \in SUBSET Indexes
  <2>1. CASE next[e] = Nil
    BY <2>1, ReachIndexes DEF Closed
  <2>2. CASE next[e] \in Indexes
    <3>1. next[e] \in N /\ Closed(next, N)
      BY <2>2, ReachHolds
    <3> QED
      BY <3>1, ReachIndexes DEF Closed
  <2> QED
    BY <2>1, <2>2 DEF Nexts
<1>4. R \subseteq {e} \cup N
  BY <1>3, ReachIsLeast
<1> QED
  BY <1>1, <1>2, <1>4

\* A list with an entry of its own for each, to whose first none leads, has an end.
LEMMA ListsEnd ==
    ASSUME NEW next \in Nexts, NEW e \in Indexes,
           \A x, y \in Indexes : next[x] = next[y] /\ next[x] # Nil => x = y,
           \A x \in Indexes : next[x] # e
    PROVE  \E x \in Reach(next, e) : next[x] = Nil
<1> DEFINE R == Reach(next, e)
<1>1. SUFFICES ASSUME \A x \in R : next[x] # Nil PROVE FALSE
  OBVIOUS
<1>2. e \in R /\ Closed(next, R) /\ R \subseteq Indexes
  BY ReachHolds, ReachIndexes
<1>3. IsFiniteSet(R) /\ IsFiniteSet(R \ {e})
  BY <1>2, NilIsNoIndex, FS_Subset
<1> DEFINE f == [x \in R |-> next[x]]
<1>4. f \in [R -> R \ {e}]
  BY <1>1, <1>2 DEF Closed
<1>5. \A x, y \in R : x # y => f[x] # f[y]
  BY <1>1, <1>2
<1>6. Cardinality(R \ {e}) < Cardinality(R)
  <2>1. R \ {e} \subseteq R /\ R \ {e} # R
    BY <1>2
  <2> QED
    BY <2>1, <1>3, FS_Subset, FS_CardinalityType
<1>7. \E x, y \in R : x # y /\ f[x] = f[y]
  <2> HIDE DEF f, R
  <2> QED
    BY <1>3, <1>4, <1>6, FS_PigeonHole
<1> QED
  BY <1>5, <1>7

\* An entry that its end is made to lead to becomes its new end.
LEMMA ReachAppended ==
    ASSUME NEW next \in Nexts, NEW other \in Nexts, NEW e \in Indexes,
           NEW f \in Indexes \ Reach(next, e), NEW p \in Reach(next, e),
           next[p] = Nil, other[p] = f, other[f] = Nil,
           \A x \in Reach(next, e) \ {p} : other[x] = next[x]
    PROVE  Reach(other, e) = Reach(next, e) \cup {f}
<1> DEFINE R == Reach(next, e)
           O == Reach(other, e)
<1>1. e \in R /\ Closed(next, R) /\ R \subseteq Indexes
  BY ReachHolds, ReachIndexes
<1>2. e \in O /\ Closed(other, O) /\ O \subseteq Indexes
  BY ReachHolds, ReachIndexes
<1>3. Closed(other, R \cup {f}) /\ R \cup {f} \in SUBSET Indexes
  BY <1>1 DEF Closed
<1>4. O \subseteq R \cup {f}
  BY <1>1, <1>3, ReachIsLeast
<1>5. Closed(next, O \ {f}) /\ O \ {f} \in SUBSET Indexes
  BY <1>1, <1>2, <1>4 DEF Closed
<1>6. R \subseteq O \ {f}
  BY <1>1, <1>2, <1>5, ReachIsLeast
<1>7. f \in O
  BY <1>2, <1>6, NilIsNoIndex DEF Closed
<1> QED
  BY <1>4, <1>6, <1>7

\* An entry that the one before it is made to skip is taken out.
LEMMA ReachRemoved ==
    ASSUME NEW next \in Nexts, NEW other \in Nexts, NEW e \in Indexes,
           NEW x \in Reach(next, e), NEW p \in Reach(next, e), x # e, p # x, next[p] = x,
           \A y \in Reach(next, e) : next[y] = x => y = p,
           other[p] = next[x],
           \A y \in Reach(next, e) \ {p, x} : other[y] = next[y]
    PROVE  Reach(other, e) = Reach(next, e) \ {x}
<1> DEFINE R == Reach(next, e)
           O == Reach(other, e)
<1>1. e \in R /\ Closed(next, R) /\ R \subseteq Indexes
  BY ReachHolds, ReachIndexes
<1>2. e \in O /\ Closed(other, O) /\ O \subseteq Indexes
  BY ReachHolds, ReachIndexes
<1>3. Closed(other, R \ {x}) /\ R \ {x} \in SUBSET Indexes
  BY <1>1 DEF Closed
<1>4. O \subseteq R \ {x}
  BY <1>1, <1>3, ReachIsLeast
<1>5. p \in O
  <2>1. SUFFICES ASSUME p \notin O PROVE FALSE
    OBVIOUS
  <2>2. Closed(next, O)
    BY <1>2, <1>4, <2>1 DEF Closed
  <2>3. R \subseteq O
    BY <1>2, <2>2, ReachIsLeast
  <2> QED
    BY <2>1, <2>3
<1>6. Closed(next, O \cup {x}) /\ O \cup {x} \in SUBSET Indexes
  BY <1>1, <1>2, <1>4, <1>5 DEF Closed
<1>7. R \subseteq O \cup {x}
  BY <1>2, <1>6, ReachIsLeast
<1> QED
  BY <1>4, <1>7

\* Without its first entry, to which none leads, it is what that leads to.
LEMMA ReachWithoutFirst ==
    ASSUME NEW next \in Nexts, NEW e \in Indexes, \A x \in Indexes : next[x] # e
    PROVE  Reach(next, next[e]) = Reach(next, e) \ {e}
<1>1. Reach(next, e) = {e} \cup Reach(next, next[e])
  BY ReachFromNext
<1>2. Closed(next, Indexes \ {e}) /\ next[e] \in (Indexes \ {e}) \cup {Nil}
  BY DEF Closed, Nexts
<1>3. Reach(next, next[e]) \subseteq Indexes \ {e}
  BY <1>2, ReachIsLeast
<1> QED
  BY <1>1, <1>3

\* Of the entries found in it there is a first one, from which all are reached.
LEMMA FirstFound ==
    ASSUME NEW next \in Nexts, NEW e \in Indexes \cup {Nil},
           NEW found \in SUBSET Reach(next, e), found # {}
    PROVE  \E x \in found : found \subseteq Reach(next, x)
<1>1. SUFFICES ASSUME \A x \in found : ~ (found \subseteq Reach(next, x)) PROVE FALSE
  OBVIOUS
<1> DEFINE S == {y \in Indexes : found \subseteq Reach(next, y)}
<1>2. e \in S
  BY ReachIndexes
<1>3. ASSUME NEW y \in S PROVE next[y] \in S \cup {Nil}
  <2>1. y \notin found
    BY <1>1, <1>3
  <2>2. found \subseteq Reach(next, next[y])
    BY <1>3, <2>1, ReachFromNext
  <2> QED
    BY <2>2 DEF Nexts
<1>4. Reach(next, e) \subseteq S
  BY <1>2, <1>3, ReachIsLeast DEF Closed
<1>5. PICK x \in found : TRUE
  OBVIOUS
<1> QED
  BY <1>1, <1>4, <1>5

----------------------------------------------------------------------------
(* The types of the table's parts.                                         *)

States == [table : [Slots -> Indexes \cup {Nil}], count : 0 .. CountSize - 1, cfa : CfaRules]

StateTypes ==
    /\ stack \in Seq(States)
    /\ Len(stack) \in 1 .. MaxStates
    /\ free \in Indexes \cup {Nil}
    /\ entries \in [Indexes -> [reg : Registers, rule : Rules \cup {NoRule},
                                next : Indexes \cup {Nil}]]

OtherTypes ==
    /\ initial \in [Registers -> Rules \cup {NoRule}]
    /\ program \in {"cie", "fde"}
    /\ pc \in 1 .. LastLocation
    /\ location \in 0 .. LastLocation + 1
    /\ step \in {"start", "read", "remove", "ESUCCESS", "failed"}
    /\ rm \in [reg : Registers, entry : Indexes \cup {Nil}]

\* The invariant of the three variables that the table consists of.
TableInv ==
    /\ StateTypes
    /\ OneParent /\ HeadsHaveNone
    /\ \E level \in LevelsOf : Belongs(level)

LEMMA SplitInv == IndInv <=> TableInv /\ OtherTypes /\ RemovedIsFree
BY DEF IndInv, TypeOK, States, StateTypes, OtherTypes, TableInv

LEMMA JoinInv == TableInv' /\ OtherTypes' /\ RemovedIsFree' => IndInv'
BY DEF IndInv, TypeOK, States, StateTypes, OtherTypes, TableInv

\* What a count becomes is a count.
LEMMA CountsWrap == \A n \in Int : n % CountSize \in 0 .. CountSize - 1
<1>1. CountSize \in Nat /\ CountSize > 0
  BY CFAAssumption
<1>2. ASSUME NEW n \in Int, NEW k \in Nat, k > 0 PROVE n % k \in 0 .. k - 1
  BY <1>2, SMT
<1> QED
  BY <1>1, <1>2

LEMMA BucketsAreSlots == \A r \in Registers : Bucket(r) \in Slots
<1>1. Buckets \in Nat /\ Buckets > 0 /\ Registers \subseteq Nat
  BY CFAAssumption
<1>2. ASSUME NEW n \in Int, NEW k \in Nat, k > 0 PROVE n % k \in 0 .. k - 1
  BY <1>2, SMT
<1> QED
  BY <1>1, <1>2 DEF Bucket, Slots

\* What the types say of the parts.
LEMMA Parts ==
    ASSUME StateTypes
    PROVE  /\ depth \in 1 .. MaxStates /\ depth \in DOMAIN stack
           /\ Links \in Nexts
           /\ \A e \in Indexes : /\ Links[e] = entries[e].next
                                 /\ entries[e].next \in Indexes \cup {Nil}
                                 /\ entries[e].reg \in Registers
           /\ \A d \in 1 .. depth : /\ DOMAIN stack[d].table = Slots
                                    /\ stack[d].count \in 0 .. CountSize - 1
                                    /\ stack[d].cfa \in CfaRules
           /\ \A d \in 1 .. depth, b \in Slots : stack[d].table[b] \in Indexes \cup {Nil}
<1>1. depth \in 1 .. MaxStates /\ depth \in DOMAIN stack
  BY CFAAssumption DEF StateTypes, depth
<1>2. \A e \in Indexes : /\ Links[e] = entries[e].next
                         /\ entries[e].next \in Indexes \cup {Nil}
                         /\ entries[e].reg \in Registers
  BY DEF StateTypes, Links
<1>3. Links \in Nexts
  BY <1>2 DEF Links, Nexts
<1>4. \A d \in 1 .. depth : stack[d] \in States
  <2>1. stack \in Seq(States) /\ DOMAIN stack = 1 .. depth
    BY DEF StateTypes, depth
  <2> QED
    BY <2>1 DEF depth
<1>5. \A s \in States : /\ s.table \in [Slots -> Indexes \cup {Nil}]
                       /\ s.count \in 0 .. CountSize - 1
                       /\ s.cfa \in CfaRules
  BY DEF States
<1> QED
  BY <1>1, <1>2, <1>3, <1>4, <1>5

\* Nothing leads to where a list begins.
LEMMA NoneBeforeHeads ==
    ASSUME StateTypes, HeadsHaveNone, NEW h \in Heads \cap Indexes
    PROVE  \A x \in Indexes : Links[x] # h
BY Parts, NilIsNoIndex DEF HeadsHaveNone

\* Its end can be found.
LEMMA EndFound ==
    ASSUME StateTypes, OneParent, HeadsHaveNone, NEW h \in Heads \cap Indexes
    PROVE  \E x \in Chain(h) : entries[x].next = Nil
<1>1. Links \in Nexts
  BY Parts
<1>2. \A x, y \in Indexes : Links[x] = Links[y] /\ Links[x] # Nil => x = y
  BY Parts DEF OneParent
<1>3. \A x \in Indexes : Links[x] # h
  BY NoneBeforeHeads
<1>4. \E x \in Reach(Links, h) : Links[x] = Nil
  BY <1>1, <1>2, <1>3, ListsEnd
<1> QED
  BY <1>4, Parts, ReachIndexes DEF Chain

\* All of a list belong where its beginning does.
LEMMA ListsBelong ==
    ASSUME StateTypes, NEW level \in LevelsOf, SuccessorsKeep(level), NEW h \in Indexes
    PROVE  \A x \in Chain(h) : /\ level[x] = level[h]
                               /\ level[h] > 0 => Bucket(entries[x].reg) = Bucket(entries[h].reg)
<1> DEFINE S == {x \in Indexes :
                    /\ level[x] = level[h]
                    /\ level[h] > 0 => Bucket(entries[x].reg) = Bucket(entries[h].reg)}
<1>1. h \in S
  OBVIOUS
<1>2. \A y \in S : Links[y] \in S \cup {Nil}
  BY Parts DEF SuccessorsKeep
<1>3. Reach(Links, h) \subseteq S
  BY <1>1, <1>2, ReachIsLeast DEF Closed
<1> QED
  BY <1>3 DEF Chain

\* What it is to change the current state.
Changed(n, b, t) == [stack EXCEPT ![depth].count = n % CountSize, ![depth].table[b] = t]

LEMMA CurrentChanged ==
    ASSUME StateTypes, NEW n \in Int, NEW b \in Slots, NEW t \in Indexes \cup {Nil},
           stack' = Changed(n, b, t)
    PROVE  /\ stack' \in Seq(States) /\ Len(stack') = Len(stack)
           /\ \A d \in 1 .. depth, c \in Slots :
                 stack'[d].table[c] = IF d = depth /\ c = b THEN t ELSE stack[d].table[c]
           /\ \A d \in 1 .. depth : stack'[d].cfa = stack[d].cfa
<1> DEFINE new == [current EXCEPT !.count = n % CountSize, !.table = [current.table EXCEPT ![b] = t]]
<1>1. depth \in 1 .. Len(stack) /\ stack \in Seq(States) /\ current \in States
  BY Parts DEF StateTypes, depth, current
<1>2. new \in States
  <2>1. n % CountSize \in 0 .. CountSize - 1
    BY CountsWrap
  <2>2. [current.table EXCEPT ![b] = t] \in [Slots -> Indexes \cup {Nil}]
    BY <1>1 DEF States
  <2> QED
    BY <1>1, <2>1, <2>2 DEF States
<1>3. stack' = [stack EXCEPT ![depth] = new]
  BY <1>1 DEF current, States, Changed
<1>4. stack' \in Seq(States) /\ Len(stack') = Len(stack)
  <2> HIDE DEF new
  <2> QED
    BY <1>1, <1>2, <1>3
<1>5. /\ \A d \in 1 .. depth, c \in Slots :
            stack'[d].table[c] = IF d = depth /\ c = b THEN t ELSE stack[d].table[c]
      /\ \A d \in 1 .. depth : stack'[d].cfa = stack[d].cfa
  <2>1. DOMAIN stack = 1 .. depth /\ depth \in 1 .. depth
    BY <1>1 DEF depth
  <2>2. stack'[depth] = new /\ \A d \in 1 .. depth : d # depth => stack'[d] = stack[d]
    <3> HIDE DEF new
    <3> QED
      BY <2>1, <1>3
  <2>3. \A c \in Slots : new.table[c] = IF c = b THEN t ELSE stack[depth].table[c]
    BY <1>1 DEF States, current
  <2>4. \A d \in 1 .. depth, c \in Slots : d # depth => stack'[d].table[c] = stack[d].table[c]
    BY <2>2
  <2>6. new.cfa = stack[depth].cfa
    BY <1>1 DEF States, current
  <2>5. \A c \in Slots : stack'[depth].table[c] = IF c = b THEN t ELSE stack[depth].table[c]
    BY <2>2, <2>3
  <2>7. \A d \in 1 .. depth : stack'[d].cfa = stack[d].cfa
    BY <2>2, <2>6
  <2> QED
    BY <2>4, <2>5, <2>7
<1> QED
  BY <1>4, <1>5

\* An entry in the list of a state and a bucket belongs there.
LEMMA ChainBelongs ==
    ASSUME StateTypes, NEW level \in LevelsOf, Belongs(level),
           NEW d \in 1 .. depth, NEW b \in Slots, NEW e \in Chain(stack[d].table[b])
    PROVE  e \in Indexes /\ level[e] = d /\ d > 0 /\ Bucket(entries[e].reg) = b
<1> DEFINE h == stack[d].table[b]
<1>n. Nil \notin Indexes
  BY NilIsNoIndex
<1>1. h \in Indexes
  <2>1. h # Nil
    BY ReachIndexes DEF Chain
  <2> QED
    BY <2>1, Parts
<1>2. level[h] = d /\ Bucket(entries[h].reg) = b
  BY <1>1, <1>n DEF Belongs, HeadsBelong
<1>3. d > 0
  BY Parts
<1>4. e \in Indexes
  BY ReachIndexes DEF Chain
<1> QED
  BY <1>1, <1>2, <1>3, <1>4, ListsBelong DEF Belongs

\* The entries of the free list belong to no state.
LEMMA FreeBelongs ==
    ASSUME StateTypes, NEW level \in LevelsOf, Belongs(level), NEW e \in Chain(free)
    PROVE  e \in Indexes /\ level[e] = 0
<1>1. CASE free = Nil
  BY <1>1, ReachIndexes DEF Chain
<1>2. CASE free # Nil
  <2>1. free \in Indexes /\ level[free] = 0
    BY <1>2 DEF Belongs, HeadsBelong, StateTypes
  <2>2. e \in Indexes
    BY ReachIndexes DEF Chain
  <2> QED
    BY <2>1, <2>2, ListsBelong DEF Belongs
<1> QED
  BY <1>1, <1>2

----------------------------------------------------------------------------
(* A free entry is put to use.                                             *)

ListFor(r) == Chain(current.table[Bucket(r)])

\* What it holds are entries of the current state.
LEMMA ListForBelongs ==
    ASSUME StateTypes, NEW level \in LevelsOf, Belongs(level), NEW r \in Registers
    PROVE  /\ ListFor(r) \subseteq Indexes /\ free \notin ListFor(r)
           /\ \A x \in ListFor(r) : level[x] = depth /\ Bucket(entries[x].reg) = Bucket(r)
<1> DEFINE b == Bucket(r)
           h == current.table[b]
<1>n. Nil \notin Indexes
  BY NilIsNoIndex
<1>t. /\ depth \in 1 .. MaxStates /\ depth > 0 /\ depth \in 1 .. depth
      /\ b \in Slots /\ h \in Indexes \cup {Nil} /\ h = stack[depth].table[b]
  <2>1. depth \in 1 .. depth /\ depth > 0
    BY Parts
  <2> QED
    BY <2>1, Parts, BucketsAreSlots DEF current
<1>1. ListFor(r) \subseteq Indexes /\ (h = Nil => ListFor(r) = {})
  BY ReachIndexes DEF Chain, ListFor
<1>2. \A x \in ListFor(r) : level[x] = depth /\ Bucket(entries[x].reg) = b
  <2>1. CASE h = Nil
    BY <2>1, <1>1
  <2>2. CASE h \in Indexes
    <3>1. level[h] = depth /\ Bucket(entries[h].reg) = b
      BY <2>2, <1>n, <1>t DEF Belongs, HeadsBelong
    <3> QED
      BY <3>1, <2>2, <1>t, ListsBelong DEF Belongs, ListFor
  <2> QED
    BY <2>1, <2>2, <1>t
<1>3. free \notin ListFor(r)
  BY <1>1, <1>2, <1>t, <1>n DEF Belongs, HeadsBelong
<1> QED
  BY <1>1, <1>2, <1>3

\* The free entry gets r's rule and follows parent, or begins the list.
Inserted(r, rule, parent) ==
    /\ free # Nil /\ EntriesFor(current, r) = {}
    /\ ListFor(r) # {} => parent \in ListFor(r) /\ entries[parent].next = Nil
    /\ Len(stack') = Len(stack)
    /\ \A d \in 1 .. depth : stack'[d].cfa = stack[d].cfa
    /\ \A d \in 1 .. depth, c \in Slots :
          stack'[d].table[c] = IF d = depth /\ c = Bucket(r) /\ ListFor(r) = {} THEN free
                               ELSE stack[d].table[c]
    /\ free' = entries[free].next
    /\ \A x \in Indexes :
          /\ entries'[x].next = IF x = free THEN Nil
                                ELSE IF ListFor(r) # {} /\ x = parent THEN free
                                ELSE entries[x].next
          /\ entries'[x].reg = IF x = free THEN r ELSE entries[x].reg
          /\ entries'[x].rule = IF x = free THEN rule ELSE entries[x].rule

LEMMA EntryInserted ==
    ASSUME StateTypes, OneParent, HeadsHaveNone, NEW level \in LevelsOf, Belongs(level),
           NEW r \in Registers, NEW rule, NEW parent, Inserted(r, rule, parent)
    PROVE  /\ OneParent' /\ HeadsHaveNone'
           /\ \E l \in LevelsOf' : Belongs(l)'
<1> USE DEF Inserted
<1> DEFINE b == Bucket(r)
           h == current.table[b]
<1>n. Nil \notin Indexes /\ free \in Indexes
  BY NilIsNoIndex DEF StateTypes
<1>t. /\ depth \in 1 .. MaxStates /\ depth' = depth /\ depth > 0
      /\ \A e \in Indexes : entries[e].next \in Indexes \cup {Nil} /\ Links[e] = entries[e].next
      /\ \A d \in 1 .. depth, c \in Slots : stack[d].table[c] \in Indexes \cup {Nil}
      /\ b \in Slots /\ h \in Indexes \cup {Nil} /\ h = stack[depth].table[b]
  <2>1. depth' = depth
    BY DEF depth
  <2>2. depth \in 1 .. depth /\ depth > 0
    BY Parts
  <2> QED
    BY <2>1, <2>2, Parts, BucketsAreSlots DEF current
<1>c. /\ ListFor(r) \subseteq Indexes /\ (ListFor(r) = {} <=> h = Nil)
      /\ h # Nil => h \in ListFor(r)
  BY <1>t, Parts, ReachHolds, ReachIndexes DEF Chain, ListFor
<1>f. free \in Heads /\ \A d \in 1 .. depth, c \in Slots : stack[d].table[c] \in Heads
  BY DEF Heads
<1>a. \A x \in Indexes : entries[x].next # free
  BY <1>n, <1>f, NoneBeforeHeads, Parts
<1>l. level[free] = 0
  BY DEF Belongs, HeadsBelong
<1>e. \A x \in ListFor(r) : level[x] = depth /\ Bucket(entries[x].reg) = b
  BY ListForBelongs
<1>g. free \notin ListFor(r)
  BY ListForBelongs
<1>1. OneParent'
  BY <1>a, <1>n, <1>t, <1>c, <1>g DEF OneParent
<1>2. HeadsHaveNone'
  <2>1. SUFFICES ASSUME NEW x \in Indexes, entries'[x].next # Nil, entries'[x].next \in Heads'
                 PROVE  FALSE
    BY DEF HeadsHaveNone
  <2>2. \/ entries'[x].next = entries[free].next
        \/ \E d \in 1 .. depth, c \in Slots : entries'[x].next = stack'[d].table[c]
    BY <2>1, <1>t DEF Heads
  <2>3. CASE entries'[x].next = entries[free].next
    <3>1. x # free
      BY <2>1
    <3>2. entries'[x].next = entries[x].next
      BY <2>1, <2>3, <3>1, <1>a, <1>n
    <3>3. entries[x].next = entries[free].next /\ entries[x].next # Nil
      BY <3>2, <2>1, <2>3
    <3>4. x = free
      <4> USE DEF OneParent
      <4> HIDE DEF Inserted
      <4> QED
        BY <3>3, <2>1, <1>n
    <3> QED
      BY <3>1, <3>4
  <2>4. ASSUME NEW d \in 1 .. depth, NEW c \in Slots, entries'[x].next = stack'[d].table[c]
        PROVE  FALSE
    <3>1. CASE stack'[d].table[c] = stack[d].table[c]
      <4>1. stack[d].table[c] # free
        BY <2>1, <2>4, <3>1, <1>l, <1>n, <1>t DEF Belongs, HeadsBelong
      <4>2. entries'[x].next = entries[x].next
        BY <4>1, <2>1, <2>4, <3>1
      <4>3. entries[x].next # Nil /\ entries[x].next = stack[d].table[c]
        BY <4>2, <2>1, <2>4, <3>1
      <4>4. entries[x].next \in Heads
        BY <4>3, <1>f
      <4> HIDE DEF Inserted
      <4> QED
        BY <4>3, <4>4, <2>1 DEF HeadsHaveNone
    <3>2. CASE stack'[d].table[c] = free /\ ListFor(r) = {}
      BY <3>2, <2>1, <2>4, <1>a, <1>n
    <3> QED
      BY <3>1, <3>2
  <2> QED
    BY <2>2, <2>3, <2>4
\* What else claims to be in r's list but cannot be found there belongs nowhere.
<1> DEFINE new == [x \in Indexes |->
                     IF x = free THEN depth
                     ELSE IF level[x] = depth /\ Bucket(entries[x].reg) = b /\ x \notin ListFor(r) THEN -1
                     ELSE level[x]]
<1>3. PICK l : l = new
  OBVIOUS
<1>4. l \in LevelsOf'
  BY <1>t, <1>3 DEF LevelsOf
<1>5. \A x \in Indexes :
         l[x] = IF x = free THEN depth
                ELSE IF level[x] = depth /\ Bucket(entries[x].reg) = b /\ x \notin ListFor(r) THEN -1
                ELSE level[x]
  BY <1>3
<1> HIDE DEF new
<1>6. SuccessorsKeep(l)'
  <2>1. SUFFICES ASSUME NEW x \in Indexes, entries'[x].next # Nil
                 PROVE  /\ l[entries'[x].next] = l[x]
                        /\ l[x] > 0 => Bucket(entries'[entries'[x].next].reg) = Bucket(entries'[x].reg)
    BY DEF SuccessorsKeep, Bucket
  <2>2. x # free
    BY <2>1
  <2>3. CASE entries'[x].next = free
    <3>1. x \in ListFor(r) /\ entries'[x].reg = entries[x].reg /\ entries'[free].reg = r
      BY <1>a, <1>n, <2>2, <2>3
    <3>2. l[x] = depth /\ l[free] = depth
      BY <3>1, <2>2, <1>e, <1>5, <1>n
    <3>3. Bucket(entries'[x].reg) = b
      BY <3>1, <1>e
    <3> QED
      BY <2>3, <3>1, <3>2, <3>3
  <2>4. CASE entries'[x].next = entries[x].next
    <3> DEFINE f == entries[x].next
    <3>1. f \in Indexes /\ f # free /\ entries'[f].reg = entries[f].reg /\ entries'[x].reg = entries[x].reg
      BY <2>1, <2>2, <2>4, <1>a, <1>t
    <3>2. level[f] = level[x] /\ (level[x] > 0 => Bucket(entries[f].reg) = Bucket(entries[x].reg))
      BY <3>1, <1>n DEF Belongs, SuccessorsKeep
    <3>3. x \in ListFor(r) <=> f \in ListFor(r)
      <4>1. Links \in Nexts /\ Links[x] = f
        BY <1>t, Parts
      <4>2. ASSUME x \in ListFor(r) PROVE f \in ListFor(r)
        BY <4>1, <4>2, <3>1, <1>c, <1>n, <1>t, ReachHolds DEF Chain, ListFor, Closed
      <4>3. ASSUME f \in ListFor(r) PROVE x \in ListFor(r)
        <5>1. h # Nil /\ h \in Heads
          BY <4>3, <1>c, <1>f, <1>t, Parts
        <5>2. f # h
          BY <5>1, <3>1, <1>n DEF HeadsHaveNone
        <5>3. PICK y \in ListFor(r) : Links[y] = f
          BY <4>1, <4>3, <5>2, <1>t, ReachHasParents DEF Chain, ListFor
        <5>4. y = x
          BY <5>3, <4>1, <3>1, <1>c, <1>n, <1>t DEF OneParent
        <5> QED
          BY <5>3, <5>4
      <4> QED
        BY <4>2, <4>3
    <3>4. l[f] = l[x]
      BY <1>5, <2>2, <3>1, <3>2, <3>3, <1>t
    <3>5. l[x] > 0 => level[x] > 0
      BY <1>5, <2>2
    <3> QED
      BY <2>4, <3>1, <3>2, <3>4, <3>5
  <2> QED
    BY <2>1, <2>2, <2>3, <2>4
<1>7. HeadsBelong(l)'
  <2>1. free' # Nil => l[free'] = 0
    <3>1. SUFFICES ASSUME free' # Nil PROVE l[free'] = 0
      OBVIOUS
    <3>2. free' \in Indexes /\ free' # free
      BY <3>1, <1>a, <1>n, <1>t
    <3>3. level[free'] = 0
      BY <3>1, <1>l, <1>n DEF Belongs, SuccessorsKeep
    <3> QED
      BY <1>5, <3>2, <3>3, <1>t
  <2>2. ASSUME NEW d \in 1 .. depth, NEW c \in Slots, stack'[d].table[c] # Nil
        PROVE  l[stack'[d].table[c]] = d /\ Bucket(entries'[stack'[d].table[c]].reg) = c
    <3>1. CASE d = depth /\ c = b /\ ListFor(r) = {}
      BY <3>1, <1>5, <1>n
    <3>2. CASE ~ (d = depth /\ c = b /\ ListFor(r) = {})
      <4> DEFINE e == stack[d].table[c]
      <4>1. stack'[d].table[c] = e /\ e \in Indexes
        BY <2>2, <3>2, <1>t
      <4>2. level[e] = d /\ Bucket(entries[e].reg) = c
        BY <4>1, <1>n DEF Belongs, HeadsBelong
      <4>3. e # free /\ entries'[e].reg = entries[e].reg
        BY <4>1, <4>2, <1>l
      <4>4. d = depth /\ c = b => e \in ListFor(r)
        BY <4>1, <1>c, <1>n, <1>t
      <4>5. l[e] = d
        BY <4>1, <4>2, <4>3, <4>4, <1>5
      <4> QED
        BY <4>1, <4>2, <4>3, <4>5
    <3> QED
      BY <3>1, <3>2
  <2> QED
    BY <2>1, <2>2, <1>t DEF HeadsBelong, Bucket
<1>8. OnePerRegister(l)'
  <2>1. SUFFICES ASSUME NEW e \in Indexes, NEW f \in Indexes, l[e] > 0, l[f] = l[e],
                        entries'[f].reg = entries'[e].reg
                 PROVE  e = f
    BY DEF OnePerRegister
  <2>2. ASSUME NEW x \in Indexes, l[x] > 0, x # free
        PROVE  /\ level[x] = l[x] /\ entries'[x].reg = entries[x].reg
               /\ level[x] = depth /\ Bucket(entries[x].reg) = b => x \in ListFor(r)
    BY <2>2, <1>5
  <2>3. ASSUME NEW x \in Indexes, x # free, l[x] = depth, entries'[x].reg = r PROVE FALSE
    <3>1. entries[x].reg = r /\ x \in ListFor(r)
      BY <2>2, <2>3, <1>t
    <3> QED
      BY <3>1 DEF EntriesFor, ListFor
  <2>4. l[free] = depth /\ entries'[free].reg = r
    BY <1>5, <1>n
  <2>5. CASE e # free /\ f # free
    BY <2>1, <2>2, <2>5 DEF Belongs, OnePerRegister
  <2> QED
    BY <2>1, <2>3, <2>4, <2>5
<1> QED
  BY <1>1, <1>2, <1>4, <1>6, <1>7, <1>8 DEF Belongs

----------------------------------------------------------------------------
(* An entry is taken out of its list, or of the free one, and put at the   *)
(* beginning of the free list.                                             *)

\* e, which follows before or begins the list b of the current state, becomes free.
Removed(e, before, b) ==
    /\ before # e
    /\ before # Nil => entries[before].next = e
    /\ before = Nil => current.table[b] = e
    /\ Len(stack') = Len(stack)
    /\ \A d \in 1 .. depth : stack'[d].cfa = stack[d].cfa
    /\ \A d \in 1 .. depth, c \in Slots :
          stack'[d].table[c] = IF d = depth /\ c = b /\ before = Nil THEN entries[e].next
                               ELSE stack[d].table[c]
    /\ free' = e
    /\ \A x \in Indexes :
          /\ entries'[x].next = IF x = e THEN free
                                ELSE IF x = before THEN entries[e].next
                                ELSE entries[x].next
          /\ entries'[x].reg = entries[x].reg
          /\ entries'[x].rule = entries[x].rule

LEMMA EntryRemoved ==
    ASSUME StateTypes, OneParent, HeadsHaveNone, NEW level \in LevelsOf, Belongs(level),
           NEW e \in Indexes, NEW before \in Indexes \cup {Nil}, NEW b \in Slots,
           Removed(e, before, b)
    PROVE  /\ OneParent' /\ HeadsHaveNone'
           /\ \E l \in LevelsOf' : Belongs(l)'
<1> USE DEF Removed
<1> DEFINE n == entries[e].next
<1>n. Nil \notin Indexes
  BY NilIsNoIndex
<1>t. /\ depth \in 1 .. depth /\ depth' = depth /\ depth > 0 /\ depth \in Nat
      /\ free \in Indexes \cup {Nil} /\ n \in Indexes \cup {Nil}
      /\ \A x \in Indexes : entries[x].next \in Indexes \cup {Nil}
      /\ \A d \in 1 .. depth, c \in Slots : stack[d].table[c] \in Indexes \cup {Nil}
  <2>1. depth' = depth
    BY DEF depth
  <2>2. depth \in 1 .. depth /\ depth > 0 /\ depth \in Nat
    BY Parts
  <2> QED
    BY <2>1, <2>2, Parts DEF StateTypes
<1>f. free \in Heads /\ \A d \in 1 .. depth, c \in Slots : stack[d].table[c] \in Heads
  BY DEF Heads
<1>a. /\ \A x \in Indexes : free # Nil => entries[x].next # free
      /\ \A x \in Indexes : entries[x].next = e => x = before
  <2>1. \A x \in Indexes : free # Nil => entries[x].next # free
    BY <1>f DEF HeadsHaveNone
  <2>2. CASE before = Nil
    <3>1. e \in Heads
      BY <2>2, <1>f, <1>t DEF current
    <3> QED
      BY <2>1, <3>1, <1>n DEF HeadsHaveNone
  <2>3. CASE before # Nil
    BY <2>1, <2>3, <1>n DEF OneParent
  <2> QED
    BY <2>2, <2>3
<1>s. n # e
  BY <1>a
<1>e. free # e
  <2>1. CASE before = Nil
    <3>1. level[e] = depth
      BY <2>1, <1>n, <1>t DEF Belongs, HeadsBelong, current
    <3> QED
      BY <3>1, <1>n, <1>t DEF Belongs, HeadsBelong
  <2>2. CASE before # Nil
    BY <2>2, <1>a, <1>n
  <2> QED
    BY <2>1, <2>2
<1>h. \A d \in 1 .. depth, c \in Slots : stack'[d].table[c] # e
  <2>1. SUFFICES ASSUME NEW d \in 1 .. depth, NEW c \in Slots, stack'[d].table[c] = e PROVE FALSE
    OBVIOUS
  <2>2. stack[d].table[c] = e
    BY <2>1, <1>s
  <2>3. before = Nil
    BY <2>2, <1>f, <1>n DEF HeadsHaveNone
  <2>4. d = depth /\ c = b
    <3>1. level[e] = d /\ Bucket(entries[e].reg) = c
      BY <2>2, <1>n DEF Belongs, HeadsBelong
    <3>2. stack[depth].table[b] = e
      BY <2>3 DEF current
    <3>3. level[e] = depth /\ Bucket(entries[e].reg) = b
      BY <3>2, <1>n, <1>t DEF Belongs, HeadsBelong
    <3> QED
      BY <3>1, <3>3
  <2> QED
    BY <2>1, <2>3, <2>4, <1>s
<1>1. OneParent'
  BY <1>a, <1>n, <1>t, <1>s DEF OneParent
<1>2. HeadsHaveNone'
  <2>1. SUFFICES ASSUME NEW x \in Indexes, entries'[x].next # Nil, entries'[x].next \in Heads'
                 PROVE  FALSE
    BY DEF HeadsHaveNone
  <2>2. \/ entries'[x].next = e
        \/ \E d \in 1 .. depth, c \in Slots : entries'[x].next = stack'[d].table[c]
    BY <2>1, <1>t DEF Heads
  <2>3. entries'[x].next # e
    BY <2>1, <1>a, <1>s, <1>e
  <2>4. ASSUME NEW d \in 1 .. depth, NEW c \in Slots, entries'[x].next = stack'[d].table[c]
        PROVE  FALSE
    <3>1. CASE stack'[d].table[c] = stack[d].table[c]
      <4>1. \A y \in Indexes : entries[y].next # entries'[x].next
        BY <2>1, <2>4, <3>1, <1>f DEF HeadsHaveNone
      <4>2. entries'[x].next = free
        BY <4>1
      <4>3. level[free] = 0 /\ level[free] = d
        BY <2>1, <2>4, <3>1, <4>2, <1>n DEF Belongs, HeadsBelong
      <4> QED
        BY <4>3
    <3>2. CASE stack'[d].table[c] = n /\ before = Nil
      <4>1. x # e
        BY <2>1, <2>4, <3>2, <1>a
      <4>2. entries'[x].next = entries[x].next
        BY <4>1, <3>2, <1>n
      <4>3. entries[x].next = entries[e].next /\ entries[x].next # Nil
        BY <4>2, <2>1, <2>4, <3>2
      <4> QED
        BY <4>1, <4>3 DEF OneParent
    <3> QED
      BY <3>1, <3>2
  <2> QED
    BY <2>2, <2>3, <2>4
<1> DEFINE l == [level EXCEPT ![e] = 0]
<1>3. l \in LevelsOf'
  BY <1>t DEF LevelsOf
<1>4. \A x \in Indexes : l[x] = IF x = e THEN 0 ELSE level[x]
  BY DEF LevelsOf
<1> HIDE DEF l
<1>5. SuccessorsKeep(l)'
  <2>1. SUFFICES ASSUME NEW x \in Indexes, entries'[x].next # Nil
                 PROVE  /\ l[entries'[x].next] = l[x]
                        /\ l[x] > 0 => Bucket(entries'[entries'[x].next].reg) = Bucket(entries'[x].reg)
    BY DEF SuccessorsKeep, Bucket
  <2>2. CASE x = e
    <3>1. l[x] = 0
      BY <2>2, <1>4
    <3>2. entries'[x].next = free /\ free \in Indexes
      BY <2>1, <2>2, <1>t
    <3>3. l[free] = 0
      BY <3>2, <1>4, <1>n DEF Belongs, HeadsBelong
    <3> QED
      BY <3>1, <3>2, <3>3
  <2>3. CASE x # e /\ x = before
    <3>1. entries[x].next = e /\ entries'[x].next = n /\ n \in Indexes
      BY <2>1, <2>3, <1>t, <1>n
    <3>2. level[e] = level[x] /\ (level[x] > 0 => Bucket(entries[e].reg) = Bucket(entries[x].reg))
      BY <3>1, <1>n DEF Belongs, SuccessorsKeep
    <3>3. level[n] = level[e] /\ (level[e] > 0 => Bucket(entries[n].reg) = Bucket(entries[e].reg))
      BY <3>1, <1>n DEF Belongs, SuccessorsKeep
    <3>4. entries'[n].reg = entries[n].reg /\ entries'[x].reg = entries[x].reg
      BY <3>1
    <3>5. l[n] = level[n] /\ l[x] = level[x]
      BY <3>1, <2>3, <1>4, <1>s
    <3> QED
      BY <3>1, <3>2, <3>3, <3>4, <3>5
  <2>4. CASE x # e /\ x # before
    <3> DEFINE f == entries[x].next
    <3>1. entries'[x].next = f /\ f \in Indexes /\ f # e
      BY <2>1, <2>4, <1>a, <1>t
    <3>2. level[f] = level[x] /\ (level[x] > 0 => Bucket(entries[f].reg) = Bucket(entries[x].reg))
      BY <3>1, <1>n DEF Belongs, SuccessorsKeep
    <3> QED
      BY <3>1, <3>2, <2>4, <1>4
  <2> QED
    BY <2>2, <2>3, <2>4
<1>6. HeadsBelong(l)'
  <2>1. l[free'] = 0
    BY <1>4
  <2>2. ASSUME NEW d \in 1 .. depth, NEW c \in Slots, stack'[d].table[c] # Nil
        PROVE  l[stack'[d].table[c]] = d /\ Bucket(entries'[stack'[d].table[c]].reg) = c
    <3> DEFINE h == stack'[d].table[c]
    <3>1. h # e /\ h \in Indexes
      BY <2>2, <1>h, <1>t
    <3>2. CASE h = stack[d].table[c]
      <4>1. level[h] = d /\ Bucket(entries[h].reg) = c
        BY <2>2, <3>2 DEF Belongs, HeadsBelong
      <4> QED
        BY <3>1, <4>1, <1>4
    <3>3. CASE d = depth /\ c = b /\ before = Nil /\ h = n
      <4>1. stack[depth].table[b] = e
        BY <3>3 DEF current
      <4>2. level[e] = depth /\ Bucket(entries[e].reg) = b
        BY <4>1, <1>n, <1>t DEF Belongs, HeadsBelong
      <4>3. level[n] = level[e] /\ (level[e] > 0 => Bucket(entries[n].reg) = Bucket(entries[e].reg))
        BY <3>1, <3>3, <1>n DEF Belongs, SuccessorsKeep
      <4>4. l[h] = level[n] /\ entries'[h].reg = entries[n].reg
        BY <3>1, <3>3, <1>4
      <4>5. level[n] = d /\ Bucket(entries[n].reg) = c
        BY <3>3, <4>2, <4>3, <1>t
      <4> QED
        BY <4>4, <4>5
    <3> QED
      BY <3>2, <3>3
  <2> QED
    BY <2>1, <2>2, <1>t DEF HeadsBelong, Bucket
<1>7. OnePerRegister(l)'
  <2>1. SUFFICES ASSUME NEW x \in Indexes, NEW y \in Indexes, l[x] > 0, l[y] = l[x],
                        entries'[y].reg = entries'[x].reg
                 PROVE  x = y
    BY DEF OnePerRegister
  <2>2. level[x] = l[x] /\ level[y] = l[y]
    BY <2>1, <1>4
  <2> QED
    BY <2>1, <2>2 DEF Belongs, OnePerRegister
<1> QED
  BY <1>1, <1>2, <1>3, <1>5, <1>6, <1>7 DEF Belongs

----------------------------------------------------------------------------
(* The steps.                                                              *)

\* Nothing but rules, counts or CFA rules changes.
LEMMA ListsUnchanged ==
    ASSUME TableInv, StateTypes', Len(stack') = Len(stack), free' = free,
           \A d \in 1 .. depth, c \in Slots : stack'[d].table[c] = stack[d].table[c],
           \A x \in Indexes : entries'[x].next = entries[x].next /\ entries'[x].reg = entries[x].reg
    PROVE  TableInv'
<1>1. PICK level \in LevelsOf : Belongs(level)
  BY DEF TableInv
<1>2. depth' = depth /\ Heads' = Heads /\ LevelsOf' = LevelsOf
  <2>1. depth' = depth
    BY DEF depth
  <2> QED
    BY <2>1 DEF Heads, LevelsOf
<1>t. \A x \in Indexes : entries[x].next \in Indexes \cup {Nil}
  BY Parts DEF TableInv
<1>h. \A d \in 1 .. depth, c \in Slots : stack[d].table[c] \in Indexes \cup {Nil}
  BY Parts DEF TableInv
<1>3. OneParent' /\ HeadsHaveNone'
  BY <1>2 DEF TableInv, OneParent, HeadsHaveNone
<1>4. SuccessorsKeep(level)'
  BY <1>1, <1>2, <1>t DEF Belongs, SuccessorsKeep, Bucket
<1>5. HeadsBelong(level)'
  BY <1>1, <1>2, <1>h DEF Belongs, HeadsBelong, Bucket
<1>6. OnePerRegister(level)'
  BY <1>1 DEF Belongs, OnePerRegister
<1> QED
  BY <1>1, <1>2, <1>3, <1>4, <1>5, <1>6 DEF TableInv, Belongs

LEMMA StateUnchanged == TableInv /\ UNCHANGED state => TableInv'
<1> SUFFICES ASSUME TableInv, UNCHANGED state PROVE TableInv'
  OBVIOUS
<1>1. stack' = stack /\ free' = free /\ entries' = entries
  BY DEF state
<1>2. StateTypes'
  BY <1>1 DEF TableInv, StateTypes
<1> QED
  BY <1>1, <1>2, ListsUnchanged

\* An entry gets another rule.
Revalued(x, rule) ==
    /\ stack' = stack /\ free' = free
    /\ \A y \in Indexes :
          /\ entries'[y].next = entries[y].next /\ entries'[y].reg = entries[y].reg
          /\ entries'[y].rule = IF y = x THEN rule ELSE entries[y].rule

LEMMA SetRegisterDoes ==
    ASSUME TableInv, NEW r \in Registers, NEW rule \in Rules, set_register(r, rule)
    PROVE  /\ StateTypes' /\ step' \in {"read", "failed"}
           /\ \/ UNCHANGED state /\ step' = "failed"
              \/ \E x \in EntriesFor(current, r) : Revalued(x, rule)
              \/ \E parent : Inserted(r, rule, parent)
<1> DEFINE same == EntriesFor(current, r)
           b == Bucket(r)
<1>n. StateTypes /\ Nil \notin Indexes
  BY NilIsNoIndex DEF TableInv
<1>t. /\ depth \in 1 .. depth /\ b \in Slots /\ current.table[b] \in Indexes \cup {Nil}
      /\ current.table[b] = stack[depth].table[b] /\ current.table[b] \in Heads
  <2>1. depth \in 1 .. depth /\ b \in Slots
    BY <1>n, Parts, BucketsAreSlots
  <2> QED
    BY <1>n, <2>1, Parts DEF current, Heads
<1>s. ListFor(r) \subseteq Indexes /\ same \subseteq Indexes
  BY ReachIndexes DEF ListFor, EntriesFor, Chain
<1>1. CASE /\ same # {}
           /\ entries' = [entries EXCEPT ![CHOOSE x \in same : TRUE].rule = rule]
           /\ step' = "read"
           /\ UNCHANGED <<stack, free>>
  <2>1. PICK x \in same : entries' = [entries EXCEPT ![x].rule = rule]
    BY <1>1
  <2>2. /\ entries' \in [Indexes -> [reg : Registers, rule : Rules \cup {NoRule},
                                     next : Indexes \cup {Nil}]]
        /\ \A y \in Indexes :
              /\ entries'[y].next = entries[y].next /\ entries'[y].reg = entries[y].reg
              /\ entries'[y].rule = IF y = x THEN rule ELSE entries[y].rule
    BY <2>1, <1>n, <1>s DEF StateTypes
  <2>3. StateTypes'
    BY <1>1, <1>n, <2>2 DEF StateTypes
  <2>4. Revalued(x, rule)
    BY <1>1, <2>2 DEF Revalued
  <2> QED
    BY <1>1, <2>3, <2>4
<1>2. CASE /\ same = {} /\ free # Nil
           /\ stack' = [stack EXCEPT ![depth].count = (@ + 1) % CountSize,
                                     ![depth].table[b] = IF ListFor(r) = {} THEN free ELSE @]
           /\ entries' = IF ListFor(r) = {}
                         THEN [entries EXCEPT ![free] = [reg |-> r, rule |-> rule, next |-> Nil]]
                         ELSE [entries EXCEPT
                                 ![free] = [reg |-> r, rule |-> rule, next |-> Nil],
                                 ![CHOOSE x \in ListFor(r) : entries[x].next = Nil].next = free]
           /\ free' = entries[free].next
           /\ step' = "read"
  <2>1. PICK parent : parent = CHOOSE x \in ListFor(r) : entries[x].next = Nil
    OBVIOUS
  <2>2. ListFor(r) # {} => parent \in ListFor(r) /\ entries[parent].next = Nil
    <3>1. SUFFICES ASSUME ListFor(r) # {} PROVE \E x \in ListFor(r) : entries[x].next = Nil
      BY <2>1
    <3>2. current.table[b] # Nil
      BY <3>1, ReachIndexes DEF ListFor, Chain
    <3>3. current.table[b] \in Heads \cap Indexes
      BY <3>2, <1>t
    <3> QED
      BY <3>3, <1>n, EndFound DEF ListFor, TableInv
  <2>11. PICK level \in LevelsOf : Belongs(level)
    BY DEF TableInv
  <2>f. free \in Indexes /\ free \notin ListFor(r)
    BY <1>2, <1>n, <2>11, ListForBelongs DEF StateTypes
  <2>3. PICK t : t = IF ListFor(r) = {} THEN free ELSE stack[depth].table[b]
    OBVIOUS
  <2>4. PICK n : n = stack[depth].count + 1
    OBVIOUS
  <2>5. n \in Int /\ t \in Indexes \cup {Nil}
    BY <2>3, <2>4, <1>n, <1>t, Parts DEF StateTypes
  <2>6. stack' = Changed(n, b, t)
    BY <1>2, <2>3, <2>4, <1>n, <1>t DEF Changed, StateTypes, States
  <2>7. /\ stack' \in Seq(States) /\ Len(stack') = Len(stack)
        /\ \A d \in 1 .. depth, c \in Slots :
              stack'[d].table[c] = IF d = depth /\ c = b THEN t ELSE stack[d].table[c]
        /\ \A d \in 1 .. depth : stack'[d].cfa = stack[d].cfa
    <3>1. StateTypes /\ b \in Slots
      BY <1>n, <1>t
    <3> HIDE DEF b
    <3> QED
      BY <3>1, <2>5, <2>6, CurrentChanged
  <2>8. \A d \in 1 .. depth, c \in Slots :
           stack'[d].table[c] = IF d = depth /\ c = b /\ ListFor(r) = {} THEN free
                                ELSE stack[d].table[c]
    BY <2>3, <2>7
  <2>9. \A x \in Indexes :
           /\ entries'[x].next = IF x = free THEN Nil
                                 ELSE IF ListFor(r) # {} /\ x = parent THEN free
                                 ELSE entries[x].next
           /\ entries'[x].reg = IF x = free THEN r ELSE entries[x].reg
           /\ entries'[x].rule = IF x = free THEN rule ELSE entries[x].rule
    <3>1. CASE ListFor(r) = {}
      BY <3>1, <1>2, <1>n DEF StateTypes
    <3>2. CASE ListFor(r) # {}
      BY <3>2, <1>2, <2>1, <2>2, <2>f, <1>s, <1>n DEF StateTypes
    <3> QED
      BY <3>1, <3>2
  <2>10. StateTypes'
    <3>1. entries' \in [Indexes -> [reg : Registers, rule : Rules \cup {NoRule},
                                    next : Indexes \cup {Nil}]]
      <4>1. CASE ListFor(r) = {}
        BY <4>1, <1>2, <1>n DEF StateTypes
      <4>2. CASE ListFor(r) # {}
        <5> DEFINE E == [reg : Registers, rule : Rules \cup {NoRule}, next : Indexes \cup {Nil}]
        <5>1. /\ entries \in [Indexes -> E] /\ free \in Indexes
              /\ parent \in Indexes /\ parent # free
          BY <4>2, <2>2, <2>f, <1>s, <1>n DEF StateTypes
        <5>2. PICK new : new = [reg |-> r, rule |-> rule, next |-> Nil]
          OBVIOUS
        <5>3. PICK last : last = [entries[parent] EXCEPT !.next = free]
          OBVIOUS
        <5>4. new \in E /\ last \in E
          BY <5>1, <5>2, <5>3
        <5>5. entries' = [entries EXCEPT ![free] = new, ![parent] = last]
          BY <4>2, <1>2, <2>1, <5>1, <5>2, <5>3
        <5> HIDE DEF E
        <5>6. entries' \in [Indexes -> E]
          BY <5>1, <5>4, <5>5
        <5> QED
          BY <5>6 DEF E
      <4> QED
        BY <4>1, <4>2
    <3>2. free' \in Indexes \cup {Nil}
      BY <1>2, <2>f, <1>n, Parts
    <3> QED
      BY <3>1, <3>2, <2>7, <1>n DEF StateTypes
  <2>12. Inserted(r, rule, parent)
    BY <1>2, <2>2, <2>7, <2>8, <2>9 DEF Inserted
  <2> QED
    BY <1>2, <2>10, <2>12
<1>3. CASE same = {} /\ free = Nil /\ step' = "failed" /\ UNCHANGED state
  <2>1. StateTypes'
    BY <1>3, <1>n DEF StateTypes, state
  <2> QED
    BY <1>3, <2>1
<1> QED
  BY <1>1, <1>2, <1>3 DEF set_register, ListFor

LEMMA SetRegisterKeeps ==
    ASSUME TableInv, NEW r \in Registers, NEW rule \in Rules, set_register(r, rule)
    PROVE  TableInv' /\ step' \in {"read", "failed"}
<1>1. StateTypes' /\ step' \in {"read", "failed"}
  BY SetRegisterDoes
<1>2. CASE UNCHANGED state
  BY <1>1, <1>2, StateUnchanged
<1>3. ASSUME NEW x \in EntriesFor(current, r), Revalued(x, rule) PROVE TableInv'
  BY <1>1, <1>3, ListsUnchanged DEF Revalued
<1>4. ASSUME NEW parent, Inserted(r, rule, parent) PROVE TableInv'
  <2>1. PICK level \in LevelsOf : Belongs(level)
    BY DEF TableInv
  <2>2. StateTypes /\ OneParent /\ HeadsHaveNone
    BY DEF TableInv
  <2>3. OneParent' /\ HeadsHaveNone' /\ \E l \in LevelsOf' : Belongs(l)'
    BY <1>4, <2>1, <2>2, EntryInserted
  <2> QED
    BY <1>1, <2>3 DEF TableInv
<1> QED
  BY <1>1, <1>2, <1>3, <1>4, SetRegisterDoes

\* What removeFrom does to e when it found it after before.
TakenOut(r, e, before) ==
    /\ stack' = [stack EXCEPT
                   ![depth].count = (@ - 1) % CountSize,
                   ![depth].table[Bucket(r)] = IF before = Nil THEN entries[e].next ELSE @]
    /\ entries' = IF before = Nil THEN [entries EXCEPT ![e].next = free]
                  ELSE [entries EXCEPT ![before].next = entries[e].next, ![e].next = free]
    /\ free' = e /\ step' = "remove" /\ rm' = [reg |-> r, entry |-> e]

LEMMA RemoveFromDoes ==
    ASSUME TableInv, NEW r \in Registers, NEW prev \in Indexes \cup {Nil},
           NEW from \in Indexes \cup {Nil},
           prev = Nil => from = current.table[Bucket(r)],
           prev # Nil => prev \in Heads /\ entries[prev].next = from,
           removeFrom(r, prev, from)
    PROVE  /\ StateTypes' /\ step' \in {"read", "remove"}
           /\ rm' \in [reg : Registers, entry : Indexes \cup {Nil}]
           /\ RemovedIsFree'
           /\ \/ UNCHANGED state /\ \A x \in Chain(from) : entries[x].reg # r
              \/ \E e \in Chain(from), before \in Indexes \cup {Nil} :
                    /\ entries[e].reg = r /\ before \in Chain(from) \cup {prev}
                    /\ Removed(e, before, Bucket(r))
<1> DEFINE b == Bucket(r)
           found == {x \in Chain(from) : entries[x].reg = r}
<1>n. StateTypes /\ Nil \notin Indexes /\ Links \in Nexts
  BY NilIsNoIndex, Parts DEF TableInv
<1>t. /\ depth \in 1 .. depth /\ b \in Slots
      /\ \A x \in Indexes : Links[x] = entries[x].next /\ entries[x].next \in Indexes \cup {Nil}
  BY <1>n, Parts, BucketsAreSlots
<1>f. found \subseteq Reach(Links, from) /\ found \subseteq Indexes
  BY ReachIndexes DEF Chain
<1>1. CASE found = {} /\ step' = "read" /\ rm' = NotRemoving /\ UNCHANGED state
  <2>1. StateTypes'
    BY <1>1, <1>n DEF StateTypes, state
  <2>2. rm' \in [reg : Registers, entry : Indexes \cup {Nil}]
    BY <1>1, CFAAssumption DEF NotRemoving
  <2> QED
    BY <1>1, <2>1, <2>2 DEF RemovedIsFree
<1>2. ASSUME NEW e \in found, NEW before,
             e = from => before = prev,
             e # from => before \in Chain(from) /\ entries[before].next = e,
             TakenOut(r, e, before)
      PROVE  /\ StateTypes' /\ step' \in {"read", "remove"}
             /\ rm' \in [reg : Registers, entry : Indexes \cup {Nil}]
             /\ RemovedIsFree'
             /\ before \in Indexes \cup {Nil} /\ Removed(e, before, b)
  <2>e. entries' = IF before = Nil THEN [entries EXCEPT ![e].next = free]
                   ELSE [entries EXCEPT ![before].next = entries[e].next, ![e].next = free]
    BY <1>2 DEF TakenOut
  <2>s. stack' = [stack EXCEPT
                    ![depth].count = (@ - 1) % CountSize,
                    ![depth].table[b] = IF before = Nil THEN entries[e].next ELSE @]
    BY <1>2 DEF TakenOut
  <2>r. free' = e /\ step' = "remove" /\ rm' = [reg |-> r, entry |-> e]
    BY <1>2 DEF TakenOut
  <2>1. e \in Indexes
    BY <1>f
  <2>2. /\ before \in Indexes \cup {Nil} /\ before # e
        /\ before # Nil => entries[before].next = e
        /\ before = Nil => current.table[b] = e
    <3>1. CASE e = from /\ prev = Nil
      BY <3>1, <1>2, <1>n, <2>1
    <3>2. CASE e = from /\ prev # Nil
      BY <3>2, <1>2, <1>n, <2>1 DEF TableInv, HeadsHaveNone
    <3>3. CASE e # from
      <4>1. e \in Reach(Links, from)
        BY <1>f
      <4>2. PICK y \in Reach(Links, from) : y # e /\ Links[y] = e
        BY <3>3, <4>1, <1>n, ReachHasParents
      <4>3. y \in Indexes /\ y \in Chain(from) /\ entries[y].next = e
        BY <4>2, <1>t, ReachIndexes DEF Chain
      <4>4. before \in Chain(from) /\ entries[before].next = e
        BY <3>3, <1>2
      <4>5. before \in Indexes
        BY <4>4, ReachIndexes DEF Chain
      <4>6. before = y
        BY <4>3, <4>4, <4>5, <2>1, <1>n DEF TableInv, OneParent
      <4> QED
        BY <4>2, <4>4, <4>5, <4>6, <1>n
    <3> QED
      BY <3>1, <3>2, <3>3
  <2>3. PICK t : t = IF before = Nil THEN entries[e].next ELSE stack[depth].table[b]
    OBVIOUS
  <2>4. PICK n : n = stack[depth].count - 1
    OBVIOUS
  <2>5. n \in Int /\ t \in Indexes \cup {Nil}
    BY <2>1, <2>3, <2>4, <1>n, <1>t, Parts
  <2>6. stack' = Changed(n, b, t)
    BY <2>s, <2>3, <2>4, <1>n, <1>t DEF Changed, StateTypes, States
  <2>7. /\ stack' \in Seq(States) /\ Len(stack') = Len(stack)
        /\ \A d \in 1 .. depth, c \in Slots :
              stack'[d].table[c] = IF d = depth /\ c = b THEN t ELSE stack[d].table[c]
        /\ \A d \in 1 .. depth : stack'[d].cfa = stack[d].cfa
    <3>1. StateTypes /\ b \in Slots
      BY <1>n, <1>t
    <3> HIDE DEF b
    <3> QED
      BY <3>1, <2>5, <2>6, CurrentChanged
  <2>8. \A d \in 1 .. depth, c \in Slots :
           stack'[d].table[c] = IF d = depth /\ c = b /\ before = Nil THEN entries[e].next
                                ELSE stack[d].table[c]
    BY <2>3, <2>7
  <2>9. \A x \in Indexes :
           /\ entries'[x].next = IF x = e THEN free
                                 ELSE IF x = before THEN entries[e].next
                                 ELSE entries[x].next
           /\ entries'[x].reg = entries[x].reg
           /\ entries'[x].rule = entries[x].rule
    <3>1. CASE before = Nil
      BY <3>1, <2>e, <1>n, <2>1 DEF StateTypes
    <3>2. CASE before # Nil
      BY <3>2, <2>e, <1>n, <2>1, <2>2 DEF StateTypes
    <3> QED
      BY <3>1, <3>2
  <2>10. StateTypes'
    <3>1. entries' \in [Indexes -> [reg : Registers, rule : Rules \cup {NoRule},
                                    next : Indexes \cup {Nil}]]
      <4>1. CASE before = Nil
        BY <4>1, <2>e, <1>n, <2>1 DEF StateTypes
      <4>2. CASE before # Nil
        <5> DEFINE Entry == [reg : Registers, rule : Rules \cup {NoRule}, next : Indexes \cup {Nil}]
        <5>1. ASSUME NEW g \in [Indexes -> Entry], NEW x \in Indexes, NEW v \in Indexes \cup {Nil}
              PROVE  [g EXCEPT ![x].next = v] \in [Indexes -> Entry]
          BY <5>1
        <5>2. entries' = [[entries EXCEPT ![before].next = entries[e].next] EXCEPT ![e].next = free]
          BY <4>2, <2>e
        <5>3. entries \in [Indexes -> Entry] /\ before \in Indexes /\ entries[e].next \in Indexes \cup {Nil}
              /\ free \in Indexes \cup {Nil}
          BY <4>2, <1>n, <1>t, <2>1, <2>2 DEF StateTypes
        <5>4. [entries EXCEPT ![before].next = entries[e].next] \in [Indexes -> Entry]
          BY <5>1, <5>3
        <5> HIDE DEF Entry
        <5>5. entries' \in [Indexes -> Entry]
          BY <5>1, <5>2, <5>3, <5>4, <2>1
        <5> QED
          BY <5>5 DEF Entry
      <4> QED
        BY <4>1, <4>2
    <3> QED
      BY <3>1, <2>r, <2>1, <2>7, <1>n DEF StateTypes
  <2>12. Removed(e, before, b)
    BY <2>r, <2>2, <2>7, <2>8, <2>9 DEF Removed
  <2>13. RemovedIsFree' /\ rm' \in [reg : Registers, entry : Indexes \cup {Nil}]
    BY <2>r, <2>1, <1>n DEF RemovedIsFree
  <2> QED
    BY <2>r, <2>2, <2>10, <2>12, <2>13
<1>3. CASE found # {}
  <2> DEFINE e1 == CHOOSE x \in found : found \subseteq Chain(x)
             before1 == IF e1 = from THEN prev ELSE CHOOSE x \in Chain(from) : entries[x].next = e1
  <2>1. TakenOut(r, e1, before1)
    BY <1>3 DEF removeFrom, TakenOut
  <2>2. e1 \in found
    <3>1. \E x \in found : found \subseteq Reach(Links, x)
      <4>1. PICK some : some = found
        OBVIOUS
      <4>2. some \in SUBSET Reach(Links, from) /\ some # {}
        BY <1>3, <1>f, <4>1
      <4>3. \E x \in some : some \subseteq Reach(Links, x)
        <5> HIDE DEF found
        <5> QED
          BY <4>2, <1>n, <1>f, FirstFound
      <4> QED
        BY <4>1, <4>3
    <3> QED
      BY <3>1 DEF Chain
  <2> HIDE DEF e1
  <2>3. e1 # from => before1 \in Chain(from) /\ entries[before1].next = e1
    <3>1. SUFFICES ASSUME e1 # from PROVE \E x \in Chain(from) : entries[x].next = e1
      OBVIOUS
    <3>2. e1 \in Reach(Links, from)
      BY <2>2, <1>f
    <3>3. \E y \in Reach(Links, from) : y # e1 /\ Links[y] = e1
      BY <3>1, <3>2, <1>n, ReachHasParents
    <3> QED
      BY <3>3, <1>t, ReachIndexes DEF Chain
  <2>4. e1 = from => before1 = prev
    OBVIOUS
  <2> HIDE DEF before1
  <2>5. PICK e : e = e1
    OBVIOUS
  <2>6. PICK before : before = before1
    OBVIOUS
  <2>7. TakenOut(r, e, before)
    BY <2>1, <2>5, <2>6 DEF TakenOut
  <2> QED
    BY <1>2, <2>2, <2>3, <2>4, <2>5, <2>6, <2>7
<1>4. CASE found = {}
  BY <1>1, <1>4 DEF removeFrom
<1> QED
  BY <1>3, <1>4

LEMMA RemoveFromKeeps ==
    ASSUME TableInv, NEW r \in Registers, NEW prev \in Indexes \cup {Nil},
           NEW from \in Indexes \cup {Nil},
           prev = Nil => from = current.table[Bucket(r)],
           prev # Nil => prev \in Heads /\ entries[prev].next = from,
           removeFrom(r, prev, from)
    PROVE  /\ TableInv' /\ step' \in {"read", "remove"}
           /\ rm' \in [reg : Registers, entry : Indexes \cup {Nil}]
           /\ RemovedIsFree'
<1>1. /\ StateTypes' /\ step' \in {"read", "remove"}
      /\ rm' \in [reg : Registers, entry : Indexes \cup {Nil}]
      /\ RemovedIsFree'
      /\ \/ UNCHANGED state
         \/ \E e \in Chain(from), before \in Indexes \cup {Nil} : Removed(e, before, Bucket(r))
  BY RemoveFromDoes
<1>2. CASE UNCHANGED state
  BY <1>1, <1>2, StateUnchanged
<1>3. ASSUME NEW e \in Chain(from), NEW before \in Indexes \cup {Nil}, Removed(e, before, Bucket(r))
      PROVE  TableInv'
  <2>1. PICK level \in LevelsOf : Belongs(level)
    BY DEF TableInv
  <2>2. StateTypes /\ OneParent /\ HeadsHaveNone /\ Bucket(r) \in Slots /\ e \in Indexes
    BY BucketsAreSlots, ReachIndexes DEF TableInv, Chain
  <2>3. OneParent' /\ HeadsHaveNone' /\ \E l \in LevelsOf' : Belongs(l)'
    BY <1>3, <2>1, <2>2, EntryRemoved
  <2> QED
    BY <1>1, <2>3 DEF TableInv
<1> QED
  BY <1>1, <1>2, <1>3

LEMMA EmptyStateType == EmptyState \in States
<1>1. 0 \in 0 .. CountSize - 1
  BY CFAAssumption
<1>2. Undefined \in CfaRules
  BY DEF Undefined, CfaRules
<1> QED
  BY <1>1, <1>2 DEF EmptyState, States

LEMMA PushKeeps ==
    ASSUME TableInv, push_state
    PROVE  TableInv'
<1>n. StateTypes /\ Nil \notin Indexes
  BY NilIsNoIndex DEF TableInv
<1>1. PICK level \in LevelsOf : Belongs(level)
  BY DEF TableInv
<1>2. stack \in Seq(States) /\ depth \in Nat /\ Len(stack) = depth /\ depth + 1 <= MaxStates
  BY <1>n, Parts, CFAAssumption DEF push_state, StateTypes, depth
<1>3. /\ stack' \in Seq(States) /\ depth' = depth + 1 /\ Len(stack') = depth + 1
      /\ \A d \in 1 .. depth : stack'[d] = stack[d]
      /\ stack'[depth + 1] = EmptyState
  BY <1>2, EmptyStateType DEF push_state, depth
<1>4. free' = free /\ entries' = entries
  BY DEF push_state
<1>5. \A d \in 1 .. depth', c \in Slots : \/ d \in 1 .. depth /\ stack'[d].table[c] = stack[d].table[c]
                                          \/ stack'[d].table[c] = Nil
  BY <1>2, <1>3 DEF EmptyState
<1>6. StateTypes'
  <2>1. Len(stack') \in 1 .. MaxStates
    BY <1>2, <1>3, CFAAssumption
  <2> QED
    BY <2>1, <1>n, <1>3, <1>4 DEF StateTypes
<1>7. OneParent' /\ HeadsHaveNone'
  <2>1. Heads' \subseteq Heads \cup {Nil}
    BY <1>4, <1>5 DEF Heads
  <2> QED
    BY <2>1, <1>4, <1>n DEF TableInv, OneParent, HeadsHaveNone
<1>8. level \in LevelsOf'
  BY <1>2, <1>3 DEF LevelsOf
<1>9. SuccessorsKeep(level)'
  BY <1>1, <1>4 DEF Belongs, SuccessorsKeep, Bucket
<1>10. HeadsBelong(level)'
  BY <1>1, <1>4, <1>5 DEF Belongs, HeadsBelong, Bucket
<1>11. OnePerRegister(level)'
  BY <1>1, <1>4 DEF Belongs, OnePerRegister
<1> QED
  BY <1>6, <1>7, <1>8, <1>9, <1>10, <1>11 DEF TableInv, Belongs

LEMMA PopKeeps ==
    ASSUME TableInv, pop_state
    PROVE  TableInv'
<1>n. StateTypes /\ Nil \notin Indexes
  BY NilIsNoIndex DEF TableInv
<1>1. PICK level \in LevelsOf : Belongs(level)
  BY DEF TableInv
<1>2. stack \in Seq(States) /\ depth \in Nat /\ Len(stack) = depth /\ depth > 1 /\ depth <= MaxStates
  BY <1>n, Parts, CFAAssumption DEF pop_state, StateTypes, depth
<1>3. /\ stack' \in Seq(States) /\ depth' = depth - 1 /\ Len(stack') = depth - 1
      /\ \A d \in 1 .. depth - 1 : stack'[d] = stack[d]
  BY <1>2 DEF pop_state, depth
<1>4. free' = free /\ entries' = entries
  BY DEF pop_state
<1>5. \A d \in 1 .. depth' : d \in 1 .. depth /\ d # depth /\ stack'[d] = stack[d]
  BY <1>2, <1>3
<1>6. StateTypes'
  <2>1. Len(stack') \in 1 .. MaxStates
    BY <1>2, <1>3, CFAAssumption
  <2> QED
    BY <2>1, <1>n, <1>3, <1>4 DEF StateTypes
<1>7. OneParent' /\ HeadsHaveNone'
  <2>1. Heads' \subseteq Heads
    BY <1>4, <1>5 DEF Heads
  <2> QED
    BY <2>1, <1>4, <1>n DEF TableInv, OneParent, HeadsHaveNone
<1> DEFINE new == [x \in Indexes |-> IF level[x] = depth THEN -1 ELSE level[x]]
<1>8. PICK l : l = new
  OBVIOUS
<1>9. l \in LevelsOf'
  <2>1. \A x \in Indexes : level[x] \in -1 .. depth
    BY DEF LevelsOf
  <2>2. \A x \in Indexes : (IF level[x] = depth THEN -1 ELSE level[x]) \in -1 .. depth - 1
    BY <2>1, <1>2
  <2> QED
    BY <2>2, <1>3, <1>8 DEF LevelsOf
<1>10. \A x \in Indexes : l[x] = IF level[x] = depth THEN -1 ELSE level[x]
  BY <1>8
<1> HIDE DEF new
<1>t. \A x \in Indexes : entries[x].next \in Indexes \cup {Nil}
  BY <1>n, Parts
<1>h. \A d \in 1 .. depth, c \in Slots : stack[d].table[c] \in Indexes \cup {Nil}
  BY <1>n, Parts
<1>p. depth > 0 /\ depth # 0
  BY <1>2
<1>11. SuccessorsKeep(l)'
  <2>1. SUFFICES ASSUME NEW x \in Indexes, entries[x].next # Nil
                 PROVE  /\ l[entries[x].next] = l[x]
                        /\ l[x] > 0 => Bucket(entries[entries[x].next].reg) = Bucket(entries[x].reg)
    BY <1>4 DEF SuccessorsKeep, Bucket
  <2>2. entries[x].next \in Indexes
    BY <2>1, <1>t
  <2>3. /\ level[entries[x].next] = level[x]
        /\ level[x] > 0 => Bucket(entries[entries[x].next].reg) = Bucket(entries[x].reg)
    BY <1>1, <2>1 DEF Belongs, SuccessorsKeep
  <2>4. l[x] > 0 => level[x] > 0
    BY <1>10
  <2> QED
    BY <2>2, <2>3, <2>4, <1>10
<1>12. HeadsBelong(l)'
  <2>1. ASSUME free # Nil PROVE l[free] = 0
    BY <2>1, <1>1, <1>n, <1>10, <1>p DEF Belongs, HeadsBelong, StateTypes
  <2>2. ASSUME NEW d \in 1 .. depth', NEW c \in Slots, stack'[d].table[c] # Nil
        PROVE  l[stack'[d].table[c]] = d /\ Bucket(entries[stack'[d].table[c]].reg) = c
    <3>1. stack'[d].table[c] = stack[d].table[c] /\ d \in 1 .. depth /\ d # depth
      BY <1>5
    <3>2. level[stack[d].table[c]] = d /\ Bucket(entries[stack[d].table[c]].reg) = c
      BY <1>1, <2>2, <3>1 DEF Belongs, HeadsBelong
    <3>3. stack[d].table[c] \in Indexes
      BY <1>h, <2>2, <3>1
    <3> QED
      BY <3>1, <3>2, <3>3, <1>10
  <2> QED
    BY <2>1, <2>2, <1>4 DEF HeadsBelong, Bucket
<1>13. OnePerRegister(l)'
  <2>1. SUFFICES ASSUME NEW x \in Indexes, NEW y \in Indexes, l[x] > 0, l[y] = l[x],
                        entries[y].reg = entries[x].reg
                 PROVE  x = y
    BY <1>4 DEF OnePerRegister
  <2>2. level[x] = l[x] /\ level[y] = l[y]
    BY <2>1, <1>10
  <2> QED
    BY <1>1, <2>1, <2>2 DEF Belongs, OnePerRegister
<1> QED
  BY <1>6, <1>7, <1>9, <1>11, <1>12, <1>13 DEF TableInv, Belongs

\* The rule for the CFA of the current state changes.
LEMMA DefineCfaKeeps ==
    ASSUME TableInv, NEW c \in CfaRules, DefineCfa(c)
    PROVE  TableInv'
<1>1. StateTypes /\ stack \in Seq(States) /\ depth \in 1 .. Len(stack) /\ stack[depth] \in States
  BY Parts DEF TableInv, StateTypes, depth
<1>2. PICK new : new = [stack[depth] EXCEPT !.cfa = c]
  OBVIOUS
<1>3. new \in States /\ new.table = stack[depth].table
  BY <1>1, <1>2 DEF States
<1>4. stack' = [stack EXCEPT ![depth] = new] /\ free' = free /\ entries' = entries
  BY <1>1, <1>2 DEF DefineCfa
<1>5. stack' \in Seq(States) /\ Len(stack') = Len(stack)
  BY <1>1, <1>3, <1>4
<1>6. \A d \in 1 .. depth : stack'[d].table = stack[d].table
  <2>1. DOMAIN stack = 1 .. depth /\ depth \in 1 .. depth
    BY <1>1 DEF depth
  <2> QED
    BY <2>1, <1>3, <1>4
<1>7. StateTypes'
  BY <1>1, <1>4, <1>5 DEF StateTypes
<1> QED
  BY <1>4, <1>5, <1>6, <1>7, ListsUnchanged

----------------------------------------------------------------------------
(* The invariant.                                                          *)

\* Of some numbers up to n one is the largest.
LEMMA LargestExists ==
    ASSUME NEW n \in Nat, NEW S \in SUBSET (1 .. n), S # {}
    PROVE  \E k \in S : \A l \in S : l <= k
<1> DEFINE T == {n - k : k \in S}
<1>1. T \in SUBSET Nat /\ T # {}
  <2>1. \A k \in S : n - k \in Nat
    OBVIOUS
  <2> QED
    BY <2>1
<1>2. PICK m \in T : \A t \in T : m <= t
  <2> DEFINE R == OpToRel(<, Nat)
  <2> HIDE DEF T
  <2>1. IsWellFoundedOn(R, Nat)
    BY NatLessThanWellFounded
  <2>2. \A x, y \in Nat : x < y => <<x, y>> \in R
    BY DEF OpToRel
  <2> HIDE DEF R
  <2>3. PICK m \in T : \A t \in T : ~ (<<t, m>> \in R)
    BY <1>1, <2>1, WFMin
  <2>4. \A t \in T : m <= t
    <3>1. SUFFICES ASSUME NEW t \in T, t < m PROVE FALSE
      <4>1. m \in Nat /\ \A t \in T : t \in Nat
        BY <1>1
      <4> QED
        BY <4>1
    <3>2. t \in Nat /\ m \in Nat
      BY <1>1
    <3> QED
      BY <2>2, <2>3, <3>1, <3>2
  <2> QED
    BY <2>3, <2>4
<1>3. PICK k \in S : m = n - k
  BY <1>2
<1>4. ASSUME NEW l \in S PROVE l <= k
  <2>1. n - l \in T
    OBVIOUS
  <2>2. n - k <= n - l
    BY <1>2, <1>3, <2>1
  <2> QED
    BY <2>2
<1> QED
  BY <1>3, <1>4

\* What is saved of the current state is a row of rules.
LEMMA SavedRowType == StateTypes => SavedRow \in [Registers -> Rules \cup {NoRule}]
<1> SUFFICES ASSUME StateTypes, NEW r \in Registers
             PROVE  SavedRow[r] \in Rules \cup {NoRule}
  BY DEF SavedRow
<1> DEFINE found == {k \in DOMAIN Iterated : /\ Iterated[k] \in Indexes
                                            /\ entries[Iterated[k]].reg = r}
           last == CHOOSE k \in found : \A l \in found : l <= k
<1>1. SavedRow[r] = IF found = {} THEN NoRule ELSE entries[Iterated[last]].rule
  BY DEF SavedRow
<1>2. found \in SUBSET (1 .. MaxRegisters + 1) /\ MaxRegisters + 1 \in Nat
  <2>1. DOMAIN Iterated = 1 .. MaxRegisters + 1
    BY DEF Iterated
  <2> QED
    BY <2>1, CFAAssumption
<1>3. \A k \in found : Iterated[k] \in Indexes
  OBVIOUS
<1>4. ASSUME found # {} PROVE last \in found
  <2>1. \E k \in found : \A l \in found : l <= k
    <3> HIDE DEF found
    <3> QED
      BY <1>2, <1>4, LargestExists
  <2> QED
    BY <2>1
<1> HIDE DEF found, last
<1> QED
  BY <1>1, <1>3, <1>4 DEF StateTypes

LEMMA InitInv == Init => IndInv
<1> SUFFICES ASSUME Init PROVE IndInv
  OBVIOUS
<1>n. Nil \notin Indexes /\ Nil = MaxRegisters /\ MaxRegisters \in Nat /\ MaxRegisters > 0
      /\ Indexes = 0 .. MaxRegisters - 1
  BY NilIsNoIndex, CFAAssumption DEF Nil, Indexes
<1>1. stack = <<EmptyState>> /\ free = 0 /\ step = "start" /\ rm = NotRemoving
  BY DEF Init
<1>2. PICK garbage \in [Indexes -> Registers] :
         entries = [e \in Indexes |-> [reg |-> garbage[e], rule |-> NoRule, next |-> e + 1]]
  BY DEF Init
<1>3. \A e \in Indexes : entries[e].next = e + 1 /\ entries[e].next \in Indexes \cup {Nil}
                         /\ entries[e].next > 0
  BY <1>2, <1>n
<1>4. stack \in Seq(States) /\ Len(stack) = 1 /\ depth = 1 /\ stack[1] = EmptyState
  BY <1>1, EmptyStateType DEF depth
<1>5. StateTypes
  <2>1. Len(stack) \in 1 .. MaxStates
    BY <1>4, CFAAssumption
  <2>2. entries \in [Indexes -> [reg : Registers, rule : Rules \cup {NoRule}, next : Indexes \cup {Nil}]]
    <3>1. \A e \in Indexes : e + 1 \in Indexes \cup {Nil}
      BY <1>n
    <3> QED
      BY <1>2, <3>1
  <2>3. free \in Indexes \cup {Nil}
    BY <1>1, <1>n
  <2> QED
    BY <1>4, <2>1, <2>2, <2>3 DEF StateTypes
<1>6. OtherTypes
  <2>1. initial \in [Registers -> Rules \cup {NoRule}]
    BY DEF Init, EmptyRow
  <2>2. rm \in [reg : Registers, entry : Indexes \cup {Nil}]
    BY <1>1, CFAAssumption DEF NotRemoving
  <2>3. location \in 0 .. LastLocation + 1
    BY CFAAssumption DEF Init
  <2> QED
    BY <2>1, <2>2, <2>3 DEF Init, OtherTypes
<1>7. Heads \subseteq {0, Nil} /\ \A c \in Slots : stack[1].table[c] = Nil
  BY <1>1, <1>4 DEF Heads, EmptyState
<1>8. OneParent /\ HeadsHaveNone
  <2>1. OneParent
    BY <1>3, <1>n DEF OneParent
  <2> QED
    BY <2>1, <1>3, <1>7, <1>n DEF HeadsHaveNone
<1>9. PICK level : level = [x \in Indexes |-> 0]
  OBVIOUS
<1>10. level \in LevelsOf /\ Belongs(level)
  <2>1. level \in LevelsOf
    BY <1>4, <1>9 DEF LevelsOf
  <2>2. SuccessorsKeep(level)
    BY <1>3, <1>9 DEF SuccessorsKeep
  <2>3. HeadsBelong(level)
    BY <1>1, <1>4, <1>7, <1>9, <1>n DEF HeadsBelong
  <2>4. OnePerRegister(level)
    BY <1>9 DEF OnePerRegister
  <2> QED
    BY <2>1, <2>2, <2>3, <2>4 DEF Belongs
<1>11. RemovedIsFree
  BY <1>1 DEF RemovedIsFree
<1> QED
  BY <1>5, <1>6, <1>8, <1>10, <1>11, SplitInv DEF TableInv

\* An action that leaves the table alone.
LEMMA OthersKeep ==
    ASSUME IndInv, UNCHANGED state, OtherTypes', step' # "remove"
    PROVE  IndInv'
<1>1. TableInv'
  BY StateUnchanged, SplitInv
<1>2. RemovedIsFree'
  BY DEF RemovedIsFree
<1> QED
  BY <1>1, <1>2, JoinInv

LEMMA NextInv == IndInv /\ [Next]_vars => IndInv'
<1> SUFFICES ASSUME IndInv, [Next]_vars PROVE IndInv'
  OBVIOUS
<1>i. TableInv /\ OtherTypes /\ RemovedIsFree
  BY SplitInv
<1>1. CASE evalProgram
  <2>1. initial' \in [Registers -> Rules \cup {NoRule}]
    BY <1>1, <1>i, SavedRowType DEF evalProgram, TableInv
  <2>2. location' \in 0 .. LastLocation + 1
    BY <1>1, CFAAssumption DEF evalProgram, FunctionStart
  <2>3. OtherTypes'
    BY <1>1, <1>i, <2>1, <2>2 DEF evalProgram, OtherTypes
  <2> QED
    BY <1>1, <2>3, OthersKeep DEF evalProgram
<1>2. CASE programEnds
  <2>1. OtherTypes'
    BY <1>2, <1>i DEF programEnds, OtherTypes
  <2> QED
    BY <1>2, <2>1, OthersKeep DEF programEnds
<1>3. CASE Opcode
  <2>1. CASE invalidOpcode
    <3>1. OtherTypes'
      BY <2>1, <1>i DEF invalidOpcode, OtherTypes
    <3> QED
      BY <2>1, <3>1, OthersKeep DEF invalidOpcode
  <2>2. CASE \E delta \in 1 .. LastLocation : advance_loc(delta)
    <3>1. location' \in 0 .. LastLocation + 1
      BY <2>2, <1>i, CFAAssumption DEF advance_loc, OtherTypes
    <3>2. OtherTypes'
      BY <2>2, <1>i, <3>1 DEF advance_loc, OtherTypes
    <3> QED
      BY <2>2, <3>2, OthersKeep DEF advance_loc, MayRead
  <2>3. CASE \E l \in 1 .. LastLocation + 1 : set_loc(l)
    <3>1. location' \in 0 .. LastLocation + 1
      BY <2>3, CFAAssumption DEF set_loc
    <3>2. OtherTypes'
      BY <2>3, <1>i, <3>1 DEF set_loc, OtherTypes
    <3> QED
      BY <2>3, <3>2, OthersKeep DEF set_loc, MayRead
  <2>4. ASSUME NEW c \in CfaRules, DefineCfa(c), MayRead PROVE IndInv'
    <3>1. OtherTypes' /\ step' = "read"
      BY <2>4, <1>i DEF DefineCfa, MayRead, OtherTypes
    <3>2. TableInv'
      BY <2>4, <1>i, DefineCfaKeeps
    <3> QED
      BY <3>1, <3>2, JoinInv DEF RemovedIsFree
  <2>5. CASE \E c \in CfaRules : def_cfa(c)
    BY <2>4, <2>5 DEF def_cfa
  <2>6. RegisterBased(current.cfa) =>
           current.cfa \in [type : {"register", "signed"}, reg : CfaRegisters, off : Offsets]
    <3>1. current.cfa \in CfaRules
      BY <1>i, Parts DEF TableInv, current
    <3> QED
      BY <3>1 DEF CfaRules, RegisterBased
  <2>7. CASE \/ \E r \in CfaRegisters : def_cfa_register(r)
             \/ \E type \in {"register", "signed"}, off \in Offsets : def_cfa_offset(type, off)
    <3>1. CASE \E r \in CfaRegisters : def_cfa_register(r)
      <4>1. PICK r \in CfaRegisters : def_cfa_register(r)
        BY <3>1
      <4>2. PICK c : c = [current.cfa EXCEPT !.reg = r]
        OBVIOUS
      <4>3. c \in [type : {"register", "signed"}, reg : CfaRegisters, off : Offsets]
        BY <4>1, <4>2, <2>6 DEF def_cfa_register
      <4>4. c \in CfaRules /\ MayRead /\ DefineCfa(c)
        BY <4>1, <4>2, <4>3 DEF def_cfa_register, CfaRules
      <4> QED
        BY <4>4, <2>4
    <3>2. CASE \E type \in {"register", "signed"}, off \in Offsets : def_cfa_offset(type, off)
      <4>1. PICK type \in {"register", "signed"}, off \in Offsets : def_cfa_offset(type, off)
        BY <3>2
      <4>2. PICK c : c = [current.cfa EXCEPT !.type = type, !.off = off]
        OBVIOUS
      <4>3. c \in [type : {"register", "signed"}, reg : CfaRegisters, off : Offsets]
        BY <4>1, <4>2, <2>6 DEF def_cfa_offset
      <4>4. c \in CfaRules /\ MayRead /\ DefineCfa(c)
        BY <4>1, <4>2, <4>3 DEF def_cfa_offset, CfaRules
      <4> QED
        BY <4>4, <2>4
    <3> QED
      BY <2>7, <3>1, <3>2
  <2>8. ASSUME NEW r \in Registers, NEW rule \in Rules, MayRead, set_register(r, rule),
               UNCHANGED <<initial, program, pc, location, rm>>
        PROVE  IndInv'
    <3>1. TableInv' /\ step' \in {"read", "failed"}
      BY <2>8, <1>i, SetRegisterKeeps
    <3>2. OtherTypes'
      BY <2>8, <1>i, <3>1 DEF OtherTypes
    <3>3. RemovedIsFree'
      BY <3>1 DEF RemovedIsFree
    <3> QED
      BY <3>1, <3>2, <3>3, JoinInv
  <2>9. CASE \E r \in Registers, rule \in Rules : setRule(r, rule)
    BY <2>8, <2>9 DEF setRule
  <2>10. ASSUME NEW r \in Registers, remove_register(r), UNCHANGED <<initial, program, pc, location>>
         PROVE  IndInv'
    <3>1. PICK from : from = current.table[Bucket(r)]
      OBVIOUS
    <3>2. from \in Indexes \cup {Nil}
      BY <3>1, <1>i, Parts, BucketsAreSlots DEF TableInv, current
    <3>3. removeFrom(r, Nil, from)
      BY <2>10, <3>1 DEF remove_register
    <3>4. /\ TableInv' /\ step' \in {"read", "remove"}
          /\ rm' \in [reg : Registers, entry : Indexes \cup {Nil}]
          /\ RemovedIsFree'
      BY <3>1, <3>2, <3>3, <1>i, RemoveFromKeeps
    <3>5. OtherTypes'
      BY <2>10, <3>4, <1>i DEF OtherTypes
    <3> QED
      BY <3>4, <3>5, JoinInv
  <2>11. CASE \E r \in Registers : undefined(r)
    BY <2>10, <2>11 DEF undefined
  <2>12. CASE \E r \in Registers : restore(r)
    <3>1. PICK r \in Registers : restore(r)
      BY <2>12
    <3>2. PICK rule : rule = initial[r]
      OBVIOUS
    <3>3. rule \in Rules
      BY <3>1, <3>2, <1>i DEF restore, OtherTypes
    <3>4. set_register(r, rule) /\ MayRead /\ UNCHANGED <<initial, program, pc, location, rm>>
      BY <3>1, <3>2 DEF restore, set_register
    <3> QED
      BY <2>8, <3>3, <3>4
  <2>13. CASE \E r \in Registers, extended \in BOOLEAN : restoreNone(r, extended)
    <3>1. PICK r \in Registers, extended \in BOOLEAN : restoreNone(r, extended)
      BY <2>13
    <3>2. CASE extended
      BY <2>10, <3>1, <3>2, CFAAssumption DEF restoreNone
    <3>3. CASE ~ extended
      BY <2>10, <3>1, <3>3 DEF restoreNone
    <3> QED
      BY <3>2, <3>3
  <2>14. ASSUME MayRead, TableInv', step' \in {"read", "failed"},
                UNCHANGED <<initial, program, pc, location, rm>>
         PROVE  IndInv'
    <3>1. OtherTypes'
      BY <2>14, <1>i DEF OtherTypes
    <3> QED
      BY <2>14, <3>1, JoinInv DEF RemovedIsFree
  <2>15. CASE remember_state
    <3>1. TableInv'
      BY <2>15, <1>i, PushKeeps, StateUnchanged DEF remember_state
    <3> QED
      BY <2>14, <2>15, <3>1 DEF remember_state, MayRead
  <2>16. CASE restore_state
    <3>1. TableInv'
      BY <2>16, <1>i, PopKeeps, StateUnchanged DEF restore_state
    <3> QED
      BY <2>14, <2>16, <3>1 DEF restore_state, MayRead
  <2> QED
    BY <1>3, <2>1, <2>2, <2>3, <2>5, <2>7, <2>9, <2>11, <2>12, <2>13, <2>15, <2>16 DEF Opcode
<1>4. CASE removeRound
  <2>1. /\ rm.entry = free /\ free \in Indexes /\ free # Nil /\ rm.reg \in Registers
        /\ free \in Heads
    BY <1>4, <1>i DEF removeRound, RemovedIsFree, TableInv, StateTypes, OtherTypes, Heads
  <2>2. PICK r, prev, from : r = rm.reg /\ prev = rm.entry /\ from = entries[rm.entry].next
    OBVIOUS
  <2>3. /\ r \in Registers /\ prev \in Indexes /\ prev # Nil /\ prev \in Heads
        /\ from \in Indexes \cup {Nil} /\ entries[prev].next = from
    BY <2>1, <2>2, <1>i, Parts DEF TableInv
  <2>4. removeFrom(r, prev, from)
    BY <1>4, <2>2 DEF removeRound
  <2>5. /\ TableInv' /\ step' \in {"read", "remove"}
        /\ rm' \in [reg : Registers, entry : Indexes \cup {Nil}]
        /\ RemovedIsFree'
    BY <2>3, <2>4, <1>i, RemoveFromKeeps
  <2>6. OtherTypes'
    BY <1>4, <2>5, <1>i DEF removeRound, OtherTypes
  <2> QED
    BY <2>5, <2>6, JoinInv
<1>5. CASE UNCHANGED vars
  <2>1. TableInv'
    BY <1>5, <1>i, StateUnchanged DEF vars
  <2>2. OtherTypes' /\ RemovedIsFree'
    BY <1>5, <1>i DEF vars, state, OtherTypes, RemovedIsFree
  <2> QED
    BY <2>1, <2>2, JoinInv
<1> QED
  BY <1>1, <1>2, <1>3, <1>4, <1>5 DEF Next

\* The invariant of the table holds at every step of every program.
THEOREM InvariantHolds == Spec => []IndInv
BY InitInv, NextInv, PTL DEF Spec

\* The table stays well-formed, whatever opcodes run: every index is one of an entry or
\* none, and the stack of states never holds fewer than one nor more than its maximum.
THEOREM TypeCorrect == Spec => []TypeOK
<1>1. IndInv => TypeOK
  BY DEF IndInv
<1> QED
  BY <1>1, InvariantHolds, PTL

\* EntriesAreShared holds: no two lists, of whatever states and buckets, share an entry.
LEMMA ListsAreDisjoint == IndInv => EntriesAreShared
<1> SUFFICES ASSUME IndInv PROVE EntriesAreShared
  OBVIOUS
<1>n. StateTypes /\ Nil \notin Indexes
  BY NilIsNoIndex, SplitInv DEF TableInv
<1>1. PICK level \in LevelsOf : Belongs(level)
  BY DEF IndInv
<1> DEFINE chain == [x \in (1 .. depth) \X Slots |-> Chain(stack[x[1]].table[x[2]])]
<1>2. ASSUME NEW d \in 1 .. depth, NEW b \in Slots, NEW e \in Chain(stack[d].table[b])
      PROVE  e \in Indexes /\ level[e] = d /\ d > 0 /\ Bucket(entries[e].reg) = b
  BY <1>1, <1>n, ChainBelongs
<1>3. \A e \in Chain(free) : level[e] = 0
  BY <1>1, <1>n, FreeBelongs
<1>4. ASSUME NEW d \in 1 .. depth, NEW b \in Slots, NEW e \in Chain(stack[d].table[b])
      PROVE  /\ Bucket(entries[e].reg) = b
             /\ e \notin Chain(free)
             /\ \A f \in 1 .. depth, c \in Slots :
                   e \in Chain(stack[f].table[c]) => f = d /\ c = b
             /\ \A f \in Chain(stack[d].table[b]) : entries[f].reg = entries[e].reg => f = e
  <2>1. e \in Indexes /\ level[e] = d /\ d > 0 /\ Bucket(entries[e].reg) = b
    BY <1>2
  <2>2. e \notin Chain(free)
    BY <2>1, <1>3
  <2>3. \A f \in 1 .. depth, c \in Slots : e \in Chain(stack[f].table[c]) => f = d /\ c = b
    BY <2>1, <1>2
  <2>4. \A f \in Chain(stack[d].table[b]) : entries[f].reg = entries[e].reg => f = e
    BY <2>1, <1>1, <1>2 DEF Belongs, OnePerRegister
  <2> QED
    BY <2>1, <2>2, <2>3, <2>4
<1>5. DOMAIN chain = (1 .. depth) \X Slots
  OBVIOUS
<1>6. \A x \in (1 .. depth) \X Slots :
         /\ x = <<x[1], x[2]>> /\ x[1] \in 1 .. depth /\ x[2] \in Slots
         /\ chain[x] = Chain(stack[x[1]].table[x[2]])
  OBVIOUS
<1>7. ASSUME NEW x \in DOMAIN chain, NEW e \in chain[x]
      PROVE  /\ Bucket(entries[e].reg) = x[2]
             /\ e \notin Chain(free)
             /\ \A y \in DOMAIN chain \ {x} : e \notin chain[y]
             /\ \A f \in chain[x] : entries[f].reg = entries[e].reg => f = e
  <2> HIDE DEF chain
  <2>1. x[1] \in 1 .. depth /\ x[2] \in Slots /\ e \in Chain(stack[x[1]].table[x[2]])
    BY <1>5, <1>6, <1>7
  <2>2. ASSUME NEW y \in DOMAIN chain, e \in chain[y] PROVE y = x
    <3>1. y[1] \in 1 .. depth /\ y[2] \in Slots /\ e \in Chain(stack[y[1]].table[y[2]])
      BY <1>5, <1>6, <2>2
    <3>2. y[1] = x[1] /\ y[2] = x[2]
      BY <1>4, <2>1, <3>1
    <3>3. y = <<y[1], y[2]>> /\ x = <<x[1], x[2]>>
      BY <1>5, <1>6, <1>7, <2>2
    <3> QED
      BY <3>2, <3>3
  <2>3. chain[x] = Chain(stack[x[1]].table[x[2]])
    BY <1>5, <1>6, <1>7
  <2> QED
    BY <1>4, <2>1, <2>2, <2>3
<1> QED
  BY <1>7 DEF EntriesAreShared

\* No entry of the lists that all states share is ever in two of them, or twice for a
\* register in one, whatever opcodes run.
THEOREM SharedEntriesNeverMix == Spec => []EntriesAreShared
BY ListsAreDisjoint, InvariantHolds, PTL

----------------------------------------------------------------------------
(* The rows that the lists stand for.                                      *)

\* A rule stays when its entry does.
LEMMA RuleStays ==
    ASSUME NEW d, NEW c,
           EntriesFor(stack[d], c)' = EntriesFor(stack[d], c),
           \A e \in EntriesFor(stack[d], c) : entries'[e].rule = entries[e].rule
    PROVE  Rule(stack[d], c)' = Rule(stack[d], c)
<1> DEFINE found == EntriesFor(stack[d], c)
           e == CHOOSE x \in found : TRUE
<1>1. CASE found = {}
  BY <1>1 DEF Rule
<1>2. CASE found # {}
  <2>1. e \in found
    BY <1>2
  <2>2. Rule(stack[d], c) = entries[e].rule /\ Rule(stack[d], c)' = entries'[e].rule
    BY <1>2 DEF Rule
  <2> QED
    BY <2>1, <2>2
<1> QED
  BY <1>1, <1>2

\* The current rule of r becomes rule, all others stay.
RuleChanges(r, rule) ==
    /\ Len(stack') = Len(stack)
    /\ \A d \in 1 .. depth : stack'[d].cfa = stack[d].cfa
    /\ \A d \in 1 .. depth, c \in Registers :
          Rule(stack[d], c)' = IF d = depth /\ c = r THEN rule ELSE Rule(stack[d], c)

LEMMA InsertedChanges ==
    ASSUME IndInv, StateTypes', NEW r \in Registers, NEW rule, NEW parent, Inserted(r, rule, parent)
    PROVE  RuleChanges(r, rule)
<1>s. StateTypes /\ TableInv /\ Nil \notin Indexes /\ Links \in Nexts
  BY SplitInv, NilIsNoIndex, Parts DEF TableInv
<1>t. \A x \in Indexes : Links[x] = entries[x].next /\ Links'[x] = entries'[x].next
  BY DEF Links
<1>n. Links' \in Nexts
  BY DEF StateTypes, Links, Nexts
<1>1. PICK level \in LevelsOf : Belongs(level)
  BY <1>s DEF TableInv
<1>f. free \in Indexes /\ free # Nil
  BY <1>s DEF Inserted, StateTypes
<1>2. ListFor(r) \subseteq Indexes /\ free \notin ListFor(r)
  BY <1>1, <1>s, ListForBelongs
<1>d. depth \in 1 .. depth /\ Bucket(r) \in Slots /\ current = stack[depth]
  BY <1>s, Parts, BucketsAreSlots DEF current
<1>3. ASSUME NEW d \in 1 .. depth, NEW b \in Slots
      PROVE  Reach(Links', stack'[d].table[b]) =
                IF d = depth /\ b = Bucket(r) THEN Chain(stack[d].table[b]) \cup {free}
                ELSE Chain(stack[d].table[b])
  <2> DEFINE head == stack[d].table[b]
  <2>1. head \in Indexes \cup {Nil}
    BY <1>s, Parts
  <2>2. \A x \in Chain(head) : x \in Indexes /\ level[x] = d /\ d > 0 /\ Bucket(entries[x].reg) = b
    BY <1>1, <1>s, ChainBelongs
  <2>3. CASE ~ (d = depth /\ b = Bucket(r))
    <3>1. stack'[d].table[b] = head
      BY <2>3 DEF Inserted
    <3>2. ASSUME NEW x \in Reach(Links, head) PROVE Links'[x] = Links[x]
      <4>1. x \in Indexes /\ level[x] = d /\ d > 0 /\ Bucket(entries[x].reg) = b
        BY <2>2 DEF Chain
      <4>2. x # free
        BY <4>1, <1>1, <1>f DEF Belongs, HeadsBelong
      <4>3. x \notin ListFor(r)
        BY <4>1, <2>3, <1>1, <1>s, ListForBelongs
      <4> QED
        BY <4>1, <4>2, <4>3, <1>t DEF Inserted
    <3>3. Reach(Links', head) = Reach(Links, head)
      BY <3>2, <2>1, <1>s, <1>n, ReachUnchanged
    <3> QED
      BY <2>3, <3>1, <3>3 DEF Chain
  <2>4. CASE d = depth /\ b = Bucket(r)
    <3>1. Chain(head) = ListFor(r) /\ Chain(head) = Reach(Links, head)
      BY <2>4, <1>d DEF ListFor, Chain
    <3>2. CASE ListFor(r) = {}
      <4>1. stack'[d].table[b] = free
        BY <2>4, <3>2 DEF Inserted
      <4>2. Links'[free] = Nil
        BY <1>f, <1>t DEF Inserted
      <4>3. Reach(Links', free) = {free} \cup Reach(Links', Nil)
        BY <4>2, <1>f, <1>n, ReachFromNext
      <4>4. Reach(Links', free) = {free}
        BY <4>3, ReachIndexes
      <4>5. Reach(Links', stack'[d].table[b]) = {free} /\ Chain(head) = {}
        BY <3>1, <3>2, <4>1, <4>4
      <4> QED
        BY <2>4, <4>5
    <3>3. CASE ListFor(r) # {}
      <4>1. stack'[d].table[b] = head
        BY <3>3 DEF Inserted
      <4>2. head \in Indexes
        BY <2>1, <3>1, <3>3, ReachIndexes
      <4>3. /\ parent \in Reach(Links, head) /\ free \in Indexes \ Reach(Links, head)
            /\ Links[parent] = Nil
        BY <3>1, <3>3, <1>2, <1>f, <1>t DEF Inserted
      <4>4. Links'[parent] = free /\ Links'[free] = Nil
        BY <3>1, <3>3, <4>3, <1>2, <1>f, <1>t DEF Inserted
      <4>5. \A x \in Reach(Links, head) \ {parent} : Links'[x] = Links[x]
        BY <3>1, <1>2, <1>t DEF Inserted
      <4>6. PICK f : f = free
        OBVIOUS
      <4>7. Reach(Links', head) = Reach(Links, head) \cup {f}
        BY <4>2, <4>3, <4>4, <4>5, <4>6, <1>s, <1>n, ReachAppended
      <4> QED
        BY <2>4, <3>1, <4>1, <4>6, <4>7
    <3> QED
      BY <3>2, <3>3
  <2> QED
    BY <2>3, <2>4
<1>4. ASSUME NEW d \in 1 .. depth, NEW c \in Registers
      PROVE  Rule(stack[d], c)' = IF d = depth /\ c = r THEN rule ELSE Rule(stack[d], c)
  <2>b. Bucket(c) \in Slots
    BY BucketsAreSlots
  <2>1. EntriesFor(stack[d], c) = {e \in Chain(stack[d].table[Bucket(c)]) : entries[e].reg = c}
    BY DEF EntriesFor
  <2>2. EntriesFor(stack[d], c)' = {e \in Reach(Links', stack'[d].table[Bucket(c)]) : entries'[e].reg = c}
    BY DEF EntriesFor, Bucket, Chain
  <2>3. Chain(stack[d].table[Bucket(c)]) \subseteq Indexes
    BY ReachIndexes DEF Chain
  <2>4. free \notin Chain(stack[d].table[Bucket(c)])
    <3>1. level[free] = 0
      BY <1>1, <1>f DEF Belongs, HeadsBelong
    <3> QED
      BY <3>1, <2>b, <1>1, <1>s, ChainBelongs
  <2>7. \A e \in Chain(stack[d].table[Bucket(c)]) : entries'[e].reg = entries[e].reg
    BY <2>3, <2>4 DEF Inserted
  <2>5. CASE d = depth /\ c = r
    <3>1. EntriesFor(stack[d], c)' = {free}
      <4>1. EntriesFor(stack[d], c) = {}
        BY <2>5, <1>d DEF Inserted
      <4>2. entries'[free].reg = r
        BY <1>f DEF Inserted
      <4>3. Reach(Links', stack'[d].table[Bucket(c)]) = Chain(stack[d].table[Bucket(c)]) \cup {free}
        BY <1>3, <2>5, <2>b
      <4> QED
        BY <2>5, <2>1, <2>2, <2>7, <4>1, <4>2, <4>3
    <3>2. Rule(stack[d], c)' = entries'[free].rule
      BY <3>1 DEF Rule
    <3> QED
      BY <2>5, <3>2, <1>f DEF Inserted
  <2>6. CASE ~ (d = depth /\ c = r)
    <3>1. EntriesFor(stack[d], c)' = EntriesFor(stack[d], c)
      <4>1. CASE d = depth /\ Bucket(c) = Bucket(r)
        <5>1. entries'[free].reg = r /\ r # c
          BY <2>6, <4>1, <1>f DEF Inserted
        <5>2. Reach(Links', stack'[d].table[Bucket(c)]) = Chain(stack[d].table[Bucket(c)]) \cup {free}
          BY <1>3, <2>b, <4>1
        <5> QED
          BY <2>1, <2>2, <2>7, <5>1, <5>2
      <4>2. CASE ~ (d = depth /\ Bucket(c) = Bucket(r))
        <5>1. Reach(Links', stack'[d].table[Bucket(c)]) = Chain(stack[d].table[Bucket(c)])
          BY <1>3, <2>b, <4>2
        <5> QED
          BY <2>1, <2>2, <2>7, <5>1
      <4> QED
        BY <4>1, <4>2
    <3>2. \A e \in EntriesFor(stack[d], c) : entries'[e].rule = entries[e].rule
      BY <2>1, <2>3, <2>4 DEF Inserted
    <3>3. Rule(stack[d], c)' = Rule(stack[d], c)
      BY <3>1, <3>2, RuleStays
    <3> QED
      BY <3>3, <2>6
  <2> QED
    BY <2>5, <2>6
<1> QED
  BY <1>4 DEF RuleChanges, Inserted

LEMMA RevaluedChanges ==
    ASSUME IndInv, NEW r \in Registers, NEW rule, NEW x \in EntriesFor(current, r), Revalued(x, rule)
    PROVE  RuleChanges(r, rule)
<1>s. StateTypes /\ TableInv
  BY SplitInv DEF TableInv
<1>d. depth \in 1 .. depth /\ Bucket(r) \in Slots /\ current = stack[depth]
  BY <1>s, Parts, BucketsAreSlots DEF current
<1>1. PICK level \in LevelsOf : Belongs(level)
  BY <1>s DEF TableInv
<1>2. Links' = Links
  BY DEF Links, Revalued
<1>3. x \in Chain(stack[depth].table[Bucket(r)]) /\ entries[x].reg = r
  BY <1>d DEF EntriesFor
<1>4. x \in Indexes /\ level[x] = depth /\ depth > 0
  BY <1>1, <1>3, <1>d, <1>s, ChainBelongs
<1>5. ASSUME NEW d \in 1 .. depth, NEW c \in Registers
      PROVE  Rule(stack[d], c)' = IF d = depth /\ c = r THEN rule ELSE Rule(stack[d], c)
  <2>b. Bucket(c) \in Slots
    BY BucketsAreSlots
  <2>1. EntriesFor(stack[d], c) = {e \in Chain(stack[d].table[Bucket(c)]) : entries[e].reg = c}
    BY DEF EntriesFor
  <2>2. EntriesFor(stack[d], c)' = {e \in Reach(Links', stack'[d].table[Bucket(c)]) : entries'[e].reg = c}
    BY DEF EntriesFor, Bucket, Chain
  <2>3. \A e \in Chain(stack[d].table[Bucket(c)]) : e \in Indexes /\ level[e] = d
    BY <2>b, <1>1, <1>s, ChainBelongs
  <2>4. Reach(Links', stack'[d].table[Bucket(c)]) = Chain(stack[d].table[Bucket(c)])
    BY <1>2 DEF Revalued, Chain
  <2>5. EntriesFor(stack[d], c)' = EntriesFor(stack[d], c)
    BY <2>1, <2>2, <2>3, <2>4 DEF Revalued
  <2>6. CASE d = depth /\ c = r
    <3>1. EntriesFor(stack[d], c) = {x}
      BY <2>1, <2>3, <2>6, <1>1, <1>3, <1>4 DEF Belongs, OnePerRegister
    <3>2. Rule(stack[d], c)' = entries'[x].rule
      BY <3>1, <2>5 DEF Rule
    <3> QED
      BY <2>6, <3>2, <1>4 DEF Revalued
  <2>7. CASE ~ (d = depth /\ c = r)
    <3>1. x \notin EntriesFor(stack[d], c)
      BY <2>1, <2>3, <2>7, <1>3, <1>4
    <3>2. \A e \in EntriesFor(stack[d], c) : entries'[e].rule = entries[e].rule
      BY <2>1, <2>3, <3>1 DEF Revalued
    <3>3. Rule(stack[d], c)' = Rule(stack[d], c)
      BY <3>2, <2>5, RuleStays
    <3> QED
      BY <3>3, <2>7
  <2> QED
    BY <2>6, <2>7
<1> QED
  BY <1>5 DEF RuleChanges, Revalued

\* All rules stay.
RulesStay ==
    /\ Len(stack') = Len(stack)
    /\ \A d \in 1 .. depth : stack'[d].cfa = stack[d].cfa
    /\ \A d \in 1 .. depth, c \in Registers : Rule(stack[d], c)' = Rule(stack[d], c)

\* What was taken from the free list and put back there was in no row.
LEMMA RemovedFromFree ==
    ASSUME IndInv, StateTypes', NEW b \in Slots, free # Nil,
           NEW e \in Chain(entries[free].next), NEW before \in Chain(entries[free].next) \cup {free},
           Removed(e, before, b)
    PROVE  RulesStay
<1>s. StateTypes /\ TableInv /\ Nil \notin Indexes /\ Links \in Nexts
  BY SplitInv, NilIsNoIndex, Parts DEF TableInv
<1>t. \A x \in Indexes : Links[x] = entries[x].next /\ Links'[x] = entries'[x].next
  BY DEF Links
<1>n. Links' \in Nexts
  BY DEF StateTypes, Links, Nexts
<1>1. PICK level \in LevelsOf : Belongs(level)
  BY <1>s DEF TableInv
<1>f. free \in Indexes
  BY <1>s DEF StateTypes
<1>2. e \in Chain(free) /\ before \in Chain(free)
  BY <1>f, <1>s, <1>t, ReachFromNext DEF Chain
<1>3. e \in Indexes /\ before \in Indexes /\ level[e] = 0 /\ level[before] = 0
  BY <1>1, <1>2, <1>s, FreeBelongs
<1>4. ASSUME NEW d \in 1 .. depth, NEW c \in Registers
      PROVE  Rule(stack[d], c)' = Rule(stack[d], c)
  <2> DEFINE head == stack[d].table[Bucket(c)]
  <2>b. Bucket(c) \in Slots
    BY BucketsAreSlots
  <2>1. EntriesFor(stack[d], c) = {x \in Chain(head) : entries[x].reg = c}
    BY DEF EntriesFor
  <2>2. EntriesFor(stack[d], c)' = {x \in Reach(Links', stack'[d].table[Bucket(c)]) : entries'[x].reg = c}
    BY DEF EntriesFor, Bucket, Chain
  <2>3. \A x \in Chain(head) : x \in Indexes /\ x # e /\ x # before
    BY <2>b, <1>1, <1>3, <1>s, ChainBelongs
  <2>4. stack'[d].table[Bucket(c)] = head /\ head \in Indexes \cup {Nil}
    BY <2>b, <1>3, <1>s, Parts DEF Removed
  <2>5. \A x \in Reach(Links, head) : Links'[x] = Links[x]
    BY <2>3, <1>t DEF Removed, Chain
  <2>6. Reach(Links', head) = Chain(head)
    BY <2>4, <2>5, <1>s, <1>n, ReachUnchanged DEF Chain
  <2>7. \A x \in Chain(head) : entries'[x].reg = entries[x].reg /\ entries'[x].rule = entries[x].rule
    BY <2>3 DEF Removed
  <2>8. EntriesFor(stack[d], c)' = EntriesFor(stack[d], c)
    BY <2>1, <2>2, <2>4, <2>6, <2>7
  <2> QED
    BY <2>1, <2>7, <2>8, RuleStays
<1> QED
  BY <1>4 DEF RulesStay, Removed

\* What was taken from the list of its bucket was the current rule of its register.
LEMMA RemovedChanges ==
    ASSUME IndInv, StateTypes', NEW r \in Registers,
           NEW e \in Chain(current.table[Bucket(r)]), entries[e].reg = r,
           NEW before \in Chain(current.table[Bucket(r)]) \cup {Nil},
           Removed(e, before, Bucket(r))
    PROVE  RuleChanges(r, NoRule)
<1> DEFINE h == stack[depth].table[Bucket(r)]
           R == Reach(Links, h)
<1>s. /\ StateTypes /\ TableInv /\ OneParent /\ HeadsHaveNone
      /\ Nil \notin Indexes /\ Links \in Nexts
  BY SplitInv, NilIsNoIndex, Parts DEF TableInv
<1>t. \A x \in Indexes : /\ Links[x] = entries[x].next /\ Links'[x] = entries'[x].next
                         /\ entries[x].next \in Indexes \cup {Nil}
  BY <1>s, Parts DEF Links
<1>n. Links' \in Nexts
  BY DEF StateTypes, Links, Nexts
<1>d. depth \in 1 .. depth /\ Bucket(r) \in Slots /\ current = stack[depth]
  BY <1>s, Parts, BucketsAreSlots DEF current
<1>1. PICK level \in LevelsOf : Belongs(level)
  BY <1>s DEF TableInv
<1>2. e \in R /\ before \in R \cup {Nil} /\ R = Chain(h) /\ R \subseteq Indexes
  BY <1>d, ReachIndexes DEF Chain
<1>3. \A x \in R : level[x] = depth /\ Bucket(entries[x].reg) = Bucket(r) /\ depth > 0
  BY <1>1, <1>2, <1>d, <1>s, ChainBelongs
<1>h. h \in Indexes /\ h \in Heads
  <2>1. h # Nil
    BY <1>2, ReachIndexes
  <2> QED
    BY <2>1, <1>d, <1>s, Parts DEF Heads
<1>p. \A x \in Indexes : Links[x] # h
  BY <1>h, <1>s, NoneBeforeHeads
<1>4. Reach(Links', stack'[depth].table[Bucket(r)]) = R \ {e}
  <2>1. CASE before = Nil
    <3>1. h = e /\ stack'[depth].table[Bucket(r)] = Links[h]
      BY <2>1, <1>d, <1>h, <1>t DEF Removed
    <3>2. Reach(Links, Links[h]) = R \ {e}
      BY <3>1, <1>h, <1>p, <1>s, ReachWithoutFirst
    <3>3. \A x \in Reach(Links, Links[h]) : Links'[x] = Links[x]
      BY <2>1, <3>2, <1>2, <1>s, <1>t DEF Removed
    <3>4. Reach(Links', Links[h]) = Reach(Links, Links[h])
      <4>1. Links[h] \in Indexes \cup {Nil}
        BY <1>h, <1>t
      <4> QED
        BY <3>3, <4>1, <1>s, <1>n, ReachUnchanged
    <3> QED
      BY <3>1, <3>2, <3>4
  <2>2. CASE before # Nil
    <3>1. before \in R /\ Links[before] = e /\ before # e
      BY <2>2, <1>2, <1>t DEF Removed
    <3>2. e # h
      BY <3>1, <1>2, <1>p
    <3>3. \A y \in R : Links[y] = e => y = before
      BY <3>1, <1>2, <1>s, <1>t DEF OneParent
    <3>4. Links'[before] = Links[e] /\ \A y \in R \ {before, e} : Links'[y] = Links[y]
      BY <3>1, <1>2, <1>t DEF Removed
    <3>5. stack'[depth].table[Bucket(r)] = h
      BY <2>2, <1>d DEF Removed
    <3>6. Reach(Links', h) = R \ {e}
      BY <3>1, <3>2, <3>3, <3>4, <1>2, <1>h, <1>s, <1>n, ReachRemoved
    <3> QED
      BY <3>5, <3>6
  <2> QED
    BY <2>1, <2>2
<1> HIDE DEF R
<1>5. ASSUME NEW d \in 1 .. depth, NEW b \in Slots, ~ (d = depth /\ b = Bucket(r))
      PROVE  Reach(Links', stack'[d].table[b]) = Chain(stack[d].table[b])
  <2> DEFINE head == stack[d].table[b]
  <2>1. stack'[d].table[b] = head /\ head \in Indexes \cup {Nil}
    BY <1>5, <1>s, Parts DEF Removed
  <2>2. \A x \in Chain(head) : x \in Indexes /\ level[x] = d /\ Bucket(entries[x].reg) = b
    BY <1>1, <1>s, ChainBelongs
  <2>3. \A x \in Chain(head) : x \notin R
    BY <2>2, <1>3, <1>5
  <2>4. \A x \in Reach(Links, head) : Links'[x] = Links[x]
    BY <2>2, <2>3, <1>2, <1>s, <1>t DEF Removed, Chain
  <2>5. Reach(Links', head) = Reach(Links, head)
    BY <2>1, <2>4, <1>s, <1>n, ReachUnchanged
  <2> QED
    BY <2>1, <2>5 DEF Chain
<1>6. ASSUME NEW d \in 1 .. depth, NEW c \in Registers
      PROVE  Rule(stack[d], c)' = IF d = depth /\ c = r THEN NoRule ELSE Rule(stack[d], c)
  <2> DEFINE chain == Chain(stack[d].table[Bucket(c)])
  <2>b. Bucket(c) \in Slots
    BY BucketsAreSlots
  <2>1. EntriesFor(stack[d], c) = {x \in chain : entries[x].reg = c}
    BY DEF EntriesFor
  <2>2. EntriesFor(stack[d], c)' = {x \in Reach(Links', stack'[d].table[Bucket(c)]) : entries'[x].reg = c}
    BY DEF EntriesFor, Bucket, Chain
  <2>3. \A x \in chain : entries'[x].reg = entries[x].reg /\ entries'[x].rule = entries[x].rule
    BY ReachIndexes DEF Removed, Chain
  <2> HIDE DEF chain
  <2>4. CASE d = depth /\ Bucket(c) = Bucket(r)
    <3>1. chain = R /\ Reach(Links', stack'[d].table[Bucket(c)]) = R \ {e}
      BY <2>4, <1>2, <1>4 DEF chain
    <3>2. CASE c = r
      <4>1. ASSUME NEW x \in R, entries[x].reg = r PROVE x = e
        BY <4>1, <1>1, <1>2, <1>3 DEF Belongs, OnePerRegister
      <4>2. EntriesFor(stack[d], c)' = {}
        BY <2>2, <2>3, <3>1, <3>2, <4>1
      <4>3. Rule(stack[d], c)' = NoRule
        BY <4>2 DEF Rule
      <4> QED
        BY <2>4, <3>2, <4>3
    <3>3. CASE c # r
      <4>1. EntriesFor(stack[d], c)' = EntriesFor(stack[d], c)
        BY <2>1, <2>2, <2>3, <3>1, <3>3
      <4>2. Rule(stack[d], c)' = Rule(stack[d], c)
        BY <2>1, <2>3, <4>1, RuleStays
      <4> QED
        BY <3>3, <4>2
    <3> QED
      BY <3>2, <3>3
  <2>5. CASE ~ (d = depth /\ Bucket(c) = Bucket(r))
    <3>1. Reach(Links', stack'[d].table[Bucket(c)]) = chain
      BY <2>b, <2>5, <1>5 DEF chain
    <3>2. EntriesFor(stack[d], c)' = EntriesFor(stack[d], c)
      BY <2>1, <2>2, <2>3, <3>1
    <3>3. Rule(stack[d], c)' = Rule(stack[d], c)
      BY <2>1, <2>3, <3>2, RuleStays
    <3> QED
      BY <2>5, <3>3
  <2> QED
    BY <2>4, <2>5
<1> QED
  BY <1>6 DEF RuleChanges, Removed

LEMMA RowsOfTable ==
    ASSUME StateTypes
    PROVE  /\ DOMAIN TableRows = 1 .. depth /\ Len(TableRows) = depth
           /\ \A d \in 1 .. depth :
                 TableRows[d] = [rule |-> [c \in Registers |-> Rule(stack[d], c)], cfa |-> stack[d].cfa]
<1>1. depth \in Nat
  BY Parts
<1> QED
  BY <1>1 DEF TableRows, Row

LEMMA RowsAfter ==
    ASSUME Len(stack') = Len(stack)
    PROVE  TableRows' = [d \in 1 .. depth |-> [rule |-> [c \in Registers |-> Rule(stack[d], c)'],
                                               cfa |-> stack'[d].cfa]]
BY DEF TableRows, Row, depth

\* A changed rule is a step of the rows.
LEMMA ChangeOfRows ==
    ASSUME StateTypes, NEW r \in Registers, NEW rule \in Rules \cup {NoRule}, RuleChanges(r, rule),
           initial' = initial
    PROVE  Rows!DefineRule(r, rule)
<1>1. PICK old : old = TableRows
  OBVIOUS
<1>2. depth \in 1 .. depth
  BY Parts
<1> DEFINE row(d) == [rule |-> [c \in Registers |-> IF d = depth /\ c = r THEN rule
                                                     ELSE Rule(stack[d], c)],
                      cfa |-> stack[d].cfa]
<1>3. TableRows' = [d \in 1 .. depth |-> row(d)]
  <2>1. \A d \in 1 .. depth :
           /\ [c \in Registers |-> Rule(stack[d], c)'] =
                 [c \in Registers |-> IF d = depth /\ c = r THEN rule ELSE Rule(stack[d], c)]
           /\ stack'[d].cfa = stack[d].cfa
    BY DEF RuleChanges
  <2> QED
    BY <2>1, RowsAfter DEF RuleChanges
<1>4. ASSUME NEW d \in 1 .. depth, d # depth PROVE row(d) = old[d]
  <2>1. [c \in Registers |-> IF d = depth /\ c = r THEN rule ELSE Rule(stack[d], c)] =
          [c \in Registers |-> Rule(stack[d], c)]
    BY <1>4
  <2> QED
    BY <1>1, <2>1, RowsOfTable
<1>5. row(depth) = [old[depth] EXCEPT !.rule = [old[depth].rule EXCEPT ![r] = rule]]
  <2>1. old[depth] = [rule |-> [c \in Registers |-> Rule(stack[depth], c)], cfa |-> stack[depth].cfa]
    BY <1>1, <1>2, RowsOfTable
  <2>2. row(depth).rule = [[c \in Registers |-> Rule(stack[depth], c)] EXCEPT ![r] = rule]
    OBVIOUS
  <2> QED
    BY <2>1, <2>2
<1>6. TableRows' = [old EXCEPT ![depth] = [old[depth] EXCEPT !.rule = [old[depth].rule EXCEPT ![r] = rule]]]
  <2>1. old = [d \in 1 .. depth |-> old[d]]
    BY <1>1 DEF TableRows
  <2> HIDE DEF row
  <2> QED
    BY <1>2, <1>3, <1>4, <1>5, <2>1
<1>7. Len(TableRows) = depth
  BY RowsOfTable
<1>8. TableRows' = [TableRows EXCEPT ![Len(TableRows)].rule[r] = rule]
  BY <1>1, <1>6, <1>7
<1> QED
  BY <1>8 DEF Rows!DefineRule

LEMMA StayOfRows ==
    ASSUME StateTypes, RulesStay
    PROVE  TableRows' = TableRows
<1>1. \A d \in 1 .. depth : [c \in Registers |-> Rule(stack[d], c)'] = [c \in Registers |-> Rule(stack[d], c)]
  BY DEF RulesStay
<1> QED
  BY <1>1, RowsAfter DEF RulesStay, TableRows, Row

LEMMA RowsInit == Init => Rows!Init
<1> SUFFICES ASSUME Init PROVE Rows!Init
  OBVIOUS
<1>1. depth = 1 /\ stack[1] = EmptyState
  BY DEF Init, depth
<1>2. \A r \in Registers : Rule(EmptyState, r) = NoRule
  <2>1. SUFFICES ASSUME NEW r \in Registers PROVE EntriesFor(EmptyState, r) = {}
    BY DEF Rule
  <2>2. EmptyState.table[Bucket(r)] = Nil
    BY BucketsAreSlots DEF EmptyState
  <2> QED
    BY <2>2, ReachIndexes DEF EntriesFor, Chain
<1>3. TableRows = <<[rule |-> Row(EmptyState), cfa |-> Undefined]>>
  BY <1>1 DEF TableRows, EmptyState
<1>4. Row(EmptyState) = [r \in Registers |-> NoRule]
  BY <1>2 DEF Row
<1>5. initial = Rows!EmptyRow.rule
  BY DEF Init, EmptyRow, Rows!EmptyRow
<1> QED
  BY <1>3, <1>4, <1>5 DEF Rows!Init, Rows!EmptyRow, Undefined

LEMMA UnchangedRows == UNCHANGED state => TableRows' = TableRows
BY DEF state, TableRows, Row, Rule, EntriesFor, Chain, Links, depth, Bucket

LEMMA SetRegisterDefinesRule ==
    ASSUME IndInv, NEW r \in Registers, NEW rule \in Rules, set_register(r, rule),
           initial' = initial
    PROVE  Rows!DefineRule(r, rule) \/ Fails
<1>s. StateTypes /\ TableInv
  BY SplitInv DEF TableInv
<1>1. StateTypes'
  BY <1>s, SetRegisterDoes
<1>2. CASE UNCHANGED state /\ step' = "failed"
  BY <1>2, UnchangedRows DEF Fails, NoRowChanges
<1>3. ASSUME NEW x \in EntriesFor(current, r), Revalued(x, rule) PROVE Rows!DefineRule(r, rule)
  <2>1. RuleChanges(r, rule)
    BY <1>3, RevaluedChanges
  <2> QED
    BY <2>1, <1>s, ChangeOfRows
<1>4. ASSUME NEW parent, Inserted(r, rule, parent) PROVE Rows!DefineRule(r, rule)
  <2>1. RuleChanges(r, rule)
    BY <1>1, <1>4, InsertedChanges
  <2> QED
    BY <2>1, <1>s, ChangeOfRows
<1> QED
  BY <1>s, <1>2, <1>3, <1>4, SetRegisterDoes

\* A rule that is not there is undefined already.
LEMMA NoRuleStays ==
    ASSUME StateTypes, NEW r \in Registers, Rule(current, r) = NoRule,
           TableRows' = TableRows, initial' = initial
    PROVE  Rows!Undefine(r)
<1>1. PICK old : old = TableRows
  OBVIOUS
<1>2. depth \in 1 .. depth /\ Len(old) = depth /\ old = [d \in 1 .. depth |-> old[d]]
  BY <1>1, Parts, RowsOfTable DEF TableRows
<1>3. old[depth] = [rule |-> [c \in Registers |-> Rule(stack[depth], c)], cfa |-> stack[depth].cfa]
  BY <1>1, <1>2, RowsOfTable
<1>4. [old[depth].rule EXCEPT ![r] = NoRule] = old[depth].rule
  BY <1>3 DEF current
<1>5. [old[depth] EXCEPT !.rule = [old[depth].rule EXCEPT ![r] = NoRule]] = old[depth]
  BY <1>3, <1>4
<1>6. [old EXCEPT ![depth] = [old[depth] EXCEPT !.rule = [old[depth].rule EXCEPT ![r] = NoRule]]] = old
  BY <1>2, <1>5
<1>7. TableRows' = [TableRows EXCEPT ![Len(TableRows)].rule[r] = NoRule]
  BY <1>1, <1>2, <1>6
<1> QED
  BY <1>7 DEF Rows!Undefine, Rows!DefineRule

LEMMA RemoveRegisterUndefines ==
    ASSUME IndInv, NEW r \in Registers, remove_register(r), initial' = initial
    PROVE  Rows!Undefine(r)
<1>s. StateTypes /\ TableInv /\ Nil \notin Indexes
  BY SplitInv, NilIsNoIndex DEF TableInv
<1>1. PICK from : from = current.table[Bucket(r)]
  OBVIOUS
<1>2. from \in Indexes \cup {Nil}
  BY <1>1, <1>s, Parts, BucketsAreSlots DEF current
<1>3. removeFrom(r, Nil, from)
  BY <1>1 DEF remove_register
<1>4. /\ StateTypes'
      /\ \/ UNCHANGED state /\ \A x \in Chain(from) : entries[x].reg # r
         \/ \E e \in Chain(from), before \in Indexes \cup {Nil} :
               /\ entries[e].reg = r /\ before \in Chain(from) \cup {Nil}
               /\ Removed(e, before, Bucket(r))
  BY <1>1, <1>2, <1>3, <1>s, RemoveFromDoes
<1>5. CASE UNCHANGED state /\ \A x \in Chain(from) : entries[x].reg # r
  <2>1. Rule(current, r) = NoRule
    BY <1>1, <1>5 DEF Rule, EntriesFor
  <2> QED
    BY <2>1, <1>5, <1>s, UnchangedRows, NoRuleStays
<1>6. ASSUME NEW e \in Chain(from), NEW before \in Indexes \cup {Nil},
             entries[e].reg = r, before \in Chain(from) \cup {Nil}, Removed(e, before, Bucket(r))
      PROVE  Rows!Undefine(r)
  <2>1. RuleChanges(r, NoRule)
    BY <1>1, <1>4, <1>6, RemovedChanges
  <2> QED
    BY <2>1, <1>s, ChangeOfRows DEF Rows!Undefine
<1> QED
  BY <1>4, <1>5, <1>6

LEMMA RemoveRoundIsNoChange ==
    ASSUME IndInv, removeRound
    PROVE  TableRows' = TableRows
<1>s. StateTypes /\ TableInv /\ OtherTypes /\ RemovedIsFree /\ Nil \notin Indexes
  BY SplitInv, NilIsNoIndex DEF TableInv
<1>1. /\ rm.entry = free /\ free \in Indexes /\ free # Nil /\ rm.reg \in Registers
      /\ free \in Heads
  BY <1>s DEF removeRound, RemovedIsFree, StateTypes, OtherTypes, Heads
<1>2. PICK r, prev, from : r = rm.reg /\ prev = rm.entry /\ from = entries[rm.entry].next
  OBVIOUS
<1>3. /\ r \in Registers /\ prev \in Indexes /\ prev # Nil /\ prev \in Heads
      /\ from \in Indexes \cup {Nil} /\ entries[prev].next = from
  BY <1>1, <1>2, <1>s, Parts
<1>4. removeFrom(r, prev, from)
  BY <1>2 DEF removeRound
<1>5. /\ StateTypes'
      /\ \/ UNCHANGED state
         \/ \E e \in Chain(from), before \in Indexes \cup {Nil} :
               before \in Chain(from) \cup {prev} /\ Removed(e, before, Bucket(r))
  BY <1>3, <1>4, <1>s, RemoveFromDoes
<1>6. CASE UNCHANGED state
  BY <1>6, UnchangedRows
<1>7. ASSUME NEW e \in Chain(from), NEW before \in Chain(from) \cup {prev}, Removed(e, before, Bucket(r))
      PROVE  TableRows' = TableRows
  <2>1. Bucket(r) \in Slots /\ from = entries[free].next /\ prev = free
    BY <1>1, <1>2, <1>3, BucketsAreSlots
  <2>2. RulesStay
    BY <1>1, <1>5, <1>7, <2>1, RemovedFromFree
  <2> QED
    BY <2>2, <1>s, StayOfRows
<1> QED
  BY <1>5, <1>6, <1>7

\* The rows stay where the entries and the lists' beginnings do.
LEMMA RowStays ==
    ASSUME entries' = entries, NEW d, stack'[d].table = stack[d].table
    PROVE  Row(stack[d])' = Row(stack[d])
BY DEF Row, Rule, EntriesFor, Chain, Links, Bucket

LEMMA EmptyStateHasNoRules == Row(EmptyState) = [r \in Registers |-> NoRule]
<1>1. SUFFICES ASSUME NEW r \in Registers PROVE EntriesFor(EmptyState, r) = {}
  BY DEF Row, Rule
<1>2. EmptyState.table[Bucket(r)] = Nil
  BY BucketsAreSlots DEF EmptyState
<1> QED
  BY <1>2, ReachIndexes DEF EntriesFor, Chain

LEMMA PushIsRemember ==
    ASSUME IndInv, push_state, initial' = initial
    PROVE  Rows!RememberState
<1>s. StateTypes /\ TableInv /\ stack \in Seq(States) /\ depth \in Nat /\ Len(stack) = depth
  BY SplitInv, Parts DEF TableInv, StateTypes, depth
<1>1. /\ entries' = entries /\ depth < MaxStates
      /\ depth' = depth + 1 /\ stack'[depth + 1] = EmptyState
      /\ \A d \in 1 .. depth : stack'[d] = stack[d]
  BY <1>s DEF push_state, depth
<1>2. Row(EmptyState)' = [r \in Registers |-> NoRule]
  BY EmptyStateHasNoRules, <1>1 DEF Row, Rule, EntriesFor, Chain, Links, Bucket, EmptyState
<1>3. \A d \in 1 .. depth : Row(stack[d])' = Row(stack[d]) /\ stack'[d].cfa = stack[d].cfa
  BY <1>1, RowStays
<1>4. ASSUME NEW d, d = depth + 1
      PROVE  Row(stack[d])' = Rows!EmptyRow.rule /\ stack'[d].cfa = Rows!EmptyRow.cfa
  <2>1. stack'[d] = EmptyState
    BY <1>1, <1>4
  <2>2. Row(stack[d])' = Row(EmptyState)'
    BY <2>1 DEF Row, Rule, EntriesFor, Chain, Links, Bucket, EmptyState
  <2> QED
    BY <1>2, <2>1, <2>2 DEF Rows!EmptyRow, EmptyState, Undefined
<1>5. TableRows' = [d \in 1 .. depth + 1 |-> [rule |-> Row(stack[d])', cfa |-> stack'[d].cfa]]
  BY <1>1 DEF TableRows
<1>6. TableRows' = Append(TableRows, Rows!EmptyRow)
  <2>1. Rows!EmptyRow = [rule |-> Rows!EmptyRow.rule, cfa |-> Rows!EmptyRow.cfa]
    BY DEF Rows!EmptyRow
  <2>2. Append(TableRows, Rows!EmptyRow) =
          [d \in 1 .. depth + 1 |-> IF d = depth + 1 THEN Rows!EmptyRow ELSE TableRows[d]]
    BY <1>s DEF TableRows
  <2>3. \A d \in 1 .. depth : TableRows[d] = [rule |-> Row(stack[d]), cfa |-> stack[d].cfa]
    BY DEF TableRows
  <2>4. ASSUME NEW d \in 1 .. depth + 1
        PROVE  [rule |-> Row(stack[d])', cfa |-> stack'[d].cfa] =
                  IF d = depth + 1 THEN Rows!EmptyRow ELSE TableRows[d]
    <3>1. CASE d = depth + 1
      <4>1. Row(stack[d])' = Rows!EmptyRow.rule /\ stack'[d].cfa = Rows!EmptyRow.cfa
        BY <3>1, <1>4
      <4>2. [rule |-> Row(stack[d])', cfa |-> stack'[d].cfa] = Rows!EmptyRow
        BY <2>1, <4>1
      <4> QED
        BY <3>1, <4>2
    <3>2. CASE d \in 1 .. depth
      BY <3>2, <1>s, <1>3, <2>3
    <3> QED
      BY <1>s, <3>1, <3>2
  <2> QED
    BY <1>5, <2>2, <2>4
<1> QED
  BY <1>s, <1>1, <1>6, RowsOfTable DEF Rows!RememberState

LEMMA PopIsRestore ==
    ASSUME IndInv, pop_state, initial' = initial
    PROVE  Rows!RestoreState
<1>s. StateTypes /\ TableInv /\ stack \in Seq(States) /\ depth \in Nat /\ Len(stack) = depth
  BY SplitInv, Parts DEF TableInv, StateTypes, depth
<1>1. /\ entries' = entries /\ depth > 1 /\ depth' = depth - 1
      /\ \A d \in 1 .. depth - 1 : stack'[d] = stack[d]
  BY <1>s DEF pop_state, depth
<1>2. \A d \in 1 .. depth - 1 : Row(stack[d])' = Row(stack[d]) /\ stack'[d].cfa = stack[d].cfa
  BY <1>1, RowStays
<1>3. TableRows' = [d \in 1 .. depth - 1 |-> [rule |-> Row(stack[d])', cfa |-> stack'[d].cfa]]
  BY <1>1 DEF TableRows
<1>4. \A d \in 1 .. depth - 1 : TableRows[d] = [rule |-> Row(stack[d]), cfa |-> stack[d].cfa]
  BY <1>s DEF TableRows
<1>5. SubSeq(TableRows, 1, depth - 1) = [d \in 1 .. depth - 1 |-> TableRows[d]]
  BY <1>s, <1>1 DEF TableRows
<1>6. TableRows' = SubSeq(TableRows, 1, depth - 1)
  BY <1>2, <1>3, <1>4, <1>5
<1> QED
  BY <1>s, <1>1, <1>6, RowsOfTable DEF Rows!RestoreState

LEMMA DefineCfaIsDefineCfa ==
    ASSUME IndInv, NEW c \in CfaRules, DefineCfa(c)
    PROVE  Rows!DefineCfa(c)
<1>s. /\ StateTypes /\ TableInv /\ stack \in Seq(States) /\ depth \in 1 .. depth /\ Len(stack) = depth
      /\ \A d \in 1 .. depth : stack[d] \in States
  BY SplitInv, Parts DEF TableInv, StateTypes, depth
<1>1. PICK old : old = TableRows
  OBVIOUS
<1>2. PICK new : new = [stack[depth] EXCEPT !.cfa = c]
  OBVIOUS
<1>3. new.table = stack[depth].table /\ new.cfa = c
  BY <1>s, <1>2 DEF States
<1>4. /\ entries' = entries /\ depth' = depth /\ Len(stack') = Len(stack)
      /\ stack'[depth] = new
      /\ \A d \in 1 .. depth : d # depth => stack'[d] = stack[d]
  <2>1. stack' = [stack EXCEPT ![depth] = new] /\ entries' = entries
    BY <1>2 DEF DefineCfa
  <2>2. DOMAIN stack = 1 .. depth
    BY <1>s
  <2>3. Len(stack') = Len(stack)
    BY <1>s, <2>1
  <2> QED
    BY <1>s, <2>1, <2>2, <2>3 DEF depth
<1>5. \A d \in 1 .. depth : /\ Row(stack[d])' = Row(stack[d])
                            /\ stack'[d].cfa = IF d = depth THEN c ELSE stack[d].cfa
  BY <1>3, <1>4, RowStays
<1>6. \A d \in 1 .. depth : old[d] = [rule |-> Row(stack[d]), cfa |-> stack[d].cfa]
  BY <1>1 DEF TableRows
<1>7. TableRows' = [d \in 1 .. depth |-> IF d = depth THEN [old[d] EXCEPT !.cfa = c] ELSE old[d]]
  <2>1. TableRows' = [d \in 1 .. depth |-> [rule |-> Row(stack[d])', cfa |-> stack'[d].cfa]]
    BY <1>4 DEF TableRows
  <2>2. ASSUME NEW d \in 1 .. depth
        PROVE  [rule |-> Row(stack[d])', cfa |-> stack'[d].cfa] =
                  IF d = depth THEN [old[d] EXCEPT !.cfa = c] ELSE old[d]
    <3>1. /\ old[d] = [rule |-> Row(stack[d]), cfa |-> stack[d].cfa]
          /\ Row(stack[d])' = Row(stack[d])
          /\ stack'[d].cfa = IF d = depth THEN c ELSE stack[d].cfa
      BY <1>5, <1>6
    <3>2. [old[d] EXCEPT !.cfa = c] = [rule |-> Row(stack[d]), cfa |-> c]
      BY <3>1
    <3> QED
      BY <3>1, <3>2
  <2> QED
    BY <2>1, <2>2
<1>8. TableRows' = [old EXCEPT ![depth] = [old[depth] EXCEPT !.cfa = c]]
  <2>1. old = [d \in 1 .. depth |-> old[d]]
    BY <1>1 DEF TableRows
  <2> QED
    BY <1>s, <1>7, <2>1
<1>9. Len(TableRows) = depth
  BY <1>s, RowsOfTable
<1>10. TableRows' = [TableRows EXCEPT ![Len(TableRows)].cfa = c]
  BY <1>1, <1>8, <1>9
<1> QED
  BY <1>10 DEF DefineCfa, Rows!DefineCfa

----------------------------------------------------------------------------
(* The iterator.                                                           *)

\* A set of numbers that is not empty has a least one.
LEMMA LeastNumber ==
    ASSUME NEW T \in SUBSET Nat, T # {}
    PROVE  \E m \in T : \A k \in T : m <= k
<1> DEFINE R == OpToRel(<, Nat)
<1>1. IsWellFoundedOn(R, Nat)
  BY NatLessThanWellFounded, Zenon
<1>2. \A x, y \in Nat : <<x, y>> \in R <=> x < y
  BY DEF OpToRel
<1> HIDE DEF R
<1>3. PICK x \in T : \A y \in T : ~(<<y, x>> \in R)
  BY <1>1, WFMin
<1>4. \A y \in T : ~(y < x)
  BY <1>2, <1>3
<1> QED
  BY <1>4

\* No entry of a list comes after itself.
LEMMA NoWayBack ==
    ASSUME NEW next \in Nexts, NEW h \in Indexes, NEW e \in Reach(next, h),
           \A x, y \in Indexes : next[x] = next[y] /\ next[x] # Nil => x = y,
           \A x \in Indexes : next[x] # h
    PROVE  e \notin Reach(next, next[e])
<1> DEFINE R == Reach(next, e)
           N == Reach(next, next[e])
           H == Reach(next, h)
           S == H \ R
<1>1. SUFFICES ASSUME e \in N PROVE FALSE
  OBVIOUS
<1>2. h \in H /\ Closed(next, H) /\ H \subseteq Indexes /\ e \in Indexes /\ Nil \notin Indexes
  BY ReachHolds, ReachIndexes, NilIsNoIndex
<1>3. e \in R /\ Closed(next, R) /\ R \subseteq Indexes /\ R = {e} \cup N
  BY <1>2, ReachHolds, ReachIndexes, ReachFromNext
<1>4. next[e] \in Indexes
  BY <1>1, <1>2, ReachIndexes DEF Nexts
<1>5. \A x \in R : \E y \in R : next[y] = x
  <2>1. ASSUME NEW x \in R, x # e PROVE \E y \in R : next[y] = x
    BY <1>2, <2>1, ReachHasParents
  <2>2. \E y \in R : next[y] = e
    <3>1. CASE next[e] = e
      BY <1>3, <3>1
    <3>2. CASE next[e] # e
      <4>1. \E y \in N : y # e /\ next[y] = e
        BY <1>1, <1>4, <3>2, ReachHasParents
      <4> QED
        BY <1>3, <4>1
    <3> QED
      BY <3>1, <3>2
  <2> QED
    BY <2>1, <2>2
<1>6. h \in S
  BY <1>2, <1>3, <1>5
<1>7. Closed(next, S)
  <2> SUFFICES ASSUME NEW y \in S, next[y] # Nil PROVE next[y] \in S
    BY DEF Closed
  <2>1. next[y] \in H
    BY <1>2 DEF Closed
  <2>2. ASSUME next[y] \in R PROVE FALSE
    <3>1. PICK z \in R : next[z] = next[y]
      BY <1>5, <2>2
    <3>2. z = y
      BY <1>2, <1>3, <3>1
    <3> QED
      BY <3>2
  <2> QED
    BY <2>1, <2>2
<1>8. H \subseteq S
  BY <1>2, <1>6, <1>7, ReachIsLeast
<1> QED
  BY <1>3, <1>8

\* The entries of the chains from bucket c on.
Later(c) == UNION {Chain(current.table[b]) : b \in {b \in Slots : b >= c}}

\* Those that an iterator still comes to.
Ahead(at) ==
    IF at.entry = Nil THEN Later(at.bucket)
    ELSE Chain(entries[at.entry].next) \cup Later(at.bucket + 1)

\* Where an iterator is.
Start == [bucket |-> 0, entry |-> Nil]
OnItsWay(at) ==
    \/ at = Start
    \/ /\ at \in [bucket : Slots, entry : Indexes]
       /\ at.entry \in Chain(current.table[at.bucket])

\* What the chains of the current state are like.
LEMMA ChainsOfCurrent ==
    ASSUME IndInv
    PROVE  /\ Nil \notin Indexes /\ Chain(Nil) = {}
           /\ \A b \in Slots : /\ current.table[b] \in Indexes \cup {Nil}
                               /\ Chain(current.table[b]) \subseteq Indexes
                               /\ current.table[b] # Nil => current.table[b] \in Chain(current.table[b])
           /\ \A b, c \in Slots : \A e \in Chain(current.table[b]) :
                 e \in Chain(current.table[c]) => b = c
           /\ \A b \in Slots : \A e \in Chain(current.table[b]) :
                 /\ entries[e].next \in Indexes \cup {Nil}
                 /\ entries[e].next # Nil => entries[e].next \in Chain(current.table[b])
                 /\ Chain(e) = {e} \cup Chain(entries[e].next)
                 /\ e \notin Chain(entries[e].next)
<1>1. StateTypes /\ TableInv /\ Nil \notin Indexes
  BY SplitInv, NilIsNoIndex DEF TableInv
<1>2. /\ Links \in Nexts /\ depth \in 1 .. depth
      /\ \A e \in Indexes : Links[e] = entries[e].next /\ entries[e].next \in Indexes \cup {Nil}
      /\ \A b \in Slots : current.table[b] \in Indexes \cup {Nil}
  BY <1>1, Parts DEF current
<1>3. Chain(Nil) = {} /\ \A e : Chain(e) \subseteq Indexes
  BY ReachIndexes DEF Chain
<1>4. \A e \in Indexes : /\ e \in Chain(e) /\ Closed(Links, Chain(e))
                         /\ Chain(e) = {e} \cup Chain(entries[e].next)
  BY <1>2, ReachHolds, ReachFromNext DEF Chain
<1>5. ASSUME NEW b \in Slots, NEW c \in Slots, NEW e \in Chain(current.table[b]),
             e \in Chain(current.table[c])
      PROVE  b = c
  <2>1. PICK level \in LevelsOf : Belongs(level)
    BY DEF IndInv
  <2> QED
    BY <1>1, <1>2, <1>5, <2>1, ChainBelongs DEF current
<1>6. ASSUME NEW b \in Slots, NEW e \in Chain(current.table[b])
      PROVE  /\ entries[e].next \in Indexes \cup {Nil}
             /\ entries[e].next # Nil => entries[e].next \in Chain(current.table[b])
             /\ Chain(e) = {e} \cup Chain(entries[e].next)
             /\ e \notin Chain(entries[e].next)
  <2>1. PICK h \in Indexes : h = current.table[b]
    BY <1>2, <1>3
  <2>2. e \in Indexes /\ Links[e] = entries[e].next
    BY <1>2, <1>3
  <2>3. \A x, y \in Indexes : Links[x] = Links[y] /\ Links[x] # Nil => x = y
    BY <1>1, <1>2 DEF TableInv, OneParent
  <2>4. h \in Heads
    BY <1>2, <2>1 DEF Heads, current
  <2>5. \A x \in Indexes : Links[x] # h
    BY <1>1, <1>2, <2>4 DEF TableInv, HeadsHaveNone
  <2>6. e \notin Reach(Links, Links[e])
    BY <1>2, <2>1, <2>3, <2>5, NoWayBack DEF Chain
  <2>7. Closed(Links, Chain(h))
    BY <1>4
  <2> QED
    BY <1>2, <1>4, <2>1, <2>2, <2>6, <2>7 DEF Closed, Chain
<1> QED
  BY <1>1, <1>2, <1>3, <1>4, <1>5, <1>6

\* The iterator moves to one of the entries ahead of it, with the others ahead, as long as
\* there are any.
LEMMA IteratorMoves ==
    ASSUME IndInv, NEW at, OnItsWay(at), NEW to, to = IteratorNext(at)
    PROVE  \/ Ahead(at) = {} /\ to.entry = Nil
           \/ /\ OnItsWay(to) /\ to.entry \in Ahead(at)
              /\ Ahead(to) = Ahead(at) \ {to.entry}
<1> DEFINE T == current.table
           after == IF at.entry = Nil THEN Nil ELSE entries[at.entry].next
           from == IF at.entry = Nil THEN at.bucket ELSE at.bucket + 1
<1>1. /\ Nil \notin Indexes /\ Chain(Nil) = {}
      /\ \A b \in Slots : /\ T[b] \in Indexes \cup {Nil} /\ Chain(T[b]) \subseteq Indexes
                          /\ T[b] # Nil => T[b] \in Chain(T[b])
      /\ \A b, c \in Slots : \A e \in Chain(T[b]) : e \in Chain(T[c]) => b = c
      /\ \A b \in Slots : \A e \in Chain(T[b]) :
            /\ entries[e].next \in Indexes \cup {Nil}
            /\ entries[e].next # Nil => entries[e].next \in Chain(T[b])
            /\ Chain(e) = {e} \cup Chain(entries[e].next)
            /\ e \notin Chain(entries[e].next)
  BY ChainsOfCurrent
<1>2. Slots \subseteq Nat /\ 0 \in Slots /\ \A b \in Slots, c \in Nat : c <= b => c \in Slots
  BY CFAAssumption DEF Slots
<1>3. from \in Nat
  <2>1. CASE at = Start
    BY <1>2, <2>1 DEF Start
  <2>2. CASE at \in [bucket : Slots, entry : Indexes]
    <3>1. at.bucket \in Slots /\ at.entry \in Indexes
      BY <2>2
    <3>2. at.entry # Nil /\ at.bucket \in Nat
      BY <1>1, <1>2, <3>1
    <3> QED
      BY <3>2
  <2> QED
    BY <2>1, <2>2 DEF OnItsWay
<1>4. to = IF after # Nil THEN [at EXCEPT !.entry = after]
           ELSE IF Filled(from) = {} THEN [bucket |-> Buckets, entry |-> Nil]
           ELSE [bucket |-> FirstOf(Filled(from)), entry |-> T[FirstOf(Filled(from))]]
  BY DEF IteratorNext
<1>5. Ahead(at) = Chain(after) \cup Later(from)
  BY <1>1 DEF Ahead
<1> HIDE DEF T
<1>l. \A c \in Nat : Later(c) = UNION {Chain(T[b]) : b \in {b \in Slots : b >= c}}
  BY DEF Later, T
<1>6. ASSUME NEW b \in Slots, NEW e \in Chain(T[b])
      PROVE  e \notin Later(b + 1)
  <2>1. b + 1 \in Nat /\ \A c \in Slots : c >= b + 1 => c # b
    BY <1>2
  <2>2. \A c \in Slots : c >= b + 1 => e \notin Chain(T[c])
    BY <1>1, <2>1
  <2> QED
    BY <1>l, <2>1, <2>2
<1>o. ASSUME NEW b \in Slots, NEW e \in Chain(T[b]), to = [bucket |-> b, entry |-> e]
      PROVE  OnItsWay(to) /\ Ahead(to) = Chain(entries[e].next) \cup Later(b + 1)
  BY <1>1, <1>o DEF OnItsWay, Ahead, T
<1>7. CASE after # Nil
  <2>1. /\ at \in [bucket : Slots, entry : Indexes] /\ at.entry \in Chain(T[at.bucket])
        /\ at.entry # Nil /\ after = entries[at.entry].next /\ from = at.bucket + 1
    BY <1>1, <1>7 DEF OnItsWay, Start, T
  <2>2. PICK b \in Slots : b = at.bucket
    BY <2>1
  <2> HIDE DEF after, from
  <2>3. to = [bucket |-> b, entry |-> after]
    BY <1>4, <1>7, <2>1, <2>2
  <2>4. /\ after \in Chain(T[b]) /\ Chain(after) = {after} \cup Chain(entries[after].next)
        /\ after \notin Chain(entries[after].next)
    BY <1>1, <1>7, <2>1, <2>2
  <2>5. after \notin Later(b + 1)
    BY <1>6, <2>4
  <2>6. OnItsWay(to) /\ Ahead(to) = Chain(entries[after].next) \cup Later(b + 1)
    BY <1>o, <2>3, <2>4
  <2>7. to.entry = after
    BY <2>3
  <2> QED
    BY <1>5, <2>1, <2>2, <2>4, <2>5, <2>6, <2>7
<1> HIDE DEF after, from
<1>8. CASE after = Nil /\ Filled(from) = {}
  <2>1. \A b \in Slots : b >= from => T[b] = Nil
    BY <1>8 DEF Filled, T
  <2>2. Later(from) = {}
    BY <1>1, <1>3, <1>l, <2>1
  <2> QED
    BY <1>1, <1>4, <1>5, <1>8, <2>2
<1>9. CASE after = Nil /\ Filled(from) # {}
  <2>1. Filled(from) \in SUBSET Nat
    BY <1>2 DEF Filled
  <2>2. \E m \in Filled(from) : \A k \in Filled(from) : m <= k
    BY <1>9, <2>1, LeastNumber
  <2>3. PICK c : c = FirstOf(Filled(from))
    OBVIOUS
  <2>4. c \in Filled(from) /\ \A k \in Filled(from) : c <= k
    BY <2>2, <2>3 DEF FirstOf
  <2>5. /\ c \in Slots /\ c >= from /\ T[c] # Nil
        /\ \A b \in Slots : b >= from /\ T[b] # Nil => c <= b
    BY <2>4 DEF Filled, T
  <2>6. PICK e : e = T[c]
    OBVIOUS
  <2>7. to = [bucket |-> c, entry |-> e]
    BY <1>4, <1>9, <2>3, <2>6
  <2>8. /\ e \in Chain(T[c]) /\ Chain(e) = {e} \cup Chain(entries[e].next)
        /\ e \notin Chain(entries[e].next)
    BY <1>1, <2>5, <2>6
  <2>9. OnItsWay(to) /\ Ahead(to) = Chain(entries[e].next) \cup Later(c + 1)
    BY <1>o, <2>5, <2>7, <2>8
  <2>10. Later(from) = Chain(e) \cup Later(c + 1)
    <3>1. Later(from) \subseteq Chain(T[c]) \cup Later(c + 1)
      <4> SUFFICES ASSUME NEW b \in Slots, b >= from, NEW x \in Chain(T[b])
                   PROVE  x \in Chain(T[c]) \cup Later(c + 1)
        BY <1>3, <1>l
      <4>1. c <= b
        BY <1>1, <2>5
      <4>2. b = c \/ b >= c + 1
        BY <1>2, <2>5, <4>1
      <4> QED
        <5>1. CASE b = c
          BY <5>1
        <5>2. CASE b >= c + 1
          <6>1. c + 1 \in Nat
            BY <1>2, <2>5
          <6> QED
            BY <1>l, <5>2, <6>1
        <5> QED
          BY <4>2, <5>1, <5>2
    <3>2. Chain(T[c]) \subseteq Later(from)
      BY <1>3, <1>l, <2>5
    <3>3. Later(c + 1) \subseteq Later(from)
      <4>1. c + 1 \in Nat /\ \A b \in Slots : b >= c + 1 => b >= from
        BY <1>2, <1>3, <2>5
      <4> QED
        BY <1>3, <1>l, <4>1
    <3> QED
      BY <2>6, <3>1, <3>2, <3>3
  <2>11. e \notin Later(c + 1)
    BY <1>6, <2>5, <2>8
  <2>12. to.entry = e
    BY <2>7
  <2> QED
    BY <1>1, <1>5, <1>9, <2>8, <2>9, <2>10, <2>11, <2>12
<1> QED
  BY <1>7, <1>8, <1>9

\* The positions of the iteration, the beginning of which they are up to n.
Positions(at, n) ==
    at = [k \in 0 .. n |-> IF k = 0 THEN Start ELSE IteratorNext(at[k - 1])]

\* It has them.
LEMMA PositionsExist == \A n \in Nat : \E at : Positions(at, n)
<1> DEFINE T == {n \in Nat : ~ \E at : Positions(at, n)}
<1>1. SUFFICES ASSUME T # {} PROVE FALSE
  OBVIOUS
<1>2. PICK m \in T : \A n \in T : m <= n
  <2>1. T \in SUBSET Nat
    OBVIOUS
  <2> HIDE DEF T
  <2> QED
    BY <1>1, <2>1, LeastNumber
<1>3. CASE m = 0
  <2>1. Positions([k \in 0 .. 0 |-> Start], 0)
    BY DEF Positions
  <2> QED
    BY <1>2, <1>3, <2>1
<1>4. CASE m # 0
  <2>1. m - 1 \in Nat /\ m - 1 \notin T
    BY <1>2, <1>4
  <2>2. PICK at : Positions(at, m - 1)
    BY <2>1
  <2> DEFINE more == [k \in 0 .. m |-> IF k = m THEN IteratorNext(at[m - 1]) ELSE at[k]]
  <2>3. ASSUME NEW k \in 0 .. m
        PROVE  more[k] = IF k = 0 THEN Start ELSE IteratorNext(more[k - 1])
    <3>1. CASE k = m
      BY <1>2, <1>4, <3>1
    <3>2. CASE k # m
      <4>1. k \in 0 .. m - 1 /\ more[k] = at[k] /\ (k # 0 => more[k - 1] = at[k - 1])
        BY <1>2, <3>2
      <4>2. at[k] = IF k = 0 THEN Start ELSE IteratorNext(at[k - 1])
        BY <2>2, <4>1 DEF Positions
      <4> HIDE DEF more
      <4> QED
        BY <4>1, <4>2
    <3> QED
      BY <3>1, <3>2
  <2>4. more = [k \in 0 .. m |-> more[k]]
    OBVIOUS
  <2>5. Positions(more, m)
    <3> HIDE DEF more
    <3> QED
      BY <2>3, <2>4 DEF Positions
  <2> QED
    BY <1>2, <2>5
<1> QED
  BY <1>3, <1>4

\* What the iterator returns is what it finds there.
LEMMA IteratedPositions ==
    \E at : /\ Positions(at, MaxRegisters + 1)
            /\ Iterated = [k \in 1 .. MaxRegisters + 1 |-> at[k].entry]
<1> DEFINE at == CHOOSE g : Positions(g, MaxRegisters + 1)
<1>1. Positions(at, MaxRegisters + 1)
  BY PositionsExist, CFAAssumption
<1>2. Iterated = [k \in 1 .. MaxRegisters + 1 |-> at[k].entry]
  BY DEF Iterated, Positions, Start
<1> QED
  BY <1>1, <1>2

\* IterationIsComplete holds: an iteration over the rules of a state, whatever its chains,
\* returns each of them once and then ends.
LEMMA IterationCompletes == IndInv => IterationIsComplete
<1> SUFFICES ASSUME IndInv PROVE IterationIsComplete
  OBVIOUS
<1> DEFINE E == EntriesOf(current)
           n == Cardinality(E)
<1>1. PICK at : /\ Positions(at, MaxRegisters + 1)
                /\ Iterated = [k \in 1 .. MaxRegisters + 1 |-> at[k].entry]
  BY IteratedPositions
<1>2. E \subseteq Indexes /\ E = Ahead(Start)
  BY ChainsOfCurrent, CFAAssumption DEF EntriesOf, Ahead, Start, Later, Slots
<1>3. IsFiniteSet(E) /\ n \in Nat /\ n <= MaxRegisters
  <2>1. IsFiniteSet(Indexes) /\ Cardinality(Indexes) = MaxRegisters
    <3>1. Cardinality(0 .. MaxRegisters - 1) = IF 0 > MaxRegisters - 1 THEN 0 ELSE MaxRegisters - 1 - 0 + 1
      BY FS_Interval, CFAAssumption
    <3> QED
      BY <3>1, NilIsNoIndex, CFAAssumption DEF Indexes
  <2> HIDE DEF E
  <2> QED
    BY <1>2, <2>1, FS_Subset, FS_CardinalityType
<1>4. /\ at[0] = Start
      /\ \A k \in 0 .. n : at[k + 1] = IteratorNext(at[k])
  BY <1>1, <1>3, CFAAssumption DEF Positions
<1> DEFINE Got(k) == {at[j].entry : j \in 1 .. k}
           P(k) == /\ OnItsWay(at[k]) /\ Got(k) \cup Ahead(at[k]) = E
                   /\ IsFiniteSet(Ahead(at[k])) /\ Cardinality(Ahead(at[k])) = n - k
           T == {k \in 0 .. n : ~ P(k)}
<1> HIDE DEF E, n
<1>5. P(0)
  <2>1. Got(0) = {}
    OBVIOUS
  <2>2. n - 0 = n /\ n = Cardinality(E)
    BY <1>3 DEF n
  <2> QED
    BY <1>2, <1>3, <1>4, <2>1, <2>2 DEF OnItsWay
<1>6. ASSUME NEW k \in 0 .. n - 1, P(k) PROVE P(k + 1)
  <2>1. PICK here, to : here = at[k] /\ to = at[k + 1]
    OBVIOUS
  <2>2. to = IteratorNext(here) /\ k \in Nat /\ k + 1 \in Nat /\ n - k # 0 /\ n - k \in Nat
    BY <1>3, <1>4, <2>1
  <2>3. Ahead(here) # {}
    BY <1>6, <2>1, <2>2, FS_EmptySet
  <2>4. /\ OnItsWay(to) /\ to.entry \in Ahead(here)
        /\ Ahead(to) = Ahead(here) \ {to.entry}
    BY <1>6, <2>1, <2>2, <2>3, IteratorMoves
  <2>5. IsFiniteSet(Ahead(to)) /\ Cardinality(Ahead(to)) = Cardinality(Ahead(here)) - 1
    BY <1>6, <2>1, <2>4, FS_RemoveElement
  <2>6. Got(k + 1) = Got(k) \cup {to.entry}
    <3>1. 1 .. k + 1 = 1 .. k \cup {k + 1}
      BY <2>2
    <3> QED
      BY <2>1, <3>1
  <2>7. Got(k + 1) \cup Ahead(to) = E
    BY <1>6, <2>1, <2>4, <2>6
  <2>8. Cardinality(Ahead(to)) = n - (k + 1)
    BY <1>3, <1>6, <2>1, <2>2, <2>5
  <2> QED
    BY <2>1, <2>4, <2>5, <2>7, <2>8
<1> HIDE DEF P
<1>7. T = {}
  <2> SUFFICES ASSUME T # {} PROVE FALSE
    OBVIOUS
  <2>1. PICK m \in T : \A k \in T : m <= k
    <3>1. T \in SUBSET Nat
      BY <1>3
    <3> HIDE DEF T
    <3> QED
      BY <3>1, LeastNumber
  <2>2. m # 0
    BY <1>5, <2>1
  <2>3. m - 1 \in 0 .. n - 1 /\ m - 1 \in 0 .. n /\ m - 1 \notin T /\ m - 1 + 1 = m
    BY <1>3, <2>1, <2>2
  <2>4. P(m - 1)
    BY <2>3
  <2>5. P(m - 1 + 1)
    BY <1>6, <2>3, <2>4
  <2> QED
    BY <2>1, <2>3, <2>5
<1>8. P(n)
  BY <1>3, <1>7
<1>9. OnItsWay(at[n]) /\ Got(n) = E /\ Ahead(at[n]) = {}
  <2>1. /\ OnItsWay(at[n]) /\ Got(n) \cup Ahead(at[n]) = E
        /\ IsFiniteSet(Ahead(at[n])) /\ Cardinality(Ahead(at[n])) = n - n
    BY <1>8 DEF P
  <2>2. Ahead(at[n]) = {}
    BY <1>3, <2>1, FS_EmptySet
  <2> QED
    BY <2>1, <2>2
<1>10. at[n + 1].entry = Nil
  <2>1. at[n + 1] = IteratorNext(at[n])
    BY <1>3, <1>4
  <2> QED
    BY <1>9, <2>1, IteratorMoves
<1>11. /\ {Iterated[k] : k \in 1 .. n} = Got(n)
       /\ Iterated[n + 1] = at[n + 1].entry
  <2>1. n + 1 \in 1 .. MaxRegisters + 1 /\ \A k \in 1 .. n : k \in 1 .. MaxRegisters + 1
    BY <1>3, CFAAssumption
  <2> QED
    BY <1>1, <2>1
<1> QED
  BY <1>9, <1>10, <1>11 DEF IterationIsComplete, E, n

\* Whenever the rules are saved for restore or applied, all of the current row are, once.
THEOREM IterationsAreComplete == Spec => []IterationIsComplete
BY IterationCompletes, InvariantHolds, PTL
----------------------------------------------------------------------------
(* What the interpreter's steps do to the rows.                            *)

\* Where an iterator has come to the end.
End == [bucket |-> Buckets, entry |-> Nil]

\* An iterator is on its way or at the end, where it stays.
LEMMA IteratorStays ==
    ASSUME IndInv, NEW at, OnItsWay(at) \/ at = End, NEW to, to = IteratorNext(at)
    PROVE  OnItsWay(to) \/ to = End
<1>1. CASE at = End
  <2>1. Filled(Buckets) = {}
    BY CFAAssumption DEF Filled, Slots
  <2> QED
    BY <1>1, <2>1 DEF IteratorNext, End
<1>2. CASE OnItsWay(at)
  <2>1. CASE OnItsWay(to)
    BY <2>1
  <2>2. CASE to.entry = Nil
    <3> DEFINE after == IF at.entry = Nil THEN Nil ELSE entries[at.entry].next
               from == IF at.entry = Nil THEN at.bucket ELSE at.bucket + 1
               C == Filled(from)
    <3>1. to = IF after # Nil THEN [at EXCEPT !.entry = after]
               ELSE IF C = {} THEN End
               ELSE [bucket |-> FirstOf(C), entry |-> current.table[FirstOf(C)]]
      BY DEF IteratorNext, End
    <3>2. at = [bucket |-> at.bucket, entry |-> at.entry]
      BY <1>2 DEF OnItsWay, Start
    <3>3. ASSUME after # Nil PROVE FALSE
      BY <2>2, <3>1, <3>2, <3>3
    <3>4. ASSUME C # {} PROVE current.table[FirstOf(C)] # Nil
      <4>1. C \subseteq Nat /\ \A c \in C : current.table[c] # Nil
        BY CFAAssumption DEF Filled, Slots
      <4>2. \E m \in C : \A b \in C : m <= b
        <5> HIDE DEF C
        <5> QED
          BY <3>4, <4>1, LeastNumber
      <4>3. FirstOf(C) \in C
        BY <4>2 DEF FirstOf
      <4> QED
        BY <4>1, <4>3
    <3> QED
      BY <2>2, <3>1, <3>3, <3>4
  <2> QED
    BY <1>2, <2>1, <2>2, IteratorMoves
<1> QED
  BY <1>1, <1>2

\* It returns entries of the current row only.
LEMMA IteratorStaysInRow ==
    ASSUME IndInv, NEW k \in 1 .. MaxRegisters + 1
    PROVE  Iterated[k] \in EntriesOf(current) \cup {Nil}
<1>1. PICK at : /\ Positions(at, MaxRegisters + 1)
                /\ Iterated = [j \in 1 .. MaxRegisters + 1 |-> at[j].entry]
  BY IteratedPositions
<1> DEFINE Inside(x) == OnItsWay(x) \/ x = End
           T == {j \in 0 .. MaxRegisters + 1 : ~ Inside(at[j])}
<1>2. T = {}
  <2> SUFFICES ASSUME T # {} PROVE FALSE
    OBVIOUS
  <2>1. PICK m \in T : \A j \in T : m <= j
    <3>1. T \in SUBSET Nat
      BY CFAAssumption
    <3> HIDE DEF T
    <3> QED
      BY <3>1, LeastNumber
  <2>2. CASE m = 0
    BY <1>1, <2>1, <2>2, CFAAssumption DEF Positions, OnItsWay
  <2>3. CASE m # 0
    <3>1. m - 1 \in 0 .. MaxRegisters + 1 /\ m - 1 \notin T
      BY <2>1, <2>3, CFAAssumption
    <3>2. Inside(at[m - 1])
      BY <3>1
    <3>3. at[m] = IteratorNext(at[m - 1])
      BY <1>1, <2>1, <2>3 DEF Positions
    <3>4. Inside(at[m])
      BY <3>2, <3>3, IteratorStays
    <3> QED
      BY <2>1, <3>4
  <2> QED
    BY <2>2, <2>3
<1>3. Inside(at[k])
  BY <1>2, CFAAssumption
<1>4. at[k].entry \in EntriesOf(current) \cup {Nil}
  BY <1>3 DEF End, OnItsWay, Start, EntriesOf
<1> QED
  BY <1>1, <1>4

\* The current state is the last on the stack.
LEMMA CurrentIsLast == IndInv => StateTypes /\ depth \in 1 .. depth /\ current.cfa \in CfaRules
<1> SUFFICES ASSUME IndInv PROVE StateTypes /\ depth \in 1 .. depth /\ current.cfa \in CfaRules
  OBVIOUS
<1>1. StateTypes
  BY SplitInv DEF TableInv
<1>2. depth \in 1 .. MaxStates /\ \A d \in 1 .. depth : stack[d].cfa \in CfaRules
  BY <1>1, Parts
<1>3. depth \in 1 .. depth
  BY <1>2, CFAAssumption
<1> QED
  BY <1>1, <1>2, <1>3 DEF current

\* A register has one entry in the current row, in its own bucket.
LEMMA CurrentShared ==
    ASSUME IndInv, NEW b \in Slots, NEW e \in Chain(current.table[b])
    PROVE  /\ Bucket(entries[e].reg) = b
           /\ \A f \in Chain(current.table[b]) : entries[f].reg = entries[e].reg => f = e
<1> DEFINE chain == [x \in (1 .. depth) \X Slots |-> Chain(stack[x[1]].table[x[2]])]
<1>1. EntriesAreShared /\ depth \in 1 .. depth
  BY ListsAreDisjoint, CurrentIsLast
<1>2. <<depth, b>> \in DOMAIN chain /\ chain[<<depth, b>>] = Chain(current.table[b])
  BY <1>1 DEF current
<1>3. \A x \in DOMAIN chain : \A y \in chain[x] :
         /\ Bucket(entries[y].reg) = x[2]
         /\ \A f \in chain[x] : entries[f].reg = entries[y].reg => f = y
  BY <1>1 DEF EntriesAreShared
<1> HIDE DEF chain
<1>4. \A y \in chain[<<depth, b>>] :
         /\ Bucket(entries[y].reg) = b
         /\ \A f \in chain[<<depth, b>>] : entries[f].reg = entries[y].reg => f = y
  BY <1>2, <1>3
<1> QED
  BY <1>2, <1>4

LEMMA EntriesCounted == Cardinality(EntriesOf(current)) \in 0 .. MaxRegisters
<1>1. EntriesOf(current) \subseteq Indexes
  BY ReachIndexes DEF EntriesOf, Chain
<1>2. IsFiniteSet(Indexes) /\ Cardinality(Indexes) = MaxRegisters
  <2>1. Cardinality(0 .. MaxRegisters - 1) = IF 0 > MaxRegisters - 1 THEN 0 ELSE MaxRegisters - 1 - 0 + 1
    BY FS_Interval, CFAAssumption
  <2> QED
    BY <2>1, FS_Interval, CFAAssumption DEF Indexes
<1> QED
  BY <1>1, <1>2, FS_Subset, FS_CardinalityType

\* A set of numbers up to n that is not empty has a greatest one.
LEMMA GreatestNumber ==
    ASSUME NEW n \in Nat, NEW T \in SUBSET (1 .. n), T # {}
    PROVE  \E m \in T : \A k \in T : k <= m
<1> DEFINE U == {n - k : k \in T}
<1>1. U \in SUBSET Nat /\ U # {}
  <2>1. \A k \in T : n - k \in Nat
    OBVIOUS
  <2> QED
    BY <2>1
<1>2. PICK u \in U : \A k \in U : u <= k
  <2> HIDE DEF U
  <2> QED
    BY <1>1, LeastNumber
<1>3. PICK m \in T : u = n - m
  BY <1>2
<1> QED
  BY <1>2, <1>3

\* What is saved for restore is the current row.
LEMMA SavedRowIsCurrent == IndInv => SavedRow = Row(current)
<1> SUFFICES ASSUME IndInv, NEW r \in Registers
             PROVE  SavedRow[r] = Rule(current, r)
  BY DEF SavedRow, Row
<1> DEFINE N == 1 .. MaxRegisters + 1
           found == {k \in N : Iterated[k] \in Indexes /\ entries[Iterated[k]].reg = r}
           same == EntriesFor(current, r)
<1>d. DOMAIN Iterated = N
  BY DEF Iterated
<1>1. SavedRow[r] = IF found = {} THEN NoRule
                    ELSE entries[Iterated[CHOOSE k \in found : \A l \in found : l <= k]].rule
  BY <1>d DEF SavedRow
<1>2. ASSUME NEW e \in EntriesOf(current), entries[e].reg = r PROVE e \in same
  <2>1. PICK b \in Slots : e \in Chain(current.table[b])
    BY DEF EntriesOf
  <2>2. Bucket(entries[e].reg) = b
    BY <2>1, CurrentShared
  <2> QED
    BY <1>2, <2>1, <2>2 DEF EntriesFor
<1>3. \A k \in found : Iterated[k] \in same
  BY <1>2, IteratorStaysInRow, NilIsNoIndex
<1>4. \A e \in same : \E k \in found : Iterated[k] = e
  <2> SUFFICES ASSUME NEW e \in same PROVE \E k \in found : Iterated[k] = e
    OBVIOUS
  <2>1. e \in EntriesOf(current) /\ entries[e].reg = r /\ e \in Indexes
    BY BucketsAreSlots, ReachIndexes DEF EntriesFor, EntriesOf, Chain
  <2>2. Cardinality(EntriesOf(current)) \in 0 .. MaxRegisters
    BY EntriesCounted
  <2>3. PICK k \in 1 .. Cardinality(EntriesOf(current)) : Iterated[k] = e
    BY <2>1, IterationCompletes DEF IterationIsComplete
  <2>4. k \in N
    BY <2>2, CFAAssumption
  <2> QED
    BY <2>1, <2>3, <2>4
<1>5. \A e, f \in same : e = f
  BY CurrentShared, BucketsAreSlots DEF EntriesFor
<1>6. CASE same = {}
  <2>1. found = {}
    BY <1>3, <1>6
  <2>2. SavedRow[r] = NoRule
    <3> HIDE DEF found, N
    <3> QED
      BY <1>1, <2>1
  <2>3. Rule(current, r) = NoRule
    BY <1>6 DEF Rule
  <2> QED
    BY <2>2, <2>3
<1>7. CASE same # {}
  <2>1. found # {} /\ found \subseteq N
    BY <1>4, <1>7
  <2>2. \E k \in found : \A l \in found : l <= k
    <3>1. MaxRegisters + 1 \in Nat /\ found \in SUBSET (1 .. MaxRegisters + 1)
      BY <2>1, CFAAssumption
    <3> HIDE DEF found
    <3> QED
      BY <2>1, <3>1, GreatestNumber
  <2>3. PICK k \in found : k = CHOOSE j \in found : \A l \in found : l <= j
    BY <2>2
  <2>4. Iterated[k] = CHOOSE e \in same : TRUE
    BY <1>3, <1>5
  <2> QED
    BY <1>1, <1>7, <2>1, <2>3, <2>4 DEF Rule
<1> QED
  BY <1>6, <1>7

\* A change of the current CFA is to one of the rules there are.
LEMMA RegisterBasedCfa ==
    ASSUME IndInv, RegisterBased(current.cfa)
    PROVE  current.cfa \in [type : {"register", "signed"}, reg : CfaRegisters, off : Offsets]
<1>1. current.cfa \in CfaRules
  BY CurrentIsLast
<1> QED
  BY <1>1 DEF CfaRules, RegisterBased

\* Every step does to the rows what its opcode means.
LEMMA StepsMean == IndInv => StepMeans
<1> SUFFICES ASSUME IndInv PROVE StepMeans
  OBVIOUS
<1>i. OtherTypes /\ depth \in 1 .. depth /\ Len(TableRows) = depth /\ TableRows[depth].rule = Row(current)
  <2>1. OtherTypes /\ StateTypes /\ depth \in 1 .. depth
    BY SplitInv, CurrentIsLast
  <2> QED
    BY <2>1, RowsOfTable DEF Row, current
<1>0. ASSUME UNCHANGED <<state, initial>> PROVE NoRowChanges
  BY <1>0, UnchangedRows DEF NoRowChanges
<1>1. evalProgram => Rows!BeginProgram
  BY <1>i, SavedRowIsCurrent, UnchangedRows DEF evalProgram, Rows!BeginProgram
<1>2. programEnds \/ invalidOpcode \/ removeRound => NoRowChanges
  BY <1>0, RemoveRoundIsNoChange DEF programEnds, invalidOpcode, removeRound, NoRowChanges
<1>3. ASSUME NEW delta \in 1 .. LastLocation, advance_loc(delta) PROVE NoRowChanges
  BY <1>0, <1>3 DEF advance_loc
<1>4. ASSUME NEW l \in 1 .. LastLocation + 1, set_loc(l) PROVE NoRowChanges
  BY <1>0, <1>4 DEF set_loc
<1>5. ASSUME NEW c \in CfaRules, def_cfa(c) PROVE Rows!DefineCfa(c)
  BY <1>5, DefineCfaIsDefineCfa DEF def_cfa
<1>6. ASSUME NEW r \in CfaRegisters, def_cfa_register(r)
      PROVE  Rows!DefineCfa([current.cfa EXCEPT !.reg = r])
  <2>1. PICK c : c = [current.cfa EXCEPT !.reg = r]
    OBVIOUS
  <2>2. c \in [type : {"register", "signed"}, reg : CfaRegisters, off : Offsets]
    BY <1>6, <2>1, RegisterBasedCfa DEF def_cfa_register
  <2>3. c \in CfaRules /\ DefineCfa(c)
    BY <1>6, <2>1, <2>2 DEF def_cfa_register, CfaRules
  <2>4. Rows!DefineCfa(c)
    BY <2>3, DefineCfaIsDefineCfa
  <2> QED
    BY <2>1, <2>4
<1>7. ASSUME NEW type \in {"register", "signed"}, NEW off \in Offsets, def_cfa_offset(type, off)
      PROVE  Rows!DefineCfa([type |-> type, reg |-> current.cfa.reg, off |-> off])
  <2>1. PICK c : c = [current.cfa EXCEPT !.type = type, !.off = off]
    OBVIOUS
  <2>2. c \in [type : {"register", "signed"}, reg : CfaRegisters, off : Offsets]
    BY <1>7, <2>1, RegisterBasedCfa DEF def_cfa_offset
  <2>3. c \in CfaRules /\ DefineCfa(c)
    BY <1>7, <2>1, <2>2 DEF def_cfa_offset, CfaRules
  <2>4. Rows!DefineCfa(c)
    BY <2>3, DefineCfaIsDefineCfa
  <2>5. c = [type |-> type, reg |-> current.cfa.reg, off |-> off]
    BY <1>7, <2>1, RegisterBasedCfa DEF def_cfa_offset
  <2> QED
    BY <2>4, <2>5
<1>8. ASSUME NEW r \in Registers, NEW rule \in Rules, setRule(r, rule)
      PROVE  Rows!DefineRule(r, rule) \/ Fails
  BY <1>8, SetRegisterDefinesRule DEF setRule
<1>9. ASSUME NEW r \in Registers, undefined(r) PROVE Rows!Undefine(r)
  BY <1>9, RemoveRegisterUndefines DEF undefined
<1>10. ASSUME NEW r \in Registers, restore(r)
       PROVE  (Rows!Restore(r) /\ Rows!RestoreExtended(r)) \/ Fails
  <2>1. PICK rule : rule = initial[r]
    OBVIOUS
  <2>2. rule \in Rules /\ rule # NoRule /\ initial' = initial
    BY <1>10, <2>1, <1>i DEF restore, OtherTypes
  <2>3. set_register(r, rule)
    BY <1>10, <2>1 DEF restore, set_register
  <2>4. Rows!DefineRule(r, rule) \/ Fails
    BY <2>2, <2>3, SetRegisterDefinesRule
  <2>5. Rows!DefineRule(r, rule) => Rows!Restore(r)
    BY <2>1 DEF Rows!Restore
  <2> QED
    BY <2>1, <2>2, <2>4, <2>5 DEF Rows!RestoreExtended
<1>11. ASSUME NEW r \in Registers, restoreNone(r, FALSE) PROVE Rows!Restore(r)
  <2>1. remove_register(r) /\ initial[r] = NoRule /\ initial' = initial
    BY <1>11 DEF restoreNone
  <2> QED
    BY <2>1, RemoveRegisterUndefines DEF Rows!Undefine, Rows!Restore
<1>12. ASSUME NEW r \in Registers, restoreNone(r, TRUE) PROVE Rows!RestoreExtended(r)
  <2>1. remove_register(0) /\ initial[r] = NoRule /\ initial' = initial
    BY <1>12 DEF restoreNone
  <2> QED
    BY <2>1, RemoveRegisterUndefines, CFAAssumption DEF Rows!RestoreExtended
<1>13. remember_state => Rows!RememberState \/ (depth = MaxStates /\ Fails)
  BY <1>0, PushIsRemember DEF remember_state, Fails
<1>14. restore_state => Rows!RestoreState \/ (depth = 1 /\ Fails)
  BY <1>0, PopIsRestore DEF restore_state, Fails
<1>15. \A type \in {"register", "signed"}, off \in Offsets :
          def_cfa_offset(type, off) =>
              Rows!DefineCfa([type |-> type, reg |-> current.cfa.reg, off |-> off])
  BY <1>7
<1>16. \A r \in Registers :
          /\ \A rule \in Rules : setRule(r, rule) => Rows!DefineRule(r, rule) \/ Fails
          /\ undefined(r) => Rows!Undefine(r)
          /\ restore(r) => (Rows!Restore(r) /\ Rows!RestoreExtended(r)) \/ Fails
          /\ restoreNone(r, FALSE) => Rows!Restore(r)
          /\ restoreNone(r, TRUE) => Rows!RestoreExtended(r)
  BY <1>8, <1>9, <1>10, <1>11, <1>12
<1>17. /\ \A delta \in 1 .. LastLocation : advance_loc(delta) => NoRowChanges
       /\ \A l \in 1 .. LastLocation + 1 : set_loc(l) => NoRowChanges
       /\ \A c \in CfaRules : def_cfa(c) => Rows!DefineCfa(c)
  BY <1>3, <1>4, <1>5
<1>18. \A r \in CfaRegisters :
          def_cfa_register(r) => Rows!DefineCfa([current.cfa EXCEPT !.reg = r])
  <2> TAKE r \in CfaRegisters
  <2> HAVE def_cfa_register(r)
  <2> QED
    BY <1>6
<1> QED
  BY <1>1, <1>2, <1>13, <1>14, <1>15, <1>16, <1>17, <1>18 DEF StepMeans

\* RowsAreKept holds: each opcode does to the rows what DwarfRows says of it, in a sparse
\* table whose entries all states share.
THEOREM TableImplementsRows == Spec => RowsAreKept
<1>1. IndInv /\ [Next]_vars => [StepMeans]_vars
  BY StepsMean
<1> QED
  BY <1>1, RowsInit, InvariantHolds, PTL DEF Spec, RowsAreKept
=============
