------------------------- MODULE AsyncImageListProofs -------------------------
(***************************************************************************)
(* The list of binary images is sound, no thread that reads it stands on a *)
(* node that was deallocated, a reader whose node nobody removed misses    *)
(* nothing, and to its users the list is a sequence (ImageListPromise) in  *)
(* which every call takes effect at once: for any number of writers,       *)
(* readers, nodes and images.                                              *)
(***************************************************************************)
EXTENDS AsyncImageList, FiniteSetTheorems, NaturalsInduction, SequenceTheorems,
        WellFoundedInduction, TLAPS

----------------------------------------------------------------------------
(* What Walk is: the least set with h that nx does not lead out of.        *)

Pointers == Nodes \cup {NULL}
Nexts == [Nodes -> Pointers]
Closed(nx, S) == \A m \in S : nx[m] \in S \cup {NULL}

\* NULL is not a node.
LEMMA NullIsNoNode == NULL \notin Nodes
BY ListAssumption

\* It is a part of every such set.
LEMMA WalkIsLeast ==
    ASSUME NEW nx, NEW h, NEW S \in SUBSET Nodes, h \in S \cup {NULL}, Closed(nx, S)
    PROVE  Walk(h, nx) \subseteq S
BY DEF Walk, Closed

\* It is a set of nodes, holds h, and with a node the next one.
LEMMA WalkHolds ==
    ASSUME NEW nx \in Nexts, NEW h \in Pointers
    PROVE  /\ Walk(h, nx) \subseteq Nodes
           /\ h \in Walk(h, nx) \cup {NULL}
           /\ Closed(nx, Walk(h, nx))
<1>1. Walk(h, nx) \subseteq Nodes /\ h \in Walk(h, nx) \cup {NULL}
  BY NullIsNoNode DEF Walk, Pointers
<1>2. ASSUME NEW m \in Walk(h, nx), nx[m] # NULL PROVE nx[m] \in Walk(h, nx)
  <2>1. nx[m] \in Nodes
    BY <1>1, <1>2 DEF Nexts, Pointers
  <2>2. ASSUME NEW S \in SUBSET Nodes, h \in S \cup {NULL}, \A k \in S : nx[k] \in S \cup {NULL}
        PROVE  nx[m] \in S
    BY <1>2, <2>2 DEF Walk
  <2> QED
    BY <2>1, <2>2 DEF Walk
<1> QED
  BY <1>1, <1>2 DEF Closed

\* What it holds but h, it holds together with another that leads to it.
LEMMA WalkHasParents ==
    ASSUME NEW nx \in Nexts, NEW h \in Pointers, NEW x \in Walk(h, nx), x # h
    PROVE  \E y \in Walk(h, nx) : y # x /\ nx[y] = x
<1> DEFINE W == Walk(h, nx)
<1>1. SUFFICES ASSUME \A y \in W : y # x => nx[y] # x PROVE FALSE
  OBVIOUS
<1>2. W \subseteq Nodes /\ h \in W \cup {NULL} /\ Closed(nx, W)
  BY WalkHolds
<1>3. W \ {x} \in SUBSET Nodes /\ h \in (W \ {x}) \cup {NULL} /\ Closed(nx, W \ {x})
  BY <1>1, <1>2 DEF Closed
<1>4. W \subseteq W \ {x}
  BY <1>3, WalkIsLeast
<1> QED
  BY <1>4

\* A walk from NULL passes nothing.
LEMMA WalkFromNull ==
    ASSUME NEW nx
    PROVE  Walk(NULL, nx) = {}
<1>1. {} \in SUBSET Nodes /\ NULL \in {} \cup {NULL} /\ Closed(nx, {})
  BY DEF Closed
<1>2. Walk(NULL, nx) \subseteq {}
  BY <1>1, WalkIsLeast
<1> QED
  BY <1>2

\* Where the links of its nodes are the same, it is the same.
LEMMA WalkUnchanged ==
    ASSUME NEW nx \in Nexts, NEW other \in Nexts, NEW h \in Pointers,
           \A x \in Walk(h, nx) : other[x] = nx[x]
    PROVE  Walk(h, other) = Walk(h, nx)
<1> DEFINE W == Walk(h, nx)
           O == Walk(h, other)
<1>1. W \subseteq Nodes /\ h \in W \cup {NULL} /\ Closed(nx, W)
  BY WalkHolds
<1>2. O \subseteq Nodes /\ h \in O \cup {NULL} /\ Closed(other, O)
  BY WalkHolds
<1>3. O \subseteq W
  <2>1. Closed(other, W)
    BY <1>1 DEF Closed
  <2> QED
    BY <1>1, <2>1, WalkIsLeast
<1>4. W \subseteq O
  <2>1. Closed(nx, O)
    BY <1>2, <1>3 DEF Closed
  <2> QED
    BY <1>2, <2>1, WalkIsLeast
<1> QED
  BY <1>3, <1>4

\* After h comes what its link leads to.
LEMMA WalkFromNext ==
    ASSUME NEW nx \in Nexts, NEW h \in Nodes
    PROVE  Walk(h, nx) = {h} \cup Walk(nx[h], nx)
<1> DEFINE W == Walk(h, nx)
           V == Walk(nx[h], nx)
<1>1. h \in Pointers /\ nx[h] \in Pointers
  BY DEF Nexts, Pointers
<1>2. W \subseteq Nodes /\ h \in W \cup {NULL} /\ Closed(nx, W)
  BY <1>1, WalkHolds
<1>3. V \subseteq Nodes /\ nx[h] \in V \cup {NULL} /\ Closed(nx, V)
  BY <1>1, WalkHolds
<1>4. W \subseteq {h} \cup V
  <2>1. {h} \cup V \in SUBSET Nodes /\ h \in ({h} \cup V) \cup {NULL} /\ Closed(nx, {h} \cup V)
    BY <1>3 DEF Closed
  <2> QED
    BY <2>1, WalkIsLeast
<1>5. h \in W
  BY <1>2, NullIsNoNode
<1>6. V \subseteq W
  <2>1. nx[h] \in W \cup {NULL}
    BY <1>2, <1>5 DEF Closed
  <2> QED
    BY <1>2, <2>1, WalkIsLeast
<1> QED
  BY <1>4, <1>5, <1>6

\* What nothing leads to is passed only if the walk starts there.
LEMMA WalkMissesUnreferenced ==
    ASSUME NEW nx \in Nexts, NEW h \in Pointers, NEW x, x # h, \A m \in Nodes : nx[m] # x
    PROVE  x \notin Walk(h, nx)
BY WalkHasParents, WalkHolds

\* A walk that ends at t goes on to n once t leads there.
LEMMA WalkAppended ==
    ASSUME NEW nx \in Nexts, NEW h \in Pointers, NEW t \in Walk(h, nx), nx[t] = NULL,
           NEW n \in Nodes, nx[n] = NULL, n # t,
           NEW other \in Nexts, other[t] = n,
           \A x \in Nodes : x # t => other[x] = nx[x]
    PROVE  Walk(h, other) = Walk(h, nx) \cup {n}
<1> DEFINE W == Walk(h, nx)
           O == Walk(h, other)
<1>1. W \subseteq Nodes /\ h \in W \cup {NULL} /\ Closed(nx, W)
  BY WalkHolds
<1>2. /\ other \in Nexts /\ other[t] = n /\ other[n] = NULL
      /\ \A x \in Nodes : x # t => other[x] = nx[x]
  BY <1>1 DEF Nexts, Pointers
<1>3. O \subseteq Nodes /\ h \in O \cup {NULL} /\ Closed(other, O)
  BY <1>2, WalkHolds
<1>4. O \subseteq W \cup {n}
  <2>1. W \cup {n} \in SUBSET Nodes /\ h \in (W \cup {n}) \cup {NULL}
    BY <1>1
  <2>2. Closed(other, W \cup {n})
    BY <1>1, <1>2 DEF Closed
  <2> QED
    BY <2>1, <2>2, WalkIsLeast
<1>5. W \subseteq O
  <2>1. Closed(nx, O)
    BY <1>2, <1>3 DEF Closed
  <2> QED
    BY <1>3, <2>1, WalkIsLeast
<1>6. n \in O
  BY <1>2, <1>3, <1>5, NullIsNoNode DEF Closed
<1> QED
  BY <1>4, <1>5, <1>6

\* Only p leads to n, and a change of its link leads past it.
LedPast(nx, other, p, n) ==
    /\ nx[p] = n /\ n # p /\ nx[n] # n /\ \A m \in Nodes : nx[m] = n => m = p
    /\ other[p] = nx[n] /\ \A x \in Nodes : x # p => other[x] = nx[x]

\* A walk no longer passes n once p, which alone leads to it, leads past it.
LEMMA WalkUnlinked ==
    ASSUME NEW nx \in Nexts, NEW other \in Nexts, NEW h \in Pointers, NEW p \in Walk(h, nx),
           NEW n \in Nodes, n # h, LedPast(nx, other, p, n)
    PROVE  Walk(h, other) = Walk(h, nx) \ {n}
<1> USE DEF LedPast
<1> DEFINE W == Walk(h, nx)
           O == Walk(h, other)
<1>1. W \subseteq Nodes /\ h \in W \cup {NULL} /\ Closed(nx, W)
  BY WalkHolds
<1>2. /\ other \in Nexts /\ other[p] = nx[n]
      /\ \A x \in Nodes : x # p => other[x] = nx[x]
  BY <1>1 DEF Nexts, Pointers
<1>3. O \subseteq Nodes /\ h \in O \cup {NULL} /\ Closed(other, O)
  BY <1>2, WalkHolds
<1>n. n \in W
  BY <1>1, NullIsNoNode DEF Closed
<1>4. O \subseteq W \ {n}
  <2>1. W \ {n} \in SUBSET Nodes /\ h \in (W \ {n}) \cup {NULL}
    BY <1>1
  <2>2. Closed(other, W \ {n})
    BY <1>1, <1>2, <1>n DEF Closed
  <2> QED
    BY <2>1, <2>2, WalkIsLeast
<1>5. W \subseteq O \cup {n}
  <2>1. O \cup {n} \in SUBSET Nodes /\ h \in (O \cup {n}) \cup {NULL}
    BY <1>3
  <2>p. p \in O
    <3>1. SUFFICES ASSUME p \notin O PROVE FALSE
      OBVIOUS
    <3>2. Closed(nx, O)
      BY <1>2, <1>3, <3>1 DEF Closed
    <3>3. W \subseteq O
      BY <1>3, <3>2, WalkIsLeast
    <3> QED
      BY <3>1, <3>3
  <2>2. Closed(nx, O \cup {n})
    BY <1>2, <1>3, <2>p DEF Closed
  <2> QED
    BY <2>1, <2>2, WalkIsLeast
<1> QED
  BY <1>4, <1>5

----------------------------------------------------------------------------
(* Where the threads are, and the types.                                   *)

\* A step leaves each thread somewhere in its call, and the lock with the writer that is
\* between taking and giving it back.
LEMMA WorkStep ==
    ASSUME TypeOK, AtWork, Next
    PROVE  AtWork'
<1> USE ListAssumption DEF TypeOK, AtWork, Threads, Goto, InsertSteps, RemoveSteps, ReadSteps,
        LockedSteps, locals
<1>1. ASSUME NEW w \in Writers, NEW o \in {"append", "prepend"}, NEW i \in Images, insert(w, o, i)
      PROVE  AtWork'
  <2>1. /\ pc' = [pc EXCEPT ![w] = "lock"] /\ op' = [op EXCEPT ![w] = o]
        /\ pc[w] = "idle" /\ write_lock' = write_lock
    BY <1>1 DEF insert
  <2> QED
    BY <2>1
<1>2. ASSUME NEW w \in Writers, NEW o \in {"remove", "removeNode"}, NEW h \in Headers,
             remove(w, o, h)
      PROVE  AtWork'
  <2>1. /\ pc' = [pc EXCEPT ![w] = "seek"] /\ op' = [op EXCEPT ![w] = o]
        /\ pc[w] = "idle" /\ write_lock' = write_lock
    BY <1>2 DEF remove
  <2> QED
    BY <2>1
<1>3. ASSUME NEW w \in Writers, lock(w) PROVE AtWork'
  BY <1>3 DEF lock
<1>4. ASSUME NEW w \in Writers, recycleNode(w) PROVE AtWork'
  BY <1>4 DEF recycleNode
<1>5. ASSUME NEW w \in Writers, resetNode(w) PROVE AtWork'
  BY <1>5 DEF resetNode
<1>6. ASSUME NEW w \in Writers, newNode(w) PROVE AtWork'
  BY <1>6 DEF newNode
<1>7. ASSUME NEW w \in Writers, pointAtHead(w) PROVE AtWork'
  BY <1>7 DEF pointAtHead
<1>8. ASSUME NEW w \in Writers, linkFirst(w) PROVE AtWork'
  BY <1>8 DEF linkFirst
<1>9. ASSUME NEW w \in Writers, linkLast(w) PROVE AtWork'
  BY <1>9 DEF linkLast
<1>10. ASSUME NEW w \in Writers, linkHead(w) PROVE AtWork'
  BY <1>10 DEF linkHead
<1>11. ASSUME NEW w \in Writers, unlock(w) PROVE AtWork'
  BY <1>11 DEF unlock
<1>12. ASSUME NEW w \in Writers, seek(w) PROVE AtWork'
  BY <1>12 DEF seek
<1>13. ASSUME NEW w \in Writers, notThere(w) PROVE AtWork'
  BY <1>13 DEF notThere
<1>14. ASSUME NEW w \in Writers, release(w) PROVE AtWork'
  BY <1>14 DEF release
<1>15. ASSUME NEW w \in Writers, unlink(w) PROVE AtWork'
  BY <1>15 DEF unlink
<1>16. ASSUME NEW w \in Writers, testCount(w) PROVE AtWork'
  BY <1>16 DEF testCount
<1>17. ASSUME NEW w \in Writers, toFreeList(w) PROVE AtWork'
  BY <1>17 DEF toFreeList
<1>18. ASSUME NEW w \in Writers, delete(w) PROVE AtWork'
  BY <1>18 DEF delete
<1>19. ASSUME NEW w \in Writers, unlockRemove(w) PROVE AtWork'
  BY <1>19 DEF unlockRemove
<1>20. ASSUME NEW w \in Writers, endRemove(w) PROVE AtWork'
  BY <1>20 DEF endRemove
<1>21. ASSUME NEW r \in Readers, startReading(r) PROVE AtWork'
  BY <1>21 DEF startReading
<1>22. ASSUME NEW r \in Readers, fetchNode(r) PROVE AtWork'
  BY <1>22 DEF fetchNode
<1>23. ASSUME NEW r \in Readers, noteNode(r) PROVE AtWork'
  BY <1>23 DEF noteNode
<1>24. ASSUME NEW r \in Readers, returnImage(r) PROVE AtWork'
  BY <1>24 DEF returnImage
<1>25. ASSUME NEW r \in Readers, endReading(r) PROVE AtWork'
  BY <1>25 DEF endReading
<1> QED
  BY <1>1, <1>2, <1>3, <1>4, <1>5, <1>6, <1>7, <1>8, <1>9, <1>10, <1>11, <1>12, <1>13, <1>14,
     <1>15, <1>16, <1>17, <1>18, <1>19, <1>20, <1>21, <1>22, <1>23, <1>24, <1>25
     DEF Next, Call, WriterStep, ReaderStep

\* The list is in memory.
LEMMA ListedInMemory ==
    ASSUME TypeOK, Linked
    PROVE  Listed \subseteq heap
<1>1. heap \in SUBSET Nodes /\ head \in heap \cup {NULL} /\ Closed(next, heap)
  BY DEF TypeOK, Linked, Closed
<1> QED
  BY <1>1, WalkIsLeast DEF Listed
\* A thread that reads is counted.
LEMMA CountIsPositive ==
    ASSUME TypeOK, CountMatchesReaders, NEW t \in Reading
    PROVE  refcount - 1 \in Nat
<1>1. IsFiniteSet(Threads)
  BY FS_Union, ListAssumption DEF Threads
<1>2. IsFiniteSet(Reading)
  BY <1>1, FS_Subset DEF Reading
<1>3. Cardinality(Reading) \in Nat /\ Cardinality(Reading) # 0
  BY <1>2, FS_CardinalityType, FS_EmptySet
<1> QED
  BY <1>3 DEF CountMatchesReaders

\* One writer at a time holds the lock.
LEMMA OneHoldsTheLock ==
    ASSUME AtWork, NEW w \in Writers, pc[w] \in LockedSteps, NEW v \in Writers, v # w
    PROVE  pc[v] \notin LockedSteps
BY DEF AtWork

\* What unlink finds, and does: nothing leads to the node but the one before it, or head.
LEMMA UnlinkEffect ==
    ASSUME IndInv, NEW w \in Writers, unlink(w)
    PROVE  LET n == node[w]
               p == prev[n]
           IN  /\ n \in Listed /\ n \in heap /\ n # next[n]
               /\ \A m \in Nodes : next[m] = n => m = p
               /\ \/ n = head /\ p = NULL /\ head' = next[n] /\ next' = next
                  \/ /\ n # head /\ p \in Listed /\ p # n /\ next[p] = n
                     /\ head' = head /\ next' = [next EXCEPT ![p] = next[n]]
               /\ \/ next[n] # NULL /\ prev' = [prev EXCEPT ![next[n]] = p] /\ tail' = tail
                  \/ next[n] = NULL /\ prev' = prev /\ tail' = p
<1> DEFINE n == node[w]
           p == prev[n]
<1>1. pc[w] = "find" /\ n \in Listed
  BY DEF unlink
<1>2. n \in heap /\ n \in Nodes
  BY <1>1, ListedInMemory DEF IndInv, TypeOK
<1>3. /\ next \in Nexts /\ head \in Pointers /\ heap \subseteq Nodes
      /\ prev \in [Nodes -> Pointers]
  BY DEF IndInv, TypeOK, Nexts, Pointers
<1>4. \A v \in Writers : pc[v] \notin {"link", "count", "recycle", "delete"}
  BY <1>1, OneHoldsTheLock DEF IndInv, LockedSteps
<1>5. \A m \in Nodes : next[m] # NULL => prev[next[m]] = m
  BY <1>4 DEF IndInv, Linked, TakenOut
<1>6. \A m \in Nodes : next[m] = n => m = p
  BY <1>2, <1>5, NullIsNoNode
<1>7. n # next[n]
  <2>1. SUFFICES ASSUME n = next[n] PROVE FALSE
    OBVIOUS
  <2>2. {n} \in SUBSET heap /\ {n} # {} /\ \A x \in {n} : \E m \in {n} : next[m] = x
    BY <1>2, <2>1
  <2> QED
    BY <2>2 DEF IndInv, NoCycle
<1>8. CASE n = head
  <2>1. p = NULL
    BY <1>2, <1>4, <1>8, NullIsNoNode DEF IndInv, Linked
  <2> QED
    BY <1>1, <1>2, <1>6, <1>7, <1>8, <2>1 DEF unlink
<1>9. CASE n # head
  <2>1. PICK y \in Listed : y # n /\ next[y] = n
    BY <1>1, <1>3, <1>9, WalkHasParents DEF Listed
  <2>2. y \in Nodes
    BY <1>3, <2>1, WalkHolds DEF Listed
  <2>3. p = y
    BY <1>6, <2>1, <2>2
  <2>4. next' = [next EXCEPT ![p] = next[n]] /\ head' = head
    BY <1>9, <2>1, <2>2, <2>3 DEF unlink, CompareAndSwap
  <2>5. \/ next[n] # NULL /\ prev' = [prev EXCEPT ![next[n]] = p] /\ tail' = tail
        \/ next[n] = NULL /\ prev' = prev /\ tail' = p
    BY DEF unlink
  <2> QED
    BY <1>1, <1>2, <1>6, <1>7, <1>9, <2>1, <2>3, <2>4, <2>5
<1> QED
  BY <1>8, <1>9

\* Every step keeps the types.
LEMMA TypeStep ==
    ASSUME IndInv, Next
    PROVE  TypeOK'
<1> USE ListAssumption DEF IndInv, TypeOK, Threads, Goto, InsertSteps, RemoveSteps, ReadSteps,
        locals, links, dyld, history, After, CompareAndSwap
<1>1. ASSUME NEW w \in Writers, NEW o \in {"append", "prepend"}, NEW i \in Images, insert(w, o, i)
      PROVE  TypeOK'
  BY <1>1 DEF insert
<1>2. ASSUME NEW w \in Writers, NEW o \in {"remove", "removeNode"}, NEW h \in Headers,
             remove(w, o, h)
      PROVE  TypeOK'
  BY <1>2 DEF remove
<1>3. ASSUME NEW w \in Writers, lock(w) PROVE TypeOK'
  BY <1>3 DEF lock
<1>4. ASSUME NEW w \in Writers, recycleNode(w) PROVE TypeOK'
  BY <1>4 DEF recycleNode
<1>5. ASSUME NEW w \in Writers, resetNode(w) PROVE TypeOK'
  <2>1. node[w] \in Nodes /\ node[w] = free
    BY <1>5 DEF resetNode, NodeInHand
  <2>2. next' \in [Nodes -> Nodes \cup {NULL}]
    BY <1>5 DEF resetNode
  <2>3. free' \in Nodes \cup {NULL}
    BY <1>5, <2>1, <2>2 DEF resetNode
  <2> QED
    BY <1>5, <2>1, <2>2, <2>3 DEF resetNode
<1>6. ASSUME NEW w \in Writers, newNode(w) PROVE TypeOK'
  BY <1>6 DEF newNode
<1>7. ASSUME NEW w \in Writers, pointAtHead(w) PROVE TypeOK'
  BY <1>7 DEF pointAtHead
<1>8. ASSUME NEW w \in Writers, linkFirst(w) PROVE TypeOK'
  BY <1>8 DEF linkFirst
<1>9. ASSUME NEW w \in Writers, linkLast(w) PROVE TypeOK'
  BY <1>9 DEF linkLast
<1>10. ASSUME NEW w \in Writers, linkHead(w) PROVE TypeOK'
  BY <1>10 DEF linkHead
<1>11. ASSUME NEW w \in Writers, unlock(w) PROVE TypeOK'
  BY <1>11 DEF unlock
<1>12. ASSUME NEW w \in Writers, seek(w) PROVE TypeOK'
  BY <1>12 DEF seek
<1>13. ASSUME NEW w \in Writers, notThere(w) PROVE TypeOK'
  <2>1. refcount - 1 \in Nat
    BY <1>13, CountIsPositive DEF notThere, Reading
  <2> QED
    BY <1>13, <2>1 DEF notThere
<1>14. ASSUME NEW w \in Writers, release(w) PROVE TypeOK'
  <2>1. refcount - 1 \in Nat
    BY <1>14, CountIsPositive DEF release, Reading
  <2> QED
    BY <1>14, <2>1 DEF release
<1>15. ASSUME NEW w \in Writers, unlink(w) PROVE TypeOK'
  <2>1. /\ node[w] \in Nodes /\ next[node[w]] \in Nodes \cup {NULL}
        /\ prev[node[w]] \in Nodes \cup {NULL}
    BY <1>15, UnlinkEffect
  <2>2. next' \in [Nodes -> Nodes \cup {NULL}] /\ head' \in Nodes \cup {NULL}
    <3>1. UNCHANGED next \/ next' = [next EXCEPT ![prev[node[w]]] = next[node[w]]]
      BY <1>15, UnlinkEffect
    <3>2. head' \in {head, next[node[w]]}
      BY <1>15, UnlinkEffect
    <3> QED
      BY <2>1, <3>1, <3>2
  <2>3. prev' \in [Nodes -> Nodes \cup {NULL}] /\ tail' \in Nodes \cup {NULL}
    <3>1. UNCHANGED prev \/ prev' = [prev EXCEPT ![next[node[w]]] = prev[node[w]]]
      BY <1>15, UnlinkEffect
    <3>2. tail' \in {tail, prev[node[w]]}
      BY <1>15, UnlinkEffect
    <3> QED
      BY <2>1, <3>1, <3>2
  <2>4. must' \in [Readers -> SUBSET Images] /\ strayed' \in [Readers -> BOOLEAN]
    <3>1. \A r \in Readers : must[r] \ {value[node[w]]} \in SUBSET Images
      OBVIOUS
    <3> QED
      BY <1>15, <3>1 DEF unlink
  <2>5. pc' = [pc EXCEPT ![w] = "count"]
    BY <1>15 DEF unlink
  <2>6. UNCHANGED <<free, refcount, write_lock, heap, value, imageNode, op, image, header,
                    node, loaded, used, seen>>
    BY <1>15 DEF unlink
  <2> QED
    BY <2>2, <2>3, <2>4, <2>5, <2>6
<1>16. ASSUME NEW w \in Writers, testCount(w) PROVE TypeOK'
  BY <1>16 DEF testCount
<1>17. ASSUME NEW w \in Writers, toFreeList(w) PROVE TypeOK'
  BY <1>17 DEF toFreeList
<1>18. ASSUME NEW w \in Writers, delete(w) PROVE TypeOK'
  BY <1>18 DEF delete
<1>19. ASSUME NEW w \in Writers, unlockRemove(w) PROVE TypeOK'
  BY <1>19 DEF unlockRemove
<1>20. ASSUME NEW w \in Writers, endRemove(w) PROVE TypeOK'
  <2>1. op[w] = "remove" => refcount - 1 \in Nat
    BY <1>20, CountIsPositive DEF endRemove, Reading
  <2> QED
    BY <1>20, <2>1 DEF endRemove
<1>21. ASSUME NEW r \in Readers, startReading(r) PROVE TypeOK'
  <2>1. ListedImages \in SUBSET Images
    BY ListedInMemory DEF ListedImages, OneNodePerImage
  <2> QED
    BY <1>21, <2>1 DEF startReading
<1>22. ASSUME NEW r \in Readers, fetchNode(r) PROVE TypeOK'
  BY <1>22 DEF fetchNode
<1>23. ASSUME NEW r \in Readers, noteNode(r) PROVE TypeOK'
  BY <1>23 DEF noteNode
<1>24. ASSUME NEW r \in Readers, returnImage(r) PROVE TypeOK'
  <2>1. node[r] \in heap
    BY <1>24 DEF returnImage, StandsSafely, Reading, Position
  <2>2. value[node[r]] \in Images
    BY <2>1 DEF OneNodePerImage
  <2> QED
    BY <1>24, <2>2 DEF returnImage
<1>25. ASSUME NEW r \in Readers, endReading(r) PROVE TypeOK'
  <2>1. refcount - 1 \in Nat
    BY <1>25, CountIsPositive DEF endReading, Reading
  <2> QED
    BY <1>25, <2>1 DEF endReading
<1> HIDE DEF IndInv, TypeOK
<1> QED
  BY <1>1, <1>2, <1>3, <1>4, <1>5, <1>6, <1>7, <1>8, <1>9, <1>10, <1>11, <1>12, <1>13, <1>14,
     <1>15, <1>16, <1>17, <1>18, <1>19, <1>20, <1>21, <1>22, <1>23, <1>24, <1>25
     DEF Next, Call, WriterStep, ReaderStep

----------------------------------------------------------------------------
(* The links, where a step changes them.                                   *)

ListInv == Linked /\ EndsAtTail /\ NodeInHand /\ NoCycle

Handling == {"reset", "point", "link", "count", "recycle", "delete"}

\* The types that matter for the links.
LEMMA LinkTypes ==
    ASSUME IndInv
    PROVE  /\ next \in Nexts /\ head \in Pointers /\ tail \in Pointers /\ free \in Pointers
           /\ prev \in [Nodes -> Pointers] /\ heap \subseteq Nodes
           /\ Listed \subseteq Nodes /\ head \in Listed \cup {NULL} /\ Closed(next, Listed)
           /\ free \notin Listed /\ NULL \notin Nodes
<1>1. /\ next \in Nexts /\ head \in Pointers /\ tail \in Pointers /\ free \in Pointers
      /\ prev \in [Nodes -> Pointers] /\ heap \subseteq Nodes
  BY DEF IndInv, TypeOK, Nexts, Pointers
<1>2. Listed \subseteq Nodes /\ head \in Listed \cup {NULL} /\ Closed(next, Listed)
  BY <1>1, WalkHolds DEF Listed
<1>3. free \notin Listed
  <2>1. CASE free = NULL
    BY <1>2, <2>1, NullIsNoNode
  <2>2. CASE free # NULL
    BY <1>1, <2>2, WalkMissesUnreferenced DEF Listed, IndInv, Linked
  <2> QED
    BY <2>1, <2>2
<1> QED
  BY <1>1, <1>2, <1>3, NullIsNoNode

\* The node in hand is apart from the list.
LEMMA InHandIsApart ==
    ASSUME IndInv, NEW w \in Writers, pc[w] \in {"point", "link", "count", "recycle", "delete"}
    PROVE  /\ node[w] \in heap /\ node[w] \in Nodes /\ node[w] # head /\ node[w] # free
           /\ node[w] \notin Listed /\ \A m \in Nodes : next[m] # node[w]
<1>1. /\ node[w] \in heap /\ node[w] # head /\ node[w] # free
      /\ \A m \in Nodes : next[m] # node[w]
  BY DEF IndInv, NodeInHand, Unreferenced
<1> QED
  BY <1>1, LinkTypes, WalkMissesUnreferenced DEF Listed

\* Nothing is before the head unless a node is about to be put there.
LEMMA NothingBeforeHead ==
    ASSUME IndInv, NEW w \in Writers, pc[w] \in LockedSteps, pc[w] # "link" \/ op[w] = "append",
           head # NULL
    PROVE  prev[head] = NULL
<1>1. \A v \in Writers : pc[v] = "link" => op[v] # "prepend"
  <2>1. TAKE v \in Writers
  <2>2. CASE v = w
    BY <2>2
  <2>3. CASE v # w
    BY <2>3, OneHoldsTheLock DEF IndInv, LockedSteps
  <2> QED
    BY <2>2, <2>3
<1> QED
  BY <1>1 DEF IndInv, Linked

\* What is taken out is what the holder of the lock has taken out.
LEMMA TakenOutByHolder ==
    ASSUME AtWork, NEW w \in Writers, pc[w] \in LockedSteps
    PROVE  TakenOut = IF pc[w] \in {"count", "recycle", "delete"} THEN {node[w]} ELSE {}
BY OneHoldsTheLock DEF TakenOut, LockedSteps

\* The same after a step.
LEMMA TakenOutThen ==
    ASSUME AtWork, NEW w \in Writers, pc[w] \in LockedSteps,
           \A v \in Writers : v # w => pc'[v] = pc[v]
    PROVE  TakenOut' = IF pc'[w] \in {"count", "recycle", "delete"} THEN {node'[w]} ELSE {}
BY OneHoldsTheLock DEF TakenOut, LockedSteps

\* A step that leaves the links alone and handles no node keeps the list.
LEMMA LinksUntouched ==
    ASSUME IndInv, NEW t \in Threads, pc[t] \notin Handling, pc'[t] \notin Handling,
           UNCHANGED <<links, heap>>,
           \A v \in Threads : v # t => pc'[v] = pc[v] /\ op'[v] = op[v] /\ node'[v] = node[v]
    PROVE  ListInv'
<1>2. \A v \in Writers : v \in Threads
  BY DEF Threads
<1>3. \A v \in Writers : pc'[v] \in Handling => v # t /\ pc[v] = pc'[v]
  BY <1>2
<1>4. \A v \in Writers : pc[v] \in Handling => v # t /\ pc[v] = pc'[v]
  BY <1>2
<1>5. TakenOut' = TakenOut
  BY <1>2, <1>3, <1>4 DEF TakenOut, Handling
<1>6. UNCHANGED <<head, tail, free, next, prev, heap>>
  BY DEF links
<1>7. Linked'
  <2>1. \A w \in Writers : pc[w] = "link" /\ op[w] = "prepend" /\ prev[head] = node[w]
                           => pc'[w] = "link" /\ op'[w] = "prepend" /\ prev[head] = node'[w]
    BY <1>2, <1>4 DEF Handling
  <2> QED
    BY <1>5, <1>6, <2>1 DEF IndInv, Linked
<1>8. EndsAtTail' /\ NoCycle'
  BY <1>6 DEF IndInv, EndsAtTail, NoCycle, Listed
<1>9. NodeInHand'
  BY <1>2, <1>3, <1>6 DEF IndInv, NodeInHand, Unreferenced, Handling
<1> QED
  BY <1>7, <1>8, <1>9 DEF ListInv

\* A step after which the holder of the lock has no node in hand.
LEMMA NothingInHand ==
    ASSUME AtWork, NEW w \in Writers, pc[w] \in LockedSteps, pc'[w] \notin Handling,
           \A v \in Writers : v # w => pc'[v] = pc[v]
    PROVE  NodeInHand'
<1>1. \A v \in Writers : pc'[v] \notin Handling
  BY OneHoldsTheLock DEF Handling, LockedSteps
<1> QED
  BY <1>1 DEF NodeInHand, Handling

\* A node that is made, or taken from the free list, is apart from the list.
LEMMA FreshNode ==
    ASSUME IndInv, NEW w \in Writers, pc[w] \in {"take", "reset"}, NEW n \in Nodes, n # head,
           \A m \in Nodes : next[m] # n, heap' = heap \cup {n}, head' = head, tail' = tail,
           free' = NULL, next' = [next EXCEPT ![n] = NULL], prev' = [prev EXCEPT ![n] = NULL],
           node'[w] = n, op' = op, op[w] \in {"append", "prepend"},
           pc' = [pc EXCEPT ![w] = IF op[w] = "prepend" /\ tail # NULL THEN "point" ELSE "link"]
    PROVE  ListInv'
<1>t. /\ next \in Nexts /\ head \in Pointers /\ prev \in [Nodes -> Pointers]
      /\ heap \subseteq Nodes /\ Listed \subseteq Nodes /\ NULL \notin Nodes
  BY LinkTypes
<1>p. \A v \in Writers : pc'[v] = IF v # w THEN pc[v]
                                  ELSE IF op[w] = "prepend" /\ tail # NULL THEN "point" ELSE "link"
  BY DEF IndInv, TypeOK, Threads
<1>l. pc[w] \in LockedSteps
  BY DEF LockedSteps
<1>o. TakenOut = {} /\ TakenOut' = {}
  <2>1. TakenOut = {}
    BY <1>l, TakenOutByHolder DEF IndInv
  <2>2. \A v \in Writers : v # w => pc[v] \notin LockedSteps
    BY <1>l, OneHoldsTheLock DEF IndInv
  <2> QED
    BY <1>p, <2>1, <2>2 DEF TakenOut, LockedSteps
<1>a. \A v \in Writers : v # w => pc'[v] \notin Handling
  BY <1>l, <1>p, OneHoldsTheLock DEF IndInv, LockedSteps, Handling
<1>n. /\ next'[n] = NULL /\ prev'[n] = NULL
      /\ \A m \in Nodes : m # n => next'[m] = next[m] /\ prev'[m] = prev[m]
  BY <1>t DEF Nexts
<1>1. Linked'
  <2>1. head # NULL => prev[head] = NULL
    BY <1>l, NothingBeforeHead
  <2>2. head # NULL => prev'[head] = NULL
    BY <1>n, <1>t, <2>1 DEF Pointers
  <2>3. {head', free'} \subseteq heap' \cup {NULL}
    BY DEF IndInv, Linked
  <2>4. ASSUME NEW m \in Nodes
        PROVE  /\ next'[m] \in heap' \cup {NULL}
               /\ m \notin heap' => next'[m] = NULL
               /\ next'[m] # NULL => prev'[next'[m]] = m
    <3>1. CASE m = n
      BY <1>n, <3>1
    <3>2. CASE m # n
      BY <1>n, <1>o, <1>t, <3>2 DEF IndInv, Linked
    <3> QED
      BY <3>1, <3>2
  <2> QED
    BY <2>2, <2>3, <2>4 DEF Linked
<1>2. EndsAtTail'
  <2>1. n \notin Listed
    BY <1>t, WalkMissesUnreferenced DEF Listed
  <2>2. next' \in Nexts
    BY <1>t DEF Nexts, Pointers
  <2>3. \A x \in Walk(head, next) : next'[x] = next[x]
    BY <1>n, <1>t, <2>1 DEF Listed
  <2>4. Walk(head, next') = Walk(head, next)
    BY <1>t, <2>2, <2>3, WalkUnchanged
  <2>5. Listed' = Listed
    BY <2>4 DEF Listed
  <2> QED
    BY <1>n, <1>t, <2>1, <2>5 DEF IndInv, EndsAtTail
<1>3. NodeInHand'
  <2>1. Unreferenced(n)'
    BY <1>n, <1>t DEF Unreferenced
  <2>2. tail = NULL => head = NULL
    BY DEF IndInv, EndsAtTail
  <2>3. \A v \in Writers : pc'[v] \in Handling => v = w /\ pc'[v] \in {"point", "link"}
    BY <1>a, <1>p
  <2> QED
    BY <1>n, <1>p, <2>1, <2>2, <2>3 DEF NodeInHand, Handling
<1>4. NoCycle'
  <2>1. SUFFICES ASSUME NEW S \in SUBSET heap', S # {}, \A x \in S : \E m \in S : next'[m] = x
                 PROVE  FALSE
    BY DEF NoCycle
  <2>2. S \subseteq Nodes
    BY <1>t
  <2>3. n \notin S
    BY <1>n, <1>t, <2>1, <2>2
  <2>4. S \in SUBSET heap /\ \A x \in S : \E m \in S : next[m] = x
    BY <1>n, <2>1, <2>2, <2>3
  <2> QED
    BY <2>1, <2>4 DEF IndInv, NoCycle
<1> QED
  BY <1>1, <1>2, <1>3, <1>4 DEF ListInv

\* The node taken out of the free list and emptied.
LEMMA ResetKeepsList ==
    ASSUME IndInv, NEW w \in Writers, resetNode(w)
    PROVE  ListInv'
<1>1. pc[w] = "reset" /\ node[w] = free /\ free # NULL
  BY DEF resetNode, IndInv, NodeInHand
<1>2. /\ free \in Nodes /\ free \in heap /\ free # head /\ \A m \in Nodes : next[m] # free
  BY <1>1, LinkTypes DEF IndInv, Linked, Pointers
<1>3. op[w] \in {"append", "prepend"}
  BY <1>1 DEF IndInv, AtWork, InsertSteps
<1>4. /\ next' = [next EXCEPT ![free] = NULL] /\ prev' = [prev EXCEPT ![free] = NULL]
      /\ UNCHANGED <<head, tail, heap, op, node>>
      /\ pc' = [pc EXCEPT ![w] = IF op[w] = "prepend" /\ tail # NULL THEN "point" ELSE "link"]
  BY <1>1 DEF resetNode, locals, Goto
<1>5. free' = NULL
  BY <1>1, <1>2, <1>4, LinkTypes DEF resetNode, Nexts
<1> QED
  BY <1>1, <1>2, <1>3, <1>4, <1>5, FreshNode

\* A node that is made.
LEMMA NewKeepsList ==
    ASSUME IndInv, NEW w \in Writers, newNode(w)
    PROVE  ListInv'
<1>1. PICK n \in Nodes \ heap :
          /\ heap' = heap \cup {n} /\ node' = [node EXCEPT ![w] = n]
          /\ prev' = [prev EXCEPT ![n] = NULL] /\ next' = [next EXCEPT ![n] = NULL]
  BY DEF newNode
<1>2. /\ pc[w] = "take" /\ free = NULL /\ UNCHANGED <<head, tail, free, op>>
      /\ pc' = [pc EXCEPT ![w] = IF op[w] = "prepend" /\ tail # NULL THEN "point" ELSE "link"]
  BY DEF newNode, Goto
<1>3. op[w] \in {"append", "prepend"}
  BY <1>2 DEF IndInv, AtWork, InsertSteps
<1>4. n # head /\ \A m \in Nodes : next[m] # n
  BY <1>1, LinkTypes DEF IndInv, Linked
<1>5. node'[w] = n
  BY <1>1 DEF IndInv, TypeOK, Threads
<1> QED
  BY <1>1, <1>2, <1>3, <1>4, <1>5, FreshNode

\* A node of the free list, in hand.
LEMMA RecycleKeepsList ==
    ASSUME IndInv, NEW w \in Writers, recycleNode(w)
    PROVE  ListInv'
<1>1. /\ pc[w] = "take" /\ free # NULL /\ node' = [node EXCEPT ![w] = free]
      /\ pc' = [pc EXCEPT ![w] = "reset"] /\ UNCHANGED <<links, heap, op>>
  BY DEF recycleNode, Goto
<1>2. pc[w] \in LockedSteps
  BY <1>1 DEF LockedSteps
<1>3. TakenOut = {} /\ TakenOut' = {}
  <2>1. TakenOut = {}
    BY <1>1, <1>2, TakenOutByHolder DEF IndInv
  <2>2. pc'[w] = "reset" /\ \A v \in Writers : v # w => pc'[v] = pc[v]
    BY <1>1 DEF IndInv, TypeOK, Threads
  <2>3. TakenOut' = {}
    BY <1>2, <2>2, TakenOutThen DEF IndInv
  <2> QED
    BY <2>1, <2>3
<1>4. UNCHANGED <<head, tail, free, next, prev, heap>>
  BY <1>1 DEF links
<1>5. Linked'
  <2>1. head # NULL => prev[head] = NULL
    BY <1>1, <1>2, NothingBeforeHead
  <2> QED
    BY <1>3, <1>4, <2>1 DEF IndInv, Linked
<1>6. EndsAtTail' /\ NoCycle'
  BY <1>4 DEF IndInv, EndsAtTail, NoCycle, Listed
<1>7. NodeInHand'
  <2>1. \A v \in Writers : pc'[v] = IF v = w THEN "reset" ELSE pc[v]
    BY <1>1 DEF IndInv, TypeOK, Threads
  <2>2. \A v \in Writers : pc'[v] \in Handling => v = w /\ pc'[v] = "reset"
    BY <1>2, <2>1, OneHoldsTheLock DEF IndInv, Handling, LockedSteps
  <2>3. node'[w] = free
    BY <1>1 DEF IndInv, TypeOK, Threads
  <2> QED
    BY <1>1, <1>4, <2>2, <2>3 DEF NodeInHand, Handling
<1> QED
  BY <1>5, <1>6, <1>7 DEF ListInv

\* The new node points at the head.
LEMMA PointKeepsList ==
    ASSUME IndInv, NEW w \in Writers, pointAtHead(w)
    PROVE  ListInv'
<1>0. PICK n : n = node[w]
  OBVIOUS
<1>1. /\ pc[w] = "point" /\ pc' = [pc EXCEPT ![w] = "link"]
      /\ next' = [next EXCEPT ![n] = head] /\ prev' = [prev EXCEPT ![n] = NULL, ![head] = n]
      /\ UNCHANGED <<head, tail, free, heap, op, node>>
  BY <1>0 DEF pointAtHead, Goto, locals
<1>2. /\ n \in heap /\ n \in Nodes /\ n # head /\ n # free /\ n \notin Listed
      /\ \A m \in Nodes : next[m] # n
  BY <1>0, <1>1, InHandIsApart
<1>3. op[w] = "prepend" /\ tail # NULL /\ head # NULL
  BY <1>1, NullIsNoNode DEF IndInv, NodeInHand, EndsAtTail
<1>t. /\ next \in Nexts /\ head \in Nodes /\ prev \in [Nodes -> Pointers]
      /\ heap \subseteq Nodes /\ Listed \subseteq Nodes /\ NULL \notin Nodes
  BY <1>3, LinkTypes DEF Pointers
<1>l. pc[w] \in LockedSteps
  BY <1>1 DEF LockedSteps
<1>p. \A v \in Writers : pc'[v] = IF v = w THEN "link" ELSE pc[v]
  BY <1>1 DEF IndInv, TypeOK, Threads
<1>o. TakenOut = {} /\ TakenOut' = {}
  <2>1. TakenOut = {}
    BY <1>1, <1>l, TakenOutByHolder DEF IndInv
  <2>2. TakenOut' = {}
    BY <1>l, <1>p, TakenOutThen DEF IndInv
  <2> QED
    BY <2>1, <2>2
<1>n. /\ next'[n] = head /\ prev'[n] = NULL /\ prev'[head] = n
      /\ \A m \in Nodes : m # n => next'[m] = next[m] /\ (m # head => prev'[m] = prev[m])
  BY <1>1, <1>2, <1>t DEF Nexts
<1>4. Linked'
  <2>1. prev[head] = NULL
    BY <1>1, <1>3, <1>l, NothingBeforeHead
  <2>2. ASSUME NEW m \in Nodes
        PROVE  /\ next'[m] \in heap' \cup {NULL}
               /\ m \notin heap' => next'[m] = NULL
               /\ next'[m] # NULL => prev'[next'[m]] = m
               /\ free # NULL => next'[m] # free
    <3>1. CASE m = n
      BY <1>1, <1>2, <1>n, <3>1 DEF IndInv, Linked
    <3>2. CASE m # n
      <4>1. /\ next'[m] = next[m] /\ next[m] # n
            /\ next[m] # NULL => next[m] \in Nodes /\ prev[next[m]] = m
        BY <1>2, <1>n, <1>o, <1>t, <3>2 DEF IndInv, Linked
      <4>2. next[m] # head
        BY <1>3, <1>t, <2>1, <4>1
      <4>3. next[m] # NULL => prev'[next[m]] = prev[next[m]]
        BY <1>n, <4>1, <4>2
      <4> QED
        BY <1>1, <4>1, <4>3 DEF IndInv, Linked
    <3> QED
      BY <3>1, <3>2
  <2>3. free # NULL => free # head /\ prev'[free] = NULL
    <3>1. free # NULL => free \in Nodes
      BY LinkTypes DEF Pointers
    <3> QED
      BY <1>2, <1>n, <3>1 DEF IndInv, Linked
  <2>4. pc'[w] = "link" /\ op'[w] = "prepend" /\ prev'[head] = node'[w]
    BY <1>0, <1>1, <1>3, <1>n, <1>p
  <2>5. {head', free'} \subseteq heap' \cup {NULL}
    BY <1>1 DEF IndInv, Linked
  <2> QED
    BY <1>1, <2>2, <2>3, <2>4, <2>5 DEF Linked
<1>5. EndsAtTail'
  <2>1. next' \in Nexts
    BY <1>1, <1>t DEF Nexts, Pointers
  <2>2. \A x \in Walk(head, next) : next'[x] = next[x]
    BY <1>2, <1>n, <1>t DEF Listed
  <2>3. Walk(head, next') = Walk(head, next)
    BY <1>t, <2>1, <2>2, WalkUnchanged DEF Pointers
  <2>4. Listed' = Listed
    BY <1>1, <2>3 DEF Listed
  <2> QED
    BY <1>1, <1>2, <1>n, <1>t, <2>4 DEF IndInv, EndsAtTail
<1>6. NodeInHand'
  <2>1. \A v \in Writers : pc'[v] \in Handling => v = w /\ pc'[v] = "link"
    BY <1>l, <1>p, OneHoldsTheLock DEF IndInv, Handling, LockedSteps
  <2>2. node'[w] = n
    BY <1>0, <1>1
  <2>3. Unreferenced(n)'
    BY <1>1, <1>2, <1>n DEF Unreferenced
  <2> QED
    BY <1>1, <1>2, <1>3, <1>n, <2>1, <2>2, <2>3 DEF NodeInHand, Handling
<1>7. NoCycle'
  <2>1. SUFFICES ASSUME NEW S \in SUBSET heap', S # {}, \A x \in S : \E m \in S : next'[m] = x
                 PROVE  FALSE
    BY DEF NoCycle
  <2>2. S \subseteq Nodes
    BY <1>1, <1>t
  <2>3. n \notin S
    BY <1>2, <1>n, <1>t, <2>1, <2>2
  <2>4. S \in SUBSET heap /\ \A x \in S : \E m \in S : next[m] = x
    BY <1>1, <1>n, <2>1, <2>2, <2>3
  <2> QED
    BY <2>1, <2>4 DEF IndInv, NoCycle
<1> QED
  BY <1>4, <1>5, <1>6, <1>7 DEF ListInv

\* The node in hand becomes the first of an empty list.
LEMMA FirstKeepsList ==
    ASSUME IndInv, NEW w \in Writers, linkFirst(w)
    PROVE  ListInv'
<1>0. PICK n : n = node[w]
  OBVIOUS
<1>1. /\ pc[w] = "link" /\ tail = NULL /\ pc' = [pc EXCEPT ![w] = "unlock"]
      /\ tail' = n /\ UNCHANGED <<free, next, prev, heap, op, node>>
  BY <1>0 DEF linkFirst, Goto, locals
<1>2. /\ n \in heap /\ n \in Nodes /\ n # head /\ n # free /\ n \notin Listed
      /\ \A m \in Nodes : next[m] # n
  BY <1>0, <1>1, InHandIsApart
<1>3. head = NULL /\ head' = n
  BY <1>0, <1>1 DEF IndInv, EndsAtTail, linkFirst, CompareAndSwap
<1>4. prev[n] = NULL /\ next[n] = NULL
  BY <1>0, <1>1, <1>3 DEF IndInv, NodeInHand
<1>t. next \in Nexts /\ NULL \notin Nodes
  BY LinkTypes
<1>l. pc[w] \in LockedSteps
  BY <1>1 DEF LockedSteps
<1>p. pc'[w] = "unlock" /\ \A v \in Writers : v # w => pc'[v] = pc[v]
  BY <1>1 DEF IndInv, TypeOK, Threads
<1>o. TakenOut = {} /\ TakenOut' = {}
  BY <1>1, <1>l, <1>p, TakenOutByHolder, TakenOutThen DEF IndInv
<1>5. Linked'
  BY <1>1, <1>2, <1>3, <1>4, <1>o DEF IndInv, Linked
<1>6. EndsAtTail'
  <2>1. Listed' = {n} \cup Walk(next[n], next)
    BY <1>1, <1>2, <1>3, <1>t, WalkFromNext DEF Listed
  <2>2. Listed' = {n}
    BY <1>4, <2>1, WalkFromNull
  <2> QED
    BY <1>1, <1>2, <1>3, <1>4, <1>t, <2>2 DEF EndsAtTail
<1>7. NodeInHand'
  BY <1>l, <1>p, NothingInHand DEF IndInv, Handling
<1>8. NoCycle'
  BY <1>1 DEF IndInv, NoCycle
<1> QED
  BY <1>5, <1>6, <1>7, <1>8 DEF ListInv

\* The node in hand becomes the last.
LEMMA LastKeepsList ==
    ASSUME IndInv, NEW w \in Writers, linkLast(w)
    PROVE  ListInv'
<1>0. PICK n, t : n = node[w] /\ t = tail
  OBVIOUS
<1>1. /\ pc[w] = "link" /\ t # NULL /\ op[w] = "append" /\ pc' = [pc EXCEPT ![w] = "unlock"]
      /\ prev' = [prev EXCEPT ![n] = t] /\ tail' = n
      /\ UNCHANGED <<head, free, heap, op, node>>
  BY <1>0 DEF linkLast, Goto, locals
<1>2. /\ n \in heap /\ n \in Nodes /\ n # head /\ n # free /\ n \notin Listed
      /\ \A m \in Nodes : next[m] # n
  BY <1>0, <1>1, InHandIsApart
<1>t. /\ next \in Nexts /\ head \in Pointers /\ prev \in [Nodes -> Pointers]
      /\ heap \subseteq Nodes /\ Listed \subseteq Nodes /\ NULL \notin Nodes
  BY LinkTypes
<1>3. /\ t \in Listed /\ next[t] = NULL /\ head # NULL /\ t # n
      /\ \A x \in Listed : next[x] = NULL <=> x = t
  BY <1>0, <1>1, <1>2 DEF IndInv, EndsAtTail
<1>4. next[n] = NULL
  BY <1>0, <1>1 DEF IndInv, NodeInHand
<1>5. next' = [next EXCEPT ![t] = n]
  <2>1. next' = [next EXCEPT ![tail] = CompareAndSwap(NULL, @, node[w])]
    BY DEF linkLast
  <2> QED
    BY <1>0, <1>3, <1>t, <2>1 DEF CompareAndSwap, Nexts
<1>l. pc[w] \in LockedSteps
  BY <1>1 DEF LockedSteps
<1>p. pc'[w] = "unlock" /\ \A v \in Writers : v # w => pc'[v] = pc[v]
  BY <1>1 DEF IndInv, TypeOK, Threads
<1>o. TakenOut = {} /\ TakenOut' = {}
  BY <1>1, <1>l, <1>p, TakenOutByHolder, TakenOutThen DEF IndInv
<1>n. /\ next'[t] = n /\ \A m \in Nodes : m # t => next'[m] = next[m]
      /\ prev'[n] = t /\ \A m \in Nodes : m # n => prev'[m] = prev[m]
  BY <1>1, <1>2, <1>3, <1>5, <1>t DEF Nexts
<1>6. Linked'
  <2>1. head \in Nodes /\ prev'[head] = NULL
    BY <1>1, <1>2, <1>3, <1>l, <1>n, <1>t, NothingBeforeHead DEF Pointers
  <2>2. ASSUME NEW m \in Nodes
        PROVE  /\ next'[m] \in heap' \cup {NULL}
               /\ m \notin heap' => next'[m] = NULL
               /\ next'[m] # NULL => prev'[next'[m]] = m
               /\ free # NULL => next'[m] # free
    <3>1. CASE m = t
      <4>1. t \in heap
        BY <1>3, ListedInMemory DEF IndInv
      <4> QED
        BY <1>1, <1>2, <1>n, <3>1, <4>1
    <3>2. CASE m # t
      BY <1>1, <1>2, <1>n, <1>o, <1>t, <3>2 DEF IndInv, Linked
    <3> QED
      BY <3>1, <3>2
  <2>3. free # NULL => free # head /\ prev'[free] = NULL
    <3>1. free # NULL => free \in Nodes
      BY LinkTypes DEF Pointers
    <3> QED
      BY <1>2, <1>n, <3>1 DEF IndInv, Linked
  <2>4. {head', free'} \subseteq heap' \cup {NULL}
    BY <1>1 DEF IndInv, Linked
  <2> QED
    BY <1>1, <2>1, <2>2, <2>3, <2>4 DEF Linked
<1>7. EndsAtTail'
  <2>1. Walk(head, next') = Walk(head, next) \cup {n}
    <3>1. t \in Walk(head, next)
      BY <1>3 DEF Listed
    <3>2. next' \in Nexts
      BY <1>2, <1>5, <1>t DEF Nexts, Pointers
    <3> QED
      BY <1>2, <1>3, <1>4, <1>n, <1>t, <3>1, <3>2, WalkAppended
  <2>2. Listed' = Listed \cup {n}
    BY <1>1, <2>1 DEF Listed
  <2> QED
    BY <1>1, <1>2, <1>3, <1>4, <1>n, <1>t, <2>2 DEF EndsAtTail
<1>8. NodeInHand'
  BY <1>l, <1>p, NothingInHand DEF IndInv, Handling
<1>9. NoCycle'
  <2>1. SUFFICES ASSUME NEW S \in SUBSET heap', S # {}, \A x \in S : \E m \in S : next'[m] = x
                 PROVE  FALSE
    BY DEF NoCycle
  <2>2. S \subseteq Nodes /\ next'[n] = NULL
    BY <1>1, <1>2, <1>3, <1>4, <1>n, <1>t
  <2>3. n \in S => t \in S
    BY <1>2, <1>n, <2>1, <2>2
  <2>4. S \ {n} # {}
    BY <1>3, <2>1, <2>3
  <2>5. \A x \in S \ {n} : \E m \in S \ {n} : next[m] = x
    BY <1>n, <1>t, <2>1, <2>2
  <2>6. S \ {n} \in SUBSET heap
    BY <1>1
  <2> QED
    BY <2>4, <2>5, <2>6 DEF IndInv, NoCycle
<1> QED
  BY <1>6, <1>7, <1>8, <1>9 DEF ListInv

\* The node in hand becomes the head.
LEMMA HeadKeepsList ==
    ASSUME IndInv, NEW w \in Writers, linkHead(w)
    PROVE  ListInv'
<1>0. PICK n : n = node[w]
  OBVIOUS
<1>1. /\ pc[w] = "link" /\ tail # NULL /\ op[w] = "prepend" /\ pc' = [pc EXCEPT ![w] = "unlock"]
      /\ UNCHANGED <<tail, free, next, prev, heap, op, node>>
  BY <1>0 DEF linkHead, Goto, locals
<1>2. /\ n \in heap /\ n \in Nodes /\ n # head /\ n # free /\ n \notin Listed
      /\ \A m \in Nodes : next[m] # n
  BY <1>0, <1>1, InHandIsApart
<1>3. prev[n] = NULL /\ next[n] = head
  BY <1>0, <1>1 DEF IndInv, NodeInHand
<1>4. head' = n /\ head # NULL
  BY <1>0, <1>1, <1>3 DEF IndInv, EndsAtTail, linkHead, CompareAndSwap
<1>t. next \in Nexts /\ NULL \notin Nodes
  BY LinkTypes
<1>l. pc[w] \in LockedSteps
  BY <1>1 DEF LockedSteps
<1>p. pc'[w] = "unlock" /\ \A v \in Writers : v # w => pc'[v] = pc[v]
  BY <1>1 DEF IndInv, TypeOK, Threads
<1>o. TakenOut = {} /\ TakenOut' = {}
  BY <1>1, <1>l, <1>p, TakenOutByHolder, TakenOutThen DEF IndInv
<1>5. Linked'
  BY <1>1, <1>2, <1>3, <1>4, <1>o DEF IndInv, Linked
<1>6. EndsAtTail'
  <2>1. Walk(n, next) = {n} \cup Walk(next[n], next)
    BY <1>2, <1>t, WalkFromNext
  <2>2. Listed' = {n} \cup Listed
    BY <1>1, <1>3, <1>4, <2>1 DEF Listed
  <2> QED
    BY <1>1, <1>2, <1>3, <1>4, <1>t, <2>2 DEF IndInv, EndsAtTail
<1>7. NodeInHand'
  BY <1>l, <1>p, NothingInHand DEF IndInv, Handling
<1>8. NoCycle'
  BY <1>1 DEF IndInv, NoCycle
<1> QED
  BY <1>5, <1>6, <1>7, <1>8 DEF ListInv

\* The node is taken out of the list.
LEMMA UnlinkKeepsList ==
    ASSUME IndInv, NEW w \in Writers, unlink(w)
    PROVE  ListInv'
<1>0. PICK n, p, k : n = node[w] /\ p = prev[n] /\ k = next[n]
  OBVIOUS
<1>1. /\ pc[w] = "find" /\ pc' = [pc EXCEPT ![w] = "count"]
      /\ UNCHANGED <<free, heap, op, node>>
  BY DEF unlink, Goto, locals
<1>2. n \in Listed /\ n \in heap /\ n # k /\ \A m \in Nodes : next[m] = n => m = p
  BY <1>0, UnlinkEffect
<1>h. \/ n = head /\ p = NULL /\ head' = k /\ next' = next
      \/ /\ n # head /\ p \in Listed /\ p # n /\ next[p] = n
         /\ head' = head /\ next' = [next EXCEPT ![p] = k]
  BY <1>0, UnlinkEffect
<1>k. \/ k # NULL /\ prev' = [prev EXCEPT ![k] = p] /\ tail' = tail
      \/ k = NULL /\ prev' = prev /\ tail' = p
  BY <1>0, UnlinkEffect
<1>t. /\ next \in Nexts /\ head \in Pointers /\ prev \in [Nodes -> Pointers]
      /\ heap \subseteq Nodes /\ Listed \subseteq Nodes /\ NULL \notin Nodes
      /\ free \in Pointers /\ free \notin Listed
  BY LinkTypes
<1>l. pc[w] \in LockedSteps
  BY <1>1 DEF LockedSteps
<1>p. pc'[w] = "count" /\ \A v \in Writers : v # w => pc'[v] = pc[v]
  BY <1>1 DEF IndInv, TypeOK, Threads
<1>o. TakenOut = {} /\ TakenOut' = {n}
  BY <1>0, <1>1, <1>l, <1>p, TakenOutByHolder, TakenOutThen DEF IndInv
<1>b. head # NULL => prev[head] = NULL
  BY <1>1, <1>l, NothingBeforeHead
<1>i. \A m \in Nodes : /\ next[m] \in heap \cup {NULL}
                       /\ m \notin heap => next[m] = NULL
                       /\ next[m] # NULL => prev[next[m]] = m
                       /\ free # NULL => next[m] # free
  BY <1>o DEF IndInv, Linked
<1>n. /\ \A m \in Nodes : m # p => next'[m] = next[m]
      /\ \A m \in Nodes : m # k => prev'[m] = prev[m]
      /\ k # NULL => prev'[k] = p
      /\ p # NULL => p \in Listed /\ next[p] = n /\ next'[p] = k /\ p # n
  BY <1>0, <1>2, <1>h, <1>k, <1>t, <1>i DEF Nexts
<1>f. n # free /\ n \in Nodes /\ k \in heap \cup {NULL} /\ (free # NULL => k # free)
  BY <1>0, <1>2, <1>t, <1>i
<1>3. Linked'
  <2>1. head' # NULL => prev'[head'] = NULL
    <3>1. CASE n = head
      BY <1>2, <1>h, <1>k, <1>n, <1>t, <3>1
    <3>2. CASE n # head
      <4>1. head' = head /\ (head # NULL => k # head)
        BY <1>0, <1>b, <1>f, <1>h, <1>i, <1>t, <3>2
      <4>2. head # NULL => head \in Nodes
        BY <1>t DEF Pointers
      <4> QED
        BY <1>b, <1>n, <4>1, <4>2
    <3> QED
      BY <3>1, <3>2
  <2>2. ASSUME NEW m \in Nodes
        PROVE  /\ next'[m] \in heap' \cup {NULL}
               /\ m \notin heap' => next'[m] = NULL
               /\ (next'[m] # NULL /\ m # n) => prev'[next'[m]] = m
               /\ free # NULL => next'[m] # free
    <3>1. CASE m = p
      <4>1. p \in heap
        BY <1>n, <1>t, <3>1, ListedInMemory DEF IndInv
      <4> QED
        BY <1>1, <1>f, <1>n, <1>t, <3>1, <4>1
    <3>2. CASE m # p
      <4>1. next'[m] = next[m] /\ (next[m] # NULL => next[m] \in Nodes)
        BY <1>i, <1>n, <1>t, <3>2
      <4>2. next[m] # NULL /\ m # n => next[m] # k
        BY <1>0, <1>f, <1>i
      <4> QED
        BY <1>1, <1>i, <1>n, <4>1, <4>2
    <3> QED
      BY <3>1, <3>2
  <2>3. free # NULL => free # head' /\ prev'[free] = NULL
    <3>1. free # NULL => free \in Nodes /\ prev[free] = NULL /\ free # head
      BY <1>t DEF Pointers, IndInv, Linked
    <3> QED
      BY <1>f, <1>h, <1>n, <3>1
  <2>4. {head', free'} \subseteq heap' \cup {NULL}
    <3>1. {head, free} \subseteq heap \cup {NULL}
      BY DEF IndInv, Linked
    <3> QED
      BY <1>1, <1>f, <1>h, <3>1
  <2> QED
    BY <1>1, <1>o, <2>1, <2>2, <2>3, <2>4 DEF Linked
<1>4. EndsAtTail'
  <2>e. /\ tail # NULL /\ tail \in Listed /\ \A x \in Listed : next[x] = NULL <=> x = tail
    <3>1. head # NULL
      BY <1>2, WalkFromNull DEF Listed
    <3> QED
      BY <3>1 DEF IndInv, EndsAtTail
  <2>1. Listed' = Listed \ {n}
    <3>1. CASE n = head
      <4>1. Walk(n, next) = {n} \cup Walk(k, next)
        BY <1>0, <1>f, <1>t, WalkFromNext
      <4>2. n \notin Walk(k, next)
        <5>1. k \in Pointers /\ \A m \in Nodes : next[m] # n
          BY <1>2, <1>f, <1>h, <1>t, <3>1 DEF Pointers
        <5> QED
          BY <1>2, <1>t, <5>1, WalkMissesUnreferenced
      <4>3. head' = k /\ next' = next
        BY <1>h, <3>1
      <4> QED
        BY <3>1, <4>1, <4>2, <4>3 DEF Listed
    <3>2. CASE n # head
      <4>1. head' = head /\ next' = [next EXCEPT ![p] = next[n]] /\ p \in Walk(head, next)
        BY <1>0, <1>h, <3>2 DEF Listed
      <4>2. next' \in Nexts /\ p # NULL
        BY <1>f, <1>h, <1>t, <3>2 DEF Nexts, Pointers
      <4>n. LedPast(next, next', p, n)
        BY <1>0, <1>2, <1>n, <4>2 DEF LedPast
      <4>3. Walk(head, next') = Walk(head, next) \ {n}
        BY <1>f, <1>t, <3>2, <4>1, <4>2, <4>n, WalkUnlinked
      <4> QED
        BY <4>1, <4>3 DEF Listed
    <3> QED
      BY <3>1, <3>2
  <2>2. CASE k # NULL
    <3>1. tail' = tail /\ tail # n /\ tail # p
      BY <1>0, <1>2, <1>k, <1>n, <1>t, <2>2, <2>e
    <3>2. head' # NULL
      BY <1>h, <2>2, <1>2, WalkFromNull DEF Listed
    <3>3. \A x \in Listed \ {n} : next'[x] = NULL <=> x = tail
      <4>1. TAKE x \in Listed \ {n}
      <4>2. CASE x = p
        BY <1>n, <1>t, <2>2, <3>1, <4>2
      <4>3. CASE x # p
        BY <1>n, <1>t, <2>e, <4>3
      <4> QED
        BY <4>2, <4>3
    <3> QED
      BY <2>1, <2>e, <3>1, <3>2, <3>3 DEF EndsAtTail
  <2>3. CASE k = NULL
    <3>1. tail' = p /\ n = tail
      BY <1>0, <1>2, <1>k, <2>3, <2>e
    <3>2. head' = NULL <=> p = NULL
      <4>1. n # head => head # NULL
        BY <1>2, WalkFromNull DEF Listed
      <4>2. p \in Listed => p # NULL
        BY <1>t
      <4> QED
        BY <1>h, <2>3, <4>1, <4>2
    <3>3. \A x \in Listed \ {n} : next'[x] = NULL <=> x = p
      <4>1. TAKE x \in Listed \ {n}
      <4>2. CASE x = p
        BY <1>n, <1>t, <2>3, <4>2
      <4>3. CASE x # p
        BY <1>n, <1>t, <2>e, <3>1, <4>3
      <4> QED
        BY <4>2, <4>3
    <3>4. p # NULL => p \in Listed \ {n}
      BY <1>n
    <3> QED
      BY <2>1, <3>1, <3>2, <3>3, <3>4 DEF EndsAtTail
  <2> QED
    BY <2>2, <2>3
<1>5. NodeInHand'
  <2>1. \A v \in Writers : pc'[v] \in Handling => v = w
    BY <1>l, <1>p, OneHoldsTheLock DEF IndInv, Handling, LockedSteps
  <2>2. node'[w] = n
    BY <1>0, <1>1
  <2>3. \A m \in Nodes : next'[m] # n
    <3>1. TAKE m \in Nodes
    <3>2. CASE m = p
      BY <1>2, <1>n, <1>t, <3>2
    <3>3. CASE m # p
      BY <1>2, <1>n, <3>3
    <3> QED
      BY <3>2, <3>3
  <2>4. n # head'
    BY <1>2, <1>h
  <2>5. Unreferenced(n)'
    BY <1>1, <1>f, <2>3, <2>4 DEF Unreferenced
  <2> QED
    BY <1>1, <1>2, <1>p, <2>1, <2>2, <2>5 DEF NodeInHand, Handling
<1>6. NoCycle'
  <2>1. SUFFICES ASSUME NEW S \in SUBSET heap', S # {}, \A x \in S : \E m \in S : next'[m] = x
                 PROVE  FALSE
    BY DEF NoCycle
  <2>2. S \subseteq Nodes /\ S \subseteq heap
    BY <1>1, <1>t
  <2>3. CASE p \notin S
    <3>1. \A x \in S : \E m \in S : next[m] = x
      BY <1>n, <2>1, <2>2, <2>3
    <3> QED
      BY <2>1, <2>2, <3>1 DEF IndInv, NoCycle
  <2>4. CASE p \in S
    <3>0. p # NULL /\ next[p] = n /\ next'[p] = k
      BY <1>n, <1>t, <2>2, <2>4
    <3>1. \A x \in S \cup {n} : \E m \in S \cup {n} : next[m] = x
      <4>1. TAKE x \in S \cup {n}
      <4>2. CASE x = n
        BY <2>4, <3>0, <4>2
      <4>3. CASE x # n
        <5>1. PICK m \in S : next'[m] = x
          BY <2>1, <4>3
        <5>2. CASE m = p
          BY <1>0, <3>0, <5>1, <5>2
        <5>3. CASE m # p
          BY <1>n, <2>2, <5>1, <5>3
        <5> QED
          BY <5>2, <5>3
      <4> QED
        BY <4>2, <4>3
    <3>2. S \cup {n} \in SUBSET heap
      BY <1>2, <2>2
    <3> QED
      BY <3>1, <3>2 DEF IndInv, NoCycle
  <2> QED
    BY <2>3, <2>4
<1> QED
  BY <1>3, <1>4, <1>5, <1>6 DEF ListInv

\* The node taken out is to be recycled or deallocated.
LEMMA CountKeepsList ==
    ASSUME IndInv, NEW w \in Writers, testCount(w)
    PROVE  ListInv'
<1>1. /\ pc[w] = "count" /\ UNCHANGED <<links, heap, node, op>>
      /\ pc' = [pc EXCEPT ![w] = IF refcount > 0 THEN "recycle" ELSE "delete"]
  BY DEF testCount, Goto, locals
<1>l. pc[w] \in LockedSteps
  BY <1>1 DEF LockedSteps
<1>p. pc'[w] \in {"recycle", "delete"} /\ \A v \in Writers : v # w => pc'[v] = pc[v]
  BY <1>1 DEF IndInv, TypeOK, Threads
<1>o. TakenOut' = TakenOut
  BY <1>1, <1>l, <1>p, TakenOutByHolder, TakenOutThen DEF IndInv
<1>u. UNCHANGED <<head, tail, free, next, prev, heap>>
  BY <1>1 DEF links
<1>2. Linked'
  <2>1. head # NULL => prev[head] = NULL
    BY <1>1, <1>l, NothingBeforeHead
  <2> QED
    BY <1>o, <1>u, <2>1 DEF IndInv, Linked
<1>3. EndsAtTail' /\ NoCycle'
  BY <1>u DEF IndInv, EndsAtTail, NoCycle, Listed
<1>4. NodeInHand'
  <2>1. \A v \in Writers : pc'[v] \in Handling => v = w
    BY <1>l, <1>p, OneHoldsTheLock DEF IndInv, Handling, LockedSteps
  <2>2. node[w] \in heap /\ Unreferenced(node[w])
    BY <1>1 DEF IndInv, NodeInHand
  <2> QED
    BY <1>1, <1>p, <1>u, <2>1, <2>2 DEF NodeInHand, Handling, Unreferenced
<1> QED
  BY <1>2, <1>3, <1>4 DEF ListInv

\* The node taken out is put on the free list.
LEMMA FreeingKeepsList ==
    ASSUME IndInv, NEW w \in Writers, toFreeList(w)
    PROVE  ListInv'
<1>0. PICK n : n = node[w]
  OBVIOUS
<1>1. /\ pc[w] = "recycle" /\ pc' = [pc EXCEPT ![w] = "unlockRemove"]
      /\ next' = [next EXCEPT ![n] = free] /\ free' = n
      /\ prev' = [m \in Nodes |-> IF m = n THEN NULL ELSE IF m = free THEN n ELSE prev[m]]
      /\ UNCHANGED <<head, tail, heap, op, node>>
  BY <1>0 DEF toFreeList, Goto, locals
<1>2. /\ n \in heap /\ n \in Nodes /\ n # head /\ n # free /\ n \notin Listed
      /\ \A m \in Nodes : next[m] # n
  BY <1>0, <1>1, InHandIsApart
<1>t. /\ next \in Nexts /\ head \in Pointers /\ free \in Pointers /\ tail \in Pointers
      /\ heap \subseteq Nodes /\ Listed \subseteq Nodes /\ NULL \notin Nodes
  BY LinkTypes
<1>l. pc[w] \in LockedSteps
  BY <1>1 DEF LockedSteps
<1>p. pc'[w] = "unlockRemove" /\ \A v \in Writers : v # w => pc'[v] = pc[v]
  BY <1>1 DEF IndInv, TypeOK, Threads
<1>o. TakenOut = {n} /\ TakenOut' = {}
  BY <1>0, <1>1, <1>l, <1>p, TakenOutByHolder, TakenOutThen DEF IndInv
<1>n. /\ next'[n] = free /\ \A m \in Nodes : m # n => next'[m] = next[m]
      /\ prev'[n] = NULL /\ (free # NULL => prev'[free] = n)
      /\ \A m \in Nodes : m # n /\ m # free => prev'[m] = prev[m]
  BY <1>1, <1>2, <1>t DEF Nexts, Pointers
<1>3. Linked'
  <2>1. head # NULL => prev'[head] = NULL
    <3>1. head # NULL => prev[head] = NULL
      BY <1>1, <1>l, NothingBeforeHead
    <3>2. head # NULL => head \in Nodes /\ head # free
      BY <1>t DEF Pointers, IndInv, Linked
    <3> QED
      BY <1>2, <1>n, <3>1, <3>2
  <2>2. ASSUME NEW m \in Nodes
        PROVE  /\ next'[m] \in heap' \cup {NULL}
               /\ m \notin heap' => next'[m] = NULL
               /\ next'[m] # NULL => prev'[next'[m]] = m
               /\ next'[m] # n
    <3>1. CASE m = n
      BY <1>1, <1>2, <1>n, <3>1 DEF IndInv, Linked
    <3>2. CASE m # n
      <4>1. /\ next'[m] = next[m] /\ next[m] # n
            /\ next[m] \in heap \cup {NULL} /\ (m \notin heap => next[m] = NULL)
            /\ next[m] # NULL => next[m] \in Nodes /\ prev[next[m]] = m /\ next[m] # free
        BY <1>2, <1>n, <1>o, <1>t, <3>2 DEF IndInv, Linked
      <4> QED
        BY <1>1, <1>n, <4>1
    <3> QED
      BY <3>1, <3>2
  <2>3. {head', free'} \subseteq heap' \cup {NULL}
    BY <1>1, <1>2 DEF IndInv, Linked
  <2> QED
    BY <1>1, <1>2, <1>n, <2>1, <2>2, <2>3 DEF Linked
<1>4. EndsAtTail'
  <2>1. next' \in Nexts
    BY <1>1, <1>t DEF Nexts, Pointers
  <2>2. \A x \in Walk(head, next) : next'[x] = next[x]
    BY <1>2, <1>n, <1>t DEF Listed
  <2>3. Walk(head, next') = Walk(head, next)
    BY <1>t, <2>1, <2>2, WalkUnchanged
  <2>4. Listed' = Listed
    BY <1>1, <2>3 DEF Listed
  <2> QED
    BY <1>1, <1>2, <1>n, <1>t, <2>4 DEF IndInv, EndsAtTail
<1>5. NodeInHand'
  BY <1>l, <1>p, NothingInHand DEF IndInv, Handling
<1>6. NoCycle'
  <2>1. SUFFICES ASSUME NEW S \in SUBSET heap', S # {}, \A x \in S : \E m \in S : next'[m] = x
                 PROVE  FALSE
    BY DEF NoCycle
  <2>2. S \subseteq Nodes
    BY <1>1, <1>t
  <2>3. n \notin S
    BY <1>2, <1>n, <1>t, <2>1, <2>2
  <2>4. S \in SUBSET heap /\ \A x \in S : \E m \in S : next[m] = x
    BY <1>1, <1>n, <2>1, <2>2, <2>3
  <2> QED
    BY <2>1, <2>4 DEF IndInv, NoCycle
<1> QED
  BY <1>3, <1>4, <1>5, <1>6 DEF ListInv

\* The node taken out is deallocated.
LEMMA DeletingKeepsList ==
    ASSUME IndInv, NEW w \in Writers, delete(w)
    PROVE  ListInv'
<1>0. PICK n : n = node[w]
  OBVIOUS
<1>1. /\ pc[w] = "delete" /\ pc' = [pc EXCEPT ![w] = "unlockRemove"] /\ heap' = heap \ {n}
      /\ next' = [next EXCEPT ![n] = NULL] /\ prev' = [prev EXCEPT ![n] = NULL]
      /\ UNCHANGED <<head, tail, free, op, node>>
  BY <1>0 DEF delete, Goto, locals
<1>2. /\ n \in heap /\ n \in Nodes /\ n # head /\ n # free /\ n \notin Listed
      /\ \A m \in Nodes : next[m] # n
  BY <1>0, <1>1, InHandIsApart
<1>t. /\ next \in Nexts /\ head \in Pointers /\ free \in Pointers /\ tail \in Pointers
      /\ prev \in [Nodes -> Pointers]
      /\ heap \subseteq Nodes /\ Listed \subseteq Nodes /\ NULL \notin Nodes
  BY LinkTypes
<1>l. pc[w] \in LockedSteps
  BY <1>1 DEF LockedSteps
<1>p. pc'[w] = "unlockRemove" /\ \A v \in Writers : v # w => pc'[v] = pc[v]
  BY <1>1 DEF IndInv, TypeOK, Threads
<1>o. TakenOut = {n} /\ TakenOut' = {}
  BY <1>0, <1>1, <1>l, <1>p, TakenOutByHolder, TakenOutThen DEF IndInv
<1>n. /\ next'[n] = NULL /\ prev'[n] = NULL
      /\ \A m \in Nodes : m # n => next'[m] = next[m] /\ prev'[m] = prev[m]
  BY <1>1, <1>2, <1>t DEF Nexts
<1>3. Linked'
  <2>1. head # NULL => prev'[head] = NULL
    <3>1. head # NULL => prev[head] = NULL
      BY <1>1, <1>l, NothingBeforeHead
    <3> QED
      BY <1>2, <1>n, <1>t, <3>1 DEF Pointers
  <2>2. ASSUME NEW m \in Nodes
        PROVE  /\ next'[m] \in heap' \cup {NULL}
               /\ m \notin heap' => next'[m] = NULL
               /\ next'[m] # NULL => prev'[next'[m]] = m
               /\ free # NULL => next'[m] # free
    <3>1. CASE m = n
      BY <1>n, <3>1
    <3>2. CASE m # n
      BY <1>1, <1>2, <1>n, <1>o, <1>t, <3>2 DEF IndInv, Linked
    <3> QED
      BY <3>1, <3>2
  <2>3. {head', free'} \subseteq heap' \cup {NULL}
    BY <1>1, <1>2 DEF IndInv, Linked
  <2>4. free # NULL => free # head /\ prev'[free] = NULL
    BY <1>2, <1>n, <1>t DEF IndInv, Linked, Pointers
  <2> QED
    BY <1>1, <2>1, <2>2, <2>3, <2>4 DEF Linked
<1>4. EndsAtTail'
  <2>1. next' \in Nexts
    BY <1>1, <1>t DEF Nexts, Pointers
  <2>2. \A x \in Walk(head, next) : next'[x] = next[x]
    BY <1>2, <1>n, <1>t DEF Listed
  <2>3. Walk(head, next') = Walk(head, next)
    BY <1>t, <2>1, <2>2, WalkUnchanged
  <2>4. Listed' = Listed
    BY <1>1, <2>3 DEF Listed
  <2> QED
    BY <1>1, <1>2, <1>n, <1>t, <2>4 DEF IndInv, EndsAtTail
<1>5. NodeInHand'
  BY <1>l, <1>p, NothingInHand DEF IndInv, Handling
<1>6. NoCycle'
  <2>1. SUFFICES ASSUME NEW S \in SUBSET heap', S # {}, \A x \in S : \E m \in S : next'[m] = x
                 PROVE  FALSE
    BY DEF NoCycle
  <2>2. S \in SUBSET heap /\ n \notin S /\ S \subseteq Nodes
    BY <1>1, <1>t
  <2>3. \A x \in S : \E m \in S : next[m] = x
    BY <1>n, <2>1, <2>2
  <2> QED
    BY <2>1, <2>2, <2>3 DEF IndInv, NoCycle
<1> QED
  BY <1>3, <1>4, <1>5, <1>6 DEF ListInv

\* Every step keeps the list.
LEMMA ListStep ==
    ASSUME IndInv, Next
    PROVE  ListInv'
<1>1. ASSUME NEW w \in Writers, NEW o \in {"append", "prepend"}, NEW i \in Images,
             insert(w, o, i)
      PROVE  ListInv'
  <2>1. /\ w \in Threads /\ UNCHANGED <<links, heap>>
        /\ pc[w] \notin Handling /\ pc'[w] \notin Handling
        /\ \A v \in Threads : v # w => pc'[v] = pc[v] /\ op'[v] = op[v] /\ node'[v] = node[v]
    BY <1>1 DEF insert, Goto, locals, Threads, Handling, IndInv, TypeOK
  <2> QED
    BY <2>1, LinksUntouched
<1>2. ASSUME NEW w \in Writers, NEW o \in {"remove", "removeNode"}, NEW h \in Headers,
             remove(w, o, h)
      PROVE  ListInv'
  <2>1. /\ w \in Threads /\ UNCHANGED <<links, heap>>
        /\ pc[w] \notin Handling /\ pc'[w] \notin Handling
        /\ \A v \in Threads : v # w => pc'[v] = pc[v] /\ op'[v] = op[v] /\ node'[v] = node[v]
    BY <1>2 DEF remove, Goto, locals, Threads, Handling, IndInv, TypeOK
  <2> QED
    BY <2>1, LinksUntouched
<1>3. ASSUME NEW w \in Writers, lock(w) PROVE ListInv'
  <2>1. /\ w \in Threads /\ UNCHANGED <<links, heap>>
        /\ pc[w] \notin Handling /\ pc'[w] \notin Handling
        /\ \A v \in Threads : v # w => pc'[v] = pc[v] /\ op'[v] = op[v] /\ node'[v] = node[v]
    BY <1>3 DEF lock, Goto, locals, Threads, Handling, IndInv, TypeOK
  <2> QED
    BY <2>1, LinksUntouched
<1>4. ASSUME NEW w \in Writers, recycleNode(w) PROVE ListInv'
  BY <1>4, RecycleKeepsList
<1>5. ASSUME NEW w \in Writers, resetNode(w) PROVE ListInv'
  BY <1>5, ResetKeepsList
<1>6. ASSUME NEW w \in Writers, newNode(w) PROVE ListInv'
  BY <1>6, NewKeepsList
<1>7. ASSUME NEW w \in Writers, pointAtHead(w) PROVE ListInv'
  BY <1>7, PointKeepsList
<1>8. ASSUME NEW w \in Writers, linkFirst(w) PROVE ListInv'
  BY <1>8, FirstKeepsList
<1>9. ASSUME NEW w \in Writers, linkLast(w) PROVE ListInv'
  BY <1>9, LastKeepsList
<1>10. ASSUME NEW w \in Writers, linkHead(w) PROVE ListInv'
  BY <1>10, HeadKeepsList
<1>11. ASSUME NEW w \in Writers, unlock(w) PROVE ListInv'
  <2>1. /\ w \in Threads /\ UNCHANGED <<links, heap>>
        /\ pc[w] \notin Handling /\ pc'[w] \notin Handling
        /\ \A v \in Threads : v # w => pc'[v] = pc[v] /\ op'[v] = op[v] /\ node'[v] = node[v]
    BY <1>11 DEF unlock, Goto, locals, Threads, Handling, IndInv, TypeOK
  <2> QED
    BY <2>1, LinksUntouched
<1>12. ASSUME NEW w \in Writers, seek(w) PROVE ListInv'
  <2>1. /\ w \in Threads /\ UNCHANGED <<links, heap>>
        /\ pc[w] \notin Handling /\ pc'[w] \notin Handling
        /\ \A v \in Threads : v # w => pc'[v] = pc[v] /\ op'[v] = op[v] /\ node'[v] = node[v]
    BY <1>12 DEF seek, Goto, locals, Threads, Handling, IndInv, TypeOK
  <2> QED
    BY <2>1, LinksUntouched
<1>13. ASSUME NEW w \in Writers, notThere(w) PROVE ListInv'
  <2>1. /\ w \in Threads /\ UNCHANGED <<links, heap>>
        /\ pc[w] \notin Handling /\ pc'[w] \notin Handling
        /\ \A v \in Threads : v # w => pc'[v] = pc[v] /\ op'[v] = op[v] /\ node'[v] = node[v]
    BY <1>13 DEF notThere, Goto, locals, Threads, Handling, IndInv, TypeOK
  <2> QED
    BY <2>1, LinksUntouched
<1>14. ASSUME NEW w \in Writers, release(w) PROVE ListInv'
  <2>1. /\ w \in Threads /\ UNCHANGED <<links, heap>>
        /\ pc[w] \notin Handling /\ pc'[w] \notin Handling
        /\ \A v \in Threads : v # w => pc'[v] = pc[v] /\ op'[v] = op[v] /\ node'[v] = node[v]
    BY <1>14 DEF release, Goto, locals, Threads, Handling, IndInv, TypeOK
  <2> QED
    BY <2>1, LinksUntouched
<1>15. ASSUME NEW w \in Writers, unlink(w) PROVE ListInv'
  BY <1>15, UnlinkKeepsList
<1>16. ASSUME NEW w \in Writers, testCount(w) PROVE ListInv'
  BY <1>16, CountKeepsList
<1>17. ASSUME NEW w \in Writers, toFreeList(w) PROVE ListInv'
  BY <1>17, FreeingKeepsList
<1>18. ASSUME NEW w \in Writers, delete(w) PROVE ListInv'
  BY <1>18, DeletingKeepsList
<1>19. ASSUME NEW w \in Writers, unlockRemove(w) PROVE ListInv'
  <2>1. /\ w \in Threads /\ UNCHANGED <<links, heap>>
        /\ pc[w] \notin Handling /\ pc'[w] \notin Handling
        /\ \A v \in Threads : v # w => pc'[v] = pc[v] /\ op'[v] = op[v] /\ node'[v] = node[v]
    BY <1>19 DEF unlockRemove, Goto, locals, Threads, Handling, IndInv, TypeOK
  <2> QED
    BY <2>1, LinksUntouched
<1>20. ASSUME NEW w \in Writers, endRemove(w) PROVE ListInv'
  <2>1. /\ w \in Threads /\ UNCHANGED <<links, heap>>
        /\ pc[w] \notin Handling /\ pc'[w] \notin Handling
        /\ \A v \in Threads : v # w => pc'[v] = pc[v] /\ op'[v] = op[v] /\ node'[v] = node[v]
    BY <1>20 DEF endRemove, Goto, locals, Threads, Handling, IndInv, TypeOK
  <2> QED
    BY <2>1, LinksUntouched
<1>21. ASSUME NEW r \in Readers, startReading(r) PROVE ListInv'
  <2>1. /\ r \in Threads /\ UNCHANGED <<links, heap>>
        /\ pc[r] \notin Handling /\ pc'[r] \notin Handling
        /\ \A v \in Threads : v # r => pc'[v] = pc[v] /\ op'[v] = op[v] /\ node'[v] = node[v]
    BY <1>21 DEF startReading, Goto, locals, Threads, Handling, IndInv, TypeOK
  <2> QED
    BY <2>1, LinksUntouched
<1>22. ASSUME NEW r \in Readers, fetchNode(r) PROVE ListInv'
  <2>1. /\ r \in Threads /\ UNCHANGED <<links, heap>>
        /\ pc[r] \notin Handling /\ pc'[r] \notin Handling
        /\ \A v \in Threads : v # r => pc'[v] = pc[v] /\ op'[v] = op[v] /\ node'[v] = node[v]
    BY <1>22 DEF fetchNode, Goto, locals, Threads, Handling, IndInv, TypeOK
  <2> QED
    BY <2>1, LinksUntouched
<1>23. ASSUME NEW r \in Readers, noteNode(r) PROVE ListInv'
  <2>1. /\ r \in Threads /\ UNCHANGED <<links, heap>>
        /\ pc[r] \notin Handling /\ pc'[r] \notin Handling
        /\ \A v \in Threads : v # r => pc'[v] = pc[v] /\ op'[v] = op[v] /\ node'[v] = node[v]
    BY <1>23 DEF noteNode, Goto, locals, Threads, Handling, IndInv, TypeOK
  <2> QED
    BY <2>1, LinksUntouched
<1>24. ASSUME NEW r \in Readers, returnImage(r) PROVE ListInv'
  <2>1. /\ r \in Threads /\ UNCHANGED <<links, heap>>
        /\ pc[r] \notin Handling /\ pc'[r] \notin Handling
        /\ \A v \in Threads : v # r => pc'[v] = pc[v] /\ op'[v] = op[v] /\ node'[v] = node[v]
    BY <1>24 DEF returnImage, Goto, locals, Threads, Handling, IndInv, TypeOK
  <2> QED
    BY <2>1, LinksUntouched
<1>25. ASSUME NEW r \in Readers, endReading(r) PROVE ListInv'
  <2>1. /\ r \in Threads /\ UNCHANGED <<links, heap>>
        /\ pc[r] \notin Handling /\ pc'[r] \notin Handling
        /\ \A v \in Threads : v # r => pc'[v] = pc[v] /\ op'[v] = op[v] /\ node'[v] = node[v]
    BY <1>25 DEF endReading, Goto, locals, Threads, Handling, IndInv, TypeOK
  <2> QED
    BY <2>1, LinksUntouched
<1> QED
  BY <1>1, <1>2, <1>3, <1>4, <1>5, <1>6, <1>7, <1>8, <1>9, <1>10, <1>11, <1>12, <1>13, <1>14,
     <1>15, <1>16, <1>17, <1>18, <1>19, <1>20, <1>21, <1>22, <1>23, <1>24, <1>25
     DEF Next, Call, WriterStep, ReaderStep

----------------------------------------------------------------------------
(* The images, the count and the threads that read.                        *)

\* Every step keeps an image to one node.
LEMMA ImageStep ==
    ASSUME IndInv, Next
    PROVE  OneNodePerImage'
<1> USE ListAssumption DEF IndInv, TypeOK, Threads, OneNodePerImage, Goto, locals, links, dyld
<1>1. ASSUME NEW w \in Writers, NEW o \in {"append", "prepend"}, NEW i \in Images,
             insert(w, o, i)
      PROVE  OneNodePerImage'
  BY <1>1 DEF insert
<1>2. ASSUME NEW w \in Writers, NEW o \in {"remove", "removeNode"}, NEW h \in Headers,
             remove(w, o, h)
      PROVE  OneNodePerImage'
  BY <1>2 DEF remove
<1>3. ASSUME NEW w \in Writers, lock(w) PROVE OneNodePerImage'
  BY <1>3 DEF lock
<1>4. ASSUME NEW w \in Writers, recycleNode(w) PROVE OneNodePerImage'
  <2>1. /\ pc[w] = "take" /\ value' = [value EXCEPT ![free] = image[w]] /\ free # NULL
        /\ pc' = [pc EXCEPT ![w] = "reset"] /\ UNCHANGED <<heap, used, imageNode, image>>
    BY <1>4 DEF recycleNode, dyld
  <2>2. free \in heap /\ free \in Nodes
    BY <2>1 DEF Linked
  <2>3. \A n \in heap : n \in Nodes /\ value'[n] = IF n = free THEN image[w] ELSE value[n]
    BY <2>1, <2>2
  <2>4. \A v \in Writers : v # w => pc'[v] = pc[v]
    BY <2>1
  <2>5. pc'[w] = "reset"
    BY <2>1
  <2> QED
    BY <2>1, <2>3, <2>4, <2>5
<1>5. ASSUME NEW w \in Writers, resetNode(w) PROVE OneNodePerImage'
  BY <1>5 DEF resetNode
<1>6. ASSUME NEW w \in Writers, newNode(w) PROVE OneNodePerImage'
  <2>1. PICK n \in Nodes \ heap : heap' = heap \cup {n} /\ value' = [value EXCEPT ![n] = image[w]]
    BY <1>6 DEF newNode
  <2>2. /\ pc[w] = "take" /\ UNCHANGED <<used, imageNode, image>>
        /\ pc' = [pc EXCEPT ![w] = IF op[w] = "prepend" /\ tail # NULL THEN "point" ELSE "link"]
    BY <1>6 DEF newNode, dyld
  <2>3. \A m \in heap' : value'[m] = IF m = n THEN image[w] ELSE value[m]
    BY <2>1
  <2>4. \A v \in Writers : v # w => pc'[v] = pc[v]
    BY <2>2
  <2>5. pc'[w] \in {"point", "link"}
    BY <2>2
  <2> QED
    BY <2>1, <2>2, <2>3, <2>4, <2>5
<1>7. ASSUME NEW w \in Writers, pointAtHead(w) PROVE OneNodePerImage'
  BY <1>7 DEF pointAtHead
<1>8. ASSUME NEW w \in Writers, linkFirst(w) PROVE OneNodePerImage'
  BY <1>8 DEF linkFirst
<1>9. ASSUME NEW w \in Writers, linkLast(w) PROVE OneNodePerImage'
  BY <1>9 DEF linkLast
<1>10. ASSUME NEW w \in Writers, linkHead(w) PROVE OneNodePerImage'
  BY <1>10 DEF linkHead
<1>11. ASSUME NEW w \in Writers, unlock(w) PROVE OneNodePerImage'
  BY <1>11 DEF unlock
<1>12. ASSUME NEW w \in Writers, seek(w) PROVE OneNodePerImage'
  BY <1>12 DEF seek
<1>13. ASSUME NEW w \in Writers, notThere(w) PROVE OneNodePerImage'
  BY <1>13 DEF notThere
<1>14. ASSUME NEW w \in Writers, release(w) PROVE OneNodePerImage'
  BY <1>14 DEF release
<1>15. ASSUME NEW w \in Writers, unlink(w) PROVE OneNodePerImage'
  BY <1>15 DEF unlink
<1>16. ASSUME NEW w \in Writers, testCount(w) PROVE OneNodePerImage'
  BY <1>16 DEF testCount
<1>17. ASSUME NEW w \in Writers, toFreeList(w) PROVE OneNodePerImage'
  BY <1>17 DEF toFreeList
<1>18. ASSUME NEW w \in Writers, delete(w) PROVE OneNodePerImage'
  BY <1>18 DEF delete
<1>19. ASSUME NEW w \in Writers, unlockRemove(w) PROVE OneNodePerImage'
  BY <1>19 DEF unlockRemove
<1>20. ASSUME NEW w \in Writers, endRemove(w) PROVE OneNodePerImage'
  BY <1>20 DEF endRemove
<1>21. ASSUME NEW r \in Readers, startReading(r) PROVE OneNodePerImage'
  BY <1>21 DEF startReading
<1>22. ASSUME NEW r \in Readers, fetchNode(r) PROVE OneNodePerImage'
  BY <1>22 DEF fetchNode
<1>23. ASSUME NEW r \in Readers, noteNode(r) PROVE OneNodePerImage'
  <2>1. node[r] \in heap
    BY <1>23 DEF noteNode, StandsSafely, Reading, Position, ReadSteps
  <2>2. /\ imageNode' = [imageNode EXCEPT ![value[node[r]]] =
                        IF imageNode[value[node[r]]] = NULL THEN node[r]
                        ELSE imageNode[value[node[r]]]]
        /\ UNCHANGED <<heap, value, used, image>> /\ pc' = [pc EXCEPT ![r] = "return"]
    BY <1>23 DEF noteNode, CompareAndSwap, locals, dyld
  <2>3. value[node[r]] \in used /\ imageNode[value[node[r]]] \in {NULL, node[r]}
    BY <2>1
  <2>4. \A i \in Images : imageNode'[i] = IF i = value[node[r]] THEN node[r] ELSE imageNode[i]
    BY <2>2, <2>3
  <2>5. \A v \in Writers : pc'[v] = pc[v]
    BY <2>2
  <2> QED
    BY <2>1, <2>2, <2>3, <2>4, <2>5
<1>24. ASSUME NEW r \in Readers, returnImage(r) PROVE OneNodePerImage'
  BY <1>24 DEF returnImage
<1>25. ASSUME NEW r \in Readers, endReading(r) PROVE OneNodePerImage'
  BY <1>25 DEF endReading
<1> HIDE DEF IndInv, TypeOK, OneNodePerImage
<1> QED
  BY <1>1, <1>2, <1>3, <1>4, <1>5, <1>6, <1>7, <1>8, <1>9, <1>10, <1>11, <1>12, <1>13, <1>14,
     <1>15, <1>16, <1>17, <1>18, <1>19, <1>20, <1>21, <1>22, <1>23, <1>24, <1>25
     DEF Next, Call, WriterStep, ReaderStep

\* A step of thread t that counts it when it starts to read, and no more when it ends.
LEMMA CountKept ==
    ASSUME TypeOK, CountMatchesReaders, NEW t \in Threads,
           \A v \in Threads : v # t => pc'[v] = pc[v] /\ op'[v] = op[v],
           refcount' = IF t \in Reading' THEN IF t \in Reading THEN refcount ELSE refcount + 1
                       ELSE IF t \in Reading THEN refcount - 1 ELSE refcount
    PROVE  CountMatchesReaders'
<1>1. IsFiniteSet(Threads)
  BY FS_Union, ListAssumption DEF Threads
<1>2. IsFiniteSet(Reading)
  BY <1>1, FS_Subset DEF Reading
<1>3. \A v \in Threads : v # t => (v \in Reading <=> v \in Reading')
  BY DEF Reading
<1>4. Reading \subseteq Threads /\ Reading' \subseteq Threads
  BY DEF Reading
<1>5. Reading' = IF t \in Reading' THEN Reading \cup {t} ELSE Reading \ {t}
  BY <1>3, <1>4
<1>6. Cardinality(Reading) \in Nat
  BY <1>2, FS_CardinalityType
<1>7. CASE t \in Reading'
  <2>1. Cardinality(Reading \cup {t}) = IF t \in Reading THEN Cardinality(Reading)
                                       ELSE Cardinality(Reading) + 1
    BY <1>2, FS_AddElement
  <2> QED
    BY <1>5, <1>7, <2>1 DEF CountMatchesReaders
<1>8. CASE t \notin Reading'
  <2>1. Cardinality(Reading \ {t}) = IF t \in Reading THEN Cardinality(Reading) - 1
                                     ELSE Cardinality(Reading)
    BY <1>2, FS_RemoveElement
  <2> QED
    BY <1>5, <1>8, <2>1 DEF CountMatchesReaders
<1> QED
  BY <1>7, <1>8

\* Every step keeps the count right.
LEMMA CountStep ==
    ASSUME IndInv, Next
    PROVE  CountMatchesReaders'
<1> USE ListAssumption DEF IndInv, TypeOK, AtWork, Threads, Goto, locals, ReadSteps, RemoveSteps,
        InsertSteps
<1>1. ASSUME NEW w \in Writers, NEW o \in {"append", "prepend"}, NEW i \in Images,
             insert(w, o, i)
      PROVE  CountMatchesReaders'
  <2>1. /\ w \in Threads
        /\ \A v \in Threads : v # w => pc'[v] = pc[v] /\ op'[v] = op[v]
    BY <1>1 DEF insert
  <2>2. refcount' = IF w \in Reading' THEN IF w \in Reading THEN refcount ELSE refcount + 1
                    ELSE IF w \in Reading THEN refcount - 1 ELSE refcount
    BY <1>1, <2>1 DEF insert, Reading
  <2> QED
    BY <2>1, <2>2, CountKept
<1>2. ASSUME NEW w \in Writers, NEW o \in {"remove", "removeNode"}, NEW h \in Headers,
             remove(w, o, h)
      PROVE  CountMatchesReaders'
  <2>1. /\ w \in Threads
        /\ \A v \in Threads : v # w => pc'[v] = pc[v] /\ op'[v] = op[v]
    BY <1>2 DEF remove
  <2>2. refcount' = IF w \in Reading' THEN IF w \in Reading THEN refcount ELSE refcount + 1
                    ELSE IF w \in Reading THEN refcount - 1 ELSE refcount
    BY <1>2, <2>1 DEF remove, Reading
  <2> QED
    BY <2>1, <2>2, CountKept
<1>3. ASSUME NEW w \in Writers, lock(w) PROVE CountMatchesReaders'
  <2>1. /\ w \in Threads
        /\ \A v \in Threads : v # w => pc'[v] = pc[v] /\ op'[v] = op[v]
    BY <1>3 DEF lock
  <2>2. refcount' = IF w \in Reading' THEN IF w \in Reading THEN refcount ELSE refcount + 1
                    ELSE IF w \in Reading THEN refcount - 1 ELSE refcount
    BY <1>3, <2>1 DEF lock, Reading
  <2> QED
    BY <2>1, <2>2, CountKept
<1>4. ASSUME NEW w \in Writers, recycleNode(w) PROVE CountMatchesReaders'
  <2>1. /\ w \in Threads
        /\ \A v \in Threads : v # w => pc'[v] = pc[v] /\ op'[v] = op[v]
    BY <1>4 DEF recycleNode
  <2>2. refcount' = IF w \in Reading' THEN IF w \in Reading THEN refcount ELSE refcount + 1
                    ELSE IF w \in Reading THEN refcount - 1 ELSE refcount
    BY <1>4, <2>1 DEF recycleNode, Reading
  <2> QED
    BY <2>1, <2>2, CountKept
<1>5. ASSUME NEW w \in Writers, resetNode(w) PROVE CountMatchesReaders'
  <2>1. /\ w \in Threads
        /\ \A v \in Threads : v # w => pc'[v] = pc[v] /\ op'[v] = op[v]
    BY <1>5 DEF resetNode
  <2>2. refcount' = IF w \in Reading' THEN IF w \in Reading THEN refcount ELSE refcount + 1
                    ELSE IF w \in Reading THEN refcount - 1 ELSE refcount
    BY <1>5, <2>1 DEF resetNode, Reading
  <2> QED
    BY <2>1, <2>2, CountKept
<1>6. ASSUME NEW w \in Writers, newNode(w) PROVE CountMatchesReaders'
  <2>1. /\ w \in Threads
        /\ \A v \in Threads : v # w => pc'[v] = pc[v] /\ op'[v] = op[v]
    BY <1>6 DEF newNode
  <2>2. refcount' = IF w \in Reading' THEN IF w \in Reading THEN refcount ELSE refcount + 1
                    ELSE IF w \in Reading THEN refcount - 1 ELSE refcount
    BY <1>6, <2>1 DEF newNode, Reading
  <2> QED
    BY <2>1, <2>2, CountKept
<1>7. ASSUME NEW w \in Writers, pointAtHead(w) PROVE CountMatchesReaders'
  <2>1. /\ w \in Threads
        /\ \A v \in Threads : v # w => pc'[v] = pc[v] /\ op'[v] = op[v]
    BY <1>7 DEF pointAtHead
  <2>2. refcount' = IF w \in Reading' THEN IF w \in Reading THEN refcount ELSE refcount + 1
                    ELSE IF w \in Reading THEN refcount - 1 ELSE refcount
    BY <1>7, <2>1 DEF pointAtHead, Reading
  <2> QED
    BY <2>1, <2>2, CountKept
<1>8. ASSUME NEW w \in Writers, linkFirst(w) PROVE CountMatchesReaders'
  <2>1. /\ w \in Threads
        /\ \A v \in Threads : v # w => pc'[v] = pc[v] /\ op'[v] = op[v]
    BY <1>8 DEF linkFirst
  <2>2. refcount' = IF w \in Reading' THEN IF w \in Reading THEN refcount ELSE refcount + 1
                    ELSE IF w \in Reading THEN refcount - 1 ELSE refcount
    BY <1>8, <2>1 DEF linkFirst, Reading
  <2> QED
    BY <2>1, <2>2, CountKept
<1>9. ASSUME NEW w \in Writers, linkLast(w) PROVE CountMatchesReaders'
  <2>1. /\ w \in Threads
        /\ \A v \in Threads : v # w => pc'[v] = pc[v] /\ op'[v] = op[v]
    BY <1>9 DEF linkLast
  <2>2. refcount' = IF w \in Reading' THEN IF w \in Reading THEN refcount ELSE refcount + 1
                    ELSE IF w \in Reading THEN refcount - 1 ELSE refcount
    BY <1>9, <2>1 DEF linkLast, Reading
  <2> QED
    BY <2>1, <2>2, CountKept
<1>10. ASSUME NEW w \in Writers, linkHead(w) PROVE CountMatchesReaders'
  <2>1. /\ w \in Threads
        /\ \A v \in Threads : v # w => pc'[v] = pc[v] /\ op'[v] = op[v]
    BY <1>10 DEF linkHead
  <2>2. refcount' = IF w \in Reading' THEN IF w \in Reading THEN refcount ELSE refcount + 1
                    ELSE IF w \in Reading THEN refcount - 1 ELSE refcount
    BY <1>10, <2>1 DEF linkHead, Reading
  <2> QED
    BY <2>1, <2>2, CountKept
<1>11. ASSUME NEW w \in Writers, unlock(w) PROVE CountMatchesReaders'
  <2>1. /\ w \in Threads
        /\ \A v \in Threads : v # w => pc'[v] = pc[v] /\ op'[v] = op[v]
    BY <1>11 DEF unlock
  <2>2. refcount' = IF w \in Reading' THEN IF w \in Reading THEN refcount ELSE refcount + 1
                    ELSE IF w \in Reading THEN refcount - 1 ELSE refcount
    BY <1>11, <2>1 DEF unlock, Reading
  <2> QED
    BY <2>1, <2>2, CountKept
<1>12. ASSUME NEW w \in Writers, seek(w) PROVE CountMatchesReaders'
  <2>1. /\ w \in Threads
        /\ \A v \in Threads : v # w => pc'[v] = pc[v] /\ op'[v] = op[v]
    BY <1>12 DEF seek
  <2>2. refcount' = IF w \in Reading' THEN IF w \in Reading THEN refcount ELSE refcount + 1
                    ELSE IF w \in Reading THEN refcount - 1 ELSE refcount
    BY <1>12, <2>1 DEF seek, Reading
  <2> QED
    BY <2>1, <2>2, CountKept
<1>13. ASSUME NEW w \in Writers, notThere(w) PROVE CountMatchesReaders'
  <2>1. /\ w \in Threads
        /\ \A v \in Threads : v # w => pc'[v] = pc[v] /\ op'[v] = op[v]
    BY <1>13 DEF notThere
  <2>2. refcount' = IF w \in Reading' THEN IF w \in Reading THEN refcount ELSE refcount + 1
                    ELSE IF w \in Reading THEN refcount - 1 ELSE refcount
    BY <1>13, <2>1 DEF notThere, Reading
  <2> QED
    BY <2>1, <2>2, CountKept
<1>14. ASSUME NEW w \in Writers, release(w) PROVE CountMatchesReaders'
  <2>1. /\ w \in Threads
        /\ \A v \in Threads : v # w => pc'[v] = pc[v] /\ op'[v] = op[v]
    BY <1>14 DEF release
  <2>2. refcount' = IF w \in Reading' THEN IF w \in Reading THEN refcount ELSE refcount + 1
                    ELSE IF w \in Reading THEN refcount - 1 ELSE refcount
    BY <1>14, <2>1 DEF release, Reading
  <2> QED
    BY <2>1, <2>2, CountKept
<1>15. ASSUME NEW w \in Writers, unlink(w) PROVE CountMatchesReaders'
  <2>1. /\ w \in Threads
        /\ \A v \in Threads : v # w => pc'[v] = pc[v] /\ op'[v] = op[v]
    BY <1>15 DEF unlink
  <2>2. refcount' = IF w \in Reading' THEN IF w \in Reading THEN refcount ELSE refcount + 1
                    ELSE IF w \in Reading THEN refcount - 1 ELSE refcount
    BY <1>15, <2>1 DEF unlink, Reading
  <2> QED
    BY <2>1, <2>2, CountKept
<1>16. ASSUME NEW w \in Writers, testCount(w) PROVE CountMatchesReaders'
  <2>1. /\ w \in Threads
        /\ \A v \in Threads : v # w => pc'[v] = pc[v] /\ op'[v] = op[v]
    BY <1>16 DEF testCount
  <2>2. refcount' = IF w \in Reading' THEN IF w \in Reading THEN refcount ELSE refcount + 1
                    ELSE IF w \in Reading THEN refcount - 1 ELSE refcount
    BY <1>16, <2>1 DEF testCount, Reading
  <2> QED
    BY <2>1, <2>2, CountKept
<1>17. ASSUME NEW w \in Writers, toFreeList(w) PROVE CountMatchesReaders'
  <2>1. /\ w \in Threads
        /\ \A v \in Threads : v # w => pc'[v] = pc[v] /\ op'[v] = op[v]
    BY <1>17 DEF toFreeList
  <2>2. refcount' = IF w \in Reading' THEN IF w \in Reading THEN refcount ELSE refcount + 1
                    ELSE IF w \in Reading THEN refcount - 1 ELSE refcount
    BY <1>17, <2>1 DEF toFreeList, Reading
  <2> QED
    BY <2>1, <2>2, CountKept
<1>18. ASSUME NEW w \in Writers, delete(w) PROVE CountMatchesReaders'
  <2>1. /\ w \in Threads
        /\ \A v \in Threads : v # w => pc'[v] = pc[v] /\ op'[v] = op[v]
    BY <1>18 DEF delete
  <2>2. refcount' = IF w \in Reading' THEN IF w \in Reading THEN refcount ELSE refcount + 1
                    ELSE IF w \in Reading THEN refcount - 1 ELSE refcount
    BY <1>18, <2>1 DEF delete, Reading
  <2> QED
    BY <2>1, <2>2, CountKept
<1>19. ASSUME NEW w \in Writers, unlockRemove(w) PROVE CountMatchesReaders'
  <2>1. /\ w \in Threads
        /\ \A v \in Threads : v # w => pc'[v] = pc[v] /\ op'[v] = op[v]
    BY <1>19 DEF unlockRemove
  <2>2. refcount' = IF w \in Reading' THEN IF w \in Reading THEN refcount ELSE refcount + 1
                    ELSE IF w \in Reading THEN refcount - 1 ELSE refcount
    BY <1>19, <2>1 DEF unlockRemove, Reading
  <2> QED
    BY <2>1, <2>2, CountKept
<1>20. ASSUME NEW w \in Writers, endRemove(w) PROVE CountMatchesReaders'
  <2>1. /\ w \in Threads
        /\ \A v \in Threads : v # w => pc'[v] = pc[v] /\ op'[v] = op[v]
    BY <1>20 DEF endRemove
  <2>2. refcount' = IF w \in Reading' THEN IF w \in Reading THEN refcount ELSE refcount + 1
                    ELSE IF w \in Reading THEN refcount - 1 ELSE refcount
    BY <1>20, <2>1 DEF endRemove, Reading
  <2> QED
    BY <2>1, <2>2, CountKept
<1>21. ASSUME NEW r \in Readers, startReading(r) PROVE CountMatchesReaders'
  <2>1. /\ r \in Threads
        /\ \A v \in Threads : v # r => pc'[v] = pc[v] /\ op'[v] = op[v]
    BY <1>21 DEF startReading
  <2>2. refcount' = IF r \in Reading' THEN IF r \in Reading THEN refcount ELSE refcount + 1
                    ELSE IF r \in Reading THEN refcount - 1 ELSE refcount
    BY <1>21, <2>1 DEF startReading, Reading
  <2> QED
    BY <2>1, <2>2, CountKept
<1>22. ASSUME NEW r \in Readers, fetchNode(r) PROVE CountMatchesReaders'
  <2>1. /\ r \in Threads
        /\ \A v \in Threads : v # r => pc'[v] = pc[v] /\ op'[v] = op[v]
    BY <1>22 DEF fetchNode
  <2>2. refcount' = IF r \in Reading' THEN IF r \in Reading THEN refcount ELSE refcount + 1
                    ELSE IF r \in Reading THEN refcount - 1 ELSE refcount
    BY <1>22, <2>1 DEF fetchNode, Reading
  <2> QED
    BY <2>1, <2>2, CountKept
<1>23. ASSUME NEW r \in Readers, noteNode(r) PROVE CountMatchesReaders'
  <2>1. /\ r \in Threads
        /\ \A v \in Threads : v # r => pc'[v] = pc[v] /\ op'[v] = op[v]
    BY <1>23 DEF noteNode
  <2>2. refcount' = IF r \in Reading' THEN IF r \in Reading THEN refcount ELSE refcount + 1
                    ELSE IF r \in Reading THEN refcount - 1 ELSE refcount
    BY <1>23, <2>1 DEF noteNode, Reading
  <2> QED
    BY <2>1, <2>2, CountKept
<1>24. ASSUME NEW r \in Readers, returnImage(r) PROVE CountMatchesReaders'
  <2>1. /\ r \in Threads
        /\ \A v \in Threads : v # r => pc'[v] = pc[v] /\ op'[v] = op[v]
    BY <1>24 DEF returnImage
  <2>2. refcount' = IF r \in Reading' THEN IF r \in Reading THEN refcount ELSE refcount + 1
                    ELSE IF r \in Reading THEN refcount - 1 ELSE refcount
    BY <1>24, <2>1 DEF returnImage, Reading
  <2> QED
    BY <2>1, <2>2, CountKept
<1>25. ASSUME NEW r \in Readers, endReading(r) PROVE CountMatchesReaders'
  <2>1. /\ r \in Threads
        /\ \A v \in Threads : v # r => pc'[v] = pc[v] /\ op'[v] = op[v]
    BY <1>25 DEF endReading
  <2>2. refcount' = IF r \in Reading' THEN IF r \in Reading THEN refcount ELSE refcount + 1
                    ELSE IF r \in Reading THEN refcount - 1 ELSE refcount
    BY <1>25, <2>1 DEF endReading, Reading
  <2> QED
    BY <2>1, <2>2, CountKept
<1> HIDE DEF IndInv, TypeOK, AtWork
<1> QED
  BY <1>1, <1>2, <1>3, <1>4, <1>5, <1>6, <1>7, <1>8, <1>9, <1>10, <1>11, <1>12, <1>13, <1>14,
     <1>15, <1>16, <1>17, <1>18, <1>19, <1>20, <1>21, <1>22, <1>23, <1>24, <1>25
     DEF Next, Call, WriterStep, ReaderStep

\* No thread stands on a node that is being deallocated when one thread moves to a node
\* in memory that is not, or does not move.
LEMMA OthersStand ==
    ASSUME IndInv, NEW t \in Threads, heap \subseteq heap', imageNode' = imageNode,
           pc'[t] # "delete",
           \A v \in Threads : v # t => /\ pc'[v] = pc[v] /\ op'[v] = op[v]
                                      /\ node'[v] = node[v] /\ image'[v] = image[v],
           t \in Writers /\ pc'[t] = "idle" => node'[t] = NULL,
           t \in Readers /\ pc'[t] = "idle" => image'[t] = NULL,
           t \in Readers /\ pc'[t] \in {"value", "return"} => node'[t] # NULL,
           t \in Reading' => /\ Position(t)' \in heap \cup {NULL}
                             /\ \A w \in Writers : pc[w] = "delete" => Position(t)' # node[w]
    PROVE  StandsSafely'
<1>1. \A v \in Threads : v # t => Position(v)' = Position(v) /\ (v \in Reading' => v \in Reading)
  BY DEF Position, Reading
<1>2. \A w \in Writers : pc'[w] = "delete" => pc[w] = "delete" /\ node'[w] = node[w]
  BY DEF Threads
<1>3. \A v \in Reading' : /\ Position(v)' \in heap \cup {NULL}
                          /\ \A w \in Writers : pc[w] = "delete" => Position(v)' # node[w]
  <2>1. TAKE v \in Reading'
  <2>2. v \in Threads
    BY DEF Reading
  <2> QED
    BY <1>1, <2>2 DEF IndInv, StandsSafely
<1>4. /\ \A w \in Writers : pc'[w] = "idle" => node'[w] = NULL
      /\ \A r \in Readers : /\ pc'[r] = "idle" => image'[r] = NULL
                            /\ pc'[r] \in {"value", "return"} => node'[r] # NULL
  BY DEF IndInv, StandsSafely, Threads
<1> QED
  BY <1>2, <1>3, <1>4 DEF StandsSafely

\* What comes after a node that a thread may stand on.
LEMMA AfterIsSafe ==
    ASSUME IndInv, NEW n \in heap \cup {NULL}
    PROVE  /\ After(n) \in heap \cup {NULL}
           /\ \A w \in Writers : pc[w] = "delete" => After(n) # node[w]
<1>1. head \in heap \cup {NULL} /\ \A m \in Nodes : next[m] \in heap \cup {NULL}
  BY DEF IndInv, Linked
<1>2. heap \subseteq Nodes
  BY DEF IndInv, TypeOK
<1>3. \A w \in Writers : pc[w] = "delete" => Unreferenced(node[w])
  BY DEF IndInv, NodeInHand
<1> QED
  BY <1>1, <1>2, <1>3 DEF After, Unreferenced

\* Every step keeps the threads that read where it is safe.
LEMMA StandsStep ==
    ASSUME IndInv, Next
    PROVE  StandsSafely'
<1> USE ListAssumption DEF IndInv, TypeOK, AtWork, Threads, Goto, locals, links, ReadSteps,
        RemoveSteps, InsertSteps
<1>1. ASSUME NEW w \in Writers, NEW o \in {"append", "prepend"}, NEW i \in Images,
             insert(w, o, i)
      PROVE  StandsSafely'
  <2>1. /\ w \in Threads /\ heap \subseteq heap' /\ imageNode' = imageNode /\ pc'[w] # "delete"
        /\ \A v \in Threads : v # w => /\ pc'[v] = pc[v] /\ op'[v] = op[v]
                                      /\ node'[v] = node[v] /\ image'[v] = image[v]
        /\ pc'[w] = "idle" => node'[w] = NULL
    BY <1>1 DEF insert
  <2>2. w \notin Readers
    OBVIOUS
  <2>3. w \in Reading' => /\ Position(w)' \in heap \cup {NULL}
                         /\ \A v \in Writers : pc[v] = "delete" => Position(w)' # node[v]
    BY <1>1 DEF insert, Reading
  <2> HIDE DEF IndInv, TypeOK, AtWork
  <2> QED
    BY <2>1, <2>2, <2>3, OthersStand
<1>2. ASSUME NEW w \in Writers, NEW o \in {"remove", "removeNode"}, NEW h \in Headers,
             remove(w, o, h)
      PROVE  StandsSafely'
  <2>1. /\ w \in Threads /\ heap \subseteq heap' /\ imageNode' = imageNode /\ pc'[w] # "delete"
        /\ \A v \in Threads : v # w => /\ pc'[v] = pc[v] /\ op'[v] = op[v]
                                      /\ node'[v] = node[v] /\ image'[v] = image[v]
        /\ pc'[w] = "idle" => node'[w] = NULL
    BY <1>2 DEF remove
  <2>2. w \notin Readers
    OBVIOUS
  <2>3. w \in Reading' => /\ Position(w)' \in heap \cup {NULL}
                         /\ \A v \in Writers : pc[v] = "delete" => Position(w)' # node[v]
    <3>1. Position(w)' = NULL
      BY <1>2, <2>2 DEF remove, Position, StandsSafely
    <3>2. \A v \in Writers : pc[v] = "delete" => node[v] # NULL
      BY NullIsNoNode DEF NodeInHand
    <3> QED
      BY <3>1, <3>2
  <2> HIDE DEF IndInv, TypeOK, AtWork
  <2> QED
    BY <2>1, <2>2, <2>3, OthersStand
<1>3. ASSUME NEW w \in Writers, lock(w) PROVE StandsSafely'
  <2>1. /\ w \in Threads /\ heap \subseteq heap' /\ imageNode' = imageNode /\ pc'[w] # "delete"
        /\ \A v \in Threads : v # w => /\ pc'[v] = pc[v] /\ op'[v] = op[v]
                                      /\ node'[v] = node[v] /\ image'[v] = image[v]
        /\ pc'[w] = "idle" => node'[w] = NULL
    BY <1>3 DEF lock
  <2>2. w \notin Readers
    OBVIOUS
  <2>3. w \in Reading' => /\ Position(w)' \in heap \cup {NULL}
                         /\ \A v \in Writers : pc[v] = "delete" => Position(w)' # node[v]
    <3>1. w \in Reading' => w \in Reading /\ Position(w)' = Position(w)
      BY <1>3, <2>2 DEF lock, Reading, Position
    <3> QED
      BY <3>1 DEF StandsSafely
  <2> HIDE DEF IndInv, TypeOK, AtWork
  <2> QED
    BY <2>1, <2>2, <2>3, OthersStand
<1>4. ASSUME NEW w \in Writers, recycleNode(w) PROVE StandsSafely'
  <2>1. /\ w \in Threads /\ heap \subseteq heap' /\ imageNode' = imageNode /\ pc'[w] # "delete"
        /\ \A v \in Threads : v # w => /\ pc'[v] = pc[v] /\ op'[v] = op[v]
                                      /\ node'[v] = node[v] /\ image'[v] = image[v]
        /\ pc'[w] = "idle" => node'[w] = NULL
    BY <1>4 DEF recycleNode
  <2>2. w \notin Readers
    OBVIOUS
  <2>3. w \in Reading' => /\ Position(w)' \in heap \cup {NULL}
                         /\ \A v \in Writers : pc[v] = "delete" => Position(w)' # node[v]
    BY <1>4 DEF recycleNode, Reading
  <2> HIDE DEF IndInv, TypeOK, AtWork
  <2> QED
    BY <2>1, <2>2, <2>3, OthersStand
<1>5. ASSUME NEW w \in Writers, resetNode(w) PROVE StandsSafely'
  <2>1. /\ w \in Threads /\ heap \subseteq heap' /\ imageNode' = imageNode /\ pc'[w] # "delete"
        /\ \A v \in Threads : v # w => /\ pc'[v] = pc[v] /\ op'[v] = op[v]
                                      /\ node'[v] = node[v] /\ image'[v] = image[v]
        /\ pc'[w] = "idle" => node'[w] = NULL
    BY <1>5 DEF resetNode
  <2>2. w \notin Readers
    OBVIOUS
  <2>3. w \in Reading' => /\ Position(w)' \in heap \cup {NULL}
                         /\ \A v \in Writers : pc[v] = "delete" => Position(w)' # node[v]
    BY <1>5 DEF resetNode, Reading
  <2> HIDE DEF IndInv, TypeOK, AtWork
  <2> QED
    BY <2>1, <2>2, <2>3, OthersStand
<1>6. ASSUME NEW w \in Writers, newNode(w) PROVE StandsSafely'
  <2>1. /\ w \in Threads /\ heap \subseteq heap' /\ imageNode' = imageNode /\ pc'[w] # "delete"
        /\ \A v \in Threads : v # w => /\ pc'[v] = pc[v] /\ op'[v] = op[v]
                                      /\ node'[v] = node[v] /\ image'[v] = image[v]
        /\ pc'[w] = "idle" => node'[w] = NULL
    BY <1>6 DEF newNode
  <2>2. w \notin Readers
    OBVIOUS
  <2>3. w \in Reading' => /\ Position(w)' \in heap \cup {NULL}
                         /\ \A v \in Writers : pc[v] = "delete" => Position(w)' # node[v]
    BY <1>6 DEF newNode, Reading
  <2> HIDE DEF IndInv, TypeOK, AtWork
  <2> QED
    BY <2>1, <2>2, <2>3, OthersStand
<1>7. ASSUME NEW w \in Writers, pointAtHead(w) PROVE StandsSafely'
  <2>1. /\ w \in Threads /\ heap \subseteq heap' /\ imageNode' = imageNode /\ pc'[w] # "delete"
        /\ \A v \in Threads : v # w => /\ pc'[v] = pc[v] /\ op'[v] = op[v]
                                      /\ node'[v] = node[v] /\ image'[v] = image[v]
        /\ pc'[w] = "idle" => node'[w] = NULL
    BY <1>7 DEF pointAtHead
  <2>2. w \notin Readers
    OBVIOUS
  <2>3. w \in Reading' => /\ Position(w)' \in heap \cup {NULL}
                         /\ \A v \in Writers : pc[v] = "delete" => Position(w)' # node[v]
    BY <1>7 DEF pointAtHead, Reading
  <2> HIDE DEF IndInv, TypeOK, AtWork
  <2> QED
    BY <2>1, <2>2, <2>3, OthersStand
<1>8. ASSUME NEW w \in Writers, linkFirst(w) PROVE StandsSafely'
  <2>1. /\ w \in Threads /\ heap \subseteq heap' /\ imageNode' = imageNode /\ pc'[w] # "delete"
        /\ \A v \in Threads : v # w => /\ pc'[v] = pc[v] /\ op'[v] = op[v]
                                      /\ node'[v] = node[v] /\ image'[v] = image[v]
        /\ pc'[w] = "idle" => node'[w] = NULL
    BY <1>8 DEF linkFirst
  <2>2. w \notin Readers
    OBVIOUS
  <2>3. w \in Reading' => /\ Position(w)' \in heap \cup {NULL}
                         /\ \A v \in Writers : pc[v] = "delete" => Position(w)' # node[v]
    BY <1>8 DEF linkFirst, Reading
  <2> HIDE DEF IndInv, TypeOK, AtWork
  <2> QED
    BY <2>1, <2>2, <2>3, OthersStand
<1>9. ASSUME NEW w \in Writers, linkLast(w) PROVE StandsSafely'
  <2>1. /\ w \in Threads /\ heap \subseteq heap' /\ imageNode' = imageNode /\ pc'[w] # "delete"
        /\ \A v \in Threads : v # w => /\ pc'[v] = pc[v] /\ op'[v] = op[v]
                                      /\ node'[v] = node[v] /\ image'[v] = image[v]
        /\ pc'[w] = "idle" => node'[w] = NULL
    BY <1>9 DEF linkLast
  <2>2. w \notin Readers
    OBVIOUS
  <2>3. w \in Reading' => /\ Position(w)' \in heap \cup {NULL}
                         /\ \A v \in Writers : pc[v] = "delete" => Position(w)' # node[v]
    BY <1>9 DEF linkLast, Reading
  <2> HIDE DEF IndInv, TypeOK, AtWork
  <2> QED
    BY <2>1, <2>2, <2>3, OthersStand
<1>10. ASSUME NEW w \in Writers, linkHead(w) PROVE StandsSafely'
  <2>1. /\ w \in Threads /\ heap \subseteq heap' /\ imageNode' = imageNode /\ pc'[w] # "delete"
        /\ \A v \in Threads : v # w => /\ pc'[v] = pc[v] /\ op'[v] = op[v]
                                      /\ node'[v] = node[v] /\ image'[v] = image[v]
        /\ pc'[w] = "idle" => node'[w] = NULL
    BY <1>10 DEF linkHead
  <2>2. w \notin Readers
    OBVIOUS
  <2>3. w \in Reading' => /\ Position(w)' \in heap \cup {NULL}
                         /\ \A v \in Writers : pc[v] = "delete" => Position(w)' # node[v]
    BY <1>10 DEF linkHead, Reading
  <2> HIDE DEF IndInv, TypeOK, AtWork
  <2> QED
    BY <2>1, <2>2, <2>3, OthersStand
<1>11. ASSUME NEW w \in Writers, unlock(w) PROVE StandsSafely'
  <2>1. /\ w \in Threads /\ heap \subseteq heap' /\ imageNode' = imageNode /\ pc'[w] # "delete"
        /\ \A v \in Threads : v # w => /\ pc'[v] = pc[v] /\ op'[v] = op[v]
                                      /\ node'[v] = node[v] /\ image'[v] = image[v]
        /\ pc'[w] = "idle" => node'[w] = NULL
    BY <1>11 DEF unlock
  <2>2. w \notin Readers
    OBVIOUS
  <2>3. w \in Reading' => /\ Position(w)' \in heap \cup {NULL}
                         /\ \A v \in Writers : pc[v] = "delete" => Position(w)' # node[v]
    BY <1>11 DEF unlock, Reading
  <2> HIDE DEF IndInv, TypeOK, AtWork
  <2> QED
    BY <2>1, <2>2, <2>3, OthersStand
<1>12. ASSUME NEW w \in Writers, seek(w) PROVE StandsSafely'
  <2>1. /\ w \in Threads /\ heap \subseteq heap' /\ imageNode' = imageNode /\ pc'[w] # "delete"
        /\ \A v \in Threads : v # w => /\ pc'[v] = pc[v] /\ op'[v] = op[v]
                                      /\ node'[v] = node[v] /\ image'[v] = image[v]
        /\ pc'[w] = "idle" => node'[w] = NULL
    BY <1>12 DEF seek
  <2>2. w \notin Readers
    OBVIOUS
  <2>3. w \in Reading' => /\ Position(w)' \in heap \cup {NULL}
                         /\ \A v \in Writers : pc[v] = "delete" => Position(w)' # node[v]
    <3>1. Position(w)' = After(node[w]) /\ Position(w) = node[w] /\ w \in Reading
      BY <1>12, <2>2 DEF seek, Position, Reading
    <3>2. node[w] \in heap \cup {NULL}
      BY <3>1 DEF StandsSafely
    <3> QED
      BY <3>1, <3>2, AfterIsSafe
  <2> HIDE DEF IndInv, TypeOK, AtWork
  <2> QED
    BY <2>1, <2>2, <2>3, OthersStand
<1>13. ASSUME NEW w \in Writers, notThere(w) PROVE StandsSafely'
  <2>1. /\ w \in Threads /\ heap \subseteq heap' /\ imageNode' = imageNode /\ pc'[w] # "delete"
        /\ \A v \in Threads : v # w => /\ pc'[v] = pc[v] /\ op'[v] = op[v]
                                      /\ node'[v] = node[v] /\ image'[v] = image[v]
        /\ pc'[w] = "idle" => node'[w] = NULL
    BY <1>13 DEF notThere
  <2>2. w \notin Readers
    OBVIOUS
  <2>3. w \in Reading' => /\ Position(w)' \in heap \cup {NULL}
                         /\ \A v \in Writers : pc[v] = "delete" => Position(w)' # node[v]
    BY <1>13 DEF notThere, Reading
  <2> HIDE DEF IndInv, TypeOK, AtWork
  <2> QED
    BY <2>1, <2>2, <2>3, OthersStand
<1>14. ASSUME NEW w \in Writers, release(w) PROVE StandsSafely'
  <2>1. /\ w \in Threads /\ heap \subseteq heap' /\ imageNode' = imageNode /\ pc'[w] # "delete"
        /\ \A v \in Threads : v # w => /\ pc'[v] = pc[v] /\ op'[v] = op[v]
                                      /\ node'[v] = node[v] /\ image'[v] = image[v]
        /\ pc'[w] = "idle" => node'[w] = NULL
    BY <1>14 DEF release
  <2>2. w \notin Readers
    OBVIOUS
  <2>3. w \in Reading' => /\ Position(w)' \in heap \cup {NULL}
                         /\ \A v \in Writers : pc[v] = "delete" => Position(w)' # node[v]
    BY <1>14 DEF release, Reading
  <2> HIDE DEF IndInv, TypeOK, AtWork
  <2> QED
    BY <2>1, <2>2, <2>3, OthersStand
<1>15. ASSUME NEW w \in Writers, unlink(w) PROVE StandsSafely'
  <2>1. /\ w \in Threads /\ heap \subseteq heap' /\ imageNode' = imageNode /\ pc'[w] # "delete"
        /\ \A v \in Threads : v # w => /\ pc'[v] = pc[v] /\ op'[v] = op[v]
                                      /\ node'[v] = node[v] /\ image'[v] = image[v]
        /\ pc'[w] = "idle" => node'[w] = NULL
    BY <1>15 DEF unlink
  <2>2. w \notin Readers
    OBVIOUS
  <2>3. w \in Reading' => /\ Position(w)' \in heap \cup {NULL}
                         /\ \A v \in Writers : pc[v] = "delete" => Position(w)' # node[v]
    <3>1. w \in Reading' => w \in Reading /\ Position(w)' = Position(w)
      BY <1>15, <2>2 DEF unlink, Reading, Position
    <3> QED
      BY <3>1 DEF StandsSafely
  <2> HIDE DEF IndInv, TypeOK, AtWork
  <2> QED
    BY <2>1, <2>2, <2>3, OthersStand
<1>16. ASSUME NEW w \in Writers, testCount(w) PROVE StandsSafely'
  <2>1. /\ pc[w] = "count" /\ UNCHANGED <<heap, node, op, image, imageNode, refcount>>
        /\ pc' = [pc EXCEPT ![w] = IF refcount > 0 THEN "recycle" ELSE "delete"]
    BY <1>16 DEF testCount
  <2>2. \A t \in Threads : Position(t)' = Position(t)
    BY <1>16, <2>1 DEF Position
  <2>3. Reading' = Reading
    BY <1>16, <2>1 DEF Reading
  <2>4. \A v \in Writers : v # w => pc[v] # "delete" /\ pc'[v] # "delete"
    BY <2>1, OneHoldsTheLock DEF LockedSteps
  <2>5. CASE refcount > 0
    BY <2>1, <2>2, <2>3, <2>4, <2>5 DEF StandsSafely, Reading
  <2>6. CASE ~(refcount > 0)
    <3>1. Cardinality(Reading) = 0
      BY <2>6 DEF CountMatchesReaders
    <3>2. IsFiniteSet(Reading)
      BY FS_Union, FS_Subset DEF Reading
    <3>3. Reading' = {}
      BY <2>3, <3>1, <3>2, FS_EmptySet
    <3> QED
      BY <2>1, <3>3 DEF StandsSafely
  <2> QED
    BY <2>5, <2>6
<1>17. ASSUME NEW w \in Writers, toFreeList(w) PROVE StandsSafely'
  <2>1. /\ w \in Threads /\ heap \subseteq heap' /\ imageNode' = imageNode /\ pc'[w] # "delete"
        /\ \A v \in Threads : v # w => /\ pc'[v] = pc[v] /\ op'[v] = op[v]
                                      /\ node'[v] = node[v] /\ image'[v] = image[v]
        /\ pc'[w] = "idle" => node'[w] = NULL
    BY <1>17 DEF toFreeList
  <2>2. w \notin Readers
    OBVIOUS
  <2>3. w \in Reading' => /\ Position(w)' \in heap \cup {NULL}
                         /\ \A v \in Writers : pc[v] = "delete" => Position(w)' # node[v]
    <3>1. w \in Reading' => w \in Reading /\ Position(w)' = Position(w)
      BY <1>17, <2>2 DEF toFreeList, Reading, Position
    <3> QED
      BY <3>1 DEF StandsSafely
  <2> HIDE DEF IndInv, TypeOK, AtWork
  <2> QED
    BY <2>1, <2>2, <2>3, OthersStand
<1>18. ASSUME NEW w \in Writers, delete(w) PROVE StandsSafely'
  <2>1. /\ pc[w] = "delete" /\ UNCHANGED <<node, op, image, imageNode>> /\ heap' = heap \ {node[w]}
        /\ pc' = [pc EXCEPT ![w] = "unlockRemove"]
    BY <1>18 DEF delete
  <2>2. \A t \in Threads : Position(t)' = Position(t)
    BY <1>18, <2>1 DEF Position
  <2>3. \A t \in Reading' : t \in Reading /\ t \in Threads
    BY <1>18, <2>1 DEF Reading
  <2>4. \A v \in Writers : pc'[v] # "delete"
    BY <2>1, OneHoldsTheLock DEF LockedSteps
  <2> QED
    BY <2>1, <2>2, <2>3, <2>4 DEF StandsSafely
<1>19. ASSUME NEW w \in Writers, unlockRemove(w) PROVE StandsSafely'
  <2>1. /\ w \in Threads /\ heap \subseteq heap' /\ imageNode' = imageNode /\ pc'[w] # "delete"
        /\ \A v \in Threads : v # w => /\ pc'[v] = pc[v] /\ op'[v] = op[v]
                                      /\ node'[v] = node[v] /\ image'[v] = image[v]
        /\ pc'[w] = "idle" => node'[w] = NULL
    BY <1>19 DEF unlockRemove
  <2>2. w \notin Readers
    OBVIOUS
  <2>3. w \in Reading' => /\ Position(w)' \in heap \cup {NULL}
                         /\ \A v \in Writers : pc[v] = "delete" => Position(w)' # node[v]
    <3>1. w \in Reading' => w \in Reading /\ Position(w)' = Position(w)
      BY <1>19, <2>2 DEF unlockRemove, Reading, Position
    <3> QED
      BY <3>1 DEF StandsSafely
  <2> HIDE DEF IndInv, TypeOK, AtWork
  <2> QED
    BY <2>1, <2>2, <2>3, OthersStand
<1>20. ASSUME NEW w \in Writers, endRemove(w) PROVE StandsSafely'
  <2>1. /\ w \in Threads /\ heap \subseteq heap' /\ imageNode' = imageNode /\ pc'[w] # "delete"
        /\ \A v \in Threads : v # w => /\ pc'[v] = pc[v] /\ op'[v] = op[v]
                                      /\ node'[v] = node[v] /\ image'[v] = image[v]
        /\ pc'[w] = "idle" => node'[w] = NULL
    BY <1>20 DEF endRemove
  <2>2. w \notin Readers
    OBVIOUS
  <2>3. w \in Reading' => /\ Position(w)' \in heap \cup {NULL}
                         /\ \A v \in Writers : pc[v] = "delete" => Position(w)' # node[v]
    <3>1. w \in Reading' => w \in Reading /\ Position(w)' = Position(w)
      BY <1>20, <2>2 DEF endRemove, Reading, Position
    <3> QED
      BY <3>1 DEF StandsSafely
  <2> HIDE DEF IndInv, TypeOK, AtWork
  <2> QED
    BY <2>1, <2>2, <2>3, OthersStand
<1>21. ASSUME NEW r \in Readers, startReading(r) PROVE StandsSafely'
  <2>1. /\ r \in Threads /\ heap \subseteq heap' /\ imageNode' = imageNode /\ pc'[r] # "delete"
        /\ \A v \in Threads : v # r => /\ pc'[v] = pc[v] /\ op'[v] = op[v]
                                      /\ node'[v] = node[v] /\ image'[v] = image[v]
        /\ pc'[r] = "idle" => image'[r] = NULL
        /\ pc'[r] \in {"value", "return"} => node'[r] # NULL
    BY <1>21 DEF startReading
  <2>2. r \notin Writers
    OBVIOUS
  <2>n. \A v \in Writers : pc[v] = "delete" => node[v] # NULL
    BY NullIsNoNode DEF NodeInHand
  <2>3. r \in Reading' => /\ Position(r)' \in heap \cup {NULL}
                         /\ \A v \in Writers : pc[v] = "delete" => Position(r)' # node[v]
    <3>1. Position(r)' = NULL
      BY <1>21 DEF startReading, Position, StandsSafely
    <3> QED
      BY <2>n, <3>1
  <2> HIDE DEF IndInv, TypeOK, AtWork
  <2> QED
    BY <2>1, <2>2, <2>3, OthersStand
<1>22. ASSUME NEW r \in Readers, fetchNode(r) PROVE StandsSafely'
  <2>1. /\ r \in Threads /\ heap \subseteq heap' /\ imageNode' = imageNode /\ pc'[r] # "delete"
        /\ \A v \in Threads : v # r => /\ pc'[v] = pc[v] /\ op'[v] = op[v]
                                      /\ node'[v] = node[v] /\ image'[v] = image[v]
        /\ pc'[r] = "idle" => image'[r] = NULL
        /\ pc'[r] \in {"value", "return"} => node'[r] # NULL
    BY <1>22 DEF fetchNode
  <2>2. r \notin Writers
    OBVIOUS
  <2>n. \A v \in Writers : pc[v] = "delete" => node[v] # NULL
    BY NullIsNoNode DEF NodeInHand
  <2>3. r \in Reading' => /\ Position(r)' \in heap \cup {NULL}
                         /\ \A v \in Writers : pc[v] = "delete" => Position(r)' # node[v]
    <3>1. /\ r \in Reading /\ Position(r) = IF image[r] = NULL THEN NULL ELSE imageNode[image[r]]
      BY <1>22 DEF fetchNode, Position, Reading
    <3>2. Position(r)' = After(Position(r))
      BY <1>22, <3>1 DEF fetchNode, Position
    <3>3. Position(r) \in heap \cup {NULL}
      BY <3>1 DEF StandsSafely
    <3> QED
      BY <3>2, <3>3, AfterIsSafe
  <2> HIDE DEF IndInv, TypeOK, AtWork
  <2> QED
    BY <2>1, <2>2, <2>3, OthersStand
<1>23. ASSUME NEW r \in Readers, noteNode(r) PROVE StandsSafely'
  <2>1. /\ r \in Reading /\ Position(r) = node[r] /\ pc[r] = "value"
    BY <1>23 DEF noteNode, Position, Reading
  <2>2. /\ node[r] \in heap
        /\ \A v \in Writers : pc[v] = "delete" => node[r] # node[v]
    BY <2>1 DEF StandsSafely
  <2>3. /\ pc' = [pc EXCEPT ![r] = "return"] /\ UNCHANGED <<heap, op, node, image, value>>
        /\ \A i \in Images : imageNode'[i] \in {imageNode[i], node[r]}
    BY <1>23 DEF noteNode, CompareAndSwap
  <2>4. \A t \in Threads : t \in Reading' =>
                           t \in Reading /\ Position(t)' \in {Position(t), node[r]}
    BY <2>1, <2>3 DEF Reading, Position
  <2>5. Reading' \subseteq Threads
    BY DEF Reading
  <2>6. \A v \in Writers : pc'[v] = pc[v]
    BY <2>3
  <2>7. \A t \in Reading' : /\ Position(t)' \in heap \cup {NULL}
                            /\ \A v \in Writers : pc[v] = "delete" => Position(t)' # node[v]
    BY <2>2, <2>4, <2>5 DEF StandsSafely
  <2>8. \A t \in Readers : /\ pc'[t] = "idle" => image'[t] = NULL
                           /\ pc'[t] \in {"value", "return"} => node'[t] # NULL
    BY <2>1, <2>2, <2>3, NullIsNoNode DEF StandsSafely
  <2> QED
    BY <2>3, <2>6, <2>7, <2>8 DEF StandsSafely
<1>24. ASSUME NEW r \in Readers, returnImage(r) PROVE StandsSafely'
  <2>1. /\ r \in Threads /\ heap \subseteq heap' /\ imageNode' = imageNode /\ pc'[r] # "delete"
        /\ \A v \in Threads : v # r => /\ pc'[v] = pc[v] /\ op'[v] = op[v]
                                      /\ node'[v] = node[v] /\ image'[v] = image[v]
        /\ pc'[r] = "idle" => image'[r] = NULL
        /\ pc'[r] \in {"value", "return"} => node'[r] # NULL
    BY <1>24 DEF returnImage
  <2>2. r \notin Writers
    OBVIOUS
  <2>n. \A v \in Writers : pc[v] = "delete" => node[v] # NULL
    BY NullIsNoNode DEF NodeInHand
  <2>3. r \in Reading' => /\ Position(r)' \in heap \cup {NULL}
                         /\ \A v \in Writers : pc[v] = "delete" => Position(r)' # node[v]
    <3>1. /\ r \in Reading /\ Position(r) = node[r]
      BY <1>24 DEF returnImage, Position, Reading
    <3>2. /\ node[r] \in heap
          /\ \A v \in Writers : pc[v] = "delete" => node[r] # node[v]
      BY <1>24, <3>1 DEF StandsSafely, returnImage
    <3>3. Position(r)' \in {NULL, node[r]}
      BY <1>24, <3>2 DEF returnImage, Position, OneNodePerImage
    <3> QED
      BY <2>n, <3>2, <3>3
  <2> HIDE DEF IndInv, TypeOK, AtWork
  <2> QED
    BY <2>1, <2>2, <2>3, OthersStand
<1>25. ASSUME NEW r \in Readers, endReading(r) PROVE StandsSafely'
  <2>1. /\ r \in Threads /\ heap \subseteq heap' /\ imageNode' = imageNode /\ pc'[r] # "delete"
        /\ \A v \in Threads : v # r => /\ pc'[v] = pc[v] /\ op'[v] = op[v]
                                      /\ node'[v] = node[v] /\ image'[v] = image[v]
        /\ pc'[r] = "idle" => image'[r] = NULL
        /\ pc'[r] \in {"value", "return"} => node'[r] # NULL
    BY <1>25 DEF endReading
  <2>2. r \notin Writers
    OBVIOUS
  <2>n. \A v \in Writers : pc[v] = "delete" => node[v] # NULL
    BY NullIsNoNode DEF NodeInHand
  <2>3. r \in Reading' => /\ Position(r)' \in heap \cup {NULL}
                         /\ \A v \in Writers : pc[v] = "delete" => Position(r)' # node[v]
    BY <1>25 DEF endReading, Reading
  <2> HIDE DEF IndInv, TypeOK, AtWork
  <2> QED
    BY <2>1, <2>2, <2>3, OthersStand
<1> HIDE DEF IndInv, TypeOK, AtWork
<1> QED
  BY <1>1, <1>2, <1>3, <1>4, <1>5, <1>6, <1>7, <1>8, <1>9, <1>10, <1>11, <1>12, <1>13, <1>14,
     <1>15, <1>16, <1>17, <1>18, <1>19, <1>20, <1>21, <1>22, <1>23, <1>24, <1>25
     DEF Next, Call, WriterStep, ReaderStep

----------------------------------------------------------------------------
(* The theorems.                                                           *)

\* An empty list satisfies the invariant.
LEMMA InitInv == Init => IndInv
<1> SUFFICES ASSUME Init PROVE IndInv
  OBVIOUS
<1> USE ListAssumption DEF Init
<1>1. TypeOK
  BY DEF TypeOK, Threads
<1>2. AtWork
  BY DEF AtWork, Threads, LockedSteps, InsertSteps, RemoveSteps
<1>3. Linked
  BY DEF Linked
<1>4. EndsAtTail
  BY WalkFromNull DEF EndsAtTail, Listed
<1>5. NodeInHand /\ OneNodePerImage /\ NoCycle
  BY DEF NodeInHand, OneNodePerImage, NoCycle, Threads
<1>6. Reading = {}
  BY DEF Reading, Threads, ReadSteps
<1>7. CountMatchesReaders /\ StandsSafely
  BY <1>6, FS_EmptySet DEF CountMatchesReaders, StandsSafely, Threads
<1> QED
  BY <1>1, <1>2, <1>3, <1>4, <1>5, <1>7 DEF IndInv

\* Every step keeps it.
LEMMA InvStep == IndInv /\ [Next]_vars => IndInv'
<1> SUFFICES ASSUME IndInv, [Next]_vars PROVE IndInv'
  OBVIOUS
<1>1. CASE Next
  <2>1. TypeOK' /\ AtWork'
    BY <1>1, TypeStep, WorkStep DEF IndInv
  <2> QED
    BY <1>1, <2>1, ListStep, ImageStep, CountStep, StandsStep DEF IndInv, ListInv
<1>2. CASE UNCHANGED vars
  <2>1. UNCHANGED <<head, tail, free, next, prev, refcount, write_lock, heap, value, imageNode, pc,
                    op, image, header, node, loaded, used, must, seen, strayed>>
    BY <1>2 DEF vars, links, locals, dyld, history
  <2>2. TypeOK' /\ AtWork' /\ NoCycle'
    BY <2>1 DEF IndInv, TypeOK, AtWork, NoCycle
  <2>3. Linked' /\ EndsAtTail' /\ NodeInHand'
    BY <2>1 DEF IndInv, Linked, TakenOut, EndsAtTail, Listed, NodeInHand, Unreferenced
  <2>4. OneNodePerImage' /\ CountMatchesReaders' /\ StandsSafely'
    BY <2>1 DEF IndInv, OneNodePerImage, CountMatchesReaders, StandsSafely, Reading, Position
  <2> QED
    BY <2>2, <2>3, <2>4 DEF IndInv
<1> QED
  BY <1>1, <1>2

\* IndInv is an invariant of the list of images: what writers and readers of any number
\* do to each other leaves its links and its count as its users rely on them.
THEOREM InvariantHolds == Spec => []IndInv
<1>1. Init => IndInv
  BY InitInv
<1>2. IndInv /\ [Next]_vars => IndInv'
  BY InvStep
<1> QED
  BY <1>1, <1>2, PTL DEF Spec

\* Every variable has its type, for any number of threads, nodes and images.
THEOREM TypeCorrect == Spec => []TypeOK
<1>1. IndInv => TypeOK
  BY DEF IndInv
<1> QED
  BY <1>1, InvariantHolds, PTL

\* The links lead from the head to the tail and back while no writer is at work, and no
\* walk along them is without an end at any time (assert_list_valid).
THEOREM ListStaysSound == Spec => []ListIsSound
<1>1. IndInv => ListIsSound
  <2> SUFFICES ASSUME IndInv PROVE ListIsSound
    OBVIOUS
  <2>1. ASSUME write_lock = NULL
        PROVE  /\ head = NULL <=> tail = NULL
               /\ head # NULL => prev[head] = NULL /\ tail \in Listed
               /\ \A n \in Listed : /\ next[n] = NULL <=> n = tail
                                    /\ next[n] # NULL => prev[next[n]] = n
    <3>1. \A w \in Writers : pc[w] \notin LockedSteps
      BY <2>1, ListAssumption DEF IndInv, AtWork
    <3>2. TakenOut = {} /\ \A w \in Writers : pc[w] # "link"
      BY <3>1 DEF TakenOut, LockedSteps
    <3>3. Listed \subseteq Nodes
      BY LinkTypes
    <3> QED
      BY <3>2, <3>3 DEF IndInv, Linked, EndsAtTail
  <2> QED
    BY <2>1 DEF IndInv, ListIsSound, ListValid
<1> QED
  BY <1>1, InvariantHolds, PTL

\* The count is that of the threads that read, and none of them stands on a node that was
\* deallocated (nasync_remove_node), whatever is removed meanwhile.
THEOREM ReadersStaySafe == Spec => []ReadersAreSafe
<1>1. IndInv => ReadersAreSafe
  <2> SUFFICES ASSUME IndInv PROVE ReadersAreSafe
    OBVIOUS
  <2>1. Listed \subseteq heap
    BY ListedInMemory DEF IndInv
  <2> QED
    BY <2>1 DEF IndInv, ReadersAreSafe, NoUseAfterFree, StandsSafely
<1> QED
  BY <1>1, InvariantHolds, PTL

----------------------------------------------------------------------------
(* What a reader comes to, while others write.                             *)

\* Where a reader that nobody disturbed looks next.
Looks(r) == IF pc[r] = "fetch" THEN After(Position(r))
            ELSE IF pc[r] \in {"value", "return"} THEN node[r] ELSE NULL

\* Ahead is what a walk from there passes.
LEMMA AheadIsWalk ==
    ASSUME NEW r
    PROVE  Ahead(r) = Walk(Looks(r), next)
<1>1. Walk(NULL, next) = {}
  BY WalkFromNull
<1> QED
  BY <1>1 DEF Ahead, Looks

\* The same after a step.
LEMMA AheadIsWalkThen ==
    ASSUME NEW r
    PROVE  Ahead(r)' = Walk(Looks(r)', next')
<1>1. Walk(NULL, next') = {}
  BY WalkFromNull
<1> QED
  BY <1>1 DEF Ahead, Looks

\* A walk that starts in the list does not leave it.
LEMMA WalkInList ==
    ASSUME IndInv, NEW a \in Listed \cup {NULL}
    PROVE  /\ a \in Pointers
           /\ Walk(a, next) \subseteq Listed
           /\ After(a) \in Listed \cup {NULL}
<1>1. /\ Listed \in SUBSET Nodes /\ Closed(next, Listed) /\ head \in Listed \cup {NULL}
      /\ NULL \notin Nodes
  BY LinkTypes
<1>2. Walk(a, next) \subseteq Listed
  BY <1>1, WalkIsLeast
<1> QED
  BY <1>1, <1>2 DEF After, Closed, Pointers

\* An undisturbed reader looks at the list.
LEMMA LooksAtList ==
    ASSUME IndInv, ReadersInv, NEW r \in Readers, ~strayed[r]
    PROVE  /\ Looks(r) \in Listed \cup {NULL} /\ Looks(r) \in Pointers
           /\ Ahead(r) \subseteq Listed
           /\ pc[r] \in {"value", "return"} => node[r] \in Listed
           /\ pc[r] = "fetch" => Position(r) \in Listed \cup {NULL}
<1>1. pc[r] \in ReadSteps => Position(r) \in Listed \cup {NULL}
  BY DEF ReadersInv, Stands
<1>2. pc[r] = "fetch" => After(Position(r)) \in Listed \cup {NULL}
  BY <1>1, WalkInList DEF ReadSteps
<1>3. pc[r] \in {"value", "return"} => node[r] \in Listed
  BY <1>1 DEF ReadSteps, Position, IndInv, StandsSafely
<1>4. Looks(r) \in Listed \cup {NULL}
  BY <1>2, <1>3 DEF Looks
<1> QED
  BY <1>1, <1>3, <1>4, WalkInList, AheadIsWalk DEF ReadSteps

\* No walk comes back to a node of the list.
LEMMA WalkLeavesNode ==
    ASSUME IndInv, NEW n \in Listed
    PROVE  n \notin Walk(next[n], next)
<1> DEFINE V == Walk(next[n], next)
<1>1. SUFFICES ASSUME n \in V PROVE FALSE
  OBVIOUS
<1>2. next \in Nexts /\ Listed \subseteq Nodes /\ Closed(next, Listed)
  BY LinkTypes
<1>3. next[n] \in Listed \cup {NULL} /\ next[n] \in Pointers
  BY <1>2 DEF Closed, Nexts
<1>4. V \subseteq heap
  BY <1>3, WalkInList, ListedInMemory DEF IndInv
<1>5. \A x \in V : \E y \in V : next[y] = x
  BY <1>1, <1>2, <1>3, WalkHasParents
<1> HIDE DEF V
<1> QED
  BY <1>1, <1>4, <1>5 DEF IndInv, NoCycle

\* A reader that does not move keeps to its promise when nothing it returned comes ahead
\* of it and nothing that it must return is taken away.
LEMMA ReaderKept ==
    ASSUME NEW r \in Readers, Stands(r), ReturnsOnce(r),
           pc'[r] = pc[r], image'[r] = image[r], node'[r] = node[r], seen'[r] = seen[r],
           ~strayed'[r] => ~strayed[r],
           pc[r] = "idle" => UNCHANGED <<must[r], strayed[r]>>,
           ~strayed'[r] =>
               /\ Position(r)' = Position(r) /\ Position(r) \in Listed' \cup {NULL}
               /\ pc[r] = "return" => imageNode'[value'[node[r]]] = imageNode[value[node[r]]]
               /\ \A n \in Ahead(r) : value'[n] = value[n]
               /\ \A n \in Ahead(r)' : n \in Ahead(r) \/ value'[n] \notin Returned(r)
               /\ must'[r] \subseteq must[r]
               /\ \A n \in Ahead(r) : n \in Ahead(r)' \/ value[n] \notin must'[r]
    PROVE  Stands(r)' /\ ReturnsOnce(r)'
<1>1. Stands(r)'
  BY DEF Stands
<1>2. Returned(r)' = Returned(r)
  BY DEF Returned
<1>3. ReturnsOnce(r)'
  BY <1>2 DEF ReturnsOnce
<1> QED
  BY <1>1, <1>3


\* A writer's step leaves the readers where they are.
ReadersUntouched ==
    /\ imageNode' = imageNode /\ seen' = seen
    /\ \A r \in Readers : pc'[r] = pc[r] /\ image'[r] = image[r] /\ node'[r] = node[r]

\* The invariant is about one reader at a time.
LEMMA ReadersInvSplitThen == ReadersInv' <=> \A r \in Readers : Stands(r)' /\ ReturnsOnce(r)'
BY DEF ReadersInv

\* A step that changes nothing of the list's own nodes changes nothing for the readers.
LEMMA ListKept ==
    ASSUME IndInv, ReadersInv, ReadersUntouched, must' = must, strayed' = strayed,
           head' = head, next' \in Nexts,
           \A x \in Listed : next'[x] = next[x] /\ value'[x] = value[x]
    PROVE  ReadersInv'
<1> SUFFICES ASSUME NEW r \in Readers PROVE Stands(r)' /\ ReturnsOnce(r)'
  BY ReadersInvSplitThen
<1>1. Stands(r) /\ ReturnsOnce(r)
  BY DEF ReadersInv
<1>2. \A a \in Listed \cup {NULL} : Walk(a, next') = Walk(a, next)
  BY LinkTypes, WalkInList, WalkUnchanged
<1>3. Listed' = Listed
  BY <1>2, LinkTypes DEF Listed
<1>4. ASSUME ~strayed[r]
      PROVE  /\ Position(r)' = Position(r)
             /\ Position(r) \in Listed' \cup {NULL} \/ pc[r] = "idle"
             /\ pc[r] = "return" => value'[node[r]] = value[node[r]]
             /\ \A n \in Ahead(r) : value'[n] = value[n]
             /\ Ahead(r)' = Ahead(r)
  <2>1. Looks(r) \in Listed \cup {NULL} /\ Ahead(r) \subseteq Listed
    BY <1>4, LooksAtList DEF ReadersInv
  <2>2. Position(r)' = Position(r)
    BY DEF Position, ReadersUntouched
  <2>3. Looks(r)' = Looks(r)
    <3>1. CASE pc[r] = "fetch"
      <4>1. Position(r) \in Listed \cup {NULL}
        BY <1>4, <3>1, LooksAtList DEF ReadersInv
      <4> QED
        BY <2>2, <3>1, <4>1 DEF Looks, After, ReadersUntouched
    <3> QED
      BY <3>1 DEF Looks, ReadersUntouched
  <2>4. Ahead(r)' = Ahead(r)
    BY <1>2, <2>1, <2>3, AheadIsWalk, AheadIsWalkThen
  <2>5. pc[r] = "return" => node[r] \in Listed
    BY <1>4, LooksAtList DEF ReadersInv
  <2>6. pc[r] # "idle" => Position(r) \in Listed \cup {NULL}
    BY <1>1, <1>4 DEF Stands, IndInv, AtWork
  <2> QED
    BY <1>3, <2>1, <2>2, <2>4, <2>5, <2>6
<1>5. ASSUME pc[r] = "idle"
      PROVE  Stands(r)' /\ ReturnsOnce(r)'
  <2>1. Returned(r)' = Returned(r) /\ must'[r] = {} /\ seen'[r] = <<>> /\ pc'[r] = "idle"
    BY <1>1, <1>5 DEF Stands, ReadersUntouched, Returned
  <2>2. Ahead(r)' = {}
    BY <2>1 DEF Ahead
  <2>3. Stands(r)'
    BY <1>1, <1>5, <2>1 DEF Stands, ReadSteps
  <2> QED
    BY <2>1, <2>2, <2>3 DEF ReturnsOnce
<1>6. ASSUME pc[r] # "idle"
      PROVE  Stands(r)' /\ ReturnsOnce(r)'
  BY <1>1, <1>4, <1>6, ReaderKept DEF ReadersUntouched
<1> QED
  BY <1>5, <1>6

\* What a reader still comes to grows by the node that is linked in.
LEMMA LinkedIn ==
    ASSUME IndInv, ReadersInv, ReadersUntouched, must' = must, strayed' = strayed,
           value' = value, next' \in Nexts, NEW n \in Nodes,
           \A r \in Readers : ~strayed[r] => value[n] \notin Returned(r),
           Listed \subseteq Listed',
           \A r \in Readers : ~strayed[r] =>
               Ahead(r) \subseteq Ahead(r)' /\ Ahead(r)' \subseteq Ahead(r) \cup {n}
    PROVE  ReadersInv'
<1> SUFFICES ASSUME NEW r \in Readers PROVE Stands(r)' /\ ReturnsOnce(r)'
  BY ReadersInvSplitThen
<1>1. Stands(r) /\ ReturnsOnce(r)
  BY DEF ReadersInv
<1>2. Position(r)' = Position(r)
  BY DEF Position, ReadersUntouched
<1>3. pc[r] # "idle" /\ ~strayed[r] => Position(r) \in Listed' \cup {NULL}
  BY <1>1 DEF Stands, IndInv, AtWork
<1>4. ASSUME pc[r] = "idle"
      PROVE  Stands(r)' /\ ReturnsOnce(r)'
  <2>1. Returned(r)' = Returned(r) /\ must'[r] = {} /\ seen'[r] = <<>> /\ pc'[r] = "idle"
    BY <1>1, <1>4 DEF Stands, ReadersUntouched, Returned
  <2>2. Ahead(r)' = {}
    BY <2>1 DEF Ahead
  <2>3. Stands(r)'
    BY <1>1, <1>4, <2>1 DEF Stands, ReadSteps
  <2> QED
    BY <2>1, <2>2, <2>3 DEF ReturnsOnce
<1>5. ASSUME pc[r] # "idle"
      PROVE  Stands(r)' /\ ReturnsOnce(r)'
  BY <1>1, <1>2, <1>3, <1>5, ReaderKept DEF ReadersUntouched
<1> QED
  BY <1>4, <1>5

\* The node of a writer that is about to link it is apart from the list, and its image
\* new to the readers.
LEMMA AboutToLink ==
    ASSUME IndInv, NewToReaders, NEW w \in Writers, pc[w] = "link"
    PROVE  /\ node[w] \in Nodes /\ node[w] \notin Listed
           /\ \A m \in Nodes : next[m] # node[w]
           /\ next[node[w]] = IF op[w] = "prepend" THEN head ELSE NULL
           /\ \A r \in Readers : ~strayed[r] => value[node[w]] \notin Returned(r)
<1>1. /\ node[w] \in Nodes /\ node[w] \notin Listed /\ \A m \in Nodes : next[m] # node[w]
  BY InHandIsApart
<1>2. next[node[w]] = IF op[w] = "prepend" THEN head ELSE NULL
  BY DEF IndInv, NodeInHand
<1> QED
  BY <1>1, <1>2 DEF NewToReaders

\* The swap of linkFirst keeps the readers' promise.
LEMMA FirstKeepsReaders ==
    ASSUME IndInv, ReadInv, NEW w \in Writers, linkFirst(w)
    PROVE  ReadersInv'
<1>0. PICK n : n = node[w]
  OBVIOUS
<1>1. /\ pc[w] = "link" /\ tail = NULL /\ head' = CompareAndSwap(NULL, head, n)
      /\ pc' = [pc EXCEPT ![w] = "unlock"] /\ next' = next
      /\ UNCHANGED <<value, imageNode, image, node, must, seen, strayed>>
  BY <1>0 DEF linkFirst, Goto, locals, history
<1>2. head = NULL /\ head' = n
  BY <1>1 DEF IndInv, EndsAtTail, CompareAndSwap
<1>3. Listed = {} /\ n \in Nodes
  BY <1>0, <1>1, <1>2, WalkFromNull, AboutToLink DEF Listed, ReadInv
<1>4. next[n] = NULL
  BY <1>0, <1>1, <1>2, AboutToLink DEF ReadInv
<1>5. Walk(n, next') = {n}
  BY <1>0, <1>1, <1>4, WalkFromNext, WalkFromNull, LinkTypes, AboutToLink DEF ReadInv
<1>6. ReadersUntouched
  BY <1>1, ListAssumption DEF ReadersUntouched, IndInv, TypeOK, Threads
<1>7. ASSUME NEW r \in Readers, ~strayed[r]
      PROVE  Ahead(r) \subseteq Ahead(r)' /\ Ahead(r)' \subseteq Ahead(r) \cup {n}
  <2>1. /\ pc[r] = "fetch" => Position(r) = NULL /\ Position(r)' = NULL
        /\ pc[r] \notin {"value", "return"}
    <3>1. pc[r] \notin {"value", "return"} /\ (pc[r] = "fetch" => Position(r) = NULL)
      BY <1>3, <1>7, LooksAtList DEF ReadersInv, ReadInv
    <3>2. Position(r)' = Position(r)
      BY <1>6 DEF Position, ReadersUntouched
    <3> QED
      BY <3>1, <3>2
  <2>2. Looks(r) = NULL /\ Looks(r)' \in {NULL, n}
    BY <1>2, <1>6, <2>1 DEF Looks, After, ReadersUntouched
  <2>3. Ahead(r) = {} /\ Ahead(r)' \in {{}, {n}}
    BY <1>5, <2>2, AheadIsWalk, AheadIsWalkThen, WalkFromNull
  <2> QED
    BY <2>3
<1>8. n \in Nodes /\ \A r \in Readers : ~strayed[r] => value[n] \notin Returned(r)
  BY <1>0, <1>1, AboutToLink DEF ReadInv
<1> QED
  BY <1>1, <1>3, <1>6, <1>7, <1>8, LinkedIn, LinkTypes DEF ReadersInv, ReadInv

\* The swap of linkLast does.
LEMMA LastKeepsReaders ==
    ASSUME IndInv, ReadInv, NEW w \in Writers, linkLast(w)
    PROVE  ReadersInv'
<1>0. PICK n, t : n = node[w] /\ t = tail
  OBVIOUS
<1>1. /\ pc[w] = "link" /\ t # NULL /\ op[w] = "append" /\ head' = head
      /\ next' = [next EXCEPT ![t] = CompareAndSwap(NULL, next[t], n)]
      /\ pc' = [pc EXCEPT ![w] = "unlock"]
      /\ UNCHANGED <<value, imageNode, image, node, must, seen, strayed>>
  BY <1>0 DEF linkLast, Goto, locals, history
<1>2. /\ t \in Listed /\ t \in Nodes /\ next[t] = NULL /\ n \in Nodes /\ n # t /\ next[n] = NULL
      /\ next \in Nexts /\ Listed \subseteq Nodes /\ head \in Pointers
  BY <1>0, <1>1, AboutToLink, LinkTypes DEF IndInv, EndsAtTail, ReadInv
<1>3. /\ next' = [next EXCEPT ![t] = n] /\ next' \in Nexts
      /\ \A x \in Nodes : next'[x] = IF x = t THEN n ELSE next[x]
  BY <1>1, <1>2 DEF CompareAndSwap, Nexts, Pointers
<1>4. ASSUME NEW a \in Listed \cup {NULL}
      PROVE  Walk(a, next) \subseteq Walk(a, next') /\ Walk(a, next') \subseteq Walk(a, next) \cup {n}
  <2>1. a \in Pointers
    BY WalkInList
  <2>2. /\ Walk(a, next) \subseteq Nodes /\ a \in Walk(a, next) \cup {NULL}
        /\ Closed(next, Walk(a, next))
    BY <1>2, <2>1, WalkHolds
  <2>3. /\ Walk(a, next') \subseteq Nodes /\ a \in Walk(a, next') \cup {NULL}
        /\ Closed(next', Walk(a, next'))
    BY <1>3, <2>1, WalkHolds
  <2>4. Closed(next', Walk(a, next) \cup {n})
    BY <1>2, <1>3, <2>2 DEF Closed
  <2>5. Closed(next, Walk(a, next'))
    BY <1>2, <1>3, <2>3 DEF Closed
  <2>6. Walk(a, next') \subseteq Walk(a, next) \cup {n}
    BY <1>2, <2>2, <2>4, WalkIsLeast
  <2>7. Walk(a, next) \subseteq Walk(a, next')
    BY <2>3, <2>5, WalkIsLeast
  <2> QED
    BY <2>6, <2>7
<1>5. Listed \subseteq Listed'
  BY <1>1, <1>4, LinkTypes DEF Listed
<1>6. ReadersUntouched
  BY <1>1, ListAssumption DEF ReadersUntouched, IndInv, TypeOK, Threads
<1>7. ASSUME NEW r \in Readers, ~strayed[r]
      PROVE  Ahead(r) \subseteq Ahead(r)' /\ Ahead(r)' \subseteq Ahead(r) \cup {n}
  <2>1. Looks(r) \in Listed \cup {NULL}
    BY <1>7, LooksAtList DEF ReadersInv, ReadInv
  <2>2. Position(r)' = Position(r)
    BY <1>6 DEF Position, ReadersUntouched
  <2>3. CASE pc[r] = "fetch" /\ Position(r) = t
    <3>1. Looks(r) = NULL /\ Looks(r)' = n
      BY <1>1, <1>2, <1>3, <1>6, <2>2, <2>3 DEF Looks, After, ReadersUntouched
    <3>2. Ahead(r) = {} /\ Ahead(r)' = {n}
      <4>1. Walk(n, next') = {n}
        <5>1. next'[n] = NULL
          BY <1>2, <1>3
        <5>2. Walk(n, next') = {n} \cup Walk(next'[n], next')
          BY <1>2, <1>3, WalkFromNext
        <5>3. Walk(NULL, next') = {}
          BY WalkFromNull
        <5> QED
          BY <5>1, <5>2, <5>3
      <4> QED
        BY <3>1, <4>1, AheadIsWalk, AheadIsWalkThen, WalkFromNull
    <3> QED
      BY <3>2
  <2>4. CASE ~ (pc[r] = "fetch" /\ Position(r) = t)
    <3>1. pc[r] = "fetch" => Position(r) \in Nodes \cup {NULL}
      BY <1>2, <1>7, LooksAtList DEF ReadersInv, ReadInv
    <3>2. Looks(r)' = Looks(r)
      BY <1>1, <1>3, <1>6, <2>2, <2>4, <3>1 DEF Looks, After, ReadersUntouched
    <3> QED
      BY <1>4, <2>1, <3>2, AheadIsWalk, AheadIsWalkThen
  <2> QED
    BY <2>3, <2>4
<1>8. n \in Nodes /\ \A r \in Readers : ~strayed[r] => value[n] \notin Returned(r)
  BY <1>0, <1>1, AboutToLink DEF ReadInv
<1> QED
  BY <1>1, <1>3, <1>5, <1>6, <1>7, <1>8, LinkedIn DEF ReadersInv, ReadInv

\* The swap of linkHead does.
LEMMA HeadKeepsReaders ==
    ASSUME IndInv, ReadInv, NEW w \in Writers, linkHead(w)
    PROVE  ReadersInv'
<1>0. PICK n : n = node[w]
  OBVIOUS
<1>1. /\ pc[w] = "link" /\ op[w] = "prepend" /\ head' = CompareAndSwap(next[n], head, n)
      /\ pc' = [pc EXCEPT ![w] = "unlock"] /\ next' = next
      /\ UNCHANGED <<value, imageNode, image, node, must, seen, strayed>>
  BY <1>0 DEF linkHead, Goto, locals, history
<1>2. n \in Nodes /\ next[n] = head /\ head' = n
  BY <1>0, <1>1, AboutToLink DEF ReadInv, CompareAndSwap
<1>3. Walk(n, next) = {n} \cup Listed
  BY <1>2, WalkFromNext, LinkTypes DEF Listed
<1>4. Listed' = {n} \cup Listed
  BY <1>1, <1>2, <1>3 DEF Listed
<1>6. ReadersUntouched
  BY <1>1, ListAssumption DEF ReadersUntouched, IndInv, TypeOK, Threads
<1>7. ASSUME NEW r \in Readers, ~strayed[r]
      PROVE  Ahead(r) \subseteq Ahead(r)' /\ Ahead(r)' \subseteq Ahead(r) \cup {n}
  <2>2. Position(r)' = Position(r)
    BY <1>6 DEF Position, ReadersUntouched
  <2>3. CASE pc[r] = "fetch" /\ Position(r) = NULL
    <3>1. Looks(r) = head /\ Looks(r)' = n
      BY <1>2, <1>6, <2>2, <2>3 DEF Looks, After, ReadersUntouched
    <3>2. Ahead(r) = Listed /\ Ahead(r)' = {n} \cup Listed
      BY <1>1, <1>3, <3>1, AheadIsWalk, AheadIsWalkThen DEF Listed
    <3> QED
      BY <3>2
  <2>4. CASE ~ (pc[r] = "fetch" /\ Position(r) = NULL)
    <3>2. Looks(r)' = Looks(r)
      BY <1>1, <1>6, <2>2, <2>4 DEF Looks, After, ReadersUntouched
    <3> QED
      BY <1>1, <3>2, AheadIsWalk, AheadIsWalkThen
  <2> QED
    BY <2>3, <2>4
<1>8. n \in Nodes /\ \A r \in Readers : ~strayed[r] => value[n] \notin Returned(r)
  BY <1>0, <1>1, AboutToLink DEF ReadInv
<1> QED
  BY <1>1, <1>4, <1>6, <1>7, <1>8, LinkedIn, LinkTypes DEF ReadersInv, ReadInv

\* What a reader still comes to, and its list, shrink by the node that is taken out.
LEMMA UnlinkKeepsReaders ==
    ASSUME IndInv, ReadInv, NEW w \in Writers, unlink(w)
    PROVE  ReadersInv'
<1>0. PICK n, p, k : n = node[w] /\ p = prev[n] /\ k = next[n]
  OBVIOUS
<1>1. /\ pc' = [pc EXCEPT ![w] = "count"] /\ must' = [r \in Readers |-> must[r] \ {value[n]}]
      /\ strayed' = [r \in Readers |->
                       \/ strayed[r]
                       \/ pc[r] \in {"value", "return"} /\ node[r] = n
                       \/ image[r] # NULL /\ imageNode[image[r]] = n]
      /\ UNCHANGED <<value, imageNode, image, node, seen>>
  BY <1>0 DEF unlink, Goto, locals
<1>2. /\ n \in Listed /\ n # k /\ \A m \in Nodes : next[m] = n => m = p
      /\ \/ n = head /\ p = NULL /\ head' = k /\ next' = next
         \/ /\ n # head /\ p \in Listed /\ p # n /\ next[p] = n
            /\ head' = head /\ next' = [next EXCEPT ![p] = k]
  BY <1>0, UnlinkEffect
<1>3. /\ next \in Nexts /\ Listed \subseteq Nodes /\ head \in Listed \cup {NULL}
      /\ Closed(next, Listed) /\ NULL \notin Nodes /\ n \in Nodes
  BY <1>2, LinkTypes
<1>4. k \in Listed \cup {NULL} /\ k \in Pointers
  BY <1>0, <1>2, <1>3 DEF Closed, Nexts
<1>5. next' \in Nexts
  BY <1>2, <1>3, <1>4 DEF Nexts
<1>6. ASSUME NEW a \in (Listed \cup {NULL}) \ {n}
      PROVE  Walk(a, next) \ {n} \subseteq Walk(a, next') /\ Walk(a, next') \subseteq Walk(a, next)
  <2>1. CASE next' = next
    BY <2>1
  <2>2. CASE p \in Listed /\ p # n /\ next[p] = n /\ next' = [next EXCEPT ![p] = k]
    <3>1. /\ a \in Pointers /\ p \in Nodes
          /\ \A x \in Nodes : next'[x] = IF x = p THEN k ELSE next[x]
      BY <1>3, <2>2, WalkInList DEF Nexts
    <3>2. /\ Walk(a, next) \subseteq Nodes /\ a \in Walk(a, next) \cup {NULL}
          /\ Closed(next, Walk(a, next))
      BY <1>3, <3>1, WalkHolds
    <3>3. /\ Walk(a, next') \subseteq Nodes /\ a \in Walk(a, next') \cup {NULL}
          /\ Closed(next', Walk(a, next'))
      BY <1>5, <3>1, WalkHolds
    <3>4. Closed(next', Walk(a, next))
      BY <1>0, <1>3, <2>2, <3>1, <3>2 DEF Closed
    <3>5. Walk(a, next') \subseteq Walk(a, next)
      BY <3>2, <3>4, WalkIsLeast
    <3> DEFINE S == IF p \in Walk(a, next') THEN Walk(a, next') \cup {n} ELSE Walk(a, next')
    <3>6. S \in SUBSET Nodes /\ a \in S \cup {NULL}
      BY <1>3, <3>3
    <3>7. Closed(next, S)
      <4>1. CASE p \in Walk(a, next')
        <5>1. k \in Walk(a, next') \cup {NULL}
          BY <3>1, <3>3, <4>1 DEF Closed
        <5>2. \A x \in Walk(a, next') : x # p => next[x] \in Walk(a, next') \cup {NULL}
          BY <3>1, <3>3 DEF Closed
        <5> QED
          BY <1>0, <2>2, <4>1, <5>1, <5>2 DEF Closed
      <4>2. CASE p \notin Walk(a, next')
        BY <3>1, <3>3, <4>2 DEF Closed
      <4> QED
        BY <4>1, <4>2
    <3>8. Walk(a, next) \subseteq S
      BY <3>6, <3>7, WalkIsLeast
    <3> QED
      BY <3>5, <3>8
  <2> QED
    BY <1>2, <2>1, <2>2
<1>7. Walk(k, next) = Walk(n, next) \ {n}
  <2>1. Walk(n, next) = {n} \cup Walk(k, next) /\ n \notin Walk(k, next)
    BY <1>0, <1>2, <1>3, WalkFromNext, WalkLeavesNode
  <2> QED
    BY <2>1
<1>8. Listed \ {n} \subseteq Listed'
  <2>1. CASE n = head
    BY <1>2, <1>4, <1>6, <1>7, <2>1 DEF Listed
  <2>2. CASE n # head
    BY <1>2, <1>3, <1>6, <2>2 DEF Listed
  <2> QED
    BY <2>1, <2>2
<1> SUFFICES ASSUME NEW r \in Readers PROVE Stands(r)' /\ ReturnsOnce(r)'
  BY ReadersInvSplitThen
<1>9. Stands(r) /\ ReturnsOnce(r)
  BY DEF ReadersInv, ReadInv
<1>10. /\ pc'[r] = pc[r] /\ image'[r] = image[r] /\ node'[r] = node[r] /\ seen'[r] = seen[r]
       /\ Position(r)' = Position(r)
  BY <1>1, ListAssumption DEF IndInv, TypeOK, Threads, Position
<1>11. ASSUME ~strayed'[r]
       PROVE  /\ ~strayed[r] /\ (pc[r] \in {"value", "return"} => node[r] # n)
              /\ (pc[r] = "fetch" => Position(r) # n)
  BY <1>1, <1>3, <1>11 DEF Position
<1>12. ASSUME ~strayed'[r]
       PROVE  Ahead(r) \ {n} \subseteq Ahead(r)' /\ Ahead(r)' \subseteq Ahead(r)
  <2>1. Looks(r) \in Listed \cup {NULL} /\ (pc[r] = "fetch" => Position(r) \in Listed \cup {NULL})
    BY <1>11, <1>12, LooksAtList DEF ReadersInv, ReadInv
  <2>2. CASE Looks(r) # n
    <3>1. Looks(r)' = Looks(r)
      BY <1>2, <1>3, <1>10, <2>1, <2>2 DEF Looks, After, Nexts
    <3> QED
      BY <1>6, <2>1, <2>2, <3>1, AheadIsWalk, AheadIsWalkThen
  <2>3. CASE Looks(r) = n
    <3>1. pc[r] = "fetch" /\ After(Position(r)) = n
      BY <1>3, <1>11, <1>12, <2>3 DEF Looks
    <3>2. Looks(r)' = k
      BY <1>2, <1>3, <1>10, <2>1, <3>1 DEF Looks, After, Nexts
    <3>3. /\ Walk(k, next') \subseteq Walk(k, next) /\ Walk(k, next) \ {n} \subseteq Walk(k, next')
      BY <1>2, <1>4, <1>6
    <3> QED
      BY <1>7, <2>3, <3>2, <3>3, AheadIsWalk, AheadIsWalkThen
  <2> QED
    BY <2>2, <2>3
<1>13. ASSUME pc[r] = "idle"
       PROVE  Stands(r)' /\ ReturnsOnce(r)'
  <2>1. /\ Returned(r)' = Returned(r) /\ must'[r] = {} /\ seen'[r] = <<>> /\ pc'[r] = "idle"
        /\ image[r] = NULL
    BY <1>1, <1>9, <1>10, <1>13 DEF Stands, Returned, IndInv, StandsSafely
  <2>2. Ahead(r)' = {}
    BY <2>1 DEF Ahead
  <2>3. Stands(r)'
    BY <1>1, <1>9, <1>13, <2>1 DEF Stands, ReadSteps
  <2> QED
    BY <2>1, <2>2, <2>3 DEF ReturnsOnce
<1>14. ASSUME pc[r] # "idle"
       PROVE  Stands(r)' /\ ReturnsOnce(r)'
  <2>1. ~strayed'[r] => Position(r) \in (Listed \cup {NULL}) \ {n}
    BY <1>3, <1>9, <1>11, <1>14 DEF Stands, IndInv, AtWork, ReadSteps, Position
  <2>2. must'[r] = must[r] \ {value[n]}
    BY <1>1
  <2> QED
    BY <1>1, <1>8, <1>9, <1>10, <1>11, <1>12, <1>14, <2>1, <2>2, ReaderKept
<1> QED
  BY <1>13, <1>14

\* A reader does not notice what another one does.
LEMMA OtherReaderKept ==
    ASSUME IndInv, ReadersInv, NEW r \in Readers, UNCHANGED <<head, next, value>>,
           pc'[r] = pc[r], image'[r] = image[r], node'[r] = node[r], seen'[r] = seen[r],
           must'[r] = must[r], strayed'[r] = strayed[r],
           \A i \in Images : imageNode[i] # NULL => imageNode'[i] = imageNode[i]
    PROVE  Stands(r)' /\ ReturnsOnce(r)'
<1>1. Stands(r) /\ ReturnsOnce(r)
  BY DEF ReadersInv
<1>2. Listed' = Listed
  BY DEF Listed
<1>3. ASSUME ~strayed[r], pc[r] # "idle"
      PROVE  /\ Position(r)' = Position(r) /\ Position(r) \in Listed' \cup {NULL}
             /\ pc[r] = "return" => imageNode'[value'[node[r]]] = imageNode[value[node[r]]]
  <2>1. /\ Position(r) \in Listed \cup {NULL}
        /\ pc[r] = "fetch" /\ image[r] # NULL => imageNode[image[r]] # NULL
        /\ pc[r] = "return" => imageNode[value[node[r]]] = node[r] /\ node[r] # NULL
    BY <1>1, <1>3, NullIsNoNode DEF Stands, Position, IndInv, AtWork, StandsSafely, ReadSteps
  <2>2. image[r] \in Images \cup {NULL}
    BY DEF IndInv, TypeOK, Threads
  <2>3. pc[r] = "return" => value[node[r]] \in Images
    BY <1>3, LooksAtList, ListedInMemory DEF ReadersInv, IndInv, OneNodePerImage, TypeOK
  <2> QED
    BY <1>2, <2>1, <2>2, <2>3 DEF Position
<1>4. ASSUME ~strayed[r], pc[r] # "idle"
      PROVE  Ahead(r)' = Ahead(r)
  BY <1>3, <1>4 DEF Ahead, After
<1>5. ASSUME pc[r] = "idle"
      PROVE  Stands(r)' /\ ReturnsOnce(r)'
  <2>1. Returned(r)' = Returned(r) /\ must'[r] = {} /\ seen'[r] = <<>> /\ pc'[r] = "idle"
    BY <1>1, <1>5 DEF Stands, Returned
  <2>2. Ahead(r)' = {}
    BY <2>1 DEF Ahead
  <2>3. Stands(r)'
    BY <1>1, <1>5, <2>1 DEF Stands, ReadSteps
  <2> QED
    BY <2>1, <2>2, <2>3 DEF ReturnsOnce
<1>6. ASSUME pc[r] # "idle"
      PROVE  Stands(r)' /\ ReturnsOnce(r)'
  BY <1>1, <1>3, <1>4, <1>6, ReaderKept
<1> QED
  BY <1>5, <1>6

\* A step of a reader, for all readers.
LEMMA OneReaderMoves ==
    ASSUME IndInv, ReadersInv, NEW r \in Readers, UNCHANGED <<head, next, value>>,
           \A q \in Readers : q # r =>
               /\ pc'[q] = pc[q] /\ image'[q] = image[q] /\ node'[q] = node[q]
               /\ seen'[q] = seen[q] /\ must'[q] = must[q] /\ strayed'[q] = strayed[q],
           \A i \in Images : imageNode[i] # NULL => imageNode'[i] = imageNode[i],
           Stands(r)', ReturnsOnce(r)'
    PROVE  ReadersInv'
<1> SUFFICES ASSUME NEW q \in Readers PROVE Stands(q)' /\ ReturnsOnce(q)'
  BY ReadersInvSplitThen
<1> QED
  BY OtherReaderKept

\* What a sequence holds once an image is appended.
LEMMA AppendReturns ==
    ASSUME NEW s \in Seq(Images), NEW i
    PROVE  {Append(s, i)[k] : k \in DOMAIN Append(s, i)} = {s[k] : k \in DOMAIN s} \cup {i}
<1>1. /\ DOMAIN Append(s, i) = 1 .. Len(s) + 1 /\ DOMAIN s = 1 .. Len(s) /\ Len(s) \in Nat
      /\ \A k \in 1 .. Len(s) + 1 : Append(s, i)[k] = IF k = Len(s) + 1 THEN i ELSE s[k]
  OBVIOUS
<1> QED
  BY <1>1

\* The same of what a reader has returned.
LEMMA ReturnedThen ==
    ASSUME TypeOK, NEW r \in Readers, NEW i, seen'[r] = Append(seen[r], i)
    PROVE  Returned(r)' = Returned(r) \cup {i}
<1>1. seen[r] \in Seq(Images)
  BY DEF TypeOK
<1>2. Returned(r)' = {Append(seen[r], i)[k] : k \in DOMAIN Append(seen[r], i)}
  BY DEF Returned
<1>3. {Append(seen[r], i)[k] : k \in DOMAIN Append(seen[r], i)} =
         {seen[r][k] : k \in DOMAIN seen[r]} \cup {i}
  BY <1>1, AppendReturns
<1> QED
  BY <1>2, <1>3 DEF Returned

\* A reader starts.
LEMMA StartKeepsReaders ==
    ASSUME IndInv, ReadersInv, NEW r \in Readers, startReading(r)
    PROVE  ReadersInv'
<1>1. /\ pc[r] = "idle" /\ pc' = [pc EXCEPT ![r] = "fetch"]
      /\ must' = [must EXCEPT ![r] = ListedImages]
      /\ UNCHANGED <<head, next, value, imageNode, image, node, seen, strayed>>
  BY DEF startReading, Goto, links, locals
<1>2. /\ pc'[r] = "fetch" /\ must'[r] = ListedImages /\ r \in Threads
      /\ \A q \in Readers : q # r => pc'[q] = pc[q] /\ must'[q] = must[q]
  BY <1>1 DEF IndInv, TypeOK, Threads
<1>3. seen[r] = <<>> /\ ~strayed[r] /\ image[r] = NULL
  BY <1>1 DEF ReadersInv, Stands, IndInv, StandsSafely
<1>4. Position(r)' = NULL /\ Looks(r)' = head
  BY <1>1, <1>2, <1>3 DEF Position, Looks, After
<1>5. Stands(r)'
  BY <1>1, <1>2, <1>3, <1>4 DEF Stands
<1>6. Returned(r)' = {} /\ Ahead(r)' = Listed
  BY <1>1, <1>3, <1>4, AheadIsWalkThen DEF Returned, Listed
<1>7. ReturnsOnce(r)'
  BY <1>1, <1>2, <1>3, <1>6 DEF ReturnsOnce, ListedImages
<1> QED
  BY <1>1, <1>2, <1>5, <1>7, OneReaderMoves

\* It fetches the next node.
LEMMA FetchKeepsReaders ==
    ASSUME IndInv, ReadersInv, NEW r \in Readers, fetchNode(r)
    PROVE  ReadersInv'
<1>0. PICK n : n = After(Position(r))
  OBVIOUS
<1>1. /\ pc[r] = "fetch" /\ node' = [node EXCEPT ![r] = n]
      /\ pc' = [pc EXCEPT ![r] = IF n = NULL THEN "endRead" ELSE "value"]
      /\ UNCHANGED <<head, next, value, imageNode, image, must, seen, strayed>>
  BY <1>0 DEF fetchNode, Goto, links, history, Position
<1>2. /\ node'[r] = n /\ pc'[r] = IF n = NULL THEN "endRead" ELSE "value"
      /\ \A q \in Readers : q # r => pc'[q] = pc[q] /\ node'[q] = node[q]
  BY <1>1 DEF IndInv, TypeOK, Threads
<1>3. Position(r)' = n /\ Looks(r) = n /\ Looks(r)' = n
  BY <1>0, <1>1, <1>2 DEF Position, Looks
<1>4. Stands(r) /\ ReturnsOnce(r)
  BY DEF ReadersInv
<1>5. ~strayed[r] => n \in Listed \cup {NULL}
  BY <1>3, LooksAtList DEF ReadersInv
<1>6. Stands(r)'
  BY <1>1, <1>2, <1>3, <1>4, <1>5 DEF Stands, Listed
<1>7. Returned(r)' = Returned(r) /\ Ahead(r)' = Ahead(r)
  BY <1>1, <1>3, AheadIsWalk, AheadIsWalkThen DEF Returned
<1>8. ReturnsOnce(r)'
  BY <1>1, <1>4, <1>7 DEF ReturnsOnce
<1> QED
  BY <1>1, <1>2, <1>6, <1>8, OneReaderMoves

\* It notes the node in the image.
LEMMA NoteKeepsReaders ==
    ASSUME IndInv, ReadersInv, NEW r \in Readers, noteNode(r)
    PROVE  ReadersInv'
<1>0. PICK n : n = node[r]
  OBVIOUS
<1>1. /\ pc[r] = "value" /\ pc' = [pc EXCEPT ![r] = "return"]
      /\ imageNode' = [imageNode EXCEPT ![value[n]] = CompareAndSwap(NULL, imageNode[value[n]], n)]
      /\ UNCHANGED <<head, next, value, image, node, must, seen, strayed>>
  BY <1>0 DEF noteNode, Goto, links, locals, history
<1>2. /\ pc'[r] = "return" /\ \A q \in Readers : q # r => pc'[q] = pc[q]
  BY <1>1 DEF IndInv, TypeOK, Threads
<1>3. r \in Reading /\ Position(r) = n /\ n # NULL
  BY <1>0, <1>1 DEF Reading, ReadSteps, Threads, Position, IndInv, StandsSafely
<1>4. n \in heap
  BY <1>3 DEF IndInv, StandsSafely
<1>5. value[n] \in Images /\ imageNode[value[n]] \in {NULL, n}
  BY <1>4 DEF IndInv, OneNodePerImage, TypeOK
<1>6. /\ imageNode'[value[n]] = n
      /\ \A i \in Images : imageNode[i] # NULL => imageNode'[i] = imageNode[i]
  BY <1>1, <1>5 DEF CompareAndSwap, IndInv, TypeOK
<1>7. Stands(r) /\ ReturnsOnce(r)
  BY DEF ReadersInv
<1>8. Position(r)' = Position(r) /\ Looks(r)' = Looks(r)
  BY <1>0, <1>1, <1>2, <1>3 DEF Position, Looks
<1>9. Stands(r)'
  BY <1>0, <1>1, <1>2, <1>6, <1>7, <1>8 DEF Stands, Listed, ReadSteps
<1>10. Returned(r)' = Returned(r) /\ Ahead(r)' = Ahead(r)
  BY <1>1, <1>8, AheadIsWalk, AheadIsWalkThen DEF Returned
<1>11. ReturnsOnce(r)'
  BY <1>1, <1>7, <1>10 DEF ReturnsOnce
<1> QED
  BY <1>1, <1>2, <1>6, <1>9, <1>11, OneReaderMoves

\* It returns the image.
LEMMA ReturnKeepsReaders ==
    ASSUME IndInv, ReadersInv, NEW r \in Readers, returnImage(r)
    PROVE  ReadersInv'
<1>0. PICK n, i : n = node[r] /\ i = value[n]
  OBVIOUS
<1>1. /\ pc[r] = "return" /\ pc' = [pc EXCEPT ![r] = "fetch"]
      /\ image' = [image EXCEPT ![r] = i] /\ seen' = [seen EXCEPT ![r] = Append(seen[r], i)]
      /\ UNCHANGED <<head, next, value, imageNode, node, must, strayed>>
  BY <1>0 DEF returnImage, Goto, links
<1>2. /\ pc'[r] = "fetch" /\ image'[r] = i /\ seen'[r] = Append(seen[r], i)
      /\ seen[r] \in Seq(Images)
      /\ \A q \in Readers : q # r => /\ pc'[q] = pc[q] /\ image'[q] = image[q]
                                     /\ seen'[q] = seen[q]
  BY <1>1 DEF IndInv, TypeOK, Threads
<1>3. Stands(r) /\ ReturnsOnce(r)
  BY DEF ReadersInv
<1>4. CASE strayed[r]
  <2>1. strayed'[r]
    BY <1>1, <1>4
  <2>2. Stands(r)' /\ ReturnsOnce(r)'
    BY <1>2, <2>1 DEF Stands, ReturnsOnce
  <2> QED
    BY <1>1, <1>2, <2>2, OneReaderMoves
<1>5. CASE ~strayed[r]
  <2>1. n \in Listed /\ imageNode[i] = n
    BY <1>0, <1>1, <1>3, <1>5, LooksAtList DEF Stands, ReadersInv, ReadSteps
  <2>2. n \in heap /\ n # NULL /\ Listed \subseteq heap /\ n \in Nodes /\ next \in Nexts
    BY <2>1, LinkTypes, ListedInMemory DEF IndInv
  <2>3. i \in Images /\ i # NULL
    BY <1>0, <2>2, ListAssumption DEF IndInv, OneNodePerImage, TypeOK
  <2>4. Position(r)' = n /\ Looks(r) = n /\ Looks(r)' = next[n]
    BY <1>0, <1>1, <1>2, <2>1, <2>2, <2>3 DEF Position, Looks, After
  <2>5. Listed' = Listed /\ strayed' = strayed /\ value' = value
    BY <1>1 DEF Listed
  <2>6. Stands(r)'
    BY <1>2, <2>1, <2>2, <2>3, <2>4, <2>5 DEF Stands
  <2>7. /\ Ahead(r) = {n} \cup Ahead(r)' /\ n \notin Ahead(r)' /\ Ahead(r)' \subseteq heap
    <3>1. Ahead(r) = Walk(n, next) /\ Ahead(r)' = Walk(next[n], next)
      BY <1>1, <2>4, AheadIsWalk, AheadIsWalkThen
    <3>2. Walk(n, next) = {n} \cup Walk(next[n], next) /\ n \notin Walk(next[n], next)
      BY <2>1, <2>2, WalkFromNext, WalkLeavesNode
    <3>3. Ahead(r) \subseteq heap
      BY <1>5, <2>2, LooksAtList DEF ReadersInv
    <3> QED
      BY <3>1, <3>2, <3>3
  <2>8. Returned(r)' = Returned(r) \cup {i}
    BY <1>2, ReturnedThen DEF IndInv
  <2>9. \A j, k \in DOMAIN seen'[r] : seen'[r][j] = seen'[r][k] => j = k
    <3>1. i \notin Returned(r)
      BY <1>0, <1>3, <1>5, <2>7 DEF ReturnsOnce
    <3>2. /\ DOMAIN seen'[r] = 1 .. Len(seen[r]) + 1 /\ DOMAIN seen[r] = 1 .. Len(seen[r])
          /\ Len(seen[r]) \in Nat
          /\ \A k \in 1 .. Len(seen[r]) + 1 :
                seen'[r][k] = IF k = Len(seen[r]) + 1 THEN i ELSE seen[r][k]
      BY <1>2
    <3>3. \A j, k \in DOMAIN seen[r] : seen[r][j] = seen[r][k] => j = k
      BY <1>3, <1>5 DEF ReturnsOnce
    <3>4. \A k \in DOMAIN seen[r] : seen[r][k] # i
      BY <3>1 DEF Returned
    <3> QED
      BY <3>2, <3>3, <3>4
  <2>10. \A m \in Ahead(r)' : value[m] \notin Returned(r) \cup {i}
    BY <1>0, <1>3, <1>5, <2>2, <2>7 DEF ReturnsOnce, IndInv, OneNodePerImage
  <2>11. must[r] \subseteq Returned(r) \cup {i} \cup {value[m] : m \in Ahead(r)'}
    BY <1>0, <1>3, <1>5, <2>7 DEF ReturnsOnce
  <2>12. ReturnsOnce(r)'
    BY <1>1, <2>5, <2>8, <2>9, <2>10, <2>11 DEF ReturnsOnce
  <2> QED
    BY <1>1, <1>2, <2>6, <2>12, OneReaderMoves
<1> QED
  BY <1>4, <1>5

\* It stops reading.
LEMMA EndKeepsReaders ==
    ASSUME IndInv, ReadersInv, NEW r \in Readers, endReading(r)
    PROVE  ReadersInv'
<1>1. /\ pc' = [pc EXCEPT ![r] = "idle"] /\ image' = [image EXCEPT ![r] = NULL]
      /\ node' = [node EXCEPT ![r] = NULL] /\ must' = [must EXCEPT ![r] = {}]
      /\ seen' = [seen EXCEPT ![r] = <<>>] /\ strayed' = [strayed EXCEPT ![r] = FALSE]
      /\ UNCHANGED <<head, next, value, imageNode>>
  BY DEF endReading, Goto, links
<1>2. /\ pc'[r] = "idle" /\ must'[r] = {} /\ seen'[r] = <<>> /\ ~strayed'[r]
      /\ \A q \in Readers : q # r =>
            /\ pc'[q] = pc[q] /\ image'[q] = image[q] /\ node'[q] = node[q]
            /\ seen'[q] = seen[q] /\ must'[q] = must[q] /\ strayed'[q] = strayed[q]
  BY <1>1 DEF IndInv, TypeOK, Threads
<1>3. Stands(r)'
  BY <1>2 DEF Stands, ReadSteps
<1>4. Ahead(r)' = {} /\ Returned(r)' = {}
  BY <1>2 DEF Ahead, Returned
<1>5. ReturnsOnce(r)'
  BY <1>2, <1>4 DEF ReturnsOnce
<1> QED
  BY <1>1, <1>2, <1>3, <1>5, OneReaderMoves

\* A writer's node in hand is not one of the list, and no value of another node.
LEMMA NewIsNotListed ==
    ASSUME IndInv, NewToReaders, NEW w \in Writers,
           pc[w] \in {"lock", "take", "reset", "point", "link"}, NEW n \in Listed
    PROVE  value[n] # image[w]
<1>1. n \in heap
  BY ListedInMemory DEF IndInv
<1>2. CASE pc[w] \in {"lock", "take"}
  BY <1>1, <1>2 DEF IndInv, OneNodePerImage
<1>3. CASE pc[w] = "reset"
  <2>1. node[w] \in heap /\ node[w] \notin Listed
    BY <1>3, LinkTypes DEF IndInv, NodeInHand, Linked
  <2> QED
    BY <1>1, <1>3, <2>1 DEF NewToReaders, IndInv, OneNodePerImage
<1>4. CASE pc[w] \in {"point", "link"}
  BY <1>1, <1>4, InHandIsApart DEF NewToReaders, IndInv, OneNodePerImage
<1> QED
  BY <1>2, <1>3, <1>4

\* Every step keeps what is about to be linked in new to the readers.
LEMMA NewStep ==
    ASSUME IndInv, ReadInv, Next
    PROVE  NewToReaders'
<1> USE ListAssumption DEF IndInv, TypeOK, Threads, NewToReaders, Goto, locals, links, dyld,
        history, Returned
<1>1. ASSUME NEW w \in Writers, NEW o \in {"append", "prepend"}, NEW i \in Images,
             insert(w, o, i)
      PROVE  NewToReaders'
  BY <1>1 DEF insert, ReadInv
<1>2. ASSUME NEW w \in Writers, NEW o \in {"remove", "removeNode"}, NEW h \in Headers,
             remove(w, o, h)
      PROVE  NewToReaders'
  BY <1>2 DEF remove, ReadInv
<1>3. ASSUME NEW w \in Writers, lock(w) PROVE NewToReaders'
  BY <1>3 DEF lock, ReadInv
<1>4. ASSUME NEW w \in Writers, recycleNode(w) PROVE NewToReaders'
  BY <1>4 DEF recycleNode, ReadInv, AtWork, LockedSteps
<1>5. ASSUME NEW w \in Writers, resetNode(w) PROVE NewToReaders'
  BY <1>5 DEF resetNode, ReadInv
<1>6. ASSUME NEW w \in Writers, newNode(w) PROVE NewToReaders'
  BY <1>6 DEF newNode, ReadInv, AtWork, LockedSteps
<1>7. ASSUME NEW w \in Writers, pointAtHead(w) PROVE NewToReaders'
  BY <1>7 DEF pointAtHead, ReadInv
<1>8. ASSUME NEW w \in Writers, linkFirst(w) PROVE NewToReaders'
  BY <1>8 DEF linkFirst, ReadInv
<1>9. ASSUME NEW w \in Writers, linkLast(w) PROVE NewToReaders'
  BY <1>9 DEF linkLast, ReadInv
<1>10. ASSUME NEW w \in Writers, linkHead(w) PROVE NewToReaders'
  BY <1>10 DEF linkHead, ReadInv
<1>11. ASSUME NEW w \in Writers, unlock(w) PROVE NewToReaders'
  BY <1>11 DEF unlock, ReadInv
<1>12. ASSUME NEW w \in Writers, seek(w) PROVE NewToReaders'
  BY <1>12 DEF seek, ReadInv
<1>13. ASSUME NEW w \in Writers, notThere(w) PROVE NewToReaders'
  BY <1>13 DEF notThere, ReadInv
<1>14. ASSUME NEW w \in Writers, release(w) PROVE NewToReaders'
  BY <1>14 DEF release, ReadInv
<1>15. ASSUME NEW w \in Writers, unlink(w) PROVE NewToReaders'
  BY <1>15 DEF unlink, ReadInv
<1>16. ASSUME NEW w \in Writers, testCount(w) PROVE NewToReaders'
  BY <1>16 DEF testCount, ReadInv
<1>17. ASSUME NEW w \in Writers, toFreeList(w) PROVE NewToReaders'
  BY <1>17 DEF toFreeList, ReadInv
<1>18. ASSUME NEW w \in Writers, delete(w) PROVE NewToReaders'
  BY <1>18 DEF delete, ReadInv, AtWork, LockedSteps
<1>19. ASSUME NEW w \in Writers, unlockRemove(w) PROVE NewToReaders'
  BY <1>19 DEF unlockRemove, ReadInv
<1>20. ASSUME NEW w \in Writers, endRemove(w) PROVE NewToReaders'
  BY <1>20 DEF endRemove, ReadInv
<1>21. ASSUME NEW r \in Readers, startReading(r) PROVE NewToReaders'
  BY <1>21 DEF startReading, ReadInv
<1>22. ASSUME NEW r \in Readers, fetchNode(r) PROVE NewToReaders'
  BY <1>22 DEF fetchNode, ReadInv
<1>23. ASSUME NEW r \in Readers, noteNode(r) PROVE NewToReaders'
  BY <1>23 DEF noteNode, ReadInv
<1>24. ASSUME NEW r \in Readers, returnImage(r) PROVE NewToReaders'
  <2>0. PICK i : i = value[node[r]]
    OBVIOUS
  <2>1. /\ pc[r] = "return" /\ pc' = [pc EXCEPT ![r] = "fetch"]
        /\ seen' = [seen EXCEPT ![r] = Append(seen[r], i)] /\ seen[r] \in Seq(Images)
        /\ \A w \in Writers : pc'[w] = pc[w] /\ image'[w] = image[w]
        /\ UNCHANGED <<used, node, value, strayed>>
    BY <1>24, <2>0 DEF returnImage
  <2>2. r \in Reading /\ Position(r) = node[r] /\ node[r] # NULL
    BY <2>1 DEF Reading, ReadSteps, Position, StandsSafely
  <2>3. i \in used
    BY <2>0, <2>2 DEF StandsSafely, OneNodePerImage
  <2>4. Returned(r)' = Returned(r) \cup {i}
    BY <2>1, ReturnedThen
  <2>5. \A q \in Readers : q # r => Returned(q)' = Returned(q)
    BY <2>1
  <2>6. ~strayed[r] => node[r] \in Listed
    BY <2>1, LooksAtList DEF ReadInv
  <2> HIDE DEF IndInv, TypeOK, Returned
  <2>7. ASSUME NEW w \in Writers, pc[w] \in {"lock", "take", "reset", "point", "link"},
               ~strayed[r]
        PROVE  image[w] # i
    BY <2>0, <2>6, <2>7, NewIsNotListed DEF ReadInv
  <2> QED
    BY <2>1, <2>3, <2>4, <2>5, <2>7 DEF ReadInv
<1>25. ASSUME NEW r \in Readers, endReading(r) PROVE NewToReaders'
  BY <1>25 DEF endReading, ReadInv
<1> HIDE DEF IndInv, TypeOK, NewToReaders
<1> QED
  BY <1>1, <1>2, <1>3, <1>4, <1>5, <1>6, <1>7, <1>8, <1>9, <1>10, <1>11, <1>12, <1>13, <1>14,
     <1>15, <1>16, <1>17, <1>18, <1>19, <1>20, <1>21, <1>22, <1>23, <1>24, <1>25
     DEF Next, Call, WriterStep, ReaderStep

\* Every other step leaves the nodes of the list as they are.
LEMMA OtherStepsKeepListed ==
    ASSUME IndInv, NEW w \in Writers,
           \/ Call(w) \/ lock(w) \/ recycleNode(w) \/ resetNode(w) \/ newNode(w)
           \/ pointAtHead(w) \/ unlock(w) \/ seek(w) \/ notThere(w) \/ release(w)
           \/ testCount(w) \/ toFreeList(w) \/ delete(w) \/ unlockRemove(w) \/ endRemove(w)
    PROVE  head' = head /\ \A x \in Listed : next'[x] = next[x] /\ value'[x] = value[x]
<1>1. CASE \/ Call(w) \/ lock(w) \/ unlock(w) \/ seek(w) \/ notThere(w) \/ release(w)
           \/ testCount(w) \/ unlockRemove(w) \/ endRemove(w)
  BY <1>1 DEF Call, insert, remove, lock, unlock, seek, notThere, release, testCount,
              unlockRemove, endRemove, links
<1>2. CASE recycleNode(w) \/ resetNode(w) \/ newNode(w)
  <2>1. Listed \subseteq heap /\ Listed \subseteq Nodes /\ free \notin Listed /\ next \in Nexts
    BY ListedInMemory, LinkTypes DEF IndInv
  <2>2. CASE recycleNode(w)
    BY <2>1, <2>2 DEF recycleNode, links, IndInv, TypeOK
  <2>3. CASE resetNode(w)
    BY <2>1, <2>3 DEF resetNode, IndInv, TypeOK, NodeInHand
  <2>4. CASE newNode(w)
    BY <2>1, <2>4 DEF newNode, IndInv, TypeOK
  <2> QED
    BY <1>2, <2>2, <2>3, <2>4
<1>3. CASE pointAtHead(w) \/ toFreeList(w) \/ delete(w)
  <2>1. Listed \subseteq Nodes
    BY LinkTypes
  <2>2. pc[w] \in {"point", "recycle", "delete"}
    BY <1>3 DEF pointAtHead, toFreeList, delete
  <2>3. node[w] \notin Listed
    BY <2>2, InHandIsApart
  <2> QED
    BY <1>3, <2>1, <2>3 DEF pointAtHead, toFreeList, delete, IndInv, TypeOK
<1> QED
  BY <1>1, <1>2, <1>3

\* Every step keeps the readers' promise.
LEMMA ReadersStep ==
    ASSUME IndInv, ReadInv, Next
    PROVE  ReadersInv'
<1>0. ReadersInv /\ next \in Nexts /\ free \notin Listed /\ TypeOK'
  BY LinkTypes, TypeStep DEF ReadInv, ReadersInv
<1>n. next' \in Nexts
  BY <1>0 DEF TypeOK, Nexts, Pointers
<1> USE ListAssumption DEF IndInv, TypeOK, Threads, Goto, locals, links, history, ReadersUntouched
<1>1. ASSUME NEW w \in Writers, NEW o \in {"append", "prepend"}, NEW i \in Images,
             insert(w, o, i)
      PROVE  ReadersUntouched /\ UNCHANGED <<must, strayed, head, next, value>>
  BY <1>1 DEF insert
<1>2. ASSUME NEW w \in Writers, NEW o \in {"remove", "removeNode"}, NEW h \in Headers,
             remove(w, o, h)
      PROVE  ReadersUntouched /\ UNCHANGED <<must, strayed, head, next, value>>
  BY <1>2 DEF remove
<1>3. ASSUME NEW w \in Writers, \/ lock(w) \/ unlock(w) \/ seek(w) \/ notThere(w) \/ release(w)
                                \/ testCount(w) \/ unlockRemove(w) \/ endRemove(w)
      PROVE  ReadersUntouched /\ UNCHANGED <<must, strayed, head, next, value>>
  BY <1>3 DEF lock, unlock, seek, notThere, release, testCount, unlockRemove, endRemove
<1>4. ASSUME NEW w \in Writers, \/ recycleNode(w) \/ resetNode(w) \/ newNode(w) \/ pointAtHead(w)
                                \/ toFreeList(w) \/ delete(w)
      PROVE  /\ ReadersUntouched /\ must' = must /\ strayed' = strayed /\ head' = head
  BY <1>4 DEF recycleNode, resetNode, newNode, pointAtHead, toFreeList, delete
<1> HIDE DEF IndInv, TypeOK, Threads, Goto, locals, links, history, ReadersUntouched
<1>5. ASSUME NEW w \in Writers, \/ recycleNode(w) \/ resetNode(w) \/ newNode(w) \/ pointAtHead(w)
                                \/ toFreeList(w) \/ delete(w)
      PROVE  \A x \in Listed : next'[x] = next[x] /\ value'[x] = value[x]
  BY <1>5, OtherStepsKeepListed
<1>6. ASSUME NEW w \in Writers, Call(w) \/ WriterStep(w)
      PROVE  ReadersInv'
  BY <1>0, <1>n, <1>1, <1>2, <1>3, <1>4, <1>5, <1>6, ListKept, FirstKeepsReaders, LastKeepsReaders,
     HeadKeepsReaders, UnlinkKeepsReaders DEF Call, WriterStep
<1>7. ASSUME NEW r \in Readers, startReading(r) \/ ReaderStep(r)
      PROVE  ReadersInv'
  BY <1>0, <1>7, StartKeepsReaders, FetchKeepsReaders, NoteKeepsReaders, ReturnKeepsReaders,
     EndKeepsReaders DEF ReaderStep
<1> QED
  BY <1>6, <1>7 DEF Next

\* Nobody has read an empty list.
LEMMA ReadInit == Init => ReadInv
<1> SUFFICES ASSUME Init PROVE ReadInv
  OBVIOUS
<1> USE ListAssumption DEF Init, Threads
<1>1. ReadersInv
  BY DEF ReadersInv, Stands, ReturnsOnce, ReadSteps, Ahead, Returned
<1>2. NewToReaders
  BY DEF NewToReaders, Returned
<1> QED
  BY <1>1, <1>2 DEF ReadInv

\* So does a step that changes nothing.
LEMMA ReadStep == IndInv /\ ReadInv /\ [Next]_vars => ReadInv'
<1> SUFFICES ASSUME IndInv, ReadInv, [Next]_vars PROVE ReadInv'
  OBVIOUS
<1>1. CASE Next
  BY <1>1, NewStep, ReadersStep DEF ReadInv, ReadersInv
<1>2. CASE UNCHANGED vars
  <2>1. UNCHANGED <<head, tail, free, next, prev, refcount, write_lock, heap, value, imageNode, pc,
                    op, image, header, node, loaded, used, must, seen, strayed>>
    BY <1>2 DEF vars, links, locals, dyld, history
  <2>2. /\ Listed' = Listed /\ \A r \in Readers : /\ Position(r)' = Position(r)
                                                 /\ Returned(r)' = Returned(r)
                                                 /\ Ahead(r)' = Ahead(r)
    BY <2>1 DEF Listed, Position, Returned, Ahead, After
  <2> QED
    BY <2>1, <2>2 DEF ReadInv, ReadersInv, Stands, ReturnsOnce, NewToReaders
<1> QED
  BY <1>1, <1>2

\* ReadInv is an invariant of the list of images too.
THEOREM ReadersInvariantHolds == Spec => []ReadInv
<1>1. Init => ReadInv
  BY ReadInit
<1>2. IndInv /\ ReadInv /\ [Next]_vars => ReadInv'
  BY ReadStep
<1> QED
  BY <1>1, <1>2, InvariantHolds, PTL DEF Spec

\* image_list_next returns each image once, and all that stayed in the list, to a reader
\* whose own node nobody removed, whatever is appended, prepended and removed meanwhile.
THEOREM UndisturbedReaderMissesNothing == Spec => []UndisturbedReaderSeesAll
<1>1. ReadInv => UndisturbedReaderSeesAll
  <2> SUFFICES ASSUME ReadInv, NEW r \in Readers, ~strayed[r]
               PROVE  /\ \A j, k \in DOMAIN seen[r] : seen[r][j] = seen[r][k] => j = k
                      /\ pc[r] = "endRead" =>
                            \A i \in must[r] : \E k \in DOMAIN seen[r] : seen[r][k] = i
    BY DEF UndisturbedReaderSeesAll
  <2>1. pc[r] = "endRead" => Ahead(r) = {}
    BY DEF Ahead
  <2> QED
    BY <2>1 DEF ReadInv, ReadersInv, ReturnsOnce, Returned
<1> QED
  BY <1>1, ReadersInvariantHolds, PTL

----------------------------------------------------------------------------
(* The list as a sequence.                                                 *)

\* A set of numbers that is not empty has a least one.
LEMMA LeastNumber ==
    ASSUME NEW T \in SUBSET Nat, T # {}
    PROVE  \E m \in T : \A k \in T : m <= k
<1> DEFINE R == OpToRel(<, Nat)
<1>1. IsWellFoundedOn(R, Nat)
  BY NatLessThanWellFounded, Zenon
<1>2. \A x, y \in Nat : <<x, y>> \in R <=> x < y
  BY DEF OpToRel
<1> HIDE DEF R
<1>3. PICK x \in T : \A y \in T : ~(<<y, x>> \in R)
  BY <1>1, WFMin
<1>4. \A y \in T : ~(y < x)
  BY <1>2, <1>3
<1> QED
  BY <1>4

\* The nodes s are those of a walk from h along nx, in order.
InOrder(s, h, nx) ==
    /\ s \in Seq(Nodes)
    /\ \A j, k \in 1 .. Len(s) : s[j] = s[k] => j = k
    /\ h = IF Len(s) = 0 THEN NULL ELSE s[1]
    /\ \A k \in 1 .. Len(s) : nx[s[k]] = IF k < Len(s) THEN s[k + 1] ELSE NULL

\* They are the ones of the list.
LEMMA OrderIsListed ==
    ASSUME IndInv, NEW s, InOrder(s, head, next)
    PROVE  /\ \A k \in 1 .. Len(s) : s[k] \in Listed
           /\ \A n \in Listed : \E k \in 1 .. Len(s) : n = s[k]
<1>0. /\ s \in Seq(Nodes) /\ Len(s) \in Nat /\ NULL \notin Nodes
      /\ Listed \subseteq Nodes /\ head \in Listed \cup {NULL} /\ Closed(next, Listed)
      /\ \A k \in 1 .. Len(s) : s[k] \in Nodes
      /\ next \in Nexts /\ head \in Pointers
  BY LinkTypes DEF InOrder
<1> DEFINE T == {k \in 1 .. Len(s) : s[k] \notin Listed}
<1>1. ASSUME T # {} PROVE FALSE
  <2>0. T \in SUBSET Nat
    BY <1>0
  <2>1. PICK m \in T : \A k \in T : m <= k
    <3> HIDE DEF T
    <3> QED
      BY <1>1, <2>0, LeastNumber
  <2>2. m # 1
    BY <1>0, <2>1 DEF InOrder
  <2>3. m - 1 \in 1 .. Len(s) /\ m - 1 \notin T
    BY <1>0, <2>1, <2>2
  <2>4. s[m - 1] \in Listed
    BY <2>3
  <2>5. next[s[m - 1]] = s[m]
    BY <1>0, <2>1, <2>3 DEF InOrder
  <2>6. s[m] \in Listed \cup {NULL}
    BY <1>0, <2>4, <2>5 DEF Closed
  <2> QED
    BY <1>0, <2>1, <2>6
<1> DEFINE S == {s[k] : k \in 1 .. Len(s)}
<1>2. Listed \subseteq S
  <2>1. S \in SUBSET Nodes /\ head \in S \cup {NULL}
    BY <1>0 DEF InOrder
  <2>2. Closed(next, S)
    <3> SUFFICES ASSUME NEW k \in 1 .. Len(s) PROVE next[s[k]] \in S \cup {NULL}
      BY DEF Closed
    <3>1. CASE k < Len(s)
      <4>1. next[s[k]] = s[k + 1] /\ k + 1 \in 1 .. Len(s)
        BY <1>0, <3>1 DEF InOrder
      <4> QED
        BY <4>1
    <3>2. CASE ~ (k < Len(s))
      BY <3>2 DEF InOrder
    <3> QED
      BY <3>1, <3>2
  <2> QED
    BY <1>0, <2>1, <2>2, WalkIsLeast DEF Listed
<1> QED
  BY <1>1, <1>2

\* The walk of ListedInOrder, node by node.
IsWalk(at, h, nx) ==
    at = [k \in 0 .. Cardinality(Nodes) |->
             IF k = 0 THEN h ELSE IF at[k - 1] = NULL THEN NULL ELSE nx[at[k - 1]]]

\* There is one such function only.
LEMMA OneWalk ==
    ASSUME NEW h, NEW nx, NEW f, NEW g, IsWalk(f, h, nx), IsWalk(g, h, nx),
           Cardinality(Nodes) \in Nat
    PROVE  f = g
<1> DEFINE N == Cardinality(Nodes)
           T == {k \in 0 .. N : f[k] # g[k]}
<1>0. /\ f = [k \in 0 .. N |-> f[k]] /\ g = [k \in 0 .. N |-> g[k]]
  BY DEF IsWalk
<1>s. /\ \A k \in 0 .. N : f[k] = IF k = 0 THEN h ELSE IF f[k - 1] = NULL THEN NULL ELSE nx[f[k - 1]]
      /\ \A k \in 0 .. N : g[k] = IF k = 0 THEN h ELSE IF g[k - 1] = NULL THEN NULL ELSE nx[g[k - 1]]
  BY DEF IsWalk
<1>1. ASSUME T # {} PROVE FALSE
  <2>0. T \in SUBSET Nat
    OBVIOUS
  <2>1. PICK m \in T : \A k \in T : m <= k
    <3> HIDE DEF T
    <3> QED
      BY <1>1, <2>0, LeastNumber
  <2>2. m # 0
    BY <1>s, <2>1
  <2>3. m - 1 \in 0 .. N /\ m - 1 \notin T
    BY <2>1, <2>2
  <2>4. f[m - 1] = g[m - 1]
    BY <2>3
  <2>5. f[m] = g[m]
    BY <1>s, <2>1, <2>2, <2>4
  <2> QED
    BY <2>1, <2>5
<1>2. \A k \in 0 .. N : f[k] = g[k]
  BY <1>1
<1> QED
  BY <1>0, <1>2

\* There are no more of them than nodes.
LEMMA OrderFits ==
    ASSUME NEW h, NEW nx, NEW s, InOrder(s, h, nx)
    PROVE  Len(s) <= Cardinality(Nodes) /\ Cardinality(Nodes) \in Nat /\ Len(s) \in Nat
<1>0. IsFiniteSet(Nodes) /\ s \in Seq(Nodes) /\ Len(s) \in Nat
  BY ListAssumption DEF InOrder
<1>1. s \in Injection(1 .. Len(s), Nodes)
  BY <1>0 DEF InOrder, Injection, IsInjective
<1>2. IsFiniteSet(1 .. Len(s)) /\ Cardinality(1 .. Len(s)) = Len(s)
  BY <1>0, FS_Interval
<1>3. Cardinality(1 .. Len(s)) <= Cardinality(Nodes)
  BY <1>0, <1>1, FS_Injection
<1> QED
  BY <1>0, <1>2, <1>3, FS_CardinalityType

\* The images on the nodes of that walk.
OnWalk(h, nx, val) ==
    LET at == CHOOSE g : IsWalk(g, h, nx)
    IN  [k \in 1 .. Cardinality({k \in DOMAIN at : at[k] # NULL}) |-> val[at[k - 1]]]

\* They are those of the nodes in order.
LEMMA OrderOfImages ==
    ASSUME NEW h, NEW nx, NEW val, NEW s, InOrder(s, h, nx)
    PROVE  OnWalk(h, nx, val) = [k \in 1 .. Len(s) |-> val[s[k]]]
<1> DEFINE N == Cardinality(Nodes)
           f == [k \in 0 .. N |-> IF k < Len(s) THEN s[k + 1] ELSE NULL]
           at == CHOOSE g : IsWalk(g, h, nx)
<1>0. /\ s \in Seq(Nodes) /\ Len(s) \in Nat /\ NULL \notin Nodes /\ N \in Nat /\ Len(s) <= N
      /\ \A k \in 1 .. Len(s) : s[k] \in Nodes
  <2>1. Len(s) <= N /\ N \in Nat /\ Len(s) \in Nat
    BY OrderFits
  <2> QED
    BY <2>1, NullIsNoNode DEF InOrder
<1>1. IsWalk(f, h, nx)
  <2>1. ASSUME NEW k \in 0 .. N
        PROVE  f[k] = IF k = 0 THEN h ELSE IF f[k - 1] = NULL THEN NULL ELSE nx[f[k - 1]]
    <3>1. CASE k = 0
      BY <1>0, <3>1 DEF InOrder
    <3>2. CASE k # 0 /\ k - 1 < Len(s)
      <4>1. f[k - 1] = s[k] /\ k \in 1 .. Len(s) /\ s[k] # NULL
        BY <1>0, <3>2
      <4>2. nx[s[k]] = IF k < Len(s) THEN s[k + 1] ELSE NULL
        BY <4>1 DEF InOrder
      <4> QED
        BY <3>2, <4>1, <4>2
    <3>3. CASE k # 0 /\ ~ (k - 1 < Len(s))
      BY <1>0, <3>3
    <3> QED
      BY <3>1, <3>2, <3>3
  <2> HIDE DEF f
  <2>2. f = [k \in 0 .. N |-> f[k]]
    BY DEF f
  <2> QED
    BY <2>1, <2>2 DEF IsWalk
<1>2. at = f
  <2> HIDE DEF f
  <2>1. IsWalk(at, h, nx)
    BY <1>1
  <2> QED
    BY <1>0, <1>1, <2>1, OneWalk
<1>3. OnWalk(h, nx, val) =
         [k \in 1 .. Cardinality({k \in DOMAIN at : at[k] # NULL}) |-> val[at[k - 1]]]
  BY DEF OnWalk
<1>4. {k \in DOMAIN f : f[k] # NULL} = 0 .. (Len(s) - 1)
  BY <1>0
<1>5. Cardinality(0 .. (Len(s) - 1)) = Len(s)
  <2>1. Len(s) - 1 \in Int /\ 0 \in Int
    BY <1>0
  <2>2. Cardinality(0 .. (Len(s) - 1)) = IF 0 > Len(s) - 1 THEN 0 ELSE Len(s) - 1 - 0 + 1
    BY <2>1, FS_Interval
  <2> QED
    BY <1>0, <2>2
<1>6. \A k \in 1 .. Len(s) : f[k - 1] = s[k]
  BY <1>0
<1> HIDE DEF at, f
<1>7. OnWalk(h, nx, val) = [k \in 1 .. Len(s) |-> val[f[k - 1]]]
  <2>1. Cardinality({k \in DOMAIN at : at[k] # NULL}) = Len(s)
    BY <1>2, <1>4, <1>5
  <2> QED
    BY <1>2, <1>3, <2>1
<1> QED
  BY <1>6, <1>7

\* ListedInOrder is that of the list, before and after a step.
LEMMA ListedNowAndThen ==
    /\ ListedInOrder = OnWalk(head, next, value)
    /\ ListedInOrder' = OnWalk(head', next', value')
BY DEF ListedInOrder, OnWalk, IsWalk

\* A step that leaves the nodes of the list as they are is none for its users.
LEMMA OrderKept ==
    ASSUME IndInv, NEW s, InOrder(s, head, next), head' = head,
           \A x \in Listed : next'[x] = next[x] /\ value'[x] = value[x]
    PROVE  InOrder(s, head', next') /\ ListedInOrder' = ListedInOrder
<1>1. \A k \in 1 .. Len(s) : s[k] \in Listed
  BY OrderIsListed
<1>2. InOrder(s, head', next')
  BY <1>1 DEF InOrder
<1>3. [k \in 1 .. Len(s) |-> value'[s[k]]] = [k \in 1 .. Len(s) |-> value[s[k]]]
  BY <1>1
<1>4. OnWalk(head, next, value) = [k \in 1 .. Len(s) |-> value[s[k]]]
  BY OrderOfImages
<1>5. OnWalk(head', next', value') = [k \in 1 .. Len(s) |-> value'[s[k]]]
  BY <1>2, OrderOfImages
<1> QED
  BY <1>2, <1>3, <1>4, <1>5, ListedNowAndThen

\* The image that a writer is about to link is not in the list.
LEMMA NotHeld ==
    ASSUME IndInv, NEW s, InOrder(s, head, next), NEW n \in heap, n \notin Listed
    PROVE  value[n] \in Images /\ ~Promise!Holds(value[n])
<1>1. value[n] \in Images
  BY DEF IndInv, OneNodePerImage, TypeOK
<1>2. \A k \in 1 .. Len(s) : s[k] \in heap /\ s[k] # n
  BY OrderIsListed, ListedInMemory DEF IndInv
<1>3. \A k \in 1 .. Len(s) : value[s[k]] # value[n]
  BY <1>2 DEF IndInv, OneNodePerImage
<1>4. ListedInOrder = [k \in 1 .. Len(s) |-> value[s[k]]]
  BY OrderOfImages, ListedNowAndThen
<1> QED
  BY <1>1, <1>3, <1>4 DEF Promise!Holds

\* The swap of linkFirst adds the image of the node to an empty list.
LEMMA FirstIsAdded ==
    ASSUME IndInv, NEW s, InOrder(s, head, next), NEW w \in Writers, linkFirst(w)
    PROVE  (\E z : InOrder(z, head', next')) /\ Promise!Next
<1>0. PICK n : n = node[w]
  OBVIOUS
<1>1. /\ pc[w] = "link" /\ tail = NULL /\ head' = CompareAndSwap(NULL, head, n)
      /\ next' = next /\ value' = value
  BY <1>0 DEF linkFirst
<1>2. head = NULL /\ head' = n
  BY <1>1 DEF IndInv, EndsAtTail, CompareAndSwap
<1>3. n \in heap /\ n \in Nodes /\ n \notin Listed /\ next[n] = NULL
  BY <1>0, <1>1, <1>2, InHandIsApart DEF IndInv, NodeInHand
<1>4. InOrder(<<n>>, head', next')
  BY <1>1, <1>2, <1>3 DEF InOrder
<1>5. s = <<>>
  BY <1>2, NullIsNoNode DEF InOrder
<1>6. ListedInOrder = <<>> /\ ListedInOrder' = <<value[n]>>
  <2>1. ListedInOrder = [k \in 1 .. Len(s) |-> value[s[k]]]
    BY OrderOfImages, ListedNowAndThen
  <2>2. ListedInOrder' = [k \in 1 .. Len(<<n>>) |-> value'[<<n>>[k]]]
    <3>1. OnWalk(head', next', value') = [k \in 1 .. Len(<<n>>) |-> value'[<<n>>[k]]]
      BY <1>4, OrderOfImages
    <3> QED
      BY <3>1, ListedNowAndThen
  <2> QED
    BY <1>1, <1>5, <2>1, <2>2
<1>7. value[n] \in Images /\ ~Promise!Holds(value[n])
  BY <1>3, NotHeld
<1>8. Promise!AddLast(value[n])
  BY <1>6, <1>7 DEF Promise!AddLast
<1> QED
  BY <1>4, <1>7, <1>8 DEF Promise!Next

\* The swap of linkLast adds the image of the node to the end.
LEMMA LastIsAdded ==
    ASSUME IndInv, NEW s, InOrder(s, head, next), NEW w \in Writers, linkLast(w)
    PROVE  (\E z : InOrder(z, head', next')) /\ Promise!Next
<1>0. PICK n, t : n = node[w] /\ t = tail
  OBVIOUS
<1>1. /\ pc[w] = "link" /\ t # NULL /\ op[w] = "append" /\ head' = head /\ value' = value
      /\ next' = [next EXCEPT ![t] = CompareAndSwap(NULL, next[t], n)]
  BY <1>0 DEF linkLast
<1>2. /\ n \in heap /\ n \in Nodes /\ n \notin Listed /\ next[n] = NULL
      /\ t \in Listed /\ next[t] = NULL /\ next \in Nexts /\ Listed \subseteq Nodes
  BY <1>0, <1>1, InHandIsApart, LinkTypes DEF IndInv, NodeInHand, EndsAtTail
<1>3. \A x \in Nodes : next'[x] = IF x = t THEN n ELSE next[x]
  BY <1>1, <1>2 DEF CompareAndSwap, Nexts
<1>s. s \in Seq(Nodes) /\ Len(s) \in Nat /\ NULL \notin Nodes
  BY NullIsNoNode DEF InOrder
<1>4. Len(s) # 0 /\ s[Len(s)] = t
  <2>1. PICK k \in 1 .. Len(s) : t = s[k]
    BY <1>2, OrderIsListed
  <2>2. ~ (k < Len(s))
    BY <1>2, <1>s, <2>1 DEF InOrder
  <2> QED
    BY <1>s, <2>1, <2>2
<1>5. \A k \in 1 .. Len(s) : s[k] \in Nodes /\ s[k] # n /\ (k < Len(s) => s[k] # t)
  BY <1>2, <1>s, <1>4, OrderIsListed DEF InOrder
<1> DEFINE z == Append(s, n)
<1>6. /\ z \in Seq(Nodes) /\ Len(z) = Len(s) + 1
      /\ \A k \in 1 .. Len(s) + 1 : z[k] = IF k = Len(s) + 1 THEN n ELSE s[k]
  BY <1>2, <1>s
<1> HIDE DEF z
<1>7. InOrder(z, head', next')
  <2>1. \A j, k \in 1 .. Len(z) : z[j] = z[k] => j = k
    BY <1>s, <1>5, <1>6 DEF InOrder
  <2>2. head' = IF Len(z) = 0 THEN NULL ELSE z[1]
    BY <1>1, <1>s, <1>4, <1>6 DEF InOrder
  <2>3. ASSUME NEW k \in 1 .. Len(z)
        PROVE  next'[z[k]] = IF k < Len(z) THEN z[k + 1] ELSE NULL
    <3>1. CASE k = Len(s) + 1
      BY <1>2, <1>3, <1>6, <3>1
    <3>2. CASE k = Len(s)
      BY <1>2, <1>3, <1>s, <1>4, <1>6, <3>2
    <3>3. CASE k < Len(s)
      BY <1>3, <1>s, <1>5, <1>6, <3>3 DEF InOrder
    <3> QED
      BY <1>s, <1>6, <3>1, <3>2, <3>3
  <2> QED
    BY <1>6, <2>1, <2>2, <2>3 DEF InOrder
<1>8. ListedInOrder = [k \in 1 .. Len(s) |-> value[s[k]]]
  BY OrderOfImages, ListedNowAndThen
<1>9. ListedInOrder' = [k \in 1 .. Len(z) |-> value'[z[k]]]
  <2>1. OnWalk(head', next', value') = [k \in 1 .. Len(z) |-> value'[z[k]]]
    BY <1>7, OrderOfImages
  <2> QED
    BY <2>1, ListedNowAndThen
<1>10. ListedInOrder' = Append(ListedInOrder, value[n])
  <2>1. \A k \in 1 .. Len(s) : value[s[k]] \in Images
    BY OrderIsListed, ListedInMemory DEF IndInv, OneNodePerImage, TypeOK
  <2>2. ListedInOrder \in Seq(Images) /\ Len(ListedInOrder) = Len(s)
    BY <1>s, <1>8, <2>1
  <2>3. Append(ListedInOrder, value[n]) =
           [k \in 1 .. Len(s) + 1 |-> IF k = Len(s) + 1 THEN value[n] ELSE value[s[k]]]
    BY <1>8, <2>2
  <2> QED
    BY <1>1, <1>s, <1>6, <1>9, <2>3
<1>11. value[n] \in Images /\ ~Promise!Holds(value[n])
  BY <1>2, NotHeld
<1> QED
  BY <1>7, <1>10, <1>11 DEF Promise!Next, Promise!AddLast

\* The swap of linkHead adds the image of the node to the front.
LEMMA HeadIsAdded ==
    ASSUME IndInv, NEW s, InOrder(s, head, next), NEW w \in Writers, linkHead(w)
    PROVE  (\E z : InOrder(z, head', next')) /\ Promise!Next
<1>0. PICK n : n = node[w]
  OBVIOUS
<1>1. /\ pc[w] = "link" /\ op[w] = "prepend" /\ head' = CompareAndSwap(next[n], head, n)
      /\ next' = next /\ value' = value
  BY <1>0 DEF linkHead
<1>2. /\ n \in heap /\ n \in Nodes /\ n \notin Listed /\ next[n] = head /\ head' = n
  BY <1>0, <1>1, InHandIsApart DEF IndInv, NodeInHand, CompareAndSwap
<1>s. s \in Seq(Nodes) /\ Len(s) \in Nat /\ NULL \notin Nodes
  BY NullIsNoNode DEF InOrder
<1>5. \A k \in 1 .. Len(s) : s[k] \in Nodes /\ s[k] # n
  BY <1>2, <1>s, OrderIsListed DEF InOrder
<1> DEFINE z == <<n>> \o s
<1>6. /\ z \in Seq(Nodes) /\ Len(z) = Len(s) + 1
      /\ \A k \in 1 .. Len(s) + 1 : z[k] = IF k = 1 THEN n ELSE s[k - 1]
  BY <1>2, <1>s
<1> HIDE DEF z
<1>7. InOrder(z, head', next')
  <2>1. \A j, k \in 1 .. Len(z) : z[j] = z[k] => j = k
    BY <1>s, <1>5, <1>6 DEF InOrder
  <2>2. head' = IF Len(z) = 0 THEN NULL ELSE z[1]
    BY <1>2, <1>s, <1>6
  <2>3. ASSUME NEW k \in 1 .. Len(z)
        PROVE  next'[z[k]] = IF k < Len(z) THEN z[k + 1] ELSE NULL
    <3>1. CASE k = 1
      BY <1>1, <1>2, <1>s, <1>6, <3>1 DEF InOrder
    <3>2. CASE k # 1
      <4>1. k - 1 \in 1 .. Len(s) /\ z[k] = s[k - 1]
        BY <1>s, <1>6, <3>2
      <4>2. next[s[k - 1]] = IF k - 1 < Len(s) THEN s[k] ELSE NULL
        BY <4>1 DEF InOrder
      <4>3. k < Len(z) => z[k + 1] = s[k]
        BY <1>s, <1>6, <4>1
      <4> QED
        BY <1>1, <1>s, <1>6, <4>1, <4>2, <4>3
    <3> QED
      BY <3>1, <3>2
  <2> QED
    BY <1>6, <2>1, <2>2, <2>3 DEF InOrder
<1>8. ListedInOrder = [k \in 1 .. Len(s) |-> value[s[k]]]
  BY OrderOfImages, ListedNowAndThen
<1>9. ListedInOrder' = [k \in 1 .. Len(z) |-> value'[z[k]]]
  <2>1. OnWalk(head', next', value') = [k \in 1 .. Len(z) |-> value'[z[k]]]
    BY <1>7, OrderOfImages
  <2> QED
    BY <2>1, ListedNowAndThen
<1>10. ListedInOrder' = <<value[n]>> \o ListedInOrder
  <2>1. \A k \in 1 .. Len(s) : value[s[k]] \in Images
    BY OrderIsListed, ListedInMemory DEF IndInv, OneNodePerImage, TypeOK
  <2>2. ListedInOrder \in Seq(Images) /\ Len(ListedInOrder) = Len(s)
    BY <1>s, <1>8, <2>1
  <2>3. <<value[n]>> \o ListedInOrder =
           [k \in 1 .. Len(s) + 1 |-> IF k = 1 THEN value[n] ELSE value[s[k - 1]]]
    <3>1. value[n] \in Images
      BY <1>2 DEF IndInv, OneNodePerImage, TypeOK
    <3>2. <<value[n]>> \in Seq(Images) /\ Len(<<value[n]>>) = 1 /\ <<value[n]>>[1] = value[n]
      BY <3>1
    <3> QED
      BY <1>8, <2>2, <3>2
  <2> QED
    BY <1>1, <1>s, <1>6, <1>9, <2>3
<1>11. value[n] \in Images /\ ~Promise!Holds(value[n])
  BY <1>2, NotHeld
<1> QED
  BY <1>7, <1>10, <1>11 DEF Promise!Next, Promise!AddFirst

\* What is left of a sequence without one of its elements.
Without(s, k) == SubSeq(s, 1, k - 1) \o SubSeq(s, k + 1, Len(s))

\* It is the others, in their order.
LEMMA WithoutOne ==
    ASSUME NEW S, NEW s \in Seq(S), NEW k \in 1 .. Len(s)
    PROVE  /\ Without(s, k) \in Seq(S) /\ Len(Without(s, k)) = Len(s) - 1
           /\ Len(s) - 1 \in Nat
           /\ \A j \in 1 .. Len(s) - 1 : Without(s, k)[j] = IF j < k THEN s[j] ELSE s[j + 1]
<1> DEFINE a == SubSeq(s, 1, k - 1)
           b == SubSeq(s, k + 1, Len(s))
<1>0. Len(s) \in Nat /\ k \in Nat /\ 1 <= k /\ k <= Len(s) /\ DOMAIN s = 1 .. Len(s)
      /\ \A j \in 1 .. Len(s) : s[j] \in S
  OBVIOUS
<1>1. a \in Seq(S) /\ Len(a) = k - 1 /\ \A j \in 1 .. k - 1 : a[j] = s[j]
  <2>1. 1 \in Int /\ k - 1 \in Int /\ \A j \in 1 .. k - 1 : s[j] \in S
    BY <1>0
  <2>2. /\ a \in Seq(S) /\ Len(a) = IF 1 <= k - 1 THEN k - 1 - 1 + 1 ELSE 0
        /\ \A j \in 1 .. k - 1 - 1 + 1 : a[j] = s[1 + j - 1]
    BY <2>1, SubSeqProperties
  <2> HIDE DEF a
  <2>3. Len(a) = k - 1
    BY <1>0, <2>2
  <2>4. ASSUME NEW j \in 1 .. k - 1 PROVE a[j] = s[j]
    <3>1. j \in 1 .. k - 1 - 1 + 1 /\ 1 + j - 1 = j
      BY <1>0
    <3> QED
      BY <2>2, <3>1
  <2> QED
    BY <2>2, <2>3, <2>4
<1>2. b \in Seq(S) /\ Len(b) = Len(s) - k /\ \A j \in 1 .. Len(s) - k : b[j] = s[k + j]
  <2>1. k + 1 \in Int /\ Len(s) \in Int /\ \A j \in k + 1 .. Len(s) : s[j] \in S
    BY <1>0
  <2>2. /\ b \in Seq(S) /\ Len(b) = IF k + 1 <= Len(s) THEN Len(s) - (k + 1) + 1 ELSE 0
        /\ \A j \in 1 .. Len(s) - (k + 1) + 1 : b[j] = s[k + 1 + j - 1]
    BY <2>1, SubSeqProperties
  <2> HIDE DEF b
  <2>3. Len(b) = Len(s) - k
    <3>1. Len(b) = IF k + 1 <= Len(s) THEN Len(s) - (k + 1) + 1 ELSE 0
      BY <2>2
    <3>2. Len(s) \in Nat /\ k \in Nat /\ k <= Len(s)
      BY <1>0
    <3> QED
      BY <3>1, <3>2
  <2>4. ASSUME NEW j \in 1 .. Len(s) - k PROVE b[j] = s[k + j]
    <3>1. j \in 1 .. Len(s) - (k + 1) + 1 /\ k + 1 + j - 1 = k + j
      BY <1>0
    <3> QED
      BY <2>2, <3>1
  <2> QED
    BY <2>2, <2>3, <2>4
<1> HIDE DEF a, b
<1>3. /\ a \o b \in Seq(S) /\ Len(a \o b) = Len(s) - 1
      /\ \A j \in 1 .. Len(s) - 1 : (a \o b)[j] = IF j <= k - 1 THEN a[j] ELSE b[j - (k - 1)]
  <2>1. /\ a \o b \in Seq(S) /\ Len(a \o b) = Len(a) + Len(b)
        /\ \A j \in 1 .. Len(a) + Len(b) :
              (a \o b)[j] = IF j <= Len(a) THEN a[j] ELSE b[j - Len(a)]
    BY <1>1, <1>2, ConcatProperties
  <2>2. Len(a) = k - 1 /\ Len(a) + Len(b) = Len(s) - 1
    BY <1>0, <1>1, <1>2
  <2> QED
    BY <2>1, <2>2
<1>4. \A j \in 1 .. Len(s) - 1 : (a \o b)[j] = IF j < k THEN s[j] ELSE s[j + 1]
  <2>1. TAKE j \in 1 .. Len(s) - 1
  <2>2. CASE j < k
    <3>1. j <= k - 1 /\ j \in 1 .. k - 1
      BY <1>0, <2>2
    <3> QED
      BY <1>1, <1>3, <2>2, <3>1
  <2>3. CASE ~ (j < k)
    <3>1. ~ (j <= k - 1) /\ j - (k - 1) \in 1 .. Len(s) - k /\ k + (j - (k - 1)) = j + 1
      BY <1>0, <2>3
    <3> QED
      BY <1>2, <1>3, <2>3, <3>1
  <2> QED
    BY <2>2, <2>3
<1>5. Without(s, k) = a \o b
  BY DEF a, b, Without
<1>6. Len(s) - 1 \in Nat
  BY <1>0
<1> QED
  BY <1>3, <1>4, <1>5, <1>6

\* The swap of unlink takes the image of the node out.
LEMMA UnlinkTakes ==
    ASSUME IndInv, NEW s, InOrder(s, head, next), NEW w \in Writers, unlink(w)
    PROVE  (\E z : InOrder(z, head', next')) /\ Promise!Next
<1>0. PICK n, p : n = node[w] /\ p = prev[n]
  OBVIOUS
<1>1. /\ n \in Listed /\ \A m \in Nodes : next[m] = n => m = p
      /\ \/ n = head /\ p = NULL /\ head' = next[n] /\ next' = next
         \/ /\ n # head /\ p \in Listed /\ p # n /\ next[p] = n
            /\ head' = head /\ next' = [next EXCEPT ![p] = next[n]]
  BY <1>0, UnlinkEffect
<1>2. value' = value /\ next \in Nexts /\ Listed \subseteq Nodes
  BY LinkTypes DEF unlink
<1>s. s \in Seq(Nodes) /\ Len(s) \in Nat /\ NULL \notin Nodes
  BY NullIsNoNode DEF InOrder
<1>3. PICK k \in 1 .. Len(s) : n = s[k]
  BY <1>1, OrderIsListed
<1>4. \A j \in 1 .. Len(s) : s[j] \in Nodes
  BY <1>s
<1>5. /\ k = 1 => head' = next[n] /\ next' = next
      /\ k # 1 => p = s[k - 1] /\ head' = head /\ next' = [next EXCEPT ![p] = next[n]]
  <2>1. CASE k = 1
    <3>1. n = head
      BY <1>s, <1>3, <2>1 DEF InOrder
    <3> QED
      BY <1>1, <2>1, <3>1
  <2>2. CASE k # 1
    <3>1. k - 1 \in 1 .. Len(s)
      BY <1>s, <2>2
    <3>2. next[s[k - 1]] = n
      BY <1>s, <1>3, <3>1 DEF InOrder
    <3>3. p = s[k - 1] /\ p # NULL
      BY <1>1, <1>s, <1>4, <3>1, <3>2
    <3> QED
      BY <1>1, <2>2, <3>3
  <2> QED
    BY <2>1, <2>2
<1>6. next[n] = IF k < Len(s) THEN s[k + 1] ELSE NULL
  BY <1>3 DEF InOrder
<1> DEFINE z == Without(s, k)
<1>7. /\ z \in Seq(Nodes) /\ Len(z) = Len(s) - 1 /\ Len(s) - 1 \in Nat
      /\ \A j \in 1 .. Len(s) - 1 : z[j] = IF j < k THEN s[j] ELSE s[j + 1]
  BY <1>s, WithoutOne
<1> HIDE DEF z
<1>8. InOrder(z, head', next')
  <2>1. \A i, j \in 1 .. Len(z) : z[i] = z[j] => i = j
    <3>1. \A i, j \in 1 .. Len(s) : s[i] = s[j] => i = j
      BY DEF InOrder
    <3> QED
      BY <1>s, <1>7, <3>1
  <2>2. head' = IF Len(z) = 0 THEN NULL ELSE z[1]
    <3>1. CASE k = 1
      BY <1>s, <1>3, <1>5, <1>6, <1>7, <3>1
    <3>2. CASE k # 1
      <4>1. head' = s[1] /\ Len(z) # 0 /\ 1 < k /\ 1 \in 1 .. Len(s) - 1
        BY <1>s, <1>5, <1>7, <3>2 DEF InOrder
      <4> QED
        BY <1>7, <4>1
    <3> QED
      BY <3>1, <3>2
  <2>3. ASSUME NEW j \in 1 .. Len(z)
        PROVE  next'[z[j]] = IF j < Len(z) THEN z[j + 1] ELSE NULL
    <3>0. j \in 1 .. Len(s) /\ j + 1 \in 1 .. Len(s) /\ j \in Nat
      BY <1>s, <1>7
    <3>1. CASE j < k - 1
      <4>1. z[j] = s[j] /\ j < Len(z) /\ z[j + 1] = s[j + 1] /\ j < Len(s)
        BY <1>s, <1>7, <3>0, <3>1
      <4>2. s[j] # s[k - 1] /\ k # 1
        BY <1>s, <3>0, <3>1 DEF InOrder
      <4>3. next'[s[j]] = next[s[j]]
        BY <1>2, <1>4, <1>5, <3>0, <4>2 DEF Nexts
      <4> QED
        BY <3>0, <4>1, <4>3 DEF InOrder
    <3>2. CASE j = k - 1
      <4>1. z[j] = s[k - 1] /\ k # 1 /\ k - 1 \in 1 .. Len(s)
        BY <1>s, <1>7, <3>0, <3>2
      <4>2. next'[s[k - 1]] = next[n]
        BY <1>2, <1>4, <1>5, <4>1 DEF Nexts
      <4>3. j < Len(z) <=> k < Len(s)
        BY <1>s, <1>7, <3>2
      <4>4. k < Len(s) => z[j + 1] = s[k + 1]
        BY <1>s, <1>7, <3>0, <3>2
      <4> QED
        BY <1>6, <4>1, <4>2, <4>3, <4>4
    <3>3. CASE ~ (j < k)
      <4>1. z[j] = s[j + 1] /\ (j < Len(z) => z[j + 1] = s[j + 2]) /\ (j < Len(z) <=> j + 1 < Len(s))
        BY <1>s, <1>7, <3>0, <3>3
      <4>2. k # 1 => s[j + 1] # s[k - 1]
        BY <1>s, <3>0, <3>3 DEF InOrder
      <4>3. next'[s[j + 1]] = next[s[j + 1]]
        BY <1>2, <1>4, <1>5, <3>0, <4>2 DEF Nexts
      <4>4. next[s[j + 1]] = IF j + 1 < Len(s) THEN s[j + 1 + 1] ELSE NULL
        BY <3>0 DEF InOrder
      <4>5. j + 1 + 1 = j + 2
        BY <3>0
      <4> QED
        BY <4>1, <4>3, <4>4, <4>5
    <3> QED
      BY <1>s, <3>0, <3>1, <3>2, <3>3
  <2> QED
    BY <1>7, <2>1, <2>2, <2>3 DEF InOrder
<1>9. ListedInOrder = [j \in 1 .. Len(s) |-> value[s[j]]]
  BY OrderOfImages, ListedNowAndThen
<1>10. ListedInOrder' = [j \in 1 .. Len(z) |-> value'[z[j]]]
  <2>1. OnWalk(head', next', value') = [j \in 1 .. Len(z) |-> value'[z[j]]]
    BY <1>8, OrderOfImages
  <2> QED
    BY <2>1, ListedNowAndThen
<1>11. Promise!Take(k) /\ k \in DOMAIN ListedInOrder
  <2> DEFINE images == ListedInOrder
             y == Without(images, k)
  <2>1. \A j \in 1 .. Len(s) : value[s[j]] \in Images
    BY OrderIsListed, ListedInMemory DEF IndInv, OneNodePerImage, TypeOK
  <2>2. images \in Seq(Images) /\ Len(images) = Len(s) /\ k \in 1 .. Len(images)
    BY <1>s, <1>9, <2>1
  <2> HIDE DEF images
  <2>3. /\ y \in Seq(Images) /\ Len(y) = Len(s) - 1
        /\ \A j \in 1 .. Len(s) - 1 : y[j] = IF j < k THEN images[j] ELSE images[j + 1]
    BY <2>2, WithoutOne
  <2> HIDE DEF y
  <2>4. y = [j \in 1 .. Len(s) - 1 |-> value[z[j]]]
    <3>1. \A j \in 1 .. Len(s) : images[j] = value[s[j]]
      BY <1>9 DEF images
    <3>2. ASSUME NEW j \in 1 .. Len(s) - 1 PROVE y[j] = value[z[j]]
      <4>0. j \in 1 .. Len(s) /\ j + 1 \in 1 .. Len(s)
        BY <1>s
      <4>1. z[j] = (IF j < k THEN s[j] ELSE s[j + 1])
        BY <1>7
      <4>2. y[j] = (IF j < k THEN images[j] ELSE images[j + 1])
        BY <2>3
      <4>3. images[j] = value[s[j]] /\ images[j + 1] = value[s[j + 1]]
        BY <3>1, <4>0
      <4> QED
        BY <4>1, <4>2, <4>3
    <3>3. y = [j \in 1 .. Len(s) - 1 |-> y[j]]
      BY <1>7, <2>3
    <3> QED
      BY <3>2, <3>3
  <2>5. ListedInOrder' = y
    BY <1>2, <1>7, <1>10, <2>4
  <2>6. Promise!Take(k)
    BY <2>5 DEF Promise!Take, Without, images, y
  <2> QED
    BY <2>2, <2>6 DEF images
<1> QED
  BY <1>8, <1>11 DEF Promise!Next

\* Every step is one of the promise, or none.
LEMMA OrderStep ==
    ASSUME IndInv, NEW s, InOrder(s, head, next), [Next]_vars
    PROVE  (\E z : InOrder(z, head', next')) /\ [Promise!Next]_ListedInOrder
<1>1. ASSUME head' = head, \A x \in Listed : next'[x] = next[x] /\ value'[x] = value[x]
      PROVE  (\E z : InOrder(z, head', next')) /\ ListedInOrder' = ListedInOrder
  BY <1>1, OrderKept
<1>2. ASSUME NEW w \in Writers, Call(w) \/ WriterStep(w)
      PROVE  (\E z : InOrder(z, head', next')) /\ [Promise!Next]_ListedInOrder
  <2>1. CASE linkFirst(w) \/ linkLast(w) \/ linkHead(w) \/ unlink(w)
    BY <2>1, FirstIsAdded, LastIsAdded, HeadIsAdded, UnlinkTakes
  <2>2. CASE ~ (linkFirst(w) \/ linkLast(w) \/ linkHead(w) \/ unlink(w))
    <3>1. head' = head /\ \A x \in Listed : next'[x] = next[x] /\ value'[x] = value[x]
      BY <1>2, <2>2, OtherStepsKeepListed DEF WriterStep
    <3> QED
      BY <1>1, <3>1
  <2> QED
    BY <2>1, <2>2
<1>3. ASSUME \/ \E r \in Readers : startReading(r) \/ ReaderStep(r)
             \/ UNCHANGED vars
      PROVE  (\E z : InOrder(z, head', next')) /\ [Promise!Next]_ListedInOrder
  <2>1. UNCHANGED <<head, next, value>>
    BY <1>3 DEF startReading, ReaderStep, fetchNode, noteNode, returnImage, endReading, vars, links
  <2> QED
    BY <1>1, <2>1
<1> QED
  BY <1>2, <1>3 DEF Next

\* The list has its nodes in order.
HasOrder == \E s : InOrder(s, head, next)

\* At first there is none, as promised.
LEMMA OrderInit == Init => HasOrder /\ Promise!Init
<1> SUFFICES ASSUME Init PROVE HasOrder /\ Promise!Init
  OBVIOUS
<1>1. InOrder(<<>>, head, next)
  BY DEF Init, InOrder
<1>2. OnWalk(head, next, value) = [k \in 1 .. Len(<<>>) |-> value[<<>>[k]]]
  BY <1>1, OrderOfImages
<1>3. ListedInOrder = <<>>
  BY <1>2, ListedNowAndThen
<1> QED
  BY <1>1, <1>3 DEF HasOrder, Promise!Init

\* The list implements the sequence its users are promised: whatever the interleaving,
\* each call of append, prepend and remove takes effect at once, at its one swap.
THEOREM CallsTakeEffectAtOnce == Spec => ListKeepsItsPromise
<1>1. Init => HasOrder /\ Promise!Init
  BY OrderInit
<1>2. IndInv /\ HasOrder /\ [Next]_vars => HasOrder' /\ [Promise!Next]_ListedInOrder
  <2> SUFFICES ASSUME IndInv, HasOrder, [Next]_vars
               PROVE  HasOrder' /\ [Promise!Next]_ListedInOrder
    OBVIOUS
  <2>1. PICK s : InOrder(s, head, next)
    BY DEF HasOrder
  <2>2. (\E z : InOrder(z, head', next')) /\ [Promise!Next]_ListedInOrder
    BY <2>1, OrderStep
  <2>3. HasOrder' <=> \E z : InOrder(z, head', next')
    BY DEF HasOrder, InOrder
  <2> QED
    BY <2>2, <2>3
<1> QED
  BY <1>1, <1>2, InvariantHolds, PTL DEF Spec, ListKeepsItsPromise, Promise!Spec
=============================================================================
