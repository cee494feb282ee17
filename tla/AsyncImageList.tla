--------------------------- MODULE AsyncImageList ---------------------------
(***************************************************************************)
(* The crash reporter's list of binary images: async_list, a doubly linked *)
(* list whose writers hold a spin lock and whose readers hold nothing, and *)
(* plcrash_async_image_list, which keeps one image per node.               *)
(*                                                                         *)
(* dyld adds and removes images on the writers' threads while the writer   *)
(* of a report iterates on a reader's.  A step is one read or write that   *)
(* another thread can see; what only a holder of the lock looks at (tail,  *)
(* prev, the free list) changes with the visible write next to it.         *)
(***************************************************************************)
EXTENDS Integers, FiniteSets, Sequences

CONSTANTS
    Writers,      \* threads on which dyld calls back
    Readers,      \* threads that write a report
    Nodes,        \* addresses malloc has for nodes
    Images,       \* image structures, each allocated for one append
    Headers,      \* Mach-O header addresses
    HeaderOf,     \* header_addr of each image
    NULL

ASSUME ListAssumption ==
    /\ Writers \cap Readers = {}
    /\ NULL \notin Nodes \cup Images \cup Headers \cup Writers
    /\ HeaderOf \in [Images -> Headers]
    /\ IsFiniteSet(Writers) /\ IsFiniteSet(Readers) /\ IsFiniteSet(Nodes)

Threads == Writers \cup Readers

VARIABLES
    head, tail, free, refcount, write_lock,
    heap,           \* the nodes that are allocated
    value, prev, next,
    imageNode,      \* _node of each image, set when it is first read
    pc,
    op,             \* what each writer was called for
    image,          \* the image it appends, the one a reader was given last
    header,         \* the header it is to remove
    node,           \* the local node of each thread
    loaded,         \* external: the headers of the images dyld has mapped
    used,           \* and the structures made for images so far
    must,           \* history: images in the list all through a reading,
    seen,           \* the images it has returned,
    strayed         \* and whether its node was taken out of the list

links == <<head, tail, free, next, prev>>
locals == <<op, image, header, node>>
dyld == <<loaded, used>>
history == <<must, seen, strayed>>
vars == <<links, refcount, write_lock, heap, value, imageNode, pc, locals,
          dyld, history>>

InsertSteps == {"lock", "take", "reset", "point", "link", "unlock"}
RemoveSteps == {"seek", "release", "lockRemove", "find", "count", "recycle",
                "delete", "unlockRemove", "endRemove"}
ReadSteps == {"fetch", "value", "return", "endRead"}
LockedSteps == {"take", "reset", "point", "link", "unlock", "find", "count", "recycle",
                "delete", "unlockRemove"}

\* The threads between set_reading(true) and set_reading(false).
Reading == {t \in Threads :
              \/ pc[t] \in ReadSteps \cup {"seek", "release"}
              \/ op[t] = "remove" /\ pc[t] \in RemoveSteps}

TypeOK ==
    /\ head \in Nodes \cup {NULL}
    /\ tail \in Nodes \cup {NULL}
    /\ free \in Nodes \cup {NULL}
    /\ refcount \in Nat
    /\ write_lock \in Writers \cup {NULL}
    /\ heap \subseteq Nodes
    /\ value \in [Nodes -> Images \cup {NULL}]
    /\ prev \in [Nodes -> Nodes \cup {NULL}]
    /\ next \in [Nodes -> Nodes \cup {NULL}]
    /\ imageNode \in [Images -> Nodes \cup {NULL}]
    /\ pc \in [Threads -> {"idle"} \cup InsertSteps \cup RemoveSteps \cup ReadSteps]
    /\ op \in [Threads -> {"none", "append", "prepend", "remove", "removeNode"}]
    /\ image \in [Threads -> Images \cup {NULL}]
    /\ header \in [Threads -> Headers \cup {NULL}]
    /\ node \in [Threads -> Nodes \cup {NULL}]
    /\ loaded \subseteq Headers
    /\ used \subseteq Images
    /\ must \in [Readers -> SUBSET Images]
    /\ seen \in [Readers -> Seq(Images)]
    /\ strayed \in [Readers -> BOOLEAN]

Init ==
    /\ head = NULL /\ tail = NULL /\ free = NULL
    /\ refcount = 0
    /\ write_lock = NULL
    /\ heap = {}
    /\ value = [n \in Nodes |-> NULL]
    /\ prev = [n \in Nodes |-> NULL]
    /\ next = [n \in Nodes |-> NULL]
    /\ imageNode = [i \in Images |-> NULL]
    /\ pc = [t \in Threads |-> "idle"]
    /\ op = [t \in Threads |-> "none"]
    /\ image = [t \in Threads |-> NULL]
    /\ header = [t \in Threads |-> NULL]
    /\ node = [t \in Threads |-> NULL]
    /\ loaded = {}
    /\ used = {}
    /\ must = [r \in Readers |-> {}]
    /\ seen = [r \in Readers |-> <<>>]
    /\ strayed = [r \in Readers |-> FALSE]

----------------------------------------------------------------------------
(* What the list holds.                                                    *)

\* The nodes a walk from h along nx passes: those in every set that holds h and is
\* closed under nx.
Walk(h, nx) == {n \in Nodes :
                  \A S \in SUBSET Nodes :
                      (/\ h \in S \cup {NULL}
                       /\ \A m \in S : nx[m] \in S \cup {NULL}) => n \in S}

Listed == Walk(head, next)

ListedImages == {value[n] : n \in Listed}

\* The images in the order of a walk from head.
ListedInOrder ==
    LET at[k \in 0 .. Cardinality(Nodes)] ==
            IF k = 0 THEN head ELSE IF at[k - 1] = NULL THEN NULL ELSE next[at[k - 1]]
        length == Cardinality({k \in DOMAIN at : at[k] # NULL})
    IN [k \in 1 .. length |-> value[at[k - 1]]]

\* The headers some writer is busy with: dyld calls for an image only after the
\* call for the same address has returned.
Busy == {header[w] : w \in Writers} \cup
        {HeaderOf[image[w]] : w \in {v \in Writers : image[v] # NULL}}

Goto(t, l) == pc' = [pc EXCEPT ![t] = l]

----------------------------------------------------------------------------
(* Appending and prepending.                                               *)

\* dyld has loaded an image: image_list_append makes the structure for it, and
\* the list is called with it.
insert(w, o, i) ==
    /\ pc[w] = "idle"
    /\ i \notin used /\ HeaderOf[i] \notin Busy
    /\ HeaderOf[i] \notin loaded
    /\ loaded' = loaded \cup {HeaderOf[i]}
    /\ used' = used \cup {i}
    /\ op' = [op EXCEPT ![w] = o]
    /\ image' = [image EXCEPT ![w] = i]
    /\ Goto(w, "lock")
    /\ UNCHANGED <<links, refcount, write_lock, heap, value, imageNode,
                   header, node, history>>

\* OSSpinLockLock.
lock(w) ==
    /\ pc[w] \in {"lock", "lockRemove"}
    /\ write_lock = NULL
    /\ write_lock' = w
    /\ Goto(w, IF pc[w] = "lock" THEN "take" ELSE "find")
    /\ UNCHANGED <<links, refcount, heap, value, imageNode, locals, dyld,
                   history>>

\* The first node of the free list is given the new value first ...
recycleNode(w) ==
    /\ pc[w] = "take" /\ free # NULL
    /\ node' = [node EXCEPT ![w] = free]
    /\ value' = [value EXCEPT ![free] = image[w]]
    /\ Goto(w, "reset")
    /\ UNCHANGED <<links, refcount, write_lock, heap, imageNode, op, image,
                   header, dyld, history>>

\* ... and its links are cleared: free = free->next then reads a cleared one.
resetNode(w) ==
    LET n == node[w] IN
    /\ pc[w] = "reset"
    /\ prev' = [prev EXCEPT ![n] = NULL]
    /\ next' = [next EXCEPT ![n] = NULL]
    /\ free' = next'[free]
    /\ Goto(w, IF op[w] = "prepend" /\ tail # NULL THEN "point" ELSE "link")
    /\ UNCHANGED <<head, tail, refcount, write_lock, heap, value, imageNode,
                   locals, dyld, history>>

newNode(w) ==
    /\ pc[w] = "take" /\ free = NULL
    /\ \E n \in Nodes \ heap :
          /\ heap' = heap \cup {n}
          /\ node' = [node EXCEPT ![w] = n]
          /\ value' = [value EXCEPT ![n] = image[w]]
          /\ prev' = [prev EXCEPT ![n] = NULL]
          /\ next' = [next EXCEPT ![n] = NULL]
    /\ Goto(w, IF op[w] = "prepend" /\ tail # NULL THEN "point" ELSE "link")
    /\ UNCHANGED <<head, tail, free, refcount, write_lock, imageNode, op,
                   image, header, dyld, history>>

\* Fault: the head is swapped before the new node points at the old one.
FaultyPoint(w) ==
    LET n == node[w] IN
    /\ pc[w] = "point"
    /\ head' = n
    /\ prev' = [prev EXCEPT ![n] = NULL, ![head] = n]
    /\ Goto(w, "link")
    /\ UNCHANGED <<next, tail, free, refcount, write_lock, heap, value,
                   imageNode, locals, dyld, history>>

\* nasync_prepend: the new node points at the head before the head is swapped.
pointAtHead(w) ==
    LET n == node[w] IN
    /\ pc[w] = "point"
    /\ next' = [next EXCEPT ![n] = head]
    /\ prev' = [prev EXCEPT ![n] = NULL, ![head] = n]
    /\ Goto(w, "link")
    /\ UNCHANGED <<head, tail, free, refcount, write_lock, heap, value,
                   imageNode, locals, dyld, history>>

CompareAndSwap(old, current, new) == IF current = old THEN new ELSE current

\* The swap that lets readers reach the new node.
linkFirst(w) ==
    /\ pc[w] = "link" /\ tail = NULL
    /\ tail' = node[w]
    /\ head' = CompareAndSwap(NULL, head, node[w])
    /\ Goto(w, "unlock")
    /\ UNCHANGED <<free, next, prev, refcount, write_lock, heap, value,
                   imageNode, locals, dyld, history>>

linkLast(w) ==
    LET n == node[w] IN
    /\ pc[w] = "link" /\ tail # NULL /\ op[w] = "append"
    /\ next' = [next EXCEPT ![tail] = CompareAndSwap(NULL, @, n)]
    /\ prev' = [prev EXCEPT ![n] = tail]
    /\ tail' = n
    /\ Goto(w, "unlock")
    /\ UNCHANGED <<head, free, refcount, write_lock, heap, value, imageNode,
                   locals, dyld, history>>

linkHead(w) ==
    /\ pc[w] = "link" /\ tail # NULL /\ op[w] = "prepend"
    /\ head' = CompareAndSwap(next[node[w]], head, node[w])
    /\ Goto(w, "unlock")
    /\ UNCHANGED <<tail, free, next, prev, refcount, write_lock, heap,
                   value, imageNode, locals, dyld, history>>

\* OSSpinLockUnlock, and the call returns to dyld.
unlock(w) ==
    /\ pc[w] = "unlock"
    /\ write_lock' = NULL
    /\ image' = [image EXCEPT ![w] = NULL]
    /\ node' = [node EXCEPT ![w] = NULL]
    /\ op' = [op EXCEPT ![w] = "none"]
    /\ Goto(w, "idle")
    /\ UNCHANGED <<links, refcount, heap, value, imageNode, header, dyld,
                   history>>

----------------------------------------------------------------------------
(* Removing.                                                               *)

\* dyld has unloaded an image: image_list_remove reads the list, from the head,
\* for the address.  "remove" keeps reading while it removes, as the image list
\* does; "removeNode" is a call of nasync_remove_node after the reading ended.
remove(w, o, h) ==
    /\ pc[w] = "idle"
    /\ h \in loaded /\ h \notin Busy
    /\ loaded' = loaded \ {h}
    /\ op' = [op EXCEPT ![w] = o]
    /\ header' = [header EXCEPT ![w] = h]
    /\ refcount' = refcount + 1
    /\ Goto(w, "seek")
    /\ UNCHANGED <<links, write_lock, heap, value, imageNode, image, node, used,
                   history>>

\* The node after n, or the first: async_list::next.
After(n) == IF n = NULL THEN head ELSE next[n]

\* One step of the search.
seek(w) ==
    LET n == After(node[w]) IN
    /\ pc[w] = "seek" /\ n # NULL
    /\ node' = [node EXCEPT ![w] = n]
    /\ Goto(w, IF HeaderOf[value[n]] # header[w] THEN "seek"
               ELSE IF op[w] = "remove" THEN "lockRemove" ELSE "release")
    /\ UNCHANGED <<links, refcount, write_lock, heap, value, imageNode, op, image,
                   header, dyld, history>>

\* No image has the address: set_reading(false), and nothing is removed.
notThere(w) ==
    /\ pc[w] = "seek" /\ After(node[w]) = NULL
    /\ refcount' = refcount - 1
    /\ op' = [op EXCEPT ![w] = "none"]
    /\ Goto(w, "endRemove")
    /\ UNCHANGED <<links, write_lock, heap, value, imageNode, image, header, node,
                   dyld, history>>

\* set_reading(false) before the node is removed.
release(w) ==
    /\ pc[w] = "release"
    /\ refcount' = refcount - 1
    /\ Goto(w, "lockRemove")
    /\ UNCHANGED <<links, write_lock, heap, value, imageNode, locals, dyld, history>>

\* Fault: the tail is not updated when the last node is removed.
FaultyUnlink(w) ==
    LET n == node[w]
        p == prev[n]
    IN
    /\ pc[w] = "find" /\ n \in Listed
    /\ IF n = head
       THEN head' = next[n] /\ next' = next
       ELSE /\ head' = head
            /\ next' = [next EXCEPT ![p] = CompareAndSwap(n, @, next[n])]
    /\ prev' = IF next[n] # NULL THEN [prev EXCEPT ![next[n]] = p] ELSE prev
    /\ must' = [r \in Readers |-> must[r] \ {value[n]}]
    /\ strayed' = [r \in Readers |->
                     \/ strayed[r]
                     \/ pc[r] \in {"value", "return"} /\ node[r] = n
                     \/ image[r] # NULL /\ imageNode[image[r]] = n]
    /\ Goto(w, "count")
    /\ UNCHANGED <<tail, free, refcount, write_lock, heap, value, imageNode, locals,
                   dyld, seen>>

\* The swap that takes the node out of the list, then its neighbours' links.  The search
\* for it before that always finds it: dyld makes one call at a time for an address.
unlink(w) ==
    LET n == node[w]
        p == prev[n]
    IN
    /\ pc[w] = "find" /\ n \in Listed
    /\ IF n = head
       THEN head' = next[n] /\ next' = next
       ELSE /\ head' = head
            /\ next' = [next EXCEPT ![p] = CompareAndSwap(n, @, next[n])]
    /\ IF next[n] # NULL
       THEN prev' = [prev EXCEPT ![next[n]] = p] /\ tail' = tail
       ELSE prev' = prev /\ tail' = p
    /\ must' = [r \in Readers |-> must[r] \ {value[n]}]
    /\ strayed' = [r \in Readers |->
                     \/ strayed[r]
                     \/ pc[r] \in {"value", "return"} /\ node[r] = n
                     \/ image[r] # NULL /\ imageNode[image[r]] = n]
    /\ Goto(w, "count")
    /\ UNCHANGED <<free, refcount, write_lock, heap, value, imageNode, locals,
                   dyld, seen>>

\* Fault: a node is deallocated whoever may be reading.
FaultyCount(w) ==
    /\ pc[w] = "count"
    /\ Goto(w, "delete")
    /\ UNCHANGED <<links, refcount, write_lock, heap, value, imageNode, locals,
                   dyld, history>>

\* With a reader about, the node must stay allocated.
testCount(w) ==
    /\ pc[w] = "count"
    /\ Goto(w, IF refcount > 0 THEN "recycle" ELSE "delete")
    /\ UNCHANGED <<links, refcount, write_lock, heap, value, imageNode, locals,
                   dyld, history>>

toFreeList(w) ==
    LET n == node[w] IN
    /\ pc[w] = "recycle"
    /\ next' = [next EXCEPT ![n] = free]
    /\ prev' = [m \in Nodes |-> IF m = n THEN NULL
                                ELSE IF m = free THEN n ELSE prev[m]]
    /\ free' = n
    /\ Goto(w, "unlockRemove")
    /\ UNCHANGED <<head, tail, refcount, write_lock, heap, value, imageNode,
                   locals, dyld, history>>

\* What a deallocated node held is gone.
delete(w) ==
    LET n == node[w] IN
    /\ pc[w] = "delete"
    /\ heap' = heap \ {n}
    /\ value' = [value EXCEPT ![n] = NULL]
    /\ next' = [next EXCEPT ![n] = NULL]
    /\ prev' = [prev EXCEPT ![n] = NULL]
    /\ Goto(w, "unlockRemove")
    /\ UNCHANGED <<head, tail, free, refcount, write_lock, imageNode, locals, dyld,
                   history>>

unlockRemove(w) ==
    /\ pc[w] = "unlockRemove"
    /\ write_lock' = NULL
    /\ Goto(w, "endRemove")
    /\ UNCHANGED <<links, refcount, heap, value, imageNode, locals, dyld, history>>

\* Fault: the list is released once more when it was released before.
FaultyEndRemove(w) ==
    /\ pc[w] = "endRemove"
    /\ refcount' = refcount - 1
    /\ node' = [node EXCEPT ![w] = NULL]
    /\ header' = [header EXCEPT ![w] = NULL]
    /\ op' = [op EXCEPT ![w] = "none"]
    /\ Goto(w, "idle")
    /\ UNCHANGED <<links, write_lock, heap, value, imageNode, image, dyld, history>>

\* The call returns, after set_reading(false) if that was not done before.
endRemove(w) ==
    /\ pc[w] = "endRemove"
    /\ refcount' = IF op[w] = "remove" THEN refcount - 1 ELSE refcount
    /\ node' = [node EXCEPT ![w] = NULL]
    /\ header' = [header EXCEPT ![w] = NULL]
    /\ op' = [op EXCEPT ![w] = "none"]
    /\ Goto(w, "idle")
    /\ UNCHANGED <<links, write_lock, heap, value, imageNode, image, dyld, history>>

----------------------------------------------------------------------------
(* Reading, as the writer of a report does.                                *)

startReading(r) ==
    /\ pc[r] = "idle"
    /\ refcount' = refcount + 1
    /\ must' = [must EXCEPT ![r] = ListedImages]
    /\ Goto(r, "fetch")
    /\ UNCHANGED <<links, write_lock, heap, value, imageNode, locals, dyld, seen,
                   strayed>>

\* image_list_next: the node after that of the image returned last.
fetchNode(r) ==
    LET i == image[r]
        n == After(IF i = NULL THEN NULL ELSE imageNode[i])
    IN
    /\ pc[r] = "fetch"
    /\ node' = [node EXCEPT ![r] = n]
    /\ Goto(r, IF n = NULL THEN "endRead" ELSE "value")
    /\ UNCHANGED <<links, refcount, write_lock, heap, value, imageNode, op, image,
                   header, dyld, history>>

\* The image's reference to its node is swapped in if it has none ...
noteNode(r) ==
    LET n == node[r] IN
    /\ pc[r] = "value"
    /\ imageNode' = [imageNode EXCEPT ![value[n]] = CompareAndSwap(NULL, @, n)]
    /\ Goto(r, "return")
    /\ UNCHANGED <<links, refcount, write_lock, heap, value, locals, dyld, history>>

\* ... and the node's value, read once more, is returned.
returnImage(r) ==
    LET i == value[node[r]] IN
    /\ pc[r] = "return"
    /\ image' = [image EXCEPT ![r] = i]
    /\ seen' = [seen EXCEPT ![r] = Append(@, i)]
    /\ Goto(r, "fetch")
    /\ UNCHANGED <<links, refcount, write_lock, heap, value, imageNode, op, header,
                   node, dyld, must, strayed>>

\* set_reading(false), at the end or at the image that was looked for
\* (image_containing_address).
endReading(r) ==
    /\ \/ pc[r] = "endRead"
       \/ pc[r] = "fetch" /\ image[r] # NULL
    /\ refcount' = refcount - 1
    /\ image' = [image EXCEPT ![r] = NULL]
    /\ node' = [node EXCEPT ![r] = NULL]
    /\ must' = [must EXCEPT ![r] = {}]
    /\ seen' = [seen EXCEPT ![r] = <<>>]
    /\ strayed' = [strayed EXCEPT ![r] = FALSE]
    /\ Goto(r, "idle")
    /\ UNCHANGED <<links, write_lock, heap, value, imageNode, op, header, dyld>>

----------------------------------------------------------------------------
Call(w) == \/ \E o \in {"append", "prepend"}, i \in Images : insert(w, o, i)
           \/ \E o \in {"remove", "removeNode"}, h \in Headers : remove(w, o, h)

WriterStep(w) ==
    \/ lock(w) \/ recycleNode(w) \/ resetNode(w) \/ newNode(w) \/ pointAtHead(w)
    \/ linkFirst(w) \/ linkLast(w) \/ linkHead(w) \/ unlock(w)
    \/ seek(w) \/ notThere(w) \/ release(w) \/ unlink(w) \/ testCount(w)
    \/ toFreeList(w) \/ delete(w) \/ unlockRemove(w) \/ endRemove(w)

ReaderStep(r) == fetchNode(r) \/ noteNode(r) \/ returnImage(r) \/ endReading(r)

Next == \/ \E w \in Writers : Call(w) \/ WriterStep(w)
        \/ \E r \in Readers : startReading(r) \/ ReaderStep(r)

Spec == Init /\ [][Next]_vars

----------------------------------------------------------------------------
(* Properties.                                                             *)

\* What assert_list_valid asserts: while no writer holds the lock, the list can
\* be walked in both directions, from the head to the tail and back.
ListValid ==
    write_lock = NULL =>
        /\ head = NULL <=> tail = NULL
        /\ head # NULL => prev[head] = NULL /\ tail \in Listed
        /\ \A n \in Listed : /\ next[n] = NULL <=> n = tail
                             /\ next[n] # NULL => prev[next[n]] = n

\* The count that defers deallocation is the number of threads that read.
CountMatchesReaders == refcount = Cardinality(Reading)

\* The node a thread that reads stands on.
Position(t) ==
    IF t \in Readers /\ pc[t] = "fetch"
    THEN IF image[t] = NULL THEN NULL ELSE imageNode[image[t]]
    ELSE node[t]

\* Whatever the writers remove, neither the list nor a thread that reads it ever
\* holds a node that was deallocated (the comment at nasync_remove_node).
NoUseAfterFree ==
    /\ Listed \subseteq heap
    /\ \A t \in Reading : Position(t) \in heap \cup {NULL}

\* A reader whose own node nobody removed returns each image at most once, and
\* every image that was in the list from the start of its reading to the end.
UndisturbedReaderSeesAll ==
    \A r \in Readers : ~strayed[r] =>
        /\ \A j, k \in DOMAIN seen[r] : seen[r][j] = seen[r][k] => j = k
        /\ pc[r] = "endRead" => \A i \in must[r] : \E k \in DOMAIN seen[r] : seen[r][k] = i

\* "Atomic compare and swap is used to ensure a consistent view of the list for
\* readers": a report names every image that was loaded all through its reading.
ReaderSeesAll ==
    \A r \in Readers : pc[r] = "endRead" =>
        \A i \in must[r] : \E k \in DOMAIN seen[r] : seen[r][k] = i

\* No walk along the nodes, those on the free list and those a reader strayed to
\* included, comes back to where it was: with the writers halted it ends.
NoCycle ==
    ~ \E S \in SUBSET heap : S # {} /\ \A n \in S : \E m \in S : next[m] = n

\* The list's links are right for the writers, and lead a reader to an end at any time.
ListIsSound == ListValid /\ NoCycle

\* A reader is counted as long as it reads, and what it stands on is not deallocated.
ReadersAreSafe == CountMatchesReaders /\ NoUseAfterFree

\* The parts of the inductive invariant.  Which thread is where, and what for:
AtWork ==
    /\ \A r \in Readers : pc[r] \in {"idle"} \cup ReadSteps
    /\ \A w \in Writers :
          /\ pc[w] \in {"idle"} \cup InsertSteps \cup RemoveSteps
          /\ pc[w] \in LockedSteps <=> write_lock = w
          /\ pc[w] \in InsertSteps => op[w] \in {"append", "prepend"}
          /\ pc[w] \in RemoveSteps \ {"endRemove"} => op[w] \in {"remove", "removeNode"}
          /\ pc[w] = "release" => op[w] = "removeNode"

\* Nothing leads to node n.
Unreferenced(n) == n \notin {head, free} /\ \A m \in Nodes : next[m] # n

\* The node that is taken out of the list but not yet put away.
TakenOut == {node[w] : w \in {v \in Writers : pc[v] \in {"count", "recycle", "delete"}}}

\* What is in memory leads to what is in memory, and prev is the inverse of next but
\* for a node that is being taken out or put at the head.
Linked ==
    /\ {head, free} \subseteq heap \cup {NULL}
    /\ \A n \in Nodes : /\ next[n] \in heap \cup {NULL}
                        /\ n \notin heap => next[n] = NULL
                        /\ (next[n] # NULL /\ n \notin TakenOut) => prev[next[n]] = n
    /\ (head # NULL /\ prev[head] # NULL) =>
          \E w \in Writers : pc[w] = "link" /\ op[w] = "prepend" /\ prev[head] = node[w]
    /\ free # NULL => free # head /\ prev[free] = NULL /\ \A n \in Nodes : next[n] # free

\* The walk from the head ends at the tail.
EndsAtTail ==
    /\ head = NULL <=> tail = NULL
    /\ tail # NULL => tail \in Listed
    /\ \A n \in Listed : next[n] = NULL <=> n = tail

\* The node that the holder of the lock has in hand.
NodeInHand ==
    \A w \in Writers :
        /\ pc[w] = "reset" => node[w] = free /\ free # NULL
        /\ pc[w] \in {"point", "link", "count", "recycle", "delete"} =>
              node[w] \in heap /\ Unreferenced(node[w])
        /\ pc[w] \in {"point", "link"} => prev[node[w]] = NULL
        /\ pc[w] = "point" => op[w] = "prepend" /\ tail # NULL /\ next[node[w]] = NULL
        /\ pc[w] = "link" =>
              next[node[w]] = IF op[w] = "prepend" THEN head ELSE NULL

\* An image is the value of one node at most, and leads to no other.
OneNodePerImage ==
    /\ \A n \in heap : value[n] \in used /\ imageNode[value[n]] \in {NULL, n}
    /\ \A m, n \in heap : value[m] = value[n] => m = n
    /\ \A i \in Images \ used : imageNode[i] = NULL
    /\ \A w \in Writers : pc[w] \in {"lock", "take"} =>
          /\ image[w] \in used /\ imageNode[image[w]] = NULL
          /\ \A n \in heap : value[n] # image[w]
          /\ \A v \in Writers : (v # w /\ pc[v] \in {"lock", "take"}) => image[v] # image[w]

\* A thread that reads stands on no node that is being deallocated.
StandsSafely ==
    /\ \A w \in Writers : pc[w] = "idle" => node[w] = NULL
    /\ \A r \in Readers : /\ pc[r] = "idle" => image[r] = NULL
                          /\ pc[r] \in {"value", "return"} => node[r] # NULL
    /\ \A t \in Reading :
          /\ Position(t) \in heap \cup {NULL}
          /\ \A w \in Writers : pc[w] = "delete" => Position(t) # node[w]

\* The inductive invariant.
IndInv ==
    /\ TypeOK /\ AtWork /\ Linked /\ EndsAtTail /\ NodeInHand /\ NoCycle
    /\ OneNodePerImage /\ CountMatchesReaders /\ StandsSafely

\* The parts of the invariant behind UndisturbedReaderSeesAll.  What a reader has
\* returned, and the nodes it still comes to if the writers let it:
Returned(r) == {seen[r][k] : k \in DOMAIN seen[r]}

Ahead(r) == IF pc[r] = "fetch" THEN Walk(After(Position(r)), next)
            ELSE IF pc[r] \in {"value", "return"} THEN Walk(node[r], next)
            ELSE {}

\* A reader whose node nobody removed stands on a node of the list.
Stands(r) ==
    /\ pc[r] = "idle" => seen[r] = <<>> /\ must[r] = {} /\ ~strayed[r]
    /\ (pc[r] \in ReadSteps /\ ~strayed[r]) =>
          /\ Position(r) \in Listed \cup {NULL}
          /\ pc[r] = "fetch" => IF image[r] = NULL THEN seen[r] = <<>>
                                ELSE Position(r) # NULL
          /\ pc[r] = "return" => imageNode[value[node[r]]] = node[r]
          /\ pc[r] = "endRead" => Position(r) = NULL

\* What is ahead of it was not returned before, and what it must return was or is ahead.
ReturnsOnce(r) ==
    ~strayed[r] =>
        /\ \A j, k \in DOMAIN seen[r] : seen[r][j] = seen[r][k] => j = k
        /\ \A n \in Ahead(r) : value[n] \notin Returned(r)
        /\ must[r] \subseteq Returned(r) \cup {value[n] : n \in Ahead(r)}

\* What is about to be linked into the list was returned to no such reader.
NewToReaders ==
    /\ \A r \in Readers : Returned(r) \subseteq used
    /\ \A w \in Writers :
          /\ pc[w] \in {"lock", "take", "reset", "point", "link"} =>
                \A r \in Readers : ~strayed[r] => image[w] \notin Returned(r)
          /\ pc[w] \in {"reset", "point", "link"} => value[node[w]] = image[w]

ReadersInv == \A r \in Readers : Stands(r) /\ ReturnsOnce(r)

ReadInv == ReadersInv /\ NewToReaders

\* To other threads every call takes effect at once, at its one swap.
Promise == INSTANCE ImageListPromise WITH images <- ListedInOrder
ListKeepsItsPromise == Promise!Spec
=============================================================================
