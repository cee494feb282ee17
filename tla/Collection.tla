----------------------------- MODULE Collection -----------------------------
(***************************************************************************)
(* ApigeeCollection: one page of the entities of a collection, an iterator *)
(* over it, and the cursors that lead to the pages before and after it.    *)
(*                                                                         *)
(* An entity is the number the server gave it when it was created.  The    *)
(* server answers a query with the first PageSize entities after the       *)
(* cursor and, when there are more, the cursor to continue from: the last  *)
(* entity it returned.  Other clients create and remove entities too.      *)
(*                                                                         *)
(* createResponse sets a failed response's state but never its error       *)
(* property, the one fetch tests, so fetch handles a failed request, and   *)
(* the pending response of a client with a delegate, like the answer of an *)
(* empty collection.                                                       *)
(***************************************************************************)
EXTENDS Integers, Sequences, FiniteSets

CONSTANTS
    PageSize,     \* the query's limit
    None,         \* nil
    MaxEntities,  \* bound: entities ever created
    MaxPrevious   \* bound: length of _previous

ASSUME CollectionAssumption ==
    /\ PageSize \in Nat \ {0}
    /\ MaxEntities \in Nat
    /\ MaxPrevious \in Nat
    /\ None \notin Int

Entities == 1 .. MaxEntities
Cursors == Entities \cup {None}

VARIABLES
    server,     \* the entities that exist
    lastId,     \* the last one created
    list,       \* _list
    iterator,   \* _iterator
    previous,   \* _previous
    next,       \* _next
    cursor,     \* _cursor
    \* history of the traversal
    page,       \* the entities of the last answer
    seen,       \* those of all answers since one from the beginning
    upTo,       \* every entity up to this one was on an answered page ...
    unbroken    \* ... if the pages were asked for in order, without a failure

serverVars == <<server, lastId>>
pageVars == <<list, iterator, previous, next, cursor>>
history == <<page, seen, upTo, unbroken>>
vars == <<serverVars, pageVars, history>>

TypeOK ==
    /\ server \subseteq Entities
    /\ lastId \in 0 .. MaxEntities
    /\ list \in Seq(Entities)
    /\ iterator \in Int
    /\ previous \in Seq(Entities)
    /\ next \in Cursors
    /\ cursor \in Cursors
    /\ page \subseteq Entities
    /\ seen \subseteq Entities
    /\ upTo \in 0 .. MaxEntities
    /\ unbroken \in BOOLEAN

-----------------------------------------------------------------------------
(* The server *)

\* The answers to cursor c when the entities S exist: the first of those after c,
\* in order, PageSize of them unless there are fewer.
After(S, c) == IF c = None THEN S ELSE {e \in S : e > c}

Answers(S, c) ==
    {p \in UNION {[1 .. n -> After(S, c)] : n \in 0 .. PageSize} :
        /\ \A i, j \in DOMAIN p : i < j => p[i] < p[j]
        /\ \A e \in After(S, c) :
              (Len(p) < PageSize \/ \E i \in DOMAIN p : e <= p[i]) =>
                 \E i \in DOMAIN p : p[i] = e}

\* The cursor that comes with an answer, when there is more.
PageCursor(S, p) ==
    IF p # <<>> /\ \E e \in S : e > p[Len(p)] THEN p[Len(p)] ELSE None

-----------------------------------------------------------------------------
(* Operations of the collection *)

\* What fetch and its faults have in common: the list and the history.
takeAnswer(c, ok, p) ==
    /\ list' = p
    /\ page' = {p[i] : i \in DOMAIN p}
    /\ seen' = (IF c = None /\ ok THEN {} ELSE seen) \cup page'

\* Fault: the cursor of the answer becomes _next but not _cursor.
fetchKeepsCursor(S, c, ok) ==
    \E p \in IF ok THEN Answers(S, c) ELSE {<<>>} :
        /\ next' = PageCursor(S, p)
        /\ cursor' = cursor
        /\ iterator' = -1
        /\ takeAnswer(c, ok, p)
        /\ upTo' = IF ~ok THEN upTo ELSE IF next' = None THEN lastId ELSE next'

\* Fault: an answer without a cursor leaves _next alone.
fetchKeepsNext(S, c, ok) ==
    \E p \in IF ok THEN Answers(S, c) ELSE {<<>>} :
        /\ cursor' = PageCursor(S, p)
        /\ next' = IF cursor' = None THEN next ELSE cursor'
        /\ iterator' = -1
        /\ takeAnswer(c, ok, p)
        /\ upTo' = IF ~ok THEN upTo ELSE IF cursor' = None THEN lastId ELSE cursor'

\* fetch with cursor c: the response to a failed request has neither entities
\* nor a cursor.
fetchFrom(S, c, ok) ==
    \E p \in IF ok THEN Answers(S, c) ELSE {<<>>} :
        /\ cursor' = PageCursor(S, p)
        /\ next' = cursor'
        /\ iterator' = -1
        /\ list' = p
        /\ page' = {p[i] : i \in DOMAIN p}
        /\ seen' = (IF c = None /\ ok THEN {} ELSE seen) \cup page'
        /\ upTo' = IF ~ok THEN upTo ELSE IF cursor' = None THEN lastId ELSE cursor'

\* The constructors run a fetch before they return.
Init ==
    /\ lastId \in 0 .. MaxEntities
    /\ server = 1 .. lastId
    /\ \E ok \in BOOLEAN : \E p \in IF ok THEN Answers(server, None) ELSE {<<>>} :
          /\ cursor = PageCursor(server, p)
          /\ list = p
          /\ page = {p[i] : i \in DOMAIN p}
          /\ upTo = IF ok THEN IF cursor = None THEN lastId ELSE cursor ELSE 0
          /\ unbroken = ok
    /\ next = cursor
    /\ iterator = -1
    /\ previous = <<>>
    /\ seen = page

\* fetch asks for what follows the page at hand.
fetch(ok) ==
    /\ fetchFrom(server, cursor, ok)
    /\ unbroken' = (ok /\ (unbroken \/ cursor = None))
    /\ UNCHANGED <<serverVars, previous>>

\* Fault: hasNextPage is not asked first.
getNextPageUnasked(ok) ==
    /\ Len(previous) < MaxPrevious
    /\ previous' = Append(previous, cursor)
    /\ fetchFrom(server, next, ok)
    /\ unbroken' = (ok /\ unbroken)
    /\ UNCHANGED serverVars

getNextPage(ok) ==
    /\ next # None
    /\ cursor # None        \* addObject:nil raises
    /\ Len(previous) < MaxPrevious
    /\ previous' = Append(previous, cursor)
    /\ fetchFrom(server, next, ok)
    /\ unbroken' = (ok /\ unbroken)
    /\ UNCHANGED serverVars

getPrevPage(ok) ==
    /\ previous # <<>>
    /\ previous' = SubSeq(previous, 1, Len(previous) - 1)
    /\ fetchFrom(server, previous[Len(previous)], ok)
    /\ unbroken' = FALSE
    /\ UNCHANGED serverVars

resetPaging ==
    /\ previous' = <<>>
    /\ next' = None
    /\ cursor' = None
    /\ unbroken' = FALSE
    /\ UNCHANGED <<serverVars, list, iterator, page, seen, upTo>>

\* Fault: the next page is asked for after the entity added.
addEntityMovesCursor(ok) ==
    /\ lastId < MaxEntities
    /\ lastId' = lastId + 1
    /\ server' = server \cup {lastId'}
    /\ list' = IF ok THEN Append(list, lastId') ELSE list
    /\ cursor' = lastId' /\ next' = lastId'
    /\ UNCHANGED <<iterator, previous, history>>

\* addEntity: the server's answer may be lost after it created the entity.
addEntity(ok) ==
    /\ lastId < MaxEntities
    /\ lastId' = lastId + 1
    /\ server' = server \cup {lastId'}
    /\ list' = IF ok THEN Append(list, lastId') ELSE list
    /\ UNCHANGED <<iterator, previous, next, cursor, history>>

\* destroyEntity: the entity is removed, or the request fails, which is not
\* noticed either; then a fetch.
destroyEntity(e, removed, ok) ==
    /\ \E i \in 1 .. Len(list) : list[i] = e
    /\ server' = IF removed THEN server \ {e} ELSE server
    /\ fetchFrom(server', cursor, ok)
    /\ unbroken' = (ok /\ (unbroken \/ cursor = None))
    /\ UNCHANGED <<lastId, previous>>

getNextEntity ==
    /\ iterator + 1 >= 0 /\ iterator + 1 < Len(list)
    /\ iterator' = iterator + 1
    /\ UNCHANGED <<serverVars, list, previous, next, cursor, history>>

getPrevEntity ==
    /\ iterator - 1 >= 0 /\ iterator - 1 < Len(list)
    /\ iterator' = iterator - 1
    /\ UNCHANGED <<serverVars, list, previous, next, cursor, history>>

resetEntityPointer ==
    /\ iterator' = -1
    /\ UNCHANGED <<serverVars, list, previous, next, cursor, history>>

-----------------------------------------------------------------------------
(* Other clients of the server *)

othersCreate ==
    /\ lastId < MaxEntities
    /\ lastId' = lastId + 1
    /\ server' = server \cup {lastId'}
    /\ UNCHANGED <<pageVars, history>>

othersRemove(e) ==
    /\ server' = server \ {e}
    /\ UNCHANGED <<lastId, pageVars, history>>

Next ==
    \/ \E ok \in BOOLEAN : \/ fetch(ok)
                           \/ getNextPage(ok)
                           \/ getPrevPage(ok)
                           \/ addEntity(ok)
                           \/ \E e \in Entities, removed \in BOOLEAN :
                                 destroyEntity(e, removed, ok)
    \/ resetPaging
    \/ getNextEntity
    \/ getPrevEntity
    \/ resetEntityPointer
    \/ othersCreate
    \/ \E e \in server : othersRemove(e)

Spec == Init /\ [][Next]_vars

-----------------------------------------------------------------------------
(* Properties *)

\* getNextPage pushes a cursor: addObject:nil would raise.
NextHasCursor == next # None => cursor = next

\* The next page begins where the page at hand ends.
NextPageFollows ==
    next # None => next \in page /\ \A e \in page : e <= next

\* objectAtIndex:_iterator is in bounds after every operation, although the list
\* is emptied, refilled and appended to behind the iterator.
IteratorInList == iterator \in -1 .. Len(list) - 1

\* No operation raises: neither addObject:nil nor an index out of bounds.
NothingRaises == NextHasCursor /\ IteratorInList

\* Pages asked for in order, whatever is created or removed meanwhile, have shown
\* every entity up to where the next one begins.
NothingSkipped == unbroken => \A e \in server : e <= upTo => e \in seen

\* "Retrieves the previous page of entities for this collection".
PrevPageGoesBack ==
    [][\A e \in page, f \in page' : getPrevPage(TRUE) => f < e]_vars

\* "Determines if a next page is available": after getNextPage, NO means that the
\* server has nothing after the page.
HasNextPageIsTruthful ==
    [][\A ok \in BOOLEAN :
          getNextPage(ok) /\ next' = None =>
             \A e \in server : e > next => e \in page']_vars

-----------------------------------------------------------------------------
(* The inductive invariant behind the properties that hold. *)

\* The server knows only what was created, and so does the traversal.
KnownEntities == server \subseteq 1 .. lastId /\ upTo <= lastId

\* An unbroken traversal resumes at a place up to which it has seen everything.
ResumesWhereSeen == unbroken /\ cursor # None => cursor <= upTo

IndInv ==
    /\ TypeOK
    /\ NextHasCursor
    /\ NextPageFollows
    /\ IteratorInList
    /\ NothingSkipped
    /\ KnownEntities
    /\ ResumesWhereSeen

=============================================================================
