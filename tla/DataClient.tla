----------------------------- MODULE DataClient -----------------------------
(***************************************************************************)
(* The transaction engine of ApigeeDataClient: the growing pool of         *)
(* ApigeeHTTPManager instances, the three ways a call runs (synchronous,   *)
(* delegate, completion handler), the connection callbacks that answer it, *)
(* and setDelegate, which cancels every manager.                           *)
(*                                                                         *)
(* Threads call the client.  A callback runs on a thread too, and only     *)
(* when that thread is not busy: a delegate-mode connection calls back on  *)
(* the run loop of the thread that started it, a completion handler always *)
(* on the main queue.  While the application's callback runs (frame[t])    *)
(* the application may call the client again on that thread.               *)
(*                                                                         *)
(* URLs, bodies and JSON are abstracted to the identity of the request:    *)
(* what the properties tell apart is whose answer goes to whom.            *)
(***************************************************************************)
EXTENDS Integers, Sequences, FiniteSets

CONSTANTS
    Threads,      \* the threads that call the client
    Main,         \* the main thread, where completion handlers run
    Delegates,    \* application objects that implement apigeeClientResponse:
    BadDelegate,  \* an object that does not implement it
    None,         \* nil
    MaxRequests   \* bound: calls made in one behaviour (it also bounds the pool)

ASSUME DataClientAssumption ==
    /\ Main \in Threads
    /\ None \notin Threads \cup Delegates \cup Int
    /\ BadDelegate \notin Delegates \cup {None}
    /\ MaxRequests \in Nat

kInvalidTransactionID == -1

Managers == 1 .. MaxRequests      \* positions in m_httpManagerPool
Requests == 1 .. MaxRequests      \* the calls, in the order they are made
IDs == {kInvalidTransactionID} \cup Nat

VARIABLES
    poolSize,          \* [m_httpManagerPool count]
    \* the ivars of each ApigeeHTTPManager
    m_bAvailable,
    m_transactionID,
    mgrDelegate,       \* m_delegate is the client (TRUE) or nil
    completionHandler, \* the call whose handler the property holds
    m_receivedData,    \* the calls whose bytes it holds
    mgrLock,           \* the thread that holds m_delegateLock
    nextTransactionID, \* g_nextTransactionID
    \* the client
    m_delegate,        \* None: the client is synchronous
    m_delegateLock,    \* the thread that holds it
    \* the calls, for as long as the program knows of them
    reqCount,          \* calls made so far
    state,             \* where each call is
    opOf,              \* the entry point it came in by
    managerOf,         \* the manager its transaction runs on
    threadOf,          \* the thread that made it
    idOf,              \* the transaction ID it returned
    asked,             \* the delegate it was sent with (None: not delegate mode)
    cancelled,         \* cancel reached its manager while it was pending
    answered,          \* how many responses the application got for it
    answer,            \* the last of them
    \* the threads
    pc,                \* where each is in the client's code
    cur,               \* position in the pool it works on
    call,              \* the call it is making
    newDelegate,       \* the argument of a running setDelegate:
    frame              \* the call whose application callback is running

mgrVars == <<m_bAvailable, m_transactionID, mgrDelegate, completionHandler,
             m_receivedData, mgrLock>>
clientVars == <<m_delegate, m_delegateLock>>
sentVars == <<managerOf, idOf, asked>>     \* set when a transaction is sent
callVars == <<reqCount, opOf, threadOf>>   \* set when a call is made
ansVars == <<answered, answer>>
thrVars == <<pc, cur, call, newDelegate, frame>>

vars == <<poolSize, mgrVars, nextTransactionID, clientVars, callVars, sentVars,
          state, cancelled, ansVars, thrVars>>

-----------------------------------------------------------------------------
(* Types and the initial state *)

\* httpTransaction picks its mode from m_delegate; completionHandler stands for
\* the entry points that take one, accessToken for the OAuth2 token calls,
\* assetDownload and assetUpload for the blocking asset calls, assetBadArgs for
\* an asynchronous asset call with an empty argument.
Ops == {"httpTransaction", "completionHandler", "accessToken", "assetDownload",
        "assetUpload", "assetBadArgs"}
HandlerOps == {"completionHandler", "accessToken"}
BlockingOps == {"assetDownload", "assetUpload"}

\* blocked: a synchronous request; sent: an asynchronous one of which nothing
\* has come back; headers, body: a delegate-mode connection under way;
\* failing, finishing: its last callback is entering the client; callback: the
\* application's callback is running.
Open == {"blocked", "sent", "headers", "body"}
Ending == {"failing", "finishing"}
Busy == Open \cup Ending \cup {"callback"}
States == {"unused", "calling", "done"} \cup Busy

PCs == {"idle", "take", "grow", "start", "syncWait", "cbLock", "cbClient", "cancel"}

Responses == [data : SUBSET Requests,             \* whose bytes it carries
              id : IDs,
              to : Delegates \cup {None}]         \* None: the caller or its handler

TypeOK ==
    /\ poolSize \in 0 .. MaxRequests
    /\ m_bAvailable \in [Managers -> BOOLEAN]
    /\ m_transactionID \in [Managers -> IDs]
    /\ mgrDelegate \in [Managers -> BOOLEAN]
    /\ completionHandler \in [Managers -> Requests \cup {None}]
    /\ m_receivedData \in [Managers -> SUBSET Requests]
    /\ mgrLock \in [Managers -> Threads \cup {None}]
    /\ nextTransactionID \in Nat \ {0}
    /\ m_delegate \in Delegates \cup {None}
    /\ m_delegateLock \in Threads \cup {None}
    /\ reqCount \in 0 .. MaxRequests
    /\ state \in [Requests -> States]
    /\ opOf \in [Requests -> Ops]
    /\ managerOf \in [Requests -> 0 .. MaxRequests]
    /\ threadOf \in [Requests -> Threads]
    /\ idOf \in [Requests -> IDs]
    /\ asked \in [Requests -> Delegates \cup {None}]
    /\ cancelled \in [Requests -> BOOLEAN]
    /\ answered \in [Requests -> Nat]
    /\ answer \in [Requests -> Responses]
    /\ pc \in [Threads -> PCs]
    /\ cur \in [Threads -> 0 .. MaxRequests + 1]
    /\ call \in [Threads -> 0 .. MaxRequests]
    /\ newDelegate \in [Threads -> Delegates \cup {None, BadDelegate}]
    /\ frame \in [Threads -> 0 .. MaxRequests]

NoResponse == [data |-> {}, id |-> kInvalidTransactionID, to |-> None]

Init ==
    /\ poolSize = 0
    /\ m_bAvailable = [i \in Managers |-> TRUE]
    /\ m_transactionID = [i \in Managers |-> kInvalidTransactionID]
    /\ mgrDelegate = [i \in Managers |-> FALSE]
    /\ completionHandler = [i \in Managers |-> None]
    /\ m_receivedData = [i \in Managers |-> {}]
    /\ mgrLock = [i \in Managers |-> None]
    /\ nextTransactionID = 1
    /\ m_delegate = None
    /\ m_delegateLock = None
    /\ reqCount = 0
    /\ state = [r \in Requests |-> "unused"]
    /\ opOf = [r \in Requests |-> "httpTransaction"]
    /\ managerOf = [r \in Requests |-> 0]
    /\ threadOf = [r \in Requests |-> Main]
    /\ idOf = [r \in Requests |-> kInvalidTransactionID]
    /\ asked = [r \in Requests |-> None]
    /\ cancelled = [r \in Requests |-> FALSE]
    /\ answered = [r \in Requests |-> 0]
    /\ answer = [r \in Requests |-> NoResponse]
    /\ pc = [t \in Threads |-> "idle"]
    /\ cur = [t \in Threads |-> 0]
    /\ call = [t \in Threads |-> 0]
    /\ newDelegate = [t \in Threads |-> None]
    /\ frame = [t \in Threads |-> 0]

\* A recursive lock can be taken when nobody or the thread itself holds it.
CanLock(lock, t) == lock \in {None, t}

\* The application gets a response for r.
Respond(r, bytes, id, to) ==
    /\ answered' = [answered EXCEPT ![r] = @ + 1]
    /\ answer' = [answer EXCEPT ![r] = [data |-> bytes, id |-> id, to |-> to]]

\* The thread leaves the client's code.
Return(t) ==
    /\ pc' = [pc EXCEPT ![t] = "idle"]
    /\ cur' = [cur EXCEPT ![t] = 0]
    /\ call' = [call EXCEPT ![t] = 0]

-----------------------------------------------------------------------------
(* Making a call *)

\* getHTTPManager, first half: the scan for the first available manager.
\* Nothing protects the pool between this read and setAvailable:NO.
getHTTPManager(t, o) ==
    LET free == {i \in 1 .. poolSize : m_bAvailable[i]}
        r == reqCount + 1 IN
    /\ pc[t] = "idle"
    /\ reqCount < MaxRequests
    /\ reqCount' = r
    /\ call' = [call EXCEPT ![t] = r]
    /\ state' = [state EXCEPT ![r] = "calling"]
    /\ opOf' = [opOf EXCEPT ![r] = o]
    /\ threadOf' = [threadOf EXCEPT ![r] = t]
    /\ \/ /\ free = {}
          /\ pc' = [pc EXCEPT ![t] = "grow"]
          /\ UNCHANGED cur
       \/ \E i \in free :
             /\ \A j \in free : i <= j
             /\ pc' = [pc EXCEPT ![t] = "take"]
             /\ cur' = [cur EXCEPT ![t] = i]
    /\ UNCHANGED <<poolSize, mgrVars, nextTransactionID, clientVars, sentVars,
                   cancelled, ansVars, newDelegate, frame>>

\* Fault: the manager found is not marked as in use.
takeManagerUnmarked(t) ==
    /\ pc[t] = "take"
    /\ pc' = [pc EXCEPT ![t] = "start"]
    /\ UNCHANGED <<poolSize, mgrVars, nextTransactionID, clientVars, callVars, sentVars,
                   state, cancelled, ansVars, cur, call, newDelegate, frame>>

\* getHTTPManager, second half: setAvailable:NO on the manager found.
takeManager(t) ==
    /\ pc[t] = "take"
    /\ m_bAvailable' = [m_bAvailable EXCEPT ![cur[t]] = FALSE]
    /\ pc' = [pc EXCEPT ![t] = "start"]
    /\ UNCHANGED <<poolSize, m_transactionID, mgrDelegate, completionHandler,
                   m_receivedData, mgrLock, nextTransactionID, clientVars, callVars,
                   sentVars, state, cancelled, ansVars, cur, call, newDelegate, frame>>

\* getHTTPManager, no manager was available: a new one, in use, joins the pool.
growPool(t) ==
    /\ pc[t] = "grow"
    /\ poolSize' = poolSize + 1
    /\ m_bAvailable' = [m_bAvailable EXCEPT ![poolSize + 1] = FALSE]
    /\ cur' = [cur EXCEPT ![t] = poolSize + 1]
    /\ pc' = [pc EXCEPT ![t] = "start"]
    /\ UNCHANGED <<m_transactionID, mgrDelegate, completionHandler, m_receivedData,
                   mgrLock, nextTransactionID, clientVars, callVars, sentVars, state,
                   cancelled, ansVars, call, newDelegate, frame>>

\* The call returns to the application without a transaction.
callFails(t) ==
    /\ state' = [state EXCEPT ![call[t]] = "done"]
    /\ Respond(call[t], {}, kInvalidTransactionID, None)

\* An asynchronous asset call with an empty argument: the manager it took is
\* not released.
startBadArgs(t) ==
    /\ pc[t] = "start"
    /\ opOf[call[t]] = "assetBadArgs"
    /\ callFails(t)
    /\ Return(t)
    /\ UNCHANGED <<poolSize, mgrVars, nextTransactionID, clientVars, callVars,
                   sentVars, cancelled, newDelegate, frame>>

\* syncTransactionRawData: clears the ID and blocks the thread.
syncTransaction(t) ==
    /\ pc[t] = "start"
    /\ \/ opOf[call[t]] \in BlockingOps
       \/ opOf[call[t]] = "httpTransaction" /\ m_delegate = None
    /\ m_transactionID' = [m_transactionID EXCEPT ![cur[t]] = kInvalidTransactionID]
    /\ state' = [state EXCEPT ![call[t]] = "blocked"]
    /\ managerOf' = [managerOf EXCEPT ![call[t]] = cur[t]]
    /\ pc' = [pc EXCEPT ![t] = "syncWait"]
    /\ UNCHANGED <<poolSize, m_bAvailable, mgrDelegate, completionHandler,
                   m_receivedData, mgrLock, nextTransactionID, clientVars, callVars,
                   idOf, asked, cancelled, ansVars, cur, call, newDelegate, frame>>

\* A blocking call returns to its caller and its manager is released.  Where a
\* blocking upload fails, attachAssetToEntity fills a response of the else branch
\* only, and returns the outer one, nil: the caller gets no response.
blockingCallEnds(t, ok, bytes) ==
    /\ m_bAvailable' = [m_bAvailable EXCEPT ![cur[t]] = TRUE]
    /\ state' = [state EXCEPT ![call[t]] = "done"]
    /\ IF ok \/ opOf[call[t]] # "assetUpload"
         THEN Respond(call[t], bytes, kInvalidTransactionID, None)
         ELSE UNCHANGED ansVars
    /\ Return(t)
    /\ UNCHANGED <<poolSize, m_transactionID, mgrDelegate, completionHandler,
                   m_receivedData, mgrLock, nextTransactionID, clientVars, callVars,
                   sentVars, cancelled, newDelegate, frame>>

\* sendSynchronousRequest returns.
syncReturn(t, ok) ==
    /\ pc[t] = "syncWait"
    /\ blockingCallEnds(t, ok, IF ok THEN {call[t]} ELSE {})

\* A blocking asset call with an empty argument sends nothing.
syncBadArgs(t) ==
    /\ pc[t] = "start"
    /\ opOf[call[t]] \in BlockingOps
    /\ blockingCallEnds(t, FALSE, {})

\* asyncTransaction:delegate: with the client as the delegate.  When the
\* connection cannot be created (ok = FALSE) the manager is not released.
asyncTransactionDelegate(t, ok) ==
    /\ pc[t] = "start"
    /\ opOf[call[t]] = "httpTransaction" /\ m_delegate # None
    /\ CanLock(mgrLock[cur[t]], t)
    /\ mgrDelegate' = [mgrDelegate EXCEPT ![cur[t]] = TRUE]
    /\ completionHandler' = [completionHandler EXCEPT ![cur[t]] = None]
    /\ m_transactionID' = [m_transactionID EXCEPT ![cur[t]] = nextTransactionID]
    /\ nextTransactionID' = nextTransactionID + 1
    /\ \/ /\ ok
          /\ state' = [state EXCEPT ![call[t]] = "sent"]
          /\ managerOf' = [managerOf EXCEPT ![call[t]] = cur[t]]
          /\ idOf' = [idOf EXCEPT ![call[t]] = nextTransactionID]
          /\ asked' = [asked EXCEPT ![call[t]] = m_delegate]
          /\ UNCHANGED ansVars
       \/ ~ok /\ callFails(t) /\ UNCHANGED sentVars
    /\ Return(t)
    /\ UNCHANGED <<poolSize, m_bAvailable, m_receivedData, mgrLock, clientVars,
                   callVars, cancelled, newDelegate, frame>>

\* asyncTransaction:completionHandler: - the block that is run on completion
\* keeps the handler itself, the property is only a second reference to it.
asyncTransactionHandler(t) ==
    /\ pc[t] = "start"
    /\ opOf[call[t]] \in HandlerOps
    /\ CanLock(mgrLock[cur[t]], t)
    /\ mgrDelegate' = [mgrDelegate EXCEPT ![cur[t]] = FALSE]
    /\ completionHandler' = [completionHandler EXCEPT ![cur[t]] = call[t]]
    /\ m_transactionID' = [m_transactionID EXCEPT ![cur[t]] = nextTransactionID]
    /\ nextTransactionID' = nextTransactionID + 1
    /\ state' = [state EXCEPT ![call[t]] = "sent"]
    /\ managerOf' = [managerOf EXCEPT ![call[t]] = cur[t]]
    /\ idOf' = [idOf EXCEPT ![call[t]] = nextTransactionID]
    /\ Return(t)
    /\ UNCHANGED <<poolSize, m_bAvailable, m_receivedData, mgrLock, clientVars,
                   callVars, asked, cancelled, ansVars, newDelegate, frame>>

-----------------------------------------------------------------------------
(* Connections call back *)

\* The run loop of t can deliver an event: t is not in the client's code nor
\* in an application callback.
RunLoopFree(t) == pc[t] = "idle" /\ frame[t] = 0

\* Fault: m_receivedData is not emptied.
didReceiveResponseKeepsData(r) ==
    /\ state[r] = "sent" /\ asked[r] # None
    /\ RunLoopFree(threadOf[r])
    /\ state' = [state EXCEPT ![r] = "headers"]
    /\ UNCHANGED <<poolSize, mgrVars, nextTransactionID, clientVars, callVars, sentVars,
                   cancelled, ansVars, thrVars>>

\* connection:didReceiveResponse: empties m_receivedData.
didReceiveResponse(r) ==
    /\ state[r] = "sent" /\ asked[r] # None
    /\ RunLoopFree(threadOf[r])
    /\ m_receivedData' = [m_receivedData EXCEPT ![managerOf[r]] = {}]
    /\ state' = [state EXCEPT ![r] = "headers"]
    /\ UNCHANGED <<poolSize, m_bAvailable, m_transactionID, mgrDelegate,
                   completionHandler, mgrLock, nextTransactionID, clientVars, callVars,
                   sentVars, cancelled, ansVars, thrVars>>

\* connection:didReceiveData: appends to m_receivedData (one chunk).
didReceiveData(r) ==
    /\ state[r] = "headers"
    /\ RunLoopFree(threadOf[r])
    /\ m_receivedData' = [m_receivedData EXCEPT ![managerOf[r]] = @ \cup {r}]
    /\ state' = [state EXCEPT ![r] = "body"]
    /\ UNCHANGED <<poolSize, m_bAvailable, m_transactionID, mgrDelegate,
                   completionHandler, mgrLock, nextTransactionID, clientVars, callVars,
                   sentVars, cancelled, ansVars, thrVars>>

\* connection:didFailWithError: and connectionDidFinishLoading: up to the lock.
\* m_delegate is tested before the lock is taken.
connectionEnds(r, failed) ==
    /\ asked[r] # None
    /\ IF failed THEN state[r] \in Open ELSE state[r] \in {"headers", "body"}
    /\ RunLoopFree(threadOf[r])
    /\ mgrDelegate[managerOf[r]]
    /\ state' = [state EXCEPT ![r] = IF failed THEN "failing" ELSE "finishing"]
    /\ pc' = [pc EXCEPT ![threadOf[r]] = "cbLock"]
    /\ frame' = [frame EXCEPT ![threadOf[r]] = r]
    /\ UNCHANGED <<poolSize, mgrVars, nextTransactionID, clientVars, callVars, sentVars,
                   cancelled, ansVars, cur, call, newDelegate>>

\* The same two callbacks when the manager has no delegate: a completion
\* handler found in the property is run (and releases the manager) when the
\* connection finished, dropped when it failed; without one the reply is ignored.
connectionEndsUnheard(r, failed) ==
    LET i == managerOf[r]
        h == completionHandler[i]
        runs == h # None /\ ~failed IN
    /\ asked[r] # None
    /\ IF failed THEN state[r] \in Open ELSE state[r] \in {"headers", "body"}
    /\ RunLoopFree(threadOf[r])
    /\ ~mgrDelegate[i]
    /\ state' = [state EXCEPT ![r] = "done"]
    /\ completionHandler' = [completionHandler EXCEPT ![i] = None]
    /\ m_bAvailable' = [m_bAvailable EXCEPT ![i] = @ \/ runs]
    /\ IF runs THEN Respond(h, m_receivedData[i], m_transactionID[i], None)
               ELSE UNCHANGED ansVars
    /\ UNCHANGED <<poolSize, m_transactionID, mgrDelegate, m_receivedData, mgrLock,
                   nextTransactionID, clientVars, callVars, sentVars, cancelled,
                   thrVars>>

\* Take the manager's lock and call httpManagerResponse/httpManagerError; if
\* cancel came first the message goes to nil and nothing is released.
callbackLock(t) ==
    LET r == frame[t]
        i == managerOf[r] IN
    /\ pc[t] = "cbLock"
    /\ CanLock(mgrLock[i], t)
    /\ IF mgrDelegate[i]
         THEN /\ mgrLock' = [mgrLock EXCEPT ![i] = t]
              /\ pc' = [pc EXCEPT ![t] = "cbClient"]
              /\ UNCHANGED <<state, frame>>
         ELSE /\ state' = [state EXCEPT ![r] = "done"]
              /\ pc' = [pc EXCEPT ![t] = "idle"]
              /\ frame' = [frame EXCEPT ![t] = 0]
              /\ UNCHANGED mgrLock
    /\ UNCHANGED <<poolSize, m_bAvailable, m_transactionID, mgrDelegate,
                   completionHandler, m_receivedData, nextTransactionID, clientVars,
                   callVars, sentVars, cancelled, ansVars, cur, call, newDelegate>>

\* How a delegate callback ends: releaseHTTPManager, m_delegate = nil, unlock.
endDelegateCallback(t) ==
    LET i == managerOf[frame[t]] IN
    /\ m_bAvailable' = [m_bAvailable EXCEPT ![i] = TRUE]
    /\ mgrDelegate' = [mgrDelegate EXCEPT ![i] = FALSE]
    /\ mgrLock' = [mgrLock EXCEPT ![i] = None]
    /\ state' = [state EXCEPT ![frame[t]] = "done"]
    /\ frame' = [frame EXCEPT ![t] = 0]

\* Fault: the delegate is called without the client's lock.
httpManagerCallbackUnlocked(t) ==
    LET r == frame[t]
        i == managerOf[r] IN
    /\ pc[t] = "cbClient"
    /\ pc' = [pc EXCEPT ![t] = "idle"]
    /\ IF m_delegate # None
         THEN /\ Respond(r, IF state[r] = "failing" THEN {} ELSE m_receivedData[i],
                         m_transactionID[i], m_delegate)
              /\ state' = [state EXCEPT ![r] = "callback"]
              /\ UNCHANGED <<m_bAvailable, mgrDelegate, mgrLock, frame>>
         ELSE endDelegateCallback(t) /\ UNCHANGED ansVars
    /\ UNCHANGED <<poolSize, m_transactionID, completionHandler, m_receivedData,
                   nextTransactionID, clientVars, callVars, sentVars, cancelled, cur,
                   call, newDelegate>>

\* httpManagerResponse:/httpManagerError: under the client's lock, hand the
\* response to the current delegate, if there is one.
httpManagerCallback(t) ==
    LET r == frame[t]
        i == managerOf[r] IN
    /\ pc[t] = "cbClient"
    /\ CanLock(m_delegateLock, t)
    /\ pc' = [pc EXCEPT ![t] = "idle"]
    /\ IF m_delegate # None
         THEN /\ Respond(r, IF state[r] = "failing" THEN {} ELSE m_receivedData[i],
                         m_transactionID[i], m_delegate)
              /\ m_delegateLock' = t
              /\ state' = [state EXCEPT ![r] = "callback"]
              /\ UNCHANGED <<m_bAvailable, mgrDelegate, mgrLock, frame>>
         ELSE /\ endDelegateCallback(t)
              /\ UNCHANGED <<ansVars, m_delegateLock>>
    /\ UNCHANGED <<poolSize, m_transactionID, completionHandler, m_receivedData,
                   nextTransactionID, m_delegate, callVars, sentVars, cancelled, cur,
                   call, newDelegate>>

\* Fault: a failed connection is dropped without running the handler.
completionBlockOfSuccess(r, failed) ==
    /\ state[r] = "sent" /\ opOf[r] \in HandlerOps
    /\ RunLoopFree(Main)
    /\ IF failed
         THEN /\ state' = [state EXCEPT ![r] = "done"]
              /\ UNCHANGED <<ansVars, frame>>
         ELSE /\ Respond(r, {r}, m_transactionID[managerOf[r]], None)
              /\ state' = [state EXCEPT ![r] = "callback"]
              /\ frame' = [frame EXCEPT ![Main] = r]
    /\ UNCHANGED <<poolSize, mgrVars, nextTransactionID, clientVars, callVars, sentVars,
                   cancelled, pc, cur, call, newDelegate>>

\* The completion block of a handler-mode transaction runs on the main queue,
\* with the ID the manager has now.
completionBlock(r, failed) ==
    /\ state[r] = "sent" /\ opOf[r] \in HandlerOps
    /\ RunLoopFree(Main)
    /\ Respond(r, IF failed THEN {} ELSE {r}, m_transactionID[managerOf[r]], None)
    /\ state' = [state EXCEPT ![r] = "callback"]
    /\ frame' = [frame EXCEPT ![Main] = r]
    /\ UNCHANGED <<poolSize, mgrVars, nextTransactionID, clientVars, callVars, sentVars,
                   cancelled, pc, cur, call, newDelegate>>

\* The application's delegate returns to the connection callback.
delegateReturns(t) ==
    /\ pc[t] = "idle" /\ frame[t] # 0
    /\ asked[frame[t]] # None
    /\ endDelegateCallback(t)
    /\ m_delegateLock' = None
    /\ UNCHANGED <<poolSize, m_transactionID, completionHandler, m_receivedData,
                   nextTransactionID, m_delegate, callVars, sentVars, cancelled,
                   ansVars, pc, cur, call, newDelegate>>

\* The application's handler returns to the completion block.  The OAuth2 token
\* calls do not release their manager.
handlerReturns(t) ==
    LET r == frame[t] IN
    /\ pc[t] = "idle" /\ r # 0
    /\ asked[r] = None
    /\ m_bAvailable' = [m_bAvailable EXCEPT ![managerOf[r]] =
                            @ \/ opOf[r] # "accessToken"]
    /\ state' = [state EXCEPT ![r] = "done"]
    /\ frame' = [frame EXCEPT ![t] = 0]
    /\ UNCHANGED <<poolSize, m_transactionID, mgrDelegate, completionHandler,
                   m_receivedData, mgrLock, nextTransactionID, clientVars, callVars,
                   sentVars, cancelled, ansVars, pc, cur, call, newDelegate>>

-----------------------------------------------------------------------------
(* Changing the delegate *)

setDelegate(t, d) ==
    /\ pc[t] = "idle"
    /\ pc' = [pc EXCEPT ![t] = "cancel"]
    /\ cur' = [cur EXCEPT ![t] = 1]
    /\ newDelegate' = [newDelegate EXCEPT ![t] = d]
    /\ UNCHANGED <<poolSize, mgrVars, nextTransactionID, clientVars, callVars, sentVars,
                   state, cancelled, ansVars, call, frame>>

\* The bookkeeping common to cancel and its faults.
cancelNext(t) ==
    /\ pc[t] = "cancel"
    /\ cur[t] <= poolSize
    /\ CanLock(mgrLock[cur[t]], t)
    /\ cancelled' = [r \in Requests |->
                        \/ cancelled[r]
                        \/ managerOf[r] = cur[t] /\ state[r] \in Open \cup Ending]
    /\ cur' = [cur EXCEPT ![t] = cur[t] + 1]

\* Fault: only the completion handler is forgotten.
cancelHandlerOnly(t) ==
    /\ cancelNext(t)
    /\ completionHandler' = [completionHandler EXCEPT ![cur[t]] = None]
    /\ UNCHANGED <<poolSize, m_bAvailable, mgrDelegate, m_transactionID, m_receivedData,
                   mgrLock, nextTransactionID, clientVars, callVars, sentVars, state,
                   ansVars, pc, call, newDelegate, frame>>

\* Fault: the manager is released although its connection is still under way.
cancelReleases(t) ==
    /\ cancelNext(t)
    /\ mgrDelegate' = [mgrDelegate EXCEPT ![cur[t]] = FALSE]
    /\ completionHandler' = [completionHandler EXCEPT ![cur[t]] = None]
    /\ m_bAvailable' = [m_bAvailable EXCEPT ![cur[t]] = TRUE]
    /\ UNCHANGED <<poolSize, m_transactionID, m_receivedData, mgrLock,
                   nextTransactionID, clientVars, callVars, sentVars, state, ansVars,
                   pc, call, newDelegate, frame>>

\* [mgr cancel] on the next manager of the pool.
cancel(t) ==
    LET i == cur[t] IN
    /\ pc[t] = "cancel"
    /\ i <= poolSize
    /\ CanLock(mgrLock[i], t)
    /\ mgrDelegate' = [mgrDelegate EXCEPT ![i] = FALSE]
    /\ completionHandler' = [completionHandler EXCEPT ![i] = None]
    /\ cancelled' = [r \in Requests |->
                        \/ cancelled[r]
                        \/ managerOf[r] = i /\ state[r] \in Open \cup Ending]
    /\ cur' = [cur EXCEPT ![t] = i + 1]
    /\ UNCHANGED <<poolSize, m_bAvailable, m_transactionID, m_receivedData, mgrLock,
                   nextTransactionID, clientVars, callVars, sentVars, state, ansVars,
                   pc, call, newDelegate, frame>>

\* Fault: a delegate that does not implement apigeeClientResponse: is not rejected.
installDelegateUnchecked(t) ==
    /\ pc[t] = "cancel"
    /\ cur[t] > poolSize
    /\ CanLock(m_delegateLock, t)
    /\ m_delegate' = newDelegate[t]
    /\ Return(t)
    /\ newDelegate' = [newDelegate EXCEPT ![t] = None]
    /\ UNCHANGED <<poolSize, mgrVars, nextTransactionID, m_delegateLock, callVars,
                   sentVars, state, cancelled, ansVars, frame>>

\* Fault: the delegate is replaced without the client's lock.
installDelegateUnlocked(t) ==
    /\ pc[t] = "cancel"
    /\ cur[t] > poolSize
    /\ m_delegate' = IF newDelegate[t] = BadDelegate THEN m_delegate ELSE newDelegate[t]
    /\ Return(t)
    /\ newDelegate' = [newDelegate EXCEPT ![t] = None]
    /\ UNCHANGED <<poolSize, mgrVars, nextTransactionID, m_delegateLock, callVars,
                   sentVars, state, cancelled, ansVars, frame>>

\* All managers are cancelled: install the delegate unless it is rejected.
installDelegate(t) ==
    /\ pc[t] = "cancel"
    /\ cur[t] > poolSize
    /\ \/ newDelegate[t] = BadDelegate /\ UNCHANGED m_delegate
       \/ /\ newDelegate[t] # BadDelegate
          /\ CanLock(m_delegateLock, t)
          /\ m_delegate' = newDelegate[t]
    /\ Return(t)
    /\ newDelegate' = [newDelegate EXCEPT ![t] = None]
    /\ UNCHANGED <<poolSize, mgrVars, nextTransactionID, m_delegateLock, callVars,
                   sentVars, state, cancelled, ansVars, frame>>

-----------------------------------------------------------------------------
(* The steps a thread takes by itself, and the ones the application or the   *)
(* network decides. *)

ThreadStep(t) ==
    \/ takeManager(t)
    \/ growPool(t)
    \/ startBadArgs(t)
    \/ syncBadArgs(t)
    \/ syncTransaction(t)
    \/ \E ok \in BOOLEAN : asyncTransactionDelegate(t, ok)
    \/ asyncTransactionHandler(t)
    \/ callbackLock(t)
    \/ httpManagerCallback(t)
    \/ cancel(t)
    \/ installDelegate(t)

NetworkStep(r) ==
    \/ didReceiveResponse(r)
    \/ didReceiveData(r)
    \/ \E failed \in BOOLEAN : \/ connectionEnds(r, failed)
                               \/ connectionEndsUnheard(r, failed)
                               \/ completionBlock(r, failed)

AppStep(t) ==
    \/ \E o \in Ops : getHTTPManager(t, o)
    \/ \E d \in Delegates \cup {None, BadDelegate} : setDelegate(t, d)
    \/ delegateReturns(t)
    \/ handlerReturns(t)

Next ==
    \/ \E t \in Threads : \/ ThreadStep(t)
                          \/ AppStep(t)
                          \/ \E ok \in BOOLEAN : syncReturn(t, ok)
    \/ \E r \in Requests : NetworkStep(r)

Spec == Init /\ [][Next]_vars

\* A thread inside the client keeps running and a blocking request returns (WF).
\* The application's callbacks return, every connection ends (NSURLConnection
\* times out) and the run loop serves its sources in turn, however often the
\* application calls the client in between (SF).
Fairness ==
    /\ \A t \in Threads : /\ WF_vars(ThreadStep(t))
                          /\ WF_vars(\E ok \in BOOLEAN : syncReturn(t, ok))
                          /\ SF_vars(delegateReturns(t) \/ handlerReturns(t))
    /\ \A r \in Requests : SF_vars(\E failed \in BOOLEAN :
                                      \/ connectionEnds(r, failed)
                                      \/ connectionEndsUnheard(r, failed)
                                      \/ completionBlock(r, failed))

FairSpec == Spec /\ Fairness

-----------------------------------------------------------------------------
(* Properties *)

\* "any given instance of ApigeeHTTPManager can only manage one transaction at a
\* time": no two unfinished transactions share a manager of the pool, and a
\* manager with an unfinished transaction is never offered by isAvailable.
OneTransactionPerManager ==
    \A r \in Requests : state[r] \in Busy =>
        /\ ~m_bAvailable[managerOf[r]]
        /\ \A s \in Requests \ {r} : state[s] \in Busy => managerOf[s] # managerOf[r]

\* A response carries the transaction ID its call returned and nobody else's
\* bytes, although both are read from manager fields that the next transaction
\* on that manager overwrites.
ResponsesMatchRequests ==
    \A r \in Requests : answered[r] # 0 =>
        /\ answer[r].id = idOf[r]
        /\ answer[r].data \subseteq {r}

\* No call is answered twice: by a callback after its cancellation, by a late
\* connection event, or by a failure and a response.
AnsweredAtMostOnce == \A r \in Requests : answered[r] <= 1

\* setDelegate "ensures that the previous delegate will receive no further
\* messages", and a new delegate gets no answer to a call made before it.
AnswersGoToTheAskingDelegate ==
    \A r \in Requests : answered[r] # 0 => answer[r].to = asked[r]

\* What became of a call that was not answered: setDelegate abandoned it, or it was a
\* blocking upload that failed and returned nil.
IsAbandoned(r) == cancelled[r] /\ asked[r] # None
ReturnedNil(r) == opOf[r] = "assetUpload" /\ state[r] = "done" /\ answered[r] = 0

\* The client implements ClientPromise: each call is answered, abandoned or a blocking upload
\* that returned nil, one of these and only one, by an ID of its own, and no call that was
\* sent with a delegate is still to be answered when another is installed. A call that ends
\* in none of these ways is lost, one that is answered twice is answered again; the promise
\* knows of neither. That an upload may return nil is the code's, not its documentation's.

Uploads == {r \in Requests : opOf[r] = "assetUpload" /\ state[r] # "unused"}

Status(r) ==
    CASE answered[r] > 1 -> "answered again"
      [] answered[r] = 1 -> "answered"
      [] answered[r] = 0 /\ IsAbandoned(r) -> "abandoned"
      [] answered[r] = 0 /\ ~IsAbandoned(r) /\ state[r] = "unused" -> "unmade"
      [] answered[r] = 0 /\ ~IsAbandoned(r) /\ state[r] = "calling" -> "made"
      [] answered[r] = 0 /\ ~IsAbandoned(r) /\ state[r] \in Open \cup Ending -> "sent"
      [] ~IsAbandoned(r) /\ ReturnedNil(r) -> "nil"
      [] answered[r] = 0 /\ ~IsAbandoned(r) /\ ~ReturnedNil(r)
            /\ state[r] \in {"callback", "done"} -> "lost"

Promise == INSTANCE ClientPromise WITH
    Calls <- Requests, NoID <- kInvalidTransactionID, delegate <- m_delegate,
    replacing <- pc[Main] = "cancel", status <- [r \in Requests |-> Status(r)],
    recipient <- asked, id <- idOf,
    uploads <- Uploads

ClientKeepsItsPromise == Promise!Spec

\* Every call is answered, unless setDelegate abandoned it or it is a blocking upload that
\* failed: attachAssetToEntity then returns nil in place of the failure it has built.
EveryCallIsAnswered ==
    \A r \in Requests :
        state[r] = "calling" ~> (answered[r] # 0 \/ cancelled[r] \/ ReturnedNil(r))

\* "@return ApigeeClientResponse instance" (ApigeeDataClient.h:1818): a blocking upload gives
\* its caller a response.  Not so: one that fails returns nil (ApigeeDataClient.m:609, :617).
UploadsReturnAResponse == \A r \in Requests : ~ReturnedNil(r)

\* The comment in cancel: the manager of a cancelled transaction remains in use
\* "until we get the reply or error", so once that has come the pool has it back.
CancelledManagerComesBack ==
    \A r \in Requests :
        cancelled[r] /\ state[r] = "done" /\ opOf[r] # "accessToken" =>
            \/ m_bAvailable[managerOf[r]]
            \/ \E s \in Requests : state[s] \in Busy /\ managerOf[s] = managerOf[r]
            \/ \E t \in Threads : pc[t] = "start" /\ cur[t] = managerOf[r]

\* The thread whose lock t is waiting for.
WaitsFor(t) ==
    CASE pc[t] \in {"start", "cancel"} /\ cur[t] \in 1 .. poolSize -> mgrLock[cur[t]]
      [] pc[t] = "cancel" /\ cur[t] > poolSize -> m_delegateLock
      [] pc[t] = "cbLock" -> mgrLock[managerOf[frame[t]]]
      [] pc[t] = "cbClient" -> m_delegateLock
      [] OTHER -> None

\* "it's safe to call cancel at all times": no two threads wait for each other's
\* delegate lock.
NoLockCycle ==
    \A t, u \in Threads : t # u => ~(WaitsFor(t) = u /\ WaitsFor(u) = t)

\* The delegate is called by one thread at a time, and setDelegate on another
\* thread does not return while it is being called: the delegate it replaced is
\* then left alone.
DelegateIsCalled(t) == frame[t] # 0 /\ state[frame[t]] = "callback" /\ asked[frame[t]] # None

DelegateCallsExcludeEachOther ==
    \A t, u \in Threads : DelegateIsCalled(t) /\ DelegateIsCalled(u) => t = u

setDelegateWaitsForCallback ==
    [][\A t, u \in Threads :
          pc[t] = "cancel" /\ pc'[t] = "idle" /\ m_delegate' # m_delegate
             /\ DelegateIsCalled(u) => t = u]_vars

-----------------------------------------------------------------------------
(* The inductive invariant behind the properties, for a client that is used  *)
(* from the main thread only.                                                *)

SingleThread == Threads = {Main}

\* Calls are numbered in order and a call not yet sent has left no trace.
CallsInOrder ==
    /\ poolSize <= reqCount
    /\ \A r \in Requests : r > reqCount => state[r] = "unused"
    /\ \A r \in Requests : state[r] \in {"unused", "calling"} =>
          managerOf[r] = 0 /\ idOf[r] = kInvalidTransactionID /\ asked[r] = None
    /\ \A r \in Requests : state[r] \notin {"callback", "done"} => answered[r] = 0

\* What the main thread holds while it is making a call.
CallInv ==
    /\ pc[Main] \in {"take", "grow", "start", "syncWait"} => call[Main] \in 1 .. reqCount
    /\ pc[Main] \in {"take", "grow", "start"} => state[call[Main]] = "calling"
    /\ pc[Main] = "take" => cur[Main] \in 1 .. poolSize /\ m_bAvailable[cur[Main]]
    /\ pc[Main] = "grow" => poolSize < reqCount
    /\ pc[Main] = "start" =>
          /\ cur[Main] \in 1 .. poolSize
          /\ ~m_bAvailable[cur[Main]]
          /\ \A r \in Requests : state[r] \in Busy => managerOf[r] # cur[Main]
    /\ pc[Main] = "syncWait" =>
          state[call[Main]] = "blocked" /\ managerOf[call[Main]] = cur[Main]

\* An unfinished transaction owns its manager.
OwnershipInv ==
    \A r \in Requests : state[r] \in Busy =>
        /\ managerOf[r] \in 1 .. poolSize
        /\ ~m_bAvailable[managerOf[r]]
        /\ \A s \in Requests \ {r} : state[s] \in Busy => managerOf[s] # managerOf[r]

\* The manager's fields are those of the transaction that owns it.
FieldsInv ==
    \A r \in Requests : state[r] \in Busy =>
        /\ m_transactionID[managerOf[r]] = idOf[r]
        /\ state[r] = "blocked" =>
              asked[r] = None /\ idOf[r] = kInvalidTransactionID
        /\ opOf[r] \in HandlerOps => asked[r] = None
        /\ asked[r] # None => completionHandler[managerOf[r]] = None
        /\ asked[r] # None /\ mgrDelegate[managerOf[r]] /\ state[r] # "callback" =>
              asked[r] = m_delegate

\* The receive buffer of a manager holds only its transaction's bytes.
BufferInv ==
    \A r \in Requests :
        /\ state[r] = "headers" => m_receivedData[managerOf[r]] = {}
        /\ state[r] \in {"body", "finishing"} => m_receivedData[managerOf[r]] \subseteq {r}
        /\ state[r] \in {"headers", "body"} \cup Ending => asked[r] # None

\* The callback on the stack of the main thread.
FrameInv ==
    /\ pc[Main] \in {"cbLock", "cbClient"} =>
          frame[Main] # 0 /\ state[frame[Main]] \in Ending
    /\ pc[Main] = "cbClient" => mgrDelegate[managerOf[frame[Main]]]
    /\ frame[Main] # 0 /\ pc[Main] \notin {"cbLock", "cbClient"} =>
          state[frame[Main]] = "callback"

\* setDelegate has cancelled the managers it has passed.
CancelInv ==
    pc[Main] = "cancel" =>
        /\ cur[Main] \in 1 .. poolSize + 1
        /\ \A i \in 1 .. poolSize : i < cur[Main] => ~mgrDelegate[i]

IndInv ==
    /\ TypeOK
    /\ CallsInOrder
    /\ CallInv
    /\ OwnershipInv
    /\ FieldsInv
    /\ BufferInv
    /\ FrameInv
    /\ CancelInv
    /\ ResponsesMatchRequests
    /\ AnsweredAtMostOnce
    /\ AnswersGoToTheAskingDelegate

\* What the promise needs besides: IDs grow, what is cancelled is what lost its delegate, and
\* a call that has ended was answered unless it was cancelled or an upload that failed.
PromiseInv ==
    /\ \A r \in Requests : idOf[r] < nextTransactionID
    /\ \A r \in Requests : state[r] \in {"unused", "calling"} => ~cancelled[r]
    /\ \A r \in Requests : state[r] \in Open \cup Ending /\ asked[r] # None =>
          (cancelled[r] <=> ~mgrDelegate[managerOf[r]])
    /\ \A r \in Requests : state[r] \in {"callback", "done"} =>
          answered[r] # 0 \/ IsAbandoned(r) \/ ReturnedNil(r)

-----------------------------------------------------------------------------
(* The inductive invariant behind the exclusion of delegate callbacks, for a *)
(* client that is used from any threads.                                     *)

LockTypes ==
    /\ m_delegate \in Delegates \cup {None}
    /\ newDelegate \in [Threads -> Delegates \cup {None, BadDelegate}]
    /\ reqCount \in 0 .. MaxRequests
    /\ state \in [Requests -> States]
    /\ opOf \in [Requests -> Ops]
    /\ threadOf \in [Requests -> Threads]
    /\ asked \in [Requests -> Delegates \cup {None}]
    /\ pc \in [Threads -> PCs]
    /\ call \in [Threads -> 0 .. MaxRequests]
    /\ frame \in [Threads -> 0 .. MaxRequests]

\* A thread in the middle of a call is the one that made it.
CallsOfThreads ==
    /\ \A r \in Requests : r > reqCount => state[r] = "unused"
    /\ \A r \in Requests : state[r] \in {"unused", "calling"} => asked[r] = None
    /\ \A r \in Requests : asked[r] # None => opOf[r] \notin HandlerOps
    /\ \A t \in Threads :
          /\ pc[t] \in {"take", "grow", "start", "syncWait"} =>
                call[t] \in 1 .. reqCount /\ threadOf[call[t]] = t
          /\ pc[t] \in {"take", "grow", "start"} => state[call[t]] = "calling"
          /\ pc[t] = "syncWait" => state[call[t]] = "blocked"

\* A callback runs on the thread that made the call, a completion block on the main
\* thread, so that no two threads run the same one.
FramesOfThreads ==
    \A t \in Threads :
        /\ pc[t] \in {"cbLock", "cbClient"} =>
              frame[t] # 0 /\ state[frame[t]] \in Ending /\ asked[frame[t]] # None
        /\ frame[t] # 0 /\ pc[t] \notin {"cbLock", "cbClient"} => state[frame[t]] = "callback"
        /\ frame[t] # 0 => t = IF asked[frame[t]] # None THEN threadOf[frame[t]] ELSE Main

\* The client's lock is held as long as its delegate is called.
CalledUnderLock == \A t \in Threads : DelegateIsCalled(t) => m_delegateLock = t

LockInv == LockTypes /\ CallsOfThreads /\ FramesOfThreads /\ CalledUnderLock

=============================================================================
