--------------------------- MODULE DataClientProofs ---------------------------
(***************************************************************************)
(* A client used from the main thread only keeps one transaction per       *)
(* manager and hands every answer, once, to whom it belongs.  The proof    *)
(* shows that IndInv is inductive: a lemma per action of DataClient, each  *)
(* with one step per conjunct of IndInv.                                   *)
(*                                                                         *)
(* It also implements ClientPromise: each action is a step of the promise  *)
(* or goes unseen.  PromiseInv says what that needs besides.               *)
(*                                                                         *)
(* A client used from any threads calls its delegate from one of them at a *)
(* time, and setDelegate: waits for that callback.  The proof shows that   *)
(* LockInv is inductive: LockStep has one step per action.                 *)
(***************************************************************************)
EXTENDS DataClient, TLAPS

\* The client is used from the main thread only, which therefore made every call.
LEMMA OneThread ==
  ASSUME SingleThread, TypeOK
  PROVE  /\ Main \in Threads
         /\ Threads = {Main}
         /\ MaxRequests \in Nat
         /\ \A r \in Requests : threadOf[r] = Main
  BY DataClientAssumption DEF SingleThread, TypeOK

\* Handing the application a response keeps the types of the answers.
LEMMA RespondType ==
  ASSUME TypeOK, NEW r \in Requests, NEW bytes \in SUBSET Requests, NEW id \in IDs,
         NEW to \in Delegates \cup {None}, Respond(r, bytes, id, to)
  PROVE  /\ answered' \in [Requests -> Nat]
         /\ answer' \in [Requests -> Responses]
  <1>1. [data |-> bytes, id |-> id, to |-> to] \in Responses
    BY DEF Responses
  <1> QED BY <1>1 DEF TypeOK, Respond

\* An unfinished transaction runs on a manager of the pool.
LEMMA OwnerInPool ==
  ASSUME IndInv, NEW r \in Requests, state[r] \in Busy
  PROVE  managerOf[r] \in Managers /\ managerOf[r] \in 1 .. poolSize
  <1>1. managerOf[r] \in 1 .. poolSize
    BY DEF IndInv, OwnershipInv
  <1>2. poolSize \in 0 .. MaxRequests /\ MaxRequests \in Nat
    BY DataClientAssumption DEF IndInv, TypeOK
  <1> QED BY <1>1, <1>2 DEF Managers

\* The call whose application callback is running still owns its manager.
LEMMA FrameOwner ==
  ASSUME SingleThread, IndInv, frame[Main] # 0
  PROVE  /\ frame[Main] \in Requests
         /\ state[frame[Main]] \in Busy
         /\ managerOf[frame[Main]] \in Managers
         /\ managerOf[frame[Main]] \in 1 .. poolSize
  <1>m. Main \in Threads /\ MaxRequests \in Nat BY OneThread DEF IndInv
  <1>t. TypeOK BY DEF IndInv
  <1>0. frame[Main] \in 0 .. MaxRequests
    BY <1>m, <1>t DEF TypeOK
  <1>1. frame[Main] \in Requests
    BY <1>m, <1>0 DEF Requests
  <1>2. state[frame[Main]] \in Busy
    BY DEF IndInv, FrameInv, Busy
  <1>3. managerOf[frame[Main]] \in 1 .. poolSize
    BY <1>1, <1>2 DEF IndInv, OwnershipInv
  <1>4. poolSize \in 0 .. MaxRequests BY DEF IndInv, TypeOK
  <1> QED BY <1>m, <1>1, <1>2, <1>3, <1>4 DEF Managers

\* A call about to start its transaction (getHTTPManager has returned) is on a
\* manager in use that no unfinished transaction runs on.
LEMMA StartFacts ==
  ASSUME SingleThread, IndInv, pc[Main] = "start"
  PROVE  /\ call[Main] \in Requests /\ call[Main] <= reqCount
         /\ cur[Main] \in Managers /\ cur[Main] \in 1 .. poolSize
         /\ state[call[Main]] = "calling"
         /\ \A r \in Requests : state[r] \in Busy => managerOf[r] # cur[Main]
         /\ ~m_bAvailable[cur[Main]]
         /\ frame[Main] # 0 => frame[Main] \in Requests /\ state[frame[Main]] = "callback"
  <1>m. Main \in Threads /\ MaxRequests \in Nat BY OneThread DEF IndInv
  <1>2. call[Main] \in Requests /\ cur[Main] \in Managers /\ call[Main] <= reqCount /\ cur[Main] \in 1 .. poolSize
    BY <1>m DEF IndInv, CallInv, TypeOK, Requests, Managers
  <1>3. /\ state[call[Main]] = "calling"
        /\ \A r \in Requests : state[r] \in Busy => managerOf[r] # cur[Main]
        /\ ~m_bAvailable[cur[Main]]
    BY DEF IndInv, CallInv
  <1>4. frame[Main] # 0 => frame[Main] \in Requests /\ state[frame[Main]] = "callback"
    BY FrameOwner DEF IndInv, FrameInv
  <1> QED BY <1>2, <1>3, <1>4

-----------------------------------------------------------------------------
(* Making a call *)

\* getHTTPManager's scan preserves the invariant: what it found is still free.
LEMMA getHTTPManagerStep ==
  ASSUME SingleThread, IndInv, NEW o \in Ops, getHTTPManager(Main, o)
  PROVE  IndInv'
  <1>m. Main \in Threads /\ MaxRequests \in Nat BY DataClientAssumption
  <1>t. TypeOK BY DEF IndInv
  <1>w. pc[Main] = "idle" /\ reqCount < MaxRequests /\ reqCount + 1 \in Requests
    BY <1>m, <1>t DEF getHTTPManager, TypeOK, Requests
  <1>r. state[reqCount + 1] = "unused"
    BY <1>t, <1>w DEF IndInv, CallsInOrder, TypeOK
  <1>n. /\ reqCount' = reqCount + 1
        /\ call' = [call EXCEPT ![Main] = reqCount + 1]
        /\ state' = [state EXCEPT ![reqCount + 1] = "calling"]
        /\ opOf' = [opOf EXCEPT ![reqCount + 1] = o]
        /\ threadOf' = [threadOf EXCEPT ![reqCount + 1] = Main]
        /\ UNCHANGED <<poolSize, mgrVars, nextTransactionID, clientVars, sentVars,
                       cancelled, ansVars, newDelegate, frame>>
    BY DEF getHTTPManager
  <1>x. \/ pc' = [pc EXCEPT ![Main] = "grow"] /\ cur' = cur
        \/ \E i \in 1 .. poolSize : /\ m_bAvailable[i]
                                    /\ pc' = [pc EXCEPT ![Main] = "take"]
                                    /\ cur' = [cur EXCEPT ![Main] = i]
    BY DEF getHTTPManager
  <1>p. /\ pc' \in [Threads -> PCs] /\ cur' \in [Threads -> 0 .. MaxRequests + 1]
        /\ pc'[Main] \in {"take", "grow"}
        /\ pc'[Main] = "take" => cur'[Main] \in 1 .. poolSize /\ m_bAvailable[cur'[Main]]
    <2>1. CASE pc' = [pc EXCEPT ![Main] = "grow"] /\ cur' = cur
      BY <1>m, <1>t, <2>1 DEF TypeOK, PCs
    <2>2. ASSUME NEW i \in 1 .. poolSize, m_bAvailable[i],
                 pc' = [pc EXCEPT ![Main] = "take"], cur' = [cur EXCEPT ![Main] = i]
          PROVE  <1>p!:
      BY <1>m, <1>t, <2>2 DEF TypeOK, PCs
    <2> QED BY <1>x, <2>1, <2>2
  <1>1. TypeOK'
    <2>1. (call \in [Threads -> 0 .. MaxRequests] /\ reqCount \in 0 .. MaxRequests)'
      BY <1>m, <1>t, <1>w, <1>n DEF TypeOK
    <2>2. (state \in [Requests -> States] /\ opOf \in [Requests -> Ops])'
      BY <1>t, <1>w, <1>n DEF TypeOK, States
    <2>3. (threadOf \in [Requests -> Threads])'
      BY <1>m, <1>t, <1>w, <1>n DEF TypeOK
    <2> QED BY <1>t, <1>n, <1>p, <2>1, <2>2, <2>3
            DEF TypeOK, mgrVars, clientVars, sentVars, ansVars
  <1>2. CallsInOrder'
    <2>1. SUFFICES ASSUME NEW r \in Requests
          PROVE  /\ (r > reqCount => state[r] = "unused")'
                 /\ (state[r] \in {"unused", "calling"} =>
                        managerOf[r] = 0 /\ idOf[r] = kInvalidTransactionID /\ asked[r] = None)'
                 /\ (state[r] \notin {"callback", "done"} => answered[r] = 0)'
      BY <1>t, <1>n DEF IndInv, CallsInOrder, TypeOK
    <2>2. CASE r = reqCount + 1
      BY <1>t, <1>w, <1>r, <1>n, <2>2 DEF IndInv, TypeOK, CallsInOrder, sentVars,
         ansVars
    <2>3. CASE r # reqCount + 1
      <3>1. state'[r] = state[r]
        BY <1>t, <1>n, <2>3 DEF TypeOK
      <3>2. r > reqCount' => r > reqCount
        BY <1>t, <1>n DEF TypeOK, Requests
      <3> QED BY <1>n, <3>1, <3>2 DEF IndInv, CallsInOrder, sentVars, ansVars
    <2> QED BY <2>2, <2>3
  <1>3. CallInv'
    <2>1. call'[Main] = reqCount + 1 /\ state'[reqCount + 1] = "calling"
      BY <1>m, <1>t, <1>w, <1>n DEF TypeOK
    <2>2. reqCount + 1 \in 1 .. reqCount' /\ poolSize < reqCount'
      BY <1>t, <1>n DEF IndInv, CallsInOrder, TypeOK
    <2> QED BY <1>p, <1>n, <2>1, <2>2 DEF CallInv, mgrVars
  <1>4. OwnershipInv'
    BY <1>m DEF IndInv, TypeOK, getHTTPManager, mgrVars, clientVars, sentVars,
       ansVars, OwnershipInv, Busy, Open, Ending, CallInv, FrameInv
  <1>5. FieldsInv'
    BY <1>m DEF IndInv, TypeOK, getHTTPManager, mgrVars, clientVars, sentVars,
       ansVars, FieldsInv, Busy, Open, Ending, OwnershipInv, CallInv, CancelInv,
       FrameInv
  <1>6. BufferInv'
    BY <1>m DEF IndInv, TypeOK, getHTTPManager, mgrVars, clientVars, sentVars,
       ansVars, BufferInv, Busy, Open, Ending, OwnershipInv, FieldsInv, FrameInv,
       CallInv
  <1>7. FrameInv'
    <2>1. frame[Main] # 0 => frame[Main] \in Requests /\ state[frame[Main]] = "callback"
      BY <1>w, FrameOwner DEF IndInv, FrameInv
    <2> QED BY <1>t, <1>w, <1>r, <1>n, <1>p, <2>1 DEF TypeOK, FrameInv
  <1>8. CancelInv'
    BY <1>m DEF IndInv, TypeOK, getHTTPManager, mgrVars, clientVars, sentVars,
       ansVars, CancelInv
  <1>9. ResponsesMatchRequests'
    BY <1>m DEF IndInv, TypeOK, getHTTPManager, mgrVars, clientVars, sentVars,
       ansVars, ResponsesMatchRequests, CallsInOrder, CallInv, FrameInv, FieldsInv
  <1>10. AnsweredAtMostOnce'
    BY <1>m DEF IndInv, TypeOK, getHTTPManager, mgrVars, clientVars, sentVars,
       ansVars, AnsweredAtMostOnce
  <1>11. AnswersGoToTheAskingDelegate'
    BY <1>m DEF IndInv, TypeOK, getHTTPManager, mgrVars, clientVars, sentVars,
       ansVars, AnswersGoToTheAskingDelegate
  <1> QED BY <1>1, <1>2, <1>3, <1>4, <1>5, <1>6, <1>7, <1>8, <1>9, <1>10, <1>11 DEF
     IndInv

\* setAvailable:NO preserves the invariant.
LEMMA takeManagerStep ==
  ASSUME SingleThread, IndInv, takeManager(Main)
  PROVE  IndInv'
  <1>m. Main \in Threads /\ MaxRequests \in Nat BY DataClientAssumption
  <1>t. TypeOK BY DEF IndInv
  <1>w. /\ pc[Main] = "take" /\ cur[Main] \in 1 .. poolSize /\ cur[Main] \in Managers
        /\ m_bAvailable[cur[Main]] /\ call[Main] \in 1 .. reqCount
        /\ state[call[Main]] = "calling"
    BY <1>m, <1>t DEF IndInv, CallInv, takeManager, TypeOK, Managers
  <1>1. TypeOK'
    BY <1>m DEF IndInv, TypeOK, takeManager, clientVars, callVars, sentVars,
       ansVars, IDs, kInvalidTransactionID, Responses, States, PCs, Busy, Open
  <1>2. CallsInOrder'
    BY <1>m DEF IndInv, TypeOK, takeManager, clientVars, callVars, sentVars,
       ansVars, CallsInOrder
  <1>3. CallInv'
    <2>1. pc'[Main] = "start" /\ ~m_bAvailable'[cur[Main]]
      BY <1>m, <1>t, <1>w DEF takeManager, TypeOK
    <2>2. \A r \in Requests : state[r] \in Busy => managerOf[r] # cur[Main]
      BY <1>w DEF IndInv, OwnershipInv
    <2> QED BY <1>w, <2>1, <2>2 DEF takeManager, CallInv, callVars, sentVars
  <1>4. OwnershipInv'
    BY <1>m DEF IndInv, TypeOK, takeManager, clientVars, callVars, sentVars,
       ansVars, OwnershipInv
  <1>5. FieldsInv'
    BY <1>m DEF IndInv, TypeOK, takeManager, clientVars, callVars, sentVars,
       ansVars, FieldsInv
  <1>6. BufferInv'
    BY <1>m DEF IndInv, TypeOK, takeManager, clientVars, callVars, sentVars,
       ansVars, BufferInv
  <1>7. FrameInv'
    BY <1>m DEF IndInv, TypeOK, takeManager, clientVars, callVars, sentVars,
       ansVars, FrameInv
  <1>8. CancelInv'
    BY <1>m DEF IndInv, TypeOK, takeManager, clientVars, callVars, sentVars,
       ansVars, CancelInv
  <1>9. ResponsesMatchRequests'
    BY <1>m DEF IndInv, TypeOK, takeManager, clientVars, callVars, sentVars,
       ansVars, ResponsesMatchRequests
  <1>10. AnsweredAtMostOnce'
    BY <1>m DEF IndInv, TypeOK, takeManager, clientVars, callVars, sentVars,
       ansVars, AnsweredAtMostOnce
  <1>11. AnswersGoToTheAskingDelegate'
    BY <1>m DEF IndInv, TypeOK, takeManager, clientVars, callVars, sentVars,
       ansVars, AnswersGoToTheAskingDelegate
  <1> QED BY <1>1, <1>2, <1>3, <1>4, <1>5, <1>6, <1>7, <1>8, <1>9, <1>10, <1>11 DEF
     IndInv

\* A new manager in the pool preserves the invariant.
LEMMA growPoolStep ==
  ASSUME SingleThread, IndInv, growPool(Main)
  PROVE  IndInv'
  <1>m. Main \in Threads /\ MaxRequests \in Nat BY DataClientAssumption
  <1>1. TypeOK'
    <2>t. TypeOK /\ Threads = {Main}
      BY DEF IndInv, SingleThread
    <2>i. poolSize + 1 \in Managers
      BY <1>m DEF IndInv, TypeOK, growPool, clientVars, callVars, sentVars, ansVars,
         CallsInOrder, CallInv, FrameInv, OwnershipInv, CancelInv, Managers,
         Requests, Busy, Open
    <2>1. (poolSize \in 0 .. MaxRequests)'
      BY <1>m, <2>t, <2>i DEF TypeOK, growPool, clientVars, callVars, sentVars,
         ansVars, Managers
    <2>2. (m_bAvailable \in [Managers -> BOOLEAN])'
      BY <1>m, <2>t, <2>i DEF TypeOK, growPool, clientVars, callVars, sentVars,
         ansVars, Managers
    <2>3. (pc \in [Threads -> PCs])'
      BY <1>m, <2>t, <2>i DEF TypeOK, growPool, clientVars, callVars, sentVars,
         ansVars, PCs, Managers
    <2>4. (cur \in [Threads -> 0 .. MaxRequests + 1])'
      BY <1>m, <2>t, <2>i DEF TypeOK, growPool, clientVars, callVars, sentVars,
         ansVars, Managers
    <2>u. UNCHANGED <<m_transactionID, mgrDelegate, completionHandler, m_receivedData,
                       mgrLock, nextTransactionID, m_delegate, m_delegateLock,
                       reqCount, state, opOf, managerOf, threadOf, idOf, asked,
                       cancelled, answered, answer, call, newDelegate, frame>>
      BY DEF growPool, clientVars, callVars, sentVars, ansVars
    <2> QED
      BY <2>t, <2>1, <2>2, <2>3, <2>4, <2>u DEF TypeOK
  <1>2. CallsInOrder'
    BY <1>m DEF IndInv, TypeOK, growPool, clientVars, callVars, sentVars, ansVars,
       CallsInOrder, CallInv
  <1>3. CallInv'
    BY <1>m DEF IndInv, TypeOK, growPool, clientVars, callVars, sentVars, ansVars,
       CallInv, Busy, Open, Ending, CallsInOrder, OwnershipInv, Managers, Requests
  <1>4. OwnershipInv'
    BY <1>m DEF IndInv, TypeOK, growPool, clientVars, callVars, sentVars, ansVars,
       OwnershipInv
  <1>5. FieldsInv'
    BY <1>m DEF IndInv, TypeOK, growPool, clientVars, callVars, sentVars, ansVars,
       FieldsInv
  <1>6. BufferInv'
    BY <1>m DEF IndInv, TypeOK, growPool, clientVars, callVars, sentVars, ansVars,
       BufferInv
  <1>7. FrameInv'
    BY <1>m DEF IndInv, TypeOK, growPool, clientVars, callVars, sentVars, ansVars,
       FrameInv
  <1>8. CancelInv'
    BY <1>m DEF IndInv, TypeOK, growPool, clientVars, callVars, sentVars, ansVars,
       CancelInv
  <1>9. ResponsesMatchRequests'
    BY <1>m DEF IndInv, TypeOK, growPool, clientVars, callVars, sentVars, ansVars,
       ResponsesMatchRequests
  <1>10. AnsweredAtMostOnce'
    BY <1>m DEF IndInv, TypeOK, growPool, clientVars, callVars, sentVars, ansVars,
       AnsweredAtMostOnce
  <1>11. AnswersGoToTheAskingDelegate'
    BY <1>m DEF IndInv, TypeOK, growPool, clientVars, callVars, sentVars, ansVars,
       AnswersGoToTheAskingDelegate
  <1> QED BY <1>1, <1>2, <1>3, <1>4, <1>5, <1>6, <1>7, <1>8, <1>9, <1>10, <1>11 DEF
     IndInv

\* The asset calls' argument check preserves the invariant.
LEMMA startBadArgsStep ==
  ASSUME SingleThread, IndInv, startBadArgs(Main)
  PROVE  IndInv'
  <1>m. Main \in Threads /\ MaxRequests \in Nat BY DataClientAssumption
  <1>1. TypeOK'
    <2>t. TypeOK /\ Threads = {Main}
      BY DEF IndInv, SingleThread
    <2>i. call[Main] \in Requests /\ cur[Main] \in Managers
      BY <1>m DEF IndInv, TypeOK, startBadArgs, callFails, Respond, Return, mgrVars,
         clientVars, callVars, sentVars, CallsInOrder, CallInv, FrameInv,
         OwnershipInv, CancelInv, Managers, Requests, Busy, Open
    <2>1. (state \in [Requests -> States])'
      BY <1>m, <2>t, <2>i DEF TypeOK, startBadArgs, callFails, Respond, Return,
         mgrVars, clientVars, callVars, sentVars, States, Busy, Open, Ending,
         Managers
    <2>2. (answered \in [Requests -> Nat])'
      BY <1>m, <2>t, <2>i DEF TypeOK, startBadArgs, callFails, Respond, Return,
         mgrVars, clientVars, callVars, sentVars, Managers
    <2>3. (answer \in [Requests -> Responses])'
      BY <1>m, <2>t, <2>i DEF TypeOK, startBadArgs, callFails, Respond, Return,
         mgrVars, clientVars, callVars, sentVars, Responses, IDs,
         kInvalidTransactionID, Managers
    <2>4. (pc \in [Threads -> PCs])'
      BY <1>m, <2>t, <2>i DEF TypeOK, startBadArgs, callFails, Respond, Return,
         mgrVars, clientVars, callVars, sentVars, PCs, Managers
    <2>5. (cur \in [Threads -> 0 .. MaxRequests + 1])'
      BY <1>m, <2>t, <2>i DEF TypeOK, startBadArgs, callFails, Respond, Return,
         mgrVars, clientVars, callVars, sentVars, Managers
    <2>6. (call \in [Threads -> 0 .. MaxRequests])'
      BY <1>m, <2>t, <2>i DEF TypeOK, startBadArgs, callFails, Respond, Return,
         mgrVars, clientVars, callVars, sentVars, Managers
    <2>u. UNCHANGED <<poolSize, m_bAvailable, m_transactionID, mgrDelegate,
                       completionHandler, m_receivedData, mgrLock, nextTransactionID,
                       m_delegate, m_delegateLock, reqCount, opOf, managerOf, threadOf,
                       idOf, asked, cancelled, newDelegate, frame>>
      BY DEF startBadArgs, callFails, Respond, Return, mgrVars, clientVars,
         callVars, sentVars
    <2> QED
      BY <2>t, <2>1, <2>2, <2>3, <2>4, <2>5, <2>6, <2>u DEF TypeOK
  <1>2. CallsInOrder'
    BY <1>m DEF IndInv, TypeOK, startBadArgs, callFails, Respond, Return, mgrVars,
       clientVars, callVars, sentVars, CallsInOrder, CallInv
  <1>3. CallInv'
    BY <1>m DEF IndInv, TypeOK, startBadArgs, callFails, Respond, Return, mgrVars,
       clientVars, callVars, sentVars, CallInv
  <1>4. OwnershipInv'
    BY <1>m DEF IndInv, TypeOK, startBadArgs, callFails, Respond, Return, mgrVars,
       clientVars, callVars, sentVars, OwnershipInv, Busy, Open, Ending, CallInv,
       FrameInv
  <1>5. FieldsInv'
    BY <1>m DEF IndInv, TypeOK, startBadArgs, callFails, Respond, Return, mgrVars,
       clientVars, callVars, sentVars, FieldsInv, Busy, Open, Ending, OwnershipInv,
       CallInv, CancelInv, FrameInv
  <1>6. BufferInv'
    BY <1>m DEF IndInv, TypeOK, startBadArgs, callFails, Respond, Return, mgrVars,
       clientVars, callVars, sentVars, BufferInv, Busy, Open, Ending, OwnershipInv,
       FieldsInv, FrameInv, CallInv
  <1>7. FrameInv'
    BY <1>m DEF IndInv, TypeOK, startBadArgs, callFails, Respond, Return, mgrVars,
       clientVars, callVars, sentVars, FrameInv, CallInv, CancelInv
  <1>8. CancelInv'
    BY <1>m DEF IndInv, TypeOK, startBadArgs, callFails, Respond, Return, mgrVars,
       clientVars, callVars, sentVars, CancelInv
  <1>9. ResponsesMatchRequests'
    BY <1>m DEF IndInv, TypeOK, startBadArgs, callFails, Respond, Return, mgrVars,
       clientVars, callVars, sentVars, ResponsesMatchRequests, CallsInOrder,
       CallInv, FrameInv, FieldsInv
  <1>10. AnsweredAtMostOnce'
    BY <1>m DEF IndInv, TypeOK, startBadArgs, callFails, Respond, Return, mgrVars,
       clientVars, callVars, sentVars, AnsweredAtMostOnce, CallsInOrder, CallInv,
       FrameInv
  <1>11. AnswersGoToTheAskingDelegate'
    BY <1>m DEF IndInv, TypeOK, startBadArgs, callFails, Respond, Return, mgrVars,
       clientVars, callVars, sentVars, AnswersGoToTheAskingDelegate, CallsInOrder,
       CallInv, FrameInv, FieldsInv
  <1> QED BY <1>1, <1>2, <1>3, <1>4, <1>5, <1>6, <1>7, <1>8, <1>9, <1>10, <1>11 DEF
     IndInv

\* Starting a synchronous transaction preserves the invariant.
LEMMA syncTransactionStep ==
  ASSUME SingleThread, IndInv, syncTransaction(Main)
  PROVE  IndInv'
  <1>m. Main \in Threads /\ MaxRequests \in Nat BY DataClientAssumption
  <1>s. pc[Main] = "start" BY DEF syncTransaction
  <1>t. TypeOK BY DEF IndInv
  <1>1. TypeOK'
    <2>t. TypeOK /\ Threads = {Main}
      BY DEF IndInv, SingleThread
    <2>i. call[Main] \in Requests /\ cur[Main] \in Managers
      BY <1>m DEF IndInv, TypeOK, syncTransaction, clientVars, callVars, ansVars,
         CallsInOrder, CallInv, FrameInv, OwnershipInv, CancelInv, Managers,
         Requests, Busy, Open
    <2>1. (m_transactionID \in [Managers -> IDs])'
      BY <1>m, <2>t, <2>i DEF TypeOK, syncTransaction, clientVars, callVars,
         ansVars, IDs, kInvalidTransactionID, Managers
    <2>2. (state \in [Requests -> States])'
      BY <1>m, <2>t, <2>i DEF TypeOK, syncTransaction, clientVars, callVars,
         ansVars, States, Busy, Open, Ending, Managers
    <2>3. (managerOf \in [Requests -> 0 .. MaxRequests])'
      BY <1>m, <2>t, <2>i DEF TypeOK, syncTransaction, clientVars, callVars,
         ansVars, Managers
    <2>4. (pc \in [Threads -> PCs])'
      BY <1>m, <2>t, <2>i DEF TypeOK, syncTransaction, clientVars, callVars,
         ansVars, PCs, Managers
    <2>u. UNCHANGED <<poolSize, m_bAvailable, mgrDelegate, completionHandler,
                       m_receivedData, mgrLock, nextTransactionID, m_delegate,
                       m_delegateLock, reqCount, opOf, threadOf, idOf, asked,
                       cancelled, answered, answer, cur, call, newDelegate, frame>>
      BY DEF syncTransaction, clientVars, callVars, ansVars
    <2> QED
      BY <2>t, <2>1, <2>2, <2>3, <2>4, <2>u DEF TypeOK
  <1>2. CallsInOrder'
    BY <1>m DEF IndInv, TypeOK, syncTransaction, clientVars, callVars, ansVars,
       CallsInOrder, CallInv
  <1>3. CallInv'
    BY <1>m DEF IndInv, TypeOK, syncTransaction, clientVars, callVars, ansVars,
       CallInv, Busy, Open, Ending, CallsInOrder, OwnershipInv, Managers, Requests
  <1>4. OwnershipInv'
    BY <1>m DEF IndInv, TypeOK, syncTransaction, clientVars, callVars, ansVars,
       OwnershipInv, CallInv, FrameInv
  <1>5. FieldsInv'
    <2>1. SUFFICES ASSUME NEW r \in Requests, state'[r] \in Busy
          PROVE  /\ (m_transactionID[managerOf[r]] = idOf[r])'
                 /\ (state[r] = "blocked" => asked[r] = None /\ idOf[r] = kInvalidTransactionID)'
                 /\ (opOf[r] \in HandlerOps => asked[r] = None)'
                 /\ (asked[r] # None => completionHandler[managerOf[r]] = None)'
                 /\ (asked[r] # None /\ mgrDelegate[managerOf[r]] /\ state[r] # "callback" =>
                        asked[r] = m_delegate)'
      BY DEF FieldsInv
    <2>2. CASE r = call[Main]
      <3>1. asked[r] = None /\ idOf[r] = kInvalidTransactionID
        BY <1>s, <2>2, StartFacts DEF IndInv, CallsInOrder
      <3> QED BY <1>s, <1>t, <2>1, <2>2, <3>1, StartFacts DEF TypeOK,
         syncTransaction, clientVars
    <2>3. CASE r # call[Main]
      <3>1. state[r] \in Busy
        BY <1>t, <2>1, <2>3 DEF TypeOK, syncTransaction
      <3>2. managerOf[r] \in Managers /\ managerOf[r] # cur[Main]
        BY <1>s, <3>1, StartFacts, OwnerInPool
      <3> QED BY <1>s, <1>t, <2>1, <2>3, <3>1, <3>2, StartFacts DEF TypeOK,
         syncTransaction, IndInv, FieldsInv, clientVars, callVars
    <2> QED BY <2>2, <2>3
  <1>6. BufferInv'
    BY <1>m DEF IndInv, TypeOK, syncTransaction, clientVars, callVars, ansVars,
       BufferInv, Busy, Open, Ending, OwnershipInv, FieldsInv, FrameInv, CallInv
  <1>7. FrameInv'
    BY <1>m DEF IndInv, TypeOK, syncTransaction, clientVars, callVars, ansVars,
       FrameInv, CallInv, CancelInv
  <1>8. CancelInv'
    BY <1>m DEF IndInv, TypeOK, syncTransaction, clientVars, callVars, ansVars,
       CancelInv
  <1>9. ResponsesMatchRequests'
    BY <1>m DEF IndInv, TypeOK, syncTransaction, clientVars, callVars, ansVars,
       ResponsesMatchRequests
  <1>10. AnsweredAtMostOnce'
    BY <1>m DEF IndInv, TypeOK, syncTransaction, clientVars, callVars, ansVars,
       AnsweredAtMostOnce
  <1>11. AnswersGoToTheAskingDelegate'
    BY <1>m DEF IndInv, TypeOK, syncTransaction, clientVars, callVars, ansVars,
       AnswersGoToTheAskingDelegate
  <1> QED BY <1>1, <1>2, <1>3, <1>4, <1>5, <1>6, <1>7, <1>8, <1>9, <1>10, <1>11 DEF
     IndInv

\* The end of a blocking call, sent or not, preserves the invariant.
LEMMA BlockingCallEndsStep ==
  ASSUME SingleThread, IndInv, NEW ok \in BOOLEAN, NEW bytes \in SUBSET {call[Main]},
         pc[Main] \in {"start", "syncWait"}, blockingCallEnds(Main, ok, bytes)
  PROVE  IndInv'
  <1>m. Main \in Threads /\ MaxRequests \in Nat BY DataClientAssumption
  <1>t. TypeOK /\ Threads = {Main} BY DEF IndInv, SingleThread
  <1>w. /\ call[Main] \in Requests /\ call[Main] <= reqCount
        /\ state[call[Main]] \in {"calling", "blocked"}
        /\ cur[Main] \in Managers
        /\ \A r \in Requests \ {call[Main]} : state[r] \in Busy => managerOf[r] # cur[Main]
    <2>1. CASE pc[Main] = "start" BY <2>1, StartFacts
    <2>2. CASE pc[Main] = "syncWait"
      <3>1. call[Main] \in Requests /\ call[Main] <= reqCount
            /\ state[call[Main]] = "blocked" /\ managerOf[call[Main]] = cur[Main]
        BY <1>m, <1>t, <2>2 DEF IndInv, TypeOK, CallInv, Requests
      <3>2. cur[Main] \in Managers
        BY <3>1, OwnerInPool DEF Busy, Open
      <3>3. \A r \in Requests \ {call[Main]} : state[r] \in Busy => managerOf[r] # cur[Main]
        BY <3>1 DEF IndInv, OwnershipInv, Busy, Open
      <3> QED BY <3>1, <3>2, <3>3
    <2> QED BY <2>1, <2>2
  <1>e. /\ answered[call[Main]] = 0
        /\ idOf[call[Main]] = kInvalidTransactionID /\ asked[call[Main]] = None
    BY <1>w DEF IndInv, CallsInOrder, FieldsInv, Busy, Open
  <1>u. UNCHANGED <<poolSize, m_transactionID, mgrDelegate, completionHandler, m_receivedData,
                    mgrLock, nextTransactionID, m_delegate, m_delegateLock, reqCount, opOf,
                    managerOf, threadOf, idOf, asked, cancelled, newDelegate, frame>>
    BY DEF blockingCallEnds, clientVars, callVars, sentVars
  <1>b. m_bAvailable' = [m_bAvailable EXCEPT ![cur[Main]] = TRUE]
    BY DEF blockingCallEnds
  <1>s. state' = [state EXCEPT ![call[Main]] = "done"]
    BY DEF blockingCallEnds
  <1>r. \/ UNCHANGED <<answered, answer>>
        \/ /\ answered' = [answered EXCEPT ![call[Main]] = 1]
           /\ answer' = [answer EXCEPT ![call[Main]] =
                            [data |-> bytes, id |-> kInvalidTransactionID, to |-> None]]
    BY <1>t, <1>w, <1>e DEF blockingCallEnds, Respond, ansVars
  <1>p. pc' = [pc EXCEPT ![Main] = "idle"] /\ cur' = [cur EXCEPT ![Main] = 0]
        /\ call' = [call EXCEPT ![Main] = 0]
    BY DEF blockingCallEnds, Return
  <1> HIDE DEF blockingCallEnds
  <1>1. TypeOK'
    <2>1. (m_bAvailable \in [Managers -> BOOLEAN] /\ state \in [Requests -> States])'
      BY <1>t, <1>b, <1>s DEF TypeOK, States
    <2>2. (answered \in [Requests -> Nat])'
      BY <1>t, <1>r DEF TypeOK
    <2>3. (answer \in [Requests -> Responses])'
      <3>1. [data |-> bytes, id |-> kInvalidTransactionID, to |-> None] \in Responses
        BY <1>w DEF Responses, IDs
      <3> QED BY <1>t, <1>r, <3>1 DEF TypeOK
    <2>4. (/\ pc \in [Threads -> PCs]
           /\ cur \in [Threads -> 0 .. MaxRequests + 1]
           /\ call \in [Threads -> 0 .. MaxRequests])'
      BY <1>m, <1>t, <1>p DEF TypeOK, PCs
    <2> QED BY <1>t, <1>u, <2>1, <2>2, <2>3, <2>4 DEF TypeOK
  <1>k. \A r \in Requests : state'[r] = IF r = call[Main] THEN "done" ELSE state[r]
    BY <1>t, <1>s DEF TypeOK
  <1>i. pc'[Main] = "idle"
    BY <1>m, <1>t, <1>p DEF TypeOK
  <1>f. \A r \in Requests :
           /\ r # call[Main] => answered'[r] = answered[r] /\ answer'[r] = answer[r]
           /\ answered'[r] # 0 /\ r = call[Main] =>
                 /\ answered'[r] = 1
                 /\ answer'[r].id = kInvalidTransactionID
                 /\ answer'[r].to = None
                 /\ answer'[r].data \subseteq {r}
    BY <1>t, <1>w, <1>e, <1>r DEF TypeOK
  <1>2. CallsInOrder'
    <2>1. CallsInOrder BY DEF IndInv
    <2>2. call[Main] \in Nat /\ reqCount \in Nat BY <1>m, <1>t, <1>w DEF TypeOK, Requests
    <2>3. \A r \in Requests : r > reqCount => r # call[Main]
      BY <1>w, <2>2 DEF Requests
    <2>4. (\A r \in Requests : r > reqCount => state[r] = "unused")'
      BY <1>k, <1>u, <2>1, <2>3 DEF CallsInOrder
    <2>5. (\A r \in Requests : state[r] \in {"unused", "calling"} =>
              managerOf[r] = 0 /\ idOf[r] = kInvalidTransactionID /\ asked[r] = None)'
      BY <1>k, <1>u, <2>1 DEF CallsInOrder
    <2>6. (\A r \in Requests : state[r] \notin {"callback", "done"} => answered[r] = 0)'
      BY <1>k, <1>f, <2>1 DEF CallsInOrder
    <2> QED BY <1>u, <2>1, <2>4, <2>5, <2>6 DEF CallsInOrder
  <1>3. CallInv'
    BY <1>i DEF CallInv
  <1>4. OwnershipInv'
    <2>1. \A r \in Requests : state'[r] \in Busy => r # call[Main] /\ state[r] \in Busy
      BY <1>k DEF Busy, Open, Ending
    <2>2. \A r \in Requests : state'[r] \in Busy => managerOf[r] # cur[Main] /\ managerOf[r] \in Managers
      BY <1>w, <2>1, OwnerInPool
    <2> QED BY <1>t, <1>u, <1>b, <2>1, <2>2 DEF TypeOK, IndInv, OwnershipInv
  <1>5. FieldsInv'
    BY <1>k, <1>u DEF IndInv, FieldsInv, Busy, Open, Ending
  <1>6. BufferInv'
    BY <1>k, <1>u DEF IndInv, BufferInv, Ending
  <1>7. FrameInv'
    <2>1. FrameInv /\ frame[Main] \in 0 .. MaxRequests BY <1>m, <1>t DEF IndInv, TypeOK
    <2>2. frame[Main] # 0 => state[frame[Main]] = "callback" /\ frame[Main] \in Requests
      BY <1>m, <2>1 DEF FrameInv, Requests
    <2> QED BY <1>i, <1>k, <1>w, <1>u, <2>2 DEF FrameInv
  <1>8. CancelInv'
    BY <1>i DEF CancelInv
  <1>9. ResponsesMatchRequests'
    BY <1>e, <1>f, <1>u DEF IndInv, ResponsesMatchRequests
  <1>10. AnsweredAtMostOnce'
    <2>1. \A r \in Requests : answered'[r] \in Nat BY <1>1 DEF TypeOK
    <2> QED BY <1>f, <2>1 DEF IndInv, AnsweredAtMostOnce
  <1>11. AnswersGoToTheAskingDelegate'
    BY <1>e, <1>f, <1>u DEF IndInv, AnswersGoToTheAskingDelegate
  <1> QED BY <1>1, <1>2, <1>3, <1>4, <1>5, <1>6, <1>7, <1>8, <1>9, <1>10, <1>11 DEF
     IndInv

\* Ending a synchronous transaction preserves the invariant.
LEMMA syncReturnStep ==
  ASSUME SingleThread, IndInv, NEW ok \in BOOLEAN, syncReturn(Main, ok)
  PROVE  IndInv'
  BY BlockingCallEndsStep DEF syncReturn

\* So does a blocking call that sends nothing.
LEMMA syncBadArgsStep ==
  ASSUME SingleThread, IndInv, syncBadArgs(Main)
  PROVE  IndInv'
  BY BlockingCallEndsStep DEF syncBadArgs

\* What asyncTransaction:delegate: finds when it starts.
LEMMA AsyncCommon ==
  ASSUME SingleThread, IndInv, NEW ok \in BOOLEAN, asyncTransactionDelegate(Main, ok)
  PROVE  /\ call[Main] \in Requests /\ call[Main] <= reqCount
         /\ cur[Main] \in Managers /\ cur[Main] \in 1 .. poolSize
         /\ state[call[Main]] = "calling"
         /\ \A r \in Requests : state[r] \in Busy => managerOf[r] # cur[Main]
         /\ ~m_bAvailable[cur[Main]]
         /\ frame[Main] # 0 => frame[Main] \in Requests /\ state[frame[Main]] = "callback"
         /\ pc'[Main] = "idle"
  <1>m. Main \in Threads /\ MaxRequests \in Nat BY OneThread DEF IndInv
  <1>1. pc[Main] = "start"
    BY DEF asyncTransactionDelegate
  <1>2. pc'[Main] = "idle"
    BY <1>m DEF asyncTransactionDelegate, Return, IndInv, TypeOK
  <1> QED BY <1>1, <1>2, StartFacts

\* The part of asyncTransaction:delegate: that does not depend on its outcome.
LEMMA AsyncEffect ==
  ASSUME NEW ok \in BOOLEAN, asyncTransactionDelegate(Main, ok)
  PROVE  /\ opOf[call[Main]] = "httpTransaction" /\ m_delegate # None
         /\ mgrDelegate' = [mgrDelegate EXCEPT ![cur[Main]] = TRUE]
         /\ completionHandler' = [completionHandler EXCEPT ![cur[Main]] = None]
         /\ m_transactionID' = [m_transactionID EXCEPT ![cur[Main]] = nextTransactionID]
         /\ nextTransactionID' = nextTransactionID + 1
         /\ Return(Main)
         /\ UNCHANGED <<poolSize, m_bAvailable, m_receivedData, mgrLock, clientVars,
                        callVars, cancelled, newDelegate, frame>>
  BY DEF asyncTransactionDelegate

\* asyncTransaction:delegate: with a connection preserves the invariant.
LEMMA AsyncSent ==
  ASSUME SingleThread, IndInv, NEW ok \in BOOLEAN, asyncTransactionDelegate(Main, ok),
         state' = [state EXCEPT ![call[Main]] = "sent"],
         managerOf' = [managerOf EXCEPT ![call[Main]] = cur[Main]],
         idOf' = [idOf EXCEPT ![call[Main]] = nextTransactionID],
         asked' = [asked EXCEPT ![call[Main]] = m_delegate],
         UNCHANGED ansVars
  PROVE  IndInv'
  <1>m. Main \in Threads /\ Threads = {Main} /\ MaxRequests \in Nat BY OneThread DEF
     IndInv
  <1>1. TypeOK'
    <2>1. (state \in [Requests -> States])' BY AsyncCommon, AsyncEffect DEF IndInv,
       TypeOK, States, Busy, Open
    <2>2. (managerOf \in [Requests -> 0 .. MaxRequests])' BY AsyncCommon, AsyncEffect, <1>m DEF
       IndInv, TypeOK
    <2>3. (idOf \in [Requests -> IDs] /\ m_transactionID \in [Managers -> IDs] /\ nextTransactionID \in Nat \ {0})'
      <3>1. nextTransactionID \in IDs /\ nextTransactionID + 1 \in Nat \ {0}
        BY DEF IndInv, TypeOK, IDs
      <3> QED BY <3>1, AsyncCommon, AsyncEffect DEF IndInv, TypeOK
    <2>4. (asked \in [Requests -> Delegates \cup {None}])' BY AsyncCommon, AsyncEffect DEF
       IndInv, TypeOK
    <2>5. (mgrDelegate \in [Managers -> BOOLEAN] /\ completionHandler \in [Managers -> Requests \cup {None}])'
      BY AsyncCommon, AsyncEffect DEF IndInv, TypeOK
    <2>6. (pc \in [Threads -> PCs] /\ cur \in [Threads -> 0 .. MaxRequests + 1] /\ call \in [Threads -> 0 .. MaxRequests])'
      BY AsyncCommon, AsyncEffect, <1>m DEF IndInv, TypeOK, Return, PCs
    <2>7. UNCHANGED <<poolSize, m_bAvailable, m_receivedData, mgrLock, clientVars,
                   callVars, cancelled, newDelegate, frame, ansVars>>
      BY AsyncCommon, AsyncEffect
    <2> QED BY <2>1, <2>2, <2>3, <2>4, <2>5, <2>6, <2>7 DEF IndInv, TypeOK,
       clientVars, callVars, ansVars
  <1>2. CallsInOrder'
    BY AsyncCommon, AsyncEffect DEF IndInv, TypeOK, CallsInOrder, callVars, ansVars
  <1>3. CallInv' /\ CancelInv'
    BY AsyncCommon, AsyncEffect DEF CallInv, CancelInv
  <1>4. OwnershipInv'
    BY AsyncCommon, AsyncEffect DEF IndInv, TypeOK, OwnershipInv, Busy, Ending
  <1>5. FieldsInv'
    <2>1. SUFFICES ASSUME NEW r \in Requests, state'[r] \in Busy
          PROVE /\ (m_transactionID[managerOf[r]] = idOf[r])'
                /\ (state[r] = "blocked" => asked[r] = None /\ idOf[r] = kInvalidTransactionID)'
                /\ (opOf[r] \in HandlerOps => asked[r] = None)'
                /\ (asked[r] # None => completionHandler[managerOf[r]] = None)'
                /\ (asked[r] # None /\ mgrDelegate[managerOf[r]] /\ state[r] # "callback" =>
                        asked[r] = m_delegate)'
      BY DEF FieldsInv
    <2>2. CASE r = call[Main]
      BY <2>1, <2>2, AsyncCommon, AsyncEffect DEF IndInv, TypeOK, HandlerOps,
         callVars, clientVars, Busy, Open
    <2>3. CASE r # call[Main]
      <3>1. state[r] \in Busy /\ managerOf[r] \in Managers /\ managerOf[r] # cur[Main]
        <4>1. state[r] \in Busy /\ poolSize \in 0 .. MaxRequests
          BY <2>1, <2>3, AsyncCommon, AsyncEffect DEF IndInv, TypeOK
        <4> QED BY <4>1, <1>m, AsyncCommon, AsyncEffect DEF IndInv, OwnershipInv,
           Managers
      <3> QED BY <2>1, <2>3, <3>1, AsyncCommon, AsyncEffect DEF IndInv, TypeOK,
         FieldsInv, callVars, clientVars
    <2> QED BY <2>2, <2>3
  <1>6. BufferInv'
    BY AsyncCommon, AsyncEffect DEF IndInv, TypeOK, BufferInv
  <1>7. FrameInv'
    BY AsyncCommon, AsyncEffect DEF IndInv, TypeOK, FrameInv
  <1>8. ResponsesMatchRequests' /\ AnsweredAtMostOnce' /\ AnswersGoToTheAskingDelegate'
    <2>1. answered[call[Main]] = 0
      BY AsyncCommon, AsyncEffect DEF IndInv, CallsInOrder
    <2> QED BY <2>1, AsyncCommon, AsyncEffect DEF IndInv, TypeOK,
       ResponsesMatchRequests, AnsweredAtMostOnce, AnswersGoToTheAskingDelegate,
       ansVars
  <1> QED BY <1>1, <1>2, <1>3, <1>4, <1>5, <1>6, <1>7, <1>8 DEF IndInv

\* asyncTransaction:delegate: without a connection preserves the invariant.
LEMMA AsyncFails ==
  ASSUME SingleThread, IndInv, NEW ok \in BOOLEAN, asyncTransactionDelegate(Main, ok),
         callFails(Main), UNCHANGED sentVars
  PROVE  IndInv'
  <1>m. Main \in Threads /\ Threads = {Main} /\ MaxRequests \in Nat BY OneThread DEF
     IndInv
  <1>s. state' = [state EXCEPT ![call[Main]] = "done"] /\ Respond(call[Main], {}, kInvalidTransactionID, None)
    BY DEF callFails
  <1>1. TypeOK'
    <2>1. (state \in [Requests -> States])' BY <1>s, AsyncCommon, AsyncEffect DEF
       IndInv, TypeOK, States
    <2>2. (answered \in [Requests -> Nat] /\ answer \in [Requests -> Responses])'
      BY <1>s, AsyncCommon, AsyncEffect, RespondType DEF IndInv, IDs
    <2>3. (m_transactionID \in [Managers -> IDs] /\ nextTransactionID \in Nat \ {0})'
      BY AsyncCommon, AsyncEffect DEF IndInv, TypeOK, IDs
    <2>5. (mgrDelegate \in [Managers -> BOOLEAN] /\ completionHandler \in [Managers -> Requests \cup {None}])'
      BY AsyncCommon, AsyncEffect DEF IndInv, TypeOK
    <2>6. (pc \in [Threads -> PCs] /\ cur \in [Threads -> 0 .. MaxRequests + 1] /\ call \in [Threads -> 0 .. MaxRequests])'
      BY AsyncCommon, AsyncEffect, <1>m DEF IndInv, TypeOK, Return, PCs
    <2>7. UNCHANGED <<poolSize, m_bAvailable, m_receivedData, mgrLock, clientVars,
                   callVars, cancelled, newDelegate, frame, sentVars>>
      BY AsyncCommon, AsyncEffect
    <2> QED BY <2>1, <2>2, <2>3, <2>5, <2>6, <2>7 DEF IndInv, TypeOK, clientVars,
       callVars, sentVars
  <1>2. CallsInOrder'
    BY <1>s, AsyncCommon, AsyncEffect DEF IndInv, TypeOK, CallsInOrder, callVars,
       sentVars, Respond
  <1>3. CallInv' /\ CancelInv'
    BY AsyncCommon, AsyncEffect DEF CallInv, CancelInv
  <1>4. OwnershipInv'
    BY <1>s, AsyncCommon, AsyncEffect DEF IndInv, TypeOK, OwnershipInv, Busy,
       Ending, Open, sentVars
  <1>5. FieldsInv'
    <2>1. SUFFICES ASSUME NEW r \in Requests, state'[r] \in Busy
          PROVE /\ (m_transactionID[managerOf[r]] = idOf[r])'
                /\ (state[r] = "blocked" => asked[r] = None /\ idOf[r] = kInvalidTransactionID)'
                /\ (opOf[r] \in HandlerOps => asked[r] = None)'
                /\ (asked[r] # None => completionHandler[managerOf[r]] = None)'
                /\ (asked[r] # None /\ mgrDelegate[managerOf[r]] /\ state[r] # "callback" =>
                        asked[r] = m_delegate)'
      BY DEF FieldsInv
    <2>2. CASE r = call[Main]
      BY <2>1, <2>2, <1>s, AsyncCommon, AsyncEffect DEF IndInv, TypeOK, HandlerOps,
         callVars, clientVars, Busy, Open, Ending
    <2>3. CASE r # call[Main]
      <3>1. state[r] \in Busy /\ managerOf[r] \in Managers /\ managerOf[r] # cur[Main]
        <4>1. state[r] \in Busy /\ poolSize \in 0 .. MaxRequests
          BY <2>1, <2>3, <1>s, AsyncCommon, AsyncEffect DEF IndInv, TypeOK
        <4> QED BY <4>1, <1>m, AsyncCommon, AsyncEffect DEF IndInv, OwnershipInv,
           Managers
      <3> QED BY <2>1, <2>3, <3>1, <1>s, AsyncCommon, AsyncEffect DEF IndInv,
         TypeOK, FieldsInv, callVars, clientVars, sentVars
    <2> QED BY <2>2, <2>3
  <1>6. BufferInv'
    BY <1>s, AsyncCommon, AsyncEffect DEF IndInv, TypeOK, BufferInv, Ending,
       sentVars
  <1>7. FrameInv'
    BY <1>s, AsyncCommon, AsyncEffect DEF IndInv, TypeOK, FrameInv
  <1>8. ResponsesMatchRequests' /\ AnsweredAtMostOnce' /\ AnswersGoToTheAskingDelegate'
    <2>1. answered[call[Main]] = 0 /\ idOf[call[Main]] = kInvalidTransactionID /\ asked[call[Main]] = None
      BY AsyncCommon, AsyncEffect DEF IndInv, CallsInOrder
    <2> QED BY <2>1, <1>s, AsyncCommon, AsyncEffect DEF IndInv, TypeOK,
       ResponsesMatchRequests, AnsweredAtMostOnce, AnswersGoToTheAskingDelegate,
       sentVars, Respond
  <1> QED BY <1>1, <1>2, <1>3, <1>4, <1>5, <1>6, <1>7, <1>8 DEF IndInv

\* asyncTransaction:delegate: preserves the invariant.
LEMMA asyncTransactionDelegateStep ==
  ASSUME SingleThread, IndInv, NEW ok \in BOOLEAN, asyncTransactionDelegate(Main, ok)
  PROVE  IndInv'
  <1>1. CASE callFails(Main) /\ UNCHANGED sentVars
    BY <1>1, AsyncFails
  <1>2. CASE /\ state' = [state EXCEPT ![call[Main]] = "sent"]
             /\ managerOf' = [managerOf EXCEPT ![call[Main]] = cur[Main]]
             /\ idOf' = [idOf EXCEPT ![call[Main]] = nextTransactionID]
             /\ asked' = [asked EXCEPT ![call[Main]] = m_delegate]
             /\ UNCHANGED ansVars
    BY <1>2, AsyncSent
  <1> QED BY <1>1, <1>2 DEF asyncTransactionDelegate

\* asyncTransaction:completionHandler: preserves the invariant.
LEMMA asyncTransactionHandlerStep ==
  ASSUME SingleThread, IndInv, asyncTransactionHandler(Main)
  PROVE  IndInv'
  <1>m. Main \in Threads /\ MaxRequests \in Nat BY DataClientAssumption
  <1>s. pc[Main] = "start" BY DEF asyncTransactionHandler
  <1>t. TypeOK BY DEF IndInv
  <1>1. TypeOK'
    <2>t. TypeOK /\ Threads = {Main}
      BY DEF IndInv, SingleThread
    <2>i. call[Main] \in Requests /\ cur[Main] \in Managers
      BY <1>m DEF IndInv, TypeOK, asyncTransactionHandler, Return, clientVars,
         callVars, ansVars, CallsInOrder, CallInv, FrameInv, OwnershipInv,
         CancelInv, Managers, Requests, Busy, Open
    <2>1. (m_transactionID \in [Managers -> IDs])'
      BY <1>m, <2>t, <2>i DEF TypeOK, asyncTransactionHandler, Return, clientVars,
         callVars, ansVars, IDs, kInvalidTransactionID, Managers
    <2>2. (mgrDelegate \in [Managers -> BOOLEAN])'
      BY <1>m, <2>t, <2>i DEF TypeOK, asyncTransactionHandler, Return, clientVars,
         callVars, ansVars, Managers
    <2>3. (completionHandler \in [Managers -> Requests \cup {None}])'
      BY <1>m, <2>t, <2>i DEF TypeOK, asyncTransactionHandler, Return, clientVars,
         callVars, ansVars, Managers
    <2>4. (nextTransactionID \in Nat \ {0})'
      BY <1>m, <2>t, <2>i DEF TypeOK, asyncTransactionHandler, Return, clientVars,
         callVars, ansVars, Managers
    <2>5. (state \in [Requests -> States])'
      BY <1>m, <2>t, <2>i DEF TypeOK, asyncTransactionHandler, Return, clientVars,
         callVars, ansVars, States, Busy, Open, Ending, Managers
    <2>6. (managerOf \in [Requests -> 0 .. MaxRequests])'
      BY <1>m, <2>t, <2>i DEF TypeOK, asyncTransactionHandler, Return, clientVars,
         callVars, ansVars, Managers
    <2>7. (idOf \in [Requests -> IDs])'
      BY <1>m, <2>t, <2>i DEF TypeOK, asyncTransactionHandler, Return, clientVars,
         callVars, ansVars, IDs, kInvalidTransactionID, Managers
    <2>8. (pc \in [Threads -> PCs])'
      BY <1>m, <2>t, <2>i DEF TypeOK, asyncTransactionHandler, Return, clientVars,
         callVars, ansVars, PCs, Managers
    <2>9. (cur \in [Threads -> 0 .. MaxRequests + 1])'
      BY <1>m, <2>t, <2>i DEF TypeOK, asyncTransactionHandler, Return, clientVars,
         callVars, ansVars, Managers
    <2>10. (call \in [Threads -> 0 .. MaxRequests])'
      BY <1>m, <2>t, <2>i DEF TypeOK, asyncTransactionHandler, Return, clientVars,
         callVars, ansVars, Managers
    <2>u. UNCHANGED <<poolSize, m_bAvailable, m_receivedData, mgrLock, m_delegate,
                       m_delegateLock, reqCount, opOf, threadOf, asked, cancelled,
                       answered, answer, newDelegate, frame>>
      BY DEF asyncTransactionHandler, Return, clientVars, callVars, ansVars
    <2> QED
      BY <2>t, <2>1, <2>2, <2>3, <2>4, <2>5, <2>6, <2>7, <2>8, <2>9, <2>10, <2>u DEF
         TypeOK
  <1>2. CallsInOrder'
    BY <1>m DEF IndInv, TypeOK, asyncTransactionHandler, Return, clientVars,
       callVars, ansVars, CallsInOrder, CallInv
  <1>3. CallInv'
    BY <1>m DEF IndInv, TypeOK, asyncTransactionHandler, Return, clientVars,
       callVars, ansVars, CallInv
  <1>4. OwnershipInv'
    BY <1>m DEF IndInv, TypeOK, asyncTransactionHandler, Return, clientVars,
       callVars, ansVars, OwnershipInv, CallInv, FrameInv
  <1>5. FieldsInv'
    <2>1. SUFFICES ASSUME NEW r \in Requests, state'[r] \in Busy
          PROVE  /\ (m_transactionID[managerOf[r]] = idOf[r])'
                 /\ (state[r] = "blocked" => asked[r] = None /\ idOf[r] = kInvalidTransactionID)'
                 /\ (opOf[r] \in HandlerOps => asked[r] = None)'
                 /\ (asked[r] # None => completionHandler[managerOf[r]] = None)'
                 /\ (asked[r] # None /\ mgrDelegate[managerOf[r]] /\ state[r] # "callback" =>
                        asked[r] = m_delegate)'
      BY DEF FieldsInv
    <2>2. CASE r = call[Main]
      <3>1. asked[r] = None /\ idOf[r] = kInvalidTransactionID
        BY <1>s, <2>2, StartFacts DEF IndInv, CallsInOrder
      <3> QED BY <1>s, <1>t, <2>1, <2>2, <3>1, StartFacts DEF TypeOK,
         asyncTransactionHandler, clientVars
    <2>3. CASE r # call[Main]
      <3>1. state[r] \in Busy
        BY <1>t, <2>1, <2>3 DEF TypeOK, asyncTransactionHandler
      <3>2. managerOf[r] \in Managers /\ managerOf[r] # cur[Main]
        BY <1>s, <3>1, StartFacts, OwnerInPool
      <3> QED BY <1>s, <1>t, <2>1, <2>3, <3>1, <3>2, StartFacts DEF TypeOK,
         asyncTransactionHandler, IndInv, FieldsInv, clientVars, callVars
    <2> QED BY <2>2, <2>3
  <1>6. BufferInv'
    BY <1>m DEF IndInv, TypeOK, asyncTransactionHandler, Return, clientVars,
       callVars, ansVars, BufferInv, Busy, Open, Ending, OwnershipInv, FieldsInv,
       FrameInv, CallInv
  <1>7. FrameInv'
    BY <1>m DEF IndInv, TypeOK, asyncTransactionHandler, Return, clientVars,
       callVars, ansVars, FrameInv, CallInv, CancelInv
  <1>8. CancelInv'
    BY <1>m DEF IndInv, TypeOK, asyncTransactionHandler, Return, clientVars,
       callVars, ansVars, CancelInv
  <1>9. ResponsesMatchRequests'
    BY <1>m DEF IndInv, TypeOK, asyncTransactionHandler, Return, clientVars,
       callVars, ansVars, ResponsesMatchRequests, CallsInOrder, CallInv, FrameInv,
       FieldsInv
  <1>10. AnsweredAtMostOnce'
    BY <1>m DEF IndInv, TypeOK, asyncTransactionHandler, Return, clientVars,
       callVars, ansVars, AnsweredAtMostOnce
  <1>11. AnswersGoToTheAskingDelegate'
    BY <1>m DEF IndInv, TypeOK, asyncTransactionHandler, Return, clientVars,
       callVars, ansVars, AnswersGoToTheAskingDelegate
  <1> QED BY <1>1, <1>2, <1>3, <1>4, <1>5, <1>6, <1>7, <1>8, <1>9, <1>10, <1>11 DEF
     IndInv

-----------------------------------------------------------------------------
(* Connections call back *)

\* connection:didReceiveResponse: preserves the invariant.
LEMMA didReceiveResponseStep ==
  ASSUME SingleThread, IndInv, NEW r \in Requests, didReceiveResponse(r)
  PROVE  IndInv'
  <1>m. Main \in Threads /\ MaxRequests \in Nat BY DataClientAssumption
  <1>t. TypeOK BY DEF IndInv
  <1>w. state[r] \in Busy BY DEF didReceiveResponse, Busy, Open
  <1>1. TypeOK'
    BY <1>m DEF IndInv, TypeOK, didReceiveResponse, RunLoopFree, clientVars,
       callVars, sentVars, ansVars, thrVars, IDs, kInvalidTransactionID, Responses,
       States, PCs, Busy, Open
  <1>2. CallsInOrder'
    BY <1>m DEF IndInv, TypeOK, didReceiveResponse, RunLoopFree, clientVars,
       callVars, sentVars, ansVars, thrVars, CallsInOrder
  <1>3. CallInv'
    BY <1>m DEF IndInv, TypeOK, didReceiveResponse, RunLoopFree, clientVars,
       callVars, sentVars, ansVars, thrVars, CallInv, Busy, Open, Ending,
       CallsInOrder
  <1>4. OwnershipInv'
    BY <1>m DEF IndInv, TypeOK, didReceiveResponse, RunLoopFree, clientVars,
       callVars, sentVars, ansVars, thrVars, OwnershipInv, Busy, Open, Ending,
       CallInv, FrameInv
  <1>5. FieldsInv'
    BY <1>m DEF IndInv, TypeOK, didReceiveResponse, RunLoopFree, clientVars,
       callVars, sentVars, ansVars, thrVars, FieldsInv, Busy, Open, Ending,
       OwnershipInv, CallInv, CancelInv, FrameInv
  <1>6. BufferInv'
    <2>1. managerOf[r] \in Managers
      BY <1>w, OwnerInPool
    <2>2. SUFFICES ASSUME NEW s \in Requests
          PROVE  /\ (state[s] = "headers" => m_receivedData[managerOf[s]] = {})'
                 /\ (state[s] \in {"body", "finishing"} => m_receivedData[managerOf[s]] \subseteq {s})'
                 /\ (state[s] \in {"headers", "body"} \cup Ending => asked[s] # None)'
      BY DEF BufferInv
    <2>3. CASE s = r
      BY <1>t, <2>1, <2>3 DEF didReceiveResponse, TypeOK, Ending, sentVars
    <2>4. CASE s # r
      <3>1. state'[s] = state[s] /\ managerOf'[s] = managerOf[s] /\ asked'[s] = asked[s]
        BY <1>t, <2>4 DEF didReceiveResponse, TypeOK, sentVars
      <3>2. state[s] \in Busy => managerOf[s] # managerOf[r] /\ managerOf[s] \in Managers
        BY <1>w, <2>4, OwnerInPool DEF IndInv, OwnershipInv
      <3>3. state[s] \in Busy => m_receivedData'[managerOf[s]] = m_receivedData[managerOf[s]]
        BY <1>t, <3>2 DEF didReceiveResponse
      <3> QED BY <3>1, <3>3 DEF IndInv, BufferInv, Busy, Open, Ending
    <2> QED BY <2>3, <2>4
  <1>7. FrameInv'
    BY <1>m DEF IndInv, TypeOK, didReceiveResponse, RunLoopFree, clientVars,
       callVars, sentVars, ansVars, thrVars, FrameInv, Busy, Open, Ending, CallInv,
       CancelInv
  <1>8. CancelInv'
    BY <1>m DEF IndInv, TypeOK, didReceiveResponse, RunLoopFree, clientVars,
       callVars, sentVars, ansVars, thrVars, CancelInv
  <1>9. ResponsesMatchRequests'
    BY <1>m DEF IndInv, TypeOK, didReceiveResponse, RunLoopFree, clientVars,
       callVars, sentVars, ansVars, thrVars, ResponsesMatchRequests
  <1>10. AnsweredAtMostOnce'
    BY <1>m DEF IndInv, TypeOK, didReceiveResponse, RunLoopFree, clientVars,
       callVars, sentVars, ansVars, thrVars, AnsweredAtMostOnce
  <1>11. AnswersGoToTheAskingDelegate'
    BY <1>m DEF IndInv, TypeOK, didReceiveResponse, RunLoopFree, clientVars,
       callVars, sentVars, ansVars, thrVars, AnswersGoToTheAskingDelegate
  <1> QED BY <1>1, <1>2, <1>3, <1>4, <1>5, <1>6, <1>7, <1>8, <1>9, <1>10, <1>11 DEF
     IndInv

\* connection:didReceiveData: preserves the invariant.
LEMMA didReceiveDataStep ==
  ASSUME SingleThread, IndInv, NEW r \in Requests, didReceiveData(r)
  PROVE  IndInv'
  <1>m. Main \in Threads /\ MaxRequests \in Nat BY DataClientAssumption
  <1>t. TypeOK BY DEF IndInv
  <1>w. threadOf[r] = Main BY OneThread DEF IndInv
  <1>v. pc[Main] = "idle" /\ frame[Main] = 0 BY <1>w DEF didReceiveData, RunLoopFree
  <1>1. TypeOK'
    BY <1>m DEF IndInv, TypeOK, didReceiveData, RunLoopFree, clientVars, callVars,
       sentVars, ansVars, thrVars, IDs, kInvalidTransactionID, Responses, States,
       PCs, Busy, Open
  <1>2. CallsInOrder'
    BY <1>m DEF IndInv, TypeOK, didReceiveData, RunLoopFree, clientVars, callVars,
       sentVars, ansVars, thrVars, CallsInOrder
  <1>3. CallInv'
    BY <1>v DEF didReceiveData, CallInv, thrVars
  <1>4. OwnershipInv'
    BY <1>m DEF IndInv, TypeOK, didReceiveData, RunLoopFree, clientVars, callVars,
       sentVars, ansVars, thrVars, OwnershipInv, Busy, Open, Ending, CallInv,
       FrameInv
  <1>5. FieldsInv'
    BY <1>m DEF IndInv, TypeOK, didReceiveData, RunLoopFree, clientVars, callVars,
       sentVars, ansVars, thrVars, FieldsInv, Busy, Open, Ending, OwnershipInv,
       CallInv, CancelInv, FrameInv
  <1>6. BufferInv'
    BY <1>m DEF IndInv, TypeOK, didReceiveData, RunLoopFree, clientVars, callVars,
       sentVars, ansVars, thrVars, BufferInv, Busy, Open, Ending, OwnershipInv,
       FieldsInv, FrameInv, CallInv
  <1>7. FrameInv'
    BY <1>m DEF IndInv, TypeOK, didReceiveData, RunLoopFree, clientVars, callVars,
       sentVars, ansVars, thrVars, FrameInv, Busy, Open, Ending, CallInv, CancelInv
  <1>8. CancelInv'
    BY <1>m DEF IndInv, TypeOK, didReceiveData, RunLoopFree, clientVars, callVars,
       sentVars, ansVars, thrVars, CancelInv
  <1>9. ResponsesMatchRequests'
    BY <1>m DEF IndInv, TypeOK, didReceiveData, RunLoopFree, clientVars, callVars,
       sentVars, ansVars, thrVars, ResponsesMatchRequests
  <1>10. AnsweredAtMostOnce'
    BY <1>m DEF IndInv, TypeOK, didReceiveData, RunLoopFree, clientVars, callVars,
       sentVars, ansVars, thrVars, AnsweredAtMostOnce
  <1>11. AnswersGoToTheAskingDelegate'
    BY <1>m DEF IndInv, TypeOK, didReceiveData, RunLoopFree, clientVars, callVars,
       sentVars, ansVars, thrVars, AnswersGoToTheAskingDelegate
  <1> QED BY <1>1, <1>2, <1>3, <1>4, <1>5, <1>6, <1>7, <1>8, <1>9, <1>10, <1>11 DEF
     IndInv

\* Entering the last callback of a connection preserves the invariant.
LEMMA connectionEndsStep ==
  ASSUME SingleThread, IndInv, NEW r \in Requests, NEW failed \in BOOLEAN, connectionEnds(r, failed)
  PROVE  IndInv'
  <1>m. Main \in Threads /\ MaxRequests \in Nat BY DataClientAssumption
  <1>t. TypeOK BY DEF IndInv
  <1>w. threadOf[r] = Main BY OneThread DEF IndInv
  <1>v. pc[Main] = "idle" /\ frame[Main] = 0 BY <1>w DEF connectionEnds, RunLoopFree
  <1>1. TypeOK'
    <2>t. TypeOK /\ Threads = {Main}
      BY DEF IndInv, SingleThread
    <2>1. (state \in [Requests -> States])'
      BY <1>m, <2>t DEF TypeOK, connectionEnds, RunLoopFree, mgrVars, clientVars,
         callVars, sentVars, ansVars, States, Busy, Open, Ending, Managers
    <2>2. (pc \in [Threads -> PCs])'
      BY <1>m, <2>t DEF TypeOK, connectionEnds, RunLoopFree, mgrVars, clientVars,
         callVars, sentVars, ansVars, PCs, Managers
    <2>3. (frame \in [Threads -> 0 .. MaxRequests])'
      BY <1>m, <1>w, <2>t DEF TypeOK, connectionEnds, Requests
    <2>u. UNCHANGED <<poolSize, m_bAvailable, m_transactionID, mgrDelegate,
                       completionHandler, m_receivedData, mgrLock, nextTransactionID,
                       m_delegate, m_delegateLock, reqCount, opOf, managerOf, threadOf,
                       idOf, asked, cancelled, answered, answer, cur, call, newDelegate>>
      BY DEF connectionEnds, RunLoopFree, mgrVars, clientVars, callVars, sentVars,
         ansVars
    <2> QED
      BY <2>t, <2>1, <2>2, <2>3, <2>u DEF TypeOK
  <1>2. CallsInOrder'
    BY <1>m DEF IndInv, TypeOK, connectionEnds, RunLoopFree, mgrVars, clientVars,
       callVars, sentVars, ansVars, CallsInOrder, Busy, Open, Ending, CallInv
  <1>3. CallInv'
    BY <1>m, <1>t, <1>w DEF connectionEnds, CallInv, TypeOK
  <1>4. OwnershipInv'
    BY <1>m DEF IndInv, TypeOK, connectionEnds, RunLoopFree, mgrVars, clientVars,
       callVars, sentVars, ansVars, OwnershipInv, Busy, Open, Ending, CallInv,
       FrameInv
  <1>5. FieldsInv'
    BY <1>m DEF IndInv, TypeOK, connectionEnds, RunLoopFree, mgrVars, clientVars,
       callVars, sentVars, ansVars, FieldsInv, Busy, Open, Ending, OwnershipInv,
       CallInv, CancelInv, FrameInv
  <1>6. BufferInv'
    BY <1>m DEF IndInv, TypeOK, connectionEnds, RunLoopFree, mgrVars, clientVars,
       callVars, sentVars, ansVars, BufferInv
  <1>7. FrameInv'
    <2>1. frame'[Main] = r /\ r # 0 /\ state'[r] \in Ending /\ pc'[Main] = "cbLock"
      BY <1>m, <1>t, <1>w DEF connectionEnds, TypeOK, Requests, Ending
    <2> QED BY <2>1 DEF FrameInv
  <1>8. CancelInv'
    BY <1>m DEF IndInv, TypeOK, connectionEnds, RunLoopFree, mgrVars, clientVars,
       callVars, sentVars, ansVars, CancelInv
  <1>9. ResponsesMatchRequests'
    BY <1>m DEF IndInv, TypeOK, connectionEnds, RunLoopFree, mgrVars, clientVars,
       callVars, sentVars, ansVars, ResponsesMatchRequests
  <1>10. AnsweredAtMostOnce'
    BY <1>m DEF IndInv, TypeOK, connectionEnds, RunLoopFree, mgrVars, clientVars,
       callVars, sentVars, ansVars, AnsweredAtMostOnce
  <1>11. AnswersGoToTheAskingDelegate'
    BY <1>m DEF IndInv, TypeOK, connectionEnds, RunLoopFree, mgrVars, clientVars,
       callVars, sentVars, ansVars, AnswersGoToTheAskingDelegate
  <1> QED BY <1>1, <1>2, <1>3, <1>4, <1>5, <1>6, <1>7, <1>8, <1>9, <1>10, <1>11 DEF
     IndInv

\* connectionDidFinishLoading:/didFailWithError: without a delegate: with one thread
\* the manager holds no completion handler either, so the reply is ignored.
LEMMA UnheardEffect ==
  ASSUME SingleThread, IndInv, NEW r \in Requests, NEW failed \in BOOLEAN,
         connectionEndsUnheard(r, failed)
  PROVE  /\ state[r] \in Open
         /\ asked[r] # None
         /\ pc[Main] = "idle" /\ frame[Main] = 0
         /\ managerOf[r] \in Managers
         /\ state' = [state EXCEPT ![r] = "done"]
         /\ m_bAvailable' = m_bAvailable
         /\ completionHandler' = completionHandler
         /\ UNCHANGED <<poolSize, m_transactionID, mgrDelegate, m_receivedData,
                        mgrLock, nextTransactionID, clientVars, callVars, sentVars,
                        cancelled, ansVars, thrVars>>
  <1>m. Main \in Threads /\ MaxRequests \in Nat /\ threadOf[r] = Main BY OneThread DEF
     IndInv
  <1>1. state[r] \in Open /\ asked[r] # None
    BY DEF connectionEndsUnheard, Open
  <1>2. pc[Main] = "idle" /\ frame[Main] = 0
    BY <1>m DEF connectionEndsUnheard, RunLoopFree
  <1>3. managerOf[r] \in 1 .. poolSize
    BY <1>1 DEF IndInv, OwnershipInv, Busy
  <1>4. managerOf[r] \in Managers
    BY <1>m, <1>3 DEF IndInv, TypeOK, Managers
  <1>5. completionHandler[managerOf[r]] = None
    BY <1>1 DEF IndInv, FieldsInv, Busy
  <1>6. m_bAvailable \in [Managers -> BOOLEAN] /\ completionHandler \in [Managers -> Requests \cup {None}]
    BY DEF IndInv, TypeOK
  <1>7. m_bAvailable' = m_bAvailable
    BY <1>4, <1>5, <1>6 DEF connectionEndsUnheard
  <1>8. completionHandler' = completionHandler
    BY <1>4, <1>5, <1>6 DEF connectionEndsUnheard
  <1>9. UNCHANGED ansVars
    BY <1>5 DEF connectionEndsUnheard
  <1> QED BY <1>1, <1>2, <1>4, <1>7, <1>8, <1>9 DEF connectionEndsUnheard

\* ... and ignoring it preserves the invariant.
LEMMA connectionEndsUnheardStep == ASSUME SingleThread, IndInv, NEW r \in Requests, NEW failed \in BOOLEAN,
         connectionEndsUnheard(r, failed)
  PROVE  IndInv'
  <1>m. Main \in Threads /\ MaxRequests \in Nat BY OneThread DEF IndInv
  <1>s. /\ state' = [state EXCEPT ![r] = "done"]
        /\ \A q \in Requests : state'[q] = IF q = r THEN "done" ELSE state[q]
    BY UnheardEffect DEF IndInv, TypeOK
  <1>b. state[r] \in Open BY UnheardEffect
  <1>u. UNCHANGED <<poolSize, m_bAvailable, m_transactionID, mgrDelegate,
                    completionHandler, m_receivedData, mgrLock, nextTransactionID,
                    m_delegate, m_delegateLock, reqCount, opOf, managerOf, threadOf,
                    idOf, asked, cancelled, answered, answer, pc, cur, call,
                    newDelegate, frame>>
    BY UnheardEffect DEF clientVars, callVars, sentVars, ansVars, thrVars
  <1>i. IndInv OBVIOUS
  <1> HIDE DEF IndInv
  <1>1. TypeOK'
    <2>1. (state \in [Requests -> States])'
      BY <1>s, <1>i DEF IndInv, TypeOK, States
    <2> QED BY <1>i, <1>u, <2>1 DEF IndInv, TypeOK
  <1>2. CallsInOrder'
    <2>1. CallsInOrder /\ state[r] # "unused" BY <1>i, <1>b DEF IndInv, Open
    <2> QED BY <2>1, <1>s, <1>u DEF CallsInOrder
  <1>3. CallInv'
    BY <1>m, UnheardEffect DEF IndInv, CallInv, thrVars
  <1>4. OwnershipInv'
    <2>1. OwnershipInv BY <1>i DEF IndInv
    <2> QED BY <2>1, <1>s, <1>u DEF OwnershipInv, Busy, Open, Ending
  <1>5. FieldsInv'
    <2>1. FieldsInv BY <1>i DEF IndInv
    <2> QED BY <2>1, <1>s, <1>u DEF FieldsInv, Busy, Open, Ending
  <1>6. BufferInv'
    <2>1. BufferInv BY <1>i DEF IndInv
    <2> QED BY <2>1, <1>s, <1>u DEF BufferInv, Ending
  <1>7. FrameInv'
    BY <1>m, UnheardEffect DEF IndInv, FrameInv, thrVars
  <1>8. CancelInv'
    BY <1>m, UnheardEffect DEF IndInv, CancelInv, thrVars
  <1>9. ResponsesMatchRequests' /\ AnsweredAtMostOnce' /\ AnswersGoToTheAskingDelegate'
    BY UnheardEffect DEF IndInv, ResponsesMatchRequests, AnsweredAtMostOnce,
       AnswersGoToTheAskingDelegate, ansVars, sentVars
  <1> QED BY <1>1, <1>2, <1>3, <1>4, <1>5, <1>6, <1>7, <1>8, <1>9 DEF IndInv

\* Taking the manager's lock in that callback preserves the invariant.
LEMMA callbackLockStep ==
  ASSUME SingleThread, IndInv, callbackLock(Main)
  PROVE  IndInv'
  <1>m. Main \in Threads /\ MaxRequests \in Nat BY DataClientAssumption
  <1>1. TypeOK'
    <2>t. TypeOK /\ Threads = {Main}
      BY DEF IndInv, SingleThread
    <2>i. frame[Main] \in Requests /\ managerOf[frame[Main]] \in Managers
      BY <1>m, FrameOwner DEF IndInv, FrameInv, callbackLock
    <2>1. (mgrLock \in [Managers -> Threads \cup {None}])'
      BY <1>m, <2>t, <2>i DEF TypeOK, callbackLock, clientVars, callVars, sentVars,
         ansVars, Managers
    <2>2. (state \in [Requests -> States])'
      BY <1>m, <2>t, <2>i DEF TypeOK, callbackLock, clientVars, callVars, sentVars,
         ansVars, States, Busy, Open, Ending, Managers
    <2>3. (pc \in [Threads -> PCs])'
      BY <1>m, <2>t, <2>i DEF TypeOK, callbackLock, clientVars, callVars, sentVars,
         ansVars, PCs, Managers
    <2>4. (frame \in [Threads -> 0 .. MaxRequests])'
      BY <1>m, <2>t, <2>i DEF TypeOK, callbackLock, clientVars, callVars, sentVars,
         ansVars, Managers
    <2>u. UNCHANGED <<poolSize, m_bAvailable, m_transactionID, mgrDelegate,
                       completionHandler, m_receivedData, nextTransactionID,
                       m_delegate, m_delegateLock, reqCount, opOf, managerOf, threadOf,
                       idOf, asked, cancelled, answered, answer, cur, call, newDelegate>>
      BY DEF callbackLock, clientVars, callVars, sentVars, ansVars
    <2> QED
      BY <2>t, <2>1, <2>2, <2>3, <2>4, <2>u DEF TypeOK
  <1>2. CallsInOrder'
    BY <1>m DEF IndInv, TypeOK, callbackLock, clientVars, callVars, sentVars,
       ansVars, CallsInOrder, Busy, Open, Ending, CallInv, FrameInv
  <1>3. CallInv'
    BY <1>m DEF IndInv, TypeOK, callbackLock, clientVars, callVars, sentVars,
       ansVars, CallInv
  <1>4. OwnershipInv'
    BY <1>m DEF IndInv, TypeOK, callbackLock, clientVars, callVars, sentVars,
       ansVars, OwnershipInv, Busy, Open, Ending, CallInv, FrameInv
  <1>5. FieldsInv'
    BY <1>m DEF IndInv, TypeOK, callbackLock, clientVars, callVars, sentVars,
       ansVars, FieldsInv, Busy, Open, Ending, OwnershipInv, CallInv, CancelInv,
       FrameInv
  <1>6. BufferInv'
    BY <1>m DEF IndInv, TypeOK, callbackLock, clientVars, callVars, sentVars,
       ansVars, BufferInv, OwnershipInv, FieldsInv, FrameInv
  <1>7. FrameInv'
    BY <1>m DEF IndInv, TypeOK, callbackLock, clientVars, callVars, sentVars,
       ansVars, FrameInv
  <1>8. CancelInv'
    BY <1>m DEF IndInv, TypeOK, callbackLock, clientVars, callVars, sentVars,
       ansVars, CancelInv
  <1>9. ResponsesMatchRequests'
    BY <1>m DEF IndInv, TypeOK, callbackLock, clientVars, callVars, sentVars,
       ansVars, ResponsesMatchRequests
  <1>10. AnsweredAtMostOnce'
    BY <1>m DEF IndInv, TypeOK, callbackLock, clientVars, callVars, sentVars,
       ansVars, AnsweredAtMostOnce
  <1>11. AnswersGoToTheAskingDelegate'
    BY <1>m DEF IndInv, TypeOK, callbackLock, clientVars, callVars, sentVars,
       ansVars, AnswersGoToTheAskingDelegate
  <1> QED BY <1>1, <1>2, <1>3, <1>4, <1>5, <1>6, <1>7, <1>8, <1>9, <1>10, <1>11 DEF
     IndInv

\* httpManagerResponse:/httpManagerError: preserves the invariant; the delegate
\* that hears the answer is the one the call was made with.
LEMMA httpManagerCallbackStep ==
  ASSUME SingleThread, IndInv, httpManagerCallback(Main)
  PROVE  IndInv'
  <1>m. Main \in Threads /\ MaxRequests \in Nat BY DataClientAssumption
  <1>t. TypeOK BY DEF IndInv
  <1>w. /\ frame[Main] # 0 /\ pc[Main] = "cbClient"
        /\ state[frame[Main]] \in Ending
        /\ mgrDelegate[managerOf[frame[Main]]]
    BY DEF IndInv, FrameInv, httpManagerCallback
  <1>p. pc'[Main] = "idle" /\ pc' = [pc EXCEPT ![Main] = "idle"]
    BY <1>m, <1>t DEF TypeOK, httpManagerCallback
  <1>n. UNCHANGED <<poolSize, m_transactionID, completionHandler, m_receivedData,
                   nextTransactionID, m_delegate, callVars, sentVars, cancelled, cur,
                   call, newDelegate>>
    BY DEF httpManagerCallback
  <1>x. \/ /\ m_delegate # None
           /\ Respond(frame[Main],
                      IF state[frame[Main]] = "failing" THEN {}
                      ELSE m_receivedData[managerOf[frame[Main]]],
                      m_transactionID[managerOf[frame[Main]]], m_delegate)
           /\ m_delegateLock' = Main
           /\ state' = [state EXCEPT ![frame[Main]] = "callback"]
           /\ UNCHANGED <<m_bAvailable, mgrDelegate, mgrLock, frame>>
        \/ m_delegate = None /\ endDelegateCallback(Main) /\ UNCHANGED <<ansVars, m_delegateLock>>
    BY DEF httpManagerCallback
  <1>y. ASSUME m_delegate = None
        PROVE  FALSE
    <2>1. asked[frame[Main]] # None
      BY <1>w, FrameOwner DEF IndInv, BufferInv
    <2> QED BY <1>y, <1>w, <2>1, FrameOwner DEF IndInv, FieldsInv, Ending
  <1>z. /\ m_delegate # None
        /\ Respond(frame[Main],
                      IF state[frame[Main]] = "failing" THEN {}
                      ELSE m_receivedData[managerOf[frame[Main]]],
                      m_transactionID[managerOf[frame[Main]]], m_delegate)
        /\ m_delegateLock' = Main
        /\ state' = [state EXCEPT ![frame[Main]] = "callback"]
        /\ UNCHANGED <<m_bAvailable, mgrDelegate, mgrLock, frame>>
    BY <1>x, <1>y
  <1>1. TypeOK'
    <2>1. (answered \in [Requests -> Nat] /\ answer \in [Requests -> Responses])'
      <3>1. /\ m_transactionID[managerOf[frame[Main]]] \in IDs
            /\ m_receivedData[managerOf[frame[Main]]] \in SUBSET Requests
            /\ m_delegate \in Delegates \cup {None}
        BY <1>t, <1>w, FrameOwner DEF TypeOK
      <3> QED BY <1>t, <1>w, <1>z, <3>1, RespondType, FrameOwner
    <2>2. (state \in [Requests -> States])'
      BY <1>t, <1>w, <1>z, FrameOwner DEF TypeOK, States, Busy
    <2>3. (pc \in [Threads -> PCs])'
      BY <1>m, <1>t, <1>p DEF TypeOK, PCs
    <2> QED BY <1>m, <1>t, <1>n, <1>z, <2>1, <2>2, <2>3 DEF TypeOK, callVars,
       sentVars
  <1>2. CallsInOrder'
    BY <1>t, <1>w, <1>n, <1>z, FrameOwner DEF IndInv, TypeOK, CallsInOrder,
       callVars, sentVars, Respond
  <1>3. CallInv'
    BY <1>m DEF IndInv, TypeOK, httpManagerCallback, endDelegateCallback, Respond,
       callVars, sentVars, ansVars, CallInv
  <1>4. OwnershipInv'
    <2>1. \A r \in Requests : state'[r] \in Busy => state[r] \in Busy
      BY <1>t, <1>w, <1>z, FrameOwner DEF TypeOK
    <2> QED BY <1>n, <1>z, <2>1 DEF IndInv, OwnershipInv, sentVars
  <1>5. FieldsInv'
    <2>1. \A r \in Requests : state'[r] \in Busy => state[r] \in Busy
      BY <1>t, <1>w, <1>z, FrameOwner DEF TypeOK
    <2>2. \A r \in Requests : state'[r] = "blocked" => state[r] = "blocked"
      BY <1>t, <1>z, FrameOwner, <1>w DEF TypeOK
    <2>3. \A r \in Requests : state'[r] # "callback" => state[r] # "callback"
      BY <1>t, <1>z, FrameOwner, <1>w DEF TypeOK
    <2> QED BY <1>n, <1>z, <2>1, <2>2, <2>3 DEF IndInv, FieldsInv, callVars,
       sentVars
  <1>6. BufferInv'
    BY <1>m DEF IndInv, TypeOK, httpManagerCallback, endDelegateCallback, Respond,
       callVars, sentVars, ansVars, BufferInv, OwnershipInv, FieldsInv, FrameInv
  <1>7. FrameInv'
    BY <1>t, <1>w, <1>p, <1>z, FrameOwner DEF TypeOK, FrameInv
  <1>8. CancelInv'
    BY <1>m DEF IndInv, TypeOK, httpManagerCallback, endDelegateCallback, Respond,
       callVars, sentVars, ansVars, CancelInv
  <1>9. ResponsesMatchRequests'
    BY <1>m DEF IndInv, TypeOK, httpManagerCallback, endDelegateCallback, Respond,
       callVars, sentVars, ansVars, ResponsesMatchRequests, Busy, Open, Ending,
       CallsInOrder, CallInv, FrameInv, FieldsInv, BufferInv
  <1>10. AnsweredAtMostOnce'
    BY <1>m DEF IndInv, TypeOK, httpManagerCallback, endDelegateCallback, Respond,
       callVars, sentVars, ansVars, AnsweredAtMostOnce, Busy, Open, Ending,
       CallsInOrder, CallInv, FrameInv, FieldsInv
  <1>11. AnswersGoToTheAskingDelegate'
    BY <1>m DEF IndInv, TypeOK, httpManagerCallback, endDelegateCallback, Respond,
       callVars, sentVars, ansVars, AnswersGoToTheAskingDelegate, Busy, Open,
       Ending, CallsInOrder, CallInv, FrameInv, FieldsInv, BufferInv
  <1> QED BY <1>1, <1>2, <1>3, <1>4, <1>5, <1>6, <1>7, <1>8, <1>9, <1>10, <1>11 DEF
     IndInv

\* Running a completion handler preserves the invariant.
LEMMA completionBlockStep ==
  ASSUME SingleThread, IndInv, NEW r \in Requests, NEW failed \in BOOLEAN, completionBlock(r, failed)
  PROVE  IndInv'
  <1>m. Main \in Threads /\ MaxRequests \in Nat BY DataClientAssumption
  <1>1. TypeOK'
    <2>t. TypeOK /\ Threads = {Main}
      BY DEF IndInv, SingleThread
    <2>i. managerOf[r] \in Managers
      BY <1>m DEF IndInv, TypeOK, completionBlock, RunLoopFree, Respond, mgrVars,
         clientVars, callVars, sentVars, CallsInOrder, CallInv, FrameInv,
         OwnershipInv, CancelInv, Managers, Requests, Busy, Open
    <2>1. (state \in [Requests -> States])'
      BY <1>m, <2>t, <2>i DEF TypeOK, completionBlock, RunLoopFree, Respond,
         mgrVars, clientVars, callVars, sentVars, States, Busy, Open, Ending,
         Managers
    <2>2. (answered \in [Requests -> Nat])'
      <3>1. /\ m_transactionID[managerOf[r]] \in IDs
            /\ (IF failed THEN {} ELSE {r}) \in SUBSET Requests
        BY <2>t, <2>i DEF TypeOK
      <3>2. Respond(r, IF failed THEN {} ELSE {r}, m_transactionID[managerOf[r]], None)
        BY DEF completionBlock
      <3> QED BY <2>t, <3>1, <3>2, RespondType
    <2>3. (answer \in [Requests -> Responses])'
      <3>1. /\ m_transactionID[managerOf[r]] \in IDs
            /\ (IF failed THEN {} ELSE {r}) \in SUBSET Requests
        BY <2>t, <2>i DEF TypeOK
      <3>2. Respond(r, IF failed THEN {} ELSE {r}, m_transactionID[managerOf[r]], None)
        BY DEF completionBlock
      <3> QED BY <2>t, <3>1, <3>2, RespondType
    <2>4. (frame \in [Threads -> 0 .. MaxRequests])'
      BY <1>m, <2>t, <2>i DEF TypeOK, completionBlock, RunLoopFree, Respond,
         mgrVars, clientVars, callVars, sentVars, Managers, Requests
    <2>u. UNCHANGED <<poolSize, m_bAvailable, m_transactionID, mgrDelegate,
                       completionHandler, m_receivedData, mgrLock, nextTransactionID,
                       m_delegate, m_delegateLock, reqCount, opOf, managerOf, threadOf,
                       idOf, asked, cancelled, pc, cur, call, newDelegate>>
      BY DEF completionBlock, RunLoopFree, Respond, mgrVars, clientVars, callVars,
         sentVars
    <2> QED
      BY <2>t, <2>1, <2>2, <2>3, <2>4, <2>u DEF TypeOK
  <1>2. CallsInOrder'
    BY <1>m DEF IndInv, TypeOK, completionBlock, RunLoopFree, Respond, mgrVars,
       clientVars, callVars, sentVars, CallsInOrder
  <1>3. CallInv'
    BY <1>m DEF IndInv, TypeOK, completionBlock, RunLoopFree, Respond, mgrVars,
       clientVars, callVars, sentVars, CallInv
  <1>4. OwnershipInv'
    BY <1>m DEF IndInv, TypeOK, completionBlock, RunLoopFree, Respond, mgrVars,
       clientVars, callVars, sentVars, OwnershipInv, Busy, Open, Ending, CallInv,
       FrameInv, CallsInOrder
  <1>5. FieldsInv'
    BY <1>m DEF IndInv, TypeOK, completionBlock, RunLoopFree, Respond, mgrVars,
       clientVars, callVars, sentVars, FieldsInv, Busy, Open, Ending, OwnershipInv,
       CallInv, CancelInv, FrameInv
  <1>6. BufferInv'
    BY <1>m DEF IndInv, TypeOK, completionBlock, RunLoopFree, Respond, mgrVars,
       clientVars, callVars, sentVars, BufferInv, Busy, Open, Ending, OwnershipInv,
       FieldsInv, FrameInv, CallInv
  <1>7. FrameInv'
    BY <1>m DEF IndInv, TypeOK, completionBlock, RunLoopFree, Respond, mgrVars,
       clientVars, callVars, sentVars, FrameInv
  <1>8. CancelInv'
    BY <1>m DEF IndInv, TypeOK, completionBlock, RunLoopFree, Respond, mgrVars,
       clientVars, callVars, sentVars, CancelInv
  <1>9. ResponsesMatchRequests'
    BY <1>m DEF IndInv, TypeOK, completionBlock, RunLoopFree, Respond, mgrVars,
       clientVars, callVars, sentVars, ResponsesMatchRequests, Busy, Open, Ending,
       CallsInOrder, CallInv, FrameInv, FieldsInv, BufferInv
  <1>10. AnsweredAtMostOnce'
    BY <1>m DEF IndInv, TypeOK, completionBlock, RunLoopFree, Respond, mgrVars,
       clientVars, callVars, sentVars, AnsweredAtMostOnce, CallsInOrder, CallInv,
       FrameInv
  <1>11. AnswersGoToTheAskingDelegate'
    BY <1>m DEF IndInv, TypeOK, completionBlock, RunLoopFree, Respond, mgrVars,
       clientVars, callVars, sentVars, AnswersGoToTheAskingDelegate, Busy, Open,
       Ending, CallsInOrder, CallInv, FrameInv, FieldsInv, BufferInv
  <1> QED BY <1>1, <1>2, <1>3, <1>4, <1>5, <1>6, <1>7, <1>8, <1>9, <1>10, <1>11 DEF
     IndInv

\* Releasing the manager after a delegate callback preserves the invariant.
LEMMA delegateReturnsStep ==
  ASSUME SingleThread, IndInv, delegateReturns(Main)
  PROVE  IndInv'
  <1>m. Main \in Threads /\ MaxRequests \in Nat BY DataClientAssumption
  <1>t. TypeOK BY DEF IndInv
  <1>w. frame[Main] # 0 BY DEF delegateReturns
  <1>1. TypeOK'
    <2>t. TypeOK /\ Threads = {Main}
      BY DEF IndInv, SingleThread
    <2>i. frame[Main] \in Requests /\ managerOf[frame[Main]] \in Managers
      BY <1>m, FrameOwner DEF IndInv, FrameInv, delegateReturns
    <2>1. (m_bAvailable \in [Managers -> BOOLEAN])'
      BY <1>m, <2>t, <2>i DEF TypeOK, delegateReturns, endDelegateCallback,
         callVars, sentVars, ansVars, Managers
    <2>2. (mgrDelegate \in [Managers -> BOOLEAN])'
      BY <1>m, <2>t, <2>i DEF TypeOK, delegateReturns, endDelegateCallback,
         callVars, sentVars, ansVars, Managers
    <2>3. (mgrLock \in [Managers -> Threads \cup {None}])'
      BY <1>m, <2>t, <2>i DEF TypeOK, delegateReturns, endDelegateCallback,
         callVars, sentVars, ansVars, Managers
    <2>4. (m_delegateLock \in Threads \cup {None})'
      BY <1>m, <2>t, <2>i DEF TypeOK, delegateReturns, endDelegateCallback,
         callVars, sentVars, ansVars, Managers
    <2>5. (state \in [Requests -> States])'
      BY <1>m, <2>t, <2>i DEF TypeOK, delegateReturns, endDelegateCallback,
         callVars, sentVars, ansVars, States, Busy, Open, Ending, Managers
    <2>6. (frame \in [Threads -> 0 .. MaxRequests])'
      BY <1>m, <2>t, <2>i DEF TypeOK, delegateReturns, endDelegateCallback,
         callVars, sentVars, ansVars, Managers
    <2>u. UNCHANGED <<poolSize, m_transactionID, completionHandler, m_receivedData,
                       nextTransactionID, m_delegate, reqCount, opOf, managerOf,
                       threadOf, idOf, asked, cancelled, answered, answer, pc, cur,
                       call, newDelegate>>
      BY DEF delegateReturns, endDelegateCallback, callVars, sentVars, ansVars
    <2> QED
      BY <2>t, <2>1, <2>2, <2>3, <2>4, <2>5, <2>6, <2>u DEF TypeOK
  <1>2. CallsInOrder'
    BY <1>m DEF IndInv, TypeOK, delegateReturns, endDelegateCallback, callVars,
       sentVars, ansVars, CallsInOrder
  <1>3. CallInv'
    BY <1>m DEF IndInv, TypeOK, delegateReturns, endDelegateCallback, callVars,
       sentVars, ansVars, CallInv
  <1>4. OwnershipInv'
    <2>1. SUFFICES ASSUME NEW r \in Requests, state'[r] \in Busy
          PROVE  /\ (managerOf[r] \in 1 .. poolSize)'
                 /\ (~m_bAvailable[managerOf[r]])'
                 /\ \A s \in Requests \ {r} : (state[s] \in Busy => managerOf[s] # managerOf[r])'
      BY DEF OwnershipInv
    <2>2. r # frame[Main] /\ state[r] \in Busy
      BY <1>t, <2>1, <1>w, FrameOwner DEF TypeOK, delegateReturns,
         endDelegateCallback, Busy, Open, Ending
    <2>3. frame[Main] \in Requests /\ state[frame[Main]] \in Busy
      BY <1>w, FrameOwner
    <2>4. managerOf[r] # managerOf[frame[Main]] /\ managerOf[r] \in Managers
      BY <2>2, <2>3, OwnerInPool DEF IndInv, OwnershipInv
    <2>5. \A s \in Requests : state'[s] \in Busy => state[s] \in Busy
      BY <1>t, <2>3 DEF TypeOK, delegateReturns, endDelegateCallback, Busy, Open
    <2> QED BY <1>t, <2>2, <2>4, <2>5 DEF TypeOK, IndInv, OwnershipInv,
       delegateReturns, endDelegateCallback, sentVars
  <1>5. FieldsInv'
    BY <1>m DEF IndInv, TypeOK, delegateReturns, endDelegateCallback, callVars,
       sentVars, ansVars, FieldsInv, Busy, Open, Ending, OwnershipInv, CallInv,
       CancelInv, FrameInv
  <1>6. BufferInv'
    BY <1>m DEF IndInv, TypeOK, delegateReturns, endDelegateCallback, callVars,
       sentVars, ansVars, BufferInv
  <1>7. FrameInv'
    BY <1>m DEF IndInv, TypeOK, delegateReturns, endDelegateCallback, callVars,
       sentVars, ansVars, FrameInv
  <1>8. CancelInv'
    BY <1>m DEF IndInv, TypeOK, delegateReturns, endDelegateCallback, callVars,
       sentVars, ansVars, CancelInv
  <1>9. ResponsesMatchRequests'
    BY <1>m DEF IndInv, TypeOK, delegateReturns, endDelegateCallback, callVars,
       sentVars, ansVars, ResponsesMatchRequests
  <1>10. AnsweredAtMostOnce'
    BY <1>m DEF IndInv, TypeOK, delegateReturns, endDelegateCallback, callVars,
       sentVars, ansVars, AnsweredAtMostOnce
  <1>11. AnswersGoToTheAskingDelegate'
    BY <1>m DEF IndInv, TypeOK, delegateReturns, endDelegateCallback, callVars,
       sentVars, ansVars, AnswersGoToTheAskingDelegate
  <1> QED BY <1>1, <1>2, <1>3, <1>4, <1>5, <1>6, <1>7, <1>8, <1>9, <1>10, <1>11 DEF
     IndInv

\* Releasing the manager after a completion handler preserves the invariant.
LEMMA handlerReturnsStep ==
  ASSUME SingleThread, IndInv, handlerReturns(Main)
  PROVE  IndInv'
  <1>m. Main \in Threads /\ MaxRequests \in Nat BY DataClientAssumption
  <1>t. TypeOK BY DEF IndInv
  <1>w. frame[Main] # 0 BY DEF handlerReturns
  <1>1. TypeOK'
    <2>t. TypeOK /\ Threads = {Main}
      BY DEF IndInv, SingleThread
    <2>i. frame[Main] \in Requests /\ managerOf[frame[Main]] \in Managers
      BY <1>m, FrameOwner DEF IndInv, FrameInv, handlerReturns
    <2>1. (m_bAvailable \in [Managers -> BOOLEAN])'
      BY <1>m, <2>t, <2>i DEF TypeOK, handlerReturns, clientVars, callVars,
         sentVars, ansVars, Managers
    <2>2. (state \in [Requests -> States])'
      BY <1>m, <2>t, <2>i DEF TypeOK, handlerReturns, clientVars, callVars,
         sentVars, ansVars, States, Busy, Open, Ending, Managers
    <2>3. (frame \in [Threads -> 0 .. MaxRequests])'
      BY <1>m, <2>t, <2>i DEF TypeOK, handlerReturns, clientVars, callVars,
         sentVars, ansVars, Managers
    <2>u. UNCHANGED <<poolSize, m_transactionID, mgrDelegate, completionHandler,
                       m_receivedData, mgrLock, nextTransactionID, m_delegate,
                       m_delegateLock, reqCount, opOf, managerOf, threadOf, idOf,
                       asked, cancelled, answered, answer, pc, cur, call, newDelegate>>
      BY DEF handlerReturns, clientVars, callVars, sentVars, ansVars
    <2> QED
      BY <2>t, <2>1, <2>2, <2>3, <2>u DEF TypeOK
  <1>2. CallsInOrder'
    BY <1>m DEF IndInv, TypeOK, handlerReturns, clientVars, callVars, sentVars,
       ansVars, CallsInOrder, CallInv, FrameInv
  <1>3. CallInv'
    BY <1>m DEF IndInv, TypeOK, handlerReturns, clientVars, callVars, sentVars,
       ansVars, CallInv
  <1>4. OwnershipInv'
    <2>1. SUFFICES ASSUME NEW r \in Requests, state'[r] \in Busy
          PROVE  /\ (managerOf[r] \in 1 .. poolSize)'
                 /\ (~m_bAvailable[managerOf[r]])'
                 /\ \A s \in Requests \ {r} : (state[s] \in Busy => managerOf[s] # managerOf[r])'
      BY DEF OwnershipInv
    <2>2. r # frame[Main] /\ state[r] \in Busy
      BY <1>t, <2>1, <1>w, FrameOwner DEF TypeOK, handlerReturns, Busy, Open, Ending
    <2>3. frame[Main] \in Requests /\ state[frame[Main]] \in Busy
      BY <1>w, FrameOwner
    <2>4. managerOf[r] # managerOf[frame[Main]] /\ managerOf[r] \in Managers
      BY <2>2, <2>3, OwnerInPool DEF IndInv, OwnershipInv
    <2>5. \A s \in Requests : state'[s] \in Busy => state[s] \in Busy
      BY <1>t, <2>3 DEF TypeOK, handlerReturns, Busy, Open
    <2> QED BY <1>t, <2>2, <2>4, <2>5 DEF TypeOK, IndInv, OwnershipInv,
       handlerReturns, sentVars
  <1>5. FieldsInv'
    BY <1>m DEF IndInv, TypeOK, handlerReturns, clientVars, callVars, sentVars,
       ansVars, FieldsInv, Busy, Open, Ending, OwnershipInv, CallInv, CancelInv,
       FrameInv
  <1>6. BufferInv'
    BY <1>m DEF IndInv, TypeOK, handlerReturns, clientVars, callVars, sentVars,
       ansVars, BufferInv, Busy, Open, Ending, OwnershipInv, FieldsInv, FrameInv,
       CallInv
  <1>7. FrameInv'
    BY <1>m DEF IndInv, TypeOK, handlerReturns, clientVars, callVars, sentVars,
       ansVars, FrameInv
  <1>8. CancelInv'
    BY <1>m DEF IndInv, TypeOK, handlerReturns, clientVars, callVars, sentVars,
       ansVars, CancelInv
  <1>9. ResponsesMatchRequests'
    BY <1>m DEF IndInv, TypeOK, handlerReturns, clientVars, callVars, sentVars,
       ansVars, ResponsesMatchRequests
  <1>10. AnsweredAtMostOnce'
    BY <1>m DEF IndInv, TypeOK, handlerReturns, clientVars, callVars, sentVars,
       ansVars, AnsweredAtMostOnce
  <1>11. AnswersGoToTheAskingDelegate'
    BY <1>m DEF IndInv, TypeOK, handlerReturns, clientVars, callVars, sentVars,
       ansVars, AnswersGoToTheAskingDelegate
  <1> QED BY <1>1, <1>2, <1>3, <1>4, <1>5, <1>6, <1>7, <1>8, <1>9, <1>10, <1>11 DEF
     IndInv

-----------------------------------------------------------------------------
(* Changing the delegate *)

\* Entering setDelegate: preserves the invariant.
LEMMA setDelegateStep ==
  ASSUME SingleThread, IndInv, NEW d \in Delegates \cup {None, BadDelegate}, setDelegate(Main, d)
  PROVE  IndInv'
  <1>m. Main \in Threads /\ MaxRequests \in Nat BY DataClientAssumption
  <1>1. TypeOK'
    BY <1>m DEF IndInv, TypeOK, setDelegate, mgrVars, clientVars, callVars,
       sentVars, ansVars, IDs, kInvalidTransactionID, Responses, States, PCs, Busy,
       Open
  <1>2. CallsInOrder'
    BY <1>m DEF IndInv, TypeOK, setDelegate, mgrVars, clientVars, callVars,
       sentVars, ansVars, CallsInOrder
  <1>3. CallInv'
    BY <1>m DEF IndInv, TypeOK, setDelegate, mgrVars, clientVars, callVars,
       sentVars, ansVars, CallInv
  <1>4. OwnershipInv'
    BY <1>m DEF IndInv, TypeOK, setDelegate, mgrVars, clientVars, callVars,
       sentVars, ansVars, OwnershipInv
  <1>5. FieldsInv'
    BY <1>m DEF IndInv, TypeOK, setDelegate, mgrVars, clientVars, callVars,
       sentVars, ansVars, FieldsInv
  <1>6. BufferInv'
    BY <1>m DEF IndInv, TypeOK, setDelegate, mgrVars, clientVars, callVars,
       sentVars, ansVars, BufferInv
  <1>7. FrameInv'
    BY <1>m DEF IndInv, TypeOK, setDelegate, mgrVars, clientVars, callVars,
       sentVars, ansVars, FrameInv
  <1>8. CancelInv'
    BY <1>m DEF IndInv, TypeOK, setDelegate, mgrVars, clientVars, callVars,
       sentVars, ansVars, CancelInv
  <1>9. ResponsesMatchRequests'
    BY <1>m DEF IndInv, TypeOK, setDelegate, mgrVars, clientVars, callVars,
       sentVars, ansVars, ResponsesMatchRequests
  <1>10. AnsweredAtMostOnce'
    BY <1>m DEF IndInv, TypeOK, setDelegate, mgrVars, clientVars, callVars,
       sentVars, ansVars, AnsweredAtMostOnce
  <1>11. AnswersGoToTheAskingDelegate'
    BY <1>m DEF IndInv, TypeOK, setDelegate, mgrVars, clientVars, callVars,
       sentVars, ansVars, AnswersGoToTheAskingDelegate
  <1> QED BY <1>1, <1>2, <1>3, <1>4, <1>5, <1>6, <1>7, <1>8, <1>9, <1>10, <1>11 DEF
     IndInv

\* Cancelling one manager preserves the invariant.
LEMMA cancelStep ==
  ASSUME SingleThread, IndInv, cancel(Main)
  PROVE  IndInv'
  <1>m. Main \in Threads /\ MaxRequests \in Nat BY DataClientAssumption
  <1>t. TypeOK BY DEF IndInv
  <1>w. /\ pc[Main] = "cancel" /\ cur[Main] \in 1 .. poolSize /\ cur[Main] \in Managers
        /\ \A i \in 1 .. poolSize : i < cur[Main] => ~mgrDelegate[i]
    BY <1>m, <1>t DEF IndInv, CancelInv, cancel, TypeOK, Managers
  <1>1. TypeOK'
    <2>t. TypeOK /\ Threads = {Main}
      BY DEF IndInv, SingleThread
    <2>i. cur[Main] \in Managers
      BY <1>m DEF IndInv, TypeOK, cancel, clientVars, callVars, sentVars, ansVars,
         CallsInOrder, CallInv, FrameInv, OwnershipInv, CancelInv, Managers,
         Requests, Busy, Open
    <2>1. (mgrDelegate \in [Managers -> BOOLEAN])'
      BY <1>m, <2>t, <2>i DEF TypeOK, cancel, clientVars, callVars, sentVars,
         ansVars, Managers
    <2>2. (completionHandler \in [Managers -> Requests \cup {None}])'
      BY <1>m, <2>t, <2>i DEF TypeOK, cancel, clientVars, callVars, sentVars,
         ansVars, Managers
    <2>3. (cancelled \in [Requests -> BOOLEAN])'
      BY <1>m, <2>t, <2>i DEF TypeOK, cancel, clientVars, callVars, sentVars,
         ansVars, Managers
    <2>4. (cur \in [Threads -> 0 .. MaxRequests + 1])'
      BY <1>m, <2>t, <2>i DEF TypeOK, cancel, clientVars, callVars, sentVars,
         ansVars, Managers
    <2>u. UNCHANGED <<poolSize, m_bAvailable, m_transactionID, m_receivedData,
                       mgrLock, nextTransactionID, m_delegate, m_delegateLock,
                       reqCount, state, opOf, managerOf, threadOf, idOf, asked,
                       answered, answer, pc, call, newDelegate, frame>>
      BY DEF cancel, clientVars, callVars, sentVars, ansVars
    <2> QED
      BY <2>t, <2>1, <2>2, <2>3, <2>4, <2>u DEF TypeOK
  <1>2. CallsInOrder'
    BY <1>m DEF IndInv, TypeOK, cancel, clientVars, callVars, sentVars, ansVars,
       CallsInOrder
  <1>3. CallInv'
    BY <1>m DEF IndInv, TypeOK, cancel, clientVars, callVars, sentVars, ansVars,
       CallInv
  <1>4. OwnershipInv'
    BY <1>m DEF IndInv, TypeOK, cancel, clientVars, callVars, sentVars, ansVars,
       OwnershipInv
  <1>5. FieldsInv'
    BY <1>m DEF IndInv, TypeOK, cancel, clientVars, callVars, sentVars, ansVars,
       FieldsInv
  <1>6. BufferInv'
    BY <1>m DEF IndInv, TypeOK, cancel, clientVars, callVars, sentVars, ansVars,
       BufferInv
  <1>7. FrameInv'
    BY <1>m DEF IndInv, TypeOK, cancel, clientVars, callVars, sentVars, ansVars,
       FrameInv
  <1>8. CancelInv'
    <2>1. cur'[Main] = cur[Main] + 1 /\ poolSize' = poolSize
      BY <1>m, <1>t DEF cancel, TypeOK
    <2>2. \A i \in 1 .. poolSize : i < cur[Main] + 1 => ~mgrDelegate'[i]
      <3>1. SUFFICES ASSUME NEW i \in 1 .. poolSize, i < cur[Main] + 1
            PROVE  ~mgrDelegate'[i]
        OBVIOUS
      <3>2. i \in Managers /\ (i = cur[Main] \/ i < cur[Main])
        BY <1>m, <1>t, <1>w, <3>1 DEF TypeOK, Managers
      <3> QED BY <1>t, <1>w, <3>1, <3>2 DEF cancel, TypeOK
    <2>3. cur[Main] + 1 \in 1 .. poolSize + 1
      BY <1>t, <1>w DEF TypeOK
    <2> QED BY <2>1, <2>2, <2>3 DEF CancelInv
  <1>9. ResponsesMatchRequests'
    BY <1>m DEF IndInv, TypeOK, cancel, clientVars, callVars, sentVars, ansVars,
       ResponsesMatchRequests
  <1>10. AnsweredAtMostOnce'
    BY <1>m DEF IndInv, TypeOK, cancel, clientVars, callVars, sentVars, ansVars,
       AnsweredAtMostOnce
  <1>11. AnswersGoToTheAskingDelegate'
    BY <1>m DEF IndInv, TypeOK, cancel, clientVars, callVars, sentVars, ansVars,
       AnswersGoToTheAskingDelegate
  <1> QED BY <1>1, <1>2, <1>3, <1>4, <1>5, <1>6, <1>7, <1>8, <1>9, <1>10, <1>11 DEF
     IndInv

\* Installing the new delegate preserves the invariant: every manager is cancelled.
LEMMA installDelegateStep ==
  ASSUME SingleThread, IndInv, installDelegate(Main)
  PROVE  IndInv'
  <1>m. Main \in Threads /\ MaxRequests \in Nat BY DataClientAssumption
  <1>t. TypeOK BY DEF IndInv
  <1>w. pc[Main] = "cancel" BY DEF installDelegate
  <1>n. /\ Return(Main)
        /\ newDelegate' = [newDelegate EXCEPT ![Main] = None]
        /\ UNCHANGED <<poolSize, mgrVars, nextTransactionID, m_delegateLock, callVars,
                       sentVars, state, cancelled, ansVars, frame>>
    BY DEF installDelegate
  <1>d. m_delegate' \in {m_delegate, newDelegate[Main]} /\ m_delegate' # BadDelegate
    BY <1>t, DataClientAssumption DEF installDelegate, TypeOK
  <1>p. pc'[Main] = "idle"
    BY <1>m, <1>t, <1>n DEF TypeOK, Return
  <1>1. TypeOK'
    <2>1. (m_delegate \in Delegates \cup {None} /\ newDelegate \in [Threads -> Delegates \cup {None, BadDelegate}])'
      BY <1>m, <1>t, <1>d, <1>n DEF TypeOK
    <2>2. (pc \in [Threads -> PCs] /\ cur \in [Threads -> 0 .. MaxRequests + 1] /\ call \in [Threads -> 0 .. MaxRequests])'
      BY <1>m, <1>t, <1>n DEF TypeOK, Return, PCs
    <2> QED BY <1>t, <1>n, <2>1, <2>2 DEF TypeOK, mgrVars, callVars, sentVars,
       ansVars
  <1>2. CallsInOrder'
    BY <1>m DEF IndInv, TypeOK, installDelegate, mgrVars, callVars, sentVars,
       ansVars, CallsInOrder
  <1>3. CallInv'
    BY <1>p DEF CallInv
  <1>4. OwnershipInv'
    BY <1>m DEF IndInv, TypeOK, installDelegate, mgrVars, callVars, sentVars,
       ansVars, OwnershipInv
  <1>5. FieldsInv'
    BY <1>m DEF IndInv, TypeOK, installDelegate, mgrVars, callVars, sentVars,
       ansVars, FieldsInv, OwnershipInv, CallInv, CancelInv
  <1>6. BufferInv'
    BY <1>m DEF IndInv, TypeOK, installDelegate, mgrVars, callVars, sentVars,
       ansVars, BufferInv
  <1>7. FrameInv'
    BY <1>w, <1>p, <1>n DEF IndInv, FrameInv
  <1>8. CancelInv'
    BY <1>p DEF CancelInv
  <1>9. ResponsesMatchRequests'
    BY <1>m DEF IndInv, TypeOK, installDelegate, mgrVars, callVars, sentVars,
       ansVars, ResponsesMatchRequests
  <1>10. AnsweredAtMostOnce'
    BY <1>m DEF IndInv, TypeOK, installDelegate, mgrVars, callVars, sentVars,
       ansVars, AnsweredAtMostOnce
  <1>11. AnswersGoToTheAskingDelegate'
    BY <1>m DEF IndInv, TypeOK, installDelegate, mgrVars, callVars, sentVars,
       ansVars, AnswersGoToTheAskingDelegate
  <1> QED BY <1>1, <1>2, <1>3, <1>4, <1>5, <1>6, <1>7, <1>8, <1>9, <1>10, <1>11 DEF
     IndInv

-----------------------------------------------------------------------------
(* The theorems *)

\* A new client satisfies the invariant.
LEMMA InitInv ==
  ASSUME SingleThread, Init
  PROVE  IndInv
  <1>m. Main \in Threads /\ MaxRequests \in Nat BY DataClientAssumption
  <1>1. TypeOK
    <2>1. NoResponse \in Responses
      BY DEF NoResponse, Responses, IDs
    <2> QED BY <1>m, <2>1 DEF Init, TypeOK, IDs, States, Ops, PCs
  <1>2. CallsInOrder /\ CallInv /\ FrameInv /\ CancelInv
    BY <1>m DEF Init, CallsInOrder, CallInv, FrameInv, CancelInv
  <1>3. OwnershipInv /\ FieldsInv /\ BufferInv
    BY DEF Init, OwnershipInv, FieldsInv, BufferInv, Busy, Open, Ending
  <1>4. /\ ResponsesMatchRequests /\ AnsweredAtMostOnce
        /\ AnswersGoToTheAskingDelegate
    BY DEF Init, ResponsesMatchRequests, AnsweredAtMostOnce,
       AnswersGoToTheAskingDelegate
  <1> QED BY <1>1, <1>2, <1>3, <1>4 DEF IndInv

\* Every step of the client, the network or the application preserves the invariant.
LEMMA NextInv ==
  ASSUME SingleThread, IndInv, [Next]_vars
  PROVE  IndInv'
  <1>1. ASSUME ThreadStep(Main)
        PROVE  IndInv'
    BY <1>1, takeManagerStep, growPoolStep, startBadArgsStep, syncBadArgsStep,
       syncTransactionStep, asyncTransactionDelegateStep, asyncTransactionHandlerStep, callbackLockStep,
       httpManagerCallbackStep, cancelStep, installDelegateStep DEF ThreadStep
  <1>2. ASSUME AppStep(Main)
        PROVE  IndInv'
    BY <1>2, getHTTPManagerStep, setDelegateStep, delegateReturnsStep,
       handlerReturnsStep DEF AppStep
  <1>3. ASSUME NEW ok \in BOOLEAN, syncReturn(Main, ok)
        PROVE  IndInv'
    BY <1>3, syncReturnStep
  <1>4. ASSUME NEW r \in Requests, NetworkStep(r)
        PROVE  IndInv'
    BY <1>4, didReceiveResponseStep, didReceiveDataStep, connectionEndsStep,
       connectionEndsUnheardStep, completionBlockStep DEF NetworkStep
  <1>5. CASE UNCHANGED vars
    <2>1. /\ UNCHANGED <<poolSize, nextTransactionID, state, cancelled>>
          /\ UNCHANGED <<m_bAvailable, m_transactionID, mgrDelegate,
                         completionHandler, m_receivedData, mgrLock>>
          /\ UNCHANGED <<m_delegate, m_delegateLock, reqCount, opOf, threadOf>>
          /\ UNCHANGED <<managerOf, idOf, asked, answered, answer>>
          /\ UNCHANGED <<pc, cur, call, newDelegate, frame>>
      BY <1>5 DEF vars, mgrVars, clientVars, sentVars, callVars, ansVars, thrVars
    <2>2. TypeOK' BY <2>1 DEF IndInv, TypeOK
    <2>3. CallsInOrder' BY <2>1 DEF IndInv, CallsInOrder
    <2>4. CallInv' BY <2>1 DEF IndInv, CallInv
    <2>5. OwnershipInv' BY <2>1 DEF IndInv, OwnershipInv
    <2>6. FieldsInv' BY <2>1 DEF IndInv, FieldsInv
    <2>7. BufferInv' BY <2>1 DEF IndInv, BufferInv
    <2>8. FrameInv' /\ CancelInv' BY <2>1 DEF IndInv, FrameInv, CancelInv
    <2>9. /\ ResponsesMatchRequests' /\ AnsweredAtMostOnce'
          /\ AnswersGoToTheAskingDelegate'
      BY <2>1 DEF IndInv, ResponsesMatchRequests, AnsweredAtMostOnce,
         AnswersGoToTheAskingDelegate
    <2> QED BY <2>2, <2>3, <2>4, <2>5, <2>6, <2>7, <2>8, <2>9 DEF IndInv
  <1>6. Threads = {Main}
    BY DEF SingleThread
  <1> QED BY <1>1, <1>2, <1>3, <1>4, <1>5, <1>6 DEF Next

\* The invariant holds of every behaviour of a client used from one thread.
THEOREM InvariantHolds ==
  ASSUME SingleThread
  PROVE  Spec => []IndInv
  <1>1. Init => IndInv
    BY InitInv
  <1>2. IndInv /\ [Next]_vars => IndInv'
    BY NextInv
  <1> QED BY <1>1, <1>2, PTL DEF Spec

\* Used from one thread, the client's variables keep their types.
THEOREM TypeCorrect ==
  ASSUME SingleThread
  PROVE  Spec => []TypeOK
  <1>1. IndInv => TypeOK
    BY DEF IndInv
  <1> QED BY <1>1, InvariantHolds, PTL

\* "any given instance of ApigeeHTTPManager can only manage one transaction at a
\* time" (ApigeeDataClient.m:208) is true of a client used from one thread,
\* however calls, callbacks and setDelegate: follow each other.
THEOREM ManagersAreNotShared ==
  ASSUME SingleThread
  PROVE  Spec => []OneTransactionPerManager
  <1>1. IndInv => OneTransactionPerManager
    BY DEF IndInv, OwnershipInv, OneTransactionPerManager
  <1> QED BY <1>1, InvariantHolds, PTL

\* A response carries the bytes and the transaction ID of its own call.
THEOREM ResponsesAreForTheirRequests ==
  ASSUME SingleThread
  PROVE  Spec => []ResponsesMatchRequests
  <1>1. IndInv => ResponsesMatchRequests
    BY DEF IndInv
  <1> QED BY <1>1, InvariantHolds, PTL

\* No call is answered twice.
THEOREM NoSecondAnswer ==
  ASSUME SingleThread
  PROVE  Spec => []AnsweredAtMostOnce
  <1>1. IndInv => AnsweredAtMostOnce
    BY DEF IndInv
  <1> QED BY <1>1, InvariantHolds, PTL

\* setDelegate: "ensures that the previous delegate will receive no further
\* messages" (ApigeeDataClient.h:122-127): answers only reach the delegate that
\* was installed when the call was made.
THEOREM NoMessageToAnotherDelegate ==
  ASSUME SingleThread
  PROVE  Spec => []AnswersGoToTheAskingDelegate
  <1>1. IndInv => AnswersGoToTheAskingDelegate
    BY DEF IndInv
  <1> QED BY <1>1, InvariantHolds, PTL

-----------------------------------------------------------------------------
(* One thread: the client implements ClientPromise                           *)

\* What holds of a single thread and of an unfinished transaction.
LEMMA Alone ==
  ASSUME SingleThread, IndInv
  PROVE  /\ Main \in Threads /\ MaxRequests \in Nat /\ Threads = {Main}
         /\ pc \in [Threads -> PCs] /\ frame \in [Threads -> 0 .. MaxRequests]
         /\ state \in [Requests -> States] /\ asked \in [Requests -> Delegates \cup {None}]
         /\ cancelled \in [Requests -> BOOLEAN] /\ answered \in [Requests -> Nat]
         /\ answer \in [Requests -> Responses]
         /\ idOf \in [Requests -> IDs] /\ nextTransactionID \in Nat \ {0}
         /\ managerOf \in [Requests -> 0 .. MaxRequests] /\ mgrDelegate \in [Managers -> BOOLEAN]
         /\ \A r \in Requests : state[r] \in Busy => managerOf[r] \in Managers /\ managerOf[r] \in 1 .. poolSize
         /\ \A r, s \in Requests : state[r] \in Busy /\ state[s] \in Busy /\ r # s => managerOf[r] # managerOf[s]
  <1>1. Main \in Threads /\ MaxRequests \in Nat /\ Threads = {Main}
    BY DataClientAssumption DEF SingleThread
  <1>2. TypeOK BY DEF IndInv
  <1>3. \A r, s \in Requests : state[r] \in Busy /\ state[s] \in Busy /\ r # s => managerOf[r] # managerOf[s]
    BY DEF IndInv, OwnershipInv
  <1>4. \A r \in Requests : state[r] \in Busy => managerOf[r] \in Managers /\ managerOf[r] \in 1 .. poolSize
    BY OwnerInPool
  <1> QED BY <1>1, <1>2, <1>3, <1>4 DEF TypeOK

\* What cannot disturb what the promise needs.
LEMMA PromiseUntouched ==
  ASSUME SingleThread, IndInv, PromiseInv, UNCHANGED <<idOf, asked, managerOf>>,
         nextTransactionID' \in {nextTransactionID, nextTransactionID + 1},
         \A r \in Requests :
            /\ cancelled'[r] = cancelled[r]
            /\ answered'[r] # 0 \/ answered'[r] = answered[r]
            /\ state'[r] \in {"unused", "calling"} => state[r] \in {"unused", "calling"}
            /\ state'[r] \in Open \cup Ending /\ asked[r] # None =>
                  state[r] \in Open \cup Ending /\ mgrDelegate'[managerOf[r]] = mgrDelegate[managerOf[r]]
            /\ state[r] = "done" => state'[r] = "done" /\ opOf'[r] = opOf[r]
            /\ state'[r] \in {"callback", "done"} =>
                  \/ state[r] \in {"callback", "done"}
                  \/ answered'[r] # 0 \/ IsAbandoned(r) \/ ReturnedNil(r)'
  PROVE  PromiseInv'
  <1>1. \A r \in Requests : idOf[r] < nextTransactionID'
    BY Alone DEF PromiseInv, IDs, kInvalidTransactionID
  <1>2. \A r \in Requests : state'[r] \in {"callback", "done"} =>
           answered'[r] # 0 \/ IsAbandoned(r)' \/ ReturnedNil(r)'
    BY DEF PromiseInv, IsAbandoned, ReturnedNil
  <1> QED BY <1>1, <1>2 DEF PromiseInv

\* Nor can a call that is sent.
LEMMA PromiseSent ==
  ASSUME SingleThread, IndInv, PromiseInv, pc[Main] = "start",
         NEW c, c = call[Main], NEW s \in {"blocked", "sent"}, NEW i, i \in {idOf[c], nextTransactionID},
         NEW d, d \in {None, m_delegate}, NEW b \in BOOLEAN,
         nextTransactionID' \in {nextTransactionID, nextTransactionID + 1},
         i = nextTransactionID => nextTransactionID' = nextTransactionID + 1,
         state' = [state EXCEPT ![c] = s],
         managerOf' = [managerOf EXCEPT ![c] = cur[Main]],
         idOf' = [idOf EXCEPT ![c] = i],
         asked' = [asked EXCEPT ![c] = d],
         mgrDelegate' \in {mgrDelegate, [mgrDelegate EXCEPT ![cur[Main]] = b]},
         d # None => mgrDelegate'[cur[Main]],
         UNCHANGED <<cancelled, answered, opOf>>
  PROVE  PromiseInv'
  <1>1. c \in Requests /\ state[c] = "calling" /\ cur[Main] \in Managers
        /\ \A r \in Requests : state[r] \in Busy => managerOf[r] # cur[Main]
    BY StartFacts
  <1>2. state'[c] = s /\ managerOf'[c] = cur[Main] /\ idOf'[c] = i /\ asked'[c] = d /\ ~cancelled[c]
    BY <1>1, Alone DEF PromiseInv
  <1>3. \A r \in Requests \ {c} : /\ state'[r] = state[r] /\ managerOf'[r] = managerOf[r]
                                  /\ idOf'[r] = idOf[r] /\ asked'[r] = asked[r]
    BY <1>1, Alone
  <1>4. \A r \in Requests \ {c} :
           state[r] \in Open \cup Ending => mgrDelegate'[managerOf[r]] = mgrDelegate[managerOf[r]]
    BY <1>1, Alone DEF Busy
  <1>5. \A r \in Requests : idOf'[r] < nextTransactionID'
    <2>1. idOf[c] < nextTransactionID /\ idOf[c] \in Int /\ nextTransactionID \in Nat
      BY <1>1, Alone DEF PromiseInv, IDs, kInvalidTransactionID
    <2>2. \A r \in Requests : idOf[r] < nextTransactionID /\ idOf[r] \in Int
      BY Alone DEF PromiseInv, IDs, kInvalidTransactionID
    <2> QED BY <1>2, <1>3, <2>1, <2>2
  <1>6. \A r \in Requests : state'[r] \in {"unused", "calling"} => ~cancelled'[r]
    BY <1>2, <1>3 DEF PromiseInv
  <1>7. \A r \in Requests : state'[r] \in Open \cup Ending /\ asked'[r] # None =>
          (cancelled'[r] <=> ~mgrDelegate'[managerOf'[r]])
    BY <1>2, <1>3, <1>4 DEF PromiseInv
  <1>8. \A r \in Requests : state'[r] \in {"callback", "done"} =>
           answered'[r] # 0 \/ IsAbandoned(r)' \/ ReturnedNil(r)'
    BY <1>2, <1>3 DEF PromiseInv, IsAbandoned, ReturnedNil
  <1> QED BY <1>5, <1>6, <1>7, <1>8 DEF PromiseInv

\* Every step preserves what the promise needs.
LEMMA PromiseStep ==
  ASSUME SingleThread, IndInv, IndInv', PromiseInv, Next
  PROVE  PromiseInv'
  <1> USE Alone DEF States, Busy, Open, Ending, callVars
  <1>0. ASSUME NEW ok, NEW bytes, blockingCallEnds(Main, ok, bytes), state[call[Main]] \in {"calling", "blocked"}
        PROVE  PromiseInv'
    <2>1. /\ UNCHANGED <<idOf, asked, managerOf, nextTransactionID, cancelled, mgrDelegate, opOf>>
          /\ \A r \in Requests : state'[r] = IF r = call[Main] THEN "done" ELSE state[r]
      BY <1>0 DEF blockingCallEnds, sentVars
    <2>2. \/ answered' = answered /\ opOf[call[Main]] = "assetUpload"
          \/ answered' = [answered EXCEPT ![call[Main]] = @ + 1]
      BY <1>0 DEF blockingCallEnds, Respond, ansVars
    <2>3. ASSUME NEW r \in Requests
          PROVE  /\ answered'[r] # 0 \/ answered'[r] = answered[r]
                 /\ r = call[Main] => answered'[r] # 0 \/ ReturnedNil(r)'
      <3>1. CASE r = call[Main]
        <4>1. state'[r] = "done" /\ opOf'[r] = opOf[r] BY <2>1, <3>1
        <4> QED BY <2>2, <3>1, <4>1 DEF ReturnedNil
      <3>2. CASE r # call[Main] BY <2>2, <3>2
      <3> QED BY <3>1, <3>2
    <2> HIDE <1>0
    <2>4. state[call[Main]] \in {"calling", "blocked"} BY <1>0
    <2> QED BY <2>1, <2>3, <2>4, PromiseUntouched
  <1>1. ASSUME NEW o \in Ops, getHTTPManager(Main, o) PROVE PromiseInv'
    <2>1. reqCount + 1 \in Requests /\ state[reqCount + 1] = "unused"
      BY <1>1 DEF getHTTPManager, IndInv, CallsInOrder, TypeOK, Requests
    <2>2. \A r \in Requests : state'[r] = IF r = reqCount + 1 THEN "calling" ELSE state[r]
      BY <1>1, <2>1 DEF getHTTPManager
    <2>3. /\ UNCHANGED <<idOf, asked, managerOf, nextTransactionID, cancelled, answered, mgrDelegate>>
          /\ \A r \in Requests : r # reqCount + 1 => opOf'[r] = opOf[r]
      BY <1>1 DEF getHTTPManager, sentVars, ansVars, mgrVars, IndInv, TypeOK
    <2> QED BY <2>1, <2>2, <2>3, PromiseUntouched
  <1>2. CASE takeManager(Main) \/ growPool(Main)
    BY <1>2, PromiseUntouched DEF takeManager, growPool, sentVars, ansVars, mgrVars
  <1>3. CASE startBadArgs(Main)
    BY <1>3, StartFacts, PromiseUntouched DEF startBadArgs, callFails, Respond, sentVars, ansVars, mgrVars
  <1>4. CASE syncTransaction(Main)
    <2>1. /\ pc[Main] = "start" /\ call[Main] \in Requests
          /\ asked[call[Main]] = None /\ idOf[call[Main]] # nextTransactionID
      BY <1>4, StartFacts DEF syncTransaction, IndInv, CallsInOrder, kInvalidTransactionID
    <2>2. /\ state' = [state EXCEPT ![call[Main]] = "blocked"]
          /\ managerOf' = [managerOf EXCEPT ![call[Main]] = cur[Main]]
          /\ UNCHANGED <<idOf, asked, nextTransactionID, cancelled, answered, mgrDelegate, opOf>>
      BY <1>4 DEF syncTransaction, ansVars
    <2>3. idOf' = [idOf EXCEPT ![call[Main]] = idOf[call[Main]]]
          /\ asked' = [asked EXCEPT ![call[Main]] = None]
      BY <2>1, <2>2
    <2>4. mgrDelegate' \in {mgrDelegate, [mgrDelegate EXCEPT ![cur[Main]] = TRUE]}
      BY <2>2
    <2> QED BY <2>1, <2>2, <2>3, <2>4, PromiseSent
  <1>5. CASE \E ok \in BOOLEAN : syncReturn(Main, ok)
    <2>1. PICK ok \in BOOLEAN : syncReturn(Main, ok) BY <1>5
    <2>2. pc[Main] = "syncWait" /\ \E bytes : blockingCallEnds(Main, ok, bytes)
      BY <2>1 DEF syncReturn
    <2> QED BY <2>2, <1>0 DEF IndInv, CallInv
  <1>20. CASE syncBadArgs(Main)
    <2>1. pc[Main] = "start" /\ \E bytes : blockingCallEnds(Main, FALSE, bytes)
      BY <1>20 DEF syncBadArgs
    <2> QED BY <2>1, <1>0, StartFacts
  <1>6. CASE asyncTransactionDelegate(Main, TRUE)
    <2>1. pc[Main] = "start" /\ cur[Main] \in Managers
      BY <1>6, StartFacts DEF asyncTransactionDelegate
    <2>2. /\ state' = [state EXCEPT ![call[Main]] = "sent"]
          /\ managerOf' = [managerOf EXCEPT ![call[Main]] = cur[Main]]
          /\ idOf' = [idOf EXCEPT ![call[Main]] = nextTransactionID]
          /\ asked' = [asked EXCEPT ![call[Main]] = m_delegate]
          /\ mgrDelegate' = [mgrDelegate EXCEPT ![cur[Main]] = TRUE]
          /\ nextTransactionID' = nextTransactionID + 1
          /\ UNCHANGED <<cancelled, answered, opOf>>
      BY <1>6 DEF asyncTransactionDelegate, ansVars
    <2>3. mgrDelegate'[cur[Main]] BY <2>1, <2>2
    <2> HIDE <1>6
    <2> QED BY <2>1, <2>2, <2>3, PromiseSent
  <1>7. CASE asyncTransactionDelegate(Main, FALSE)
    <2>1. /\ pc[Main] = "start" /\ cur[Main] \in Managers
          /\ call[Main] \in Requests /\ answered[call[Main]] = 0
          /\ \A r \in Requests : state[r] \in Busy => managerOf[r] # cur[Main]
      BY <1>7, StartFacts DEF asyncTransactionDelegate, IndInv, CallsInOrder
    <2>2. /\ state' = [state EXCEPT ![call[Main]] = "done"]
          /\ answered' = [answered EXCEPT ![call[Main]] = @ + 1]
          /\ mgrDelegate' = [mgrDelegate EXCEPT ![cur[Main]] = TRUE]
          /\ nextTransactionID' = nextTransactionID + 1
          /\ UNCHANGED <<cancelled, idOf, asked, managerOf, opOf>>
      BY <1>7 DEF asyncTransactionDelegate, sentVars, callFails, Respond
    <2>3. answered'[call[Main]] = 1 /\ state'[call[Main]] = "done"
      BY <2>1, <2>2
    <2>4. \A r \in Requests \ {call[Main]} : answered'[r] = answered[r] /\ state'[r] = state[r]
      BY <2>2
    <2>5. \A r \in Requests : state[r] \in Busy => mgrDelegate'[managerOf[r]] = mgrDelegate[managerOf[r]]
      BY <2>1, <2>2
    <2>6. ASSUME NEW r \in Requests
          PROVE  /\ cancelled'[r] = cancelled[r]
                 /\ answered'[r] # 0 \/ answered'[r] = answered[r]
                 /\ state'[r] \in {"unused", "calling"} => state[r] \in {"unused", "calling"}
                 /\ state'[r] \in Open \cup Ending /\ asked[r] # None =>
                       state[r] \in Open \cup Ending /\ mgrDelegate'[managerOf[r]] = mgrDelegate[managerOf[r]]
                 /\ state[r] = "done" => state'[r] = "done" /\ opOf'[r] = opOf[r]
                 /\ state'[r] \in {"callback", "done"} =>
                       \/ state[r] \in {"callback", "done"}
                       \/ answered'[r] # 0 \/ IsAbandoned(r) \/ ReturnedNil(r)'
      <3>1. CASE r = call[Main]
        <4>1. state'[r] = "done" /\ answered'[r] = 1 /\ cancelled' = cancelled /\ opOf' = opOf
          BY <3>1, <2>2, <2>3
        <4> HIDE <1>7, <2>2, <2>3
        <4> QED BY ONLY <4>1 DEF Open, Ending
      <3>2. CASE r # call[Main] BY <3>2, <2>2, <2>4, <2>5
      <3> QED BY <3>1, <3>2
    <2> QED BY <2>2, <2>6, PromiseUntouched
  <1>8. CASE asyncTransactionHandler(Main)
    <2>1. pc[Main] = "start" /\ call[Main] \in Requests /\ asked[call[Main]] = None
      BY <1>8, StartFacts DEF asyncTransactionHandler, IndInv, CallsInOrder
    <2>2. /\ state' = [state EXCEPT ![call[Main]] = "sent"]
          /\ managerOf' = [managerOf EXCEPT ![call[Main]] = cur[Main]]
          /\ idOf' = [idOf EXCEPT ![call[Main]] = nextTransactionID]
          /\ mgrDelegate' = [mgrDelegate EXCEPT ![cur[Main]] = FALSE]
          /\ nextTransactionID' = nextTransactionID + 1
          /\ UNCHANGED <<cancelled, answered, asked, opOf>>
      BY <1>8 DEF asyncTransactionHandler, ansVars
    <2>3. asked' = [asked EXCEPT ![call[Main]] = None]
      BY <2>1, <2>2
    <2> QED BY <2>1, <2>2, <2>3, PromiseSent
  <1>9. ASSUME NEW r \in Requests, didReceiveResponse(r) \/ didReceiveData(r) PROVE PromiseInv'
    BY <1>9, PromiseUntouched DEF didReceiveResponse, didReceiveData, sentVars, ansVars
  <1>10. ASSUME NEW r \in Requests, NEW failed \in BOOLEAN, connectionEnds(r, failed) PROVE PromiseInv'
    BY <1>10, PromiseUntouched DEF connectionEnds, sentVars, ansVars, mgrVars
  <1>11. ASSUME NEW r \in Requests, NEW failed \in BOOLEAN, connectionEndsUnheard(r, failed) PROVE PromiseInv'
    <2>1. completionHandler[managerOf[r]] = None
      BY <1>11 DEF connectionEndsUnheard, IndInv, FieldsInv
    <2>2. UNCHANGED ansVars /\ IsAbandoned(r)
      BY <1>11, <2>1 DEF connectionEndsUnheard, PromiseInv, IsAbandoned
    <2> QED BY <1>11, <2>2, PromiseUntouched DEF connectionEndsUnheard, sentVars, ansVars
  <1>12. CASE callbackLock(Main)
    <2>1. frame[Main] \in Requests /\ state[frame[Main]] \in Ending /\ asked[frame[Main]] # None
      BY <1>12, FrameOwner DEF callbackLock, IndInv, FrameInv, BufferInv
    <2> QED BY <1>12, <2>1, PromiseUntouched DEF callbackLock, sentVars, ansVars, PromiseInv, IsAbandoned
  <1>13. CASE httpManagerCallback(Main)
    <2>1. frame[Main] \in Requests /\ state[frame[Main]] \in Ending /\ m_delegate # None
      BY <1>13, FrameOwner DEF httpManagerCallback, IndInv, FrameInv, BufferInv, FieldsInv
    <2> QED BY <1>13, <2>1, PromiseUntouched DEF httpManagerCallback, Respond, sentVars, ansVars
  <1>14. ASSUME NEW r \in Requests, NEW failed \in BOOLEAN, completionBlock(r, failed) PROVE PromiseInv'
    BY <1>14, PromiseUntouched DEF completionBlock, Respond, sentVars, mgrVars
  <1>15. CASE delegateReturns(Main)
    <2>1. frame[Main] \in Requests /\ state[frame[Main]] = "callback"
      BY <1>15, FrameOwner DEF delegateReturns, IndInv, FrameInv
    <2> QED BY <1>15, <2>1, PromiseUntouched DEF delegateReturns, endDelegateCallback, sentVars, ansVars
  <1>16. CASE handlerReturns(Main)
    <2>1. frame[Main] \in Requests /\ state[frame[Main]] = "callback"
      BY <1>16, FrameOwner DEF handlerReturns, IndInv, FrameInv
    <2> QED BY <1>16, <2>1, PromiseUntouched DEF handlerReturns, sentVars, ansVars
  <1>17. CASE \E d \in Delegates \cup {None, BadDelegate} : setDelegate(Main, d)
    BY <1>17, PromiseUntouched DEF setDelegate, sentVars, ansVars, mgrVars
  <1>18. CASE cancel(Main)
    <2>1. cur[Main] \in Managers
      BY <1>18 DEF cancel, IndInv, CancelInv, TypeOK, Managers
    <2> QED BY <1>18, <2>1 DEF cancel, PromiseInv, IsAbandoned, ReturnedNil, sentVars, ansVars
  <1>19. CASE installDelegate(Main)
    BY <1>19, PromiseUntouched DEF installDelegate, sentVars, ansVars, mgrVars
  <1> QED BY <1>1, <1>2, <1>3, <1>4, <1>5, <1>6, <1>7, <1>8, <1>9, <1>10, <1>11, <1>12, <1>13, <1>14, <1>15,
             <1>16, <1>17, <1>18, <1>19, <1>20 DEF Next, ThreadStep, AppStep, NetworkStep

\* What the promise needs holds of a new client.
LEMMA PromiseInit ==
  ASSUME Init
  PROVE  PromiseInv
  BY DEF Init, PromiseInv, kInvalidTransactionID, Open, Ending

\* What each status stands for.
LEMMA StatusIs ==
  ASSUME SingleThread, IndInv, PromiseInv, NEW r \in Requests
  PROVE  /\ state[r] = "unused" => Status(r) = "unmade"
         /\ state[r] = "calling" => Status(r) = "made"
         /\ state[r] \in Open \cup Ending => Status(r) = IF IsAbandoned(r) THEN "abandoned" ELSE "sent"
         /\ state[r] \in {"callback", "done"} =>
               Status(r) = IF answered[r] # 0 THEN "answered"
                           ELSE IF IsAbandoned(r) THEN "abandoned" ELSE "nil"
  <1>1. answered[r] \in {0, 1}
    BY Alone DEF IndInv, AnsweredAtMostOnce
  <1>2. state[r] \notin {"callback", "done"} => answered[r] = 0
    BY DEF IndInv, CallsInOrder
  <1>3. state[r] \in {"unused", "calling"} => ~IsAbandoned(r)
    BY DEF PromiseInv, IsAbandoned
  <1>4. state[r] \in {"callback", "done"} => answered[r] # 0 \/ IsAbandoned(r) \/ ReturnedNil(r)
    BY DEF PromiseInv
  <1>5. state[r] \in {"unused", "calling"} =>
           Status(r) = IF state[r] = "unused" THEN "unmade" ELSE "made"
    <2>1. CASE state[r] = "unused"
      <3>1. answered[r] = 0 /\ ~ReturnedNil(r) BY <1>2, <2>1 DEF ReturnedNil
      <3> QED BY <1>3, <2>1, <3>1 DEF Status, Open, Ending
    <2>2. CASE state[r] = "calling"
      <3>1. answered[r] = 0 /\ ~ReturnedNil(r) BY <1>2, <2>2 DEF ReturnedNil
      <3> QED BY <1>3, <2>2, <3>1 DEF Status, Open, Ending
    <2> QED BY <2>1, <2>2
  <1>6. CASE state[r] \in Open \cup Ending
    <2>1. answered[r] = 0 /\ state[r] \notin {"unused", "calling", "callback", "done"}
          /\ ~ReturnedNil(r)
      BY <1>2, <1>6 DEF Open, Ending, ReturnedNil
    <2>2. CASE IsAbandoned(r) BY <2>1, <2>2 DEF Status
    <2>3. CASE ~IsAbandoned(r) BY <1>6, <2>1, <2>3 DEF Status
    <2> QED BY <2>1, <2>2, <2>3
  <1>7. CASE state[r] \in {"callback", "done"}
    <2>1. CASE answered[r] = 1
      <3>1. ~ReturnedNil(r) BY <2>1 DEF ReturnedNil
      <3> QED BY <2>1, <1>7, <3>1 DEF Status, Open, Ending
    <2>2. CASE answered[r] = 0 BY <2>2, <1>4, <1>7 DEF Status, Open, Ending
    <2> QED BY <1>1, <1>7, <2>1, <2>2 DEF Open, Ending
  <1> QED BY <1>5, <1>6, <1>7

LEMMA StatusWillBe ==
  ASSUME SingleThread, IndInv', PromiseInv', NEW r \in Requests
  PROVE  /\ state'[r] = "unused" => Status(r)' = "unmade"
         /\ state'[r] = "calling" => Status(r)' = "made"
         /\ state'[r] \in Open \cup Ending => Status(r)' = IF IsAbandoned(r)' THEN "abandoned" ELSE "sent"
         /\ state'[r] \in {"callback", "done"} =>
               Status(r)' = IF answered'[r] # 0 THEN "answered"
                            ELSE IF IsAbandoned(r)' THEN "abandoned" ELSE "nil"
  <1>1. answered'[r] \in {0, 1}
    BY DataClientAssumption DEF IndInv, TypeOK, AnsweredAtMostOnce
  <1>2. state'[r] \notin {"callback", "done"} => answered'[r] = 0
    BY DEF IndInv, CallsInOrder
  <1>3. state'[r] \in {"unused", "calling"} => ~IsAbandoned(r)'
    BY DEF PromiseInv, IsAbandoned
  <1>4. state'[r] \in {"callback", "done"} => answered'[r] # 0 \/ IsAbandoned(r)' \/ ReturnedNil(r)'
    BY DEF PromiseInv
  <1>5. state'[r] \in {"unused", "calling"} =>
           Status(r)' = IF state'[r] = "unused" THEN "unmade" ELSE "made"
    <2>1. CASE state'[r] = "unused"
      <3>1. answered'[r] = 0 /\ ~ReturnedNil(r)' BY <1>2, <2>1 DEF ReturnedNil
      <3> QED BY <1>3, <2>1, <3>1 DEF Status, Open, Ending
    <2>2. CASE state'[r] = "calling"
      <3>1. answered'[r] = 0 /\ ~ReturnedNil(r)' BY <1>2, <2>2 DEF ReturnedNil
      <3> QED BY <1>3, <2>2, <3>1 DEF Status, Open, Ending
    <2> QED BY <2>1, <2>2
  <1>6. CASE state'[r] \in Open \cup Ending
    <2>1. answered'[r] = 0 /\ state'[r] \notin {"unused", "calling", "callback", "done"}
          /\ ~ReturnedNil(r)'
      BY <1>2, <1>6 DEF Open, Ending, ReturnedNil
    <2>2. CASE IsAbandoned(r)' BY <2>1, <2>2 DEF Status
    <2>3. CASE ~IsAbandoned(r)' BY <1>6, <2>1, <2>3 DEF Status
    <2> QED BY <2>1, <2>2, <2>3
  <1>7. CASE state'[r] \in {"callback", "done"}
    <2>1. CASE answered'[r] = 1
      <3>1. ~ReturnedNil(r)' BY <2>1 DEF ReturnedNil
      <3> QED BY <2>1, <1>7, <3>1 DEF Status, Open, Ending
    <2>2. CASE answered'[r] = 0 BY <2>2, <1>4, <1>7 DEF Status, Open, Ending
    <2> QED BY <1>1, <1>7, <2>1, <2>2 DEF Open, Ending
  <1> QED BY <1>5, <1>6, <1>7

\* A call whose status a step leaves alone.
LEMMA StatusStays ==
  ASSUME SingleThread, IndInv, PromiseInv, IndInv', PromiseInv', NEW r \in Requests,
         asked'[r] = asked[r], cancelled'[r] = cancelled[r], answered'[r] = answered[r],
         \/ state'[r] = state[r]
         \/ state[r] \in Open \cup Ending /\ state'[r] \in Open \cup Ending
         \/ state[r] \in Open \cup Ending /\ IsAbandoned(r) /\ state'[r] = "done"
         \/ state[r] = "callback" /\ state'[r] = "done"
  PROVE  Status(r)' = Status(r)
  <1>1. IsAbandoned(r)' <=> IsAbandoned(r)
    BY DEF IsAbandoned
  <1>2. state[r] \in Open \cup Ending => answered[r] = 0
    BY DEF IndInv, CallsInOrder, Open, Ending
  <1>3. state[r] \in {"unused", "calling"} \cup Open \cup Ending \cup {"callback", "done"}
    BY Alone DEF States, Busy
  <1> QED BY <1>1, <1>2, <1>3, StatusIs, StatusWillBe

\* Only a new call may be an upload that was not.
LEMMA UploadsStay ==
  ASSUME UNCHANGED opOf, \A r \in Requests : state'[r] = "unused" <=> state[r] = "unused"
  PROVE  Uploads' = Uploads
  BY DEF Uploads

\* A step that leaves every status alone.
LEMMA NobodyMoves ==
  ASSUME \A r \in Requests : Status(r)' = Status(r)
  PROVE  [r \in Requests |-> Status(r)]' = [r \in Requests |-> Status(r)]
  OBVIOUS

\* A step that moves one call.
LEMMA OneMoves ==
  ASSUME NEW c \in Requests, NEW from, NEW to, Status(c) = from, Status(c)' = to,
         \A r \in Requests \ {c} : Status(r)' = Status(r)
  PROVE  Promise!Becomes(c, from, to)
  BY DEF Promise!Becomes

\* A step the promise does not see: calls at most move on without being answered.
LEMMA Unseen ==
  ASSUME SingleThread, IndInv, PromiseInv, IndInv', PromiseInv',
         UNCHANGED <<m_delegate, sentVars, cancelled, ansVars, opOf>>,
         pc' = pc \/ (pc[Main] # "cancel" /\ pc'[Main] # "cancel"),
         \A r \in Requests :
            \/ state'[r] = state[r]
            \/ state[r] \in Open \cup Ending /\ state'[r] \in Open \cup Ending
            \/ state[r] \in Open \cup Ending /\ IsAbandoned(r) /\ state'[r] = "done"
            \/ state[r] = "callback" /\ state'[r] = "done"
  PROVE  UNCHANGED Promise!vars
  <1>1. UNCHANGED <<asked, idOf, answered, answer>>
    BY DEF sentVars, ansVars
  <1>2. [r \in Requests |-> Status(r)]' = [r \in Requests |-> Status(r)]
    BY <1>1, StatusStays, NobodyMoves
  <1>3. (pc[Main] = "cancel")' = (pc[Main] = "cancel")
    OBVIOUS
  <1>4. Uploads' = Uploads
    BY UploadsStay DEF Open, Ending
  <1> QED BY <1>1, <1>2, <1>3, <1>4 DEF Promise!vars

\* These steps are such: what comes back of a call before or after its answer, or of an
\* abandoned one.
LEMMA UnseenSteps ==
  ASSUME SingleThread, IndInv, PromiseInv, IndInv', PromiseInv',
         \/ takeManager(Main) \/ growPool(Main) \/ callbackLock(Main)
         \/ delegateReturns(Main) \/ handlerReturns(Main)
         \/ \E r \in Requests, failed \in BOOLEAN :
               \/ didReceiveResponse(r) \/ didReceiveData(r)
               \/ connectionEnds(r, failed) \/ connectionEndsUnheard(r, failed)
         \/ UNCHANGED vars
  PROVE  UNCHANGED Promise!vars
  <1> USE Alone DEF clientVars, callVars
  <1>1. CASE takeManager(Main)
    BY <1>1, Unseen DEF takeManager
  <1>2. CASE growPool(Main)
    BY <1>2, Unseen DEF growPool
  <1>3. CASE callbackLock(Main)
    <2>1. frame[Main] \in Requests /\ state[frame[Main]] \in Ending /\ asked[frame[Main]] # None
      BY <1>3, FrameOwner DEF callbackLock, IndInv, FrameInv, BufferInv
    <2>2. pc[Main] = "cbLock" /\ pc'[Main] # "cancel"
          /\ UNCHANGED <<m_delegate, sentVars, cancelled, ansVars, opOf>>
      BY <1>3 DEF callbackLock
    <2>3. \/ state' = state
          \/ ~mgrDelegate[managerOf[frame[Main]]] /\ state' = [state EXCEPT ![frame[Main]] = "done"]
      BY <1>3 DEF callbackLock
    <2>4. ~mgrDelegate[managerOf[frame[Main]]] => IsAbandoned(frame[Main])
      BY <2>1 DEF PromiseInv, IsAbandoned
    <2> QED BY <2>1, <2>2, <2>3, <2>4, Unseen
  <1>4. CASE delegateReturns(Main)
    <2>1. frame[Main] \in Requests /\ state[frame[Main]] = "callback"
      BY <1>4, FrameOwner DEF delegateReturns, IndInv, FrameInv
    <2> QED BY <1>4, <2>1, Unseen DEF delegateReturns, endDelegateCallback
  <1>5. CASE handlerReturns(Main)
    <2>1. frame[Main] \in Requests /\ state[frame[Main]] = "callback"
      BY <1>5, FrameOwner DEF handlerReturns, IndInv, FrameInv
    <2> QED BY <1>5, <2>1, Unseen DEF handlerReturns
  <1>6. ASSUME NEW r \in Requests, didReceiveResponse(r) \/ didReceiveData(r) PROVE UNCHANGED Promise!vars
    BY <1>6, Unseen DEF didReceiveResponse, didReceiveData, thrVars, Open
  <1>7. ASSUME NEW r \in Requests, NEW failed \in BOOLEAN, connectionEnds(r, failed)
        PROVE  UNCHANGED Promise!vars
    <2>1. threadOf[r] = Main BY OneThread DEF IndInv
    <2>2. pc[Main] = "idle" /\ pc'[Main] = "cbLock"
      BY <1>7, <2>1 DEF connectionEnds, RunLoopFree
    <2>3. state[r] \in Open /\ state' = [state EXCEPT ![r] = IF failed THEN "failing" ELSE "finishing"]
          /\ UNCHANGED <<m_delegate, sentVars, cancelled, ansVars, opOf>>
      BY <1>7 DEF connectionEnds, Open
    <2> QED BY <2>2, <2>3, Unseen DEF Ending
  <1>8. ASSUME NEW r \in Requests, NEW failed \in BOOLEAN, connectionEndsUnheard(r, failed)
        PROVE  UNCHANGED Promise!vars
    <2>1. state[r] \in Open /\ asked[r] # None /\ ~mgrDelegate[managerOf[r]]
      BY <1>8 DEF connectionEndsUnheard, Open
    <2>2. completionHandler[managerOf[r]] = None /\ IsAbandoned(r)
      BY <2>1 DEF IndInv, FieldsInv, PromiseInv, IsAbandoned, Busy
    <2>3. UNCHANGED ansVars
      BY <1>8, <2>2 DEF connectionEndsUnheard
    <2>4. state' = [state EXCEPT ![r] = "done"] /\ pc' = pc
          /\ UNCHANGED <<m_delegate, sentVars, cancelled, opOf>>
      BY <1>8 DEF connectionEndsUnheard, thrVars
    <2> QED BY <2>1, <2>2, <2>3, <2>4, Unseen
  <1>9. CASE UNCHANGED vars
    BY <1>9, Unseen DEF vars, thrVars
  <1> QED BY <1>1, <1>2, <1>3, <1>4, <1>5, <1>6, <1>7, <1>8, <1>9

\* getHTTPManager makes a call.
LEMMA getHTTPManagerMakes ==
  ASSUME SingleThread, IndInv, PromiseInv, IndInv', PromiseInv', NEW o \in Ops, getHTTPManager(Main, o)
  PROVE  Promise!Next
  <1>0. reqCount + 1 \in Requests /\ state[reqCount + 1] = "unused"
    BY Alone DEF getHTTPManager, IndInv, CallsInOrder, TypeOK, Requests
  <1>1. PICK c \in Requests : c = reqCount + 1 /\ state[c] = "unused"
    BY <1>0
  <1>2. \A r \in Requests : state'[r] = IF r = c THEN "calling" ELSE state[r]
    BY <1>1, Alone DEF getHTTPManager
  <1>3. UNCHANGED <<m_delegate, idOf, asked, cancelled, answered, answer>>
    BY DEF getHTTPManager, clientVars, sentVars, ansVars
  <1>4. pc[Main] = "idle" /\ pc'[Main] # "cancel"
    BY Alone DEF getHTTPManager
  <1>5. Promise!Becomes(c, "unmade", "made")
    <2>1. Status(c) = "unmade" BY <1>1, StatusIs
    <2>2. Status(c)' = "made" BY <1>2, StatusWillBe
    <2>3. \A r \in Requests \ {c} : Status(r)' = Status(r)
      BY <1>2, <1>3, StatusStays
    <2> QED BY <2>1, <2>2, <2>3, OneMoves
  <1>6. Uploads' \in {Uploads, Uploads \cup {c}}
    <2>1. \A r \in Requests \ {c} : opOf'[r] = opOf[r]
      BY <1>1 DEF getHTTPManager, IndInv, TypeOK
    <2> QED BY <1>1, <1>2, <2>1 DEF Uploads
  <1>7. Promise!Make(c)
    BY <1>3, <1>4, <1>5, <1>6 DEF Promise!Make
  <1> QED BY <1>7 DEF Promise!Next

\* A call that is refused, or answered.
LEMMA CallAnswered ==
  ASSUME SingleThread, IndInv, PromiseInv, IndInv', PromiseInv',
         NEW c \in Requests, NEW s \in {"callback", "done"},
         state[c] \notin {"callback", "done"},
         NEW bytes, NEW i, NEW to, Respond(c, bytes, i, to),
         state' = [state EXCEPT ![c] = s], UNCHANGED <<asked, cancelled>>
  PROVE  /\ Promise!Becomes(c, Status(c), "answered")
         /\ answer' = [answer EXCEPT ![c] = [data |-> bytes, id |-> i, to |-> to]]
  <1>1. answered[c] = 0
    BY DEF IndInv, CallsInOrder
  <1>2. answered' = [answered EXCEPT ![c] = 1]
    BY <1>1 DEF Respond
  <1>3. Status(c)' = "answered"
    <2>1. state'[c] = s /\ answered'[c] = 1 BY <1>2, Alone
    <2> QED BY <2>1, StatusWillBe
  <1>4. \A r \in Requests \ {c} : Status(r)' = Status(r)
    BY <1>2, Alone, StatusStays
  <1> QED BY <1>3, <1>4, OneMoves DEF Respond

\* A call that is sent, synchronously or in the background.
LEMMA CallSent ==
  ASSUME SingleThread, IndInv, PromiseInv, IndInv', PromiseInv', pc[Main] = "start", pc'[Main] # "cancel",
         NEW c, c = call[Main], NEW s \in {"blocked", "sent"}, NEW to \in {None, m_delegate},
         NEW i \in {kInvalidTransactionID, nextTransactionID},
         to # None => i # kInvalidTransactionID,
         state' = [state EXCEPT ![c] = s],
         idOf' = [idOf EXCEPT ![c] = i],
         asked' = [asked EXCEPT ![c] = to],
         UNCHANGED <<m_delegate, cancelled, answered, answer, opOf>>
  PROVE  Promise!Next
  <1>1. c \in Requests /\ state[c] = "calling" /\ ~cancelled[c]
    BY StartFacts DEF PromiseInv
  <1>2. Status(c) = "made"
    BY <1>1, StatusIs
  <1>3. Status(c)' = "sent"
    <2>1. state'[c] = s /\ ~IsAbandoned(c)' BY <1>1, Alone DEF IsAbandoned
    <2> QED BY <1>1, <2>1, StatusWillBe DEF Open
  <1>4. \A r \in Requests \ {c} : Status(r)' = Status(r)
    BY <1>1, Alone, StatusStays
  <1>5. Promise!Becomes(c, "made", "sent")
    BY <1>1, <1>2, <1>3, <1>4, OneMoves
  <1>6. idOf'[c] = i /\ (i # kInvalidTransactionID => \A d \in Requests : idOf[d] # i)
    BY <1>1, Alone DEF PromiseInv, IDs, kInvalidTransactionID
  <1>7. (pc[Main] = "cancel")' = (pc[Main] = "cancel")
    OBVIOUS
  <1>8. idOf' = [idOf EXCEPT ![c] = idOf'[c]]
    BY <1>6
  <1>9. Uploads' = Uploads
    BY <1>1, Alone, UploadsStay
  <1>10. Promise!Send(c)
    BY <1>5, <1>6, <1>7, <1>8, <1>9 DEF Promise!Send
  <1> QED BY <1>1, <1>10 DEF Promise!Next

\* Every step of the client is a step of the promise, or one it does not see.
LEMMA StepKeepsPromise ==
  ASSUME SingleThread, IndInv, PromiseInv, IndInv', PromiseInv', [Next]_vars
  PROVE  [Promise!Next]_(Promise!vars)
  <1>c. PICK c : c = call[Main]
    OBVIOUS
  <1> USE <1>c DEF callVars
  <1>1. ASSUME NEW o \in Ops, getHTTPManager(Main, o) PROVE Promise!Next
    BY <1>1, getHTTPManagerMakes
  <1>2. ASSUME pc[Main] = "start"
        PROVE  c \in Requests /\ state[c] = "calling" /\ Status(c) = "made"
               /\ asked[c] = None /\ idOf[c] = kInvalidTransactionID
    BY <1>2, StartFacts, StatusIs DEF IndInv, CallsInOrder
  <1>3. ASSUME pc[Main] = "start", callFails(Main), UNCHANGED <<m_delegate, idOf, asked, cancelled, opOf>>,
               pc'[Main] = "idle"
        PROVE  Promise!Next
    <2>1. c \in Requests /\ state[c] = "calling" /\ Status(c) = "made" BY <1>2, <1>3
    <2>2. Respond(c, {}, kInvalidTransactionID, None) /\ state' = [state EXCEPT ![c] = "done"]
      BY <1>3 DEF callFails
    <2>a. Promise!Becomes(c, Status(c), "answered")
      BY <1>3, <2>1, <2>2, CallAnswered
    <2>3. Promise!Becomes(c, "made", "answered")
          /\ answer' = [answer EXCEPT ![c] = [data |-> {}, id |-> kInvalidTransactionID, to |-> None]]
      BY <2>a, <2>1, <2>2 DEF Respond
    <2>4. (pc[Main] = "cancel")' = (pc[Main] = "cancel") BY <1>3
    <2>5. Uploads' = Uploads
      BY <1>3, <2>1, <2>2, Alone, UploadsStay
    <2>6. Promise!Refuse(c)
      BY <1>3, <2>3, <2>4, <2>5 DEF Promise!Refuse, Promise!NoAnswer
    <2> QED BY <2>1, <2>6 DEF Promise!Next
  <1>4. ASSUME startBadArgs(Main) PROVE Promise!Next
    BY <1>3, <1>4, Alone DEF startBadArgs, Return, clientVars, sentVars
  <1>5. ASSUME syncTransaction(Main) PROVE Promise!Next
    <2>1. c \in Requests /\ idOf[c] = kInvalidTransactionID /\ asked[c] = None
      BY <1>2, <1>5 DEF syncTransaction
    <2>2. /\ state' = [state EXCEPT ![c] = "blocked"] /\ pc[Main] = "start" /\ pc'[Main] # "cancel"
          /\ UNCHANGED <<idOf, asked, m_delegate, cancelled, answered, answer, opOf>>
      BY <1>5, Alone DEF syncTransaction, clientVars, ansVars
    <2>3. idOf' = [idOf EXCEPT ![c] = kInvalidTransactionID] /\ asked' = [asked EXCEPT ![c] = None]
      BY <2>1, <2>2, Alone
    <2> QED BY <2>2, <2>3, CallSent
  <1>6. ASSUME asyncTransactionDelegate(Main, TRUE) PROVE Promise!Next
    <2>1. c \in Requests
      BY <1>2, <1>6 DEF asyncTransactionDelegate
    <2>2. /\ state' = [state EXCEPT ![c] = "sent"] /\ pc[Main] = "start" /\ pc'[Main] # "cancel"
          /\ idOf' = [idOf EXCEPT ![c] = nextTransactionID]
          /\ asked' = [asked EXCEPT ![c] = m_delegate]
          /\ UNCHANGED <<m_delegate, cancelled, answered, answer, opOf>>
      BY <1>6, Alone DEF asyncTransactionDelegate, clientVars, ansVars, Return
    <2>3. nextTransactionID # kInvalidTransactionID BY Alone DEF kInvalidTransactionID
    <2> QED BY <2>2, <2>3, CallSent
  <1>7. ASSUME asyncTransactionDelegate(Main, FALSE) PROVE Promise!Next
    BY <1>3, <1>7, Alone DEF asyncTransactionDelegate, Return, clientVars, sentVars
  <1>8. ASSUME asyncTransactionHandler(Main) PROVE Promise!Next
    <2>1. c \in Requests /\ asked[c] = None
      BY <1>2, <1>8 DEF asyncTransactionHandler
    <2>2. /\ state' = [state EXCEPT ![c] = "sent"] /\ pc[Main] = "start" /\ pc'[Main] # "cancel"
          /\ idOf' = [idOf EXCEPT ![c] = nextTransactionID]
          /\ UNCHANGED <<asked, m_delegate, cancelled, answered, answer, opOf>>
      BY <1>8, Alone DEF asyncTransactionHandler, clientVars, ansVars, Return
    <2>3. asked' = [asked EXCEPT ![c] = None]
      BY <2>1, <2>2, Alone
    <2> QED BY <2>2, <2>3, CallSent
  <1>9. ASSUME NEW r \in Requests, Status(r) = "sent", state[r] \notin {"callback", "done"},
               NEW bytes \in {{}, {r}}, NEW s \in {"callback", "done"},
               Respond(r, bytes, idOf[r], asked[r]), asked[r] \in {None, m_delegate},
               state' = [state EXCEPT ![r] = s],
               UNCHANGED <<m_delegate, idOf, asked, cancelled, opOf>>,
               pc[Main] # "cancel", pc'[Main] # "cancel"
        PROVE  Promise!Next
    <2>a. Promise!Becomes(r, Status(r), "answered")
      BY <1>9, CallAnswered
    <2>1. Promise!Becomes(r, "sent", "answered")
          /\ answer' = [answer EXCEPT ![r] = [data |-> bytes, id |-> idOf[r], to |-> asked[r]]]
      BY <2>a, <1>9 DEF Respond
    <2>2. (pc[Main] = "cancel")' = (pc[Main] = "cancel") BY <1>9
    <2>3. Uploads' = Uploads
      <3>1. state[r] # "unused" BY <1>9, StatusIs
      <3> QED BY <1>9, <3>1, Alone, UploadsStay
    <2>4. Promise!Answer(r)
      BY <1>9, <2>1, <2>2, <2>3 DEF Promise!Answer
    <2> QED BY <2>4 DEF Promise!Next
  <1>22. ASSUME c \in Requests, Status(c) \in {"made", "sent"}, asked[c] = None, state[c] \in {"calling", "blocked"},
                idOf[c] = kInvalidTransactionID, opOf[c] = "assetUpload",
                UNCHANGED <<m_delegate, idOf, asked, cancelled, answered, answer, opOf>>,
                state' = [state EXCEPT ![c] = "done"], pc[Main] # "cancel", pc'[Main] # "cancel"
         PROVE  Promise!Next
    <2>1. state'[c] = "done" /\ answered'[c] = 0 /\ ~IsAbandoned(c)'
      BY <1>22, Alone DEF IndInv, CallsInOrder, IsAbandoned
    <2>2. Status(c)' = "nil"
      BY <1>22, <2>1, StatusWillBe
    <2>3. \A r \in Requests \ {c} : Status(r)' = Status(r)
      BY <1>22, Alone, StatusStays
    <2>4. Promise!Becomes(c, "made", "nil") \/ Promise!Becomes(c, "sent", "nil")
      BY <1>22, <2>2, <2>3, OneMoves
    <2>5. c \in Uploads /\ Uploads' = Uploads
      <3>1. c \in Uploads BY <1>22 DEF Uploads
      <3> QED BY <1>22, <3>1, Alone, UploadsStay
    <2>6. (pc[Main] = "cancel")' = (pc[Main] = "cancel") BY <1>22
    <2>7. Promise!ReturnNil(c)
      BY <1>22, <2>4, <2>5, <2>6 DEF Promise!ReturnNil
    <2> QED BY <1>22, <2>7 DEF Promise!Next
  <1>10. ASSUME NEW ok \in BOOLEAN, syncReturn(Main, ok) PROVE Promise!Next
    <2>1. c \in Requests /\ state[c] = "blocked" /\ asked[c] = None /\ idOf[c] = kInvalidTransactionID
      BY <1>10, Alone DEF syncReturn, IndInv, CallInv, FieldsInv, Busy, Open, TypeOK, Requests
    <2>2. Status(c) = "sent"
      BY <2>1, StatusIs DEF IsAbandoned, Open
    <2>3. /\ state' = [state EXCEPT ![c] = "done"]
          /\ UNCHANGED <<m_delegate, idOf, asked, cancelled, opOf>>
          /\ pc[Main] # "cancel" /\ pc'[Main] # "cancel"
      BY <1>10, <2>1, Alone DEF syncReturn, blockingCallEnds, Return, clientVars, sentVars
    <2>4. \/ Respond(c, IF ok THEN {c} ELSE {}, idOf[c], asked[c])
          \/ opOf[c] = "assetUpload" /\ UNCHANGED <<answered, answer>>
      BY <1>10, <2>1 DEF syncReturn, blockingCallEnds, ansVars
    <2> QED BY <2>1, <2>2, <2>3, <2>4, <1>9, <1>22
  <1>23. ASSUME syncBadArgs(Main) PROVE Promise!Next
    <2>1. pc[Main] = "start" /\ c \in Requests /\ state[c] = "calling" /\ Status(c) = "made"
          /\ asked[c] = None /\ idOf[c] = kInvalidTransactionID
      BY <1>23, <1>2 DEF syncBadArgs
    <2>2. /\ state' = [state EXCEPT ![c] = "done"]
          /\ UNCHANGED <<m_delegate, idOf, asked, cancelled, opOf>>
          /\ pc'[Main] = "idle"
      BY <1>23, <2>1, Alone DEF syncBadArgs, blockingCallEnds, Return, clientVars, sentVars
    <2>3. \/ callFails(Main)
          \/ opOf[c] = "assetUpload" /\ UNCHANGED <<answered, answer>>
      BY <1>23, <2>2 DEF syncBadArgs, blockingCallEnds, callFails, ansVars
    <2> QED BY <2>1, <2>2, <2>3, <1>3, <1>22
  <1>11. ASSUME httpManagerCallback(Main) PROVE Promise!Next
    <2> DEFINE r == frame[Main]
    <2>1. /\ r \in Requests /\ state[r] \in Ending /\ asked[r] # None
          /\ mgrDelegate[managerOf[r]] /\ asked[r] = m_delegate /\ m_transactionID[managerOf[r]] = idOf[r]
      BY <1>11, FrameOwner DEF httpManagerCallback, IndInv, FrameInv, BufferInv, FieldsInv, Ending, Busy
    <2>2. Status(r) = "sent"
      BY <2>1, StatusIs DEF IsAbandoned, PromiseInv
    <2>3. state[r] # "failing" => m_receivedData[managerOf[r]] \subseteq {r}
      BY <2>1 DEF IndInv, BufferInv, Ending
    <2>4. (IF state[r] = "failing" THEN {} ELSE m_receivedData[managerOf[r]]) \in {{}, {r}}
      BY <2>3
    <2>5. /\ Respond(r, IF state[r] = "failing" THEN {} ELSE m_receivedData[managerOf[r]], idOf[r], asked[r])
          /\ state' = [state EXCEPT ![r] = "callback"]
          /\ UNCHANGED <<m_delegate, idOf, asked, cancelled, opOf>>
          /\ pc[Main] # "cancel" /\ pc'[Main] # "cancel"
      BY <1>11, <2>1, Alone DEF httpManagerCallback, sentVars
    <2>6. state[r] \notin {"callback", "done"} BY <2>1 DEF Ending
    <2> HIDE DEF r
    <2> QED BY <2>1, <2>2, <2>4, <2>5, <2>6, <1>9
  <1>12. ASSUME NEW r \in Requests, NEW failed \in BOOLEAN, completionBlock(r, failed) PROVE Promise!Next
    <2>1. state[r] = "sent" /\ asked[r] = None /\ m_transactionID[managerOf[r]] = idOf[r]
      BY <1>12 DEF completionBlock, IndInv, FieldsInv, Busy, Open
    <2>2. Status(r) = "sent"
      BY <2>1, StatusIs DEF IsAbandoned, Open
    <2>3. /\ Respond(r, IF failed THEN {} ELSE {r}, idOf[r], asked[r])
          /\ state' = [state EXCEPT ![r] = "callback"]
          /\ UNCHANGED <<m_delegate, idOf, asked, cancelled, opOf>>
          /\ pc[Main] # "cancel" /\ pc'[Main] # "cancel"
      BY <1>12, <2>1 DEF completionBlock, RunLoopFree, clientVars, sentVars
    <2> QED BY <2>1, <2>2, <2>3, <1>9
  <1>13. ASSUME NEW d \in Delegates \cup {None, BadDelegate}, setDelegate(Main, d) PROVE Promise!Next
    <2>1. /\ UNCHANGED <<m_delegate, idOf, asked, cancelled, answered, answer, state, opOf>>
          /\ pc[Main] = "idle" /\ pc'[Main] = "cancel"
      BY <1>13, Alone DEF setDelegate, clientVars, sentVars, ansVars
    <2>2. [r \in Requests |-> Status(r)]' = [r \in Requests |-> Status(r)]
      BY <2>1, StatusStays, NobodyMoves
    <2>3. Uploads' = Uploads BY <2>1, UploadsStay
    <2>4. Promise!Replace
      BY <2>1, <2>2, <2>3 DEF Promise!Replace
    <2> QED BY <2>4 DEF Promise!Next
  <1>14. ASSUME cancel(Main) PROVE [Promise!Next]_(Promise!vars)
    <2> DEFINE Hit(r) == managerOf[r] = cur[Main] /\ state[r] \in Open \cup Ending
    <2>1. /\ UNCHANGED <<m_delegate, idOf, asked, answered, answer, state, pc, opOf>> /\ pc[Main] = "cancel"
          /\ \A r \in Requests : cancelled'[r] = (cancelled[r] \/ Hit(r))
      BY <1>14 DEF cancel, clientVars, sentVars, ansVars
    <2>u. Uploads' = Uploads BY <2>1, UploadsStay
    <2>2. \A r \in Requests : cancelled'[r] = cancelled[r] => Status(r)' = Status(r)
      BY <2>1, StatusStays
    <2>3. \A r \in Requests : Hit(r) /\ asked[r] = None => Status(r)' = Status(r)
      BY <2>1, StatusIs, StatusWillBe DEF IsAbandoned
    <2>4. CASE \E r \in Requests : Hit(r) /\ asked[r] # None /\ ~cancelled[r]
      <3>1. PICK r \in Requests : Hit(r) /\ asked[r] # None /\ ~cancelled[r] BY <2>4
      <3>2. Status(r) = "sent" BY <3>1, StatusIs DEF IsAbandoned
      <3>3. Status(r)' = "abandoned"
        <4>1. state'[r] \in Open \cup Ending /\ IsAbandoned(r)' BY <2>1, <3>1 DEF IsAbandoned
        <4> QED BY <4>1, StatusWillBe
      <3>4. \A q \in Requests \ {r} : ~Hit(q)
        BY <3>1, Alone DEF Busy
      <3>5. \A q \in Requests \ {r} : Status(q)' = Status(q)
        BY <2>1, <2>2, <3>4, Alone
      <3>6. Promise!Becomes(r, "sent", "abandoned") BY <3>2, <3>3, <3>5, OneMoves
      <3>7. Promise!Abandon(r)
        BY <2>1, <2>u, <3>1, <3>6 DEF Promise!Abandon
      <3> QED BY <3>7 DEF Promise!Next
    <2>5. CASE \A r \in Requests : Hit(r) => asked[r] = None \/ cancelled[r]
      <3>1. ASSUME NEW r \in Requests PROVE Status(r)' = Status(r)
        <4>1. CASE Hit(r) /\ asked[r] = None BY <4>1, <2>3
        <4>2. CASE ~Hit(r) \/ cancelled[r]
          <5>1. cancelled'[r] = cancelled[r] BY <4>2, <2>1, Alone
          <5> QED BY <5>1, <2>2
        <4> QED BY <4>1, <4>2, <2>5
      <3>2. [r \in Requests |-> Status(r)]' = [r \in Requests |-> Status(r)]
        BY <3>1, NobodyMoves
      <3> QED BY <2>1, <2>u, <3>2 DEF Promise!vars
    <2> QED BY <2>4, <2>5
  <1>15. ASSUME installDelegate(Main) PROVE Promise!Next
    <2>1. /\ UNCHANGED <<idOf, asked, cancelled, answered, answer, state, opOf>>
          /\ pc[Main] = "cancel" /\ pc'[Main] = "idle" /\ cur[Main] > poolSize
      BY <1>15, Alone DEF installDelegate, Return, sentVars, ansVars
    <2>2. [r \in Requests |-> Status(r)]' = [r \in Requests |-> Status(r)]
      BY <2>1, StatusStays, NobodyMoves
    <2>3. m_delegate' \in Delegates \cup {None} BY DEF IndInv, TypeOK
    <2>4. ASSUME NEW r \in Requests, Status(r) = "sent" PROVE asked[r] = None
      <3>1. state[r] \in Open \cup Ending /\ ~IsAbandoned(r)
        BY <2>4, StatusIs, Alone DEF States, Busy
      <3>2. managerOf[r] \in 1 .. poolSize BY <3>1, Alone DEF Busy
      <3>3. \A i \in 1 .. poolSize : i < cur[Main] => ~mgrDelegate[i]
        BY <2>1 DEF IndInv, CancelInv
      <3>4. poolSize \in Int /\ cur[Main] \in Int BY Alone DEF IndInv, TypeOK
      <3>5. ~mgrDelegate[managerOf[r]] BY <2>1, <3>2, <3>3, <3>4
      <3> QED BY <3>1, <3>5 DEF PromiseInv, IsAbandoned
    <2>u. Uploads' = Uploads BY <2>1, UploadsStay
    <2>5. Promise!Install(m_delegate')
      BY <2>1, <2>2, <2>4, <2>u DEF Promise!Install
    <2> QED BY <2>3, <2>5 DEF Promise!Next
  <1>16. Threads = {Main} BY DEF SingleThread
  <1>17. ASSUME NEW ok \in BOOLEAN, asyncTransactionDelegate(Main, ok) PROVE Promise!Next
    BY <1>6, <1>7, <1>17
  <1>18. ASSUME ThreadStep(Main) PROVE [Promise!Next]_(Promise!vars)
    BY <1>18, <1>4, <1>23, <1>5, <1>17, <1>8, <1>11, <1>14, <1>15, UnseenSteps DEF ThreadStep
  <1>19. ASSUME AppStep(Main) PROVE [Promise!Next]_(Promise!vars)
    BY <1>19, <1>1, <1>13, UnseenSteps DEF AppStep
  <1>20. ASSUME NEW r \in Requests, NetworkStep(r) PROVE [Promise!Next]_(Promise!vars)
    BY <1>20, <1>12, UnseenSteps DEF NetworkStep
  <1>21. CASE UNCHANGED vars BY <1>21, UnseenSteps
  <1> QED BY <1>10, <1>16, <1>18, <1>19, <1>20, <1>21 DEF Next

\* A new client has promised nothing.
LEMMA InitPromise ==
  ASSUME SingleThread, Init
  PROVE  Promise!Init
  <1>1. \A r \in Requests : Status(r) = "unmade"
    BY InitInv, PromiseInit, StatusIs DEF Init
  <1>2. (pc[Main] = "cancel") = FALSE
    BY DataClientAssumption DEF Init
  <1>3. Uploads = {} BY DEF Init, Uploads
  <1> QED BY <1>1, <1>2, <1>3 DEF Init, Promise!Init, Promise!NoAnswer, NoResponse

LEMMA PromiseStutter ==
  ASSUME PromiseInv, UNCHANGED vars
  PROVE  PromiseInv'
  BY DEF PromiseInv, vars, mgrVars, callVars, sentVars, ansVars, IsAbandoned, ReturnedNil

\* The client used from one thread implements ClientPromise: a call is answered once, with
\* its own bytes and by an ID that no other call has, to whom it was sent, or setDelegate:
\* abandons it, or it is a blocking upload that returns nil; no call that was sent with a
\* delegate is still to be answered when another is installed, and none ends otherwise. So
\* a blocking upload that fails (attachAssetToEntity, ApigeeDataClient.m:609) is the one kind
\* of call that neither is answered nor was given up by the application.
THEOREM CallsAreAnsweredOrAbandoned ==
  ASSUME SingleThread
  PROVE  Spec => ClientKeepsItsPromise
  <1>1. Init => IndInv /\ PromiseInv /\ Promise!Init
    BY InitInv, PromiseInit, InitPromise
  <1>2. IndInv /\ PromiseInv /\ [Next]_vars => (IndInv /\ PromiseInv)' /\ [Promise!Next]_(Promise!vars)
    <2> SUFFICES ASSUME IndInv, PromiseInv, [Next]_vars
                 PROVE  IndInv' /\ PromiseInv' /\ [Promise!Next]_(Promise!vars)
      OBVIOUS
    <2>1. IndInv' BY NextInv
    <2>2. PromiseInv' BY <2>1, PromiseStep, PromiseStutter
    <2>3. [Promise!Next]_(Promise!vars) BY <2>1, <2>2, StepKeepsPromise
    <2> QED BY <2>1, <2>2, <2>3
  <1> QED BY <1>1, <1>2, PTL DEF Spec, ClientKeepsItsPromise, Promise!Spec

-----------------------------------------------------------------------------
(* Any number of threads: the callbacks of the delegate and setDelegate:     *)

\* Every action keeps the delegate's callbacks under the client's lock.
LEMMA LockStep ==
  ASSUME LockInv, Next
  PROVE  LockInv'
  <1> USE DataClientAssumption DEF LockInv, Requests
  <1>1. ASSUME NEW t \in Threads, takeManager(t)
        PROVE  LockInv'
    <2>1. LockTypes'
      BY <1>1 DEF takeManager, LockTypes, CallsOfThreads, FramesOfThreads, PCs, States,
         Busy, Open, Ending, callVars, clientVars, sentVars, ansVars
    <2>2. CallsOfThreads'
      BY <1>1 DEF takeManager, LockTypes, CallsOfThreads, FramesOfThreads, Ending, Open,
         callVars, clientVars, sentVars, ansVars
    <2>3. FramesOfThreads'
      BY <1>1 DEF takeManager, LockTypes, CallsOfThreads, FramesOfThreads, Ending, Open,
         HandlerOps, callVars, clientVars, sentVars, ansVars
    <2>4. CalledUnderLock'
      BY <1>1 DEF takeManager, LockTypes, CallsOfThreads, FramesOfThreads,
         CalledUnderLock, DelegateIsCalled, Ending, Open, callVars, clientVars,
         sentVars, ansVars
    <2> QED BY <2>1, <2>2, <2>3, <2>4
  <1>2. ASSUME NEW t \in Threads, growPool(t)
        PROVE  LockInv'
    <2>1. LockTypes'
      BY <1>2 DEF growPool, LockTypes, CallsOfThreads, FramesOfThreads, PCs, States,
         Busy, Open, Ending, callVars, clientVars, sentVars, ansVars
    <2>2. CallsOfThreads'
      BY <1>2 DEF growPool, LockTypes, CallsOfThreads, FramesOfThreads, Ending, Open,
         callVars, clientVars, sentVars, ansVars
    <2>3. FramesOfThreads'
      BY <1>2 DEF growPool, LockTypes, CallsOfThreads, FramesOfThreads, Ending, Open,
         HandlerOps, callVars, clientVars, sentVars, ansVars
    <2>4. CalledUnderLock'
      BY <1>2 DEF growPool, LockTypes, CallsOfThreads, FramesOfThreads, CalledUnderLock,
         DelegateIsCalled, Ending, Open, callVars, clientVars, sentVars, ansVars
    <2> QED BY <2>1, <2>2, <2>3, <2>4
  <1>3. ASSUME NEW t \in Threads, startBadArgs(t)
        PROVE  LockInv'
    <2>1. LockTypes'
      BY <1>3 DEF startBadArgs, LockTypes, CallsOfThreads, FramesOfThreads, PCs, States,
         Busy, Open, Ending, callVars, clientVars, sentVars, mgrVars, Return, callFails
    <2>2. CallsOfThreads'
      BY <1>3 DEF startBadArgs, LockTypes, CallsOfThreads, FramesOfThreads, Ending,
         Open, callVars, clientVars, sentVars, mgrVars, Return, callFails
    <2>3. FramesOfThreads'
      BY <1>3 DEF startBadArgs, LockTypes, CallsOfThreads, FramesOfThreads, Ending,
         Open, HandlerOps, callVars, clientVars, sentVars, mgrVars, Return, callFails
    <2>4. CalledUnderLock'
      BY <1>3 DEF startBadArgs, LockTypes, CallsOfThreads, FramesOfThreads,
         CalledUnderLock, DelegateIsCalled, Ending, Open, callVars, clientVars,
         sentVars, mgrVars, Return, callFails
    <2> QED BY <2>1, <2>2, <2>3, <2>4
  <1>4. ASSUME NEW t \in Threads, syncTransaction(t)
        PROVE  LockInv'
    <2>1. LockTypes'
      BY <1>4 DEF syncTransaction, LockTypes, CallsOfThreads, FramesOfThreads, PCs,
         States, Busy, Open, Ending, callVars, clientVars, ansVars
    <2>2. CallsOfThreads'
      BY <1>4 DEF syncTransaction, LockTypes, CallsOfThreads, FramesOfThreads, Ending,
         Open, callVars, clientVars, ansVars
    <2>3. FramesOfThreads'
      BY <1>4 DEF syncTransaction, LockTypes, CallsOfThreads, FramesOfThreads, Ending,
         Open, HandlerOps, callVars, clientVars, ansVars
    <2>4. CalledUnderLock'
      BY <1>4 DEF syncTransaction, LockTypes, CallsOfThreads, FramesOfThreads,
         CalledUnderLock, DelegateIsCalled, Ending, Open, callVars, clientVars, ansVars
    <2> QED BY <2>1, <2>2, <2>3, <2>4
  <1>5. ASSUME NEW t \in Threads, NEW ok \in BOOLEAN, asyncTransactionDelegate(t, ok)
        PROVE  LockInv'
    <2> DEFINE c == call[t]
    <2>1. c \in Requests /\ c <= reqCount /\ threadOf[c] = t /\ state[c] = "calling"
      BY <1>5 DEF asyncTransactionDelegate, LockTypes, CallsOfThreads
    <2>2. \A u \in Threads : frame[u] # c
      <3>1. ASSUME NEW u \in Threads, frame[u] = c
            PROVE  FALSE
        <4>1. state[frame[u]] \in Ending \cup {"callback"}
          BY <2>1, <3>1 DEF FramesOfThreads
        <4> QED BY <2>1, <3>1, <4>1 DEF Ending
      <3> QED BY <3>1
    <2>3. \A u \in Threads \ {t} :
             pc[u] \in {"take", "grow", "start", "syncWait"} => call[u] # c
      BY <2>1 DEF CallsOfThreads
    <2>4. /\ UNCHANGED <<m_delegate, m_delegateLock, newDelegate, reqCount, opOf, threadOf, frame>>
          /\ pc' = [pc EXCEPT ![t] = "idle"] /\ call' = [call EXCEPT ![t] = 0]
          /\ pc[t] = "start" /\ opOf[c] \notin HandlerOps
      BY <1>5 DEF asyncTransactionDelegate, Return, clientVars, callVars, HandlerOps
    <2>5. /\ \E s \in {"sent", "done"} : state' = [state EXCEPT ![c] = s]
          /\ \E d \in Delegates \cup {None} : asked' = [asked EXCEPT ![c] = d]
      <3>1. CASE ok
        BY <1>5, <3>1 DEF asyncTransactionDelegate, LockTypes
      <3>2. CASE ~ ok
        <4>1. asked' = asked /\ state' = [state EXCEPT ![c] = "done"]
          BY <1>5, <3>2 DEF asyncTransactionDelegate, callFails, sentVars
        <4>2. asked[c] \in Delegates \cup {None} /\ asked = [asked EXCEPT ![c] = asked[c]]
          BY <2>1 DEF LockTypes
        <4> QED BY <4>1, <4>2
      <3> QED BY <3>1, <3>2
    <2> HIDE DEF c
    <2>6. LockTypes'
      BY <2>1, <2>4, <2>5 DEF LockTypes, PCs, States, Busy, Open
    <2>7. CallsOfThreads'
      <3>1. \A r \in Requests \ {c} : state'[r] = state[r] /\ asked'[r] = asked[r]
        BY <2>5 DEF LockTypes
      <3>2. state'[c] \in {"sent", "done"}
        BY <2>1, <2>5 DEF LockTypes
      <3>3. \A r \in Requests :
               /\ r > reqCount => state'[r] = "unused"
               /\ state'[r] \in {"unused", "calling"} => asked'[r] = None
               /\ asked'[r] # None => opOf[r] \notin HandlerOps
        <4>1. ~(c > reqCount)
          BY <2>1 DEF LockTypes
        <4> QED BY <2>1, <2>4, <3>1, <3>2, <4>1 DEF CallsOfThreads
      <3>4. ASSUME NEW u \in Threads, pc'[u] \in {"take", "grow", "start", "syncWait"}
            PROVE  /\ pc'[u] = pc[u] /\ call'[u] = call[u] /\ call[u] \in 1 .. reqCount
                   /\ call[u] \in Requests \ {c}
        <4>1. u # t /\ pc'[u] = pc[u] /\ call'[u] = call[u]
          BY <2>4, <3>4 DEF LockTypes
        <4>2. call[u] \in 1 .. reqCount /\ call[u] # c
          BY <2>3, <3>4, <4>1 DEF CallsOfThreads
        <4>3. call[u] \in Requests
          BY <4>2 DEF LockTypes
        <4> QED BY <4>1, <4>2, <4>3
      <3> QED BY <2>4, <3>1, <3>3, <3>4 DEF CallsOfThreads
    <2>8. FramesOfThreads'
      <3>1. \A u \in Threads : frame[u] # 0 =>
               state'[frame[u]] = state[frame[u]] /\ asked'[frame[u]] = asked[frame[u]]
        BY <2>2, <2>5 DEF LockTypes
      <3>2. \A u \in Threads : pc'[u] = pc[u] \/ (pc'[u] = "idle" /\ pc[u] = "start")
        BY <2>4 DEF LockTypes
      <3> QED BY <2>4, <3>1, <3>2 DEF LockTypes, FramesOfThreads
    <2>9. CalledUnderLock'
      BY <2>1, <2>2, <2>4, <2>5 DEF LockTypes, CalledUnderLock, DelegateIsCalled
    <2> QED BY <2>6, <2>7, <2>8, <2>9
  <1>6. ASSUME NEW t \in Threads, asyncTransactionHandler(t)
        PROVE  LockInv'
    <2>1. LockTypes'
      BY <1>6 DEF asyncTransactionHandler, LockTypes, CallsOfThreads, FramesOfThreads,
         PCs, States, Busy, Open, Ending, callVars, clientVars, ansVars, Return,
         CanLock, HandlerOps
    <2>2. CallsOfThreads'
      BY <1>6 DEF asyncTransactionHandler, LockTypes, CallsOfThreads, FramesOfThreads,
         Ending, Open, callVars, clientVars, ansVars, Return, CanLock, HandlerOps
    <2>3. FramesOfThreads'
      BY <1>6 DEF asyncTransactionHandler, LockTypes, CallsOfThreads, FramesOfThreads,
         Ending, Open, HandlerOps, callVars, clientVars, ansVars, Return, CanLock
    <2>4. CalledUnderLock'
      BY <1>6 DEF asyncTransactionHandler, LockTypes, CallsOfThreads, FramesOfThreads,
         CalledUnderLock, DelegateIsCalled, Ending, Open, callVars, clientVars, ansVars,
         Return, CanLock, HandlerOps
    <2> QED BY <2>1, <2>2, <2>3, <2>4
  <1>7. ASSUME NEW t \in Threads, callbackLock(t)
        PROVE  LockInv'
    <2> DEFINE r == frame[t]
    <2>1. r \in Requests /\ state[r] \in Ending /\ asked[r] # None /\ threadOf[r] = t
      BY <1>7 DEF callbackLock, LockTypes, FramesOfThreads
    <2>2. \A u \in Threads : frame[u] = r => u = t
      BY <2>1 DEF LockTypes, FramesOfThreads
    <2>3. /\ UNCHANGED <<m_delegate, newDelegate, reqCount, opOf, threadOf, asked, call>>
          /\ pc[t] \in {"cbLock", "cbClient"}
      BY <1>7 DEF callbackLock, callVars, clientVars, sentVars
    <2>4. CASE mgrDelegate[managerOf[r]]
      <3>1. /\ UNCHANGED <<state, frame, m_delegateLock>>
            /\ pc' = [pc EXCEPT ![t] = "cbClient"]
        BY <1>7, <2>4 DEF callbackLock, clientVars
      <3>2. LockTypes'
        BY <2>1, <2>3, <3>1 DEF LockTypes, PCs, States, Busy
      <3>3. CallsOfThreads'
        BY <2>1, <2>3, <3>1 DEF LockTypes, CallsOfThreads, Ending
      <3>4. FramesOfThreads'
        BY <2>1, <2>2, <2>3, <3>1 DEF LockTypes, FramesOfThreads, Ending
      <3>5. CalledUnderLock'
        BY <2>1, <2>2, <2>3, <3>1 DEF LockTypes, CalledUnderLock, DelegateIsCalled, CanLock
      <3> QED BY <3>2, <3>3, <3>4, <3>5
    <2>5. CASE ~ mgrDelegate[managerOf[r]]
      <3>1. /\ state' = [state EXCEPT ![r] = "done"] /\ UNCHANGED m_delegateLock
            /\ pc' = [pc EXCEPT ![t] = "idle"] /\ frame' = [frame EXCEPT ![t] = 0]
        BY <1>7, <2>5 DEF callbackLock, clientVars
      <3>2. LockTypes'
        BY <2>1, <2>3, <3>1 DEF LockTypes, PCs, States, Busy
      <3>3. CallsOfThreads'
        BY <2>1, <2>3, <3>1 DEF LockTypes, CallsOfThreads, Ending
      <3>4. FramesOfThreads'
        BY <2>1, <2>2, <2>3, <3>1 DEF LockTypes, FramesOfThreads, Ending
      <3>5. CalledUnderLock'
        BY <2>1, <2>2, <2>3, <3>1 DEF LockTypes, CalledUnderLock, DelegateIsCalled, CanLock
      <3> QED BY <3>2, <3>3, <3>4, <3>5
    <2> QED BY <2>4, <2>5
  <1>8. ASSUME NEW t \in Threads, httpManagerCallback(t)
        PROVE  LockInv'
    <2> DEFINE r == frame[t]
    <2>1. r \in Requests /\ state[r] \in Ending /\ asked[r] # None /\ threadOf[r] = t
      BY <1>8 DEF httpManagerCallback, LockTypes, FramesOfThreads
    <2>2. \A u \in Threads : frame[u] = r => u = t
      BY <2>1 DEF LockTypes, FramesOfThreads
    <2>3. /\ UNCHANGED <<m_delegate, newDelegate, reqCount, opOf, threadOf, asked, call>>
          /\ pc[t] \in {"cbLock", "cbClient"}
      BY <1>8 DEF httpManagerCallback, callVars, clientVars, sentVars
    <2>4. CASE m_delegate # None
      <3>1. /\ state' = [state EXCEPT ![r] = "callback"] /\ UNCHANGED frame
            /\ pc' = [pc EXCEPT ![t] = "idle"]
            /\ CanLock(m_delegateLock, t) /\ m_delegateLock' = t
        BY <1>8, <2>4 DEF httpManagerCallback
      <3>2. LockTypes'
        BY <2>1, <2>3, <3>1 DEF LockTypes, PCs, States, Busy
      <3>3. CallsOfThreads'
        BY <2>1, <2>3, <3>1 DEF LockTypes, CallsOfThreads, Ending
      <3>4. FramesOfThreads'
        BY <2>1, <2>2, <2>3, <3>1 DEF LockTypes, FramesOfThreads, Ending
      <3>5. CalledUnderLock'
        BY <2>1, <2>2, <2>3, <3>1 DEF LockTypes, CalledUnderLock, DelegateIsCalled, CanLock
      <3> QED BY <3>2, <3>3, <3>4, <3>5
    <2>5. CASE m_delegate = None
      <3>1. /\ state' = [state EXCEPT ![r] = "done"] /\ UNCHANGED m_delegateLock
            /\ pc' = [pc EXCEPT ![t] = "idle"] /\ frame' = [frame EXCEPT ![t] = 0]
        BY <1>8, <2>5 DEF httpManagerCallback, endDelegateCallback
      <3>2. LockTypes'
        BY <2>1, <2>3, <3>1 DEF LockTypes, PCs, States, Busy
      <3>3. CallsOfThreads'
        BY <2>1, <2>3, <3>1 DEF LockTypes, CallsOfThreads, Ending
      <3>4. FramesOfThreads'
        BY <2>1, <2>2, <2>3, <3>1 DEF LockTypes, FramesOfThreads, Ending
      <3>5. CalledUnderLock'
        BY <2>1, <2>2, <2>3, <3>1 DEF LockTypes, CalledUnderLock, DelegateIsCalled, CanLock
      <3> QED BY <3>2, <3>3, <3>4, <3>5
    <2> QED BY <2>4, <2>5
  <1>9. ASSUME NEW t \in Threads, cancel(t)
        PROVE  LockInv'
    <2>1. LockTypes'
      BY <1>9 DEF cancel, LockTypes, CallsOfThreads, FramesOfThreads, PCs, States, Busy,
         Open, Ending, callVars, clientVars, sentVars, ansVars, CanLock
    <2>2. CallsOfThreads'
      BY <1>9 DEF cancel, LockTypes, CallsOfThreads, FramesOfThreads, Ending, Open,
         callVars, clientVars, sentVars, ansVars, CanLock
    <2>3. FramesOfThreads'
      BY <1>9 DEF cancel, LockTypes, CallsOfThreads, FramesOfThreads, Ending, Open,
         HandlerOps, callVars, clientVars, sentVars, ansVars, CanLock
    <2>4. CalledUnderLock'
      BY <1>9 DEF cancel, LockTypes, CallsOfThreads, FramesOfThreads, CalledUnderLock,
         DelegateIsCalled, Ending, Open, callVars, clientVars, sentVars, ansVars,
         CanLock
    <2> QED BY <2>1, <2>2, <2>3, <2>4
  <1>10. ASSUME NEW t \in Threads, installDelegate(t)
        PROVE  LockInv'
    <2>1. LockTypes'
      BY <1>10 DEF installDelegate, LockTypes, CallsOfThreads, FramesOfThreads, PCs,
         States, Busy, Open, Ending, callVars, sentVars, ansVars, mgrVars, Return,
         CanLock
    <2>2. CallsOfThreads'
      BY <1>10 DEF installDelegate, LockTypes, CallsOfThreads, FramesOfThreads, Ending,
         Open, callVars, sentVars, ansVars, mgrVars, Return, CanLock
    <2>3. FramesOfThreads'
      BY <1>10 DEF installDelegate, LockTypes, CallsOfThreads, FramesOfThreads, Ending,
         Open, HandlerOps, callVars, sentVars, ansVars, mgrVars, Return, CanLock
    <2>4. CalledUnderLock'
      BY <1>10 DEF installDelegate, LockTypes, CallsOfThreads, FramesOfThreads,
         CalledUnderLock, DelegateIsCalled, Ending, Open, callVars, sentVars, ansVars,
         mgrVars, Return, CanLock
    <2> QED BY <2>1, <2>2, <2>3, <2>4
  <1>11. ASSUME NEW t \in Threads, NEW o \in Ops, getHTTPManager(t, o)
        PROVE  LockInv'
    <2> DEFINE r == reqCount + 1
    <2>1. r \in Requests /\ reqCount \in Nat /\ state[r] = "unused" /\ asked[r] = None
      BY <1>11 DEF getHTTPManager, LockTypes, CallsOfThreads
    <2>2. /\ UNCHANGED <<m_delegate, m_delegateLock, newDelegate, asked, frame>>
          /\ reqCount' = r
          /\ opOf' = [opOf EXCEPT ![r] = o] /\ threadOf' = [threadOf EXCEPT ![r] = t]
          /\ state' = [state EXCEPT ![r] = "calling"] /\ call' = [call EXCEPT ![t] = r]
          /\ pc[t] = "idle"
      BY <1>11 DEF getHTTPManager, clientVars, sentVars
    <2>3. PICK l \in {"grow", "take"} : pc' = [pc EXCEPT ![t] = l]
      BY <1>11 DEF getHTTPManager
    <2>4. \A u \in Threads : frame[u] # 0 => frame[u] # r
      <3>1. ASSUME NEW u \in Threads, frame[u] = r
            PROVE  FALSE
        <4>1. state[frame[u]] \in Ending \cup {"callback"}
          BY <2>1, <3>1 DEF FramesOfThreads
        <4> QED BY <2>1, <3>1, <4>1 DEF Ending
      <3> QED BY <3>1
    <2> HIDE DEF r
    <2>5. LockTypes'
      BY <2>1, <2>2, <2>3 DEF LockTypes, PCs, States, getHTTPManager, r
    <2>6. CallsOfThreads'
      <3>1. \A s \in Requests : s > r => state'[s] = "unused"
        <4>1. \A s \in Requests : s > r => s > reqCount /\ s # r
          BY <2>1 DEF r
        <4>2. \A s \in Requests : s > r => state[s] = "unused"
          BY <4>1 DEF CallsOfThreads
        <4> QED BY <2>2, <4>1, <4>2 DEF LockTypes
      <3>2. \A u \in Threads \ {t} : pc[u] \in {"take", "grow", "start", "syncWait"} =>
               call[u] \in 1 .. reqCount /\ call[u] # r
        BY <2>1 DEF CallsOfThreads, r
      <3>3. 1 .. reqCount \subseteq 1 .. r /\ r \in 1 .. r /\ 1 .. r \subseteq Requests
        BY <2>1 DEF r
      <3>4. \A s \in Requests : state'[s] \in {"unused", "calling"} => asked'[s] = None
        BY <2>1, <2>2 DEF LockTypes, CallsOfThreads
      <3>5. \A s \in Requests : asked'[s] # None => opOf'[s] \notin HandlerOps
        BY <2>1, <2>2 DEF LockTypes, CallsOfThreads
      <3>6. ASSUME NEW u \in Threads
            PROVE  /\ pc'[u] \in {"take", "grow", "start", "syncWait"} =>
                         call'[u] \in 1 .. r /\ threadOf'[call'[u]] = u
                   /\ pc'[u] \in {"take", "grow", "start"} => state'[call'[u]] = "calling"
                   /\ pc'[u] = "syncWait" => state'[call'[u]] = "blocked"
        <4>1. CASE u = t
          BY <2>1, <2>2, <2>3, <3>3, <4>1 DEF LockTypes
        <4>2. CASE u # t
          <5>1. pc'[u] = pc[u] /\ call'[u] = call[u]
            BY <2>2, <2>3, <4>2 DEF LockTypes
          <5>2. ASSUME pc[u] \in {"take", "grow", "start", "syncWait"}
                PROVE  /\ call[u] \in 1 .. r /\ state'[call[u]] = state[call[u]]
                       /\ threadOf'[call[u]] = threadOf[call[u]]
            BY <2>1, <2>2, <3>2, <3>3, <4>2, <5>2 DEF LockTypes
          <5> QED BY <5>1, <5>2 DEF CallsOfThreads
        <4> QED BY <4>1, <4>2
      <3> QED BY <2>2, <3>1, <3>4, <3>5, <3>6 DEF CallsOfThreads
    <2>7. FramesOfThreads'
      BY <2>1, <2>2, <2>3, <2>4 DEF LockTypes, FramesOfThreads
    <2>8. CalledUnderLock'
      BY <2>1, <2>2, <2>4 DEF LockTypes, DelegateIsCalled, CalledUnderLock
    <2> QED BY <2>5, <2>6, <2>7, <2>8
  <1>12. ASSUME NEW t \in Threads, NEW d \in Delegates \cup {None, BadDelegate},
     setDelegate(t, d)
        PROVE  LockInv'
    <2>1. LockTypes'
      BY <1>12 DEF setDelegate, LockTypes, CallsOfThreads, FramesOfThreads, PCs, States,
         Busy, Open, Ending, callVars, clientVars, sentVars, ansVars, mgrVars
    <2>2. CallsOfThreads'
      BY <1>12 DEF setDelegate, LockTypes, CallsOfThreads, FramesOfThreads, Ending,
         Open, callVars, clientVars, sentVars, ansVars, mgrVars
    <2>3. FramesOfThreads'
      BY <1>12 DEF setDelegate, LockTypes, CallsOfThreads, FramesOfThreads, Ending,
         Open, HandlerOps, callVars, clientVars, sentVars, ansVars, mgrVars
    <2>4. CalledUnderLock'
      BY <1>12 DEF setDelegate, LockTypes, CallsOfThreads, FramesOfThreads,
         CalledUnderLock, DelegateIsCalled, Ending, Open, callVars, clientVars,
         sentVars, ansVars, mgrVars
    <2> QED BY <2>1, <2>2, <2>3, <2>4
  <1>13. ASSUME NEW t \in Threads, delegateReturns(t)
        PROVE  LockInv'
    <2> DEFINE r == frame[t]
    <2>1. r \in Requests /\ state[r] = "callback" /\ asked[r] # None /\ threadOf[r] = t
      BY <1>13 DEF delegateReturns, LockTypes, FramesOfThreads
    <2>2. \A u \in Threads : frame[u] = r => u = t
      BY <2>1 DEF LockTypes, FramesOfThreads
    <2>3. \A u \in Threads : DelegateIsCalled(u) => u = t
      BY <2>1 DEF CalledUnderLock, DelegateIsCalled
    <2>4. /\ UNCHANGED <<m_delegate, newDelegate, reqCount, opOf, threadOf, asked, call, pc>>
          /\ pc[t] = "idle"
          /\ state' = [state EXCEPT ![r] = "done"] /\ frame' = [frame EXCEPT ![t] = 0]
      BY <1>13 DEF delegateReturns, endDelegateCallback, callVars, sentVars
    <2> HIDE DEF r
    <2>5. LockTypes'
      BY <2>1, <2>4 DEF LockTypes, States
    <2>6. CallsOfThreads'
      BY <2>1, <2>4 DEF LockTypes, CallsOfThreads
    <2>7. FramesOfThreads'
      BY <2>1, <2>2, <2>4 DEF LockTypes, FramesOfThreads
    <2>8. CalledUnderLock'
      BY <2>1, <2>3, <2>4 DEF LockTypes, DelegateIsCalled, CalledUnderLock
    <2> QED BY <2>5, <2>6, <2>7, <2>8
  <1>14. ASSUME NEW t \in Threads, handlerReturns(t)
        PROVE  LockInv'
    <2>1. LockTypes'
      BY <1>14 DEF handlerReturns, LockTypes, CallsOfThreads, FramesOfThreads, PCs,
         States, Busy, Open, Ending, callVars, clientVars, sentVars, ansVars
    <2>2. CallsOfThreads'
      BY <1>14 DEF handlerReturns, LockTypes, CallsOfThreads, FramesOfThreads, Ending,
         Open, callVars, clientVars, sentVars, ansVars
    <2>3. FramesOfThreads'
      BY <1>14 DEF handlerReturns, LockTypes, CallsOfThreads, FramesOfThreads, Ending,
         Open, HandlerOps, callVars, clientVars, sentVars, ansVars
    <2>4. CalledUnderLock'
      BY <1>14 DEF handlerReturns, LockTypes, CallsOfThreads, FramesOfThreads,
         CalledUnderLock, DelegateIsCalled, Ending, Open, callVars, clientVars,
         sentVars, ansVars
    <2> QED BY <2>1, <2>2, <2>3, <2>4
  <1>15. ASSUME NEW t \in Threads, NEW ok, NEW bytes, blockingCallEnds(t, ok, bytes),
                pc[t] \in {"start", "syncWait"}
        PROVE  LockInv'
    <2>1. LockTypes'
      BY <1>15 DEF blockingCallEnds, LockTypes, CallsOfThreads, FramesOfThreads, PCs, States,
         Busy, Open, Ending, callVars, clientVars, sentVars, Return
    <2>2. CallsOfThreads'
      BY <1>15 DEF blockingCallEnds, LockTypes, CallsOfThreads, FramesOfThreads, Ending, Open,
         callVars, clientVars, sentVars, Return
    <2>3. FramesOfThreads'
      BY <1>15 DEF blockingCallEnds, LockTypes, CallsOfThreads, FramesOfThreads, Ending, Open,
         HandlerOps, callVars, clientVars, sentVars, Return
    <2>4. CalledUnderLock'
      BY <1>15 DEF blockingCallEnds, LockTypes, CallsOfThreads, FramesOfThreads,
         CalledUnderLock, DelegateIsCalled, Ending, Open, callVars, clientVars,
         sentVars, Return
    <2> QED BY <2>1, <2>2, <2>3, <2>4
  <1>21. ASSUME NEW t \in Threads, \/ syncBadArgs(t)
                                  \/ \E ok \in BOOLEAN : syncReturn(t, ok)
         PROVE  LockInv'
    BY <1>15, <1>21 DEF syncReturn, syncBadArgs
  <1>16. ASSUME NEW r \in Requests, didReceiveResponse(r)
        PROVE  LockInv'
    <2>1. LockTypes'
      BY <1>16 DEF didReceiveResponse, LockTypes, CallsOfThreads, FramesOfThreads, PCs,
         States, Busy, Open, Ending, callVars, clientVars, sentVars, ansVars, thrVars,
         RunLoopFree
    <2>2. CallsOfThreads'
      BY <1>16 DEF didReceiveResponse, LockTypes, CallsOfThreads, FramesOfThreads,
         Ending, Open, callVars, clientVars, sentVars, ansVars, thrVars, RunLoopFree
    <2>3. FramesOfThreads'
      BY <1>16 DEF didReceiveResponse, LockTypes, CallsOfThreads, FramesOfThreads,
         Ending, Open, HandlerOps, callVars, clientVars, sentVars, ansVars, thrVars,
         RunLoopFree
    <2>4. CalledUnderLock'
      BY <1>16 DEF didReceiveResponse, LockTypes, CallsOfThreads, FramesOfThreads,
         CalledUnderLock, DelegateIsCalled, Ending, Open, callVars, clientVars,
         sentVars, ansVars, thrVars, RunLoopFree
    <2> QED BY <2>1, <2>2, <2>3, <2>4
  <1>17. ASSUME NEW r \in Requests, didReceiveData(r)
        PROVE  LockInv'
    <2>1. LockTypes'
      BY <1>17 DEF didReceiveData, LockTypes, CallsOfThreads, FramesOfThreads, PCs,
         States, Busy, Open, Ending, callVars, clientVars, sentVars, ansVars, thrVars,
         RunLoopFree
    <2>2. CallsOfThreads'
      BY <1>17 DEF didReceiveData, LockTypes, CallsOfThreads, FramesOfThreads, Ending,
         Open, callVars, clientVars, sentVars, ansVars, thrVars, RunLoopFree
    <2>3. FramesOfThreads'
      BY <1>17 DEF didReceiveData, LockTypes, CallsOfThreads, FramesOfThreads, Ending,
         Open, HandlerOps, callVars, clientVars, sentVars, ansVars, thrVars, RunLoopFree
    <2>4. CalledUnderLock'
      BY <1>17 DEF didReceiveData, LockTypes, CallsOfThreads, FramesOfThreads,
         CalledUnderLock, DelegateIsCalled, Ending, Open, callVars, clientVars,
         sentVars, ansVars, thrVars, RunLoopFree
    <2> QED BY <2>1, <2>2, <2>3, <2>4
  <1>18. ASSUME NEW r \in Requests, NEW failed \in BOOLEAN, connectionEnds(r, failed)
        PROVE  LockInv'
    <2>1. LockTypes'
      BY <1>18 DEF connectionEnds, LockTypes, CallsOfThreads, FramesOfThreads, PCs,
         States, Busy, Open, Ending, callVars, clientVars, sentVars, ansVars, mgrVars,
         RunLoopFree
    <2>2. CallsOfThreads'
      BY <1>18 DEF connectionEnds, LockTypes, CallsOfThreads, FramesOfThreads, Ending,
         Open, callVars, clientVars, sentVars, ansVars, mgrVars, RunLoopFree
    <2>3. FramesOfThreads'
      BY <1>18 DEF connectionEnds, LockTypes, CallsOfThreads, FramesOfThreads, Ending,
         Open, HandlerOps, callVars, clientVars, sentVars, ansVars, mgrVars, RunLoopFree
    <2>4. CalledUnderLock'
      BY <1>18 DEF connectionEnds, LockTypes, CallsOfThreads, FramesOfThreads,
         CalledUnderLock, DelegateIsCalled, Ending, Open, callVars, clientVars,
         sentVars, ansVars, mgrVars, RunLoopFree
    <2> QED BY <2>1, <2>2, <2>3, <2>4
  <1>19. ASSUME NEW r \in Requests, NEW failed \in BOOLEAN, connectionEndsUnheard(r,
     failed)
        PROVE  LockInv'
    <2>1. LockTypes'
      BY <1>19 DEF connectionEndsUnheard, LockTypes, CallsOfThreads, FramesOfThreads,
         PCs, States, Busy, Open, Ending, callVars, clientVars, sentVars, ansVars,
         thrVars, RunLoopFree
    <2>2. CallsOfThreads'
      BY <1>19 DEF connectionEndsUnheard, LockTypes, CallsOfThreads, FramesOfThreads,
         Ending, Open, callVars, clientVars, sentVars, ansVars, thrVars, RunLoopFree
    <2>3. FramesOfThreads'
      BY <1>19 DEF connectionEndsUnheard, LockTypes, CallsOfThreads, FramesOfThreads,
         Ending, Open, HandlerOps, callVars, clientVars, sentVars, ansVars, thrVars,
         RunLoopFree
    <2>4. CalledUnderLock'
      BY <1>19 DEF connectionEndsUnheard, LockTypes, CallsOfThreads, FramesOfThreads,
         CalledUnderLock, DelegateIsCalled, Ending, Open, callVars, clientVars,
         sentVars, ansVars, thrVars, RunLoopFree
    <2> QED BY <2>1, <2>2, <2>3, <2>4
  <1>20. ASSUME NEW r \in Requests, NEW failed \in BOOLEAN, completionBlock(r, failed)
        PROVE  LockInv'
    <2>1. LockTypes'
      BY <1>20 DEF completionBlock, LockTypes, CallsOfThreads, FramesOfThreads, PCs,
         States, Busy, Open, Ending, callVars, clientVars, sentVars, mgrVars,
         RunLoopFree, HandlerOps
    <2>2. CallsOfThreads'
      BY <1>20 DEF completionBlock, LockTypes, CallsOfThreads, FramesOfThreads, Ending,
         Open, callVars, clientVars, sentVars, mgrVars, RunLoopFree, HandlerOps
    <2>3. FramesOfThreads'
      BY <1>20 DEF completionBlock, LockTypes, CallsOfThreads, FramesOfThreads, Ending,
         Open, HandlerOps, callVars, clientVars, sentVars, mgrVars, RunLoopFree
    <2>4. CalledUnderLock'
      BY <1>20 DEF completionBlock, LockTypes, CallsOfThreads, FramesOfThreads,
         CalledUnderLock, DelegateIsCalled, Ending, Open, callVars, clientVars,
         sentVars, mgrVars, RunLoopFree, HandlerOps
    <2> QED BY <2>1, <2>2, <2>3, <2>4
  <1> QED
    BY <1>1, <1>2, <1>3, <1>4, <1>5, <1>6, <1>7, <1>8, <1>9, <1>10, <1>11, <1>12, <1>13,
       <1>14, <1>16, <1>17, <1>18, <1>19, <1>20, <1>21 DEF Next, ThreadStep, AppStep,
       NetworkStep

\* A new client satisfies the invariant.
LEMMA LockInit ==
  ASSUME Init
  PROVE  LockInv
  <1> USE DataClientAssumption DEF LockInv, Requests
  <1>1. LockTypes
    BY DEF Init, LockTypes, States, Ops, PCs
  <1>2. CallsOfThreads
    BY DEF Init, CallsOfThreads
  <1>3. FramesOfThreads /\ CalledUnderLock
    BY DEF Init, FramesOfThreads, CalledUnderLock, DelegateIsCalled
  <1> QED BY <1>1, <1>2, <1>3

\* A step that changes none of the client's variables preserves the invariant.
LEMMA LockStutter ==
  ASSUME LockInv, UNCHANGED vars
  PROVE  LockInv'
  <1>1. UNCHANGED <<m_delegate, m_delegateLock, newDelegate, reqCount, state, opOf,
                    threadOf, asked, pc, call, frame>>
    BY DEF vars, clientVars, sentVars, callVars, thrVars
  <1> QED BY <1>1 DEF LockInv, LockTypes, CallsOfThreads, FramesOfThreads,
             CalledUnderLock, DelegateIsCalled

\* Whatever threads the client is used from, a delegate is called back on the
\* thread that asked and under the client's m_delegateLock.
THEOREM LockInvariantHolds == Spec => []LockInv
  <1>1. Init => LockInv
    BY LockInit
  <1>2. LockInv /\ [Next]_vars => LockInv'
    BY LockStep, LockStutter
  <1> QED BY <1>1, <1>2, PTL DEF Spec

\* No two threads are in the delegate's callback at a time
\* (httpManager: calls it between lock and unlock of m_delegateLock), whatever
\* threads the client is used from.
THEOREM DelegateCallsAreExclusive == Spec => []DelegateCallsExcludeEachOther
  <1>1. LockInv => DelegateCallsExcludeEachOther
    BY DEF LockInv, CalledUnderLock, DelegateCallsExcludeEachOther
  <1> QED BY <1>1, LockInvariantHolds, PTL

\* setDelegate: is the only step that replaces the delegate, and it holds
\* m_delegateLock: no thread but its own is in the old delegate's callback.
LEMMA DelegateReplacedUnderLock ==
  ASSUME LockInv, [Next]_vars, NEW t \in Threads, NEW u \in Threads,
         pc[t] = "cancel", pc'[t] = "idle", m_delegate' # m_delegate, DelegateIsCalled(u)
  PROVE  t = u
  <1>1. m_delegateLock = u /\ u # None
    BY DataClientAssumption DEF LockInv, CalledUnderLock
  <1>5. ASSUME NEW s \in Threads, AppStep(s) \/ \E ok \in BOOLEAN : syncReturn(s, ok) PROVE FALSE
    <2>1. ASSUME NEW ok, NEW bytes, blockingCallEnds(s, ok, bytes) PROVE FALSE
      BY <2>1 DEF blockingCallEnds, clientVars
    <2> QED BY <1>5, <2>1 DEF AppStep, getHTTPManager, setDelegate, delegateReturns,
               handlerReturns, syncReturn, clientVars
  <1>6. ASSUME NEW r \in Requests, NetworkStep(r) PROVE FALSE
    BY <1>6 DEF NetworkStep, didReceiveResponse, didReceiveData, connectionEnds,
       connectionEndsUnheard, completionBlock, clientVars
  <1>7. ASSUME NEW s \in Threads, ThreadStep(s)
        PROVE  installDelegate(s) /\ CanLock(m_delegateLock, s)
    <2>1. ASSUME NEW ok, NEW bytes, blockingCallEnds(s, ok, bytes) PROVE FALSE
      BY <2>1 DEF blockingCallEnds, clientVars
    <2>2. ~syncBadArgs(s) BY <2>1 DEF syncBadArgs
    <2> QED BY <1>7, <2>2 DEF ThreadStep, takeManager, growPool, startBadArgs, syncTransaction,
               asyncTransactionDelegate, asyncTransactionHandler, callbackLock,
               httpManagerCallback, cancel, installDelegate, clientVars
  <1>2. PICK s \in Threads : installDelegate(s) /\ CanLock(m_delegateLock, s)
    BY <1>5, <1>6, <1>7 DEF Next, vars, clientVars
  <1>3. pc' = [pc EXCEPT ![s] = "idle"]
    BY <1>2 DEF installDelegate, Return
  <1>4. s = t
    BY <1>3 DEF LockInv, LockTypes
  <1> QED BY <1>1, <1>2, <1>4 DEF CanLock

\* When setDelegate: returns, the delegate it replaced is not being called on
\* another thread, whatever threads the client is used from.
THEOREM setDelegateWaits == Spec => setDelegateWaitsForCallback
  <1> DEFINE Waits == \A t, u \in Threads :
                pc[t] = "cancel" /\ pc'[t] = "idle" /\ m_delegate' # m_delegate
                   /\ DelegateIsCalled(u) => t = u
  <1>1. LockInv /\ [Next]_vars => [Waits]_vars
    BY DelegateReplacedUnderLock
  <1> QED BY <1>1, LockInvariantHolds, PTL DEF Spec, setDelegateWaitsForCallback

=============================================================================
