-------------------------- MODULE AppServicesProofs --------------------------
(***************************************************************************)
(* AuthIndInv is an invariant of AuthSession for every set of users and    *)
(* every number of tokens and managers, and IndInv of Collection for every *)
(* page size and every number of entities; with them the properties of the *)
(* token and of the traversal.                                             *)
(***************************************************************************)
EXTENDS AuthSession, Collection, SequenceTheorems, TLAPS

-----------------------------------------------------------------------------
(* The OAuth session.                                                       *)

\* Nil is not a token.
LEMMA NilIsNoToken == Nil \notin Tokens
BY AuthAssumption DEF Tokens

\* A new client has neither a token nor managers.
LEMMA AuthInitInv == AuthInit => AuthIndInv
<1> SUFFICES ASSUME AuthInit PROVE AuthIndInv
  OBVIOUS
<1> USE AuthAssumption
<1>1. AuthTypeOK
  BY DEF AuthInit, AuthTypeOK, Tokens, Managers
<1>2. ManagersCarryTheToken /\ LoggedInUserOwnsTheToken /\ PoolInOrder
  BY DEF AuthInit, ManagersCarryTheToken, LoggedInUserOwnsTheToken, PoolInOrder, Managers
<1>3. TokenInOnePlace /\ TokensAreIssued
  BY DEF AuthInit, TokenInOnePlace, TokensAreIssued
<1> QED
  BY <1>1, <1>2, <1>3 DEF AuthIndInv

\* A call sends a request without a dropped token and preserves the invariant, if
\* it has set the token of the whole pool to what it has set the client's to: the
\* token it had, or nil, in which case it may be dropped.
LEMMA httpTransactionStep ==
    ASSUME AuthIndInv, NEW kind, NEW who, NEW names, NEW drops, NEW auth, NEW copies,
           kind \in {"login", "data", "revoke", "revokeAll"},
           who \in Accounts \cup {Nil},
           names \in Tokens \cup {Nil},
           drops \in Tokens \cup {Nil},
           auth \in {m_auth, Nil},
           copies \in [Managers -> Tokens \cup {Nil}],
           \A i \in 1 .. poolSize : copies[i] = auth,
           dropped' \subseteq dropped \cup ({m_auth} \ {Nil}),
           auth # Nil => dropped' = dropped,
           httpTransaction(kind, who, names, drops, auth, copies)
    PROVE  AuthIndInv' /\ (\A i \in Managers :
              flight[i] = Nil /\ flight'[i] # Nil => flight'[i].auth \notin dropped')
<1>t. AuthTypeOK
  BY DEF AuthIndInv
<1>n. Nil \notin Tokens
  BY NilIsNoToken
<1> DEFINE new(i) == [kind |-> kind, who |-> who, auth |-> mgrAuth'[i], names |-> names,
                      drops |-> drops, served |-> FALSE, token |-> Nil]
<1>1. PICK i \in Managers :
        /\ flight[i] = Nil /\ \A j \in Managers : j < i => flight[j] # Nil
        /\ poolSize' = IF i > poolSize THEN i ELSE poolSize
        /\ m_auth' = auth
        /\ mgrAuth' = IF i > poolSize THEN [copies EXCEPT ![i] = auth] ELSE copies
        /\ flight' = [flight EXCEPT ![i] = new(i)]
        /\ UNCHANGED <<m_loggedInUser, sessionVars>>
  BY DEF httpTransaction
<1>2. i \in 1 .. MaxManagers /\ poolSize \in 0 .. MaxManagers /\ MaxManagers \in Nat
  BY <1>t, AuthAssumption DEF AuthTypeOK, Managers
<1>3. i \in 1 .. poolSize + 1
  <2>1. SUFFICES ASSUME i > poolSize + 1 PROVE FALSE
    BY <1>2
  <2>2. poolSize + 1 \in Managers /\ poolSize + 1 < i /\ poolSize + 1 > poolSize
    BY <1>2, <2>1 DEF Managers
  <2>3. flight[poolSize + 1] # Nil
    BY <1>1, <2>2
  <2>4. flight[poolSize + 1] = Nil
    BY <2>2 DEF AuthIndInv, PoolInOrder
  <2> QED
    BY <2>3, <2>4
<1>4. mgrAuth' \in [Managers -> Tokens \cup {Nil}] /\ m_auth' \in Tokens \cup {Nil}
  BY <1>1, <1>t DEF AuthTypeOK
<1>5. \A j \in 1 .. poolSize' : mgrAuth'[j] = auth
  <2>1. CASE i > poolSize
    <3>1. poolSize' = poolSize + 1 /\ i = poolSize + 1
      BY <1>1, <1>2, <1>3, <2>1
    <3>2. mgrAuth' = [copies EXCEPT ![i] = auth]
      BY <1>1, <2>1
    <3> QED
      BY <3>1, <3>2, <1>2 DEF Managers
  <2>2. CASE ~(i > poolSize)
    BY <1>1, <2>2
  <2> QED
    BY <2>1, <2>2
<1>6. mgrAuth'[i] = auth /\ i <= poolSize'
  <2>1. i \in 1 .. poolSize'
    BY <1>1, <1>2, <1>3
  <2> QED
    BY <1>5, <2>1
<1>7. new(i) \in InFlight /\ new(i).auth = auth /\ new(i).token = Nil
  <2>1. auth \in Tokens \cup {Nil}
    BY <1>t DEF AuthTypeOK
  <2> QED
    BY <2>1, <1>6 DEF InFlight
<1>8. new(i) # Nil
  BY <1>7, NilAssumption
<1>9. /\ flight' \in [Managers -> InFlight \cup {Nil}]
      /\ flight'[i] = new(i)
      /\ \A j \in Managers : j # i => flight'[j] = flight[j]
  BY <1>1, <1>7, <1>t DEF AuthTypeOK
<1> HIDE DEF new
<1>10. \A j \in Managers : flight'[j] # Nil /\ flight'[j].token # Nil =>
          j # i /\ flight'[j] = flight[j]
  BY <1>7, <1>9
<1>11. AuthTypeOK'
  <2>1. poolSize' \in 0 .. MaxManagers
    BY <1>1, <1>2
  <2>2. dropped' \subseteq Tokens
    BY <1>t DEF AuthTypeOK
  <2> QED
    BY <1>t, <1>1, <1>4, <1>9, <2>1, <2>2 DEF AuthTypeOK, sessionVars
<1>12. ManagersCarryTheToken'
  BY <1>1, <1>5 DEF ManagersCarryTheToken
<1>13. LoggedInUserOwnsTheToken'
  <2>1. LoggedInUserOwnsTheToken
    BY DEF AuthIndInv
  <2> QED
    BY <1>1, <2>1 DEF LoggedInUserOwnsTheToken, sessionVars
<1>14. TokenInOnePlace'
  <2>1. TokenInOnePlace
    BY DEF AuthIndInv
  <2>2. m_auth' # Nil => m_auth' \notin dropped'
    BY <1>1, <2>1 DEF TokenInOnePlace
  <2>3. ASSUME NEW j \in Managers, flight'[j] # Nil, flight'[j].token # Nil
        PROVE  /\ flight'[j].token \notin dropped' \cup {m_auth'}
               /\ owner'[flight'[j].token] = flight'[j].who
               /\ \A k \in Managers \ {j} :
                     flight'[k] # Nil => flight'[k].token # flight'[j].token
    <3>1. j # i /\ flight'[j] = flight[j] /\ flight[j] # Nil /\ flight[j].token # Nil
      BY <1>10, <2>3
    <3>2. /\ flight[j].token \notin dropped \cup {m_auth}
          /\ owner[flight[j].token] = flight[j].who
          /\ \A k \in Managers \ {j} : flight[k] # Nil => flight[k].token # flight[j].token
      BY <3>1, <2>1 DEF TokenInOnePlace
    <3>3. flight'[j].token \notin dropped' \cup {m_auth'}
      BY <3>1, <3>2, <1>1
    <3>4. owner'[flight'[j].token] = flight'[j].who
      BY <3>1, <3>2, <1>1 DEF sessionVars
    <3>5. ASSUME NEW k \in Managers \ {j}, flight'[k] # Nil
          PROVE  flight'[k].token # flight'[j].token
      <4>1. CASE k = i
        BY <4>1, <1>7, <1>9, <2>3
      <4>2. CASE k # i
        BY <4>2, <3>1, <3>2, <3>5, <1>9
      <4> QED
        BY <4>1, <4>2
    <3> QED
      BY <3>3, <3>4, <3>5
  <2> QED
    BY <2>2, <2>3 DEF TokenInOnePlace
<1>15. TokensAreIssued'
  <2>1. TokensAreIssued
    BY DEF AuthIndInv
  <2>2. lastToken' = lastToken
    BY <1>1 DEF sessionVars
  <2>3. m_auth' # Nil => m_auth' <= lastToken'
    BY <1>1, <2>1, <2>2 DEF TokensAreIssued
  <2>4. \A k \in dropped' : k <= lastToken'
    BY <2>1, <2>2 DEF TokensAreIssued
  <2>5. \A j \in Managers :
           flight'[j] # Nil /\ flight'[j].token # Nil => flight'[j].token <= lastToken'
    BY <1>10, <2>1, <2>2 DEF TokensAreIssued
  <2> QED
    BY <2>3, <2>4, <2>5 DEF TokensAreIssued
<1>16. PoolInOrder'
  <2>1. SUFFICES ASSUME NEW j \in Managers, j > poolSize' PROVE flight'[j] = Nil
    BY DEF PoolInOrder
  <2>2. j # i /\ j > poolSize
    BY <2>1, <1>1, <1>2, <1>6 DEF Managers
  <2> QED
    BY <2>2, <1>9 DEF AuthIndInv, PoolInOrder
<1>17. \A j \in Managers :
          flight[j] = Nil /\ flight'[j] # Nil => flight'[j].auth \notin dropped'
  <2>1. auth \notin dropped'
    <3>1. CASE auth = Nil
      BY <3>1, <1>11, <1>n DEF AuthTypeOK
    <3>2. CASE auth # Nil
      <4>1. auth = m_auth /\ dropped' = dropped
        BY <3>2
      <4> QED
        BY <3>2, <4>1 DEF AuthIndInv, TokenInOnePlace
    <3> QED
      BY <3>1, <3>2
  <2> QED
    BY <2>1, <1>7, <1>9
<1> QED
  BY <1>11, <1>12, <1>13, <1>14, <1>15, <1>16, <1>17 DEF AuthIndInv

\* Each call of the application is such a call.
LEMMA CallStep ==
    ASSUME AuthIndInv,
           \/ request
           \/ \E who \in Accounts : logIn(who)
           \/ \E u \in Users : \/ logOut(u)
                               \/ logOutAllTokens(u)
                               \/ \E k \in 1 .. lastToken : logOutForToken(u, k)
    PROVE  AuthIndInv' /\ (\A i \in Managers :
              flight[i] = Nil /\ flight'[i] # Nil => flight'[i].auth \notin dropped')
<1>t. AuthTypeOK /\ m_auth \in Tokens \cup {Nil} /\ mgrAuth \in [Managers -> Tokens \cup {Nil}]
  BY DEF AuthIndInv, AuthTypeOK
<1>n. Nil \notin Tokens
  BY NilIsNoToken
<1>1. /\ Cleared \in [Managers -> Tokens \cup {Nil}]
      /\ \A i \in 1 .. poolSize : Cleared[i] = Nil
  BY <1>t, AuthAssumption DEF AuthTypeOK, Cleared, Managers
<1>2. \A i \in 1 .. poolSize : mgrAuth[i] = m_auth
  BY DEF AuthIndInv, ManagersCarryTheToken
<1>3. CASE request
  BY <1>3, <1>t, <1>2, httpTransactionStep DEF request
<1>4. CASE \E who \in Accounts : logIn(who)
  <2>1. PICK who \in Accounts : logIn(who)
    BY <1>4
  <2> QED
    BY <2>1, <1>t, <1>2, httpTransactionStep DEF logIn
<1>5. ASSUME NEW u \in Users, logOut(u) \/ logOutAllTokens(u)
      PROVE  AuthIndInv' /\ (\A i \in Managers :
                flight[i] = Nil /\ flight'[i] # Nil => flight'[i].auth \notin dropped')
  <2>1. u \in Accounts \cup {Nil}
    BY DEF Accounts
  <2>2. CASE logOut(u)
    BY <2>1, <2>2, <1>t, <1>1, httpTransactionStep DEF logOut
  <2>3. CASE logOutAllTokens(u)
    BY <2>1, <2>3, <1>t, <1>1, httpTransactionStep DEF logOutAllTokens
  <2> QED
    BY <1>5, <2>2, <2>3
<1>6. ASSUME NEW u \in Users, NEW k \in 1 .. lastToken, logOutForToken(u, k)
      PROVE  AuthIndInv' /\ (\A i \in Managers :
                flight[i] = Nil /\ flight'[i] # Nil => flight'[i].auth \notin dropped')
  <2>1. u \in Accounts \cup {Nil} /\ k \in Tokens
    BY <1>t, AuthAssumption DEF Accounts, AuthTypeOK, Tokens
  <2>2. CASE k = m_auth
    <3>1. /\ httpTransaction("revoke", u, k, k, Nil, Cleared)
          /\ dropped' = dropped \cup {k}
      BY <1>6, <2>2 DEF logOutForToken
    <3>2. dropped' \subseteq dropped \cup ({m_auth} \ {Nil})
      BY <3>1, <2>1, <2>2, <1>n
    <3> QED
      BY <2>1, <3>1, <3>2, <1>t, <1>1, httpTransactionStep
  <2>3. CASE k # m_auth
    <3>1. httpTransaction("revoke", u, k, Nil, m_auth, mgrAuth) /\ dropped' = dropped
      BY <1>6, <2>3 DEF logOutForToken
    <3> QED
      BY <2>1, <3>1, <1>t, <1>2, httpTransactionStep
  <2> QED
    BY <2>2, <2>3
<1> QED
  BY <1>3, <1>4, <1>5, <1>6

\* A reply installs the token issued for its login, which was nowhere else.
LEMMA createResponseStep ==
    ASSUME AuthIndInv, NEW i \in Managers, NEW delivered \in BOOLEAN,
           createResponse(i, delivered)
    PROVE  AuthIndInv'
<1>t. AuthTypeOK
  BY DEF AuthIndInv
<1>n. Nil \notin Tokens
  BY NilIsNoToken
<1>1. /\ flight[i] # Nil
      /\ flight' = [flight EXCEPT ![i] = Nil]
      /\ UNCHANGED <<poolSize, sessionVars, dropped>>
  BY DEF createResponse
<1>2. /\ flight' \in [Managers -> InFlight \cup {Nil}]
      /\ flight'[i] = Nil
      /\ \A j \in Managers : j # i => flight'[j] = flight[j]
  BY <1>1, <1>t DEF AuthTypeOK
<1>3. flight[i] \in InFlight
  BY <1>1, <1>t DEF AuthTypeOK
<1>4. PoolInOrder'
  BY <1>1, <1>2 DEF AuthIndInv, PoolInOrder
<1>5. \A j \in Managers : flight'[j] # Nil => j # i /\ flight'[j] = flight[j]
  BY <1>2
<1>6. TokenInOnePlace /\ TokensAreIssued /\ ManagersCarryTheToken /\ LoggedInUserOwnsTheToken
  BY DEF AuthIndInv
<1>7. CASE delivered /\ flight[i].token # Nil
  <2> DEFINE k == flight[i].token
  <2>1. k \in Tokens /\ flight[i].who \in Accounts \cup {Nil}
    BY <1>3, <1>7 DEF InFlight
  <2>2. /\ m_auth' = k
        /\ mgrAuth' = [j \in Managers |-> IF j <= poolSize THEN k ELSE mgrAuth[j]]
        /\ m_loggedInUser' = IF flight[i].who \in Users THEN flight[i].who
                                                         ELSE m_loggedInUser
    BY <1>7 DEF createResponse, setAuth
  <2>3. /\ k \notin dropped \cup {m_auth}
        /\ owner[k] = flight[i].who
        /\ k <= lastToken
        /\ \A j \in Managers \ {i} : flight[j] # Nil => flight[j].token # k
    BY <1>1, <1>6, <1>7 DEF TokenInOnePlace, TokensAreIssued
  <2> HIDE DEF k
  <2>4. AuthTypeOK'
    BY <1>t, <1>1, <1>2, <2>1, <2>2 DEF AuthTypeOK, sessionVars
  <2>5. ManagersCarryTheToken'
    <3>1. poolSize' = poolSize /\ poolSize \in 0 .. MaxManagers /\ MaxManagers \in Nat
      BY <1>1, <1>t, AuthAssumption DEF AuthTypeOK
    <3> QED
      BY <3>1, <2>2 DEF ManagersCarryTheToken, Managers
  <2>6. LoggedInUserOwnsTheToken'
    BY <1>1, <2>2, <2>3 DEF LoggedInUserOwnsTheToken, sessionVars
  <2>7. TokenInOnePlace'
    <3>1. m_auth' # Nil => m_auth' \notin dropped'
      BY <1>1, <2>2, <2>3
    <3>2. ASSUME NEW j \in Managers, flight'[j] # Nil, flight'[j].token # Nil
          PROVE  /\ flight'[j].token \notin dropped' \cup {m_auth'}
                 /\ owner'[flight'[j].token] = flight'[j].who
                 /\ \A l \in Managers \ {j} :
                       flight'[l] # Nil => flight'[l].token # flight'[j].token
      <4>1. j # i /\ flight'[j] = flight[j]
        BY <1>5, <3>2
      <4>2. /\ flight[j].token \notin dropped
            /\ owner[flight[j].token] = flight[j].who
            /\ \A l \in Managers \ {j} :
                  flight[l] # Nil => flight[l].token # flight[j].token
        BY <4>1, <3>2, <1>6 DEF TokenInOnePlace
      <4>3. flight[j].token # k
        BY <4>1, <3>2, <2>3
      <4>4. dropped' = dropped /\ owner' = owner
        BY <1>1 DEF sessionVars
      <4>5. \A l \in Managers \ {j} :
               flight'[l] # Nil => flight'[l].token # flight'[j].token
        BY <4>1, <4>2, <1>5
      <4> QED
        BY <4>1, <4>2, <4>3, <4>4, <4>5, <2>2
    <3> QED
      BY <3>1, <3>2 DEF TokenInOnePlace
  <2>8. TokensAreIssued'
    BY <1>1, <1>5, <1>6, <2>2, <2>3 DEF TokensAreIssued, sessionVars
  <2> QED
    BY <1>4, <2>4, <2>5, <2>6, <2>7, <2>8 DEF AuthIndInv
<1>8. CASE ~(delivered /\ flight[i].token # Nil)
  <2>1. UNCHANGED <<m_auth, mgrAuth, m_loggedInUser>>
    BY <1>8 DEF createResponse
  <2>2. AuthTypeOK'
    BY <1>t, <1>1, <1>2, <2>1 DEF AuthTypeOK, sessionVars
  <2>3. ManagersCarryTheToken' /\ LoggedInUserOwnsTheToken'
    BY <1>1, <1>6, <2>1 DEF ManagersCarryTheToken, LoggedInUserOwnsTheToken, sessionVars
  <2>4. TokenInOnePlace'
    BY <1>1, <1>5, <1>6, <2>1 DEF TokenInOnePlace, sessionVars
  <2>5. TokensAreIssued'
    BY <1>1, <1>5, <1>6, <2>1 DEF TokensAreIssued, sessionVars
  <2> QED
    BY <1>4, <2>2, <2>3, <2>4, <2>5 DEF AuthIndInv
<1> QED
  BY <1>7, <1>8

\* The server issues a token that is nowhere yet, for the request it serves.
LEMMA serveStep ==
    ASSUME AuthIndInv, NEW i \in Managers, NEW accepts \in BOOLEAN, serve(i, accepts)
    PROVE  AuthIndInv' /\ \A j \in Managers : flight[j] = Nil => flight'[j] = Nil
<1>t. AuthTypeOK
  BY DEF AuthIndInv
<1>n. Nil \notin Tokens
  BY NilIsNoToken
<1>1. /\ flight[i] # Nil /\ flight[i] \in InFlight
      /\ UNCHANGED <<clientVars, dropped>>
  BY <1>t DEF serve, AuthTypeOK
<1>2. ManagersCarryTheToken /\ LoggedInUserOwnsTheToken /\ TokenInOnePlace
         /\ TokensAreIssued /\ PoolInOrder
  BY DEF AuthIndInv
<1>3. ManagersCarryTheToken'
  BY <1>1, <1>2 DEF ManagersCarryTheToken, clientVars
<1>4. lastToken \in 0 .. MaxTokens /\ MaxTokens \in Nat
  BY <1>t, AuthAssumption DEF AuthTypeOK
<1>5. CASE /\ flight[i].kind = "login" /\ accepts
           /\ lastToken < MaxTokens
           /\ lastToken' = lastToken + 1
           /\ owner' = [owner EXCEPT ![lastToken + 1] = flight[i].who]
           /\ valid' = valid \cup {lastToken + 1}
           /\ flight' = [flight EXCEPT ![i].served = TRUE, ![i].token = lastToken + 1]
  <2> DEFINE k == lastToken + 1
  <2>1. k \in Tokens /\ k > lastToken /\ lastToken' = k
    BY <1>4, <1>5 DEF Tokens
  <2>2. owner' = [owner EXCEPT ![k] = flight[i].who] /\ valid' = valid \cup {k}
    BY <1>5
  <2>3. flight' = [flight EXCEPT ![i] = [[flight[i] EXCEPT !.served = TRUE]
                                            EXCEPT !.token = k]]
    BY <1>5, <1>t DEF AuthTypeOK
  <2> HIDE DEF k
  <2>4. /\ flight' \in [Managers -> InFlight \cup {Nil}]
        /\ flight'[i] \in InFlight
        /\ flight'[i].token = k /\ flight'[i].who = flight[i].who
        /\ \A j \in Managers : j # i => flight'[j] = flight[j]
    BY <1>1, <1>t, <2>1, <2>3 DEF AuthTypeOK, InFlight
  <2>5. \A j \in Managers : flight[j] # Nil /\ flight[j].token # Nil =>
           flight[j].token \in Tokens /\ flight[j].token # k
    BY <1>2, <1>4, <1>t, <2>1 DEF TokensAreIssued, AuthTypeOK, InFlight, Tokens
  <2>6. m_auth # k /\ k \notin dropped
    BY <1>2, <1>4, <1>n, <1>t, <2>1 DEF TokensAreIssued, AuthTypeOK, Tokens
  <2>7. \A l \in Tokens : l # k => owner'[l] = owner[l]
    BY <2>2, <1>t DEF AuthTypeOK
  <2>8. owner'[k] = flight[i].who
    BY <2>1, <2>2, <1>t DEF AuthTypeOK
  <2>9. AuthTypeOK'
    <3>1. owner' \in [Tokens -> Accounts \cup {Nil}]
      BY <1>1, <1>t, <2>1, <2>2 DEF AuthTypeOK, InFlight
    <3>2. lastToken' \in 0 .. MaxTokens
      BY <1>4, <2>1 DEF Tokens
    <3>3. valid' \subseteq Tokens
      BY <1>t, <2>1, <2>2 DEF AuthTypeOK
    <3> QED
      BY <1>1, <1>t, <2>4, <3>1, <3>2, <3>3 DEF AuthTypeOK, clientVars
  <2>10. LoggedInUserOwnsTheToken'
    <3>1. m_auth' = m_auth /\ m_loggedInUser' = m_loggedInUser
      BY <1>1 DEF clientVars
    <3>2. m_auth # Nil => owner'[m_auth] = owner[m_auth]
      BY <1>t, <2>6, <2>7 DEF AuthTypeOK
    <3> QED
      BY <3>1, <3>2, <1>2 DEF LoggedInUserOwnsTheToken
  <2>11. TokenInOnePlace'
    <3>1. m_auth' = m_auth /\ dropped' = dropped
      BY <1>1 DEF clientVars
    <3>2. ASSUME NEW j \in Managers, flight'[j] # Nil, flight'[j].token # Nil
          PROVE  /\ flight'[j].token \notin dropped' \cup {m_auth'}
                 /\ owner'[flight'[j].token] = flight'[j].who
                 /\ \A l \in Managers \ {j} :
                       flight'[l] # Nil => flight'[l].token # flight'[j].token
      <4>1. CASE j = i
        <5>1. \A l \in Managers \ {i} : flight'[l] # Nil => flight'[l].token # k
          BY <2>1, <2>4, <2>5, <1>n
        <5> QED
          BY <4>1, <5>1, <2>4, <2>6, <2>8, <3>1
      <4>2. CASE j # i
        <5>1. flight'[j] = flight[j]
          BY <2>4, <4>2
        <5>2. /\ flight[j].token \notin dropped \cup {m_auth}
              /\ owner[flight[j].token] = flight[j].who
              /\ \A l \in Managers \ {j} :
                    flight[l] # Nil => flight[l].token # flight[j].token
          BY <1>2, <3>2, <5>1 DEF TokenInOnePlace
        <5>3. flight[j].token # k /\ flight[j].token \in Tokens
          BY <2>5, <3>2, <5>1
        <5>4. \A l \in Managers \ {j} :
                 flight'[l] # Nil => flight'[l].token # flight'[j].token
          BY <2>4, <5>1, <5>2, <5>3
        <5> QED
          BY <5>1, <5>2, <5>3, <5>4, <2>7, <3>1
      <4> QED
        BY <4>1, <4>2
    <3>3. m_auth' # Nil => m_auth' \notin dropped'
      BY <1>2, <3>1 DEF TokenInOnePlace
    <3> QED
      BY <3>2, <3>3 DEF TokenInOnePlace
  <2>12. TokensAreIssued'
    <3>1. m_auth' = m_auth /\ dropped' = dropped
      BY <1>1 DEF clientVars
    <3>2. m_auth # Nil => m_auth <= k
      BY <1>2, <1>4, <1>t, <2>1 DEF TokensAreIssued, AuthTypeOK, Tokens
    <3>3. \A l \in dropped : l <= k
      BY <1>2, <1>4, <1>t, <2>1 DEF TokensAreIssued, AuthTypeOK, Tokens
    <3>4. \A j \in Managers : flight[j] # Nil /\ flight[j].token # Nil =>
             flight[j].token <= k
      BY <1>2, <1>4, <2>1, <2>5 DEF TokensAreIssued, Tokens
    <3>5. \A j \in Managers : flight'[j] # Nil /\ flight'[j].token # Nil =>
             flight'[j].token <= k
      BY <3>4, <2>1, <2>4 DEF Tokens
    <3> QED
      BY <2>1, <3>1, <3>2, <3>3, <3>5 DEF TokensAreIssued
  <2>13. PoolInOrder' /\ \A j \in Managers : flight[j] = Nil => flight'[j] = Nil
    BY <1>1, <1>2, <2>4 DEF PoolInOrder, clientVars
  <2> QED
    BY <1>3, <2>9, <2>10, <2>11, <2>12, <2>13 DEF AuthIndInv
<1>6. CASE /\ valid' = CASE flight[i].kind = "revoke" /\ accepts -> valid \ {flight[i].names}
                         [] flight[i].kind = "revokeAll" /\ accepts ->
                               {k \in valid : owner[k] # flight[i].who}
                         [] OTHER -> valid
           /\ flight' = [flight EXCEPT ![i].served = TRUE]
           /\ UNCHANGED <<lastToken, owner>>
  <2>1. valid' \subseteq Tokens
    BY <1>6, <1>t DEF AuthTypeOK
  <2>2. flight' = [flight EXCEPT ![i] = [flight[i] EXCEPT !.served = TRUE]]
    BY <1>6, <1>t DEF AuthTypeOK
  <2>3. /\ flight' \in [Managers -> InFlight \cup {Nil}]
        /\ flight'[i] \in InFlight
        /\ flight'[i].token = flight[i].token /\ flight'[i].who = flight[i].who
        /\ \A j \in Managers : j # i => flight'[j] = flight[j]
    BY <1>1, <1>t, <2>2 DEF AuthTypeOK, InFlight
  <2>4. \A j \in Managers : flight'[j] # Nil =>
           /\ flight[j] # Nil
           /\ flight'[j].token = flight[j].token
           /\ flight'[j].who = flight[j].who
    BY <1>1, <2>3
  <2>5. AuthTypeOK'
    BY <1>1, <1>6, <1>t, <2>1, <2>3 DEF AuthTypeOK, clientVars
  <2>6. LoggedInUserOwnsTheToken'
    BY <1>1, <1>2, <1>6 DEF LoggedInUserOwnsTheToken, clientVars
  <2>7. TokenInOnePlace'
    BY <1>1, <1>2, <1>6, <2>4 DEF TokenInOnePlace, clientVars
  <2>8. TokensAreIssued'
    BY <1>1, <1>2, <1>6, <2>4 DEF TokensAreIssued, clientVars
  <2>9. PoolInOrder' /\ \A j \in Managers : flight[j] = Nil => flight'[j] = Nil
    BY <1>1, <1>2, <2>3 DEF PoolInOrder, clientVars
  <2> QED
    BY <1>3, <2>5, <2>6, <2>7, <2>8, <2>9 DEF AuthIndInv
<1> QED
  BY <1>5, <1>6 DEF serve

\* Every step preserves the invariant and sends no dropped token.
LEMMA AuthNextInv ==
    ASSUME AuthIndInv, [AuthNext]_authVars
    PROVE  AuthIndInv' /\ (\A i \in Managers :
              flight[i] = Nil /\ flight'[i] # Nil => flight'[i].auth \notin dropped')
<1>1. CASE \/ request
           \/ \E who \in Accounts : logIn(who)
           \/ \E u \in Users : \/ logOut(u)
                               \/ logOutAllTokens(u)
                               \/ \E k \in 1 .. lastToken : logOutForToken(u, k)
  BY <1>1, CallStep
<1>2. ASSUME NEW i \in Managers, NEW b \in BOOLEAN, createResponse(i, b)
      PROVE  AuthIndInv' /\ \A j \in Managers : flight[j] = Nil => flight'[j] = Nil
  <2>1. flight' = [flight EXCEPT ![i] = Nil] /\ flight \in [Managers -> InFlight \cup {Nil}]
    BY <1>2 DEF createResponse, AuthIndInv, AuthTypeOK
  <2> QED
    BY <1>2, <2>1, createResponseStep
<1>3. ASSUME NEW i \in Managers, NEW b \in BOOLEAN, serve(i, b)
      PROVE  AuthIndInv' /\ \A j \in Managers : flight[j] = Nil => flight'[j] = Nil
  BY <1>3, serveStep
<1>4. CASE UNCHANGED authVars
  <2>1. /\ UNCHANGED <<m_auth, m_loggedInUser, poolSize, mgrAuth>>
        /\ UNCHANGED <<flight, lastToken, owner, valid, dropped>>
    BY <1>4 DEF authVars, clientVars, sessionVars
  <2>2. AuthTypeOK' /\ ManagersCarryTheToken' /\ LoggedInUserOwnsTheToken' /\ PoolInOrder'
    BY <2>1 DEF AuthIndInv, AuthTypeOK, ManagersCarryTheToken, LoggedInUserOwnsTheToken, PoolInOrder
  <2>3. TokenInOnePlace' /\ TokensAreIssued'
    BY <2>1 DEF AuthIndInv, TokenInOnePlace, TokensAreIssued
  <2> QED
    BY <2>1, <2>2, <2>3 DEF AuthIndInv
<1> QED
  BY <1>1, <1>2, <1>3, <1>4 DEF AuthNext

\* The invariant holds in every state of the session.
THEOREM AuthInvariantHolds == AuthSpec => []AuthIndInv
BY AuthInitInv, AuthNextInv, PTL DEF AuthSpec

\* Every variable keeps its type.
THEOREM SessionTypeCorrect == AuthSpec => []AuthTypeOK
<1>1. AuthIndInv => AuthTypeOK
  BY DEF AuthIndInv
<1> QED
  BY <1>1, AuthInvariantHolds, PTL

\* setAuth and getHTTPManager keep the token of every manager of the pool equal to
\* the client's.
THEOREM PoolCarriesTheToken == AuthSpec => []ManagersCarryTheToken
<1>1. AuthIndInv => ManagersCarryTheToken
  BY DEF AuthIndInv
<1> QED
  BY <1>1, AuthInvariantHolds, PTL

\* getLoggedInUser is the user whose token the client holds, unless that is an
\* administrator's.
THEOREM UserOwnsTheToken == AuthSpec => []LoggedInUserOwnsTheToken
<1>1. AuthIndInv => LoggedInUserOwnsTheToken
  BY DEF AuthIndInv
<1> QED
  BY <1>1, AuthInvariantHolds, PTL

\* A token that a logout removed is in no request built afterwards.
THEOREM NoDroppedTokenIsSent == AuthSpec => DroppedTokensAreNotSent
<1>1. AuthIndInv /\ [AuthNext]_authVars =>
         [\A i \in Managers :
             flight[i] = Nil /\ flight'[i] # Nil => flight'[i].auth \notin dropped']_authVars
  BY AuthNextInv
<1> QED
  BY <1>1, AuthInvariantHolds, PTL DEF AuthSpec, DroppedTokensAreNotSent

-----------------------------------------------------------------------------
(* The collection.                                                          *)

\* An answer is a sequence of entities after its cursor; the cursor that comes
\* with it is its last entity, and up to there, or altogether when none comes, the
\* answer has every entity after the cursor it was asked for.
LEMMA PageLemma ==
    ASSUME NEW S \in SUBSET Entities, NEW c \in Cursors, NEW p \in Answers(S, c)
    PROVE  /\ p \in Seq(Entities)
           /\ {p[i] : i \in DOMAIN p} \subseteq S
           /\ PageCursor(S, p) \in Cursors
           /\ PageCursor(S, p) # None =>
                 /\ PageCursor(S, p) \in {p[i] : i \in DOMAIN p}
                 /\ \A e \in {p[i] : i \in DOMAIN p} : e <= PageCursor(S, p)
           /\ \A e \in After(S, c) :
                 PageCursor(S, p) = None \/ e <= PageCursor(S, p) =>
                    e \in {p[i] : i \in DOMAIN p}
<1>1. PICK n \in 0 .. PageSize : p \in [1 .. n -> After(S, c)]
  BY DEF Answers
<1>2. /\ \A i, j \in DOMAIN p : i < j => p[i] < p[j]
      /\ \A e \in After(S, c) :
            (Len(p) < PageSize \/ \E i \in DOMAIN p : e <= p[i]) => \E i \in DOMAIN p : p[i] = e
  BY DEF Answers
<1>3. After(S, c) \subseteq S /\ After(S, c) \subseteq Entities
  BY DEF After
<1>4. n \in Nat /\ PageSize \in Nat \ {0} /\ None \notin Entities /\ Entities \subseteq Int
  BY CollectionAssumption DEF Entities
<1>5. p \in [1 .. n -> Entities] /\ DOMAIN p = 1 .. n
  BY <1>1, <1>3
<1>6. p \in Seq(Entities)
  BY <1>4, <1>5, SeqDef
<1>7. Len(p) = n
  BY <1>4, <1>5, <1>6, LenProperties
<1>8. {p[i] : i \in DOMAIN p} \subseteq S
  BY <1>1, <1>3, <1>5
<1>9. CASE p # <<>> /\ \E e \in S : e > p[Len(p)]
  <2>1. n \in DOMAIN p /\ PageCursor(S, p) = p[n] /\ p[n] \in Entities
    BY <1>4, <1>5, <1>6, <1>7, <1>9, EmptySeq DEF PageCursor
  <2>2. \A i \in DOMAIN p : p[i] <= p[n]
    <3>1. SUFFICES ASSUME NEW i \in DOMAIN p PROVE p[i] <= p[n]
      OBVIOUS
    <3>2. i \in 1 .. n /\ p[i] \in Int /\ p[n] \in Int
      BY <1>4, <1>5, <2>1
    <3>3. i < n => p[i] < p[n]
      BY <1>2, <2>1
    <3> QED
      BY <1>4, <3>2, <3>3
  <2>3. PageCursor(S, p) \in Cursors /\ PageCursor(S, p) # None
    BY <1>4, <2>1 DEF Cursors
  <2>4. \A e \in After(S, c) : e <= p[n] => \E i \in DOMAIN p : p[i] = e
    BY <1>2, <2>1
  <2> QED
    BY <1>6, <1>8, <2>1, <2>2, <2>3, <2>4
<1>10. CASE ~(p # <<>> /\ \E e \in S : e > p[Len(p)])
  <2>1. PageCursor(S, p) = None /\ None \in Cursors
    BY <1>10 DEF PageCursor, Cursors
  <2>2. ASSUME NEW e \in After(S, c) PROVE \E i \in DOMAIN p : p[i] = e
    <3>1. CASE p = <<>>
      <4>1. Len(p) < PageSize
        BY <3>1, <1>4
      <4> QED
        BY <4>1, <1>2
    <3>2. CASE p # <<>>
      <4>1. n \in DOMAIN p
        BY <1>4, <1>5, <1>6, <1>7, <3>2, EmptySeq
      <4>2. e \in S /\ e \in Int /\ p[n] \in Int
        BY <1>3, <1>4, <1>5, <4>1
      <4>3. e <= p[n]
        BY <1>7, <1>10, <3>2, <4>2
      <4> QED
        BY <1>2, <4>1, <4>3
    <3> QED
      BY <3>1, <3>2
  <2> QED
    BY <1>6, <1>8, <2>1, <2>2
<1> QED
  BY <1>9, <1>10

\* What a fetch that asks the server, holding S, for what follows c establishes:
\* the types; where the next page begins; and, if everything up to c was seen, that
\* everything up to there has been.
LEMMA fetchFromLemma ==
    ASSUME TypeOK, NEW S \in SUBSET (1 .. lastId), NEW c \in Cursors, NEW ok \in BOOLEAN,
           fetchFrom(S, c, ok), upTo <= lastId
    PROVE  /\ cursor' \in Cursors /\ next' = cursor'
           /\ iterator' = -1 /\ list' \in Seq(Entities)
           /\ page' \subseteq Entities /\ seen' \subseteq Entities
           /\ upTo' \in 0 .. MaxEntities /\ upTo' <= lastId
           /\ next' # None => next' \in page' /\ \A e \in page' : e <= next'
           /\ ok /\ cursor' # None => cursor' <= upTo'
           /\ ok /\ (c = None \/ (c <= upTo /\ \A e \in S : e <= upTo => e \in seen)) =>
                 \A e \in S : e <= upTo' => e \in seen'
<1>1. PICK p \in IF ok THEN Answers(S, c) ELSE {<<>>} :
        /\ cursor' = PageCursor(S, p)
        /\ next' = cursor'
        /\ iterator' = -1
        /\ list' = p
        /\ page' = {p[i] : i \in DOMAIN p}
        /\ seen' = (IF c = None /\ ok THEN {} ELSE seen) \cup page'
        /\ upTo' = IF ~ok THEN upTo ELSE IF cursor' = None THEN lastId ELSE cursor'
  BY DEF fetchFrom
<1>2. /\ lastId \in 0 .. MaxEntities /\ MaxEntities \in Nat
      /\ seen \subseteq Entities /\ upTo \in 0 .. MaxEntities
      /\ S \in SUBSET Entities
      /\ None \notin Entities
  BY CollectionAssumption DEF TypeOK, Entities
<1>3. CASE ~ok
  <2>1. p = <<>>
    BY <1>1, <1>3
  <2>2. page' = {} /\ cursor' = None
    BY <1>1, <2>1 DEF PageCursor
  <2>3. <<>> \in Seq(Entities)
    OBVIOUS
  <2> QED
    BY <1>1, <1>2, <1>3, <2>1, <2>2, <2>3 DEF Cursors
<1>4. CASE ok
  <2>1. p \in Answers(S, c)
    BY <1>1, <1>4
  <2>2. /\ p \in Seq(Entities)
        /\ page' \subseteq S
        /\ cursor' \in Cursors
        /\ cursor' # None => cursor' \in page' /\ \A e \in page' : e <= cursor'
        /\ \A e \in After(S, c) : cursor' = None \/ e <= cursor' => e \in page'
    <3>1. /\ p \in Seq(Entities)
          /\ {p[i] : i \in DOMAIN p} \subseteq S
          /\ PageCursor(S, p) \in Cursors
          /\ PageCursor(S, p) # None =>
                /\ PageCursor(S, p) \in {p[i] : i \in DOMAIN p}
                /\ \A e \in {p[i] : i \in DOMAIN p} : e <= PageCursor(S, p)
          /\ \A e \in After(S, c) :
                PageCursor(S, p) = None \/ e <= PageCursor(S, p) =>
                   e \in {p[i] : i \in DOMAIN p}
      BY <1>2, <2>1, PageLemma
    <3>2. cursor' = PageCursor(S, p) /\ page' = {p[i] : i \in DOMAIN p}
      BY <1>1
    <3> QED
      BY <3>1, <3>2
  <2>3. upTo' = IF cursor' = None THEN lastId ELSE cursor'
    BY <1>1, <1>4
  <2>4. upTo' \in 0 .. MaxEntities /\ upTo' <= lastId
    BY <1>2, <2>2, <2>3 DEF Entities
  <2>5. cursor' # None => cursor' <= upTo'
    BY <1>2, <2>2, <2>3 DEF Entities
  <2>6. ASSUME c = None \/ (c <= upTo /\ \A e \in S : e <= upTo => e \in seen),
               NEW e \in S, e <= upTo'
        PROVE  e \in seen'
    <3>1. CASE e \in After(S, c)
      <4>1. cursor' = None \/ e <= cursor'
        BY <2>3, <2>6
      <4> QED
        BY <1>1, <2>2, <3>1, <4>1
    <3>2. CASE e \notin After(S, c)
      <4>1. c # None /\ ~(e > c)
        BY <3>2 DEF After
      <4>2. c \in Int /\ e \in Int /\ upTo \in Int
        BY <1>2, <4>1 DEF Cursors, Entities
      <4>3. e <= upTo
        BY <2>6, <4>1, <4>2
      <4> QED
        BY <1>1, <2>6, <4>1, <4>3
    <3> QED
      BY <3>1, <3>2
  <2>7. page' \subseteq Entities /\ seen' \subseteq Entities
    BY <1>1, <1>2, <2>2
  <2> QED
    BY <1>1, <2>2, <2>4, <2>5, <2>6, <2>7
<1> QED
  BY <1>3, <1>4

\* What every operation that ends with a fetch preserves.
LEMMA fetchStep ==
    ASSUME IndInv, NEW c \in Cursors, NEW ok \in BOOLEAN,
           server' \subseteq server, lastId' = lastId,
           previous' \in Seq(Entities),
           fetchFrom(server', c, ok),
           unbroken' \in BOOLEAN,
           unbroken' => ok /\ (c = None \/ (unbroken /\ c = cursor))
    PROVE  IndInv'
<1>1. TypeOK /\ KnownEntities /\ NothingSkipped /\ ResumesWhereSeen
  BY DEF IndInv
<1>2. server' \in SUBSET (1 .. lastId) /\ upTo <= lastId
  BY <1>1 DEF KnownEntities
<1>3. /\ cursor' \in Cursors /\ next' = cursor'
      /\ iterator' = -1 /\ list' \in Seq(Entities)
      /\ page' \subseteq Entities /\ seen' \subseteq Entities
      /\ upTo' \in 0 .. MaxEntities /\ upTo' <= lastId
      /\ next' # None => next' \in page' /\ \A e \in page' : e <= next'
      /\ ok /\ cursor' # None => cursor' <= upTo'
      /\ ok /\ (c = None \/ (c <= upTo /\ \A e \in server' : e <= upTo => e \in seen)) =>
            \A e \in server' : e <= upTo' => e \in seen'
  BY <1>1, <1>2, fetchFromLemma
<1>4. TypeOK'
  <2>1. server' \subseteq Entities
    BY <1>1 DEF TypeOK
  <2> QED
    BY <1>1, <1>3, <2>1 DEF TypeOK
<1>5. NextHasCursor' /\ NextPageFollows'
  BY <1>3 DEF NextHasCursor, NextPageFollows
<1>6. IteratorInList'
  <2>1. Len(list') \in Nat
    BY <1>3, LenProperties
  <2> QED
    BY <1>3, <2>1 DEF IteratorInList
<1>7. NothingSkipped'
  <2>1. SUFFICES ASSUME unbroken' PROVE \A e \in server' : e <= upTo' => e \in seen'
    BY DEF NothingSkipped
  <2>2. c = None \/ (c <= upTo /\ \A e \in server' : e <= upTo => e \in seen)
    <3>1. SUFFICES ASSUME c # None
                   PROVE  c <= upTo /\ \A e \in server' : e <= upTo => e \in seen
      OBVIOUS
    <3>2. unbroken /\ c = cursor
      BY <2>1, <3>1
    <3>3. c <= upTo
      BY <1>1, <3>1, <3>2 DEF ResumesWhereSeen
    <3>4. \A e \in server : e <= upTo => e \in seen
      BY <1>1, <3>2 DEF NothingSkipped
    <3> QED
      BY <3>3, <3>4
  <2> QED
    BY <1>3, <2>1, <2>2
<1>8. KnownEntities' /\ ResumesWhereSeen'
  BY <1>2, <1>3 DEF KnownEntities, ResumesWhereSeen
<1> QED
  BY <1>4, <1>5, <1>6, <1>7, <1>8 DEF IndInv

\* The first page of a new collection.
LEMMA InitInv == Init => IndInv
<1> SUFFICES ASSUME Init PROVE IndInv
  OBVIOUS
<1>0. PICK ok \in BOOLEAN : \E p \in IF ok THEN Answers(server, None) ELSE {<<>>} :
        /\ cursor = PageCursor(server, p)
        /\ list = p
        /\ page = {p[i] : i \in DOMAIN p}
        /\ upTo = IF ok THEN IF cursor = None THEN lastId ELSE cursor ELSE 0
        /\ unbroken = ok
  BY DEF Init
<1>1. PICK p \in IF ok THEN Answers(server, None) ELSE {<<>>} :
        /\ cursor = PageCursor(server, p)
        /\ list = p
        /\ page = {p[i] : i \in DOMAIN p}
        /\ upTo = IF ok THEN IF cursor = None THEN lastId ELSE cursor ELSE 0
        /\ unbroken = ok
  BY <1>0
<1>2. /\ lastId \in 0 .. MaxEntities /\ MaxEntities \in Nat /\ server = 1 .. lastId
      /\ next = cursor /\ iterator = -1 /\ previous = <<>> /\ seen = page
      /\ server \in SUBSET Entities /\ None \in Cursors /\ None \notin Entities
  BY CollectionAssumption DEF Init, Entities, Cursors
<1>3. /\ p \in Seq(Entities) /\ page \subseteq server /\ cursor \in Cursors
      /\ cursor # None => cursor \in page /\ \A e \in page : e <= cursor
      /\ ok => \A e \in server : cursor = None \/ e <= cursor => e \in page
  <2>1. CASE ok
    <3>1. p \in Answers(server, None)
      BY <1>1, <2>1
    <3>2. After(server, None) = server
      BY DEF After
    <3>3. /\ p \in Seq(Entities)
          /\ {p[i] : i \in DOMAIN p} \subseteq server
          /\ PageCursor(server, p) \in Cursors
          /\ PageCursor(server, p) # None =>
                /\ PageCursor(server, p) \in {p[i] : i \in DOMAIN p}
                /\ \A e \in {p[i] : i \in DOMAIN p} : e <= PageCursor(server, p)
          /\ \A e \in After(server, None) :
                PageCursor(server, p) = None \/ e <= PageCursor(server, p) =>
                   e \in {p[i] : i \in DOMAIN p}
      BY <1>2, <3>1, PageLemma
    <3>4. cursor = PageCursor(server, p) /\ page = {p[i] : i \in DOMAIN p}
      BY <1>1
    <3> QED
      BY <3>2, <3>3, <3>4
  <2>2. CASE ~ok
    <3>1. p = <<>>
      BY <1>1, <2>2
    <3>2. page = {} /\ cursor = None
      BY <1>1, <3>1 DEF PageCursor
    <3> QED
      BY <1>2, <2>2, <3>1, <3>2
  <2> QED
    BY <2>1, <2>2
<1>4. upTo \in 0 .. MaxEntities /\ upTo <= lastId
  BY <1>1, <1>2, <1>3
<1>5. TypeOK
  <2>1. previous \in Seq(Entities)
    BY <1>2
  <2> QED
    BY <1>1, <1>2, <1>3, <1>4, <2>1 DEF TypeOK
<1>6. NextHasCursor /\ NextPageFollows
  BY <1>2, <1>3 DEF NextHasCursor, NextPageFollows
<1>7. IteratorInList
  <2>1. Len(list) \in Nat
    BY <1>1, <1>3, LenProperties
  <2> QED
    BY <1>2, <2>1 DEF IteratorInList
<1>8. NothingSkipped /\ ResumesWhereSeen
  BY <1>1, <1>2, <1>3 DEF NothingSkipped, ResumesWhereSeen, Entities
<1> QED
  BY <1>2, <1>4, <1>5, <1>6, <1>7, <1>8 DEF IndInv, KnownEntities

\* Operations that fetch.
LEMMA FetchingStep ==
    ASSUME IndInv, NEW ok \in BOOLEAN,
           \/ fetch(ok)
           \/ getNextPage(ok)
           \/ getPrevPage(ok)
           \/ \E e \in Entities, removed \in BOOLEAN : destroyEntity(e, removed, ok)
    PROVE  IndInv'
<1>t. TypeOK /\ unbroken \in BOOLEAN /\ cursor \in Cursors /\ previous \in Seq(Entities)
  BY DEF IndInv, TypeOK
<1>1. CASE fetch(ok)
  <2>1. /\ server' = server /\ lastId' = lastId /\ previous' = previous
        /\ fetchFrom(server, cursor, ok) /\ unbroken' = (ok /\ (unbroken \/ cursor = None))
    BY <1>1 DEF fetch, serverVars
  <2> QED
    BY <1>t, <2>1, fetchStep
<1>2. CASE getNextPage(ok)
  <2>1. /\ server' = server /\ lastId' = lastId /\ previous' = Append(previous, cursor)
        /\ next # None /\ cursor # None
        /\ fetchFrom(server, next, ok) /\ unbroken' = (ok /\ unbroken)
    BY <1>2 DEF getNextPage, serverVars
  <2>2. next = cursor /\ cursor \in Entities
    BY <1>t, <2>1 DEF IndInv, NextHasCursor, Cursors
  <2>3. previous' \in Seq(Entities)
    BY <1>t, <2>1, <2>2, AppendProperties
  <2> QED
    BY <1>t, <2>1, <2>2, <2>3, fetchStep
<1>3. CASE getPrevPage(ok)
  <2> DEFINE c == previous[Len(previous)]
  <2>1. /\ server' = server /\ lastId' = lastId
        /\ previous # <<>> /\ previous' = SubSeq(previous, 1, Len(previous) - 1)
        /\ fetchFrom(server, c, ok) /\ unbroken' = FALSE
    BY <1>3 DEF getPrevPage, serverVars
  <2>2. Len(previous) \in Nat /\ Len(previous) # 0
    BY <1>t, <2>1, LenProperties, EmptySeq
  <2>3. c \in Cursors
    BY <1>t, <2>2, ElementOfSeq DEF Cursors
  <2>4. previous' \in Seq(Entities)
    <3>1. \A i \in 1 .. Len(previous) - 1 : previous[i] \in Entities
      BY <1>t, <2>2, ElementOfSeq
    <3> QED
      BY <2>1, <2>2, <3>1, SubSeqProperties, <1>t
  <2> HIDE DEF c
  <2> QED
    BY <1>t, <2>1, <2>3, <2>4, fetchStep
<1>4. CASE \E e \in Entities, removed \in BOOLEAN : destroyEntity(e, removed, ok)
  <2>1. PICK e \in Entities, removed \in BOOLEAN : destroyEntity(e, removed, ok)
    BY <1>4
  <2>2. /\ server' = (IF removed THEN server \ {e} ELSE server)
        /\ lastId' = lastId /\ previous' = previous
        /\ fetchFrom(server', cursor, ok) /\ unbroken' = (ok /\ (unbroken \/ cursor = None))
    BY <2>1 DEF destroyEntity
  <2>3. server' \subseteq server
    BY <2>2
  <2> HIDE DEF destroyEntity
  <2> QED
    BY <1>t, <2>2, <2>3, fetchStep
<1> QED
  BY <1>1, <1>2, <1>3, <1>4

\* Operations on the page, the iterator and the cursors that do not fetch.
LEMMA LocalStep ==
    ASSUME IndInv,
           \/ \E ok \in BOOLEAN : addEntity(ok)
           \/ resetPaging
           \/ getNextEntity
           \/ getPrevEntity
           \/ resetEntityPointer
           \/ othersCreate
           \/ \E e \in server : othersRemove(e)
    PROVE  IndInv'
<1>t. TypeOK /\ lastId \in 0 .. MaxEntities /\ MaxEntities \in Nat /\ upTo <= lastId
        /\ server \subseteq 1 .. lastId
  BY CollectionAssumption DEF IndInv, TypeOK, KnownEntities
<1>l. list \in Seq(Entities) /\ Len(list) \in Nat /\ iterator \in -1 .. Len(list) - 1
  BY LenProperties DEF IndInv, TypeOK, IteratorInList
<1>1. ASSUME lastId < MaxEntities, lastId' = lastId + 1, server' = server \cup {lastId'},
             list' = list \/ list' = Append(list, lastId'),
             UNCHANGED <<iterator, previous, next, cursor, history>>
      PROVE  IndInv'
  <2>1. lastId' \in Entities /\ lastId' > upTo /\ lastId' \in 0 .. MaxEntities
    BY <1>1, <1>t DEF TypeOK, Entities
  <2>2. list' \in Seq(Entities) /\ Len(list') \in Nat /\ Len(list') >= Len(list)
    BY <1>1, <1>l, <2>1, AppendProperties
  <2>3. /\ iterator' = iterator /\ previous' = previous /\ next' = next /\ cursor' = cursor
        /\ page' = page /\ seen' = seen /\ upTo' = upTo /\ unbroken' = unbroken
    BY <1>1 DEF history
  <2>4. TypeOK'
    <3>1. server' \subseteq Entities
      BY <1>1, <1>t, <2>1 DEF TypeOK
    <3> QED
      BY <1>t, <2>1, <2>2, <2>3, <3>1 DEF TypeOK
  <2>5. NextHasCursor' /\ NextPageFollows' /\ ResumesWhereSeen'
    BY <2>3 DEF IndInv, NextHasCursor, NextPageFollows, ResumesWhereSeen
  <2>6. IteratorInList'
    BY <1>l, <2>2, <2>3 DEF IteratorInList
  <2>7. NothingSkipped'
    BY <1>1, <2>1, <2>3, <1>t DEF IndInv, NothingSkipped, TypeOK
  <2>8. KnownEntities'
    BY <1>1, <1>t, <2>3 DEF KnownEntities, TypeOK
  <2> QED
    BY <2>4, <2>5, <2>6, <2>7, <2>8 DEF IndInv
<1>2. ASSUME NEW ok \in BOOLEAN, addEntity(ok) PROVE IndInv'
  BY <1>1, <1>2 DEF addEntity
<1>3. CASE othersCreate
  BY <1>1, <1>3 DEF othersCreate, pageVars, history
<1>4. CASE resetPaging
  <2>1. /\ previous' = <<>> /\ next' = None /\ cursor' = None /\ unbroken' = FALSE
        /\ server' = server /\ lastId' = lastId /\ list' = list /\ iterator' = iterator
        /\ page' = page /\ seen' = seen /\ upTo' = upTo
    BY <1>4 DEF resetPaging, serverVars
  <2>2. TypeOK'
    <3>1. previous' \in Seq(Entities) /\ next' \in Cursors /\ cursor' \in Cursors
      BY <2>1 DEF Cursors
    <3>2. unbroken' \in BOOLEAN
      BY <2>1
    <3> QED
      BY <1>t, <2>1, <3>1, <3>2 DEF TypeOK
  <2>3. NextHasCursor' /\ NextPageFollows' /\ ResumesWhereSeen' /\ NothingSkipped'
    BY <2>1 DEF NextHasCursor, NextPageFollows, ResumesWhereSeen, NothingSkipped
  <2>4. IteratorInList' /\ KnownEntities'
    BY <2>1 DEF IndInv, IteratorInList, KnownEntities
  <2> QED
    BY <2>2, <2>3, <2>4 DEF IndInv
<1>5. ASSUME iterator' \in -1 .. Len(list) - 1,
             UNCHANGED <<serverVars, list, previous, next, cursor, history>>
      PROVE  IndInv'
  <2>1. /\ server' = server /\ lastId' = lastId /\ list' = list /\ previous' = previous
        /\ next' = next /\ cursor' = cursor
        /\ page' = page /\ seen' = seen /\ upTo' = upTo /\ unbroken' = unbroken
    BY <1>5 DEF serverVars, history
  <2>2. TypeOK'
    BY <1>5, <2>1, <1>t, <1>l DEF TypeOK
  <2>3. IteratorInList'
    BY <1>5, <2>1 DEF IteratorInList
  <2>4. NextHasCursor' /\ NextPageFollows' /\ ResumesWhereSeen' /\ NothingSkipped'
           /\ KnownEntities'
    BY <2>1 DEF IndInv, NextHasCursor, NextPageFollows, ResumesWhereSeen, NothingSkipped,
                KnownEntities
  <2> QED
    BY <2>2, <2>3, <2>4 DEF IndInv
<1>6. CASE getNextEntity
  BY <1>5, <1>6, <1>l DEF getNextEntity
<1>7. CASE getPrevEntity
  BY <1>5, <1>7, <1>l DEF getPrevEntity
<1>8. CASE resetEntityPointer
  BY <1>5, <1>8, <1>l DEF resetEntityPointer
<1>9. ASSUME NEW e \in server, othersRemove(e) PROVE IndInv'
  <2>1. /\ server' = server \ {e} /\ lastId' = lastId /\ list' = list
        /\ iterator' = iterator /\ previous' = previous /\ next' = next /\ cursor' = cursor
        /\ page' = page /\ seen' = seen /\ upTo' = upTo /\ unbroken' = unbroken
    BY <1>9 DEF othersRemove, pageVars, history
  <2>2. TypeOK'
    BY <2>1, <1>t DEF TypeOK
  <2>3. NextHasCursor' /\ NextPageFollows' /\ ResumesWhereSeen' /\ IteratorInList'
    BY <2>1 DEF IndInv, NextHasCursor, NextPageFollows, ResumesWhereSeen, IteratorInList
  <2>4. NothingSkipped' /\ KnownEntities'
    BY <2>1 DEF IndInv, NothingSkipped, KnownEntities
  <2> QED
    BY <2>2, <2>3, <2>4 DEF IndInv
<1> QED
  BY <1>2, <1>3, <1>4, <1>6, <1>7, <1>8, <1>9

\* Every step preserves the invariant.
LEMMA NextInv == IndInv /\ [Next]_vars => IndInv'
<1> SUFFICES ASSUME IndInv, [Next]_vars PROVE IndInv'
  OBVIOUS
<1>1. ASSUME NEW ok \in BOOLEAN,
             \/ fetch(ok)
             \/ getNextPage(ok)
             \/ getPrevPage(ok)
             \/ \E e \in Entities, removed \in BOOLEAN : destroyEntity(e, removed, ok)
      PROVE  IndInv'
  BY <1>1, FetchingStep
<1>2. CASE \/ \E ok \in BOOLEAN : addEntity(ok)
           \/ resetPaging
           \/ getNextEntity
           \/ getPrevEntity
           \/ resetEntityPointer
           \/ othersCreate
           \/ \E e \in server : othersRemove(e)
  BY <1>2, LocalStep
<1>3. CASE UNCHANGED vars
  <2>1. /\ server' = server /\ lastId' = lastId /\ list' = list
        /\ iterator' = iterator /\ previous' = previous /\ next' = next /\ cursor' = cursor
        /\ page' = page /\ seen' = seen /\ upTo' = upTo /\ unbroken' = unbroken
    BY <1>3 DEF vars, serverVars, pageVars, history
  <2>2. TypeOK'
    BY <2>1 DEF IndInv, TypeOK
  <2>3. NextHasCursor' /\ NextPageFollows' /\ ResumesWhereSeen' /\ IteratorInList'
    BY <2>1 DEF IndInv, NextHasCursor, NextPageFollows, ResumesWhereSeen, IteratorInList
  <2>4. NothingSkipped' /\ KnownEntities'
    BY <2>1 DEF IndInv, NothingSkipped, KnownEntities
  <2> QED
    BY <2>2, <2>3, <2>4 DEF IndInv
<1> QED
  BY <1>1, <1>2, <1>3 DEF Next

\* The invariant holds in every state of the collection.
THEOREM InvariantHolds == Spec => []IndInv
BY InitInv, NextInv, PTL DEF Spec

\* Every variable keeps its type.
THEOREM TypeCorrect == Spec => []TypeOK
<1>1. IndInv => TypeOK
  BY DEF IndInv
<1> QED
  BY <1>1, InvariantHolds, PTL

\* getNextPage never pushes nil, and the iterator never leaves the list that is
\* refilled behind it.
THEOREM NoOperationRaises == Spec => []NothingRaises
<1>1. IndInv => NothingRaises
  BY DEF IndInv, NothingRaises
<1> QED
  BY <1>1, InvariantHolds, PTL

\* getNextPage asks for what follows the page at hand.
THEOREM NextPageIsSafe == Spec => []NextPageFollows
<1>1. IndInv => NextPageFollows
  BY DEF IndInv
<1> QED
  BY <1>1, InvariantHolds, PTL

\* A traversal in order, without a failure, misses no entity, whatever other
\* clients create and remove meanwhile.
THEOREM TraversalIsComplete == Spec => []NothingSkipped
<1>1. IndInv => NothingSkipped
  BY DEF IndInv
<1> QED
  BY <1>1, InvariantHolds, PTL

=============================================================================
