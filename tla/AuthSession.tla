----------------------------- MODULE AuthSession -----------------------------
(***************************************************************************)
(* The OAuth session of ApigeeDataClient: the token it holds, the copy     *)
(* each ApigeeHTTPManager of the pool puts into the requests it builds,    *)
(* the logged in user, and the logins and logouts that change them.        *)
(*                                                                         *)
(* The application calls and the replies come on one thread; replies come  *)
(* in any order and a request or its reply may be lost.  A manager carries *)
(* one request at a time (module DataClient).  A token is the number of    *)
(* the login that it was issued for.                                       *)
(***************************************************************************)
EXTENDS Integers

CONSTANTS
    Users,        \* who can log in with a password, a PIN or Facebook
    Admins,       \* who can log in with client credentials
    Nil,          \* nil
    MaxTokens,    \* bound: tokens the server issues
    MaxManagers   \* bound: managers in the pool, hence requests in flight

ASSUME AuthAssumption ==
    /\ Users \cap Admins = {}
    /\ Nil \notin Users \cup Admins \cup Int
    /\ MaxTokens \in Nat
    /\ MaxManagers \in Nat

Tokens == 1 .. MaxTokens
Managers == 1 .. MaxManagers
Accounts == Users \cup Admins

VARIABLES
    m_auth,           \* the client's token
    m_loggedInUser,
    poolSize,         \* [m_httpManagerPool count]
    mgrAuth,          \* m_auth of each manager
    flight,           \* the request each manager has in flight
    lastToken,        \* the server's last token,
    owner,            \* whom each was issued to
    valid,            \* and those not revoked
    dropped           \* history: the tokens a logout removed from the client

clientVars == <<m_auth, m_loggedInUser, poolSize, mgrAuth>>
sessionVars == <<lastToken, owner, valid>>
authVars == <<clientVars, flight, sessionVars, dropped>>

\* A request in flight: for whom, the token in its Authorization header, the
\* token a revoke URL names, the token the logout that sent it dropped; whether
\* the server has served it, and the token issued for it.
InFlight == [kind : {"login", "data", "revoke", "revokeAll"},
             who : Accounts \cup {Nil},
             auth : Tokens \cup {Nil},
             names : Tokens \cup {Nil},
             drops : Tokens \cup {Nil},
             served : BOOLEAN,
             token : Tokens \cup {Nil}]

ASSUME NilAssumption == Nil \notin InFlight

AuthTypeOK ==
    /\ m_auth \in Tokens \cup {Nil}
    /\ m_loggedInUser \in Users \cup {Nil}
    /\ poolSize \in 0 .. MaxManagers
    /\ mgrAuth \in [Managers -> Tokens \cup {Nil}]
    /\ flight \in [Managers -> InFlight \cup {Nil}]
    /\ lastToken \in 0 .. MaxTokens
    /\ owner \in [Tokens -> Accounts \cup {Nil}]
    /\ valid \subseteq Tokens
    /\ dropped \subseteq Tokens

AuthInit ==
    /\ m_auth = Nil
    /\ m_loggedInUser = Nil
    /\ poolSize = 0
    /\ mgrAuth = [i \in Managers |-> Nil]
    /\ flight = [i \in Managers |-> Nil]
    /\ lastToken = 0
    /\ owner = [k \in Tokens |-> Nil]
    /\ valid = {}
    /\ dropped = {}

-----------------------------------------------------------------------------
(* The client *)

\* Fault: only the managers that are available are updated.
setAuthOfAvailable(auth) ==
    /\ m_auth' = auth
    /\ mgrAuth' = [i \in Managers |->
                      IF i <= poolSize /\ flight[i] = Nil THEN auth ELSE mgrAuth[i]]

\* setAuth: the client's token and the copy of every manager of the pool.
setAuth(auth) ==
    /\ m_auth' = auth
    /\ mgrAuth' = [i \in Managers |-> IF i <= poolSize THEN auth ELSE mgrAuth[i]]

\* httpTransaction: getHTTPManager takes the first available manager, or adds one
\* that is given the client's token; getRequest puts the manager's token into the
\* request.  auth and copies are m_auth and mgrAuth as the call has left them.
httpTransaction(kind, who, names, drops, auth, copies) ==
    \E i \in Managers :
        /\ flight[i] = Nil /\ \A j \in Managers : j < i => flight[j] # Nil
        /\ poolSize' = IF i > poolSize THEN i ELSE poolSize
        /\ m_auth' = auth
        /\ mgrAuth' = IF i > poolSize THEN [copies EXCEPT ![i] = auth] ELSE copies
        /\ flight' = [flight EXCEPT ![i] =
              [kind |-> kind, who |-> who, auth |-> mgrAuth'[i], names |-> names,
               drops |-> drops, served |-> FALSE, token |-> Nil]]
        /\ UNCHANGED <<m_loggedInUser, sessionVars>>

\* Any call that reads or writes data.
request ==
    /\ httpTransaction("data", Nil, Nil, Nil, m_auth, mgrAuth)
    /\ UNCHANGED dropped

\* logInUser, logInUserWithPin, logInUserWithFacebook, logInAdmin.
logIn(who) ==
    /\ httpTransaction("login", who, Nil, Nil, m_auth, mgrAuth)
    /\ UNCHANGED dropped

\* Fault: a logout clears the client's token only.
ClearedClientOnly == mgrAuth

\* The copies after setAuth:nil.
Cleared == [i \in Managers |-> IF i <= poolSize THEN Nil ELSE mgrAuth[i]]

\* logOut: clears the token first, so that the URL names what getAccessToken
\* returns then: nil.
logOut(u) ==
    /\ httpTransaction("revoke", u, Nil, m_auth, Nil, Cleared)
    /\ dropped' = dropped \cup ({m_auth} \ {Nil})

\* logOut:forToken: clears the client's token only if it is the one named.
logOutForToken(u, k) ==
    IF k = m_auth
      THEN /\ httpTransaction("revoke", u, k, k, Nil, Cleared)
           /\ dropped' = dropped \cup {k}
      ELSE /\ httpTransaction("revoke", u, k, Nil, m_auth, mgrAuth)
           /\ UNCHANGED dropped

logOutAllTokens(u) ==
    /\ httpTransaction("revokeAll", u, Nil, m_auth, Nil, Cleared)
    /\ dropped' = dropped \cup ({m_auth} \ {Nil})

\* Fault: the reply to an administrator's login is taken to have a user, too.
createResponseAnyUser(i, delivered) ==
    /\ flight[i] # Nil
    /\ delivered => flight[i].served
    /\ flight' = [flight EXCEPT ![i] = Nil]
    /\ IF delivered /\ flight[i].token # Nil
         THEN setAuth(flight[i].token) /\ m_loggedInUser' = flight[i].who
         ELSE UNCHANGED <<m_auth, mgrAuth, m_loggedInUser>>
    /\ UNCHANGED <<poolSize, sessionVars, dropped>>

\* Fault: a user who is logged in is kept.
createResponseFirstUser(i, delivered) ==
    /\ flight[i] # Nil
    /\ delivered => flight[i].served
    /\ flight' = [flight EXCEPT ![i] = Nil]
    /\ IF delivered /\ flight[i].token # Nil
         THEN /\ setAuth(flight[i].token)
              /\ m_loggedInUser' = IF m_loggedInUser = Nil /\ flight[i].who \in Users
                                     THEN flight[i].who ELSE m_loggedInUser
         ELSE UNCHANGED <<m_auth, mgrAuth, m_loggedInUser>>
    /\ UNCHANGED <<poolSize, sessionVars, dropped>>

\* createResponse: a reply with an access_token sets it, and the user if the
\* reply has one (a login with client credentials does not).  A lost request, a
\* lost reply and an error change nothing.
createResponse(i, delivered) ==
    /\ flight[i] # Nil
    /\ delivered => flight[i].served
    /\ flight' = [flight EXCEPT ![i] = Nil]
    /\ IF delivered /\ flight[i].token # Nil
         THEN /\ setAuth(flight[i].token)
              /\ m_loggedInUser' = IF flight[i].who \in Users THEN flight[i].who
                                                            ELSE m_loggedInUser
         ELSE UNCHANGED <<m_auth, mgrAuth, m_loggedInUser>>
    /\ UNCHANGED <<poolSize, sessionVars, dropped>>

-----------------------------------------------------------------------------
(* The server *)

\* The server serves the request of manager i.  A login it accepts is issued a
\* new token.  createURL quotes the token in a revoke URL and sets it apart with
\* slashes: whether the server recognises it, and whether it lets the request
\* revoke it, is left open.
serve(i, accepts) ==
    LET f == flight[i] IN
    /\ f # Nil
    /\ ~f.served
    /\ \/ /\ f.kind = "login" /\ accepts
          /\ lastToken < MaxTokens
          /\ lastToken' = lastToken + 1
          /\ owner' = [owner EXCEPT ![lastToken + 1] = f.who]
          /\ valid' = valid \cup {lastToken + 1}
          /\ flight' = [flight EXCEPT ![i].served = TRUE, ![i].token = lastToken + 1]
       \/ /\ f.kind # "login" \/ ~accepts
          /\ valid' = CASE f.kind = "revoke" /\ accepts -> valid \ {f.names}
                        [] f.kind = "revokeAll" /\ accepts ->
                              {k \in valid : owner[k] # f.who}
                        [] OTHER -> valid
          /\ flight' = [flight EXCEPT ![i].served = TRUE]
          /\ UNCHANGED <<lastToken, owner>>
    /\ UNCHANGED <<clientVars, dropped>>

AuthNext ==
    \/ request
    \/ \E who \in Accounts : logIn(who)
    \/ \E u \in Users : \/ logOut(u)
                        \/ logOutAllTokens(u)
                        \/ \E k \in 1 .. lastToken : logOutForToken(u, k)
    \/ \E i \in Managers, b \in BOOLEAN : createResponse(i, b) \/ serve(i, b)

AuthSpec == AuthInit /\ [][AuthNext]_authVars

-----------------------------------------------------------------------------
(* Properties *)

\* "update all our managers": the managers of the pool, in use or not, carry the
\* token that getAccessToken returns, whether they joined before or after it was
\* set.
ManagersCarryTheToken == \A i \in 1 .. poolSize : mgrAuth[i] = m_auth

\* No request is built with a token that a logout has removed, however late the
\* replies to earlier logins arrive and whichever manager builds it.
DroppedTokensAreNotSent ==
    [][\A i \in Managers :
          flight[i] = Nil /\ flight'[i] # Nil => flight'[i].auth \notin dropped']_authVars

\* getLoggedInUser is the user the token was issued to, in whatever order the
\* replies to several logins arrive, unless it is an administrator's token.
LoggedInUserOwnsTheToken ==
    m_auth # Nil /\ owner[m_auth] \in Users => m_loggedInUser = owner[m_auth]

\* "Log out a user and destroy the token in ApigeeDataClient on the server": once
\* the server has accepted what logOut sends, the token that logOut cleared is
\* not valid.
LogOutDestroysTheToken ==
    [][\A i \in Managers, u \in Users :
          /\ flight[i] # Nil /\ flight[i].kind = "revoke"
          /\ flight[i].drops # Nil /\ serve(i, TRUE)
          => flight[i].drops \notin valid']_authVars

-----------------------------------------------------------------------------
(* The inductive invariant behind the properties. *)

\* A token is somewhere only once: with the client, on its way to it, or dropped.
TokenInOnePlace ==
    /\ m_auth # Nil => m_auth \notin dropped
    /\ \A i \in Managers : flight[i] # Nil /\ flight[i].token # Nil =>
          /\ flight[i].token \notin dropped \cup {m_auth}
          /\ owner[flight[i].token] = flight[i].who
          /\ \A j \in Managers \ {i} :
                flight[j] # Nil => flight[j].token # flight[i].token

\* The server has not issued the tokens after the last one.
TokensAreIssued ==
    /\ m_auth # Nil => m_auth <= lastToken
    /\ \A k \in dropped : k <= lastToken
    /\ \A i \in Managers :
          flight[i] # Nil /\ flight[i].token # Nil => flight[i].token <= lastToken

\* Managers join the pool in order.
PoolInOrder == \A i \in Managers : i > poolSize => flight[i] = Nil

AuthIndInv ==
    /\ AuthTypeOK
    /\ ManagersCarryTheToken
    /\ LoggedInUserOwnsTheToken
    /\ TokenInOnePlace
    /\ TokensAreIssued
    /\ PoolInOrder

=============================================================================
