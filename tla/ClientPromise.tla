---------------------------- MODULE ClientPromise ----------------------------
(***************************************************************************)
(* What the data client promises the application: a call is answered once, *)
(* with its own bytes and by its own transaction ID, to whom it was sent,  *)
(* or is abandoned because the delegate it was sent with is replaced.  The *)
(* exception the code makes is named: a blocking upload may return nil.    *)
(***************************************************************************)
EXTENDS Integers

CONSTANTS Calls, Delegates, None, NoID

VARIABLES
    delegate,    \* whom the client calls back; None: it is synchronous
    replacing,   \* setDelegate: is running
    status,      \* of each call: unmade, made, sent, answered, abandoned or nil
    uploads,     \* the calls made that upload an asset and block
    recipient,   \* whom a call is to be answered to; None: its caller, or its handler
    id,          \* the transaction ID by which its answer is known
    answer

vars == <<delegate, replacing, status, uploads, recipient, id, answer>>

NoAnswer == [data |-> {}, id |-> NoID, to |-> None]

Init ==
    /\ delegate = None
    /\ replacing = FALSE
    /\ status = [c \in Calls |-> "unmade"]
    /\ uploads = {}
    /\ recipient = [c \in Calls |-> None]
    /\ id = [c \in Calls |-> NoID]
    /\ answer = [c \in Calls |-> NoAnswer]

Becomes(c, from, to) == status[c] = from /\ status' = [status EXCEPT ![c] = to]

Make(c) ==
    /\ Becomes(c, "unmade", "made")
    /\ uploads' \in {uploads, uploads \cup {c}}
    /\ UNCHANGED <<delegate, replacing, recipient, id, answer>>

\* A call that runs in the background has an ID that no other has, one that blocks has none.
Send(c) ==
    /\ ~replacing
    /\ Becomes(c, "made", "sent")
    /\ \E to \in {None, delegate} :
          /\ recipient' = [recipient EXCEPT ![c] = to]
          /\ to # None => id'[c] # NoID
    /\ id' = [id EXCEPT ![c] = id'[c]]
    /\ id'[c] # NoID => \A d \in Calls : id[d] # id'[c]
    /\ UNCHANGED <<delegate, replacing, uploads, answer>>

\* A call that cannot be sent fails at once.
Refuse(c) ==
    /\ Becomes(c, "made", "answered")
    /\ answer' = [answer EXCEPT ![c] = NoAnswer]
    /\ UNCHANGED <<delegate, replacing, uploads, recipient, id>>

\* A blocking upload that fails, before or after it is sent, gives its caller nil.
ReturnNil(c) ==
    /\ c \in uploads
    /\ recipient[c] = None /\ id[c] = NoID
    /\ Becomes(c, "made", "nil") \/ Becomes(c, "sent", "nil")
    /\ UNCHANGED <<delegate, replacing, uploads, recipient, id, answer>>

\* A delegate is answered to as long as it is the client's.
Answer(c) ==
    /\ ~replacing
    /\ Becomes(c, "sent", "answered")
    /\ recipient[c] \in {None, delegate}
    /\ \E bytes \in {{}, {c}} :
          answer' = [answer EXCEPT ![c] = [data |-> bytes, id |-> id[c], to |-> recipient[c]]]
    /\ UNCHANGED <<delegate, replacing, uploads, recipient, id>>

\* setDelegate: begins, abandons what was sent with a delegate, and installs another one
\* or rejects it.
Replace ==
    /\ ~replacing
    /\ replacing' = TRUE
    /\ UNCHANGED <<delegate, uploads, status, recipient, id, answer>>

Abandon(c) ==
    /\ replacing
    /\ recipient[c] # None
    /\ Becomes(c, "sent", "abandoned")
    /\ UNCHANGED <<delegate, replacing, uploads, recipient, id, answer>>

Install(d) ==
    /\ replacing
    /\ \A c \in Calls : status[c] = "sent" => recipient[c] = None
    /\ delegate' = d
    /\ replacing' = FALSE
    /\ UNCHANGED <<uploads, status, recipient, id, answer>>

Next ==
    \/ \E c \in Calls :
          Make(c) \/ Send(c) \/ Refuse(c) \/ ReturnNil(c) \/ Answer(c) \/ Abandon(c)
    \/ Replace
    \/ \E d \in Delegates \cup {None} : Install(d)

Spec == Init /\ [][Next]_vars
=============================================================================
