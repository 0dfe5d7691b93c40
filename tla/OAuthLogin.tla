------------------------------ MODULE OAuthLogin ------------------------------
(***************************************************************************)
(* GET auth/login and GET auth/callback: the table oauth_transactions, the *)
(* cookie that names a browser's transaction, and the handlers that        *)
(* create, consume and discard transactions.  A browser may have several   *)
(* logins under way (tabs), send a callback twice, or send one that        *)
(* belongs to another browser.  The session that ends a login is the       *)
(* subject of module AuthSession; here its creation is one step.           *)
(*                                                                         *)
(* A transaction stands for its random id, its state and its PKCE          *)
(* verifier: state t and code t are those Identity Hub was given or issued *)
(* for transaction t.                                                      *)
(***************************************************************************)
EXTENDS Naturals, FiniteSets

CONSTANTS
    Request,    \* handler slots of the process
    Txn,        \* ids of oauth_transactions rows, each used by one login
    Browser,
    NoTxn,      \* no cookie, or a callback without a state parameter
    NoRequest,  \* a row lock nobody holds
    NoBrowser   \* a transaction no browser has asked for

ASSUME NoTxnAssumption == NoTxn \notin Txn
ASSUME NoRequestAssumption == NoRequest \notin Request
ASSUME NoBrowserAssumption == NoBrowser \notin Browser

VARIABLES
    row,        \* row[t]: "none", "live" or "gone" in oauth_transactions
    rowLock,    \* rowLock[t]: the consuming transaction that holds the row lock
    expired,    \* rows past expiresAt
    cookie,     \* cookie[b]: the transaction cookie in browser b
    session,    \* session[t]: the browser whose login with t created a session
    owner,      \* owner[t]: the browser that asked for transaction t
    atHub,      \* transactions Identity Hub has been asked to authorize
    redeemed,   \* transactions whose code Identity Hub has exchanged
    pc,         \* pc[r]: where handler r is
    from,       \* from[r]: the browser that sent the request
    carried,    \* carried[r]: the transaction cookie it came with
    state,      \* state[r]: its state parameter
    taken,      \* taken[t]: callbacks that obtained verifier t, counted up to 2
    strayed     \* browsers that did more than one login and its own callbacks

table == <<row, rowLock, expired>>
browsers == <<cookie, owner>>
hub == <<atHub, redeemed>>
handlers == <<pc, from, carried, state>>
history == <<taken, strayed>>
vars == <<table, browsers, hub, handlers, session, history>>

\* The response has been sent.
Ended == {"idle", "sent", "failed"}
\* A transaction row is locked between its SELECT ... FOR UPDATE and COMMIT.
Consuming == {"matched", "mismatched"}
PC == Ended \cup Consuming
        \cup {"creating", "redirecting", "discarding", "consuming"}
        \cup {"consumed", "exchanged", "loggedIn", "erred", "refused"}

GoTo(r, step) == pc' = [pc EXCEPT ![r] = step]

Init ==
    /\ row = [t \in Txn |-> "none"]
    /\ rowLock = [t \in Txn |-> NoRequest]
    /\ expired = {}
    /\ cookie = [b \in Browser |-> NoTxn]
    /\ session = [t \in Txn |-> NoBrowser]
    /\ owner = [t \in Txn |-> NoBrowser]
    /\ atHub = {}
    /\ redeemed = {}
    /\ pc = [r \in Request |-> "idle"]
    /\ from \in [Request -> Browser]
    /\ carried = [r \in Request |-> NoTxn]
    /\ state = [r \in Request |-> NoTxn]
    /\ taken = [t \in Txn |-> 0]
    /\ strayed = {}

-----------------------------------------------------------------------------
(* GET auth/login. *)

\* Browser b has asked for a login before.
Busy(b) ==
    \/ \E t \in Txn : owner[t] = b
    \/ \E r \in Request : pc[r] = "creating" /\ from[r] = b

\* Mutant of Login: create deletes all transactions, not only expired ones.
LoginPurgesAll(r, b) ==
    LET stale == {t \in Txn : row[t] = "live"} IN
    /\ pc[r] \in Ended
    /\ \A t \in stale : rowLock[t] = NoRequest
    /\ row' = [t \in Txn |-> IF t \in stale THEN "gone" ELSE row[t]]
    /\ from' = [from EXCEPT ![r] = b]
    /\ GoTo(r, "creating")
    /\ strayed' = IF Busy(b) THEN strayed \cup {b} ELSE strayed
    /\ UNCHANGED <<rowLock, expired, browsers, hub, carried, state, session, taken>>

\* create deletes the transactions that have expired ...
Login(r, b) ==
    LET stale == {t \in expired : row[t] = "live"} IN
    /\ pc[r] \in Ended
    /\ \A t \in stale : rowLock[t] = NoRequest
    /\ row' = [t \in Txn |-> IF t \in stale THEN "gone" ELSE row[t]]
    /\ from' = [from EXCEPT ![r] = b]
    /\ GoTo(r, "creating")
    /\ strayed' = IF Busy(b) THEN strayed \cup {b} ELSE strayed
    /\ UNCHANGED <<rowLock, expired, browsers, hub, carried, state, session, taken>>

\* ... and inserts the new one.
Create(r, t) ==
    /\ pc[r] = "creating"
    /\ row[t] = "none"
    /\ row' = [row EXCEPT ![t] = "live"]
    /\ owner' = [owner EXCEPT ![t] = from[r]]
    /\ carried' = [carried EXCEPT ![r] = t]
    /\ GoTo(r, "redirecting")
    /\ UNCHANGED <<rowLock, expired, cookie, hub, from, state, session, history>>

\* The response reaches the browser: the cookie names the new transaction and
\* the browser follows the redirection to Identity Hub.
Redirect(r) ==
    /\ pc[r] = "redirecting"
    /\ cookie' = [cookie EXCEPT ![from[r]] = carried[r]]
    /\ atHub' = atHub \cup {carried[r]}
    /\ GoTo(r, "sent")
    /\ UNCHANGED <<table, owner, redeemed, from, carried, state, session, history>>

-----------------------------------------------------------------------------
(* GET auth/callback. *)

\* Mutant of Callback: the transaction is looked up by the state parameter
\* instead of the browser's cookie.
CallbackByState(r, b, s) ==
    /\ pc[r] \in Ended
    /\ from' = [from EXCEPT ![r] = b]
    /\ carried' = [carried EXCEPT ![r] = s]
    /\ state' = [state EXCEPT ![r] = s]
    /\ GoTo(r, IF s = NoTxn THEN "refused" ELSE "consuming")
    /\ strayed' = IF s = NoTxn \/ owner[s] # b THEN strayed \cup {b} ELSE strayed
    /\ UNCHANGED <<table, browsers, hub, session, taken>>

\* Browser b sends a callback with state parameter s (NoTxn: none).
Callback(r, b, s) ==
    /\ pc[r] \in Ended
    /\ from' = [from EXCEPT ![r] = b]
    /\ carried' = [carried EXCEPT ![r] = cookie[b]]
    /\ state' = [state EXCEPT ![r] = s]
    /\ GoTo(r, IF cookie[b] = NoTxn THEN "refused"
               ELSE IF s = NoTxn THEN "discarding" ELSE "consuming")
    /\ strayed' = IF s = NoTxn \/ owner[s] # b THEN strayed \cup {b} ELSE strayed
    /\ UNCHANGED <<table, browsers, hub, session, taken>>

Discard(r) ==
    /\ pc[r] = "discarding"
    /\ rowLock[carried[r]] = NoRequest
    /\ row' = [row EXCEPT ![carried[r]] = "gone"]
    /\ GoTo(r, "refused")
    /\ UNCHANGED <<rowLock, expired, browsers, hub, from, carried, state, session, history>>

\* consume: SELECT ... FOR UPDATE; the row is judged and then deleted whatever
\* the judgement.
LockFindsNothing(r) ==
    /\ pc[r] = "consuming"
    /\ rowLock[carried[r]] = NoRequest
    /\ row[carried[r]] # "live"
    /\ GoTo(r, "refused")
    /\ UNCHANGED <<table, browsers, hub, from, carried, state, session, history>>

\* Mutant of LockTransaction: the SELECT takes no lock.
LockForgotten(r) ==
    /\ pc[r] = "consuming"
    /\ rowLock[carried[r]] = NoRequest
    /\ row[carried[r]] = "live"
    /\ GoTo(r, IF carried[r] \notin expired /\ state[r] = carried[r]
               THEN "matched" ELSE "mismatched")
    /\ UNCHANGED <<table, browsers, hub, from, carried, state, session, history>>

LockTransaction(r) ==
    /\ pc[r] = "consuming"
    /\ rowLock[carried[r]] = NoRequest
    /\ row[carried[r]] = "live"
    /\ rowLock' = [rowLock EXCEPT ![carried[r]] = r]
    /\ GoTo(r, IF carried[r] \notin expired /\ state[r] = carried[r]
               THEN "matched" ELSE "mismatched")
    /\ UNCHANGED <<row, expired, browsers, hub, from, carried, state, session, history>>

\* The DELETE and the COMMIT.
DeleteConsumed(r) ==
    /\ pc[r] \in Consuming
    /\ row' = [row EXCEPT ![carried[r]] = "gone"]
    /\ rowLock' = [rowLock EXCEPT ![carried[r]] = NoRequest]
    /\ taken' = IF pc[r] = "matched"
                THEN [taken EXCEPT ![carried[r]] = IF @ = 2 THEN 2 ELSE @ + 1]
                ELSE taken
    /\ GoTo(r, IF pc[r] = "matched" THEN "consumed" ELSE "refused")
    /\ UNCHANGED <<expired, browsers, hub, from, carried, state, session, strayed>>

\* A statement of login, discard or consume fails; the callback's handler does
\* not catch it, so the browser keeps its cookie.
StatementFails(r) ==
    /\ pc[r] \in Consuming \cup {"creating", "discarding", "consuming"}
    /\ rowLock' = [t \in Txn |-> IF rowLock[t] = r THEN NoRequest ELSE rowLock[t]]
    /\ GoTo(r, "failed")
    /\ UNCHANGED <<row, expired, browsers, hub, from, carried, state, session, history>>

\* The callback brings an error or no code, or completeAuthorizationCodeFlow
\* fails at any of its steps: redirectToError.
GiveUp(r) ==
    /\ pc[r] \in {"consumed", "exchanged"}
    /\ GoTo(r, "erred")
    /\ UNCHANGED <<table, browsers, hub, from, carried, state, session, history>>

\* Identity Hub (external) exchanges a code once, for the verifier of the
\* challenge the code was issued for.
ExchangeCode(r) ==
    /\ pc[r] = "consumed"
    /\ state[r] \in atHub \ redeemed
    /\ state[r] = carried[r]
    /\ redeemed' = redeemed \cup {state[r]}
    /\ GoTo(r, "exchanged")
    /\ UNCHANGED <<table, browsers, atHub, from, carried, state, session, history>>

\* Mutant of CreateSession: the arguments are swapped.
CreateSessionOfTransaction(r) ==
    /\ pc[r] = "exchanged"
    /\ session' = [session EXCEPT ![carried[r]] = carried[r]]
    /\ GoTo(r, "loggedIn")
    /\ UNCHANGED <<table, browsers, hub, from, carried, state, history>>

\* verifyAccessToken, syncUserFromIdentity, createSession.
CreateSession(r) ==
    /\ pc[r] = "exchanged"
    /\ session' = [session EXCEPT ![carried[r]] = from[r]]
    /\ GoTo(r, "loggedIn")
    /\ UNCHANGED <<table, browsers, hub, from, carried, state, history>>

\* The response reaches the browser and clears the transaction cookie, also
\* when it names another transaction by now.
Respond(r) ==
    /\ pc[r] \in {"loggedIn", "erred", "refused"}
    /\ cookie' = [cookie EXCEPT ![from[r]] = NoTxn]
    /\ GoTo(r, "sent")
    /\ UNCHANGED <<table, owner, hub, from, carried, state, session, history>>

\* The cookie's maxAge is over, which is the transaction's time to live ...
CookieExpires(b) ==
    /\ cookie[b] \in expired
    /\ cookie' = [cookie EXCEPT ![b] = NoTxn]
    /\ UNCHANGED <<table, owner, hub, handlers, session, history>>

\* ... or POST auth/logout clears it.
Logout(b) ==
    /\ cookie[b] # NoTxn
    /\ cookie' = [cookie EXCEPT ![b] = NoTxn]
    /\ strayed' = strayed \cup {b}
    /\ UNCHANGED <<table, owner, hub, handlers, session, taken>>

-----------------------------------------------------------------------------
(* Time and crashes. *)

Expire(t) ==
    /\ row[t] # "none"
    /\ t \notin expired
    /\ expired' = expired \cup {t}
    /\ UNCHANGED <<row, rowLock, browsers, hub, handlers, session, history>>

Crash ==
    /\ \E r \in Request : pc[r] \notin Ended
    /\ pc' = [r \in Request |-> IF pc[r] \in Ended THEN pc[r] ELSE "failed"]
    /\ rowLock' = [t \in Txn |-> NoRequest]
    /\ UNCHANGED <<row, expired, browsers, hub, from, carried, state, session, history>>

\* A callback's state comes from a redirection of Identity Hub, or is missing.
Arrive(r) ==
    \E b \in Browser : Login(r, b) \/ \E s \in atHub \cup {NoTxn} : Callback(r, b, s)

Step(r) ==
    \/ \E t \in Txn : Create(r, t)
    \/ Redirect(r) \/ Discard(r) \/ LockFindsNothing(r) \/ LockTransaction(r)
    \/ DeleteConsumed(r) \/ StatementFails(r) \/ GiveUp(r) \/ ExchangeCode(r)
    \/ CreateSession(r) \/ Respond(r)

Next ==
    \/ \E r \in Request : Arrive(r) \/ Step(r)
    \/ \E b \in Browser : CookieExpires(b) \/ Logout(b)
    \/ \E t \in Txn : Expire(t)
    \/ Crash

Spec == Init /\ [][Next]_vars

-----------------------------------------------------------------------------
(* Properties. *)

\* Every variable has its type.
TypeOK ==
    /\ row \in [Txn -> {"none", "live", "gone"}]
    /\ rowLock \in [Txn -> Request \cup {NoRequest}]
    /\ expired \subseteq Txn
    /\ cookie \in [Browser -> Txn \cup {NoTxn}]
    /\ session \in [Txn -> Browser \cup {NoBrowser}]
    /\ owner \in [Txn -> Browser \cup {NoBrowser}]
    /\ atHub \subseteq Txn
    /\ redeemed \subseteq Txn
    /\ pc \in [Request -> PC]
    /\ from \in [Request -> Browser]
    /\ carried \in [Request -> Txn \cup {NoTxn}]
    /\ state \in [Request -> Txn \cup {NoTxn}]
    /\ taken \in [Txn -> 0..2]
    /\ strayed \subseteq Browser

\* A login ends in the browser that started it: no callback, own or foreign,
\* creates a session for a browser that did not ask for the transaction.
SessionInOwnBrowser ==
    \A t \in Txn : session[t] # NoBrowser => session[t] = owner[t] /\ taken[t] = 1

\* A browser that only starts one login and sends its callback is answered
\* invalid_state only when the transaction has expired or an earlier copy of
\* the callback has obtained the verifier; what other browsers do, the purge
\* included, never causes it.
InvalidStateExplained ==
    \A r \in Request :
        /\ pc[r] = "refused"
        /\ from[r] \notin strayed
        => state[r] \in expired \/ taken[state[r]] = 1

\* The table keeps the promise of LoginTicket.
Ticket(t) ==
    CASE row[t] = "none" -> "none"
      [] row[t] = "gone" -> IF taken[t] > 0 THEN "used" ELSE "void"
      [] row[t] = "live" ->
            IF \E r \in Request : rowLock[t] = r /\ pc[r] = "matched"
            THEN "accepted" ELSE "issued"

LT == INSTANCE LoginTicket WITH holder <- owner, ticket <- [t \in Txn |-> Ticket(t)]
Tickets == LT!Spec

=============================================================================
