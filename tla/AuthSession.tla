----------------------------- MODULE AuthSession -----------------------------
(***************************************************************************)
(* The server-side sessions of Gaceta: the table auth_sessions, the        *)
(* handlers that read and write it (OAuthGuard, logout, back-channel       *)
(* logout and the tail of the login callback) and Identity Hub's side of   *)
(* the token protocol, as far as the handlers can tell.                    *)
(*                                                                         *)
(* Handlers interleave at every await.  A SQL statement is one step; the   *)
(* refresh transaction holds the row lock of its SELECT ... FOR UPDATE     *)
(* across the HTTP call to Identity Hub, and every statement that writes   *)
(* the row waits for that lock, while plain reads do not.                  *)
(*                                                                         *)
(* The tokens of a session come in numbered pairs (access and refresh      *)
(* token): pair 1 is issued at login, pair n + 1 when pair n is refreshed. *)
(***************************************************************************)
EXTENDS Naturals, FiniteSets

CONSTANTS
    Request,   \* handler slots of the process: one request each at a time
    Session,   \* ids of auth_sessions rows, each used by one login
    Sid,       \* Identity Hub sessions (claim sid)
    NoRequest, \* value of a row lock nobody holds
    MaxPair    \* bound: pairs Identity Hub issues for one session

ASSUME NoRequestAssumption == NoRequest \notin Request
ASSUME MaxPairAssumption == MaxPair \in Nat \ {0}

Pair == 1..MaxPair

\* What there is to find in an access token: nothing wrong, a bad signature or
\* header, a bad claim, or another user or Hub session.
Quality == {"good", "forged", "bad", "foreign"}

VARIABLES
    \* auth_sessions
    row,            \* row[s]: "none", "live" or "gone"
    pair,           \* pair[s]: the pair stored in accessToken and refreshToken
    sidOf,          \* sidOf[s]: identitySid, fixed when the tokens are obtained
    rowLock,        \* rowLock[s]: the request whose transaction holds the row lock
    \* time
    accessExpired,  \* access tokens of pairs up to accessExpired[s] are past exp
    refreshExpired, \* pairs up to refreshExpired[s] are past refreshTokenExpiresAt
    \* Identity Hub
    issued,         \* issued[s]: newest pair issued; the only one it will refresh
    quality,        \* quality[s][p]: what there is to find in access token p
    revoked,        \* Hub sessions that have been closed
    onWire,         \* refresh calls whose caller gave up but that may still arrive
    lost,           \* lost[s]: a pair was issued whose answer nobody stored
    \* requests
    pc,             \* pc[r]: where handler r is
    on,             \* on[r]: the session handler r works for
    seen,           \* seen[r]: the pair handler r last read from that row
    doomed          \* doomed[r]: rows the pending or last DELETE of r names

table == <<row, pair, sidOf, rowLock>>
time == <<accessExpired, refreshExpired>>
hub == <<issued, quality, revoked, onWire, lost>>
handlers == <<pc, on, seen, doomed>>
vars == <<table, time, hub, handlers>>

-----------------------------------------------------------------------------
(* Handlers. *)

\* A handler that has sent its response; its slot may take another request.
Ended == {"authenticated", "rejected", "failed", "loggedIn", "loggedOut", "swept"}

\* The refresh transaction is open and holds the row lock.
InRefresh == {"calling", "answered", "refused"}

\* A DELETE by id or by identitySid is about to be executed.
Deleting == {"reaping", "dropping", "leaving", "sweeping", "replacing"}

Handling ==
    InRefresh \cup Deleting
        \cup {"verifying", "locking", "rereading", "reverifying"}
        \cup {"purging", "inserting", "closing"}

Available(r) == pc[r] \in Ended \cup {"idle"}

\* What each kind of DELETE was for, and so how its handler ends.
AfterDelete(step) ==
    CASE step = "leaving"   -> "loggedOut"
      [] step = "sweeping"  -> "swept"
      [] step = "replacing" -> "loggedIn"
      [] OTHER              -> "rejected"

GoTo(r, step) == pc' = [pc EXCEPT ![r] = step]

AccessExpired(s, p) == p <= accessExpired[s]
RefreshExpired(s, p) == p <= refreshExpired[s]

-----------------------------------------------------------------------------
Init ==
    /\ row = [s \in Session |-> "none"]
    /\ pair = [s \in Session |-> 0]
    /\ sidOf \in [Session -> Sid]
    /\ rowLock = [s \in Session |-> NoRequest]
    /\ accessExpired = [s \in Session |-> 0]
    /\ refreshExpired = [s \in Session |-> 0]
    /\ issued = [s \in Session |-> 0]
    /\ quality = [s \in Session |-> [p \in Pair |-> "good"]]
    /\ revoked = {}
    /\ onWire = {}
    /\ lost = [s \in Session |-> FALSE]
    /\ pc = [r \in Request |-> "idle"]
    /\ on \in [Request -> Session]
    /\ seen = [r \in Request |-> 0]
    /\ doomed = [r \in Request |-> {}]

-----------------------------------------------------------------------------
(* OAuthGuard: every request to a protected route. *)

\* The handler's next step, with session s to be deleted by it or none.
Decide(r, s, step) ==
    /\ GoTo(r, step)
    /\ doomed' = [doomed EXCEPT ![r] = IF step \in Deleting THEN {s} ELSE {}]

\* findActiveSession: a plain read.  A row whose refresh token has expired is
\* deleted by a statement of its own, decided on the copy that was read.
ReadStep(s, found) ==
    CASE row[s] = "gone" -> "rejected"
      [] row[s] # "gone" /\ RefreshExpired(s, pair[s]) -> "reaping"
      [] OTHER -> found

FindActiveSession(r, s, found) ==
    /\ seen' = [seen EXCEPT ![r] = pair[s]]
    /\ Decide(r, s, ReadStep(s, found))
    /\ UNCHANGED <<table, time, hub>>

Authenticate(r, s) ==
    /\ Available(r)
    /\ row[s] # "none"
    /\ on' = [on EXCEPT ![r] = s]
    /\ FindActiveSession(r, s, "verifying")

\* verifyAccessToken together with the comparison of externalKey and sid with
\* the session.  Signature and header are looked at before exp, the claims after it.
Verdict(s, p) ==
    CASE quality[s][p] = "forged"                            -> "invalid"
      [] quality[s][p] # "forged" /\ AccessExpired(s, p)     -> "expired"
      [] quality[s][p] = "bad" /\ ~AccessExpired(s, p)       -> "invalid"
      [] quality[s][p] = "foreign" /\ ~AccessExpired(s, p)   -> "mismatch"
      [] OTHER                                               -> "valid"

\* The signing key may also be out of reach, which says nothing of the token.
Verdicts(s, p) == {Verdict(s, p), "unverifiable"}

\* Mutant of StoredTokenStep: a token that cannot be verified now is not
\* distinguished from one that is not genuine.
StoredTokenDropped(verdict) ==
    CASE verdict \in {"invalid", "mismatch", "unverifiable"} -> "dropping"
      [] verdict = "expired"                                 -> "locking"
      [] OTHER                                               -> "authenticated"

\* What the guard does next, for the token found in the row ...
StoredTokenStep(verdict) ==
    CASE verdict \in {"invalid", "mismatch"} -> "dropping"
      [] verdict = "expired"                 -> "locking"
      [] verdict = "valid"                   -> "authenticated"
      [] OTHER                               -> "failed"

\* Mutant of RefreshedTokenStep: the guard forgets to compare the refreshed token
\* with the session.
RefreshedTokenTrusted(verdict) ==
    IF verdict \in {"mismatch", "valid"} THEN "authenticated" ELSE "failed"

\* ... and for the token a refresh has just produced.
RefreshedTokenStep(verdict) ==
    CASE verdict = "mismatch" -> "dropping"
      [] verdict = "valid"    -> "authenticated"
      [] OTHER                -> "failed"

Judge(r, step) ==
    /\ Decide(r, on[r], step)
    /\ UNCHANGED <<table, time, hub, on, seen>>

VerifyStoredToken(r) ==
    /\ pc[r] = "verifying"
    /\ \E v \in Verdicts(on[r], seen[r]) : Judge(r, StoredTokenStep(v))

VerifyRefreshedToken(r) ==
    /\ pc[r] = "reverifying"
    /\ \E v \in Verdicts(on[r], seen[r]) : Judge(r, RefreshedTokenStep(v))

-----------------------------------------------------------------------------
(* refreshSession: one transaction around the call to Identity Hub. *)

\* SELECT ... FOR UPDATE found no row, or a row past its refresh token, which
\* the transaction deletes: either way the user has to log in again.
LockFindsNoSession(r) ==
    /\ pc[r] = "locking"
    /\ rowLock[on[r]] = NoRequest
    /\ row[on[r]] = "gone" \/ RefreshExpired(on[r], pair[on[r]])
    /\ row' = [row EXCEPT ![on[r]] = "gone"]
    /\ GoTo(r, "rejected")
    /\ UNCHANGED <<pair, sidOf, rowLock, time, hub, on, seen, doomed>>

\* Another request has already replaced the expired token: nothing to do.
LockFindsOtherToken(r) ==
    /\ pc[r] = "locking"
    /\ rowLock[on[r]] = NoRequest
    /\ row[on[r]] = "live" /\ ~RefreshExpired(on[r], pair[on[r]])
    /\ pair[on[r]] # seen[r]
    /\ GoTo(r, "rereading")
    /\ UNCHANGED <<table, time, hub, on, seen, doomed>>

\* Mutant of LockFindsExpiredToken: the SELECT takes no lock.
LockForgotten(r) ==
    /\ pc[r] = "locking"
    /\ rowLock[on[r]] = NoRequest
    /\ row[on[r]] = "live" /\ ~RefreshExpired(on[r], pair[on[r]])
    /\ pair[on[r]] = seen[r]
    /\ GoTo(r, "calling")
    /\ UNCHANGED <<table, time, hub, on, seen, doomed>>

\* The expired token is still there: keep the lock and send the refresh token.
LockFindsExpiredToken(r) ==
    /\ pc[r] = "locking"
    /\ rowLock[on[r]] = NoRequest
    /\ row[on[r]] = "live" /\ ~RefreshExpired(on[r], pair[on[r]])
    /\ pair[on[r]] = seen[r]
    /\ rowLock' = [rowLock EXCEPT ![on[r]] = r]
    /\ GoTo(r, "calling")
    /\ UNCHANGED <<row, pair, sidOf, time, hub, on, seen, doomed>>

\* Mutant of SaveTokens: the pair is counted once too often.
SaveTokensOffByOne(r) ==
    /\ pc[r] = "answered"
    /\ row' = [row EXCEPT ![on[r]] = "live"]
    /\ pair' = [pair EXCEPT ![on[r]] = issued[on[r]] + 1]
    /\ rowLock' = [rowLock EXCEPT ![on[r]] = NoRequest]
    /\ GoTo(r, "rereading")
    /\ UNCHANGED <<sidOf, time, hub, on, seen, doomed>>

\* repository.save and COMMIT.  save inserts the row when it is not there.
SaveTokens(r) ==
    /\ pc[r] = "answered"
    /\ row' = [row EXCEPT ![on[r]] = "live"]
    /\ pair' = [pair EXCEPT ![on[r]] = seen[r] + 1]
    /\ rowLock' = [rowLock EXCEPT ![on[r]] = NoRequest]
    /\ GoTo(r, "rereading")
    /\ UNCHANGED <<sidOf, time, hub, on, seen, doomed>>

\* invalid_grant: the session is deleted in the transaction, which commits.
DeleteRefused(r) ==
    /\ pc[r] = "refused"
    /\ row' = [row EXCEPT ![on[r]] = "gone"]
    /\ rowLock' = [rowLock EXCEPT ![on[r]] = NoRequest]
    /\ GoTo(r, "rejected")
    /\ UNCHANGED <<pair, sidOf, time, hub, on, seen, doomed>>

\* Mutant of RefreshFails: the HTTP call has no timeout.
RefreshFailsAfterAnswer(r) ==
    /\ pc[r] \in {"answered", "refused"}
    /\ rowLock' = [rowLock EXCEPT ![on[r]] = NoRequest]
    /\ lost' = [lost EXCEPT ![on[r]] = @ \/ pc[r] = "answered"]
    /\ GoTo(r, "failed")
    /\ UNCHANGED <<row, pair, sidOf, time, issued, quality, revoked, onWire, on, seen, doomed>>

\* The call timed out or its answer was lost (IdentityHubUnavailableError),
\* Identity Hub answered something else than tokens or invalid_grant, or the
\* UPDATE or COMMIT failed: the transaction is rolled back.  A call that has
\* not arrived yet may still arrive.
RefreshFails(r) ==
    /\ pc[r] \in InRefresh
    /\ rowLock' = [rowLock EXCEPT ![on[r]] = NoRequest]
    /\ lost' = [lost EXCEPT ![on[r]] = @ \/ pc[r] = "answered"]
    /\ \E W \in SUBSET {<<on[r], seen[r]>>} :
          /\ pc[r] # "calling" => W = {}
          /\ onWire' = onWire \cup W
    /\ GoTo(r, "failed")
    /\ UNCHANGED <<row, pair, sidOf, time, issued, quality, revoked, on, seen, doomed>>

RereadSession(r) ==
    /\ pc[r] = "rereading"
    /\ FindActiveSession(r, on[r], "reverifying")
    /\ UNCHANGED on

-----------------------------------------------------------------------------
(* deleteSession and deleteSessionsByIdentitySid: a DELETE outside of any    *)
(* other transaction; it waits for the locks on the rows it names.           *)

DeleteRows(r) ==
    /\ pc[r] \in Deleting
    /\ \A s \in doomed[r] : rowLock[s] = NoRequest
    /\ row' = [s \in Session |-> IF s \in doomed[r] THEN "gone" ELSE row[s]]
    /\ GoTo(r, AfterDelete(pc[r]))
    /\ UNCHANGED <<pair, sidOf, rowLock, time, hub, on, seen, doomed>>

\* POST auth/logout: read the row, then ask Identity Hub to close its session.
Logout(r, s) ==
    /\ Available(r)
    /\ row[s] # "none"
    /\ on' = [on EXCEPT ![r] = s]
    /\ seen' = [seen EXCEPT ![r] = pair[s]]
    /\ doomed' = [doomed EXCEPT ![r] = {s}]
    /\ GoTo(r, IF row[s] = "live" THEN "closing" ELSE "loggedOut")
    /\ UNCHANGED <<table, time, hub>>

\* Whether Identity Hub closes its session or the call fails, the local row is
\* deleted next.
LogoutIdentitySession(r) ==
    /\ pc[r] = "closing"
    /\ \/ revoked' = revoked \cup {sidOf[on[r]]}
       \/ UNCHANGED revoked
    /\ GoTo(r, "leaving")
    /\ UNCHANGED <<table, time, issued, quality, onWire, lost, on, seen, doomed>>

\* POST auth/backchannel-logout with a genuine logout token: Identity Hub has
\* closed the session, and the DELETE sees the rows that are there by now.
BackchannelLogout(r, h) ==
    /\ Available(r)
    /\ h \in revoked
    /\ doomed' = [doomed EXCEPT ![r] = {s \in Session : row[s] = "live" /\ sidOf[s] = h}]
    /\ GoTo(r, "sweeping")
    /\ UNCHANGED <<table, time, hub, on, seen>>

-----------------------------------------------------------------------------
(* The tail of GET auth/callback: completeAuthorizationCodeFlow, then the     *)
(* session of the browser's previous login is deleted.                        *)

\* The code has been exchanged and the access token verified.  previous is the
\* session id in the request's cookie, if it has one.
Login(r, s, previous) ==
    /\ Available(r)
    /\ issued[s] = 0
    /\ sidOf[s] \notin revoked
    /\ \A p \in previous : row[p] # "none"
    /\ issued' = [issued EXCEPT ![s] = 1]
    /\ on' = [on EXCEPT ![r] = s]
    /\ doomed' = [doomed EXCEPT ![r] = previous]
    /\ GoTo(r, "purging")
    /\ UNCHANGED <<table, time, quality, revoked, onWire, lost, seen>>

\* createSession first deletes the rows whose refresh token has expired.
PurgeExpired(r) ==
    LET stale == {s \in Session : row[s] = "live" /\ RefreshExpired(s, pair[s])} IN
    /\ pc[r] = "purging"
    /\ \A s \in stale : rowLock[s] = NoRequest
    /\ row' = [s \in Session |-> IF s \in stale THEN "gone" ELSE row[s]]
    /\ GoTo(r, "inserting")
    /\ UNCHANGED <<pair, sidOf, rowLock, time, hub, on, seen, doomed>>

InsertSession(r) ==
    /\ pc[r] = "inserting"
    /\ row' = [row EXCEPT ![on[r]] = "live"]
    /\ pair' = [pair EXCEPT ![on[r]] = 1]
    /\ GoTo(r, IF doomed[r] = {} THEN "loggedIn" ELSE "replacing")
    /\ UNCHANGED <<sidOf, rowLock, time, hub, on, seen, doomed>>

\* A statement outside of the refresh transaction fails (no connection left,
\* deadlock victim, error): the handler gives up, and nothing it did is undone.
StatementFails(r) ==
    /\ pc[r] \in Deleting \cup {"locking", "rereading", "purging", "inserting"}
    /\ GoTo(r, "failed")
    /\ UNCHANGED <<table, time, hub, on, seen, doomed>>

-----------------------------------------------------------------------------
(* Identity Hub (external), time and crashes. *)

HubAccepts(s, p) ==
    /\ p = issued[s]
    /\ sidOf[s] \notin revoked
    /\ ~RefreshExpired(s, p)

\* Rotation: the presented pair is spent and the next one issued, whatever the
\* new access token is worth.
IssueNext(s) ==
    /\ issued[s] < MaxPair
    /\ issued' = [issued EXCEPT ![s] = @ + 1]
    /\ \E q \in Quality : quality' = [quality EXCEPT ![s][issued[s] + 1] = q]

HubRotates(r) ==
    /\ pc[r] = "calling"
    /\ HubAccepts(on[r], seen[r])
    /\ IssueNext(on[r])
    /\ GoTo(r, "answered")
    /\ UNCHANGED <<table, time, revoked, onWire, lost, on, seen, doomed>>

HubRefuses(r) ==
    /\ pc[r] = "calling"
    /\ ~HubAccepts(on[r], seen[r])
    /\ GoTo(r, "refused")
    /\ UNCHANGED <<table, time, hub, on, seen, doomed>>

\* A call its caller has given up on arrives after all.
HubServesLateCall(s, p) ==
    /\ <<s, p>> \in onWire
    /\ onWire' = onWire \ {<<s, p>>}
    /\ \/ /\ HubAccepts(s, p)
          /\ IssueNext(s)
          /\ lost' = [lost EXCEPT ![s] = TRUE]
       \/ /\ ~HubAccepts(s, p)
          /\ UNCHANGED <<issued, quality, lost>>
    /\ UNCHANGED <<table, time, revoked, handlers>>

\* The user or an administrator closes the Hub session elsewhere.
HubRevokes(h) ==
    /\ h \notin revoked
    /\ revoked' = revoked \cup {h}
    /\ UNCHANGED <<table, time, issued, quality, onWire, lost, handlers>>

AccessTokenExpires(s) ==
    /\ accessExpired[s] < issued[s]
    /\ accessExpired' = [accessExpired EXCEPT ![s] = @ + 1]
    /\ UNCHANGED <<table, refreshExpired, hub, handlers>>

RefreshTokenExpires(s) ==
    /\ refreshExpired[s] < issued[s]
    /\ refreshExpired' = [refreshExpired EXCEPT ![s] = @ + 1]
    /\ UNCHANGED <<table, accessExpired, hub, handlers>>

\* The process dies: open transactions roll back and release their locks.
Crash ==
    /\ \E r \in Request : pc[r] \in Handling
    /\ pc' = [r \in Request |-> IF pc[r] \in Handling THEN "idle" ELSE pc[r]]
    /\ rowLock' = [s \in Session |-> NoRequest]
    /\ lost' = [s \in Session |->
                   lost[s] \/ \E r \in Request : pc[r] = "answered" /\ on[r] = s]
    /\ \E W \in SUBSET {<<on[r], seen[r]>> : r \in {q \in Request : pc[q] = "calling"}} :
          onWire' = onWire \cup W
    /\ UNCHANGED <<row, pair, sidOf, time, issued, quality, revoked, on, seen, doomed>>

-----------------------------------------------------------------------------
\* A new request reaches the process.
Arrive(r) ==
    \/ \E s \in Session : Authenticate(r, s) \/ Logout(r, s)
    \/ \E h \in Sid : BackchannelLogout(r, h)
    \/ \E s \in Session : Login(r, s, {})
    \/ \E s, p \in Session : Login(r, s, {p})

\* The next step of the handler that serves request r, while the database works ...
Proceed(r) ==
    \/ VerifyStoredToken(r) \/ VerifyRefreshedToken(r)
    \/ LockFindsNoSession(r) \/ LockFindsOtherToken(r) \/ LockFindsExpiredToken(r)
    \/ SaveTokens(r) \/ DeleteRefused(r) \/ RefreshFails(r) \/ RereadSession(r)
    \/ DeleteRows(r) \/ LogoutIdentitySession(r)
    \/ PurgeExpired(r) \/ InsertSession(r)

\* ... or not.
Step(r) == Proceed(r) \/ StatementFails(r)

\* What happens outside of the handlers.
Environment ==
    \/ \E r \in Request : HubRotates(r) \/ HubRefuses(r)
    \/ \E s \in Session, p \in Pair : HubServesLateCall(s, p)
    \/ \E h \in Sid : HubRevokes(h)
    \/ \E s \in Session : AccessTokenExpires(s) \/ RefreshTokenExpires(s)
    \/ Crash

Next ==
    \/ \E r \in Request : Arrive(r) \/ Step(r)
    \/ Environment

Spec == Init /\ [][Next]_vars

-----------------------------------------------------------------------------
(* Properties. *)

PC == Handling \cup Ended \cup {"idle"}

\* Every variable has its type.
TypeOK ==
    /\ row \in [Session -> {"none", "live", "gone"}]
    /\ pair \in [Session -> 0..MaxPair]
    /\ sidOf \in [Session -> Sid]
    /\ rowLock \in [Session -> Request \cup {NoRequest}]
    /\ accessExpired \in [Session -> 0..MaxPair]
    /\ refreshExpired \in [Session -> 0..MaxPair]
    /\ issued \in [Session -> 0..MaxPair]
    /\ quality \in [Session -> [Pair -> Quality]]
    /\ revoked \subseteq Sid
    /\ onWire \subseteq Session \X (0..MaxPair)
    /\ lost \in [Session -> BOOLEAN]
    /\ pc \in [Request -> PC]
    /\ on \in [Request -> Session]
    /\ seen \in [Request -> 0..MaxPair]
    /\ doomed \in [Request -> SUBSET Session]

\* Concurrent requests of a session never have its refresh token in use at the
\* same time (refreshSession's pessimistic_write lock).
RefreshSerialized ==
    \A r, q \in Request :
        pc[r] \in InRefresh /\ pc[q] \in InRefresh /\ on[r] = on[q] => r = q

\* A live row holds the newest pair of tokens, the only one Identity Hub will
\* refresh, unless its successor is in the hands of the refresh that holds the
\* row lock or an answer of Identity Hub was lost.
StoredPairIsNewest ==
    \A s \in Session : row[s] = "live" =>
        \/ pair[s] = issued[s]
        \/ lost[s]
        \/ \E r \in Request : rowLock[s] = r /\ pc[r] = "answered"

\* Identity Hub refuses a refresh, which deletes the session, only when its own
\* session is closed, the refresh token is past its time or an answer of
\* Identity Hub was lost; two requests of one session never cause it.
RefusalExplained ==
    \A r \in Request : pc[r] = "refused" =>
        \/ sidOf[on[r]] \in revoked
        \/ RefreshExpired(on[r], seen[r])
        \/ lost[on[r]]

\* Once a logout or back-channel logout has answered, the sessions it was to
\* delete are gone, and no refresh that was under way brings one back.
DeletedForGood ==
    \A r \in Request : pc[r] \in {"loggedOut", "swept"} =>
        \A s \in doomed[r] : row[s] = "gone"

\* A protected route runs only for a genuine token of the session's own user
\* and Identity Hub session, also when the token comes from a refresh.
AuthenticatedByGenuineToken ==
    \A r \in Request : pc[r] = "authenticated" =>
        seen[r] \in Pair /\ quality[on[r]][seen[r]] = "good"

\* Nobody is logged out for nothing: a live row is deleted only because its
\* refresh token has expired, Identity Hub has closed its session or an answer
\* was lost; by a logout or a login that replaces it; for a token that is not
\* genuine; or by findActiveSession, which deletes by id what it read as
\* expired although a refresh has replaced the tokens meanwhile.
SessionEndsForAReason ==
    [][\A s \in Session : row[s] = "live" /\ row'[s] = "gone" =>
        \/ RefreshExpired(s, pair[s]) \/ sidOf[s] \in revoked \/ lost[s]
        \/ \E r \in Request : s \in doomed[r] /\ pc'[r] # pc[r] /\
              \/ pc[r] \in {"leaving", "replacing"}
              \/ pc[r] = "dropping" /\ quality[s][seen[r]] # "good"
              \/ pc[r] = "reaping" /\ RefreshExpired(s, seen[r]) /\ seen[r] < pair[s]]_vars

-----------------------------------------------------------------------------
(* Refinement and what the documentation says. *)

\* The table keeps the promise of SessionLifecycle: no second insertion, no
\* resurrection, and a pair replaced only by its successor once it has expired.
SL == INSTANCE SessionLifecycle
Lifecycle == SL!Spec

\* "Los errores transitorios de Identity Hub [...] conservan la sesion local y
\* permiten reintentar" (authentication.md): a live refresh token of an open
\* Identity Hub session is never refused, also after a transient error.
TransientErrorsKeepSession ==
    \A r \in Request : pc[r] = "refused" =>
        sidOf[on[r]] \in revoked \/ RefreshExpired(on[r], seen[r])
=============================================================================
