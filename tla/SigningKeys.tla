------------------------------ MODULE SigningKeys ------------------------------
(***************************************************************************)
(* Identity Hub's signing keys as TokenVerifierService sees them: one      *)
(* JwksClient (jwks-rsa, external) for all requests, with a cache of keys, *)
(* lookups of one key shared by all who wait for it, and a limit of        *)
(* lookups per minute; and what the guard, the login and the back-channel  *)
(* logout make of a token whose key is not found.  The kid of a token is   *)
(* read before anything is verified: a JWT posted to the back-channel      *)
(* logout may name any kid, and what it looks up counts like the rest.     *)
(*                                                                         *)
(* A session is used by one request at a time here (AuthSession has the    *)
(* others), so that a request and the session it works for are one value.  *)
(* A tick is a minute.                                                     *)
(***************************************************************************)
EXTENDS Naturals, FiniteSets

CONSTANTS
    Request, \* requests, each with the session it works for
    Key,     \* kids that headers name: Identity Hub's keys are some of them
    MaxAge,  \* minutes a key stays in the cache: cacheMaxAge
    Limit,   \* lookups per minute: jwksRequestsPerMinute
    Horizon  \* bound: minutes counted since a key was withdrawn

\* There may be more kids than a minute has lookups.
ASSUME BoundsAssumption ==
    /\ MaxAge \in Nat \ {0} /\ Limit \in Nat /\ Horizon \in Nat
    /\ IsFiniteSet(Key) /\ Horizon > MaxAge + 1

VARIABLES
    published, \* the keys in jwks.json
    signing,   \* the key Identity Hub signs with
    withdrawn, \* withdrawn[k]: minutes since k was taken out of jwks.json
    live,      \* requests whose session is stored
    kid,       \* kid[r]: the key of r's newest access token
    expired,   \* requests whose access token is past exp
    cache,     \* cache[k]: minutes k will stay in the cache, 0 if it is not there
    left,      \* lookups left in this minute
    lookup,    \* lookup[k]: the lookup of k under way
    slow,      \* keys whose lookup began in the minute before
    trouble,   \* in this minute a lookup has ended without a key, or the cache dropped one
    pc,        \* pc[r]: where handler r is
    token      \* token[r]: what r verifies, and the key that signed it

hub == <<published, signing, withdrawn>>
client == <<cache, left, lookup, slow>>
vars == <<hub, live, kid, expired, client, trouble, pc, token>>

\* With the key: accepted, failed, swept, rejected; without it: the others.
Ended == {"accepted", "failed", "swept", "rejected", "unavailable", "not_logged_in", "refused"}
Lookup == {"none", "asking", "found", "missing"}
Purpose == {"stored", "refreshed", "login", "logout", "stray"}
Token == [purpose : Purpose, key : Key]

Init ==
    /\ signing \in Key
    /\ published = {signing}
    /\ withdrawn = [k \in Key |-> 0]
    /\ live = {}
    /\ kid = [r \in Request |-> signing]
    /\ expired = {}
    /\ cache = [k \in Key |-> 0]
    /\ left = Limit
    /\ lookup = [k \in Key |-> "none"]
    /\ slow = {}
    /\ trouble = FALSE
    /\ pc = [r \in Request |-> "idle"]
    /\ token = [r \in Request |-> [purpose |-> "stored", key |-> signing]]

-----------------------------------------------------------------------------
(* verifyIdentityHubJwt and its callers. *)

\* With the key, jwt.verify goes on to the signature and exp.  Only an expired token
\* that was stored is refreshed; a new one is an error of Identity Hub's.
WithKey(r, purpose) ==
    CASE purpose = "logout" -> "swept"
      [] purpose = "stray" -> "rejected"
      [] purpose = "stored" /\ r \in expired -> "refreshing"
      [] purpose \in {"refreshed", "login"} /\ r \in expired -> "failed"
      [] OTHER -> "accepted"

\* Mutant of WithoutKey: the guard keeps sessions going while keys are out of reach.
WithoutKeyGoOn(purpose) ==
    CASE purpose \in {"logout", "stray"} -> "refused"
      [] purpose = "stored" -> "accepted"
      [] purpose = "login" -> "not_logged_in"
      [] OTHER -> "unavailable"

\* Without it the guard answers that Identity Hub is unavailable, whether the token
\* has expired or not, a login ends with token_exchange_failed, and a logout token
\* is refused.
WithoutKey(purpose) ==
    CASE purpose \in {"logout", "stray"} -> "refused"
      [] purpose = "login" -> "not_logged_in"
      [] OTHER -> "unavailable"

\* Mutant of CallBack: the error of a lookup without a key is dropped.
CallBackIfFound(R, found) ==
    LET step(r) == WithKey(r, token'[r].purpose) IN
    IF found
    THEN /\ pc' = [r \in Request |-> IF r \in R THEN step(r) ELSE pc[r]]
         /\ live' = (live \cup {r \in R : step(r) = "accepted"}) \ {r \in R : step(r) = "swept"}
    ELSE UNCHANGED <<pc, live>>

\* The lookup is over for handlers R.  A login stores the session now.
CallBack(R, found) ==
    LET step(r) == IF found THEN WithKey(r, token'[r].purpose)
                   ELSE WithoutKey(token'[r].purpose) IN
    /\ pc' = [r \in Request |-> IF r \in R THEN step(r) ELSE pc[r]]
    /\ live' = (live \cup {r \in R : step(r) = "accepted"}) \ {r \in R : step(r) = "swept"}

\* Mutant of LookUp: whoever waits spends a lookup, also while one is under way.
LookUpAlone(r, k) ==
    /\ cache[k] = 0 /\ left > 0
    /\ left' = left - 1
    /\ lookup' = [lookup EXCEPT ![k] = IF @ = "none" THEN "asking" ELSE @]
    /\ pc' = [pc EXCEPT ![r] = "waiting"]
    /\ UNCHANGED <<live, cache, slow>>

\* The key is not cached: wait for the lookup that is under way, or start one.
LookUp(r, k) ==
    /\ cache[k] = 0
    /\ \/ lookup[k] # "none" /\ UNCHANGED <<left, lookup>>
       \/ /\ lookup[k] = "none" /\ left > 0
          /\ left' = left - 1
          /\ lookup' = [lookup EXCEPT ![k] = "asking"]
    /\ pc' = [pc EXCEPT ![r] = "waiting"]
    /\ UNCHANGED <<live, cache, slow>>

\* getSigningKey for a token of request r: from the cache, by a lookup, or
\* refused because the minute's lookups are used up.
Verify(r, purpose, k) ==
    /\ token' = [token EXCEPT ![r] = [purpose |-> purpose, key |-> k]]
    /\ \/ cache[k] > 0 /\ CallBack({r}, TRUE) /\ UNCHANGED client
       \/ LookUp(r, k)
       \/ /\ cache[k] = 0 /\ lookup[k] = "none" /\ left = 0
          /\ CallBack({r}, FALSE)
          /\ UNCHANGED client
    /\ UNCHANGED <<hub, trouble>>

\* A protected route: verify the stored token.
Guard(r) ==
    /\ pc[r] = "idle" /\ r \in live
    /\ Verify(r, "stored", kid[r])
    /\ UNCHANGED <<kid, expired>>

\* POST auth/backchannel-logout: Identity Hub's token for the session, or a JWT that
\* Identity Hub did not sign and whose header names any kid.
LogoutToken(r) ==
    /\ pc[r] = "idle"
    /\ \/ r \in live /\ Verify(r, "logout", signing)
       \/ \E k \in Key : Verify(r, "stray", k)
    /\ UNCHANGED <<kid, expired>>

\* Identity Hub has issued an access token, for a code or for a refresh token.
Issue(r) ==
    /\ \/ pc[r] = "idle" /\ r \notin live
       \/ pc[r] = "refreshing"
    /\ kid' = [kid EXCEPT ![r] = signing]
    /\ expired' = expired \ {r}
    /\ pc' = [pc EXCEPT ![r] = "issued"]
    /\ UNCHANGED <<hub, live, client, trouble, token>>

RefreshFails(r) ==
    /\ pc[r] = "refreshing"
    /\ pc' = [pc EXCEPT ![r] = "failed"]
    /\ UNCHANGED <<hub, live, kid, expired, client, trouble, token>>

VerifyIssued(r) ==
    /\ pc[r] = "issued"
    /\ Verify(r, IF r \in live THEN "refreshed" ELSE "login", kid[r])
    /\ UNCHANGED <<kid, expired>>

\* The response is sent.
Respond(r) ==
    /\ pc[r] \in Ended
    /\ pc' = [pc EXCEPT ![r] = "idle"]
    /\ UNCHANGED <<hub, live, kid, expired, client, trouble, token>>

-----------------------------------------------------------------------------
(* JwksClient (external). *)

\* Identity Hub reads its keys for the answer to a lookup ...
HubAnswers(k) ==
    /\ lookup[k] = "asking"
    /\ lookup' = [lookup EXCEPT ![k] = IF k \in published THEN "found" ELSE "missing"]
    /\ UNCHANGED <<hub, live, kid, expired, cache, left, slow, trouble, pc, token>>

\* The key that was found goes into the cache.  A full cache drops another one;
\* entries past their age count too, so when it is full is left open.
Store(k) ==
    \/ cache' = [cache EXCEPT ![k] = MaxAge] /\ trouble' = trouble
    \/ \E dropped \in {l \in Key \ {k} : cache[l] > 0} :
          cache' = [cache EXCEPT ![k] = MaxAge, ![dropped] = 0] /\ trouble' = TRUE

EndLookup(k, found) ==
    /\ CallBack({r \in Request : pc[r] = "waiting" /\ token[r].key = k}, found)
    /\ lookup' = [lookup EXCEPT ![k] = "none"]
    /\ slow' = slow \ {k}
    /\ IF found THEN Store(k) ELSE cache' = cache /\ trouble' = TRUE

\* ... which arrives; or it never does.
Deliver(k) ==
    /\ token' = token
    /\ \/ lookup[k] = "found" /\ EndLookup(k, TRUE)
       \/ lookup[k] = "missing" /\ EndLookup(k, FALSE)
       \/ lookup[k] # "none" /\ EndLookup(k, FALSE)
    /\ UNCHANGED <<hub, kid, expired, left>>

\* A minute passes.  A lookup times out after half of one.
Tick ==
    /\ slow = {}
    /\ slow' = {k \in Key : lookup[k] # "none"}
    /\ left' = Limit
    /\ trouble' = FALSE
    /\ cache' = [k \in Key |-> IF cache[k] = 0 THEN 0 ELSE cache[k] - 1]
    /\ withdrawn' = [k \in Key |-> IF k \in published \/ withdrawn[k] = Horizon
                                   THEN withdrawn[k] ELSE withdrawn[k] + 1]
    /\ UNCHANGED <<published, signing, live, kid, expired, lookup, pc, token>>

-----------------------------------------------------------------------------
(* Identity Hub (external). *)

\* A new key is published and signs from now on.
Rotate(k) ==
    /\ k \notin published /\ withdrawn[k] = 0
    /\ \A r \in Request : kid[r] # k
    /\ published' = published \cup {k}
    /\ signing' = k
    /\ UNCHANGED <<withdrawn, live, kid, expired, client, trouble, pc, token>>

\* A key that no longer signs is taken out of jwks.json, also while tokens it
\* signed have not expired.
Withdraw(k) ==
    /\ k \in published \ {signing}
    /\ published' = published \ {k}
    /\ UNCHANGED <<signing, withdrawn, live, kid, expired, client, trouble, pc, token>>

Expire(r) ==
    /\ r \notin expired /\ r \in live
    /\ expired' = expired \cup {r}
    /\ UNCHANGED <<hub, live, kid, client, trouble, pc, token>>

-----------------------------------------------------------------------------
Next ==
    \/ \E r \in Request :
          \/ Guard(r) \/ LogoutToken(r) \/ Issue(r) \/ RefreshFails(r)
          \/ VerifyIssued(r) \/ Respond(r) \/ Expire(r)
    \/ \E k \in Key : HubAnswers(k) \/ Deliver(k) \/ Rotate(k) \/ Withdraw(k)
    \/ Tick

Spec == Init /\ [][Next]_vars

-----------------------------------------------------------------------------
(* Properties. *)

\* Every variable has its type, and a handler waits only for a lookup under way.
TypeOK ==
    /\ published \subseteq Key /\ signing \in published
    /\ withdrawn \in [Key -> 0..Horizon]
    /\ live \subseteq Request /\ kid \in [Request -> Key] /\ expired \subseteq Request
    /\ cache \in [Key -> 0..MaxAge] /\ left \in 0..Limit
    /\ lookup \in [Key -> Lookup] /\ slow \subseteq Key /\ trouble \in BOOLEAN
    /\ pc \in [Request -> Ended \cup {"idle", "waiting", "refreshing", "issued"}]
    /\ token \in [Request -> Token]
    /\ \A r \in Request : pc[r] = "waiting" => lookup[token[r].key] # "none"

\* The kids that no lookup needs to begin for.
Served == {k \in Key : cache[k] > 0 \/ lookup[k] # "none"}

\* The limit of lookups counts kids and not requests.  A token goes unverified for want
\* of a key only in a minute in which a lookup ended without one, the cache dropped one,
\* or as many kids as there are lookups are cached or being looked up.  These may be kids
\* of JWTs that Identity Hub did not sign: then tokens of its own are refused until the
\* minute is over, although nothing has failed.
UnavailableExplained ==
    [][\A r \in Request :
          pc'[r] \in {"unavailable", "not_logged_in", "refused"} /\ pc[r] # pc'[r] =>
              trouble' \/ Cardinality(Served) >= Limit]_vars

\* A key that Identity Hub has withdrawn stops opening routes, and its logout tokens
\* stop closing sessions, once the cache and a lookup that was under way have run out.
WithdrawnKeyRunsOut ==
    [][\A r \in Request :
          pc'[r] \in {"accepted", "swept"} /\ pc[r] # pc'[r] =>
              withdrawn[token'[r].key] <= MaxAge + 1]_vars

=============================================================================
