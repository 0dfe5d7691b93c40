--------------------------- MODULE SigningKeys_proofs ---------------------------
(***************************************************************************)
(* Proofs about SigningKeys, for any requests, any kids, any limit and any *)
(* time in the cache.  IndInv is inductive: one lemma per conjunct.  The   *)
(* limit of lookups counts kids, and a withdrawn key runs out.             *)
(***************************************************************************)
EXTENDS SigningKeys, FiniteSetTheorems, TLAPS

-----------------------------------------------------------------------------
(* Why they hold: an inductive invariant. *)

\* Unless a lookup has failed or the cache has dropped a key, each lookup of this minute
\* was for another kid, and that kid is served since.
LookupsServe == ~trouble => Limit - left <= Cardinality(Served)

\* What is left of a withdrawn key: the rest of its time in the cache, and an answer
\* that was under way.
LeftOfWithdrawn ==
    \A k \in Key :
        /\ k \in published => withdrawn[k] = 0
        /\ cache[k] > 0 => withdrawn[k] + cache[k] <= MaxAge + 1
        /\ lookup[k] = "found" => withdrawn[k] <= 1 /\ (k \notin slow => withdrawn[k] = 0)

IndInv == TypeOK /\ LookupsServe /\ LeftOfWithdrawn

USE BoundsAssumption

\* What a lookup's end makes of a handler, with and without the key.
Opened == {"swept", "rejected", "refreshing", "failed", "accepted"}
Closed == {"unavailable", "not_logged_in", "refused"}

-----------------------------------------------------------------------------
(* The steps, without the cases of their tokens.                             *)

\* The end of a lookup moves the handlers that wait for it, and nobody else.
LEMMA CallBackMoves ==
    ASSUME NEW R \in SUBSET Request, NEW found \in BOOLEAN, CallBack(R, found),
           pc \in [Request -> Ended \cup {"idle", "waiting", "refreshing", "issued"}],
           live \subseteq Request
    PROVE  /\ \A r \in Request \ R : pc'[r] = pc[r]
           /\ \A r \in R : pc'[r] \in IF found THEN Opened ELSE Closed
           /\ pc' \in [Request -> Ended \cup {"idle", "waiting", "refreshing", "issued"}]
           /\ live' \subseteq Request
<1>1. \A r \in Request : \A p : WithKey(r, p) \in Opened
  BY DEF WithKey, Opened
<1>2. \A p : WithoutKey(p) \in Closed
  BY DEF WithoutKey, Closed
<1> DEFINE step(r) == IF found THEN WithKey(r, token'[r].purpose)
                      ELSE WithoutKey(token'[r].purpose)
<1>3. pc' = [r \in Request |-> IF r \in R THEN step(r) ELSE pc[r]]
  BY DEF CallBack
<1>4. \A r \in Request : step(r) \in IF found THEN Opened ELSE Closed
  BY <1>1, <1>2
<1>5. live' \subseteq Request
  BY DEF CallBack
<1> HIDE DEF step
<1>6. pc' \in [Request -> Ended \cup {"idle", "waiting", "refreshing", "issued"}]
  BY <1>3, <1>4 DEF Opened, Closed, Ended
<1> QED
  BY <1>3, <1>4, <1>5, <1>6

\* getSigningKey finds the key in the cache, waits for a lookup, or is refused.
Cached(r, k) ==
    /\ cache[k] > 0
    /\ pc'[r] \in Opened
    /\ UNCHANGED client
Waits(r, k) ==
    /\ cache[k] = 0
    /\ pc'[r] = "waiting"
    /\ \/ lookup[k] # "none" /\ UNCHANGED <<left, lookup>>
       \/ /\ lookup[k] = "none" /\ left > 0
          /\ left' = left - 1
          /\ lookup' = [lookup EXCEPT ![k] = "asking"]
    /\ UNCHANGED <<cache, slow>>
UsedUp(r, k) ==
    /\ cache[k] = 0 /\ lookup[k] = "none" /\ left = 0
    /\ pc'[r] \in Closed
    /\ UNCHANGED client

Verifies(r, k) ==
    /\ token' \in [Request -> Token] /\ token'[r].key = k
    /\ \A q \in Request \ {r} : token'[q] = token[q] /\ pc'[q] = pc[q]
    /\ pc' \in [Request -> Ended \cup {"idle", "waiting", "refreshing", "issued"}]
    /\ live' \subseteq Request
    /\ Cached(r, k) \/ Waits(r, k) \/ UsedUp(r, k)
    /\ UNCHANGED <<hub, trouble, kid, expired>>

LEMMA VerifyVerifies ==
    ASSUME TypeOK, NEW r \in Request, NEW k \in Key,
           NEW purpose \in Purpose,
           Verify(r, purpose, k), UNCHANGED <<kid, expired>>
    PROVE  Verifies(r, k)
<1> USE DEF TypeOK
<1>1. /\ token' \in [Request -> Token] /\ token'[r].key = k
      /\ \A q \in Request \ {r} : token'[q] = token[q]
      /\ UNCHANGED <<hub, trouble, kid, expired>>
  BY DEF Verify, Token
<1>2. CASE cache[k] > 0 /\ CallBack({r}, TRUE) /\ UNCHANGED client
  BY <1>1, <1>2, CallBackMoves DEF Verifies, Cached
<1>3. CASE LookUp(r, k)
  BY <1>1, <1>3 DEF LookUp, Verifies, Waits
<1>4. CASE /\ cache[k] = 0 /\ lookup[k] = "none" /\ left = 0
           /\ CallBack({r}, FALSE)
           /\ UNCHANGED client
  BY <1>1, <1>4, CallBackMoves DEF Verifies, UsedUp
<1> QED
  BY <1>2, <1>3, <1>4 DEF Verify

\* Whoever verifies a token does it so.
LEMMA RequestsVerify ==
    ASSUME TypeOK, NEW r \in Request, Guard(r) \/ LogoutToken(r) \/ VerifyIssued(r)
    PROVE  \E k \in Key : Verifies(r, k)
<1>1. kid[r] \in Key /\ signing \in Key
  BY DEF TypeOK
<1> QED
  BY <1>1, VerifyVerifies DEF Guard, LogoutToken, VerifyIssued, Purpose

\* An answer arrives, or does not, for all who wait for it.
Delivers(k, found) ==
    /\ lookup[k] # "none" /\ (found => lookup[k] = "found")
    /\ \A r \in Request :
          IF pc[r] = "waiting" /\ token[r].key = k
          THEN pc'[r] \in IF found THEN Opened ELSE Closed
          ELSE pc'[r] = pc[r]
    /\ pc' \in [Request -> Ended \cup {"idle", "waiting", "refreshing", "issued"}]
    /\ live' \subseteq Request
    /\ lookup' = [lookup EXCEPT ![k] = "none"]
    /\ slow' = slow \ {k}
    /\ cache' \in [Key -> 0..MaxAge] /\ trouble' \in BOOLEAN
    /\ \A l \in Key : cache'[l] \in {0, cache[l]} \/ (found /\ l = k /\ cache'[l] = MaxAge)
    /\ ~trouble' => /\ found /\ ~trouble
                    /\ \A l \in Key : cache'[l] = IF l = k THEN MaxAge ELSE cache[l]
    /\ UNCHANGED <<hub, kid, expired, left, token>>

LEMMA DeliverDelivers ==
    ASSUME TypeOK, NEW k \in Key, Deliver(k)
    PROVE  \E found \in BOOLEAN : Delivers(k, found)
<1>1. PICK found \in BOOLEAN : /\ EndLookup(k, found)
                               /\ lookup[k] # "none" /\ (found => lookup[k] = "found")
  BY DEF Deliver
<1> DEFINE R == {r \in Request : pc[r] = "waiting" /\ token[r].key = k}
<1>2. CallBack(R, found)
  BY <1>1 DEF EndLookup
<1>3. R \in SUBSET Request
  OBVIOUS
<1>4. \A r \in Request : r \in R <=> pc[r] = "waiting" /\ token[r].key = k
  OBVIOUS
<1> HIDE DEF R
<1>5. /\ \A r \in Request \ R : pc'[r] = pc[r]
      /\ \A r \in R : pc'[r] \in IF found THEN Opened ELSE Closed
      /\ pc' \in [Request -> Ended \cup {"idle", "waiting", "refreshing", "issued"}]
      /\ live' \subseteq Request
  BY <1>2, <1>3, CallBackMoves DEF TypeOK
<1>6. UNCHANGED <<hub, kid, expired, left, token>>
  BY DEF Deliver
<1>7. /\ lookup' = [lookup EXCEPT ![k] = "none"]
      /\ slow' = slow \ {k}
  BY <1>1, Zenon DEF EndLookup
<1>8. /\ cache' \in [Key -> 0..MaxAge] /\ trouble' \in BOOLEAN
      /\ \A l \in Key : cache'[l] \in {0, cache[l]} \/ (found /\ l = k /\ cache'[l] = MaxAge)
      /\ ~trouble' => /\ found /\ ~trouble
                      /\ \A l \in Key : cache'[l] = IF l = k THEN MaxAge ELSE cache[l]
  <2>1. cache \in [Key -> 0..MaxAge] /\ trouble \in BOOLEAN /\ MaxAge \in 0..MaxAge
    BY DEF TypeOK
  <2>2. CASE found /\ cache' = [cache EXCEPT ![k] = MaxAge] /\ trouble' = trouble
    BY <2>1, <2>2
  <2>3. ASSUME found, trouble' = TRUE, NEW dropped \in Key \ {k},
               cache' = [cache EXCEPT ![k] = MaxAge, ![dropped] = 0]
        PROVE  <1>8!1 /\ <1>8!2 /\ <1>8!3
    BY <2>1, <2>3
  <2>4. CASE ~found /\ cache' = cache /\ trouble' = TRUE
    BY <2>1, <2>4
  <2> QED
    BY <1>1, <2>2, <2>3, <2>4 DEF EndLookup, Store
<1> QED
  BY <1>1, <1>4, <1>5, <1>6, <1>7, <1>8 DEF Delivers

-----------------------------------------------------------------------------
(* Every step preserves every conjunct of IndInv.                            *)

\* A handler waits for a lookup, and is called back when that ends.
LEMMA TypeOKStep ==
    ASSUME IndInv, Next
    PROVE  TypeOK'
<1> USE DEF IndInv, TypeOK, hub, client, Lookup, Ended
<1>1. ASSUME NEW r \in Request, Guard(r) \/ LogoutToken(r) \/ VerifyIssued(r) PROVE TypeOK'
  <2>1. PICK k \in Key : Verifies(r, k)
    BY <1>1, RequestsVerify
  <2>2. CASE Cached(r, k)
    BY <2>1, <2>2 DEF Verifies, Cached, Opened
  <2>3. CASE Waits(r, k)
    <3>1. left' \in 0..Limit
      BY <2>3 DEF Waits
    <3>2. lookup' \in [Key -> Lookup] /\ lookup'[k] # "none"
          /\ \A l \in Key : lookup[l] # "none" => lookup'[l] # "none"
      BY <2>3 DEF Waits
    <3>3. UNCHANGED <<published, signing, withdrawn, kid, expired, cache, slow, trouble>>
      BY <2>1, <2>3 DEF Verifies, Waits
    <3>4. ASSUME NEW q \in Request, pc'[q] = "waiting" PROVE lookup'[token'[q].key] # "none"
      <4>1. CASE q = r
        BY <2>1, <3>2, <4>1 DEF Verifies
      <4>2. CASE q # r
        <5>1. token'[q] = token[q] /\ pc'[q] = pc[q] /\ token[q].key \in Key
          BY <2>1, <4>2 DEF Verifies, Token
        <5> QED
          BY <3>2, <3>4, <5>1
      <4> QED
        BY <4>1, <4>2
    <3> QED
      BY <2>1, <3>1, <3>2, <3>3, <3>4 DEF Verifies
  <2>4. CASE UsedUp(r, k)
    BY <2>1, <2>4 DEF Verifies, UsedUp, Closed
  <2> QED
    BY <2>1, <2>2, <2>3, <2>4 DEF Verifies
<1>2. ASSUME NEW r \in Request, Issue(r) PROVE TypeOK'
  BY <1>2 DEF Issue
<1>3. ASSUME NEW r \in Request, RefreshFails(r) PROVE TypeOK'
  BY <1>3 DEF RefreshFails
<1>4. ASSUME NEW r \in Request, Respond(r) PROVE TypeOK'
  BY <1>4 DEF Respond
<1>5. ASSUME NEW r \in Request, Expire(r) PROVE TypeOK'
  BY <1>5 DEF Expire
<1>6. ASSUME NEW k \in Key, HubAnswers(k) PROVE TypeOK'
  BY <1>6 DEF HubAnswers
<1>7. ASSUME NEW k \in Key, Deliver(k) PROVE TypeOK'
  <2>1. PICK found \in BOOLEAN : Delivers(k, found)
    BY <1>7, DeliverDelivers
  <2>2. cache' \in [Key -> 0..MaxAge]
    BY <2>1 DEF Delivers
  <2>3. \A r \in Request : pc'[r] = "waiting" => pc[r] = "waiting" /\ token[r].key # k
    BY <2>1 DEF Delivers, Opened, Closed
  <2> QED
    BY <2>1, <2>2, <2>3 DEF Delivers, Token
<1>8. ASSUME NEW k \in Key, Rotate(k) PROVE TypeOK'
  BY <1>8 DEF Rotate
<1>9. ASSUME NEW k \in Key, Withdraw(k) PROVE TypeOK'
  BY <1>9 DEF Withdraw
<1>10. ASSUME Tick PROVE TypeOK'
  <2>1. cache' \in [Key -> 0..MaxAge]
    BY <1>10 DEF Tick
  <2>2. withdrawn' \in [Key -> 0..Horizon]
    BY <1>10 DEF Tick
  <2>3. left' \in 0..Limit /\ slow' \subseteq Key /\ trouble' \in BOOLEAN
    <3>1. /\ left' = Limit /\ trouble' = FALSE
          /\ slow' = {k \in Key : lookup[k] # "none"}
      BY <1>10 DEF Tick
    <3>2. Limit \in 0..Limit
      OBVIOUS
    <3>3. slow' \subseteq Key
      BY <3>1
    <3> QED
      BY <3>1, <3>2, <3>3
  <2>4. UNCHANGED <<published, signing, live, kid, expired, lookup, pc, token>>
    BY <1>10 DEF Tick
  <2> QED
    BY <2>1, <2>2, <2>3, <2>4
<1> HIDE DEF IndInv, TypeOK, hub, client, Lookup, Ended
<1> QED
  BY <1>1, <1>2, <1>3, <1>4, <1>5, <1>6, <1>7, <1>8, <1>9, <1>10 DEF Next

LEMMA FinitelyServed ==
    ASSUME NEW S \in SUBSET Key
    PROVE  IsFiniteSet(S) /\ Cardinality(S) \in Nat
  BY FS_Subset, FS_CardinalityType

\* The kids that are served are finitely many.
LEMMA ServedIsFinite == IsFiniteSet(Served) /\ Cardinality(Served) \in Nat
<1>1. Served \subseteq Key
  BY DEF Served
<1> QED
  BY <1>1, FinitelyServed

\* A kid that is served stays so until the minute ends, a lookup fails or the cache
\* drops a key, and each lookup that begins serves one more.
LEMMA LookupsServeStep ==
    ASSUME IndInv, Next
    PROVE  LookupsServe'
<1> USE DEF IndInv, LookupsServe
<1>0. left \in 0..Limit /\ lookup \in [Key -> Lookup] /\ cache \in [Key -> 0..MaxAge]
  BY DEF TypeOK
<1>1. ASSUME Served \subseteq Served', left' = left, trouble' = trouble PROVE LookupsServe'
  <2>1. IsFiniteSet(Served') /\ Cardinality(Served') \in Nat /\ Cardinality(Served) \in Nat
    BY FinitelyServed, ServedIsFinite DEF Served
  <2>2. Cardinality(Served) <= Cardinality(Served')
    BY <1>1, <2>1, FS_Subset
  <2> QED
    BY <1>0, <1>1, <2>1, <2>2
<1>2. ASSUME NEW r \in Request, Guard(r) \/ LogoutToken(r) \/ VerifyIssued(r) PROVE LookupsServe'
  <2>1. PICK k \in Key : Verifies(r, k)
    BY <1>2, RequestsVerify DEF IndInv
  <2>2. trouble' = trouble
    BY <2>1 DEF Verifies
  <2>3. CASE UNCHANGED <<cache, lookup, left>>
    BY <1>1, <2>2, <2>3 DEF Served
  <2>4. CASE /\ cache[k] = 0 /\ lookup[k] = "none" /\ left > 0 /\ left' = left - 1
             /\ cache' = cache /\ lookup' = [lookup EXCEPT ![k] = "asking"]
    <3>1. k \notin Served /\ Served' = Served \cup {k}
      BY <1>0, <2>4 DEF Served
    <3>2. Cardinality(Served') = Cardinality(Served) + 1
      BY <3>1, ServedIsFinite, FS_AddElement
    <3> QED
      BY <1>0, <2>2, <2>4, <3>2, ServedIsFinite
  <2> QED
    BY <2>1, <2>3, <2>4 DEF Verifies, Cached, Waits, UsedUp, client
<1>3. ASSUME NEW r \in Request,
             Issue(r) \/ RefreshFails(r) \/ Respond(r) \/ Expire(r)
      PROVE  LookupsServe'
  BY <1>1, <1>3 DEF Issue, RefreshFails, Respond, Expire, client, Served
<1>4. ASSUME NEW k \in Key, HubAnswers(k) PROVE LookupsServe'
  <2>1. Served \subseteq Served'
    BY <1>0, <1>4 DEF HubAnswers, Served
  <2> QED
    BY <1>1, <1>4, <2>1 DEF HubAnswers
<1>5. ASSUME NEW k \in Key, Deliver(k) PROVE LookupsServe'
  <2>1. PICK found \in BOOLEAN : Delivers(k, found)
    BY <1>5, DeliverDelivers
  <2>2. CASE trouble'
    BY <2>2
  <2>3. CASE ~trouble'
    <3>1. Served \subseteq Served'
      BY <1>0, <2>1, <2>3 DEF Delivers, Served
    <3>2. left' = left /\ trouble' = trouble
      BY <2>1, <2>3 DEF Delivers, TypeOK
    <3> QED
      BY <1>1, <3>1, <3>2
  <2> QED
    BY <2>2, <2>3
<1>6. ASSUME NEW k \in Key, Rotate(k) \/ Withdraw(k) PROVE LookupsServe'
  BY <1>1, <1>6 DEF Rotate, Withdraw, client, Served
<1>7. ASSUME Tick PROVE LookupsServe'
  <2>1. left' = Limit
    BY <1>7 DEF Tick
  <2>2. Cardinality(Served') \in Nat
    BY FinitelyServed DEF Served
  <2> QED
    BY <2>1, <2>2
<1> QED
  BY <1>2, <1>3, <1>4, <1>5, <1>6, <1>7 DEF Next

\* Cache and answers of a withdrawn key run out as its minutes count up.
LEMMA LeftOfWithdrawnStep ==
    ASSUME IndInv, Next
    PROVE  LeftOfWithdrawn'
<1> USE DEF IndInv, TypeOK, LeftOfWithdrawn, hub, client, Lookup
<1>1. ASSUME NEW r \in Request, Guard(r) \/ LogoutToken(r) \/ VerifyIssued(r)
      PROVE  LeftOfWithdrawn'
  <2>1. PICK k \in Key : Verifies(r, k)
    BY <1>1, RequestsVerify
  <2>2. UNCHANGED <<published, withdrawn, cache, slow>>
    BY <2>1 DEF Verifies, Cached, Waits, UsedUp
  <2>3. \A l \in Key : lookup'[l] = "found" => lookup[l] = "found"
    BY <2>1 DEF Verifies, Cached, Waits, UsedUp
  <2> QED
    BY <2>2, <2>3
<1>2. ASSUME NEW r \in Request,
             Issue(r) \/ RefreshFails(r) \/ Respond(r) \/ Expire(r)
      PROVE  LeftOfWithdrawn'
  BY <1>2 DEF Issue, RefreshFails, Respond, Expire
<1>3. ASSUME NEW k \in Key, HubAnswers(k) PROVE LeftOfWithdrawn'
  BY <1>3 DEF HubAnswers
<1>4. ASSUME NEW k \in Key, Deliver(k) PROVE LeftOfWithdrawn'
  <2>1. PICK found \in BOOLEAN : Delivers(k, found)
    BY <1>4, DeliverDelivers
  <2>2. UNCHANGED <<published, withdrawn>>
    BY <2>1 DEF Delivers
  <2>3. \A l \in Key : cache'[l] > 0 => withdrawn[l] + cache'[l] <= MaxAge + 1
    BY <2>1 DEF Delivers
  <2>4. \A l \in Key : lookup'[l] = "found" =>
           lookup[l] = "found" /\ (l \notin slow' => l \notin slow)
    BY <2>1 DEF Delivers
  <2> QED
    BY <2>2, <2>3, <2>4
<1>5. ASSUME NEW k \in Key, Rotate(k) PROVE LeftOfWithdrawn'
  BY <1>5 DEF Rotate
<1>6. ASSUME NEW k \in Key, Withdraw(k) PROVE LeftOfWithdrawn'
  BY <1>6 DEF Withdraw
<1>7. ASSUME Tick PROVE LeftOfWithdrawn'
  <2>1. /\ slow = {} /\ slow' = {k \in Key : lookup[k] # "none"}
        /\ UNCHANGED <<published, lookup>>
    BY <1>7 DEF Tick
  <2>2. ASSUME NEW k \in Key, cache'[k] > 0 PROVE withdrawn'[k] + cache'[k] <= MaxAge + 1
    <3>1. cache'[k] = cache[k] - 1 /\ cache[k] > 0
      BY <1>7, <2>2 DEF Tick
    <3>2. withdrawn'[k] \in {withdrawn[k], withdrawn[k] + 1}
      BY <1>7 DEF Tick
    <3> QED
      BY <3>1, <3>2
  <2>3. ASSUME NEW k \in Key, lookup'[k] = "found" PROVE withdrawn'[k] <= 1 /\ k \in slow'
    <3>1. withdrawn[k] = 0
      BY <2>1, <2>3
    <3>2. withdrawn'[k] \in {0, 1}
      BY <1>7, <3>1 DEF Tick
    <3> QED
      BY <2>1, <2>3, <3>2
  <2>4. ASSUME NEW k \in Key, k \in published' PROVE withdrawn'[k] = 0
    BY <1>7, <2>1, <2>4 DEF Tick
  <2> QED
    BY <2>2, <2>3, <2>4
<1> HIDE DEF IndInv, TypeOK, LeftOfWithdrawn, hub, client, Lookup
<1> QED
  BY <1>1, <1>2, <1>3, <1>4, <1>5, <1>6, <1>7 DEF Next

-----------------------------------------------------------------------------
(* The invariant, and what follows from it.                                  *)

LEMMA IndInvInitially == Init => IndInv
<1> SUFFICES ASSUME Init PROVE IndInv
  OBVIOUS
<1>1. TypeOK
  <2>1. signing \in Key
    BY DEF Init
  <2>2. token \in [Request -> Token]
    BY <2>1 DEF Init, Token, Purpose
  <2>3. withdrawn \in [Key -> 0..Horizon] /\ cache \in [Key -> 0..MaxAge] /\ left \in 0..Limit
    BY DEF Init
  <2> QED
    BY <2>1, <2>2, <2>3 DEF Init, TypeOK, Lookup
<1>2. LookupsServe
  <2>1. left = Limit
    BY DEF Init
  <2> QED
    BY <2>1, ServedIsFinite DEF LookupsServe
<1>3. LeftOfWithdrawn
  BY DEF Init, LeftOfWithdrawn
<1> QED
  BY <1>1, <1>2, <1>3 DEF IndInv

LEMMA IndInvStutters == ASSUME IndInv, UNCHANGED vars PROVE IndInv'
  BY DEF vars, hub, client, IndInv, TypeOK, LookupsServe, LeftOfWithdrawn, Served

\* The inductive invariant holds in every reachable state.
THEOREM Invariance == Spec => []IndInv
<1>1. IndInv /\ Next => IndInv'
  BY TypeOKStep, LookupsServeStep, LeftOfWithdrawnStep DEF IndInv
<1>2. IndInv /\ [Next]_vars => IndInv'
  BY <1>1, IndInvStutters
<1> QED
  BY IndInvInitially, <1>2, PTL DEF Spec

\* The variables of the Hub, the client and the handlers keep their types, and
\* nobody waits for a lookup that has ended.
THEOREM TypeCorrect == Spec => []TypeOK
<1>1. IndInv => TypeOK
  BY DEF IndInv
<1> QED
  BY Invariance, <1>1, PTL

-----------------------------------------------------------------------------
(* Action properties.                                                        *)

\* With the lookups of the minute used up, as many kids are served as there were lookups.
LEMMA UsedUpByKids ==
    ASSUME IndInv, left = 0, ~trouble
    PROVE  Cardinality(Served) >= Limit
  BY ServedIsFinite DEF IndInv, LookupsServe

\* A handler is told that its token cannot be verified, or that it can be, only
\* where getSigningKey answers.
LEMMA AnswersOfTheClient ==
    ASSUME IndInv, Next, NEW r \in Request, pc'[r] # pc[r],
           pc'[r] \in Closed \cup {"accepted", "swept"}
    PROVE  \/ \E k \in Key : Verifies(r, k)
           \/ \E k \in Key, found \in BOOLEAN : Delivers(k, found) /\ token[r].key = k
<1>1. ASSUME NEW q \in Request, Guard(q) \/ LogoutToken(q) \/ VerifyIssued(q)
      PROVE  \E k \in Key : Verifies(r, k)
  <2>1. PICK k \in Key : Verifies(q, k)
    BY <1>1, RequestsVerify DEF IndInv
  <2>2. q = r
    BY <2>1 DEF Verifies
  <2> QED
    BY <2>1, <2>2
<1>2. ASSUME NEW k \in Key, Deliver(k)
      PROVE  \E found \in BOOLEAN : Delivers(k, found) /\ token[r].key = k
  BY <1>2, DeliverDelivers DEF Delivers, IndInv
<1>3. ~\E q \in Request : Issue(q) \/ RefreshFails(q) \/ Respond(q) \/ Expire(q)
  BY DEF Issue, RefreshFails, Respond, Expire, IndInv, TypeOK, Closed
<1>4. ~\E k \in Key : HubAnswers(k) \/ Rotate(k) \/ Withdraw(k)
  BY DEF HubAnswers, Rotate, Withdraw
<1>5. ~Tick
  BY DEF Tick
<1> QED
  BY <1>1, <1>2, <1>3, <1>4, <1>5 DEF Next

\* TokenVerifierService.getSigningKey: in a minute in which no lookup fails and the cache
\* drops no key, the lookups are used up only by as many different kids.
THEOREM LimitCountsKids == Spec => UnavailableExplained
<1> DEFINE Explained ==
      \A r \in Request :
          pc'[r] \in {"unavailable", "not_logged_in", "refused"} /\ pc[r] # pc'[r] =>
              trouble' \/ Cardinality(Served) >= Limit
<1>1. ASSUME IndInv, Next, NEW r \in Request,
             pc'[r] \in Closed, pc[r] # pc'[r]
      PROVE  trouble' \/ Cardinality(Served) >= Limit
  <2>1. CASE \E k \in Key : Verifies(r, k)
    <3>1. PICK k \in Key : Verifies(r, k)
      BY <2>1
    <3>2. UsedUp(r, k)
      BY <1>1, <3>1 DEF Verifies, Cached, Waits, Opened, Closed
    <3>3. trouble \/ Cardinality(Served) >= Limit
      BY <1>1, <3>2, UsedUpByKids DEF UsedUp
    <3> QED
      BY <3>1, <3>3 DEF Verifies
  <2>2. CASE \E k \in Key, found \in BOOLEAN : Delivers(k, found) /\ token[r].key = k
    BY <1>1, <2>2 DEF Delivers, Opened, Closed
  <2> QED
    BY <1>1, <2>1, <2>2, AnswersOfTheClient
<1>2. IndInv /\ [Next]_vars => [Explained]_vars
  BY <1>1 DEF Closed
<1> QED
  BY Invariance, <1>2, PTL DEF Spec, UnavailableExplained

\* TokenVerifierService.verifyIdentityHubJwt: a withdrawn key opens nothing after the
\* time of the cache and one lookup.
THEOREM WithdrawnKeysRunOut == Spec => WithdrawnKeyRunsOut
<1> DEFINE RunsOut ==
      \A r \in Request :
          pc'[r] \in {"accepted", "swept"} /\ pc[r] # pc'[r] =>
              withdrawn[token'[r].key] <= MaxAge + 1
<1>1. ASSUME IndInv, Next, NEW r \in Request,
             pc'[r] \in {"accepted", "swept"}, pc[r] # pc'[r]
      PROVE  withdrawn[token'[r].key] <= MaxAge + 1
  <2>0. withdrawn \in [Key -> 0..Horizon] /\ cache \in [Key -> 0..MaxAge]
    BY <1>1 DEF IndInv, TypeOK
  <2>1. CASE \E k \in Key : Verifies(r, k)
    <3>1. PICK k \in Key : Verifies(r, k)
      BY <2>1
    <3>2. cache[k] > 0 /\ token'[r].key = k
      BY <1>1, <3>1 DEF Verifies, Cached, Waits, UsedUp, Closed
    <3>3. withdrawn[k] + cache[k] <= MaxAge + 1
      BY <1>1, <3>2 DEF IndInv, LeftOfWithdrawn
    <3> QED
      BY <2>0, <3>2, <3>3
  <2>2. CASE \E k \in Key, found \in BOOLEAN : Delivers(k, found) /\ token[r].key = k
    <3>1. PICK k \in Key, found \in BOOLEAN : Delivers(k, found) /\ token[r].key = k
      BY <2>2
    <3>2. lookup[k] = "found" /\ token'[r].key = k
      BY <1>1, <3>1 DEF Delivers, Closed
    <3>3. withdrawn[k] <= 1
      BY <1>1, <3>2 DEF IndInv, LeftOfWithdrawn
    <3> QED
      BY <2>0, <3>2, <3>3
  <2> QED
    BY <1>1, <2>1, <2>2, AnswersOfTheClient
<1>2. IndInv /\ [Next]_vars => [RunsOut]_vars
  BY <1>1
<1> QED
  BY Invariance, <1>2, PTL DEF Spec, WithdrawnKeyRunsOut
=============================================================================
