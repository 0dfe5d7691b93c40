--------------------------- MODULE OAuthLogin_proofs ---------------------------
(***************************************************************************)
(* Proofs about OAuthLogin, for any number of requests, transactions and   *)
(* browsers.  IndInv is inductive: one lemma per conjunct.  Sessions end   *)
(* in their own browsers, refusals are explained, and the handlers         *)
(* implement LoginTicket.                                                  *)
(***************************************************************************)
EXTENDS OAuthLogin, TLAPS

-----------------------------------------------------------------------------
(* Why they hold: an inductive invariant. *)

\* Between SELECT ... FOR UPDATE and COMMIT a handler has the lock of a live row,
\* and only then.
LocksHeld ==
    /\ \A r \in Request : pc[r] \in Consuming =>
          rowLock[carried[r]] = r /\ row[carried[r]] = "live"
    /\ \A r \in Request, t \in Txn : rowLock[t] = r => pc[r] \in Consuming /\ carried[r] = t

\* At these points a handler has a transaction in hand, at these a callback's state.
Carrying == {"redirecting", "discarding", "consuming", "consumed", "exchanged", "loggedIn",
             "erred"} \cup Consuming
Judging == (Carrying \cup {"refused"}) \ {"redirecting"}

\* A transaction has an owner from its INSERT on; it is in no other cookie than
\* the owner's and no other handler than one of the owner's requests.
TransactionsOwned ==
    /\ \A t \in Txn : owner[t] = NoBrowser <=> row[t] = "none"
    /\ \A t \in atHub : row[t] # "none"
    /\ \A b \in Browser : cookie[b] # NoTxn => owner[cookie[b]] = b
    /\ \A r \in Request : pc[r] \in Carrying =>
          carried[r] # NoTxn /\ owner[carried[r]] = from[r]

\* The verifier goes with the row: who has obtained it is the only one.
VerifierTakenOnce ==
    /\ \A t \in Txn : taken[t] # 2 /\ (row[t] # "gone" => taken[t] = 0)
    /\ \A r \in Request :
          pc[r] \in {"matched", "consumed", "exchanged", "loggedIn", "erred"} =>
             state[r] = carried[r]
    /\ \A r \in Request :
          pc[r] \in {"consumed", "exchanged", "loggedIn", "erred"} => taken[carried[r]] = 1

\* A browser that has not strayed has one transaction, or one on the way.
OneLogin ==
    \A b \in Browser \ strayed :
        /\ \A t, u \in Txn : owner[t] = b /\ owner[u] = b => t = u
        /\ \A r \in Request : pc[r] = "creating" /\ from[r] = b =>
              /\ \A t \in Txn : owner[t] # b
              /\ \A q \in Request : pc[q] = "creating" /\ from[q] = b => q = r

\* It sends the state of that transaction and nothing else.
OwnCallbacks ==
    \A r \in Request : pc[r] \in Judging /\ from[r] \notin strayed =>
        /\ pc[r] # "discarding"
        /\ state[r] # NoTxn /\ owner[state[r]] = from[r]
        /\ pc[r] = "mismatched" => state[r] \in expired

Spent(t) == t \in expired \/ taken[t] = 1

\* Its transaction is deleted, and its cookie cleared, only when of no use any more.
KeptUntilSpent ==
    /\ \A t \in Txn : row[t] = "gone" /\ owner[t] \notin strayed => Spent(t)
    /\ \A t \in atHub : owner[t] \notin strayed => cookie[owner[t]] = t \/ Spent(t)

IndInv ==
    /\ TypeOK
    /\ LocksHeld
    /\ TransactionsOwned
    /\ VerifierTakenOnce
    /\ SessionInOwnBrowser
    /\ OneLogin
    /\ OwnCallbacks
    /\ KeptUntilSpent
    /\ InvalidStateExplained

USE NoTxnAssumption, NoRequestAssumption, NoBrowserAssumption

-----------------------------------------------------------------------------
(* Every step preserves every conjunct of IndInv.                            *)

\* Every handler keeps the types.
LEMMA TypeOKStep ==
    ASSUME IndInv, Next
    PROVE  TypeOK'
<1> USE DEF IndInv, TypeOK, table, browsers, hub, handlers, history, GoTo, Ended, Consuming, PC
<1>1. ASSUME NEW r \in Request, NEW b \in Browser, Login(r, b) PROVE TypeOK'
  BY <1>1 DEF Login
<1>2. ASSUME NEW r \in Request, NEW b \in Browser, NEW s \in atHub \cup {NoTxn}, Callback(r, b, s)
      PROVE  TypeOK'
  BY <1>2 DEF Callback
<1>3. ASSUME NEW r \in Request, NEW t \in Txn, Create(r, t) PROVE TypeOK'
  BY <1>3 DEF Create
<1>4. ASSUME NEW r \in Request, Redirect(r) PROVE TypeOK'
  <2>1. carried[r] \in Txn
    BY <1>4 DEF Redirect, TransactionsOwned, Carrying
  <2> QED
    BY <1>4, <2>1 DEF Redirect
<1>5. ASSUME NEW r \in Request, Discard(r) PROVE TypeOK'
  BY <1>5 DEF Discard
<1>6. ASSUME NEW r \in Request, LockFindsNothing(r) PROVE TypeOK'
  BY <1>6 DEF LockFindsNothing
<1>7. ASSUME NEW r \in Request, LockTransaction(r) PROVE TypeOK'
  BY <1>7 DEF LockTransaction
<1>8. ASSUME NEW r \in Request, DeleteConsumed(r) PROVE TypeOK'
  <2>1. taken[carried[r]] \in 0..2
    BY <1>8 DEF DeleteConsumed, TransactionsOwned, Carrying
  <2>2. (IF taken[carried[r]] = 2 THEN 2 ELSE taken[carried[r]] + 1) \in 0..2
    BY <2>1
  <2>3. taken' \in [Txn -> 0..2]
    <3>1. CASE pc[r] = "matched"
      BY <1>8, <2>2, <3>1 DEF DeleteConsumed
    <3>2. CASE pc[r] # "matched"
      BY <1>8, <3>2 DEF DeleteConsumed
    <3> QED
      BY <3>1, <3>2
  <2> QED
    BY <1>8, <2>3 DEF DeleteConsumed
<1>9. ASSUME NEW r \in Request, StatementFails(r) PROVE TypeOK'
  BY <1>9 DEF StatementFails
<1>10. ASSUME NEW r \in Request, GiveUp(r) PROVE TypeOK'
  BY <1>10 DEF GiveUp
<1>11. ASSUME NEW r \in Request, ExchangeCode(r) PROVE TypeOK'
  BY <1>11 DEF ExchangeCode
<1>12. ASSUME NEW r \in Request, CreateSession(r) PROVE TypeOK'
  BY <1>12 DEF CreateSession
<1>13. ASSUME NEW r \in Request, Respond(r) PROVE TypeOK'
  BY <1>13 DEF Respond
<1>14. ASSUME NEW b \in Browser, CookieExpires(b) PROVE TypeOK'
  BY <1>14 DEF CookieExpires
<1>15. ASSUME NEW b \in Browser, Logout(b) PROVE TypeOK'
  BY <1>15 DEF Logout
<1>16. ASSUME NEW t \in Txn, Expire(t) PROVE TypeOK'
  BY <1>16 DEF Expire
<1>17. ASSUME Crash PROVE TypeOK'
  BY <1>17 DEF Crash
<1> HIDE DEF IndInv, TypeOK
<1> QED
  BY <1>1, <1>2, <1>3, <1>4, <1>5, <1>6, <1>7, <1>8, <1>9, <1>10, <1>11, <1>12, <1>13, <1>14,
     <1>15, <1>16, <1>17 DEF Next, Arrive, Step

\* A row lock is taken when it is free and given back when the handler ends.
LEMMA LocksHeldStep ==
    ASSUME IndInv, Next
    PROVE  LocksHeld'
<1> USE DEF IndInv, TypeOK, LocksHeld, table, browsers, hub, handlers, history, GoTo, Ended,
            Consuming, PC
<1>1. ASSUME NEW r \in Request, NEW b \in Browser, Login(r, b) PROVE LocksHeld'
  <2>1. /\ pc[r] \in Ended
        /\ pc' = [pc EXCEPT ![r] = "creating"]
        /\ \A t \in Txn : rowLock[t] # NoRequest => row'[t] = row[t]
        /\ UNCHANGED <<rowLock, carried>>
    BY <1>1 DEF Login
  <2> QED
    BY <2>1 DEF TransactionsOwned, Carrying
<1>2. ASSUME NEW r \in Request, NEW b \in Browser, NEW s \in atHub \cup {NoTxn}, Callback(r, b, s)
      PROVE  LocksHeld'
  BY <1>2 DEF Callback
<1>3. ASSUME NEW r \in Request, NEW t \in Txn, Create(r, t) PROVE LocksHeld'
  BY <1>3 DEF Create
<1>4. ASSUME NEW r \in Request, Redirect(r) PROVE LocksHeld'
  BY <1>4 DEF Redirect
<1>5. ASSUME NEW r \in Request, Discard(r) PROVE LocksHeld'
  BY <1>5 DEF Discard
<1>6. ASSUME NEW r \in Request, LockFindsNothing(r) PROVE LocksHeld'
  BY <1>6 DEF LockFindsNothing
<1>7. ASSUME NEW r \in Request, LockTransaction(r) PROVE LocksHeld'
  <2>1. /\ rowLock[carried[r]] = NoRequest /\ row[carried[r]] = "live" /\ carried[r] \in Txn
        /\ pc[r] = "consuming"
        /\ rowLock' = [rowLock EXCEPT ![carried[r]] = r]
        /\ UNCHANGED <<row, carried>>
    BY <1>7 DEF LockTransaction, TransactionsOwned, Carrying
  <2>2. pc'[r] \in Consuming /\ \A q \in Request \ {r} : pc'[q] = pc[q]
    BY <1>7 DEF LockTransaction
  <2> QED
    BY <2>1, <2>2
<1>8. ASSUME NEW r \in Request, DeleteConsumed(r) PROVE LocksHeld'
  BY <1>8 DEF DeleteConsumed
<1>9. ASSUME NEW r \in Request, StatementFails(r) PROVE LocksHeld'
  <2>1. /\ pc' = [pc EXCEPT ![r] = "failed"]
        /\ \A t \in Txn : rowLock'[t] = IF rowLock[t] = r THEN NoRequest ELSE rowLock[t]
        /\ UNCHANGED <<row, carried>>
    BY <1>9 DEF StatementFails
  <2> QED
    BY <2>1 DEF TransactionsOwned, Carrying
<1>10. ASSUME NEW r \in Request, GiveUp(r) PROVE LocksHeld'
  BY <1>10 DEF GiveUp
<1>11. ASSUME NEW r \in Request, ExchangeCode(r) PROVE LocksHeld'
  BY <1>11 DEF ExchangeCode
<1>12. ASSUME NEW r \in Request, CreateSession(r) PROVE LocksHeld'
  BY <1>12 DEF CreateSession
<1>13. ASSUME NEW r \in Request, Respond(r) PROVE LocksHeld'
  BY <1>13 DEF Respond
<1>14. ASSUME NEW b \in Browser, CookieExpires(b) PROVE LocksHeld'
  BY <1>14 DEF CookieExpires
<1>15. ASSUME NEW b \in Browser, Logout(b) PROVE LocksHeld'
  BY <1>15 DEF Logout
<1>16. ASSUME NEW t \in Txn, Expire(t) PROVE LocksHeld'
  BY <1>16 DEF Expire
<1>17. ASSUME Crash PROVE LocksHeld'
  BY <1>17 DEF Crash
<1> HIDE DEF IndInv, TypeOK, LocksHeld
<1> QED
  BY <1>1, <1>2, <1>3, <1>4, <1>5, <1>6, <1>7, <1>8, <1>9, <1>10, <1>11, <1>12, <1>13, <1>14,
     <1>15, <1>16, <1>17 DEF Next, Arrive, Step

\* The cookie of a browser, and so what its requests carry, is its own.
LEMMA TransactionsOwnedStep ==
    ASSUME IndInv, Next
    PROVE  TransactionsOwned'
<1> USE DEF IndInv, TypeOK, TransactionsOwned, Carrying, table, browsers, hub, handlers, history,
            GoTo, Ended, Consuming, PC
<1>1. ASSUME NEW r \in Request, NEW b \in Browser, Login(r, b) PROVE TransactionsOwned'
  BY <1>1 DEF Login
<1>2. ASSUME NEW r \in Request, NEW b \in Browser, NEW s \in atHub \cup {NoTxn}, Callback(r, b, s)
      PROVE  TransactionsOwned'
  BY <1>2 DEF Callback
<1>3. ASSUME NEW r \in Request, NEW t \in Txn, Create(r, t) PROVE TransactionsOwned'
  BY <1>3 DEF Create
<1>4. ASSUME NEW r \in Request, Redirect(r) PROVE TransactionsOwned'
  BY <1>4 DEF Redirect
<1>5. ASSUME NEW r \in Request, Discard(r) PROVE TransactionsOwned'
  BY <1>5 DEF Discard
<1>6. ASSUME NEW r \in Request, LockFindsNothing(r) PROVE TransactionsOwned'
  BY <1>6 DEF LockFindsNothing
<1>7. ASSUME NEW r \in Request, LockTransaction(r) PROVE TransactionsOwned'
  BY <1>7 DEF LockTransaction
<1>8. ASSUME NEW r \in Request, DeleteConsumed(r) PROVE TransactionsOwned'
  BY <1>8 DEF DeleteConsumed
<1>9. ASSUME NEW r \in Request, StatementFails(r) PROVE TransactionsOwned'
  BY <1>9 DEF StatementFails
<1>10. ASSUME NEW r \in Request, GiveUp(r) PROVE TransactionsOwned'
  BY <1>10 DEF GiveUp
<1>11. ASSUME NEW r \in Request, ExchangeCode(r) PROVE TransactionsOwned'
  BY <1>11 DEF ExchangeCode
<1>12. ASSUME NEW r \in Request, CreateSession(r) PROVE TransactionsOwned'
  BY <1>12 DEF CreateSession
<1>13. ASSUME NEW r \in Request, Respond(r) PROVE TransactionsOwned'
  BY <1>13 DEF Respond
<1>14. ASSUME NEW b \in Browser, CookieExpires(b) PROVE TransactionsOwned'
  BY <1>14 DEF CookieExpires
<1>15. ASSUME NEW b \in Browser, Logout(b) PROVE TransactionsOwned'
  BY <1>15 DEF Logout
<1>16. ASSUME NEW t \in Txn, Expire(t) PROVE TransactionsOwned'
  BY <1>16 DEF Expire
<1>17. ASSUME Crash PROVE TransactionsOwned'
  BY <1>17 DEF Crash
<1> HIDE DEF IndInv, TypeOK, TransactionsOwned, Carrying
<1> QED
  BY <1>1, <1>2, <1>3, <1>4, <1>5, <1>6, <1>7, <1>8, <1>9, <1>10, <1>11, <1>12, <1>13, <1>14,
     <1>15, <1>16, <1>17 DEF Next, Arrive, Step

\* The verifier goes with the deleted row.
LEMMA VerifierTakenOnceStep ==
    ASSUME IndInv, Next
    PROVE  VerifierTakenOnce'
<1> USE DEF IndInv, TypeOK, VerifierTakenOnce, Carrying, LocksHeld, table, browsers, hub,
            handlers, history, GoTo, Ended, Consuming, PC
<1>1. ASSUME NEW r \in Request, NEW b \in Browser, Login(r, b) PROVE VerifierTakenOnce'
  BY <1>1 DEF Login
<1>2. ASSUME NEW r \in Request, NEW b \in Browser, NEW s \in atHub \cup {NoTxn}, Callback(r, b, s)
      PROVE  VerifierTakenOnce'
  BY <1>2 DEF Callback
<1>3. ASSUME NEW r \in Request, NEW t \in Txn, Create(r, t) PROVE VerifierTakenOnce'
  BY <1>3 DEF Create
<1>4. ASSUME NEW r \in Request, Redirect(r) PROVE VerifierTakenOnce'
  BY <1>4 DEF Redirect
<1>5. ASSUME NEW r \in Request, Discard(r) PROVE VerifierTakenOnce'
  BY <1>5 DEF Discard
<1>6. ASSUME NEW r \in Request, LockFindsNothing(r) PROVE VerifierTakenOnce'
  BY <1>6 DEF LockFindsNothing
<1>7. ASSUME NEW r \in Request, LockTransaction(r) PROVE VerifierTakenOnce'
  BY <1>7 DEF LockTransaction
<1>8. ASSUME NEW r \in Request, DeleteConsumed(r) PROVE VerifierTakenOnce'
  <2>1. rowLock[carried[r]] = r /\ row[carried[r]] = "live" /\ carried[r] \in Txn
    BY <1>8 DEF DeleteConsumed, TransactionsOwned
  <2>2. row' = [row EXCEPT ![carried[r]] = "gone"] /\ UNCHANGED <<carried, state>>
    BY <1>8 DEF DeleteConsumed
  <2>3. CASE pc[r] = "matched"
    <3>1. taken[carried[r]] = 0
      BY <2>1
    <3>2. taken' = [taken EXCEPT ![carried[r]] = 1] /\ pc' = [pc EXCEPT ![r] = "consumed"]
      BY <1>8, <2>3, <3>1 DEF DeleteConsumed
    <3>3. \A q \in Request :
             pc[q] \in {"consumed", "exchanged", "loggedIn", "erred"} => carried[q] # carried[r]
      BY <2>1
    <3> QED
      BY <2>1, <2>2, <2>3, <3>2, <3>3
  <2>4. CASE pc[r] = "mismatched"
    <3>1. UNCHANGED taken /\ pc' = [pc EXCEPT ![r] = "refused"]
      BY <1>8, <2>4 DEF DeleteConsumed
    <3> QED
      BY <2>1, <2>2, <3>1
  <2> QED
    BY <1>8, <2>3, <2>4 DEF DeleteConsumed
<1>9. ASSUME NEW r \in Request, StatementFails(r) PROVE VerifierTakenOnce'
  BY <1>9 DEF StatementFails
<1>10. ASSUME NEW r \in Request, GiveUp(r) PROVE VerifierTakenOnce'
  BY <1>10 DEF GiveUp
<1>11. ASSUME NEW r \in Request, ExchangeCode(r) PROVE VerifierTakenOnce'
  BY <1>11 DEF ExchangeCode
<1>12. ASSUME NEW r \in Request, CreateSession(r) PROVE VerifierTakenOnce'
  BY <1>12 DEF CreateSession
<1>13. ASSUME NEW r \in Request, Respond(r) PROVE VerifierTakenOnce'
  BY <1>13 DEF Respond
<1>14. ASSUME NEW b \in Browser, CookieExpires(b) PROVE VerifierTakenOnce'
  BY <1>14 DEF CookieExpires
<1>15. ASSUME NEW b \in Browser, Logout(b) PROVE VerifierTakenOnce'
  BY <1>15 DEF Logout
<1>16. ASSUME NEW t \in Txn, Expire(t) PROVE VerifierTakenOnce'
  BY <1>16 DEF Expire
<1>17. ASSUME Crash PROVE VerifierTakenOnce'
  BY <1>17 DEF Crash
<1> HIDE DEF IndInv, TypeOK, VerifierTakenOnce, Carrying, LocksHeld
<1> QED
  BY <1>1, <1>2, <1>3, <1>4, <1>5, <1>6, <1>7, <1>8, <1>9, <1>10, <1>11, <1>12, <1>13, <1>14,
     <1>15, <1>16, <1>17 DEF Next, Arrive, Step

\* A session is created for the owner, by the one handler that has the verifier.
LEMMA SessionInOwnBrowserStep ==
    ASSUME IndInv, Next
    PROVE  SessionInOwnBrowser'
<1> USE DEF IndInv, TypeOK, SessionInOwnBrowser, Carrying, LocksHeld, TransactionsOwned,
            VerifierTakenOnce, table, browsers, hub, handlers, history, GoTo, Ended, Consuming, PC
<1>1. ASSUME NEW r \in Request, NEW b \in Browser, Login(r, b) PROVE SessionInOwnBrowser'
  BY <1>1 DEF Login
<1>2. ASSUME NEW r \in Request, NEW b \in Browser, NEW s \in atHub \cup {NoTxn}, Callback(r, b, s)
      PROVE  SessionInOwnBrowser'
  BY <1>2 DEF Callback
<1>3. ASSUME NEW r \in Request, NEW t \in Txn, Create(r, t) PROVE SessionInOwnBrowser'
  BY <1>3 DEF Create
<1>4. ASSUME NEW r \in Request, Redirect(r) PROVE SessionInOwnBrowser'
  BY <1>4 DEF Redirect
<1>5. ASSUME NEW r \in Request, Discard(r) PROVE SessionInOwnBrowser'
  BY <1>5 DEF Discard
<1>6. ASSUME NEW r \in Request, LockFindsNothing(r) PROVE SessionInOwnBrowser'
  BY <1>6 DEF LockFindsNothing
<1>7. ASSUME NEW r \in Request, LockTransaction(r) PROVE SessionInOwnBrowser'
  BY <1>7 DEF LockTransaction
<1>8. ASSUME NEW r \in Request, DeleteConsumed(r) PROVE SessionInOwnBrowser'
  BY <1>8 DEF DeleteConsumed
<1>9. ASSUME NEW r \in Request, StatementFails(r) PROVE SessionInOwnBrowser'
  BY <1>9 DEF StatementFails
<1>10. ASSUME NEW r \in Request, GiveUp(r) PROVE SessionInOwnBrowser'
  BY <1>10 DEF GiveUp
<1>11. ASSUME NEW r \in Request, ExchangeCode(r) PROVE SessionInOwnBrowser'
  BY <1>11 DEF ExchangeCode
<1>12. ASSUME NEW r \in Request, CreateSession(r) PROVE SessionInOwnBrowser'
  BY <1>12 DEF CreateSession
<1>13. ASSUME NEW r \in Request, Respond(r) PROVE SessionInOwnBrowser'
  BY <1>13 DEF Respond
<1>14. ASSUME NEW b \in Browser, CookieExpires(b) PROVE SessionInOwnBrowser'
  BY <1>14 DEF CookieExpires
<1>15. ASSUME NEW b \in Browser, Logout(b) PROVE SessionInOwnBrowser'
  BY <1>15 DEF Logout
<1>16. ASSUME NEW t \in Txn, Expire(t) PROVE SessionInOwnBrowser'
  BY <1>16 DEF Expire
<1>17. ASSUME Crash PROVE SessionInOwnBrowser'
  BY <1>17 DEF Crash
<1> HIDE DEF IndInv, TypeOK, SessionInOwnBrowser, Carrying, LocksHeld, TransactionsOwned,
             VerifierTakenOnce
<1> QED
  BY <1>1, <1>2, <1>3, <1>4, <1>5, <1>6, <1>7, <1>8, <1>9, <1>10, <1>11, <1>12, <1>13, <1>14,
     <1>15, <1>16, <1>17 DEF Next, Arrive, Step

\* A second login of a browser is a stray one.
LEMMA OneLoginStep ==
    ASSUME IndInv, Next
    PROVE  OneLogin'
<1> USE DEF IndInv, TypeOK, OneLogin, Carrying, TransactionsOwned, table, browsers, hub,
            handlers, history, GoTo, Ended, Consuming, PC
<1>1. ASSUME NEW r \in Request, NEW b \in Browser, Login(r, b) PROVE OneLogin'
  <2>1. CASE Busy(b)
    BY <1>1, <2>1 DEF Login
  <2>2. CASE ~Busy(b)
    BY <1>1, <2>2 DEF Login, Busy
  <2> QED
    BY <2>1, <2>2
<1>2. ASSUME NEW r \in Request, NEW b \in Browser, NEW s \in atHub \cup {NoTxn}, Callback(r, b, s)
      PROVE  OneLogin'
  BY <1>2 DEF Callback
<1>3. ASSUME NEW r \in Request, NEW t \in Txn, Create(r, t) PROVE OneLogin'
  BY <1>3 DEF Create
<1>4. ASSUME NEW r \in Request, Redirect(r) PROVE OneLogin'
  BY <1>4 DEF Redirect
<1>5. ASSUME NEW r \in Request, Discard(r) PROVE OneLogin'
  BY <1>5 DEF Discard
<1>6. ASSUME NEW r \in Request, LockFindsNothing(r) PROVE OneLogin'
  BY <1>6 DEF LockFindsNothing
<1>7. ASSUME NEW r \in Request, LockTransaction(r) PROVE OneLogin'
  BY <1>7 DEF LockTransaction
<1>8. ASSUME NEW r \in Request, DeleteConsumed(r) PROVE OneLogin'
  BY <1>8 DEF DeleteConsumed
<1>9. ASSUME NEW r \in Request, StatementFails(r) PROVE OneLogin'
  BY <1>9 DEF StatementFails
<1>10. ASSUME NEW r \in Request, GiveUp(r) PROVE OneLogin'
  BY <1>10 DEF GiveUp
<1>11. ASSUME NEW r \in Request, ExchangeCode(r) PROVE OneLogin'
  BY <1>11 DEF ExchangeCode
<1>12. ASSUME NEW r \in Request, CreateSession(r) PROVE OneLogin'
  BY <1>12 DEF CreateSession
<1>13. ASSUME NEW r \in Request, Respond(r) PROVE OneLogin'
  BY <1>13 DEF Respond
<1>14. ASSUME NEW b \in Browser, CookieExpires(b) PROVE OneLogin'
  BY <1>14 DEF CookieExpires
<1>15. ASSUME NEW b \in Browser, Logout(b) PROVE OneLogin'
  BY <1>15 DEF Logout
<1>16. ASSUME NEW t \in Txn, Expire(t) PROVE OneLogin'
  BY <1>16 DEF Expire
<1>17. ASSUME Crash PROVE OneLogin'
  BY <1>17 DEF Crash
<1> HIDE DEF IndInv, TypeOK, OneLogin, Carrying, TransactionsOwned
<1> QED
  BY <1>1, <1>2, <1>3, <1>4, <1>5, <1>6, <1>7, <1>8, <1>9, <1>10, <1>11, <1>12, <1>13, <1>14,
     <1>15, <1>16, <1>17 DEF Next, Arrive, Step

\* A state that is not the browser's own comes with a stray callback.
LEMMA OwnCallbacksStep ==
    ASSUME IndInv, Next
    PROVE  OwnCallbacks'
<1> USE DEF IndInv, TypeOK, OwnCallbacks, Carrying, Judging, LocksHeld, TransactionsOwned,
            VerifierTakenOnce, OneLogin, table, browsers, hub, handlers, history, GoTo, Ended,
            Consuming, PC
<1>1. ASSUME NEW r \in Request, NEW b \in Browser, Login(r, b) PROVE OwnCallbacks'
  BY <1>1 DEF Login
<1>2. ASSUME NEW r \in Request, NEW b \in Browser, NEW s \in atHub \cup {NoTxn}, Callback(r, b, s)
      PROVE  OwnCallbacks'
  BY <1>2 DEF Callback
<1>3. ASSUME NEW r \in Request, NEW t \in Txn, Create(r, t) PROVE OwnCallbacks'
  BY <1>3 DEF Create
<1>4. ASSUME NEW r \in Request, Redirect(r) PROVE OwnCallbacks'
  BY <1>4 DEF Redirect
<1>5. ASSUME NEW r \in Request, Discard(r) PROVE OwnCallbacks'
  BY <1>5 DEF Discard
<1>6. ASSUME NEW r \in Request, LockFindsNothing(r) PROVE OwnCallbacks'
  BY <1>6 DEF LockFindsNothing
<1>7. ASSUME NEW r \in Request, LockTransaction(r) PROVE OwnCallbacks'
  BY <1>7 DEF LockTransaction
<1>8. ASSUME NEW r \in Request, DeleteConsumed(r) PROVE OwnCallbacks'
  BY <1>8 DEF DeleteConsumed
<1>9. ASSUME NEW r \in Request, StatementFails(r) PROVE OwnCallbacks'
  BY <1>9 DEF StatementFails
<1>10. ASSUME NEW r \in Request, GiveUp(r) PROVE OwnCallbacks'
  BY <1>10 DEF GiveUp
<1>11. ASSUME NEW r \in Request, ExchangeCode(r) PROVE OwnCallbacks'
  BY <1>11 DEF ExchangeCode
<1>12. ASSUME NEW r \in Request, CreateSession(r) PROVE OwnCallbacks'
  BY <1>12 DEF CreateSession
<1>13. ASSUME NEW r \in Request, Respond(r) PROVE OwnCallbacks'
  BY <1>13 DEF Respond
<1>14. ASSUME NEW b \in Browser, CookieExpires(b) PROVE OwnCallbacks'
  BY <1>14 DEF CookieExpires
<1>15. ASSUME NEW b \in Browser, Logout(b) PROVE OwnCallbacks'
  BY <1>15 DEF Logout
<1>16. ASSUME NEW t \in Txn, Expire(t) PROVE OwnCallbacks'
  BY <1>16 DEF Expire
<1>17. ASSUME Crash PROVE OwnCallbacks'
  BY <1>17 DEF Crash
<1> HIDE DEF IndInv, TypeOK, OwnCallbacks, Carrying, Judging, LocksHeld, TransactionsOwned,
             VerifierTakenOnce, OneLogin
<1> QED
  BY <1>1, <1>2, <1>3, <1>4, <1>5, <1>6, <1>7, <1>8, <1>9, <1>10, <1>11, <1>12, <1>13, <1>14,
     <1>15, <1>16, <1>17 DEF Next, Arrive, Step

\* The purge deletes what has expired; discard and the cookie's end need a stray request.
LEMMA KeptUntilSpentStep ==
    ASSUME IndInv, Next
    PROVE  KeptUntilSpent'
<1> USE DEF IndInv, TypeOK, KeptUntilSpent, Carrying, Judging, Spent, LocksHeld,
            TransactionsOwned, VerifierTakenOnce, OneLogin, OwnCallbacks, InvalidStateExplained,
            table, browsers, hub, handlers, history, GoTo, Ended, Consuming, PC
<1>1. ASSUME NEW r \in Request, NEW b \in Browser, Login(r, b) PROVE KeptUntilSpent'
  BY <1>1 DEF Login
<1>2. ASSUME NEW r \in Request, NEW b \in Browser, NEW s \in atHub \cup {NoTxn}, Callback(r, b, s)
      PROVE  KeptUntilSpent'
  BY <1>2 DEF Callback
<1>3. ASSUME NEW r \in Request, NEW t \in Txn, Create(r, t) PROVE KeptUntilSpent'
  BY <1>3 DEF Create
<1>4. ASSUME NEW r \in Request, Redirect(r) PROVE KeptUntilSpent'
  BY <1>4 DEF Redirect
<1>5. ASSUME NEW r \in Request, Discard(r) PROVE KeptUntilSpent'
  BY <1>5 DEF Discard
<1>6. ASSUME NEW r \in Request, LockFindsNothing(r) PROVE KeptUntilSpent'
  BY <1>6 DEF LockFindsNothing
<1>7. ASSUME NEW r \in Request, LockTransaction(r) PROVE KeptUntilSpent'
  BY <1>7 DEF LockTransaction
<1>8. ASSUME NEW r \in Request, DeleteConsumed(r) PROVE KeptUntilSpent'
  BY <1>8 DEF DeleteConsumed
<1>9. ASSUME NEW r \in Request, StatementFails(r) PROVE KeptUntilSpent'
  BY <1>9 DEF StatementFails
<1>10. ASSUME NEW r \in Request, GiveUp(r) PROVE KeptUntilSpent'
  BY <1>10 DEF GiveUp
<1>11. ASSUME NEW r \in Request, ExchangeCode(r) PROVE KeptUntilSpent'
  BY <1>11 DEF ExchangeCode
<1>12. ASSUME NEW r \in Request, CreateSession(r) PROVE KeptUntilSpent'
  BY <1>12 DEF CreateSession
<1>13. ASSUME NEW r \in Request, Respond(r) PROVE KeptUntilSpent'
  BY <1>13 DEF Respond
<1>14. ASSUME NEW b \in Browser, CookieExpires(b) PROVE KeptUntilSpent'
  BY <1>14 DEF CookieExpires
<1>15. ASSUME NEW b \in Browser, Logout(b) PROVE KeptUntilSpent'
  BY <1>15 DEF Logout
<1>16. ASSUME NEW t \in Txn, Expire(t) PROVE KeptUntilSpent'
  BY <1>16 DEF Expire
<1>17. ASSUME Crash PROVE KeptUntilSpent'
  BY <1>17 DEF Crash
<1> HIDE DEF IndInv, TypeOK, KeptUntilSpent, Carrying, Judging, Spent, LocksHeld,
             TransactionsOwned, VerifierTakenOnce, OneLogin, OwnCallbacks, InvalidStateExplained
<1> QED
  BY <1>1, <1>2, <1>3, <1>4, <1>5, <1>6, <1>7, <1>8, <1>9, <1>10, <1>11, <1>12, <1>13, <1>14,
     <1>15, <1>16, <1>17 DEF Next, Arrive, Step

\* No cookie, or no row behind it, means that the transaction is spent.
LEMMA InvalidStateExplainedStep ==
    ASSUME IndInv, Next
    PROVE  InvalidStateExplained'
<1> USE DEF IndInv, TypeOK, InvalidStateExplained, Carrying, Judging, Spent, LocksHeld,
            TransactionsOwned, VerifierTakenOnce, OneLogin, OwnCallbacks, KeptUntilSpent, table,
            browsers, hub, handlers, history, GoTo, Ended, Consuming, PC
<1>1. ASSUME NEW r \in Request, NEW b \in Browser, Login(r, b) PROVE InvalidStateExplained'
  BY <1>1 DEF Login
<1>2. ASSUME NEW r \in Request, NEW b \in Browser, NEW s \in atHub \cup {NoTxn}, Callback(r, b, s)
      PROVE  InvalidStateExplained'
  BY <1>2 DEF Callback
<1>3. ASSUME NEW r \in Request, NEW t \in Txn, Create(r, t) PROVE InvalidStateExplained'
  BY <1>3 DEF Create
<1>4. ASSUME NEW r \in Request, Redirect(r) PROVE InvalidStateExplained'
  BY <1>4 DEF Redirect
<1>5. ASSUME NEW r \in Request, Discard(r) PROVE InvalidStateExplained'
  BY <1>5 DEF Discard
<1>6. ASSUME NEW r \in Request, LockFindsNothing(r) PROVE InvalidStateExplained'
  BY <1>6 DEF LockFindsNothing
<1>7. ASSUME NEW r \in Request, LockTransaction(r) PROVE InvalidStateExplained'
  BY <1>7 DEF LockTransaction
<1>8. ASSUME NEW r \in Request, DeleteConsumed(r) PROVE InvalidStateExplained'
  BY <1>8 DEF DeleteConsumed
<1>9. ASSUME NEW r \in Request, StatementFails(r) PROVE InvalidStateExplained'
  BY <1>9 DEF StatementFails
<1>10. ASSUME NEW r \in Request, GiveUp(r) PROVE InvalidStateExplained'
  BY <1>10 DEF GiveUp
<1>11. ASSUME NEW r \in Request, ExchangeCode(r) PROVE InvalidStateExplained'
  BY <1>11 DEF ExchangeCode
<1>12. ASSUME NEW r \in Request, CreateSession(r) PROVE InvalidStateExplained'
  BY <1>12 DEF CreateSession
<1>13. ASSUME NEW r \in Request, Respond(r) PROVE InvalidStateExplained'
  BY <1>13 DEF Respond
<1>14. ASSUME NEW b \in Browser, CookieExpires(b) PROVE InvalidStateExplained'
  BY <1>14 DEF CookieExpires
<1>15. ASSUME NEW b \in Browser, Logout(b) PROVE InvalidStateExplained'
  BY <1>15 DEF Logout
<1>16. ASSUME NEW t \in Txn, Expire(t) PROVE InvalidStateExplained'
  BY <1>16 DEF Expire
<1>17. ASSUME Crash PROVE InvalidStateExplained'
  BY <1>17 DEF Crash
<1> HIDE DEF IndInv, TypeOK, InvalidStateExplained, Carrying, Judging, Spent, LocksHeld,
             TransactionsOwned, VerifierTakenOnce, OneLogin, OwnCallbacks, KeptUntilSpent
<1> QED
  BY <1>1, <1>2, <1>3, <1>4, <1>5, <1>6, <1>7, <1>8, <1>9, <1>10, <1>11, <1>12, <1>13, <1>14,
     <1>15, <1>16, <1>17 DEF Next, Arrive, Step

-----------------------------------------------------------------------------
(* The invariant, and what follows from it.                                  *)

LEMMA IndInvInitially == Init => IndInv
<1> SUFFICES ASSUME Init PROVE IndInv
  OBVIOUS
<1> USE DEF Init, Ended, Consuming, PC, Carrying, Judging
<1>1. TypeOK
  BY DEF TypeOK
<1>2. LocksHeld
  BY DEF LocksHeld
<1>3. TransactionsOwned
  BY DEF TransactionsOwned
<1>4. VerifierTakenOnce /\ SessionInOwnBrowser
  BY DEF VerifierTakenOnce, SessionInOwnBrowser
<1>5. OneLogin
  BY DEF OneLogin
<1>6. OwnCallbacks /\ InvalidStateExplained
  BY DEF OwnCallbacks, InvalidStateExplained
<1>7. KeptUntilSpent
  BY DEF KeptUntilSpent
<1> QED
  BY <1>1, <1>2, <1>3, <1>4, <1>5, <1>6, <1>7 DEF IndInv

LEMMA IndInvStutters == ASSUME IndInv, UNCHANGED vars PROVE IndInv'
  BY DEF vars, table, browsers, hub, handlers, history, IndInv, TypeOK, LocksHeld,
         TransactionsOwned, VerifierTakenOnce, SessionInOwnBrowser, OneLogin, OwnCallbacks,
         KeptUntilSpent, InvalidStateExplained, Spent

\* The inductive invariant holds in every reachable state.
THEOREM Invariance == Spec => []IndInv
<1>1. IndInv /\ Next => IndInv'
  BY TypeOKStep, LocksHeldStep, TransactionsOwnedStep, VerifierTakenOnceStep,
     SessionInOwnBrowserStep, OneLoginStep, OwnCallbacksStep, KeptUntilSpentStep,
     InvalidStateExplainedStep
  DEF IndInv
<1>2. IndInv /\ [Next]_vars => IndInv'
  BY <1>1, IndInvStutters
<1> QED
  BY IndInvInitially, <1>2, PTL DEF Spec

\* The variables of the table, the browsers, the Hub and the handlers keep
\* their types.
THEOREM TypeCorrect == Spec => []TypeOK
<1>1. IndInv => TypeOK
  BY DEF IndInv
<1> QED
  BY Invariance, <1>1, PTL

\* OAuthController.callback and OAuthTransactionService.consume: a login ends
\* in the browser that started it.
THEOREM SessionsInOwnBrowsers == Spec => []SessionInOwnBrowser
<1>1. IndInv => SessionInOwnBrowser
  BY DEF IndInv
<1> QED
  BY Invariance, <1>1, PTL

\* OAuthController.callback: a browser that does one login and its own callback
\* is refused only when the transaction is spent.
THEOREM RefusalsExplained == Spec => []InvalidStateExplained
<1>1. IndInv => InvalidStateExplained
  BY DEF IndInv
<1> QED
  BY Invariance, <1>1, PTL

-----------------------------------------------------------------------------
(* The handlers implement LoginTicket.                                       *)

\* Somebody holds the lock of t and has found its state to match.
Accepted(t) == \E r \in Request : rowLock[t] = r /\ pc[r] = "matched"

\* An accepted row is there, and nobody has its verifier.
LEMMA AcceptedIsLive ==
    ASSUME IndInv, NEW t \in Txn, Accepted(t)
    PROVE  row[t] = "live" /\ taken[t] = 0
  BY DEF Accepted, IndInv, LocksHeld, VerifierTakenOnce, Consuming

\* A ticket changes only with its row, its lock and its verifier.
LEMMA SameTicket ==
    ASSUME NEW t \in Txn,
           row'[t] = row[t], taken'[t] = taken[t], Accepted(t)' <=> Accepted(t)
    PROVE  Ticket(t)' = Ticket(t)
  BY DEF Ticket, Accepted

\* A step of a handler that has not accepted, and does not, changes no ticket
\* of a row it leaves alone.
LEMMA QuietHandler ==
    ASSUME IndInv, NEW r \in Request, NEW t \in Txn,
           \A q \in Request \ {r} : pc'[q] = pc[q],
           pc[r] # "matched", pc'[r] # "matched",
           row'[t] = row[t], UNCHANGED <<rowLock, taken>>
    PROVE  Ticket(t)' = Ticket(t)
<1>1. Accepted(t)' <=> Accepted(t)
  BY DEF Accepted
<1> QED
  BY <1>1, SameTicket

\* The purge of expired rows by create voids their tickets.
LEMMA LoginVoids ==
    ASSUME IndInv, NEW r \in Request, NEW b \in Browser, Login(r, b)
    PROVE  LT!Next
<1>0. PICK stale \in SUBSET Txn : \A t \in Txn : t \in stale <=> t \in expired /\ row[t] = "live"
  <2> WITNESS {t \in Txn : t \in expired /\ row[t] = "live"} \in SUBSET Txn
  <2> QED
    OBVIOUS
<1>1. /\ pc[r] \in Ended
      /\ pc' = [pc EXCEPT ![r] = "creating"]
      /\ \A t \in stale : rowLock[t] = NoRequest
      /\ \A t \in Txn : row'[t] = IF t \in stale THEN "gone" ELSE row[t]
      /\ UNCHANGED <<rowLock, taken, owner, expired>>
  BY <1>0 DEF Login, GoTo, browsers, IndInv, TypeOK
<1>2. pc[r] # "matched" /\ pc'[r] # "matched" /\ \A q \in Request \ {r} : pc'[q] = pc[q]
  BY <1>1 DEF Ended, IndInv, TypeOK
<1>3. ASSUME NEW t \in stale PROVE Ticket(t) = "issued" /\ Ticket(t)' = "void"
  BY <1>0, <1>1, <1>3 DEF Ticket, IndInv, VerifierTakenOnce
<1>4. ASSUME NEW t \in Txn \ stale PROVE Ticket(t)' = Ticket(t)
  BY <1>1, <1>2, <1>4, QuietHandler
<1>5. LT!Void(stale)
  BY <1>1, <1>3, <1>4 DEF LT!Void
<1> QED
  BY <1>5 DEF LT!Next

\* The INSERT of create issues a ticket.
LEMMA CreateIssues ==
    ASSUME IndInv, NEW r \in Request, NEW t \in Txn, Create(r, t)
    PROVE  LT!Next
<1>1. /\ pc[r] = "creating" /\ row[t] = "none"
      /\ row' = [row EXCEPT ![t] = "live"]
      /\ owner' = [owner EXCEPT ![t] = from[r]]
      /\ pc' = [pc EXCEPT ![r] = "redirecting"]
      /\ UNCHANGED <<rowLock, taken, expired>>
  BY DEF Create, GoTo, history
<1>2. pc'[r] # "matched" /\ \A q \in Request \ {r} : pc'[q] = pc[q]
  BY <1>1 DEF IndInv, TypeOK
<1>3. Ticket(t) = "none" /\ Ticket(t)' = "issued"
  <2>1. ~Accepted(t)
    BY <1>1, AcceptedIsLive
  <2>2. ~Accepted(t)'
    BY <1>1, <1>2, <2>1 DEF Accepted
  <2>3. row'[t] = "live"
    BY <1>1 DEF IndInv, TypeOK
  <2> QED
    BY <1>1, <2>2, <2>3 DEF Ticket, Accepted
<1>4. ASSUME NEW u \in Txn \ {t} PROVE Ticket(u)' = Ticket(u)
  <2>1. row'[u] = row[u]
    BY <1>1 DEF IndInv, TypeOK
  <2> QED
    BY <1>1, <1>2, <2>1, QuietHandler
<1>5. from[r] \in Browser
  BY DEF IndInv, TypeOK
<1>6. LT!Issue(t, from[r])
  BY <1>1, <1>3, <1>4 DEF LT!Issue
<1> QED
  BY <1>5, <1>6 DEF LT!Next

\* Discarding a transaction voids its ticket, unless it was spent before.
LEMMA DiscardVoids ==
    ASSUME IndInv, NEW r \in Request, Discard(r)
    PROVE  [LT!Next]_(LT!vars)
<1>0. PICK c \in Txn : carried[r] = c
  BY DEF Discard, IndInv, TypeOK, TransactionsOwned, Carrying
<1>1. /\ pc[r] = "discarding" /\ rowLock[c] = NoRequest
      /\ row' = [row EXCEPT ![c] = "gone"]
      /\ pc' = [pc EXCEPT ![r] = "refused"]
      /\ UNCHANGED <<rowLock, taken, owner, expired>>
  BY <1>0 DEF Discard, GoTo, browsers, history
<1>2. row[c] # "none"
  BY <1>0, <1>1 DEF IndInv, TypeOK, TransactionsOwned, Carrying, Consuming
<1>3. pc'[r] # "matched" /\ \A q \in Request \ {r} : pc'[q] = pc[q]
  BY <1>1 DEF IndInv, TypeOK
<1>4. ASSUME NEW u \in Txn \ {c} PROVE Ticket(u)' = Ticket(u)
  <2>1. row'[u] = row[u]
    BY <1>1 DEF IndInv, TypeOK
  <2> QED
    BY <1>1, <1>3, <2>1, QuietHandler
<1>5. CASE row[c] = "live"
  <2>1. Ticket(c) = "issued" /\ Ticket(c)' = "void"
    BY <1>1, <1>2, <1>5 DEF Ticket, IndInv, VerifierTakenOnce, TypeOK
  <2>2. LT!Void({c})
    BY <1>1, <1>2, <1>4, <2>1 DEF LT!Void
  <2> QED
    BY <1>2, <2>2 DEF LT!Next
<1>6. CASE row[c] = "gone"
  <2>1. row'[c] = row[c]
    BY <1>1, <1>2, <1>6 DEF IndInv, TypeOK
  <2>2. Ticket(c)' = Ticket(c)
    BY <1>1, <1>2, <1>3, <2>1, QuietHandler
  <2>3. \A u \in Txn : Ticket(u)' = Ticket(u)
    BY <1>4, <2>2
  <2> QED
    BY <1>1, <2>3 DEF LT!vars
<1> QED
  BY <1>2, <1>5, <1>6 DEF IndInv, TypeOK

\* SELECT ... FOR UPDATE accepts the ticket of a transaction in time.
LEMMA LockAccepts ==
    ASSUME IndInv, NEW r \in Request, LockTransaction(r)
    PROVE  [LT!Next]_(LT!vars)
<1>0. PICK c \in Txn : carried[r] = c
  BY DEF LockTransaction, IndInv, TypeOK, TransactionsOwned, Carrying
<1>1. /\ pc[r] = "consuming" /\ rowLock[c] = NoRequest /\ row[c] = "live"
      /\ rowLock' = [rowLock EXCEPT ![c] = r]
      /\ UNCHANGED <<row, taken, owner, expired>>
  BY <1>0 DEF LockTransaction, browsers, history
<1>3. \A q \in Request \ {r} : pc'[q] = pc[q]
  BY DEF LockTransaction, GoTo, IndInv, TypeOK
<1>4. \A u \in Txn : rowLock[u] # r
  BY <1>1 DEF IndInv, LocksHeld, Consuming
<1>5. rowLock'[c] = r /\ \A u \in Txn \ {c} : rowLock'[u] = rowLock[u]
  BY <1>1 DEF IndInv, TypeOK
<1>6. ASSUME NEW u \in Txn \ {c} PROVE Ticket(u)' = Ticket(u)
  <2>1. Accepted(u)' <=> Accepted(u)
    BY <1>3, <1>4, <1>5 DEF Accepted
  <2> QED
    BY <1>1, <2>1, SameTicket
<1>7. Ticket(c) = "issued"
  BY <1>1 DEF Ticket
<1>8. CASE pc'[r] = "matched"
  <2>1. c \notin expired
    BY <1>0, <1>8 DEF LockTransaction, GoTo, IndInv, TypeOK
  <2>2. Ticket(c)' = "accepted"
    BY <1>1, <1>5, <1>8 DEF Ticket
  <2>3. LT!Accept(c)
    BY <1>1, <1>6, <1>7, <2>1, <2>2 DEF LT!Accept
  <2> QED
    BY <2>3 DEF LT!Next
<1>9. CASE pc'[r] # "matched"
  <2>1. Ticket(c)' = "issued"
    BY <1>1, <1>5, <1>9 DEF Ticket
  <2>2. \A u \in Txn : Ticket(u)' = Ticket(u)
    BY <1>6, <1>7, <2>1
  <2> QED
    BY <1>1, <2>2 DEF LT!vars
<1> QED
  BY <1>8, <1>9

\* DELETE and COMMIT use the ticket that was accepted and void one that was not.
LEMMA DeleteUses ==
    ASSUME IndInv, NEW r \in Request, DeleteConsumed(r)
    PROVE  LT!Next
<1>0. PICK c \in Txn : carried[r] = c
  BY DEF DeleteConsumed, IndInv, TypeOK, TransactionsOwned, Carrying
<1>1. /\ pc[r] \in Consuming
      /\ row' = [row EXCEPT ![c] = "gone"]
      /\ rowLock' = [rowLock EXCEPT ![c] = NoRequest]
      /\ UNCHANGED <<owner, expired>>
  BY <1>0 DEF DeleteConsumed, browsers
<1>2. rowLock[c] = r /\ row[c] = "live" /\ taken[c] = 0
  BY <1>0, <1>1 DEF IndInv, LocksHeld, VerifierTakenOnce
<1>3. pc'[r] # "matched" /\ \A q \in Request \ {r} : pc'[q] = pc[q]
  BY <1>1 DEF DeleteConsumed, GoTo, IndInv, TypeOK
<1>4. \A u \in Txn \ {c} : rowLock[u] # r /\ rowLock'[u] = rowLock[u] /\ row'[u] = row[u]
  BY <1>0, <1>1 DEF IndInv, LocksHeld, TypeOK
<1>5. \A u \in Txn \ {c} : taken'[u] = taken[u]
  BY <1>0 DEF DeleteConsumed, IndInv, TypeOK
<1>6. ASSUME NEW u \in Txn \ {c} PROVE Ticket(u)' = Ticket(u)
  <2>1. Accepted(u)' <=> Accepted(u)
    BY <1>3, <1>4 DEF Accepted
  <2> QED
    BY <1>4, <1>5, <2>1, SameTicket
<1>7. row'[c] = "gone"
  BY <1>1, <1>2 DEF IndInv, TypeOK
<1>8. CASE pc[r] = "matched"
  <2>1. taken'[c] = 1
    BY <1>0, <1>2, <1>8 DEF DeleteConsumed, IndInv, TypeOK
  <2>2. Ticket(c) = "accepted" /\ Ticket(c)' = "used"
    BY <1>2, <1>7, <1>8, <2>1 DEF Ticket
  <2>3. LT!Use(c)
    BY <1>1, <1>2, <1>6, <2>2 DEF LT!Use
  <2> QED
    BY <1>2, <2>3 DEF LT!Next
<1>9. CASE pc[r] = "mismatched"
  <2>1. taken'[c] = 0
    BY <1>2, <1>9 DEF DeleteConsumed
  <2>2. Ticket(c) = "issued" /\ Ticket(c)' = "void"
    BY <1>2, <1>7, <1>9, <2>1 DEF Ticket
  <2>3. LT!Void({c})
    BY <1>1, <1>2, <1>6, <2>2 DEF LT!Void
  <2> QED
    BY <1>2, <2>3 DEF LT!Next
<1> QED
  BY <1>1, <1>8, <1>9 DEF Consuming

\* Who loses the locks of T gives the tickets it has accepted back.
LEMMA Returns ==
    ASSUME IndInv, NEW T \in SUBSET Txn,
           \A t \in T : Accepted(t) /\ ~Accepted(t)',
           \A t \in Txn \ T : Accepted(t)' <=> Accepted(t),
           UNCHANGED <<row, taken, owner, expired>>
    PROVE  LT!Next
<1>1. ASSUME NEW t \in T PROVE Ticket(t) = "accepted" /\ Ticket(t)' = "issued"
  BY AcceptedIsLive DEF Ticket, Accepted
<1>2. ASSUME NEW t \in Txn \ T PROVE Ticket(t)' = Ticket(t)
  BY SameTicket
<1>3. LT!Return(T)
  BY <1>1, <1>2 DEF LT!Return
<1> QED
  BY <1>3 DEF LT!Next

LEMMA FailureReturns ==
    ASSUME IndInv, NEW r \in Request, StatementFails(r)
    PROVE  LT!Next
<1>0. PICK T \in SUBSET Txn : \A t \in Txn : t \in T <=> rowLock[t] = r /\ pc[r] = "matched"
  <2> WITNESS {t \in Txn : rowLock[t] = r /\ pc[r] = "matched"} \in SUBSET Txn
  <2> QED
    OBVIOUS
<1>1. /\ \A t \in Txn : rowLock'[t] = IF rowLock[t] = r THEN NoRequest ELSE rowLock[t]
      /\ pc' = [pc EXCEPT ![r] = "failed"]
      /\ UNCHANGED <<row, taken, owner, expired>>
  BY DEF StatementFails, GoTo, browsers, history
<1>2. pc'[r] = "failed" /\ \A q \in Request \ {r} : pc'[q] = pc[q]
  BY <1>1 DEF IndInv, TypeOK
<1>3. \A t \in T : Accepted(t) /\ ~Accepted(t)'
  BY <1>0, <1>1, <1>2 DEF Accepted
<1>4. \A t \in Txn \ T : Accepted(t)' <=> Accepted(t)
  BY <1>0, <1>1, <1>2 DEF Accepted
<1> QED
  BY <1>1, <1>3, <1>4, Returns

LEMMA CrashReturns ==
    ASSUME IndInv, Crash
    PROVE  LT!Next
<1>1. \A t \in Txn : ~Accepted(t)'
  BY DEF Crash, Accepted
<1>2. UNCHANGED <<row, taken, owner, expired>>
  BY DEF Crash, browsers, history
<1>3. PICK T \in SUBSET Txn : \A t \in Txn : t \in T <=> Accepted(t)
  <2> WITNESS {t \in Txn : Accepted(t)} \in SUBSET Txn
  <2> QED
    OBVIOUS
<1> QED
  BY <1>1, <1>2, <1>3, Returns

\* The other steps of a handler touch no ticket.
LEMMA OtherStepsStutter ==
    ASSUME IndInv, NEW r \in Request,
           \/ \E b \in Browser, s \in atHub \cup {NoTxn} : Callback(r, b, s)
           \/ Redirect(r) \/ LockFindsNothing(r) \/ GiveUp(r) \/ ExchangeCode(r)
           \/ CreateSession(r) \/ Respond(r)
    PROVE  UNCHANGED LT!vars
<1>1. /\ pc[r] # "matched" /\ pc'[r] # "matched"
      /\ \A q \in Request \ {r} : pc'[q] = pc[q]
  BY DEF Callback, Redirect, LockFindsNothing, GiveUp, ExchangeCode, CreateSession, Respond,
         GoTo, Ended, IndInv, TypeOK
<1>2. UNCHANGED <<row, rowLock, taken, owner, expired>>
  BY DEF Callback, Redirect, LockFindsNothing, GiveUp, ExchangeCode, CreateSession, Respond,
         table, browsers, history
<1>3. \A t \in Txn : Ticket(t)' = Ticket(t)
  BY <1>1, <1>2, QuietHandler
<1> QED
  BY <1>2, <1>3 DEF LT!vars

LEMMA TicketStep ==
    ASSUME IndInv, Next
    PROVE  [LT!Next]_(LT!vars)
<1>1. ASSUME NEW r \in Request, Arrive(r) \/ Step(r) PROVE [LT!Next]_(LT!vars)
  BY <1>1, LoginVoids, CreateIssues, DiscardVoids, LockAccepts, DeleteUses, FailureReturns,
     OtherStepsStutter
  DEF Arrive, Step
<1>2. ASSUME NEW b \in Browser, CookieExpires(b) \/ Logout(b) PROVE UNCHANGED LT!vars
  <2>1. UNCHANGED <<row, rowLock, taken, owner, expired, pc>>
    BY <1>2 DEF CookieExpires, Logout, table, handlers, history
  <2>2. \A t \in Txn : Ticket(t)' = Ticket(t)
    BY <2>1 DEF Ticket
  <2> QED
    BY <2>1, <2>2 DEF LT!vars
<1>3. ASSUME NEW t \in Txn, Expire(t) PROVE LT!Next
  <2>1. expired' = expired \cup {t} /\ UNCHANGED <<row, rowLock, taken, owner, pc>>
    BY <1>3 DEF Expire, browsers, handlers, history
  <2>2. \A u \in Txn : Ticket(u)' = Ticket(u)
    BY <2>1 DEF Ticket
  <2>3. LT!Expire(t)
    BY <2>1, <2>2 DEF LT!Expire
  <2> QED
    BY <2>3 DEF LT!Next
<1> QED
  BY <1>1, <1>2, <1>3, CrashReturns DEF Next

\* Login and callback use the rows of oauth_transactions as tickets that are
\* issued once, used at most once and in time, and returned when that fails.
THEOREM Refinement == Spec => Tickets
<1>1. Init => LT!Init
  BY DEF Init, Ticket, LT!Init
<1>2. IndInv /\ [Next]_vars => [LT!Next]_(LT!vars)
  <2>1. ASSUME UNCHANGED vars PROVE UNCHANGED LT!vars
    BY <2>1 DEF vars, table, browsers, handlers, history, Ticket, LT!vars
  <2> QED
    BY <2>1, TicketStep
<1> QED
  BY Invariance, <1>1, <1>2, PTL DEF Spec, Tickets, LT!Spec
=============================================================================
