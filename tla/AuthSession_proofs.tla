------------------------- MODULE AuthSession_proofs -------------------------
(***************************************************************************)
(* Proofs about AuthSession, for any number of requests, sessions, Hub     *)
(* sessions and pairs of tokens.  IndInv is inductive: one lemma per       *)
(* conjunct says that every step preserves it.  The safety properties are  *)
(* conjuncts of IndInv or follow from them, and so does the refinement.    *)
(*                                                                         *)
(* The last part is about PooledSessions, for any number of connections:   *)
(* the pool only restricts what AuthSession does, so that its invariants   *)
(* hold there as well; the row lock of a session is in the hands of a      *)
(* refresh transaction, and such a transaction keeps its connection; and   *)
(* the pool serves everybody once and leaves no connection idle while      *)
(* somebody waits, so that there is always somebody who can go on.         *)
(***************************************************************************)
EXTENDS PooledSessions, SequenceTheorems, FiniteSetTheorems, TLAPS

-----------------------------------------------------------------------------
(* Why they hold: an inductive invariant. *)

\* Working for a session whose row has been inserted.
HasSession == (Handling \ {"sweeping", "purging", "inserting"}) \cup {"authenticated"}

\* Holding a pair of tokens read from a row that was there.
HasTokens == InRefresh \cup {"verifying", "reverifying", "locking", "authenticated"}

\* An open refresh holds the lock of its row, which therefore still holds the
\* pair it read; and a lock is held by an open refresh only.
LockGuardsRefresh ==
    /\ \A r \in Request : pc[r] \in InRefresh =>
          rowLock[on[r]] = r /\ row[on[r]] = "live" /\ pair[on[r]] = seen[r]
    /\ \A s \in Session : \A r \in Request : rowLock[s] = r =>
          pc[r] \in InRefresh /\ on[r] = s

\* A session id is inserted by one login only, with the first pair of tokens,
\* and Identity Hub hears of no pair before that.
InsertedOnce ==
    /\ \A s \in Session : issued[s] = 0 => row[s] = "none"
    /\ \A s \in Session, p \in 0..MaxPair : row[s] = "none" => <<s, p>> \notin onWire
    /\ \A r \in Request : pc[r] \in {"purging", "inserting"} =>
          row[on[r]] = "none" /\ issued[on[r]] = 1
    /\ \A r, q \in Request :
          /\ pc[r] \in {"purging", "inserting"}
          /\ pc[q] \in {"purging", "inserting"}
          /\ on[r] = on[q]
          => r = q

\* Only a login in flight works for a row that has not been inserted yet.
WorksOnInserted ==
    /\ \A r \in Request : \A s \in doomed[r] : row[s] # "none"
    /\ \A r \in Request : pc[r] \in HasSession => row[on[r]] # "none"

\* A pair that is stored or was read has been issued.
PairsIssued ==
    /\ \A s \in Session : pair[s] <= issued[s] /\ (row[s] = "live" => pair[s] >= 1)
    /\ \A r \in Request : pc[r] \in HasTokens =>
          1 <= seen[r] /\ seen[r] <= issued[on[r]]

\* A refresh starts from an expired access token.
RefreshesExpired ==
    \A r \in Request : pc[r] \in InRefresh \cup {"locking"} =>
        AccessExpired(on[r], seen[r])

\* The answer to a refresh is the newest pair, unless another answer was lost.
AnswerIsNewest ==
    \A r \in Request : pc[r] = "answered" =>
        /\ seen[r] < issued[on[r]]
        /\ issued[on[r]] = seen[r] + 1 \/ lost[on[r]]

IndInv ==
    /\ TypeOK
    /\ LockGuardsRefresh
    /\ InsertedOnce
    /\ WorksOnInserted
    /\ PairsIssued
    /\ RefreshesExpired
    /\ AnswerIsNewest
    /\ StoredPairIsNewest
    /\ RefusalExplained
    /\ DeletedForGood
    /\ AuthenticatedByGenuineToken

\* What a pending DELETE was decided on stays true until it runs, whatever
\* happens to the row meanwhile; together with IndInv this is inductive.
DeletionsExplained ==
    \A r \in Request :
        /\ pc[r] = "sweeping" => \A s \in doomed[r] : sidOf[s] \in revoked
        /\ pc[r] \in {"dropping", "reaping"} => doomed[r] = {on[r]}
        /\ pc[r] = "dropping" =>
              /\ 1 <= seen[r] /\ seen[r] <= issued[on[r]]
              /\ quality[on[r]][seen[r]] # "good"
        /\ pc[r] = "reaping" =>
              RefreshExpired(on[r], seen[r]) /\ seen[r] <= pair[on[r]]

USE NoRequestAssumption, MaxPairAssumption

-----------------------------------------------------------------------------
(* The effect of a rotation at Identity Hub.                                 *)

\* A rotation issues the next pair and leaves the earlier ones as they were.
LEMMA IssueNextEffect ==
    ASSUME TypeOK, NEW s \in Session, IssueNext(s)
    PROVE  /\ issued' \in [Session -> 0..MaxPair]
           /\ quality' \in [Session -> [Pair -> Quality]]
           /\ issued'[s] = issued[s] + 1
           /\ \A t \in Session : t # s => issued'[t] = issued[t]
           /\ \A t \in Session, p \in Pair :
                 p <= issued[t] => quality'[t][p] = quality[t][p]
<1>1. issued' = [issued EXCEPT ![s] = @ + 1] /\ issued[s] < MaxPair
  BY DEF IssueNext
<1>6. issued' \in [Session -> 0..MaxPair]
  BY <1>1 DEF TypeOK
<1>2. PICK q \in Quality : quality' = [quality EXCEPT ![s][issued[s] + 1] = q]
  BY DEF IssueNext
<1>3. issued[s] + 1 \in Pair
  BY <1>1 DEF TypeOK, Pair
<1>4. quality' \in [Session -> [Pair -> Quality]]
  BY <1>2, <1>3 DEF TypeOK
<1>5. \A t \in Session, p \in Pair : p <= issued[t] => quality'[t][p] = quality[t][p]
  BY <1>2, <1>3 DEF TypeOK, Pair
<1> QED
  BY <1>1, <1>4, <1>5, <1>6 DEF TypeOK

\* A call that arrives late issues the next pair and then its answer is lost.
LEMMA LateCallEffect ==
    ASSUME TypeOK, NEW s \in Session, NEW p \in Pair, HubServesLateCall(s, p)
    PROVE  /\ issued' \in [Session -> 0..MaxPair]
           /\ quality' \in [Session -> [Pair -> Quality]]
           /\ lost' \in [Session -> BOOLEAN]
           /\ \A t \in Session : issued[t] <= issued'[t]
           /\ \A t \in Session : issued'[t] # issued[t] => lost'[t]
           /\ \A t \in Session : lost[t] => lost'[t]
           /\ \A t \in Session, n \in Pair :
                 n <= issued[t] => quality'[t][n] = quality[t][n]
<1>1. CASE UNCHANGED <<issued, quality, lost>>
  BY <1>1 DEF TypeOK
<1>2. CASE IssueNext(s) /\ lost' = [lost EXCEPT ![s] = TRUE]
  <2>1. /\ issued' \in [Session -> 0..MaxPair]
        /\ quality' \in [Session -> [Pair -> Quality]]
        /\ issued'[s] = issued[s] + 1
        /\ \A t \in Session : t # s => issued'[t] = issued[t]
        /\ \A t \in Session, n \in Pair :
              n <= issued[t] => quality'[t][n] = quality[t][n]
    BY <1>2, IssueNextEffect
  <2>2. lost' \in [Session -> BOOLEAN] /\ \A t \in Session : lost'[t] = (lost[t] \/ t = s)
    BY <1>2 DEF TypeOK
  <2>3. ASSUME NEW t \in Session PROVE issued[t] <= issued'[t]
    <3>1. issued[t] \in Nat /\ issued[s] \in Nat
      BY DEF TypeOK
    <3> QED
      BY <2>1, <3>1
  <2> QED
    BY <2>1, <2>2, <2>3
<1> QED
  BY <1>1, <1>2 DEF HubServesLateCall

-----------------------------------------------------------------------------
(* Every step preserves every conjunct of IndInv.                            *)

\* Every handler and every step of the environment keeps the types.
LEMMA TypeOKStep ==
    ASSUME IndInv, Next
    PROVE  TypeOK'
<1> USE DEF IndInv, TypeOK, AnswerIsNewest, table, time, hub, handlers, GoTo,
        Pair, Quality, AccessExpired, RefreshExpired, PC, Handling, InRefresh,
        Deleting, Ended
<1>1. ASSUME NEW r \in Request, NEW s \in Session, Authenticate(r, s) PROVE TypeOK'
  BY <1>1 DEF Authenticate, FindActiveSession, ReadStep, Decide, Available
<1>2. ASSUME NEW r \in Request, NEW s \in Session, Logout(r, s) PROVE TypeOK'
  BY <1>2 DEF Logout, Available
<1>3. ASSUME NEW r \in Request, NEW h \in Sid, BackchannelLogout(r, h) PROVE TypeOK'
  BY <1>3 DEF BackchannelLogout, Available
<1>4. ASSUME NEW r \in Request, NEW s \in Session, NEW previous \in SUBSET Session, Login(r, s, previous) PROVE TypeOK'
  BY <1>4 DEF Login, Available
<1>5. ASSUME NEW r \in Request, VerifyStoredToken(r) PROVE TypeOK'
  BY <1>5 DEF VerifyStoredToken, Judge, Decide, StoredTokenStep, Verdicts, Verdict
<1>6. ASSUME NEW r \in Request, VerifyRefreshedToken(r) PROVE TypeOK'
  BY <1>6 DEF VerifyRefreshedToken, Judge, Decide, RefreshedTokenStep, Verdicts, Verdict
<1>7. ASSUME NEW r \in Request, LockFindsNoSession(r) PROVE TypeOK'
  BY <1>7 DEF LockFindsNoSession
<1>8. ASSUME NEW r \in Request, LockFindsOtherToken(r) PROVE TypeOK'
  BY <1>8 DEF LockFindsOtherToken
<1>9. ASSUME NEW r \in Request, LockFindsExpiredToken(r) PROVE TypeOK'
  BY <1>9 DEF LockFindsExpiredToken
<1>10. ASSUME NEW r \in Request, SaveTokens(r) PROVE TypeOK'
  BY <1>10, SMTT(30) DEF SaveTokens
<1>11. ASSUME NEW r \in Request, DeleteRefused(r) PROVE TypeOK'
  BY <1>11 DEF DeleteRefused
<1>12. ASSUME NEW r \in Request, RefreshFails(r) PROVE TypeOK'
  BY <1>12 DEF RefreshFails
<1>13. ASSUME NEW r \in Request, RereadSession(r) PROVE TypeOK'
  BY <1>13, SMTT(30) DEF RereadSession, FindActiveSession, ReadStep, Decide
<1>14. ASSUME NEW r \in Request, DeleteRows(r) PROVE TypeOK'
  BY <1>14 DEF DeleteRows, AfterDelete
<1>15. ASSUME NEW r \in Request, LogoutIdentitySession(r) PROVE TypeOK'
  BY <1>15 DEF LogoutIdentitySession
<1>16. ASSUME NEW r \in Request, PurgeExpired(r) PROVE TypeOK'
  BY <1>16 DEF PurgeExpired
<1>17. ASSUME NEW r \in Request, InsertSession(r) PROVE TypeOK'
  <2>1. pair' \in [Session -> 0..MaxPair]
    BY <1>17 DEF InsertSession
  <2> QED
    BY <1>17, <2>1 DEF InsertSession
<1>18. ASSUME NEW r \in Request, StatementFails(r) PROVE TypeOK'
  BY <1>18 DEF StatementFails
<1>19. ASSUME NEW r \in Request, HubRotates(r) PROVE TypeOK'
  BY <1>19 DEF HubRotates, HubAccepts, IssueNext
<1>20. ASSUME NEW r \in Request, HubRefuses(r) PROVE TypeOK'
  BY <1>20 DEF HubRefuses, HubAccepts
<1>21. ASSUME NEW s \in Session, NEW p \in Pair, HubServesLateCall(s, p) PROVE TypeOK'
  <2> HIDE DEF IndInv, TypeOK
  <2>1. TypeOK
    BY DEF IndInv
  <2>2. /\ issued' \in [Session -> 0..MaxPair]
        /\ quality' \in [Session -> [Pair -> Quality]]
        /\ lost' \in [Session -> BOOLEAN]
    BY <1>21, <2>1, LateCallEffect
  <2> QED
    BY <1>21, <2>1, <2>2 DEF HubServesLateCall, TypeOK
<1>22. ASSUME NEW h \in Sid, HubRevokes(h) PROVE TypeOK'
  BY <1>22 DEF HubRevokes
<1>23. ASSUME NEW s \in Session, AccessTokenExpires(s) PROVE TypeOK'
  BY <1>23 DEF AccessTokenExpires
<1>24. ASSUME NEW s \in Session, RefreshTokenExpires(s) PROVE TypeOK'
  <2>1. refreshExpired' \in [Session -> 0..MaxPair]
    BY <1>24 DEF RefreshTokenExpires
  <2> QED
    BY <1>24, <2>1 DEF RefreshTokenExpires
<1>25. ASSUME Crash PROVE TypeOK'
  BY <1>25 DEF Crash
<1> HIDE DEF IndInv, TypeOK, AnswerIsNewest, table, time, hub, handlers, GoTo,
        Pair, Quality, AccessExpired, RefreshExpired, PC, Handling, InRefresh,
        Deleting, Ended
<1> QED
  BY <1>1, <1>2, <1>3, <1>4, <1>5, <1>6, <1>7, <1>8, <1>9, <1>10, <1>11,
     <1>12, <1>13, <1>14, <1>15, <1>16, <1>17, <1>18, <1>19, <1>20, <1>21,
     <1>22, <1>23, <1>24, <1>25
  DEF Next, Arrive, Step, Proceed, Environment

\* A row lock is taken and released with its refresh, and nothing else writes
\* the row meanwhile.
LEMMA LockGuardsRefreshStep ==
    ASSUME IndInv, Next
    PROVE  LockGuardsRefresh'
<1> USE DEF IndInv, TypeOK, LockGuardsRefresh, InsertedOnce, table, time, hub,
        handlers, GoTo, Pair, Quality, AccessExpired, RefreshExpired,
        InRefresh, Handling, Deleting, Ended
<1>1. ASSUME NEW r \in Request, NEW s \in Session, Authenticate(r, s) PROVE LockGuardsRefresh'
  BY <1>1 DEF Authenticate, FindActiveSession, ReadStep, Decide, Available
<1>2. ASSUME NEW r \in Request, NEW s \in Session, Logout(r, s) PROVE LockGuardsRefresh'
  BY <1>2 DEF Logout, Available
<1>3. ASSUME NEW r \in Request, NEW h \in Sid, BackchannelLogout(r, h) PROVE LockGuardsRefresh'
  BY <1>3 DEF BackchannelLogout, Available
<1>4. ASSUME NEW r \in Request, NEW s \in Session, NEW previous \in SUBSET Session, Login(r, s, previous) PROVE LockGuardsRefresh'
  BY <1>4 DEF Login, Available
<1>5. ASSUME NEW r \in Request, VerifyStoredToken(r) PROVE LockGuardsRefresh'
  BY <1>5 DEF VerifyStoredToken, Judge, Decide, StoredTokenStep, Verdicts, Verdict
<1>6. ASSUME NEW r \in Request, VerifyRefreshedToken(r) PROVE LockGuardsRefresh'
  BY <1>6 DEF VerifyRefreshedToken, Judge, Decide, RefreshedTokenStep, Verdicts, Verdict
<1>7. ASSUME NEW r \in Request, LockFindsNoSession(r) PROVE LockGuardsRefresh'
  BY <1>7 DEF LockFindsNoSession
<1>8. ASSUME NEW r \in Request, LockFindsOtherToken(r) PROVE LockGuardsRefresh'
  BY <1>8 DEF LockFindsOtherToken
<1>9. ASSUME NEW r \in Request, LockFindsExpiredToken(r) PROVE LockGuardsRefresh'
  BY <1>9 DEF LockFindsExpiredToken
<1>10. ASSUME NEW r \in Request, SaveTokens(r) PROVE LockGuardsRefresh'
  BY <1>10 DEF SaveTokens
<1>11. ASSUME NEW r \in Request, DeleteRefused(r) PROVE LockGuardsRefresh'
  BY <1>11 DEF DeleteRefused
<1>12. ASSUME NEW r \in Request, RefreshFails(r) PROVE LockGuardsRefresh'
  BY <1>12 DEF RefreshFails
<1>13. ASSUME NEW r \in Request, RereadSession(r) PROVE LockGuardsRefresh'
  BY <1>13 DEF RereadSession, FindActiveSession, ReadStep, Decide
<1>14. ASSUME NEW r \in Request, DeleteRows(r) PROVE LockGuardsRefresh'
  BY <1>14 DEF DeleteRows, AfterDelete
<1>15. ASSUME NEW r \in Request, LogoutIdentitySession(r) PROVE LockGuardsRefresh'
  BY <1>15 DEF LogoutIdentitySession
<1>16. ASSUME NEW r \in Request, PurgeExpired(r) PROVE LockGuardsRefresh'
  BY <1>16 DEF PurgeExpired
<1>17. ASSUME NEW r \in Request, InsertSession(r) PROVE LockGuardsRefresh'
  BY <1>17 DEF InsertSession
<1>18. ASSUME NEW r \in Request, StatementFails(r) PROVE LockGuardsRefresh'
  BY <1>18 DEF StatementFails
<1>19. ASSUME NEW r \in Request, HubRotates(r) PROVE LockGuardsRefresh'
  BY <1>19 DEF HubRotates, HubAccepts, IssueNext
<1>20. ASSUME NEW r \in Request, HubRefuses(r) PROVE LockGuardsRefresh'
  BY <1>20 DEF HubRefuses, HubAccepts
<1>21. ASSUME NEW s \in Session, NEW p \in Pair, HubServesLateCall(s, p) PROVE LockGuardsRefresh'
  BY <1>21 DEF HubServesLateCall, HubAccepts, IssueNext
<1>22. ASSUME NEW h \in Sid, HubRevokes(h) PROVE LockGuardsRefresh'
  BY <1>22 DEF HubRevokes
<1>23. ASSUME NEW s \in Session, AccessTokenExpires(s) PROVE LockGuardsRefresh'
  BY <1>23 DEF AccessTokenExpires
<1>24. ASSUME NEW s \in Session, RefreshTokenExpires(s) PROVE LockGuardsRefresh'
  BY <1>24 DEF RefreshTokenExpires
<1>25. ASSUME Crash PROVE LockGuardsRefresh'
  BY <1>25 DEF Crash
<1> HIDE DEF IndInv, TypeOK, LockGuardsRefresh, InsertedOnce, table, time, hub,
        handlers, GoTo, Pair, Quality, AccessExpired, RefreshExpired,
        InRefresh, Handling, Deleting, Ended
<1> QED
  BY <1>1, <1>2, <1>3, <1>4, <1>5, <1>6, <1>7, <1>8, <1>9, <1>10, <1>11,
     <1>12, <1>13, <1>14, <1>15, <1>16, <1>17, <1>18, <1>19, <1>20, <1>21,
     <1>22, <1>23, <1>24, <1>25
  DEF Next, Arrive, Step, Proceed, Environment

\* Session ids are random: one login inserts each.
LEMMA InsertedOnceStep ==
    ASSUME IndInv, Next
    PROVE  InsertedOnce'
<1> USE DEF IndInv, TypeOK, InsertedOnce, WorksOnInserted, table, time, hub,
        handlers, GoTo, Pair, Quality, AccessExpired, RefreshExpired,
        HasSession, Handling, InRefresh, Deleting, Ended
<1>1. ASSUME NEW r \in Request, NEW s \in Session, Authenticate(r, s) PROVE InsertedOnce'
  BY <1>1 DEF Authenticate, FindActiveSession, ReadStep, Decide, Available
<1>2. ASSUME NEW r \in Request, NEW s \in Session, Logout(r, s) PROVE InsertedOnce'
  BY <1>2 DEF Logout, Available
<1>3. ASSUME NEW r \in Request, NEW h \in Sid, BackchannelLogout(r, h) PROVE InsertedOnce'
  BY <1>3 DEF BackchannelLogout, Available
<1>4. ASSUME NEW r \in Request, NEW s \in Session, NEW previous \in SUBSET Session,
             Login(r, s, previous)
      PROVE  InsertedOnce'
  <2>1. /\ pc' = [pc EXCEPT ![r] = "purging"] /\ on' = [on EXCEPT ![r] = s]
        /\ issued' = [issued EXCEPT ![s] = 1] /\ row' = row /\ onWire' = onWire
        /\ issued[s] = 0 /\ row[s] = "none"
    BY <1>4 DEF Login
  <2>2. \A q \in Request : pc[q] \in {"purging", "inserting"} => on[q] # s
    BY <2>1
  <2>3. \A q \in Request \ {r} : pc'[q] = pc[q] /\ on'[q] = on[q]
    BY <2>1
  <2>4. \A q \in Session \ {s} : issued'[q] = issued[q]
    BY <2>1
  <2>5. pc'[r] = "purging" /\ on'[r] = s /\ issued'[s] = 1
    BY <2>1
  <2>6. \A q \in Session : issued'[q] = 0 => issued[q] = 0
    BY <2>1, <2>4, <2>5
  <2> HIDE DEF IndInv, TypeOK, WorksOnInserted, GoTo, table, time, hub, handlers
  <2>7. InsertedOnce
    BY DEF IndInv
  <2> QED
    BY <2>1, <2>2, <2>3, <2>4, <2>5, <2>6, <2>7
<1>5. ASSUME NEW r \in Request, VerifyStoredToken(r) PROVE InsertedOnce'
  BY <1>5 DEF VerifyStoredToken, Judge, Decide, StoredTokenStep, Verdicts, Verdict
<1>6. ASSUME NEW r \in Request, VerifyRefreshedToken(r) PROVE InsertedOnce'
  BY <1>6 DEF VerifyRefreshedToken, Judge, Decide, RefreshedTokenStep, Verdicts, Verdict
<1>7. ASSUME NEW r \in Request, LockFindsNoSession(r) PROVE InsertedOnce'
  BY <1>7 DEF LockFindsNoSession
<1>8. ASSUME NEW r \in Request, LockFindsOtherToken(r) PROVE InsertedOnce'
  BY <1>8 DEF LockFindsOtherToken
<1>9. ASSUME NEW r \in Request, LockFindsExpiredToken(r) PROVE InsertedOnce'
  BY <1>9 DEF LockFindsExpiredToken
<1>10. ASSUME NEW r \in Request, SaveTokens(r) PROVE InsertedOnce'
  BY <1>10 DEF SaveTokens
<1>11. ASSUME NEW r \in Request, DeleteRefused(r) PROVE InsertedOnce'
  BY <1>11 DEF DeleteRefused
<1>12. ASSUME NEW r \in Request, RefreshFails(r) PROVE InsertedOnce'
  <2>1. row[on[r]] # "none"
    BY <1>12 DEF RefreshFails
  <2>2. \A s \in Session, p \in 0..MaxPair :
          <<s, p>> \in onWire' => <<s, p>> \in onWire \/ s = on[r]
    BY <1>12 DEF RefreshFails
  <2> QED
    BY <1>12, <2>1, <2>2 DEF RefreshFails
<1>13. ASSUME NEW r \in Request, RereadSession(r) PROVE InsertedOnce'
  BY <1>13 DEF RereadSession, FindActiveSession, ReadStep, Decide
<1>14. ASSUME NEW r \in Request, DeleteRows(r) PROVE InsertedOnce'
  BY <1>14 DEF DeleteRows, AfterDelete
<1>15. ASSUME NEW r \in Request, LogoutIdentitySession(r) PROVE InsertedOnce'
  BY <1>15 DEF LogoutIdentitySession
<1>16. ASSUME NEW r \in Request, PurgeExpired(r) PROVE InsertedOnce'
  BY <1>16 DEF PurgeExpired
<1>17. ASSUME NEW r \in Request, InsertSession(r) PROVE InsertedOnce'
  BY <1>17 DEF InsertSession
<1>18. ASSUME NEW r \in Request, StatementFails(r) PROVE InsertedOnce'
  BY <1>18 DEF StatementFails
<1>19. ASSUME NEW r \in Request, HubRotates(r) PROVE InsertedOnce'
  BY <1>19 DEF HubRotates, HubAccepts, IssueNext
<1>20. ASSUME NEW r \in Request, HubRefuses(r) PROVE InsertedOnce'
  BY <1>20 DEF HubRefuses, HubAccepts
<1>21. ASSUME NEW s \in Session, NEW p \in Pair, HubServesLateCall(s, p) PROVE InsertedOnce'
  BY <1>21 DEF HubServesLateCall, HubAccepts, IssueNext
<1>22. ASSUME NEW h \in Sid, HubRevokes(h) PROVE InsertedOnce'
  BY <1>22 DEF HubRevokes
<1>23. ASSUME NEW s \in Session, AccessTokenExpires(s) PROVE InsertedOnce'
  BY <1>23 DEF AccessTokenExpires
<1>24. ASSUME NEW s \in Session, RefreshTokenExpires(s) PROVE InsertedOnce'
  BY <1>24 DEF RefreshTokenExpires
<1>25. ASSUME Crash PROVE InsertedOnce'
  <2>1. \A s \in Session, p \in 0..MaxPair : <<s, p>> \in onWire' =>
          <<s, p>> \in onWire \/ \E r \in Request : pc[r] = "calling" /\ on[r] = s
    BY <1>25 DEF Crash
  <2>2. \A r \in Request : pc[r] = "calling" => row[on[r]] # "none"
    OBVIOUS
  <2> QED
    BY <1>25, <2>1, <2>2 DEF Crash
<1> HIDE DEF IndInv, TypeOK, InsertedOnce, WorksOnInserted, table, time, hub,
        handlers, GoTo, Pair, Quality, AccessExpired, RefreshExpired,
        HasSession, Handling, InRefresh, Deleting, Ended
<1> QED
  BY <1>1, <1>2, <1>3, <1>4, <1>5, <1>6, <1>7, <1>8, <1>9, <1>10, <1>11,
     <1>12, <1>13, <1>14, <1>15, <1>16, <1>17, <1>18, <1>19, <1>20, <1>21,
     <1>22, <1>23, <1>24, <1>25
  DEF Next, Arrive, Step, Proceed, Environment

\* Handlers learn a session id from a row or a cookie set after its INSERT.
LEMMA WorksOnInsertedStep ==
    ASSUME IndInv, Next
    PROVE  WorksOnInserted'
<1> USE DEF IndInv, TypeOK, InsertedOnce, WorksOnInserted, table, time, hub,
        handlers, GoTo, Pair, Quality, AccessExpired, RefreshExpired,
        HasSession, Handling, InRefresh, Deleting, Ended
<1>1. ASSUME NEW r \in Request, NEW s \in Session, Authenticate(r, s) PROVE WorksOnInserted'
  BY <1>1 DEF Authenticate, FindActiveSession, ReadStep, Decide, Available
<1>2. ASSUME NEW r \in Request, NEW s \in Session, Logout(r, s) PROVE WorksOnInserted'
  BY <1>2 DEF Logout, Available
<1>3. ASSUME NEW r \in Request, NEW h \in Sid, BackchannelLogout(r, h) PROVE WorksOnInserted'
  BY <1>3 DEF BackchannelLogout, Available
<1>4. ASSUME NEW r \in Request, NEW s \in Session, NEW previous \in SUBSET Session, Login(r, s, previous) PROVE WorksOnInserted'
  BY <1>4 DEF Login, Available
<1>5. ASSUME NEW r \in Request, VerifyStoredToken(r) PROVE WorksOnInserted'
  <2>1. PICK step \in {"dropping", "locking", "authenticated", "failed"} : Judge(r, step)
    BY <1>5 DEF VerifyStoredToken, StoredTokenStep
  <2>2. row[on[r]] # "none"
    BY <1>5 DEF VerifyStoredToken
  <2> QED
    BY <2>1, <2>2 DEF Judge, Decide
<1>6. ASSUME NEW r \in Request, VerifyRefreshedToken(r) PROVE WorksOnInserted'
  <2>1. PICK step \in {"dropping", "authenticated", "failed"} : Judge(r, step)
    BY <1>6 DEF VerifyRefreshedToken, RefreshedTokenStep
  <2>2. row[on[r]] # "none"
    BY <1>6 DEF VerifyRefreshedToken
  <2> QED
    BY <2>1, <2>2 DEF Judge, Decide
<1>7. ASSUME NEW r \in Request, LockFindsNoSession(r) PROVE WorksOnInserted'
  BY <1>7 DEF LockFindsNoSession
<1>8. ASSUME NEW r \in Request, LockFindsOtherToken(r) PROVE WorksOnInserted'
  BY <1>8 DEF LockFindsOtherToken
<1>9. ASSUME NEW r \in Request, LockFindsExpiredToken(r) PROVE WorksOnInserted'
  BY <1>9 DEF LockFindsExpiredToken
<1>10. ASSUME NEW r \in Request, SaveTokens(r) PROVE WorksOnInserted'
  BY <1>10 DEF SaveTokens
<1>11. ASSUME NEW r \in Request, DeleteRefused(r) PROVE WorksOnInserted'
  BY <1>11 DEF DeleteRefused
<1>12. ASSUME NEW r \in Request, RefreshFails(r) PROVE WorksOnInserted'
  BY <1>12 DEF RefreshFails
<1>13. ASSUME NEW r \in Request, RereadSession(r) PROVE WorksOnInserted'
  <2>1. PICK step \in {"rejected", "reaping", "reverifying"} : Decide(r, on[r], step)
    BY <1>13 DEF RereadSession, FindActiveSession, ReadStep
  <2>2. row[on[r]] # "none"
    BY <1>13 DEF RereadSession
  <2> QED
    BY <1>13, <2>1, <2>2 DEF RereadSession, FindActiveSession, Decide
<1>14. ASSUME NEW r \in Request, DeleteRows(r) PROVE WorksOnInserted'
  BY <1>14 DEF DeleteRows, AfterDelete
<1>15. ASSUME NEW r \in Request, LogoutIdentitySession(r) PROVE WorksOnInserted'
  BY <1>15 DEF LogoutIdentitySession
<1>16. ASSUME NEW r \in Request, PurgeExpired(r) PROVE WorksOnInserted'
  BY <1>16 DEF PurgeExpired
<1>17. ASSUME NEW r \in Request, InsertSession(r) PROVE WorksOnInserted'
  BY <1>17 DEF InsertSession
<1>18. ASSUME NEW r \in Request, StatementFails(r) PROVE WorksOnInserted'
  BY <1>18 DEF StatementFails
<1>19. ASSUME NEW r \in Request, HubRotates(r) PROVE WorksOnInserted'
  BY <1>19 DEF HubRotates, HubAccepts, IssueNext
<1>20. ASSUME NEW r \in Request, HubRefuses(r) PROVE WorksOnInserted'
  BY <1>20 DEF HubRefuses, HubAccepts
<1>21. ASSUME NEW s \in Session, NEW p \in Pair, HubServesLateCall(s, p) PROVE WorksOnInserted'
  BY <1>21 DEF HubServesLateCall, HubAccepts, IssueNext
<1>22. ASSUME NEW h \in Sid, HubRevokes(h) PROVE WorksOnInserted'
  BY <1>22 DEF HubRevokes
<1>23. ASSUME NEW s \in Session, AccessTokenExpires(s) PROVE WorksOnInserted'
  BY <1>23 DEF AccessTokenExpires
<1>24. ASSUME NEW s \in Session, RefreshTokenExpires(s) PROVE WorksOnInserted'
  BY <1>24 DEF RefreshTokenExpires
<1>25. ASSUME Crash PROVE WorksOnInserted'
  BY <1>25 DEF Crash
<1> HIDE DEF IndInv, TypeOK, InsertedOnce, WorksOnInserted, table, time, hub,
        handlers, GoTo, Pair, Quality, AccessExpired, RefreshExpired,
        HasSession, Handling, InRefresh, Deleting, Ended
<1> QED
  BY <1>1, <1>2, <1>3, <1>4, <1>5, <1>6, <1>7, <1>8, <1>9, <1>10, <1>11,
     <1>12, <1>13, <1>14, <1>15, <1>16, <1>17, <1>18, <1>19, <1>20, <1>21,
     <1>22, <1>23, <1>24, <1>25
  DEF Next, Arrive, Step, Proceed, Environment

\* Handlers store and read pairs Identity Hub has issued.
LEMMA PairsIssuedStep ==
    ASSUME IndInv, Next
    PROVE  PairsIssued'
<1> USE DEF IndInv, TypeOK, InsertedOnce, PairsIssued, AnswerIsNewest, table,
        time, hub, handlers, GoTo, Pair, Quality, AccessExpired,
        RefreshExpired, HasTokens, InRefresh, Deleting, Ended
<1>1. ASSUME NEW r \in Request, NEW s \in Session, Authenticate(r, s) PROVE PairsIssued'
  BY <1>1 DEF Authenticate, FindActiveSession, ReadStep, Decide, Available
<1>2. ASSUME NEW r \in Request, NEW s \in Session, Logout(r, s) PROVE PairsIssued'
  BY <1>2 DEF Logout, Available
<1>3. ASSUME NEW r \in Request, NEW h \in Sid, BackchannelLogout(r, h) PROVE PairsIssued'
  BY <1>3 DEF BackchannelLogout, Available
<1>4. ASSUME NEW r \in Request, NEW s \in Session, NEW previous \in SUBSET Session, Login(r, s, previous) PROVE PairsIssued'
  BY <1>4 DEF Login, Available
<1>5. ASSUME NEW r \in Request, VerifyStoredToken(r) PROVE PairsIssued'
  BY <1>5 DEF VerifyStoredToken, Judge, Decide, StoredTokenStep, Verdicts, Verdict
<1>6. ASSUME NEW r \in Request, VerifyRefreshedToken(r) PROVE PairsIssued'
  BY <1>6 DEF VerifyRefreshedToken, Judge, Decide, RefreshedTokenStep, Verdicts, Verdict
<1>7. ASSUME NEW r \in Request, LockFindsNoSession(r) PROVE PairsIssued'
  BY <1>7 DEF LockFindsNoSession
<1>8. ASSUME NEW r \in Request, LockFindsOtherToken(r) PROVE PairsIssued'
  BY <1>8 DEF LockFindsOtherToken
<1>9. ASSUME NEW r \in Request, LockFindsExpiredToken(r) PROVE PairsIssued'
  BY <1>9 DEF LockFindsExpiredToken
<1>10. ASSUME NEW r \in Request, SaveTokens(r) PROVE PairsIssued'
  BY <1>10 DEF SaveTokens
<1>11. ASSUME NEW r \in Request, DeleteRefused(r) PROVE PairsIssued'
  BY <1>11 DEF DeleteRefused
<1>12. ASSUME NEW r \in Request, RefreshFails(r) PROVE PairsIssued'
  BY <1>12 DEF RefreshFails
<1>13. ASSUME NEW r \in Request, RereadSession(r) PROVE PairsIssued'
  BY <1>13 DEF RereadSession, FindActiveSession, ReadStep, Decide
<1>14. ASSUME NEW r \in Request, DeleteRows(r) PROVE PairsIssued'
  BY <1>14 DEF DeleteRows, AfterDelete
<1>15. ASSUME NEW r \in Request, LogoutIdentitySession(r) PROVE PairsIssued'
  BY <1>15 DEF LogoutIdentitySession
<1>16. ASSUME NEW r \in Request, PurgeExpired(r) PROVE PairsIssued'
  BY <1>16 DEF PurgeExpired
<1>17. ASSUME NEW r \in Request, InsertSession(r) PROVE PairsIssued'
  BY <1>17 DEF InsertSession
<1>18. ASSUME NEW r \in Request, StatementFails(r) PROVE PairsIssued'
  BY <1>18 DEF StatementFails
<1>19. ASSUME NEW r \in Request, HubRotates(r) PROVE PairsIssued'
  BY <1>19 DEF HubRotates, HubAccepts, IssueNext
<1>20. ASSUME NEW r \in Request, HubRefuses(r) PROVE PairsIssued'
  BY <1>20 DEF HubRefuses, HubAccepts
<1>21. ASSUME NEW s \in Session, NEW p \in Pair, HubServesLateCall(s, p) PROVE PairsIssued'
  <2> HIDE DEF IndInv, TypeOK
  <2>1. TypeOK
    BY DEF IndInv
  <2>2. \A t \in Session : issued'[t] \in 0..MaxPair /\ issued[t] <= issued'[t]
    BY <1>21, <2>1, LateCallEffect
  <2> QED
    BY <1>21, <2>2, SMTT(30) DEF HubServesLateCall, IndInv, TypeOK
<1>22. ASSUME NEW h \in Sid, HubRevokes(h) PROVE PairsIssued'
  BY <1>22 DEF HubRevokes
<1>23. ASSUME NEW s \in Session, AccessTokenExpires(s) PROVE PairsIssued'
  BY <1>23 DEF AccessTokenExpires
<1>24. ASSUME NEW s \in Session, RefreshTokenExpires(s) PROVE PairsIssued'
  BY <1>24 DEF RefreshTokenExpires
<1>25. ASSUME Crash PROVE PairsIssued'
  BY <1>25 DEF Crash
<1> HIDE DEF IndInv, TypeOK, InsertedOnce, PairsIssued, AnswerIsNewest, table,
        time, hub, handlers, GoTo, Pair, Quality, AccessExpired,
        RefreshExpired, HasTokens, InRefresh, Deleting, Ended
<1> QED
  BY <1>1, <1>2, <1>3, <1>4, <1>5, <1>6, <1>7, <1>8, <1>9, <1>10, <1>11,
     <1>12, <1>13, <1>14, <1>15, <1>16, <1>17, <1>18, <1>19, <1>20, <1>21,
     <1>22, <1>23, <1>24, <1>25
  DEF Next, Arrive, Step, Proceed, Environment

\* refreshSession is called for an expired access token only.
LEMMA RefreshesExpiredStep ==
    ASSUME IndInv, Next
    PROVE  RefreshesExpired'
<1> USE DEF IndInv, TypeOK, InsertedOnce, RefreshesExpired, table, time, hub,
        handlers, GoTo, Pair, Quality, AccessExpired, RefreshExpired,
        InRefresh, Deleting, Ended
<1>1. ASSUME NEW r \in Request, NEW s \in Session, Authenticate(r, s) PROVE RefreshesExpired'
  BY <1>1 DEF Authenticate, FindActiveSession, ReadStep, Decide, Available
<1>2. ASSUME NEW r \in Request, NEW s \in Session, Logout(r, s) PROVE RefreshesExpired'
  BY <1>2 DEF Logout, Available
<1>3. ASSUME NEW r \in Request, NEW h \in Sid, BackchannelLogout(r, h) PROVE RefreshesExpired'
  BY <1>3 DEF BackchannelLogout, Available
<1>4. ASSUME NEW r \in Request, NEW s \in Session, NEW previous \in SUBSET Session, Login(r, s, previous) PROVE RefreshesExpired'
  BY <1>4 DEF Login, Available
<1>5. ASSUME NEW r \in Request, VerifyStoredToken(r) PROVE RefreshesExpired'
  BY <1>5 DEF VerifyStoredToken, Judge, Decide, StoredTokenStep, Verdicts, Verdict
<1>6. ASSUME NEW r \in Request, VerifyRefreshedToken(r) PROVE RefreshesExpired'
  BY <1>6 DEF VerifyRefreshedToken, Judge, Decide, RefreshedTokenStep, Verdicts, Verdict
<1>7. ASSUME NEW r \in Request, LockFindsNoSession(r) PROVE RefreshesExpired'
  BY <1>7 DEF LockFindsNoSession
<1>8. ASSUME NEW r \in Request, LockFindsOtherToken(r) PROVE RefreshesExpired'
  BY <1>8 DEF LockFindsOtherToken
<1>9. ASSUME NEW r \in Request, LockFindsExpiredToken(r) PROVE RefreshesExpired'
  BY <1>9 DEF LockFindsExpiredToken
<1>10. ASSUME NEW r \in Request, SaveTokens(r) PROVE RefreshesExpired'
  BY <1>10 DEF SaveTokens
<1>11. ASSUME NEW r \in Request, DeleteRefused(r) PROVE RefreshesExpired'
  BY <1>11 DEF DeleteRefused
<1>12. ASSUME NEW r \in Request, RefreshFails(r) PROVE RefreshesExpired'
  BY <1>12 DEF RefreshFails
<1>13. ASSUME NEW r \in Request, RereadSession(r) PROVE RefreshesExpired'
  BY <1>13 DEF RereadSession, FindActiveSession, ReadStep, Decide
<1>14. ASSUME NEW r \in Request, DeleteRows(r) PROVE RefreshesExpired'
  BY <1>14 DEF DeleteRows, AfterDelete
<1>15. ASSUME NEW r \in Request, LogoutIdentitySession(r) PROVE RefreshesExpired'
  BY <1>15 DEF LogoutIdentitySession
<1>16. ASSUME NEW r \in Request, PurgeExpired(r) PROVE RefreshesExpired'
  BY <1>16 DEF PurgeExpired
<1>17. ASSUME NEW r \in Request, InsertSession(r) PROVE RefreshesExpired'
  BY <1>17 DEF InsertSession
<1>18. ASSUME NEW r \in Request, StatementFails(r) PROVE RefreshesExpired'
  BY <1>18 DEF StatementFails
<1>19. ASSUME NEW r \in Request, HubRotates(r) PROVE RefreshesExpired'
  BY <1>19 DEF HubRotates, HubAccepts, IssueNext
<1>20. ASSUME NEW r \in Request, HubRefuses(r) PROVE RefreshesExpired'
  BY <1>20 DEF HubRefuses, HubAccepts
<1>21. ASSUME NEW s \in Session, NEW p \in Pair, HubServesLateCall(s, p) PROVE RefreshesExpired'
  BY <1>21 DEF HubServesLateCall, HubAccepts, IssueNext
<1>22. ASSUME NEW h \in Sid, HubRevokes(h) PROVE RefreshesExpired'
  BY <1>22 DEF HubRevokes
<1>23. ASSUME NEW s \in Session, AccessTokenExpires(s) PROVE RefreshesExpired'
  <2>1. \A t \in Session : /\ accessExpired[t] \in Nat /\ accessExpired'[t] \in Nat
                           /\ accessExpired[t] <= accessExpired'[t]
    BY <1>23 DEF AccessTokenExpires
  <2>2. \A q \in Request : seen[q] \in Nat /\ on[q] \in Session
    OBVIOUS
  <2> QED
    BY <1>23, <2>1, <2>2 DEF AccessTokenExpires
<1>24. ASSUME NEW s \in Session, RefreshTokenExpires(s) PROVE RefreshesExpired'
  BY <1>24 DEF RefreshTokenExpires
<1>25. ASSUME Crash PROVE RefreshesExpired'
  BY <1>25 DEF Crash
<1> HIDE DEF IndInv, TypeOK, InsertedOnce, RefreshesExpired, table, time, hub,
        handlers, GoTo, Pair, Quality, AccessExpired, RefreshExpired,
        InRefresh, Deleting, Ended
<1> QED
  BY <1>1, <1>2, <1>3, <1>4, <1>5, <1>6, <1>7, <1>8, <1>9, <1>10, <1>11,
     <1>12, <1>13, <1>14, <1>15, <1>16, <1>17, <1>18, <1>19, <1>20, <1>21,
     <1>22, <1>23, <1>24, <1>25
  DEF Next, Arrive, Step, Proceed, Environment

\* While one refresh is answered no other call of the session is in progress,
\* so only a call that was given up can issue another pair.
LEMMA AnswerIsNewestStep ==
    ASSUME IndInv, Next
    PROVE  AnswerIsNewest'
<1> USE DEF IndInv, TypeOK, LockGuardsRefresh, InsertedOnce, AnswerIsNewest,
        table, time, hub, handlers, GoTo, Pair, Quality, AccessExpired,
        RefreshExpired, InRefresh, Deleting, Ended
<1>1. ASSUME NEW r \in Request, NEW s \in Session, Authenticate(r, s) PROVE AnswerIsNewest'
  BY <1>1 DEF Authenticate, FindActiveSession, ReadStep, Decide, Available
<1>2. ASSUME NEW r \in Request, NEW s \in Session, Logout(r, s) PROVE AnswerIsNewest'
  BY <1>2 DEF Logout, Available
<1>3. ASSUME NEW r \in Request, NEW h \in Sid, BackchannelLogout(r, h) PROVE AnswerIsNewest'
  BY <1>3 DEF BackchannelLogout, Available
<1>4. ASSUME NEW r \in Request, NEW s \in Session, NEW previous \in SUBSET Session, Login(r, s, previous) PROVE AnswerIsNewest'
  BY <1>4 DEF Login, Available
<1>5. ASSUME NEW r \in Request, VerifyStoredToken(r) PROVE AnswerIsNewest'
  BY <1>5 DEF VerifyStoredToken, Judge, Decide, StoredTokenStep, Verdicts, Verdict
<1>6. ASSUME NEW r \in Request, VerifyRefreshedToken(r) PROVE AnswerIsNewest'
  BY <1>6 DEF VerifyRefreshedToken, Judge, Decide, RefreshedTokenStep, Verdicts, Verdict
<1>7. ASSUME NEW r \in Request, LockFindsNoSession(r) PROVE AnswerIsNewest'
  BY <1>7 DEF LockFindsNoSession
<1>8. ASSUME NEW r \in Request, LockFindsOtherToken(r) PROVE AnswerIsNewest'
  BY <1>8 DEF LockFindsOtherToken
<1>9. ASSUME NEW r \in Request, LockFindsExpiredToken(r) PROVE AnswerIsNewest'
  BY <1>9 DEF LockFindsExpiredToken
<1>10. ASSUME NEW r \in Request, SaveTokens(r) PROVE AnswerIsNewest'
  BY <1>10 DEF SaveTokens
<1>11. ASSUME NEW r \in Request, DeleteRefused(r) PROVE AnswerIsNewest'
  BY <1>11 DEF DeleteRefused
<1>12. ASSUME NEW r \in Request, RefreshFails(r) PROVE AnswerIsNewest'
  BY <1>12 DEF RefreshFails
<1>13. ASSUME NEW r \in Request, RereadSession(r) PROVE AnswerIsNewest'
  BY <1>13 DEF RereadSession, FindActiveSession, ReadStep, Decide
<1>14. ASSUME NEW r \in Request, DeleteRows(r) PROVE AnswerIsNewest'
  BY <1>14 DEF DeleteRows, AfterDelete
<1>15. ASSUME NEW r \in Request, LogoutIdentitySession(r) PROVE AnswerIsNewest'
  BY <1>15 DEF LogoutIdentitySession
<1>16. ASSUME NEW r \in Request, PurgeExpired(r) PROVE AnswerIsNewest'
  BY <1>16 DEF PurgeExpired
<1>17. ASSUME NEW r \in Request, InsertSession(r) PROVE AnswerIsNewest'
  BY <1>17 DEF InsertSession
<1>18. ASSUME NEW r \in Request, StatementFails(r) PROVE AnswerIsNewest'
  BY <1>18 DEF StatementFails
<1>19. ASSUME NEW r \in Request, HubRotates(r) PROVE AnswerIsNewest'
  BY <1>19 DEF HubRotates, HubAccepts, IssueNext
<1>20. ASSUME NEW r \in Request, HubRefuses(r) PROVE AnswerIsNewest'
  BY <1>20 DEF HubRefuses, HubAccepts
<1>21. ASSUME NEW s \in Session, NEW p \in Pair, HubServesLateCall(s, p) PROVE AnswerIsNewest'
  <2> HIDE DEF IndInv, TypeOK
  <2>1. TypeOK
    BY DEF IndInv
  <2>2. \A t \in Session : /\ issued'[t] \in 0..MaxPair /\ issued[t] <= issued'[t]
                           /\ issued'[t] # issued[t] => lost'[t]
                           /\ lost[t] => lost'[t]
    BY <1>21, <2>1, LateCallEffect
  <2> QED
    BY <1>21, <2>2 DEF HubServesLateCall, IndInv, TypeOK
<1>22. ASSUME NEW h \in Sid, HubRevokes(h) PROVE AnswerIsNewest'
  BY <1>22 DEF HubRevokes
<1>23. ASSUME NEW s \in Session, AccessTokenExpires(s) PROVE AnswerIsNewest'
  BY <1>23 DEF AccessTokenExpires
<1>24. ASSUME NEW s \in Session, RefreshTokenExpires(s) PROVE AnswerIsNewest'
  BY <1>24 DEF RefreshTokenExpires
<1>25. ASSUME Crash PROVE AnswerIsNewest'
  BY <1>25 DEF Crash
<1> HIDE DEF IndInv, TypeOK, LockGuardsRefresh, InsertedOnce, AnswerIsNewest,
        table, time, hub, handlers, GoTo, Pair, Quality, AccessExpired,
        RefreshExpired, InRefresh, Deleting, Ended
<1> QED
  BY <1>1, <1>2, <1>3, <1>4, <1>5, <1>6, <1>7, <1>8, <1>9, <1>10, <1>11,
     <1>12, <1>13, <1>14, <1>15, <1>16, <1>17, <1>18, <1>19, <1>20, <1>21,
     <1>22, <1>23, <1>24, <1>25
  DEF Next, Arrive, Step, Proceed, Environment

\* The stored pair falls behind Identity Hub only when an answer is lost.
LEMMA StoredPairIsNewestStep ==
    ASSUME IndInv, Next
    PROVE  StoredPairIsNewest'
<1> USE DEF IndInv, TypeOK, LockGuardsRefresh, InsertedOnce, AnswerIsNewest,
        StoredPairIsNewest, table, time, hub, handlers, GoTo, Pair, Quality,
        AccessExpired, RefreshExpired, InRefresh, Deleting, Ended
<1>1. ASSUME NEW r \in Request, NEW s \in Session, Authenticate(r, s) PROVE StoredPairIsNewest'
  BY <1>1 DEF Authenticate, FindActiveSession, ReadStep, Decide, Available
<1>2. ASSUME NEW r \in Request, NEW s \in Session, Logout(r, s) PROVE StoredPairIsNewest'
  BY <1>2 DEF Logout, Available
<1>3. ASSUME NEW r \in Request, NEW h \in Sid, BackchannelLogout(r, h) PROVE StoredPairIsNewest'
  BY <1>3 DEF BackchannelLogout, Available
<1>4. ASSUME NEW r \in Request, NEW s \in Session, NEW previous \in SUBSET Session, Login(r, s, previous) PROVE StoredPairIsNewest'
  BY <1>4 DEF Login, Available
<1>5. ASSUME NEW r \in Request, VerifyStoredToken(r) PROVE StoredPairIsNewest'
  BY <1>5 DEF VerifyStoredToken, Judge, Decide, StoredTokenStep, Verdicts, Verdict
<1>6. ASSUME NEW r \in Request, VerifyRefreshedToken(r) PROVE StoredPairIsNewest'
  BY <1>6 DEF VerifyRefreshedToken, Judge, Decide, RefreshedTokenStep, Verdicts, Verdict
<1>7. ASSUME NEW r \in Request, LockFindsNoSession(r) PROVE StoredPairIsNewest'
  BY <1>7 DEF LockFindsNoSession
<1>8. ASSUME NEW r \in Request, LockFindsOtherToken(r) PROVE StoredPairIsNewest'
  BY <1>8 DEF LockFindsOtherToken
<1>9. ASSUME NEW r \in Request, LockFindsExpiredToken(r) PROVE StoredPairIsNewest'
  BY <1>9 DEF LockFindsExpiredToken
<1>10. ASSUME NEW r \in Request, SaveTokens(r) PROVE StoredPairIsNewest'
  BY <1>10 DEF SaveTokens
<1>11. ASSUME NEW r \in Request, DeleteRefused(r) PROVE StoredPairIsNewest'
  BY <1>11 DEF DeleteRefused
<1>12. ASSUME NEW r \in Request, RefreshFails(r) PROVE StoredPairIsNewest'
  <2> SUFFICES ASSUME NEW s \in Session, row[s] = "live", pair[s] # issued[s], ~lost'[s]
               PROVE  \E q \in Request : rowLock'[s] = q /\ pc'[q] = "answered"
    BY <1>12 DEF RefreshFails
  <2>1. PICK q \in Request : rowLock[s] = q /\ pc[q] = "answered" /\ on[q] = s
    BY <1>12 DEF RefreshFails
  <2>2. ASSUME q = r PROVE FALSE
    <3>1. lost' = [lost EXCEPT ![on[r]] = lost[on[r]] \/ pc[r] = "answered"]
      BY <1>12, Zenon DEF RefreshFails
    <3>2. s \in DOMAIN lost
      BY Zenon
    <3> HIDE DEF IndInv, TypeOK, LockGuardsRefresh, InsertedOnce, AnswerIsNewest,
             StoredPairIsNewest, table, time, hub, handlers
    <3>3. lost'[s]
      BY <2>1, <2>2, <3>1, <3>2, Zenon
    <3> QED
      BY <3>3
  <2>3. on[r] # s
    BY <1>12, <2>1, <2>2 DEF RefreshFails
  <2> QED
    BY <1>12, <2>1, <2>2, <2>3 DEF RefreshFails
<1>13. ASSUME NEW r \in Request, RereadSession(r) PROVE StoredPairIsNewest'
  BY <1>13 DEF RereadSession, FindActiveSession, ReadStep, Decide
<1>14. ASSUME NEW r \in Request, DeleteRows(r) PROVE StoredPairIsNewest'
  BY <1>14 DEF DeleteRows, AfterDelete
<1>15. ASSUME NEW r \in Request, LogoutIdentitySession(r) PROVE StoredPairIsNewest'
  BY <1>15 DEF LogoutIdentitySession
<1>16. ASSUME NEW r \in Request, PurgeExpired(r) PROVE StoredPairIsNewest'
  BY <1>16 DEF PurgeExpired
<1>17. ASSUME NEW r \in Request, InsertSession(r) PROVE StoredPairIsNewest'
  BY <1>17 DEF InsertSession
<1>18. ASSUME NEW r \in Request, StatementFails(r) PROVE StoredPairIsNewest'
  BY <1>18 DEF StatementFails
<1>19. ASSUME NEW r \in Request, HubRotates(r) PROVE StoredPairIsNewest'
  BY <1>19 DEF HubRotates, HubAccepts, IssueNext
<1>20. ASSUME NEW r \in Request, HubRefuses(r) PROVE StoredPairIsNewest'
  BY <1>20 DEF HubRefuses, HubAccepts
<1>21. ASSUME NEW s \in Session, NEW p \in Pair, HubServesLateCall(s, p) PROVE StoredPairIsNewest'
  <2> HIDE DEF IndInv, TypeOK
  <2>1. TypeOK
    BY DEF IndInv
  <2>2. \A t \in Session : (issued'[t] # issued[t] => lost'[t]) /\ (lost[t] => lost'[t])
    BY <1>21, <2>1, LateCallEffect
  <2> QED
    BY <1>21, <2>2 DEF HubServesLateCall, IndInv, TypeOK
<1>22. ASSUME NEW h \in Sid, HubRevokes(h) PROVE StoredPairIsNewest'
  BY <1>22 DEF HubRevokes
<1>23. ASSUME NEW s \in Session, AccessTokenExpires(s) PROVE StoredPairIsNewest'
  BY <1>23 DEF AccessTokenExpires
<1>24. ASSUME NEW s \in Session, RefreshTokenExpires(s) PROVE StoredPairIsNewest'
  BY <1>24 DEF RefreshTokenExpires
<1>25. ASSUME Crash PROVE StoredPairIsNewest'
  <2> SUFFICES ASSUME NEW s \in Session, row[s] = "live", pair[s] # issued[s], ~lost'[s]
               PROVE  FALSE
    BY <1>25 DEF Crash
  <2>1. PICK q \in Request : pc[q] = "answered" /\ on[q] = s
    BY <1>25 DEF Crash
  <2> QED
    BY <1>25, <2>1 DEF Crash
<1> HIDE DEF IndInv, TypeOK, LockGuardsRefresh, InsertedOnce, AnswerIsNewest,
        StoredPairIsNewest, table, time, hub, handlers, GoTo, Pair, Quality,
        AccessExpired, RefreshExpired, InRefresh, Deleting, Ended
<1> QED
  BY <1>1, <1>2, <1>3, <1>4, <1>5, <1>6, <1>7, <1>8, <1>9, <1>10, <1>11,
     <1>12, <1>13, <1>14, <1>15, <1>16, <1>17, <1>18, <1>19, <1>20, <1>21,
     <1>22, <1>23, <1>24, <1>25
  DEF Next, Arrive, Step, Proceed, Environment

\* A refresh sends the newest pair unless an answer was lost.
LEMMA RefusalExplainedStep ==
    ASSUME IndInv, Next
    PROVE  RefusalExplained'
<1> USE DEF IndInv, TypeOK, LockGuardsRefresh, StoredPairIsNewest,
        RefusalExplained, table, time, hub, handlers, GoTo, Pair, Quality,
        AccessExpired, RefreshExpired, InRefresh, Deleting, Ended
<1>1. ASSUME NEW r \in Request, NEW s \in Session, Authenticate(r, s) PROVE RefusalExplained'
  BY <1>1 DEF Authenticate, FindActiveSession, ReadStep, Decide, Available
<1>2. ASSUME NEW r \in Request, NEW s \in Session, Logout(r, s) PROVE RefusalExplained'
  BY <1>2 DEF Logout, Available
<1>3. ASSUME NEW r \in Request, NEW h \in Sid, BackchannelLogout(r, h) PROVE RefusalExplained'
  BY <1>3 DEF BackchannelLogout, Available
<1>4. ASSUME NEW r \in Request, NEW s \in Session, NEW previous \in SUBSET Session, Login(r, s, previous) PROVE RefusalExplained'
  BY <1>4 DEF Login, Available
<1>5. ASSUME NEW r \in Request, VerifyStoredToken(r) PROVE RefusalExplained'
  BY <1>5 DEF VerifyStoredToken, Judge, Decide, StoredTokenStep, Verdicts, Verdict
<1>6. ASSUME NEW r \in Request, VerifyRefreshedToken(r) PROVE RefusalExplained'
  BY <1>6 DEF VerifyRefreshedToken, Judge, Decide, RefreshedTokenStep, Verdicts, Verdict
<1>7. ASSUME NEW r \in Request, LockFindsNoSession(r) PROVE RefusalExplained'
  BY <1>7 DEF LockFindsNoSession
<1>8. ASSUME NEW r \in Request, LockFindsOtherToken(r) PROVE RefusalExplained'
  BY <1>8 DEF LockFindsOtherToken
<1>9. ASSUME NEW r \in Request, LockFindsExpiredToken(r) PROVE RefusalExplained'
  BY <1>9 DEF LockFindsExpiredToken
<1>10. ASSUME NEW r \in Request, SaveTokens(r) PROVE RefusalExplained'
  BY <1>10 DEF SaveTokens
<1>11. ASSUME NEW r \in Request, DeleteRefused(r) PROVE RefusalExplained'
  BY <1>11 DEF DeleteRefused
<1>12. ASSUME NEW r \in Request, RefreshFails(r) PROVE RefusalExplained'
  BY <1>12 DEF RefreshFails
<1>13. ASSUME NEW r \in Request, RereadSession(r) PROVE RefusalExplained'
  BY <1>13 DEF RereadSession, FindActiveSession, ReadStep, Decide
<1>14. ASSUME NEW r \in Request, DeleteRows(r) PROVE RefusalExplained'
  BY <1>14 DEF DeleteRows, AfterDelete
<1>15. ASSUME NEW r \in Request, LogoutIdentitySession(r) PROVE RefusalExplained'
  BY <1>15 DEF LogoutIdentitySession
<1>16. ASSUME NEW r \in Request, PurgeExpired(r) PROVE RefusalExplained'
  BY <1>16 DEF PurgeExpired
<1>17. ASSUME NEW r \in Request, InsertSession(r) PROVE RefusalExplained'
  BY <1>17 DEF InsertSession
<1>18. ASSUME NEW r \in Request, StatementFails(r) PROVE RefusalExplained'
  BY <1>18 DEF StatementFails
<1>19. ASSUME NEW r \in Request, HubRotates(r) PROVE RefusalExplained'
  BY <1>19 DEF HubRotates, HubAccepts, IssueNext
<1>20. ASSUME NEW r \in Request, HubRefuses(r) PROVE RefusalExplained'
  BY <1>20 DEF HubRefuses, HubAccepts
<1>21. ASSUME NEW s \in Session, NEW p \in Pair, HubServesLateCall(s, p) PROVE RefusalExplained'
  <2> HIDE DEF IndInv, TypeOK
  <2>1. TypeOK
    BY DEF IndInv
  <2>2. \A t \in Session : lost[t] => lost'[t]
    BY <1>21, <2>1, LateCallEffect
  <2> QED
    BY <1>21, <2>2 DEF HubServesLateCall, IndInv, TypeOK
<1>22. ASSUME NEW h \in Sid, HubRevokes(h) PROVE RefusalExplained'
  BY <1>22 DEF HubRevokes
<1>23. ASSUME NEW s \in Session, AccessTokenExpires(s) PROVE RefusalExplained'
  BY <1>23 DEF AccessTokenExpires
<1>24. ASSUME NEW s \in Session, RefreshTokenExpires(s) PROVE RefusalExplained'
  BY <1>24 DEF RefreshTokenExpires
<1>25. ASSUME Crash PROVE RefusalExplained'
  BY <1>25 DEF Crash
<1> HIDE DEF IndInv, TypeOK, LockGuardsRefresh, StoredPairIsNewest,
        RefusalExplained, table, time, hub, handlers, GoTo, Pair, Quality,
        AccessExpired, RefreshExpired, InRefresh, Deleting, Ended
<1> QED
  BY <1>1, <1>2, <1>3, <1>4, <1>5, <1>6, <1>7, <1>8, <1>9, <1>10, <1>11,
     <1>12, <1>13, <1>14, <1>15, <1>16, <1>17, <1>18, <1>19, <1>20, <1>21,
     <1>22, <1>23, <1>24, <1>25
  DEF Next, Arrive, Step, Proceed, Environment

\* A deleted row stays deleted: the lock keeps refreshes away from it.
LEMMA DeletedForGoodStep ==
    ASSUME IndInv, Next
    PROVE  DeletedForGood'
<1> USE DEF IndInv, TypeOK, LockGuardsRefresh, InsertedOnce, DeletedForGood,
        table, time, hub, handlers, GoTo, Pair, Quality, AccessExpired,
        RefreshExpired, InRefresh, Deleting, Ended
<1>1. ASSUME NEW r \in Request, NEW s \in Session, Authenticate(r, s) PROVE DeletedForGood'
  BY <1>1, SMTT(30) DEF Authenticate, FindActiveSession, ReadStep, Decide, Available
<1>2. ASSUME NEW r \in Request, NEW s \in Session, Logout(r, s) PROVE DeletedForGood'
  BY <1>2 DEF Logout, Available
<1>3. ASSUME NEW r \in Request, NEW h \in Sid, BackchannelLogout(r, h) PROVE DeletedForGood'
  BY <1>3 DEF BackchannelLogout, Available
<1>4. ASSUME NEW r \in Request, NEW s \in Session, NEW previous \in SUBSET Session, Login(r, s, previous) PROVE DeletedForGood'
  BY <1>4, SMTT(30) DEF Login, Available
<1>5. ASSUME NEW r \in Request, VerifyStoredToken(r) PROVE DeletedForGood'
  BY <1>5 DEF VerifyStoredToken, Judge, Decide, StoredTokenStep, Verdicts, Verdict
<1>6. ASSUME NEW r \in Request, VerifyRefreshedToken(r) PROVE DeletedForGood'
  BY <1>6 DEF VerifyRefreshedToken, Judge, Decide, RefreshedTokenStep, Verdicts, Verdict
<1>7. ASSUME NEW r \in Request, LockFindsNoSession(r) PROVE DeletedForGood'
  BY <1>7 DEF LockFindsNoSession
<1>8. ASSUME NEW r \in Request, LockFindsOtherToken(r) PROVE DeletedForGood'
  BY <1>8 DEF LockFindsOtherToken
<1>9. ASSUME NEW r \in Request, LockFindsExpiredToken(r) PROVE DeletedForGood'
  BY <1>9 DEF LockFindsExpiredToken
<1>10. ASSUME NEW r \in Request, SaveTokens(r) PROVE DeletedForGood'
  BY <1>10 DEF SaveTokens
<1>11. ASSUME NEW r \in Request, DeleteRefused(r) PROVE DeletedForGood'
  BY <1>11 DEF DeleteRefused
<1>12. ASSUME NEW r \in Request, RefreshFails(r) PROVE DeletedForGood'
  BY <1>12 DEF RefreshFails
<1>13. ASSUME NEW r \in Request, RereadSession(r) PROVE DeletedForGood'
  BY <1>13 DEF RereadSession, FindActiveSession, ReadStep, Decide
<1>14. ASSUME NEW r \in Request, DeleteRows(r) PROVE DeletedForGood'
  BY <1>14 DEF DeleteRows, AfterDelete
<1>15. ASSUME NEW r \in Request, LogoutIdentitySession(r) PROVE DeletedForGood'
  BY <1>15 DEF LogoutIdentitySession
<1>16. ASSUME NEW r \in Request, PurgeExpired(r) PROVE DeletedForGood'
  BY <1>16 DEF PurgeExpired
<1>17. ASSUME NEW r \in Request, InsertSession(r) PROVE DeletedForGood'
  BY <1>17 DEF InsertSession
<1>18. ASSUME NEW r \in Request, StatementFails(r) PROVE DeletedForGood'
  BY <1>18 DEF StatementFails
<1>19. ASSUME NEW r \in Request, HubRotates(r) PROVE DeletedForGood'
  BY <1>19 DEF HubRotates, HubAccepts, IssueNext
<1>20. ASSUME NEW r \in Request, HubRefuses(r) PROVE DeletedForGood'
  BY <1>20 DEF HubRefuses, HubAccepts
<1>21. ASSUME NEW s \in Session, NEW p \in Pair, HubServesLateCall(s, p) PROVE DeletedForGood'
  BY <1>21 DEF HubServesLateCall, HubAccepts, IssueNext
<1>22. ASSUME NEW h \in Sid, HubRevokes(h) PROVE DeletedForGood'
  BY <1>22 DEF HubRevokes
<1>23. ASSUME NEW s \in Session, AccessTokenExpires(s) PROVE DeletedForGood'
  BY <1>23 DEF AccessTokenExpires
<1>24. ASSUME NEW s \in Session, RefreshTokenExpires(s) PROVE DeletedForGood'
  BY <1>24 DEF RefreshTokenExpires
<1>25. ASSUME Crash PROVE DeletedForGood'
  BY <1>25 DEF Crash
<1> HIDE DEF IndInv, TypeOK, LockGuardsRefresh, InsertedOnce, DeletedForGood,
        table, time, hub, handlers, GoTo, Pair, Quality, AccessExpired,
        RefreshExpired, InRefresh, Deleting, Ended
<1> QED
  BY <1>1, <1>2, <1>3, <1>4, <1>5, <1>6, <1>7, <1>8, <1>9, <1>10, <1>11,
     <1>12, <1>13, <1>14, <1>15, <1>16, <1>17, <1>18, <1>19, <1>20, <1>21,
     <1>22, <1>23, <1>24, <1>25
  DEF Next, Arrive, Step, Proceed, Environment

\* Verification ends in "authenticated" for a good token of the session only,
\* and an issued token does not change.
LEMMA AuthenticatedByGenuineTokenStep ==
    ASSUME IndInv, Next
    PROVE  AuthenticatedByGenuineToken'
<1> USE DEF IndInv, TypeOK, PairsIssued, AuthenticatedByGenuineToken, table, time,
        hub, handlers, GoTo, Pair, Quality, AccessExpired, RefreshExpired,
        InRefresh, HasTokens, Deleting, Ended
<1>1. ASSUME NEW r \in Request, NEW s \in Session, Authenticate(r, s) PROVE AuthenticatedByGenuineToken'
  BY <1>1 DEF Authenticate, FindActiveSession, ReadStep, Decide, Available
<1>2. ASSUME NEW r \in Request, NEW s \in Session, Logout(r, s) PROVE AuthenticatedByGenuineToken'
  BY <1>2 DEF Logout, Available
<1>3. ASSUME NEW r \in Request, NEW h \in Sid, BackchannelLogout(r, h) PROVE AuthenticatedByGenuineToken'
  BY <1>3 DEF BackchannelLogout, Available
<1>4. ASSUME NEW r \in Request, NEW s \in Session, NEW previous \in SUBSET Session, Login(r, s, previous) PROVE AuthenticatedByGenuineToken'
  BY <1>4 DEF Login, Available
<1>5. ASSUME NEW r \in Request, VerifyStoredToken(r) PROVE AuthenticatedByGenuineToken'
  BY <1>5 DEF VerifyStoredToken, Judge, Decide, StoredTokenStep, Verdicts, Verdict
<1>6. ASSUME NEW r \in Request, VerifyRefreshedToken(r) PROVE AuthenticatedByGenuineToken'
  BY <1>6 DEF VerifyRefreshedToken, Judge, Decide, RefreshedTokenStep, Verdicts, Verdict
<1>7. ASSUME NEW r \in Request, LockFindsNoSession(r) PROVE AuthenticatedByGenuineToken'
  BY <1>7 DEF LockFindsNoSession
<1>8. ASSUME NEW r \in Request, LockFindsOtherToken(r) PROVE AuthenticatedByGenuineToken'
  BY <1>8 DEF LockFindsOtherToken
<1>9. ASSUME NEW r \in Request, LockFindsExpiredToken(r) PROVE AuthenticatedByGenuineToken'
  BY <1>9 DEF LockFindsExpiredToken
<1>10. ASSUME NEW r \in Request, SaveTokens(r) PROVE AuthenticatedByGenuineToken'
  BY <1>10 DEF SaveTokens
<1>11. ASSUME NEW r \in Request, DeleteRefused(r) PROVE AuthenticatedByGenuineToken'
  BY <1>11 DEF DeleteRefused
<1>12. ASSUME NEW r \in Request, RefreshFails(r) PROVE AuthenticatedByGenuineToken'
  BY <1>12 DEF RefreshFails
<1>13. ASSUME NEW r \in Request, RereadSession(r) PROVE AuthenticatedByGenuineToken'
  BY <1>13 DEF RereadSession, FindActiveSession, ReadStep, Decide
<1>14. ASSUME NEW r \in Request, DeleteRows(r) PROVE AuthenticatedByGenuineToken'
  BY <1>14 DEF DeleteRows, AfterDelete
<1>15. ASSUME NEW r \in Request, LogoutIdentitySession(r) PROVE AuthenticatedByGenuineToken'
  BY <1>15 DEF LogoutIdentitySession
<1>16. ASSUME NEW r \in Request, PurgeExpired(r) PROVE AuthenticatedByGenuineToken'
  BY <1>16 DEF PurgeExpired
<1>17. ASSUME NEW r \in Request, InsertSession(r) PROVE AuthenticatedByGenuineToken'
  BY <1>17 DEF InsertSession
<1>18. ASSUME NEW r \in Request, StatementFails(r) PROVE AuthenticatedByGenuineToken'
  BY <1>18 DEF StatementFails
<1>19. ASSUME NEW r \in Request, HubRotates(r) PROVE AuthenticatedByGenuineToken'
  BY <1>19 DEF HubRotates, HubAccepts, IssueNext
<1>20. ASSUME NEW r \in Request, HubRefuses(r) PROVE AuthenticatedByGenuineToken'
  BY <1>20 DEF HubRefuses, HubAccepts
<1>21. ASSUME NEW s \in Session, NEW p \in Pair, HubServesLateCall(s, p) PROVE AuthenticatedByGenuineToken'
  <2> HIDE DEF IndInv, TypeOK
  <2>1. TypeOK
    BY DEF IndInv
  <2>2. \A t \in Session, n \in Pair : n <= issued[t] => quality'[t][n] = quality[t][n]
    BY <1>21, <2>1, LateCallEffect
  <2> QED
    BY <1>21, <2>2 DEF HubServesLateCall, IndInv, TypeOK
<1>22. ASSUME NEW h \in Sid, HubRevokes(h) PROVE AuthenticatedByGenuineToken'
  BY <1>22 DEF HubRevokes
<1>23. ASSUME NEW s \in Session, AccessTokenExpires(s) PROVE AuthenticatedByGenuineToken'
  BY <1>23 DEF AccessTokenExpires
<1>24. ASSUME NEW s \in Session, RefreshTokenExpires(s) PROVE AuthenticatedByGenuineToken'
  BY <1>24 DEF RefreshTokenExpires
<1>25. ASSUME Crash PROVE AuthenticatedByGenuineToken'
  BY <1>25 DEF Crash
<1> HIDE DEF IndInv, TypeOK, PairsIssued, AuthenticatedByGenuineToken, table, time,
        hub, handlers, GoTo, Pair, Quality, AccessExpired, RefreshExpired,
        InRefresh, HasTokens, Deleting, Ended
<1> QED
  BY <1>1, <1>2, <1>3, <1>4, <1>5, <1>6, <1>7, <1>8, <1>9, <1>10, <1>11,
     <1>12, <1>13, <1>14, <1>15, <1>16, <1>17, <1>18, <1>19, <1>20, <1>21,
     <1>22, <1>23, <1>24, <1>25
  DEF Next, Arrive, Step, Proceed, Environment

-----------------------------------------------------------------------------
(* The invariant, and the properties that follow from it.                    *)

LEMMA IndInvInitially == Init => IndInv
<1> SUFFICES ASSUME Init PROVE IndInv
  OBVIOUS
<1>1. TypeOK
  BY DEF Init, TypeOK, Pair, Quality, PC
<1> QED
  BY <1>1 DEF Init, IndInv, LockGuardsRefresh, InsertedOnce, WorksOnInserted, PairsIssued,
              RefreshesExpired, AnswerIsNewest, StoredPairIsNewest, RefusalExplained,
              DeletedForGood, AuthenticatedByGenuineToken, HasSession, HasTokens,
              Handling, InRefresh, Deleting

LEMMA IndInvStutters == ASSUME IndInv, UNCHANGED vars PROVE IndInv'
  BY DEF vars, table, time, hub, handlers, IndInv, TypeOK, LockGuardsRefresh, InsertedOnce,
         WorksOnInserted, PairsIssued, RefreshesExpired, AnswerIsNewest, StoredPairIsNewest,
         RefusalExplained, DeletedForGood, AuthenticatedByGenuineToken, AccessExpired,
         RefreshExpired

\* The inductive invariant holds in every state the handlers, Identity Hub,
\* time and crashes can reach.
THEOREM Invariance == Spec => []IndInv
<1>1. IndInv /\ Next => IndInv'
  BY TypeOKStep, LockGuardsRefreshStep, InsertedOnceStep, WorksOnInsertedStep,
     PairsIssuedStep, RefreshesExpiredStep, AnswerIsNewestStep, StoredPairIsNewestStep,
     RefusalExplainedStep, DeletedForGoodStep, AuthenticatedByGenuineTokenStep
  DEF IndInv
<1>2. IndInv /\ [Next]_vars => IndInv'
  BY <1>1, IndInvStutters
<1> QED
  BY IndInvInitially, <1>2, PTL DEF Spec

\* The variables of the table, of Identity Hub and of the handlers keep their types.
THEOREM TypeCorrect == Spec => []TypeOK
<1>1. IndInv => TypeOK
  BY DEF IndInv
<1> QED
  BY Invariance, <1>1, PTL

\* refreshSession's row lock: never two refreshes of one session at a time.
THEOREM RefreshIsSerialized == Spec => []RefreshSerialized
<1>1. IndInv => RefreshSerialized
  BY DEF IndInv, LockGuardsRefresh, RefreshSerialized
<1> QED
  BY Invariance, <1>1, PTL

\* The stored pair is the newest one, up to answers in hand or lost.
THEOREM StoredPairStaysNewest == Spec => []StoredPairIsNewest
<1>1. IndInv => StoredPairIsNewest
  BY DEF IndInv
<1> QED
  BY Invariance, <1>1, PTL

\* Concurrency alone never makes Identity Hub refuse a refresh.
THEOREM RefusalsAreExplained == Spec => []RefusalExplained
<1>1. IndInv => RefusalExplained
  BY DEF IndInv
<1> QED
  BY Invariance, <1>1, PTL

\* What a logout or a back-channel logout deleted never comes back.
THEOREM LogoutIsFinal == Spec => []DeletedForGood
<1>1. IndInv => DeletedForGood
  BY DEF IndInv
<1> QED
  BY Invariance, <1>1, PTL

\* No protected route runs for a token that is not the session's own.
THEOREM AuthenticationIsGenuine == Spec => []AuthenticatedByGenuineToken
<1>1. IndInv => AuthenticatedByGenuineToken
  BY DEF IndInv
<1> QED
  BY Invariance, <1>1, PTL

-----------------------------------------------------------------------------
(* What ends a session. *)

\* A rotation touches no token that a pending DELETE was decided on.
LEMMA RotationKeepsReasons ==
    ASSUME TypeOK, DeletionsExplained,
           \A t \in Session : issued[t] <= issued'[t] /\ issued'[t] \in 0..MaxPair,
           \A t \in Session, n \in Pair : n <= issued[t] => quality'[t][n] = quality[t][n],
           UNCHANGED <<table, time, revoked, on, seen, doomed>>,
           \A q \in Request : pc'[q] \in Deleting => pc'[q] = pc[q]
    PROVE  DeletionsExplained'
<1> SUFFICES ASSUME NEW q \in Request, pc'[q] = pc[q], pc[q] \in Deleting
             PROVE  /\ pc[q] = "sweeping" => \A s \in doomed[q] : sidOf[s] \in revoked
                    /\ pc[q] \in {"dropping", "reaping"} => doomed[q] = {on[q]}
                    /\ pc[q] = "dropping" =>
                          /\ 1 <= seen[q] /\ seen[q] <= issued'[on[q]]
                          /\ quality'[on[q]][seen[q]] # "good"
                    /\ pc[q] = "reaping" =>
                          RefreshExpired(on[q], seen[q]) /\ seen[q] <= pair[on[q]]
  BY DEF DeletionsExplained, Deleting, RefreshExpired, table, time
<1>1. on[q] \in Session /\ seen[q] \in 0..MaxPair /\ issued[on[q]] \in 0..MaxPair
  BY DEF TypeOK
<1>2. CASE pc[q] = "dropping"
  <2>1. 1 <= seen[q] /\ seen[q] <= issued[on[q]] /\ quality[on[q]][seen[q]] # "good"
    BY <1>2 DEF DeletionsExplained
  <2>2. seen[q] \in Pair /\ seen[q] <= issued'[on[q]]
    BY <1>1, <2>1 DEF Pair
  <2> QED
    BY <1>1, <1>2, <2>1, <2>2 DEF DeletionsExplained
<1>3. CASE pc[q] = "reaping"
  BY <1>3 DEF DeletionsExplained
<1>4. CASE pc[q] = "sweeping"
  BY <1>4 DEF DeletionsExplained
<1> QED
  BY <1>2, <1>3, <1>4

\* findActiveSession deletes only what it has read as expired.
LEMMA FindingExplains ==
    ASSUME TypeOK, DeletionsExplained, NEW r \in Request, NEW s \in Session,
           NEW found \in {"verifying", "reverifying"}, FindActiveSession(r, s, found),
           on'[r] = s, \A q \in Request \ {r} : on'[q] = on[q]
    PROVE  DeletionsExplained'
<1>1. /\ pc' = [pc EXCEPT ![r] = ReadStep(s, found)]
      /\ seen' = [seen EXCEPT ![r] = pair[s]]
      /\ UNCHANGED <<table, time, hub>>
      /\ doomed' = [doomed EXCEPT ![r] = IF ReadStep(s, found) \in Deleting THEN {s} ELSE {}]
  BY DEF FindActiveSession, Decide, GoTo
<1>2. \/ pc'[r] \notin Deleting
      \/ /\ pc'[r] = "reaping" /\ RefreshExpired(s, pair[s])
         /\ doomed'[r] = {s} /\ seen'[r] = pair[s]
  BY <1>1 DEF ReadStep, TypeOK, Deleting
<1>3. \A q \in Request \ {r} : pc'[q] = pc[q] /\ seen'[q] = seen[q] /\ doomed'[q] = doomed[q]
  BY <1>1 DEF TypeOK
<1>4. ASSUME NEW q \in Request \ {r}
      PROVE  /\ pc[q] = "sweeping" => \A t \in doomed[q] : sidOf[t] \in revoked
             /\ pc[q] \in {"dropping", "reaping"} => doomed[q] = {on[q]}
             /\ pc[q] = "dropping" =>
                   /\ 1 <= seen[q] /\ seen[q] <= issued[on[q]]
                   /\ quality[on[q]][seen[q]] # "good"
             /\ pc[q] = "reaping" =>
                   RefreshExpired(on[q], seen[q]) /\ seen[q] <= pair[on[q]]
  BY DEF DeletionsExplained
<1>5. pair[s] <= pair[s]
  BY DEF TypeOK
<1>6. /\ sidOf' = sidOf /\ revoked' = revoked /\ issued' = issued /\ quality' = quality
      /\ pair' = pair /\ refreshExpired' = refreshExpired
  BY <1>1 DEF table, time, hub
<1> QED
  BY <1>2, <1>3, <1>4, <1>5, <1>6 DEF DeletionsExplained, RefreshExpired, Deleting

\* A DELETE is decided on something that stays true: pairs only advance, a token's
\* quality is settled when it is issued, and what has expired or been closed stays so.
LEMMA DeletionsExplainedStep ==
    ASSUME IndInv, DeletionsExplained, Next
    PROVE  DeletionsExplained'
<1> USE DEF IndInv, TypeOK, LockGuardsRefresh, InsertedOnce, PairsIssued, DeletionsExplained,
        table, time, hub, handlers, GoTo, Pair, Quality, AccessExpired, RefreshExpired,
        Handling, InRefresh, HasTokens, Deleting, Ended
<1>1. ASSUME NEW r \in Request, NEW s \in Session, Authenticate(r, s) PROVE DeletionsExplained'
  <2>1. on' = [on EXCEPT ![r] = s] /\ on'[r] = s
    BY <1>1 DEF Authenticate
  <2>2. \A q \in Request \ {r} : on'[q] = on[q]
    BY <2>1
  <2> HIDE DEF IndInv, TypeOK, LockGuardsRefresh, InsertedOnce, PairsIssued,
               DeletionsExplained, table, time, hub, handlers
  <2>3. TypeOK /\ FindActiveSession(r, s, "verifying")
    BY <1>1 DEF Authenticate, IndInv
  <2> QED
    BY <2>1, <2>2, <2>3, FindingExplains
<1>2. ASSUME NEW r \in Request, NEW s \in Session, Logout(r, s) PROVE DeletionsExplained'
  BY <1>2 DEF Logout, Available
<1>3. ASSUME NEW r \in Request, NEW h \in Sid, BackchannelLogout(r, h) PROVE DeletionsExplained'
  BY <1>3 DEF BackchannelLogout, Available
<1>4. ASSUME NEW r \in Request, NEW s \in Session, NEW previous \in SUBSET Session,
             Login(r, s, previous)
      PROVE  DeletionsExplained'
  BY <1>4 DEF Login, Available
<1>5. ASSUME NEW r \in Request, VerifyStoredToken(r) PROVE DeletionsExplained'
  BY <1>5 DEF VerifyStoredToken, Judge, Decide, StoredTokenStep, Verdicts, Verdict
<1>6. ASSUME NEW r \in Request, VerifyRefreshedToken(r) PROVE DeletionsExplained'
  BY <1>6 DEF VerifyRefreshedToken, Judge, Decide, RefreshedTokenStep, Verdicts, Verdict
<1>7. ASSUME NEW r \in Request, LockFindsNoSession(r) PROVE DeletionsExplained'
  BY <1>7 DEF LockFindsNoSession
<1>8. ASSUME NEW r \in Request, LockFindsOtherToken(r) PROVE DeletionsExplained'
  BY <1>8 DEF LockFindsOtherToken
<1>9. ASSUME NEW r \in Request, LockFindsExpiredToken(r) PROVE DeletionsExplained'
  BY <1>9 DEF LockFindsExpiredToken
<1>10. ASSUME NEW r \in Request, SaveTokens(r) PROVE DeletionsExplained'
  BY <1>10 DEF SaveTokens
<1>11. ASSUME NEW r \in Request, DeleteRefused(r) PROVE DeletionsExplained'
  BY <1>11 DEF DeleteRefused
<1>12. ASSUME NEW r \in Request, RefreshFails(r) PROVE DeletionsExplained'
  BY <1>12 DEF RefreshFails
<1>13. ASSUME NEW r \in Request, RereadSession(r) PROVE DeletionsExplained'
  <2>1. on' = on /\ on[r] \in Session
    BY <1>13 DEF RereadSession
  <2> HIDE DEF IndInv, TypeOK, LockGuardsRefresh, InsertedOnce, PairsIssued,
               DeletionsExplained, table, time, hub, handlers
  <2>2. TypeOK /\ FindActiveSession(r, on[r], "reverifying")
    BY <1>13 DEF RereadSession, IndInv
  <2> QED
    BY <2>1, <2>2, FindingExplains
<1>14. ASSUME NEW r \in Request, DeleteRows(r) PROVE DeletionsExplained'
  BY <1>14 DEF DeleteRows, AfterDelete
<1>15. ASSUME NEW r \in Request, LogoutIdentitySession(r) PROVE DeletionsExplained'
  BY <1>15 DEF LogoutIdentitySession
<1>16. ASSUME NEW r \in Request, PurgeExpired(r) PROVE DeletionsExplained'
  BY <1>16 DEF PurgeExpired
<1>17. ASSUME NEW r \in Request, InsertSession(r) PROVE DeletionsExplained'
  BY <1>17 DEF InsertSession
<1>18. ASSUME NEW r \in Request, StatementFails(r) PROVE DeletionsExplained'
  BY <1>18 DEF StatementFails
<1>19. ASSUME NEW r \in Request, HubRotates(r) PROVE DeletionsExplained'
  <2> HIDE DEF IndInv, TypeOK, DeletionsExplained, Pair
  <2>1. TypeOK /\ IssueNext(on[r]) /\ on[r] \in Session
    BY <1>19 DEF HubRotates, IndInv, TypeOK
  <2>2. /\ \A t \in Session, n \in Pair : n <= issued[t] => quality'[t][n] = quality[t][n]
        /\ issued'[on[r]] = issued[on[r]] + 1
        /\ \A t \in Session : t # on[r] => issued'[t] = issued[t]
    BY <2>1, IssueNextEffect
  <2>3. ASSUME NEW t \in Session PROVE issued[t] <= issued'[t] /\ issued'[t] \in 0..MaxPair
    <3>1. issued[t] \in 0..MaxPair /\ issued'[t] \in 0..MaxPair
      BY <2>1, IssueNextEffect DEF TypeOK
    <3> QED
      BY <2>2, <3>1
  <2> QED
    BY <1>19, <2>1, <2>2, <2>3, RotationKeepsReasons DEF HubRotates
<1>20. ASSUME NEW r \in Request, HubRefuses(r) PROVE DeletionsExplained'
  BY <1>20 DEF HubRefuses
<1>21. ASSUME NEW s \in Session, NEW p \in Pair, HubServesLateCall(s, p) PROVE DeletionsExplained'
  <2> HIDE DEF IndInv, TypeOK, DeletionsExplained, Pair
  <2>1. TypeOK
    BY DEF IndInv
  <2>2. /\ \A t \in Session : issued[t] <= issued'[t]
        /\ \A t \in Session, n \in Pair : n <= issued[t] => quality'[t][n] = quality[t][n]
        /\ issued' \in [Session -> 0..MaxPair]
    BY <1>21, <2>1, LateCallEffect
  <2> QED
    BY <1>21, <2>1, <2>2, RotationKeepsReasons DEF HubServesLateCall
<1>22. ASSUME NEW h \in Sid, HubRevokes(h) PROVE DeletionsExplained'
  BY <1>22 DEF HubRevokes
<1>23. ASSUME NEW s \in Session, AccessTokenExpires(s) PROVE DeletionsExplained'
  BY <1>23 DEF AccessTokenExpires
<1>24. ASSUME NEW s \in Session, RefreshTokenExpires(s) PROVE DeletionsExplained'
  BY <1>24 DEF RefreshTokenExpires
<1>25. ASSUME Crash PROVE DeletionsExplained'
  BY <1>25 DEF Crash
<1> HIDE DEF IndInv, TypeOK, LockGuardsRefresh, InsertedOnce, PairsIssued, DeletionsExplained,
        table, time, hub, handlers, GoTo, Pair, Quality, AccessExpired, RefreshExpired,
        Handling, InRefresh, HasTokens, Deleting, Ended
<1> QED
  BY <1>1, <1>2, <1>3, <1>4, <1>5, <1>6, <1>7, <1>8, <1>9, <1>10, <1>11,
     <1>12, <1>13, <1>14, <1>15, <1>16, <1>17, <1>18, <1>19, <1>20, <1>21,
     <1>22, <1>23, <1>24, <1>25
  DEF Next, Arrive, Step, Proceed, Environment

\* A live row is deleted for one of the reasons that the property lists, the last
\* of which is the weakness of findActiveSession.
THEOREM SessionsEndForAReason == Spec => SessionEndsForAReason
<1> DEFINE Reason(s) ==
      \/ RefreshExpired(s, pair[s]) \/ sidOf[s] \in revoked \/ lost[s]
      \/ \E r \in Request : s \in doomed[r] /\ pc'[r] # pc[r] /\
            \/ pc[r] \in {"leaving", "replacing"}
            \/ pc[r] = "dropping" /\ quality[s][seen[r]] # "good"
            \/ pc[r] = "reaping" /\ RefreshExpired(s, seen[r]) /\ seen[r] < pair[s]
           Explained == \A s \in Session : row[s] = "live" /\ row'[s] = "gone" => Reason(s)
<1>1. ASSUME IndInv, DeletionsExplained, Next, NEW s \in Session,
             row[s] = "live", row'[s] = "gone"
      PROVE  Reason(s)
  <2> USE DEF table, handlers, GoTo
  <2>1. CASE \E r \in Request : DeleteRows(r)
    <3>1. PICK r \in Request : DeleteRows(r)
      BY <2>1
    <3>2. s \in doomed[r] /\ pc[r] \in Deleting /\ pc'[r] # pc[r]
      BY <1>1, <3>1 DEF DeleteRows, AfterDelete, Deleting, IndInv, TypeOK
    <3>3. CASE pc[r] = "sweeping"
      BY <1>1, <3>2, <3>3 DEF DeletionsExplained
    <3>4. CASE pc[r] = "dropping"
      BY <1>1, <3>2, <3>4 DEF DeletionsExplained
    <3>5. CASE pc[r] = "reaping"
      <4>1. on[r] = s /\ RefreshExpired(s, seen[r]) /\ seen[r] <= pair[s]
        BY <1>1, <3>2, <3>5 DEF DeletionsExplained
      <4>2. CASE seen[r] = pair[s]
        BY <4>1, <4>2
      <4>3. CASE seen[r] # pair[s]
        <5>1. seen[r] < pair[s]
          <6>1. seen[r] \in 0..MaxPair /\ pair[s] \in 0..MaxPair
            BY <1>1, <3>1 DEF IndInv, TypeOK
          <6> QED
            BY <4>1, <4>3, <6>1
        <5> QED
          BY <3>2, <3>5, <4>1, <5>1
      <4> QED
        BY <4>2, <4>3
    <3> QED
      BY <3>2, <3>3, <3>4, <3>5 DEF Deleting
  <2>2. CASE \E r \in Request : DeleteRefused(r)
    <3>1. PICK r \in Request : DeleteRefused(r)
      BY <2>2
    <3>2. on[r] = s /\ pc[r] = "refused" /\ pair[s] = seen[r]
      BY <1>1, <3>1 DEF DeleteRefused, IndInv, TypeOK, LockGuardsRefresh, InRefresh
    <3> QED
      BY <1>1, <3>2 DEF IndInv, RefusalExplained
  <2>3. CASE \E r \in Request : LockFindsNoSession(r) \/ PurgeExpired(r)
    BY <1>1, <2>3 DEF LockFindsNoSession, PurgeExpired, IndInv, TypeOK
  <2>4. CASE \E r \in Request : SaveTokens(r) \/ InsertSession(r)
    BY <1>1, <2>4 DEF SaveTokens, InsertSession, IndInv, TypeOK
  <2>5. CASE row' = row
    BY <1>1, <2>5
  <2>6. CASE \E r \in Request : Arrive(r)
    BY <2>5, <2>6
    DEF Arrive, Authenticate, Logout, BackchannelLogout, Login, FindActiveSession
  <2>7. CASE \E r \in Request : StatementFails(r) \/ VerifyStoredToken(r)
                  \/ VerifyRefreshedToken(r) \/ LockFindsOtherToken(r)
                  \/ LockFindsExpiredToken(r) \/ RefreshFails(r) \/ RereadSession(r)
                  \/ LogoutIdentitySession(r)
    BY <2>5, <2>7
    DEF StatementFails, VerifyStoredToken, VerifyRefreshedToken, Judge, LockFindsOtherToken,
        LockFindsExpiredToken, RefreshFails, RereadSession, FindActiveSession,
        LogoutIdentitySession
  <2>8. CASE Environment
    BY <2>5, <2>8
    DEF Environment, HubRotates, HubRefuses, HubServesLateCall, HubRevokes,
        AccessTokenExpires, RefreshTokenExpires, Crash
  <2> QED
    BY <1>1, <2>1, <2>2, <2>3, <2>4, <2>6, <2>7, <2>8 DEF Next, Step, Proceed
<1>2. IndInv /\ DeletionsExplained /\ [Next]_vars => DeletionsExplained'
  BY DeletionsExplainedStep DEF DeletionsExplained, RefreshExpired, vars, table, time, hub,
     handlers
<1>3. IndInv /\ DeletionsExplained /\ [Next]_vars => [Explained]_vars
  BY <1>1
<1>4. Init => DeletionsExplained
  BY DEF Init, DeletionsExplained
<1>5. [][Explained]_vars <=> SessionEndsForAReason
  BY PTL DEF SessionEndsForAReason
<1> QED
  BY <1>2, <1>3, <1>4, <1>5, Invariance, PTL DEF Spec

-----------------------------------------------------------------------------
(* The table implements SessionLifecycle.                                     *)

\* The DELETEs of the detailed module close the live ones of the rows they name.
LEMMA DeletionCloses ==
    ASSUME TypeOK, NEW S \in SUBSET Session, \A s \in S : row[s] # "none",
           row' = [s \in Session |-> IF s \in S THEN "gone" ELSE row[s]],
           UNCHANGED <<pair, accessExpired>>
    PROVE  SL!Next
<1> DEFINE Live == {s \in S : row[s] = "live"}
<1>1. Live \in SUBSET Session
  OBVIOUS
<1>2. \A s \in S : row[s] = "gone" \/ s \in Live
  BY DEF TypeOK
<1>3. row' = [s \in Session |-> IF s \in Live THEN "gone" ELSE row[s]]
  BY <1>2
<1>4. SL!Close(Live)
  BY <1>3 DEF SL!Close
<1> QED
  BY <1>1, <1>4 DEF SL!Next

\* Every step of the handlers and of the environment is a step of the lifecycle
\* or leaves the table and the access tokens' ages alone.
LEMMA LifecycleStep ==
    ASSUME IndInv, Next
    PROVE  [SL!Next]_(SL!vars)
<1> USE DEF table, time, hub, handlers
<1>0. TypeOK
  BY DEF IndInv
<1>1. ASSUME NEW r \in Request, LockFindsNoSession(r) PROVE SL!Next
  <2>1. row[on[r]] # "none" /\ on[r] \in Session
    BY <1>1 DEF LockFindsNoSession, IndInv, WorksOnInserted, HasSession, Handling, TypeOK
  <2>2. row' = [s \in Session |-> IF s \in {on[r]} THEN "gone" ELSE row[s]]
    BY <1>1, <1>0 DEF LockFindsNoSession, TypeOK
  <2>3. {on[r]} \in SUBSET Session /\ \A s \in {on[r]} : row[s] # "none"
    BY <2>1
  <2>4. UNCHANGED <<pair, accessExpired>>
    BY <1>1 DEF LockFindsNoSession
  <2> QED
    BY <1>0, <2>2, <2>3, <2>4, DeletionCloses
<1>2. ASSUME NEW r \in Request, DeleteRefused(r) PROVE SL!Next
  <2>1. row[on[r]] # "none" /\ on[r] \in Session
    BY <1>2 DEF DeleteRefused, IndInv, WorksOnInserted, HasSession, Handling, InRefresh, TypeOK
  <2>2. row' = [s \in Session |-> IF s \in {on[r]} THEN "gone" ELSE row[s]]
    BY <1>2, <1>0 DEF DeleteRefused, TypeOK
  <2>3. {on[r]} \in SUBSET Session /\ \A s \in {on[r]} : row[s] # "none"
    BY <2>1
  <2>4. UNCHANGED <<pair, accessExpired>>
    BY <1>2 DEF DeleteRefused
  <2> QED
    BY <1>0, <2>2, <2>3, <2>4, DeletionCloses
<1>3. ASSUME NEW r \in Request, DeleteRows(r) PROVE SL!Next
  <2>1. doomed[r] \in SUBSET Session /\ \A s \in doomed[r] : row[s] # "none"
    BY <1>3 DEF IndInv, WorksOnInserted, TypeOK
  <2> QED
    BY <1>0, <1>3, <2>1, DeletionCloses DEF DeleteRows
<1>4. ASSUME NEW r \in Request, PurgeExpired(r) PROVE SL!Next
  <2> DEFINE stale == {s \in Session : row[s] = "live" /\ RefreshExpired(s, pair[s])}
  <2>1. row' = [s \in Session |-> IF s \in stale THEN "gone" ELSE row[s]]
    BY <1>4 DEF PurgeExpired
  <2>2. stale \in SUBSET Session /\ \A s \in stale : row[s] # "none"
    OBVIOUS
  <2>3. UNCHANGED <<pair, accessExpired>>
    BY <1>4 DEF PurgeExpired
  <2> HIDE DEF stale
  <2> QED
    BY <1>0, <2>1, <2>2, <2>3, DeletionCloses
<1>5. ASSUME NEW r \in Request, InsertSession(r) PROVE SL!Next
  <2>1. on[r] \in Session /\ row[on[r]] = "none"
    BY <1>5 DEF InsertSession, IndInv, TypeOK, InsertedOnce
  <2>2. SL!Open(on[r])
    BY <1>5, <2>1 DEF InsertSession, SL!Open
  <2> QED
    BY <2>1, <2>2 DEF SL!Next
<1>6. ASSUME NEW r \in Request, SaveTokens(r) PROVE SL!Next
  <2>1. on[r] \in Session /\ row[on[r]] = "live" /\ pair[on[r]] = seen[r]
    BY <1>6 DEF SaveTokens, IndInv, TypeOK, LockGuardsRefresh, InRefresh
  <2>2. accessExpired[on[r]] >= pair[on[r]]
    BY <1>6, <2>1 DEF SaveTokens, IndInv, TypeOK, RefreshesExpired, InRefresh, AccessExpired
  <2>3. row' = row
    BY <1>6, <2>1 DEF SaveTokens, IndInv, TypeOK
  <2>4. SL!Rotate(on[r])
    BY <1>6, <2>1, <2>2, <2>3 DEF SaveTokens, SL!Rotate
  <2> QED
    BY <2>1, <2>4 DEF SL!Next
<1>7. ASSUME NEW s \in Session, AccessTokenExpires(s) PROVE SL!Next
  BY <1>7 DEF AccessTokenExpires, SL!Age, SL!Next
<1>8. ASSUME NEW r \in Request, Arrive(r) PROVE UNCHANGED SL!vars
  BY <1>8 DEF Arrive, Authenticate, Logout, BackchannelLogout, Login, FindActiveSession, SL!vars
<1>9. ASSUME NEW r \in Request,
             \/ VerifyStoredToken(r) \/ VerifyRefreshedToken(r) \/ RereadSession(r)
             \/ LockFindsOtherToken(r) \/ LockFindsExpiredToken(r) \/ RefreshFails(r)
             \/ LogoutIdentitySession(r) \/ StatementFails(r)
      PROVE  UNCHANGED SL!vars
  BY <1>9 DEF VerifyStoredToken, VerifyRefreshedToken, Judge, RereadSession, FindActiveSession,
              LockFindsOtherToken, LockFindsExpiredToken, RefreshFails,
              LogoutIdentitySession, StatementFails, SL!vars
<1>10. ASSUME \/ \E r \in Request : HubRotates(r) \/ HubRefuses(r)
              \/ \E s \in Session, p \in Pair : HubServesLateCall(s, p)
              \/ \E h \in Sid : HubRevokes(h)
              \/ \E s \in Session : RefreshTokenExpires(s)
              \/ Crash
       PROVE  UNCHANGED SL!vars
  BY <1>10 DEF HubRotates, HubRefuses, HubServesLateCall, HubRevokes, RefreshTokenExpires,
               Crash, SL!vars
<1> HIDE DEF table, time, hub, handlers
<1> QED
  BY <1>1, <1>2, <1>3, <1>4, <1>5, <1>6, <1>7, <1>8, <1>9, <1>10 DEF Next, Step, Proceed, Environment

\* The handlers implement the promise of SessionLifecycle: one insertion, pairs
\* replaced in order and only once expired, no resurrection.
THEOREM Refinement == Spec => Lifecycle
<1>1. Init => SL!Init
  BY DEF Init, SL!Init
<1>2. IndInv /\ [Next]_vars => [SL!Next]_(SL!vars)
  BY LifecycleStep DEF vars, table, time, SL!vars
<1> QED
  BY Invariance, <1>1, <1>2, PTL DEF Spec, Lifecycle, SL!Spec

-----------------------------------------------------------------------------
(* The handlers on a pool of connections. *)

\* What follows the transaction's BEGIN and SELECT ... FOR UPDATE has a connection.
RefreshConnected == \A r \in Request : pc[r] \in InRefresh => r \in conn

\* So who holds the lock of a row, for which others may wait with all other
\* connections in their hands, can go on and release it.
LockHolderConnected ==
    \A s \in Session, r \in Request : rowLock[s] = r => r \in conn

\* No request waits twice, or with a connection.
WaitsOnce ==
    /\ queue \in Seq(Request)
    /\ \A i, j \in 1..Len(queue) : queue[i] = queue[j] => i = j
    /\ \A i \in 1..Len(queue) : queue[i] \notin conn

\* The pool is never exceeded, and nobody waits while a connection is free.
PoolSpent ==
    /\ poolSize \in Nat \ {0}
    /\ conn \subseteq Request /\ IsFiniteSet(conn) /\ Cardinality(conn) <= poolSize
    /\ queue # <<>> => Cardinality(conn) = poolSize

\* A handler at a statement has a connection or waits for one; between its
\* statements it has none.
NobodyForgotten ==
    \A r \in Request :
        /\ pc[r] \in Connecting => r \in conn \/ Waits(r)
        /\ r \in conn \/ Waits(r) => pc[r] \in Connecting \/ Available(r)

PoolInv == RefreshConnected /\ WaitsOnce /\ PoolSpent /\ NobodyForgotten

\* A step of request r that may need the pool.
Served(r) ==
    \/ \E s \in Session : Authenticate(r, s) \/ Logout(r, s)
    \/ \E h \in Sid : BackchannelLogout(r, h)
    \/ \E s \in Session : Login(r, s, {})
    \/ \E s, p \in Session : Login(r, s, {p})
    \/ Proceed(r) \/ StatementFails(r) \/ HubRotates(r) \/ HubRefuses(r)

\* Every step of PooledSessions is one of AuthSession, or leaves the sessions and
\* the handlers alone.
LEMMA PooledStepIsStep ==
    ASSUME [PooledNext]_pooledVars PROVE [Next]_vars
<1>1. CASE UNCHANGED pooledVars
  BY <1>1 DEF pooledVars
<1>2. ASSUME NEW r \in Request, Ask(r) PROVE [Next]_vars
  BY <1>2 DEF Ask
<1>3. ASSUME NEW r \in Request, Enter(r) PROVE [Next]_vars
  BY <1>3 DEF Enter, Next, Arrive
<1>4. ASSUME NEW r \in Request, Serve(r) \/ Fail(r) PROVE [Next]_vars
  BY <1>4 DEF Serve, Read, Continue, Fail, Next, Arrive, Step
<1>5. ASSUME NEW r \in Request, HubAnswers(r) PROVE [Next]_vars
  BY <1>5 DEF HubAnswers, Next, Environment
<1>6. CASE PooledCrash
  BY <1>6 DEF PooledCrash, Next, Environment
<1>7. CASE Elsewhere
  BY <1>7 DEF Elsewhere, Next, Environment
<1> QED
  BY <1>1, <1>2, <1>3, <1>4, <1>5, <1>6, <1>7 DEF PooledNext

\* A handler's step moves that handler alone, and takes it into the refresh
\* transaction only from its beginning.
LEMMA ServedMovesOne ==
    ASSUME TypeOK, NEW r \in Request, Served(r)
    PROVE  /\ \A q \in Request \ {r} : pc'[q] = pc[q]
           /\ pc'[r] \in InRefresh => pc[r] \in InRefresh \cup {"locking"}
<1> USE DEF TypeOK, GoTo, InRefresh, Deleting
<1>1. CASE \E s \in Session : Authenticate(r, s)
  BY <1>1 DEF Authenticate, FindActiveSession, ReadStep, Decide
<1>2. CASE \E s \in Session : Logout(r, s)
  BY <1>2 DEF Logout
<1>3. CASE \E h \in Sid : BackchannelLogout(r, h)
  BY <1>3 DEF BackchannelLogout
<1>4. CASE \E s \in Session : Login(r, s, {}) \/ \E p \in Session : Login(r, s, {p})
  BY <1>4 DEF Login
<1>5. CASE VerifyStoredToken(r)
  BY <1>5 DEF VerifyStoredToken, Judge, Decide, StoredTokenStep
<1>6. CASE VerifyRefreshedToken(r)
  BY <1>6 DEF VerifyRefreshedToken, Judge, Decide, RefreshedTokenStep
<1>7. CASE LockFindsNoSession(r) \/ LockFindsOtherToken(r) \/ LockFindsExpiredToken(r)
  BY <1>7 DEF LockFindsNoSession, LockFindsOtherToken, LockFindsExpiredToken
<1>8. CASE SaveTokens(r) \/ DeleteRefused(r) \/ RefreshFails(r)
  BY <1>8 DEF SaveTokens, DeleteRefused, RefreshFails
<1>9. CASE RereadSession(r)
  BY <1>9 DEF RereadSession, FindActiveSession, ReadStep, Decide
<1>10. CASE DeleteRows(r) \/ LogoutIdentitySession(r)
  BY <1>10 DEF DeleteRows, LogoutIdentitySession, AfterDelete
<1>11. CASE PurgeExpired(r) \/ InsertSession(r) \/ StatementFails(r)
  BY <1>11 DEF PurgeExpired, InsertSession, StatementFails
<1>12. CASE HubRotates(r) \/ HubRefuses(r)
  BY <1>12 DEF HubRotates, HubRefuses
<1> QED
  BY <1>1, <1>2, <1>3, <1>4, <1>5, <1>6, <1>7, <1>8, <1>9, <1>10, <1>11, <1>12
  DEF Served, Proceed

\* Giving back one's own connection leaves the others theirs.
LEMMA ReconnectKeeps ==
    ASSUME NEW r \in Request, Reconnect(r)
    PROVE  /\ conn \ {r} \subseteq conn'
           /\ KeepsConnection(r) => conn' = conn
BY DEF Reconnect, Hand, pool

\* A sequence of requests, none twice and none in the set.
InTurn(waiting, held) ==
    /\ waiting \in Seq(Request)
    /\ \A i, j \in 1..Len(waiting) : waiting[i] = waiting[j] => i = j
    /\ \A i \in 1..Len(waiting) : waiting[i] \notin held
In(q, waiting) == \E i \in 1..Len(waiting) : waiting[i] = q

\* What is put at the end of a queue, and what is taken from its head.
LEMMA Appended ==
    ASSUME NEW S, NEW q \in Seq(S), NEW r \in S, NEW w, w = Append(q, r)
    PROVE  /\ w \in Seq(S) /\ Len(q) \in Nat /\ Len(w) = Len(q) + 1
           /\ \A i \in 1..Len(q) : w[i] = q[i]
           /\ w[Len(q) + 1] = r
  BY AppendProperties, LenProperties

LEMMA Taken ==
    ASSUME NEW S, NEW w \in Seq(S), w # <<>>, NEW h, h = Head(w), NEW t, t = Tail(w)
    PROVE  /\ Len(w) \in Nat \ {0} /\ h = w[1]
           /\ t \in Seq(S) /\ Len(t) = Len(w) - 1
           /\ \A i \in 1..Len(t) : t[i] = w[i + 1]
  BY HeadTailProperties, LenProperties, EmptySeq

\* A free connection goes to the first who waits: nobody is lost or served twice, and
\* if the queue was not empty before, either it is now or all are in use.
LEMMA HandStep ==
    ASSUME NEW held \in SUBSET Request, NEW waiting,
           InTurn(waiting, held), Hand(held, waiting),
           poolSize \in Nat \ {0}, IsFiniteSet(held), Cardinality(held) <= poolSize,
           Len(waiting) > 1 => Cardinality(held) + 1 >= poolSize
    PROVE  /\ WaitsOnce' /\ PoolSpent'
           /\ held \subseteq conn'
           /\ \A q \in Request : q \in conn' \/ Waits(q)' <=> q \in held \/ In(q, waiting)
<1>1. waiting \in Seq(Request) /\ Len(waiting) \in Nat /\ Cardinality(held) \in Nat
  BY LenProperties, FS_CardinalityType DEF InTurn
<1>2. CASE conn' = held /\ queue' = waiting /\ (waiting = <<>> \/ Cardinality(held) >= poolSize)
  <2>1. DOMAIN queue' = 1..Len(waiting)
    BY <1>1, <1>2, LenProperties
  <2>2. WaitsOnce'
    BY <1>2 DEF WaitsOnce, InTurn
  <2>3. PoolSpent'
    BY <1>1, <1>2 DEF PoolSpent, Hand
  <2> QED
    BY <1>2, <2>1, <2>2, <2>3 DEF Waits, In
<1>3. CASE /\ waiting # <<>> /\ Cardinality(held) < poolSize
           /\ conn' = held \cup {Head(waiting)} /\ queue' = Tail(waiting)
  <2>1. PICK h, t : h = Head(waiting) /\ t = Tail(waiting)
    OBVIOUS
  <2>2. /\ Len(waiting) \in Nat \ {0} /\ h = waiting[1]
        /\ t \in Seq(Request) /\ Len(t) = Len(waiting) - 1
        /\ \A i \in 1..Len(t) : t[i] = waiting[i + 1]
    BY <1>1, <1>3, <2>1, Taken
  <2>3. conn' = held \cup {h} /\ queue' = t
    BY <1>3, <2>1
  <2>4. h \in Request /\ h \notin held
    BY <1>1, <2>2, ElementOfSeq DEF InTurn
  <2>5. IsFiniteSet(conn') /\ Cardinality(conn') = Cardinality(held) + 1
    BY <2>3, <2>4, FS_AddElement
  <2>6. DOMAIN queue' = 1..Len(t)
    BY <2>2, <2>3, LenProperties
  <2>7. WaitsOnce'
    <3>1. ASSUME NEW i \in 1..Len(t), NEW j \in 1..Len(t), t[i] = t[j] PROVE i = j
      <4>1. i + 1 \in 1..Len(waiting) /\ j + 1 \in 1..Len(waiting)
        BY <2>2
      <4>2. waiting[i + 1] = waiting[j + 1]
        BY <2>2, <3>1
      <4>3. i + 1 = j + 1
        BY <4>1, <4>2 DEF InTurn
      <4> QED
        BY <2>2, <4>3
    <3>2. \A i \in 1..Len(t) : t[i] \notin held \cup {h}
      BY <2>2 DEF InTurn
    <3> QED
      BY <2>2, <2>3, <3>1, <3>2 DEF WaitsOnce
  <2>8. PoolSpent'
    <3>1. t # <<>> => Len(waiting) > 1
      BY <2>2, EmptySeq
    <3> QED
      BY <1>1, <1>3, <2>3, <2>4, <2>5, <3>1 DEF PoolSpent, Hand
  <2>9. \A q \in Request : q \in conn' \/ Waits(q)' <=> q \in held \/ In(q, waiting)
    <3>1. ASSUME NEW q, In(q, t) PROVE In(q, waiting)
      BY <2>2, <3>1 DEF In
    <3>2. ASSUME NEW q, In(q, waiting) PROVE q = h \/ In(q, t)
      <4>1. PICK i \in 1..Len(waiting) : waiting[i] = q
        BY <3>2 DEF In
      <4>2. CASE i = 1
        BY <2>2, <4>1, <4>2
      <4>3. CASE i > 1
        <5>1. i - 1 \in 1..Len(t) /\ t[i - 1] = q
          BY <2>2, <4>1, <4>3
        <5> QED
          BY <5>1 DEF In
      <4> QED
        BY <2>2, <4>2, <4>3
    <3>3. In(h, waiting)
      BY <2>2 DEF In
    <3>4. \A q : Waits(q)' <=> In(q, t)
      BY <2>3, <2>6 DEF Waits, In
    <3> QED
      BY <2>3, <3>1, <3>2, <3>3, <3>4
  <2> QED
    BY <2>3, <2>7, <2>8, <2>9
<1> QED
  BY <1>1, <1>2, <1>3 DEF Hand

\* A request that gives its connection back, or had none, has or awaits one
\* afterwards if its next step needs one; for the others nothing changes.
LEMMA ReconnectStep ==
    ASSUME WaitsOnce, PoolSpent, NEW r \in Request, ~Waits(r), Reconnect(r)
    PROVE  /\ WaitsOnce' /\ PoolSpent'
           /\ \A q \in Request \ {r} : q \in conn' \/ Waits(q)' <=> q \in conn \/ Waits(q)
           /\ KeepsConnection(r) => (r \in conn' \/ Waits(r)' <=> r \in conn)
           /\ ~KeepsConnection(r) => (r \in conn' \/ Waits(r)' <=> pc'[r] \in Connecting)
<1> DEFINE held == conn \ {r}
           waiting == IF pc'[r] \in Connecting THEN Append(queue, r) ELSE queue
<1>1. CASE KeepsConnection(r)
  <2>1. UNCHANGED pool
    BY <1>1 DEF Reconnect
  <2> QED
    BY <1>1, <2>1 DEF pool, WaitsOnce, PoolSpent, Waits
<1>2. CASE ~KeepsConnection(r)
  <2>1. Hand(held, waiting)
    BY <1>2 DEF Reconnect
  <2>2. /\ held \in SUBSET Request /\ IsFiniteSet(held) /\ r \notin held
        /\ Cardinality(held) \in Nat /\ Cardinality(conn) \in Nat
        /\ Cardinality(held) <= Cardinality(conn)
        /\ Cardinality(conn) <= Cardinality(held) + 1
    <3>1. held \in SUBSET Request /\ IsFiniteSet(held) /\ IsFiniteSet(conn)
      BY FS_Subset DEF PoolSpent
    <3>2. Cardinality(held) \in Nat /\ Cardinality(conn) \in Nat
      BY <3>1, FS_CardinalityType
    <3>3. CASE r \in conn
      <4>1. Cardinality(held) = Cardinality(conn) - 1
        BY <3>1, <3>3, FS_RemoveElement
      <4> QED
        BY <3>1, <3>2, <4>1
    <3>4. CASE r \notin conn
      <4>1. Cardinality(held) = Cardinality(conn)
        <5>1. held = conn
          BY <3>4
        <5> HIDE DEF held
        <5> QED
          BY <5>1
      <4> QED
        BY <3>1, <3>2, <4>1
    <3> QED
      BY <3>3, <3>4
  <2>3. /\ DOMAIN queue = 1..Len(queue) /\ Len(queue) \in Nat
        /\ \A q \in Request : Waits(q) <=> In(q, queue)
    BY LenProperties DEF WaitsOnce, Waits, In
  <2>4. /\ InTurn(waiting, held)
        /\ \A q \in Request : In(q, waiting) <=>
              In(q, queue) \/ (q = r /\ pc'[r] \in Connecting)
        /\ Len(waiting) <= Len(queue) + 1 /\ Len(waiting) \in Nat
    <3>1. CASE pc'[r] \notin Connecting
      BY <3>1, <2>3 DEF InTurn, In, WaitsOnce
    <3>2. CASE pc'[r] \in Connecting
      <4>1. PICK w : w = Append(queue, r)
        OBVIOUS
      <4>2. /\ w \in Seq(Request) /\ Len(w) = Len(queue) + 1
            /\ \A i \in 1..Len(queue) : w[i] = queue[i]
            /\ w[Len(queue) + 1] = r
        BY <4>1, Appended DEF WaitsOnce
      <4>3. \A i \in 1..Len(queue) : queue[i] # r
        BY <2>3 DEF In
      <4>4. \A i \in 1..Len(w) : i \in 1..Len(queue) \/ i = Len(queue) + 1
        BY <2>3, <4>2
      <4>5. InTurn(w, held)
        <5>1. \A i, j \in 1..Len(w) : w[i] = w[j] => i = j
          BY <4>2, <4>3, <4>4 DEF WaitsOnce
        <5>2. \A i \in 1..Len(w) : w[i] \notin held
          BY <2>2, <4>2, <4>4 DEF WaitsOnce
        <5> QED
          BY <4>2, <5>1, <5>2 DEF InTurn
      <4>6. \A q \in Request : In(q, w) <=> In(q, queue) \/ q = r
        <5>1. In(r, w)
          BY <2>3, <4>2 DEF In
        <5>2. \A q \in Request : In(q, queue) => In(q, w)
          BY <2>3, <4>2 DEF In
        <5>3. \A q \in Request : In(q, w) => In(q, queue) \/ q = r
          BY <4>2, <4>4 DEF In
        <5> QED
          BY <5>1, <5>2, <5>3
      <4> QED
        BY <3>2, <4>1, <4>2, <4>5, <4>6, <2>3
    <3> QED
      BY <3>1, <3>2
  <2>5. Len(waiting) > 1 => Cardinality(held) + 1 >= poolSize
    <3>1. Len(waiting) > 1 => queue # <<>>
      BY <2>3, <2>4, EmptySeq
    <3> QED
      BY <2>2, <3>1 DEF PoolSpent
  <2> HIDE DEF held, waiting
  <2>6. /\ WaitsOnce' /\ PoolSpent'
        /\ \A q \in Request : q \in conn' \/ Waits(q)' <=> q \in held \/ In(q, waiting)
    <3>1. Cardinality(held) <= poolSize /\ poolSize \in Nat \ {0}
      BY <2>2 DEF PoolSpent
    <3> QED
      BY <2>1, <2>2, <2>4, <2>5, <3>1, HandStep
  <2>7. \A q \in Request : q \in held <=> q \in conn /\ q # r
    BY DEF held
  <2> QED
    BY <1>2, <2>2, <2>3, <2>4, <2>6, <2>7
<1> QED
  BY <1>1, <1>2

LEMMA RefreshConnectedStep ==
    ASSUME TypeOK, RefreshConnected, [PooledNext]_pooledVars
    PROVE  RefreshConnected'
<1>1. CASE UNCHANGED pooledVars
  BY <1>1 DEF pooledVars, vars, handlers, pool, RefreshConnected
<1>2. ASSUME NEW r \in Request, Ask(r) PROVE RefreshConnected'
  BY <1>2 DEF Ask, Hand, vars, handlers, RefreshConnected
<1>3. ASSUME NEW r \in Request, Served(r), Reconnect(r),
             pc[r] = "locking" => r \in conn
      PROVE  RefreshConnected'
  <2>1. ASSUME NEW q \in Request \ {r}, pc'[q] \in InRefresh PROVE q \in conn'
    BY <1>3, <2>1, ServedMovesOne, ReconnectKeeps DEF RefreshConnected
  <2>2. ASSUME pc'[r] \in InRefresh PROVE r \in conn'
    <3>1. KeepsConnection(r)
      BY <1>3, <2>2, ServedMovesOne DEF KeepsConnection
    <3>2. r \in conn
      BY <1>3, <2>2, ServedMovesOne DEF RefreshConnected
    <3> QED
      BY <1>3, <3>1, <3>2, ReconnectKeeps
  <2> QED
    BY <2>1, <2>2 DEF RefreshConnected
<1>4. ASSUME NEW r \in Request, Enter(r) PROVE RefreshConnected'
  <2>1. pc[r] # "locking"
    BY <1>4 DEF Enter, BackchannelLogout, Login, Available, Ended
  <2> QED
    BY <1>3, <1>4, <2>1 DEF Enter, Served
<1>5. ASSUME NEW r \in Request, Serve(r) \/ Fail(r) PROVE RefreshConnected'
  BY <1>3, <1>5 DEF Serve, Read, Continue, Fail, Served, Connecting
<1>6. ASSUME NEW r \in Request, HubAnswers(r) PROVE RefreshConnected'
  <2>1. pc[r] # "locking"
    BY <1>6 DEF HubAnswers, HubRotates, HubRefuses
  <2> QED
    BY <1>3, <1>6, <2>1 DEF HubAnswers, Served
<1>7. CASE PooledCrash
  BY <1>7 DEF PooledCrash, Crash, Handling, InRefresh, RefreshConnected
<1>8. CASE Elsewhere
  BY <1>8 DEF Elsewhere, HubServesLateCall, HubRevokes, AccessTokenExpires,
     RefreshTokenExpires, handlers, pool, RefreshConnected
<1> QED
  BY <1>1, <1>2, <1>4, <1>5, <1>6, <1>7, <1>8 DEF PooledNext

\* What a step of PooledSessions does to the pool: a request that goes on gives its
\* connection back or keeps it, and one that arrives asks for one.
LEMMA PoolStep ==
    ASSUME TypeOK, PoolInv, [PooledNext]_pooledVars
    PROVE  WaitsOnce' /\ PoolSpent' /\ NobodyForgotten'
<1> USE DEF PoolInv
<1>1. CASE UNCHANGED pooledVars
  BY <1>1 DEF pooledVars, vars, handlers, pool, WaitsOnce, PoolSpent, NobodyForgotten, Waits,
     Available
<1>2. ASSUME NEW r \in Request, Ask(r) PROVE WaitsOnce' /\ PoolSpent' /\ NobodyForgotten'
  <2>1. PICK w : w = Append(queue, r)
    OBVIOUS
  <2>2. /\ w \in Seq(Request) /\ Len(queue) \in Nat /\ Len(w) = Len(queue) + 1
        /\ \A i \in 1..Len(queue) : w[i] = queue[i]
        /\ w[Len(queue) + 1] = r
    BY <2>1, Appended DEF WaitsOnce
  <2>3. DOMAIN queue = 1..Len(queue)
    BY LenProperties DEF WaitsOnce
  <2>4. r \notin conn /\ \A i \in 1..Len(queue) : queue[i] # r
    BY <1>2, <2>3 DEF Ask, Waits
  <2>5. \A i \in 1..Len(w) : i \in 1..Len(queue) \/ i = Len(queue) + 1
    BY <2>2
  <2>6. InTurn(w, conn)
    <3>1. \A i, j \in 1..Len(w) : w[i] = w[j] => i = j
      BY <2>2, <2>4, <2>5 DEF WaitsOnce
    <3>2. \A i \in 1..Len(w) : w[i] \notin conn
      BY <2>2, <2>4, <2>5 DEF WaitsOnce
    <3> QED
      BY <2>2, <3>1, <3>2 DEF InTurn
  <2>7. Len(w) > 1 => Cardinality(conn) + 1 >= poolSize
    <3>1. Len(w) > 1 => queue # <<>>
      BY <2>2, EmptySeq
    <3> QED
      BY <3>1 DEF PoolSpent
  <2>8. /\ WaitsOnce' /\ PoolSpent'
        /\ \A q \in Request : q \in conn' \/ Waits(q)' <=> q \in conn \/ In(q, w)
    BY <1>2, <2>1, <2>6, <2>7, HandStep DEF Ask, PoolSpent
  <2>9. \A q \in Request : In(q, w) => Waits(q) \/ q = r
    BY <2>2, <2>3, <2>5 DEF In, Waits
  <2>10. \A q \in Request : Waits(q) => In(q, w)
    BY <2>2, <2>3 DEF In, Waits
  <2>11. pc' = pc /\ Available(r)
    BY <1>2 DEF Ask, vars, handlers
  <2> QED
    BY <2>8, <2>9, <2>10, <2>11 DEF NobodyForgotten, Available
<1>3. ASSUME NEW r \in Request, Served(r), Reconnect(r), ~Waits(r),
             KeepsConnection(r) => r \in conn
      PROVE  WaitsOnce' /\ PoolSpent' /\ NobodyForgotten'
  <2>1. /\ WaitsOnce' /\ PoolSpent'
        /\ \A q \in Request \ {r} : q \in conn' \/ Waits(q)' <=> q \in conn \/ Waits(q)
        /\ KeepsConnection(r) => (r \in conn' \/ Waits(r)' <=> r \in conn)
        /\ ~KeepsConnection(r) => (r \in conn' \/ Waits(r)' <=> pc'[r] \in Connecting)
    BY <1>3, ReconnectStep
  <2>2. \A q \in Request \ {r} : pc'[q] = pc[q]
    BY <1>3, ServedMovesOne
  <2>3. KeepsConnection(r) => pc'[r] \in Connecting
    BY DEF KeepsConnection, Connecting
  <2> QED
    BY <1>3, <2>1, <2>2, <2>3 DEF NobodyForgotten, Available
<1>4. ASSUME NEW r \in Request, Enter(r) PROVE WaitsOnce' /\ PoolSpent' /\ NobodyForgotten'
  <2>1. ~KeepsConnection(r)
    BY <1>4 DEF Enter, BackchannelLogout, Login, Available, Ended, KeepsConnection, InRefresh
  <2> QED
    BY <1>3, <1>4, <2>1 DEF Enter, Served
<1>5. \A r \in conn : r \in Request /\ ~Waits(r)
  BY LenProperties DEF PoolSpent, WaitsOnce, Waits
<1>6. ASSUME NEW r \in Request, Read(r) \/ Fail(r)
      PROVE  WaitsOnce' /\ PoolSpent' /\ NobodyForgotten'
  BY <1>3, <1>5, <1>6 DEF Read, Fail, Served
<1>7. ASSUME NEW r \in Request, Continue(r) PROVE WaitsOnce' /\ PoolSpent' /\ NobodyForgotten'
  <2>1. ~Available(r)
    BY <1>7 DEF Continue, Proceed, Available, Ended, VerifyStoredToken, VerifyRefreshedToken,
       LockFindsNoSession, LockFindsOtherToken, LockFindsExpiredToken, SaveTokens,
       DeleteRefused, RefreshFails, RereadSession, DeleteRows, LogoutIdentitySession,
       PurgeExpired, InsertSession, InRefresh, Deleting
  <2>2. ~Waits(r)
    BY <1>5, <1>7, <2>1 DEF NobodyForgotten, Continue
  <2>3. KeepsConnection(r) => r \in conn
    BY <1>7 DEF KeepsConnection, Connecting, Continue
  <2> QED
    BY <1>3, <1>7, <2>2, <2>3 DEF Continue, Served
<1>8. ASSUME NEW r \in Request, HubAnswers(r) PROVE WaitsOnce' /\ PoolSpent' /\ NobodyForgotten'
  <2>1. pc[r] = "calling"
    BY <1>8 DEF HubAnswers, HubRotates, HubRefuses
  <2>2. r \in conn
    BY <2>1 DEF RefreshConnected, InRefresh
  <2> QED
    BY <1>3, <1>5, <1>8, <2>2 DEF HubAnswers, Served
<1>9. CASE PooledCrash
  <2>1. conn' = {} /\ queue' = <<>> /\ poolSize' = poolSize
    BY <1>9 DEF PooledCrash
  <2>2. Len(<<>>) = 0 /\ <<>> \in Seq(Request) /\ DOMAIN <<>> = {}
    BY EmptySeq
  <2>3. IsFiniteSet({}) /\ Cardinality({}) = 0
    BY FS_EmptySet
  <2>4. \A r \in Request : pc'[r] \notin Connecting
    BY <1>9 DEF PooledCrash, Crash, Handling, Connecting, TypeOK, InRefresh, Deleting
  <2> QED
    BY <2>1, <2>2, <2>3, <2>4 DEF WaitsOnce, PoolSpent, NobodyForgotten, Waits
<1>10. CASE Elsewhere
  <2>1. pc' = pc /\ UNCHANGED pool
    BY <1>10 DEF Elsewhere, HubServesLateCall, HubRevokes, AccessTokenExpires,
       RefreshTokenExpires, handlers
  <2> QED
    BY <2>1 DEF pool, WaitsOnce, PoolSpent, NobodyForgotten, Waits, Available
<1> QED
  BY <1>1, <1>2, <1>4, <1>6, <1>7, <1>8, <1>9, <1>10 DEF PooledNext, Serve

LEMMA PoolInvInitially == PooledInit => PoolInv
<1> SUFFICES ASSUME PooledInit PROVE PoolInv
  OBVIOUS
<1>1. Len(<<>>) = 0 /\ <<>> \in Seq(Request) /\ DOMAIN <<>> = {}
  BY EmptySeq
<1>2. IsFiniteSet({}) /\ Cardinality({}) = 0
  BY FS_EmptySet
<1>3. poolSize \in Nat \ {0}
  BY PoolSizesAssumption DEF PooledInit
<1>4. \A r \in Request : pc[r] = "idle"
  BY DEF PooledInit, Init
<1> QED
  BY <1>1, <1>2, <1>3, <1>4 DEF PooledInit, PoolInv, RefreshConnected, WaitsOnce, PoolSpent,
     NobodyForgotten, Waits, Connecting, InRefresh, Deleting

\* If a lock is held, its holder goes on; otherwise nobody waits for a lock, and if
\* anybody waits for a connection all are in use.
LEMMA NobodyStuckThen ==
    ASSUME IndInv, PoolInv PROVE NobodyStuck
<1> SUFFICES ASSUME NEW q \in Request, Waits(q) \/ WaitsForLock(q)
             PROVE  \E r \in conn : ~WaitsForLock(r)
  BY DEF NobodyStuck
<1>1. CASE \E s \in Session : rowLock[s] # NoRequest
  <2>1. PICK s \in Session : rowLock[s] # NoRequest
    BY <1>1
  <2>2. PICK r \in Request : rowLock[s] = r
    BY <2>1 DEF IndInv, TypeOK
  <2>3. pc[r] \in InRefresh
    BY <2>2 DEF IndInv, LockGuardsRefresh
  <2>4. r \in conn /\ ~WaitsForLock(r)
    BY <2>3 DEF PoolInv, RefreshConnected, WaitsForLock, InRefresh, Deleting
  <2> QED
    BY <2>4
<1>2. CASE \A s \in Session : rowLock[s] = NoRequest
  <2>1. \A r \in Request : ~WaitsForLock(r)
    BY <1>2 DEF WaitsForLock, IndInv, TypeOK
  <2>2. Waits(q)
    BY <2>1
  <2>3. queue # <<>>
    BY <2>2, EmptySeq DEF Waits
  <2>4. conn # {}
    BY <2>3, FS_EmptySet DEF PoolInv, PoolSpent
  <2> QED
    BY <2>1, <2>4 DEF PoolInv, PoolSpent
<1> QED
  BY <1>1, <1>2

-----------------------------------------------------------------------------
\* On the pool the handlers do nothing they would not do without it: every safety
\* property of AuthSession holds here too.
THEOREM PoolRestricts == PooledSpec => Spec
<1>1. PooledInit => Init
  BY DEF PooledInit
<1> QED
  BY <1>1, PooledStepIsStep, PTL DEF PooledSpec, Spec

\* Nobody is forgotten or served twice by the pool, which is never exceeded.
THEOREM PoolInvariance == PooledSpec => []PoolInv
<1>1. TypeOK /\ PoolInv /\ [PooledNext]_pooledVars => PoolInv'
  BY PoolStep, RefreshConnectedStep DEF PoolInv
<1> QED
  BY PoolInvInitially, <1>1, PoolRestricts, TypeCorrect, PTL DEF PooledSpec

\* Whatever the size of the pool, who holds a row lock has a connection.
THEOREM LockHoldersConnected == PooledSpec => []LockHolderConnected
<1>1. IndInv /\ PoolInv => LockHolderConnected
  BY DEF IndInv, LockGuardsRefresh, PoolInv, RefreshConnected, LockHolderConnected
<1> QED
  BY <1>1, PoolRestricts, Invariance, PoolInvariance, PTL

\* Whatever the size of the pool, requests that wait for row locks and for connections
\* never wait for each other in a circle.
THEOREM NobodyGetsStuck == PooledSpec => []NobodyStuck
<1>1. IndInv /\ PoolInv => NobodyStuck
  BY NobodyStuckThen
<1> QED
  BY <1>1, PoolRestricts, Invariance, PoolInvariance, PTL
=============================================================================
