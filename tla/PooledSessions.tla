---------------------------- MODULE PooledSessions ----------------------------
(***************************************************************************)
(* The handlers of AuthSession on the process's pool of database           *)
(* connections (TypeORM over pg-pool, external).  Every statement needs a  *)
(* connection; a transaction keeps its own from BEGIN to COMMIT, also      *)
(* while it waits for a row lock or for Identity Hub.  No option of the    *)
(* pool is set: it hands connections out in the order of asking and never  *)
(* gives up on who waits.                                                  *)
(***************************************************************************)
EXTENDS AuthSession, Sequences

CONSTANT PoolSizes \* the sizes a pool may have

ASSUME PoolSizesAssumption == PoolSizes \subseteq Nat \ {0}

VARIABLES
    poolSize, \* connections of this process's pool
    conn,     \* requests that hold a connection
    queue     \* requests that wait for one, in turn

pool == <<poolSize, conn, queue>>
pooledVars == <<vars, pool>>

PooledInit == Init /\ poolSize \in PoolSizes /\ conn = {} /\ queue = <<>>

Waits(r) == \E i \in DOMAIN queue : queue[i] = r

\* At these points a handler holds a connection or waits for one.
Connecting == Deleting \cup InRefresh \cup {"locking", "rereading", "purging", "inserting"}

\* Mutant of KeepsConnection: what follows Identity Hub's answer is run with the
\* injected repository, on another connection than the transaction's.
KeepsConnectionForCall(r) ==
    pc[r] \in {"locking", "calling"} /\ pc'[r] = "calling"

\* The refresh transaction goes on.
KeepsConnection(r) ==
    pc[r] \in InRefresh \cup {"locking"} /\ pc'[r] \in InRefresh

\* A free connection goes to the request that has waited longest.
Hand(held, waiting) ==
    /\ IF waiting # <<>> /\ Cardinality(held) < poolSize
       THEN conn' = held \cup {Head(waiting)} /\ queue' = Tail(waiting)
       ELSE conn' = held /\ queue' = waiting
    /\ UNCHANGED poolSize

\* Request r gives its connection back and, if its next step needs one, asks again.
Reconnect(r) ==
    IF KeepsConnection(r)
    THEN UNCHANGED pool
    ELSE Hand(conn \ {r}, IF pc'[r] \in Connecting THEN Append(queue, r) ELSE queue)

-----------------------------------------------------------------------------
\* A request whose handler starts with a SELECT asks for a connection ...
Ask(r) ==
    /\ Available(r) /\ r \notin conn /\ ~Waits(r)
    /\ \E s \in Session : row[s] # "none"
    /\ Hand(conn, Append(queue, r))
    /\ UNCHANGED vars

\* ... and reads the session with it.
Read(r) ==
    /\ r \in conn
    /\ \E s \in Session : Authenticate(r, s) \/ Logout(r, s)
    /\ Reconnect(r)

\* The first statement of the others is a step of its own.
Enter(r) ==
    /\ r \notin conn /\ ~Waits(r)
    /\ \/ \E h \in Sid : BackchannelLogout(r, h)
       \/ \E s \in Session : Login(r, s, {})
       \/ \E s, p \in Session : Login(r, s, {p})
    /\ Reconnect(r)

Continue(r) ==
    /\ pc[r] \in Connecting => r \in conn
    /\ Proceed(r)
    /\ Reconnect(r)

\* A statement or the connection fails; the pool has the connection back.
Fail(r) ==
    /\ r \in conn
    /\ StatementFails(r)
    /\ Reconnect(r)

Serve(r) == Read(r) \/ Continue(r)

HubAnswers(r) ==
    /\ HubRotates(r) \/ HubRefuses(r)
    /\ Reconnect(r)

PooledCrash ==
    /\ Crash
    /\ conn' = {} /\ queue' = <<>>
    /\ UNCHANGED poolSize

Elsewhere ==
    /\ \/ \E s \in Session, p \in Pair : HubServesLateCall(s, p)
       \/ \E h \in Sid : HubRevokes(h)
       \/ \E s \in Session : AccessTokenExpires(s) \/ RefreshTokenExpires(s)
    /\ UNCHANGED pool

PooledNext ==
    \/ \E r \in Request : Ask(r) \/ Enter(r) \/ Serve(r) \/ Fail(r) \/ HubAnswers(r)
    \/ PooledCrash
    \/ Elsewhere

PooledSpec == PooledInit /\ [][PooledNext]_pooledVars

\* The event loop runs every handler that can run; PostgreSQL serves the
\* waiters of a row lock in turn, hence strong fairness; the HTTP client's
\* timeout fires.  Nothing is assumed of Identity Hub, which may never answer, and
\* no statement has to fail.
PooledFairSpec == PooledSpec /\ \A r \in Request : SF_pooledVars(Serve(r))

-----------------------------------------------------------------------------
(* Properties. *)

\* The next statement of r needs a row whose lock another transaction holds.
WaitsForLock(r) ==
    \/ pc[r] = "locking" /\ rowLock[on[r]] # NoRequest
    \/ pc[r] \in Deleting /\ \E s \in doomed[r] : rowLock[s] # NoRequest
    \/ pc[r] = "purging" /\ \E s \in Session :
          row[s] = "live" /\ RefreshExpired(s, pair[s]) /\ rowLock[s] # NoRequest

\* Row locks and the pool never wait for each other in a circle: as long as anybody
\* waits, for a connection or for a row lock with one in hand, there is somebody with
\* a connection who waits for no lock.
NobodyStuck ==
    (\E r \in Request : Waits(r) \/ WaitsForLock(r)) => \E r \in conn : ~WaitsForLock(r)

\* Every request is answered, whatever Identity Hub does and however small the
\* pool is, also a request that has yet to get its first connection.
EveryRequestEnds ==
    \A r \in Request : pc[r] \in Handling \/ r \in conn \/ Waits(r)
                       ~> Available(r) /\ r \notin conn /\ ~Waits(r)
=============================================================================
