--------------------------- MODULE MCPooledSessions ---------------------------
(* Model checking of PooledSessions.                                           *)
EXTENDS PooledSessions

\* The local variables of a request without a handler are set again before they
\* are read, and no property of these runs reads them.
Locals(r) == IF Available(r) THEN <<>> ELSE <<on[r], seen[r], doomed[r]>>

View == <<table, time, hub, pc, pool, [r \in Request |-> Locals(r)]>>
=============================================================================
