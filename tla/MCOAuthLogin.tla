----------------------------- MODULE MCOAuthLogin -----------------------------
(* Model checking of OAuthLogin: requests, transactions and browsers are       *)
(* interchangeable.                                                             *)
EXTENDS OAuthLogin, TLC

Symmetric == Permutations(Request) \cup Permutations(Txn) \cup Permutations(Browser)

\* The local variables of a handler that has answered are not read again.
Locals(r) ==
    IF pc[r] \in Ended THEN <<>> ELSE <<pc[r], from[r], carried[r], state[r]>>

View == <<table, browsers, hub, session, history, [r \in Request |-> Locals(r)]>>
=============================================================================
