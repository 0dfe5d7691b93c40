-------------------------- MODULE SessionLifecycle --------------------------
(***************************************************************************)
(* What the table auth_sessions promises to the rest of the backend,       *)
(* without handlers, locks or Identity Hub: a session row is created once, *)
(* its pair of tokens is replaced only by the next pair and only once the  *)
(* access token it holds has expired, and a deleted row never comes back.  *)
(* Module AuthSession shows that the handlers keep this promise.           *)
(***************************************************************************)
EXTENDS Naturals

CONSTANT Session

VARIABLES
    row,           \* row[s]: "none" before the INSERT, "live", "gone" after the DELETE
    pair,          \* pair[s]: number of the token pair the row holds
    accessExpired  \* accessExpired[s]: access tokens of pairs up to this one have expired

vars == <<row, pair, accessExpired>>

Init ==
    /\ row = [s \in Session |-> "none"]
    /\ pair = [s \in Session |-> 0]
    /\ accessExpired = [s \in Session |-> 0]

\* A login inserts the row with the first pair of its grant.
Open(s) ==
    /\ row[s] = "none"
    /\ row' = [row EXCEPT ![s] = "live"]
    /\ pair' = [pair EXCEPT ![s] = 1]
    /\ UNCHANGED accessExpired

\* A refresh replaces the stored pair by its successor.
Rotate(s) ==
    /\ row[s] = "live"
    /\ accessExpired[s] >= pair[s]
    /\ pair' = [pair EXCEPT ![s] = @ + 1]
    /\ UNCHANGED <<row, accessExpired>>

\* One DELETE, of one session or of all those a condition selects.
Close(S) ==
    /\ \A s \in S : row[s] = "live"
    /\ row' = [s \in Session |-> IF s \in S THEN "gone" ELSE row[s]]
    /\ UNCHANGED <<pair, accessExpired>>

\* Time passes for the tokens of one session.
Age(s) ==
    /\ accessExpired' = [accessExpired EXCEPT ![s] = @ + 1]
    /\ UNCHANGED <<row, pair>>

Next ==
    \/ \E s \in Session : Open(s) \/ Rotate(s) \/ Age(s)
    \/ \E S \in SUBSET Session : Close(S)

Spec == Init /\ [][Next]_vars
=============================================================================
