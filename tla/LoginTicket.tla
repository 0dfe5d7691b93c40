----------------------------- MODULE LoginTicket -----------------------------
(***************************************************************************)
(* What the table oauth_transactions promises to the login flow: a login   *)
(* attempt is a ticket that is issued once and used at most once, by the   *)
(* browser it was issued to and before it expires.  A ticket can also be   *)
(* withdrawn unused.  Module OAuthLogin shows that the handlers keep this. *)
(***************************************************************************)
CONSTANTS Txn, Browser, NoBrowser

VARIABLES
    holder,   \* holder[t]: the browser ticket t was issued to
    ticket,   \* ticket[t]: "none", "issued", "accepted", "used" or "void"
    expired   \* tickets whose time is over

vars == <<holder, ticket, expired>>

Init ==
    /\ holder = [t \in Txn |-> NoBrowser]
    /\ ticket = [t \in Txn |-> "none"]
    /\ expired = {}

Issue(t, b) ==
    /\ ticket[t] = "none"
    /\ holder' = [holder EXCEPT ![t] = b]
    /\ ticket' = [ticket EXCEPT ![t] = "issued"]
    /\ UNCHANGED expired

\* The ticket is shown in time and found to be the right one ...
Accept(t) ==
    /\ ticket[t] = "issued"
    /\ t \notin expired
    /\ ticket' = [ticket EXCEPT ![t] = "accepted"]
    /\ UNCHANGED <<holder, expired>>

\* ... and is spent, unless that fails and it can be shown again.
Use(t) ==
    /\ ticket[t] = "accepted"
    /\ ticket' = [ticket EXCEPT ![t] = "used"]
    /\ UNCHANGED <<holder, expired>>

Return(T) ==
    /\ \A t \in T : ticket[t] = "accepted"
    /\ ticket' = [t \in Txn |-> IF t \in T THEN "issued" ELSE ticket[t]]
    /\ UNCHANGED <<holder, expired>>

Void(T) ==
    /\ \A t \in T : ticket[t] = "issued"
    /\ ticket' = [t \in Txn |-> IF t \in T THEN "void" ELSE ticket[t]]
    /\ UNCHANGED <<holder, expired>>

Expire(t) ==
    /\ expired' = expired \cup {t}
    /\ UNCHANGED <<holder, ticket>>

Next ==
    \/ \E t \in Txn, b \in Browser : Issue(t, b)
    \/ \E t \in Txn : Accept(t) \/ Use(t) \/ Expire(t)
    \/ \E T \in SUBSET Txn : Void(T) \/ Return(T)

Spec == Init /\ [][Next]_vars
=============================================================================
