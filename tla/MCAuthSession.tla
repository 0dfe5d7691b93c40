---------------------------- MODULE MCAuthSession ----------------------------
(* Model checking of AuthSession: requests, sessions and Hub sessions are     *)
(* interchangeable, and one login has at most MaxPair pairs of tokens.         *)
EXTENDS AuthSession, TLC

Symmetric == Permutations(Request) \cup Permutations(Session) \cup Permutations(Sid)

\* What the local variables of an ended handler still say: a property reads
\* seen after "authenticated" and doomed after "loggedOut" and "swept"; no
\* action reads any of them before the slot's next request sets them again.
Locals(r) ==
    CASE pc[r] \in {"idle", "rejected", "failed", "loggedIn"} -> <<>>
      [] pc[r] = "authenticated"         -> <<"guard", on[r], seen[r]>>
      [] pc[r] \in {"loggedOut", "swept"} -> <<"delete", doomed[r]>>
      [] OTHER                           -> <<pc[r], on[r], seen[r], doomed[r]>>

View == <<table, time, hub, [r \in Request |-> Locals(r)]>>

\* Bounds: three requests of one session, with all that can go wrong; ...
OneSession ==
    \E s \in Session :
        /\ \A t \in Session \ {s} : issued[t] = 0
        /\ \A t \in Session : sidOf[t] = sidOf[s]
        /\ revoked \subseteq {sidOf[s]}

\* ... and two requests of two sessions, one of which needs no refresh, with an
\* Identity Hub that issues only good tokens and that every call reaches before
\* its caller gives up.
TwoSessions ==
    /\ \E r \in Request : pc[r] = "idle"
    /\ \E s \in Session : accessExpired[s] = 0
    /\ onWire = {}
    /\ \A s \in Session, p \in Pair : quality[s][p] = "good"

OneOrTwoSessions == OneSession \/ TwoSessions
=============================================================================
