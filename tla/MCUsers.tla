------------------------------- MODULE MCUsers -------------------------------
(* Model checking of Users: requests, keys and names are interchangeable.    *)
EXTENDS Users, TLC

Symmetric == Permutations(Request) \cup Permutations(Key) \cup Permutations(Name)

\* No action reads reply, nor the variables of a handler that has answered, and
\* of the user it has read a login that renames or looks again needs the key and
\* at most its own name for him.
Locals(r) ==
    CASE pc[r] = "idle"         -> <<>>
      [] pc[r] = "findingAgain" -> <<pc[r], key[r]>>
      [] pc[r] = "renaming"     -> <<pc[r], key[r], entity[r].name>>
      [] OTHER -> <<pc[r], kind[r], key[r], entity[r], dirty[r], r \in raced>>

\* Bound: three handlers at once only for one user.
ThreeOnOneUser ==
    (\A r \in Request : pc[r] # "idle") => \A r, q \in Request : key[r] = key[q]

View == <<users, [r \in Request |-> Locals(r)]>>
=============================================================================
