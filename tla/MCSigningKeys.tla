---------------------------- MODULE MCSigningKeys ----------------------------
(* Model checking of SigningKeys: requests and kids are interchangeable.       *)
EXTENDS SigningKeys, TLC

Symmetric == Permutations(Request) \cup Permutations(Key)

\* What a handler that is not verifying remembers of its token is not read again.
View ==
    <<hub, live, kid, expired, client, trouble, pc,
      [r \in Request |-> IF pc[r] = "waiting" THEN token[r] ELSE pc[r]]>>
=============================================================================
