--------------------------- MODULE MCPublicCatalog ---------------------------
(* Model checking of PublicCatalog: four documents of which two, of different  *)
(* types, are equal in year, number and suffix, and one differs from them in    *)
(* its suffix only; one is the source of a relation to another.                 *)
EXTENDS PublicCatalog

MCKey == <<<<2025, 1, 0>>, <<2024, 7, 0>>, <<2024, 7, 0>>, <<2024, 7, 1>>>>
MCOwner == <<1, 1, 2, 1>>
MCSource == <<{}, {1}, {}, {}>>

\* Bound: types are only active or not for the landing page.
ActiveForLanding == pc \in {"away", "landing"} \/ active = Type
=============================================================================
