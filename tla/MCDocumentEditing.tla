-------------------------- MODULE MCDocumentEditing --------------------------
(* Model checking of DocumentEditing: names that leave nothing for a slug, that *)
(* share one, and one whose slug begins with another's, so that the two         *)
(* documents, each of a type of its own, may get the same slug.                 *)
EXTENDS DocumentEditing, TLC

MCNameSlug ==
    [n \in Name |-> CASE n \in {"Ley", "LEY"} -> <<"ley">>
                      [] n = "Ley 1" -> <<"ley", "1">> [] OTHER -> <<>>]
MCOwner == [d \in Doc |-> d]
MCSegments ==
    [d \in Doc |-> IF d = 1 THEN <<"1", "2", "2020">> ELSE <<"2", "2020">>]

Symmetric == Permutations(Request)

\* What a handler at each point still reads of its local variables.
Locals(r) ==
    CASE pc[r] = "idle" -> <<>>
      [] pc[r] = "comparing" -> <<on[r], patch[r], copy[r]>>
      [] OTHER -> <<on[r], {<<f, patch[r][f]>> : f \in dirty[r] \ {"slug"}}, Partial(patch[r]),
                    IF "slug" \in dirty[r] THEN copy[r] ELSE NoSlug, dirty[r]>>

View == <<name, typeSlug, slug, dates, pc, script, plan, history, [r \in Request |-> Locals(r)]>>

Default == [f \in DateField |-> IF f = "publication" THEN 1 ELSE NoDate]
Empty(p) == \A f \in DateField : p[f] = Absent

\* Bounds: the run explores all that can become of the slugs while no request
\* carries dates, and all that can become of the dates of one document while the
\* script does not run.
SlugsOnly ==
    /\ raced = {} /\ partial = {}
    /\ \A d \in Stored : dates[d] = Default
    /\ \A r \in Request : pc[r] # "idle" => Empty(patch[r])
DatesOnly ==
    /\ script = "idle" /\ Stored \subseteq {1} /\ Types = {1} /\ name[1] = "Ley"
    /\ partial = {} \/ raced = {}
SlugsOrDates == SlugsOnly \/ DatesOnly
=============================================================================
