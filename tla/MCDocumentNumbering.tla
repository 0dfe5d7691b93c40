------------------------ MODULE MCDocumentNumbering ------------------------
(* Model checking of DocumentNumbering, with two types whose slugs are apart  *)
(* and with two types of which one's slug continues the other's.              *)
EXTENDS DocumentNumbering, TLC

Symmetric == Permutations(Request)

Numbers == {"1", "2"}
Years == {"2025", "2026"}
Suffixes == {<<>>, <<"2">>}

SlugLey == "ley" :> <<"ley">>
SlugsApart == "ley" :> <<"ley">> @@ "decreto" :> <<"decreto">>
SlugsNested == "ley" :> <<"ley">> @@ "ley 1" :> <<"ley", "1">>

\* Bound: three transactions at once only on one type, and while there is no
\* document of the other.
ThreeOnOneType ==
    (\A r \in Request : pc[r] # "idle") =>
        \E t \in Type : /\ \A r \in Request : draft[r].type = t
                         /\ \A row \in documents : row.doc.type = t

\* No action reads reply, nor the draft and mode of a handler that has ended.
View == <<mode, documents, readers, writer, pc,
          [r \in Request |-> IF pc[r] = "idle" THEN <<>> ELSE <<draft[r], seenMode[r]>>]>>
=============================================================================
