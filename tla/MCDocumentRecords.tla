-------------------------- MODULE MCDocumentRecords --------------------------
(* Model checking of DocumentRecords: requests, documents and files are        *)
(* interchangeable.                                                            *)
EXTENDS DocumentRecords, TLC

Symmetric == Permutations(Request) \cup Permutations(Doc) \cup Permutations(File)

\* What a handler at each point still reads of its local variables.
Locals(r) ==
    CASE pc[r] \in {"idle", "done", "failed", "served"} -> <<>>
      [] pc[r] = "notFound"       -> <<on[r], entity[r]["file"]>>
      [] pc[r] \in Downloading    -> <<on[r], entity[r]>>
      [] pc[r] \in Uploading      -> <<want[r]>>
      [] OTHER -> <<on[r], want[r], type[r], entity[r], found[r], marks[r], dirty[r]>>

\* Bounds.  No upload has failed:
NoOrphan ==
    \A f \in onDisk : status[f] # "none" \/ \E r \in Request : pc[r] \in Uploading /\ want[r] = f

\* ... nor are files of interest, and one document is only there to be the source
\* of the other's relation.
OneTarget ==
    /\ NoOrphan
    /\ contested = {}
    /\ \A r \in Request : pc[r] # "checking" \/ ~Exists(on[r])
    /\ Cardinality({d \in Doc : \/ relation[d] # NoRelation \/ d \in raced \/ counted[d] > 0
                                \/ \E r \in Request : on[r] = d /\ pc[r] \in
                                      Downloading \cup {"relating", "comparing"}}) <= 1

\* Raced documents are exempt for good: after a race the transaction that was
\* overtaken is followed to its end, and nothing that comes later.
Unraced ==
    /\ OneTarget
    /\ raced # {} =>
          /\ Cardinality({r \in Request : pc[r] \in InTransaction}) = 1
          /\ \A r \in Request : pc[r] \notin Downloading

\* The run explores all that can become of three files while no relation is saved
\* and no download counted, and all that can become of relations and downloads
\* with two files.
FilesOnly ==
    /\ NoOrphan
    /\ \A d \in Doc : relation[d] = NoRelation /\ counted[d] = 0
                        /\ doc[d] = Row(doc[d]["file"], "VALID", 0)
    /\ \A r \in Request : pc[r] \in InTransaction =>
          /\ type[r] = "VALID" /\ found[r] = NoRelation
          /\ entity[r]["legal"] = "VALID" /\ own[r].doc["legal"] = "VALID"

TwoFiles ==
    \E f \in File \ onDisk : \A r \in Request : pc[r] \in Uploading => want[r] # f

FilesOrRelations == FilesOnly \/ (Unraced /\ TwoFiles)

View == <<tables, pc, own, history, [r \in Request |-> Locals(r)]>>
=============================================================================
