------------------------ MODULE DocumentRecords_proofs ------------------------
(***************************************************************************)
(* Theorems about DocumentRecords, for any number of handlers, documents,  *)
(* files and relation types: the types of its variables, the readiness of  *)
(* files, that a document has an active file of its own, the legal status  *)
(* of its relation and the downloads counted unless a handler raced it,    *)
(* and that a deleted file does not come back.                             *)
(*                                                                         *)
(* The invariant has a part for each handler, Handler, and parts for the   *)
(* tables and between handlers.  A step of one handler leaves the others   *)
(* Undisturbed, and that is all that Handler needs of it; so each action   *)
(* is looked at for its own handler and for the tables only.               *)
(***************************************************************************)
EXTENDS DocumentRecords, TLAPS

USE NoFileAssumption, FileAssumption, BoundsAssumption

-----------------------------------------------------------------------------
(* Rows of documents, marks and what transactions write. *)

\* A row is its three columns.
LEMMA RowFields ==
    ASSUME NEW f, NEW l, NEW n
    PROVE  /\ Row(f, l, n)["file"] = f /\ Row(f, l, n)["legal"] = l
           /\ Row(f, l, n)["downloads"] = n
           /\ DOMAIN Row(f, l, n) = Columns
  BY DEF Row, Columns

LEMMA DocRowFields ==
    ASSUME NEW row \in DocRow
    PROVE  /\ row["file"] \in File \cup {NoFile} /\ row["legal"] \in LegalStatus
           /\ row["downloads"] \in 0..MaxDownloads
           /\ row = Row(row["file"], row["legal"], row["downloads"])
<1>1. PICK f \in File \cup {NoFile}, l \in LegalStatus, n \in 0..MaxDownloads : row = Row(f, l, n)
  BY DEF DocRow
<1> QED
  BY <1>1, RowFields

LEMMA DocRowIntro ==
    ASSUME NEW f \in File \cup {NoFile}, NEW l \in LegalStatus, NEW n \in 0..MaxDownloads
    PROVE  Row(f, l, n) \in DocRow
  BY DEF DocRow

LEMMA SameRow ==
    ASSUME NEW a \in DocRow, NEW b \in DocRow,
           a["file"] = b["file"], a["legal"] = b["legal"], a["downloads"] = b["downloads"]
    PROVE  a = b
  BY DocRowFields

\* Columns of one row over those of another.
LEMMA MergedRow ==
    ASSUME NEW a \in DocRow, NEW b \in DocRow, NEW D \in SUBSET Columns, NEW m,
           m = [c \in Columns |-> IF c \in D THEN a[c] ELSE b[c]]
    PROVE  /\ m \in DocRow
           /\ m["file"] = (IF "file" \in D THEN a["file"] ELSE b["file"])
           /\ m["legal"] = (IF "legal" \in D THEN a["legal"] ELSE b["legal"])
           /\ m["downloads"] = (IF "downloads" \in D THEN a["downloads"] ELSE b["downloads"])
<1>1. m = Row(m["file"], m["legal"], m["downloads"])
  BY DEF Row, Columns
<1>2. /\ m["file"] = (IF "file" \in D THEN a["file"] ELSE b["file"])
      /\ m["legal"] = (IF "legal" \in D THEN a["legal"] ELSE b["legal"])
      /\ m["downloads"] = (IF "downloads" \in D THEN a["downloads"] ELSE b["downloads"])
  BY DEF Columns
<1>3. m["file"] \in File \cup {NoFile} /\ m["legal"] \in LegalStatus
      /\ m["downloads"] \in 0..MaxDownloads
  BY <1>2, DocRowFields
<1> QED
  BY <1>1, <1>2, <1>3, DocRowIntro

LEMMA ChangedRow ==
    ASSUME NEW row \in DocRow
    PROVE  /\ \A f \in File \cup {NoFile} :
                 /\ [row EXCEPT !["file"] = f] \in DocRow
                 /\ [row EXCEPT !["file"] = f] = Row(f, row["legal"], row["downloads"])
           /\ \A l \in LegalStatus :
                 /\ [row EXCEPT !["legal"] = l] \in DocRow
                 /\ [row EXCEPT !["legal"] = l] = Row(row["file"], l, row["downloads"])
           /\ \A n \in 0..MaxDownloads :
                 /\ [row EXCEPT !["downloads"] = n] \in DocRow
                 /\ [row EXCEPT !["downloads"] = n] = Row(row["file"], row["legal"], n)
<1>1. row = Row(row["file"], row["legal"], row["downloads"])
      /\ row["file"] \in File \cup {NoFile} /\ row["legal"] \in LegalStatus
      /\ row["downloads"] \in 0..MaxDownloads
  BY DocRowFields
<1>2. \A f : [row EXCEPT !["file"] = f] = Row(f, row["legal"], row["downloads"])
  BY <1>1 DEF Row, Columns
<1>3. \A f : [row EXCEPT !["legal"] = f] = Row(row["file"], f, row["downloads"])
  BY <1>1 DEF Row, Columns
<1>4. \A f : [row EXCEPT !["downloads"] = f] = Row(row["file"], row["legal"], f)
  BY <1>1 DEF Row, Columns
<1> QED
  BY <1>1, <1>2, <1>3, <1>4, DocRowIntro

LEMMA AbsentRow == Absent \in DocRow /\ Absent["file"] = NoFile
                   /\ Absent["legal"] = "VALID" /\ Absent["downloads"] = 0
  BY RowFields, DocRowIntro DEF Absent, LegalStatus

Marks == [file : File, to : {"ACTIVE", "DELETED"}]

LEMMA MarkFields ==
    ASSUME NEW f \in File, NEW s \in {"ACTIVE", "DELETED"}
    PROVE  Mark(f, s) \in Marks /\ Mark(f, s).file = f /\ Mark(f, s).to = s
  BY DEF Mark, Marks

\* After the first of one or two marks comes the rest.
LEMMA TailOfMarks ==
    ASSUME NEW s \in Seq(Marks), Len(s) \in 1..2
    PROVE  /\ Tail(s) \in Seq(Marks) /\ Len(Tail(s)) = Len(s) - 1
           /\ Head(s) = s[1] /\ Head(s) \in Marks
           /\ Len(s) = 2 => Tail(s)[1] = s[2] /\ s[2] \in Marks
  OBVIOUS

LEMMA TwoMarks ==
    ASSUME NEW a \in Marks, NEW b \in Marks
    PROVE  /\ <<a, b>> \in Seq(Marks) /\ Len(<<a, b>>) = 2
           /\ <<a, b>>[1] = a /\ <<a, b>>[2] = b /\ Head(<<a, b>>) = a
           /\ <<a>> \in Seq(Marks) /\ Len(<<a>>) = 1 /\ <<a>>[1] = a /\ Head(<<a>>) = a
  OBVIOUS

Writes == [rows : SUBSET ({"doc", "relation"} \cup File), doc : DocRow,
           relation : Relation, status : [File -> FileStatus]]

LEMMA NothingWritten ==
    Nothing \in Writes /\ Nothing.rows = {} 
  BY AbsentRow DEF Nothing, Writes, Relation, NoRelation, FileStatus, LegalStatus

LEMMA WriteDocWrites ==
    ASSUME own \in [Request -> Writes], NEW r \in Request, NEW row \in DocRow, WriteDoc(r, row)
    PROVE  /\ own' \in [Request -> Writes]
           /\ own'[r].rows = own[r].rows \cup {"doc"} /\ own'[r].doc = row
           /\ own'[r].relation = own[r].relation /\ own'[r].status = own[r].status
           /\ \A q \in Request \ {r} : own'[q] = own[q]
  BY DEF WriteDoc, Writes

LEMMA WriteRelationWrites ==
    ASSUME own \in [Request -> Writes], NEW r \in Request, NEW rel \in Relation,
           WriteRelation(r, rel)
    PROVE  /\ own' \in [Request -> Writes]
           /\ own'[r].rows = own[r].rows \cup {"relation"} /\ own'[r].relation = rel
           /\ own'[r].doc = own[r].doc /\ own'[r].status = own[r].status
           /\ \A q \in Request \ {r} : own'[q] = own[q]
  BY DEF WriteRelation, Writes

LEMMA WriteStatusWrites ==
    ASSUME own \in [Request -> Writes], NEW r \in Request, NEW f \in File,
           NEW s \in {"ACTIVE", "DELETED"}, WriteStatus(r, f, s)
    PROVE  /\ own' \in [Request -> Writes]
           /\ own'[r].rows = own[r].rows \cup {f}
           /\ own'[r].status[f] = s /\ \A g \in File \ {f} : own'[r].status[g] = own[r].status[g]
           /\ own'[r].doc = own[r].doc /\ own'[r].relation = own[r].relation
           /\ \A q \in Request \ {r} : own'[q] = own[q]
<1> DEFINE w == [own[r] EXCEPT !.rows = own[r].rows \cup {f},
                               !.status = [own[r].status EXCEPT ![f] = s]]
<1>1. w \in Writes
  BY DEF Writes, FileStatus
<1>2. own' = [own EXCEPT ![r] = w]
  BY DEF WriteStatus, Writes
<1>3. w.rows = own[r].rows \cup {f} /\ w.doc = own[r].doc /\ w.relation = own[r].relation
      /\ w.status[f] = s /\ \A g \in File \ {f} : w.status[g] = own[r].status[g]
  BY DEF Writes
<1> HIDE DEF w
<1> QED
  BY <1>1, <1>2, <1>3

-----------------------------------------------------------------------------
(* The inductive invariant.  What holds of one handler comes first.          *)

Marking == {"finding file", "reloading file", "writing file"}
Relating == {"relating", "linking", "inserting relation", "updating relation",
             "unlinking relation"}
Saving == {"comparing", "saving", "committing"}

InTx(r) == pc[r] \in InTransaction

\* The file has been activated, for good, or will be when r commits.
Ready(f) == status[f] \in {"ACTIVE", "DELETED"}
Sound(r, f) == f \in own[r].rows \/ Ready(f)

\* The last file that r has to mark: the one it replaces.
Old(r) == marks[r][Len(marks[r])].file

\* A transaction writes the document last, unless it creates it, and the file it
\* wants as active and another as deleted.
OwnRows(r) ==
    /\ ~InTx(r) => own[r] = Nothing
    /\ "doc" \in own[r].rows =>
          \/ pc[r] = "committing"
          \/ pc[r] \in Marking /\ Creating(r)
    /\ "relation" \in own[r].rows => pc[r] \in Saving /\ ~Creating(r)
    /\ \A f \in File : f \in own[r].rows =>
          /\ pc[r] \in Marking \cup Saving
          /\ f = want[r] => own[r].status[f] = "ACTIVE"
          /\ f # want[r] => own[r].status[f] = "DELETED" /\ Ready(f) /\ ~Creating(r)

\* First it marks the file it wants, then the one it replaces.
MarksInOrder(r) ==
    pc[r] \in Marking =>
        /\ want[r] \in File /\ entity[r]["file"] = want[r]
        /\ Len(marks[r]) \in 1..2
        /\ Creating(r) => Len(marks[r]) = 1 /\ marks[r][1] = Mark(want[r], "ACTIVE")
        /\ ~Creating(r) =>
              /\ marks[r][Len(marks[r])].to = "DELETED"
              /\ Old(r) # want[r] /\ Ready(Old(r))
              /\ Len(marks[r]) = 1 => Sound(r, want[r])
        /\ Len(marks[r]) = 2 => marks[r][1] = Mark(want[r], "ACTIVE")
        /\ marks[r][1].to = "ACTIVE" => \A f \in File : f \notin own[r].rows

\* A transaction that creates a document.
Creation(r) ==
    InTx(r) /\ Creating(r) =>
        /\ pc[r] \in {"checking", "inserting", "committing"} \cup Marking
        /\ want[r] \in File
        /\ entity[r] = IF pc[r] = "checking" THEN Absent ELSE Row(want[r], "VALID", 0)
        /\ pc[r] = "inserting" => marks[r] = <<Mark(want[r], "ACTIVE")>>
        /\ pc[r] \in Marking \cup {"committing"} =>
              "doc" \in own[r].rows /\ own[r].doc = entity[r]
        /\ pc[r] = "committing" => Sound(r, want[r])

\* A transaction that changes a document: the file in memory is ready, or will be;
\* only remove unlinks the relation.
Change(r) ==
    InTx(r) /\ ~Creating(r) =>
        /\ pc[r] # "inserting"
        /\ pc[r] = "unlinking relation" => type[r] = "VALID"
        /\ pc[r] = "checking" => want[r] \in File /\ entity[r]["file"] # want[r]
        /\ pc[r] \in {"checking"} \cup Relating =>
              entity[r]["file"] \in File /\ Ready(entity[r]["file"])
        /\ pc[r] \in Saving => entity[r]["file"] \in File /\ Sound(r, entity[r]["file"])
        /\ "doc" \in own[r].rows =>
              own[r].doc["file"] \in File /\ Sound(r, own[r].doc["file"])

\* Until it is raced, what it has in memory is the row, but for what it changes.
ReadIsCurrent(r) ==
    LET d == on[r] IN
    InTx(r) /\ ~Creating(r) /\ d \notin raced =>
        /\ entity[r]["downloads"] = doc[d]["downloads"]
        /\ pc[r] \in {"checking"} \cup Relating => entity[r]["file"] = doc[d]["file"]
        /\ pc[r] \in {"checking"} \cup Relating \cup Marking =>
              entity[r]["legal"] = doc[d]["legal"]
        /\ pc[r] \in Relating \ {"relating"} => found[r] = relation[d]
        /\ pc[r] \in Marking => Old(r) = doc[d]["file"]
        /\ pc[r] \in Saving => entity[r]["legal"] = RelationSeen(r).type
        /\ pc[r] = "saving" => dirty[r] = {c \in Columns : entity[r][c] # doc[d][c]}
        /\ pc[r] = "committing" => DocSeen(r) = entity[r]

\* Until then it marks no file but the one it wants and the one it replaces.
MarksAreCurrent(r) ==
    LET d == on[r] IN
    InTx(r) /\ ~Creating(r) /\ d \notin raced =>
        /\ \A f \in File : f \in own[r].rows => f \in {want[r], doc[d]["file"]}
        /\ pc[r] \in Saving =>
              IF entity[r]["file"] = doc[d]["file"]
              THEN \A f \in File : f \notin own[r].rows
              ELSE entity[r]["file"] = want[r]

\* The file it wants is there, and pending until it commits, unless contested.
WantsPending(r) ==
    InTx(r) /\ want[r] \in File =>
        /\ status[want[r]] # "none"
        /\ want[r] \notin contested =>
              /\ pc[r] = "inserting" => status[want[r]] = "PENDING"
              /\ pc[r] \in Marking /\ marks[r][1].to = "ACTIVE" => status[want[r]] = "PENDING"
              /\ pc[r] \in Marking /\ marks[r][1].to = "DELETED" => want[r] \in own[r].rows
              /\ want[r] \in own[r].rows => status[want[r]] = "PENDING"
              /\ Creating(r) /\ pc[r] = "committing" => want[r] \in own[r].rows
              /\ ~Creating(r) /\ on[r] \notin raced /\ pc[r] \in Saving =>
                    entity[r]["file"] = doc[on[r]]["file"] \/ want[r] \in own[r].rows

\* A download has read a published document.
DownloadReads(r) ==
    pc[r] \in Downloading =>
        /\ Exists(on[r]) /\ entity[r]["file"] \in File /\ Ready(entity[r]["file"])
        /\ on[r] \notin raced => entity[r]["file"] = doc[on[r]]["file"]

\* An upload writes the bytes of a file that has no row, and then the row.
UploadOrder(r) ==
    pc[r] \in Uploading =>
        /\ want[r] \in File /\ status[want[r]] = "none"
        /\ pc[r] \in {"registering", "unlinking"} => want[r] \in onDisk

Handler(r) ==
    /\ OwnRows(r) /\ MarksInOrder(r) /\ Creation(r) /\ Change(r)
    /\ ReadIsCurrent(r) /\ MarksAreCurrent(r) /\ WantsPending(r)
    /\ DownloadReads(r) /\ UploadOrder(r)

Handlers == \A r \in Request : Handler(r)

\* What holds of the tables, and between handlers.
AbsentRows == \A d \in Doc : ~Exists(d) =>
    doc[d] = Absent /\ relation[d] = NoRelation /\ counted[d] = 0

CreatesAlone ==
    \A q, r \in Request : q # r /\ InTx(q) /\ InTx(r) /\ Creating(r) => on[q] # on[r]

UploadsApart ==
    \A q, r \in Request :
        q # r /\ pc[q] \in Uploading /\ pc[r] \in Uploading => want[q] # want[r]

SharedIsContested ==
    \A q, r \in Request :
        q # r /\ InTx(q) /\ InTx(r) /\ want[q] = want[r] /\ want[r] \in File =>
            want[r] \in contested

\* No copy of a counter is ahead of what was counted.
CountsBounded ==
    /\ \A d \in Doc : doc[d]["downloads"] <= counted[d]
    /\ \A r \in Request :
          /\ InTx(r) => entity[r]["downloads"] <= counted[on[r]]
          /\ "doc" \in own[r].rows => own[r].doc["downloads"] <= counted[on[r]]

\* A file that is not contested belongs to one document, for all who know it.
Holds(r, f) ==
    \/ pc[r] \in InTransaction \cup Downloading /\ entity[r]["file"] = f
    \/ f \in own[r].rows
    \/ "doc" \in own[r].rows /\ own[r].doc["file"] = f
    \/ pc[r] \in Marking /\ ~Creating(r) /\ Old(r) = f
Claims(d, f) == doc[d]["file"] = f \/ \E r \in Request : on[r] = d /\ Holds(r, f)
OneClaimant ==
    \A f \in File \ contested, d, e \in Doc : Claims(d, f) /\ Claims(e, f) => d = e

IndInv ==
    /\ TypeOK /\ Handlers
    /\ AbsentRows /\ CreatesAlone /\ UploadsApart /\ SharedIsContested
    /\ CountsBounded /\ OneClaimant
    /\ FilesAreReady /\ OwnFileUnlessRaced /\ LegalStatusUnlessRaced
    /\ DownloadsUnlessRaced /\ NotFoundExplained

-----------------------------------------------------------------------------
(* Types. *)

Steps == Ended \cup Downloading \cup Uploading \cup InTransaction

\* TypeOK with names for its sets.
Typed ==
    /\ doc \in [Doc -> DocRow]
    /\ status \in [File -> FileStatus]
    /\ relation \in [Doc -> Relation]
    /\ onDisk \subseteq File
    /\ pc \in [Request -> Steps]
    /\ on \in [Request -> Doc]
    /\ want \in [Request -> File \cup {NoFile}]
    /\ type \in [Request -> LegalStatus]
    /\ entity \in [Request -> DocRow]
    /\ found \in [Request -> Relation]
    /\ marks \in [Request -> Seq(Marks)]
    /\ dirty \in [Request -> SUBSET Columns]
    /\ own \in [Request -> Writes]
    /\ counted \in [Doc -> 0..MaxDownloads]
    /\ raced \subseteq Doc
    /\ contested \subseteq File

LEMMA TypedIsTypeOK == TypeOK <=> Typed
  BY DEF TypeOK, Typed, Steps, Writes, Marks

LEMMA TypedIsTypeOKNext == TypeOK' <=> Typed'
  BY DEF TypeOK, Typed, Steps, Writes, Marks

\* What the types say of one handler and one row, without their definitions.
LEMMA OfType ==
    ASSUME Typed, NEW r \in Request
    PROVE  /\ pc[r] \in Steps /\ on[r] \in Doc /\ want[r] \in File \cup {NoFile}
           /\ type[r] \in LegalStatus /\ entity[r] \in DocRow /\ found[r] \in Relation
           /\ marks[r] \in Seq(Marks) /\ dirty[r] \subseteq Columns /\ own[r] \in Writes
           /\ own[r].rows \subseteq {"doc", "relation"} \cup File /\ own[r].doc \in DocRow
           /\ own[r].relation \in Relation /\ own[r].status \in [File -> FileStatus]
           /\ doc[on[r]] \in DocRow /\ relation[on[r]] \in Relation
  BY DEF Typed, Writes

\* The other handlers keep their state.
Apart(r) ==
    \A q \in Request \ {r} :
        /\ pc'[q] = pc[q] /\ on'[q] = on[q] /\ want'[q] = want[q] /\ type'[q] = type[q]
        /\ entity'[q] = entity[q] /\ found'[q] = found[q] /\ marks'[q] = marks[q]
        /\ dirty'[q] = dirty[q] /\ own'[q] = own[q]

\* What a step of another handler may do to q: it races q when it changes q's
\* document, and contests the file q wants when that does not stay pending.
Undisturbed(q) ==
    /\ raced \subseteq raced' /\ contested \subseteq contested'
    /\ \A f \in File : (Ready(f) => Ready(f)') /\ (status[f] # "none" => status'[f] # "none")
    /\ InTx(q) => (Creating(q)' <=> Creating(q))
    /\ Exists(on[q]) => Exists(on[q])'
    /\ InTx(q) /\ on[q] \notin raced' =>
          doc'[on[q]] = doc[on[q]] /\ relation'[on[q]] = relation[on[q]]
    /\ pc[q] \in Downloading /\ on[q] \notin raced' => doc'[on[q]]["file"] = doc[on[q]]["file"]
    /\ InTx(q) /\ want[q] \in File \ contested' /\ status[want[q]] = "PENDING" =>
          status'[want[q]] = "PENDING"
    /\ pc[q] \in Uploading =>
          /\ status[want[q]] = "none" => status'[want[q]] = "none"
          /\ want[q] \in onDisk => want[q] \in onDisk'

LEMMA UndisturbedHandler ==
    ASSUME Typed, NEW r \in Request, Apart(r), NEW q \in Request \ {r}, Handler(q),
           Undisturbed(q)
    PROVE  Handler(q)'
<1>1. /\ pc'[q] = pc[q] /\ on'[q] = on[q] /\ want'[q] = want[q] /\ type'[q] = type[q]
      /\ entity'[q] = entity[q] /\ found'[q] = found[q] /\ marks'[q] = marks[q]
      /\ dirty'[q] = dirty[q] /\ own'[q] = own[q]
  BY DEF Apart
<1>2. InTx(q)' <=> InTx(q)
  BY <1>1 DEF InTx
<1>3. InTx(q) => (Creating(q)' <=> Creating(q))
  BY DEF Undisturbed
<1>4. \A f \in File : Ready(f) => Ready(f)'
  BY DEF Undisturbed
<1>5. /\ (pc[q] \in Marking => InTx(q)) /\ (pc[q] \in Saving => InTx(q))
      /\ (pc[q] \in Relating => InTx(q)) /\ (pc[q] = "checking" => InTx(q))
      /\ (pc[q] = "committing" => InTx(q))
  BY DEF Marking, Saving, Relating, InTx, InTransaction
<1>6. \A f \in File : Sound(q, f) => Sound(q, f)'
  BY <1>1, <1>4 DEF Sound
<1>7. Old(q)' = Old(q)
  BY <1>1 DEF Old
<1>8. /\ entity[q]["file"] \in File \cup {NoFile} /\ own[q].doc["file"] \in File \cup {NoFile}
      /\ own[q].rows \subseteq {"doc", "relation"} \cup File
  BY OfType, DocRowFields
<1>a. OwnRows(q)'
  BY <1>1, <1>2, <1>3, <1>4, <1>5 DEF Handler, OwnRows
<1>b. MarksInOrder(q)'
  <2>1. pc[q] \in Marking /\ ~Creating(q) => Old(q) \in File
    <3>1. marks[q] \in Seq(Marks)
      BY OfType
    <3>2. \A s \in Seq(Marks) : Len(s) \in 1..2 => s[Len(s)] \in Marks
      OBVIOUS
    <3> QED
      BY <3>1, <3>2 DEF Old, Marks, Handler, MarksInOrder
  <2> QED
    BY <1>1, <1>3, <1>4, <1>5, <1>6, <1>7, <2>1 DEF Handler, MarksInOrder
<1>c. Creation(q)'
  BY <1>1, <1>2, <1>3, <1>6 DEF Handler, Creation
<1>d. Change(q)'
  BY <1>1, <1>2, <1>3, <1>4, <1>6 DEF Handler, Change
<1>e. ReadIsCurrent(q)'
  BY <1>1, <1>2, <1>3, <1>7 DEF Handler, ReadIsCurrent, Undisturbed, RelationSeen, DocSeen
<1>f. MarksAreCurrent(q)'
  BY <1>1, <1>2, <1>3 DEF Handler, MarksAreCurrent, Undisturbed
<1>g. WantsPending(q)'
  BY <1>1, <1>2, <1>3 DEF Handler, WantsPending, Undisturbed
<1>h. DownloadReads(q)'
  BY <1>1, <1>4 DEF Handler, DownloadReads, Undisturbed
<1>i. UploadOrder(q)'
  BY <1>1 DEF Handler, UploadOrder, Undisturbed
<1> QED
  BY <1>a, <1>b, <1>c, <1>d, <1>e, <1>f, <1>g, <1>h, <1>i DEF Handler

-----------------------------------------------------------------------------
(* What each action does, and that it keeps the types. *)

\* The handler's place and the places of the others.
LEMMA Went ==
    ASSUME Typed, NEW r \in Request, NEW step, GoTo(r, step)
    PROVE  /\ pc'[r] = step /\ \A q \in Request \ {r} : pc'[q] = pc[q]
           /\ step \in Steps => pc' \in [Request -> Steps]
  BY DEF GoTo, Typed

\* What a reader sees is of the type of the table.
LEMMA SeenTypes ==
    ASSUME Typed, NEW r \in Request
    PROVE  /\ DocSeen(r) \in DocRow /\ RelationSeen(r) \in Relation
           /\ \A f \in File : StatusSeen(r, f) \in FileStatus
  BY OfType DEF DocSeen, RelationSeen, StatusSeen, Typed

\* Every step of a handler in its transaction but the last leaves the tables, its
\* document and its file alone.
Inside(r) ==
    /\ UNCHANGED <<doc, status, relation, onDisk, on, want, type, counted, raced, contested>>
    /\ Apart(r) /\ InTx(r) /\ InTx(r)'

LEMMA CheckPendingEffect ==
    ASSUME Typed, NEW r \in Request, Handler(r), CheckPending(r)
    PROVE  /\ Typed' /\ Inside(r) /\ own' = own /\ found' = found /\ dirty' = dirty
           /\ pc[r] = "checking" /\ status[want[r]] = "PENDING" /\ want[r] \in File
           /\ entity'[r] = Row(want[r], entity[r]["legal"], entity[r]["downloads"])
           /\ Creating(r) =>
                 pc'[r] = "inserting" /\ marks'[r] = <<Mark(want[r], "ACTIVE")>>
           /\ ~Creating(r) =>
                 /\ pc'[r] = "finding file" /\ entity[r]["file"] \in File
                 /\ marks'[r] = <<Mark(want[r], "ACTIVE"), Mark(entity[r]["file"], "DELETED")>>
<1>1. pc[r] = "checking" /\ InTx(r) /\ StatusSeen(r, want[r]) = "PENDING"
  BY DEF CheckPending, InTx, InTransaction
<1>2. want[r] \in File /\ (~Creating(r) => entity[r]["file"] \in File)
  BY <1>1 DEF Handler, Creation, Change
<1>3. want[r] \notin own[r].rows
  BY <1>1, <1>2 DEF Handler, OwnRows, Marking, Saving
<1>4. /\ UNCHANGED <<doc, status, relation, onDisk, on, want, type, found, dirty, own,
                     counted, raced, contested>>
      /\ entity' = [entity EXCEPT ![r]["file"] = want[r]]
  BY DEF CheckPending, tables, history
<1>a. \E m \in Seq(Marks) : marks' = [marks EXCEPT ![r] = m]
         /\ (Creating(r) => m = <<Mark(want[r], "ACTIVE")>>)
         /\ (~Creating(r) =>
               m = <<Mark(want[r], "ACTIVE"), Mark(entity[r]["file"], "DELETED")>>)
  <2>1. CASE Creating(r)
    <3>1. <<Mark(want[r], "ACTIVE")>> \in Seq(Marks)
      BY <1>2, MarkFields, TwoMarks
    <3>2. marks' = [marks EXCEPT ![r] = <<Mark(want[r], "ACTIVE")>>]
      BY <2>1 DEF CheckPending
    <3> QED
      BY <2>1, <3>1, <3>2
  <2>2. CASE ~Creating(r)
    <3>1. <<Mark(want[r], "ACTIVE"), Mark(entity[r]["file"], "DELETED")>> \in Seq(Marks)
      BY <1>2, <2>2, MarkFields, TwoMarks
    <3>2. marks' = [marks EXCEPT ![r] =
                      <<Mark(want[r], "ACTIVE"), Mark(entity[r]["file"], "DELETED")>>]
      BY <2>2 DEF CheckPending
    <3> QED
      BY <2>2, <3>1, <3>2
  <2> QED
    BY <2>1, <2>2
<1>b. \E step \in {"inserting", "finding file"} : GoTo(r, step)
         /\ (step = "inserting" <=> Creating(r))
  BY DEF CheckPending
<1>5. entity'[r] = [entity[r] EXCEPT !["file"] = want[r]] /\ entity' \in [Request -> DocRow]
      /\ entity'[r] = Row(want[r], entity[r]["legal"], entity[r]["downloads"])
      /\ \A q \in Request \ {r} : entity'[q] = entity[q]
  BY <1>2, <1>4, OfType, ChangedRow DEF Typed
<1>6. marks' \in [Request -> Seq(Marks)] /\ \A q \in Request \ {r} : marks'[q] = marks[q]
  BY <1>a DEF Typed
<1>7. pc' \in [Request -> Steps] /\ pc'[r] \in InTransaction
      /\ \A q \in Request \ {r} : pc'[q] = pc[q]
  BY <1>1, <1>b, Went DEF Steps, InTransaction
<1>8. Typed'
  BY <1>4, <1>5, <1>6, <1>7 DEF Typed
<1>9. Inside(r)
  BY <1>1, <1>4, <1>5, <1>6, <1>7 DEF Inside, Apart, InTx
<1> QED
  BY <1>1, <1>2, <1>3, <1>4, <1>a, <1>b, <1>5, <1>8, <1>9, Went DEF StatusSeen, Typed

LEMMA MarkedEffect ==
    ASSUME Typed, NEW r \in Request, pc[r] \in Marking, Handler(r), Marked(r)
    PROVE  /\ marks' \in [Request -> Seq(Marks)] /\ pc' \in [Request -> Steps]
           /\ marks'[r] = Tail(marks[r]) /\ InTx(r)'
           /\ \A q \in Request \ {r} : marks'[q] = marks[q] /\ pc'[q] = pc[q]
           /\ Len(marks[r]) = 2 => pc'[r] = "finding file"
           /\ Len(marks[r]) = 1 =>
                 pc'[r] = IF Creating(r) THEN "committing" ELSE "comparing"
<1>1. Len(marks[r]) \in 1..2 /\ marks[r] \in Seq(Marks)
  BY OfType DEF Handler, MarksInOrder
<1>2. Tail(marks[r]) \in Seq(Marks)
  BY <1>1, TailOfMarks
<1>3. GoTo(r, IF Len(marks[r]) > 1 THEN "finding file"
              ELSE IF Creating(r) THEN "committing" ELSE "comparing")
      /\ marks' = [marks EXCEPT ![r] = Tail(marks[r])]
  BY DEF Marked
<1>4. /\ pc'[r] = IF Len(marks[r]) > 1 THEN "finding file"
                  ELSE IF Creating(r) THEN "committing" ELSE "comparing"
      /\ \A q \in Request \ {r} : pc'[q] = pc[q]
  BY <1>3, Went
<1>5. pc'[r] \in InTransaction
  BY <1>4 DEF InTransaction
<1>6. pc' \in [Request -> Steps]
  BY <1>3, <1>4, <1>5 DEF GoTo, Steps, Typed
<1>7. /\ Len(marks[r]) = 2 => pc'[r] = "finding file"
      /\ Len(marks[r]) = 1 => pc'[r] = IF Creating(r) THEN "committing" ELSE "comparing"
  <2>1. Len(marks[r]) = 2 => Len(marks[r]) > 1
    OBVIOUS
  <2>2. Len(marks[r]) = 1 => ~(Len(marks[r]) > 1)
    OBVIOUS
  <2> QED
    BY <1>4, <2>1, <2>2, Zenon
<1> QED
  BY <1>2, <1>3, <1>4, <1>5, <1>6, <1>7 DEF Typed, InTx

\* FindFile and ReloadFile stay at the mark or go on to the next.
LEMMA FindFileEffect ==
    ASSUME Typed, NEW r \in Request, Handler(r), FindFile(r)
    PROVE  /\ Typed' /\ Inside(r) /\ own' = own /\ found' = found /\ dirty' = dirty
           /\ entity' = entity /\ pc[r] \in Marking
           /\ \/ pc'[r] = "reloading file" /\ marks' = marks
              \/ Marked(r) /\ marks[r][1].to = "DELETED"
<1>1. pc[r] \in Marking /\ InTx(r)
  BY DEF FindFile, Marking, InTx, InTransaction
<1>2. Len(marks[r]) \in 1..2 /\ marks[r] \in Seq(Marks) /\ Head(marks[r]) = marks[r][1]
  BY <1>1, OfType, TailOfMarks DEF Handler, MarksInOrder
<1>3. /\ UNCHANGED <<doc, status, relation, onDisk, on, want, type, entity, found, dirty, own,
                     counted, raced, contested>>
      /\ \/ GoTo(r, "reloading file") /\ marks' = marks
         \/ Marked(r) /\ marks[r][1].to = "DELETED"
  BY <1>2 DEF FindFile, tables, history
<1>4. /\ marks' \in [Request -> Seq(Marks)] /\ pc' \in [Request -> Steps] /\ InTx(r)'
      /\ \A q \in Request \ {r} : marks'[q] = marks[q] /\ pc'[q] = pc[q]
  <2>1. CASE GoTo(r, "reloading file") /\ marks' = marks
    BY <2>1, Went DEF Typed, Steps, InTransaction, InTx
  <2>2. CASE Marked(r)
    BY <1>1, <2>2, MarkedEffect
  <2> QED
    BY <1>3, <2>1, <2>2
<1>5. Typed'
  BY <1>3, <1>4 DEF Typed
<1>6. Inside(r)
  BY <1>1, <1>3, <1>4 DEF Inside, Apart
<1> QED
  BY <1>1, <1>3, <1>5, <1>6, Went

LEMMA ReloadFileEffect ==
    ASSUME Typed, NEW r \in Request, Handler(r), ReloadFile(r)
    PROVE  /\ Typed' /\ Inside(r) /\ own' = own /\ found' = found /\ dirty' = dirty
           /\ entity' = entity /\ pc[r] \in Marking
           /\ \/ pc'[r] = "writing file" /\ marks' = marks
              \/ Marked(r) /\ StatusSeen(r, marks[r][1].file) = marks[r][1].to
<1>1. pc[r] \in Marking /\ InTx(r)
  BY DEF ReloadFile, Marking, InTx, InTransaction
<1>2. Len(marks[r]) \in 1..2 /\ marks[r] \in Seq(Marks) /\ Head(marks[r]) = marks[r][1]
  BY <1>1, OfType, TailOfMarks DEF Handler, MarksInOrder
<1>3. /\ UNCHANGED <<doc, status, relation, onDisk, on, want, type, entity, found, dirty, own,
                     counted, raced, contested>>
      /\ \/ GoTo(r, "writing file") /\ marks' = marks
         \/ Marked(r) /\ StatusSeen(r, marks[r][1].file) = marks[r][1].to
  BY <1>2 DEF ReloadFile, tables, history
<1>4. /\ marks' \in [Request -> Seq(Marks)] /\ pc' \in [Request -> Steps] /\ InTx(r)'
      /\ \A q \in Request \ {r} : marks'[q] = marks[q] /\ pc'[q] = pc[q]
  <2>1. CASE GoTo(r, "writing file") /\ marks' = marks
    BY <2>1, Went DEF Typed, Steps, InTransaction, InTx
  <2>2. CASE Marked(r)
    BY <1>1, <2>2, MarkedEffect
  <2> QED
    BY <1>3, <2>1, <2>2
<1>5. Typed'
  BY <1>3, <1>4 DEF Typed
<1>6. Inside(r)
  BY <1>1, <1>3, <1>4 DEF Inside, Apart
<1> QED
  BY <1>1, <1>3, <1>5, <1>6, Went

LEMMA WriteFileEffect ==
    ASSUME Typed, NEW r \in Request, Handler(r), WriteFile(r)
    PROVE  /\ Typed' /\ Inside(r) /\ found' = found /\ dirty' = dirty
           /\ entity' = entity /\ pc[r] \in Marking /\ Marked(r)
           /\ own'[r].rows = own[r].rows \cup {marks[r][1].file}
           /\ own'[r].status[marks[r][1].file] = marks[r][1].to
           /\ \A g \in File \ {marks[r][1].file} : own'[r].status[g] = own[r].status[g]
           /\ own'[r].doc = own[r].doc /\ own'[r].relation = own[r].relation
<1>1. pc[r] \in Marking /\ InTx(r)
  BY DEF WriteFile, Marking, InTx, InTransaction
<1>2. Len(marks[r]) \in 1..2 /\ Head(marks[r]) = marks[r][1] /\ marks[r][1] \in Marks
  BY <1>1, OfType, TailOfMarks DEF Handler, MarksInOrder
<1>3. /\ UNCHANGED <<doc, status, relation, onDisk, on, want, type, entity, found, dirty,
                     counted, raced, contested>>
      /\ Marked(r) /\ WriteStatus(r, marks[r][1].file, marks[r][1].to)
  BY <1>2 DEF WriteFile, tables, history
<1>4. /\ marks' \in [Request -> Seq(Marks)] /\ pc' \in [Request -> Steps] /\ InTx(r)'
      /\ \A q \in Request \ {r} : marks'[q] = marks[q] /\ pc'[q] = pc[q]
  BY <1>1, <1>3, MarkedEffect
<1>5. marks[r][1].file \in File /\ marks[r][1].to \in {"ACTIVE", "DELETED"}
  BY <1>2 DEF Marks
<1>6. /\ own' \in [Request -> Writes]
      /\ own'[r].rows = own[r].rows \cup {marks[r][1].file}
      /\ own'[r].status[marks[r][1].file] = marks[r][1].to
      /\ \A g \in File \ {marks[r][1].file} : own'[r].status[g] = own[r].status[g]
      /\ own'[r].doc = own[r].doc /\ own'[r].relation = own[r].relation
      /\ \A q \in Request \ {r} : own'[q] = own[q]
  BY <1>3, <1>5, WriteStatusWrites DEF Typed
<1>7. Typed'
  BY <1>3, <1>4, <1>6 DEF Typed
<1>8. Inside(r)
  BY <1>1, <1>3, <1>4, <1>6 DEF Inside, Apart
<1> QED
  BY <1>1, <1>3, <1>6, <1>7, <1>8

LEMMA InsertDocumentEffect ==
    ASSUME Typed, NEW r \in Request, InsertDocument(r)
    PROVE  /\ Typed' /\ Inside(r) /\ found' = found /\ dirty' = dirty /\ marks' = marks
           /\ entity' = entity /\ pc[r] = "inserting" /\ pc'[r] = "finding file"
           /\ own'[r].rows = own[r].rows \cup {"doc"} /\ own'[r].doc = entity[r]
           /\ own'[r].relation = own[r].relation /\ own'[r].status = own[r].status
<1>1. /\ UNCHANGED <<doc, status, relation, onDisk, on, want, type, entity, found, marks,
                     dirty, counted, raced, contested>>
      /\ pc[r] = "inserting" /\ GoTo(r, "finding file") /\ WriteDoc(r, entity[r])
  BY DEF InsertDocument, tables, locals, history
<1>2. /\ own' \in [Request -> Writes]
      /\ own'[r].rows = own[r].rows \cup {"doc"} /\ own'[r].doc = entity[r]
      /\ own'[r].relation = own[r].relation /\ own'[r].status = own[r].status
      /\ \A q \in Request \ {r} : own'[q] = own[q]
  BY <1>1, WriteDocWrites DEF Typed
<1>3. pc' \in [Request -> Steps] /\ pc'[r] = "finding file"
      /\ \A q \in Request \ {r} : pc'[q] = pc[q]
  BY <1>1, Went DEF Steps, InTransaction
<1>4. Typed'
  BY <1>1, <1>2, <1>3 DEF Typed
<1> QED
  BY <1>1, <1>2, <1>3, <1>4 DEF Inside, Apart, InTx, InTransaction

LEMMA CompareEffect ==
    ASSUME Typed, NEW r \in Request, Compare(r)
    PROVE  /\ Typed' /\ Inside(r) /\ own' = own /\ found' = found /\ marks' = marks
           /\ entity' = entity /\ pc[r] = "comparing"
           /\ dirty'[r] = {c \in Columns : entity[r][c] # DocSeen(r)[c]}
           /\ pc'[r] = IF dirty'[r] = {} THEN "committing" ELSE "saving"
<1> DEFINE changed == {c \in Columns : entity[r][c] # DocSeen(r)[c]}
<1>1. /\ UNCHANGED <<doc, status, relation, onDisk, on, want, type, entity, found, marks,
                     own, counted, raced, contested>>
      /\ pc[r] = "comparing" /\ dirty' = [dirty EXCEPT ![r] = changed]
      /\ GoTo(r, IF changed = {} THEN "committing" ELSE "saving")
  BY DEF Compare, tables, history
<1>2. changed \in SUBSET Columns
  OBVIOUS
<1> HIDE DEF changed
<1>3. dirty' \in [Request -> SUBSET Columns] /\ dirty'[r] = changed
      /\ \A q \in Request \ {r} : dirty'[q] = dirty[q]
  BY <1>1, <1>2 DEF Typed
<1>4. /\ pc' \in [Request -> Steps] /\ pc'[r] = IF changed = {} THEN "committing" ELSE "saving"
      /\ pc'[r] \in InTransaction /\ \A q \in Request \ {r} : pc'[q] = pc[q]
  BY <1>1, Went DEF Steps, InTransaction
<1>5. Typed'
  BY <1>1, <1>3, <1>4 DEF Typed
<1>6. Inside(r)
  BY <1>1, <1>3, <1>4 DEF Inside, Apart, InTx, InTransaction
<1> QED
  BY <1>1, <1>3, <1>4, <1>5, <1>6 DEF changed

LEMMA SaveDocumentEffect ==
    ASSUME Typed, NEW r \in Request, SaveDocument(r)
    PROVE  /\ Typed' /\ Inside(r) /\ found' = found /\ marks' = marks /\ dirty' = dirty
           /\ entity' = entity /\ pc[r] = "saving" /\ pc'[r] = "committing"
           /\ own'[r].rows = own[r].rows \cup {"doc"}
           /\ \A c \in Columns :
                 own'[r].doc[c] = IF c \in dirty[r] THEN entity[r][c] ELSE doc[on[r]][c]
           /\ own'[r].relation = own[r].relation /\ own'[r].status = own[r].status
<1> DEFINE saved == [c \in Columns |-> IF c \in dirty[r] THEN entity[r][c] ELSE doc[on[r]][c]]
<1>1. /\ UNCHANGED <<doc, status, relation, onDisk, on, want, type, entity, found, marks,
                     dirty, counted, raced, contested>>
      /\ pc[r] = "saving" /\ WriteDoc(r, saved) /\ GoTo(r, "committing")
  BY DEF SaveDocument, tables, locals, history
<1>2. saved \in DocRow
  <2>1. entity[r] \in DocRow /\ doc[on[r]] \in DocRow /\ dirty[r] \in SUBSET Columns
    BY OfType
  <2>2. PICK a \in DocRow, b \in DocRow, D \in SUBSET Columns :
            a = entity[r] /\ b = doc[on[r]] /\ D = dirty[r]
    BY <2>1
  <2>3. saved = [c \in Columns |-> IF c \in D THEN a[c] ELSE b[c]]
    BY <2>2
  <2> HIDE DEF saved
  <2> QED
    BY <2>3, MergedRow
<1>3. \A c \in Columns : saved[c] = IF c \in dirty[r] THEN entity[r][c] ELSE doc[on[r]][c]
  OBVIOUS
<1> HIDE DEF saved
<1>4. /\ own' \in [Request -> Writes]
      /\ own'[r].rows = own[r].rows \cup {"doc"} /\ own'[r].doc = saved
      /\ own'[r].relation = own[r].relation /\ own'[r].status = own[r].status
      /\ \A q \in Request \ {r} : own'[q] = own[q]
  BY <1>1, <1>2, WriteDocWrites DEF Typed
<1>5. pc' \in [Request -> Steps] /\ pc'[r] = "committing"
      /\ \A q \in Request \ {r} : pc'[q] = pc[q]
  BY <1>1, Went DEF Steps, InTransaction
<1>6. Typed'
  BY <1>1, <1>4, <1>5 DEF Typed
<1> QED
  BY <1>1, <1>3, <1>4, <1>5, <1>6 DEF Inside, Apart, InTx, InTransaction

LEMMA FindRelationEffect ==
    ASSUME Typed, NEW r \in Request, FindRelation(r)
    PROVE  /\ Typed' /\ Inside(r) /\ own' = own /\ marks' = marks /\ dirty' = dirty
           /\ entity' = entity /\ pc[r] = "relating" /\ found'[r] = relation[on[r]]
           /\ pc'[r] \in Relating \ {"relating"}
           /\ pc'[r] = "unlinking relation" => type[r] = "VALID"
<1>1. /\ UNCHANGED <<doc, status, relation, onDisk, on, want, type, entity, own, marks,
                     dirty, counted, raced, contested>>
      /\ pc[r] = "relating" /\ found' = [found EXCEPT ![r] = relation[on[r]]]
  BY DEF FindRelation, tables, history
<1>a. \/ GoTo(r, "unlinking relation") /\ type[r] = "VALID"
      \/ GoTo(r, "inserting relation")
      \/ GoTo(r, "linking")
  BY DEF FindRelation
<1>2. /\ found' \in [Request -> Relation] /\ found'[r] = relation[on[r]]
      /\ \A q \in Request \ {r} : found'[q] = found[q]
  BY <1>1, OfType DEF Typed
<1>3. pc' \in [Request -> Steps] /\ pc'[r] \in Relating \ {"relating"}
      /\ (pc'[r] = "unlinking relation" => type[r] = "VALID")
      /\ \A q \in Request \ {r} : pc'[q] = pc[q]
  <2>1. {"unlinking relation", "inserting relation", "linking"} \subseteq Steps
    BY DEF Steps, InTransaction
  <2>2. /\ pc' \in [Request -> Steps] /\ \A q \in Request \ {r} : pc'[q] = pc[q]
        /\ \/ pc'[r] = "unlinking relation" /\ type[r] = "VALID"
           \/ pc'[r] = "inserting relation"
           \/ pc'[r] = "linking"
    BY <1>a, <2>1, Went
  <2> QED
    BY <2>2 DEF Relating
<1>4. Typed'
  BY <1>1, <1>2, <1>3 DEF Typed
<1> QED
  BY <1>1, <1>2, <1>3, <1>4 DEF Inside, Apart, InTx, InTransaction, Relating

LEMMA RelabelEffect ==
    ASSUME Typed, NEW r \in Request, Relabel(r)
    PROVE  /\ entity' \in [Request -> DocRow] /\ pc' \in [Request -> Steps]
           /\ entity'[r] = Row(entity[r]["file"], type[r], entity[r]["downloads"])
           /\ pc'[r] = "comparing"
           /\ \A q \in Request \ {r} : entity'[q] = entity[q] /\ pc'[q] = pc[q]
<1>1. entity' = [entity EXCEPT ![r]["legal"] = type[r]] /\ GoTo(r, "comparing")
  BY DEF Relabel
<1>2. /\ entity'[r] = [entity[r] EXCEPT !["legal"] = type[r]]
      /\ [entity[r] EXCEPT !["legal"] = type[r]] \in DocRow
      /\ [entity[r] EXCEPT !["legal"] = type[r]]
            = Row(entity[r]["file"], type[r], entity[r]["downloads"])
  BY <1>1, OfType, ChangedRow DEF Typed
<1> QED
  BY <1>1, <1>2, Went DEF Typed, Steps, InTransaction

\* The ways to write a relation: not at all, or the row with the type, which is the
\* status of the target in memory then.
Unwritten(r) == relation[on[r]].id # found[r].id \/ relation[on[r]].type = type[r]

LinkWritten(r) ==
    /\ Typed' /\ Inside(r) /\ found' = found /\ marks' = marks /\ dirty' = dirty
    /\ pc[r] \in Relating \ {"relating"} /\ pc'[r] = "comparing"
    /\ entity'[r] = Row(entity[r]["file"], type[r], entity[r]["downloads"])
    /\ \/ own' = own /\ Unwritten(r)
       \/ /\ own'[r].rows = own[r].rows \cup {"relation"}
          /\ own'[r].relation.type = type[r]
          /\ own'[r].doc = own[r].doc /\ own'[r].status = own[r].status

LEMMA LinkWrittenBy ==
    ASSUME Typed, NEW r \in Request, pc[r] \in Relating \ {"relating"}, Relabel(r),
           UNCHANGED <<tables, on, want, type, found, marks, dirty, history>>,
           \/ own' = own /\ Unwritten(r)
           \/ \E rel \in Relation : WriteRelation(r, rel) /\ rel.type = type[r]
    PROVE  LinkWritten(r)
<1>1. /\ UNCHANGED <<doc, status, relation, onDisk, on, want, type, found, marks, dirty,
                     counted, raced, contested>>
  BY DEF tables, history
<1>2. /\ own' \in [Request -> Writes] /\ \A q \in Request \ {r} : own'[q] = own[q]
      /\ \/ own' = own /\ Unwritten(r)
         \/ /\ own'[r].rows = own[r].rows \cup {"relation"}
            /\ own'[r].relation.type = type[r]
            /\ own'[r].doc = own[r].doc /\ own'[r].status = own[r].status
  <2>1. CASE own' = own /\ Unwritten(r)
    BY <2>1 DEF Typed
  <2>2. CASE \E rel \in Relation : WriteRelation(r, rel) /\ rel.type = type[r]
    <3>1. PICK rel \in Relation : WriteRelation(r, rel) /\ rel.type = type[r]
      BY <2>2
    <3> QED
      BY <3>1, WriteRelationWrites DEF Typed
  <2> QED
    BY <2>1, <2>2
<1>3. /\ entity' \in [Request -> DocRow] /\ pc' \in [Request -> Steps]
      /\ entity'[r] = Row(entity[r]["file"], type[r], entity[r]["downloads"])
      /\ pc'[r] = "comparing"
      /\ \A q \in Request \ {r} : entity'[q] = entity[q] /\ pc'[q] = pc[q]
  BY RelabelEffect
<1>4. Typed'
  BY <1>1, <1>2, <1>3 DEF Typed
<1>5. Inside(r)
  BY <1>1, <1>2, <1>3 DEF Inside, Apart, InTx, InTransaction, Relating
<1> QED
  BY <1>1, <1>2, <1>3, <1>4, <1>5 DEF LinkWritten

LEMMA InsertRelationEffect ==
    ASSUME Typed, NEW r \in Request, InsertRelation(r)
    PROVE  LinkWritten(r)
<1>1. PICK id \in IF found[r] = NoRelation THEN FreshIds ELSE {found[r].id} :
          WriteRelation(r, [id |-> id, type |-> type[r]])
  BY DEF InsertRelation
<1>2. id \in 0..MaxRelations
  BY <1>1, OfType DEF FreshIds, Relation
<1>3. [id |-> id, type |-> type[r]] \in Relation
  BY <1>2, OfType DEF Relation
<1> QED
  BY <1>1, <1>3, LinkWrittenBy DEF InsertRelation, Relating

LEMMA UpdateRelationEffect ==
    ASSUME Typed, NEW r \in Request, UpdateRelation(r)
    PROVE  LinkWritten(r)
<1>1. [id |-> found[r].id, type |-> type[r]] \in Relation
  BY OfType DEF Relation
<1> QED
  BY <1>1, LinkWrittenBy DEF UpdateRelation, Relating, Unwritten

\* A relation is deleted for a removal only.
LEMMA DeleteRelationEffect ==
    ASSUME Typed, NEW r \in Request, DeleteRelation(r), type[r] = "VALID"
    PROVE  LinkWritten(r)
<1>1. NoRelation \in Relation /\ NoRelation.type = "VALID"
  BY DEF NoRelation, Relation, LegalStatus
<1> QED
  BY <1>1, LinkWrittenBy DEF DeleteRelation, Relating, Unwritten

\* save(relation) goes on to write the row, or finds it as it should be.
LEMMA ReloadRelationEffect ==
    ASSUME Typed, NEW r \in Request, ReloadRelation(r)
    PROVE  \/ LinkWritten(r)
           \/ /\ Typed' /\ Inside(r) /\ own' = own /\ marks' = marks /\ dirty' = dirty
              /\ entity' = entity /\ found' = found /\ pc[r] = "linking"
              /\ pc'[r] \in {"inserting relation", "updating relation"}
<1>1. /\ UNCHANGED <<doc, status, relation, onDisk, on, want, type, own, marks,
                     found, dirty, counted, raced, contested>>
      /\ pc[r] = "linking"
  BY DEF ReloadRelation, tables, history
<1>2. CASE entity' = entity /\ \E step \in {"inserting relation", "updating relation"} : GoTo(r, step)
  <2>1. pc' \in [Request -> Steps] /\ \A q \in Request \ {r} : pc'[q] = pc[q]
    BY <1>2, Went DEF Steps, InTransaction
  <2>2. pc'[r] \in {"inserting relation", "updating relation"}
    BY <1>2, Went
  <2>3. Typed'
    BY <1>1, <1>2, <2>1 DEF Typed
  <2> QED
    BY <1>1, <1>2, <2>1, <2>2, <2>3 DEF Inside, Apart, InTx, InTransaction
<1>3. CASE relation[on[r]] = [found[r] EXCEPT !.type = type[r]] /\ Relabel(r)
  <2>1. found[r] \in Relation
    BY OfType
  <2>2. relation[on[r]].type = type[r]
    BY <1>3, <2>1 DEF Relation
  <2> QED
    BY <1>1, <1>3, <2>2, LinkWrittenBy DEF Relating, Unwritten, tables, history
<1> QED
  BY <1>2, <1>3 DEF ReloadRelation

-----------------------------------------------------------------------------
(* Steps inside a transaction keep what holds of their handler. *)

LEMMA InsideFacts ==
    ASSUME Typed, NEW r \in Request, Inside(r)
    PROVE  /\ InTx(r) /\ InTx(r)' /\ (Creating(r)' <=> Creating(r))
           /\ \A f \in File : (Ready(f)' <=> Ready(f))
           /\ UNCHANGED <<doc, status, relation, onDisk, on, want, type, raced, contested>>
           /\ DownloadReads(r)' /\ UploadOrder(r)'
<1>1. pc'[r] \notin Downloading \cup Uploading
  BY DEF Inside, InTx, InTransaction, Downloading, Uploading
<1> QED
  BY <1>1 DEF Inside, Creating, Exists, Ready, DownloadReads, UploadOrder

LEMMA CheckPendingHandler ==
    ASSUME Typed, NEW r \in Request, Handler(r), CheckPending(r)
    PROVE  Handler(r)'
<1>1. /\ Typed' /\ Inside(r) /\ own' = own
      /\ pc[r] = "checking" /\ status[want[r]] = "PENDING" /\ want[r] \in File
      /\ entity'[r] = Row(want[r], entity[r]["legal"], entity[r]["downloads"])
      /\ Creating(r) => pc'[r] = "inserting" /\ marks'[r] = <<Mark(want[r], "ACTIVE")>>
      /\ ~Creating(r) =>
            /\ pc'[r] = "finding file" /\ entity[r]["file"] \in File
            /\ marks'[r] = <<Mark(want[r], "ACTIVE"), Mark(entity[r]["file"], "DELETED")>>
  BY CheckPendingEffect
<1>2. /\ InTx(r) /\ InTx(r)' /\ (Creating(r)' <=> Creating(r))
      /\ \A f \in File : (Ready(f)' <=> Ready(f))
      /\ UNCHANGED <<doc, status, relation, onDisk, on, want, type, raced, contested>>
      /\ DownloadReads(r)' /\ UploadOrder(r)'
  BY <1>1, InsideFacts
<1>3. /\ entity'[r]["file"] = want[r] /\ entity'[r]["legal"] = entity[r]["legal"]
      /\ entity'[r]["downloads"] = entity[r]["downloads"]
  <2>1. entity'[r] = Row(want[r], entity[r]["legal"], entity[r]["downloads"])
    BY <1>1
  <2> QED
    BY <2>1, RowFields
<1>4. own[r].rows = {}
  <2>1. own[r].rows \subseteq {"doc", "relation"} \cup File
    BY OfType
  <2> QED
    BY <1>1, <2>1 DEF Handler, OwnRows, Marking, Saving
<1>5. ~Creating(r) =>
         /\ Len(marks'[r]) = 2 /\ marks'[r][1] = Mark(want[r], "ACTIVE")
         /\ marks'[r][1].to = "ACTIVE" /\ marks'[r][2].to = "DELETED"
         /\ Old(r)' = entity[r]["file"]
  <2>1. ASSUME ~Creating(r)
        PROVE  /\ Len(marks'[r]) = 2 /\ marks'[r][1] = Mark(want[r], "ACTIVE")
               /\ marks'[r][2] = Mark(entity[r]["file"], "DELETED")
    <3>1. Mark(want[r], "ACTIVE") \in Marks /\ Mark(entity[r]["file"], "DELETED") \in Marks
      BY <1>1, <2>1, MarkFields
    <3>2. marks'[r] = <<Mark(want[r], "ACTIVE"), Mark(entity[r]["file"], "DELETED")>>
      BY <1>1, <2>1
    <3> QED
      BY <3>1, <3>2, TwoMarks
  <2>2. ~Creating(r) =>
           /\ Mark(want[r], "ACTIVE").to = "ACTIVE"
           /\ Mark(entity[r]["file"], "DELETED").to = "DELETED"
           /\ Mark(entity[r]["file"], "DELETED").file = entity[r]["file"]
    BY <1>1, MarkFields
  <2> QED
    BY <2>1, <2>2 DEF Old
<1>6. Creating(r) => entity[r] = Absent
  BY <1>1, <1>2 DEF Handler, Creation
<1>7. ~Creating(r) => want[r] # entity[r]["file"] /\ Ready(entity[r]["file"])
  BY <1>1, <1>2 DEF Handler, Change
<1>8. Creating(r) => entity'[r] = Row(want[r], "VALID", 0)
  BY <1>1, <1>6, AbsentRow
<1>a. OwnRows(r)'
  BY <1>1, <1>2, <1>4 DEF OwnRows
<1>b. MarksInOrder(r)'
  <2>1. CASE Creating(r)
    BY <1>1, <1>2, <2>1 DEF MarksInOrder, Marking
  <2>2. CASE ~Creating(r)
    <3>1. /\ Len(marks'[r]) = 2 /\ marks'[r][1] = Mark(want[r], "ACTIVE")
          /\ marks'[r][1].to = "ACTIVE" /\ marks'[r][Len(marks'[r])].to = "DELETED"
          /\ Old(r)' = entity[r]["file"] /\ own'[r].rows = {}
          /\ want'[r] = want[r] /\ entity'[r]["file"] = want[r] /\ want[r] \in File
          /\ Old(r)' # want[r] /\ Ready(Old(r))' /\ ~Creating(r)'
      BY <1>1, <1>2, <1>3, <1>4, <1>5, <1>7, <2>2 DEF Ready
    <3> QED
      BY <3>1 DEF MarksInOrder
  <2> QED
    BY <2>1, <2>2
<1>c. Creation(r)'
  BY <1>1, <1>2, <1>8 DEF Creation, Marking
<1>d. Change(r)'
  BY <1>1, <1>2, <1>4 DEF Change, Relating, Saving
<1>e. ReadIsCurrent(r)'
  BY <1>1, <1>2, <1>3, <1>5 DEF Handler, ReadIsCurrent, Relating, Saving, Marking
<1>f. MarksAreCurrent(r)'
  BY <1>1, <1>2, <1>4 DEF MarksAreCurrent, Saving
<1>g. WantsPending(r)'
  BY <1>1, <1>2, <1>4, <1>5 DEF WantsPending, Marking, Saving
<1> QED
  BY <1>2, <1>a, <1>b, <1>c, <1>d, <1>e, <1>f, <1>g DEF Handler

\* A mark left as it was: only the place moves.
LEMMA AtMarkHandler ==
    ASSUME Typed, NEW r \in Request, Handler(r), Inside(r), pc[r] \in Marking,
           pc'[r] \in Marking, own' = own, entity' = entity, marks' = marks,
           found' = found, dirty' = dirty
    PROVE  Handler(r)'
<1>2. /\ InTx(r) /\ InTx(r)' /\ (Creating(r)' <=> Creating(r))
      /\ \A f \in File : (Ready(f)' <=> Ready(f))
      /\ UNCHANGED <<doc, status, relation, onDisk, on, want, type, raced, contested>>
      /\ DownloadReads(r)' /\ UploadOrder(r)'
  BY InsideFacts
<1>3. /\ pc[r] \notin {"checking", "inserting", "committing", "saving"} \cup Relating \cup Saving
      /\ pc'[r] \notin {"checking", "inserting", "committing", "saving"} \cup Relating \cup Saving
  BY DEF Marking, Relating, Saving
<1>4. \A f \in File : Sound(r, f)' <=> Sound(r, f)
  BY <1>2 DEF Sound
<1>5. Old(r)' = Old(r)
  BY DEF Old
<1>6. UNCHANGED <<own, entity, marks, found, dirty>>
  OBVIOUS
<1>a. OwnRows(r)'
  BY <1>2, <1>3 DEF Handler, OwnRows
<1>b. MarksInOrder(r)'
  BY <1>2, <1>3, <1>4, <1>5 DEF Handler, MarksInOrder, Ready, Sound
<1>c. Creation(r)'
  BY <1>2, <1>3 DEF Handler, Creation
<1>d. Change(r)'
  BY <1>2, <1>3 DEF Handler, Change, Sound, Ready, Marking, Relating
<1>e. ReadIsCurrent(r)'
  BY <1>2, <1>3, <1>5 DEF Handler, ReadIsCurrent
<1>f. MarksAreCurrent(r)'
  BY <1>2, <1>3 DEF Handler, MarksAreCurrent
<1>g. WantsPending(r)'
  BY <1>2, <1>3 DEF Handler, WantsPending
<1> QED
  BY <1>2, <1>a, <1>b, <1>c, <1>d, <1>e, <1>f, <1>g DEF Handler

\* A mark is done with: it was the file it wants, which is sound then, or the one it
\* replaces.
MarkDone(r) ==
    /\ own'[r].doc = own[r].doc /\ own'[r].relation = own[r].relation
    /\ \A row \in {"doc", "relation"} : row \in own'[r].rows <=> row \in own[r].rows
    /\ \A f \in File : f \in own[r].rows => f \in own'[r].rows
    /\ \A f \in File : f \in own'[r].rows =>
          \/ f \in own[r].rows /\ own'[r].status[f] = own[r].status[f]
          \/ f = marks[r][1].file /\ own'[r].status[f] = marks[r][1].to
    /\ marks[r][1].to = "ACTIVE" =>
          /\ want[r] \in own'[r].rows \/ Ready(want[r])
          /\ want[r] \notin contested => want[r] \in own'[r].rows

LEMMA MarkedHandler ==
    ASSUME Typed, NEW r \in Request, Handler(r), Inside(r), pc[r] \in Marking, Marked(r),
           MarkDone(r), entity' = entity, found' = found, dirty' = dirty,
           on[r] \notin raced => doc[on[r]]["legal"] = relation[on[r]].type
    PROVE  Handler(r)'
<1>1. /\ InTx(r) /\ InTx(r)' /\ (Creating(r)' <=> Creating(r))
      /\ \A f \in File : (Ready(f)' <=> Ready(f))
      /\ UNCHANGED <<doc, status, relation, onDisk, on, want, type, raced, contested>>
      /\ DownloadReads(r)' /\ UploadOrder(r)'
  BY InsideFacts
<1>2. /\ want[r] \in File /\ entity[r]["file"] = want[r]
      /\ Len(marks[r]) \in 1..2
      /\ Creating(r) => Len(marks[r]) = 1 /\ marks[r][1] = Mark(want[r], "ACTIVE")
      /\ ~Creating(r) =>
            /\ marks[r][Len(marks[r])].to = "DELETED"
            /\ Old(r) # want[r] /\ Ready(Old(r))
            /\ Len(marks[r]) = 1 => Sound(r, want[r])
      /\ Len(marks[r]) = 2 => marks[r][1] = Mark(want[r], "ACTIVE")
      /\ marks[r][1].to = "ACTIVE" => \A f \in File : f \notin own[r].rows
  BY DEF Handler, MarksInOrder
<1>3. /\ marks'[r] = Tail(marks[r])
      /\ Len(marks[r]) = 2 => pc'[r] = "finding file"
      /\ Len(marks[r]) = 1 => pc'[r] = IF Creating(r) THEN "committing" ELSE "comparing"
  BY MarkedEffect
<1>4. /\ Mark(want[r], "ACTIVE").file = want[r] /\ Mark(want[r], "ACTIVE").to = "ACTIVE"
  BY <1>2, MarkFields
<1>5. \* The three places it can be at.
      \/ Creating(r) /\ Len(marks[r]) = 1 /\ marks[r][1].to = "ACTIVE"
         /\ marks[r][1].file = want[r] /\ pc'[r] = "committing"
      \/ ~Creating(r) /\ Len(marks[r]) = 2 /\ marks[r][1].to = "ACTIVE"
         /\ marks[r][1].file = want[r] /\ pc'[r] = "finding file"
      \/ ~Creating(r) /\ Len(marks[r]) = 1 /\ marks[r][1].to = "DELETED"
         /\ marks[r][1].file = Old(r) /\ pc'[r] = "comparing"
  <2>1. CASE Creating(r)
    BY <1>2, <1>3, <1>4, <2>1
  <2>2. CASE ~Creating(r) /\ Len(marks[r]) = 1
    BY <1>2, <1>3, <2>2 DEF Old
  <2>3. CASE ~Creating(r) /\ Len(marks[r]) = 2
    BY <1>2, <1>3, <1>4, <2>3
  <2>4. Len(marks[r]) = 1 \/ Len(marks[r]) = 2
    BY <1>2
  <2> QED
    BY <2>1, <2>2, <2>3, <2>4, Zenon
<1>6. ~Creating(r) /\ Len(marks[r]) = 2 =>
         Len(marks'[r]) = 1 /\ marks'[r][1] = marks[r][2] /\ Old(r)' = Old(r)
  <2>1. marks[r] \in Seq(Marks)
    BY OfType
  <2>2. Len(marks[r]) = 2 =>
           Len(Tail(marks[r])) = 1 /\ Tail(marks[r])[1] = marks[r][2]
    BY <1>2, <2>1, TailOfMarks
  <2> QED
    BY <1>3, <2>2 DEF Old
<1>7. Old(r) \in File
  <2>1. marks[r] \in Seq(Marks)
    BY OfType
  <2>2. marks[r][1] \in Marks /\ (Len(marks[r]) = 2 => marks[r][2] \in Marks)
    BY <1>2, <2>1, TailOfMarks
  <2> QED
    BY <1>2, <2>2 DEF Old, Marks
<1>8. /\ own[r].rows \subseteq {"doc", "relation"} \cup File
      /\ "relation" \notin own[r].rows /\ ("doc" \in own[r].rows => Creating(r))
  <2>1. own[r].rows \subseteq {"doc", "relation"} \cup File
    BY OfType
  <2> QED
    BY <2>1 DEF Handler, OwnRows, Marking, Saving
<1>9. \A f \in File : f \in own[r].rows =>
         /\ f = want[r] => own[r].status[f] = "ACTIVE"
         /\ f # want[r] => own[r].status[f] = "DELETED" /\ Ready(f) /\ ~Creating(r)
  BY DEF Handler, OwnRows
<1>10. Sound(r, want[r])'
  BY <1>1, <1>2, <1>5 DEF MarkDone, Sound, Ready
<1>a. OwnRows(r)'
  <2>1. \A f \in File : f \in own'[r].rows =>
           /\ f = want[r] => own'[r].status[f] = "ACTIVE"
           /\ f # want[r] => own'[r].status[f] = "DELETED" /\ Ready(f) /\ ~Creating(r)
    <3>1. \/ marks[r][1].to = "ACTIVE" /\ marks[r][1].file = want[r]
          \/ /\ marks[r][1].to = "DELETED" /\ marks[r][1].file = Old(r)
             /\ Old(r) # want[r] /\ Ready(Old(r)) /\ ~Creating(r)
      BY <1>2, <1>5
    <3> QED
      BY <1>9, <3>1 DEF MarkDone
  <2>2. "relation" \notin own'[r].rows /\ ("doc" \in own'[r].rows => Creating(r))
    BY <1>8 DEF MarkDone
  <2> QED
    BY <1>1, <1>5, <2>1, <2>2 DEF OwnRows, Marking, Saving
<1>b. MarksInOrder(r)'
  <2>1. CASE pc'[r] = "finding file"
    <3>1. ~Creating(r) /\ Len(marks[r]) = 2 /\ marks[r][2].to = "DELETED"
      BY <1>2, <1>5, <2>1
    <3> QED
      BY <1>1, <1>2, <1>6, <1>7, <1>10, <3>1 DEF MarksInOrder, Ready
  <2>2. CASE pc'[r] # "finding file"
    BY <1>5, <2>2 DEF MarksInOrder, Marking
  <2> QED
    BY <2>1, <2>2
<1>c. Creation(r)'
  BY <1>1, <1>5, <1>10 DEF Handler, Creation, Marking, MarkDone
<1>d. Change(r)'
  <2>1. ~Creating(r) => "doc" \notin own'[r].rows
    BY <1>8 DEF MarkDone
  <2> QED
    BY <1>1, <1>2, <1>5, <1>10, <2>1 DEF Change, Relating, Saving
<1>e. ReadIsCurrent(r)'
  <2>1. "relation" \notin own'[r].rows
    BY <1>8 DEF MarkDone
  <2> QED
    BY <1>1, <1>5, <1>6, <2>1
       DEF Handler, ReadIsCurrent, Relating, Saving, Marking, RelationSeen
<1>f. MarksAreCurrent(r)'
  <2>1. ~Creating(r) /\ on[r] \notin raced => Old(r) = doc[on[r]]["file"]
    BY <1>1 DEF Handler, ReadIsCurrent
  <2>2. ~Creating(r) /\ on[r] \notin raced =>
           \A f \in File : f \in own'[r].rows => f \in {want[r], doc[on[r]]["file"]}
    BY <1>1, <1>5, <2>1 DEF Handler, MarksAreCurrent, MarkDone
  <2> QED
    BY <1>1, <1>2, <2>1, <2>2 DEF MarksAreCurrent
<1>g. WantsPending(r)'
  <2>1. want[r] \notin contested => want[r] \in own'[r].rows /\ status[want[r]] = "PENDING"
    BY <1>1, <1>2, <1>5 DEF Handler, WantsPending, MarkDone
  <2>2. status[want[r]] # "none"
    BY <1>1, <1>2 DEF Handler, WantsPending
  <2> QED
    BY <1>1, <1>2, <2>1, <2>2 DEF WantsPending
<1> QED
  BY <1>1, <1>a, <1>b, <1>c, <1>d, <1>e, <1>f, <1>g DEF Handler

LEMMA FindFileHandler ==
    ASSUME Typed, NEW r \in Request, Handler(r), FindFile(r),
           on[r] \notin raced => doc[on[r]]["legal"] = relation[on[r]].type
    PROVE  Handler(r)'
<1>1. /\ Inside(r) /\ own' = own /\ found' = found /\ dirty' = dirty
      /\ entity' = entity /\ pc[r] \in Marking
      /\ \/ pc'[r] = "reloading file" /\ marks' = marks
         \/ Marked(r) /\ marks[r][1].to = "DELETED"
  BY FindFileEffect
<1>2. CASE pc'[r] = "reloading file" /\ marks' = marks
  <2>1. pc'[r] \in Marking
    BY <1>2 DEF Marking
  <2> QED
    BY <1>1, <1>2, <2>1, AtMarkHandler
<1>3. CASE Marked(r) /\ marks[r][1].to = "DELETED"
  <2>1. MarkDone(r)
    BY <1>1, <1>3 DEF MarkDone
  <2> QED
    BY <1>1, <1>3, <2>1, MarkedHandler
<1> QED
  BY <1>1, <1>2, <1>3

\* Who reads a mark as made has made it, or contests the file.
LEMMA ReloadFileHandler ==
    ASSUME Typed, NEW r \in Request, Handler(r), ReloadFile(r),
           on[r] \notin raced => doc[on[r]]["legal"] = relation[on[r]].type
    PROVE  Handler(r)'
<1>1. /\ Inside(r) /\ own' = own /\ found' = found /\ dirty' = dirty
      /\ entity' = entity /\ pc[r] \in Marking
      /\ \/ pc'[r] = "writing file" /\ marks' = marks
         \/ Marked(r) /\ StatusSeen(r, marks[r][1].file) = marks[r][1].to
  BY ReloadFileEffect
<1>2. CASE pc'[r] = "writing file" /\ marks' = marks
  <2>1. pc'[r] \in Marking
    BY <1>2 DEF Marking
  <2> QED
    BY <1>1, <1>2, <2>1, AtMarkHandler
<1>3. CASE Marked(r) /\ StatusSeen(r, marks[r][1].file) = marks[r][1].to
  <2>1. ASSUME marks[r][1].to = "ACTIVE"
        PROVE  Ready(want[r]) /\ want[r] \in contested
    <3>1. want[r] \in File /\ want[r] \notin own[r].rows
      BY <1>1, <2>1 DEF Handler, MarksInOrder
    <3>2. marks[r][1].file = want[r]
      <4>1. marks[r][1] = Mark(want[r], "ACTIVE")
        <5>1. Len(marks[r]) \in 1..2
          BY <1>1 DEF Handler, MarksInOrder
        <5>2. Len(marks[r]) = 1 => Creating(r)
          <6>1. ~Creating(r) => marks[r][Len(marks[r])].to = "DELETED"
            BY <1>1 DEF Handler, MarksInOrder
          <6> QED
            BY <2>1, <6>1
        <5>3. Len(marks[r]) = 1 \/ Len(marks[r]) = 2
          BY <5>1
        <5> QED
          BY <1>1, <5>2, <5>3 DEF Handler, MarksInOrder
      <4> QED
        BY <3>1, <4>1, MarkFields
    <3>3. status[want[r]] = "ACTIVE"
      BY <1>3, <2>1, <3>1, <3>2 DEF StatusSeen
    <3>4. InTx(r)
      BY <1>1 DEF Inside
    <3> QED
      BY <1>1, <2>1, <3>1, <3>3, <3>4 DEF Handler, WantsPending, Ready
  <2>2. MarkDone(r)
    BY <1>1, <1>3, <2>1 DEF MarkDone
  <2> QED
    BY <1>1, <1>3, <2>2, MarkedHandler
<1> QED
  BY <1>1, <1>2, <1>3

LEMMA WriteFileHandler ==
    ASSUME Typed, NEW r \in Request, Handler(r), WriteFile(r),
           on[r] \notin raced => doc[on[r]]["legal"] = relation[on[r]].type
    PROVE  Handler(r)'
<1>1. /\ Inside(r) /\ found' = found /\ dirty' = dirty
      /\ entity' = entity /\ pc[r] \in Marking /\ Marked(r)
      /\ own'[r].rows = own[r].rows \cup {marks[r][1].file}
      /\ own'[r].status[marks[r][1].file] = marks[r][1].to
      /\ \A g \in File \ {marks[r][1].file} : own'[r].status[g] = own[r].status[g]
      /\ own'[r].doc = own[r].doc /\ own'[r].relation = own[r].relation
  BY WriteFileEffect
<1>2. marks[r][1].file \in File
  <2>1. Len(marks[r]) \in 1..2 /\ marks[r] \in Seq(Marks)
    BY <1>1, OfType DEF Handler, MarksInOrder
  <2>2. marks[r][1] \in Marks
    BY <2>1, TailOfMarks
  <2> QED
    BY <2>2 DEF Marks
<1>3. marks[r][1].to = "ACTIVE" => marks[r][1].file = want[r]
  <2>1. want[r] \in File /\ Len(marks[r]) \in 1..2
    BY <1>1 DEF Handler, MarksInOrder
  <2>2. Mark(want[r], "ACTIVE").file = want[r]
    BY <2>1, MarkFields
  <2>3. ~Creating(r) => marks[r][Len(marks[r])].to = "DELETED"
    BY <1>1 DEF Handler, MarksInOrder
  <2>4. Len(marks[r]) = 1 \/ Len(marks[r]) = 2
    BY <2>1
  <2>5. /\ Creating(r) => marks[r][1] = Mark(want[r], "ACTIVE")
        /\ Len(marks[r]) = 2 => marks[r][1] = Mark(want[r], "ACTIVE")
    BY <1>1 DEF Handler, MarksInOrder
  <2> QED
    BY <2>2, <2>3, <2>4, <2>5
<1>4. "doc" \notin File /\ "relation" \notin File
  OBVIOUS
<1>5. MarkDone(r)
  BY <1>1, <1>2, <1>3, <1>4 DEF MarkDone
<1> QED
  BY <1>1, <1>5, MarkedHandler

LEMMA InsertDocumentHandler ==
    ASSUME Typed, NEW r \in Request, Handler(r), InsertDocument(r)
    PROVE  Handler(r)'
<1>1. /\ Inside(r) /\ found' = found /\ dirty' = dirty /\ marks' = marks
      /\ entity' = entity /\ pc[r] = "inserting" /\ pc'[r] = "finding file"
      /\ own'[r].rows = own[r].rows \cup {"doc"} /\ own'[r].doc = entity[r]
  BY InsertDocumentEffect
<1>2. /\ InTx(r) /\ InTx(r)' /\ (Creating(r)' <=> Creating(r))
      /\ \A f \in File : (Ready(f)' <=> Ready(f))
      /\ UNCHANGED <<doc, status, relation, onDisk, on, want, type, raced, contested>>
      /\ DownloadReads(r)' /\ UploadOrder(r)'
  BY <1>1, InsideFacts
<1>3. Creating(r)
  BY <1>1, <1>2 DEF Handler, Change
<1>4. want[r] \in File /\ marks[r] = <<Mark(want[r], "ACTIVE")>>
      /\ entity[r] = Row(want[r], "VALID", 0)
  BY <1>1, <1>2, <1>3 DEF Handler, Creation
<1>5. /\ Len(marks[r]) = 1 /\ marks[r][1] = Mark(want[r], "ACTIVE")
      /\ marks[r][1].to = "ACTIVE"
  BY <1>4, MarkFields, TwoMarks
<1>6. own'[r].rows = {"doc"} /\ "doc" \notin File
  <2>1. own[r].rows \subseteq {"doc", "relation"} \cup File
    BY OfType
  <2> QED
    BY <1>1, <2>1 DEF Handler, OwnRows, Marking, Saving
<1>7. entity[r]["file"] = want[r]
  BY <1>4, RowFields
<1>a. OwnRows(r)'
  BY <1>1, <1>2, <1>3, <1>6 DEF OwnRows, Marking
<1>b. MarksInOrder(r)'
  <2>1. /\ want'[r] \in File /\ entity'[r]["file"] = want'[r] /\ Creating(r)'
        /\ marks'[r][1] = Mark(want'[r], "ACTIVE") /\ Len(marks'[r]) = 1
        /\ \A f \in File : f \notin own'[r].rows
    BY <1>1, <1>2, <1>3, <1>4, <1>5, <1>6, <1>7
  <2> QED
    BY <2>1 DEF MarksInOrder
<1>c. Creation(r)'
  BY <1>1, <1>2, <1>4, <1>6 DEF Creation, Marking
<1>d. Change(r)'
  BY <1>2, <1>3 DEF Change
<1>e. ReadIsCurrent(r)'
  BY <1>2, <1>3 DEF ReadIsCurrent
<1>f. MarksAreCurrent(r)'
  BY <1>2, <1>3 DEF MarksAreCurrent
<1>g. WantsPending(r)'
  <2>1. status[want[r]] # "none"
    BY <1>2, <1>4 DEF Handler, WantsPending
  <2>2. CASE want[r] \in contested
    BY <1>2, <2>1, <2>2 DEF WantsPending
  <2>3. CASE want[r] \notin contested
    <3>1. status[want[r]] = "PENDING"
      BY <1>1, <1>2, <1>4, <2>3 DEF Handler, WantsPending
    <3> QED
      BY <1>1, <1>2, <1>4, <1>5, <1>6, <2>1, <2>3, <3>1 DEF WantsPending, Saving
  <2> QED
    BY <2>2, <2>3
<1> QED
  BY <1>2, <1>a, <1>b, <1>c, <1>d, <1>e, <1>f, <1>g DEF Handler

LEMMA CompareHandler ==
    ASSUME Typed, NEW r \in Request, Handler(r), Compare(r)
    PROVE  Handler(r)'
<1>1. /\ Inside(r) /\ own' = own /\ found' = found /\ marks' = marks
      /\ entity' = entity /\ pc[r] = "comparing"
      /\ dirty'[r] = {c \in Columns : entity[r][c] # DocSeen(r)[c]}
      /\ pc'[r] = IF dirty'[r] = {} THEN "committing" ELSE "saving"
  BY CompareEffect
<1>2. /\ InTx(r) /\ InTx(r)' /\ (Creating(r)' <=> Creating(r))
      /\ \A f \in File : (Ready(f)' <=> Ready(f))
      /\ UNCHANGED <<doc, status, relation, onDisk, on, want, type, raced, contested>>
      /\ DownloadReads(r)' /\ UploadOrder(r)'
  BY <1>1, InsideFacts
<1>3. ~Creating(r) /\ pc[r] \in Saving /\ pc'[r] \in {"saving", "committing"}
      /\ pc'[r] \in Saving
  BY <1>1, <1>2 DEF Handler, Creation, Saving, Marking
<1>4. "doc" \notin own[r].rows /\ DocSeen(r) = doc[on[r]] /\ DocSeen(r)' = doc[on[r]]
  BY <1>1, <1>2 DEF Handler, OwnRows, Marking, DocSeen
<1>5. pc'[r] = "committing" => doc[on[r]] = entity[r]
  <2>1. entity[r] \in DocRow /\ doc[on[r]] \in DocRow
    BY OfType
  <2>2. pc'[r] = "committing" => \A c \in Columns : entity[r][c] = doc[on[r]][c]
    BY <1>1, <1>4
  <2> QED
    BY <2>1, <2>2, SameRow DEF Columns
<1>6. RelationSeen(r)' = RelationSeen(r) /\ \A f \in File : Sound(r, f)' <=> Sound(r, f)
  BY <1>1, <1>2 DEF RelationSeen, Sound
<1>a. OwnRows(r)'
  BY <1>1, <1>2, <1>3, <1>4 DEF Handler, OwnRows, Ready
<1>b. MarksInOrder(r)'
  BY <1>3 DEF MarksInOrder, Marking
<1>c. Creation(r)'
  BY <1>2, <1>3 DEF Creation
<1>d. Change(r)'
  BY <1>1, <1>2, <1>3, <1>4, <1>6 DEF Handler, Change, Saving, Relating
<1>e. ReadIsCurrent(r)'
  BY <1>1, <1>2, <1>3, <1>4, <1>5, <1>6 DEF Handler, ReadIsCurrent, Relating, Marking
<1>f. MarksAreCurrent(r)'
  BY <1>1, <1>2, <1>3 DEF Handler, MarksAreCurrent
<1>g. WantsPending(r)'
  BY <1>1, <1>2, <1>3 DEF Handler, WantsPending, Marking
<1> QED
  BY <1>2, <1>a, <1>b, <1>c, <1>d, <1>e, <1>f, <1>g DEF Handler

\* What save writes: for a handler not raced, the document in memory.
LEMMA SavedRow ==
    ASSUME Typed, NEW r \in Request, Handler(r), SaveDocument(r), ~Creating(r),
           Ready(doc[on[r]]["file"])
    PROVE  /\ own'[r].doc["file"] \in File
           /\ own'[r].doc["file"] \in {entity[r]["file"], doc[on[r]]["file"]}
           /\ Sound(r, own'[r].doc["file"])
           /\ own'[r].doc["downloads"] \in {entity[r]["downloads"], doc[on[r]]["downloads"]}
           /\ on[r] \notin raced => own'[r].doc = entity[r]
<1>1. /\ Typed' /\ Inside(r) /\ pc[r] = "saving"
      /\ \A c \in Columns :
            own'[r].doc[c] = IF c \in dirty[r] THEN entity[r][c] ELSE doc[on[r]][c]
  BY SaveDocumentEffect
<1>2. pc[r] \in Saving /\ InTx(r)
  BY <1>1 DEF Saving, Inside
<1>3. entity[r] \in DocRow /\ doc[on[r]] \in DocRow /\ own'[r].doc \in DocRow
  <2>1. own'[r] \in Writes
    BY <1>1 DEF Typed
  <2> QED
    BY <2>1, OfType DEF Writes
<1>4. /\ entity[r]["file"] \in File /\ Sound(r, entity[r]["file"])
      /\ doc[on[r]]["file"] \in File /\ Sound(r, doc[on[r]]["file"])
  BY <1>2, <1>3, DocRowFields DEF Handler, Change, Creating, Exists, Sound
<1>5. on[r] \notin raced => own'[r].doc = entity[r]
  <2>1. on[r] \notin raced => \A c \in Columns : own'[r].doc[c] = entity[r][c]
    BY <1>1, <1>2 DEF Handler, ReadIsCurrent
  <2> QED
    BY <1>3, <2>1, SameRow DEF Columns
<1>6. /\ own'[r].doc["file"] \in {entity[r]["file"], doc[on[r]]["file"]}
      /\ own'[r].doc["downloads"] \in {entity[r]["downloads"], doc[on[r]]["downloads"]}
  BY <1>1 DEF Columns
<1> QED
  BY <1>4, <1>5, <1>6

LEMMA SaveDocumentHandler ==
    ASSUME Typed, NEW r \in Request, Handler(r), SaveDocument(r),
           Exists(on[r]) => Ready(doc[on[r]]["file"])
    PROVE  Handler(r)'
<1>1. /\ Inside(r) /\ found' = found /\ marks' = marks /\ dirty' = dirty
      /\ entity' = entity /\ pc[r] = "saving" /\ pc'[r] = "committing"
      /\ own'[r].rows = own[r].rows \cup {"doc"}
      /\ own'[r].relation = own[r].relation /\ own'[r].status = own[r].status
  BY SaveDocumentEffect
<1>2. /\ InTx(r) /\ InTx(r)' /\ (Creating(r)' <=> Creating(r))
      /\ \A f \in File : (Ready(f)' <=> Ready(f))
      /\ UNCHANGED <<doc, status, relation, onDisk, on, want, type, raced, contested>>
      /\ DownloadReads(r)' /\ UploadOrder(r)'
  BY <1>1, InsideFacts
<1>3. ~Creating(r) /\ pc[r] \in Saving /\ pc'[r] \in Saving
  BY <1>1, <1>2 DEF Handler, Creation, Saving, Marking
<1>4. /\ own'[r].doc["file"] \in File /\ Sound(r, own'[r].doc["file"])
      /\ on[r] \notin raced => own'[r].doc = entity[r]
  BY <1>3, SavedRow DEF Creating
<1>5. \A f \in File : f \in own'[r].rows <=> f \in own[r].rows
  BY <1>1
<1>6. RelationSeen(r)' = RelationSeen(r) /\ DocSeen(r)' = own'[r].doc
  BY <1>1, <1>2 DEF RelationSeen, DocSeen
<1>7. entity[r]["file"] \in File /\ Sound(r, entity[r]["file"])
  BY <1>2, <1>3 DEF Handler, Change
<1>8. Sound(r, entity[r]["file"])' /\ Sound(r, own[r].doc["file"])'
  BY <1>1, <1>2, <1>4, <1>5, <1>7 DEF Sound, Ready
<1>a. OwnRows(r)'
  BY <1>1, <1>2, <1>3, <1>5 DEF Handler, OwnRows, Ready
<1>b. MarksInOrder(r)'
  BY <1>1 DEF MarksInOrder, Marking
<1>c. Creation(r)'
  BY <1>2, <1>3 DEF Creation
<1>d. Change(r)'
  BY <1>1, <1>2, <1>3, <1>4, <1>7, <1>8 DEF Change, Relating
<1>e. ReadIsCurrent(r)'
  BY <1>1, <1>2, <1>3, <1>4, <1>6 DEF Handler, ReadIsCurrent, Relating, Marking
<1>f. MarksAreCurrent(r)'
  BY <1>1, <1>2, <1>3, <1>5 DEF Handler, MarksAreCurrent
<1>g. WantsPending(r)'
  <2>1. want[r] \in File => status[want[r]] # "none"
    BY <1>2 DEF Handler, WantsPending
  <2> QED
    BY <1>1, <1>2, <1>3, <1>5, <2>1 DEF Handler, WantsPending, Marking
<1> QED
  BY <1>2, <1>a, <1>b, <1>c, <1>d, <1>e, <1>f, <1>g DEF Handler

\* While a relation is looked for and written nothing else has been written.
LEMMA RelatingFacts ==
    ASSUME Typed, NEW r \in Request, Handler(r), pc[r] \in Relating
    PROVE  /\ own[r].rows = {} /\ ~Creating(r)
           /\ entity[r]["file"] \in File /\ Ready(entity[r]["file"])
<1>1. InTx(r) /\ pc[r] \notin Marking \cup Saving \cup {"checking", "inserting", "committing"}
  BY DEF Relating, InTx, InTransaction, Marking, Saving
<1>2. own[r].rows \subseteq {"doc", "relation"} \cup File
  BY OfType
<1>3. own[r].rows = {}
  BY <1>1, <1>2 DEF Handler, OwnRows
<1>4. ~Creating(r)
  BY <1>1 DEF Handler, Creation
<1> QED
  BY <1>1, <1>3, <1>4 DEF Handler, Change

LEMMA FindRelationHandler ==
    ASSUME Typed, NEW r \in Request, Handler(r), FindRelation(r)
    PROVE  Handler(r)'
<1>1. /\ Inside(r) /\ own' = own /\ marks' = marks /\ dirty' = dirty
      /\ entity' = entity /\ pc[r] = "relating" /\ found'[r] = relation[on[r]]
      /\ pc'[r] \in Relating \ {"relating"}
      /\ pc'[r] = "unlinking relation" => type[r] = "VALID"
  BY FindRelationEffect
<1>2. /\ InTx(r) /\ InTx(r)' /\ (Creating(r)' <=> Creating(r))
      /\ \A f \in File : (Ready(f)' <=> Ready(f))
      /\ UNCHANGED <<doc, status, relation, onDisk, on, want, type, raced, contested>>
      /\ DownloadReads(r)' /\ UploadOrder(r)'
  BY <1>1, InsideFacts
<1>3. pc[r] \in Relating
  BY <1>1 DEF Relating
<1>4. /\ own[r].rows = {} /\ ~Creating(r)
      /\ entity[r]["file"] \in File /\ Ready(entity[r]["file"])
  BY <1>3, RelatingFacts
<1>5. pc'[r] \notin Marking \cup Saving \cup {"checking", "inserting", "committing"}
  BY <1>1 DEF Relating, Marking, Saving
<1>a. OwnRows(r)'
  BY <1>1, <1>2, <1>4 DEF OwnRows
<1>b. MarksInOrder(r)'
  BY <1>5 DEF MarksInOrder
<1>c. Creation(r)'
  BY <1>2, <1>4 DEF Creation
<1>d. Change(r)'
  BY <1>1, <1>2, <1>4, <1>5 DEF Change, Ready
<1>e. ReadIsCurrent(r)'
  BY <1>1, <1>2, <1>3, <1>4, <1>5 DEF Handler, ReadIsCurrent, Saving
<1>f. MarksAreCurrent(r)'
  BY <1>1, <1>4, <1>5 DEF MarksAreCurrent
<1>g. WantsPending(r)'
  BY <1>1, <1>2, <1>4, <1>5 DEF Handler, WantsPending
<1> QED
  BY <1>2, <1>a, <1>b, <1>c, <1>d, <1>e, <1>f, <1>g DEF Handler

\* The relation is as it should be, in the table or in the transaction, and the
\* document in memory has its status.
LEMMA RelatedHandler ==
    ASSUME Typed, NEW r \in Request, Handler(r), Inside(r), pc[r] \in Relating,
           pc'[r] = "comparing", entity'[r]["file"] = entity[r]["file"],
           entity'[r]["downloads"] = entity[r]["downloads"],
           own'[r].rows \subseteq {"relation"}, found' = found, dirty' = dirty,
           on[r] \notin raced => entity'[r]["legal"] = RelationSeen(r)'.type
    PROVE  Handler(r)'
<1>1. /\ InTx(r) /\ InTx(r)' /\ (Creating(r)' <=> Creating(r))
      /\ \A f \in File : (Ready(f)' <=> Ready(f))
      /\ UNCHANGED <<doc, status, relation, onDisk, on, want, type, raced, contested>>
      /\ DownloadReads(r)' /\ UploadOrder(r)'
  BY InsideFacts
<1>2. /\ ~Creating(r)
      /\ entity[r]["file"] \in File /\ Ready(entity[r]["file"])
  BY RelatingFacts
<1>3. \A f \in File : f \notin own'[r].rows
  OBVIOUS
<1>4. "doc" \notin own'[r].rows
  OBVIOUS
<1>5. /\ pc'[r] \notin Marking \cup Relating \cup {"checking", "inserting", "committing", "saving"}
      /\ pc'[r] \in Saving
  BY DEF Marking, Relating, Saving
<1>6. on[r] \notin raced => entity[r]["file"] = doc[on[r]]["file"]
  BY <1>1, <1>2 DEF Handler, ReadIsCurrent
<1>a. OwnRows(r)'
  BY <1>1, <1>2, <1>3, <1>4, <1>5 DEF OwnRows
<1>b. MarksInOrder(r)'
  BY <1>5 DEF MarksInOrder
<1>c. Creation(r)'
  BY <1>1, <1>2 DEF Creation
<1>d. Change(r)'
  BY <1>1, <1>2, <1>4, <1>5 DEF Change, Sound, Ready, Relating
<1>e. ReadIsCurrent(r)'
  BY <1>1, <1>2, <1>5 DEF Handler, ReadIsCurrent
<1>f. MarksAreCurrent(r)'
  BY <1>1, <1>3, <1>6 DEF MarksAreCurrent
<1>g. WantsPending(r)'
  <2>1. want[r] \in File => status[want[r]] # "none"
    BY <1>1 DEF Handler, WantsPending
  <2> QED
    BY <1>1, <1>2, <1>3, <1>5, <1>6, <2>1 DEF WantsPending
<1> QED
  BY <1>1, <1>a, <1>b, <1>c, <1>d, <1>e, <1>f, <1>g DEF Handler

\* An UPDATE or DELETE that finds its row gone: the document is raced.
LEMMA LinkWrittenHandler ==
    ASSUME Typed, NEW r \in Request, Handler(r), LinkWritten(r)
    PROVE  Handler(r)'
<1>1. /\ Inside(r) /\ found' = found /\ marks' = marks /\ dirty' = dirty
      /\ pc[r] \in Relating \ {"relating"} /\ pc'[r] = "comparing"
      /\ entity'[r] = Row(entity[r]["file"], type[r], entity[r]["downloads"])
      /\ \/ own' = own /\ Unwritten(r)
         \/ own'[r].rows = own[r].rows \cup {"relation"} /\ own'[r].relation.type = type[r]
  BY DEF LinkWritten
<1>2. /\ own[r].rows = {} /\ ~Creating(r)
  BY <1>1, RelatingFacts
<1>3. /\ entity'[r]["file"] = entity[r]["file"] /\ entity'[r]["legal"] = type[r]
      /\ entity'[r]["downloads"] = entity[r]["downloads"]
  <2>1. entity'[r] = Row(entity[r]["file"], type[r], entity[r]["downloads"])
    BY <1>1
  <2> QED
    BY <2>1, RowFields
<1>4. InTx(r) /\ on[r] \notin raced => relation[on[r]] = found[r]
  BY <1>1, <1>2 DEF Handler, ReadIsCurrent
<1>5. InTx(r) /\ on[r] \notin raced => RelationSeen(r)'.type = type[r]
  <2>1. relation' = relation /\ on' = on
    BY <1>1 DEF Inside
  <2>2. CASE own' = own /\ Unwritten(r)
    <3>1. RelationSeen(r)' = relation[on[r]]
      BY <1>2, <2>1, <2>2 DEF RelationSeen
    <3> QED
      BY <1>4, <2>2, <3>1 DEF Unwritten
  <2>3. CASE own'[r].rows = own[r].rows \cup {"relation"} /\ own'[r].relation.type = type[r]
    BY <2>3 DEF RelationSeen
  <2> QED
    BY <1>1, <2>2, <2>3
<1>6. InTx(r)
  BY <1>1 DEF Inside
<1> QED
  BY <1>1, <1>2, <1>3, <1>5, <1>6, RelatedHandler

LEMMA ReloadRelationHandler ==
    ASSUME Typed, NEW r \in Request, Handler(r), ReloadRelation(r)
    PROVE  Handler(r)'
<1>1. CASE LinkWritten(r)
  BY <1>1, LinkWrittenHandler
<1>2. CASE /\ Inside(r) /\ own' = own /\ marks' = marks /\ dirty' = dirty
           /\ entity' = entity /\ found' = found /\ pc[r] = "linking"
           /\ pc'[r] \in {"inserting relation", "updating relation"}
  <2>1. /\ InTx(r) /\ InTx(r)' /\ (Creating(r)' <=> Creating(r))
        /\ \A f \in File : (Ready(f)' <=> Ready(f))
        /\ UNCHANGED <<doc, status, relation, onDisk, on, want, type, raced, contested>>
        /\ DownloadReads(r)' /\ UploadOrder(r)'
    BY <1>2, InsideFacts
  <2>2. pc[r] \in Relating
    BY <1>2 DEF Relating
  <2>3. /\ own[r].rows = {} /\ ~Creating(r)
        /\ entity[r]["file"] \in File /\ Ready(entity[r]["file"])
    BY <2>2, RelatingFacts
  <2>4. /\ pc'[r] \notin Marking \cup Saving \cup {"checking", "inserting", "committing"}
        /\ pc'[r] \in Relating /\ pc'[r] # "unlinking relation"
    BY <1>2 DEF Relating, Marking, Saving
  <2>a. OwnRows(r)'
    BY <1>2, <2>1, <2>3 DEF OwnRows
  <2>b. MarksInOrder(r)'
    BY <2>4 DEF MarksInOrder
  <2>c. Creation(r)'
    BY <2>1, <2>3 DEF Creation
  <2>d. Change(r)'
    BY <1>2, <2>1, <2>3, <2>4 DEF Change, Ready
  <2>e. ReadIsCurrent(r)'
    BY <1>2, <2>1, <2>2, <2>3, <2>4 DEF Handler, ReadIsCurrent, Saving
  <2>f. MarksAreCurrent(r)'
    BY <1>2, <2>3, <2>4 DEF MarksAreCurrent
  <2>g. WantsPending(r)'
    BY <1>2, <2>1, <2>3, <2>4 DEF Handler, WantsPending
  <2> QED
    BY <2>1, <2>a, <2>b, <2>c, <2>d, <2>e, <2>f, <2>g DEF Handler
<1> QED
  BY <1>1, <1>2, ReloadRelationEffect

-----------------------------------------------------------------------------
(* What holds between handlers. *)

LEMMA Unpacked ==
    ASSUME IndInv
    PROVE  /\ Typed /\ \A q \in Request : Handler(q)
           /\ AbsentRows /\ CreatesAlone /\ UploadsApart /\ SharedIsContested
           /\ CountsBounded /\ OneClaimant
           /\ FilesAreReady /\ OwnFileUnlessRaced /\ LegalStatusUnlessRaced
           /\ DownloadsUnlessRaced /\ NotFoundExplained
  BY TypedIsTypeOK DEF IndInv, Handlers

Together ==
    /\ CreatesAlone /\ UploadsApart /\ SharedIsContested /\ CountsBounded
    /\ OneClaimant /\ NotFoundExplained

\* What a step of r must not do to the others.
Fits(r) ==
    /\ Apart(r) /\ raced \subseteq raced' /\ contested \subseteq contested'
    /\ \A d \in Doc : doc'[d]["downloads"] <= counted'[d] /\ counted[d] <= counted'[d]
    /\ \A q \in Request \ {r} : InTx(q) => (Creating(q)' <=> Creating(q))
    /\ \A d \in Doc, f \in File \ contested' : doc'[d]["file"] = f => Claims(d, f)
    /\ InTx(r)' =>
          \/ InTx(r) /\ on'[r] = on[r] /\ (Creating(r)' => Creating(r))
          \/ Exists(on'[r]) /\ ~Creating(r)'
          \/ \A q \in Request \ {r} : InTx(q) => on[q] # on'[r]
    /\ pc'[r] \in Uploading =>
          \/ pc[r] \in Uploading /\ want'[r] = want[r]
          \/ \A q \in Request \ {r} : pc[q] \in Uploading => want[q] # want'[r]
    /\ InTx(r)' /\ want'[r] \in File =>
          \/ InTx(r) /\ want'[r] = want[r]
          \/ \A q \in Request \ {r} : InTx(q) /\ want[q] = want'[r] => want'[r] \in contested'
    /\ InTx(r)' => entity'[r]["downloads"] <= counted'[on'[r]]
    /\ "doc" \in own'[r].rows => own'[r].doc["downloads"] <= counted'[on'[r]]
    /\ \A f \in File \ contested' : Holds(r, f)' =>
          Claims(on'[r], f) \/ \A e \in Doc \ {on'[r]} : ~Claims(e, f)
    /\ pc'[r] = "notFound" => on'[r] \in raced' \/ entity'[r]["file"] \in contested'

LEMMA TogetherStep ==
    ASSUME Typed, Typed', Together, NEW r \in Request, Fits(r)
    PROVE  Together'
<1>1. \A q \in Request \ {r} :
         /\ pc'[q] = pc[q] /\ on'[q] = on[q] /\ want'[q] = want[q]
         /\ entity'[q] = entity[q] /\ marks'[q] = marks[q] /\ own'[q] = own[q]
         /\ (InTx(q)' <=> InTx(q)) /\ on[q] \in Doc
  BY DEF Fits, Apart, InTx, Typed
<1>2. raced \subseteq raced' /\ contested \subseteq contested'
  BY DEF Fits
<1>3. CreatesAlone'
  <2>1. SUFFICES ASSUME NEW q \in Request, NEW s \in Request, q # s,
                        InTx(q)', InTx(s)', Creating(s)'
                 PROVE  on'[q] # on'[s]
    BY DEF CreatesAlone
  <2>2. CASE q # r /\ s # r
    BY <1>1, <2>1, <2>2 DEF Together, CreatesAlone, Fits
  <2>3. CASE q = r /\ s # r
    <3>1. InTx(s) /\ Creating(s)
      BY <1>1, <2>1, <2>3 DEF Fits
    <3> QED
      BY <1>1, <2>1, <2>3, <3>1 DEF Together, CreatesAlone, Fits, Creating
  <2>4. CASE s = r /\ q # r
    <3>1. InTx(q)
      BY <1>1, <2>1, <2>4
    <3> QED
      BY <1>1, <2>1, <2>4, <3>1 DEF Together, CreatesAlone, Fits
  <2> QED
    BY <2>1, <2>2, <2>3, <2>4
<1>4. UploadsApart'
  BY <1>1 DEF Together, UploadsApart, Fits
<1>5. SharedIsContested'
  <2>1. SUFFICES ASSUME NEW q \in Request, NEW s \in Request, q # s,
                        InTx(q)', InTx(s)', want'[q] = want'[s], want'[s] \in File
                 PROVE  want'[s] \in contested'
    BY DEF SharedIsContested
  <2>2. CASE q # r /\ s # r
    BY <1>1, <1>2, <2>1, <2>2 DEF Together, SharedIsContested
  <2>3. CASE q = r \/ s = r
    BY <1>1, <1>2, <2>1, <2>3 DEF Together, SharedIsContested, Fits
  <2> QED
    BY <2>2, <2>3
<1>6. CountsBounded'
  <2>1. \A d \in Doc : counted[d] \in Nat /\ counted'[d] \in Nat
    BY DEF Typed
  <2>2. \A q \in Request \ {r} :
           entity[q]["downloads"] \in Nat /\ own[q].doc["downloads"] \in Nat
    BY OfType, DocRowFields
  <2>3. ASSUME NEW q \in Request \ {r}
        PROVE  /\ InTx(q)' => entity'[q]["downloads"] <= counted'[on'[q]]
               /\ "doc" \in own'[q].rows => own'[q].doc["downloads"] <= counted'[on'[q]]
    <3>1. counted[on[q]] <= counted'[on[q]]
      BY <1>1 DEF Fits
    <3>2. /\ InTx(q) => entity[q]["downloads"] <= counted[on[q]]
          /\ "doc" \in own[q].rows => own[q].doc["downloads"] <= counted[on[q]]
      BY DEF Together, CountsBounded
    <3> QED
      BY <1>1, <2>1, <2>2, <3>1, <3>2
  <2> QED
    BY <2>3 DEF CountsBounded, Fits
<1>7. OneClaimant'
  <2>1. ASSUME NEW q \in Request \ {r}, NEW f \in File
        PROVE  Holds(q, f)' => Holds(q, f)
    <3>1. pc[q] \in Marking => InTx(q)
      BY DEF Marking, InTx, InTransaction
    <3>2. InTx(q) => (Creating(q)' <=> Creating(q))
      BY DEF Fits
    <3> QED
      BY <1>1, <3>1, <3>2 DEF Holds, Old
  <2>2. ASSUME NEW d \in Doc, NEW f \in File \ contested', Claims(d, f)'
        PROVE  Claims(d, f) \/ (d = on'[r] /\ \A e \in Doc \ {d} : ~Claims(e, f))
    <3>1. CASE doc'[d]["file"] = f
      BY <2>2, <3>1 DEF Fits
    <3>2. CASE \E q \in Request : on'[q] = d /\ Holds(q, f)'
      <4>1. PICK q \in Request : on'[q] = d /\ Holds(q, f)'
        BY <3>2
      <4>2. CASE q = r
        BY <2>2, <4>1, <4>2 DEF Fits
      <4>3. CASE q # r
        BY <1>1, <2>1, <4>1, <4>3 DEF Claims
      <4> QED
        BY <4>2, <4>3
    <3> QED
      BY <2>2, <3>1, <3>2 DEF Claims
  <2> QED
    BY <1>2, <2>2 DEF OneClaimant, Together
<1>8. NotFoundExplained'
  BY <1>1, <1>2 DEF Together, NotFoundExplained, Fits
<1> QED
  BY <1>3, <1>4, <1>5, <1>6, <1>7, <1>8 DEF Together

Tables ==
    /\ AbsentRows /\ FilesAreReady /\ OwnFileUnlessRaced /\ LegalStatusUnlessRaced
    /\ DownloadsUnlessRaced

LEMMA TablesStep ==
    ASSUME Tables, contested \subseteq contested', onDisk \subseteq onDisk',
           UNCHANGED <<doc, status, relation, counted, raced>>
    PROVE  Tables'
<1>1. AbsentRows'
  BY DEF Tables, AbsentRows, Exists
<1>2. FilesAreReady'
  BY DEF Tables, FilesAreReady, Exists
<1>3. OwnFileUnlessRaced'
  BY DEF Tables, OwnFileUnlessRaced, Exists
<1>4. LegalStatusUnlessRaced' /\ DownloadsUnlessRaced'
  BY DEF Tables, LegalStatusUnlessRaced, DownloadsUnlessRaced
<1> QED
  BY <1>1, <1>2, <1>3, <1>4 DEF Tables

LEMMA Packed ==
    ASSUME Typed', \A q \in Request : Handler(q)', Tables', Together'
    PROVE  IndInv'
  BY TypedIsTypeOKNext DEF IndInv, Handlers, Tables, Together

\* A step that leaves the tables and what was counted and raced alone, as most do.
Calm(r) ==
    /\ Apart(r) /\ contested \subseteq contested'
    /\ UNCHANGED <<doc, status, relation, onDisk, counted, raced>>

LEMMA CalmStep ==
    ASSUME IndInv, NEW r \in Request, Calm(r), Typed', Handler(r)', Fits(r)
    PROVE  IndInv'
<1>1. Typed /\ Tables /\ Together /\ \A q \in Request : Handler(q)
  BY Unpacked DEF Tables, Together
<1>2. ASSUME NEW q \in Request \ {r}
      PROVE  Handler(q)'
  <2>1. on'[q] = on[q]
    BY DEF Calm, Apart
  <2>2. Undisturbed(q)
    BY <2>1 DEF Calm, Undisturbed, Ready, Creating, Exists
  <2> QED
    BY <1>1, <2>2, UndisturbedHandler DEF Calm
<1>3. Tables'
  BY <1>1, TablesStep DEF Calm
<1>4. Together'
  BY <1>1, TogetherStep
<1> QED
  BY <1>2, <1>3, <1>4, Packed

\* What of Fits is left to show for a calm step.
LEMMA CalmFits ==
    ASSUME IndInv, NEW r \in Request, Calm(r), Typed',
           InTx(r)' =>
              \/ InTx(r) /\ on'[r] = on[r]
              \/ Exists(on'[r])
              \/ \A q \in Request \ {r} : InTx(q) => on[q] # on'[r],
           pc'[r] \in Uploading =>
              \/ pc[r] \in Uploading /\ want'[r] = want[r]
              \/ \A q \in Request \ {r} : pc[q] \in Uploading => want[q] # want'[r],
           InTx(r)' /\ want'[r] \in File =>
              \/ InTx(r) /\ want'[r] = want[r]
              \/ \A q \in Request \ {r} :
                    InTx(q) /\ want[q] = want'[r] => want'[r] \in contested',
           InTx(r)' => entity'[r]["downloads"] <= counted[on'[r]],
           "doc" \in own'[r].rows => own'[r].doc["downloads"] <= counted[on'[r]],
           \A f \in File \ contested' : Holds(r, f)' =>
              Claims(on'[r], f) \/ \A e \in Doc \ {on'[r]} : ~Claims(e, f),
           pc'[r] = "notFound" => on'[r] \in raced \/ entity'[r]["file"] \in contested'
    PROVE  Fits(r)
<1>1. Typed /\ CountsBounded
  BY Unpacked
<1>2. /\ UNCHANGED <<doc, counted, raced>>
      /\ Apart(r) /\ raced \subseteq raced' /\ contested \subseteq contested'
  BY DEF Calm
<1>3. \A d \in Doc : doc'[d]["downloads"] <= counted'[d] /\ counted[d] <= counted'[d]
  <2>1. \A d \in Doc : counted[d] \in Nat
    BY <1>1 DEF Typed
  <2> QED
    BY <1>1, <1>2, <2>1 DEF CountsBounded
<1>4. \A q \in Request \ {r} : InTx(q) => (Creating(q)' <=> Creating(q))
  BY <1>2 DEF Apart, Creating, Exists
<1>5. \A d \in Doc, f \in File \ contested' : doc'[d]["file"] = f => Claims(d, f)
  BY <1>2 DEF Claims
<1>6. InTx(r)' =>
          \/ InTx(r) /\ on'[r] = on[r] /\ (Creating(r)' => Creating(r))
          \/ Exists(on'[r]) /\ ~Creating(r)'
          \/ \A q \in Request \ {r} : InTx(q) => on[q] # on'[r]
  BY <1>2 DEF Creating, Exists
<1> QED
  BY <1>2, <1>3, <1>4, <1>5, <1>6 DEF Fits

-----------------------------------------------------------------------------
(* Each action keeps the invariant: those inside a transaction. *)

LEMMA InsideStep ==
    ASSUME IndInv, NEW r \in Request, Inside(r), Typed', Handler(r)',
           entity'[r]["downloads"] <= counted[on[r]],
           "doc" \in own'[r].rows => own'[r].doc["downloads"] <= counted[on[r]],
           \A f \in File \ contested : Holds(r, f)' =>
              Holds(r, f) \/ doc[on[r]]["file"] = f \/ \A e \in Doc \ {on[r]} : ~Claims(e, f)
    PROVE  IndInv'
<1>1. /\ Calm(r) /\ on'[r] = on[r] /\ want'[r] = want[r] /\ InTx(r) /\ InTx(r)'
      /\ contested' = contested
  BY DEF Inside, Calm
<1>2. pc'[r] \notin Uploading /\ pc'[r] # "notFound"
  BY <1>1 DEF InTx, InTransaction, Uploading
<1>3. \A f \in File \ contested' : Holds(r, f)' =>
         Claims(on'[r], f) \/ \A e \in Doc \ {on'[r]} : ~Claims(e, f)
  BY <1>1 DEF Claims
<1>4. Fits(r)
  BY <1>1, <1>2, <1>3, CalmFits
<1> QED
  BY <1>1, <1>4, CalmStep

\* Who knows a file wants it, or the file has been ready once.
LEMMA KnownFiles ==
    ASSUME IndInv, NEW q \in Request, NEW f \in File, Holds(q, f), ~Ready(f)
    PROVE  InTx(q) /\ want[q] = f
<1>1. Typed /\ Handler(q)
  BY Unpacked
<1>2. own[q].rows # {} => InTx(q)
  BY <1>1, NothingWritten DEF Handler, OwnRows
<1>3. f \in own[q].rows => want[q] = f
  BY <1>1 DEF Handler, OwnRows
<1>4. CASE pc[q] \in Downloading /\ entity[q]["file"] = f
  BY <1>1, <1>4 DEF Handler, DownloadReads
<1>5. CASE InTx(q) /\ entity[q]["file"] = f
  <2>1. CASE Creating(q)
    <3>1. entity[q] = Absent \/ entity[q] = Row(want[q], "VALID", 0)
      BY <1>1, <1>5, <2>1 DEF Handler, Creation
    <3>2. Row(want[q], "VALID", 0)["file"] = want[q] /\ Absent["file"] # f
      BY RowFields, AbsentRow
    <3> QED
      BY <1>5, <3>1, <3>2
  <2>2. CASE ~Creating(q)
    <3>1. pc[q] \in {"checking"} \cup Marking \cup Relating \cup Saving
      BY <1>1, <1>5, <2>2
         DEF Handler, Change, InTx, InTransaction, Marking, Relating, Saving
    <3>2. CASE pc[q] \in Marking
      BY <1>1, <1>5, <3>2 DEF Handler, MarksInOrder
    <3>3. CASE pc[q] \in Saving
      BY <1>1, <1>3, <1>5, <2>2, <3>3 DEF Handler, Change, Sound
    <3>4. CASE pc[q] \in {"checking"} \cup Relating
      BY <1>1, <1>5, <2>2, <3>4 DEF Handler, Change
    <3> QED
      BY <3>1, <3>2, <3>3, <3>4
  <2> QED
    BY <2>1, <2>2
<1>6. CASE f \in own[q].rows
  BY <1>2, <1>3, <1>6
<1>7. CASE "doc" \in own[q].rows /\ own[q].doc["file"] = f
  <2>1. CASE Creating(q)
    <3>1. own[q].doc = entity[q]
      BY <1>1, <1>2, <1>7, <2>1 DEF Handler, OwnRows, Creation
    <3> QED
      BY <1>2, <1>5, <1>7, <3>1
  <2>2. CASE ~Creating(q)
    BY <1>1, <1>2, <1>3, <1>7, <2>2 DEF Handler, Change, Sound
  <2> QED
    BY <2>1, <2>2
<1>8. CASE pc[q] \in Marking /\ ~Creating(q) /\ Old(q) = f
  BY <1>1, <1>8 DEF Handler, MarksInOrder
<1> QED
  BY <1>4, <1>5, <1>6, <1>7, <1>8 DEF Holds, InTx

\* A pending file that is not contested is known to no other document.
LEMMA PendingIsFree ==
    ASSUME IndInv, NEW r \in Request, InTx(r), want[r] \in File \ contested,
           ~Ready(want[r]), NEW e \in Doc \ {on[r]}
    PROVE  ~Claims(e, want[r])
<1>1. FilesAreReady /\ SharedIsContested
  BY Unpacked
<1>2. doc[e]["file"] # want[r]
  BY <1>1 DEF FilesAreReady, Exists, Ready
<1>3. ASSUME NEW q \in Request, on[q] = e, Holds(q, want[r])
      PROVE  FALSE
  <2>1. InTx(q) /\ want[q] = want[r]
    BY <1>3, KnownFiles
  <2>2. q # r
    BY <1>3
  <2> QED
    BY <1>1, <2>1, <2>2 DEF SharedIsContested
<1> QED
  BY <1>2, <1>3 DEF Claims

LEMMA CheckPendingStep ==
    ASSUME IndInv, NEW r \in Request, CheckPending(r)
    PROVE  IndInv'
<1>1. Typed /\ Handler(r) /\ CountsBounded
  BY Unpacked
<1>2. /\ Typed' /\ Inside(r) /\ own' = own
      /\ pc[r] = "checking" /\ status[want[r]] = "PENDING" /\ want[r] \in File
      /\ entity'[r] = Row(want[r], entity[r]["legal"], entity[r]["downloads"])
      /\ Creating(r) => pc'[r] = "inserting"
      /\ ~Creating(r) =>
            /\ pc'[r] = "finding file" /\ entity[r]["file"] \in File
            /\ marks'[r] = <<Mark(want[r], "ACTIVE"), Mark(entity[r]["file"], "DELETED")>>
  BY <1>1, CheckPendingEffect
<1>3. Handler(r)'
  BY <1>1, CheckPendingHandler
<1>4. entity'[r]["file"] = want[r] /\ entity'[r]["downloads"] = entity[r]["downloads"]
  <2>1. entity'[r] = Row(want[r], entity[r]["legal"], entity[r]["downloads"])
    BY <1>2
  <2> QED
    BY <2>1, RowFields
<1>5. InTx(r) /\ (Creating(r)' <=> Creating(r)) /\ pc[r] \in InTransaction
  BY <1>1, <1>2, InsideFacts DEF InTx
<1>6. ~Creating(r) => Old(r)' = entity[r]["file"]
  <2>1. ASSUME ~Creating(r)
        PROVE  Len(marks'[r]) = 2 /\ marks'[r][2] = Mark(entity[r]["file"], "DELETED")
    <3>1. Mark(want[r], "ACTIVE") \in Marks /\ Mark(entity[r]["file"], "DELETED") \in Marks
      BY <1>2, <2>1, MarkFields
    <3>2. marks'[r] = <<Mark(want[r], "ACTIVE"), Mark(entity[r]["file"], "DELETED")>>
      BY <1>2, <2>1
    <3> QED
      BY <3>1, <3>2, TwoMarks
  <2>2. ~Creating(r) =>
           /\ Mark(want[r], "ACTIVE").to = "ACTIVE"
           /\ Mark(entity[r]["file"], "DELETED").to = "DELETED"
           /\ Mark(entity[r]["file"], "DELETED").file = entity[r]["file"]
    BY <1>2, MarkFields
  <2> QED
    BY <2>1, <2>2 DEF Old
<1>7. \A f \in File \ contested : Holds(r, f)' =>
         Holds(r, f) \/ f = want[r]
  BY <1>2, <1>4, <1>5, <1>6 DEF Holds, Marking, Downloading
<1>8. want[r] \notin contested => \A e \in Doc \ {on[r]} : ~Claims(e, want[r])
  BY <1>2, <1>5, PendingIsFree DEF Ready
<1> QED
  BY <1>1, <1>2, <1>3, <1>4, <1>5, <1>7, <1>8, InsideStep DEF CountsBounded

\* The file replaced is the last mark until it is made.
LEMMA MarkedOld ==
    ASSUME Typed, NEW r \in Request, Handler(r), pc[r] \in Marking, Marked(r),
           pc'[r] \in Marking
    PROVE  Old(r)' = Old(r)
<1>1. marks[r] \in Seq(Marks) /\ Len(marks[r]) \in 1..2
  BY OfType DEF Handler, MarksInOrder
<1>2. /\ marks'[r] = Tail(marks[r])
      /\ Len(marks[r]) = 1 =>
            pc'[r] = IF Creating(r) THEN "committing" ELSE "comparing"
  BY MarkedEffect
<1>3. Len(marks[r]) = 2
  <2>1. Len(marks[r]) # 1
    BY <1>2 DEF Marking
  <2> QED
    BY <1>1, <2>1
<1>4. Len(Tail(marks[r])) = 1 /\ Tail(marks[r])[1] = marks[r][2]
  BY <1>1, <1>3, TailOfMarks
<1> QED
  BY <1>2, <1>3, <1>4 DEF Old

\* A step at a mark, which may write the file of the mark.
LEMMA MarkingStep ==
    ASSUME IndInv, NEW r \in Request, Inside(r), Typed', Handler(r)', pc[r] \in Marking,
           entity' = entity, own'[r].doc = own[r].doc,
           "doc" \in own'[r].rows => "doc" \in own[r].rows,
           \/ marks' = marks
           \/ Marked(r),
           \A f \in File : f \in own'[r].rows => f \in own[r].rows \/ f = marks[r][1].file
    PROVE  IndInv'
<1>1. Typed /\ Handler(r) /\ CountsBounded
  BY Unpacked
<1>2. InTx(r) /\ (Creating(r)' <=> Creating(r)) /\ pc[r] \in InTransaction
  BY <1>1, InsideFacts DEF InTx
<1>3. pc'[r] \in Marking => Old(r)' = Old(r)
  <2>1. CASE marks' = marks
    BY <2>1 DEF Old
  <2>2. CASE Marked(r)
    BY <1>1, <2>2, MarkedOld
  <2> QED
    BY <2>1, <2>2
<1>4. \/ marks[r][1].file = entity[r]["file"]
      \/ ~Creating(r) /\ marks[r][1].file = Old(r)
  <2>1. /\ want[r] \in File /\ entity[r]["file"] = want[r] /\ Len(marks[r]) \in 1..2
        /\ Creating(r) => marks[r][1] = Mark(want[r], "ACTIVE")
        /\ Len(marks[r]) = 2 => marks[r][1] = Mark(want[r], "ACTIVE")
    BY <1>1 DEF Handler, MarksInOrder
  <2>2. Mark(want[r], "ACTIVE").file = want[r]
    BY <2>1, MarkFields
  <2>3. Len(marks[r]) = 1 => marks[r][1].file = Old(r)
    BY DEF Old
  <2>4. Len(marks[r]) = 1 \/ Len(marks[r]) = 2
    BY <2>1
  <2>5. CASE marks[r][1] = Mark(want[r], "ACTIVE")
    BY <2>1, <2>2, <2>5
  <2>6. CASE Len(marks[r]) = 1 /\ ~Creating(r)
    BY <2>3, <2>6
  <2> QED
    BY <2>1, <2>4, <2>5, <2>6
<1>5. \A f \in File : f \in own'[r].rows => Holds(r, f)
  BY <1>2, <1>4 DEF Holds
<1>6. \A f \in File : Holds(r, f)' => Holds(r, f)
  BY <1>2, <1>3, <1>5 DEF Holds
<1> QED
  BY <1>1, <1>2, <1>6, InsideStep DEF CountsBounded

LEMMA LegalOf ==
    ASSUME IndInv, NEW r \in Request
    PROVE  on[r] \notin raced => doc[on[r]]["legal"] = relation[on[r]].type
  BY Unpacked DEF LegalStatusUnlessRaced, Typed

LEMMA FindFileStep ==
    ASSUME IndInv, NEW r \in Request, FindFile(r)
    PROVE  IndInv'
<1>1. Typed /\ Handler(r)
  BY Unpacked
<1>2. Handler(r)'
  BY <1>1, FindFileHandler, LegalOf
<1>3. /\ Typed' /\ Inside(r) /\ own' = own /\ entity' = entity /\ pc[r] \in Marking
      /\ \/ marks' = marks
         \/ Marked(r)
  BY <1>1, FindFileEffect
<1> QED
  BY <1>2, <1>3, MarkingStep

LEMMA ReloadFileStep ==
    ASSUME IndInv, NEW r \in Request, ReloadFile(r)
    PROVE  IndInv'
<1>1. Typed /\ Handler(r)
  BY Unpacked
<1>2. Handler(r)'
  BY <1>1, ReloadFileHandler, LegalOf
<1>3. /\ Typed' /\ Inside(r) /\ own' = own /\ entity' = entity /\ pc[r] \in Marking
      /\ \/ marks' = marks
         \/ Marked(r)
  BY <1>1, ReloadFileEffect
<1> QED
  BY <1>2, <1>3, MarkingStep

LEMMA WriteFileStep ==
    ASSUME IndInv, NEW r \in Request, WriteFile(r)
    PROVE  IndInv'
<1>1. Typed /\ Handler(r)
  BY Unpacked
<1>2. Handler(r)'
  BY <1>1, WriteFileHandler, LegalOf
<1>3. /\ Typed' /\ Inside(r) /\ entity' = entity /\ pc[r] \in Marking /\ Marked(r)
      /\ own'[r].rows = own[r].rows \cup {marks[r][1].file} /\ own'[r].doc = own[r].doc
  BY <1>1, WriteFileEffect
<1>4. marks[r][1].file \in File
  <2>1. Len(marks[r]) \in 1..2 /\ marks[r] \in Seq(Marks)
    BY <1>1, <1>3, OfType DEF Handler, MarksInOrder
  <2>2. marks[r][1] \in Marks
    BY <2>1, TailOfMarks
  <2> QED
    BY <2>2 DEF Marks
<1>5. "doc" \notin File
  OBVIOUS
<1>6. "doc" \in own'[r].rows => "doc" \in own[r].rows
  BY <1>3, <1>4, <1>5
<1>7. \A f \in File : f \in own'[r].rows => f \in own[r].rows \/ f = marks[r][1].file
  BY <1>3
<1> QED
  BY <1>2, <1>3, <1>6, <1>7, MarkingStep

LEMMA InsertDocumentStep ==
    ASSUME IndInv, NEW r \in Request, InsertDocument(r)
    PROVE  IndInv'
<1>1. Typed /\ Handler(r) /\ CountsBounded
  BY Unpacked
<1>2. Handler(r)'
  BY <1>1, InsertDocumentHandler
<1>3. /\ Typed' /\ Inside(r) /\ marks' = marks /\ entity' = entity
      /\ pc[r] = "inserting" /\ pc'[r] = "finding file"
      /\ own'[r].rows = own[r].rows \cup {"doc"} /\ own'[r].doc = entity[r]
  BY <1>1, InsertDocumentEffect
<1>4. InTx(r) /\ (Creating(r)' <=> Creating(r)) /\ pc[r] \in InTransaction
  BY <1>1, <1>3, InsideFacts DEF InTx
<1>5. Creating(r)
  BY <1>1, <1>3, <1>4 DEF Handler, Change
<1>6. \A f \in File : f \in own'[r].rows => f \in own[r].rows
  BY <1>3
<1>7. \A f \in File : Holds(r, f)' => Holds(r, f)
  BY <1>3, <1>4, <1>5, <1>6 DEF Holds
<1> QED
  BY <1>1, <1>2, <1>3, <1>4, <1>7, InsideStep DEF CountsBounded

LEMMA CompareStep ==
    ASSUME IndInv, NEW r \in Request, Compare(r)
    PROVE  IndInv'
<1>1. Typed /\ Handler(r) /\ CountsBounded
  BY Unpacked
<1>2. Handler(r)'
  BY <1>1, CompareHandler
<1>3. /\ Typed' /\ Inside(r) /\ own' = own /\ entity' = entity /\ pc[r] = "comparing"
      /\ pc'[r] = IF dirty'[r] = {} THEN "committing" ELSE "saving"
  BY <1>1, CompareEffect
<1>4. InTx(r) /\ pc[r] \in InTransaction /\ pc'[r] \notin Marking
  BY <1>1, <1>3, InsideFacts DEF InTx, Marking
<1>5. \A f \in File : Holds(r, f)' => Holds(r, f)
  BY <1>3, <1>4 DEF Holds
<1> QED
  BY <1>1, <1>2, <1>3, <1>4, <1>5, InsideStep DEF CountsBounded

LEMMA ReadyFile ==
    ASSUME IndInv, NEW d \in Doc
    PROVE  Exists(d) => Ready(doc[d]["file"])
  BY Unpacked DEF FilesAreReady, Ready

LEMMA SaveDocumentStep ==
    ASSUME IndInv, NEW r \in Request, SaveDocument(r)
    PROVE  IndInv'
<1>1. Typed /\ Handler(r) /\ CountsBounded /\ on[r] \in Doc
  BY Unpacked, OfType
<1>2. Handler(r)'
  BY <1>1, SaveDocumentHandler, ReadyFile
<1>3. /\ Typed' /\ Inside(r) /\ entity' = entity /\ pc[r] = "saving" /\ pc'[r] = "committing"
      /\ own'[r].rows = own[r].rows \cup {"doc"}
  BY <1>1, SaveDocumentEffect
<1>4. InTx(r) /\ pc[r] \in InTransaction /\ pc'[r] \notin Marking
  BY <1>1, <1>3, InsideFacts DEF InTx, Marking
<1>5. ~Creating(r)
  BY <1>1, <1>3, <1>4 DEF Handler, Creation, Marking
<1>6. /\ own'[r].doc["file"] \in {entity[r]["file"], doc[on[r]]["file"]}
      /\ own'[r].doc["downloads"] \in {entity[r]["downloads"], doc[on[r]]["downloads"]}
  BY <1>1, <1>5, ReadyFile, SavedRow DEF Creating
<1>7. \A f \in File : f \in own'[r].rows => f \in own[r].rows
  BY <1>3
<1>8. \A f \in File : Holds(r, f)' => Holds(r, f) \/ doc[on[r]]["file"] = f
  BY <1>3, <1>4, <1>6, <1>7 DEF Holds
<1> QED
  BY <1>1, <1>2, <1>3, <1>4, <1>6, <1>8, InsideStep DEF CountsBounded

LEMMA FindRelationStep ==
    ASSUME IndInv, NEW r \in Request, FindRelation(r)
    PROVE  IndInv'
<1>1. Typed /\ Handler(r) /\ CountsBounded
  BY Unpacked
<1>2. Handler(r)'
  BY <1>1, FindRelationHandler
<1>3. /\ Typed' /\ Inside(r) /\ own' = own /\ entity' = entity /\ pc[r] = "relating"
      /\ pc'[r] \in Relating
  BY <1>1, FindRelationEffect
<1>4. InTx(r) /\ pc[r] \in InTransaction /\ pc'[r] \notin Marking
  BY <1>1, <1>3, InsideFacts DEF InTx, Marking, Relating
<1>5. \A f \in File : Holds(r, f)' => Holds(r, f)
  BY <1>3, <1>4 DEF Holds
<1> QED
  BY <1>1, <1>2, <1>3, <1>4, <1>5, InsideStep DEF CountsBounded

LEMMA LinkWrittenStep ==
    ASSUME IndInv, NEW r \in Request, LinkWritten(r)
    PROVE  IndInv'
<1>1. Typed /\ Handler(r) /\ CountsBounded
  BY Unpacked
<1>2. Handler(r)'
  BY <1>1, LinkWrittenHandler
<1>3. /\ Typed' /\ Inside(r) /\ pc[r] \in Relating /\ pc'[r] = "comparing"
      /\ entity'[r] = Row(entity[r]["file"], type[r], entity[r]["downloads"])
      /\ own'[r].rows \subseteq own[r].rows \cup {"relation"} /\ own'[r].doc = own[r].doc
  BY DEF LinkWritten
<1>4. InTx(r) /\ pc[r] \in InTransaction /\ pc'[r] \notin Marking
  BY <1>1, <1>3, InsideFacts DEF InTx, Marking
<1>5. entity'[r]["file"] = entity[r]["file"] /\ entity'[r]["downloads"] = entity[r]["downloads"]
  <2>1. entity'[r] = Row(entity[r]["file"], type[r], entity[r]["downloads"])
    BY <1>3
  <2> QED
    BY <2>1, RowFields
<1>6. own[r].rows = {} /\ "relation" \notin File
  BY <1>1, <1>3, RelatingFacts
<1>7. \A f \in File : Holds(r, f)' => Holds(r, f)
  BY <1>3, <1>4, <1>5, <1>6 DEF Holds
<1>8. "doc" \notin own'[r].rows
  BY <1>3, <1>6
<1> QED
  BY <1>1, <1>2, <1>3, <1>4, <1>5, <1>7, <1>8, InsideStep DEF CountsBounded

LEMMA ReloadRelationStep ==
    ASSUME IndInv, NEW r \in Request, ReloadRelation(r)
    PROVE  IndInv'
<1>1. Typed /\ Handler(r) /\ CountsBounded
  BY Unpacked
<1>2. Handler(r)'
  BY <1>1, ReloadRelationHandler
<1>3. CASE LinkWritten(r)
  BY <1>3, LinkWrittenStep
<1>4. CASE /\ Typed' /\ Inside(r) /\ own' = own /\ entity' = entity /\ pc[r] = "linking"
           /\ pc'[r] \in {"inserting relation", "updating relation"}
  <2>1. InTx(r) /\ pc[r] \in InTransaction /\ pc'[r] \notin Marking
    BY <1>1, <1>4, InsideFacts DEF InTx, Marking
  <2>2. \A f \in File : Holds(r, f)' => Holds(r, f)
    BY <1>4, <2>1 DEF Holds
  <2> QED
    BY <1>1, <1>2, <1>4, <2>1, <2>2, InsideStep DEF CountsBounded
<1> QED
  BY <1>1, <1>3, <1>4, ReloadRelationEffect

LEMMA DeleteRelationStep ==
    ASSUME IndInv, NEW r \in Request, DeleteRelation(r)
    PROVE  IndInv'
<1>1. Typed /\ Handler(r)
  BY Unpacked
<1>2. pc[r] = "unlinking relation"
  BY DEF DeleteRelation
<1>3. ~Creating(r) /\ InTx(r)
  BY <1>1, <1>2, RelatingFacts DEF Relating, InTx, InTransaction
<1>4. type[r] = "VALID"
  BY <1>1, <1>2, <1>3 DEF Handler, Change
<1> QED
  BY <1>1, <1>4, DeleteRelationEffect, LinkWrittenStep

-----------------------------------------------------------------------------
(* Requests that arrive and end. *)

\* A handler outside transactions has written nothing that is not committed.
LEMMA OutsideFacts ==
    ASSUME Typed, NEW r \in Request, Handler(r), ~InTx(r)
    PROVE  own[r] = Nothing /\ own[r].rows = {}
  BY NothingWritten DEF Handler, OwnRows

LEMMA EndedIsOutside ==
    ASSUME NEW r \in Request, pc[r] \in Ended \cup Downloading \cup Uploading
    PROVE  ~InTx(r)
  BY DEF InTx, InTransaction, Ended, Downloading, Uploading

LEMMA RestingHandler ==
    ASSUME NEW r \in Request, pc'[r] \in Ended, own'[r] = Nothing
    PROVE  Handler(r)'
<1>1. /\ ~InTx(r)' /\ pc'[r] \notin Marking \cup Saving \cup Downloading \cup Uploading
  BY DEF Ended, InTx, InTransaction, Marking, Saving, Downloading, Uploading
<1>2. own'[r].rows = {}
  BY NothingWritten
<1> QED
  BY <1>1, <1>2 DEF Handler, OwnRows, MarksInOrder, Creation, Change, ReadIsCurrent,
                    MarksAreCurrent, WantsPending, DownloadReads, UploadOrder

\* A handler that comes to rest fits.
LEMMA RestingStep ==
    ASSUME IndInv, NEW r \in Request, Calm(r), Typed', pc'[r] \in Ended, own'[r] = Nothing,
           pc'[r] = "notFound" => on'[r] \in raced \/ entity'[r]["file"] \in contested'
    PROVE  IndInv'
<1>1. Handler(r)'
  BY RestingHandler
<1>2. ~InTx(r)' /\ pc'[r] \notin Downloading \cup Uploading \cup Marking \cup InTransaction
  BY DEF Ended, InTx, InTransaction, Marking, Downloading, Uploading
<1>3. own'[r].rows = {}
  BY NothingWritten
<1>4. \A f \in File : ~Holds(r, f)'
  BY <1>2, <1>3 DEF Holds
<1>5. Fits(r)
  BY <1>2, <1>3, <1>4, CalmFits
<1> QED
  BY <1>1, <1>5, CalmStep

LEMMA RollbackStep ==
    ASSUME IndInv, NEW r \in Request, Rollback(r)
    PROVE  IndInv'
<1>1. Typed
  BY Unpacked
<1>2. /\ UNCHANGED <<doc, status, relation, onDisk, on, want, type, entity, found, marks,
                     dirty, counted, raced, contested>>
      /\ own' = [own EXCEPT ![r] = Nothing] /\ GoTo(r, "failed")
  BY DEF Rollback, tables, locals, history
<1>3. /\ own' \in [Request -> Writes] /\ own'[r] = Nothing
      /\ \A q \in Request \ {r} : own'[q] = own[q]
  BY <1>1, <1>2, NothingWritten DEF Typed
<1>4. /\ pc' \in [Request -> Steps] /\ pc'[r] = "failed"
      /\ \A q \in Request \ {r} : pc'[q] = pc[q]
  BY <1>1, <1>2, Went DEF Steps, Ended
<1>5. Typed'
  BY <1>1, <1>2, <1>3, <1>4 DEF Typed
<1>6. Calm(r) /\ pc'[r] \in Ended
  BY <1>2, <1>3, <1>4 DEF Calm, Apart, Ended
<1> QED
  BY <1>3, <1>4, <1>5, <1>6, RestingStep

\* UploadBreaks and DownloadFails only end.
LEMMA EndingStep ==
    ASSUME IndInv, NEW r \in Request, ~InTx(r), NEW step \in Ended, GoTo(r, step),
           UNCHANGED <<tables, locals, own, history>>,
           step = "notFound" => on[r] \in raced \/ entity[r]["file"] \in contested
    PROVE  IndInv'
<1>1. Typed /\ Handler(r)
  BY Unpacked
<1>2. UNCHANGED <<doc, status, relation, onDisk, on, want, type, entity, found, marks,
                  dirty, own, counted, raced, contested>>
  BY DEF tables, locals, history
<1>3. /\ pc' \in [Request -> Steps] /\ pc'[r] = step
      /\ \A q \in Request \ {r} : pc'[q] = pc[q]
  BY <1>1, Went DEF Steps
<1>4. Typed'
  BY <1>1, <1>2, <1>3 DEF Typed
<1>5. Calm(r) /\ own'[r] = Nothing
  BY <1>1, <1>2, <1>3, OutsideFacts DEF Calm, Apart
<1> QED
  BY <1>2, <1>3, <1>4, <1>5, RestingStep

LEMMA UploadBreaksStep ==
    ASSUME IndInv, NEW r \in Request, UploadBreaks(r)
    PROVE  IndInv'
<1>1. ~InTx(r) /\ "failed" \in Ended
  BY EndedIsOutside DEF UploadBreaks, Ended
<1> QED
  BY <1>1, EndingStep DEF UploadBreaks

LEMMA DownloadFailsStep ==
    ASSUME IndInv, NEW r \in Request, DownloadFails(r)
    PROVE  IndInv'
<1>1. ~InTx(r) /\ "failed" \in Ended
  BY EndedIsOutside DEF DownloadFails, Ended
<1> QED
  BY <1>1, EndingStep DEF DownloadFails

\* A file that cannot be opened is that of a document changed since, or contested.
LEMMA OpenFileStep ==
    ASSUME IndInv, NEW r \in Request, OpenFile(r)
    PROVE  IndInv'
<1>1. /\ Typed /\ Handler(r) /\ Together /\ FilesAreReady /\ OwnFileUnlessRaced
      /\ on[r] \in Doc
  BY Unpacked, OfType DEF Together
<1>2. /\ pc[r] = "streaming"
      /\ UNCHANGED <<tables, locals, own, history>>
      /\ \/ GoTo(r, "counting")
         \/ GoTo(r, "served")
         \/ GoTo(r, "notFound")
            /\ ~(status[entity[r]["file"]] = "ACTIVE" /\ entity[r]["file"] \in onDisk)
  BY DEF OpenFile
<1>3. ~InTx(r) /\ pc[r] \in Downloading
  BY <1>2, EndedIsOutside DEF Downloading
<1>4. CASE GoTo(r, "served")
  BY <1>2, <1>3, <1>4, EndingStep DEF Ended
<1>5. CASE /\ GoTo(r, "notFound")
           /\ ~(status[entity[r]["file"]] = "ACTIVE" /\ entity[r]["file"] \in onDisk)
  <2>1. /\ Exists(on[r]) /\ entity[r]["file"] \in File
        /\ on[r] \notin raced => entity[r]["file"] = doc[on[r]]["file"]
    BY <1>1, <1>3 DEF Handler, DownloadReads
  <2>2. on[r] \in raced \/ entity[r]["file"] \in contested
    BY <1>1, <1>5, <2>1 DEF OwnFileUnlessRaced, FilesAreReady
  <2> QED
    BY <1>2, <1>3, <1>5, <2>2, EndingStep DEF Ended
<1>6. CASE GoTo(r, "counting")
  <2>1. UNCHANGED <<doc, status, relation, onDisk, on, want, type, entity, found, marks,
                    dirty, own, counted, raced, contested>>
    BY <1>2 DEF tables, locals, history
  <2>2. /\ pc' \in [Request -> Steps] /\ pc'[r] = "counting"
        /\ \A q \in Request \ {r} : pc'[q] = pc[q]
    BY <1>1, <1>6, Went DEF Steps, Downloading
  <2>3. Typed'
    BY <1>1, <2>1, <2>2 DEF Typed
  <2>4. Calm(r)
    BY <2>1, <2>2 DEF Calm, Apart
  <2>5. own[r] = Nothing /\ own[r].rows = {}
    BY <1>1, <1>3, OutsideFacts
  <2>6. /\ ~InTx(r)' /\ pc'[r] \in Downloading
        /\ pc'[r] \notin Marking \cup Saving \cup Uploading \cup InTransaction
        /\ pc'[r] # "notFound"
    BY <2>2 DEF InTx, InTransaction, Marking, Saving, Uploading, Downloading
  <2>7. DownloadReads(r)'
    BY <1>1, <1>3, <2>1 DEF Handler, DownloadReads, Exists, Ready
  <2>8. Handler(r)'
    BY <2>1, <2>5, <2>6, <2>7
       DEF Handler, OwnRows, MarksInOrder, Creation, Change, ReadIsCurrent,
           MarksAreCurrent, WantsPending, UploadOrder
  <2>9. \A f \in File : Holds(r, f)' => Claims(on'[r], f)
    BY <1>3, <2>1, <2>5, <2>6 DEF Holds, Claims
  <2>10. Fits(r)
    BY <2>1, <2>3, <2>4, <2>5, <2>6, <2>9, CalmFits
  <2> QED
    BY <2>3, <2>4, <2>8, <2>10, CalmStep
<1> QED
  BY <1>2, <1>4, <1>5, <1>6

\* What an arriving request leaves as it was.
LEMMA Arrived ==
    ASSUME IndInv, NEW r \in Request, NEW d \in Doc, NEW step \in Steps, Arrive(r, d, step)
    PROVE  /\ pc' \in [Request -> Steps] /\ pc'[r] = step /\ on' \in [Request -> Doc]
           /\ on'[r] = d /\ \A q \in Request \ {r} : pc'[q] = pc[q] /\ on'[q] = on[q]
           /\ ~InTx(r) /\ pc[r] \notin Uploading /\ own[r] = Nothing /\ own[r].rows = {}
<1>1. Typed /\ Handler(r)
  BY Unpacked
<1>2. pc[r] \in Ended /\ GoTo(r, step) /\ on' = [on EXCEPT ![r] = d]
  BY DEF Arrive
<1>3. ~InTx(r) /\ pc[r] \notin Uploading
  BY <1>2, EndedIsOutside DEF Ended, Uploading
<1> QED
  BY <1>1, <1>2, <1>3, Went, OutsideFacts DEF Typed

\* A request for a file that another transaction wants contests it.
LEMMA Wanted ==
    ASSUME Typed, NEW r \in Request, NEW f \in File \cup {NoFile}, Wants(r, f)
    PROVE  /\ want' \in [Request -> File \cup {NoFile}] /\ want'[r] = f
           /\ \A q \in Request \ {r} : want'[q] = want[q]
           /\ contested' \subseteq File /\ contested \subseteq contested'
           /\ f \in File =>
                 \A q \in Request \ {r} : InTx(q) /\ want[q] = f => f \in contested'
<1>1. /\ want' = [want EXCEPT ![r] = f]
      /\ contested' = IF \E q \in Request \ {r} : pc[q] \in InTransaction /\ want[q] = f
                      THEN contested \cup ({f} \ {NoFile})
                      ELSE contested
  BY DEF Wants
<1>2. contested \subseteq File
  BY DEF Typed
<1>3. contested' \subseteq File /\ contested \subseteq contested'
  BY <1>1, <1>2
<1>4. f \in File =>
         \A q \in Request \ {r} : InTx(q) /\ want[q] = f => f \in contested'
  BY <1>1 DEF InTx
<1> QED
  BY <1>1, <1>3, <1>4 DEF Typed

LEMMA UploadStep ==
    ASSUME IndInv, NEW r \in Request, NEW f \in File, Upload(r, f)
    PROVE  IndInv'
<1>1. Typed /\ Handler(r) /\ FilesAreReady
  BY Unpacked
<1>2. /\ UNCHANGED <<doc, status, relation, onDisk, on, type, entity, found, marks,
                     dirty, own, counted, raced, contested>>
      /\ pc[r] \in Ended /\ f \notin onDisk /\ want' = [want EXCEPT ![r] = f]
      /\ \A q \in Request : pc[q] \in Uploading => want[q] # f
      /\ GoTo(r, "writing disk")
  BY DEF Upload, tables, history
<1>3. /\ pc' \in [Request -> Steps] /\ pc'[r] = "writing disk"
      /\ \A q \in Request \ {r} : pc'[q] = pc[q]
  BY <1>1, <1>2, Went DEF Steps, Uploading
<1>4. /\ want' \in [Request -> File \cup {NoFile}] /\ want'[r] = f
      /\ \A q \in Request \ {r} : want'[q] = want[q]
  BY <1>1, <1>2 DEF Typed
<1>5. Typed'
  BY <1>1, <1>2, <1>3, <1>4 DEF Typed
<1>6. Calm(r)
  BY <1>2, <1>3, <1>4 DEF Calm, Apart
<1>7. own'[r] = Nothing /\ own'[r].rows = {}
  BY <1>1, <1>2, EndedIsOutside, OutsideFacts
<1>8. /\ ~InTx(r)' /\ pc'[r] # "notFound" /\ pc'[r] \notin Downloading \cup Marking \cup Saving
      /\ pc'[r] \notin InTransaction
  BY <1>3 DEF InTx, InTransaction, Marking, Saving, Downloading
<1>9. UploadOrder(r)'
  BY <1>1, <1>2, <1>3, <1>4 DEF UploadOrder, FilesAreReady
<1>10. Handler(r)'
  BY <1>7, <1>8, <1>9
     DEF Handler, OwnRows, MarksInOrder, Creation, Change, ReadIsCurrent,
         MarksAreCurrent, WantsPending, DownloadReads
<1>11. \A g \in File : ~Holds(r, g)'
  BY <1>7, <1>8 DEF Holds
<1>12. Fits(r)
  BY <1>2, <1>4, <1>5, <1>6, <1>7, <1>8, <1>11, CalmFits
<1> QED
  BY <1>5, <1>6, <1>10, <1>12, CalmStep

LEMMA CreateStep ==
    ASSUME IndInv, NEW r \in Request, NEW d \in Doc, NEW f \in File, Create(r, d, f)
    PROVE  IndInv'
<1>1. Typed /\ Handler(r) /\ Typed /\ counted[d] \in Nat
  BY Unpacked DEF Typed
<1>2. /\ UNCHANGED <<doc, status, relation, onDisk, type, found, marks, dirty, own,
                     counted, raced>>
      /\ ~Exists(d) /\ status[f] # "none"
      /\ \A q \in Request : pc[q] \in InTransaction => on[q] # d
      /\ Arrive(r, d, "checking") /\ Wants(r, f) /\ entity' = [entity EXCEPT ![r] = Absent]
  BY DEF Create, tables
<1>3. /\ pc' \in [Request -> Steps] /\ pc'[r] = "checking" /\ on' \in [Request -> Doc]
      /\ on'[r] = d /\ \A q \in Request \ {r} : pc'[q] = pc[q] /\ on'[q] = on[q]
      /\ ~InTx(r) /\ own[r] = Nothing /\ own[r].rows = {}
  <2>1. "checking" \in Steps
    BY DEF Steps, InTransaction
  <2> QED
    BY <1>2, <2>1, Arrived
<1>4. /\ want' \in [Request -> File \cup {NoFile}] /\ want'[r] = f
      /\ \A q \in Request \ {r} : want'[q] = want[q]
      /\ contested' \subseteq File /\ contested \subseteq contested'
      /\ \A q \in Request \ {r} : InTx(q) /\ want[q] = f => f \in contested'
  BY <1>1, <1>2, Wanted
<1>5. /\ entity' \in [Request -> DocRow] /\ entity'[r] = Absent
      /\ \A q \in Request \ {r} : entity'[q] = entity[q]
  BY <1>1, <1>2, AbsentRow DEF Typed
<1>6. Typed'
  BY <1>1, <1>2, <1>3, <1>4, <1>5 DEF Typed
<1>7. Calm(r)
  BY <1>2, <1>3, <1>4, <1>5 DEF Calm, Apart
<1>8. /\ InTx(r)' /\ Creating(r)' /\ own'[r] = Nothing /\ own'[r].rows = {}
      /\ pc'[r] \notin Marking \cup Saving \cup Downloading \cup Uploading \cup {"notFound"}
  BY <1>2, <1>3
     DEF InTx, InTransaction, Creating, Exists, Marking, Saving, Downloading, Uploading
<1>9. WantsPending(r)'
  BY <1>2, <1>3, <1>4, <1>8 DEF WantsPending
<1>10. Handler(r)'
  BY <1>3, <1>4, <1>5, <1>8, <1>9
     DEF Handler, OwnRows, MarksInOrder, Creation, Change, ReadIsCurrent,
         MarksAreCurrent, DownloadReads, UploadOrder
<1>11. \A g \in File : ~Holds(r, g)'
  BY <1>5, <1>8, AbsentRow DEF Holds
<1>12. entity'[r]["downloads"] <= counted[on'[r]]
  BY <1>1, <1>3, <1>5, AbsentRow
<1>13. Fits(r)
  BY <1>2, <1>3, <1>4, <1>6, <1>7, <1>8, <1>11, <1>12, CalmFits DEF InTx
<1> QED
  BY <1>6, <1>7, <1>10, <1>13, CalmStep

\* Requests that read a document that is there.
LEMMA ReadRow ==
    ASSUME IndInv, NEW r \in Request, NEW d \in Doc, Exists(d),
           entity' = [entity EXCEPT ![r] = doc[d]]
    PROVE  /\ entity' \in [Request -> DocRow] /\ entity'[r] = doc[d]
           /\ \A q \in Request \ {r} : entity'[q] = entity[q]
           /\ doc[d]["file"] \in File /\ Ready(doc[d]["file"])
           /\ doc[d]["downloads"] <= counted[d]
           /\ d \notin raced => doc[d]["legal"] = relation[d].type
<1>1. Typed /\ CountsBounded /\ LegalStatusUnlessRaced /\ FilesAreReady
  BY Unpacked
<1>2. doc[d] \in DocRow
  BY <1>1 DEF Typed
<1>3. doc[d]["file"] \in File
  BY <1>2, DocRowFields DEF Exists
<1>4. entity' \in [Request -> DocRow] /\ entity'[r] = doc[d]
      /\ \A q \in Request \ {r} : entity'[q] = entity[q]
  BY <1>1, <1>2 DEF Typed
<1> QED
  BY <1>1, <1>3, <1>4 DEF CountsBounded, LegalStatusUnlessRaced, FilesAreReady, Ready

LEMMA UpdateStep ==
    ASSUME IndInv, NEW r \in Request, NEW d \in Doc, NEW f \in File \cup {NoFile},
           Update(r, d, f)
    PROVE  IndInv'
<1>1. Typed /\ Handler(r)
  BY Unpacked
<1>2. /\ UNCHANGED <<doc, status, relation, onDisk, type, found, marks, dirty, own,
                     counted, raced>>
      /\ Exists(d) /\ (f # NoFile => status[f] # "none")
      /\ Wants(r, f) /\ entity' = [entity EXCEPT ![r] = doc[d]]
      /\ Arrive(r, d, IF f \in {NoFile, doc[d]["file"]} THEN "comparing" ELSE "checking")
  BY DEF Update, tables
<1>3. /\ pc' \in [Request -> Steps] /\ on' \in [Request -> Doc]
      /\ pc'[r] = IF f \in {NoFile, doc[d]["file"]} THEN "comparing" ELSE "checking"
      /\ on'[r] = d /\ \A q \in Request \ {r} : pc'[q] = pc[q] /\ on'[q] = on[q]
      /\ ~InTx(r) /\ own[r] = Nothing /\ own[r].rows = {}
  <2>1. (IF f \in {NoFile, doc[d]["file"]} THEN "comparing" ELSE "checking") \in Steps
    BY DEF Steps, InTransaction
  <2> QED
    BY <1>2, <2>1, Arrived
<1>4. /\ want' \in [Request -> File \cup {NoFile}] /\ want'[r] = f
      /\ \A q \in Request \ {r} : want'[q] = want[q]
      /\ contested' \subseteq File /\ contested \subseteq contested'
      /\ f \in File =>
            \A q \in Request \ {r} : InTx(q) /\ want[q] = f => f \in contested'
  BY <1>1, <1>2, Wanted
<1>5. /\ entity' \in [Request -> DocRow] /\ entity'[r] = doc[d]
      /\ \A q \in Request \ {r} : entity'[q] = entity[q]
      /\ doc[d]["file"] \in File /\ Ready(doc[d]["file"])
      /\ doc[d]["downloads"] <= counted[d]
      /\ d \notin raced => doc[d]["legal"] = relation[d].type
  BY <1>2, ReadRow
<1>6. Typed'
  BY <1>1, <1>2, <1>3, <1>4, <1>5 DEF Typed
<1>7. Calm(r)
  BY <1>2, <1>3, <1>4, <1>5 DEF Calm, Apart
<1>8. /\ InTx(r)' /\ ~Creating(r)' /\ own'[r] = Nothing /\ own'[r].rows = {}
      /\ pc'[r] \notin Marking \cup Relating \cup Downloading \cup Uploading \cup
                       {"notFound", "inserting", "saving", "committing"}
      /\ pc'[r] \in Saving <=> f \in {NoFile, doc[d]["file"]}
      /\ pc'[r] = "checking" <=> f \notin {NoFile, doc[d]["file"]}
  BY <1>2, <1>3
     DEF InTx, InTransaction, Creating, Exists, Marking, Relating, Saving, Downloading, Uploading
<1>9. WantsPending(r)'
  BY <1>2, <1>3, <1>4, <1>5, <1>8 DEF WantsPending
<1>10. Change(r)'
  <2>1. status'[doc[d]["file"]] \in {"ACTIVE", "DELETED"}
    BY <1>2, <1>5 DEF Ready
  <2> QED
    BY <1>3, <1>4, <1>5, <1>8, <2>1 DEF Change, Sound, Ready
<1>11. ReadIsCurrent(r)'
  BY <1>2, <1>3, <1>5, <1>8 DEF ReadIsCurrent, RelationSeen
<1>12. Handler(r)'
  BY <1>2, <1>3, <1>5, <1>8, <1>9, <1>10, <1>11
     DEF Handler, OwnRows, MarksInOrder, Creation, MarksAreCurrent, DownloadReads, UploadOrder
<1>13. \A g \in File : Holds(r, g)' => Claims(on'[r], g)
  BY <1>3, <1>5, <1>8 DEF Holds, Claims
<1>14. Fits(r)
  BY <1>2, <1>3, <1>4, <1>5, <1>6, <1>7, <1>8, <1>13, CalmFits
<1> QED
  BY <1>6, <1>7, <1>12, <1>14, CalmStep

LEMMA RelateStep ==
    ASSUME IndInv, NEW r \in Request, NEW d \in Doc, NEW t \in LegalStatus, Relate(r, d, t)
    PROVE  IndInv'
<1>1. Typed /\ Handler(r)
  BY Unpacked
<1>2. /\ UNCHANGED <<doc, status, relation, onDisk, found, marks, dirty, own,
                     counted, raced, contested>>
      /\ Exists(d) /\ want' = [want EXCEPT ![r] = NoFile] /\ type' = [type EXCEPT ![r] = t]
      /\ entity' = [entity EXCEPT ![r] = doc[d]] /\ Arrive(r, d, "relating")
  BY DEF Relate, tables, history
<1>3. /\ pc' \in [Request -> Steps] /\ on' \in [Request -> Doc] /\ pc'[r] = "relating"
      /\ on'[r] = d /\ \A q \in Request \ {r} : pc'[q] = pc[q] /\ on'[q] = on[q]
      /\ ~InTx(r) /\ own[r] = Nothing /\ own[r].rows = {}
  <2>1. "relating" \in Steps
    BY DEF Steps, InTransaction
  <2> QED
    BY <1>2, <2>1, Arrived
<1>4. /\ want' \in [Request -> File \cup {NoFile}] /\ want'[r] = NoFile
      /\ type' \in [Request -> LegalStatus]
      /\ \A q \in Request \ {r} : want'[q] = want[q] /\ type'[q] = type[q]
  BY <1>1, <1>2 DEF Typed
<1>5. /\ entity' \in [Request -> DocRow] /\ entity'[r] = doc[d]
      /\ \A q \in Request \ {r} : entity'[q] = entity[q]
      /\ doc[d]["file"] \in File /\ Ready(doc[d]["file"])
      /\ doc[d]["downloads"] <= counted[d]
  BY <1>2, ReadRow
<1>6. Typed'
  BY <1>1, <1>2, <1>3, <1>4, <1>5 DEF Typed
<1>7. Calm(r)
  BY <1>2, <1>3, <1>4, <1>5 DEF Calm, Apart
<1>8. /\ InTx(r)' /\ ~Creating(r)' /\ own'[r] = Nothing /\ own'[r].rows = {}
      /\ pc'[r] \notin Marking \cup Saving \cup Downloading \cup Uploading \cup
                       {"notFound", "inserting", "saving", "committing", "checking"}
      /\ pc'[r] \in Relating /\ pc'[r] # "unlinking relation"
  BY <1>2, <1>3
     DEF InTx, InTransaction, Creating, Exists, Marking, Relating, Saving, Downloading, Uploading
<1>9. Change(r)'
  <2>1. status'[doc[d]["file"]] \in {"ACTIVE", "DELETED"}
    BY <1>2, <1>5 DEF Ready
  <2> QED
    BY <1>3, <1>5, <1>8, <2>1 DEF Change, Ready
<1>10. ReadIsCurrent(r)'
  BY <1>2, <1>3, <1>5, <1>8 DEF ReadIsCurrent
<1>11. Handler(r)'
  BY <1>2, <1>4, <1>8, <1>9, <1>10
     DEF Handler, OwnRows, MarksInOrder, Creation, MarksAreCurrent, WantsPending,
         DownloadReads, UploadOrder
<1>12. \A g \in File : Holds(r, g)' => Claims(on'[r], g)
  BY <1>3, <1>5, <1>8 DEF Holds, Claims
<1>13. Fits(r)
  BY <1>2, <1>3, <1>4, <1>5, <1>6, <1>7, <1>8, <1>12, CalmFits
<1> QED
  BY <1>6, <1>7, <1>11, <1>13, CalmStep

LEMMA DownloadStep ==
    ASSUME IndInv, NEW r \in Request, NEW d \in Doc, Download(r, d)
    PROVE  IndInv'
<1>1. Typed /\ Handler(r)
  BY Unpacked
<1>2. /\ UNCHANGED <<doc, status, relation, onDisk, want, type, found, marks, dirty, own,
                     counted, raced, contested>>
      /\ Exists(d) /\ entity' = [entity EXCEPT ![r] = doc[d]] /\ Arrive(r, d, "streaming")
  BY DEF Download, tables, history
<1>3. /\ pc' \in [Request -> Steps] /\ on' \in [Request -> Doc] /\ pc'[r] = "streaming"
      /\ on'[r] = d /\ \A q \in Request \ {r} : pc'[q] = pc[q] /\ on'[q] = on[q]
      /\ ~InTx(r) /\ own[r] = Nothing /\ own[r].rows = {}
  <2>1. "streaming" \in Steps
    BY DEF Steps, Downloading
  <2> QED
    BY <1>2, <2>1, Arrived
<1>4. /\ entity' \in [Request -> DocRow] /\ entity'[r] = doc[d]
      /\ \A q \in Request \ {r} : entity'[q] = entity[q]
      /\ doc[d]["file"] \in File /\ Ready(doc[d]["file"])
  BY <1>2, ReadRow
<1>5. Typed'
  BY <1>1, <1>2, <1>3, <1>4 DEF Typed
<1>6. Calm(r)
  BY <1>2, <1>3, <1>4 DEF Calm, Apart
<1>7. /\ ~InTx(r)' /\ own'[r] = Nothing /\ own'[r].rows = {}
      /\ pc'[r] \notin Marking \cup Saving \cup Uploading \cup InTransaction \cup {"notFound"}
  BY <1>2, <1>3 DEF InTx, InTransaction, Marking, Saving, Uploading
<1>8. DownloadReads(r)'
  <2>1. status'[doc[d]["file"]] \in {"ACTIVE", "DELETED"}
    BY <1>2, <1>4 DEF Ready
  <2> QED
    BY <1>2, <1>3, <1>4, <2>1 DEF DownloadReads, Exists, Ready
<1>9. Handler(r)'
  BY <1>7, <1>8
     DEF Handler, OwnRows, MarksInOrder, Creation, Change, ReadIsCurrent, MarksAreCurrent,
         WantsPending, UploadOrder
<1>10. \A g \in File : Holds(r, g)' => Claims(on'[r], g)
  BY <1>3, <1>4, <1>7 DEF Holds, Claims
<1>11. Fits(r)
  BY <1>5, <1>6, <1>7, <1>10, CalmFits
<1> QED
  BY <1>5, <1>6, <1>9, <1>11, CalmStep

-----------------------------------------------------------------------------
(* Uploads, which change stored files and the disk. *)

\* A step of an upload, or its end.
UploadGoes(r) ==
    /\ UNCHANGED <<doc, relation, on, want, type, entity, found, marks, dirty, own,
                   counted, raced, contested>>
    /\ pc[r] \in Uploading /\ pc'[r] \in Uploading \cup {"done", "failed"}
    /\ pc' \in [Request -> Steps] /\ \A q \in Request \ {r} : pc'[q] = pc[q]

LEMMA UploadGoesStep ==
    ASSUME IndInv, NEW r \in Request, UploadGoes(r), Typed', UploadOrder(r)', Tables',
           \A q \in Request \ {r} : Undisturbed(q)
    PROVE  IndInv'
<1>1. Typed /\ Together /\ (\A q \in Request : Handler(q)) /\ CountsBounded
  BY Unpacked DEF Together
<1>2. ~InTx(r) /\ own[r] = Nothing /\ own[r].rows = {} /\ own'[r] = own[r]
  BY <1>1, EndedIsOutside, OutsideFacts DEF UploadGoes
<1>3. /\ ~InTx(r)' /\ pc'[r] # "notFound"
      /\ pc'[r] \notin Marking \cup Saving \cup Downloading \cup InTransaction
  BY DEF UploadGoes, Uploading, InTx, InTransaction, Marking, Saving, Downloading
<1>4. Handler(r)'
  BY <1>2, <1>3
     DEF Handler, OwnRows, MarksInOrder, Creation, Change, ReadIsCurrent, MarksAreCurrent,
         WantsPending, DownloadReads
<1>5. Apart(r)
  BY DEF UploadGoes, Apart
<1>6. \A q \in Request \ {r} : Handler(q)'
  BY <1>1, <1>5, UndisturbedHandler
<1>7. \A f \in File : ~Holds(r, f)'
  BY <1>2, <1>3 DEF Holds
<1>8. \A d \in Doc : doc'[d]["downloads"] <= counted'[d] /\ counted[d] <= counted'[d]
  <2>1. \A d \in Doc : counted[d] \in Nat
    BY <1>1 DEF Typed
  <2> QED
    BY <1>1, <2>1 DEF CountsBounded, UploadGoes
<1>9. \A q \in Request \ {r} : InTx(q) => (Creating(q)' <=> Creating(q))
  BY DEF UploadGoes, Creating, Exists
<1>10. \A d \in Doc, f \in File \ contested' : doc'[d]["file"] = f => Claims(d, f)
  BY DEF UploadGoes, Claims
<1>11. Fits(r)
  BY <1>2, <1>3, <1>5, <1>7, <1>8, <1>9, <1>10 DEF Fits, UploadGoes
<1>12. Together'
  BY <1>1, <1>11, TogetherStep
<1> QED
  BY <1>4, <1>6, <1>12, Packed

LEMMA WriteDiskStep ==
    ASSUME IndInv, NEW r \in Request, WriteDisk(r)
    PROVE  IndInv'
<1>1. Typed /\ Handler(r) /\ Tables
  BY Unpacked DEF Tables
<1>2. /\ UNCHANGED <<doc, status, relation, on, want, type, entity, found, marks, dirty,
                     own, counted, raced, contested>>
      /\ pc[r] = "writing disk" /\ onDisk' = onDisk \cup {want[r]} /\ GoTo(r, "registering")
  BY DEF WriteDisk, locals, history
<1>3. /\ pc' \in [Request -> Steps] /\ pc'[r] = "registering"
      /\ \A q \in Request \ {r} : pc'[q] = pc[q]
  BY <1>1, <1>2, Went DEF Steps, Uploading
<1>4. want[r] \in File /\ status[want[r]] = "none"
  BY <1>1, <1>2 DEF Handler, UploadOrder, Uploading
<1>5. Typed'
  BY <1>1, <1>2, <1>3, <1>4 DEF Typed
<1>6. UploadGoes(r)
  BY <1>2, <1>3 DEF UploadGoes, Uploading
<1>7. UploadOrder(r)'
  BY <1>2, <1>3, <1>4 DEF UploadOrder
<1>8. ASSUME NEW q \in Request \ {r}
      PROVE  Undisturbed(q)
  BY <1>2 DEF Undisturbed, Ready, Creating, Exists
<1>9. Tables'
  BY <1>1, <1>2, TablesStep
<1> QED
  BY <1>5, <1>6, <1>7, <1>8, <1>9, UploadGoesStep

\* The row of a new file, pending, and no other.
LEMMA RegisterFileStep ==
    ASSUME IndInv, NEW r \in Request, RegisterFile(r)
    PROVE  IndInv'
<1>1. Typed /\ Handler(r) /\ Tables /\ UploadsApart
  BY Unpacked DEF Tables
<1>2. /\ UNCHANGED <<doc, relation, onDisk, on, want, type, entity, found, marks, dirty,
                     own, counted, raced, contested>>
      /\ pc[r] = "registering"
      /\ \/ status' = [status EXCEPT ![want[r]] = "PENDING"] /\ GoTo(r, "done")
         \/ status' = status /\ GoTo(r, "unlinking")
  BY DEF RegisterFile, locals, history
<1>3. want[r] \in File /\ status[want[r]] = "none" /\ want[r] \in onDisk
  BY <1>1, <1>2 DEF Handler, UploadOrder, Uploading
<1>4. /\ pc' \in [Request -> Steps] /\ pc'[r] \in {"done", "unlinking"}
      /\ pc'[r] = "unlinking" => status' = status
      /\ \A q \in Request \ {r} : pc'[q] = pc[q]
  <2>1. "done" \in Steps /\ "unlinking" \in Steps
    BY DEF Steps, Uploading, Ended
  <2>2. CASE GoTo(r, "done")
    BY <1>1, <2>1, <2>2, Went
  <2>3. CASE status' = status /\ GoTo(r, "unlinking")
    BY <1>1, <2>1, <2>3, Went
  <2> QED
    BY <1>2, <2>2, <2>3
<1>5. /\ status' \in [File -> FileStatus]
      /\ status'[want[r]] \in {"none", "PENDING"}
      /\ \A f \in File \ {want[r]} : status'[f] = status[f]
  BY <1>1, <1>2, <1>3 DEF Typed, FileStatus
<1>6. Typed'
  BY <1>1, <1>2, <1>4, <1>5 DEF Typed
<1>7. UploadGoes(r)
  BY <1>2, <1>4 DEF UploadGoes, Uploading
<1>8. UploadOrder(r)'
  BY <1>2, <1>3, <1>4 DEF UploadOrder, Uploading
<1>9. ASSUME NEW q \in Request \ {r}
      PROVE  Undisturbed(q)
  <2>1. \A f \in File : (Ready(f) => Ready(f)') /\ (status[f] # "none" => status'[f] # "none")
    BY <1>3, <1>5 DEF Ready
  <2>2. pc[q] \in Uploading => want[q] # want[r]
    BY <1>1, <1>2 DEF UploadsApart, Uploading
  <2>3. pc[q] \in Uploading => want[q] \in File
    BY Unpacked DEF Handler, UploadOrder
  <2> QED
    BY <1>2, <1>3, <1>5, <2>1, <2>2, <2>3 DEF Undisturbed, Creating, Exists
<1>10. Tables'
  <2>1. \A d \in Doc : Exists(d) => doc[d]["file"] # want[r] /\ doc[d]["file"] \in File
    <3>1. \A d \in Doc : doc[d]["file"] \in File \cup {NoFile}
      BY <1>1, DocRowFields DEF Typed
    <3> QED
      BY <1>1, <1>3, <3>1 DEF Tables, FilesAreReady, Exists
  <2>2. AbsentRows' /\ LegalStatusUnlessRaced' /\ DownloadsUnlessRaced'
    BY <1>1, <1>2
       DEF Tables, AbsentRows, Exists, LegalStatusUnlessRaced, DownloadsUnlessRaced
  <2>3. FilesAreReady'
    BY <1>1, <1>2, <1>3, <1>5, <2>1 DEF Tables, FilesAreReady, Exists
  <2>4. OwnFileUnlessRaced'
    BY <1>1, <1>2, <1>5, <2>1 DEF Tables, OwnFileUnlessRaced, Exists
  <2> QED
    BY <2>2, <2>3, <2>4 DEF Tables
<1> QED
  BY <1>6, <1>7, <1>8, <1>9, <1>10, UploadGoesStep

LEMMA UnlinkStep ==
    ASSUME IndInv, NEW r \in Request, Unlink(r)
    PROVE  IndInv'
<1>1. Typed /\ Handler(r) /\ Tables /\ UploadsApart
  BY Unpacked DEF Tables
<1>2. /\ UNCHANGED <<doc, status, relation, on, want, type, entity, found, marks, dirty,
                     own, counted, raced, contested>>
      /\ pc[r] = "unlinking" /\ onDisk' = onDisk \ {want[r]} /\ GoTo(r, "failed")
  BY DEF Unlink, locals, history
<1>3. want[r] \in File /\ status[want[r]] = "none"
  BY <1>1, <1>2 DEF Handler, UploadOrder, Uploading
<1>4. /\ pc' \in [Request -> Steps] /\ pc'[r] = "failed"
      /\ \A q \in Request \ {r} : pc'[q] = pc[q]
  BY <1>1, <1>2, Went DEF Steps, Ended
<1>5. Typed'
  BY <1>1, <1>2, <1>4 DEF Typed
<1>6. UploadGoes(r)
  BY <1>2, <1>4 DEF UploadGoes, Uploading
<1>7. UploadOrder(r)'
  BY <1>4 DEF UploadOrder, Uploading
<1>8. ASSUME NEW q \in Request \ {r}
      PROVE  Undisturbed(q)
  <2>1. pc[q] \in Uploading => want[q] # want[r]
    BY <1>1, <1>2 DEF UploadsApart, Uploading
  <2> QED
    BY <1>2, <2>1 DEF Undisturbed, Ready, Creating, Exists
<1>9. Tables'
  <2>1. AbsentRows' /\ LegalStatusUnlessRaced' /\ DownloadsUnlessRaced'
    BY <1>1, <1>2
       DEF Tables, AbsentRows, Exists, LegalStatusUnlessRaced, DownloadsUnlessRaced
  <2>2. FilesAreReady'
    BY <1>1, <1>2, <1>3 DEF Tables, FilesAreReady, Exists
  <2>3. OwnFileUnlessRaced'
    BY <1>1, <1>2 DEF Tables, OwnFileUnlessRaced, Exists
  <2> QED
    BY <2>1, <2>2, <2>3 DEF Tables
<1> QED
  BY <1>5, <1>6, <1>7, <1>8, <1>9, UploadGoesStep

-----------------------------------------------------------------------------
(* The count of a download and COMMIT, which change documents. *)

LEMMA RaceGrows ==
    ASSUME Typed, NEW r \in Request, NEW d \in Doc, NEW overtaken, Race(r, d, overtaken)
    PROVE  /\ raced \subseteq raced' /\ raced' \subseteq Doc
           /\ \A e \in Doc \ {d} : e \in raced' => e \in raced
           /\ \A q \in Request \ {r} : on[q] = d /\ pc[q] \in overtaken => d \in raced'
  BY DEF Race, Typed

LEMMA CountDownloadStep ==
    ASSUME IndInv, NEW r \in Request, CountDownload(r)
    PROVE  IndInv'
<1> DEFINE d == on[r]
<1>1. /\ Typed /\ Handler(r) /\ Tables /\ Together /\ \A q \in Request : Handler(q)
      /\ CountsBounded /\ d \in Doc
  BY Unpacked, OfType DEF Tables, Together
<1>2. /\ UNCHANGED <<status, relation, onDisk, on, want, type, entity, found, marks, dirty,
                     own, contested>>
      /\ pc[r] = "counting" /\ counted[on[r]] < MaxDownloads
      /\ doc' = [doc EXCEPT ![on[r]]["downloads"] = @ + 1]
      /\ counted' = [counted EXCEPT ![on[r]] = @ + 1]
      /\ GoTo(r, "served") /\ Race(r, on[r], InTransaction)
  BY DEF CountDownload, locals
<1>3. Exists(d) /\ ~InTx(r)
  BY <1>1, <1>2, EndedIsOutside DEF Handler, DownloadReads, Downloading
<1>4. /\ pc' \in [Request -> Steps] /\ pc'[r] = "served"
      /\ \A q \in Request \ {r} : pc'[q] = pc[q]
  BY <1>1, <1>2, Went DEF Steps, Ended
<1>5. /\ raced \subseteq raced' /\ raced' \subseteq Doc
      /\ \A e \in Doc \ {d} : e \in raced' => e \in raced
      /\ \A q \in Request \ {r} : on[q] = d /\ pc[q] \in InTransaction => d \in raced'
  BY <1>1, <1>2, RaceGrows
<1>6. /\ counted[d] \in Nat /\ counted[d] + 1 \in 0..MaxDownloads
      /\ doc[d]["downloads"] \in Nat /\ doc[d]["downloads"] + 1 \in 0..MaxDownloads
      /\ doc[d] \in DocRow
  <2>1. /\ counted[d] \in 0..MaxDownloads /\ doc[d] \in DocRow
        /\ doc[d]["downloads"] <= counted[d]
    BY <1>1 DEF Typed, CountsBounded
  <2>2. doc[d]["downloads"] \in 0..MaxDownloads
    BY <2>1, DocRowFields
  <2> QED
    BY <1>2, <2>1, <2>2
<1>7. /\ doc' \in [Doc -> DocRow]
      /\ doc'[d]["file"] = doc[d]["file"] /\ doc'[d]["legal"] = doc[d]["legal"]
      /\ doc'[d]["downloads"] = doc[d]["downloads"] + 1
      /\ \A e \in Doc \ {d} : doc'[e] = doc[e]
  <2> DEFINE row == [doc[d] EXCEPT !["downloads"] = doc[d]["downloads"] + 1]
  <2>1. row \in DocRow /\ row = Row(doc[d]["file"], doc[d]["legal"], doc[d]["downloads"] + 1)
    BY <1>6, ChangedRow
  <2>2. doc' = [doc EXCEPT ![d] = row]
    BY <1>1, <1>2
  <2> HIDE DEF row
  <2>3. row = Row(doc[d]["file"], doc[d]["legal"], doc[d]["downloads"] + 1)
    BY <2>1
  <2>4. row["file"] = doc[d]["file"] /\ row["legal"] = doc[d]["legal"]
        /\ row["downloads"] = doc[d]["downloads"] + 1
    BY <2>3, RowFields
  <2> QED
    BY <1>1, <2>1, <2>2, <2>4 DEF Typed
<1>8. /\ counted' \in [Doc -> 0..MaxDownloads] /\ counted'[d] = counted[d] + 1
      /\ \A e \in Doc \ {d} : counted'[e] = counted[e]
  BY <1>1, <1>2, <1>6 DEF Typed
<1> HIDE DEF d
<1>9. Typed'
  BY <1>1, <1>2, <1>4, <1>5, <1>7, <1>8 DEF Typed
<1>10. \A e \in Doc : doc'[e]["file"] = doc[e]["file"] /\ (Exists(e)' <=> Exists(e))
  BY <1>7 DEF Exists
<1>11. \A e \in Doc : counted[e] \in Nat /\ counted'[e] \in Nat
                      /\ counted[e] <= counted'[e] /\ doc'[e]["downloads"] <= counted'[e]
  <2>1. \A e \in Doc : counted[e] \in Nat /\ doc[e]["downloads"] \in Nat
                       /\ doc[e]["downloads"] <= counted[e]
    <3>1. \A e \in Doc : doc[e] \in DocRow /\ counted[e] \in 0..MaxDownloads
      BY <1>1 DEF Typed
    <3> QED
      BY <1>1, <3>1, DocRowFields DEF CountsBounded
  <2> QED
    BY <1>1, <1>6, <1>7, <1>8, <2>1
<1>12. Apart(r)
  BY <1>2, <1>4 DEF Apart
<1>13. own'[r] = Nothing /\ own'[r].rows = {}
  BY <1>1, <1>2, <1>3, OutsideFacts
<1>14. pc'[r] \in Ended /\ ~InTx(r)' /\ pc'[r] # "notFound"
       /\ pc'[r] \notin Marking \cup Saving \cup Downloading \cup Uploading \cup InTransaction
  BY <1>4 DEF Ended, InTx, InTransaction, Marking, Saving, Downloading, Uploading
<1>15. Handler(r)'
  BY <1>13, <1>14, RestingHandler
<1>16. ASSUME NEW q \in Request \ {r}
       PROVE  Undisturbed(q) /\ (Creating(q)' <=> Creating(q))
  <2>1. on[q] \in Doc /\ on'[q] = on[q]
    BY <1>1, <1>2, OfType
  <2>2. InTx(q) /\ on[q] \notin raced' => doc'[on[q]] = doc[on[q]]
    BY <1>5, <1>7, <2>1 DEF InTx
  <2> QED
    BY <1>2, <1>5, <1>10, <2>1, <2>2 DEF Undisturbed, Ready, Creating, Exists
<1>17. \A q \in Request \ {r} : Handler(q)'
  BY <1>1, <1>12, <1>16, UndisturbedHandler
<1>18. Fits(r)
  <2>1. \A f \in File : ~Holds(r, f)'
    BY <1>13, <1>14 DEF Holds
  <2>2. \A e \in Doc, f \in File \ contested' : doc'[e]["file"] = f => Claims(e, f)
    BY <1>10 DEF Claims
  <2> QED
    BY <1>2, <1>5, <1>11, <1>12, <1>13, <1>14, <1>16, <2>1, <2>2 DEF Fits
<1>19. Together'
  BY <1>1, <1>9, <1>18, TogetherStep
<1>20. Tables'
  <2>1. AbsentRows'
    BY <1>1, <1>2, <1>3, <1>7, <1>8, <1>10 DEF Tables, AbsentRows
  <2>2. FilesAreReady'
    BY <1>1, <1>2, <1>10 DEF Tables, FilesAreReady
  <2>3. OwnFileUnlessRaced'
    BY <1>1, <1>2, <1>5, <1>10 DEF Tables, OwnFileUnlessRaced
  <2>4. LegalStatusUnlessRaced'
    BY <1>1, <1>2, <1>5, <1>7 DEF Tables, LegalStatusUnlessRaced
  <2>5. DownloadsUnlessRaced'
    BY <1>1, <1>5, <1>7, <1>8 DEF Tables, DownloadsUnlessRaced
  <2> QED
    BY <2>1, <2>2, <2>3, <2>4, <2>5 DEF Tables
<1> QED
  BY <1>9, <1>15, <1>17, <1>19, <1>20, Packed

\* What the tables are after r has committed, and what has not changed.
LEMMA CommitEffect ==
    ASSUME IndInv, NEW r \in Request, Commit(r)
    PROVE  /\ Typed' /\ Apart(r) /\ pc[r] = "committing" /\ InTx(r) /\ pc'[r] = "done"
           /\ own'[r] = Nothing /\ own'[r].rows = {}
           /\ UNCHANGED <<onDisk, on, want, type, entity, found, marks, dirty, counted,
                          contested>>
           /\ doc'[on[r]] = DocSeen(r) /\ relation'[on[r]] = RelationSeen(r)
           /\ \A d \in Doc \ {on[r]} : doc'[d] = doc[d] /\ relation'[d] = relation[d]
           /\ \A f \in File : status'[f] = StatusSeen(r, f)
           /\ raced \subseteq raced' /\ \A d \in Doc \ {on[r]} : d \in raced' => d \in raced
           /\ \A q \in Request \ {r} :
                 /\ on[q] = on[r] /\ pc[q] \in InTransaction \cup Downloading
                 /\ "doc" \in own[r].rows \/ "relation" \in own[r].rows
                 => on[r] \in raced'
<1>1. Typed /\ on[r] \in Doc
  BY Unpacked, OfType
<1>2. /\ UNCHANGED <<onDisk, on, want, type, entity, found, marks, dirty, counted, contested>>
      /\ pc[r] = "committing" /\ doc' = [doc EXCEPT ![on[r]] = DocSeen(r)]
      /\ relation' = [relation EXCEPT ![on[r]] = RelationSeen(r)]
      /\ status' = [f \in File |-> StatusSeen(r, f)]
      /\ own' = [own EXCEPT ![r] = Nothing] /\ GoTo(r, "done")
      /\ IF {"doc", "relation"} \cap own[r].rows # {}
         THEN Race(r, on[r], InTransaction \cup Downloading)
         ELSE raced' = raced
  BY DEF Commit, locals
<1>3. /\ DocSeen(r) \in DocRow /\ RelationSeen(r) \in Relation
      /\ \A f \in File : StatusSeen(r, f) \in FileStatus
  BY <1>1, SeenTypes
<1>4. /\ doc' \in [Doc -> DocRow] /\ relation' \in [Doc -> Relation]
      /\ doc'[on[r]] = DocSeen(r) /\ relation'[on[r]] = RelationSeen(r)
      /\ \A d \in Doc \ {on[r]} : doc'[d] = doc[d] /\ relation'[d] = relation[d]
  BY <1>1, <1>2, <1>3 DEF Typed
<1>5. status' \in [File -> FileStatus] /\ \A f \in File : status'[f] = StatusSeen(r, f)
  BY <1>2, <1>3
<1>6. /\ own' \in [Request -> Writes] /\ own'[r] = Nothing /\ own'[r].rows = {}
      /\ \A q \in Request \ {r} : own'[q] = own[q]
  BY <1>1, <1>2, NothingWritten DEF Typed
<1>7. /\ pc' \in [Request -> Steps] /\ pc'[r] = "done"
      /\ \A q \in Request \ {r} : pc'[q] = pc[q]
  BY <1>1, <1>2, Went DEF Steps, Ended
<1>8. /\ raced \subseteq raced' /\ raced' \subseteq Doc
      /\ \A d \in Doc \ {on[r]} : d \in raced' => d \in raced
      /\ \A q \in Request \ {r} :
            /\ on[q] = on[r] /\ pc[q] \in InTransaction \cup Downloading
            /\ "doc" \in own[r].rows \/ "relation" \in own[r].rows
            => on[r] \in raced'
  <2>1. CASE Race(r, on[r], InTransaction \cup Downloading)
    BY <1>1, <2>1, RaceGrows
  <2>2. CASE {"doc", "relation"} \cap own[r].rows = {} /\ raced' = raced
    BY <1>1, <2>2 DEF Typed
  <2> QED
    BY <1>2, <2>1, <2>2
<1>9. Typed'
  BY <1>1, <1>2, <1>4, <1>5, <1>6, <1>7, <1>8 DEF Typed
<1>10. Apart(r) /\ InTx(r)
  BY <1>2, <1>6, <1>7 DEF Apart, InTx, InTransaction
<1> QED
  BY <1>2, <1>4, <1>5, <1>6, <1>7, <1>8, <1>9, <1>10

\* A file that r has marked is the one it wanted, active now, or one that was ready
\* and is deleted.
LEMMA CommitStatus ==
    ASSUME IndInv, NEW r \in Request, Commit(r), NEW f \in File
    PROVE  /\ f \notin own[r].rows => status'[f] = status[f]
           /\ f \in own[r].rows /\ f = want[r] =>
                 status'[f] = "ACTIVE" /\ status[f] # "none"
           /\ f \in own[r].rows /\ f # want[r] => status'[f] = "DELETED" /\ Ready(f)
           /\ Ready(f) => Ready(f)'
           /\ f \in own[r].rows => Ready(f)'
           /\ status[f] = "none" => status'[f] = "none"
           /\ status[f] # "none" => status'[f] # "none"
<1>1. Handler(r) /\ InTx(r) /\ status'[f] = StatusSeen(r, f)
  BY Unpacked, CommitEffect
<1>2. status'[f] = IF f \in own[r].rows THEN own[r].status[f] ELSE status[f]
  BY <1>1 DEF StatusSeen
<1>3. /\ f \in own[r].rows /\ f = want[r] => own[r].status[f] = "ACTIVE" /\ status[f] # "none"
      /\ f \in own[r].rows /\ f # want[r] => own[r].status[f] = "DELETED" /\ Ready(f)
  BY <1>1 DEF Handler, OwnRows, WantsPending
<1> QED
  BY <1>2, <1>3 DEF Ready

\* What a committed document is.
LEMMA CommitDocument ==
    ASSUME IndInv, NEW r \in Request, Commit(r)
    PROVE  /\ doc'[on[r]]["file"] \in File /\ Exists(on[r])'
           /\ doc'[on[r]]["downloads"] <= counted[on[r]]
           /\ Claims(on[r], doc'[on[r]]["file"])
           /\ status'[doc'[on[r]]["file"]] \in {"ACTIVE", "DELETED"}
           /\ Creating(r) =>
                 /\ doc'[on[r]] = Row(want[r], "VALID", 0) /\ entity[r]["file"] = want[r]
                 /\ "doc" \in own[r].rows /\ "relation" \notin own[r].rows
           /\ ~Creating(r) /\ on[r] \notin raced => doc'[on[r]] = entity[r]
<1>1. /\ Typed /\ Handler(r) /\ CountsBounded /\ FilesAreReady /\ on[r] \in Doc
  BY Unpacked, OfType
<1>2. /\ pc[r] = "committing" /\ InTx(r) /\ doc'[on[r]] = DocSeen(r)
      /\ on' = on /\ pc[r] \in Saving
  BY CommitEffect DEF Saving
<1>3. \A f \in File : /\ f \in own[r].rows => status'[f] \in {"ACTIVE", "DELETED"}
                      /\ Ready(f) => status'[f] \in {"ACTIVE", "DELETED"}
  BY CommitStatus DEF Ready
<1>4. \A f \in File : Sound(r, f) => status'[f] \in {"ACTIVE", "DELETED"}
  BY <1>3 DEF Sound
<1>5. DocSeen(r) = IF "doc" \in own[r].rows THEN own[r].doc ELSE doc[on[r]]
  BY DEF DocSeen
<1>6. CASE Creating(r)
  <2>1. /\ want[r] \in File /\ entity[r] = Row(want[r], "VALID", 0)
        /\ "doc" \in own[r].rows /\ own[r].doc = entity[r] /\ Sound(r, want[r])
    BY <1>1, <1>2, <1>6 DEF Handler, Creation
  <2>2. "relation" \notin own[r].rows
    BY <1>1, <1>6 DEF Handler, OwnRows
  <2>3. doc'[on[r]] = Row(want[r], "VALID", 0)
    BY <1>2, <1>5, <2>1
  <2>4. doc'[on[r]]["file"] = want[r] /\ entity[r]["file"] = want[r]
    BY <2>1, <2>3, RowFields
  <2>5. Claims(on[r], want[r])
    BY <1>2, <2>4 DEF Claims, Holds, InTx
  <2>6. doc'[on[r]]["downloads"] <= counted[on[r]]
    BY <1>1, <1>2, <1>5, <2>1 DEF CountsBounded
  <2>7. Exists(on[r])'
    BY <1>2, <2>1, <2>4 DEF Exists
  <2>8. status'[want[r]] \in {"ACTIVE", "DELETED"}
    BY <1>4, <2>1
  <2> QED
    BY <1>6, <2>1, <2>2, <2>3, <2>4, <2>5, <2>6, <2>7, <2>8
<1>7. CASE ~Creating(r)
  <2>1. doc[on[r]] \in DocRow
    BY <1>1 DEF Typed
  <2>2. doc[on[r]]["file"] \in File /\ Ready(doc[on[r]]["file"])
    BY <1>1, <1>7, <2>1, DocRowFields DEF Creating, Exists, FilesAreReady, Ready
  <2>3. "doc" \in own[r].rows =>
           own[r].doc["file"] \in File /\ Sound(r, own[r].doc["file"])
    BY <1>1, <1>2, <1>7 DEF Handler, Change
  <2>4. doc'[on[r]]["file"] \in File
    BY <1>2, <1>5, <2>2, <2>3
  <2>5. status'[doc'[on[r]]["file"]] \in {"ACTIVE", "DELETED"}
    <3>1. CASE "doc" \in own[r].rows
      BY <1>2, <1>4, <1>5, <2>3, <3>1
    <3>2. CASE "doc" \notin own[r].rows
      BY <1>2, <1>3, <1>5, <2>2, <3>2
    <3> QED
      BY <3>1, <3>2
  <2>6. doc'[on[r]]["downloads"] <= counted[on[r]]
    BY <1>1, <1>2, <1>5 DEF CountsBounded
  <2>7. Claims(on[r], doc'[on[r]]["file"])
    BY <1>2, <1>5 DEF Claims, Holds
  <2>8. Exists(on[r])'
    BY <1>2, <2>4 DEF Exists
  <2>9. on[r] \notin raced => doc'[on[r]] = entity[r]
    BY <1>1, <1>2, <1>7 DEF Handler, ReadIsCurrent
  <2> QED
    BY <1>7, <2>4, <2>5, <2>6, <2>7, <2>8, <2>9
<1> QED
  BY <1>6, <1>7

\* COMMIT races every other handler of the document.
LEMMA CommitUndisturbed ==
    ASSUME IndInv, NEW r \in Request, Commit(r), NEW q \in Request \ {r}
    PROVE  Undisturbed(q) /\ (InTx(q) => (Creating(q)' <=> Creating(q)))
<1>1. /\ Typed /\ Handler(r) /\ Handler(q) /\ CreatesAlone /\ SharedIsContested
      /\ on[q] \in Doc /\ on[r] \in Doc
  BY Unpacked, OfType
<1>2. /\ pc[r] = "committing" /\ InTx(r)
      /\ UNCHANGED <<onDisk, on, want, counted, contested>>
      /\ doc'[on[r]] = DocSeen(r) /\ relation'[on[r]] = RelationSeen(r)
      /\ \A d \in Doc \ {on[r]} : doc'[d] = doc[d] /\ relation'[d] = relation[d]
      /\ raced \subseteq raced'
      /\ on[q] = on[r] /\ pc[q] \in InTransaction \cup Downloading =>
            \/ "doc" \notin own[r].rows /\ "relation" \notin own[r].rows
            \/ on[r] \in raced'
  BY CommitEffect
<1>3. \A f \in File : (Ready(f) => Ready(f)') /\ (status[f] # "none" => status'[f] # "none")
  BY CommitStatus
<1>4. Exists(on[r])'
  BY CommitDocument
<1>5. InTx(q) => (Creating(q)' <=> Creating(q))
  <2>1. CASE on[q] # on[r]
    BY <1>1, <1>2, <2>1 DEF Creating, Exists
  <2>2. CASE on[q] = on[r]
    <3>1. InTx(q) => ~Creating(r)
      BY <1>1, <1>2, <2>2 DEF CreatesAlone
    <3> QED
      BY <1>2, <1>4, <2>2, <3>1 DEF Creating, Exists
  <2> QED
    BY <2>1, <2>2
<1>6. Exists(on[q]) => Exists(on[q])'
  BY <1>1, <1>2, <1>4 DEF Exists
<1>7. pc[q] \in InTransaction \cup Downloading /\ on[q] \notin raced' =>
         doc'[on[q]] = doc[on[q]] /\ relation'[on[q]] = relation[on[q]]
  <2>1. CASE on[q] # on[r]
    BY <1>1, <1>2, <2>1
  <2>2. CASE on[q] = on[r]
    BY <1>2, <2>2 DEF DocSeen, RelationSeen
  <2> QED
    BY <2>1, <2>2
<1>8. InTx(q) /\ want[q] \in File \ contested' /\ status[want[q]] = "PENDING" =>
         status'[want[q]] = "PENDING"
  <2>1. SUFFICES ASSUME InTx(q), want[q] \in File \ contested', status[want[q]] = "PENDING"
                 PROVE  status'[want[q]] = "PENDING"
    OBVIOUS
  <2>2. want[q] # want[r]
    BY <1>1, <1>2, <2>1 DEF SharedIsContested
  <2>3. want[q] \notin own[r].rows
    BY <2>1, <2>2, CommitStatus DEF Ready
  <2> QED
    BY <2>1, <2>3, CommitStatus
<1>9. pc[q] \in Uploading => (status[want[q]] = "none" => status'[want[q]] = "none")
  BY <1>1, CommitStatus DEF Handler, UploadOrder
<1> QED
  BY <1>2, <1>3, <1>5, <1>6, <1>7, <1>8, <1>9 DEF Undisturbed, InTx

LEMMA CommitTables ==
    ASSUME IndInv, NEW r \in Request, Commit(r)
    PROVE  Tables'
<1>1. /\ Typed /\ Handler(r) /\ Tables /\ OneClaimant /\ on[r] \in Doc
  BY Unpacked, OfType DEF Tables
<1>2. /\ pc[r] = "committing" /\ InTx(r) /\ Typed'
      /\ UNCHANGED <<onDisk, on, want, entity, counted, contested>>
      /\ relation'[on[r]] = RelationSeen(r)
      /\ \A d \in Doc \ {on[r]} : doc'[d] = doc[d] /\ relation'[d] = relation[d]
      /\ raced \subseteq raced'
  BY CommitEffect
<1>3. /\ doc'[on[r]]["file"] \in File /\ Exists(on[r])'
      /\ Claims(on[r], doc'[on[r]]["file"])
      /\ status'[doc'[on[r]]["file"]] \in {"ACTIVE", "DELETED"}
      /\ Creating(r) =>
            /\ doc'[on[r]] = Row(want[r], "VALID", 0) /\ entity[r]["file"] = want[r]
            /\ "doc" \in own[r].rows /\ "relation" \notin own[r].rows
      /\ ~Creating(r) /\ on[r] \notin raced => doc'[on[r]] = entity[r]
  BY CommitDocument
<1>4. pc[r] \in Saving /\ pc[r] \notin Marking
  BY <1>2 DEF Saving, Marking
<1>5. \A d \in Doc \ {on[r]} : Exists(d)' <=> Exists(d)
  BY <1>2 DEF Exists
<1>6. \A d \in Doc : doc[d]["file"] \in File \cup {NoFile}
  BY <1>1, DocRowFields DEF Typed
<1>7. Creating(r) =>
         /\ doc'[on[r]]["file"] = want[r] /\ doc'[on[r]]["legal"] = "VALID"
         /\ doc'[on[r]]["downloads"] = 0 /\ relation[on[r]] = NoRelation
         /\ counted[on[r]] = 0
  BY <1>1, <1>3, RowFields DEF Tables, AbsentRows, Creating
<1>a. AbsentRows'
  BY <1>1, <1>2, <1>3, <1>5 DEF Tables, AbsentRows
<1>b. FilesAreReady'
  <2>1. ASSUME NEW d \in Doc, Exists(d)'
        PROVE  status'[doc'[d]["file"]] \in {"ACTIVE", "DELETED"}
    <3>1. CASE d = on[r]
      BY <1>3, <3>1
    <3>2. CASE d # on[r]
      <4>1. doc'[d] = doc[d] /\ doc[d]["file"] \in File /\ Ready(doc[d]["file"])
        BY <1>1, <1>2, <1>5, <1>6, <2>1, <3>2 DEF Tables, FilesAreReady, Exists, Ready
      <4> QED
        BY <4>1, CommitStatus DEF Ready
    <3> QED
      BY <3>1, <3>2
  <2>2. ASSUME NEW f \in File, status'[f] # "none"
        PROVE  f \in onDisk'
    BY <1>1, <1>2, <2>2, CommitStatus DEF Tables, FilesAreReady
  <2> QED
    BY <2>1, <2>2 DEF FilesAreReady
<1>c. OwnFileUnlessRaced'
  <2>1. SUFFICES ASSUME NEW d \in Doc, Exists(d)', d \notin raced',
                        doc'[d]["file"] \notin contested
                 PROVE  /\ status'[doc'[d]["file"]] = "ACTIVE"
                        /\ \A e \in Doc \ {d} : doc'[e]["file"] # doc'[d]["file"]
    BY <1>2 DEF OwnFileUnlessRaced
  <2>2. Claims(d, doc'[d]["file"]) /\ doc'[d]["file"] \in File
    <3>1. CASE d = on[r]
      BY <1>3, <3>1
    <3>2. CASE d # on[r]
      BY <1>2, <1>5, <1>6, <2>1, <3>2 DEF Claims, Exists
    <3> QED
      BY <3>1, <3>2
  <2>3. \A e \in Doc \ {d} : doc'[e]["file"] # doc'[d]["file"]
    <3>1. ASSUME NEW e \in Doc \ {d}, doc'[e]["file"] = doc'[d]["file"]
          PROVE  FALSE
      <4>1. Claims(e, doc'[e]["file"])
        <5>1. CASE e = on[r]
          BY <1>3, <5>1
        <5>2. CASE e # on[r]
          BY <1>2, <5>2 DEF Claims
        <5> QED
          BY <5>1, <5>2
      <4> QED
        BY <1>1, <2>1, <2>2, <3>1, <4>1 DEF OneClaimant
    <3> QED
      BY <3>1
  <2>4. status'[doc'[d]["file"]] = "ACTIVE"
    <3>1. CASE d # on[r]
      <4>1. /\ doc'[d] = doc[d] /\ status[doc[d]["file"]] = "ACTIVE" /\ doc[d]["file"] \in File
        BY <1>1, <1>2, <1>5, <1>6, <2>1, <2>2, <3>1 DEF Tables, OwnFileUnlessRaced
      <4>2. doc[d]["file"] \notin own[r].rows
        <5>1. doc[d]["file"] \in own[r].rows => Claims(on[r], doc[d]["file"])
          BY DEF Claims, Holds
        <5> QED
          BY <1>1, <2>1, <2>2, <3>1, <4>1, <5>1 DEF OneClaimant
      <4> QED
        BY <4>1, <4>2, CommitStatus
    <3>2. CASE d = on[r] /\ Creating(r)
      <4>1. want[r] \in File \ contested /\ doc'[d]["file"] = want[r]
        BY <1>3, <1>7, <2>1, <3>2
      <4>2. want[r] \in own[r].rows
        BY <1>1, <1>2, <3>2, <4>1 DEF Handler, WantsPending
      <4> QED
        BY <4>1, <4>2, CommitStatus
    <3>3. CASE d = on[r] /\ ~Creating(r)
      <4>1. doc'[d] = entity[r] /\ on[r] \notin raced
        BY <1>2, <1>3, <2>1, <3>3
      <4>2. entity[r]["file"] \in File \ contested
        BY <2>1, <2>2, <4>1
      <4>3. CASE entity[r]["file"] = doc[on[r]]["file"]
        <5>1. \A f \in File : f \notin own[r].rows
          BY <1>1, <1>2, <1>4, <3>3, <4>1, <4>3 DEF Handler, MarksAreCurrent
        <5>2. status[doc[on[r]]["file"]] = "ACTIVE"
          BY <1>1, <3>3, <4>1, <4>2, <4>3 DEF Tables, OwnFileUnlessRaced, Creating
        <5> QED
          BY <4>1, <4>2, <4>3, <5>1, <5>2, CommitStatus
      <4>4. CASE entity[r]["file"] # doc[on[r]]["file"]
        <5>1. entity[r]["file"] = want[r]
          BY <1>1, <1>2, <1>4, <3>3, <4>1, <4>4 DEF Handler, MarksAreCurrent
        <5>2. want[r] \in own[r].rows
          BY <1>1, <1>2, <1>4, <3>3, <4>1, <4>2, <4>4, <5>1 DEF Handler, WantsPending
        <5> QED
          BY <4>1, <4>2, <5>1, <5>2, CommitStatus
      <4> QED
        BY <4>3, <4>4
    <3> QED
      BY <3>1, <3>2, <3>3
  <2> QED
    BY <2>3, <2>4
<1>d. LegalStatusUnlessRaced'
  <2>1. SUFFICES ASSUME NEW d \in Doc, d \notin raced'
                 PROVE  doc'[d]["legal"] = relation'[d].type
    BY DEF LegalStatusUnlessRaced
  <2>2. CASE d # on[r]
    BY <1>1, <1>2, <2>1, <2>2 DEF Tables, LegalStatusUnlessRaced
  <2>3. CASE d = on[r] /\ Creating(r)
    BY <1>2, <1>3, <1>7, <2>3 DEF RelationSeen, NoRelation
  <2>4. CASE d = on[r] /\ ~Creating(r)
    BY <1>1, <1>2, <1>3, <1>4, <2>1, <2>4 DEF Handler, ReadIsCurrent
  <2> QED
    BY <2>2, <2>3, <2>4
<1>e. DownloadsUnlessRaced'
  <2>1. SUFFICES ASSUME NEW d \in Doc, d \notin raced'
                 PROVE  doc'[d]["downloads"] = counted'[d]
    BY DEF DownloadsUnlessRaced
  <2>2. CASE d # on[r]
    BY <1>1, <1>2, <2>1, <2>2 DEF Tables, DownloadsUnlessRaced
  <2>3. CASE d = on[r] /\ Creating(r)
    BY <1>2, <1>7, <2>3
  <2>4. CASE d = on[r] /\ ~Creating(r)
    BY <1>1, <1>2, <1>3, <2>1, <2>4
       DEF Handler, ReadIsCurrent, Tables, DownloadsUnlessRaced
  <2> QED
    BY <2>2, <2>3, <2>4
<1> QED
  BY <1>a, <1>b, <1>c, <1>d, <1>e DEF Tables

LEMMA CommitStep ==
    ASSUME IndInv, NEW r \in Request, Commit(r)
    PROVE  IndInv'
<1>1. /\ Typed /\ Together /\ CountsBounded /\ on[r] \in Doc
      /\ \A q \in Request : Handler(q)
  BY Unpacked, OfType DEF Together
<1>2. /\ Typed' /\ Apart(r) /\ pc'[r] = "done"
      /\ own'[r] = Nothing /\ own'[r].rows = {}
      /\ UNCHANGED <<on, want, counted, contested>> /\ raced \subseteq raced'
      /\ \A d \in Doc \ {on[r]} : doc'[d] = doc[d]
  BY CommitEffect
<1>3. /\ doc'[on[r]]["downloads"] <= counted[on[r]]
      /\ Claims(on[r], doc'[on[r]]["file"])
  BY CommitDocument
<1>4. Handler(r)'
  BY <1>2, RestingHandler DEF Ended
<1>5. \A q \in Request \ {r} : Handler(q)'
  BY <1>1, <1>2, CommitUndisturbed, UndisturbedHandler
<1>6. /\ ~InTx(r)' /\ pc'[r] # "notFound"
      /\ pc'[r] \notin Marking \cup Saving \cup Downloading \cup Uploading \cup InTransaction
  BY <1>2 DEF InTx, InTransaction, Marking, Saving, Downloading, Uploading
<1>7. Fits(r)
  <2>1. \A f \in File : ~Holds(r, f)'
    BY <1>2, <1>6 DEF Holds
  <2>2. \A d \in Doc : doc'[d]["downloads"] <= counted'[d] /\ counted[d] <= counted'[d]
    <3>1. \A d \in Doc : counted[d] \in Nat
      BY <1>1 DEF Typed
    <3> QED
      BY <1>1, <1>2, <1>3, <3>1 DEF CountsBounded
  <2>3. \A d \in Doc, f \in File \ contested' : doc'[d]["file"] = f => Claims(d, f)
    BY <1>2, <1>3 DEF Claims
  <2> QED
    BY <1>2, <1>6, <2>1, <2>2, <2>3, CommitUndisturbed DEF Fits
<1>8. Together'
  BY <1>1, <1>2, <1>7, TogetherStep
<1> QED
  BY <1>2, <1>4, <1>5, <1>8, CommitTables, Packed

-----------------------------------------------------------------------------
(* The theorems. *)

LEMMA Start == Init => IndInv
<1> SUFFICES ASSUME Init PROVE IndInv
  OBVIOUS
<1>1. NoRelation \in Relation /\ "VALID" \in LegalStatus /\ 0 \in 0..MaxDownloads
      /\ NoRelation.type = "VALID"
  BY DEF NoRelation, Relation, LegalStatus
<1>2. <<>> \in Seq(Marks)
  OBVIOUS
<1>3. Typed
  BY <1>1, <1>2, AbsentRow, NothingWritten
     DEF Init, Typed, FileStatus, Steps, Ended
<1>4. /\ \A r \in Request : pc[r] = "idle" /\ own[r] = Nothing /\ own[r].rows = {} /\ ~InTx(r)
      /\ \A d \in Doc : doc[d] = Absent /\ relation[d] = NoRelation /\ counted[d] = 0
                        /\ ~Exists(d)
  BY AbsentRow, NothingWritten DEF Init, Exists, InTx, InTransaction
<1>5. ASSUME NEW r \in Request
      PROVE  Handler(r)
  <2>1. pc[r] \notin Marking \cup Saving \cup Downloading \cup Uploading
    BY <1>4 DEF Marking, Saving, Downloading, Uploading
  <2> QED
    BY <1>4, <2>1 DEF Handler, OwnRows, MarksInOrder, Creation, Change, ReadIsCurrent,
                      MarksAreCurrent, WantsPending, DownloadReads, UploadOrder
<1>6. AbsentRows /\ CreatesAlone /\ SharedIsContested /\ LegalStatusUnlessRaced
      /\ DownloadsUnlessRaced /\ OwnFileUnlessRaced /\ CountsBounded
  BY <1>1, <1>4, AbsentRow
     DEF AbsentRows, CreatesAlone, SharedIsContested, LegalStatusUnlessRaced,
         DownloadsUnlessRaced, OwnFileUnlessRaced, CountsBounded
<1>7. UploadsApart /\ NotFoundExplained
  BY <1>4 DEF UploadsApart, NotFoundExplained, Uploading
<1>8. FilesAreReady
  BY <1>4 DEF Init, FilesAreReady
<1>9. OneClaimant
  <2>1. ASSUME NEW r \in Request, NEW f \in File
        PROVE  ~Holds(r, f)
    BY <1>4 DEF Holds, InTransaction, Downloading, Marking
  <2>2. \A d \in Doc, f \in File : ~Claims(d, f)
    BY <1>4, <2>1, AbsentRow DEF Claims
  <2> QED
    BY <2>2 DEF OneClaimant
<1> QED
  BY <1>3, <1>5, <1>6, <1>7, <1>8, <1>9, TypedIsTypeOK DEF IndInv, Handlers

LEMMA Stutter == IndInv /\ UNCHANGED vars => IndInv'
<1> SUFFICES ASSUME IndInv, UNCHANGED vars PROVE IndInv'
  OBVIOUS
<1>1. UNCHANGED <<doc, status, relation, onDisk, pc, on, want, type, entity, found, marks,
                  dirty, own, counted, raced, contested>>
  BY DEF vars, tables, locals, history
<1>2. TypeOK'
  BY <1>1 DEF IndInv, TypeOK
<1>3. ASSUME NEW r \in Request
      PROVE  Handler(r)'
  <2>1. Handler(r)
    BY DEF IndInv, Handlers
  <2>2. /\ (InTx(r)' <=> InTx(r)) /\ (Creating(r)' <=> Creating(r)) /\ Old(r)' = Old(r)
        /\ DocSeen(r)' = DocSeen(r) /\ RelationSeen(r)' = RelationSeen(r)
    BY <1>1 DEF InTx, Creating, Exists, Old, DocSeen, RelationSeen
  <2>3. OwnRows(r)' /\ MarksInOrder(r)' /\ Creation(r)' /\ Change(r)'
    BY <1>1, <2>1, <2>2
       DEF Handler, OwnRows, MarksInOrder, Creation, Change, Sound, Ready
  <2>4. ReadIsCurrent(r)' /\ MarksAreCurrent(r)' /\ WantsPending(r)'
    BY <1>1, <2>1, <2>2 DEF Handler, ReadIsCurrent, MarksAreCurrent, WantsPending
  <2>5. DownloadReads(r)' /\ UploadOrder(r)'
    BY <1>1, <2>1 DEF Handler, DownloadReads, UploadOrder, Ready, Exists
  <2> QED
    BY <2>3, <2>4, <2>5 DEF Handler
<1>4. /\ AbsentRows' /\ CreatesAlone' /\ UploadsApart' /\ SharedIsContested'
      /\ CountsBounded' /\ OneClaimant'
  BY <1>1 DEF IndInv, AbsentRows, CreatesAlone, UploadsApart, SharedIsContested,
              CountsBounded, OneClaimant, Claims, Holds, Old, InTx, Creating, Exists
<1>5. /\ FilesAreReady' /\ OwnFileUnlessRaced' /\ LegalStatusUnlessRaced'
      /\ DownloadsUnlessRaced' /\ NotFoundExplained'
  BY <1>1 DEF IndInv, FilesAreReady, OwnFileUnlessRaced, LegalStatusUnlessRaced,
              DownloadsUnlessRaced, NotFoundExplained, Exists
<1> QED
  BY <1>2, <1>3, <1>4, <1>5 DEF IndInv, Handlers

LEMMA NextKeeps == IndInv /\ [Next]_vars => IndInv'
<1> SUFFICES ASSUME IndInv, Next PROVE IndInv'
  BY Stutter
<1>1. PICK r \in Request : Requested(r) \/ Step(r)
  BY DEF Next
<1>2. CASE Requested(r)
  <2>1. CASE \E f \in File : Upload(r, f)
    BY <2>1, UploadStep
  <2>2. CASE \E d \in Doc, f \in File : Create(r, d, f)
    BY <2>2, CreateStep
  <2>3. CASE \E d \in Doc, f \in File \cup {NoFile} : Update(r, d, f)
    BY <2>3, UpdateStep
  <2>4. CASE \E d \in Doc, t \in LegalStatus : Relate(r, d, t)
    BY <2>4, RelateStep
  <2>5. CASE \E d \in Doc : Download(r, d)
    BY <2>5, DownloadStep
  <2> QED
    BY <1>2, <2>1, <2>2, <2>3, <2>4, <2>5 DEF Requested
<1>3. CASE Step(r)
  <2>1. CASE WriteDisk(r) \/ RegisterFile(r) \/ Unlink(r) \/ UploadBreaks(r)
    BY <2>1, WriteDiskStep, RegisterFileStep, UnlinkStep, UploadBreaksStep
  <2>2. CASE CheckPending(r) \/ FindFile(r) \/ ReloadFile(r) \/ WriteFile(r)
    BY <2>2, CheckPendingStep, FindFileStep, ReloadFileStep, WriteFileStep
  <2>3. CASE InsertDocument(r) \/ Compare(r) \/ SaveDocument(r)
    BY <2>3, InsertDocumentStep, CompareStep, SaveDocumentStep
  <2>4. CASE FindRelation(r) \/ ReloadRelation(r)
    BY <2>4, FindRelationStep, ReloadRelationStep
  <2>5. CASE InsertRelation(r) \/ UpdateRelation(r) \/ DeleteRelation(r)
    BY <2>5, InsertRelationEffect, UpdateRelationEffect, LinkWrittenStep,
       DeleteRelationStep, Unpacked
  <2>6. CASE Commit(r) \/ Rollback(r)
    BY <2>6, CommitStep, RollbackStep
  <2>7. CASE OpenFile(r) \/ CountDownload(r) \/ DownloadFails(r)
    BY <2>7, OpenFileStep, CountDownloadStep, DownloadFailsStep
  <2> QED
    BY <1>3, <2>1, <2>2, <2>3, <2>4, <2>5, <2>6, <2>7 DEF Step
<1> QED
  BY <1>1, <1>2, <1>3

\* The parts of the invariant hold together in every reachable state, for any number
\* of handlers, documents, files and relation types.
THEOREM Invariance == Spec => []IndInv
<1>1. Init => IndInv
  BY Start
<1>2. IndInv /\ [Next]_vars => IndInv'
  BY NextKeeps
<1> QED
  BY <1>1, <1>2, PTL DEF Spec

\* Every variable of the tables, the handlers and their transactions keeps its type.
THEOREM TypeCorrect == Spec => []TypeOK
<1>1. IndInv => TypeOK
  BY DEF IndInv
<1> QED
  BY <1>1, Invariance, PTL

\* No interleaving of uploads, creations and updates leaves a document with a file
\* that is pending or unknown, or a row of stored_files without its bytes.
THEOREM DocumentsHaveFiles == Spec => []FilesAreReady
<1>1. IndInv => FilesAreReady
  BY DEF IndInv
<1> QED
  BY <1>1, Invariance, PTL

\* A document loses its active file, or shares it, only when a handler raced it or two
\* requests named the file at once.
THEOREM DocumentsOwnTheirFiles == Spec => []OwnFileUnlessRaced
<1>1. IndInv => OwnFileUnlessRaced
  BY DEF IndInv
<1> QED
  BY <1>1, Invariance, PTL

\* The legal status of a document and the relation it is the target of part only in
\* a race.
THEOREM LegalStatusMatches == Spec => []LegalStatusUnlessRaced
<1>1. IndInv => LegalStatusUnlessRaced
  BY DEF IndInv
<1> QED
  BY <1>1, Invariance, PTL

\* Downloads are lost only to a writer of the document that one overtakes.
THEOREM DownloadsCounted == Spec => []DownloadsUnlessRaced
<1>1. IndInv => DownloadsUnlessRaced
  BY DEF IndInv
<1> QED
  BY <1>1, Invariance, PTL

\* A published document's file is not found only after a race or a contested file.
THEOREM MissingFilesExplained == Spec => []NotFoundExplained
<1>1. IndInv => NotFoundExplained
  BY DEF IndInv
<1> QED
  BY <1>1, Invariance, PTL

\* Only COMMIT activates a file, the one the handler wanted, which is pending unless
\* contested.
LEMMA ActivationStep ==
    ASSUME IndInv, [Next]_vars, NEW f \in File \ contested, status'[f] = "ACTIVE"
    PROVE  status[f] \in {"PENDING", "ACTIVE"}
<1>1. CASE UNCHANGED status
  BY <1>1
<1>2. CASE \E r \in Request : RegisterFile(r)
  <2>1. PICK r \in Request : RegisterFile(r)
    BY <1>2
  <2>2. Typed
    BY Unpacked
  <2> QED
    BY <2>1, <2>2 DEF RegisterFile, Typed
<1>3. CASE \E r \in Request : Commit(r)
  <2>1. PICK r \in Request : Commit(r)
    BY <1>3
  <2>2. Handler(r) /\ InTx(r)
    BY <2>1, Unpacked, CommitEffect
  <2>3. CASE f \in own[r].rows
    <3>1. f = want[r]
      BY <2>1, <2>3, CommitStatus
    <3> QED
      BY <2>2, <2>3, <3>1 DEF Handler, WantsPending
  <2>4. CASE f \notin own[r].rows
    BY <2>1, <2>4, CommitStatus
  <2> QED
    BY <2>3, <2>4
<1>4. CASE UNCHANGED vars
  BY <1>4, <1>1 DEF vars, tables
<1>5. ASSUME NEW r \in Request, Requested(r) \/ Step(r)
      PROVE  UNCHANGED status \/ RegisterFile(r) \/ Commit(r)
  <2>1. CASE Requested(r)
    BY <2>1 DEF Requested, Upload, Create, Update, Relate, Download, tables
  <2>2. CASE Step(r)
    BY <2>2 DEF Step, WriteDisk, Unlink, UploadBreaks, CheckPending, FindFile, ReloadFile,
                WriteFile, InsertDocument, Compare, SaveDocument, FindRelation,
                ReloadRelation, InsertRelation, UpdateRelation, DeleteRelation, Rollback,
                OpenFile, CountDownload, DownloadFails, tables
  <2> QED
    BY <1>5, <2>1, <2>2
<1> QED
  BY <1>1, <1>2, <1>3, <1>4, <1>5 DEF Next

\* A file that was deleted with its document does not come back, unless contested.
THEOREM DeletedStaysDeleted == Spec => OnlyPendingActivated
<1>1. IndInv /\ [Next]_vars =>
         [\A f \in File \ contested :
             status'[f] = "ACTIVE" => status[f] \in {"PENDING", "ACTIVE"}]_vars
  BY ActivationStep
<1> QED
  BY <1>1, Invariance, PTL DEF Spec, OnlyPendingActivated
=============================================================================
