--------------------------- MODULE DocumentRecords ---------------------------
(***************************************************************************)
(* The rows of documents, stored files and legal relations, and the        *)
(* handlers that keep them in step: upload of a file, creation and update  *)
(* of a document, saving and removal of the relation a document is the     *)
(* target of, and the public download.                                     *)
(*                                                                         *)
(* Handlers run in READ COMMITTED transactions, one SQL statement a step.  *)
(* A plain read sees committed rows and the reader's own writes; a write   *)
(* waits for the transaction that wrote the row before.  TypeORM's save    *)
(* (external) reads the row again and writes the columns in which the      *)
(* entity in memory differs from that read, stale ones included.           *)
(*                                                                         *)
(* Numbers and slugs are the subject of DocumentNumbering.  Which document *)
(* is the source of a relation matters to no other state: there must be    *)
(* one that is not the target.                                             *)
(***************************************************************************)
EXTENDS Naturals, Sequences, FiniteSets

CONSTANTS
    Request,      \* handler slots of the process
    Doc,          \* ids of documents rows
    File,         \* ids of stored_files rows
    RelationType, \* DocumentRelationType
    NoFile,       \* a document that is not there, a request without fileId
    MaxRelations, \* bound: ids of document_relations rows
    MaxDownloads  \* bound: downloads counted

ASSUME NoFileAssumption == NoFile \notin File
\* A transaction's rows are named by file, "doc" and "relation".
ASSUME FileAssumption == File \cap {"doc", "relation"} = {}
ASSUME BoundsAssumption == MaxRelations \in Nat /\ MaxDownloads \in Nat

Columns == {"file", "legal", "downloads"}

\* RELATION_TYPE_TO_LEGAL_STATUS names one status for each type, here the type.
LegalStatus == RelationType \cup {"VALID"}

Row(file, legal, downloads) ==
    [c \in Columns |-> CASE c = "file" -> file [] c = "legal" -> legal [] OTHER -> downloads]
Absent == Row(NoFile, "VALID", 0)

NoRelation == [id |-> 0, type |-> "VALID"]

FileStatus == {"none", "PENDING", "ACTIVE", "DELETED"}
Relation == [id : 0..MaxRelations, type : LegalStatus]
DocRow ==
    {Row(f, l, n) : f \in File \cup {NoFile}, l \in LegalStatus, n \in 0..MaxDownloads}

VARIABLES
    doc,       \* doc[d]: the row of documents, by column; Absent if there is none
    status,    \* status[f]: FileStatus of stored_files, "none" if there is no row
    relation,  \* relation[d]: the relation whose target is d; NoRelation if none
    onDisk,    \* files whose bytes are in UPLOAD_PATH
    pc,        \* pc[r]: where handler r is
    on,        \* on[r]: its document
    want,      \* want[r]: the file it is to put on the document, or uploads
    type,      \* type[r]: the relation type to save; "VALID" to remove
    entity,    \* entity[r]: its document in memory
    found,     \* found[r]: the relation it has read
    marks,     \* marks[r]: the files it has yet to mark, and as what
    dirty,     \* dirty[r]: the columns save is about to write
    own,       \* own[r]: what its transaction has written and not committed
    counted,   \* counted[d]: downloads counted so far
    raced,     \* documents changed under a handler that had read them
    contested  \* files that two handlers wanted at the same time

tables == <<doc, status, relation, onDisk>>
locals == <<on, want, type, entity, found, marks, dirty>>
history == <<counted, raced, contested>>
vars == <<tables, pc, locals, own, history>>

Ended == {"idle", "done", "failed", "notFound", "served"}
Downloading == {"streaming", "counting"}
Uploading == {"writing disk", "registering", "unlinking"}
InTransaction ==
    {"checking", "inserting", "finding file", "reloading file", "writing file",
     "relating", "linking", "inserting relation", "updating relation",
     "unlinking relation", "comparing", "saving", "committing"}

Nothing == [rows |-> {}, doc |-> Absent, relation |-> NoRelation,
            status |-> [f \in File |-> "none"]]

Init ==
    /\ doc = [d \in Doc |-> Absent]
    /\ status = [f \in File |-> "none"]
    /\ relation = [d \in Doc |-> NoRelation]
    /\ onDisk = {}
    /\ pc = [r \in Request |-> "idle"]
    /\ on \in [Request -> Doc]
    /\ want = [r \in Request |-> NoFile]
    /\ type = [r \in Request |-> "VALID"]
    /\ entity = [r \in Request |-> Absent]
    /\ found = [r \in Request |-> NoRelation]
    /\ marks = [r \in Request |-> <<>>]
    /\ dirty = [r \in Request |-> {}]
    /\ own = [r \in Request |-> Nothing]
    /\ counted = [d \in Doc |-> 0]
    /\ raced = {}
    /\ contested = {}

-----------------------------------------------------------------------------
(* Transactions. *)

GoTo(r, step) == pc' = [pc EXCEPT ![r] = step]

Exists(d) == doc[d]["file"] # NoFile

\* What a read of request r's transaction sees.
DocSeen(r) == IF "doc" \in own[r].rows THEN own[r].doc ELSE doc[on[r]]
StatusSeen(r, f) == IF f \in own[r].rows THEN own[r].status[f] ELSE status[f]
RelationSeen(r) == IF "relation" \in own[r].rows THEN own[r].relation ELSE relation[on[r]]

\* Another transaction has written the row and not ended.
DocLocked(r, d) == \E q \in Request \ {r} : on[q] = d /\ "doc" \in own[q].rows
RelationLocked(r) == \E q \in Request \ {r} : on[q] = on[r] /\ "relation" \in own[q].rows
FileLocked(r, f) == \E q \in Request \ {r} : f \in own[q].rows

WriteDoc(r, row) == own' = [own EXCEPT ![r].rows = @ \cup {"doc"}, ![r].doc = row]
WriteRelation(r, rel) ==
    own' = [own EXCEPT ![r].rows = @ \cup {"relation"}, ![r].relation = rel]
WriteStatus(r, f, s) ==
    own' = [own EXCEPT ![r].rows = @ \cup {f}, ![r].status[f] = s]

\* Request r is a DocumentService.create: its document is not there yet.
Creating(r) == ~Exists(on[r])

\* Mutant of Mark: the arguments are swapped.
MarkSwapped(f, s) == [file |-> s, to |-> f]

Mark(f, s) == [file |-> f, to |-> s]

\* The change that r is about to make of document d, or of its relation, overtakes
\* a handler that has read them.
Race(r, d, overtaken) ==
    raced' = IF \E q \in Request \ {r} : on[q] = d /\ pc[q] \in overtaken
             THEN raced \cup {d} ELSE raced

Commit(r) ==
    /\ pc[r] = "committing"
    /\ doc' = [doc EXCEPT ![on[r]] = DocSeen(r)]
    /\ relation' = [relation EXCEPT ![on[r]] = RelationSeen(r)]
    /\ status' = [f \in File |-> StatusSeen(r, f)]
    /\ own' = [own EXCEPT ![r] = Nothing]
    /\ GoTo(r, "done")
    /\ IF {"doc", "relation"} \cap own[r].rows # {}
       THEN Race(r, on[r], InTransaction \cup Downloading)
       ELSE UNCHANGED raced
    /\ UNCHANGED <<onDisk, locals, counted, contested>>

\* An exception, a failing statement or COMMIT, a deadlock victim or the end of
\* the process: ROLLBACK.
Rollback(r) ==
    /\ pc[r] \in InTransaction
    /\ own' = [own EXCEPT ![r] = Nothing]
    /\ GoTo(r, "failed")
    /\ UNCHANGED <<tables, locals, history>>

\* A request for document d arrives.
Arrive(r, d, step) ==
    /\ pc[r] \in Ended
    /\ on' = [on EXCEPT ![r] = d]
    /\ GoTo(r, step)

\* It names file f, as another request in flight may do.
Wants(r, f) ==
    /\ want' = [want EXCEPT ![r] = f]
    /\ contested' = IF \E q \in Request \ {r} : pc[q] \in InTransaction /\ want[q] = f
                    THEN contested \cup ({f} \ {NoFile})
                    ELSE contested

-----------------------------------------------------------------------------
(* FilesService: uploadDocument, and markAsActive and markAsDeleted inside   *)
(* the transactions of DocumentService.                                      *)

Upload(r, f) ==
    /\ pc[r] \in Ended
    /\ f \notin onDisk
    /\ \A q \in Request : pc[q] \in Uploading => want[q] # f
    /\ want' = [want EXCEPT ![r] = f]
    /\ GoTo(r, "writing disk")
    /\ UNCHANGED <<tables, on, type, entity, found, marks, dirty, own, history>>

WriteDisk(r) ==
    /\ pc[r] = "writing disk"
    /\ onDisk' = onDisk \cup {want[r]}
    /\ GoTo(r, "registering")
    /\ UNCHANGED <<doc, status, relation, locals, own, history>>

\* The INSERT of the row, or its failure, after which the bytes are removed.  A row
\* whose INSERT is committed and only the answer lost has an id that nobody is told:
\* nothing reads it, and status does not have it.
RegisterFile(r) ==
    /\ pc[r] = "registering"
    /\ \/ /\ status' = [status EXCEPT ![want[r]] = "PENDING"]
          /\ GoTo(r, "done")
       \/ /\ GoTo(r, "unlinking")
          /\ UNCHANGED status
    /\ UNCHANGED <<doc, relation, onDisk, locals, own, history>>

Unlink(r) ==
    /\ pc[r] = "unlinking"
    /\ onDisk' = onDisk \ {want[r]}
    /\ GoTo(r, "failed")
    /\ UNCHANGED <<doc, status, relation, locals, own, history>>

\* The process dies, or the disk fails: nothing is cleaned up.
UploadBreaks(r) ==
    /\ pc[r] \in Uploading
    /\ GoTo(r, "failed")
    /\ UNCHANGED <<tables, locals, own, history>>

\* Mutant of CheckPending: update marks document.file as deleted, which is the
\* new file by then.
CheckPendingRetiresNew(r) ==
    /\ pc[r] = "checking"
    /\ StatusSeen(r, want[r]) = "PENDING"
    /\ entity' = [entity EXCEPT ![r]["file"] = want[r]]
    /\ marks' = [marks EXCEPT ![r] = IF Creating(r) THEN <<Mark(want[r], "ACTIVE")>>
                     ELSE <<Mark(want[r], "ACTIVE"), Mark(want[r], "DELETED")>>]
    /\ GoTo(r, IF Creating(r) THEN "inserting" ELSE "finding file")
    /\ UNCHANGED <<tables, on, want, type, found, dirty, own, history>>

\* Mutant of CheckPending: the file is loaded and set to ACTIVE without a look at
\* its status.
CheckPendingNever(r) ==
    /\ pc[r] = "checking"
    /\ entity' = [entity EXCEPT ![r]["file"] = want[r]]
    /\ marks' = [marks EXCEPT ![r] = IF Creating(r) THEN <<Mark(want[r], "ACTIVE")>>
                     ELSE <<Mark(want[r], "ACTIVE"), Mark(entity[r]["file"], "DELETED")>>]
    /\ GoTo(r, IF Creating(r) THEN "inserting" ELSE "reloading file")
    /\ UNCHANGED <<tables, on, want, type, found, dirty, own, history>>

\* getPendingFileOrFail; finding the file in another state is an exception, and
\* so a Rollback.  An update puts the new file on the document in memory.
CheckPending(r) ==
    /\ pc[r] = "checking"
    /\ StatusSeen(r, want[r]) = "PENDING"
    /\ entity' = [entity EXCEPT ![r]["file"] = want[r]]
    /\ IF Creating(r)
       THEN /\ marks' = [marks EXCEPT ![r] = <<Mark(want[r], "ACTIVE")>>]
            /\ GoTo(r, "inserting")
       ELSE /\ marks' = [marks EXCEPT ![r] =
                            <<Mark(want[r], "ACTIVE"), Mark(entity[r]["file"], "DELETED")>>]
            /\ GoTo(r, "finding file")
    /\ UNCHANGED <<tables, on, want, type, found, dirty, own, history>>

\* The file is marked, or found to be so: the transaction goes on.
Marked(r) ==
    /\ marks' = [marks EXCEPT ![r] = Tail(@)]
    /\ GoTo(r, IF Len(marks[r]) > 1 THEN "finding file"
               ELSE IF Creating(r) THEN "committing" ELSE "comparing")

\* markAsActive and markAsDeleted find the file; any other state is an exception.
FindFile(r) ==
    LET mark == Head(marks[r])
        seen == StatusSeen(r, mark.file)
    IN
    /\ pc[r] = "finding file"
    /\ \/ /\ seen = IF mark.to = "ACTIVE" THEN "PENDING" ELSE "ACTIVE"
          /\ GoTo(r, "reloading file")
          /\ UNCHANGED marks
       \/ /\ seen = "DELETED" /\ mark.to = "DELETED"
          /\ Marked(r)
    /\ UNCHANGED <<tables, on, want, type, entity, found, dirty, own, history>>

\* save reads the file again ...
ReloadFile(r) ==
    /\ pc[r] = "reloading file"
    /\ IF StatusSeen(r, Head(marks[r]).file) = Head(marks[r]).to
       THEN Marked(r)
       ELSE GoTo(r, "writing file") /\ UNCHANGED marks
    /\ UNCHANGED <<tables, on, want, type, entity, found, dirty, own, history>>

\* ... and writes the column that differs.
WriteFile(r) ==
    /\ pc[r] = "writing file"
    /\ ~FileLocked(r, Head(marks[r]).file)
    /\ WriteStatus(r, Head(marks[r]).file, Head(marks[r]).to)
    /\ Marked(r)
    /\ UNCHANGED <<tables, on, want, type, entity, found, dirty, history>>

-----------------------------------------------------------------------------
(* DocumentService. *)

\* create; the lock on the type and the numbers are left to DocumentNumbering.
Create(r, d, f) ==
    /\ ~Exists(d)
    /\ \A q \in Request : pc[q] \in InTransaction => on[q] # d
    /\ status[f] # "none"
    /\ Arrive(r, d, "checking")
    /\ Wants(r, f)
    /\ entity' = [entity EXCEPT ![r] = Absent]
    /\ UNCHANGED <<tables, type, found, marks, dirty, own, counted, raced>>

\* Mutant of InsertDocument: create forgets markAsActive.
InsertWithoutActivating(r) ==
    /\ pc[r] = "inserting"
    /\ WriteDoc(r, entity[r])
    /\ GoTo(r, "committing")
    /\ UNCHANGED <<tables, locals, history>>

InsertDocument(r) ==
    /\ pc[r] = "inserting"
    /\ WriteDoc(r, entity[r])
    /\ GoTo(r, "finding file")
    /\ UNCHANGED <<tables, locals, history>>

\* update, with the file f or without a fileId (NoFile); its transaction reads
\* the document first.
Update(r, d, f) ==
    /\ Exists(d)
    /\ f # NoFile => status[f] # "none"
    /\ Arrive(r, d, IF f \in {NoFile, doc[d]["file"]} THEN "comparing" ELSE "checking")
    /\ Wants(r, f)
    /\ entity' = [entity EXCEPT ![r] = doc[d]]
    /\ UNCHANGED <<tables, type, found, marks, dirty, own, counted, raced>>

\* manager.save(document), the last write of update, save and remove: read the
\* row again and compare ...
Compare(r) ==
    LET changed == {c \in Columns : entity[r][c] # DocSeen(r)[c]} IN
    /\ pc[r] = "comparing"
    /\ dirty' = [dirty EXCEPT ![r] = changed]
    /\ GoTo(r, IF changed = {} THEN "committing" ELSE "saving")
    /\ UNCHANGED <<tables, on, want, type, entity, found, marks, own, history>>

\* ... and write the columns that differ over the row of the moment.
SaveDocument(r) ==
    /\ pc[r] = "saving"
    /\ ~DocLocked(r, on[r])
    /\ WriteDoc(r, [c \in Columns |-> IF c \in dirty[r] THEN entity[r][c] ELSE doc[on[r]][c]])
    /\ GoTo(r, "committing")
    /\ UNCHANGED <<tables, locals, history>>

-----------------------------------------------------------------------------
(* DocumentRelationService. *)

\* save with relation type t, or remove ("VALID"): read the target first.
Relate(r, d, t) ==
    /\ Exists(d)
    /\ t # "VALID" => \E source \in Doc \ {d} : Exists(source)
    /\ Arrive(r, d, "relating")
    /\ want' = [want EXCEPT ![r] = NoFile]
    /\ type' = [type EXCEPT ![r] = t]
    /\ entity' = [entity EXCEPT ![r] = doc[d]]
    /\ UNCHANGED <<tables, found, marks, dirty, own, history>>

\* Look for the target's relation; remove without one is an exception.
FindRelation(r) ==
    /\ pc[r] = "relating"
    /\ found' = [found EXCEPT ![r] = relation[on[r]]]
    /\ IF type[r] = "VALID"
       THEN relation[on[r]] # NoRelation /\ GoTo(r, "unlinking relation")
       ELSE GoTo(r, IF relation[on[r]] = NoRelation THEN "inserting relation" ELSE "linking")
    /\ UNCHANGED <<tables, on, want, type, entity, marks, dirty, own, history>>

\* The relation is saved: the status of the target in memory follows.
Relabel(r) ==
    /\ entity' = [entity EXCEPT ![r]["legal"] = type[r]]
    /\ GoTo(r, "comparing")

\* save(relation) reads the row of that id again: a row that has gone is
\* inserted, one that has other values is updated, one that has these is left.
ReloadRelation(r) ==
    /\ pc[r] = "linking"
    /\ \/ /\ relation[on[r]].id # found[r].id
          /\ GoTo(r, "inserting relation")
          /\ UNCHANGED entity
       \/ /\ relation[on[r]].id = found[r].id
          /\ GoTo(r, "updating relation")
          /\ UNCHANGED entity
       \/ /\ relation[on[r]] = [found[r] EXCEPT !.type = type[r]]
          /\ Relabel(r)
    /\ UNCHANGED <<tables, on, want, type, found, marks, dirty, own, history>>

FreshIds ==
    {id \in 1..MaxRelations :
        /\ \A d \in Doc : relation[d].id # id
        /\ \A r \in Request : pc[r] \in InTransaction =>
              id \notin {found[r].id, own[r].relation.id}}

\* UNIQUE (target_document_id): on a row that is there the INSERT fails.
InsertRelation(r) ==
    /\ pc[r] = "inserting relation"
    /\ ~RelationLocked(r)
    /\ relation[on[r]] = NoRelation
    /\ \E id \in IF found[r] = NoRelation THEN FreshIds ELSE {found[r].id} :
          WriteRelation(r, [id |-> id, type |-> type[r]])
    /\ Relabel(r)
    /\ UNCHANGED <<tables, on, want, type, found, marks, dirty, history>>

\* UPDATE by id; it writes nothing when the row has gone meanwhile.
UpdateRelation(r) ==
    /\ pc[r] = "updating relation"
    /\ ~RelationLocked(r)
    /\ IF relation[on[r]].id = found[r].id
       THEN WriteRelation(r, [id |-> found[r].id, type |-> type[r]])
       ELSE UNCHANGED own
    /\ Relabel(r)
    /\ UNCHANGED <<tables, on, want, type, found, marks, dirty, history>>

\* Mutant of DeleteRelation: the target's status is not set back.
DeleteKeepsStatus(r) ==
    /\ pc[r] = "unlinking relation"
    /\ ~RelationLocked(r)
    /\ IF relation[on[r]].id = found[r].id
       THEN WriteRelation(r, NoRelation)
       ELSE UNCHANGED own
    /\ GoTo(r, "comparing")
    /\ UNCHANGED <<tables, locals, history>>

\* manager.remove: DELETE by id.
DeleteRelation(r) ==
    /\ pc[r] = "unlinking relation"
    /\ ~RelationLocked(r)
    /\ IF relation[on[r]].id = found[r].id
       THEN WriteRelation(r, NoRelation)
       ELSE UNCHANGED own
    /\ Relabel(r)
    /\ UNCHANGED <<tables, on, want, type, found, marks, dirty, history>>

-----------------------------------------------------------------------------
(* PublicDocumentsService.getPublicDocumentFileStream, of a published document. *)

Download(r, d) ==
    /\ Exists(d)
    /\ Arrive(r, d, "streaming")
    /\ entity' = [entity EXCEPT ![r] = doc[d]]
    /\ UNCHANGED <<tables, want, type, found, marks, dirty, own, history>>

\* getFileStream; only a download is counted, a preview is not.
OpenFile(r) ==
    LET f == entity[r]["file"] IN
    /\ pc[r] = "streaming"
    /\ \/ /\ status[f] = "ACTIVE" /\ f \in onDisk
          /\ \E step \in {"counting", "served"} : GoTo(r, step)
       \/ /\ ~(status[f] = "ACTIVE" /\ f \in onDisk)
          /\ GoTo(r, "notFound")
    /\ UNCHANGED <<tables, locals, own, history>>

\* Mutant of CountDownload: the count is computed from the document read before.
CountFromCopy(r) ==
    LET d == on[r] IN
    /\ pc[r] = "counting"
    /\ ~DocLocked(r, d)
    /\ counted[d] < MaxDownloads
    /\ doc' = [doc EXCEPT ![d]["downloads"] = entity[r]["downloads"] + 1]
    /\ counted' = [counted EXCEPT ![d] = @ + 1]
    /\ GoTo(r, "served")
    /\ Race(r, d, InTransaction)
    /\ UNCHANGED <<status, relation, onDisk, locals, own, contested>>

\* incrementDownloadCount: one UPDATE.
CountDownload(r) ==
    LET d == on[r] IN
    /\ pc[r] = "counting"
    /\ ~DocLocked(r, d)
    /\ counted[d] < MaxDownloads
    /\ doc' = [doc EXCEPT ![d]["downloads"] = @ + 1]
    /\ counted' = [counted EXCEPT ![d] = @ + 1]
    /\ GoTo(r, "served")
    /\ Race(r, d, InTransaction)
    /\ UNCHANGED <<status, relation, onDisk, locals, own, contested>>

DownloadFails(r) ==
    /\ pc[r] \in Downloading
    /\ GoTo(r, "failed")
    /\ UNCHANGED <<tables, locals, own, history>>

-----------------------------------------------------------------------------
Requested(r) ==
    \/ \E f \in File : Upload(r, f)
    \/ \E d \in Doc, f \in File : Create(r, d, f)
    \/ \E d \in Doc, f \in File \cup {NoFile} : Update(r, d, f)
    \/ \E d \in Doc, t \in LegalStatus : Relate(r, d, t)
    \/ \E d \in Doc : Download(r, d)

Step(r) ==
    \/ WriteDisk(r) \/ RegisterFile(r) \/ Unlink(r) \/ UploadBreaks(r)
    \/ CheckPending(r) \/ FindFile(r) \/ ReloadFile(r) \/ WriteFile(r)
    \/ InsertDocument(r) \/ Compare(r) \/ SaveDocument(r)
    \/ FindRelation(r) \/ ReloadRelation(r)
    \/ InsertRelation(r) \/ UpdateRelation(r) \/ DeleteRelation(r)
    \/ Commit(r) \/ Rollback(r)
    \/ OpenFile(r) \/ CountDownload(r) \/ DownloadFails(r)

Next == \E r \in Request : Requested(r) \/ Step(r)

Spec == Init /\ [][Next]_vars

-----------------------------------------------------------------------------
(* Properties. *)

\* Every variable has its type.
TypeOK ==
    /\ doc \in [Doc -> DocRow]
    /\ status \in [File -> FileStatus]
    /\ relation \in [Doc -> Relation]
    /\ onDisk \subseteq File
    /\ pc \in [Request -> Ended \cup Downloading \cup Uploading \cup InTransaction]
    /\ on \in [Request -> Doc]
    /\ want \in [Request -> File \cup {NoFile}]
    /\ type \in [Request -> LegalStatus]
    /\ entity \in [Request -> DocRow]
    /\ found \in [Request -> Relation]
    /\ marks \in [Request -> Seq([file : File, to : {"ACTIVE", "DELETED"}])]
    /\ dirty \in [Request -> SUBSET Columns]
    /\ own \in [Request -> [rows : SUBSET ({"doc", "relation"} \cup File), doc : DocRow,
                            relation : Relation, status : [File -> FileStatus]]]
    /\ counted \in [Doc -> 0..MaxDownloads]
    /\ raced \subseteq Doc
    /\ contested \subseteq File

\* Whatever the interleaving, a document never has a file that is still pending
\* or unknown, nor a stored file that an upload has answered with a row without its
\* bytes: creation and update activate the file in the transaction that puts it on
\* the document, and uploadDocument writes the bytes before the row.
FilesAreReady ==
    /\ \A d \in Doc : Exists(d) => status[doc[d]["file"]] \in {"ACTIVE", "DELETED"}
    /\ \A f \in File : status[f] # "none" => f \in onDisk

\* A document that was never changed under a handler that had read it has an
\* active file of its own, unless two requests named that file at the same time.
OwnFileUnlessRaced ==
    \A d \in Doc : Exists(d) /\ d \notin raced /\ doc[d]["file"] \notin contested =>
        /\ status[doc[d]["file"]] = "ACTIVE"
        /\ \A e \in Doc \ {d} : doc[e]["file"] # doc[d]["file"]

\* Such a document has the legal status of the relation it is the target of, and
\* VALID without one.
LegalStatusUnlessRaced ==
    \A d \in Doc : d \notin raced => doc[d]["legal"] = relation[d].type

\* No download is lost, however many are counted at once, unless one was counted
\* under a writer of the document.
DownloadsUnlessRaced ==
    \A d \in Doc : d \notin raced => doc[d]["downloads"] = counted[d]

\* The file of a published document is not found only when a writer has changed
\* the document, or its file was named by two requests at the same time.
NotFoundExplained ==
    \A r \in Request : pc[r] = "notFound" =>
        on[r] \in raced \/ entity[r]["file"] \in contested

\* "Only pending files can be activated" (markAsActive): a file that was deleted
\* with its document does not come back, unless two requests named it at the same
\* time, when both may read it as pending.
OnlyPendingActivated ==
    [][\A f \in File \ contested :
          status'[f] = "ACTIVE" => status[f] \in {"PENDING", "ACTIVE"}]_vars

-----------------------------------------------------------------------------
(* What the documentation says, for all interleavings. *)

\* "El estado legal de un documento depende de su relacion entrante vigente",
\* "Si un documento no tiene relacion entrante, su legalStatus debe ser VALID"
\* (document-legal-relations.md).
LegalStatusFollowsRelation == \A d \in Doc : doc[d]["legal"] = relation[d].type
=============================================================================
