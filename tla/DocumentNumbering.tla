--------------------------- MODULE DocumentNumbering ---------------------------
(***************************************************************************)
(* The numbers of documents: creation of document types, change of their   *)
(* numbering mode and creation of documents, as transactions that lock the *)
(* row of the type (FOR UPDATE to change it, FOR SHARE to number a         *)
(* document by it) and rely on the unique indexes of the table documents.  *)
(* What else a creation does (its file) is the subject of another module:  *)
(* here it can only make the transaction fail.                             *)
(*                                                                         *)
(* Slugs are sequences of the segments between their hyphens.              *)
(***************************************************************************)
EXTENDS Naturals, Sequences, FiniteSets

CONSTANTS
    Request,      \* handler slots of the process
    Type,         \* ids of document_types rows
    TypeSlug,     \* TypeSlug[t]: the slug made of the type's name
    Number,       \* correlative numbers
    Suffix,       \* normalized suffixes, as segments; <<>> is no suffix
    Year,
    NoRequest,    \* nobody: a free lock, the writer of a committed row
    MaxDocuments  \* bound: documents created

ASSUME NoRequestAssumption == NoRequest \notin Request
\* UQ_document_types_slug.
ASSUME TypeSlugAssumption ==
    /\ TypeSlug \in [Type -> Seq(STRING)]
    /\ \A t, u \in Type : TypeSlug[t] = TypeSlug[u] => t = u

ASSUME SuffixAssumption == Suffix \subseteq Seq(STRING)

Modes == {"YEARLY", "GLOBAL"}

\* Mutant of Scope: the branches are swapped.
ScopeSwapped(m, y) == IF m = "GLOBAL" THEN y ELSE m

\* generateDocumentNumberingScope
Scope(m, y) == IF m = "GLOBAL" THEN "GLOBAL" ELSE y

\* generateDocumentSlug
Slug(d) == TypeSlug[d.type] \o <<d.number>> \o d.suffix \o <<d.year>>

Draft == [type : Type, number : Number, suffix : Suffix, year : Year]

VARIABLES
    mode,       \* mode[t]: numberingMode of the type, "none" before its creation
    documents,  \* rows: [doc : Draft, scope, tx]; tx is who has not committed it
    readers,    \* readers[t]: transactions that hold FOR SHARE on the type
    writer,     \* writer[t]: the transaction that holds FOR UPDATE on the type
    pc,         \* pc[r]: where handler r is
    draft,      \* draft[r]: the document r is to create, or one of r's type
    seenMode,   \* seenMode[r]: the mode r read under its lock, or is to set
    reply       \* reply[r]: what handler r answered last

handlers == <<pc, draft, seenMode, reply>>
vars == <<mode, documents, readers, writer, handlers>>

Committed == {row \in documents : row.tx = NoRequest}

\* The three unique indexes: number and scope with and without suffix, slug.
SameNumber(a, b) ==
    /\ a.doc.type = b.doc.type
    /\ a.doc.number = b.doc.number
    /\ a.doc.suffix = b.doc.suffix
    /\ a.scope = b.scope

\* Mutant of Clash: the index on number and scope covers suffixed rows too.
ClashIgnoresSuffix(a, b) ==
    \/ <<a.doc.type, a.doc.number, a.scope>> = <<b.doc.type, b.doc.number, b.scope>>
    \/ Slug(a.doc) = Slug(b.doc)

\* Mutant of Clash: the indexes leave out the type.
ClashAcrossTypes(a, b) ==
    <<a.doc.number, a.doc.suffix, a.scope>> = <<b.doc.number, b.doc.suffix, b.scope>>

Clash(a, b) == SameNumber(a, b) \/ Slug(a.doc) = Slug(b.doc)

Replies == {"none", "ok", "duplicate", "mode is settled", "failed"}

Init ==
    /\ mode = [t \in Type |-> "none"]
    /\ documents = {}
    /\ readers = [t \in Type |-> {}]
    /\ writer = [t \in Type |-> NoRequest]
    /\ pc = [r \in Request |-> "idle"]
    /\ draft \in [Request -> Draft]
    /\ seenMode = [r \in Request |-> "none"]
    /\ reply = [r \in Request |-> "none"]

\* The transaction of r ends: its locks are released, the handler answers.
End(r, answer) ==
    /\ readers' = [t \in Type |-> readers[t] \ {r}]
    /\ writer' = [t \in Type |-> IF writer[t] = r THEN NoRequest ELSE writer[t]]
    /\ pc' = [pc EXCEPT ![r] = "idle"]
    /\ reply' = [reply EXCEPT ![r] = answer]
    /\ UNCHANGED <<draft, seenMode>>

-----------------------------------------------------------------------------
(* DocumentTypeService. *)

\* create: one INSERT.
CreateType(r, t, m) ==
    /\ pc[r] = "idle"
    /\ mode[t] = "none"
    /\ mode' = [mode EXCEPT ![t] = m]
    /\ End(r, "ok")
    /\ UNCHANGED documents

\* update with numberingMode m.
UpdateType(r, d, m) ==
    /\ pc[r] = "idle"
    /\ mode[d.type] # "none"
    /\ draft' = [draft EXCEPT ![r] = d]
    /\ seenMode' = [seenMode EXCEPT ![r] = m]
    /\ pc' = [pc EXCEPT ![r] = "locking"]
    /\ UNCHANGED <<mode, documents, readers, writer, reply>>

LockTypeForUpdate(r) ==
    LET t == draft[r].type IN
    /\ pc[r] = "locking"
    /\ writer[t] = NoRequest /\ readers[t] = {}
    /\ writer' = [writer EXCEPT ![t] = r]
    /\ pc' = [pc EXCEPT ![r] = IF mode[t] = seenMode[r] THEN "saving" ELSE "counting"]
    /\ UNCHANGED <<mode, documents, readers, draft, seenMode, reply>>

\* The mode would change: the type must have no (committed) document.
CountDocuments(r) ==
    LET numbered == {row \in Committed : row.doc.type = draft[r].type} IN
    /\ pc[r] = "counting"
    /\ \/ /\ numbered = {}
          /\ pc' = [pc EXCEPT ![r] = "saving"]
          /\ UNCHANGED <<readers, writer, draft, seenMode, reply>>
       \/ /\ numbered # {}
          /\ End(r, "mode is settled")
    /\ UNCHANGED <<mode, documents>>

SaveType(r) ==
    /\ pc[r] = "saving"
    /\ mode' = [mode EXCEPT ![draft[r].type] = seenMode[r]]
    /\ End(r, "ok")
    /\ UNCHANGED documents

-----------------------------------------------------------------------------
(* DocumentService.create. *)

Create(r, d) ==
    /\ pc[r] = "idle"
    /\ Cardinality(documents) < MaxDocuments
    /\ draft' = [draft EXCEPT ![r] = d]
    /\ pc' = [pc EXCEPT ![r] = "sharing"]
    /\ UNCHANGED <<mode, documents, readers, writer, seenMode, reply>>

\* Mutant of LockTypeForShare: the SELECT takes no lock.
LockForgotten(r) ==
    LET t == draft[r].type IN
    /\ pc[r] = "sharing"
    /\ mode[t] # "none"
    /\ seenMode' = [seenMode EXCEPT ![r] = mode[t]]
    /\ pc' = [pc EXCEPT ![r] = "inserting"]
    /\ UNCHANGED <<mode, documents, readers, writer, draft, reply>>

LockTypeForShare(r) ==
    LET t == draft[r].type IN
    /\ pc[r] = "sharing"
    /\ mode[t] # "none"
    /\ writer[t] = NoRequest
    /\ readers' = [readers EXCEPT ![t] = @ \cup {r}]
    /\ seenMode' = [seenMode EXCEPT ![r] = mode[t]]
    /\ pc' = [pc EXCEPT ![r] = "inserting"]
    /\ UNCHANGED <<mode, documents, writer, draft, reply>>

NewRow(r) == [doc |-> draft[r], scope |-> Scope(seenMode[r], draft[r].year), tx |-> r]

\* The INSERT waits for a clashing row that is not committed yet, and fails
\* (23505) on a committed one.
InsertDocument(r) ==
    /\ pc[r] = "inserting"
    /\ \A row \in documents : ~Clash(row, NewRow(r))
    /\ documents' = documents \cup {NewRow(r)}
    /\ pc' = [pc EXCEPT ![r] = "committing"]
    /\ UNCHANGED <<mode, readers, writer, draft, seenMode, reply>>

InsertFails(r) ==
    /\ pc[r] = "inserting"
    /\ \E row \in Committed : Clash(row, NewRow(r))
    /\ End(r, "duplicate")
    /\ UNCHANGED <<mode, documents>>

Commit(r) ==
    /\ pc[r] = "committing"
    /\ documents' = {IF row.tx = r THEN [row EXCEPT !.tx = NoRequest] ELSE row : row \in documents}
    /\ End(r, "ok")
    /\ UNCHANGED mode

\* Anything else fails (no such type, no slug, file not pending, a statement, the
\* COMMIT, the process): the transaction is rolled back.
Rollback(r) ==
    /\ pc[r] # "idle"
    /\ documents' = {row \in documents : row.tx # r}
    /\ End(r, "failed")
    /\ UNCHANGED mode

Next ==
    \E r \in Request :
        \/ \E t \in Type, m \in Modes : CreateType(r, t, m)
        \/ \E d \in Draft, m \in Modes : UpdateType(r, d, m)
        \/ \E d \in Draft : Create(r, d)
        \/ LockTypeForUpdate(r) \/ CountDocuments(r) \/ SaveType(r)
        \/ LockTypeForShare(r) \/ InsertDocument(r) \/ InsertFails(r)
        \/ Commit(r) \/ Rollback(r)

Spec == Init /\ [][Next]_vars

-----------------------------------------------------------------------------
(* Properties. *)

\* Every variable has its type.
TypeOK ==
    /\ mode \in [Type -> Modes \cup {"none"}]
    /\ documents \subseteq
          [doc : Draft, scope : Year \cup {"GLOBAL"}, tx : Request \cup {NoRequest}]
    /\ readers \in [Type -> SUBSET Request]
    /\ writer \in [Type -> Request \cup {NoRequest}]
    /\ pc \in [Request -> {"idle", "locking", "counting", "saving",
                           "sharing", "inserting", "committing"}]
    /\ draft \in [Request -> Draft]
    /\ seenMode \in [Request -> Modes \cup {"none"}]
    /\ reply \in [Request -> Replies]

\* Every document is numbered in the scope that the mode of its type calls for
\* now, although the mode was read and checked by other transactions.
ScopeFollowsMode ==
    \A row \in documents :
        mode[row.doc.type] # "none" /\ row.scope = Scope(mode[row.doc.type], row.doc.year)

\* A creation is answered "El numero correlativo ingresado ya existe" only when
\* a document of that type has that number and suffix where the mode forbids it.
DuplicateMeansNumberTaken ==
    [][\A r \in Request : reply'[r] = "duplicate" /\ pc[r] = "inserting" /\ pc'[r] = "idle" =>
          \E row \in Committed : SameNumber(row, NewRow(r))]_vars

-----------------------------------------------------------------------------
(* Refinement. *)

\* Creations, whatever their interleaving with changes of mode, assign numbers
\* as the registry does.
NR == INSTANCE NumberRegistry WITH assigned <- {row.doc : row \in Committed}
Registry == NR!Spec
=============================================================================
