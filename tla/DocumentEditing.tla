--------------------------- MODULE DocumentEditing ---------------------------
(***************************************************************************)
(* The slugs and the dates of documents over time: the server creates and  *)
(* patches documents and types while the script backfill-document-slugs    *)
(* gives a slug to the rows that are older than the column.                *)
(*                                                                         *)
(* update() reads the document, assigns the request's fields and saves.    *)
(* save (external) reads the row again and writes the columns in which the *)
(* entity differs from it.  A field that the request leaves out is         *)
(* undefined in the entity then (the class of the DTO declares it, target  *)
(* ES2023) and is not written; the slug that was read is.                  *)
(*                                                                         *)
(* A transaction whose writes nobody sees before its COMMIT, and that      *)
(* waits for none but a writer of the same row, is one step at its COMMIT: *)
(* the creations, the change of a type under its lock, the save of a patch *)
(* and the UPDATEs of the script.  Each can fail as a whole.               *)
(*                                                                         *)
(* The files, legal status and numbers that these handlers also write are  *)
(* the subject of DocumentRecords and DocumentNumbering.  Slugs are        *)
(* sequences of the segments between their hyphens.                        *)
(***************************************************************************)
EXTENDS Naturals, Sequences, FiniteSets

CONSTANTS
    Request,   \* PATCH handlers
    Doc,       \* ids of documents rows
    Type,      \* ids of document_types rows
    Name,      \* names of types
    Owner,     \* Owner[d]: the type of document d
    Segments,  \* Segments[d]: number, suffix and year of document d
    NameSlug,  \* NameSlug[n]: generateSlug(n), <<>> if it leaves nothing of n
    Date,      \* dates, as numbers
    NoName,    \* a type that is not there
    NoSlug,    \* NULL in a slug column
    NoDate,    \* NULL in a date column, null in a request
    Absent     \* a field that the request leaves out

DateField == {"promulgation", "publication", "validUntil"}

ASSUME SentinelAssumption ==
    NoName \notin Name /\ NoDate \notin Date /\ Absent \notin Date \cup {NoDate}
ASSUME SlugAssumption ==
    /\ Owner \in [Doc -> Type]
    /\ NameSlug \in [Name -> Seq(STRING)] /\ Segments \in [Doc -> Seq(STRING)]
    /\ \A n \in Name : NoSlug \notin {NameSlug[n]} \cup {NameSlug[n] \o Segments[d] : d \in Doc}

\* generateDocumentSlug
Slug(ts, d) == ts \o Segments[d]

TypeSlugs == {NameSlug[n] : n \in Name}
DocSlugs == {Slug(s, d) : s \in TypeSlugs, d \in Doc}

\* The columns; a document always has a publication date.
Dates == [DateField -> Date \cup {NoDate}]
NoDates == [f \in DateField |-> NoDate]
Patch == {p \in [DateField -> Date \cup {NoDate, Absent}] : p["publication"] # NoDate}

\* A pair with a value missing is in order.
InOrder(a, b) == {a, b} \subseteq Date => a <= b
Ordered(x) ==
    /\ InOrder(x["promulgation"], x["publication"])
    /\ InOrder(x["publication"], x["validUntil"])

\* Mutant of Accepted: the validity is not compared.
AcceptedUnlessPromulgated(p) == InOrder(p["promulgation"], p["publication"])

\* IsBeforeOrEqual and IsAfterOrEqual, which see the request alone.
Accepted(p) == Ordered(p)

\* One date of a pair is given and the other left out: nothing is compared.
Partial(p) ==
    \E f \in {"promulgation", "validUntil"} :
        \/ p[f] \in Date /\ p["publication"] = Absent
        \/ p[f] = Absent /\ p["publication"] \in Date

VARIABLES
    name,       \* name[t]: of the type's row; NoName if there is none
    typeSlug,   \* typeSlug[t]: its slug
    slug,       \* slug[d]: of the document's row
    dates,      \* dates[d]: its dates; NoDates if there is no row
    pc,         \* pc[r]: where handler r is
    on,         \* on[r]: its document
    patch,      \* patch[r]: the dates of its request
    copy,       \* copy[r]: the slug of the document it has in memory
    dirty,      \* dirty[r]: the columns its save is about to write
    script,     \* where the backfill is
    plan,       \* what it has computed: a slug for every type it read, and which rows to update
    backfilled, \* whether the backfill has completed
    overtaken,  \* documents that got their slug while a handler had them in memory without it
    raced,      \* documents whose dates changed between comparison and UPDATE of a save
    partial     \* documents patched with one date of a pair

handlers == <<pc, on, patch, copy, dirty>>
history == <<backfilled, overtaken, raced, partial>>
vars == <<name, typeSlug, slug, dates, handlers, script, plan, history>>

Exists(d) == dates[d] # NoDates
Types == {t \in Type : name[t] # NoName}
Stored == {d \in Doc : Exists(d)}
NoPlan == [slugs |-> [t \in {} |-> NoSlug], types |-> {}, docs |-> {}]

\* No two rows of the set S have one slug, but for NULL.
Distinct(f, S) == \A a, b \in S : f[a] = f[b] /\ f[a] # NoSlug => a = b

\* The rows are older than the slug columns; their dates are in order.
Init ==
    /\ name \in [Type -> Name \cup {NoName}]
    /\ \A t, u \in Types : name[t] = name[u] => t = u
    /\ typeSlug = [t \in Type |-> NoSlug]
    /\ slug = [d \in Doc |-> NoSlug]
    /\ dates \in [Doc -> {x \in Dates : x["publication"] \in Date /\ Ordered(x)} \cup {NoDates}]
    /\ \A d \in Stored : Owner[d] \in Types
    /\ pc = [r \in Request |-> "idle"]
    /\ on \in [Request -> Doc]
    /\ patch = [r \in Request |-> [f \in DateField |-> Absent]]
    /\ copy = [r \in Request |-> NoSlug]
    /\ dirty = [r \in Request |-> {}]
    /\ script = "idle" /\ plan = NoPlan
    /\ backfilled = FALSE
    /\ overtaken = {} /\ raced = {} /\ partial = {}

-----------------------------------------------------------------------------
(* DocumentTypeService. *)

\* Mutant of CreateType: the slug is left to the backfill.
CreateTypeWithoutSlug(t, n) ==
    /\ name[t] = NoName
    /\ \A u \in Types : name[u] # n
    /\ name' = [name EXCEPT ![t] = n]
    /\ UNCHANGED <<typeSlug, slug, dates, handlers, script, plan, history>>

\* create; UNIQUE (name) and UQ_document_types_slug.
CreateType(t, n) ==
    /\ name[t] = NoName
    /\ \A u \in Types : name[u] # n /\ typeSlug[u] # NameSlug[n]
    /\ NameSlug[n] # <<>>
    /\ name' = [name EXCEPT ![t] = n]
    /\ typeSlug' = [typeSlug EXCEPT ![t] = NameSlug[n]]
    /\ UNCHANGED <<slug, dates, handlers, script, plan, history>>

\* update with a new name: the slug stays.
RenameType(t, n) ==
    /\ t \in Types
    /\ \A u \in Types : name[u] # n
    /\ name' = [name EXCEPT ![t] = n]
    /\ UNCHANGED <<typeSlug, slug, dates, handlers, script, plan, history>>

-----------------------------------------------------------------------------
(* DocumentService. *)

\* create, of a type that has a slug; UQ_documents_slug.
CreateDocument(d, x) ==
    LET s == Slug(typeSlug[Owner[d]], d) IN
    /\ ~Exists(d)
    /\ Owner[d] \in Types /\ typeSlug[Owner[d]] # NoSlug
    /\ x["publication"] \in Date /\ Accepted(x)
    /\ \A e \in Stored : slug[e] # s
    /\ slug' = [slug EXCEPT ![d] = s]
    /\ dates' = [dates EXCEPT ![d] = x]
    /\ UNCHANGED <<name, typeSlug, handlers, script, plan, history>>

\* update: read the document and assign the fields of the request.
Update(r, d, p) ==
    /\ pc[r] = "idle"
    /\ Exists(d)
    /\ Accepted(p)
    /\ pc' = [pc EXCEPT ![r] = "comparing"]
    /\ on' = [on EXCEPT ![r] = d]
    /\ patch' = [patch EXCEPT ![r] = p]
    /\ copy' = [copy EXCEPT ![r] = slug[d]]
    /\ UNCHANGED <<name, typeSlug, slug, dates, dirty, script, plan, history>>

\* save reads the row again and compares ...
Compare(r) ==
    LET d == on[r] IN
    /\ pc[r] = "comparing"
    /\ dirty' = [dirty EXCEPT ![r] =
          {f \in DateField : patch[r][f] \notin {Absent, dates[d][f]}}
          \cup {c \in {"slug"} : copy[r] # slug[d]}]
    /\ pc' = [pc EXCEPT ![r] = "saving"]
    /\ UNCHANGED <<name, typeSlug, slug, dates, on, patch, copy, script, plan, history>>

\* Mutant of Save: fields that the request leaves out are written, too.
SaveLeftOut(r) ==
    LET d == on[r] IN
    /\ pc[r] = "saving"
    /\ dates' = [dates EXCEPT ![d] = patch[r]]
    /\ slug' = [slug EXCEPT ![d] = IF "slug" \in dirty[r] THEN copy[r] ELSE @]
    /\ pc' = [pc EXCEPT ![r] = "idle"]
    /\ UNCHANGED <<name, typeSlug, on, patch, copy, dirty, script, plan, history>>

\* ... and writes the columns that differ over the row of the moment.
Save(r) ==
    LET d == on[r] IN
    /\ pc[r] = "saving"
    /\ dates' = [dates EXCEPT ![d] =
          [f \in DateField |-> IF f \in dirty[r] THEN patch[r][f] ELSE @[f]]]
    /\ slug' = [slug EXCEPT ![d] = IF "slug" \in dirty[r] THEN copy[r] ELSE @]
    /\ Distinct(slug', Stored)
    /\ raced' = IF dates'[d] # dates[d]
                   /\ \E q \in Request \ {r} : pc[q] = "saving" /\ on[q] = d
                THEN raced \cup {d} ELSE raced
    /\ partial' = IF Partial(patch[r]) THEN partial \cup {d} ELSE partial
    /\ pc' = [pc EXCEPT ![r] = "idle"]
    /\ UNCHANGED <<name, typeSlug, on, patch, copy, dirty, script, plan, backfilled, overtaken>>

\* An exception, a failed statement or COMMIT: the transaction is rolled back.
UpdateFails(r) ==
    /\ pc[r] # "idle"
    /\ pc' = [pc EXCEPT ![r] = "idle"]
    /\ UNCHANGED <<name, typeSlug, slug, dates, on, patch, copy, dirty, script, plan, history>>

-----------------------------------------------------------------------------
(* backfill-document-slugs. *)

\* Mutant of ReadTypes: a slug is made for every type, not just for those without.
ReadTypesAfresh ==
    LET s == [t \in Types |-> NameSlug[name[t]]] IN
    /\ script \in {"idle", "completed", "failed"}
    /\ IF Distinct(s, Types) /\ \A t \in Types : s[t] # <<>>
       THEN /\ script' = "types read"
            /\ plan' = [NoPlan EXCEPT !.slugs = s, !.types = {t \in Types : typeSlug[t] = NoSlug}]
       ELSE script' = "failed" /\ plan' = NoPlan
    /\ UNCHANGED <<name, typeSlug, slug, dates, handlers, history>>

\* It is started, and reads the types: one without a slug is to get that of its
\* name, unless there is nothing left of it or two types would share one.
ReadTypes ==
    LET s == [t \in Types |-> IF typeSlug[t] = NoSlug THEN NameSlug[name[t]] ELSE typeSlug[t]] IN
    /\ script \in {"idle", "completed", "failed"}
    /\ IF Distinct(s, Types) /\ \A t \in Types : s[t] # <<>>
       THEN /\ script' = "types read"
            /\ plan' = [NoPlan EXCEPT !.slugs = s, !.types = {t \in Types : typeSlug[t] = NoSlug}]
       ELSE script' = "failed" /\ plan' = NoPlan
    /\ UNCHANGED <<name, typeSlug, slug, dates, handlers, history>>

\* The slug document d is to have; NULL when its type was not there to be read.
PlannedSlug(d) ==
    IF slug[d] # NoSlug THEN slug[d]
    ELSE IF Owner[d] \in DOMAIN plan.slugs THEN Slug(plan.slugs[Owner[d]], d) ELSE NoSlug

ReadDocuments ==
    LET s == [d \in Stored |-> PlannedSlug(d)] IN
    /\ script = "types read"
    /\ IF Distinct(s, Stored) /\ \A d \in Stored : s[d] # NoSlug
       THEN /\ script' = "documents read"
            /\ plan' = [plan EXCEPT !.docs = {d \in Stored : slug[d] = NoSlug}]
       ELSE script' = "failed" /\ plan' = NoPlan
    /\ UNCHANGED <<name, typeSlug, slug, dates, handlers, history>>

\* What handler r is to write includes a slug that was NULL when it was read.
HoldsOldCopy(r) ==
    \/ pc[r] = "comparing" /\ copy[r] = NoSlug
    \/ pc[r] = "saving" /\ "slug" \in dirty[r]

\* The transaction: UPDATE ... WHERE slug IS NULL, for each row of the plan; a
\* slug that somebody else has by now fails them all.
WriteSlugs ==
    LET docs == {d \in plan.docs : slug[d] = NoSlug} IN
    /\ script = "documents read"
    /\ typeSlug' = [t \in Type |-> IF t \in plan.types /\ typeSlug[t] = NoSlug
                                   THEN plan.slugs[t] ELSE typeSlug[t]]
    /\ slug' = [d \in Doc |-> IF d \in docs THEN Slug(plan.slugs[Owner[d]], d) ELSE slug[d]]
    /\ Distinct(typeSlug', Types) /\ Distinct(slug', Stored)
    /\ script' = "completed" /\ plan' = NoPlan
    /\ backfilled' = TRUE
    /\ overtaken' = (overtaken \ docs)
          \cup {d \in docs : \E r \in Request : on[r] = d /\ HoldsOldCopy(r)}
    /\ UNCHANGED <<name, dates, handlers, raced, partial>>

\* Any statement or the process fails: "No changes were written".
ScriptFails ==
    /\ script \in {"types read", "documents read"}
    /\ script' = "failed" /\ plan' = NoPlan
    /\ UNCHANGED <<name, typeSlug, slug, dates, handlers, history>>

-----------------------------------------------------------------------------
Step(r) == Compare(r) \/ Save(r) \/ UpdateFails(r)

Next ==
    \/ \E t \in Type, n \in Name : CreateType(t, n) \/ RenameType(t, n)
    \/ \E d \in Doc, x \in Dates : CreateDocument(d, x)
    \/ \E r \in Request, d \in Doc, p \in Patch : Update(r, d, p)
    \/ \E r \in Request : Step(r)
    \/ ReadTypes \/ ReadDocuments \/ WriteSlugs \/ ScriptFails

Spec == Init /\ [][Next]_vars

-----------------------------------------------------------------------------
(* Properties. *)

\* Every variable has its type.
TypeOK ==
    /\ name \in [Type -> Name \cup {NoName}]
    /\ typeSlug \in [Type -> TypeSlugs \cup {NoSlug}]
    /\ slug \in [Doc -> DocSlugs \cup {NoSlug}]
    /\ dates \in [Doc -> Dates]
    /\ pc \in [Request -> {"idle", "comparing", "saving"}]
    /\ on \in [Request -> Doc]
    /\ patch \in [Request -> Patch]
    /\ copy \in [Request -> DocSlugs \cup {NoSlug}]
    /\ dirty \in [Request -> SUBSET (DateField \cup {"slug"})]
    /\ script \in {"idle", "types read", "documents read", "completed", "failed"}
    /\ plan \in [slugs : UNION {[T -> TypeSlugs] : T \in SUBSET Type},
                types : SUBSET Type, docs : SUBSET Doc]
    /\ backfilled \in BOOLEAN
    /\ overtaken \subseteq Doc /\ raced \subseteq Doc /\ partial \subseteq Doc

\* A document's address begins with the slug its type has now, whoever wrote it,
\* before or after types were renamed and however often the script was run.
SlugFollowsType ==
    \A d \in Stored : slug[d] # NoSlug =>
        typeSlug[Owner[d]] # NoSlug /\ slug[d] = Slug(typeSlug[Owner[d]], d)

\* After "Backfill completed" the slug columns could be made NOT NULL: every
\* type has a slug, and every document, those that the server created under the
\* script included, but for one that a PATCH had read without its slug.
BackfilledUnlessOvertaken ==
    backfilled =>
        /\ \A t \in Types : typeSlug[t] # NoSlug
        /\ \A d \in Stored \ overtaken : slug[d] # NoSlug

\* "La fecha de promulgacion no puede ser posterior a la publicacion", "La
\* vigencia no puede ser anterior a la publicacion": so it is, although each
\* PATCH is validated by itself, but for a document patched with one date of a
\* pair, or by two requests one of which compared before the other wrote.
DatesOrderedUnlessRaced ==
    \A d \in Stored \ (raced \cup partial) : Ordered(dates[d])

=============================================================================
