---------------------------- MODULE PublicCatalog ----------------------------
(***************************************************************************)
(* What the public reads of the documents while they are published,        *)
(* withdrawn and changed: the pages of the listing, the landing page, the  *)
(* sitemap and the detail of a document.                                   *)
(*                                                                         *)
(* None of these runs in a transaction: each SQL statement is a step and   *)
(* sees the rows committed at its moment.  getManyAndCount (external) with *)
(* joins and take reads the ids of a page and then their rows; a page that *)
(* comes back short ends the list for it, otherwise it counts.  To the     *)
(* order asked for it appends the primary key.                             *)
(*                                                                         *)
(* The visitor asks for page after page until the offset reaches the total *)
(* answered last, and follows the links it was given.                      *)
(***************************************************************************)
EXTENDS Naturals, FiniteSets, FiniteSetsExt

CONSTANTS
    Doc,         \* ids of documents rows, as numbers
    Key,         \* Key[d]: year, correlative number and suffix, 0 for no suffix
    Type,        \* ids of document_types rows
    Owner,       \* Owner[d]: the type of document d
    Slugged,     \* types that have a slug
    Source,      \* Source[d]: the documents whose relation has d for its target
    LegalStatus,
    Any,         \* no legalStatus in the query
    Limits,      \* page sizes
    CurrentYear,
    MaxChanges   \* bound: changes of rows while the visitor is there

ASSUME KeyAssumption ==
    Doc \subseteq Nat /\ IsFiniteSet(Doc) /\ Key \in [Doc -> Nat \X Nat \X Nat]
ASSUME OwnerAssumption ==
    Owner \in [Doc -> Type] /\ Slugged \subseteq Type /\ IsFiniteSet(Type)
ASSUME SourceAssumption ==
    Source \in [Doc -> SUBSET Doc] /\ \A d \in Doc : Cardinality(Source[d]) <= 1
ASSUME BoundsAssumption ==
    Limits \subseteq Nat \ {0} /\ Limits # {} /\ MaxChanges \in Nat

VARIABLES
    status,   \* status[d]: "PUBLISHED" or "DISABLED", which stands for no row, too
    legal,    \* legal[d]: its legalStatus
    active,   \* types with isActive
    pc,       \* where the visitor is
    filter,   \* legalStatus of its query
    limit,    \* its page size
    offset,   \* of the page it asked for
    ids,      \* the ids of that page, then those whose rows were found
    total,    \* as it was answered last
    seen,     \* seen[d]: on how many pages it has found document d
    answers,  \* the answers of getLandingData so far, by query
    links,    \* the links before the visitor: the document and where they are
    joined,   \* documents that entered the list since the visitor came
    left,     \* documents that left the list since then
    gone,     \* documents withdrawn since then
    changes   \* how many rows have changed since then

rows == <<status, legal, active>>
history == <<joined, left, gone, changes>>
vars == <<rows, pc, filter, limit, offset, ids, total, seen, answers, links, history>>

Year(d) == Key[d][1]
Published == {d \in Doc : status[d] = "PUBLISHED"}
Matching == {d \in Published : filter \in {Any, legal[d]}}

\* Mutant of Before: suffix and primary key do not count.
BeforeByNumber(a, b) ==
    \/ Key[a][1] > Key[b][1]
    \/ Key[a][1] = Key[b][1] /\ Key[a][2] > Key[b][2]

\* year DESC, correlativeNumber DESC, suffix DESC NULLS LAST, and id.
Before(a, b) ==
    \/ \E i \in 1..3 : Key[a][i] > Key[b][i] /\ \A j \in 1..(i - 1) : Key[a][j] = Key[b][j]
    \/ Key[a] = Key[b] /\ a < b

\* The first n of S in that order; rows that are equal in it come in any.
IsFirst(F, n, S) ==
    /\ Cardinality(F) = IF n < Cardinality(S) THEN n ELSE Cardinality(S)
    /\ \A a \in F, b \in S \ F : ~Before(b, a)

\* Mutant of IsPage: one more row is read, to see whether there is a next page.
IsPageAndOneMore(P, skip, S) ==
    \E F \in SUBSET S : IsFirst(F, skip, S) /\ P \subseteq S \ F /\ IsFirst(P, limit + 1, S \ F)

\* LIMIT and OFFSET.
IsPage(P, skip, S) ==
    \E F \in SUBSET S : IsFirst(F, skip, S) /\ P \subseteq S \ F /\ IsFirst(P, limit, S \ F)

Init ==
    /\ status \in [Doc -> {"PUBLISHED", "DISABLED"}]
    /\ legal \in [Doc -> LegalStatus]
    /\ active \in SUBSET Type
    /\ pc = "away"
    /\ filter = Any /\ limit = CHOOSE n \in Limits : TRUE
    /\ offset = 0 /\ ids = {} /\ total = 0
    /\ seen = [d \in Doc |-> 0]
    /\ answers = <<>>
    /\ links = {}
    /\ joined = {} /\ left = {} /\ gone = {} /\ changes = 0

-----------------------------------------------------------------------------
(* The administration: creations, update and the relations, as they commit. *)

Change ==
    /\ pc # "away"
    /\ changes < MaxChanges
    /\ changes' = changes + 1
    /\ UNCHANGED <<pc, filter, limit, offset, ids, total, seen, answers, links>>
    /\ joined' = joined \cup (Matching' \ Matching)
    /\ left' = left \cup (Matching \ Matching')
    /\ gone' = gone \cup (Published \ Published')

SetStatus(d, s) ==
    /\ s # status[d]
    /\ status' = [status EXCEPT ![d] = s]
    /\ UNCHANGED <<legal, active>>
    /\ Change

SetLegal(d, l) ==
    /\ l # legal[d]
    /\ legal' = [legal EXCEPT ![d] = l]
    /\ UNCHANGED <<status, active>>
    /\ Change

SetActive(t) ==
    /\ active' = (active \ {t}) \cup ({t} \ active)
    /\ UNCHANGED <<status, legal>>
    /\ Change

-----------------------------------------------------------------------------
(* PublicDocumentsService. *)

Goes(to) == pc' = to /\ UNCHANGED <<rows, history>>

\* findAll, from the first page.
FindAll(f, n) ==
    /\ pc = "away"
    /\ filter' = f /\ limit' = n
    /\ Goes("finding ids")
    /\ UNCHANGED <<offset, ids, total, seen, answers, links>>

ReadIds ==
    /\ pc = "finding ids"
    /\ \E P \in SUBSET Matching : IsPage(P, offset, Matching) /\ ids' = P
    /\ Goes("finding rows")
    /\ UNCHANGED <<filter, limit, offset, total, seen, answers, links>>

\* The conditions of the query hold for the rows, too.  A relation is shown only
\* if its source is published.
ReadRows ==
    /\ pc = "finding rows"
    /\ seen' = [d \in Doc |-> seen[d] + IF d \in ids \cap Matching THEN 1 ELSE 0]
    /\ links' = links \cup
          {<<e, "list">> : e \in UNION {{d} \cup (Source[d] \cap Published) :
                                    d \in ids \cap Matching}}
    /\ ids' = ids \cap Matching
    /\ Goes("counting")
    /\ UNCHANGED <<filter, limit, offset, total, answers>>

\* No COUNT is sent for a page with fewer rows than its limit, unless it is a later
\* one without any: the total is what was skipped and these rows.
CountRows ==
    /\ pc = "counting"
    /\ \/ /\ Cardinality(ids) = limit \/ (ids = {} /\ offset > 0)
          /\ total' = Cardinality(Matching)
       \/ /\ Cardinality(ids) # limit /\ (ids # {} \/ offset = 0)
          /\ total' = offset + Cardinality(ids)
    /\ Goes("page")
    /\ UNCHANGED <<filter, limit, offset, ids, seen, answers, links>>

NextPage ==
    /\ pc = "page"
    /\ offset + limit < total
    /\ offset' = offset + limit
    /\ Goes("finding ids")
    /\ UNCHANGED <<filter, limit, ids, total, seen, answers, links>>

\* Mutant of Sitemap: documents are listed whatever their status.
SitemapOfAll ==
    /\ pc = "away"
    /\ links' = {<<d, "sitemap">> : d \in Doc}
    /\ Goes("links")
    /\ UNCHANGED <<filter, limit, offset, ids, total, seen, answers>>

\* getSitemapDocuments
Sitemap ==
    /\ pc = "away"
    /\ links' = {<<d, "sitemap">> : d \in Published}
    /\ Goes("links")
    /\ UNCHANGED <<filter, limit, offset, ids, total, seen, answers>>

\* getDocumentDetail of a link; it shows both ends of relations, whatever their
\* status.
OpenLink(link) ==
    LET d == link[1] IN
    /\ pc \in {"page", "links"}
    /\ link \in links
    /\ IF d \in Published
       THEN /\ links' = links \cup
                  {<<e, "detail">> : e \in Source[d] \cup {t \in Doc : d \in Source[t]}}
            /\ Goes("links")
       ELSE /\ links' = {link}
            /\ Goes("not found")
    /\ UNCHANGED <<filter, limit, offset, ids, total, seen, answers>>

Queries == {"published", "thisYear", "years", "activeTypes", "types"}

\* Mutant of Answer: the publications of the year are counted whatever their status.
AnswerOfAll(q) ==
    CASE q = "published"   -> Cardinality(Published)
      [] q = "thisYear"    ->
            Cardinality({d \in Doc : Year(d) = CurrentYear})
      [] q = "years"       -> {Year(d) : d \in Published}
      [] q = "activeTypes" -> Cardinality(active)
      [] q = "types"       ->
            [t \in active \cap Slugged |-> Cardinality({d \in Published : Owner[d] = t})]

\* totalPublishedDocuments, currentYearPublications, availableYears (from MIN to
\* MAX, empty for NULL), documentTypesCount and the types with their documents.
Answer(q) ==
    LET years == {Year(d) : d \in Published} IN
    CASE q = "published"   -> Cardinality(Published)
      [] q = "thisYear"    -> Cardinality({d \in Published : Year(d) = CurrentYear})
      [] q = "years"       -> IF years = {} THEN {} ELSE Min(years)..Max(years)
      [] q = "activeTypes" -> Cardinality(active)
      [] q = "types"       ->
            [t \in active \cap Slugged |-> Cardinality({d \in Published : Owner[d] = t})]

\* getLandingData: Promise.all sends the queries on connections of their own, and
\* they run in any order.
Landing(q) ==
    /\ pc \in {"away", "landing"}
    /\ q \notin DOMAIN answers
    /\ answers' = [p \in DOMAIN answers \cup {q} |-> IF p = q THEN Answer(q) ELSE answers[p]]
    /\ Goes("landing")
    /\ UNCHANGED <<filter, limit, offset, ids, total, seen, links>>

-----------------------------------------------------------------------------
Next ==
    \/ \E d \in Doc, s \in {"PUBLISHED", "DISABLED"} : SetStatus(d, s)
    \/ \E d \in Doc, l \in LegalStatus : SetLegal(d, l)
    \/ \E t \in Type : SetActive(t)
    \/ \E f \in LegalStatus \cup {Any}, n \in Limits : FindAll(f, n)
    \/ ReadIds \/ ReadRows \/ CountRows \/ NextPage
    \/ Sitemap \/ \E link \in links : OpenLink(link)
    \/ \E q \in Queries : Landing(q)

Spec == Init /\ [][Next]_vars

-----------------------------------------------------------------------------
(* Properties. *)

\* Every variable has its type; no page is longer than the limit.
TypeOK ==
    /\ status \in [Doc -> {"PUBLISHED", "DISABLED"}]
    /\ legal \in [Doc -> LegalStatus]
    /\ active \subseteq Type
    /\ pc \in {"away", "finding ids", "finding rows", "counting", "page", "links",
               "not found", "landing"}
    /\ filter \in LegalStatus \cup {Any} /\ limit \in Limits
    /\ offset \in Nat /\ total \in Nat
    /\ ids \subseteq Doc /\ Cardinality(ids) <= limit
    /\ seen \in [Doc -> Nat]
    /\ DOMAIN answers \subseteq Queries
    /\ links \subseteq Doc \X {"list", "sitemap", "detail"}
    /\ joined \subseteq Doc /\ left \subseteq Doc /\ gone \subseteq Doc
    /\ changes \in 0..MaxChanges

\* A visitor who goes through all pages misses a document that was there all the
\* time only if one before it left the list meanwhile, also one whose row is not found
\* any more and so shortens a page and ends the list; and finds one on two pages only
\* if one before it joined.
PagesExplained ==
    /\ pc = "page" /\ offset + limit >= total =>
          \A d \in Matching \ (joined \cup left) :
              seen[d] = 0 => \E e \in left : Before(e, d)
    /\ \A d \in Doc : seen[d] > 1 => \E e \in joined : Before(e, d)

\* A link that the listing or the sitemap gave leads nowhere only if its document
\* was withdrawn since.  Those of a detail may have led nowhere from the start.
DeadLinksExplained ==
    pc = "not found" => \A link \in links : link[1] \in gone \/ link[2] = "detail"

\* How many documents a list of types with their counts has.
SumOf(counts) == MapThenSumSet(LAMBDA t : counts[t], DOMAIN counts)

\* The figures of the landing page come from different moments: they agree but for
\* one document, or type, for each change between them.
LandingAgrees ==
    DOMAIN answers = Queries =>
        /\ answers["thisYear"] <= answers["published"] + changes
        /\ SumOf(answers["types"]) <= answers["published"] + changes
        /\ Cardinality(DOMAIN answers["types"]) <= answers["activeTypes"] + changes
        /\ changes = 0 =>
              /\ answers["years"] = {} <=> answers["published"] = 0
              /\ answers["thisYear"] > 0 => CurrentYear \in answers["years"]
=============================================================================
