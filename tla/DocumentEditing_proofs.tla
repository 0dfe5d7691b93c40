------------------------ MODULE DocumentEditing_proofs ------------------------
(***************************************************************************)
(* Proofs about DocumentEditing, for any handlers, documents, types, names *)
(* and dates.  IndInv is inductive: one lemma per conjunct.                *)
(***************************************************************************)
EXTENDS DocumentEditing, TLAPS

-----------------------------------------------------------------------------
(* Why they hold: an inductive invariant. *)

Running == {"types read", "documents read"}

\* What the script has read stays true but for what it is to change: no type
\* gets or loses a slug meanwhile, and who creates one gives it a slug.
PlanHolds ==
    /\ script \in Running =>
          /\ DOMAIN plan.slugs \subseteq Types
          /\ \A t \in Types : typeSlug[t] = NoSlug => t \in plan.types
          /\ plan.types \subseteq DOMAIN plan.slugs
          /\ \A t \in DOMAIN plan.slugs : typeSlug[t] \in {NoSlug, plan.slugs[t]}
    /\ script = "documents read" =>
          /\ \A d \in plan.docs : Owner[d] \in DOMAIN plan.slugs
          /\ \A d \in Stored : slug[d] = NoSlug => d \in plan.docs \cup overtaken

\* A type that is not there has no slug.
AbsentTypesHold == \A t \in Type : name[t] = NoName => typeSlug[t] = NoSlug

\* A handler has in memory a slug the document had, and would write another than
\* the one it has now only over a document that was overtaken.
CopyHolds(r) ==
    /\ Exists(on[r])
    /\ Accepted(patch[r])
    /\ copy[r] # NoSlug => /\ typeSlug[Owner[on[r]]] # NoSlug
                           /\ copy[r] = Slug(typeSlug[Owner[on[r]]], on[r])
    /\ (pc[r] = "comparing" \/ "slug" \in dirty[r]) /\ copy[r] # slug[on[r]] =>
          on[r] \in overtaken
CopiesHold == \A r \in Request : pc[r] # "idle" => CopyHolds(r)

\* A save writes dates of its request only and, while nobody else writes them,
\* knows which differ.
DatesHold ==
    /\ \A d \in Stored : dates[d]["publication"] \in Date
    /\ \A r \in Request : pc[r] = "saving" =>
          \A f \in DateField : f \in dirty[r] => patch[r][f] # Absent
    /\ \A r \in Request : pc[r] = "saving" /\ on[r] \notin raced =>
          \A f \in DateField : f \in dirty[r] <=> patch[r][f] \notin {Absent, dates[on[r]][f]}

IndInv ==
    /\ TypeOK
    /\ AbsentTypesHold
    /\ PlanHolds
    /\ CopiesHold
    /\ DatesHold
    /\ SlugFollowsType
    /\ BackfilledUnlessOvertaken
    /\ DatesOrderedUnlessRaced

USE SentinelAssumption, SlugAssumption

-----------------------------------------------------------------------------
(* Slugs.                                                                    *)

\* No slug that is made of something is NULL.
LEMMA SlugsAreNotNull ==
    /\ \A s \in TypeSlugs : s # NoSlug
    /\ \A s \in TypeSlugs, d \in Doc : Slug(s, d) \in DocSlugs /\ Slug(s, d) # NoSlug
<1>1. ASSUME NEW s \in TypeSlugs
      PROVE  s # NoSlug /\ \A d \in Doc : Slug(s, d) \in DocSlugs /\ Slug(s, d) # NoSlug
  <2>1. PICK n \in Name : s = NameSlug[n]
    BY DEF TypeSlugs
  <2>2. NoSlug # NameSlug[n] /\ \A d \in Doc : NoSlug # NameSlug[n] \o Segments[d]
    BY Zenon
  <2>3. \A d \in Doc : Slug(s, d) \in DocSlugs
    BY DEF DocSlugs
  <2> QED
    BY <2>1, <2>2, <2>3, Zenon DEF Slug
<1> QED
  BY <1>1, Zenon

\* What the script plans for the types: a slug each, none of it NULL.
LEMMA ReadTypesPlan ==
    ASSUME TypeOK, ReadTypes
    PROVE  \/ /\ script' = "types read"
              /\ plan'.slugs \in [Types -> TypeSlugs]
              /\ plan'.types = {t \in Types : typeSlug[t] = NoSlug}
              /\ plan'.docs = {}
              /\ \A t \in Types : typeSlug[t] \in {NoSlug, plan'.slugs[t]}
              /\ plan' \in [slugs : UNION {[T -> TypeSlugs] : T \in SUBSET Type},
                            types : SUBSET Type, docs : SUBSET Doc]
           \/ script' = "failed" /\ plan' = NoPlan
<1> DEFINE s == [t \in Types |-> IF typeSlug[t] = NoSlug THEN NameSlug[name[t]] ELSE typeSlug[t]]
<1> DEFINE fresh == {t \in Types : typeSlug[t] = NoSlug}
<1>1. CASE script' = "types read" /\ plan' = [NoPlan EXCEPT !.slugs = s, !.types = fresh]
  <2>1. Types \subseteq Type /\ fresh \subseteq Types
    BY DEF Types
  <2>2. \A t \in Types : name[t] \in Name /\ typeSlug[t] \in TypeSlugs \cup {NoSlug}
    BY DEF TypeOK, Types
  <2>3. s \in [Types -> TypeSlugs]
    BY <2>2 DEF TypeSlugs
  <2>4. \A t \in Types : typeSlug[t] \in {NoSlug, s[t]}
    OBVIOUS
  <2>5. plan' = [slugs |-> s, types |-> fresh, docs |-> {}]
    BY <1>1 DEF NoPlan
  <2> HIDE DEF s, fresh
  <2>6. s \in UNION {[T -> TypeSlugs] : T \in SUBSET Type}
    BY <2>1, <2>3
  <2>7. plan' \in [slugs : UNION {[T -> TypeSlugs] : T \in SUBSET Type},
                  types : SUBSET Type, docs : SUBSET Doc]
    BY <2>1, <2>5, <2>6
  <2>8. plan'.slugs = s /\ plan'.types = fresh /\ plan'.docs = {}
    BY <2>5
  <2> QED
    BY <1>1, <2>3, <2>4, <2>7, <2>8, Zenon DEF fresh
<1>2. CASE script' = "failed" /\ plan' = NoPlan
  BY <1>2
<1> QED
  BY <1>1, <1>2 DEF ReadTypes

\* What it plans for the documents: those without a slug, whose types it has read.
LEMMA ReadDocumentsPlan ==
    ASSUME TypeOK, ReadDocuments
    PROVE  /\ script = "types read"
           /\ \/ /\ script' = "documents read"
                 /\ plan' = [plan EXCEPT !.docs = {d \in Stored : slug[d] = NoSlug}]
                 /\ \A d \in Stored : slug[d] = NoSlug => Owner[d] \in DOMAIN plan.slugs
              \/ script' = "failed" /\ plan' = NoPlan
<1>1. ASSUME NEW d \in Stored, slug[d] = NoSlug, PlannedSlug(d) # NoSlug
      PROVE  Owner[d] \in DOMAIN plan.slugs
  BY <1>1 DEF PlannedSlug
<1> QED
  BY <1>1 DEF ReadDocuments

-----------------------------------------------------------------------------
(* The initial states.                                                       *)

LEMMA InitIndInv == Init => IndInv
<1> SUFFICES ASSUME Init PROVE IndInv
  OBVIOUS
<1>1. NoPlan \in [slugs : UNION {[T -> TypeSlugs] : T \in SUBSET Type},
                  types : SUBSET Type, docs : SUBSET Doc]
  <2>1. [t \in {} |-> NoSlug] \in [{} -> TypeSlugs]
    OBVIOUS
  <2> QED
    BY <2>1 DEF NoPlan
<1>2. [f \in DateField |-> Absent] \in Patch
  BY DEF Patch, DateField
<1>3. NoDates \in Dates
  BY DEF NoDates, Dates
<1>4. TypeOK
  <2>1. dates \in [Doc -> Dates]
    BY <1>3 DEF Init
  <2>2. plan \in [slugs : UNION {[T -> TypeSlugs] : T \in SUBSET Type},
                 types : SUBSET Type, docs : SUBSET Doc]
    BY <1>1, Zenon DEF Init
  <2>3. patch \in [Request -> Patch]
    BY <1>2, Zenon DEF Init
  <2> QED
    BY <2>1, <2>2, <2>3 DEF Init, TypeOK
<1>5. \A r \in Request : pc[r] = "idle"
  BY DEF Init
<1>6. \A d \in Stored : dates[d]["publication"] \in Date /\ Ordered(dates[d])
  BY DEF Init, Stored, Exists
<1>7. \A d \in Doc : slug[d] = NoSlug
  BY DEF Init
<1>8. AbsentTypesHold /\ PlanHolds /\ BackfilledUnlessOvertaken
  BY DEF Init, AbsentTypesHold, PlanHolds, BackfilledUnlessOvertaken, Running
<1>9. CopiesHold /\ SlugFollowsType
  BY <1>5, <1>7 DEF CopiesHold, SlugFollowsType, Stored
<1>10. DatesHold /\ DatesOrderedUnlessRaced
  BY <1>5, <1>6 DEF DatesHold, DatesOrderedUnlessRaced
<1> QED
  BY <1>4, <1>8, <1>9, <1>10 DEF IndInv

-----------------------------------------------------------------------------
(* Every step preserves every conjunct of IndInv.                            *)

\* A save writes dates, one of them the publication, and a slug that was there.
LEMMA SaveWrites ==
    ASSUME IndInv, NEW r \in Request, Save(r), NEW d, d = on[r]
    PROVE  /\ d \in Stored
           /\ \A f \in DateField :
                 dates'[d][f] = IF f \in dirty[r] THEN patch[r][f] ELSE dates[d][f]
           /\ \A e \in Doc \ {d} : dates'[e] = dates[e] /\ slug'[e] = slug[e]
           /\ dates' \in [Doc -> Dates]
           /\ dates'[d]["publication"] \in Date
           /\ slug' \in [Doc -> DocSlugs \cup {NoSlug}]
           /\ slug'[d] = slug[d] \/ (slug'[d] = copy[r] /\ "slug" \in dirty[r])
           /\ Stored' = Stored
<1> DEFINE x == [f \in DateField |-> IF f \in dirty[r] THEN patch[r][f] ELSE dates[d][f]]
<1>1. d \in Doc /\ d \in Stored /\ pc[r] = "saving"
  BY DEF IndInv, TypeOK, CopiesHold, CopyHolds, Save, Stored
<1>2. patch[r] \in Patch /\ dates[d] \in Dates /\ copy[r] \in DocSlugs \cup {NoSlug}
  BY <1>1 DEF IndInv, TypeOK
<1>3. \A f \in DateField : f \in dirty[r] => patch[r][f] \in Date \cup {NoDate}
  BY <1>1, <1>2 DEF IndInv, DatesHold, Patch
<1>4. x \in Dates
  BY <1>2, <1>3 DEF Dates
<1>5. dates' = [dates EXCEPT ![d] = x]
  BY DEF Save
<1>6. slug' = [slug EXCEPT ![d] = IF "slug" \in dirty[r] THEN copy[r] ELSE slug[d]]
  BY <1>1 DEF Save, IndInv, TypeOK
<1>7. x["publication"] \in Date
  <2>1. dates[d]["publication"] \in Date
    BY <1>1 DEF IndInv, DatesHold
  <2>2. patch[r]["publication"] # NoDate
    BY <1>2 DEF Patch
  <2> QED
    BY <1>3, <2>1, <2>2 DEF DateField
<1>8. x # NoDates
  BY <1>7 DEF NoDates, DateField
<1>9. dates'[d] = x /\ dates' \in [Doc -> Dates] /\ \A e \in Doc \ {d} : dates'[e] = dates[e]
  BY <1>1, <1>4, <1>5 DEF IndInv, TypeOK
<1>10. /\ slug' \in [Doc -> DocSlugs \cup {NoSlug}]
       /\ \A e \in Doc \ {d} : slug'[e] = slug[e]
       /\ slug'[d] = slug[d] \/ (slug'[d] = copy[r] /\ "slug" \in dirty[r])
  <2>1. slug \in [Doc -> DocSlugs \cup {NoSlug}]
    BY DEF IndInv, TypeOK
  <2>2. CASE "slug" \in dirty[r]
    BY <1>1, <1>2, <1>6, <2>1, <2>2
  <2>3. CASE "slug" \notin dirty[r]
    <3>1. slug' = [slug EXCEPT ![d] = slug[d]]
      BY <1>6, <2>3
    <3> QED
      BY <1>1, <2>1, <3>1
  <2> QED
    BY <2>2, <2>3
<1>11. Stored' = Stored
  <2> HIDE DEF x
  <2>1. \A e \in Doc : dates'[e] # NoDates <=> dates[e] # NoDates
    BY <1>1, <1>8, <1>9 DEF Stored, Exists
  <2> QED
    BY <2>1 DEF Stored, Exists
<1> QED
  BY <1>1, <1>7, <1>9, <1>10, <1>11

\* A creation stores a document under the slug of its type.
LEMMA CreateDocumentWrites ==
    ASSUME IndInv, NEW d \in Doc, NEW x \in Dates, CreateDocument(d, x)
    PROVE  /\ d \notin Stored
           /\ Stored' = Stored \cup {d}
           /\ typeSlug[Owner[d]] \in TypeSlugs
           /\ slug' = [slug EXCEPT ![d] = Slug(typeSlug[Owner[d]], d)]
           /\ slug'[d] # NoSlug
           /\ \A e \in Doc \ {d} : slug'[e] = slug[e]
           /\ dates' = [dates EXCEPT ![d] = x]
           /\ x["publication"] \in Date /\ Ordered(x)
<1>1. typeSlug[Owner[d]] \in TypeSlugs
  BY DEF CreateDocument, IndInv, TypeOK
<1>2. x # NoDates
  BY DEF CreateDocument, NoDates, DateField
<1>3. dates' = [dates EXCEPT ![d] = x] /\ ~Exists(d)
  BY DEF CreateDocument
<1>4. \A e \in Doc : dates'[e] # NoDates <=> e = d \/ dates[e] # NoDates
  BY <1>2, <1>3 DEF IndInv, TypeOK
<1>5. Stored' = Stored \cup {d} /\ d \notin Stored
  BY <1>3, <1>4 DEF Stored, Exists
<1>6. slug' = [slug EXCEPT ![d] = Slug(typeSlug[Owner[d]], d)]
  BY Zenon DEF CreateDocument
<1>7. slug'[d] = Slug(typeSlug[Owner[d]], d) /\ \A e \in Doc \ {d} : slug'[e] = slug[e]
  BY <1>6, Zenon DEF IndInv, TypeOK
<1>8. slug'[d] # NoSlug
  BY <1>1, <1>7, SlugsAreNotNull, Zenon
<1> QED
  BY <1>1, <1>3, <1>5, <1>6, <1>7, <1>8, Zenon DEF CreateDocument, Accepted

\* The script writes what it planned over what is still NULL.
LEMMA WriteSlugsWrites ==
    ASSUME IndInv, WriteSlugs
    PROVE  /\ script = "documents read"
           /\ typeSlug' \in [Type -> TypeSlugs \cup {NoSlug}]
           /\ slug' \in [Doc -> DocSlugs \cup {NoSlug}]
           /\ \A t \in Type : typeSlug[t] # NoSlug => typeSlug'[t] = typeSlug[t]
           /\ \A t \in DOMAIN plan.slugs : typeSlug'[t] = plan.slugs[t] /\ typeSlug'[t] # NoSlug
           /\ \A t \in Types : typeSlug'[t] # NoSlug
           /\ \A d \in Doc : IF d \in plan.docs /\ slug[d] = NoSlug
                              THEN slug'[d] = Slug(typeSlug'[Owner[d]], d) /\ slug'[d] # NoSlug
                              ELSE slug'[d] = slug[d]
<1>1. plan \in [slugs : UNION {[T -> TypeSlugs] : T \in SUBSET Type},
                 types : SUBSET Type, docs : SUBSET Doc]
  BY DEF IndInv, TypeOK
<1>2. PICK T \in SUBSET Type : plan.slugs \in [T -> TypeSlugs]
  BY <1>1
<1>3. /\ script = "documents read"
      /\ \A t \in Types : typeSlug[t] = NoSlug => t \in plan.types
      /\ plan.types \subseteq T
      /\ \A t \in T : typeSlug[t] \in {NoSlug, plan.slugs[t]}
      /\ \A d \in plan.docs : Owner[d] \in T
      /\ T \subseteq Types
  BY <1>2 DEF IndInv, PlanHolds, Running, WriteSlugs
<1>4. typeSlug \in [Type -> TypeSlugs \cup {NoSlug}] /\ slug \in [Doc -> DocSlugs \cup {NoSlug}]
  BY DEF IndInv, TypeOK
<1>5. typeSlug' = [t \in Type |-> IF t \in plan.types /\ typeSlug[t] = NoSlug
                                   THEN plan.slugs[t] ELSE typeSlug[t]]
  BY DEF WriteSlugs
<1>6. slug' = [d \in Doc |-> IF d \in plan.docs /\ slug[d] = NoSlug
                             THEN Slug(plan.slugs[Owner[d]], d) ELSE slug[d]]
  BY DEF WriteSlugs
<1>7. \A t \in T : plan.slugs[t] \in TypeSlugs /\ plan.slugs[t] # NoSlug
  BY <1>2, SlugsAreNotNull
<1>8. \A t \in Types : t \in Type
  BY DEF Types
<1>9. /\ typeSlug' \in [Type -> TypeSlugs \cup {NoSlug}]
      /\ \A t \in Type : typeSlug[t] # NoSlug => typeSlug'[t] = typeSlug[t]
      /\ \A t \in Types : typeSlug'[t] # NoSlug
  BY <1>3, <1>4, <1>5, <1>7, <1>8
<1>10. \A t \in T : typeSlug'[t] = plan.slugs[t]
  <2>1. ASSUME NEW t \in T PROVE typeSlug'[t] = plan.slugs[t]
    <3>1. t \in Types /\ t \in Type
      BY <1>3, <1>8
    <3>2. typeSlug[t] = NoSlug => t \in plan.types
      BY <1>3, <3>1
    <3> QED
      BY <1>3, <1>5, <3>1, <3>2
  <2> QED
    BY <2>1
<1>11. ASSUME NEW d \in Doc
       PROVE  /\ slug'[d] \in DocSlugs \cup {NoSlug}
              /\ IF d \in plan.docs /\ slug[d] = NoSlug
                 THEN slug'[d] = Slug(typeSlug'[Owner[d]], d) /\ slug'[d] # NoSlug
                 ELSE slug'[d] = slug[d]
  <2>1. CASE d \in plan.docs /\ slug[d] = NoSlug
    <3>1. Owner[d] \in T
      BY <1>3, <2>1
    <3>2. slug'[d] = Slug(plan.slugs[Owner[d]], d)
      BY <1>6, <2>1
    <3>3. Slug(plan.slugs[Owner[d]], d) \in DocSlugs /\ Slug(plan.slugs[Owner[d]], d) # NoSlug
      BY <1>7, <3>1, SlugsAreNotNull
    <3> QED
      BY <1>10, <2>1, <3>1, <3>2, <3>3, Zenon
  <2>2. CASE ~(d \in plan.docs /\ slug[d] = NoSlug)
    BY <1>4, <1>6, <2>2
  <2> QED
    BY <2>1, <2>2
<1>12. slug' \in [Doc -> DocSlugs \cup {NoSlug}]
  BY <1>6, <1>11
<1>13. DOMAIN plan.slugs = T
  BY <1>2
<1> QED
  BY <1>3, <1>7, <1>9, <1>10, <1>11, <1>12, <1>13, Zenon

\* Every handler keeps the types.
LEMMA TypeOKStep ==
    ASSUME IndInv, Next
    PROVE  TypeOK'
<1> DEFINE Plans == [slugs : UNION {[T -> TypeSlugs] : T \in SUBSET Type},
                     types : SUBSET Type, docs : SUBSET Doc]
<1> USE DEF TypeOK
<1>0. TypeOK /\ plan \in Plans
  BY DEF IndInv
<1>1. NoPlan \in Plans
  <2>1. [t \in {} |-> NoSlug] \in [{} -> TypeSlugs]
    OBVIOUS
  <2> QED
    BY <2>1 DEF NoPlan
<1> HIDE DEF Plans
<1>2. ASSUME NEW t \in Type, NEW n \in Name, CreateType(t, n) PROVE TypeOK'
  BY <1>0, <1>2 DEF CreateType, TypeSlugs, handlers, history
<1>3. ASSUME NEW t \in Type, NEW n \in Name, RenameType(t, n) PROVE TypeOK'
  BY <1>0, <1>3 DEF RenameType, handlers, history
<1>4. ASSUME NEW d \in Doc, NEW x \in Dates, CreateDocument(d, x) PROVE TypeOK'
  BY <1>0, <1>4, CreateDocumentWrites, SlugsAreNotNull DEF CreateDocument, handlers, history
<1>5. ASSUME NEW r \in Request, NEW d \in Doc, NEW p \in Patch, Update(r, d, p) PROVE TypeOK'
  BY <1>0, <1>5 DEF Update, history
<1>6. ASSUME NEW r \in Request, Compare(r) PROVE TypeOK'
  BY <1>0, <1>6 DEF Compare, history
<1>7. ASSUME NEW r \in Request, Save(r) PROVE TypeOK'
  <2>1. on[r] \in Doc
    BY <1>0
  <2>2. dates' \in [Doc -> Dates] /\ slug' \in [Doc -> DocSlugs \cup {NoSlug}]
    BY <1>7, SaveWrites
  <2>3. raced' \subseteq Doc /\ partial' \subseteq Doc
    BY <1>0, <1>7, <2>1 DEF Save
  <2>4. pc' \in [Request -> {"idle", "comparing", "saving"}]
    BY <1>0, <1>7 DEF Save
  <2>5. UNCHANGED <<name, typeSlug, on, patch, copy, dirty, script, plan, backfilled, overtaken>>
    BY <1>7 DEF Save
  <2> QED
    BY <1>0, <2>2, <2>3, <2>4, <2>5
<1>8. ASSUME NEW r \in Request, UpdateFails(r) PROVE TypeOK'
  BY <1>0, <1>8 DEF UpdateFails, history
<1>9. ASSUME ReadTypes PROVE TypeOK'
  <2>1. plan' \in Plans
    BY <1>0, <1>1, <1>9, ReadTypesPlan DEF Plans
  <2>2. script' \in {"types read", "failed"}
    BY <1>0, <1>9, ReadTypesPlan
  <2> QED
    BY <1>0, <1>9, <2>1, <2>2 DEF ReadTypes, handlers, history, Plans
<1>10. ASSUME ReadDocuments PROVE TypeOK'
  <2>1. plan' \in Plans /\ script' \in {"documents read", "failed"}
    <3>1. [plan EXCEPT !.docs = {d \in Stored : slug[d] = NoSlug}] \in Plans
      BY <1>0 DEF Plans, Stored
    <3> QED
      BY <1>0, <1>1, <1>10, <3>1, ReadDocumentsPlan
  <2> QED
    BY <1>0, <1>10, <2>1 DEF ReadDocuments, handlers, history, Plans
<1>11. ASSUME WriteSlugs PROVE TypeOK'
  <2>1. overtaken' \subseteq Doc
    BY <1>0, <1>11 DEF WriteSlugs, Plans
  <2> QED
    BY <1>0, <1>1, <1>11, <2>1, WriteSlugsWrites DEF WriteSlugs, handlers, Plans
<1>12. ASSUME ScriptFails PROVE TypeOK'
  BY <1>0, <1>1, <1>12 DEF ScriptFails, handlers, history, Plans
<1> HIDE DEF TypeOK
<1> QED
  BY <1>2, <1>3, <1>4, <1>5, <1>6, <1>7, <1>8, <1>9, <1>10, <1>11, <1>12 DEF Next, Step

\* While the script runs a type gets a slug from who creates it only, and a
\* document loses one to an old copy only.
LEMMA PlanHoldsStep ==
    ASSUME IndInv, Next
    PROVE  PlanHolds'
<1> USE DEF PlanHolds, Running
<1>0. TypeOK /\ PlanHolds
  BY DEF IndInv
<1>1. script' \in {"idle", "completed", "failed"} => PlanHolds'
  OBVIOUS
<1>2. ASSUME NEW t \in Type, NEW n \in Name, CreateType(t, n) PROVE PlanHolds'
  <2>1. /\ t \notin Types /\ Types' = Types \cup {t}
        /\ typeSlug' = [typeSlug EXCEPT ![t] = NameSlug[n]]
    <3>1. /\ name[t] = NoName /\ name' = [name EXCEPT ![t] = n]
          /\ typeSlug' = [typeSlug EXCEPT ![t] = NameSlug[n]]
      BY <1>2 DEF CreateType
    <3>2. n # NoName
      OBVIOUS
    <3>3. \A u \in Type : name'[u] # NoName <=> u = t \/ name[u] # NoName
      BY <1>0, <3>1, <3>2 DEF TypeOK
    <3> QED
      BY <3>1, <3>3 DEF Types
  <2>2. NameSlug[n] # NoSlug
    BY SlugsAreNotNull DEF TypeSlugs
  <2>3. \A u \in Types : u \in Type /\ typeSlug'[u] = typeSlug[u]
    BY <1>0, <2>1 DEF TypeOK, Types
  <2>4. typeSlug'[t] # NoSlug
    BY <1>0, <2>1, <2>2 DEF TypeOK
  <2>5. UNCHANGED <<slug, dates, script, plan, overtaken>> /\ Stored' = Stored
    BY <1>2 DEF CreateType, history, Stored, Exists
  <2> QED
    BY <1>0, <2>1, <2>3, <2>4, <2>5
<1>3. ASSUME NEW t \in Type, NEW n \in Name, RenameType(t, n) PROVE PlanHolds'
  <2>1. Types' = Types
    BY <1>0, <1>3 DEF RenameType, TypeOK, Types
  <2> QED
    BY <1>0, <1>3, <2>1 DEF RenameType, history, Stored, Exists
<1>4. ASSUME NEW d \in Doc, NEW x \in Dates, CreateDocument(d, x) PROVE PlanHolds'
  <2>1. slug'[d] # NoSlug /\ \A e \in Stored : slug'[e] = slug[e]
    BY <1>4, CreateDocumentWrites DEF Stored
  <2>2. UNCHANGED <<name, typeSlug, script, plan, overtaken>> /\ Types' = Types
    BY <1>4 DEF CreateDocument, history, Types
  <2>3. Stored' = Stored \cup {d}
    BY <1>4, CreateDocumentWrites
  <2> QED
    BY <1>0, <2>1, <2>2, <2>3
<1>5. ASSUME NEW r \in Request, Save(r) PROVE PlanHolds'
  <2>1. UNCHANGED <<name, typeSlug, script, plan, overtaken>> /\ Types' = Types /\ Stored' = Stored
    BY <1>5, SaveWrites DEF Save, Types
  <2>2. ASSUME NEW d \in Stored, slug'[d] = NoSlug, slug[d] # NoSlug PROVE d \in overtaken
    <3>1. d = on[r] /\ copy[r] = NoSlug /\ "slug" \in dirty[r] /\ pc[r] = "saving"
      BY <1>5, <2>2, SaveWrites DEF Save, Stored
    <3> QED
      BY <2>2, <3>1 DEF IndInv, CopiesHold, CopyHolds
  <2> QED
    BY <1>0, <2>1, <2>2
<1>6. ASSUME ReadTypes PROVE PlanHolds'
  <2>1. CASE script' = "failed"
    BY <2>1
  <2>2. CASE script' # "failed"
    BY <1>0, <1>6, <2>2, ReadTypesPlan DEF ReadTypes, Types
  <2> QED
    BY <2>1, <2>2
<1>7. ASSUME ReadDocuments PROVE PlanHolds'
  <2>1. UNCHANGED <<name, typeSlug, slug, dates, overtaken>> /\ Types' = Types /\ Stored' = Stored
    BY <1>7 DEF ReadDocuments, history, Types, Stored, Exists
  <2>2. CASE /\ script' = "documents read"
             /\ plan' = [plan EXCEPT !.docs = {d \in Stored : slug[d] = NoSlug}]
             /\ \A d \in Stored : slug[d] = NoSlug => Owner[d] \in DOMAIN plan.slugs
    <3>1. /\ plan'.slugs = plan.slugs /\ plan'.types = plan.types
          /\ plan'.docs = {d \in Stored : slug[d] = NoSlug}
      BY <1>0, <2>2 DEF TypeOK
    <3>2. script = "types read"
      BY <1>0, <1>7, ReadDocumentsPlan
    <3> QED
      BY <1>0, <2>1, <2>2, <3>1, <3>2
  <2> QED
    BY <1>0, <1>1, <1>7, <2>2, ReadDocumentsPlan
<1>8. ASSUME NEW r \in Request, NEW d \in Doc, NEW p \in Patch, Update(r, d, p) PROVE PlanHolds'
  BY <1>0, <1>8 DEF Update, history, Types, Stored, Exists
<1>9. ASSUME NEW r \in Request, Compare(r) \/ UpdateFails(r) PROVE PlanHolds'
  BY <1>0, <1>9 DEF Compare, UpdateFails, history, Types, Stored, Exists
<1>10. ASSUME WriteSlugs \/ ScriptFails PROVE PlanHolds'
  BY <1>1, <1>10 DEF WriteSlugs, ScriptFails
<1> HIDE DEF PlanHolds
<1> QED
  BY <1>2, <1>3, <1>4, <1>5, <1>6, <1>7, <1>8, <1>9, <1>10 DEF Next, Step

\* No type loses its name.
LEMMA AbsentTypesHoldStep ==
    ASSUME IndInv, Next
    PROVE  AbsentTypesHold'
<1> USE DEF AbsentTypesHold
<1>0. TypeOK /\ AbsentTypesHold
  BY DEF IndInv
<1>1. ASSUME NEW t \in Type, NEW n \in Name, CreateType(t, n) PROVE AbsentTypesHold'
  BY <1>0, <1>1 DEF CreateType, TypeOK
<1>2. ASSUME NEW t \in Type, NEW n \in Name, RenameType(t, n) PROVE AbsentTypesHold'
  BY <1>0, <1>2 DEF RenameType, TypeOK
<1>3. ASSUME WriteSlugs PROVE AbsentTypesHold'
  <2>1. ASSUME NEW t \in Type, name[t] = NoName PROVE t \notin plan.types
    BY <1>3, <2>1 DEF IndInv, PlanHolds, WriteSlugs, Running, Types
  <2> QED
    BY <1>0, <1>3, <2>1 DEF WriteSlugs
<1>4. ASSUME UNCHANGED <<name, typeSlug>> PROVE AbsentTypesHold'
  BY <1>0, <1>4
<1> HIDE DEF AbsentTypesHold
<1> QED
  BY <1>1, <1>2, <1>3, <1>4 DEF Next, Step, CreateDocument, Update, Compare, Save, UpdateFails,
     ReadTypes, ReadDocuments, ScriptFails

\* A type that has a slug keeps it.
LEMMA TypesKeepSlugs ==
    ASSUME IndInv, Next, NEW t \in Type, typeSlug[t] # NoSlug
    PROVE  typeSlug'[t] = typeSlug[t]
<1>1. ASSUME NEW u \in Type, NEW n \in Name, CreateType(u, n) PROVE typeSlug'[t] = typeSlug[t]
  BY <1>1 DEF CreateType, IndInv, TypeOK, AbsentTypesHold
<1>2. ASSUME WriteSlugs PROVE typeSlug'[t] = typeSlug[t]
  BY <1>2, WriteSlugsWrites
<1> QED
  BY <1>1, <1>2 DEF Next, Step, RenameType, CreateDocument, Update, Compare, Save, UpdateFails,
     ReadTypes, ReadDocuments, ScriptFails

\* Types keep their slugs, and the slug of a document only becomes another than
\* a copy of it if it is NULL in the copy, which the script sees.
LEMMA CopiesHoldStep ==
    ASSUME IndInv, Next
    PROVE  CopiesHold'
<1>0. TypeOK /\ SlugFollowsType /\ CopiesHold
  BY DEF IndInv
<1>1. ASSUME NEW r \in Request, pc[r] # "idle", UNCHANGED <<on, patch, copy>>,
             Exists(on[r]) => Exists(on[r])',
             (pc'[r] = "comparing" \/ "slug" \in dirty'[r]) /\ copy[r] # slug'[on[r]] =>
                on[r] \in overtaken'
      PROVE  CopyHolds(r)'
  <2>1. CopyHolds(r) /\ on[r] \in Doc /\ Owner[on[r]] \in Type
    BY <1>0, <1>1 DEF CopiesHold, TypeOK
  <2>2. typeSlug[Owner[on[r]]] # NoSlug => typeSlug'[Owner[on[r]]] = typeSlug[Owner[on[r]]]
    BY <2>1, TypesKeepSlugs
  <2> QED
    BY <1>1, <2>1, <2>2 DEF CopyHolds, Slug, Accepted, Exists
<1>2. ASSUME UNCHANGED handlers, UNCHANGED overtaken, \A d \in Stored : slug'[d] = slug[d],
             \A d \in Stored : d \in Stored'
      PROVE  CopiesHold'
  <2>1. ASSUME NEW r \in Request, pc[r] # "idle" PROVE CopyHolds(r)'
    <3>1. CopyHolds(r) /\ on[r] \in Stored
      BY <1>0, <2>1 DEF CopiesHold, CopyHolds, TypeOK, Stored
    <3> QED
      BY <1>1, <1>2, <2>1, <3>1 DEF CopyHolds, handlers, Stored, Exists
  <2> QED
    BY <1>2, <2>1 DEF CopiesHold, handlers
<1>3. ASSUME NEW t \in Type, NEW n \in Name, CreateType(t, n) \/ RenameType(t, n)
      PROVE  CopiesHold'
  BY <1>2, <1>3 DEF CreateType, RenameType, history, Stored, Exists
<1>4. ASSUME NEW d \in Doc, NEW x \in Dates, CreateDocument(d, x) PROVE CopiesHold'
  <2>1. \A e \in Stored : slug'[e] = slug[e]
    BY <1>4, CreateDocumentWrites DEF Stored
  <2>2. \A e \in Stored : e \in Stored'
    BY <1>4, CreateDocumentWrites
  <2> QED
    BY <1>2, <1>4, <2>1, <2>2 DEF CreateDocument, history
<1>5. ASSUME ReadTypes \/ ReadDocuments \/ ScriptFails PROVE CopiesHold'
  BY <1>2, <1>5 DEF ReadTypes, ReadDocuments, ScriptFails, history, Stored, Exists
<1>6. ASSUME NEW r \in Request, NEW d \in Doc, NEW p \in Patch, Update(r, d, p) PROVE CopiesHold'
  <2>1. UNCHANGED <<typeSlug, slug, dates, overtaken, dirty>>
    BY <1>6 DEF Update, history
  <2>2. CopyHolds(r)'
    <3>1. /\ on'[r] = d /\ patch'[r] = p /\ copy'[r] = slug[d] /\ pc'[r] = "comparing"
          /\ Exists(d) /\ Accepted(p)
      BY <1>0, <1>6 DEF Update, TypeOK
    <3> QED
      BY <1>0, <2>1, <3>1 DEF CopyHolds, SlugFollowsType, Stored, Exists, Slug, Accepted
  <2>3. ASSUME NEW q \in Request \ {r}, pc'[q] # "idle" PROVE CopyHolds(q)'
    <3>1. /\ pc'[q] = pc[q] /\ on'[q] = on[q] /\ patch'[q] = patch[q] /\ copy'[q] = copy[q]
          /\ dirty'[q] = dirty[q]
      BY <1>0, <1>6, <2>1 DEF Update, TypeOK
    <3> QED
      BY <1>0, <2>1, <2>3, <3>1 DEF CopiesHold, CopyHolds, Exists, Slug, Accepted
  <2> QED
    BY <2>2, <2>3 DEF CopiesHold
<1>7. ASSUME NEW r \in Request, Compare(r) PROVE CopiesHold'
  <2>1. UNCHANGED <<slug, dates, on, patch, copy, overtaken>>
    BY <1>7 DEF Compare, history
  <2>2. ASSUME NEW q \in Request, pc'[q] # "idle" PROVE CopyHolds(q)'
    <3>1. pc[q] # "idle" /\ CopyHolds(q)
      BY <1>0, <1>7, <2>2 DEF Compare, TypeOK, CopiesHold
    <3>2. (pc'[q] = "comparing" \/ "slug" \in dirty'[q]) /\ copy[q] # slug[on[q]] =>
             pc[q] = "comparing" \/ "slug" \in dirty[q]
      BY <1>0, <1>7 DEF Compare, TypeOK
    <3> QED
      BY <1>1, <2>1, <3>1, <3>2 DEF CopyHolds, Exists
  <2> QED
    BY <2>2 DEF CopiesHold
<1>8. ASSUME NEW r \in Request, Save(r) PROVE CopiesHold'
  <2>1. UNCHANGED <<on, patch, copy, dirty, overtaken>> /\ Stored' = Stored
    BY <1>8, SaveWrites DEF Save
  <2>2. pc[r] = "saving" /\ CopyHolds(r)
    BY <1>0, <1>8 DEF Save, CopiesHold
  <2>3. slug'[on[r]] # slug[on[r]] => on[r] \in overtaken
    BY <1>8, <2>2, SaveWrites DEF CopyHolds
  <2>4. ASSUME NEW q \in Request, pc'[q] # "idle" PROVE CopyHolds(q)'
    <3>1. q # r /\ pc'[q] = pc[q] /\ pc[q] # "idle" /\ CopyHolds(q) /\ on[q] \in Doc
      BY <1>0, <1>8, <2>4 DEF Save, TypeOK, CopiesHold
    <3>2. slug'[on[q]] # slug[on[q]] => on[q] \in overtaken
      <4>1. \A e \in Doc \ {on[r]} : slug'[e] = slug[e]
        BY <1>8, SaveWrites
      <4> QED
        BY <2>3, <3>1, <4>1, Zenon
    <3>3. Exists(on[q]) => Exists(on[q])'
      BY <2>1, <3>1 DEF Stored, Exists
    <3> QED
      BY <1>1, <2>1, <3>1, <3>2, <3>3 DEF CopyHolds
  <2> QED
    BY <2>4 DEF CopiesHold
<1>9. ASSUME NEW r \in Request, UpdateFails(r) PROVE CopiesHold'
  <2>1. UNCHANGED <<slug, dates, on, patch, copy, dirty, overtaken>>
    BY <1>9 DEF UpdateFails, history
  <2>2. ASSUME NEW q \in Request, pc'[q] # "idle" PROVE CopyHolds(q)'
    <3>1. pc[q] # "idle" /\ pc'[q] = pc[q] /\ CopyHolds(q)
      BY <1>0, <1>9, <2>2 DEF UpdateFails, TypeOK, CopiesHold
    <3> QED
      BY <1>1, <2>1, <3>1 DEF CopyHolds, Exists
  <2> QED
    BY <2>2 DEF CopiesHold
<1>10. ASSUME WriteSlugs PROVE CopiesHold'
  <2> DEFINE docs == {d \in plan.docs : slug[d] = NoSlug}
  <2>1. UNCHANGED <<dates, pc, on, patch, copy, dirty>>
    BY <1>10 DEF WriteSlugs, handlers
  <2>2. overtaken' = (overtaken \ docs)
          \cup {d \in docs : \E r \in Request : on[r] = d /\ HoldsOldCopy(r)}
    BY <1>10 DEF WriteSlugs
  <2>3. ASSUME NEW q \in Request, pc[q] # "idle",
               pc[q] = "comparing" \/ "slug" \in dirty[q], copy[q] # slug'[on[q]]
        PROVE  on[q] \in overtaken'
    <3>1. /\ CopyHolds(q) /\ on[q] \in Doc /\ Owner[on[q]] \in Type
          /\ pc[q] \in {"comparing", "saving"}
      BY <1>0, <2>3 DEF CopiesHold, TypeOK
    <3>2. CASE on[q] \notin docs
      <4>1. slug'[on[q]] = slug[on[q]]
        BY <1>10, <3>1, <3>2, WriteSlugsWrites
      <4> QED
        BY <2>2, <2>3, <3>1, <3>2, <4>1 DEF CopyHolds
    <3>3. CASE on[q] \in docs
      <4>1. slug'[on[q]] = Slug(typeSlug'[Owner[on[q]]], on[q])
        BY <1>10, <3>1, <3>3, WriteSlugsWrites
      <4>2. copy[q] = NoSlug
        <5>1. SUFFICES ASSUME copy[q] # NoSlug PROVE FALSE
          OBVIOUS
        <5>2. /\ typeSlug[Owner[on[q]]] # NoSlug
              /\ copy[q] = Slug(typeSlug[Owner[on[q]]], on[q])
          BY <3>1, <5>1 DEF CopyHolds
        <5>3. typeSlug'[Owner[on[q]]] = typeSlug[Owner[on[q]]]
          BY <3>1, <5>2, TypesKeepSlugs
        <5> QED
          BY <2>3, <4>1, <5>2, <5>3
      <4>3. HoldsOldCopy(q)
        BY <2>3, <3>1, <4>2 DEF HoldsOldCopy
      <4> QED
        BY <2>2, <3>3, <4>3
    <3> QED
      BY <3>2, <3>3
  <2>4. ASSUME NEW q \in Request, pc[q] # "idle" PROVE CopyHolds(q)'
    BY <1>1, <2>1, <2>3, <2>4 DEF Exists
  <2> QED
    BY <2>1, <2>4 DEF CopiesHold
<1> QED
  BY <1>3, <1>4, <1>5, <1>6, <1>7, <1>8, <1>9, <1>10 DEF Next, Step

\* A save under way knows what differs, unless another wrote meanwhile.
LEMMA DatesHoldStep ==
    ASSUME IndInv, Next
    PROVE  DatesHold'
<1>0. TypeOK /\ DatesHold /\ CopiesHold
  BY DEF IndInv
<1>1. ASSUME UNCHANGED <<dates, handlers, raced>> PROVE DatesHold'
  BY <1>0, <1>1 DEF DatesHold, handlers, Stored, Exists
<1>2. ASSUME NEW d \in Doc, NEW x \in Dates, CreateDocument(d, x) PROVE DatesHold'
  <2>1. /\ Stored' = Stored \cup {d} /\ d \notin Stored /\ dates' = [dates EXCEPT ![d] = x]
        /\ x["publication"] \in Date /\ UNCHANGED <<handlers, raced>>
    BY <1>2, CreateDocumentWrites DEF CreateDocument, history
  <2>2. dates'[d] = x /\ \A e \in Stored : dates'[e] = dates[e]
    BY <1>0, <2>1 DEF TypeOK, Stored
  <2>3. \A r \in Request : pc[r] # "idle" => on[r] \in Stored
    BY <1>0 DEF TypeOK, CopiesHold, CopyHolds, Stored
  <2> QED
    BY <1>0, <2>1, <2>2, <2>3 DEF DatesHold, handlers
<1>3. ASSUME NEW r \in Request, NEW d \in Doc, NEW p \in Patch, Update(r, d, p) PROVE DatesHold'
  <2>1. UNCHANGED <<dates, dirty, raced>> /\ Stored' = Stored
    BY <1>3 DEF Update, history, Stored, Exists
  <2>2. /\ pc'[r] # "saving"
        /\ \A q \in Request \ {r} : pc'[q] = pc[q] /\ on'[q] = on[q] /\ patch'[q] = patch[q]
    BY <1>0, <1>3 DEF Update, TypeOK
  <2>3. ASSUME NEW q \in Request, pc'[q] = "saving"
        PROVE  /\ \A f \in DateField : f \in dirty[q] => patch'[q][f] # Absent
               /\ on'[q] \notin raced => \A f \in DateField :
                     f \in dirty[q] <=> patch'[q][f] \notin {Absent, dates[on'[q]][f]}
    <3>1. pc[q] = "saving" /\ on'[q] = on[q] /\ patch'[q] = patch[q]
      BY <2>2, <2>3
    <3> QED
      BY <1>0, <2>3, <3>1 DEF DatesHold
  <2> QED
    BY <1>0, <2>1, <2>3 DEF DatesHold
<1>4. ASSUME NEW r \in Request, Compare(r) PROVE DatesHold'
  <2>1. UNCHANGED <<dates, on, patch, raced>> /\ Stored' = Stored
    BY <1>4 DEF Compare, history, Stored, Exists
  <2>2. \A f \in DateField : f \in dirty'[r] <=> patch[r][f] \notin {Absent, dates[on[r]][f]}
    BY <1>0, <1>4 DEF Compare, TypeOK, DateField
  <2>3. \A q \in Request \ {r} : pc'[q] = pc[q] /\ dirty'[q] = dirty[q]
    BY <1>0, <1>4 DEF Compare, TypeOK
  <2>4. \A f \in DateField : f \in dirty'[r] => patch[r][f] # Absent
    BY <2>2
  <2>5. ASSUME NEW q \in Request, pc'[q] = "saving"
        PROVE  /\ \A f \in DateField : f \in dirty'[q] => patch[q][f] # Absent
               /\ on[q] \notin raced => \A f \in DateField :
                     f \in dirty'[q] <=> patch[q][f] \notin {Absent, dates[on[q]][f]}
    <3>1. CASE q = r
      BY <2>2, <2>4, <3>1
    <3>2. CASE q # r
      BY <1>0, <2>3, <2>5, <3>2 DEF DatesHold
    <3> QED
      BY <3>1, <3>2
  <2> QED
    BY <1>0, <2>1, <2>5 DEF DatesHold
<1>5. ASSUME NEW r \in Request, Save(r) PROVE DatesHold'
  <2>1. UNCHANGED <<on, patch, dirty>> /\ Stored' = Stored /\ pc' = [pc EXCEPT ![r] = "idle"]
    BY <1>5, SaveWrites DEF Save
  <2>2. \A q \in Request : pc'[q] = "saving" => q # r /\ pc[q] = "saving"
    BY <1>0, <2>1 DEF TypeOK
  <2>3. /\ dates'[on[r]]["publication"] \in Date
        /\ \A e \in Doc \ {on[r]} : dates'[e] = dates[e]
    BY <1>5, SaveWrites
  <2>4. \A q \in Request : on[q] \in Doc
    BY <1>0 DEF TypeOK
  <2>5. raced \subseteq raced'
    BY <1>5 DEF Save
  <2>6. ASSUME NEW q \in Request, pc'[q] = "saving", on[q] \notin raced'
        PROVE  dates'[on[q]] = dates[on[q]]
    BY <1>5, <2>2, <2>3, <2>4, <2>6 DEF Save
  <2>7. \A e \in Stored : dates'[e]["publication"] \in Date
    BY <1>0, <2>3 DEF DatesHold, Stored
  <2>8. \A q \in Request : pc'[q] = "saving" /\ on[q] \notin raced' =>
           \A f \in DateField : f \in dirty[q] <=> patch[q][f] \notin {Absent, dates'[on[q]][f]}
    BY <1>0, <2>2, <2>5, <2>6 DEF DatesHold
  <2> QED
    BY <1>0, <2>1, <2>2, <2>7, <2>8 DEF DatesHold
<1>6. ASSUME NEW r \in Request, UpdateFails(r) PROVE DatesHold'
  <2>1. UNCHANGED <<dates, on, patch, dirty, raced>> /\ Stored' = Stored
    BY <1>6 DEF UpdateFails, history, Stored, Exists
  <2>2. \A q \in Request : pc'[q] = "saving" => pc[q] = "saving"
    BY <1>0, <1>6 DEF UpdateFails, TypeOK
  <2> QED
    BY <1>0, <2>1, <2>2 DEF DatesHold
<1> QED
  BY <1>1, <1>2, <1>3, <1>4, <1>5, <1>6 DEF Next, Step, CreateType, RenameType,
     ReadTypes, ReadDocuments, WriteSlugs, ScriptFails, history

\* The dates that a save leaves are of each pair both its own, which were
\* compared, or both those that were there.
LEMMA DatesOrderedStep ==
    ASSUME IndInv, Next
    PROVE  DatesOrderedUnlessRaced'
<1>0. TypeOK /\ DatesHold /\ CopiesHold /\ DatesOrderedUnlessRaced
  BY DEF IndInv
<1>1. ASSUME UNCHANGED <<dates, raced, partial>> PROVE DatesOrderedUnlessRaced'
  BY <1>0, <1>1 DEF DatesOrderedUnlessRaced, Stored, Exists
<1>2. ASSUME NEW d \in Doc, NEW x \in Dates, CreateDocument(d, x) PROVE DatesOrderedUnlessRaced'
  <2>1. /\ Stored' = Stored \cup {d} /\ d \notin Stored /\ dates' = [dates EXCEPT ![d] = x]
        /\ Ordered(x) /\ UNCHANGED <<raced, partial>>
    BY <1>2, CreateDocumentWrites DEF CreateDocument, history
  <2>2. dates'[d] = x /\ \A e \in Stored : dates'[e] = dates[e]
    BY <1>0, <2>1 DEF TypeOK, Stored
  <2> QED
    BY <1>0, <2>1, <2>2 DEF DatesOrderedUnlessRaced
<1>3. ASSUME NEW r \in Request, Save(r) PROVE DatesOrderedUnlessRaced'
  <2> DEFINE d == on[r]
             p == patch[r]
             old == dates[d]
             new == dates'[d]
  <2>1. /\ d \in Stored /\ Stored' = Stored
        /\ \A e \in Doc \ {d} : dates'[e] = dates[e]
        /\ \A f \in DateField : new[f] = IF f \in dirty[r] THEN p[f] ELSE old[f]
    BY <1>3, SaveWrites
  <2>2. raced \subseteq raced' /\ partial \subseteq partial'
    BY <1>3 DEF Save
  <2>3. ASSUME d \notin raced' \cup partial' PROVE Ordered(new)
    <3>1. ~Partial(p) /\ pc[r] = "saving"
      BY <1>3, <2>3 DEF Save
    <3>2. Ordered(old)
      BY <1>0, <2>1, <2>2, <2>3 DEF DatesOrderedUnlessRaced
    <3>3. Ordered(p)
      BY <1>0, <3>1 DEF CopiesHold, CopyHolds, Accepted
    <3>4. \A f \in DateField : f \in dirty[r] <=> p[f] \notin {Absent, old[f]}
      BY <1>0, <2>2, <2>3, <3>1 DEF DatesHold
    <3>5. \A f \in DateField : new[f] = IF p[f] = Absent THEN old[f] ELSE p[f]
      BY <2>1, <3>4
    <3>6. p \in Patch
      BY <1>0 DEF TypeOK
    <3>7. p["publication"] # NoDate /\ \A f \in DateField : p[f] \in Date \cup {NoDate, Absent}
      BY <3>6 DEF Patch
    <3>8. ASSUME NEW f \in {"promulgation", "validUntil"}, new[f] \in Date
          PROVE  p[f] = Absent <=> p["publication"] = Absent
      BY <3>1, <3>5, <3>7, <3>8 DEF Partial, DateField
    <3> HIDE DEF d, p, old, new
    <3>9. InOrder(new["promulgation"], new["publication"])
      BY <3>2, <3>3, <3>5, <3>8 DEF Ordered, InOrder, DateField
    <3>10. InOrder(new["publication"], new["validUntil"])
      BY <3>2, <3>3, <3>5, <3>8 DEF Ordered, InOrder, DateField
    <3> QED
      BY <3>9, <3>10 DEF Ordered
  <2> QED
    BY <1>0, <2>1, <2>2, <2>3 DEF DatesOrderedUnlessRaced, Stored
<1> QED
  BY <1>1, <1>2, <1>3 DEF Next, Step, CreateType, RenameType, Update, Compare, UpdateFails,
     ReadTypes, ReadDocuments, WriteSlugs, ScriptFails, history

\* Who writes a slug makes it from that of the type: the server and the script
\* from the type's row or the plan, a handler from what it had read.
LEMMA SlugFollowsTypeStep ==
    ASSUME IndInv, Next
    PROVE  SlugFollowsType'
<1>0. TypeOK /\ SlugFollowsType /\ CopiesHold
  BY DEF IndInv
<1>1. ASSUME NEW e \in Doc, slug'[e] # NoSlug,
             \/ e \in Stored /\ slug[e] # NoSlug /\ slug'[e] = slug[e]
             \/ typeSlug[Owner[e]] # NoSlug /\ slug'[e] = Slug(typeSlug[Owner[e]], e)
      PROVE  typeSlug'[Owner[e]] # NoSlug /\ slug'[e] = Slug(typeSlug'[Owner[e]], e)
  <2>1. typeSlug[Owner[e]] # NoSlug /\ slug'[e] = Slug(typeSlug[Owner[e]], e)
    BY <1>0, <1>1 DEF SlugFollowsType
  <2>2. Owner[e] \in Type
    OBVIOUS
  <2>3. typeSlug'[Owner[e]] = typeSlug[Owner[e]]
    BY <2>1, <2>2, TypesKeepSlugs
  <2> QED
    BY <2>1, <2>3
<1>2. ASSUME UNCHANGED <<slug, dates>> PROVE SlugFollowsType'
  BY <1>1, <1>2 DEF SlugFollowsType, Stored, Exists
<1>3. ASSUME NEW d \in Doc, NEW x \in Dates, CreateDocument(d, x) PROVE SlugFollowsType'
  <2>1. /\ Stored' = Stored \cup {d}
        /\ slug'[d] = Slug(typeSlug[Owner[d]], d) /\ typeSlug[Owner[d]] # NoSlug
        /\ \A e \in Doc \ {d} : slug'[e] = slug[e]
    <3>1. slug \in [Doc -> DocSlugs \cup {NoSlug}] /\ typeSlug[Owner[d]] \in TypeSlugs
      BY <1>0, <1>3, CreateDocumentWrites DEF TypeOK
    <3>2. slug' = [slug EXCEPT ![d] = Slug(typeSlug[Owner[d]], d)] /\ Stored' = Stored \cup {d}
      BY <1>3, CreateDocumentWrites
    <3>3. typeSlug[Owner[d]] # NoSlug
      BY <3>1, SlugsAreNotNull
    <3> QED
      BY <3>1, <3>2, <3>3
  <2> QED
    BY <1>1, <2>1 DEF SlugFollowsType, Stored
<1>4. ASSUME NEW r \in Request, Save(r) PROVE SlugFollowsType'
  <2>1. pc[r] # "idle" /\ CopyHolds(r)
    BY <1>0, <1>4 DEF Save, CopiesHold
  <2>2. ASSUME NEW e \in Stored', slug'[e] # NoSlug
        PROVE  \/ e \in Stored /\ slug[e] # NoSlug /\ slug'[e] = slug[e]
               \/ typeSlug[Owner[e]] # NoSlug /\ slug'[e] = Slug(typeSlug[Owner[e]], e)
    <3>1. e \in Stored /\ e \in Doc
      BY <1>4, SaveWrites DEF Stored
    <3>2. slug'[e] = slug[e] \/ (e = on[r] /\ slug'[e] = copy[r])
      BY <1>4, <3>1, SaveWrites
    <3> QED
      BY <2>1, <2>2, <3>1, <3>2 DEF CopyHolds
  <2> QED
    BY <1>1, <2>2 DEF SlugFollowsType, Stored
<1>5. ASSUME WriteSlugs PROVE SlugFollowsType'
  <2>1. Stored' = Stored
    BY <1>5 DEF WriteSlugs, Stored, Exists
  <2>2. ASSUME NEW d \in Stored, slug'[d] # NoSlug
        PROVE  typeSlug'[Owner[d]] # NoSlug /\ slug'[d] = Slug(typeSlug'[Owner[d]], d)
    <3>1. d \in Doc
      BY DEF Stored
    <3>2. CASE d \in plan.docs /\ slug[d] = NoSlug
      <4>1. Owner[d] \in DOMAIN plan.slugs
        BY <1>5, <3>2 DEF IndInv, PlanHolds, WriteSlugs
      <4> QED
        BY <1>5, <3>1, <3>2, <4>1, WriteSlugsWrites
    <3>3. CASE ~(d \in plan.docs /\ slug[d] = NoSlug)
      <4>1. slug'[d] = slug[d]
        BY <1>5, <3>1, <3>3, WriteSlugsWrites
      <4> QED
        BY <1>1, <2>2, <3>1, <4>1
    <3> QED
      BY <3>2, <3>3
  <2> QED
    BY <2>1, <2>2 DEF SlugFollowsType
<1> QED
  BY <1>2, <1>3, <1>4, <1>5 DEF Next, Step, CreateType, RenameType, Update, Compare, UpdateFails,
     ReadTypes, ReadDocuments, ScriptFails

\* The plan covers all that was NULL and, after the script, only an old copy
\* brings a NULL back.
LEMMA BackfilledStep ==
    ASSUME IndInv, Next
    PROVE  BackfilledUnlessOvertaken'
<1>0. TypeOK /\ CopiesHold /\ BackfilledUnlessOvertaken
  BY DEF IndInv
<1>1. ASSUME UNCHANGED <<slug, dates, backfilled, overtaken>>, \A t \in Types' : t \in Type,
             \A t \in Types' : t \notin Types => typeSlug'[t] # NoSlug
      PROVE  BackfilledUnlessOvertaken'
  BY <1>0, <1>1, TypesKeepSlugs DEF BackfilledUnlessOvertaken, Stored, Exists, Types
<1>2. ASSUME NEW t \in Type, NEW n \in Name, CreateType(t, n) PROVE BackfilledUnlessOvertaken'
  <2>1. name' = [name EXCEPT ![t] = n] /\ typeSlug' = [typeSlug EXCEPT ![t] = NameSlug[n]]
    BY <1>2 DEF CreateType
  <2>2. NameSlug[n] # NoSlug
    BY SlugsAreNotNull DEF TypeSlugs
  <2>3. \A u \in Types' : u \in Type /\ (u \notin Types => u = t)
    BY <1>0, <2>1 DEF TypeOK, Types
  <2>4. typeSlug'[t] # NoSlug
    BY <1>0, <2>1, <2>2 DEF TypeOK
  <2> QED
    BY <1>1, <1>2, <2>3, <2>4 DEF CreateType, history
<1>3. ASSUME NEW t \in Type, NEW n \in Name, RenameType(t, n) PROVE BackfilledUnlessOvertaken'
  <2>1. Types' = Types /\ \A u \in Types : u \in Type
    BY <1>0, <1>3 DEF RenameType, TypeOK, Types
  <2> QED
    BY <1>1, <1>3, <2>1 DEF RenameType, history
<1>4. ASSUME UNCHANGED <<name, slug, dates, backfilled, overtaken>> PROVE BackfilledUnlessOvertaken'
  BY <1>1, <1>4 DEF Types
<1>5. ASSUME NEW d \in Doc, NEW x \in Dates, CreateDocument(d, x) PROVE BackfilledUnlessOvertaken'
  <2>1. /\ Stored' = Stored \cup {d} /\ slug'[d] # NoSlug
        /\ \A e \in Doc \ {d} : slug'[e] = slug[e]
    BY <1>5, CreateDocumentWrites
  <2>2. UNCHANGED <<name, typeSlug, backfilled, overtaken>> /\ Types' = Types
    BY <1>5 DEF CreateDocument, history, Types
  <2> QED
    BY <1>0, <2>1, <2>2 DEF BackfilledUnlessOvertaken, Stored
<1>6. ASSUME NEW r \in Request, Save(r) PROVE BackfilledUnlessOvertaken'
  <2>1. UNCHANGED <<name, typeSlug, backfilled, overtaken>> /\ Types' = Types /\ Stored' = Stored
    BY <1>6, SaveWrites DEF Save, Types
  <2>2. ASSUME NEW d \in Stored, slug'[d] = NoSlug, slug[d] # NoSlug PROVE d \in overtaken
    <3>1. d = on[r] /\ copy[r] = NoSlug /\ "slug" \in dirty[r] /\ pc[r] = "saving"
      BY <1>6, <2>2, SaveWrites DEF Save, Stored
    <3> QED
      BY <1>0, <2>2, <3>1 DEF CopiesHold, CopyHolds
  <2> QED
    BY <1>0, <2>1, <2>2 DEF BackfilledUnlessOvertaken
<1>7. ASSUME WriteSlugs PROVE BackfilledUnlessOvertaken'
  <2>1. Types' = Types /\ Stored' = Stored
    BY <1>7 DEF WriteSlugs, Types, Stored, Exists
  <2>2. \A t \in Types : typeSlug'[t] # NoSlug
    BY <1>7, WriteSlugsWrites
  <2>3. ASSUME NEW d \in Stored, d \notin overtaken' PROVE slug'[d] # NoSlug
    <3>1. d \in Doc
      BY DEF Stored
    <3>2. CASE d \in plan.docs /\ slug[d] = NoSlug
      BY <1>7, <3>1, <3>2, WriteSlugsWrites
    <3>3. CASE ~(d \in plan.docs /\ slug[d] = NoSlug)
      <4>1. slug'[d] = slug[d]
        BY <1>7, <3>1, <3>3, WriteSlugsWrites
      <4>2. d \notin overtaken
        BY <1>7, <2>3, <3>3 DEF WriteSlugs
      <4>3. slug[d] = NoSlug => d \in plan.docs \cup overtaken
        BY <1>7 DEF IndInv, PlanHolds, WriteSlugs
      <4> QED
        BY <3>3, <4>1, <4>2, <4>3
    <3> QED
      BY <3>2, <3>3
  <2> QED
    BY <2>1, <2>2, <2>3 DEF BackfilledUnlessOvertaken
<1> QED
  BY <1>2, <1>3, <1>4, <1>5, <1>6, <1>7 DEF Next, Step, Update, Compare, UpdateFails,
     ReadTypes, ReadDocuments, ScriptFails, history

-----------------------------------------------------------------------------
(* The theorems.                                                             *)

LEMMA IndInvStep == IndInv /\ [Next]_vars => IndInv'
<1>1. ASSUME IndInv, Next PROVE IndInv'
  BY <1>1, TypeOKStep, AbsentTypesHoldStep, PlanHoldsStep, CopiesHoldStep, DatesHoldStep,
     SlugFollowsTypeStep, BackfilledStep, DatesOrderedStep, Zenon DEF IndInv
<1>2. ASSUME IndInv, UNCHANGED vars PROVE IndInv'
  <2>1. /\ UNCHANGED <<name, typeSlug, slug, dates, pc, on, patch, copy, dirty>>
        /\ UNCHANGED <<script, plan, backfilled, overtaken, raced, partial>>
    BY <1>2 DEF vars, handlers, history
  <2>2. Types' = Types /\ Stored' = Stored
    BY <2>1 DEF Types, Stored, Exists
  <2>3. TypeOK' /\ AbsentTypesHold' /\ PlanHolds'
    BY <1>2, <2>1, <2>2 DEF IndInv, TypeOK, AbsentTypesHold, PlanHolds, Running
  <2>4. CopiesHold'
    BY <1>2, <2>1 DEF IndInv, CopiesHold, CopyHolds, Exists, Accepted, Slug
  <2>5. DatesHold' /\ SlugFollowsType' /\ BackfilledUnlessOvertaken' /\ DatesOrderedUnlessRaced'
    BY <1>2, <2>1, <2>2 DEF IndInv, DatesHold, SlugFollowsType, BackfilledUnlessOvertaken,
       DatesOrderedUnlessRaced, Slug, Ordered
  <2> QED
    BY <2>3, <2>4, <2>5 DEF IndInv
<1> QED
  BY <1>1, <1>2

\* The server and the script keep IndInv, whatever they do and in whatever order.
THEOREM Invariance == Spec => []IndInv
<1>1. Init => IndInv
  BY InitIndInv
<1>2. IndInv /\ [Next]_vars => IndInv'
  BY IndInvStep
<1> QED
  BY <1>1, <1>2, PTL DEF Spec

\* Type correctness of handlers, script and tables.
THEOREM TypeCorrect == Spec => []TypeOK
<1>1. IndInv => TypeOK
  BY DEF IndInv
<1> QED
  BY <1>1, Invariance, PTL

\* For any number of types, documents, requests and runs of the script: the slug
\* of a document begins with that of its type.
THEOREM SlugsFollowTypes == Spec => []SlugFollowsType
<1>1. IndInv => SlugFollowsType
  BY DEF IndInv
<1> QED
  BY <1>1, Invariance, PTL

\* After a completed backfill a slug is missing only where a PATCH had read the
\* document without one.
THEOREM BackfillIsComplete == Spec => []BackfilledUnlessOvertaken
<1>1. IndInv => BackfilledUnlessOvertaken
  BY DEF IndInv
<1> QED
  BY <1>1, Invariance, PTL

\* The dates of a document get out of order only by a partial PATCH, which is
\* not compared with the row, or by two requests at once.
THEOREM DatesStayOrdered == Spec => []DatesOrderedUnlessRaced
<1>1. IndInv => DatesOrderedUnlessRaced
  BY DEF IndInv
<1> QED
  BY <1>1, Invariance, PTL
=============================================================================
