------------------------- MODULE PublicCatalog_proofs -------------------------
(***************************************************************************)
(* Theorems about PublicCatalog, for any finite set of documents with any  *)
(* keys, types and relations, any page sizes and any number of changes.    *)
(*                                                                         *)
(* The rank of a document is the number of those before it in the list.    *)
(* A page is the documents of the ranks from its offset on, because the    *)
(* order is total (PageByRank); and ranks grow only when a document before *)
(* joins, and shrink only when one leaves (RanksMove).  A page that comes  *)
(* back short has nothing after it, or one of its rows has left (PageFull).*)
(*                                                                         *)
(* The figures of the landing page are numbers of documents, and one of    *)
(* them is a sum over the types: it counts documents because the types     *)
(* divide them (SumOfCounts, by induction over the subsets of a finite     *)
(* set), and a change moves every number by at most one (ChangesMoveOne).  *)
(***************************************************************************)
EXTENDS PublicCatalog, FiniteSetTheorems, TLAPS

-----------------------------------------------------------------------------
(* Why they hold: an inductive invariant. *)

\* The visitor's history begins when it comes.
NothingYet ==
    pc = "away" =>
        /\ offset = 0 /\ ids = {} /\ seen = [d \in Doc |-> 0] /\ links = {}
        /\ joined = {} /\ left = {} /\ gone = {}

\* How many documents of the list are before d, which need not be in it.
Ahead(S, d) == {e \in S : Before(e, d)}
Rank(d) == Cardinality(Ahead(Matching, d))

\* What the visitor has read begins before this rank.
ReadTo == IF pc = "finding ids" THEN offset ELSE offset + limit
Reading == {"finding ids", "finding rows", "counting", "page"}

\* As long as nothing before it leaves, a document that stays can only move towards
\* the end of the list: if it was not read yet it is still ahead.
UnreadAhead ==
    \A d \in Matching \ (joined \cup left) :
        seen[d] = 0 /\ (\A e \in left : ~Before(e, d)) /\ pc \in Reading =>
            /\ ReadTo <= Rank(d) \/ (pc = "finding rows" /\ d \in ids)
            /\ pc = "page" => offset + limit < total

\* As long as nothing before it leaves, a document that was not read yet and is not on
\* the page has a full page before it, and all rows of the page are found.
PageFull ==
    \A d \in Matching \ (joined \cup left) :
        seen[d] = 0 /\ (\A e \in left : ~Before(e, d)) =>
            /\ pc = "finding rows" /\ d \notin ids =>
                  /\ Cardinality(ids) = limit
                  /\ \A e \in ids : Before(e, d) /\ e \in Matching
            /\ pc = "counting" => Cardinality(ids) = limit

\* As long as nothing before it joins, a document, in the list or not, can only move
\* towards the beginning: once it was read it stays behind.
ReadBehind ==
    \A d \in Doc : (\A e \in joined : ~Before(e, d)) =>
        /\ seen[d] <= 1
        /\ pc = "finding rows" /\ d \in ids => seen[d] = 0
        /\ pc \in Reading =>
              /\ seen[d] = 1 => Rank(d) < ReadTo
              /\ pc = "finding rows" /\ d \in ids => Rank(d) < ReadTo

\* Every link of the listing or the sitemap led to a published document once.
LinksLed ==
    \A link \in links : link[2] = "detail" \/ link[1] \in Published \cup gone

\* A figure is off by no more than the changes since it was asked for, and two are
\* apart by no more than the changes since the first of them.
Asked(q) == q \in DOMAIN answers
FiguresNear ==
    LET n == Cardinality(Published) IN
    /\ Asked("published") => answers["published"] \in Nat /\ n <= answers["published"] + changes
    /\ Asked("thisYear") => answers["thisYear"] \in Nat /\ answers["thisYear"] <= n + changes
    /\ Asked("types") =>
          /\ SumOf(answers["types"]) \in Nat /\ SumOf(answers["types"]) <= n + changes
          /\ Cardinality(DOMAIN answers["types"]) \in Nat
          /\ Cardinality(DOMAIN answers["types"]) <= Cardinality(active) + changes
    /\ Asked("activeTypes") =>
          /\ answers["activeTypes"] \in Nat
          /\ Cardinality(active) <= answers["activeTypes"] + changes
    /\ Asked("published") /\ Asked("thisYear") =>
          answers["thisYear"] <= answers["published"] + changes
    /\ Asked("published") /\ Asked("types") =>
          SumOf(answers["types"]) <= answers["published"] + changes
    /\ Asked("activeTypes") /\ Asked("types") =>
          Cardinality(DOMAIN answers["types"]) <= answers["activeTypes"] + changes

\* As long as nothing has changed every answer is still right.
FiguresCurrent == changes = 0 => \A q \in DOMAIN answers : answers[q] = Answer(q)

IndInv ==
    /\ TypeOK /\ NothingYet /\ UnreadAhead /\ PageFull /\ ReadBehind /\ LinksLed
    /\ DeadLinksExplained /\ FiguresNear /\ FiguresCurrent

-----------------------------------------------------------------------------
(* Sums over finite sets, and their least and greatest elements. *)

\* Induction over the subsets of a finite set, for a family of them.
LEMMA SubsetInduction ==
    ASSUME NEW S, IsFiniteSet(S), NEW F, {} \in F,
           \A T \in SUBSET S : T # {} => \E x \in T : T \ {x} \in F => T \in F
    PROVE  \A T \in SUBSET S : T \in F
<1> DEFINE Bad == (SUBSET S) \ F
<1> SUFFICES ASSUME Bad # {} PROVE FALSE
  OBVIOUS
<1>1. Bad \subseteq FiniteSubsetsOf(S)
  BY FS_Subset DEF FiniteSubsetsOf
<1>2. PICK T \in Bad : \A U \in Bad : <<U, T>> \notin StrictSubsetOrdering(S)
  <2> HIDE DEF Bad
  <2> QED
    BY <1>1, FS_StrictSubsetOrderingWellFounded, WFMin
<1>3. PICK x \in T : T \ {x} \in F => T \in F
  OBVIOUS
<1>4. T \ {x} \in SUBSET S /\ T \ {x} \subseteq T /\ T \ {x} # T
  BY <1>3
<1>5. T \ {x} \notin Bad
  BY <1>2, <1>4 DEF StrictSubsetOrdering
<1> QED
  BY <1>3, <1>4, <1>5

\* A sum over a finite set is computed as its definition by recursion says: the
\* recursion has a solution, and the operator picks one.
Chosen(s) == CHOOSE t \in s : TRUE

LEMMA SumByRecursion ==
    ASSUME NEW c, IsFiniteSet(DOMAIN c)
    PROVE  \E g : /\ g = [s \in SUBSET DOMAIN c |->
                            IF s = {} THEN 0 ELSE c[Chosen(s)] + g[s \ {Chosen(s)}]]
                  /\ SumOf(c) = g[DOMAIN c]
<1> DEFINE S == DOMAIN c
           Body(g, s) == IF s = {} THEN 0 ELSE c[Chosen(s)] + g[s \ {Chosen(s)}]
           Upto(n) == {s \in SUBSET S : Cardinality(s) <= n}
           Solved == {T \in SUBSET S :
                        \E g : g = [s \in Upto(Cardinality(T)) |-> Body(g, s)]}
<1>1. \A s \in SUBSET S : IsFiniteSet(s) /\ Cardinality(s) \in Nat
  BY FS_Subset, FS_CardinalityType
<1>2. \A s \in SUBSET S : s # {} =>
         /\ Chosen(s) \in s
         /\ s \ {Chosen(s)} \in SUBSET S
         /\ Cardinality(s \ {Chosen(s)}) = Cardinality(s) - 1
  <2> SUFFICES ASSUME NEW s \in SUBSET S, s # {}
               PROVE  /\ Chosen(s) \in s /\ s \ {Chosen(s)} \in SUBSET S
                      /\ Cardinality(s \ {Chosen(s)}) = Cardinality(s) - 1
    OBVIOUS
  <2>1. Chosen(s) \in s
    BY DEF Chosen
  <2> QED
    BY <1>1, <2>1, FS_RemoveElement
<1>3. {} \in Solved
  <2>1. Upto(Cardinality({})) = {{}}
    BY <1>1, FS_EmptySet
  <2>2. [s \in {{}} |-> 0] = [s \in {{}} |-> Body([t \in {{}} |-> 0], s)]
    OBVIOUS
  <2> HIDE DEF Body, Upto
  <2> QED
    BY <2>1, <2>2
<1>4. ASSUME NEW U \in SUBSET S, NEW x \in U, U \ {x} \in Solved PROVE U \in Solved
  <2> DEFINE n == Cardinality(U \ {x})
  <2>1. n \in Nat /\ Cardinality(U) = n + 1
    BY <1>1, <1>4, FS_RemoveElement
  <2>2. PICK g : g = [s \in Upto(n) |-> Body(g, s)]
    BY <1>4
  <2> DEFINE h == [s \in Upto(n + 1) |-> Body(g, s)]
  <2> HIDE DEF n
  <2>3. ASSUME NEW s \in Upto(n + 1) PROVE Body(g, s) = Body(h, s)
    <3>1. CASE s = {}
      BY <3>1
    <3>2. CASE s # {}
      <4>1. s \ {Chosen(s)} \in Upto(n) /\ s \ {Chosen(s)} \in Upto(n + 1)
        BY <1>1, <1>2, <2>1, <2>3, <3>2
      <4>2. g[s \ {Chosen(s)}] = Body(g, s \ {Chosen(s)})
        <5> HIDE DEF Body, Upto
        <5> QED
          BY <2>2, <4>1
      <4>3. h[s \ {Chosen(s)}] = Body(g, s \ {Chosen(s)})
        <5> HIDE DEF Body, Upto
        <5> QED
          BY <4>1
      <4> HIDE DEF h
      <4> QED
        BY <4>2, <4>3
    <3> QED
      BY <3>1, <3>2
  <2>4. h = [s \in Upto(n + 1) |-> Body(h, s)]
    <3> HIDE DEF Body, Upto
    <3> QED
      BY <2>3
  <2> HIDE DEF h, Body, Upto
  <2> QED
    BY <2>1, <2>4
<1>5. S \in Solved
  <2> HIDE DEF Solved
  <2>1. \A T \in SUBSET S : T # {} => \E x \in T : T \ {x} \in Solved => T \in Solved
    BY <1>4
  <2>2. \A T \in SUBSET S : T \in Solved
    BY <1>3, <2>1, SubsetInduction
  <2> QED
    BY <2>2
<1>6. Upto(Cardinality(S)) = SUBSET S
  BY <1>1, FS_Subset
<1> DEFINE iter == CHOOSE g : g = [s \in SUBSET S |-> Body(g, s)]
<1>7. iter = [s \in SUBSET S |-> Body(iter, s)]
  <2> HIDE DEF Body, Upto
  <2> QED
    BY <1>5, <1>6
<1>8. SumOf(c) = iter[S]
  BY DEF SumOf, MapThenSumSet, MapThenFoldSet, Chosen
<1> HIDE DEF iter
<1> QED
  BY <1>7, <1>8

\* Two sets without a common element.
LEMMA DisjointUnion ==
    ASSUME NEW S, NEW T, IsFiniteSet(S), IsFiniteSet(T), S \cap T = {}
    PROVE  Cardinality(S \cup T) = Cardinality(S) + Cardinality(T)
<1>1. Cardinality(S) \in Nat /\ Cardinality(T) \in Nat /\ Cardinality(S \cap T) = 0
  BY FS_CardinalityType, FS_EmptySet
<1>2. Cardinality(S \cup T) = Cardinality(S) + Cardinality(T) - Cardinality(S \cap T)
  BY FS_Union
<1> QED
  BY <1>1, <1>2

\* The counts by type add up to the documents of these types.
LEMMA SumOfCounts ==
    ASSUME NEW P \in SUBSET Doc, NEW A \in SUBSET Type
    PROVE  SumOf([t \in A |-> Cardinality({d \in P : Owner[d] = t})])
              = Cardinality({d \in P : Owner[d] \in A})
<1> DEFINE Of(t) == {d \in P : Owner[d] = t}
           In(T) == {d \in P : Owner[d] \in T}
           c == [t \in A |-> Cardinality(Of(t))]
<1>1. IsFiniteSet(A) /\ IsFiniteSet(P)
  BY FS_Subset, KeyAssumption, OwnerAssumption
<1>2. PICK g : /\ g = [s \in SUBSET A |-> IF s = {} THEN 0 ELSE c[Chosen(s)] + g[s \ {Chosen(s)}]]
               /\ SumOf(c) = g[A]
  <2>1. DOMAIN c = A
    OBVIOUS
  <2> HIDE DEF c
  <2> QED
    BY <1>1, <2>1, SumByRecursion
<1> DEFINE F == {T \in SUBSET A : g[T] = Cardinality(In(T))}
<1>3. {} \in F
  <2>1. In({}) = {}
    OBVIOUS
  <2>2. g[{}] = 0
    <3> HIDE DEF c
    <3> QED
      BY <1>2
  <2> QED
    BY <2>1, <2>2, FS_EmptySet
<1>4. ASSUME NEW T \in SUBSET A, T # {}, T \ {Chosen(T)} \in F PROVE T \in F
  <2>1. Chosen(T) \in T
    BY <1>4 DEF Chosen
  <2>2. g[T] = Cardinality(Of(Chosen(T))) + Cardinality(In(T \ {Chosen(T)}))
    <3>1. g[T] = c[Chosen(T)] + g[T \ {Chosen(T)}]
      <4> HIDE DEF c
      <4> QED
        BY <1>2, <1>4
    <3> QED
      BY <1>4, <2>1, <3>1
  <2>3. /\ IsFiniteSet(Of(Chosen(T))) /\ IsFiniteSet(In(T \ {Chosen(T)}))
        /\ Of(Chosen(T)) \cup In(T \ {Chosen(T)}) = In(T)
        /\ Of(Chosen(T)) \cap In(T \ {Chosen(T)}) = {}
    BY <1>1, <2>1, FS_Subset
  <2> HIDE DEF Of, In
  <2>4. Cardinality(In(T)) = Cardinality(Of(Chosen(T))) + Cardinality(In(T \ {Chosen(T)}))
    BY <2>3, DisjointUnion
  <2> QED
    BY <2>2, <2>4
<1>5. A \in F
  <2> HIDE DEF F
  <2>1. \A T \in SUBSET A : T # {} => \E x \in T : T \ {x} \in F => T \in F
    <3> SUFFICES ASSUME NEW T \in SUBSET A, T # {}
                 PROVE  \E x \in T : T \ {x} \in F => T \in F
      OBVIOUS
    <3>1. Chosen(T) \in T
      BY DEF Chosen
    <3> QED
      BY <1>4, <3>1
  <2>2. \A T \in SUBSET A : T \in F
    BY <1>1, <1>3, <2>1, SubsetInduction
  <2> QED
    BY <2>2
<1> QED
  BY <1>2, <1>5

\* A set of numbers that is finite has a greatest and a least one.
LEMMA MinMax ==
    ASSUME NEW S \in SUBSET Nat, IsFiniteSet(S), S # {}
    PROVE  /\ Min(S) \in S /\ \A y \in S : Min(S) <= y
           /\ Max(S) \in S /\ \A y \in S : Max(S) >= y
<1> DEFINE F == {T \in SUBSET S : T = {} \/ \E a, b \in T : \A y \in T : a <= y /\ b >= y}
<1>1. \A T \in SUBSET S : T # {} => \E x \in T : T \ {x} \in F => T \in F
  <2> SUFFICES ASSUME NEW T \in SUBSET S, NEW x \in T, T \ {x} \in F
               PROVE  \E a, b \in T : \A y \in T : a <= y /\ b >= y
    OBVIOUS
  <2>1. CASE T \ {x} = {}
    <3>1. \A y \in T : x <= y /\ x >= y
      BY <2>1
    <3> QED
      BY <3>1
  <2>2. CASE T \ {x} # {}
    <3>1. PICK a \in T \ {x}, b \in T \ {x} : \A y \in T \ {x} : a <= y /\ b >= y
      BY <2>2
    <3>2. \A y \in T : (IF x < a THEN x ELSE a) <= y /\ (IF x > b THEN x ELSE b) >= y
      BY <3>1
    <3> QED
      BY <3>2
  <2> QED
    BY <2>1, <2>2
<1>2. S \in F
  <2>1. {} \in F
    OBVIOUS
  <2> HIDE DEF F
  <2>2. \A T \in SUBSET S : T \in F
    BY <1>1, <2>1, SubsetInduction
  <2> QED
    BY <2>2
<1> QED
  BY <1>2 DEF Min, Max

USE KeyAssumption, OwnerAssumption, SourceAssumption, BoundsAssumption

-----------------------------------------------------------------------------
(* The order, and the pages cut out of it. *)

\* A key is its three components.
LEMMA KeyComponents ==
    ASSUME NEW d \in Doc
    PROVE  /\ Key[d][1] \in Nat /\ Key[d][2] \in Nat /\ Key[d][3] \in Nat
           /\ Key[d] = <<Key[d][1], Key[d][2], Key[d][3]>>
<1>1. Key[d] \in Nat \X Nat \X Nat
  OBVIOUS
<1> QED
  BY <1>1

\* year, number and suffix descending, then the primary key.
LEMMA BeforeByComponents ==
    ASSUME NEW a \in Doc, NEW b \in Doc
    PROVE  Before(a, b) <=>
              \/ Key[a][1] > Key[b][1]
              \/ Key[a][1] = Key[b][1] /\ Key[a][2] > Key[b][2]
              \/ Key[a][1] = Key[b][1] /\ Key[a][2] = Key[b][2] /\ Key[a][3] > Key[b][3]
              \/ /\ Key[a][1] = Key[b][1] /\ Key[a][2] = Key[b][2] /\ Key[a][3] = Key[b][3]
                 /\ a < b
<1> DEFINE By(i) == Key[a][i] > Key[b][i] /\ \A j \in 1..(i - 1) : Key[a][j] = Key[b][j]
<1>1. (\E i \in 1..3 : By(i)) <=> By(1) \/ By(2) \/ By(3)
  <2>1. 1..3 = {1, 2, 3}
    OBVIOUS
  <2> HIDE DEF By
  <2> QED
    BY <2>1
<1>2. By(1) <=> Key[a][1] > Key[b][1]
  OBVIOUS
<1>3. By(2) <=> Key[a][2] > Key[b][2] /\ Key[a][1] = Key[b][1]
  <2>1. 1..(2 - 1) = {1}
    OBVIOUS
  <2> QED
    BY <2>1
<1>4. By(3) <=> Key[a][3] > Key[b][3] /\ Key[a][1] = Key[b][1] /\ Key[a][2] = Key[b][2]
  <2>1. 1..(3 - 1) = {1, 2}
    OBVIOUS
  <2> QED
    BY <2>1
<1>5. Key[a] = Key[b] <=>
        Key[a][1] = Key[b][1] /\ Key[a][2] = Key[b][2] /\ Key[a][3] = Key[b][3]
  BY KeyComponents
<1>6. Before(a, b) <=> (\E i \in 1..3 : By(i)) \/ (Key[a] = Key[b] /\ a < b)
  BY DEF Before
<1> HIDE DEF By
<1> QED
  BY <1>1, <1>2, <1>3, <1>4, <1>5, <1>6

\* The order is total: of two documents one is before the other.
LEMMA BeforeTotal ==
    ASSUME NEW a \in Doc, NEW b \in Doc
    PROVE  ~Before(a, a) /\ (a # b => Before(a, b) \/ Before(b, a))
<1>1. a \in Nat /\ b \in Nat
  OBVIOUS
<1> QED
  BY <1>1, BeforeByComponents, KeyComponents

\* The first n of a list are those of rank below n, and behind them there are n.
LEMMA FirstByRank ==
    ASSUME NEW S \in SUBSET Doc, NEW F \in SUBSET S, NEW n \in Nat, IsFirst(F, n, S),
           NEW d \in S
    PROVE  /\ Cardinality(Ahead(S, d)) \in Nat
           /\ d \in F => Cardinality(Ahead(S, d)) < n
           /\ d \notin F => /\ Cardinality(Ahead(S, d)) >= n
                            /\ Cardinality(F) = n
                            /\ F \subseteq Ahead(S, d)
<1> DEFINE Preds == Ahead(S, d)
<1>1. IsFiniteSet(S) /\ IsFiniteSet(F) /\ IsFiniteSet(Preds)
  BY FS_Subset DEF Ahead
<1>2. Cardinality(S) \in Nat /\ Cardinality(F) \in Nat /\ Cardinality(Preds) \in Nat
  BY <1>1, FS_CardinalityType
<1>3. /\ Cardinality(F) = IF n < Cardinality(S) THEN n ELSE Cardinality(S)
      /\ \A a \in F, b \in S \ F : ~Before(b, a)
  BY DEF IsFirst
<1>4. CASE d \in F
  <2>1. Preds \subseteq F \ {d}
    BY <1>3, <1>4, BeforeTotal DEF Ahead
  <2>2. IsFiniteSet(F \ {d}) /\ Cardinality(F \ {d}) = Cardinality(F) - 1
    BY <1>1, <1>4, FS_RemoveElement
  <2>3. Cardinality(Preds) <= Cardinality(F \ {d})
    BY <2>1, <2>2, FS_Subset
  <2> QED
    BY <1>2, <1>3, <1>4, <2>2, <2>3
<1>5. CASE d \notin F
  <2>1. \A a \in F : Before(a, d)
    BY <1>3, <1>5, BeforeTotal
  <2>2. F \subseteq Preds
    BY <2>1 DEF Ahead
  <2>3. Cardinality(F) # Cardinality(S)
    BY <1>1, <1>5, FS_Subset
  <2>4. Cardinality(F) = n
    BY <1>3, <2>3
  <2>5. Cardinality(F) <= Cardinality(Preds)
    BY <1>1, <2>2, FS_Subset
  <2> QED
    BY <1>2, <1>5, <2>2, <2>4, <2>5
<1> QED
  BY <1>4, <1>5

\* LIMIT and OFFSET: a page is the documents of limit ranks from skip on.
LEMMA PageByRank ==
    ASSUME NEW S \in SUBSET Doc, NEW P \in SUBSET S, NEW skip \in Nat, limit \in Nat \ {0},
           IsPage(P, skip, S), NEW d \in S
    PROVE  LET rank == Cardinality(Ahead(S, d)) IN
           /\ rank \in Nat
           /\ d \in P <=> skip <= rank /\ rank < skip + limit
<1>1. PICK F \in SUBSET S :
         IsFirst(F, skip, S) /\ P \subseteq S \ F /\ IsFirst(P, limit, S \ F)
  BY DEF IsPage
<1>2. /\ Cardinality(Ahead(S, d)) \in Nat
      /\ d \in F => Cardinality(Ahead(S, d)) < skip
      /\ d \notin F => /\ Cardinality(Ahead(S, d)) >= skip
                       /\ Cardinality(F) = skip /\ F \subseteq Ahead(S, d)
  BY <1>1, FirstByRank
<1>3. CASE d \in F
  BY <1>1, <1>2, <1>3
<1>4. CASE d \notin F
  <2>1. /\ Cardinality(Ahead(S \ F, d)) \in Nat
        /\ d \in P => Cardinality(Ahead(S \ F, d)) < limit
        /\ d \notin P => Cardinality(Ahead(S \ F, d)) >= limit
    <3>1. /\ S \ F \in SUBSET Doc /\ P \in SUBSET (S \ F) /\ limit \in Nat
          /\ d \in S \ F
      BY <1>1, <1>4
    <3> QED
      BY <1>1, <3>1, FirstByRank
  <2>2. Ahead(S, d) \ F = Ahead(S \ F, d) /\ Ahead(S, d) \cap F = F
    BY <1>2, <1>4 DEF Ahead
  <2>3. IsFiniteSet(Ahead(S, d))
    BY FS_Subset DEF Ahead
  <2>4. Cardinality(Ahead(S \ F, d)) = Cardinality(Ahead(S, d)) - Cardinality(F)
    BY <2>2, <2>3, FS_Difference
  <2> QED
    BY <1>2, <1>4, <2>1, <2>4
<1> QED
  BY <1>3, <1>4

\* Before a document that comes after the page there is a full page.
LEMMA PageBefore ==
    ASSUME NEW S \in SUBSET Doc, NEW P \in SUBSET S, NEW skip \in Nat, limit \in Nat \ {0},
           IsPage(P, skip, S), NEW d \in S \ P, skip <= Cardinality(Ahead(S, d))
    PROVE  Cardinality(P) = limit /\ \A e \in P : Before(e, d)
<1>1. PICK F \in SUBSET S :
         IsFirst(F, skip, S) /\ P \subseteq S \ F /\ IsFirst(P, limit, S \ F)
  BY DEF IsPage
<1>2. /\ Cardinality(Ahead(S, d)) \in Nat
      /\ d \in F => Cardinality(Ahead(S, d)) < skip
  BY <1>1, FirstByRank
<1>3. d \notin F
  BY <1>2
<1>4. Cardinality(P) = limit /\ P \subseteq Ahead(S \ F, d)
  <2>1. /\ S \ F \in SUBSET Doc /\ P \in SUBSET (S \ F) /\ limit \in Nat
        /\ d \in S \ F /\ d \notin P
    BY <1>1, <1>3
  <2> QED
    BY <1>1, <2>1, FirstByRank
<1> QED
  BY <1>4 DEF Ahead

\* A page is no longer than the limit.
LEMMA PageSize ==
    ASSUME NEW S \in SUBSET Doc, NEW P \in SUBSET S, NEW skip, limit \in Nat \ {0},
           IsPage(P, skip, S)
    PROVE  Cardinality(P) <= limit
<1>1. PICK F \in SUBSET S : P \subseteq S \ F /\ IsFirst(P, limit, S \ F)
  BY DEF IsPage
<1>2. Cardinality(S \ F) \in Nat
  BY FS_Subset, FS_CardinalityType
<1> QED
  BY <1>1, <1>2 DEF IsFirst

-----------------------------------------------------------------------------
(* What a step does to the list and to the ranks. *)

LEMMA ListsAreFinite ==
    ASSUME status \in [Doc -> {"PUBLISHED", "DISABLED"}]
    PROVE  /\ Published \subseteq Doc /\ Matching \subseteq Published
           /\ IsFiniteSet(Published) /\ IsFiniteSet(Matching) /\ IsFiniteSet(Doc)
           /\ Cardinality(Matching) \in Nat /\ Cardinality(Published) \in Nat
           /\ Cardinality(Matching) <= Cardinality(Doc)
           /\ Cardinality(Doc) \in Nat
<1>1. Published \subseteq Doc /\ Matching \subseteq Published
  BY DEF Published, Matching
<1> QED
  BY <1>1, FS_Subset, FS_CardinalityType

LEMMA RankType ==
    ASSUME status \in [Doc -> {"PUBLISHED", "DISABLED"}], NEW d \in Doc
    PROVE  Rank(d) \in Nat /\ (d \in Matching => Rank(d) < Cardinality(Matching))
<1> DEFINE Preds == Ahead(Matching, d)
<1>1. IsFiniteSet(Matching) /\ Matching \subseteq Doc /\ Cardinality(Matching) \in Nat
  BY ListsAreFinite
<1>2. IsFiniteSet(Preds) /\ Cardinality(Preds) \in Nat
  BY <1>1, FS_Subset, FS_CardinalityType DEF Ahead
<1>3. ASSUME d \in Matching PROVE Cardinality(Preds) < Cardinality(Matching)
  <2>1. Preds \subseteq Matching \ {d}
    BY <1>1, BeforeTotal DEF Ahead
  <2>2. /\ IsFiniteSet(Matching \ {d})
        /\ Cardinality(Matching \ {d}) = Cardinality(Matching) - 1
    BY <1>1, <1>3, FS_RemoveElement
  <2>3. Cardinality(Preds) <= Cardinality(Matching \ {d})
    BY <2>1, <2>2, FS_Subset
  <2> QED
    BY <1>1, <1>2, <2>2, <2>3
<1> QED
  BY <1>2, <1>3 DEF Rank

\* Ranks grow only when a document before joins, and shrink only when one leaves.
LEMMA RanksMove ==
    ASSUME status \in [Doc -> {"PUBLISHED", "DISABLED"}],
           status' \in [Doc -> {"PUBLISHED", "DISABLED"}], NEW d \in Doc
    PROVE  /\ Rank(d)' \in Nat
           /\ (\A e \in Matching \ Matching' : ~Before(e, d)) => Rank(d) <= Rank(d)'
           /\ (\A e \in Matching' \ Matching : ~Before(e, d)) => Rank(d)' <= Rank(d)
<1> DEFINE Old == {e \in Matching : Before(e, d)}
           New == {e \in Matching' : Before(e, d)}
<1>1. Matching \subseteq Doc /\ Matching' \subseteq Doc
  BY DEF Matching, Published
<1>2. IsFiniteSet(Old) /\ IsFiniteSet(New)
  BY <1>1, FS_Subset
<1>3. Cardinality(New) \in Nat
  BY <1>2, FS_CardinalityType
<1>4. (\A e \in Matching \ Matching' : ~Before(e, d)) => Old \subseteq New
  OBVIOUS
<1>5. (\A e \in Matching' \ Matching : ~Before(e, d)) => New \subseteq Old
  OBVIOUS
<1>6. Rank(d) = Cardinality(Old) /\ Rank(d)' = Cardinality(New)
  BY DEF Rank, Ahead
<1> HIDE DEF Old, New
<1>7. Old \subseteq New => Cardinality(Old) <= Cardinality(New)
  BY <1>2, FS_Subset
<1>8. New \subseteq Old => Cardinality(New) <= Cardinality(Old)
  BY <1>2, FS_Subset
<1> QED
  BY <1>3, <1>4, <1>5, <1>6, <1>7, <1>8

\* The steps of the visitor leave the list and the ranks alone.
LEMMA ListStays ==
    ASSUME UNCHANGED <<rows, filter>>
    PROVE  Matching' = Matching /\ Published' = Published /\ \A d \in Doc : Rank(d)' = Rank(d)
  BY DEF rows, Matching, Published, Rank, Ahead

LEMMA ReadToValue ==
    ASSUME offset \in Nat, limit \in Nat
    PROVE  /\ ReadTo \in Nat /\ offset + limit \in Nat
           /\ pc = "finding ids" => ReadTo = offset
           /\ pc # "finding ids" => ReadTo = offset + limit
<1>1. offset + limit \in Nat
  OBVIOUS
<1> QED
  BY <1>1 DEF ReadTo

\* What each change of a row does.
Changes ==
    \/ \E d \in Doc, s \in {"PUBLISHED", "DISABLED"} : SetStatus(d, s)
    \/ \E d \in Doc, l \in LegalStatus : SetLegal(d, l)
    \/ \E t \in Type : SetActive(t)

LEMMA ChangesChange ==
    ASSUME TypeOK, Changes
    PROVE  /\ Change
           /\ status' \in [Doc -> {"PUBLISHED", "DISABLED"}]
           /\ legal' \in [Doc -> LegalStatus] /\ active' \subseteq Type
<1>1. CASE \E d \in Doc, s \in {"PUBLISHED", "DISABLED"} : SetStatus(d, s)
  BY <1>1 DEF SetStatus, TypeOK
<1>2. CASE \E d \in Doc, l \in LegalStatus : SetLegal(d, l)
  BY <1>2 DEF SetLegal, TypeOK
<1>3. CASE \E t \in Type : SetActive(t)
  BY <1>3 DEF SetActive, TypeOK
<1> QED
  BY <1>1, <1>2, <1>3 DEF Changes

\* The listing links to published documents that it has found.
LEMMA LinksShown ==
    ASSUME ReadRows
    PROVE  \A link \in links' : link \in links \/ link \in Published \X {"list"}
<1> DEFINE Found == ids \cap Matching
           Shown == UNION {{d} \cup (Source[d] \cap Published) : d \in Found}
<1>1. links' = links \cup {<<e, "list">> : e \in Shown}
  BY DEF ReadRows
<1>2. ASSUME NEW e \in Shown PROVE e \in Published
  <2>1. PICK d \in Found : e \in {d} \cup (Source[d] \cap Published)
    BY <1>2
  <2> QED
    BY <2>1 DEF Matching
<1> HIDE DEF Shown
<1> QED
  BY <1>1, <1>2

\* The visitor's steps change no row, and keep the query once it is sent.
LEMMA VisitorReads ==
    ASSUME Next
    PROVE  \/ Changes \/ UNCHANGED <<rows, history, filter>>
           \/ \E f \in LegalStatus \cup {Any}, n \in Limits : FindAll(f, n)
  BY DEF Next, Changes, ReadIds, ReadRows, CountRows, NextPage, Sitemap, OpenLink, Landing,
         Goes

-----------------------------------------------------------------------------
(* Every step preserves every conjunct of IndInv. *)

LEMMA TypeOKStep ==
    ASSUME IndInv, Next
    PROVE  TypeOK'
<1>0. TypeOK /\ NothingYet
  BY DEF IndInv
<1>1. CASE Changes
  <2>1. /\ Change /\ status' \in [Doc -> {"PUBLISHED", "DISABLED"}]
        /\ legal' \in [Doc -> LegalStatus] /\ active' \subseteq Type
    BY <1>0, <1>1, ChangesChange
  <2>2. Matching' \subseteq Doc /\ Matching \subseteq Doc /\ Published \subseteq Doc
    BY DEF Matching, Published
  <2>3. /\ changes' \in 0..MaxChanges
        /\ joined' \subseteq Doc /\ left' \subseteq Doc /\ gone' \subseteq Doc
    <3>1. changes \in 0..MaxChanges /\ changes < MaxChanges /\ changes' = changes + 1
      BY <1>0, <2>1 DEF Change, TypeOK
    <3>2. changes' \in 0..MaxChanges
      BY <3>1
    <3> QED
      BY <1>0, <2>1, <2>2, <3>2 DEF Change, TypeOK
  <2> QED
    BY <1>0, <2>1, <2>3 DEF Change, TypeOK
<1>2. ASSUME NEW f \in LegalStatus \cup {Any}, NEW n \in Limits, FindAll(f, n) PROVE TypeOK'
  <2>1. ids' = {} /\ limit' = n /\ Cardinality({}) = 0 /\ n \in Nat
    BY <1>0, <1>2, FS_EmptySet DEF FindAll, NothingYet
  <2>2. Cardinality(ids') <= limit'
    BY <2>1
  <2> QED
    BY <1>0, <1>2, <2>2 DEF FindAll, Goes, TypeOK, rows, history
<1>3. CASE ReadIds
  <2>1. PICK P \in SUBSET Matching : IsPage(P, offset, Matching) /\ ids' = P
    BY <1>3 DEF ReadIds
  <2>2. Matching \subseteq Doc
    BY DEF Matching, Published
  <2>3. Cardinality(ids') <= limit
    BY <1>0, <2>1, <2>2, PageSize DEF TypeOK
  <2> QED
    BY <1>0, <1>3, <2>1, <2>2, <2>3 DEF ReadIds, Goes, TypeOK, rows, history
<1>4. CASE ReadRows
  <2>1. links' \subseteq Doc \X {"list", "sitemap", "detail"}
    BY <1>0, <1>4, LinksShown DEF TypeOK, Published
  <2>2. \A d \in Doc : seen[d] \in Nat
    BY <1>0 DEF TypeOK
  <2>3. seen' \in [Doc -> Nat]
    <3> DEFINE Once(d) == IF d \in ids \cap Matching THEN 1 ELSE 0
    <3>1. \A d \in Doc : seen[d] + Once(d) \in Nat
      BY <2>2
    <3>2. seen' = [d \in Doc |-> seen[d] + Once(d)]
      BY <1>4 DEF ReadRows
    <3> HIDE DEF Once
    <3> QED
      BY <3>1, <3>2
  <2>4. ids' \subseteq Doc /\ Cardinality(ids') <= limit'
    <3>1. /\ ids' \subseteq ids /\ limit' = limit
          /\ IsFiniteSet(ids) /\ limit \in Nat /\ Cardinality(ids) <= limit
      BY <1>0, <1>4, FS_Subset DEF ReadRows, TypeOK
    <3>2. /\ Cardinality(ids') <= Cardinality(ids)
          /\ Cardinality(ids') \in Nat /\ Cardinality(ids) \in Nat
      BY <3>1, FS_Subset, FS_CardinalityType
    <3>3. Cardinality(ids') <= limit'
      BY <3>1, <3>2
    <3>4. ids' \subseteq Doc
      BY <1>0, <3>1 DEF TypeOK
    <3> QED
      BY <3>3, <3>4
  <2> QED
    BY <1>0, <1>4, <2>1, <2>3, <2>4 DEF ReadRows, Goes, TypeOK, rows, history
<1>5. CASE CountRows
  <2>1. Cardinality(Matching) \in Nat /\ Cardinality(ids) \in Nat /\ offset \in Nat
    BY <1>0, ListsAreFinite, FS_Subset, FS_CardinalityType DEF TypeOK
  <2>2. total' \in Nat
    BY <1>5, <2>1 DEF CountRows
  <2> QED
    BY <1>0, <1>5, <2>2 DEF CountRows, Goes, TypeOK, rows, history
<1>6. CASE NextPage
  <2>1. offset \in Nat /\ limit \in Nat /\ offset' = offset + limit
    BY <1>0, <1>6 DEF NextPage, TypeOK
  <2>2. offset' \in Nat
    BY <2>1
  <2> QED
    BY <1>0, <1>6, <2>2 DEF NextPage, Goes, TypeOK, rows, history
<1>7. CASE Sitemap
  BY <1>0, <1>7 DEF Sitemap, Goes, TypeOK, Published, rows, history
<1>8. ASSUME NEW link \in links, OpenLink(link) PROVE TypeOK'
  <2>1. link \in Doc \X {"list", "sitemap", "detail"}
    BY <1>0 DEF TypeOK
  <2>2. Source[link[1]] \subseteq Doc
    BY <2>1
  <2>3. links' \subseteq Doc \X {"list", "sitemap", "detail"}
    <3> DEFINE Ends == Source[link[1]] \cup {t \in Doc : link[1] \in Source[t]}
    <3>1. \/ links' = links \cup {<<e, "detail">> : e \in Ends}
          \/ links' = {link}
      BY <1>8 DEF OpenLink
    <3>2. Ends \subseteq Doc
      BY <2>2
    <3>3. links \subseteq Doc \X {"list", "sitemap", "detail"}
      BY <1>0 DEF TypeOK
    <3> HIDE DEF Ends
    <3>4. {<<e, "detail">> : e \in Ends} \subseteq Doc \X {"list", "sitemap", "detail"}
      BY <3>2
    <3> QED
      BY <2>1, <3>1, <3>3, <3>4
  <2> QED
    BY <1>0, <1>8, <2>3 DEF OpenLink, Goes, TypeOK, rows, history
<1>9. ASSUME NEW q \in Queries, Landing(q) PROVE TypeOK'
  <2>1. DOMAIN answers' \subseteq Queries
    BY <1>0, <1>9 DEF Landing, TypeOK
  <2> QED
    BY <1>0, <1>9, <2>1 DEF Landing, Goes, TypeOK, rows, history
<1> QED
  BY <1>1, <1>2, <1>3, <1>4, <1>5, <1>6, <1>7, <1>8, <1>9 DEF Next, Changes

\* Whoever comes has not been there.
LEMMA NothingYetStep ==
    ASSUME IndInv, Next
    PROVE  NothingYet'
<1>1. pc' # "away" \/ UNCHANGED <<pc, offset, ids, seen, links, history>>
  BY DEF Next, SetStatus, SetLegal, SetActive, Change, FindAll, ReadIds, ReadRows, CountRows,
         NextPage, Sitemap, OpenLink, Landing, Goes
<1> QED
  BY <1>1 DEF IndInv, NothingYet, history

\* A document that stays moves away from what was read, or onto the page.
LEMMA UnreadAheadStep ==
    ASSUME IndInv, Next
    PROVE  UnreadAhead'
<1>0. TypeOK /\ TypeOK' /\ NothingYet /\ UnreadAhead /\ PageFull
  BY TypeOKStep DEF IndInv
<1> SUFFICES ASSUME NEW d \in Doc, d \in Matching', d \notin joined', d \notin left',
                    seen'[d] = 0, \A e \in left' : ~Before(e, d), pc' \in Reading
             PROVE  /\ ReadTo' <= Rank(d)' \/ (pc' = "finding rows" /\ d \in ids')
                    /\ pc' = "page" => offset' + limit' < total'
  BY DEF UnreadAhead, Matching, Published
<1>1. /\ status \in [Doc -> {"PUBLISHED", "DISABLED"}]
      /\ status' \in [Doc -> {"PUBLISHED", "DISABLED"}]
      /\ offset \in Nat /\ limit \in Nat \ {0} /\ seen[d] \in Nat
  BY <1>0 DEF TypeOK
<1>2. Rank(d) \in Nat /\ Rank(d)' \in Nat
  BY <1>1, RankType, RanksMove
<1>3. ASSUME pc \in Reading, d \in Matching, d \notin joined, d \notin left, seen[d] = 0,
             \A e \in left : ~Before(e, d)
      PROVE  /\ ReadTo <= Rank(d) \/ (pc = "finding rows" /\ d \in ids)
             /\ pc = "page" => offset + limit < total
  BY <1>0, <1>3 DEF UnreadAhead
<1>4. CASE Changes
  <2>1. /\ joined' = joined \cup (Matching' \ Matching) /\ left' = left \cup (Matching \ Matching')
        /\ UNCHANGED <<pc, filter, limit, offset, ids, total, seen>>
    BY <1>0, <1>4, ChangesChange DEF Change
  <2>2. /\ d \in Matching /\ d \notin joined /\ d \notin left
        /\ \A e \in left : ~Before(e, d)
        /\ \A e \in Matching \ Matching' : ~Before(e, d)
    BY <2>1
  <2>3. Rank(d) <= Rank(d)'
    BY <1>1, <2>2, RanksMove
  <2>4. ReadTo' = ReadTo /\ ReadTo \in Nat
    <3>1. ReadTo' = ReadTo
      BY <2>1 DEF ReadTo
    <3> QED
      BY <1>1, <3>1, ReadToValue
  <2>5. /\ ReadTo <= Rank(d) \/ (pc' = "finding rows" /\ d \in ids')
        /\ pc' = "page" => offset' + limit' < total'
    BY <1>3, <2>1, <2>2
  <2>6. ReadTo <= Rank(d) => ReadTo <= Rank(d)'
    BY <1>2, <2>3, <2>4
  <2> QED
    BY <2>4, <2>5, <2>6
<1>5. CASE \E f \in LegalStatus \cup {Any}, n \in Limits : FindAll(f, n)
  <2>1. pc' = "finding ids" /\ offset' = 0
    BY <1>0, <1>5 DEF FindAll, Goes, NothingYet
  <2>2. ReadTo' = 0
    BY <2>1 DEF ReadTo
  <2>3. 0 <= Rank(d)'
    BY <1>2
  <2> QED
    BY <2>1, <2>2, <2>3
<1>6. CASE UNCHANGED <<rows, history, filter>>
  <2>1. /\ d \in Matching /\ d \notin joined /\ d \notin left
        /\ \A e \in left : ~Before(e, d)
        /\ Rank(d)' = Rank(d)
    BY <1>6, ListStays DEF history
  <2>2. CASE ReadIds
    <3>1. PICK P \in SUBSET Matching : IsPage(P, offset, Matching) /\ ids' = P
      BY <2>2 DEF ReadIds
    <3>2. pc = "finding ids" /\ pc' = "finding rows" /\ seen' = seen /\ offset' = offset
          /\ limit' = limit
      BY <2>2 DEF ReadIds, Goes
    <3>3. offset <= Rank(d)
      BY <1>3, <2>1, <3>2 DEF ReadTo, Reading
    <3>4. Matching \subseteq Doc
      BY DEF Matching, Published
    <3>5. d \in P <=> offset <= Rank(d) /\ Rank(d) < offset + limit
      BY <1>1, <2>1, <3>1, <3>4, PageByRank DEF Rank
    <3>6. d \notin P => offset + limit <= Rank(d)
      BY <1>1, <1>2, <3>3, <3>5
    <3>7. ReadTo' = offset + limit
      BY <3>2 DEF ReadTo
    <3> QED
      BY <2>1, <3>1, <3>2, <3>6, <3>7
  <2>3. CASE ReadRows
    <3>1. pc = "finding rows" /\ pc' = "counting" /\ offset' = offset /\ limit' = limit
      BY <2>3 DEF ReadRows, Goes
    <3>2. seen'[d] = seen[d] + IF d \in ids \cap Matching THEN 1 ELSE 0
      BY <2>3 DEF ReadRows
    <3>3. seen[d] = 0 /\ d \notin ids
      BY <1>1, <2>1, <3>2
    <3> QED
      BY <1>3, <2>1, <3>1, <3>3 DEF ReadTo, Reading
  <2>4. CASE CountRows
    <3>0. /\ pc = "counting" /\ pc' = "page" /\ offset' = offset /\ limit' = limit
          /\ seen' = seen
          /\ Cardinality(ids) = limit => total' = Cardinality(Matching)
      BY <2>4 DEF CountRows, Goes
    <3>a. Cardinality(ids) = limit
      BY <1>0, <2>1, <3>0 DEF PageFull
    <3>1. /\ pc = "counting" /\ pc' = "page" /\ offset' = offset /\ limit' = limit
          /\ seen' = seen /\ total' = Cardinality(Matching)
      BY <3>0, <3>a
    <3>2. offset + limit <= Rank(d)
      BY <1>3, <2>1, <3>1 DEF ReadTo, Reading
    <3>3. Rank(d) < Cardinality(Matching) /\ Cardinality(Matching) \in Nat
      BY <1>1, <2>1, RankType, ListsAreFinite
    <3> QED
      BY <1>1, <1>2, <2>1, <3>1, <3>2, <3>3 DEF ReadTo
  <2>5. CASE NextPage
    <3>1. /\ pc = "page" /\ pc' = "finding ids" /\ offset' = offset + limit /\ seen' = seen
      BY <2>5 DEF NextPage, Goes
    <3> QED
      BY <1>3, <2>1, <3>1 DEF ReadTo, Reading
  <2>6. CASE ~(ReadIds \/ ReadRows \/ CountRows \/ NextPage)
    <3>1. CASE Changes \/ \E f \in LegalStatus \cup {Any}, n \in Limits : FindAll(f, n)
      BY <1>4, <1>5, <3>1
    <3>2. CASE Sitemap \/ (\E link \in links : OpenLink(link)) \/ \E q \in Queries : Landing(q)
      BY <3>2 DEF Sitemap, OpenLink, Landing, Goes, Reading
    <3> QED
      BY <2>6, <3>1, <3>2 DEF Next, Changes
  <2> QED
    BY <2>2, <2>3, <2>4, <2>5, <2>6
<1> QED
  BY <1>4, <1>5, <1>6, VisitorReads

\* A row of the page that is not found any more has left before what comes after it.
LEMMA PageFullStep ==
    ASSUME IndInv, Next
    PROVE  PageFull'
<1>0. TypeOK /\ NothingYet /\ UnreadAhead /\ PageFull
  BY DEF IndInv
<1> SUFFICES ASSUME NEW d \in Doc, d \in Matching', d \notin joined', d \notin left',
                    seen'[d] = 0, \A e \in left' : ~Before(e, d)
             PROVE  /\ pc' = "finding rows" /\ d \notin ids' =>
                          /\ Cardinality(ids') = limit'
                          /\ \A e \in ids' : Before(e, d) /\ e \in Matching'
                    /\ pc' = "counting" => Cardinality(ids') = limit'
  BY DEF PageFull, Matching, Published
<1>1. /\ offset \in Nat /\ limit \in Nat \ {0} /\ seen[d] \in Nat /\ Matching \subseteq Doc
  BY <1>0 DEF TypeOK, Matching, Published
<1>2. ASSUME d \in Matching, d \notin joined, d \notin left, seen[d] = 0,
             \A e \in left : ~Before(e, d)
      PROVE  /\ pc = "finding rows" /\ d \notin ids =>
                   /\ Cardinality(ids) = limit
                   /\ \A e \in ids : Before(e, d) /\ e \in Matching
             /\ pc = "counting" => Cardinality(ids) = limit
             /\ pc = "finding ids" => offset <= Rank(d)
  BY <1>0, <1>2 DEF PageFull, UnreadAhead, ReadTo, Reading
<1>3. CASE Changes
  <2>1. /\ joined' = joined \cup (Matching' \ Matching) /\ left' = left \cup (Matching \ Matching')
        /\ UNCHANGED <<pc, limit, ids, seen>>
    BY <1>0, <1>3, ChangesChange DEF Change
  <2>2. /\ d \in Matching /\ d \notin joined /\ d \notin left
        /\ \A e \in left : ~Before(e, d)
        /\ \A e \in Matching : Before(e, d) => e \in Matching'
    BY <2>1
  <2> QED
    BY <1>2, <2>1, <2>2
<1>4. CASE \E f \in LegalStatus \cup {Any}, n \in Limits : FindAll(f, n)
  BY <1>4 DEF FindAll, Goes
<1>5. CASE UNCHANGED <<rows, history, filter>>
  <2>1. /\ d \in Matching /\ d \notin joined /\ d \notin left
        /\ \A e \in left : ~Before(e, d)
        /\ Matching' = Matching
    BY <1>5, ListStays DEF history
  <2>2. CASE ReadIds
    <3>1. PICK P \in SUBSET Matching : IsPage(P, offset, Matching) /\ ids' = P
      BY <2>2 DEF ReadIds
    <3>2. pc = "finding ids" /\ pc' = "finding rows" /\ seen' = seen /\ limit' = limit
      BY <2>2 DEF ReadIds, Goes
    <3>3. offset <= Cardinality(Ahead(Matching, d))
      BY <1>2, <2>1, <3>2 DEF Rank
    <3>4. d \notin P => Cardinality(P) = limit /\ \A e \in P : Before(e, d)
      BY <1>1, <2>1, <3>1, <3>3, PageBefore
    <3> QED
      BY <2>1, <3>1, <3>2, <3>4
  <2>3. CASE ReadRows
    <3>1. /\ pc = "finding rows" /\ pc' = "counting" /\ limit' = limit
          /\ ids' = ids \cap Matching
          /\ d \in ids => seen'[d] = seen[d] + 1
          /\ d \notin ids => seen'[d] = seen[d]
      <4>1. /\ pc = "finding rows" /\ pc' = "counting" /\ limit' = limit
            /\ ids' = ids \cap Matching
            /\ seen' = [e \in Doc |-> seen[e] + IF e \in ids \cap Matching THEN 1 ELSE 0]
        BY <2>3 DEF ReadRows, Goes
      <4>2. seen'[d] = seen[d] + IF d \in ids \cap Matching THEN 1 ELSE 0
        BY <4>1
      <4>3. d \in ids => d \in ids \cap Matching
        BY <2>1
      <4>4. seen[d] + 0 = seen[d]
        BY <1>1
      <4> QED
        BY <4>1, <4>2, <4>3, <4>4
    <3>2. seen[d] = 0 /\ d \notin ids
      <4>1. seen[d] \in Nat /\ seen'[d] = 0
        BY <1>1
      <4>2. seen[d] + 1 # 0
        BY <4>1
      <4>3. d \notin ids
        BY <3>1, <4>1, <4>2
      <4> QED
        BY <3>1, <4>1, <4>3
    <3>3. Cardinality(ids) = limit /\ \A e \in ids : e \in Matching
      BY <1>2, <2>1, <3>1, <3>2
    <3>4. ids' = ids
      BY <3>1, <3>3
    <3> QED
      BY <3>1, <3>3, <3>4
  <2>4. CASE ~(ReadIds \/ ReadRows)
    <3>1. CASE Changes \/ \E f \in LegalStatus \cup {Any}, n \in Limits : FindAll(f, n)
      BY <1>3, <1>4, <3>1
    <3>2. CASE CountRows \/ NextPage \/ Sitemap \/ (\E link \in links : OpenLink(link))
               \/ \E q \in Queries : Landing(q)
      BY <3>2 DEF CountRows, NextPage, Sitemap, OpenLink, Landing, Goes
    <3> QED
      BY <2>4, <3>1, <3>2 DEF Next, Changes
  <2> QED
    BY <2>2, <2>3, <2>4
<1> QED
  BY <1>3, <1>4, <1>5, VisitorReads

\* What was read falls behind.
LEMMA ReadBehindStep ==
    ASSUME IndInv, Next
    PROVE  ReadBehind'
<1>0. TypeOK /\ TypeOK' /\ NothingYet /\ ReadBehind
  BY TypeOKStep DEF IndInv
<1> SUFFICES ASSUME NEW d \in Doc, \A e \in joined' : ~Before(e, d)
             PROVE  /\ seen'[d] <= 1
                    /\ pc' = "finding rows" /\ d \in ids' => seen'[d] = 0
                    /\ pc' \in Reading =>
                          /\ seen'[d] = 1 => Rank(d)' < ReadTo'
                          /\ pc' = "finding rows" /\ d \in ids' => Rank(d)' < ReadTo'
  BY DEF ReadBehind
<1>1. /\ status \in [Doc -> {"PUBLISHED", "DISABLED"}]
      /\ status' \in [Doc -> {"PUBLISHED", "DISABLED"}]
      /\ offset \in Nat /\ limit \in Nat \ {0} /\ seen[d] \in Nat /\ seen'[d] \in Nat
  BY <1>0 DEF TypeOK
<1>2. Rank(d) \in Nat /\ Rank(d)' \in Nat
  BY <1>1, RankType, RanksMove
<1>3. ASSUME \A e \in joined : ~Before(e, d)
      PROVE  /\ seen[d] <= 1
             /\ pc = "finding rows" /\ d \in ids => seen[d] = 0
             /\ pc \in Reading =>
                   /\ seen[d] = 1 => Rank(d) < ReadTo
                   /\ pc = "finding rows" /\ d \in ids => Rank(d) < ReadTo
  BY <1>0, <1>3 DEF ReadBehind
<1>4. CASE Changes
  <2>1. /\ joined' = joined \cup (Matching' \ Matching)
        /\ UNCHANGED <<pc, filter, limit, offset, ids, total, seen>>
    BY <1>0, <1>4, ChangesChange DEF Change
  <2>2. /\ \A e \in joined : ~Before(e, d)
        /\ \A e \in Matching' \ Matching : ~Before(e, d)
    BY <2>1
  <2>3. Rank(d)' <= Rank(d)
    BY <1>1, <2>2, RanksMove
  <2>4. ReadTo' = ReadTo /\ ReadTo \in Nat
    <3>1. ReadTo' = ReadTo
      BY <2>1 DEF ReadTo
    <3> QED
      BY <1>1, <3>1, ReadToValue
  <2>5. /\ seen'[d] <= 1
        /\ pc' = "finding rows" /\ d \in ids' => seen'[d] = 0
        /\ pc' \in Reading =>
              /\ seen'[d] = 1 => Rank(d) < ReadTo
              /\ pc' = "finding rows" /\ d \in ids' => Rank(d) < ReadTo
    BY <1>3, <2>1, <2>2
  <2>6. Rank(d) < ReadTo => Rank(d)' < ReadTo'
    BY <1>2, <2>3, <2>4
  <2> QED
    BY <2>5, <2>6
<1>5. CASE \E f \in LegalStatus \cup {Any}, n \in Limits : FindAll(f, n)
  <2>1. pc' = "finding ids" /\ seen'[d] = 0
    BY <1>0, <1>5 DEF FindAll, Goes, NothingYet
  <2>2. seen'[d] = 0
    BY <2>1
  <2>3. ~(seen'[d] = 1)
    BY <2>2
  <2>4. seen'[d] <= 1
    BY <2>2
  <2> QED
    BY <2>1, <2>3, <2>4
<1>6. CASE UNCHANGED <<rows, history, filter>>
  <2>1. /\ \A e \in joined : ~Before(e, d)
        /\ Rank(d)' = Rank(d)
    BY <1>6, ListStays DEF history
  <2>2. CASE ReadIds
    <3>1. PICK P \in SUBSET Matching : IsPage(P, offset, Matching) /\ ids' = P
      BY <2>2 DEF ReadIds
    <3>2. pc = "finding ids" /\ pc' = "finding rows" /\ seen' = seen /\ offset' = offset
          /\ limit' = limit
      BY <2>2 DEF ReadIds, Goes
    <3>3. seen[d] <= 1 /\ (seen[d] = 1 => Rank(d) < offset)
      BY <1>3, <2>1, <3>2 DEF ReadTo, Reading
    <3>4. Matching \subseteq Doc
      BY DEF Matching, Published
    <3>5. ASSUME d \in P PROVE offset <= Rank(d) /\ Rank(d) < offset + limit
      BY <1>1, <3>1, <3>4, <3>5, PageByRank DEF Rank
    <3>6. ReadTo' = offset + limit
      BY <3>2 DEF ReadTo
    <3>7. seen[d] = 1 => Rank(d) < offset + limit
      BY <1>1, <1>2, <3>3
    <3>8. d \in P => seen[d] # 1 /\ Rank(d) < offset + limit
      BY <1>1, <1>2, <3>3, <3>5
    <3>9. seen[d] # 1 => seen[d] = 0
      BY <1>1, <3>3
    <3> QED
      BY <2>1, <3>1, <3>2, <3>3, <3>6, <3>7, <3>8, <3>9
  <2>3. CASE ReadRows
    <3>1. pc = "finding rows" /\ pc' = "counting" /\ offset' = offset /\ limit' = limit
      BY <2>3 DEF ReadRows, Goes
    <3>2. seen'[d] = seen[d] + IF d \in ids \cap Matching THEN 1 ELSE 0
      BY <2>3 DEF ReadRows
    <3>3. ReadTo' = ReadTo
      BY <3>1 DEF ReadTo
    <3>4. /\ seen[d] <= 1
          /\ d \in ids => seen[d] = 0 /\ Rank(d) < ReadTo
          /\ seen[d] = 1 => Rank(d) < ReadTo
      BY <1>3, <2>1, <3>1 DEF Reading
    <3>5. CASE d \in ids \cap Matching
      <4>1. seen'[d] <= 1
        BY <1>1, <3>2, <3>4, <3>5
      <4>2. Rank(d)' < ReadTo'
        BY <2>1, <3>3, <3>4, <3>5
      <4> QED
        BY <3>1, <4>1, <4>2
    <3>6. CASE d \notin ids \cap Matching
      <4>1. seen'[d] = seen[d]
        BY <1>1, <3>2, <3>6
      <4> QED
        BY <2>1, <3>1, <3>3, <3>4, <4>1
    <3> QED
      BY <3>5, <3>6
  <2>4. CASE CountRows
    <3>1. /\ pc = "counting" /\ pc' = "page" /\ offset' = offset /\ limit' = limit
          /\ seen' = seen
      BY <2>4 DEF CountRows, Goes
    <3> QED
      BY <1>3, <2>1, <3>1 DEF ReadTo, Reading
  <2>5. CASE NextPage
    <3>1. /\ pc = "page" /\ pc' = "finding ids" /\ offset' = offset + limit /\ seen' = seen
      BY <2>5 DEF NextPage, Goes
    <3> QED
      BY <1>3, <2>1, <3>1 DEF ReadTo, Reading
  <2>6. CASE ~(ReadIds \/ ReadRows \/ CountRows \/ NextPage)
    <3>1. CASE Changes \/ \E f \in LegalStatus \cup {Any}, n \in Limits : FindAll(f, n)
      BY <1>4, <1>5, <3>1
    <3>2. CASE Sitemap \/ (\E link \in links : OpenLink(link)) \/ \E q \in Queries : Landing(q)
      <4>1. pc' \notin Reading /\ seen' = seen
        BY <3>2 DEF Sitemap, OpenLink, Landing, Goes, Reading
      <4> QED
        BY <1>3, <2>1, <4>1 DEF Reading
    <3> QED
      BY <2>6, <3>1, <3>2 DEF Next, Changes
  <2> QED
    BY <2>2, <2>3, <2>4, <2>5, <2>6
<1> QED
  BY <1>4, <1>5, <1>6, VisitorReads

\* A link is to what was published when it was given, and gone stays gone.
LEMMA LinksStep ==
    ASSUME IndInv, Next
    PROVE  LinksLed' /\ DeadLinksExplained'
<1>0. LinksLed /\ DeadLinksExplained /\ NothingYet /\ TypeOK
  BY DEF IndInv
<1>1. CASE Changes
  <2>1. gone' = gone \cup (Published \ Published') /\ links' = links /\ pc' = pc
    BY <1>0, <1>1, ChangesChange DEF Change
  <2> QED
    BY <1>0, <2>1 DEF LinksLed, DeadLinksExplained
<1>2. ASSUME gone' = gone, Published' = Published, pc' # "not found",
             \A link \in links' : \/ link \in links \/ link[2] = "detail"
                                  \/ link[1] \in Published
      PROVE  LinksLed' /\ DeadLinksExplained'
  BY <1>0, <1>2 DEF LinksLed, DeadLinksExplained
<1>3. CASE UNCHANGED <<rows, history>>
  <2>1. gone' = gone /\ Published' = Published
    BY <1>3 DEF rows, history, Published
  <2>2. CASE links' = links /\ pc' # "not found"
    BY <1>2, <2>1, <2>2
  <2>3. CASE ReadRows
    <3>1. \A link \in links' : link \in links \/ link[1] \in Published
      BY <2>3, LinksShown
    <3>2. pc' # "not found"
      BY <2>3 DEF ReadRows, Goes
    <3> QED
      BY <1>2, <2>1, <3>1, <3>2
  <2>4. CASE Sitemap
    <3>1. \A link \in links' : link[1] \in Published
      BY <2>4 DEF Sitemap
    <3>2. pc' # "not found"
      BY <2>4 DEF Sitemap, Goes
    <3> QED
      BY <1>2, <2>1, <3>1, <3>2
  <2>5. ASSUME NEW link \in links, OpenLink(link) PROVE LinksLed' /\ DeadLinksExplained'
    <3>1. CASE link[1] \in Published
      <4>1. /\ links' = links \cup {<<e, "detail">> :
                          e \in Source[link[1]] \cup {t \in Doc : link[1] \in Source[t]}}
            /\ pc' = "links"
        BY <2>5, <3>1 DEF OpenLink, Goes
      <4> QED
        BY <1>2, <2>1, <4>1
    <3>2. CASE link[1] \notin Published
      <4>1. links' = {link}
        BY <2>5, <3>2 DEF OpenLink
      <4> QED
        BY <1>0, <2>1, <3>2, <4>1 DEF LinksLed, DeadLinksExplained
    <3> QED
      BY <3>1, <3>2
  <2>6. CASE ReadIds \/ CountRows \/ NextPage \/ \E q \in Queries : Landing(q)
    BY <2>2, <2>6 DEF ReadIds, CountRows, NextPage, Landing, Goes
  <2>7. CASE \E f \in LegalStatus \cup {Any}, n \in Limits : FindAll(f, n)
    BY <2>2, <2>7 DEF FindAll, Goes
  <2> QED
    BY <1>1, <2>3, <2>4, <2>5, <2>6, <2>7 DEF Next, Changes
<1>4. Changes \/ UNCHANGED <<rows, history>>
  BY DEF Next, Changes, FindAll, ReadIds, ReadRows, CountRows, NextPage, Sitemap, OpenLink,
         Landing, Goes
<1> QED
  BY <1>1, <1>3, <1>4

-----------------------------------------------------------------------------
(* The figures of the landing page. *)

\* What the queries answer at one moment fits together.
LEMMA AnswersFit ==
    ASSUME TypeOK
    PROVE  /\ Answer("published") = Cardinality(Published)
           /\ Answer("activeTypes") = Cardinality(active)
           /\ Cardinality(Published) \in Nat /\ Cardinality(active) \in Nat
           /\ Answer("thisYear") \in Nat /\ Answer("thisYear") <= Cardinality(Published)
           /\ SumOf(Answer("types")) \in Nat
           /\ SumOf(Answer("types")) <= Cardinality(Published)
           /\ Cardinality(DOMAIN Answer("types")) \in Nat
           /\ Cardinality(DOMAIN Answer("types")) <= Cardinality(active)
<1>1. IsFiniteSet(Published) /\ IsFiniteSet(active) /\ Published \in SUBSET Doc
  BY FS_Subset DEF Published, TypeOK
<1>2. \A S \in SUBSET Published : Cardinality(S) \in Nat /\ Cardinality(S) <= Cardinality(Published)
  BY <1>1, FS_Subset, FS_CardinalityType
<1>3. \A S \in SUBSET active : Cardinality(S) \in Nat /\ Cardinality(S) <= Cardinality(active)
  BY <1>1, FS_Subset, FS_CardinalityType
<1>4. /\ Answer("published") = Cardinality(Published)
      /\ Answer("activeTypes") = Cardinality(active)
      /\ Answer("thisYear") = Cardinality({d \in Published : Year(d) = CurrentYear})
      /\ Answer("types") =
            [t \in active \cap Slugged |-> Cardinality({d \in Published : Owner[d] = t})]
  BY DEF Answer
<1>5. DOMAIN Answer("types") = active \cap Slugged
  BY <1>4
<1>6. SumOf(Answer("types")) =
         Cardinality({d \in Published : Owner[d] \in active \cap Slugged})
  <2> DEFINE A == active \cap Slugged
  <2>1. A \in SUBSET Type
    BY DEF TypeOK
  <2>2. Answer("types") = [t \in A |-> Cardinality({d \in Published : Owner[d] = t})]
    BY <1>4
  <2> HIDE DEF A
  <2>3. SumOf([t \in A |-> Cardinality({d \in Published : Owner[d] = t})])
           = Cardinality({d \in Published : Owner[d] \in A})
    BY <1>1, <2>1, SumOfCounts
  <2>4. SumOf(Answer("types")) = Cardinality({d \in Published : Owner[d] \in A})
    BY <2>2, <2>3
  <2> QED
    BY <2>4 DEF A
<1> QED
  BY <1>2, <1>3, <1>4, <1>5, <1>6

\* One change adds or removes one document, or one type, at most.
LEMMA ChangesMoveOne ==
    ASSUME TypeOK, Changes
    PROVE  /\ Cardinality(Published') <= Cardinality(Published) + 1
           /\ Cardinality(active) <= Cardinality(active') + 1
           /\ Cardinality(active') <= Cardinality(active) + 1
           /\ Cardinality(Published) <= Cardinality(Published') + 1
           /\ Cardinality(active') \in Nat /\ Cardinality(Published') \in Nat
<1>1. /\ IsFiniteSet(Published) /\ IsFiniteSet(Published')
      /\ IsFiniteSet(active) /\ IsFiniteSet(active')
  <2>1. /\ Published \subseteq Doc /\ Published' \subseteq Doc
        /\ active \subseteq Type /\ active' \subseteq Type
    BY ChangesChange DEF Published, TypeOK
  <2> QED
    BY <2>1, FS_Subset
<1>2. /\ \E d : Published' \subseteq Published \cup {d} /\ Published \subseteq Published' \cup {d}
      /\ \E t : active \subseteq active' \cup {t} /\ active' \subseteq active \cup {t}
  <2>1. ASSUME NEW d \in Doc, NEW s \in {"PUBLISHED", "DISABLED"}, SetStatus(d, s)
        PROVE  Published' \subseteq Published \cup {d} /\ Published \subseteq Published' \cup {d}
    BY <2>1 DEF SetStatus, Published, TypeOK
  <2>2. ASSUME NEW d \in Doc, NEW l \in LegalStatus, SetLegal(d, l)
        PROVE  Published' = Published /\ active' = active
    BY <2>2 DEF SetLegal, Published
  <2>3. ASSUME NEW t \in Type, SetActive(t)
        PROVE  /\ Published' = Published
               /\ active \subseteq active' \cup {t} /\ active' \subseteq active \cup {t}
    BY <2>3 DEF SetActive, Published
  <2>4. ASSUME NEW d \in Doc, NEW s \in {"PUBLISHED", "DISABLED"}, SetStatus(d, s)
        PROVE  active' = active
    BY <2>4 DEF SetStatus
  <2> QED
    BY <2>1, <2>2, <2>3, <2>4 DEF Changes
<1>3. ASSUME NEW S, NEW T, NEW x, IsFiniteSet(S), IsFiniteSet(T), S \subseteq T \cup {x}
      PROVE  /\ Cardinality(S) \in Nat /\ Cardinality(T) \in Nat
             /\ Cardinality(S) <= Cardinality(T) + 1
  <2>1. /\ IsFiniteSet(T \cup {x})
        /\ Cardinality(T \cup {x}) = Cardinality(T) \/ Cardinality(T \cup {x}) = Cardinality(T) + 1
    BY <1>3, FS_AddElement
  <2>2. Cardinality(S) <= Cardinality(T \cup {x})
    BY <1>3, <2>1, FS_Subset
  <2>3. Cardinality(S) \in Nat /\ Cardinality(T) \in Nat
    BY <1>3, FS_CardinalityType
  <2> QED
    BY <2>1, <2>2, <2>3
<1> QED
  BY <1>1, <1>2, <1>3, FS_CardinalityType

\* A new answer is right when it comes; later changes are allowed for.
LEMMA FiguresStep ==
    ASSUME IndInv, Next
    PROVE  FiguresNear' /\ FiguresCurrent'
<1>0. TypeOK /\ FiguresNear /\ FiguresCurrent /\ changes \in Nat
  <2>1. changes \in 0..MaxChanges
    BY DEF IndInv, TypeOK
  <2> QED
    BY <2>1 DEF IndInv
<1>1. CASE Changes
  <2>1. answers' = answers /\ changes' = changes + 1
    BY <1>0, <1>1, ChangesChange DEF Change
  <2>2. FiguresCurrent'
    BY <1>0, <2>1 DEF FiguresCurrent
  <2>3. Cardinality(Published) \in Nat /\ Cardinality(active) \in Nat
    BY <1>0, AnswersFit
  <2>4. FiguresNear'
    BY <1>0, <1>1, <2>1, <2>3, ChangesMoveOne DEF FiguresNear, Asked
  <2> QED
    BY <2>2, <2>4
<1>2. CASE UNCHANGED <<rows, history>>
  <2>1. /\ Published' = Published /\ active' = active /\ changes' = changes
        /\ \A q : Answer(q)' = Answer(q)
    BY <1>2 DEF rows, history, Published, Answer
  <2>2. CASE answers' = answers
    BY <1>0, <2>1, <2>2 DEF FiguresNear, FiguresCurrent, Asked
  <2>3. ASSUME NEW q \in Queries, Landing(q) PROVE FiguresNear' /\ FiguresCurrent'
    <3>1. /\ DOMAIN answers' = DOMAIN answers \cup {q} /\ q \notin DOMAIN answers
          /\ answers'[q] = Answer(q)
          /\ \A p \in DOMAIN answers : answers'[p] = answers[p]
      BY <2>3 DEF Landing
    <3>2. FiguresCurrent'
      BY <1>0, <2>1, <3>1 DEF FiguresCurrent
    <3>3. FiguresNear'
      BY <1>0, <2>1, <3>1, AnswersFit DEF FiguresNear, Asked, Queries
    <3> QED
      BY <3>2, <3>3
  <2> QED
    BY <1>1, <2>2, <2>3 DEF Next, Changes, FindAll, ReadIds, ReadRows, CountRows, NextPage,
       Sitemap, OpenLink
<1>3. Changes \/ UNCHANGED <<rows, history>>
  BY DEF Next, Changes, FindAll, ReadIds, ReadRows, CountRows, NextPage, Sitemap, OpenLink,
         Landing, Goes
<1> QED
  BY <1>1, <1>2, <1>3

LEMMA IndInvInitially == Init => IndInv
<1> SUFFICES ASSUME Init PROVE IndInv
  OBVIOUS
<1>1. TypeOK
  <2>1. limit \in Limits /\ limit \in Nat
    BY DEF Init
  <2>2. Cardinality({}) = 0
    BY FS_EmptySet
  <2>3. Cardinality(ids) <= limit /\ total \in Nat
    BY <2>1, <2>2 DEF Init
  <2>4. seen \in [Doc -> Nat] /\ DOMAIN answers \subseteq Queries /\ changes \in 0..MaxChanges
    BY DEF Init
  <2> QED
    BY <2>1, <2>3, <2>4 DEF Init, TypeOK
<1>2. NothingYet /\ UnreadAhead /\ PageFull /\ LinksLed /\ DeadLinksExplained
  BY DEF Init, NothingYet, UnreadAhead, PageFull, LinksLed, DeadLinksExplained, Reading
<1>3. ReadBehind
  BY DEF Init, ReadBehind, Reading
<1>4. FiguresNear /\ FiguresCurrent
  BY DEF Init, FiguresNear, FiguresCurrent, Asked
<1> QED
  BY <1>1, <1>2, <1>3, <1>4 DEF IndInv

LEMMA IndInvStutters == ASSUME IndInv, UNCHANGED vars PROVE IndInv'
<1>1. UNCHANGED <<rows, filter>>
  BY DEF vars
<1>2. Matching' = Matching /\ Published' = Published /\ \A d \in Doc : Rank(d)' = Rank(d)
  BY <1>1, ListStays
<1>3. TypeOK' /\ NothingYet' /\ DeadLinksExplained'
  BY DEF IndInv, TypeOK, NothingYet, DeadLinksExplained, vars, rows, history
<1>4. LinksLed'
  BY <1>2 DEF IndInv, LinksLed, vars, history
<1>5. UnreadAhead'
  <2>1. Matching \subseteq Doc
    BY DEF Matching, Published
  <2> QED
    BY <1>2, <2>1 DEF IndInv, UnreadAhead, ReadTo, vars, history
<1>8. PageFull'
  BY <1>2 DEF IndInv, PageFull, vars, history
<1>6. ReadBehind'
  BY <1>2 DEF IndInv, ReadBehind, ReadTo, vars, history
<1>7. FiguresNear' /\ FiguresCurrent'
  <2>1. /\ answers' = answers /\ active' = active /\ changes' = changes
        /\ \A q : Answer(q)' = Answer(q)
    BY <1>2 DEF vars, rows, history, Answer
  <2> QED
    BY <1>2, <2>1 DEF IndInv, FiguresNear, FiguresCurrent, Asked
<1> QED
  BY <1>3, <1>4, <1>5, <1>6, <1>7, <1>8 DEF IndInv

-----------------------------------------------------------------------------
(* The invariant, and the properties that follow from it. *)

\* The inductive invariant holds whatever changes between the visitor's statements.
THEOREM Invariance == Spec => []IndInv
<1>1. IndInv /\ [Next]_vars => IndInv'
  BY TypeOKStep, NothingYetStep, UnreadAheadStep, PageFullStep, ReadBehindStep, LinksStep,
     FiguresStep, IndInvStutters
  DEF IndInv
<1> QED
  BY IndInvInitially, <1>1, PTL DEF Spec

\* The variables keep their types, and no page is longer than the limit.
THEOREM TypeCorrect == Spec => []TypeOK
<1>1. IndInv => TypeOK
  BY DEF IndInv
<1> QED
  BY Invariance, <1>1, PTL

\* findAll: who reads all pages misses a document, or finds one twice, only for a
\* document before it that has left, or joined.
THEOREM PagesAreExplained == Spec => []PagesExplained
<1>1. ASSUME IndInv PROVE PagesExplained
  <2>1. ASSUME pc = "page", offset + limit >= total,
               NEW d \in Matching \ (joined \cup left), seen[d] = 0
        PROVE  \E e \in left : Before(e, d)
    <3>1. offset \in Nat /\ limit \in Nat /\ total \in Nat
      BY <1>1 DEF IndInv, TypeOK
    <3> SUFFICES ASSUME \A e \in left : ~Before(e, d) PROVE FALSE
      OBVIOUS
    <3>2. offset + limit < total
      BY <1>1, <2>1 DEF IndInv, UnreadAhead, Reading
    <3> QED
      BY <2>1, <3>1, <3>2
  <2>2. ASSUME NEW d \in Doc, seen[d] > 1 PROVE \E e \in joined : Before(e, d)
    <3>1. seen[d] \in Nat
      BY <1>1 DEF IndInv, TypeOK
    <3>2. (\A e \in joined : ~Before(e, d)) => seen[d] <= 1
      BY <1>1 DEF IndInv, ReadBehind
    <3>3. ~(seen[d] <= 1)
      BY <2>2, <3>1
    <3> QED
      BY <3>2, <3>3
  <2> QED
    BY <2>1, <2>2 DEF PagesExplained
<1> QED
  BY Invariance, <1>1, PTL

\* A link of the listing or the sitemap leads nowhere only to what was withdrawn since.
THEOREM DeadLinksAreExplained == Spec => []DeadLinksExplained
<1>1. IndInv => DeadLinksExplained
  BY DEF IndInv
<1> QED
  BY Invariance, <1>1, PTL

\* getLandingData: the figures agree but for one document, or type, for each change
\* between the queries.
THEOREM LandingFiguresAgree == Spec => []LandingAgrees
<1>1. ASSUME IndInv PROVE LandingAgrees
  <2> SUFFICES ASSUME DOMAIN answers = Queries, changes = 0
               PROVE  /\ answers["years"] = {} <=> answers["published"] = 0
                      /\ answers["thisYear"] > 0 => CurrentYear \in answers["years"]
    BY <1>1 DEF LandingAgrees, IndInv, FiguresNear, Asked, Queries
  <2> DEFINE years == {Year(d) : d \in Published}
  <2>1. /\ answers["published"] = Cardinality(Published)
        /\ answers["thisYear"] = Cardinality({d \in Published : Year(d) = CurrentYear})
        /\ answers["years"] = IF years = {} THEN {} ELSE Min(years)..Max(years)
    BY <1>1 DEF IndInv, FiguresCurrent, Queries, Answer
  <2>2. Published \subseteq Doc /\ IsFiniteSet(Published)
    BY FS_Subset DEF Published
  <2>3. years \in SUBSET Nat /\ IsFiniteSet(years)
    <3>1. \A d \in Doc : Year(d) \in Nat
      BY KeyComponents DEF Year
    <3>2. IsFiniteSet(years)
      <4> DEFINE f == [d \in Published |-> Year(d)]
      <4>1. f \in Surjection(Published, years)
        BY DEF Surjection
      <4> HIDE DEF f, years
      <4> QED
        BY <2>2, <4>1, FS_Surjection
    <3> QED
      BY <2>2, <3>1, <3>2
  <2>4. years = {} <=> Published = {}
    OBVIOUS
  <2>5. years # {} => /\ Min(years) \in Nat /\ Max(years) \in Nat
                      /\ \A y \in years : y \in Min(years)..Max(years)
    <3> HIDE DEF years
    <3> SUFFICES ASSUME years # {}
                 PROVE  /\ Min(years) \in Nat /\ Max(years) \in Nat
                        /\ \A y \in years : y \in Min(years)..Max(years)
      OBVIOUS
    <3>1. /\ Min(years) \in years /\ \A y \in years : Min(years) <= y
          /\ Max(years) \in years /\ \A y \in years : Max(years) >= y
      BY <2>3, MinMax
    <3>2. years \subseteq Nat
      BY <2>3
    <3>3. Min(years) \in Nat /\ Max(years) \in Nat
      BY <3>1, <3>2
    <3>4. ASSUME NEW y \in years PROVE y \in Min(years)..Max(years)
      BY <3>1, <3>2, <3>3
    <3> QED
      BY <3>3, <3>4
  <2>6. answers["years"] = {} <=> answers["published"] = 0
    BY <2>1, <2>2, <2>4, <2>5, FS_EmptySet
  <2>7. ASSUME answers["thisYear"] > 0 PROVE CurrentYear \in answers["years"]
    <3>1. {d \in Published : Year(d) = CurrentYear} # {}
      <4> SUFFICES ASSUME {d \in Published : Year(d) = CurrentYear} = {} PROVE FALSE
        OBVIOUS
      <4>1. answers["thisYear"] = 0
        BY <2>1, FS_EmptySet
      <4> QED
        BY <2>7, <4>1
    <3>2. CurrentYear \in years
      BY <3>1
    <3> QED
      BY <2>1, <2>5, <3>2
  <2> QED
    BY <2>6, <2>7
<1> QED
  BY Invariance, <1>1, PTL
=============================================================================
