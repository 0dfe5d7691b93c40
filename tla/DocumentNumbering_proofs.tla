------------------------ MODULE DocumentNumbering_proofs ------------------------
(***************************************************************************)
(* Proofs about DocumentNumbering, for any requests, types, numbers,       *)
(* suffixes, years and number of documents.  IndInv is inductive: one      *)
(* lemma per conjunct.  Scopes follow modes, an answer that a number is    *)
(* taken is right where the slugs of types are apart, and the handlers     *)
(* implement NumberRegistry.                                               *)
(***************************************************************************)
EXTENDS DocumentNumbering, SequenceTheorems, TLAPS

-----------------------------------------------------------------------------
(* Why they hold: an inductive invariant. *)

Numbering == {"inserting", "committing"}
Changing == {"counting", "saving"}

\* The locks on a type are held by open transactions on it, and FOR UPDATE
\* excludes FOR SHARE.
LocksHeld ==
    /\ \A t \in Type : \A r \in readers[t] : pc[r] \in Numbering /\ draft[r].type = t
    /\ \A t \in Type : \A r \in Request :
          writer[t] = r => pc[r] \in Changing /\ draft[r].type = t
    /\ \A t \in Type : writer[t] # NoRequest => readers[t] = {}

\* While it holds its lock a transaction knows the mode of the type.
ModeUnderLock ==
    /\ \A r \in Request : pc[r] \in Numbering =>
          /\ r \in readers[draft[r].type]
          /\ seenMode[r] = mode[draft[r].type]
    /\ \A r \in Request : pc[r] \in Changing => writer[draft[r].type] = r
    /\ \A r \in Request : pc[r] \in Numbering \cup Changing \cup {"locking"} =>
          mode[draft[r].type] # "none" /\ seenMode[r] # "none"

\* A mode that is about to change is that of a type without documents, those of
\* open transactions included.
UnusedWhenChanged ==
    \A r \in Request : pc[r] = "saving" =>
        \/ seenMode[r] = mode[draft[r].type]
        \/ \A row \in documents : row.doc.type # draft[r].type

\* A row that is not committed is what its transaction inserted.
RowsOfTransactions ==
    /\ \A row \in documents : row.tx # NoRequest =>
          pc[row.tx] = "committing" /\ row = NewRow(row.tx)
    /\ \A r \in Request : pc[r] = "committing" => NewRow(r) \in documents

\* The unique indexes hold for rows that are not committed, too.
NumbersDistinct == \A a, b \in documents : SameNumber(a, b) => a = b

IndInv ==
    /\ TypeOK
    /\ LocksHeld
    /\ ModeUnderLock
    /\ UnusedWhenChanged
    /\ RowsOfTransactions
    /\ NumbersDistinct
    /\ ScopeFollowsMode

USE NoRequestAssumption

-----------------------------------------------------------------------------
\* What CountDocuments does, without the set it computes.
LEMMA CountDocumentsCases ==
    ASSUME NEW r \in Request, CountDocuments(r)
    PROVE  /\ pc[r] = "counting"
           /\ UNCHANGED <<mode, documents>>
           /\ \/ /\ \A row \in Committed : row.doc.type # draft[r].type
                 /\ pc' = [pc EXCEPT ![r] = "saving"]
                 /\ UNCHANGED <<readers, writer, draft, seenMode, reply>>
              \/ End(r, "mode is settled")
<1> DEFINE numbered == {row \in Committed : row.doc.type = draft[r].type}
<1>1. numbered = {} => \A row \in Committed : row.doc.type # draft[r].type
  OBVIOUS
<1> QED
  BY <1>1, Zenon DEF CountDocuments

-----------------------------------------------------------------------------
(* Every step preserves every conjunct of IndInv.                            *)

\* Every handler keeps the types.
LEMMA TypeOKStep ==
    ASSUME IndInv, Next
    PROVE  TypeOK'
<1> USE DEF IndInv, TypeOK, Draft, Modes, Replies
<1>1. ASSUME NEW r \in Request, NEW t \in Type, NEW m \in Modes, CreateType(r, t, m) PROVE TypeOK'
  BY <1>1 DEF CreateType, End, Scope, NewRow
<1>2. ASSUME NEW r \in Request, NEW d \in Draft, NEW m \in Modes, UpdateType(r, d, m) PROVE TypeOK'
  BY <1>2 DEF UpdateType, Scope, NewRow
<1>3. ASSUME NEW r \in Request, NEW d \in Draft, Create(r, d) PROVE TypeOK'
  BY <1>3 DEF Create, Scope, NewRow
<1>4. ASSUME NEW r \in Request, LockTypeForUpdate(r) PROVE TypeOK'
  BY <1>4 DEF LockTypeForUpdate, Scope, NewRow
<1>5. ASSUME NEW r \in Request, CountDocuments(r) PROVE TypeOK'
  <2>1. CASE /\ pc' = [pc EXCEPT ![r] = "saving"]
             /\ UNCHANGED <<mode, documents, readers, writer, draft, seenMode, reply>>
    BY <1>5, <2>1 DEF CountDocuments
  <2>2. CASE End(r, "mode is settled") /\ UNCHANGED <<mode, documents>>
    BY <1>5, <2>2 DEF CountDocuments, End
  <2> QED
    BY <1>5, <2>1, <2>2 DEF CountDocuments
<1>6. ASSUME NEW r \in Request, SaveType(r) PROVE TypeOK'
  BY <1>6 DEF SaveType, End, Scope, NewRow
<1>7. ASSUME NEW r \in Request, LockTypeForShare(r) PROVE TypeOK'
  BY <1>7 DEF LockTypeForShare, Scope, NewRow
<1>8. ASSUME NEW r \in Request, InsertDocument(r) PROVE TypeOK'
  <2>1. NewRow(r) \in [doc : Draft, scope : Year \cup {"GLOBAL"}, tx : Request \cup {NoRequest}]
    BY DEF NewRow, Scope
  <2> QED
    BY <1>8, <2>1 DEF InsertDocument
<1>9. ASSUME NEW r \in Request, InsertFails(r) PROVE TypeOK'
  BY <1>9 DEF InsertFails, End, Scope, NewRow
<1>10. ASSUME NEW r \in Request, Commit(r) PROVE TypeOK'
  <2> DEFINE Rows == [doc : Draft, scope : Year \cup {"GLOBAL"}, tx : Request \cup {NoRequest}]
  <2>1. \A row \in Rows : [row EXCEPT !.tx = NoRequest] \in Rows
    OBVIOUS
  <2>2. documents \subseteq Rows
    OBVIOUS
  <2>3. documents' = {IF row.tx = r THEN [row EXCEPT !.tx = NoRequest] ELSE row : row \in documents}
    BY <1>10 DEF Commit
  <2>4. documents' \subseteq Rows
    <3> HIDE DEF Rows, IndInv, TypeOK
    <3> QED
      BY <2>1, <2>2, <2>3
  <2> QED
    BY <1>10, <2>4 DEF Commit, End
<1>11. ASSUME NEW r \in Request, Rollback(r) PROVE TypeOK'
  BY <1>11 DEF Rollback, End, Scope, NewRow
<1> HIDE DEF IndInv, TypeOK, Draft, Modes, Replies
<1> QED
  BY <1>1, <1>2, <1>3, <1>4, <1>5, <1>6, <1>7, <1>8, <1>9, <1>10, <1>11 DEF Next

\* A lock is taken when it is free and released when the handler ends.
LEMMA LocksHeldStep ==
    ASSUME IndInv, Next
    PROVE  LocksHeld'
<1> USE DEF IndInv, TypeOK, LocksHeld, Draft, Numbering, Changing
<1>1. ASSUME NEW r \in Request, NEW t \in Type, NEW m \in Modes, CreateType(r, t, m) PROVE LocksHeld'
  BY <1>1 DEF CreateType, End
<1>2. ASSUME NEW r \in Request, NEW d \in Draft, NEW m \in Modes, UpdateType(r, d, m) PROVE LocksHeld'
  BY <1>2 DEF UpdateType
<1>3. ASSUME NEW r \in Request, NEW d \in Draft, Create(r, d) PROVE LocksHeld'
  BY <1>3 DEF Create
<1>4. ASSUME NEW r \in Request, LockTypeForUpdate(r) PROVE LocksHeld'
  BY <1>4 DEF LockTypeForUpdate
<1>5. ASSUME NEW r \in Request, CountDocuments(r) PROVE LocksHeld'
  <2>1. pc[r] = "counting" /\ UNCHANGED <<mode, documents>>
    BY <1>5, CountDocumentsCases
  <2>2. CASE /\ pc' = [pc EXCEPT ![r] = "saving"]
             /\ UNCHANGED <<readers, writer, draft, seenMode, reply>>
    BY <2>1, <2>2
  <2>3. CASE End(r, "mode is settled")
    <3>1. pc' = [pc EXCEPT ![r] = "idle"] /\ UNCHANGED <<draft, seenMode>>
      BY <2>3, Zenon DEF End
    <3>2. readers' = [t \in Type |-> readers[t] \ {r}]
      BY <2>3, Zenon DEF End
    <3>3. writer' = [t \in Type |-> IF writer[t] = r THEN NoRequest ELSE writer[t]]
      BY <2>3, Zenon DEF End
    <3> QED
      BY <2>1, <3>1, <3>2, <3>3
  <2> QED
    BY <1>5, <2>2, <2>3, CountDocumentsCases
<1>6. ASSUME NEW r \in Request, SaveType(r) PROVE LocksHeld'
  BY <1>6 DEF SaveType, End
<1>7. ASSUME NEW r \in Request, LockTypeForShare(r) PROVE LocksHeld'
  BY <1>7 DEF LockTypeForShare
<1>8. ASSUME NEW r \in Request, InsertDocument(r) PROVE LocksHeld'
  BY <1>8 DEF InsertDocument
<1>9. ASSUME NEW r \in Request, InsertFails(r) PROVE LocksHeld'
  BY <1>9 DEF InsertFails, End
<1>10. ASSUME NEW r \in Request, Commit(r) PROVE LocksHeld'
  BY <1>10 DEF Commit, End
<1>11. ASSUME NEW r \in Request, Rollback(r) PROVE LocksHeld'
  BY <1>11 DEF Rollback, End
<1> HIDE DEF IndInv, TypeOK, LocksHeld, Draft, Numbering, Changing
<1> QED
  BY <1>1, <1>2, <1>3, <1>4, <1>5, <1>6, <1>7, <1>8, <1>9, <1>10, <1>11 DEF Next

\* Nobody changes the mode of a type on which others hold a lock.
LEMMA ModeUnderLockStep ==
    ASSUME IndInv, Next
    PROVE  ModeUnderLock'
<1> USE DEF IndInv, TypeOK, LocksHeld, ModeUnderLock, Draft, Modes, Numbering, Changing
<1>1. ASSUME NEW r \in Request, NEW t \in Type, NEW m \in Modes, CreateType(r, t, m) PROVE ModeUnderLock'
  BY <1>1 DEF CreateType, End
<1>2. ASSUME NEW r \in Request, NEW d \in Draft, NEW m \in Modes, UpdateType(r, d, m) PROVE ModeUnderLock'
  BY <1>2 DEF UpdateType
<1>3. ASSUME NEW r \in Request, NEW d \in Draft, Create(r, d) PROVE ModeUnderLock'
  BY <1>3 DEF Create
<1>4. ASSUME NEW r \in Request, LockTypeForUpdate(r) PROVE ModeUnderLock'
  BY <1>4 DEF LockTypeForUpdate
<1>5. ASSUME NEW r \in Request, CountDocuments(r) PROVE ModeUnderLock'
  <2>1. pc[r] = "counting" /\ UNCHANGED <<mode, documents>>
    BY <1>5, CountDocumentsCases
  <2>2. CASE /\ pc' = [pc EXCEPT ![r] = "saving"]
             /\ UNCHANGED <<readers, writer, draft, seenMode, reply>>
    BY <2>1, <2>2
  <2>3. CASE End(r, "mode is settled")
    <3>1. pc' = [pc EXCEPT ![r] = "idle"] /\ UNCHANGED <<draft, seenMode>>
      BY <2>3, Zenon DEF End
    <3>2. readers' = [t \in Type |-> readers[t] \ {r}]
      BY <2>3, Zenon DEF End
    <3>3. writer' = [t \in Type |-> IF writer[t] = r THEN NoRequest ELSE writer[t]]
      BY <2>3, Zenon DEF End
    <3> QED
      BY <2>1, <3>1, <3>2, <3>3
  <2> QED
    BY <1>5, <2>2, <2>3, CountDocumentsCases
<1>6. ASSUME NEW r \in Request, SaveType(r) PROVE ModeUnderLock'
  BY <1>6 DEF SaveType, End
<1>7. ASSUME NEW r \in Request, LockTypeForShare(r) PROVE ModeUnderLock'
  BY <1>7 DEF LockTypeForShare
<1>8. ASSUME NEW r \in Request, InsertDocument(r) PROVE ModeUnderLock'
  BY <1>8 DEF InsertDocument
<1>9. ASSUME NEW r \in Request, InsertFails(r) PROVE ModeUnderLock'
  BY <1>9 DEF InsertFails, End
<1>10. ASSUME NEW r \in Request, Commit(r) PROVE ModeUnderLock'
  BY <1>10 DEF Commit, End
<1>11. ASSUME NEW r \in Request, Rollback(r) PROVE ModeUnderLock'
  BY <1>11 DEF Rollback, End
<1> HIDE DEF IndInv, TypeOK, LocksHeld, ModeUnderLock, Draft, Modes, Numbering, Changing
<1> QED
  BY <1>1, <1>2, <1>3, <1>4, <1>5, <1>6, <1>7, <1>8, <1>9, <1>10, <1>11 DEF Next

\* Whoever inserts into a type holds its lock, and so is not there while the
\* documents of the type are counted and its mode is saved.
LEMMA UnusedWhenChangedStep ==
    ASSUME IndInv, Next
    PROVE  UnusedWhenChanged'
<1> USE DEF IndInv, TypeOK, LocksHeld, ModeUnderLock, UnusedWhenChanged, RowsOfTransactions,
            Draft, Modes, Numbering, Changing, Committed
<1>1. ASSUME NEW r \in Request, NEW t \in Type, NEW m \in Modes, CreateType(r, t, m) PROVE UnusedWhenChanged'
  BY <1>1 DEF CreateType, End, NewRow
<1>2. ASSUME NEW r \in Request, NEW d \in Draft, NEW m \in Modes, UpdateType(r, d, m) PROVE UnusedWhenChanged'
  BY <1>2 DEF UpdateType, NewRow
<1>3. ASSUME NEW r \in Request, NEW d \in Draft, Create(r, d) PROVE UnusedWhenChanged'
  BY <1>3 DEF Create, NewRow
<1>4. ASSUME NEW r \in Request, LockTypeForUpdate(r) PROVE UnusedWhenChanged'
  BY <1>4 DEF LockTypeForUpdate, NewRow
<1>5. ASSUME NEW r \in Request, CountDocuments(r) PROVE UnusedWhenChanged'
  <2>1. pc[r] = "counting" /\ UNCHANGED <<mode, documents>>
    BY <1>5, CountDocumentsCases
  <2>2. CASE /\ \A row \in Committed : row.doc.type # draft[r].type
             /\ pc' = [pc EXCEPT ![r] = "saving"]
             /\ UNCHANGED <<readers, writer, draft, seenMode, reply>>
    <3>1. draft[r].type \in Type
      OBVIOUS
    <3>2. writer[draft[r].type] = r /\ readers[draft[r].type] = {}
      BY <2>1, <3>1
    <3>3. ASSUME NEW row \in documents, row.doc.type = draft[r].type PROVE FALSE
      <4>1. row.tx # NoRequest
        BY <2>2, <3>3
      <4>2. row.tx \in Request /\ pc[row.tx] = "committing" /\ row.doc = draft[row.tx]
        BY <4>1, <3>3 DEF NewRow
      <4>3. row.tx \in readers[draft[r].type]
        BY <4>2, <3>3
      <4> QED
        BY <4>3, <3>2
    <3> QED
      BY <2>1, <2>2, <3>3
  <2>3. CASE End(r, "mode is settled")
    <3>1. pc' = [pc EXCEPT ![r] = "idle"] /\ UNCHANGED <<draft, seenMode>>
      BY <2>3, Zenon DEF End
    <3>2. readers' = [t \in Type |-> readers[t] \ {r}]
      BY <2>3, Zenon DEF End
    <3>3. writer' = [t \in Type |-> IF writer[t] = r THEN NoRequest ELSE writer[t]]
      BY <2>3, Zenon DEF End
    <3> QED
      BY <2>1, <3>1, <3>2, <3>3
  <2> QED
    BY <1>5, <2>2, <2>3, CountDocumentsCases
<1>6. ASSUME NEW r \in Request, SaveType(r) PROVE UnusedWhenChanged'
  BY <1>6 DEF SaveType, End, NewRow
<1>7. ASSUME NEW r \in Request, LockTypeForShare(r) PROVE UnusedWhenChanged'
  BY <1>7 DEF LockTypeForShare, NewRow
<1>8. ASSUME NEW r \in Request, InsertDocument(r) PROVE UnusedWhenChanged'
  BY <1>8 DEF InsertDocument, NewRow
<1>9. ASSUME NEW r \in Request, InsertFails(r) PROVE UnusedWhenChanged'
  BY <1>9 DEF InsertFails, End, NewRow
<1>10. ASSUME NEW r \in Request, Commit(r) PROVE UnusedWhenChanged'
  BY <1>10 DEF Commit, End, NewRow
<1>11. ASSUME NEW r \in Request, Rollback(r) PROVE UnusedWhenChanged'
  BY <1>11 DEF Rollback, End, NewRow
<1> HIDE DEF IndInv, TypeOK, LocksHeld, ModeUnderLock, UnusedWhenChanged, RowsOfTransactions,
            Draft, Modes, Numbering, Changing, Committed
<1> QED
  BY <1>1, <1>2, <1>3, <1>4, <1>5, <1>6, <1>7, <1>8, <1>9, <1>10, <1>11 DEF Next

\* Transactions own their rows from the INSERT to the end.
LEMMA RowsOfTransactionsStep ==
    ASSUME IndInv, Next
    PROVE  RowsOfTransactions'
<1> USE DEF IndInv, TypeOK, ModeUnderLock, RowsOfTransactions, Draft, Numbering, Changing
<1>1. ASSUME NEW r \in Request, NEW t \in Type, NEW m \in Modes, CreateType(r, t, m) PROVE RowsOfTransactions'
  BY <1>1 DEF CreateType, End, NewRow, Scope
<1>2. ASSUME NEW r \in Request, NEW d \in Draft, NEW m \in Modes, UpdateType(r, d, m) PROVE RowsOfTransactions'
  BY <1>2 DEF UpdateType, NewRow, Scope
<1>3. ASSUME NEW r \in Request, NEW d \in Draft, Create(r, d) PROVE RowsOfTransactions'
  BY <1>3 DEF Create, NewRow, Scope
<1>4. ASSUME NEW r \in Request, LockTypeForUpdate(r) PROVE RowsOfTransactions'
  BY <1>4 DEF LockTypeForUpdate, NewRow, Scope
<1>5. ASSUME NEW r \in Request, CountDocuments(r) PROVE RowsOfTransactions'
  <2>1. CASE /\ pc' = [pc EXCEPT ![r] = "saving"]
             /\ UNCHANGED <<mode, documents, readers, writer, draft, seenMode, reply>>
    BY <1>5, <2>1 DEF CountDocuments, NewRow, Scope
  <2>2. CASE End(r, "mode is settled") /\ UNCHANGED <<mode, documents>>
    BY <1>5, <2>2 DEF CountDocuments, End, NewRow, Scope
  <2> QED
    BY <1>5, <2>1, <2>2 DEF CountDocuments
<1>6. ASSUME NEW r \in Request, SaveType(r) PROVE RowsOfTransactions'
  BY <1>6 DEF SaveType, End, NewRow, Scope
<1>7. ASSUME NEW r \in Request, LockTypeForShare(r) PROVE RowsOfTransactions'
  BY <1>7 DEF LockTypeForShare, NewRow, Scope
<1>8. ASSUME NEW r \in Request, InsertDocument(r) PROVE RowsOfTransactions'
  BY <1>8 DEF InsertDocument, NewRow, Scope
<1>9. ASSUME NEW r \in Request, InsertFails(r) PROVE RowsOfTransactions'
  BY <1>9 DEF InsertFails, End, NewRow, Scope
<1>10. ASSUME NEW r \in Request, Commit(r) PROVE RowsOfTransactions'
  BY <1>10, SMTT(30) DEF Commit, End, NewRow, Scope
<1>11. ASSUME NEW r \in Request, Rollback(r) PROVE RowsOfTransactions'
  BY <1>11 DEF Rollback, End, NewRow, Scope
<1> HIDE DEF IndInv, TypeOK, ModeUnderLock, RowsOfTransactions, Draft, Numbering, Changing
<1> QED
  BY <1>1, <1>2, <1>3, <1>4, <1>5, <1>6, <1>7, <1>8, <1>9, <1>10, <1>11 DEF Next

\* The INSERT fails or waits on a clash.
LEMMA NumbersDistinctStep ==
    ASSUME IndInv, Next
    PROVE  NumbersDistinct'
<1> USE DEF IndInv, TypeOK, RowsOfTransactions, NumbersDistinct, Draft, SameNumber
<1>1. ASSUME NEW r \in Request, NEW t \in Type, NEW m \in Modes, CreateType(r, t, m) PROVE NumbersDistinct'
  BY <1>1 DEF CreateType, End, NewRow, Clash
<1>2. ASSUME NEW r \in Request, NEW d \in Draft, NEW m \in Modes, UpdateType(r, d, m) PROVE NumbersDistinct'
  BY <1>2 DEF UpdateType, NewRow, Clash
<1>3. ASSUME NEW r \in Request, NEW d \in Draft, Create(r, d) PROVE NumbersDistinct'
  BY <1>3 DEF Create, NewRow, Clash
<1>4. ASSUME NEW r \in Request, LockTypeForUpdate(r) PROVE NumbersDistinct'
  BY <1>4 DEF LockTypeForUpdate, NewRow, Clash
<1>5. ASSUME NEW r \in Request, CountDocuments(r) PROVE NumbersDistinct'
  BY <1>5 DEF CountDocuments, End, NewRow, Clash
<1>6. ASSUME NEW r \in Request, SaveType(r) PROVE NumbersDistinct'
  BY <1>6 DEF SaveType, End, NewRow, Clash
<1>7. ASSUME NEW r \in Request, LockTypeForShare(r) PROVE NumbersDistinct'
  BY <1>7 DEF LockTypeForShare, NewRow, Clash
<1>8. ASSUME NEW r \in Request, InsertDocument(r) PROVE NumbersDistinct'
  BY <1>8 DEF InsertDocument, NewRow, Clash
<1>9. ASSUME NEW r \in Request, InsertFails(r) PROVE NumbersDistinct'
  BY <1>9 DEF InsertFails, End, NewRow, Clash
<1>10. ASSUME NEW r \in Request, Commit(r) PROVE NumbersDistinct'
  BY <1>10, SMTT(30) DEF Commit, End, NewRow, Clash
<1>11. ASSUME NEW r \in Request, Rollback(r) PROVE NumbersDistinct'
  BY <1>11 DEF Rollback, End, NewRow, Clash
<1> HIDE DEF IndInv, TypeOK, RowsOfTransactions, NumbersDistinct, Draft, SameNumber
<1> QED
  BY <1>1, <1>2, <1>3, <1>4, <1>5, <1>6, <1>7, <1>8, <1>9, <1>10, <1>11 DEF Next

\* A row is inserted by the mode of the moment, which changes only without rows.
LEMMA ScopeFollowsModeStep ==
    ASSUME IndInv, Next
    PROVE  ScopeFollowsMode'
<1> USE DEF IndInv, TypeOK, LocksHeld, ModeUnderLock, UnusedWhenChanged, ScopeFollowsMode,
            Draft, Modes, Numbering, Changing
<1>1. ASSUME NEW r \in Request, NEW t \in Type, NEW m \in Modes, CreateType(r, t, m) PROVE ScopeFollowsMode'
  BY <1>1 DEF CreateType, End, NewRow
<1>2. ASSUME NEW r \in Request, NEW d \in Draft, NEW m \in Modes, UpdateType(r, d, m) PROVE ScopeFollowsMode'
  BY <1>2 DEF UpdateType, NewRow
<1>3. ASSUME NEW r \in Request, NEW d \in Draft, Create(r, d) PROVE ScopeFollowsMode'
  BY <1>3 DEF Create, NewRow
<1>4. ASSUME NEW r \in Request, LockTypeForUpdate(r) PROVE ScopeFollowsMode'
  BY <1>4 DEF LockTypeForUpdate, NewRow
<1>5. ASSUME NEW r \in Request, CountDocuments(r) PROVE ScopeFollowsMode'
  BY <1>5 DEF CountDocuments, End, NewRow
<1>6. ASSUME NEW r \in Request, SaveType(r) PROVE ScopeFollowsMode'
  BY <1>6 DEF SaveType, End, NewRow
<1>7. ASSUME NEW r \in Request, LockTypeForShare(r) PROVE ScopeFollowsMode'
  BY <1>7 DEF LockTypeForShare, NewRow
<1>8. ASSUME NEW r \in Request, InsertDocument(r) PROVE ScopeFollowsMode'
  BY <1>8 DEF InsertDocument, NewRow
<1>9. ASSUME NEW r \in Request, InsertFails(r) PROVE ScopeFollowsMode'
  BY <1>9 DEF InsertFails, End, NewRow
<1>10. ASSUME NEW r \in Request, Commit(r) PROVE ScopeFollowsMode'
  BY <1>10 DEF Commit, End, NewRow
<1>11. ASSUME NEW r \in Request, Rollback(r) PROVE ScopeFollowsMode'
  BY <1>11 DEF Rollback, End, NewRow
<1> HIDE DEF IndInv, TypeOK, LocksHeld, ModeUnderLock, UnusedWhenChanged, ScopeFollowsMode,
            Draft, Modes, Numbering, Changing
<1> QED
  BY <1>1, <1>2, <1>3, <1>4, <1>5, <1>6, <1>7, <1>8, <1>9, <1>10, <1>11 DEF Next

-----------------------------------------------------------------------------
(* The invariant, and what follows from it.                                  *)

LEMMA IndInvInitially == Init => IndInv
<1> SUFFICES ASSUME Init PROVE IndInv
  OBVIOUS
<1> QED
  BY DEF Init, IndInv, TypeOK, LocksHeld, ModeUnderLock, UnusedWhenChanged, RowsOfTransactions,
         NumbersDistinct, ScopeFollowsMode, Modes, Replies, Numbering, Changing

LEMMA IndInvStutters == ASSUME IndInv, UNCHANGED vars PROVE IndInv'
  BY DEF vars, handlers, IndInv, TypeOK, LocksHeld, ModeUnderLock, UnusedWhenChanged,
         RowsOfTransactions, NumbersDistinct, ScopeFollowsMode, NewRow, Scope, SameNumber

\* The inductive invariant holds in every reachable state.
THEOREM Invariance == Spec => []IndInv
<1>1. IndInv /\ Next => IndInv'
  BY TypeOKStep, LocksHeldStep, ModeUnderLockStep, UnusedWhenChangedStep,
     RowsOfTransactionsStep, NumbersDistinctStep, ScopeFollowsModeStep
  DEF IndInv
<1>2. IndInv /\ [Next]_vars => IndInv'
  BY <1>1, IndInvStutters
<1> QED
  BY IndInvInitially, <1>2, PTL DEF Spec

\* The variables of the tables, locks and handlers keep their types.
THEOREM TypeCorrect == Spec => []TypeOK
<1>1. IndInv => TypeOK
  BY DEF IndInv
<1> QED
  BY Invariance, <1>1, PTL

\* DocumentTypeService.update and DocumentService.create: the mode never parts
\* from the scope of the type's documents.
THEOREM ScopesFollowModes == Spec => []ScopeFollowsMode
<1>1. IndInv => ScopeFollowsMode
  BY DEF IndInv
<1> QED
  BY Invariance, <1>1, PTL

-----------------------------------------------------------------------------
(* What a duplicate is.                                                      *)

\* The slug of no type continues that of another with further segments.
SlugsNeverContinue ==
    \A t, u \in Type : t # u /\ Len(TypeSlug[t]) <= Len(TypeSlug[u]) =>
        \E i \in 1..Len(TypeSlug[t]) : TypeSlug[t][i] # TypeSlug[u][i]

\* Where the elements of two joined sequences are.
LEMMA Concat ==
    ASSUME NEW S, NEW a \in Seq(S), NEW b \in Seq(S), NEW c, c = a \o b
    PROVE  /\ c \in Seq(S)
           /\ Len(a) \in Nat /\ Len(b) \in Nat /\ Len(c) = Len(a) + Len(b)
           /\ \A i \in 1..Len(a) : c[i] = a[i]
           /\ \A i \in 1..Len(b) : c[Len(a) + i] = b[i]
<1>1. Len(a) \in Nat /\ Len(b) \in Nat
  BY LenProperties
<1>2. /\ c \in Seq(S) /\ Len(c) = Len(a) + Len(b)
      /\ \A i \in 1 .. Len(a) + Len(b) :
            c[i] = IF i <= Len(a) THEN a[i] ELSE b[i - Len(a)]
  BY ConcatProperties
<1>3. \A i \in 1..Len(a) : c[i] = a[i]
  BY <1>1, <1>2
<1>4. \A i \in 1..Len(b) : c[Len(a) + i] = b[i]
  BY <1>1, <1>2
<1> QED
  BY <1>1, <1>2, <1>3, <1>4

\* Where the segments of a slug are: those of the type, the number, those of the
\* suffix, the year.
Placed(slug, p, n, s, y) ==
    /\ Len(p) \in Nat /\ Len(s) \in Nat /\ Len(slug) = Len(p) + Len(s) + 2
    /\ \A i \in 1..Len(p) : slug[i] = p[i]
    /\ slug[Len(p) + 1] = n
    /\ \A i \in 1..Len(s) : slug[Len(p) + 1 + i] = s[i]
    /\ slug[Len(p) + Len(s) + 2] = y

LEMMA Segments ==
    ASSUME NEW S, NEW p \in Seq(S), NEW n \in S, NEW s \in Seq(S), NEW y \in S,
           NEW slug, slug = p \o <<n>> \o s \o <<y>>
    PROVE  Placed(slug, p, n, s, y)
<1>1. PICK N, Y, a, b : /\ N = <<n>> /\ Y = <<y>>
                        /\ a = p \o N /\ b = a \o s /\ slug = b \o Y
  OBVIOUS
<1>2. N \in Seq(S) /\ Y \in Seq(S) /\ Len(N) = 1 /\ Len(Y) = 1 /\ N[1] = n /\ Y[1] = y
  BY <1>1
<1>3. /\ a \in Seq(S) /\ Len(p) \in Nat /\ Len(a) = Len(p) + Len(N)
      /\ \A i \in 1..Len(p) : a[i] = p[i]
      /\ \A i \in 1..Len(N) : a[Len(p) + i] = N[i]
  BY <1>1, <1>2, Concat
<1>4. /\ b \in Seq(S) /\ Len(s) \in Nat /\ Len(b) = Len(a) + Len(s)
      /\ \A i \in 1..Len(a) : b[i] = a[i]
      /\ \A i \in 1..Len(s) : b[Len(a) + i] = s[i]
  BY <1>1, <1>3, Concat
<1>5. /\ Len(slug) = Len(b) + Len(Y)
      /\ \A i \in 1..Len(b) : slug[i] = b[i]
      /\ \A i \in 1..Len(Y) : slug[Len(b) + i] = Y[i]
  BY <1>1, <1>2, <1>4, Concat
<1> QED
  BY <1>2, <1>3, <1>4, <1>5 DEF Placed

\* After the same type a slug has one number, one suffix and one year.
LEMMA SamePlaces ==
    ASSUME NEW S, NEW p, NEW slug,
           NEW m, NEW s \in Seq(S), NEW y, NEW n, NEW t \in Seq(S), NEW z,
           Placed(slug, p, m, s, y), Placed(slug, p, n, t, z)
    PROVE  m = n /\ s = t /\ y = z
<1>1. Len(s) = Len(t)
  BY DEF Placed
<1>2. \A i \in 1..Len(s) : s[i] = t[i]
  BY <1>1 DEF Placed
<1>3. s = t
  BY <1>1, <1>2, SeqEqual
<1> QED
  BY <1>1, <1>3 DEF Placed

\* The beginnings of a slug do not differ.
LEMMA SameBeginning ==
    ASSUME NEW p, NEW q, NEW slug, NEW m, NEW s, NEW y, NEW n, NEW t, NEW z,
           Placed(slug, p, m, s, y), Placed(slug, q, n, t, z), Len(p) <= Len(q)
    PROVE  \A i \in 1..Len(p) : p[i] = q[i]
  BY DEF Placed

\* Then a slug is that of one document only: the type is where it begins, and in
\* the rest every segment has its place.
LEMMA SlugsIdentify ==
    ASSUME SlugsNeverContinue, NEW d \in Draft, NEW e \in Draft, Slug(d) = Slug(e)
    PROVE  d = e
<1> DEFINE Segment == STRING \cup Number \cup Year
<1>1. ASSUME NEW x \in Draft
      PROVE  /\ x.type \in Type /\ TypeSlug[x.type] \in Seq(Segment)
             /\ x.number \in Segment /\ x.suffix \in Seq(Segment) /\ x.year \in Segment
  <2> HIDE DEF Segment
  <2>1. /\ x.type \in Type /\ x.number \in Segment /\ x.suffix \in Suffix /\ x.year \in Segment
    BY DEF Draft, Segment
  <2>2. TypeSlug[x.type] \in Seq(Segment)
    BY <2>1, TypeSlugAssumption, SeqMonotonic, STRING \subseteq Segment DEF Segment
  <2>3. x.suffix \in Seq(Segment)
    BY <2>1, SuffixAssumption, SeqMonotonic, STRING \subseteq Segment DEF Segment
  <2> QED
    BY <2>1, <2>2, <2>3
<1> HIDE DEF Segment
<1>2. ASSUME NEW x \in Draft
      PROVE  Placed(Slug(x), TypeSlug[x.type], x.number, x.suffix, x.year)
  <2>1. Slug(x) = TypeSlug[x.type] \o <<x.number>> \o x.suffix \o <<x.year>>
    BY Zenon DEF Slug
  <2> QED
    BY <1>1, <2>1, Segments, Zenon
<1>3. ASSUME NEW x \in Draft, NEW y \in Draft, Slug(x) = Slug(y), x.type # y.type,
             Len(TypeSlug[x.type]) <= Len(TypeSlug[y.type])
      PROVE  FALSE
  <2>1. \A i \in 1..Len(TypeSlug[x.type]) : TypeSlug[x.type][i] = TypeSlug[y.type][i]
    BY <1>2, <1>3, SameBeginning, Zenon
  <2> QED
    BY <1>1, <1>3, <2>1 DEF SlugsNeverContinue
<1>4. d.type = e.type
  <2>1. Len(TypeSlug[d.type]) \in Nat /\ Len(TypeSlug[e.type]) \in Nat
    BY <1>1, LenProperties
  <2> QED
    BY <1>3, <2>1
<1>5. d.number = e.number /\ d.suffix = e.suffix /\ d.year = e.year
  <2>1. Placed(Slug(d), TypeSlug[d.type], e.number, e.suffix, e.year)
    BY <1>2, <1>4, Zenon
  <2>2. Placed(Slug(d), TypeSlug[d.type], d.number, d.suffix, d.year)
    BY <1>2
  <2>3. d.suffix \in Seq(Segment) /\ e.suffix \in Seq(Segment)
    BY <1>1
  <2> QED
    BY <2>1, <2>2, <2>3, SamePlaces, SMT
<1> QED
  BY <1>4, <1>5 DEF Draft

\* Only a refused INSERT is answered "duplicate", and the row that clashed has the
\* number, or is another document whose slug is the same.
LEMMA DuplicatesClash ==
    ASSUME IndInv, [Next]_vars, NEW r \in Request,
           reply'[r] = "duplicate", pc[r] = "inserting", pc'[r] = "idle"
    PROVE  \E row \in Committed :
              \/ SameNumber(row, NewRow(r))
              \/ row.doc # draft[r] /\ Slug(row.doc) = Slug(draft[r])
<1>1. InsertFails(r)
  <2>1. TypeOK
    BY DEF IndInv
  <2>2. ~UNCHANGED vars
    BY DEF vars, handlers
  <2>3. PICK s \in Request :
          \/ \E t \in Type, m \in Modes : CreateType(s, t, m)
          \/ \E d \in Draft, m \in Modes : UpdateType(s, d, m)
          \/ \E d \in Draft : Create(s, d)
          \/ LockTypeForUpdate(s) \/ CountDocuments(s) \/ SaveType(s)
          \/ LockTypeForShare(s) \/ InsertDocument(s) \/ InsertFails(s)
          \/ Commit(s) \/ Rollback(s)
    BY <2>2, Zenon DEF Next
  <2>4. s = r
    BY <2>1, <2>3 DEF TypeOK, CreateType, UpdateType, Create, LockTypeForUpdate,
          CountDocuments, SaveType, LockTypeForShare, InsertDocument, InsertFails,
          Commit, Rollback, End
  <2>5. ~ Rollback(r)
    BY <2>1 DEF TypeOK, Rollback, End
  <2> QED
    BY <2>1, <2>3, <2>4, <2>5, SMTT(30)
    DEF TypeOK, CreateType, UpdateType, Create, LockTypeForUpdate,
          CountDocuments, SaveType, LockTypeForShare, InsertDocument, Commit
<1>2. PICK row \in Committed : Clash(row, NewRow(r))
  BY <1>1 DEF InsertFails
<1>3. SameNumber(row, NewRow(r)) \/ Slug(row.doc) = Slug(draft[r])
  BY <1>2 DEF Clash, NewRow
<1>4. ASSUME row.doc = draft[r] PROVE SameNumber(row, NewRow(r))
  <2>1. row.scope = Scope(mode[row.doc.type], row.doc.year)
    BY <1>2 DEF IndInv, ScopeFollowsMode, Committed
  <2>2. seenMode[r] = mode[draft[r].type]
    BY DEF IndInv, ModeUnderLock, Numbering
  <2> QED
    BY <1>4, <2>1, <2>2 DEF SameNumber, NewRow
<1> QED
  BY <1>3, <1>4

\* DocumentService.create: where no type's slug continues another's, an answer "El
\* numero correlativo ingresado ya existe" is right.  Without that the run
\* numbers_slugs shows a wrong one.
THEOREM DuplicatesAreNumbersTaken ==
    ASSUME SlugsNeverContinue
    PROVE  Spec => DuplicateMeansNumberTaken
<1> DEFINE Refused(r) == reply'[r] = "duplicate" /\ pc[r] = "inserting" /\ pc'[r] = "idle"
           Taken == \A r \in Request :
                      Refused(r) => \E row \in Committed : SameNumber(row, NewRow(r))
<1>1. IndInv /\ [Next]_vars => [Taken]_vars
  <2> SUFFICES ASSUME IndInv, [Next]_vars, NEW r \in Request, Refused(r)
               PROVE  \E row \in Committed : SameNumber(row, NewRow(r))
    OBVIOUS
  <2>1. PICK row \in Committed :
          SameNumber(row, NewRow(r)) \/ (row.doc # draft[r] /\ Slug(row.doc) = Slug(draft[r]))
    BY DuplicatesClash
  <2>2. row.doc \in Draft /\ draft[r] \in Draft
    BY <2>1 DEF IndInv, TypeOK, Committed
  <2> QED
    BY <2>1, <2>2, SlugsIdentify
<1> QED
  BY Invariance, <1>1, PTL DEF Spec, DuplicateMeansNumberTaken

-----------------------------------------------------------------------------
(* The handlers implement NumberRegistry.                                    *)

\* Commit publishes one document, whose number is free in its scope.
LEMMA CommitAssigns ==
    ASSUME IndInv, NEW r \in Request, Commit(r)
    PROVE  NR!Assign(draft[r])
<1> DEFINE assigned == {row.doc : row \in Committed}
<1>1. pc[r] = "committing" /\ NewRow(r) \in documents /\ draft[r] \in Draft
  BY DEF Commit, IndInv, RowsOfTransactions, TypeOK
<1>2. \A row \in documents : row.tx = r => row = NewRow(r)
  BY DEF IndInv, RowsOfTransactions
<1>3. NewRow(r).tx = r /\ NewRow(r).doc = draft[r]
      /\ NewRow(r).scope = Scope(seenMode[r], draft[r].year)
  BY DEF NewRow
<1>4. /\ seenMode[r] = mode[draft[r].type]
      /\ mode[draft[r].type] \in Modes
  BY <1>1 DEF IndInv, ModeUnderLock, TypeOK, Numbering, Draft
<1>5. ASSUME NEW e \in assigned,
             <<e.type, e.number, e.suffix>> = <<draft[r].type, draft[r].number, draft[r].suffix>>
      PROVE  mode[draft[r].type] = "YEARLY" /\ e.year # draft[r].year
  <2>1. PICK row \in Committed : e = row.doc
    OBVIOUS
  <2>2. row \in documents /\ row # NewRow(r)
    BY <2>1, <1>3 DEF Committed
  <2>3. ~SameNumber(row, NewRow(r))
    BY <1>1, <2>2 DEF IndInv, NumbersDistinct
  <2>4. row.scope = Scope(mode[draft[r].type], e.year)
    BY <2>1, <2>2, <1>5 DEF IndInv, ScopeFollowsMode
  <2>5. row.scope # Scope(mode[draft[r].type], draft[r].year)
    BY <2>1, <2>3, <1>3, <1>4, <1>5 DEF SameNumber
  <2> QED
    BY <2>4, <2>5, <1>4 DEF Scope, Modes
<1>6. assigned' = assigned \cup {draft[r]}
  <2>1. documents' = {IF row.tx = r THEN [row EXCEPT !.tx = NoRequest] ELSE row : row \in documents}
    BY DEF Commit
  <2>2. \A row \in documents : [row EXCEPT !.tx = NoRequest].tx = NoRequest
                              /\ [row EXCEPT !.tx = NoRequest].doc = row.doc
    BY DEF IndInv, TypeOK
  <2>3. assigned' \subseteq assigned \cup {draft[r]}
    BY <1>2, <1>3, <2>1, <2>2 DEF Committed
  <2>4. draft[r] \in assigned'
    BY <1>1, <1>3, <2>1, <2>2 DEF Committed
  <2>5. assigned \subseteq assigned'
    BY <2>1 DEF Committed
  <2> QED
    BY <2>3, <2>4, <2>5
<1>7. mode' = mode
  BY DEF Commit
<1> HIDE DEF assigned
<1> QED
  BY <1>4, <1>5, <1>6, <1>7 DEF NR!Assign, Modes, assigned

\* No other step publishes or withdraws a document.
LEMMA RegistryStep ==
    ASSUME IndInv, Next
    PROVE  [NR!Next]_(NR!vars)
<1>1. ASSUME NEW r \in Request, NEW t \in Type, NEW m \in Modes, CreateType(r, t, m)
      PROVE  NR!Next
  <2>1. \A row \in Committed : row.doc.type # t
    BY <1>1 DEF CreateType, IndInv, ScopeFollowsMode, Committed
  <2> QED
    BY <1>1, <2>1 DEF CreateType, Committed, Modes, NR!Next, NR!SetMode
<1>2. ASSUME NEW r \in Request, SaveType(r) PROVE [NR!Next]_(NR!vars)
  <2>1. draft[r].type \in Type /\ seenMode[r] \in Modes /\ pc[r] = "saving"
    BY <1>2 DEF SaveType, IndInv, TypeOK, Draft, ModeUnderLock, Changing
  <2>2. CASE seenMode[r] = mode[draft[r].type]
    <3>1. mode' = mode /\ documents' = documents
      BY <1>2, <2>1, <2>2 DEF SaveType, IndInv, TypeOK
    <3> QED
      BY <3>1 DEF NR!vars, Committed
  <2>3. CASE \A row \in documents : row.doc.type # draft[r].type
    <3>1. NR!SetMode(draft[r].type, seenMode[r])
      BY <1>2, <2>3 DEF SaveType, Committed, NR!SetMode
    <3>2. NR!Next
      BY <2>1, <3>1 DEF Modes, NR!Next, NR!SetMode
    <3> QED
      BY <3>2
  <2> QED
    BY <2>1, <2>2, <2>3 DEF IndInv, UnusedWhenChanged
<1>3. ASSUME NEW r \in Request, Commit(r) PROVE NR!Next
  <2>1. draft[r] \in Draft
    BY DEF IndInv, TypeOK
  <2> QED
    BY <1>3, <2>1, CommitAssigns DEF Draft, NR!Next, NR!Assign
<1>4. ASSUME NEW r \in Request, InsertDocument(r) PROVE UNCHANGED NR!vars
  BY <1>4 DEF InsertDocument, NewRow, Committed, NR!vars
<1>5. ASSUME NEW r \in Request, Rollback(r) PROVE UNCHANGED NR!vars
  BY <1>5 DEF Rollback, Committed, NR!vars
<1>6. ASSUME NEW r \in Request,
             \/ \E d \in Draft, m \in Modes : UpdateType(r, d, m)
             \/ \E d \in Draft : Create(r, d)
             \/ LockTypeForUpdate(r) \/ CountDocuments(r)
             \/ LockTypeForShare(r) \/ InsertFails(r)
      PROVE  UNCHANGED NR!vars
  <2>1. mode' = mode /\ documents' = documents
    BY <1>6 DEF UpdateType, Create, LockTypeForUpdate, CountDocuments, LockTypeForShare, InsertFails
  <2> QED
    BY <2>1 DEF Committed, NR!vars
<1> QED
  BY <1>1, <1>2, <1>3, <1>4, <1>5, <1>6 DEF Next

\* Creations and changes of mode, however they interleave, give numbers as the
\* registry does.
THEOREM Refinement == Spec => Registry
<1>1. Init => NR!Init
  BY DEF Init, Committed, NR!Init
<1>2. IndInv /\ [Next]_vars => [NR!Next]_(NR!vars)
  <2>1. ASSUME UNCHANGED vars PROVE UNCHANGED NR!vars
    BY <2>1 DEF vars, Committed, NR!vars
  <2> QED
    BY <2>1, RegistryStep
<1> QED
  BY Invariance, <1>1, <1>2, PTL DEF Spec, Registry, NR!Spec
=============================================================================
