------------------------------ MODULE Users_proofs ------------------------------
(***************************************************************************)
(* Proofs about Users, for any handlers, keys and names.  IndInv is        *)
(* inductive: one lemma per conjunct.  Logins keep the roles of users, and *)
(* role updates their names and the script its promise, unless raced.      *)
(***************************************************************************)
EXTENDS Users, TLAPS

-----------------------------------------------------------------------------
(* Why they hold: an inductive invariant. *)

\* Each handler is where its kind can be, and has a name where it needs one.
StepsOfKind ==
    \A r \in Request :
        /\ pc[r] = "counting" => kind[r] = "bootstrap"
        /\ pc[r] = "asking" => kind[r] \in {"import", "bootstrap"}
        /\ pc[r] = "inserting" => kind[r] # "role"
        /\ pc[r] \in {"findingAgain", "renaming"} => kind[r] = "login"
        /\ pc[r] \in {"comparing", "writing"} => kind[r] = "role"
        /\ pc[r] # "idle" => entity[r] \in Entity
        /\ \/ pc[r] \in {"inserting", "renaming", "comparing", "writing"}
           \/ pc[r] = "finding" /\ kind[r] = "login"
           => entity[r] \in User

\* Rows are not deleted: what a handler has found is still there.
FoundRowsStay ==
    \A r \in Request :
        pc[r] \in {"renaming", "comparing", "writing"} => users[key[r]] # NoUser

\* A role update that is not raced has the name that its row has, and found so.
NameReadIsCurrent ==
    \A r \in Request \ raced :
        /\ pc[r] \in {"comparing", "writing"} => entity[r].name = users[key[r]].name
        /\ pc[r] = "writing" => "name" \notin dirty[r]

\* A bootstrap that is not raced has found no administrator and there is none.
NoAdminYet ==
    \A r \in Request \ raced :
        kind[r] = "bootstrap" /\ pc[r] \in {"finding", "asking", "inserting"} =>
            Admins(users) = {}

IndInv == TypeOK /\ StepsOfKind /\ FoundRowsStay /\ NameReadIsCurrent /\ NoAdminYet

USE NoNameAssumption, NoUserAssumption

-----------------------------------------------------------------------------
(* Users and entities. *)

LEMMA Entities ==
    /\ {"USER"} \in Roles /\ {"ADMIN"} \in Roles
    /\ User \subseteq Entity /\ NoUser \notin Entity
    /\ \A n \in Name, R \in Roles : [name |-> n, roles |-> R] \in User
    /\ \A R \in Roles : [name |-> NoName, roles |-> R] \in Entity
    /\ \A u \in User : u.name \in Name /\ u.roles \in Roles
    /\ \A e \in Entity, n \in Name :
          [e EXCEPT !.name = n] \in User /\ [e EXCEPT !.name = n].name = n
    /\ \A e \in Entity, R \in Roles :
          /\ [e EXCEPT !.roles = R] \in Entity
          /\ e \in User => [e EXCEPT !.roles = R] \in User
<1>1. {"USER"} \in Roles /\ {"ADMIN"} \in Roles
  BY DEF Roles
<1>2. User \subseteq Entity /\ NoUser \notin Entity
  BY DEF User, Entity
<1>3. \A n \in Name, R \in Roles : [name |-> n, roles |-> R] \in User
  BY DEF User
<1>4. \A R \in Roles : [name |-> NoName, roles |-> R] \in Entity
  BY DEF Entity
<1>5. \A u \in User : u.name \in Name /\ u.roles \in Roles
  BY DEF User
<1>6. \A e \in Entity, n \in Name :
         [e EXCEPT !.name = n] \in User /\ [e EXCEPT !.name = n].name = n
  BY DEF User, Entity
<1>7. \A e \in Entity, R \in Roles : [e EXCEPT !.roles = R] \in Entity
  BY DEF Entity
<1>8. \A u \in User, R \in Roles : [u EXCEPT !.roles = R] \in User
  BY DEF User
<1> QED
  BY <1>1, <1>2, <1>3, <1>4, <1>5, <1>6, <1>7, <1>8

\* Handler r goes to step and answers a; it has e in hand.  The table stays as it is.
Moves(r, step, e, a) ==
    /\ GoTo(r, step)
    /\ entity' = [entity EXCEPT ![r] = e]
    /\ reply' = [reply EXCEPT ![r] = a]
    /\ UNCHANGED <<users, kind, key, dirty, raced>>

\* A count moves the script on when there is no administrator.
LEMMA CountAdminsMoves ==
    ASSUME TypeOK, NEW r \in Request, CountAdmins(r)
    PROVE  /\ pc[r] = "counting"
           /\ \E step \in {"idle", "finding"}, a \in Replies :
                 /\ Moves(r, step, entity[r], a)
                 /\ step = "finding" => Admins(users) = {}
<1>1. CASE Admins(users) # {}
  <2>1. Moves(r, "idle", entity[r], "admin exists") /\ pc[r] = "counting"
    BY <1>1 DEF CountAdmins, Answer, Moves, TypeOK
  <2> QED
    BY <2>1 DEF Replies
<1>2. CASE Admins(users) = {}
  <2>1. Moves(r, "finding", entity[r], reply[r]) /\ pc[r] = "counting"
    BY <1>2 DEF CountAdmins, Answer, Moves, TypeOK
  <2> QED
    BY <1>2, <2>1 DEF TypeOK
<1> QED
  BY <1>1, <1>2

\* Without a row a login inserts, a role update ends, the others ask the Hub.
LEMMA FindNobodyMoves ==
    ASSUME TypeOK, NEW r \in Request, FindNobody(r)
    PROVE  /\ pc[r] = "finding"
           /\ \E step \in {"idle", "inserting", "asking"}, a \in Replies :
                 /\ Moves(r, step, entity[r], a)
                 /\ step = "inserting" => kind[r] = "login"
                 /\ step = "asking" => kind[r] \in {"import", "bootstrap"}
<1>0. pc[r] = "finding"
  BY DEF FindNobody
<1>1. CASE kind[r] = "login"
  <2>1. Moves(r, "inserting", entity[r], reply[r])
    BY <1>1 DEF FindNobody, Answer, Moves, TypeOK
  <2> QED
    BY <1>0, <1>1, <2>1 DEF TypeOK
<1>2. CASE kind[r] = "role"
  <2>1. Moves(r, "idle", entity[r], "not found")
    BY <1>2 DEF FindNobody, Answer, Moves, TypeOK
  <2> QED
    BY <1>0, <2>1 DEF Replies
<1>3. CASE kind[r] \in {"import", "bootstrap"}
  <2>1. Moves(r, "asking", entity[r], reply[r])
    BY <1>3 DEF FindNobody, Answer, Moves, TypeOK
  <2> QED
    BY <1>0, <1>3, <2>1 DEF TypeOK
<1> QED
  BY <1>1, <1>2, <1>3 DEF TypeOK, Kinds

\* A login renames the row or is done, a role update goes on with its name.
LEMMA FindUserMoves ==
    ASSUME IndInv, NEW r \in Request, FindUser(r)
    PROVE  /\ pc[r] = "finding" /\ users[key[r]] \in User
           /\ \E step \in {"idle", "renaming", "comparing"}, e \in Entity, a \in Replies :
                 /\ Moves(r, step, e, a)
                 /\ step = "renaming" => kind[r] = "login" /\ e \in User
                 /\ step = "comparing" =>
                       kind[r] = "role" /\ e \in User /\ e.name = users[key[r]].name
<1> DEFINE row == users[key[r]]
<1>0. pc[r] = "finding" /\ row \in User /\ row.name \in Name /\ row.roles \in Roles
      /\ entity[r] \in Entity /\ (kind[r] = "login" => entity[r] \in User)
  BY Entities DEF FindUser, IndInv, TypeOK, StepsOfKind
<1>1. CASE kind[r] = "login"
  <2> DEFINE e == [entity[r] EXCEPT !.roles = row.roles]
  <2>1. e \in User /\ e \in Entity
    BY <1>0, <1>1, Entities
  <2>2. Moves(r, "idle", e, "ok") \/ Moves(r, "renaming", e, reply[r])
    BY <1>1 DEF FindUser, Answer, Moves, IndInv, TypeOK
  <2>3. "ok" \in Replies /\ reply[r] \in Replies
    BY DEF IndInv, TypeOK, Replies
  <2> HIDE DEF e
  <2> QED
    BY <1>0, <1>1, <2>1, <2>2, <2>3
<1>2. CASE kind[r] = "role"
  <2> DEFINE e == [entity[r] EXCEPT !.name = row.name]
  <2>1. e \in User /\ e \in Entity /\ e.name = row.name
    BY <1>0, Entities
  <2>2. Moves(r, "comparing", e, reply[r])
    BY <1>2 DEF FindUser, Answer, Moves, IndInv, TypeOK
  <2>3. reply[r] \in Replies
    BY DEF IndInv, TypeOK
  <2> HIDE DEF e
  <2> QED
    BY <1>0, <1>2, <2>1, <2>2, <2>3
<1>3. CASE kind[r] \in {"import", "bootstrap"}
  <2>1. Moves(r, "idle", entity[r], "conflict")
    BY <1>3 DEF FindUser, Answer, Moves, IndInv, TypeOK
  <2> QED
    BY <1>0, <2>1 DEF Replies
<1> QED
  BY <1>1, <1>2, <1>3 DEF IndInv, TypeOK, Kinds

\* An INSERT that conflicts leads a login to look again and the others to an end.
LEMMA InsertConflictsMoves ==
    ASSUME TypeOK, NEW r \in Request, InsertConflicts(r)
    PROVE  /\ pc[r] = "inserting"
           /\ \E step \in {"idle", "findingAgain"}, a \in Replies :
                 /\ Moves(r, step, entity[r], a)
                 /\ step = "findingAgain" => kind[r] = "login"
<1>0. pc[r] = "inserting"
  BY DEF InsertConflicts
<1>1. CASE kind[r] = "login"
  <2>1. Moves(r, "findingAgain", entity[r], reply[r])
    BY <1>1 DEF InsertConflicts, Answer, Moves, TypeOK
  <2> QED
    BY <1>0, <1>1, <2>1 DEF TypeOK
<1>2. CASE kind[r] # "login"
  <2>1. Moves(r, "idle", entity[r], "conflict")
    BY <1>2 DEF InsertConflicts, Answer, Moves, TypeOK
  <2> QED
    BY <1>0, <2>1 DEF Replies
<1> QED
  BY <1>1, <1>2

-----------------------------------------------------------------------------
(* The three statements that write a row. *)

\* Handler r writes the user u to its row and answers; it makes raced whom it
\* overtakes.
Saves(r, u) ==
    /\ pc[r] \in {"inserting", "renaming", "writing"}
    /\ users' = [users EXCEPT ![key[r]] = u]
    /\ raced \subseteq raced' /\ raced' \subseteq Request
    /\ \A q \in Request \ {r} : q \notin raced' =>
          /\ kind[q] = "role" /\ key[q] = key[r] /\ pc[q] \in {"comparing", "writing"} =>
                u.name = users[key[r]].name
          /\ kind[q] = "bootstrap" /\ pc[q] \in {"finding", "asking", "inserting"} =>
                Admins(users)' = Admins(users)
    /\ Answer(r, "ok")
    /\ UNCHANGED <<kind, key, entity, dirty>>

LEMMA WriteSaves ==
    ASSUME TypeOK, NEW r \in Request, NEW u, Write(r, key[r], u), Answer(r, "ok"),
           pc[r] \in {"inserting", "renaming", "writing"}, UNCHANGED <<kind, key, entity, dirty>>
    PROVE  Saves(r, u)
  BY DEF TypeOK, Write, Saves, Admins

\* INSERT, and both UPDATEs, whatever columns they set, put a user in the row.
LEMMA SavesUser ==
    ASSUME IndInv, NEW r \in Request, InsertUser(r) \/ Rename(r) \/ UpdateUser(r)
    PROVE  \E u \in User : Saves(r, u)
<1> USE DEF IndInv, StepsOfKind, FoundRowsStay
<1>1. CASE InsertUser(r)
  <2>1. Saves(r, entity[r]) /\ entity[r] \in User
    BY <1>1, WriteSaves DEF InsertUser
  <2> QED
    BY <2>1
<1>2. CASE Rename(r)
  <2>1. Saves(r, [users[key[r]] EXCEPT !.name = entity[r].name])
    BY <1>2, WriteSaves DEF Rename
  <2>2. users[key[r]] \in User /\ entity[r].name \in Name
    BY <1>2, Entities DEF Rename, TypeOK
  <2>3. [users[key[r]] EXCEPT !.name = entity[r].name] \in User
    BY <2>2, Entities
  <2> QED
    BY <2>1, <2>3
<1>3. CASE UpdateUser(r)
  <2> DEFINE u == [c \in {"name", "roles"} |->
                      IF c \in dirty[r] THEN entity[r][c] ELSE users[key[r]][c]]
  <2>1. Saves(r, u)
    BY <1>3, WriteSaves DEF UpdateUser
  <2>2. users[key[r]] \in User /\ entity[r] \in User
    BY <1>3 DEF UpdateUser, TypeOK
  <2>3. u \in User
    BY <2>2 DEF User
  <2> QED
    BY <2>1, <2>3
<1> QED
  BY <1>1, <1>2, <1>3

-----------------------------------------------------------------------------
(* Every step preserves every conjunct of IndInv. *)

\* Every handler keeps the types.
LEMMA TypeOKStep ==
    ASSUME IndInv, Next
    PROVE  TypeOK'
<1> USE DEF IndInv, TypeOK, Kinds, PC, Replies, StepsOfKind, GoTo, Answer
<1>1. ASSUME NEW r \in Request, NEW k \in Key, NEW n \in Name, Login(r, k, n) PROVE TypeOK'
  BY <1>1, Entities DEF Login, Start
<1>2. ASSUME NEW r \in Request, NEW k \in Key, NEW R \in Roles, Administer(r, k, R) PROVE TypeOK'
  <2>1. PICK task \in {"import", "role"} :
          Start(r, task, k, [name |-> NoName, roles |-> R], "finding")
    BY <1>2 DEF Administer
  <2>2. [name |-> NoName, roles |-> R] \in Entity
    BY Entities
  <2> QED
    BY <2>1, <2>2 DEF Start
<1>3. ASSUME NEW r \in Request, NEW k \in Key, Bootstrap(r, k) PROVE TypeOK'
  BY <1>3, Entities DEF Bootstrap, Start
<1>4. ASSUME NEW r \in Request, CountAdmins(r) PROVE TypeOK'
  <2>1. PICK step \in {"idle", "finding"}, a \in Replies :
          /\ Moves(r, step, entity[r], a)
          /\ step = "finding" => Admins(users) = {}
    BY <1>4, CountAdminsMoves
  <2>2. pc[r] = "counting"
    BY <1>4, CountAdminsMoves
  <2> QED
    BY <2>1, <2>2, Entities DEF Moves
<1>5. ASSUME NEW r \in Request, FindNobody(r) PROVE TypeOK'
  <2>1. PICK step \in {"idle", "inserting", "asking"}, a \in Replies :
          /\ Moves(r, step, entity[r], a)
          /\ step = "inserting" => kind[r] = "login"
          /\ step = "asking" => kind[r] \in {"import", "bootstrap"}
    BY <1>5, FindNobodyMoves
  <2>2. pc[r] = "finding"
    BY <1>5, FindNobodyMoves
  <2> QED
    BY <2>1, <2>2, Entities DEF Moves
<1>6. ASSUME NEW r \in Request, FindUser(r) PROVE TypeOK'
  <2>1. PICK step \in {"idle", "renaming", "comparing"}, e \in Entity, a \in Replies :
          /\ Moves(r, step, e, a)
          /\ step = "renaming" => kind[r] = "login" /\ e \in User
          /\ step = "comparing" =>
             kind[r] = "role" /\ e \in User /\ e.name = users[key[r]].name
    BY <1>6, FindUserMoves
  <2>2. pc[r] = "finding"
    BY <1>6, FindUserMoves
  <2> QED
    BY <2>1, <2>2, Entities DEF Moves
<1>7. ASSUME NEW r \in Request, NEW n \in Name, Ask(r, n) PROVE TypeOK'
  BY <1>7, Entities DEF Ask
<1>8. ASSUME NEW r \in Request, InsertUser(r) \/ Rename(r) \/ UpdateUser(r) PROVE TypeOK'
  <2>1. PICK u \in User : Saves(r, u)
    BY <1>8, SavesUser
  <2> QED
    BY <2>1, Entities DEF Saves
<1>9. ASSUME NEW r \in Request, InsertConflicts(r) PROVE TypeOK'
  <2>1. PICK step \in {"idle", "findingAgain"}, a \in Replies :
          /\ Moves(r, step, entity[r], a)
          /\ step = "findingAgain" => kind[r] = "login"
    BY <1>9, InsertConflictsMoves
  <2>2. pc[r] = "inserting"
    BY <1>9, InsertConflictsMoves
  <2> QED
    BY <2>1, <2>2, Entities DEF Moves
<1>10. ASSUME NEW r \in Request, FindAgain(r) PROVE TypeOK'
  BY <1>10, Entities DEF FindAgain
<1>11. ASSUME NEW r \in Request, Compare(r) PROVE TypeOK'
  BY <1>11, Entities DEF Compare
<1>12. ASSUME NEW r \in Request, Fails(r) PROVE TypeOK'
  BY <1>12, Entities DEF Fails
<1> HIDE DEF IndInv, TypeOK, Kinds, PC, Replies, StepsOfKind
<1> QED
  BY <1>1, <1>2, <1>3, <1>4, <1>5, <1>6, <1>7, <1>8, <1>9, <1>10, <1>11, <1>12
  DEF Next, Arrive, Step

\* Each step leads a handler where its kind goes on, with what it has read.
LEMMA StepsOfKindStep ==
    ASSUME IndInv, Next
    PROVE  StepsOfKind'
<1> USE DEF IndInv, TypeOK, StepsOfKind, GoTo, Answer
<1>1. ASSUME NEW r \in Request, NEW k \in Key, NEW n \in Name, Login(r, k, n) PROVE StepsOfKind'
  BY <1>1, Entities DEF Login, Start
<1>2. ASSUME NEW r \in Request, NEW k \in Key, NEW R \in Roles, Administer(r, k, R)
      PROVE  StepsOfKind'
  BY <1>2, Entities DEF Administer, Start
<1>3. ASSUME NEW r \in Request, NEW k \in Key, Bootstrap(r, k) PROVE StepsOfKind'
  BY <1>3, Entities DEF Bootstrap, Start
<1>4. ASSUME NEW r \in Request, CountAdmins(r) PROVE StepsOfKind'
  <2>1. PICK step \in {"idle", "finding"}, a \in Replies :
          /\ Moves(r, step, entity[r], a)
          /\ step = "finding" => Admins(users) = {}
    BY <1>4, CountAdminsMoves
  <2>2. pc[r] = "counting"
    BY <1>4, CountAdminsMoves
  <2> QED
    BY <2>1, <2>2, Entities DEF Moves
<1>5. ASSUME NEW r \in Request, FindNobody(r) PROVE StepsOfKind'
  <2>1. PICK step \in {"idle", "inserting", "asking"}, a \in Replies :
          /\ Moves(r, step, entity[r], a)
          /\ step = "inserting" => kind[r] = "login"
          /\ step = "asking" => kind[r] \in {"import", "bootstrap"}
    BY <1>5, FindNobodyMoves
  <2>2. pc[r] = "finding"
    BY <1>5, FindNobodyMoves
  <2> QED
    BY <2>1, <2>2, Entities DEF Moves
<1>6. ASSUME NEW r \in Request, FindUser(r) PROVE StepsOfKind'
  <2>1. PICK step \in {"idle", "renaming", "comparing"}, e \in Entity, a \in Replies :
          /\ Moves(r, step, e, a)
          /\ step = "renaming" => kind[r] = "login" /\ e \in User
          /\ step = "comparing" =>
             kind[r] = "role" /\ e \in User /\ e.name = users[key[r]].name
    BY <1>6, FindUserMoves
  <2>2. pc[r] = "finding"
    BY <1>6, FindUserMoves
  <2> QED
    BY <2>1, <2>2, Entities DEF Moves
<1>7. ASSUME NEW r \in Request, NEW n \in Name, Ask(r, n) PROVE StepsOfKind'
  BY <1>7, Entities DEF Ask
<1>8. ASSUME NEW r \in Request, InsertUser(r) \/ Rename(r) \/ UpdateUser(r) PROVE StepsOfKind'
  <2>1. PICK u \in User : Saves(r, u)
    BY <1>8, SavesUser
  <2> QED
    BY <2>1, Entities DEF Saves
<1>9. ASSUME NEW r \in Request, InsertConflicts(r) PROVE StepsOfKind'
  <2>1. PICK step \in {"idle", "findingAgain"}, a \in Replies :
          /\ Moves(r, step, entity[r], a)
          /\ step = "findingAgain" => kind[r] = "login"
    BY <1>9, InsertConflictsMoves
  <2>2. pc[r] = "inserting"
    BY <1>9, InsertConflictsMoves
  <2> QED
    BY <2>1, <2>2, Entities DEF Moves
<1>10. ASSUME NEW r \in Request, FindAgain(r) PROVE StepsOfKind'
  BY <1>10, Entities DEF FindAgain
<1>11. ASSUME NEW r \in Request, Compare(r) PROVE StepsOfKind'
  BY <1>11, Entities DEF Compare
<1>12. ASSUME NEW r \in Request, Fails(r) PROVE StepsOfKind'
  BY <1>12, Entities DEF Fails
<1> HIDE DEF IndInv, TypeOK, StepsOfKind
<1> QED
  BY <1>1, <1>2, <1>3, <1>4, <1>5, <1>6, <1>7, <1>8, <1>9, <1>10, <1>11, <1>12
  DEF Next, Arrive, Step

\* A write puts a user in the row it writes, and no other step touches a row.
LEMMA FoundRowsStayStep ==
    ASSUME IndInv, Next
    PROVE  FoundRowsStay'
<1> USE DEF IndInv, TypeOK, FoundRowsStay, StepsOfKind, GoTo, Answer
<1>1. ASSUME NEW r \in Request, NEW k \in Key, NEW n \in Name, Login(r, k, n) PROVE FoundRowsStay'
  BY <1>1 DEF Login, Start
<1>2. ASSUME NEW r \in Request, NEW k \in Key, NEW R \in Roles, Administer(r, k, R)
      PROVE  FoundRowsStay'
  BY <1>2 DEF Administer, Start
<1>3. ASSUME NEW r \in Request, NEW k \in Key, Bootstrap(r, k) PROVE FoundRowsStay'
  BY <1>3 DEF Bootstrap, Start
<1>4. ASSUME NEW r \in Request, CountAdmins(r) PROVE FoundRowsStay'
  <2>1. PICK step \in {"idle", "finding"}, a \in Replies :
          /\ Moves(r, step, entity[r], a)
          /\ step = "finding" => Admins(users) = {}
    BY <1>4, CountAdminsMoves
  <2>2. pc[r] = "counting"
    BY <1>4, CountAdminsMoves
  <2> QED
    BY <2>1, <2>2, Entities DEF Moves
<1>5. ASSUME NEW r \in Request, FindNobody(r) PROVE FoundRowsStay'
  <2>1. PICK step \in {"idle", "inserting", "asking"}, a \in Replies :
          /\ Moves(r, step, entity[r], a)
          /\ step = "inserting" => kind[r] = "login"
          /\ step = "asking" => kind[r] \in {"import", "bootstrap"}
    BY <1>5, FindNobodyMoves
  <2>2. pc[r] = "finding"
    BY <1>5, FindNobodyMoves
  <2> QED
    BY <2>1, <2>2, Entities DEF Moves
<1>6. ASSUME NEW r \in Request, FindUser(r) PROVE FoundRowsStay'
  <2>1. PICK step \in {"idle", "renaming", "comparing"}, e \in Entity, a \in Replies :
          /\ Moves(r, step, e, a)
          /\ step = "renaming" => kind[r] = "login" /\ e \in User
          /\ step = "comparing" =>
             kind[r] = "role" /\ e \in User /\ e.name = users[key[r]].name
    BY <1>6, FindUserMoves
  <2>2. pc[r] = "finding" /\ users[key[r]] \in User
    BY <1>6, FindUserMoves
  <2> QED
    BY <2>1, <2>2, Entities DEF Moves
<1>7. ASSUME NEW r \in Request, NEW n \in Name, Ask(r, n) PROVE FoundRowsStay'
  BY <1>7 DEF Ask
<1>8. ASSUME NEW r \in Request, InsertUser(r) \/ Rename(r) \/ UpdateUser(r) PROVE FoundRowsStay'
  <2>1. PICK u \in User : Saves(r, u)
    BY <1>8, SavesUser
  <2> QED
    BY <2>1, Entities DEF Saves
<1>9. ASSUME NEW r \in Request, InsertConflicts(r) PROVE FoundRowsStay'
  <2>1. PICK step \in {"idle", "findingAgain"}, a \in Replies :
          /\ Moves(r, step, entity[r], a)
          /\ step = "findingAgain" => kind[r] = "login"
    BY <1>9, InsertConflictsMoves
  <2>2. pc[r] = "inserting"
    BY <1>9, InsertConflictsMoves
  <2> QED
    BY <2>1, <2>2, Entities DEF Moves
<1>10. ASSUME NEW r \in Request, FindAgain(r) PROVE FoundRowsStay'
  BY <1>10 DEF FindAgain
<1>11. ASSUME NEW r \in Request, Compare(r) PROVE FoundRowsStay'
  BY <1>11 DEF Compare
<1>12. ASSUME NEW r \in Request, Fails(r) PROVE FoundRowsStay'
  BY <1>12 DEF Fails
<1> HIDE DEF IndInv, TypeOK, FoundRowsStay, StepsOfKind
<1> QED
  BY <1>1, <1>2, <1>3, <1>4, <1>5, <1>6, <1>7, <1>8, <1>9, <1>10, <1>11, <1>12
  DEF Next, Arrive, Step

\* Who changes a name between the two reads of a role update makes it raced.
LEMMA NameReadIsCurrentStep ==
    ASSUME IndInv, Next
    PROVE  NameReadIsCurrent'
<1> USE DEF IndInv, TypeOK, NameReadIsCurrent, StepsOfKind, FoundRowsStay, GoTo, Answer
<1>1. ASSUME NEW r \in Request, NEW k \in Key, NEW n \in Name, Login(r, k, n)
      PROVE  NameReadIsCurrent'
  BY <1>1 DEF Login, Start
<1>2. ASSUME NEW r \in Request, NEW k \in Key, NEW R \in Roles, Administer(r, k, R)
      PROVE  NameReadIsCurrent'
  BY <1>2 DEF Administer, Start
<1>3. ASSUME NEW r \in Request, NEW k \in Key, Bootstrap(r, k) PROVE NameReadIsCurrent'
  BY <1>3 DEF Bootstrap, Start
<1>4. ASSUME NEW r \in Request, CountAdmins(r) PROVE NameReadIsCurrent'
  <2>1. PICK step \in {"idle", "finding"}, a \in Replies :
          /\ Moves(r, step, entity[r], a)
          /\ step = "finding" => Admins(users) = {}
    BY <1>4, CountAdminsMoves
  <2>2. pc[r] = "counting"
    BY <1>4, CountAdminsMoves
  <2> QED
    BY <2>1, <2>2 DEF Moves
<1>5. ASSUME NEW r \in Request, FindNobody(r) PROVE NameReadIsCurrent'
  <2>1. PICK step \in {"idle", "inserting", "asking"}, a \in Replies :
          /\ Moves(r, step, entity[r], a)
          /\ step = "inserting" => kind[r] = "login"
          /\ step = "asking" => kind[r] \in {"import", "bootstrap"}
    BY <1>5, FindNobodyMoves
  <2>2. pc[r] = "finding"
    BY <1>5, FindNobodyMoves
  <2> QED
    BY <2>1, <2>2 DEF Moves
<1>6. ASSUME NEW r \in Request, FindUser(r) PROVE NameReadIsCurrent'
  <2>1. PICK step \in {"idle", "renaming", "comparing"}, e \in Entity, a \in Replies :
          /\ Moves(r, step, e, a)
          /\ step = "renaming" => kind[r] = "login" /\ e \in User
          /\ step = "comparing" =>
             kind[r] = "role" /\ e \in User /\ e.name = users[key[r]].name
    BY <1>6, FindUserMoves
  <2>2. pc[r] = "finding"
    BY <1>6, FindUserMoves
  <2> QED
    BY <2>1, <2>2 DEF Moves
<1>7. ASSUME NEW r \in Request, NEW n \in Name, Ask(r, n) PROVE NameReadIsCurrent'
  BY <1>7 DEF Ask
<1>8. ASSUME NEW r \in Request, InsertUser(r) \/ Rename(r) \/ UpdateUser(r)
      PROVE  NameReadIsCurrent'
  <2>1. PICK u \in User : Saves(r, u)
    BY <1>8, SavesUser
  <2> QED
    BY <2>1, Entities DEF Saves
<1>9. ASSUME NEW r \in Request, InsertConflicts(r) PROVE NameReadIsCurrent'
  <2>1. PICK step \in {"idle", "findingAgain"}, a \in Replies :
          /\ Moves(r, step, entity[r], a)
          /\ step = "findingAgain" => kind[r] = "login"
    BY <1>9, InsertConflictsMoves
  <2>2. pc[r] = "inserting"
    BY <1>9, InsertConflictsMoves
  <2> QED
    BY <2>1, <2>2 DEF Moves
<1>10. ASSUME NEW r \in Request, FindAgain(r) PROVE NameReadIsCurrent'
  BY <1>10 DEF FindAgain
<1>11. ASSUME NEW r \in Request, Compare(r) PROVE NameReadIsCurrent'
  BY <1>11 DEF Compare
<1>12. ASSUME NEW r \in Request, Fails(r) PROVE NameReadIsCurrent'
  BY <1>12 DEF Fails
<1> HIDE DEF IndInv, TypeOK, NameReadIsCurrent, StepsOfKind, FoundRowsStay
<1> QED
  BY <1>1, <1>2, <1>3, <1>4, <1>5, <1>6, <1>7, <1>8, <1>9, <1>10, <1>11, <1>12
  DEF Next, Arrive, Step

\* An administrator who appears beside a bootstrap makes it raced.
LEMMA NoAdminYetStep ==
    ASSUME IndInv, Next
    PROVE  NoAdminYet'
<1> USE DEF IndInv, TypeOK, NoAdminYet, StepsOfKind, GoTo, Answer
<1>1. ASSUME NEW r \in Request, NEW k \in Key, NEW n \in Name, Login(r, k, n) PROVE NoAdminYet'
  BY <1>1 DEF Login, Start
<1>2. ASSUME NEW r \in Request, NEW k \in Key, NEW R \in Roles, Administer(r, k, R)
      PROVE  NoAdminYet'
  BY <1>2 DEF Administer, Start
<1>3. ASSUME NEW r \in Request, NEW k \in Key, Bootstrap(r, k) PROVE NoAdminYet'
  BY <1>3 DEF Bootstrap, Start
<1>4. ASSUME NEW r \in Request, CountAdmins(r) PROVE NoAdminYet'
  <2>1. PICK step \in {"idle", "finding"}, a \in Replies :
          /\ Moves(r, step, entity[r], a)
          /\ step = "finding" => Admins(users) = {}
    BY <1>4, CountAdminsMoves
  <2>2. pc[r] = "counting"
    BY <1>4, CountAdminsMoves
  <2> QED
    BY <2>1, <2>2 DEF Moves
<1>5. ASSUME NEW r \in Request, FindNobody(r) PROVE NoAdminYet'
  <2>1. PICK step \in {"idle", "inserting", "asking"}, a \in Replies :
          /\ Moves(r, step, entity[r], a)
          /\ step = "inserting" => kind[r] = "login"
          /\ step = "asking" => kind[r] \in {"import", "bootstrap"}
    BY <1>5, FindNobodyMoves
  <2>2. pc[r] = "finding"
    BY <1>5, FindNobodyMoves
  <2> QED
    BY <2>1, <2>2 DEF Moves
<1>6. ASSUME NEW r \in Request, FindUser(r) PROVE NoAdminYet'
  <2>1. PICK step \in {"idle", "renaming", "comparing"}, e \in Entity, a \in Replies :
          /\ Moves(r, step, e, a)
          /\ step = "renaming" => kind[r] = "login" /\ e \in User
          /\ step = "comparing" =>
             kind[r] = "role" /\ e \in User /\ e.name = users[key[r]].name
    BY <1>6, FindUserMoves
  <2>2. pc[r] = "finding"
    BY <1>6, FindUserMoves
  <2> QED
    BY <2>1, <2>2 DEF Moves
<1>7. ASSUME NEW r \in Request, NEW n \in Name, Ask(r, n) PROVE NoAdminYet'
  BY <1>7 DEF Ask
<1>8. ASSUME NEW r \in Request, InsertUser(r) \/ Rename(r) \/ UpdateUser(r) PROVE NoAdminYet'
  <2>1. PICK u \in User : Saves(r, u)
    BY <1>8, SavesUser
  <2> QED
    BY <2>1, Entities DEF Saves
<1>9. ASSUME NEW r \in Request, InsertConflicts(r) PROVE NoAdminYet'
  <2>1. PICK step \in {"idle", "findingAgain"}, a \in Replies :
          /\ Moves(r, step, entity[r], a)
          /\ step = "findingAgain" => kind[r] = "login"
    BY <1>9, InsertConflictsMoves
  <2>2. pc[r] = "inserting"
    BY <1>9, InsertConflictsMoves
  <2> QED
    BY <2>1, <2>2 DEF Moves
<1>10. ASSUME NEW r \in Request, FindAgain(r) PROVE NoAdminYet'
  BY <1>10 DEF FindAgain
<1>11. ASSUME NEW r \in Request, Compare(r) PROVE NoAdminYet'
  BY <1>11 DEF Compare
<1>12. ASSUME NEW r \in Request, Fails(r) PROVE NoAdminYet'
  BY <1>12 DEF Fails
<1> HIDE DEF IndInv, TypeOK, NoAdminYet, StepsOfKind
<1> QED
  BY <1>1, <1>2, <1>3, <1>4, <1>5, <1>6, <1>7, <1>8, <1>9, <1>10, <1>11, <1>12
  DEF Next, Arrive, Step

-----------------------------------------------------------------------------
(* The invariant, and what follows from it. *)

LEMMA IndInvInitially == Init => IndInv
  BY DEF Init, IndInv, TypeOK, StepsOfKind, FoundRowsStay, NameReadIsCurrent, NoAdminYet,
         Kinds, PC, Replies

LEMMA IndInvStutters == ASSUME IndInv, UNCHANGED vars PROVE IndInv'
  BY DEF vars, handlers, IndInv, TypeOK, StepsOfKind, FoundRowsStay, NameReadIsCurrent,
         NoAdminYet, Admins

\* The inductive invariant holds in every reachable state.
THEOREM Invariance == Spec => []IndInv
<1>1. IndInv /\ Next => IndInv'
  BY TypeOKStep, StepsOfKindStep, FoundRowsStayStep, NameReadIsCurrentStep, NoAdminYetStep
  DEF IndInv
<1>2. IndInv /\ [Next]_vars => IndInv'
  BY <1>1, IndInvStutters
<1> QED
  BY IndInvInitially, <1>2, PTL DEF Spec

\* The table and the handlers keep their types; in particular no user is
\* without a role.
THEOREM TypeCorrect == Spec => []TypeOK
<1>1. IndInv => TypeOK
  BY DEF IndInv
<1> QED
  BY Invariance, <1>1, PTL

-----------------------------------------------------------------------------
(* Action properties. *)

\* A row that is there and changes has been renamed by a login or updated by a
\* role update.
LEMMA ChangesOfRows ==
    ASSUME IndInv, Next, NEW k \in Key, users[k] # NoUser, users'[k] # users[k]
    PROVE  \E r \in Request :
              /\ key[r] = k /\ pc'[r] = "idle"
              /\ \/ /\ pc[r] = "renaming" /\ kind[r] = "login"
                    /\ users'[k].roles = users[k].roles
                 \/ /\ pc[r] = "writing" /\ kind[r] = "role"
                    /\ \A c \in {"name", "roles"} : users'[k][c] # users[k][c] =>
                          c \in dirty[r] /\ users'[k][c] = entity[r][c]
<1>1. PICK r \in Request : Arrive(r) \/ Step(r)
  BY DEF Next
<1>2. InsertUser(r) \/ Rename(r) \/ UpdateUser(r)
  <2>1. users' # users
    OBVIOUS
  <2> QED
    BY <1>1, <2>1 DEF Arrive, Step, Login, Administer, Bootstrap, Start, CountAdmins, FindNobody,
       FindUser, Ask, InsertConflicts, FindAgain, Compare, Fails
<1>3. pc'[r] = "idle"
  BY <1>2 DEF InsertUser, Rename, UpdateUser, Answer, GoTo, IndInv, TypeOK
<1>4. CASE InsertUser(r)
  BY <1>4 DEF InsertUser, Write, IndInv, TypeOK
<1>5. CASE Rename(r)
  <2>1. /\ users' = [users EXCEPT ![key[r]] = [users[key[r]] EXCEPT !.name = entity[r].name]]
        /\ pc[r] = "renaming"
    BY <1>5 DEF Rename, Write
  <2>2. key[r] = k
    BY <2>1 DEF IndInv, TypeOK
  <2>3. users[k] \in User
    BY DEF IndInv, TypeOK
  <2>4. users'[k].roles = users[k].roles
    BY <2>1, <2>2, <2>3 DEF IndInv, TypeOK, User
  <2> QED
    BY <1>3, <2>1, <2>2, <2>4 DEF IndInv, StepsOfKind
<1>6. CASE UpdateUser(r)
  <2>1. /\ users' = [users EXCEPT ![key[r]] = [c \in {"name", "roles"} |->
                        IF c \in dirty[r] THEN entity[r][c] ELSE users[key[r]][c]]]
        /\ pc[r] = "writing"
    BY <1>6 DEF UpdateUser, Write
  <2>2. key[r] = k
    BY <2>1 DEF IndInv, TypeOK
  <2>3. users'[k] = [c \in {"name", "roles"} |->
                        IF c \in dirty[r] THEN entity[r][c] ELSE users[k][c]]
    BY <2>1, <2>2 DEF IndInv, TypeOK
  <2> QED
    BY <1>3, <2>1, <2>2, <2>3 DEF IndInv, StepsOfKind
<1> QED
  BY <1>2, <1>4, <1>5, <1>6

\* UserService.syncUserFromIdentity and updateRole: the roles of a user change
\* only by a role update that was sent to set them.
THEOREM RolesAreLocal == Spec => LoginsKeepRoles
<1> DEFINE KeepRoles ==
      \A k \in Key : users[k] # NoUser /\ users'[k].roles # users[k].roles =>
          \E r \in Request : /\ kind[r] = "role" /\ pc[r] = "writing" /\ pc'[r] = "idle"
                             /\ key[r] = k /\ entity[r].roles = users'[k].roles
<1>1. IndInv /\ [Next]_vars => [KeepRoles]_vars
  <2> SUFFICES ASSUME IndInv, Next, NEW k \in Key, users[k] # NoUser,
                      users'[k].roles # users[k].roles
               PROVE  \E r \in Request :
                         /\ kind[r] = "role" /\ pc[r] = "writing" /\ pc'[r] = "idle"
                         /\ key[r] = k /\ entity[r].roles = users'[k].roles
    OBVIOUS
  <2> QED
    BY ChangesOfRows
<1> QED
  BY Invariance, <1>1, PTL DEF Spec, LoginsKeepRoles

\* UserService.updateRole: a role update writes a name only when it is raced.
THEOREM NamesSurviveRoleUpdates == Spec => NameUnlessRaced
<1> DEFINE KeepName ==
      \A k \in Key : users[k] # NoUser /\ users'[k].name # users[k].name =>
          \E r \in Request : /\ key[r] = k /\ pc'[r] = "idle"
                             /\ \/ kind[r] = "login" /\ pc[r] = "renaming"
                                \/ kind[r] = "role" /\ pc[r] = "writing" /\ r \in raced
<1>1. IndInv /\ [Next]_vars => [KeepName]_vars
  <2> SUFFICES ASSUME IndInv, Next, NEW k \in Key, users[k] # NoUser,
                      users'[k].name # users[k].name
               PROVE  \E r \in Request :
                         /\ key[r] = k /\ pc'[r] = "idle"
                         /\ \/ kind[r] = "login" /\ pc[r] = "renaming"
                            \/ kind[r] = "role" /\ pc[r] = "writing" /\ r \in raced
    OBVIOUS
  <2>1. \A r \in Request : pc[r] = "writing" /\ "name" \in dirty[r] => r \in raced
    BY DEF IndInv, NameReadIsCurrent
  <2> QED
    BY <2>1, ChangesOfRows
<1> QED
  BY Invariance, <1>1, PTL DEF Spec, NameUnlessRaced

\* bootstrapInitialAdmin: the script creates the first administrator, unless
\* another has appeared since it looked for one.
THEOREM FirstAdmin == Spec => FirstAdminUnlessRaced
<1> DEFINE First ==
      \A r \in Request : /\ kind[r] = "bootstrap" /\ pc[r] = "inserting"
                         /\ reply'[r] = "ok" /\ pc'[r] = "idle"
          => Admins(users) = {} \/ r \in raced
<1>1. IndInv => First
  BY DEF IndInv, NoAdminYet
<1>2. IndInv /\ [Next]_vars => [First]_vars
  BY <1>1
<1> QED
  BY Invariance, <1>2, PTL DEF Spec, FirstAdminUnlessRaced
=============================================================================
