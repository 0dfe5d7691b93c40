--------------------------------- MODULE Users ---------------------------------
(***************************************************************************)
(* The table users: a login creates or renames its user, administrators    *)
(* import users from Identity Hub and change their roles, a script creates *)
(* the first administrator.  One step per SQL statement or call of         *)
(* Identity Hub, so that handlers interleave between what they read and    *)
(* what they write.  Rows are never deleted and externalKey is unique, so  *)
(* a key stands for the row's id as well.                                  *)
(***************************************************************************)
EXTENDS Naturals

CONSTANTS
    Request,  \* handlers of the process, or runs of the script
    Key,      \* externalKey
    Name,     \* fullName
    NoName,   \* the name of a user Identity Hub has not been asked for yet
    NoUser    \* no row

ASSUME NoNameAssumption == NoName \notin Name

Roles == (SUBSET {"ADMIN", "USER"}) \ {{}}
User == [name : Name, roles : Roles]
Entity == [name : Name \cup {NoName}, roles : Roles]
ASSUME NoUserAssumption == NoUser \notin Entity

Kinds == {"login", "import", "bootstrap", "role"}
PC == {"idle", "counting", "finding", "asking", "inserting", "findingAgain",
       "renaming", "comparing", "writing"}
Replies == {"none", "ok", "not found", "conflict", "admin exists", "failed"}

VARIABLES
    users,   \* users[k]: the row with externalKey k
    pc,      \* pc[r]: where handler r is
    kind,    \* kind[r]: what it does
    key,     \* key[r]: the user it is about
    entity,  \* entity[r]: the user it will write, or has read
    dirty,   \* dirty[r]: the columns that save found to differ from the row
    reply,   \* reply[r]: what it answered
    raced    \* handlers that no longer act on what they read: the name of the
             \* user of a role update, or an administrator beside a bootstrap

handlers == <<pc, kind, key, entity, dirty, reply>>
vars == <<users, handlers, raced>>

Admins(rows) == {k \in Key : rows[k] # NoUser /\ "ADMIN" \in rows[k].roles}

GoTo(r, step) == pc' = [pc EXCEPT ![r] = step]

Answer(r, answer) ==
    /\ GoTo(r, "idle")
    /\ reply' = [reply EXCEPT ![r] = answer]

Init ==
    /\ users = [k \in Key |-> NoUser]
    /\ pc = [r \in Request |-> "idle"]
    /\ kind = [r \in Request |-> "login"]
    /\ key \in [Request -> Key]
    /\ entity = [r \in Request |-> NoUser]
    /\ dirty = [r \in Request |-> {}]
    /\ reply = [r \in Request |-> "none"]
    /\ raced = {}

\* Row k becomes u by a step of r; whoever has read what this changes is raced.
Write(r, k, u) ==
    /\ users' = [users EXCEPT ![k] = u]
    /\ raced' = raced \cup {q \in Request \ {r} :
          \/ /\ kind[q] = "role" /\ key[q] = k
             /\ pc[q] \in {"comparing", "writing"}
             /\ u.name # users[k].name
          \/ /\ kind[q] = "bootstrap"
             /\ pc[q] \in {"finding", "asking", "inserting"}
             /\ Admins(users') # Admins(users)}

Start(r, task, k, u, step) ==
    /\ pc[r] = "idle"
    /\ kind' = [kind EXCEPT ![r] = task]
    /\ key' = [key EXCEPT ![r] = k]
    /\ entity' = [entity EXCEPT ![r] = u]
    /\ dirty' = [dirty EXCEPT ![r] = {}]
    /\ raced' = raced \ {r}
    /\ GoTo(r, step)
    /\ UNCHANGED <<users, reply>>

-----------------------------------------------------------------------------
(* Arrivals. *)

\* Mutant of Login: the user is created without a role.
LoginWithoutRole(r, k, n) == Start(r, "login", k, [name |-> n, roles |-> {}], "finding")

\* syncUserFromIdentity: the token names the user n, which may be an old name.
Login(r, k, n) == Start(r, "login", k, [name |-> n, roles |-> {"USER"}], "finding")

\* importFromIdentity and updateRole are for administrators.
Administer(r, k, R) ==
    /\ Admins(users) # {}
    /\ \E task \in {"import", "role"} :
          Start(r, task, k, [name |-> NoName, roles |-> R], "finding")

Bootstrap(r, k) ==
    Start(r, "bootstrap", k, [name |-> NoName, roles |-> {"ADMIN"}], "counting")

-----------------------------------------------------------------------------
(* Statements. *)

\* Mutant of CountAdmins: bootstrapInitialAdmin does not look for one.
CountAdminsNot(r) ==
    /\ pc[r] = "counting"
    /\ GoTo(r, "finding")
    /\ UNCHANGED <<users, kind, key, entity, dirty, reply, raced>>

CountAdmins(r) ==
    /\ pc[r] = "counting"
    /\ IF Admins(users) # {}
       THEN Answer(r, "admin exists")
       ELSE GoTo(r, "finding") /\ UNCHANGED reply
    /\ UNCHANGED <<users, kind, key, entity, dirty, raced>>

\* findOne finds no row.
FindNobody(r) ==
    /\ pc[r] = "finding"
    /\ users[key[r]] = NoUser
    /\ CASE kind[r] = "login" -> GoTo(r, "inserting") /\ UNCHANGED reply
         [] kind[r] = "role"  -> Answer(r, "not found")
         [] OTHER             -> GoTo(r, "asking") /\ UNCHANGED reply
    /\ UNCHANGED <<users, kind, key, entity, dirty, raced>>

\* Mutant of FindUser: updateRole saves what the request says, name included.
FindUserTrustsRequest(r) ==
    LET row == users[key[r]] IN
    /\ pc[r] = "finding"
    /\ row # NoUser
    /\ CASE kind[r] = "login" ->
               /\ IF row.name = entity[r].name
                  THEN Answer(r, "ok")
                  ELSE GoTo(r, "renaming") /\ UNCHANGED reply
               /\ entity' = [entity EXCEPT ![r].roles = row.roles]
         [] kind[r] = "role" ->
               /\ GoTo(r, "comparing")
               /\ UNCHANGED <<entity, reply>>
         [] OTHER -> Answer(r, "conflict") /\ UNCHANGED entity
    /\ UNCHANGED <<users, kind, key, dirty, raced>>

\* findOne finds the row: import and bootstrap refuse, a login renames it when
\* the names differ, updateRole saves it with the new roles.
FindUser(r) ==
    LET row == users[key[r]] IN
    /\ pc[r] = "finding"
    /\ row # NoUser
    /\ CASE kind[r] = "login" ->
               /\ IF row.name = entity[r].name
                  THEN Answer(r, "ok")
                  ELSE GoTo(r, "renaming") /\ UNCHANGED reply
               /\ entity' = [entity EXCEPT ![r].roles = row.roles]
         [] kind[r] = "role" ->
               /\ GoTo(r, "comparing")
               /\ entity' = [entity EXCEPT ![r].name = row.name]
               /\ UNCHANGED reply
         [] OTHER -> Answer(r, "conflict") /\ UNCHANGED entity
    /\ UNCHANGED <<users, kind, key, dirty, raced>>

\* Identity Hub (external) knows the user as n.
Ask(r, n) ==
    /\ pc[r] = "asking"
    /\ entity' = [entity EXCEPT ![r].name = n]
    /\ GoTo(r, "inserting")
    /\ UNCHANGED <<users, kind, key, dirty, reply, raced>>

InsertUser(r) ==
    /\ pc[r] = "inserting"
    /\ users[key[r]] = NoUser
    /\ Write(r, key[r], entity[r])
    /\ Answer(r, "ok")
    /\ UNCHANGED <<kind, key, entity, dirty>>

\* The INSERT fails with 23505: somebody has created the user meanwhile.
InsertConflicts(r) ==
    /\ pc[r] = "inserting"
    /\ users[key[r]] # NoUser
    /\ IF kind[r] = "login"
       THEN GoTo(r, "findingAgain") /\ UNCHANGED reply
       ELSE Answer(r, "conflict")
    /\ UNCHANGED <<users, kind, key, entity, dirty, raced>>

FindAgain(r) ==
    /\ pc[r] = "findingAgain"
    /\ entity' = [entity EXCEPT ![r] = users[key[r]]]
    /\ Answer(r, IF users[key[r]] # NoUser THEN "ok" ELSE "conflict")
    /\ UNCHANGED <<users, kind, key, dirty, raced>>

\* Mutant of Rename: the login saves the whole user it has read.
RenameSavesAll(r) ==
    /\ pc[r] = "renaming"
    /\ Write(r, key[r], entity[r])
    /\ Answer(r, "ok")
    /\ UNCHANGED <<kind, key, entity, dirty>>

\* A login updates the one column.
Rename(r) ==
    /\ pc[r] = "renaming"
    /\ Write(r, key[r], [users[key[r]] EXCEPT !.name = entity[r].name])
    /\ Answer(r, "ok")
    /\ UNCHANGED <<kind, key, entity, dirty>>

\* updateRole's save: SELECT, and compare the row with the entity ...
Compare(r) ==
    LET row == users[key[r]] IN
    /\ pc[r] = "comparing"
    /\ dirty' = [dirty EXCEPT ![r] = {c \in {"name", "roles"} : entity[r][c] # row[c]}]
    /\ IF row = entity[r] THEN Answer(r, "ok") ELSE GoTo(r, "writing") /\ UNCHANGED reply
    /\ UNCHANGED <<users, kind, key, entity, raced>>

\* ... and UPDATE the columns that differ.
UpdateUser(r) ==
    /\ pc[r] = "writing"
    /\ Write(r, key[r], [c \in {"name", "roles"} |->
                            IF c \in dirty[r] THEN entity[r][c] ELSE users[key[r]][c]])
    /\ Answer(r, "ok")
    /\ UNCHANGED <<kind, key, entity, dirty>>

\* A statement fails, Identity Hub does not know the user, does not answer or
\* answers for another one, or the process ends.
Fails(r) ==
    /\ pc[r] # "idle"
    /\ Answer(r, "failed")
    /\ UNCHANGED <<users, kind, key, entity, dirty, raced>>

Arrive(r) ==
    \E k \in Key :
        \/ Bootstrap(r, k)
        \/ \E n \in Name : Login(r, k, n)
        \/ \E R \in Roles : Administer(r, k, R)

Step(r) ==
    \/ CountAdmins(r) \/ FindNobody(r) \/ FindUser(r) \/ \E n \in Name : Ask(r, n)
    \/ InsertUser(r) \/ InsertConflicts(r) \/ FindAgain(r) \/ Rename(r)
    \/ Compare(r) \/ UpdateUser(r) \/ Fails(r)

Next == \E r \in Request : Arrive(r) \/ Step(r)

Spec == Init /\ [][Next]_vars

-----------------------------------------------------------------------------
(* Properties. *)

\* Every variable has its type.
TypeOK ==
    /\ users \in [Key -> User \cup {NoUser}]
    /\ pc \in [Request -> PC]
    /\ kind \in [Request -> Kinds]
    /\ key \in [Request -> Key]
    /\ entity \in [Request -> Entity \cup {NoUser}]
    /\ dirty \in [Request -> SUBSET {"name", "roles"}]
    /\ reply \in [Request -> Replies]
    /\ raced \subseteq Request

\* What a login writes leaves the local roles alone: the roles of a user change
\* only by a role update that was sent to set exactly these.
LoginsKeepRoles ==
    [][\A k \in Key : users[k] # NoUser /\ users'[k].roles # users[k].roles =>
          \E r \in Request : /\ kind[r] = "role" /\ pc[r] = "writing" /\ pc'[r] = "idle"
                             /\ key[r] = k /\ entity[r].roles = users'[k].roles]_vars

\* A role update leaves the name alone, unless another handler has changed the
\* name between the two reads of the update.
NameUnlessRaced ==
    [][\A k \in Key : users[k] # NoUser /\ users'[k].name # users[k].name =>
          \E r \in Request : /\ key[r] = k /\ pc'[r] = "idle"
                             /\ \/ kind[r] = "login" /\ pc[r] = "renaming"
                                \/ kind[r] = "role" /\ pc[r] = "writing" /\ r \in raced]_vars

\* The script creates a first administrator: there is no other, unless he has
\* appeared since the script looked for one.
FirstAdminUnlessRaced ==
    [][\A r \in Request : /\ kind[r] = "bootstrap" /\ pc[r] = "inserting"
                          /\ reply'[r] = "ok" /\ pc'[r] = "idle"
          => Admins(users) = {} \/ r \in raced]_vars

=============================================================================
