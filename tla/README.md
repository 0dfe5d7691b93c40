# Gaceta backend: TLA+ specifications, model checking and proofs

The backend of Gaceta is a NestJS application (TypeScript, TypeORM, PostgreSQL)
that publishes official documents. It authenticates its users with Identity Hub
(OAuth 2, authorization code with PKCE), keeps their tokens in its own database,
numbers and stores documents with their PDF files, and records which document
modifies, abrogates or complements which. The repository has no tests; its rules
are in the code under `src/src/modules`, three scripts and two architecture
notes (`docs/architecture/*.md`).

The program is small; its difficulties are in what happens *between* its
statements. Every handler is a chain of `await`s, every `await` is a point where
another handler runs, and several handlers read a row in one statement and write
it, or decide by it, in a later one. Some take a row lock, some do not. This
directory models those chains statement by statement, checks what they promise
to one another with TLC, and proves the central parts with TLAPS.

Paths below are relative to the repository, `auth/`, `documents/`, `files/` and
`users/` stand for `src/modules/<name>/`.

## 1. Inventory

| Component | State it keeps | Operations that change it |
|---|---|---|
| **Local sessions** (`auth/guards/auth.guard.ts`, `auth/services/auth-session.service.ts`, `auth/controllers/auth.controller.ts`) | table `auth_sessions`: user, Identity Hub session (`identitySid`), access and refresh token, expiry | authenticate (with refresh), logout, back-channel logout, creation at login with a purge of expired rows |
| **Identity Hub client, token verification** (`auth-identity.service.ts`, `token-verifier.service.ts`) | cached signing keys, lookups left in the minute | exchange a code, refresh tokens, look a key up, verify a token |
| **OAuth login** (`oauth.controller.ts`, `oauth.service.ts`, `oauth-transaction.service.ts`) | table `oauth_transactions`, cookie of the browser | login, callback, consume, discard, purge |
| **Users and local roles** (`users/*`, `scripts/bootstrap-admin.ts`, `auth/guards/roles.guard.ts`) | table `users` | just-in-time creation and renaming at login, import, role update, first administrator |
| **Document types and numbers** (`document-type.service.ts`, `document.service.ts`, `document-identifiers.ts`) | tables `document_types`, `documents`, their unique indexes | create and update a type, create a document |
| **Documents, files, legal relations** (`document.service.ts`, `document-relation.service.ts`, `files/files.service.ts`) | tables `documents`, `stored_files`, `document_relations`, directory `UPLOAD_PATH` | upload, create, update, save and remove a relation |
| **Public documents** (`public-documents.service.ts`) | `documents.downloadCount` | file stream with its counter; listing, detail, sitemap and landing page are chains of queries |
| **Slug backfill** (`scripts/backfill-document-slugs.ts`) | slug columns of types and documents | read types, read documents, one transaction of UPDATEs, beside a running server |
| **Connection pool** (TypeORM's data source) | connections of the process | taken by every query and transaction |
| Identifiers and validation (`document-identifiers.ts`, DTOs, date validators) | none | pure functions |
| Gazette importer (`documents/import`, `files/file-importer.service.ts`) | none | one sequential script |
| Configuration, wiring, controllers without state | none | |

**How they interact.** `OAuthGuard` runs before every protected route: it reads a
session, verifies its token and, when that has expired, refreshes it through
Identity Hub inside a database transaction. The login callback consumes an OAuth
transaction, exchanges the code, synchronises the user, and creates a session.
Logout calls Identity Hub and deletes the session; Identity Hub calls the
back-channel route. `RolesGuard` reads the roles of the session's user.
`DocumentService` and `DocumentRelationService` write the same row of `documents`
in separate transactions, and `FilesService` takes part in the transactions of
the first; the public download reads both tables and counts in `documents`.

**What is hard.**

* *Concurrency.* Requests of one browser refresh one session at once; a logout
  meets a refresh; two callbacks use one transaction; the numbering mode of a
  type changes while a document is numbered; two writers of one document.
* *Unreliable calls.* Identity Hub rotates the refresh token before it answers.
  The call has a timeout of ten seconds, the answer can be lost, and a call that
  was given up may still arrive.
* *Crashes.* Transactions roll back, Identity Hub does not; a file's bytes are
  not part of any transaction.
* *Stale copies.* TypeORM's `save` writes the columns in which the entity in
  memory differs from the row it reads again. An entity read without a lock
  writes old values back over what others have written meanwhile.
* *Ordering.* A back-channel logout and the login it belongs to, cookies of two
  tabs.
* *Limits.* A refresh keeps a database connection for as long as Identity Hub is
  silent, and so does whoever waits for its row lock; keys may be looked up five
  times a minute.
* *Answers put together from several moments.* A page of the listing is three
  statements, the landing page five queries in parallel; a link is followed after
  its document has changed.

**What correctness means for each.** Sessions: a refresh token is used by one
request at a time, the row holds the only pair that Identity Hub will still
refresh, nobody is logged out for nothing, what is deleted stays deleted, a route
runs only for a genuine token, every request is answered. Login: a transaction is
used once, by the browser that asked for it, and fails only for a reason. Numbers:
unique as the mode says, the mode fixed by the first document, a refusal is true.
Documents: a file of its own that can be served, a legal status that follows the
relation, every download counted, an address that starts with its type's slug,
dates in order. Backfill: nothing left without a slug. Keys: the limit of lookups
counts kids and not requests, and a withdrawn key opens nothing for long. Public pages: a
reader misses nothing that stays where it is, links lead somewhere, figures
agree. Users: no lost login, roles changed only by administrators, one first
administrator. Pool: no two requests wait for each other.

The list of hazards with their lines, and the properties that watch each of
them, is in `PROJECT.json`. Where the code simply lets a race happen and nothing in
the repository forbids it, no property watches it, and the hazard's note says which
property names the race as its exception.

## 2. Modules

| Module | Role |
|---|---|
| `SessionLifecycle` | abstract: what the table of sessions promises |
| `AuthSession` | the handlers of sessions and Identity Hub's side of the protocol |
| `AuthSession_proofs` | theorems about `AuthSession` and `PooledSessions` |
| `PooledSessions` | the handlers of `AuthSession` on a pool of connections |
| `SigningKeys` | token verification, the client of Identity Hub's keys, key rotation |
| `SigningKeys_proofs` | theorems about `SigningKeys` |
| `LoginTicket` | abstract: a login attempt as a ticket used once |
| `OAuthLogin` | login and callback, the table of transactions, cookies |
| `OAuthLogin_proofs` | theorems about `OAuthLogin` |
| `NumberRegistry` | abstract: how numbers are given |
| `DocumentNumbering` | types and creations, row locks, unique indexes |
| `DocumentNumbering_proofs` | theorems about `DocumentNumbering` |
| `DocumentRecords` | documents, files, relations, downloads |
| `DocumentRecords_proofs` | theorems about `DocumentRecords` |
| `DocumentEditing` | slugs and dates over time: types, PATCH, the backfill |
| `DocumentEditing_proofs` | theorems about `DocumentEditing` |
| `PublicCatalog` | what a visitor reads while documents change |
| `PublicCatalog_proofs` | theorems about `PublicCatalog` |
| `Users` | logins, imports, role updates, the script |
| `Users_proofs` | theorems about `Users` |
| `MC...` | symmetry, views, bounds and constants for TLC |

The handlers of every module are *slots* (`Request`): a slot serves one request
at a time and then another. `pc[r]` says before which statement or call the
handler is, the other variables indexed by `r` are its local variables. A
statement of SQL is one step. Definitions named "Mutant of X" are plausible bugs
of X; no specification uses them, they show that a property can fail.

**AuthSession.** `row`, `pair`, `sidOf` are the columns of `auth_sessions`: token
pairs are numbered, pair n+1 is what refreshing pair n gives. `rowLock[s]` is the
lock of `SELECT ... FOR UPDATE` (`auth-session.service.ts:64`), held across the
call to Identity Hub until commit or rollback; statements that write the row wait
for it, `findActiveSession` does not. `FindActiveSession`, `VerifyStoredToken`,
`LockFinds...`, `SaveTokens`, `DeleteRefused`, `RereadSession`,
`VerifyRefreshedToken` are the guard and `refreshSession` in program order;
`DeleteRows` is every DELETE, by id or by `identitySid`. `SaveTokens` inserts the
row when it has gone, because TypeORM's `save` does. Identity Hub is external:
`HubRotates`, `HubRefuses`, `HubRevokes`, and `HubServesLateCall` for a call whose
caller has given up. `lost` remembers that a rotation's answer was never stored.
The claims of a token are reduced to what verification makes of them (`Quality`):
a wrong signature, wrong claims, or those of another user or Hub session. `Verdict`
judges in the order of `jwt.verify` and its callers: signature, `exp`, claims, user
and Hub session, so that an expired token with wrong claims is refreshed.

**PooledSessions.** EXTENDS `AuthSession` and conjoins each of its actions with
what it does to `conn` and `queue`: a request asks for a connection (`Ask`), runs
its statements with it, and `Reconnect` gives it back, or asks again, when the next
step needs none, or another. A refresh keeps its connection from BEGIN to COMMIT,
also while it waits for the row lock and for Identity Hub. The pool is pg-pool's as
the data source configures it: first come, first served, no time limit on waiting.
A crash empties it. A DELETE of several rows takes its locks at once here; in
PostgreSQL it takes them one after another, and only statements that write other
rows in another order could tell.

**SigningKeys.** `cache`, `lookup` and `left` are the state of the `jwks-rsa`
client that `token-verifier.service.ts:42-49` configures: keys that stay for ten
minutes, one lookup of a key shared by all who wait for it, five lookups a
minute, the library's time limit of half a minute. `Key` are *kids that headers
name*. The kid is read before anything is verified, and the back-channel route is
public, so `LogoutToken` is Identity Hub's token for a session or a JWT with any kid
(`"stray"`); both spend lookups of the same minute. `Store` puts a found key into the
cache, which drops another when it is full; it also counts entries past their age, so
the model lets it drop one at any time. `Verify` is
`verifyIdentityHubJwt`, with its callers as `purpose`; `WithKey` and
`WithoutKey` are what the guard, the login (which redirects with
`token_exchange_failed`) and the back-channel route make of its outcome. `trouble`
remembers for the minute that a lookup ended without a key or that the cache dropped
one. `withdrawn[k]` counts minutes since Identity Hub took key k out of
`jwks.json`, for a property only.

**OAuthLogin.** A transaction `t` stands for its id, its state and its PKCE
verifier. A browser has one cookie (its newest transaction), sends callbacks with
any state Identity Hub has redirected with, twice or for other tabs and browsers.
`LockTransaction`/`DeleteConsumed` are `consume`. `Respond` clears the cookie,
whichever transaction it names by then. `strayed` marks browsers that did more
than one login and its callbacks, so that `InvalidStateExplained` can speak of an
ordinary user. Session creation is one step here: its statements are in
`AuthSession` and `Users`.

**DocumentNumbering.** `readers`/`writer` are FOR SHARE and FOR UPDATE on the row
of a type; an uncommitted row of `documents` carries its transaction (`tx`), an
INSERT that clashes with it waits and one that clashes with a committed row fails.
A slug is the sequence of the segments between its hyphens, so that two different
documents can have one slug exactly when they can in the code.

**DocumentRecords.** One step per statement, READ COMMITTED: `own[r]` holds what
the transaction of `r` has written and not committed, `DocSeen`/`StatusSeen`/
`RelationSeen` what it reads, `DocLocked`... when its write waits. `Compare` and
`SaveDocument` are TypeORM's `save`: SELECT, then an UPDATE of the columns in
`dirty`. `ReloadRelation` is the SELECT of the relation's; whatever is written then,
the target in memory gets the relation's type as its legal status (`Relabel`). `entity[r]` is the document the handler has in memory. A file id stands
for its generated stored name and is uploaded once. An upload whose INSERT is
committed and only its answer lost removes the bytes and leaves a row that nobody
knows the id of; nothing reads that row and the model has no value for it. `raced` collects documents
that were changed (by a commit or a counted download) while another handler held
a copy, `contested` files that two requests in flight named: the properties state
that nothing else goes wrong.
In the queries that load a relation's target, `select: { type: { id, name } }` is
taken to narrow the joined type only; the handlers need the other columns.

**DocumentEditing.** Follows the slug and date columns of rows that are older
than them. `Update`, `Compare`, `Save` are `DocumentService.update` with
TypeORM's `save` as in `DocumentRecords`; a field that the request leaves out is
`undefined` in the entity and is not written, the slug that was read *is*, when
the row has another by then. `ReadTypes`, `ReadDocuments`, `WriteSlugs` are the
statements of the script between which the server runs; it may be started again
after it failed or completed, by one operator at a time. `overtaken`, `raced`,
`partial` collect the documents to which the known weaknesses (below) have
happened, so that the properties can say that nothing else goes wrong.

**PublicCatalog.** One visitor pages through the listing, follows links and opens
the landing page while `SetStatus`, `SetLegal`, `SetActive` stand for what the
administration commits. `ReadIds`, `ReadRows`, `CountRows` are the three statements
of `getManyAndCount` with joins and `take`. The last is sent only for a full page or
an empty later one; otherwise the total is what was skipped and the rows that were
found, so that a withdrawal between ids and rows ends the list for the visitor. TypeORM orders such a query by the
primary key last, which is what makes equal rows stay in place. Rows that are not
published and rows that are not there look the same from outside and are one value.

**Users.** Rows are never deleted and `externalKey` is unique, so a key stands for
a row. `Write` records in `raced` whom a change overtakes. `Administer` has the
guard of `RolesGuard`: some administrator exists when the request arrives.

## 3. What is checked

| Run | Instance | Question |
|---|---|---|
| `session` | 3 requests of 1 session, 2 requests of 2 sessions with 1 or 2 Hub sessions | all safety properties of a session; the refinement of `SessionLifecycle` |
| `session_pool` | 2 requests, 1 session, pools of 1 and of 2 connections | locks and pool never wait in a circle, every request is answered |
| `session_transient` | 2 requests, 1 session | *violated*: a transient error can cost the session |
| `keys` | 2 requests, 3 kids, 2 lookups a minute | refusals for want of a key, also when posted JWTs use up the lookups; what a withdrawn key still opens |
| `login` | 2 requests, 2 transactions, 2 browsers | own browser, explained refusals; the refinement of `LoginTicket` |
| `numbers` | 3 requests, 2 types, 2 suffixes, 2 years | numbers against mode changes; the refinement of `NumberRegistry` |
| `numbers_slugs` | 2 types, one slug continuing the other | *violated*: a free number is refused as taken |
| `records` | 2 requests, 2 documents, 3 files; or 2 files with relations and downloads | files of documents, legal status, download counter |
| `records_status` | the same without downloads | *violated*: an update writes an old legal status back |
| `editing` | 2 requests, 2 documents of 2 types, 4 names; or all dates of 1 document | the backfill beside the server; dates under concurrent and partial PATCHes |
| `catalog` | 4 documents, 2 types, pages of 1 and 2, 2 changes | paging, dead links, figures of the landing page |
| `users` | 3 requests, 2 users, 2 names | collisions, roles, names, first administrator |

What the properties say is written above each of them. The ones to know:

* `RefreshSerialized`, `StoredPairIsNewest`, `RefusalExplained`: two requests of
  one session never burn its refresh token. The row lock *and* the comparison of
  the access token after it are both needed.
* `DeletedForGood`: after a logout or back-channel logout has answered, no
  refresh that was under way brings the row back, although `save` would insert it.
* `SessionEndsForAReason`: lists every way a live session can end.
* `NobodyStuck`, `EveryRequestEnds`: a refresh holds a row lock and a connection
  across an HTTP call, and those who wait for the lock hold the other connections.
  Whoever waits, for a connection or for a lock, there is somebody with a connection
  who waits for nobody; and all are answered, on a pool of one, because the holder
  of a lock needs nothing but its own connection and the call has a timeout.
* `UnavailableExplained`: the limit of five lookups a minute counts kids and not
  requests. Whoever is refused for want of a key is so in a minute in which a lookup
  ended without one or the cache dropped a key, or when as many kids as there are
  lookups are cached or being looked up. It does *not* say that five are enough: see
  the weaknesses below. `WithdrawnKeyRunsOut`: the cache is the only
  thing that keeps a withdrawn key alive.
* `SessionInOwnBrowser`, `InvalidStateExplained`.
* `ScopeFollowsMode`: although the mode is read by one transaction and checked by
  another, every document is numbered in the scope that its type's mode calls for.
* `OwnFileUnlessRaced`, `LegalStatusUnlessRaced`, `DownloadsUnlessRaced`,
  `NotFoundExplained`, `OnlyPendingActivated`: only handlers that act on a copy
  overtaken by a commit, or that name one file at once, can break the agreement of
  documents, files and relations. Rollbacks, failures of single statements and crashes
  cannot, and concurrent downloads are all counted. The races themselves are exempt:
  that they do harm is finding 3 and the list of weaknesses. `FilesAreReady` has no
  such exception.
* `SlugFollowsType`, `BackfilledUnlessOvertaken`: a script that reads everything
  before its transaction leaves no type and no document without a slug, though the
  server creates both under it, except one that a PATCH had in memory.
* `DatesOrderedUnlessRaced`: a complete PATCH by itself is stored as it was validated.
  Partial and concurrent ones are exempt, as each is validated without the row.
* `PagesExplained`, `DeadLinksExplained`, `LandingAgrees`: what a reader of several
  statements may and may not get to see.
* `LoginsKeepRoles`: a login between an administrator's read and save touches no
  roles. `NameUnlessRaced`, `FirstAdminUnlessRaced`: what is left when the race of
  a role update, or of the script, with another writer is exempt.

Every property of a passing run has a mutant in `PROJECT.json`: a bug of the code
(a lost lock, a dropped check, a whole entity written instead of one column) with
which the same run finds it violated.

### Findings

1. `session_transient`. `authentication.md:26` promises that transient errors
   keep the session and allow a retry. When the answer to a rotation is lost, the
   row keeps a spent refresh token and the retry deletes the session.
2. `numbers_slugs`. Type `ley` with number 1, suffix 2 and type `ley-1` with
   number 2 have one slug; the second document is refused with "El numero
   correlativo ingresado ya existe", which is not so.
3. `records_status`. `document-legal-relations.md:98-99` ties `legalStatus` to
   the incoming relation. `DocumentService.update` saves a document it read
   without a lock, so that a relation saved meanwhile loses its status.

The passing properties allow these weaknesses, each of which the runs reach; they
are properties of the code, not of the models:

* `findActiveSession` deletes by id what it *read* as expired, and so can delete a
  session refreshed meanwhile (last disjunct of `SessionEndsForAReason`).
* `markAsActive` checks and writes in separate statements, so two requests that
  name one pending file can both activate it (`contested` in `OnlyPendingActivated`).
* A role update that overlaps a login writes the name before that login back
  (`NameUnlessRaced`); two runs of the script for the first administrator can make
  two of them (`FirstAdminUnlessRaced`).
* A PATCH that read a document before the backfill committed can write its NULL slug
  back after "Backfill completed" (`overtaken`): the columns cannot always be made
  NOT NULL then. Running the script once more repairs it.
* Two PATCHes, both in order, can leave dates that are not (`raced`), and one that
  gives one date of a pair is compared with nothing (`partial`).
* Lookups of keys can be used up. Each JWT posted to the back-channel route with a
  new kid spends one of the minute's lookups before it is refused, and tokens of
  Identity Hub whose key is not cached are then refused until the minute is over:
  protected routes answer "temporarily unavailable" and keep the session, logins
  end with `token_exchange_failed`, logout tokens are refused (the last disjunct of
  `UnavailableExplained`).
* A withdrawal between two statements of one page makes it short, and TypeORM then
  takes its end for the end of the list: a visitor misses all that follows, which the
  withdrawn document precedes (`PagesExplained`).
* An expired token whose key was withdrawn is answered "temporarily unavailable", and
  not refreshed, because the key is looked up before `exp` (`UnavailableExplained`):
  waiting does not help, only a new login. While keys are out of reach, logout
  tokens are refused.
* The detail of a document shows the other ends of its relations whatever their
  status, so that its links may lead nowhere from the start (`"detail"` in
  `DeadLinksExplained`).
* `documentTypesCount` counts active types without a slug, which the list of types
  beside it leaves out (the `<=` in `LandingAgrees`).

### Bounds, and why they are enough

* `Request`: a handler can be overtaken by one other between any two of its
  statements with 2 slots, and a slot can serve any number of requests one after
  another. Three are used where a lock has a holder and two waiters, or where a
  third handler makes what the second reads.
* `MaxPair = 2`: pair 1 is stored, pair 2 its successor, which is what all
  properties compare. The proofs have no bound.
* `session` explores two regions (`OneOrTwoSessions`). Three requests of one
  session meet everything: late calls, bad tokens, crashes. Two requests of two
  sessions, at least one of which needs no refresh, meet an Identity Hub that issues
  good tokens and answers in time: what matters there is which rows are deleted.
  `DeletedForGood` and the refinement are proved without these bounds.
* `session_pool`: on a pool of one, the holder of the lock excludes everybody; with
  two connections and two requests, the waiter has the last connection. A third
  request would find the same pool.
* `keys`: one kid more than there are lookups, so that posted JWTs can use up the
  limit while Identity Hub's key is not cached, and two requests, so that lookups
  are shared. A slot serves any number of requests one after another, also in one
  minute. `MaxAge` 1 stands for ten minutes; `Horizon` lies beyond the
  `MaxAge + 1` that `WithdrawnKeyRunsOut` speaks of.
* `numbers`: two documents are enough for a clash, `ThreeOnOneType` bounds three
  overlapping transactions to one type. Rows of different types meet only in the
  slug index, which two transactions show.
* `records` explores two regions (`FilesOrRelations`). *Files*: one file per document
  and one that both want, while no relation is saved and no download counted;
  `NoOrphan` stops after a failed upload, whose file nobody names again. *Relations
  and downloads*: one target and a document that is there to be its source
  (`OneTarget`), as legal status and counter depend on no other document. After a
  race the overtaken transaction is followed to its end (`Unraced`): raced
  documents are exempt for good. Three relation ids: an old one, a new one, one
  of a rolled back transaction. Two downloads are the least that can be lost.
* `editing` explores two regions (`SlugsOrDates`): slugs, with PATCHes that carry
  no dates; and the dates of one document, with all PATCHes over two days (in
  order, equal, out of order, NULL, left out), two of them at a time. The names
  are the cases of `generateSlug`: two names with one slug, one whose slug
  continues another's, one that leaves nothing. No statement touches both slugs
  and dates in a way that one depends on the other; the proofs have no bound.
* `catalog`: two of the four documents are equal in year, number and suffix, one
  differs in the suffix only, one in the year. Two changes let a document leave
  while another joins, or one leave and return. Documents have slugs (after the
  backfill); types turn active or not only for the landing page, the one place
  where it shows.
* `users`: `ThreeOnOneUser`; rows of different users meet only in the search for
  administrators.
* Symmetry is used for safety runs only, over sets whose members the modules only
  compare. Views leave out local variables of handlers that have ended (no action
  reads them) and keep what a property reads.

`DocumentRecords` may stop when its files are used up, `DocumentEditing` when
nobody sends a PATCH and all names are taken, `PublicCatalog` when the visitor
has read what it came for: their runs switch the deadlock check off. The other
runs check for deadlock.

### Fairness

Only `session_pool` needs it. `PooledFairSpec` demands strong fairness of each
handler's next step (`Serve`): Node's event loop runs every continuation that is
ready, PostgreSQL grants a row lock to its waiters in turn, pg-pool hands its
connections out in the order of asking (which the model does, and fairness need not
say), and the HTTP client's timeout (`auth-identity.service.ts`, ten seconds) ends
a call that is not answered. It is strong because waiting for a lock disables a
handler again and again. Nothing is assumed of Identity Hub, nor of time and
crashes, and no statement is made to fail: what ends the requests is not an error.

### Taken from outside the repository

* TypeORM: `save` reads, compares and writes what differs; properties that are
  `undefined` are not written, and a DTO's absent fields are `undefined` (the class
  declares them and the target is ES2023); `take` with joins is three statements,
  ordered by the primary key last, the third of which (the COUNT) version 0.3.31 leaves
  out when the page has rows but fewer than `take`, or is an empty first one.
* PostgreSQL at READ COMMITTED: row locks, unique indexes that wait for an
  uncommitted row with the same key, a blocked UPDATE that works on the row of the
  moment.
* `jwks-rsa`: lookups that are shared per kid, the cache with its age and its number
  of entries, and the limiter of all lookups, as its options name them. When the cache
  drops a key is left open.

## 4. What is proved

`AuthSession_proofs` holds TLAPS proofs, for any sets of requests, sessions and
Hub sessions and any `MaxPair`. The assumptions are `NoRequest \notin Request` and
`MaxPair \in Nat \ {0}`.

* `Invariance`: `Spec => []IndInv`.
* `TypeCorrect`, `RefreshIsSerialized`, `StoredPairStaysNewest`,
  `RefusalsAreExplained`, `LogoutIsFinal`, `AuthenticationIsGenuine`: its parts.
* `SessionsEndForAReason`: `Spec => SessionEndsForAReason`.
* `Refinement`: `Spec => Lifecycle`.

The argument: none of the properties is inductive alone. That a refresh in flight
excludes others is what its *lock* gives, so `LockGuardsRefresh` ties `pc` to
`rowLock` in both directions and adds that the row is live and still holds the
pair that was read: every statement that could change it needs the lock. That
gives `RefreshSerialized`, and that `SaveTokens` never inserts a deleted row, so
`DeletedForGood`. For the newest pair one has to know that an answer is the
successor of what was read unless an answer was lost (`AnswerIsNewest`), that
pairs held anywhere have been issued (`PairsIssued`), and that session ids are
inserted once (`InsertedOnce`, `WorksOnInserted`: a handler works for rows that
exist). `RefreshesExpired` gives the guard of `Rotate` in the refinement. Each
conjunct has a lemma with one step per action. For `SessionsEndForAReason`,
`DeletionsExplained` adds that what a DELETE was decided on stays true until it runs:
pairs only advance, and what has expired, been closed or found bad stays so; the one
thing that may have changed is that the row holds newer tokens. In the refinement every action
stutters but `InsertSession` (Open), `SaveTokens` (Rotate), the deletions (Close)
and `AccessTokenExpires` (Age).

The last part of `AuthSession_proofs` is about the same handlers on any pool.

* `PoolRestricts`: `PooledSpec => Spec`, so every theorem above holds with the pool.
* `PoolInvariance`: `PooledSpec => []PoolInv`, the bookkeeping of the pool, for any
  sizes of it: nobody waits twice or with a connection (`WaitsOnce`), nobody waits
  while a connection is free (`PoolSpent`), and who is at a statement has a
  connection or waits for one (`NobodyForgotten`).
* `LockHoldersConnected`: `PooledSpec => []LockHolderConnected`.
* `NobodyGetsStuck`: `PooledSpec => []NobodyStuck`: row locks and the pool never
  wait for each other in a circle.

The argument: every action of `PooledNext` is one of `Next` or leaves its variables
alone. `LockGuardsRefresh` says that the holder of a row lock is in the refresh
transaction, and a handler enters it only from `locking`, for which it needs a
connection, and keeps that until it leaves (`RefreshConnected`). `NobodyStuck` then
has two cases. If some row is locked, the holder has a connection and waits for no
lock. If none is, nobody waits for a lock, and who waits for a connection does so
because all of them, and there is at least one, are in the hands of others
(`PoolSpent`), none of whom waits for a lock either.

`DocumentNumbering_proofs` does the same for numbers, for any sets of requests,
types, numbers, suffixes and years and any `MaxDocuments`. The assumptions:
`NoRequest \notin Request`, and slugs and suffixes are sequences, those of types
different (`UQ_document_types_slug`).

* `Invariance`: `Spec => []IndInv`, with `TypeCorrect` and `ScopesFollowModes`.
* `Refinement`: `Spec => Registry`.
* `DuplicatesAreNumbersTaken`: `Spec => DuplicateMeansNumberTaken`, provided that the
  slug of no type continues that of another (`SlugsNeverContinue`). The code does not
  ensure that: it is what `numbers` satisfies and `numbers_slugs` (finding 2) does
  not, where the property is violated.

The argument: `ScopeFollowsMode` speaks of two transactions that never see each
other's writes. `LocksHeld` says that the locks on a type are held by open
transactions on it and that FOR UPDATE excludes FOR SHARE; so the mode that a
transaction read is the mode of the type until it ends (`ModeUnderLock`). A row that
is not committed belongs to a transaction that still has its lock
(`RowsOfTransactions`), which is why the count of *committed* documents in
`DocumentTypeService.update` is enough: nobody can have one in flight
(`UnusedWhenChanged`). A commit then publishes exactly one document, and the unique
indexes (`NumbersDistinct`) with the scopes give the guard of the registry's
`Assign`. For an answer that a number is taken, the INSERT clashed with a committed row
in one of two indexes. Two rows with one slug belong to one type, as that of
neither type continues the other's, and then the segments after it have their places:
number, suffix and year are the same (`SlugsIdentify`). Two rows with one number in one
scope were numbered in the mode the type has now, which the transaction knows under
its lock (`DuplicatesClash`).

`DocumentEditing_proofs`, for any sets of handlers, documents, types, names and
dates, and any `NameSlug` and `Segments`. The assumptions: the sentinels are not
values, and NULL is no slug.

* `Invariance`: `Spec => []IndInv`, with `TypeCorrect`.
* `SlugsFollowTypes`, `BackfillIsComplete`, `DatesStayOrdered`: its three properties.

The argument: what the script has read in two statements must still be good in its
transaction. `PlanHolds` says so: no type loses or changes a slug, whoever creates a
type or a document gives it one, hence every row without a slug is in the plan, or
was overtaken; `AbsentTypesHold` covers types that are created under the script.
`CopiesHold` says that a PATCH writes only slugs the document had, and NULL over a
slug only if it was overtaken. `DatesHold` says that, while nobody else
writes a document's dates, `dirty` is the difference between request and row, so
that a complete request leaves exactly the dates that were validated.

`OAuthLogin_proofs`, for any sets of handlers, browsers and transactions. The
assumptions: the sentinels are not values.

* `Invariance`: `Spec => []IndInv`, with `TypeCorrect`.
* `SessionsInOwnBrowsers`, `RefusalsExplained`: its two properties.
* `Refinement`: `Spec => Tickets`.

The argument: who has the verifier of a transaction got it with the row, under its
lock (`LocksHeld`, `VerifierTakenOnce`), and a transaction is in no cookie and no
handler but those of the browser that asked for it (`TransactionsOwned`); a session
needs both. That nobody else's doings refuse an ordinary user is a statement about
one browser: it has one transaction or one on the way (`OneLogin`), sends its state
and no other (`OwnCallbacks`), and until that is expired or used neither the row nor
the cookie goes away (`KeptUntilSpent`). In the refinement the INSERT, the end of
`consume` and the deletions are the steps of the ticket; all else stutters.

`SigningKeys_proofs`, for any requests, any finite set of kids, of any size, any limit
and any time in the cache.

* `Invariance`: `Spec => []IndInv`, with `TypeCorrect`.
* `LimitCountsKids`: `Spec => UnavailableExplained`.
* `WithdrawnKeysRunOut`: `Spec => WithdrawnKeyRunsOut`.

The argument counts: as long as no lookup of the minute has ended without a key and
the cache has dropped none, each lookup that was spent was for another kid, and that
kid is cached or being looked up since (`LookupsServe`). When none is left, there
are at least as many of these as the limit allows. That more requests for a kid spend
no more lookups is what sharing gives; nothing is assumed about how many kids there
are. A key cannot enter the cache later than one lookup after its withdrawal
(`LeftOfWithdrawn`), which bounds what it can open.

`Users_proofs`, for any sets of handlers, keys and names.

* `Invariance`: `Spec => []IndInv`, with `TypeCorrect`.
* `RolesAreLocal`, `NamesSurviveRoleUpdates`, `FirstAdmin`: its three action
  properties.

The argument: rows stay (`FoundRowsStay`), and a handler that was not overtaken still
knows what it read: a role update the name (`NameReadIsCurrent`), so that it writes
none; the script that there is no administrator (`NoAdminYet`).

`DocumentRecords_proofs`, for any sets of handlers, documents, files and relation
types and any bounds. The assumptions: `NoFile` is no file, and no file is named like
the two other rows a transaction can write.

* `Invariance`: `Spec => []IndInv`, with `TypeCorrect`.
* `DocumentsHaveFiles`, `DocumentsOwnTheirFiles`, `LegalStatusMatches`,
  `DownloadsCounted`, `MissingFilesExplained`: its invariants.
* `DeletedStaysDeleted`: its action property.

The argument: a commit publishes what several statements wrote, each decided on a
copy, so that the invariant has to say what a transaction *will* publish. `Handler`
says so for each handler: what its transaction has written and in which order
(`OwnRows`, `MarksInOrder`), that the file it will put on the document has been
activated for good or by itself (`Creation`, `Change`, with `Sound`), and that its
copy of the document is the row, but for what it is about to change, until somebody
else changes that (`ReadIsCurrent`, `MarksAreCurrent`, `WantsPending`). Between
handlers: two requests that want one file make it contested (`SharedIsContested`),
and a file that is not contested belongs to one document, for the row and for all
copies of it (`OneClaimant`). A step of one handler changes for the others only
what `Undisturbed` allows: files become ready and never pending again, and rows
change only of documents that are raced from then on. So each action has to be
looked at for its own handler and for the tables only. The row locks of PostgreSQL
are not needed for any of it: what they keep in order, `raced` would exempt.

`PublicCatalog_proofs`, for any finite sets of documents and types, any keys and
relations, any page sizes (at least one, none of them 0) and any `MaxChanges`.

* `Invariance`: `Spec => []IndInv`, with `TypeCorrect`.
* `PagesAreExplained`: `Spec => []PagesExplained`.
* `DeadLinksAreExplained`: `Spec => []DeadLinksExplained`.
* `LandingFiguresAgree`: `Spec => []LandingAgrees`.

The argument for the pages is about ranks: the rank of a document is the number of those before it
in the list. The order is total, since the primary key is its last component
(`BeforeTotal`), so a page is the documents of the ranks from its offset on
(`PageByRank`). A rank grows only when a document before joins, and shrinks only when
one leaves (`RanksMove`). Hence a document before which nothing leaves is ahead of the
visitor until it is read (`UnreadAhead`), and one before which nothing joins stays
behind once it was read (`ReadBehind`). The page is read in three statements, and
both invariants say what holds between them: a document whose key was found counts
as read as far as missing it goes, and has not been read before. A short page ends the
list, so that the argument also has to say why nothing is missed then (`PageFull`):
before a document that was not read yet there is a full page, and if a row of that page
is not found any more, something before the document has left.

The figures of the landing page are the answers to five queries at five moments. At
one moment they fit (`AnswersFit`): documents are divided by their types, so that
the sum over the types is a count of documents. Each change of the administration
moves each figure by at most one (`ChangesMoveOne`), so an answer is at most as
far from the truth of now as there were changes (`FiguresNear`), and exact while there
were none (`FiguresCurrent`). That a sum over a finite set of types follows the
counts (`SumOfCounts`) needs an induction, which is done over the *set* of those
subsets for which the statement holds, without the library's induction theorems.

Only model-checked: `EveryRequestEnds`. That there is always somebody who can go on
(`NobodyStuck`) is proved; that everybody is served in the end rests on fairness, and
both fairness, which is defined with `ENABLED`, and leads-to are out of the
prover's reach.

The inductive invariants are defined at the head of the `_proofs` modules, as they
say nothing to the handlers but only why the properties hold. TLC has checked each
of them on the instance of its run before it was proved. To have it look at one
again, let a copy of the MC module extend the `_proofs` module in place of the
component, and add `INVARIANT IndInv` to a copy of the cfg. For sessions, take
`session_pool`, whose variables `AuthSession_proofs` has, with `IndInv` and `PoolInv`.

## 5. What is not modelled, and the plan

Not modelled, and why:

* *The gazette importer*: one sequential script that parses a CSV file and registers
  PDF files; it creates no documents, and a registered file is an upload.
* *Configuration, wiring, routing*: no state.
* *Formats*: claims and headers of tokens (reduced to what verification makes of
  them), attributes of cookies, the text of codes, the normalisation of suffixes,
  validators other than those of dates. They are conversions of one value,
  for unit tests.
* *Read-only queries without order or paging of interest*: the administration's
  list, recent and featured documents, the options of types, `robots.txt`.
* The guard is not composed with the handlers it protects: a request that was
  authenticated is not cancelled by a later logout, in the code as in the model.

Hazards without a property: a back-channel logout that runs before the INSERT of
its login (`auth-session.service.ts:112`) leaves the row, which is what happens and
no promise; the orphan session after a failed deletion of the previous one
(`oauth.controller.ts:75`) needs the session cookies of browsers; the upper bound of
years is computed at the start of the process (`document.dto.ts:49`), and nothing in
the program says otherwise.

What would come next, in this order:

1. Composition of the callback with `AuthSession`, with the session cookies of
   browsers, for the two hazards of sessions above.
