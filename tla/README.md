# Verification of regen-server

TLA+ models of [regen-server](../src), the web server behind the Regen Marketplace: an
Express application over PostgreSQL, with a job worker, S3 and PostGraphile. The models
say what happens when requests overlap, get lost or repeat; TLC checks them on small
instances, and TLAPS proves the most important properties for any number of accounts,
e-mails, passcodes and requests.

## 1. The system

| Component | State it keeps | Operations | What is hard about it |
|---|---|---|---|
| E-mail login (`passcodeStrategy.ts`, `auth.ts`) | `private.passcode` | create, verify | every SQL statement commits by itself: check-then-act on codes, tries and e-mails |
| Browser session (`Server.ts`, `passport.ts`, `loginHelpers.ts`) | a signed cookie in the browser, nothing on the server | log in, switch, log out, list accounts | whole-cookie overwrites by responses in any order |
| Wallet login, connect, merge (`keplrStrategy.ts`, `wallet-auth.ts`) | `account.addr`, `account.nonce` | log in, connect a wallet, merge two accounts | one nonce per account; a merge rewrites every table that references an account |
| Google login (`googleStrategy.ts`, `connectGoogleStrategy.ts`) | `private.account.google`, `google_email` | log in, connect, disconnect | select by one key, update by another |
| Account tables (`migrations/schema_snapshot.sql`) | `public.account`, `private.account`, database roles, foreign keys | SQL functions and constraints | the only thing that serialises the handlers |
| GraphQL (PostGraphile) | all public tables, under row level security | queries, inserts, updates | policies see the role of the session, which a merge may have dropped |
| Connection pool (`common/pool.ts`) | pooled connections and their transaction state | connect, query, release | connections released in an aborted transaction, or held while another one is waited for |
| Files and the deletion queue (`files.ts`, `delete_s3_file.ts`) | S3 objects, `upload`, `s3_deletion` | upload, delete, the worker's job | three stores without a common transaction; retried jobs |
| Posts (`posts.ts`) | `post` | create, list, show, delete | visibility by privacy and reader; deletion of files one by one |
| Worker and e-mails (`worker/`, `runner.ts`) | graphile-worker's job table | run jobs with retries | at-least-once execution |
| Metadata graph (`metadata_graph.ts`, `metadata-graph.ts`) | `metadata_graph` | insert by content hash, read | concurrent inserts of one IRI |
| IRI generation, CSRF, JWT, image optimizer, contact, newsletter, buyers' info, reCAPTCHA | none | pure functions and forwards to services | nothing stateful |
| Stripe (`stripe.ts`) | its own tables | webhook | deprecated and not mounted |

How they interact: the login strategies read and write the account tables and end in
`req.login` and `updateActiveAccounts`, which change the request's copy of the session;
the session decides which account every later request, and every GraphQL query (as a
database role of that name), acts as; a merge deletes an account that sessions, rows and
roles still name, and queues its images for the worker. Every handler takes its connection
from one pool, and so does the enqueuing of a job; a post's files are stored, and deleted,
through the files API's tables and queue.

What would make it wrong, component by component: a passcode or a signature that is
accepted more often than it should be; a login answered for an account other than the one
the credential belongs to; a credential, row or role lost or left dangling by a merge; a
session that acts as an account nobody proved; a connection lost, lent twice or handed on
with somebody's open transaction, a merge committed in part, a request that never ends; a
stored file that disappears or a deleted one that stays; a post shown to someone its privacy
excludes, or deleted with its files left behind. PROJECT.json lists the hazards one by one,
each at its line.

## 2. Modules

| Module | Models | Lines it stands for |
|---|---|---|
| `Passcode` | createPasscode and verifyPasscode, and merges as far as they delete accounts | `passcodeStrategy.ts`, `auth.ts` 176-233, `wallet-auth.ts` 181-416 |
| `PasscodeProofs` | its theorems | |
| `MultiLogin` | abstract: the documented session | `docs/login-system.md`, "Multiple logins per session" |
| `Session` | the cookie session of one browser | `passport.ts`, `loginHelpers.ts`, `Server.ts` 125-164, routes |
| `SessionProofs` | its theorems | |
| `AccountTables` | tables, constraints, requests in flight | `schema_snapshot.sql` |
| `WalletAuth` | Keplr login, connectWallet, mergeAccounts (extends `AccountTables`) | `keplrStrategy.ts`, `wallet-auth.ts` |
| `GoogleAuth` | Google login, connect, disconnect (extends `AccountTables`) | `googleStrategy.ts`, `connectGoogleStrategy.ts` |
| `Accounts` | the composition of the two, and inserts of logged-in users | |
| `AccountsProofs` | its theorems | |
| `Identity` | abstract: credentials and owners, and what is left of that when requests overlap (`SpecLate`) | |
| `IdentityProofs` | that requests implement `Identity`, one at a time or overlapping (extends `AccountsProofs`) | |
| `PgPool` | the pool, the transaction of each connection, and what handlers do with them | `pool.ts`, `wallet-auth.ts` 181-416, `auth.ts` 176-218, `Server.ts` 197-227, `posts.ts` 277-327, `files.ts` 240-274, `googleStrategy.ts`, `worker.ts` |
| `Outcomes` | abstract: which writes requests commit together, before which answer, and which may come after it | |
| `PgPoolProofs` | the theorems of `PgPool`, among them that it implements `Outcomes` | |
| `Files` | upload, deletion, the S3 deletion queue and its job | `files.ts`, `delete_s3_file.ts`, trigger of `s3_deletion` |
| `FilesProofs` | its theorems | |
| `Posts` | create, show, list and delete posts | `posts.ts`, `post_privacy` |
| `PostsProofs` | its theorems | |
| `MCPasscode`, `MCSession`, `MCAccounts`, `MCPgPool`, `MCFiles`, `MCPosts` | sets for TLC, and symmetry | |

### How the models correspond to the code

**Requests.** A handler of this server is a chain of `await client.query(...)` calls. Of the
handlers in `src/` only merge-accounts opens a transaction (PostGraphile, which is mounted on
the same pool, wraps each of its requests in one too), so each statement commits by itself and
any other request may run between two of them. A request is therefore a record with a
program counter (`pc`) and the JavaScript variables that survive an `await`; one action
executes one statement and whatever JavaScript follows it up to the next `await`. Early
returns and thrown errors end the request. A field that no later statement uses is reset.
In `Accounts`, `Lost(r)` ends a request between any two statements (a lost connection, a
restart); in `Passcode`, `FailCreate` and `FailVerify` do, at most `MaxFailures` times.

**Accounts that go while a passcode is verified.** `Passcode` has merges of its own
(`MergeCheck`, then `MergeCommit` or `MergeRollback`), with what they do to e-mails, roles and
accounts, so that the account of a session can disappear between any two statements of a
verification. `merged` are the ids that are gone, `before` (history) those gone when a request
began. What a merge does to everything else is in `WalletAuth`.

**merge-accounts** reads (`MergeFind`, `MergeCheckPrivate`, `MergeReadNonce`) under READ
COMMITTED, which sees what others commit meanwhile, so these are actions of their own. The
writes are one action, `MergeCommit`: the first of them locks the row of the current
account, and statements of others that touch the same rows wait or fail, so that a commit
in between either has the effect of one before or after it, or makes a statement fail.
`MergeRollback` is the failure: `ROLLBACK TO` the savepoint and `COMMIT`, which keeps only
the new nonce. `CanMigrate` is what the constraints demand of the statements of
`migrateAccountData` in their order; where it is false only `MergeRollback` remains.

**Data.** A nonce is its account and a number, since random nonces never repeat; the
numbers stop at `MaxEpoch`. What a wallet signed is the current nonce of the account or
something else; older nonces, and those of others, never verify again and are not told
apart. A passcode row keeps its code, and `created_at` becomes whether it has expired. Rows
with a foreign key to an account are members of `Rows`, those with a uniqueness constraint
on it (`organization.account_id`, `project_partner`) of `UniqueRows`. Profile columns, log
output and messages are left out. An account id, once deleted, is never drawn again.

**Sessions.** `Session` keeps the three fields of the cookie: `passport.user.accountId`,
`activeAccountId` and `authenticatedAccountIds`. A request holds the cookie it was sent
with and the one its response carries (none if nothing changed, as cookie-session does).
The account tables appear in it as the set `live` of accounts with a `private.account` row
and the set `web3` of those a merge would accept, which a passcode (`HandleAddEmail`) or
Google's callback (`HandleConnectGoogle`) takes the account of its cookie out of. In `Accounts`, `sessions` is the set of
accounts some browser is logged in to, which is what a handler behind `ensureLoggedIn` may
find in `req.user`; it only grows, because any browser may stay logged in.

**Connections.** `PgPool` is about the connections and what handlers do with them. Requests
come in kinds. `Plain` and `Mailers` run their statements one by one, each
committing by itself, so that a later one may fail when earlier ones are committed; `Mailers`
(POST /auth/passcode) then hold their connection while `runner.addJob` takes another from the same
pool; `Googles` may turn out to have no e-mails. `Mergers` are merge-accounts, `Graphql` the requests
PostGraphile runs between its own `begin` and `commit`. `Deleters` are DELETE /posts: the files of
the post are queued beside each other, and when the first one fails, the request is answered and its
connection given back, though the statements of the others go on. These are `left` on the connection
(`DeleteFileFails`) and run at any time from then on (`LeftRuns`), before or
after the answer, when the connection is idle or another request has it. node-pg sends the
queries of a connection in order; since `deleteFile` sends its insert only when its select
has returned, the first statement of the next holder may be sent before what is left, and
no other (`Sent`, `passed`). So an insert that was left behind may be part of a merge, or of a GraphQL request, and may abort
it. What the writes are is in the other modules.

What PostgreSQL keeps for a connection
is modelled where requests can tell: whether a transaction is open or aborted, its
uncommitted writes, and the savepoint with the writes before it. A statement fails in an
aborted transaction, `COMMIT` of one rolls it back in silence, and `release` looks at none
of this. pg-pool, node-pg, PostGraphile and the transactions of PostgreSQL are external and modelled from how the
code uses them: pg-pool gives an idle connection, a new one below the maximum, or a place in the queue.
PostGraphile commits in any case, after an error too (the transaction is then aborted, or, in a mutation,
rolled back to its savepoint); when its `begin` fails there is no commit. A connection that is closed for being idle takes
what was left on it along.

**Files.** A key is a file's name in its folder, a content is the upload that stored it.
`Put` and `Insert` are the two steps of an upload in a project's folder; profile files
have no row. The row in `s3_deletion` and the job are one step (a trigger). A job that
fails, or is cut off by a crash, runs again from its first step; the worker counts an
attempt when it starts one and gives up after `MaxAttempts`. `exposed` and `restored` are history: which uploads had an
unfinished deletion of their key when they started or one accepted since, and which deletions had something
stored under their key after they were accepted.

**Posts.** `admin` is the project's admin, which GraphQL may change between the statements
of a request. `seen` and `wasAdmin` record what a read could have seen, and who was the admin, at any time
during a request; `queued` the keys a deletion queued. `deleteFile` runs for all files of a post at once (`Promise.all`) on one
connection, so all its selects run before its inserts, and those of the other files go on
after one has failed. Upload rows come and go with the files API: POST /files (`Upload`), the
admin's DELETE /files with its job in one step (`DeleteFile`; `Files` takes them apart), and the
jobs of the files a post's deletion queued (`RunJob`).

**Mutants.** Next to a definition there may be a variant marked "Mutant": a plausible bug
in the code it models. No specification uses it; TLC must find the property PROJECT.json
names violated when it takes the place of the definition.

## 3. What is checked

| Run | Instance | Shows |
|---|---|---|
| `passcode` | 2 e-mails, 2 codes, 2 passcodes, 3 accounts (1 with a wallet only), 2 creates, 2 verifies, 1 merge at a time, `MaxTryCount = 1`, 1 lost request | how far overlap goes: `TryBound` (wrong guesses past the limit: one per overlapping request), `UseBound`, `LoginMatchesEmail` (a login answers the account of its e-mail, unless a merge deleted it during the request), and `RolesLost` (an account without a role is the work of a lost request) |
| `passcode_live` | 1 e-mail, 3 passcodes, 2 creates, 1 verify, no lost request | `UnconsumedBound`: as many valid passcodes as overlapping creates, and no more; `RoleFollowsAccount`: an account that is created gets its role |
| `session` | 3 accounts (2 with a wallet only), 2 requests | `SessionConsistent`, `OnlyProvedAccounts` in any order of responses; `OnlyProvedChange`: handlers delete and change only accounts proved from this browser |
| `session_serial` | 3 accounts, 1 request | the session implements `MultiLogin`, and `LogoutIsFinal` |
| `accounts` | 3 accounts, 1 wallet, 1 e-mail, 1 Google user, 2 requests | `ReferencesOK`, `NonceInvalidated`, `NoLoginStolen` under overlap |
| `accounts_serial` | 3 accounts, 2 wallets, 1 e-mail, 1 Google user, 2 unique rows, 1 request | the handlers implement `Identity`; `ReferencesOK` with rows; `MergeKeepsLogins`, which needs that nothing overlaps |
| `pool` | 2 connections; a passcode or Google callback, a merge, a GraphQL request, a deletion of a post with 2 files; 2 statements each | `ConnectionsOwned`, `NoForeignTransaction`, `OkIsDurable`, `MergeAtomic`, `NonceSaved`; the queue: `NeverStuck`, `ServedInOrder`; that `PgPool` implements `Outcomes`; and with fairness `EveryRequestEnds` |
| `files` | 1 project key, 1 profile key, 2 uploads, 2 deletions, 2 attempts each, 1 crash | `UploadKept`, `RowHasObject`, `DeletionComplete`, `JobsAdvance` over failures, retries and the crash; with fairness `DeletionEnds` |
| `posts` | 2 accounts, 1 post with a file in each folder, a read, a creation, a deletion, 1 change of the admin | `AnswerFitsPrivacy`, `OnlyAdminsWrite`, `FilesQueuedFirst`: a post goes with the success of a deletion that queued each file under its project-folder key |
| `pool_deadlock` | 2 connections, 2 passcodes | **violated**: `PasscodeAnswered` |
| `post_files` | as `posts` | **violated**: `PostFilesQueued` |
| `merge_race` | 2 accounts, 2 requests | **violated**: `MergeKeepsLogins` |

The bounds. Two requests of a kind are enough for every check-then-act of the code: each
check is followed by one act, which one other request can overtake; the bounds
`TryBound`, `UnconsumedBound` and `UseBound` are proved for any number. One wrong guess is
the limit in `passcode`, and two that overlap pass it. Two passcodes let
one replace the other, and a third one (in `passcode_live`) exceed what two overlapping
creates may leave. Three accounts allow a merge and a bystander, and a fresh id after
both were used; in `passcode` an account may be merged away, into the wallet account or into itself, at
any step of two verifications, and one can be created afterwards. `MaxEpoch = 1` gives each account a current and a spent nonce; a further
login of an account whose nonce was replaced already is cut off. Two wallets (in
`accounts_serial`) let an account's address be replaced. The concurrent run has no `Rows`:
rows move only in the one action of a merge, which `accounts_serial` covers. Two wallets
with two requests are too many states for TLC; the proofs have no such bound.
In `pool` a request of each kind competes for two connections, so that any of them may wait, also
with a connection of its own, and each may be next on one that another
released in an aborted transaction or with a statement still to run on it (two files, so that one fails
and one is left behind); two statements let one fail when the other is committed. There is one `Mailer`, since two can wait for each other for
ever (`pool_deadlock`). `Plain` is empty there: until its job a `Mailer` does what a plain request does. In `files` an upload can overlap an upload and two deletions of
its key, and a job one of its own file, its own retry and the crash. In `posts` the admin
may change between any two statements; all four privacies of the post, and its absence, are initial states, and with a file in each
folder one file is queued under the key it is stored under and the other is not. A second
post is out of TLC's reach: posts meet only in a list, where each is shown by
its own row.
Symmetry is used for sets whose members the specifications never tell apart; with
`PROPERTIES` only where these are action properties or a safety refinement.

Fairness. `passcode_live` assumes weak fairness of every statement a started request has
left. A Node.js event loop resumes every handler whose query has returned, and
`MaxFailures = 0` says that queries return. `pool` and `pool_deadlock` assume it of a request's next step once it
has a connection (PostgreSQL answers, and the `finally` runs), of the call by which `addJob` asks for its own, and of the
statements left behind on a connection (node-pg sends what it has queued);
that a request in the queue is served is not assumed, but follows from the others' releases.
`files` assumes it of the worker's jobs, which poll the queue and go on with what they
run; that a job's step succeeds is not assumed. That a request is
started is never assumed.

### What the violated runs say

- `merge_race`: the check that the wallet account has no e-mail or Google login is stale
  when its `private.account` row is deleted. A Google account connected in between is lost;
  so is everything when two merges of the same two accounts, one each way, overlap: TLC's
  trace ends with both accounts gone. One request at a time it cannot happen
  (`accounts_serial`, `SerialMergeKeepsLogins`), and `ImplementsIdentityLate` says how little else
  overlap can do.
- `pool_deadlock`: POST /auth/passcode keeps its connection while `runner.addJob` waits
  for one of the same pool, and the pool has no timeout. As many such requests as
  there are connections wait for each other for ever, and every other request with them. With fewer
  of them than connections everything ends (`EveryRequestEnds`).
- `post_files`: deleting a post queues its files under the key made of the project's folder,
  but the files of posts may be stored in the folder `posts` of the project: those objects
  and their upload rows stay.

Some consequences the models make visible, without a run of their own:

- Two overlapping verifications may both accept one passcode ("one-time" holds only for
  requests that do not overlap): the select and `consumed = true` are separate statements.
  `UseBound` is what remains true.
- A response still on its way when its browser logs out puts the old session back; with
  one request at a time logging out is final (`session_serial`).
- A verification that adds an e-mail to the current account is answered as a login even if that account was
  merged away between the select of its e-mail and the update, which then touches no row:
  the session names an account that is gone (`SetEmail`; `LoginMatchesEmail` says that this needs the merge to fall
  into the request).
- A failed DELETE /posts may leave statements running on its connection. They may queue files of
  the post, which still exists, after the error was answered, also with the `COMMIT` of the merge or GraphQL request that has
  the connection by then; and if they fail there, that request fails. None of this makes anything that was answered with
  success get lost (`OkIsDurable`), nor a merge commit in part (`MergeAtomic`).
- After a merge that keeps the current account, the session keeps the deleted id, and
  `GET /auth/accounts` answers no list from then on, because `getPrivateAccountInfo` wants
  as many rows as ids.
- Google's connect callback acts on the account of the cookie it comes back with, not on the
  one that began: after a switch in between, another account gets the Google login. It is
  one this browser proved (`OnlyProvedChange`), if not the one the user started from.
- An account that has only a wallet and signs for its own address is merged with itself,
  which deletes it. `Identity` has a step `Close` for this, and shows that nothing but
  such an account can be lost this way when requests do not overlap.
- An account whose role was never created because its request was lost stays without one (e-mail
  logins find the account and do not retry); a second overlapping verification replaces an
  e-mail set by the first (`SetEmail` after a stale `ReadCurrent`); connecting a wallet
  replaces an address the account already has.
- An error of merge-accounts before its savepoint makes `ROLLBACK TO` fail too: the client
  is answered that error, and the connection goes back to the pool in the
  aborted transaction, where the statements of later requests fail, until a merge's `COMMIT` ends it or the connection is closed
  for being idle. `OkIsDurable` says that none of them is answered with success.
- Google's callback without e-mails in the profile is never answered (`NoEmails`), though
  its connection is given back.
- An upload of a name that exists replaces the object on S3, and only then fails on
  the upload row: the client gets an error, and the new content is stored (`UploadKept`).
- A deletion that runs again after a crash also deletes what was uploaded meanwhile:
  `UploadKept` excepts the uploads that overlap a deletion.
- One file without an upload row fails the post, and a whole list of posts, with an error (`ReadFile`).

## 4. What is proved

`PasscodeProofs`, `SessionProofs`, `AccountsProofs`, `IdentityProofs`, `PgPoolProofs`,
`FilesProofs` and `PostsProofs` are checked by TLAPS from the constants' assumptions alone
(`ConstantsAssumption` of each model, which TLC evaluates in the passing runs).

*Passcode.* The inductive invariant is `IInv == TypeOK /\ RequestOK /\ RowsOK /\ CreatedIsNew /\
DrawnFirst`: a request past its select names a passcode that was drawn; an account about to
get its role holds the e-mail of its request, and stays, because it has no role a merge could drop;
an account about to get an e-mail has a row, or was merged away since the request began (`merged \ before`);
an account merged away has neither row nor role; ids are drawn before rows exist. For `LoginMatchesEmail` this leaves `SetEmail` on an account without a
row as the one way to answer another account. On top of
it each bound has its own invariant. `TryBound`, for instance, says that
the counter of a passcode plus the requests about to increment it is at most
`MaxTryCount - 1 + |Verifiers|`; it is inductive because a request reads a counter below
`MaxTryCount`, at a moment when at most `|Verifiers| - 1` others are about to increment.
The induction steps count requests with the library's cardinality theorems. `RolesLost` counts too,
the accounts a lost request left without a role, against the lost requests: besides losing a request,
no step adds one, because the account a request has just created is the one it creates a role for.
`OneVerifier` and `OneCreator` are the bounds for requests that do not overlap: what the tests see,
a passcode that is used once and is the only one.

*Session.* The inductive invariant joins `TypeOK`, `SessionConsistent`,
`AuthenticatedByLogin` (only a login authenticates a session that was not, which `LogoutIsFinal`
rests on), a fact on idle requests and `ids \subseteq proved` for every cookie
in the browser or on its way; the last conjunct is why `OnlyProvedAccounts` survives any
order of responses: history only grows, and no handler invents an id.
`OnlyProvedChange` follows from it: a merge, a passcode for the current account and Google's
connect callback act on the account of their own cookie, whichever it has become by then, or
on one whose wallet signed.
`SerialImplementsMultiLogin` and `SerialLogoutIsFinal` assume one request
(`Requests = {one}`), under which a request in flight was sent with the present cookie.

*Accounts.* A request acts on what it read several statements ago. What stays true of it is said by
`Advances`, which every step satisfies: an id once drawn is never drawn again, an account that is
gone stays gone, and nonces only advance. Hence what a request knows (`Sound`: it names accounts that
were there once, and compares its signature with a nonce that is the account's or older) outlives the
steps of others (`Later`). `SpentOK`, that spent nonces are older than the present one,
gives `NonceInvalidated`. `TablesOK` is `ReferencesOK` table by table, with the fact that
rows which are not there are empty. In a step that deletes no account the references stay right by
themselves (`NoneDeleted`); in a merge they do because of the constraints (`CanMigrate`), which
is where `account_addr_key` is needed: the wallet account may have got another address since the merge
read it, and a new account the old one. `NoLoginStolen` is proved kind by kind of credential from
`TablesOK` and the constraint of that kind after the step.

*Identity.* `SerialImplementsIdentity` assumes one request (`Requests = {one}`). The refinement
mapping computes `login` from three columns with a CHOOSE; `TablesOK` makes what it chooses unique
(`LoginIs`), and from there on a proof need only say which account has which credential before
and after a statement (`Reads`). `Linking` covers the six statements that give an account a
credential in one argument, `Disconnected` and `Merging` the others. A merge needs one
strengthening more, `SerialOK`: when it commits, the wallet account still has the address it was
found by and still neither e-mail nor Google user, and the session's account is still there. This
is what overlapping requests break, and why `merge_race` finds a login lost;
`SerialMergeKeepsLogins` is the other side of it.

`ImplementsLateIdentity` makes no such assumption. Every statement but a merge is a step of `Identity` under
any overlap (`IdentityStep` needs only `IInv`): a unique constraint stands behind each check that may be stale. A
merge whose accounts have changed (`MergingLate`) is a step `MergeLate` or `CloseLate`: the account kept has
the credentials of one of the two and at most one wallet, which by then belonged to one of the two or nobody; what else
they had opens nothing; all rows are moved; nobody else's credentials change. The
refinement was checked by TLC on the constants of `accounts` before it was proved, but is in no
run, because that takes it more than five minutes.

*PgPool.* Four layers, each inductive given the ones before. `TypeInv` adds to `TypeOK`
that the queue holds exactly the waiting requests, each once, and that a request reaches only
the steps of its kind. `OwnedInv` is `ConnectionsOwned` in a form that names the
holder: two fields of requests never hold the same connection, a held one is busy, a busy
one is held, and a queue means that all are busy. Handing a connection to the head of the queue
is the step that needs all of it. `CommitInv` is `TxInv`, what the transaction of a merge or GraphQL request
contains at each of its steps, where what was left behind can still be, and that any other connection has no
open one, and `DoneInv`, what is committed for each request at each of
its steps. `LateInv` says whose entries may be among the writes of another: those of deletions that have failed. `NoForeignTransaction`, `OkIsDurable`,
`MergeAtomic` and `NonceSaved` follow. They hold for any numbers of connections,
requests, statements and files, although connections are released in aborted transactions (an
aborted one has nothing that can still be committed) and with statements still running: these
enter a transaction after its `begin` only, are over before its second statement, and write nothing but themselves.
The order in which node-pg sends statements matters: without the guard of `Sent` one of them could abort a
transaction just before its `COMMIT`, which then rolls back in silence and is answered with success.

`PoolImplementsOutcomes` maps `PgPool` to what clients see, `done` and `answer`: by `CommitInv` the
`COMMIT` of a merge or GraphQL request is the one step in which its writes appear, with all parts or the nonce alone; the
other requests commit write by write, as `Outcomes` says; an answer
is given when what it promises is there; and by `LateInv` nothing comes after an answer but the files of failed deletions.
This is also why `WalletAuth` may take the
transaction of a merge as one step. `NobodyWaitsForever` assumes finite sets with `|Mailers| < |Conns|`, as
many as `pool_deadlock` needs to be violated: by `OwnedInv` every
connection has a holder while somebody waits; if all holders waited for a second
connection they would be different `Mailers`, an injection of `Conns` into them. A holder that does not wait can always go on,
since each of its statements succeeds or fails, so `NeverStuck` is the safety half of `EveryRequestEnds`.
`ServedInOrder` follows step by step from the type invariant and `OwnedInv`: no connection is idle while a request waits.

*Files.* `UploadKept` is not inductive: between `Put` and `Insert` the object may be
replaced. `NoJob` says that an upload that is not exposed has no unfinished job of its key, so
no job disturbs it; `Pending`, that a replacement which was answered with success meanwhile left a
row, so the upload itself will fail; `StoredOK` leads from an object or a row back to the upload
it comes from. `RowHasObject` follows from these and `UploadKept`. `DeletionComplete` needs
only that a job past its first step has deleted the object (`Deleted`), which a retry keeps.
`JobsAdvance` is the safety half of `DeletionEnds`: attempts, and the place in an attempt, form a
measure that every change of a job increases, so that with the bound on attempts (`TypeOK`) its changes are bounded.

*Posts.* The invariant relates what a request remembers to what was the case during it:
whoever passed a check of the admin is in `wasAdmin` (`AdminOK`), the rows a read has
selected are in `seen` (`SeenOK`), and each file of a post being deleted is to be checked,
to be queued, or queued (`QueuedOK`); `FilesQueuedFirst` follows for the key each name has in the project's
folder, which is not always the one the file is stored under (`post_files`). Each step is first classified by what the invariant
can tell of it (`Begins`, `Goes`, `Shows`, `Ends`, `Around`: `StepCases`), and the five
parts are proved from the classes.

Only model-checked: `RoleFollowsAccount`, `EveryRequestEnds` and `DeletionEnds`, because liveness
under fairness is out of the prover's reach. What can be said of them without fairness is proved:
`RolesLost`, `NeverStuck` and `JobsAdvance`. The theorems with an assumption on the number of requests
(`Requests = {one}`, one verifier or creator, fewer mailers than connections) say so in their
statement; without it their properties are false, as the violated runs and the bounds show.

## 5. Not modelled, and what is left

Not modelled at all, with the reason, in PROJECT.json: IRI generation, CSRF and JWT
configuration, image optimizer, forwards to outside services, Stripe (not mounted), the
order of migrations, and the metadata graph. Assumed rather than modelled: that ADR-036
verification and Google's answer are right, that passport and cookie-session behave as their
sources say, and that CSRF protection works.

Left out of the modelled parts: a connection PostgreSQL closes while it is in
use (pg-pool drops it), and a `COMMIT` that fails; the time after which graphile-worker takes over the jobs of a crashed worker; the e-mail
job, whose retries send the same message again; paging, years
and counts of the list of posts; the deletion of a project; the form of a file's URL.

Left for later, in this order:

1. `Login`: `Passcode` and `Session` composed with `Accounts`, so that sessions and tables
   are one state.
2. `MetadataGraph`, and row level security of account and project updates.
