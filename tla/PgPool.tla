-------------------------------- MODULE PgPool --------------------------------
(***************************************************************************)
(* The connection pool every request handler shares (common/pool.ts) and   *)
(* what the handlers do with a connection: run statements on it one after  *)
(* another, or wrap some in a transaction, keep it while they wait for     *)
(* another one, give it back, and give it back too early. PostgreSQL keeps *)
(* the transaction with the connection, so what one request leaves open or *)
(* running is what the next one starts with.                               *)
(* pg-pool: connect takes an idle connection, opens one below the maximum, *)
(* or waits, first in first out and for ever; release hands the connection *)
(* to the first that waits, and an idle connection is closed after a while.*)
(***************************************************************************)
EXTENDS Sequences, FiniteSets

CONSTANTS
  Conns,       \* connections the pool may open, without those that only listen (worker, watchPg)
  Plain,       \* requests and jobs that run statements on one connection
  Mailers,     \* POST /auth/passcode: adds a job while it holds its connection
  Googles,     \* of these two, callbacks of Google if the profile has no e-mails
  Mergers,     \* POST /wallet-auth/merge-accounts: a transaction with a savepoint
  Graphql,     \* POST /marketplace/v1/graphql: PostGraphile's own transaction
  Deleters,    \* DELETE /posts: the files of a post beside each other, then the post
  Statements,  \* the writes of a request, each a statement of its own
  Files,       \* the files of a post that is deleted
  None         \* no connection

OneByOne == Plain \cup Mailers
Requests == OneByOne \cup Mergers \cup Graphql \cup Deleters

ASSUME ConstantsAssumption ==
  /\ None \notin Conns
  /\ Statements # {}
  /\ Plain \cap Mailers = {} /\ Googles \subseteq OneByOne
  /\ OneByOne \cap (Mergers \cup Graphql \cup Deleters) = {}
  /\ Mergers \cap (Graphql \cup Deleters) = {} /\ Graphql \cap Deleters = {}

VARIABLES
  conn,    \* the connections, with the transaction PostgreSQL keeps for each
  queue,   \* requests that wait for a connection
  req,     \* the requests
  over,    \* their statements that are over
  answer,  \* what their clients were answered
  left,    \* statements a request left behind on the connection it gave back
  passed,  \* connections on which a statement went ahead of those left behind
  done,    \* what is committed
  past     \* history: merges that got past their savepoint

strays == <<left, passed>>
vars == <<conn, queue, req, over, answer, left, passed, done, past>>

-----------------------------------------------------------------------------
\* What requests write: their statements, a job, the entry of a file in
\* s3_deletion, the row of a post; and the parts of a merge: the new nonce, the
\* rows that reference the accounts, and the accounts.
MergeParts == {"nonce", "rows", "accounts"}
Write == Requests \X (Statements \cup Files \cup MergeParts \cup {"job", "post"})

\* The uncommitted writes of an open transaction, and those ROLLBACK TO keeps.
Connection == [state : {"closed", "idle", "busy"}, tx : {"none", "open", "aborted"},
               work : SUBSET Write, savepoint : BOOLEAN, saved : SUBSET Write]
Closed == [state |-> "closed", tx |-> "none", work |-> {}, savepoint |-> FALSE, saved |-> {}]

InMerge == {"check", "nonce", "savepoint", "rows", "accounts", "commit", "undo", "keep"}
InGraphql == {"graphql", "commit", "keep"}
Request == [pc : {"new", "waiting", "run", "addJob", "waitingJob", "job", "beside", "delete",
                  "ok", "failed", "silent", "ended"} \cup InMerge \cup InGraphql,
            client : Conns \cup {None}, job : Conns \cup {None}]

Init ==
  /\ conn = [c \in Conns |-> Closed]
  /\ queue = <<>>
  /\ req = [r \in Requests |-> [pc |-> "new", client |-> None, job |-> None]]
  /\ over = [r \in Requests |-> {}]
  /\ answer = [r \in Requests |-> "none"]
  /\ left = [c \in Conns |-> {}]
  /\ passed = {}
  /\ done = {}
  /\ past = {}

-----------------------------------------------------------------------------
(* pg-pool *)

Goto(r, pc) == req' = [req EXCEPT ![r].pc = pc]

\* connect resolves for a request: its first connection, or the job's.
Granted(q, c) ==
  IF q.pc \in {"new", "waiting"} THEN [q EXCEPT !.pc = "run", !.client = c]
                                 ELSE [q EXCEPT !.pc = "job", !.job = c]

Connecting(r) == req[r].pc \in {"new", "addJob"}
NoneIdle == \A c \in Conns : conn[c].state # "idle"

TakeIdle(r, c) ==
  /\ Connecting(r)
  /\ conn[c].state = "idle"
  /\ conn' = [conn EXCEPT ![c].state = "busy"]
  /\ req' = [req EXCEPT ![r] = Granted(@, c)]
  /\ UNCHANGED <<queue, over, answer, strays, done, past>>

OpenNew(r, c) ==
  /\ Connecting(r)
  /\ NoneIdle /\ conn[c].state = "closed"
  /\ conn' = [conn EXCEPT ![c].state = "busy"]
  /\ req' = [req EXCEPT ![r] = Granted(@, c)]
  /\ UNCHANGED <<queue, over, answer, strays, done, past>>

\* PostgreSQL refuses the connection.
OpenFails(r) ==
  /\ Connecting(r)
  /\ NoneIdle /\ \E c \in Conns : conn[c].state = "closed"
  /\ Goto(r, "failed")
  /\ UNCHANGED <<conn, queue, over, answer, strays, done, past>>

Wait(r) ==
  /\ Connecting(r)
  /\ \A c \in Conns : conn[c].state = "busy"
  /\ queue' = Append(queue, r)
  /\ Goto(r, IF req[r].pc = "new" THEN "waiting" ELSE "waitingJob")
  /\ UNCHANGED <<conn, over, answer, strays, done, past>>

\* Mutant: the connection becomes idle whoever waits for it.
ReleaseUnnoticed(c, requests) ==
  /\ conn' = [conn EXCEPT ![c].state = "idle"]
  /\ req' = requests
  /\ UNCHANGED queue

\* client.release(), by one of the requests, whatever the transaction's state.
Release(c, requests) ==
  IF queue = <<>>
  THEN /\ conn' = [conn EXCEPT ![c].state = "idle"]
       /\ req' = requests
       /\ UNCHANGED queue
  ELSE /\ req' = [requests EXCEPT ![Head(queue)] = Granted(@, c)]
       /\ queue' = Tail(queue)
       /\ UNCHANGED conn

IdleTimeout(c) ==
  /\ conn[c].state = "idle"
  /\ conn' = [conn EXCEPT ![c] = Closed]
  /\ left' = [left EXCEPT ![c] = {}]
  /\ passed' = passed \ {c}
  /\ UNCHANGED <<queue, req, over, answer, done, past>>

-----------------------------------------------------------------------------
(* PostgreSQL: a statement on a connection *)

\* Outside a transaction a statement commits itself; in an aborted one it fails.
Takes(c, writes) ==
  /\ conn[c].tx # "aborted"
  /\ conn' = IF conn[c].tx = "open" THEN [conn EXCEPT ![c].work = @ \cup writes] ELSE conn
  /\ done' = IF conn[c].tx = "open" THEN done ELSE done \cup writes

Breaks(c) ==
  /\ conn' = [conn EXCEPT ![c].tx = IF @ = "open" THEN "aborted" ELSE @]
  /\ UNCHANGED done

\* A connection runs the statements in the order they were sent: what was left
\* behind is sent no later than the answer to the holder's first statement, so
\* that one alone may go ahead of it.
Sent(c) ==
  /\ left[c] = {} \/ c \notin passed
  /\ passed' = IF left[c] = {} THEN passed ELSE passed \cup {c}

Succeeds(c, writes) == Sent(c) /\ Takes(c, writes)
Fails(c) == Sent(c) /\ Breaks(c)

\* What was left behind runs on, or fails, or its account is no longer the admin,
\* whoever has the connection by then.
LeftRuns(c, w) ==
  /\ w \in left[c]
  /\ Takes(c, {w}) \/ Breaks(c) \/ UNCHANGED <<conn, done>>
  /\ left' = [left EXCEPT ![c] = @ \ {w}]
  /\ passed' = IF left'[c] = {} THEN passed \ {c} ELSE passed
  /\ UNCHANGED <<queue, req, over, answer, past>>

-----------------------------------------------------------------------------
(* Every handler *)

\* The statements of most requests commit one by one: the later ones may fail
\* when the earlier ones are committed.
Statement(r, s) ==
  /\ req[r].pc = "run" /\ r \in OneByOne
  /\ s \notin over[r]
  /\ Succeeds(req[r].client, {<<r, s>>})
  /\ over' = [over EXCEPT ![r] = @ \cup {s}]
  /\ Goto(r, IF ~(Statements \subseteq over'[r]) THEN "run" ELSE IF r \in Mailers THEN "addJob" ELSE "ok")
  /\ UNCHANGED <<queue, answer, left, past>>

\* addJob's statement, on its own connection; and the one that deletes a post.
LastStatement(r) ==
  /\ \/ req[r].pc = "job" /\ Succeeds(req[r].job, {<<r, "job">>})
     \/ req[r].pc = "delete" /\ Succeeds(req[r].client, {<<r, "post">>})
  /\ Goto(r, "ok")
  /\ UNCHANGED <<queue, over, answer, left, past>>

\* Also PostGraphile's begin: it goes on to no commit.
StatementFails(r) ==
  /\ \/ req[r].pc \in {"run", "delete"} /\ r \notin Mergers /\ Fails(req[r].client)
     \/ req[r].pc = "job" /\ Fails(req[r].job)
  /\ Goto(r, "failed")
  /\ UNCHANGED <<queue, over, answer, left, past>>

\* googleStrategy: without emails in the profile, no statement and no callback.
NoEmails(r) ==
  /\ req[r].pc = "run" /\ r \in Googles
  /\ over[r] = {}
  /\ Goto(r, "silent")
  /\ UNCHANGED <<conn, queue, over, answer, strays, done, past>>

\* DELETE /posts: the post and its admin, then Promise.all over the files. The
\* first that fails fails the request, and the others are left behind.
FindPost(r) ==
  /\ req[r].pc = "run" /\ r \in Deleters
  /\ Succeeds(req[r].client, {})
  /\ Goto(r, IF Files = {} THEN "delete" ELSE "beside")
  /\ UNCHANGED <<queue, over, answer, left, past>>

DeleteFile(r, f) ==
  /\ req[r].pc = "beside" /\ f \notin over[r]
  /\ Succeeds(req[r].client, {<<r, f>>})
  /\ over' = [over EXCEPT ![r] = @ \cup {f}]
  /\ Goto(r, IF Files \subseteq over'[r] THEN "delete" ELSE "beside")
  /\ UNCHANGED <<queue, answer, left, past>>

DeleteFileFails(r, f) ==
  LET c == req[r].client
  IN /\ req[r].pc = "beside" /\ f \notin over[r]
     /\ left[c] = {}
     /\ Breaks(c)
     /\ over' = [over EXCEPT ![r] = @ \cup {f}]
     /\ left' = [left EXCEPT ![c] = {r} \X (Files \ over'[r])]
     /\ passed' = passed \ {c}
     /\ Goto(r, "failed")
     /\ UNCHANGED <<queue, answer, past>>

\* addJob gives its connection back before POST /passcode goes on.
ReleaseJob(r) ==
  /\ req[r].pc \in {"ok", "failed"} /\ req[r].job # None
  /\ Release(req[r].job, [req EXCEPT ![r].job = None])
  /\ UNCHANGED <<over, answer, strays, done, past>>

\* Mutant: no finally, only the answers that go well release.
AnswerOnly(r) ==
  /\ req[r].pc \in {"ok", "failed", "silent"} /\ req[r].job = None
  /\ answer' = [answer EXCEPT ![r] = IF req[r].pc = "silent" THEN "none" ELSE req[r].pc]
  /\ LET ended == [req EXCEPT ![r].pc = "ended", ![r].client = None]
     IN IF req[r].client = None \/ req[r].pc = "failed"
        THEN req' = ended /\ UNCHANGED <<conn, queue>>
        ELSE Release(req[r].client, ended)
  /\ UNCHANGED <<over, strays, done, past>>

\* Mutant: runner.addJob without await.
AnswerUnawaited(r) ==
  /\ req[r].pc \in {"ok", "failed", "silent"}
  /\ answer' = [answer EXCEPT ![r] = IF req[r].pc = "silent" THEN "none" ELSE req[r].pc]
  /\ LET ended == [req EXCEPT ![r].pc = "ended", ![r].client = None]
     IN IF req[r].client = None
        THEN req' = ended /\ UNCHANGED <<conn, queue>>
        ELSE Release(req[r].client, ended)
  /\ UNCHANGED <<over, strays, done, past>>

\* The answer, or next(err), and the finally that releases.
Answer(r) ==
  /\ req[r].pc \in {"ok", "failed", "silent"} /\ req[r].job = None
  /\ answer' = [answer EXCEPT ![r] = IF req[r].pc = "silent" THEN "none" ELSE req[r].pc]
  /\ LET ended == [req EXCEPT ![r].pc = "ended", ![r].client = None]
     IN IF req[r].client = None
        THEN req' = ended /\ UNCHANGED <<conn, queue>>
        ELSE Release(req[r].client, ended)
  /\ UNCHANGED <<over, strays, done, past>>

-----------------------------------------------------------------------------
(* Transactions: POST /merge-accounts with its catch, and PostGraphile's *)

Begin(r) ==
  /\ req[r].pc = "run" /\ r \in Mergers \cup Graphql
  /\ Sent(req[r].client)
  /\ conn[req[r].client].tx # "aborted"
  /\ conn' = [conn EXCEPT ![req[r].client].tx = "open"]
  /\ Goto(r, IF r \in Mergers THEN "check" ELSE "graphql")
  /\ UNCHANGED <<queue, over, answer, left, done, past>>

\* The selects; the new nonce; and after the savepoint the rows and the accounts.
Check(r) ==
  /\ req[r].pc = "check"
  /\ Succeeds(req[r].client, {})
  /\ Goto(r, "nonce")
  /\ UNCHANGED <<queue, over, answer, left, past>>

WriteNonce(r) ==
  /\ req[r].pc = "nonce"
  /\ Succeeds(req[r].client, {<<r, "nonce">>})
  /\ Goto(r, "savepoint")
  /\ UNCHANGED <<queue, over, answer, left, past>>

Savepoint(r) ==
  LET c == req[r].client
  IN /\ req[r].pc = "savepoint"
     /\ Sent(c)
     /\ conn[c].tx = "open"
     /\ conn' = [conn EXCEPT ![c].savepoint = TRUE, ![c].saved = conn[c].work]
     /\ past' = past \cup {r}
     /\ Goto(r, "rows")
     /\ UNCHANGED <<queue, over, answer, left, done>>

\* Mutant: pgPool.query in place of client.query.
MigrateOnPool(r) ==
  /\ \/ req[r].pc = "rows" /\ done' = done \cup {<<r, "rows">>} /\ Goto(r, "accounts")
     \/ req[r].pc = "accounts" /\ done' = done \cup {<<r, "accounts">>} /\ Goto(r, "commit")
  /\ UNCHANGED <<conn, queue, over, answer, strays, past>>

Migrate(r) ==
  /\ \/ req[r].pc = "rows" /\ Succeeds(req[r].client, {<<r, "rows">>}) /\ Goto(r, "accounts")
     \/ req[r].pc = "accounts" /\ Succeeds(req[r].client, {<<r, "accounts">>}) /\ Goto(r, "commit")
  /\ UNCHANGED <<queue, over, answer, left, past>>

\* No account, a web2 account, no signature: after the selects, before the nonce is
\* replaced. A bad signature: after the savepoint, before anything is migrated.
Refuse(r) ==
  /\ req[r].pc \in {"check", "rows"}
  /\ Succeeds(req[r].client, {})
  /\ Goto(r, "undo")
  /\ UNCHANGED <<queue, over, answer, left, past>>

MergeStatementFails(r) ==
  /\ \/ req[r].pc \in {"check", "nonce", "savepoint", "rows", "accounts"}
     \/ req[r].pc = "run" /\ r \in Mergers
  /\ Fails(req[r].client)
  /\ Goto(r, "undo")
  /\ UNCHANGED <<queue, over, answer, left, past>>

\* COMMIT of an aborted transaction rolls it back, without an error.
Commit(r) ==
  LET c == req[r].client
  IN /\ req[r].pc \in {"commit", "keep"}
     /\ Sent(c)
     /\ conn' = [conn EXCEPT ![c] = [Closed EXCEPT !.state = "busy"]]
     /\ done' = IF conn[c].tx = "open" THEN done \cup conn[c].work ELSE done
     /\ Goto(r, IF req[r].pc = "commit" THEN "ok" ELSE "failed")
     /\ UNCHANGED <<queue, over, answer, left, past>>

\* Mutants: the error thrown on with the transaction still open; and a rollback
\* of all of it.
RollbackToAndThrow(r) ==
  LET c == req[r].client
  IN /\ req[r].pc = "undo"
     /\ Sent(c)
     /\ conn[c].savepoint
     /\ conn' = [conn EXCEPT ![c].tx = "open", ![c].work = conn[c].saved]
     /\ Goto(r, "failed")
     /\ UNCHANGED <<queue, over, answer, left, done, past>>
RollbackAll(r) ==
  LET c == req[r].client
  IN /\ req[r].pc = "undo"
     /\ Sent(c)
     /\ conn' = [conn EXCEPT ![c] = [Closed EXCEPT !.state = "busy"]]
     /\ Goto(r, "failed")
     /\ UNCHANGED <<queue, over, answer, left, done, past>>

\* ROLLBACK TO update_account_nonce ends what aborted the transaction and keeps
\* the nonce for the COMMIT that follows.
RollbackTo(r) ==
  LET c == req[r].client
  IN /\ req[r].pc = "undo"
     /\ Sent(c)
     /\ conn[c].savepoint
     /\ conn' = [conn EXCEPT ![c].tx = "open", ![c].work = conn[c].saved]
     /\ Goto(r, "keep")
     /\ UNCHANGED <<queue, over, answer, left, done, past>>

\* Mutant: an error before the savepoint leaves the transaction alone.
RollbackToSkipped(r) ==
  /\ req[r].pc = "undo"
  /\ ~conn[req[r].client].savepoint
  /\ Goto(r, "failed")
  /\ UNCHANGED <<conn, queue, over, answer, strays, done, past>>

\* Without that savepoint it is an error of its own: the transaction is aborted,
\* the COMMIT is not reached, and this error is the one thrown.
RollbackToFails(r) ==
  /\ req[r].pc = "undo"
  /\ ~conn[req[r].client].savepoint
  /\ Fails(req[r].client)
  /\ Goto(r, "failed")
  /\ UNCHANGED <<queue, over, answer, left, past>>

\* PostGraphile between begin and commit: all the statements of the request, or an
\* error that aborts the transaction, or one that is rolled back to the savepoint
\* of a mutation. It commits in any case.
Resolve(r) ==
  /\ req[r].pc = "graphql"
  /\ Succeeds(req[r].client, {r} \X Statements)
  /\ Goto(r, "commit")
  /\ UNCHANGED <<queue, over, answer, left, past>>

ResolveFails(r) ==
  LET c == req[r].client
  IN /\ req[r].pc = "graphql"
     /\ Sent(c)
     /\ \E tx \in {"aborted", conn[c].tx} : conn' = [conn EXCEPT ![c].tx = tx]
     /\ Goto(r, "keep")
     /\ UNCHANGED <<queue, over, answer, left, done, past>>

-----------------------------------------------------------------------------
Connect(r) == OpenFails(r) \/ Wait(r) \/ (\E c \in Conns : TakeIdle(r, c) \/ OpenNew(r, c))

Leftover(c) == \E w \in left[c] : LeftRuns(c, w)

Step(r) ==
  \/ (\E s \in Statements : Statement(r, s)) \/ LastStatement(r) \/ StatementFails(r)
  \/ NoEmails(r) \/ ReleaseJob(r) \/ Answer(r)
  \/ FindPost(r) \/ (\E f \in Files : DeleteFile(r, f) \/ DeleteFileFails(r, f))
  \/ Resolve(r) \/ ResolveFails(r)
  \/ Begin(r) \/ Check(r) \/ WriteNonce(r) \/ Savepoint(r) \/ Migrate(r) \/ Commit(r)
  \/ Refuse(r) \/ MergeStatementFails(r) \/ RollbackTo(r) \/ RollbackToFails(r)

AllEnded == (\A r \in Requests : req[r].pc = "ended") /\ UNCHANGED vars

Next ==
  \/ \E r \in Requests : Connect(r) \/ Step(r)
  \/ \E c \in Conns : IdleTimeout(c) \/ Leftover(c)
  \/ AllEnded

\* A statement is answered, and so is the connection a job asks for.
Fairness ==
  /\ \A r \in Requests : WF_vars(Step(r) \/ (req[r].pc = "addJob" /\ Connect(r)))
  /\ \A c \in Conns : WF_vars(Leftover(c))

Spec == Init /\ [][Next]_vars
FairSpec == Spec /\ Fairness

-----------------------------------------------------------------------------
TypeOK ==
  /\ conn \in [Conns -> Connection]
  /\ queue \in Seq(Requests)
  /\ req \in [Requests -> Request]
  /\ over \in [Requests -> SUBSET (Statements \cup Files)]
  /\ answer \in [Requests -> {"none", "ok", "failed"}]
  /\ left \in [Conns -> SUBSET (Deleters \X Files)]
  /\ passed \subseteq Conns
  /\ done \subseteq Write
  /\ past \subseteq Mergers
  /\ \A r \in Requests : \* a connection is held from its checkout to the answer
       /\ req[r].pc \notin {"new", "waiting", "ended", "failed"} => req[r].client # None
       /\ req[r].job # None => r \in Mailers /\ req[r].pc \in {"job", "ok", "failed"}

Holders(c) == {r \in Requests : c \in {req[r].client, req[r].job}}

\* The pool neither loses a connection nor lends it twice: a busy one has exactly
\* one holder, the others none, and a request waits only while all are busy.
ConnectionsOwned ==
  /\ \A c \in Conns : IF conn[c].state = "busy" THEN \E r \in Requests : Holders(c) = {r}
                                                ELSE Holders(c) = {}
  /\ queue # <<>> => \A c \in Conns : conn[c].state = "busy"

\* "We wrap merging accounts data into a database transaction to avoid having
\* accounts partially merged" (wallet-auth.ts). The handlers share connections: an
\* open transaction belongs to the merge, or the GraphQL request, that runs on it,
\* and nobody else writes in it, except that a failed DELETE /posts may have left
\* the entries of its other files to it.
Late == {r \in Deleters : answer[r] = "failed"} \X Files
NoForeignTransaction ==
  \A c \in Conns :
    conn[c].tx = "open" =>
      \E r \in Mergers \cup Graphql :
        /\ req[r].client = c /\ req[r].pc \in InMerge \cup InGraphql
        /\ conn[c].work \subseteq {r} \X (MergeParts \cup Statements) \cup Late

\* What a request writes that goes well.
Parts(r) ==
  CASE r \in Mergers  -> MergeParts
    [] r \in Mailers  -> Statements \cup {"job"}
    [] r \in Deleters -> Files \cup {"post"}
    [] OTHER          -> Statements

\* A request that was answered with success has its writes committed, whatever
\* the requests before it left on its connection: an aborted transaction, or
\* statements that fail in its own.
OkIsDurable == \A r \in Requests : answer[r] = "ok" => {r} \X Parts(r) \subseteq done

\* What a merge commits is nothing, its nonce, or all of it.
MergeAtomic ==
  \A r \in Mergers :
    {part \in MergeParts : <<r, part>> \in done} \in {{}, {"nonce"}, MergeParts}

\* "The new nonce will need to be saved even if an error happens later"
\* (wallet-auth.ts): it is, for every merge that got past its savepoint.
NonceSaved ==
  \A r \in past : req[r].pc \in {"ok", "failed", "ended"} => <<r, "nonce">> \in done

\* With fewer POST /passcode than connections: as long as a request waits, some
\* other one has a connection and needs none, so it goes on and gives it back.
NeverStuck ==
  queue # <<>> =>
    \E r \in Requests : /\ {req[r].client, req[r].job} # {None}
                        /\ req[r].pc \notin {"addJob", "waitingJob"}

\* Nobody is overtaken: while requests wait, no connection goes to
\* any but the first of them, not even one that has just been given back.
ServedInOrder ==
  [][\A r \in Requests :
       queue # <<>> /\ ~({req'[r].client, req'[r].job} \subseteq {None, req[r].client, req[r].job}) =>
         r = Head(queue)]_vars

\* Seen from outside, what a merge and a GraphQL request write is committed at once,
\* what the others write one statement after another, and all of it before the
\* answer; but the files a failed DELETE /posts left behind may be queued later.
Out == INSTANCE Outcomes
ImplementsOutcomes == Out!Spec

\* With fewer POST /passcode than connections, whoever gets into the pool is
\* answered or, a Google callback without e-mails, at least gives it back.
\* (No request comes back, so whenever nobody is in between, all that came ended.)
EveryRequestEnds == []<>(\A r \in Requests : req[r].pc \in {"new", "ended"})

\* "HTTP/1.1 200 OK ... Email sent with passcode" (docs/login-system.md): that
\* request is answered.
PasscodeAnswered == \A r \in Mailers : req[r].pc # "new" ~> answer[r] # "none"
=============================================================================
