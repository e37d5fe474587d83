------------------------------ MODULE Passcode ------------------------------
(***************************************************************************)
(* E-mail login with a one-time passcode: createPasscode and               *)
(* verifyPasscode of server/middleware/passcodeStrategy.ts, over the tables *)
(* private.passcode and private.account; and POST /merge-accounts          *)
(* (server/routes/wallet-auth.ts) as far as it deletes an account, or gives *)
(* it another e-mail, under a verifyPasscode that is running.              *)
(*                                                                         *)
(* The passcode handlers open no transaction, so each of their SQL         *)
(* statements commits by itself: one action per statement, and requests    *)
(* interleave between them. A merge is its checks, then its transaction.   *)
(* What runs in JavaScript after a statement and before the next await     *)
(* belongs to the action of that statement.                                *)
(***************************************************************************)
EXTENDS Integers, FiniteSets

CONSTANTS
  Emails,          \* e-mail addresses
  Codes,           \* values of private.random_passcode()
  PasscodeIds,     \* ids private.passcode may draw (the bound on createPasscode calls)
  AccountIds,      \* account ids
  WalletAccounts,  \* accounts that exist at the start, without an e-mail
  Creators,        \* requests that run createPasscode at the same time
  Verifiers,       \* requests that run verifyPasscode at the same time
  Mergers,         \* requests that run mergeAccounts at the same time
  MaxTryCount,     \* PASSCODE_MAX_TRY_COUNT
  MaxFailures,     \* bound on requests lost between two statements
  None,            \* an absent request field
  NoEmail,         \* private.account row whose email is null
  NoRow            \* no private.account row

ASSUME ConstantsAssumption ==
  /\ MaxTryCount \in Nat \ {0}
  /\ MaxFailures \in Nat
  /\ IsFiniteSet(Creators) /\ IsFiniteSet(Verifiers) /\ IsFiniteSet(PasscodeIds)
  /\ WalletAccounts \subseteq AccountIds
  /\ NoEmail \notin Emails /\ NoRow \notin Emails /\ NoEmail # NoRow
  /\ None \notin Emails /\ None \notin AccountIds /\ None \notin PasscodeIds

VARIABLES
  passcode,  \* private.passcode, one row per id
  inserted,  \* ids drawn so far: uuids are never drawn twice
  email,     \* private.account.email
  role,      \* accounts that have a database role
  merged,    \* ids of accounts a merge deleted: sessions may still name them
  creq,      \* createPasscode requests
  vreq,      \* verifyPasscode requests
  mreq,      \* merge-accounts requests
  used,      \* history: how often each passcode was accepted
  failures   \* requests lost so far

vars == <<passcode, inserted, email, role, merged, creq, vreq, mreq, used, failures>>
tables == <<passcode, inserted, email, role, merged>>

-----------------------------------------------------------------------------
Deleted == [exists |-> FALSE, email |-> None, code |-> None, consumed |-> FALSE,
            expired |-> FALSE, max_try_count |-> 0]
IdleCreate == [pc |-> "idle", email |-> None]
IdleVerify ==
  [pc |-> "idle", email |-> None, cur |-> None, id |-> None, acc |-> None, before |-> {}]
IdleMerge == [pc |-> "idle", from |-> None, to |-> None, keep |-> FALSE]

\* The columns of private.passcode; created_at is abstracted to whether
\* PASSCODE_EXPIRES_IN has passed.
PasscodeRow ==
  [exists : BOOLEAN, email : Emails \cup {None}, code : Codes \cup {None},
   consumed : BOOLEAN, expired : BOOLEAN, max_try_count : Nat]
CreateRequest == [pc : {"idle", "delete", "insert"}, email : Emails \cup {None}]
VerifyPcs == {"idle", "mismatch", "consume", "current", "setEmail", "find", "create", "role"}
\* acc: the account created or, once idle, answered with success; before
\* (history): the accounts that were merged away when the request began.
VerifyRequest ==
  [pc : VerifyPcs,
   email : Emails \cup {None}, cur : AccountIds \cup {None},
   id : PasscodeIds \cup {None}, acc : AccountIds \cup {None}, before : SUBSET AccountIds]
MergeRequest ==
  [pc : {"idle", "merge"}, from : AccountIds \cup {None}, to : AccountIds \cup {None},
   keep : BOOLEAN]

\* Mutant: the query forgets "consumed = false".
ConsumedOrNot(e) == {i \in PasscodeIds : passcode[i].exists /\ passcode[i].email = e}
Unconsumed(e) ==
  {i \in PasscodeIds : passcode[i].exists /\ passcode[i].email = e /\ ~passcode[i].consumed}
HasRow(a) == email[a] # NoRow
\* The account a session may name: logged in before the request, and possibly merged away since.
SessionIds == {a \in AccountIds : HasRow(a) \/ a \in merged} \cup {None}

Init ==
  /\ passcode = [i \in PasscodeIds |-> Deleted]
  /\ inserted = {}
  /\ email = [a \in AccountIds |-> IF a \in WalletAccounts THEN NoEmail ELSE NoRow]
  /\ role = WalletAccounts
  /\ merged = {}
  /\ creq = [c \in Creators |-> IdleCreate]
  /\ vreq = [v \in Verifiers |-> IdleVerify]
  /\ mreq = [m \in Mergers |-> IdleMerge]
  /\ used = [i \in PasscodeIds |-> 0]
  /\ failures = 0

-----------------------------------------------------------------------------
(* createPasscode *)

\* A logged-in user asking for an e-mail another account has gets a Conflict.
StartCreate(c, e, cur) ==
  /\ creq[c].pc = "idle"
  /\ cur # None => \A a \in AccountIds : email[a] # e
  /\ Cardinality(inserted) + Cardinality({d \in Creators : creq[d].pc # "idle"})
       < Cardinality(PasscodeIds)
  /\ creq' = [creq EXCEPT ![c] = [pc |-> "delete", email |-> e]]
  /\ UNCHANGED <<tables, vreq, mreq, used, failures>>

\* Mutant: the delete has the condition on consumed the wrong way round.
DeleteConsumed(c) ==
  /\ creq[c].pc = "delete"
  /\ passcode' = [i \in PasscodeIds |->
                    IF passcode[i].email = creq[c].email /\ passcode[i].consumed
                    THEN Deleted ELSE passcode[i]]
  /\ creq' = [creq EXCEPT ![c].pc = "insert"]
  /\ UNCHANGED <<inserted, email, role, merged, vreq, mreq, used, failures>>

DeleteUnconsumed(c) ==
  /\ creq[c].pc = "delete"
  /\ passcode' = [i \in PasscodeIds |->
                    IF i \in Unconsumed(creq[c].email) THEN Deleted ELSE passcode[i]]
  /\ creq' = [creq EXCEPT ![c].pc = "insert"]
  /\ UNCHANGED <<inserted, email, role, merged, vreq, mreq, used, failures>>

InsertPasscode(c) ==
  /\ creq[c].pc = "insert"
  /\ \E i \in PasscodeIds \ inserted, code \in Codes :
       /\ passcode' = [passcode EXCEPT ![i] =
            [exists |-> TRUE, email |-> creq[c].email, code |-> code, consumed |-> FALSE,
             expired |-> FALSE, max_try_count |-> 0]]
       /\ inserted' = inserted \cup {i}
  /\ creq' = [creq EXCEPT ![c] = IdleCreate]
  /\ UNCHANGED <<email, role, merged, vreq, mreq, used, failures>>

-----------------------------------------------------------------------------
(* verifyPasscode *)

\* The request goes on with its next statement, or is over: with an answer for
\* account a, or with an error.
Goto(v, pc) == vreq' = [vreq EXCEPT ![v].pc = pc]
Answer(v, a) == vreq' = [vreq EXCEPT ![v] = [IdleVerify EXCEPT !.acc = a]]
Error(v) == vreq' = [vreq EXCEPT ![v] = IdleVerify]

\* Mutant: no limit on the number of tries.
AcceptableUncounted(i) == ~passcode[i].expired
Acceptable(i) == ~passcode[i].expired /\ passcode[i].max_try_count < MaxTryCount

\* "select ... limit 1": any of the e-mail's unconsumed rows, and the comparison.
ReadPasscode(v, e, code, cur) ==
  /\ vreq[v].pc = "idle"
  /\ \E i \in Unconsumed(e) :
       /\ Acceptable(i)
       /\ vreq' = [vreq EXCEPT ![v] =
            [pc |-> IF passcode[i].code = code THEN "consume" ELSE "mismatch",
             email |-> e, cur |-> cur, id |-> i, acc |-> None, before |-> merged]]
  /\ UNCHANGED <<tables, creq, mreq, used, failures>>

\* passcode.not_found, passcode.expired or passcode.exceed_max_try.
RejectPasscode(v, e) ==
  /\ vreq[v].pc = "idle"
  /\ Unconsumed(e) = {} \/ \E i \in Unconsumed(e) : ~Acceptable(i)
  /\ UNCHANGED vars

\* passcode.code_mismatch; the update touches nothing when the row is gone.
CountMismatch(v) ==
  /\ vreq[v].pc = "mismatch"
  /\ passcode' = [passcode EXCEPT ![vreq[v].id].max_try_count =
                    IF passcode[vreq[v].id].exists THEN @ + 1 ELSE @]
  /\ Error(v)
  /\ UNCHANGED <<inserted, email, role, merged, creq, mreq, used, failures>>

Consume(v) ==
  /\ vreq[v].pc = "consume"
  /\ passcode' = [passcode EXCEPT ![vreq[v].id].consumed = passcode[vreq[v].id].exists]
  /\ used' = [used EXCEPT ![vreq[v].id] = @ + 1]
  /\ Goto(v, IF vreq[v].cur # None THEN "current" ELSE "find")
  /\ UNCHANGED <<inserted, email, role, merged, creq, mreq, failures>>

\* Mutant: an account that has another e-mail already is answered all the same.
ReadCurrentAnswersIt(v) ==
  /\ vreq[v].pc = "current"
  /\ IF email[vreq[v].cur] = NoEmail
     THEN Goto(v, "setEmail")
     ELSE Answer(v, vreq[v].cur)
  /\ UNCHANGED <<tables, creq, mreq, used, failures>>

\* Logged in: only an account without an e-mail goes on to the update.
ReadCurrent(v) ==
  /\ vreq[v].pc = "current"
  /\ IF email[vreq[v].cur] = NoEmail
     THEN Goto(v, "setEmail")
     ELSE Error(v)
  /\ UNCHANGED <<tables, creq, mreq, used, failures>>

\* "update private.account set email": account_email_key may refuse it, and it
\* touches nothing, but is answered all the same, once the account was merged away.
SetEmail(v) ==
  LET a == vreq[v].cur
      e == vreq[v].email
  IN /\ vreq[v].pc = "setEmail"
     /\ \/ /\ ~HasRow(a)
           /\ Answer(v, a)
           /\ UNCHANGED email
        \/ /\ HasRow(a)
           /\ \A b \in AccountIds \ {a} : email[b] # e
           /\ email' = [email EXCEPT ![a] = e]
           /\ Answer(v, a)
        \/ /\ HasRow(a)
           /\ \E b \in AccountIds \ {a} : email[b] = e
           /\ Error(v)
           /\ UNCHANGED email
     /\ UNCHANGED <<passcode, inserted, role, merged, creq, mreq, used, failures>>

FindByEmail(v) ==
  /\ vreq[v].pc = "find"
  /\ \/ \E a \in AccountIds : email[a] = vreq[v].email /\ Answer(v, a)
     \/ /\ \A a \in AccountIds : email[a] # vreq[v].email
        /\ Goto(v, "create")
  /\ UNCHANGED <<tables, creq, mreq, used, failures>>

\* private.create_new_web2_account: both inserts or, on a duplicate e-mail, none.
CreateAccount(v) ==
  LET e == vreq[v].email
  IN /\ vreq[v].pc = "create"
     /\ \/ /\ \A b \in AccountIds : email[b] # e
           /\ \E a \in AccountIds \ merged :
                /\ ~HasRow(a)
                /\ email' = [email EXCEPT ![a] = e]
                /\ vreq' = [vreq EXCEPT ![v].pc = "role", ![v].acc = a]
        \/ /\ \E b \in AccountIds : email[b] = e
           /\ Error(v)
           /\ UNCHANGED email
     /\ UNCHANGED <<passcode, inserted, role, merged, creq, mreq, used, failures>>

\* Mutants: the role of the session's account instead of the new one; no role.
CreateSessionUser(v) ==
  /\ vreq[v].pc = "role"
  /\ role' = role \cup {vreq[v].cur}
  /\ Answer(v, vreq[v].acc)
  /\ UNCHANGED <<passcode, inserted, email, merged, creq, mreq, used, failures>>
CreateNoUser(v) ==
  /\ vreq[v].pc = "role"
  /\ Answer(v, vreq[v].acc)
  /\ UNCHANGED <<tables, creq, mreq, used, failures>>

CreateAuthUser(v) ==
  /\ vreq[v].pc = "role"
  /\ role' = role \cup {vreq[v].acc}
  /\ Answer(v, vreq[v].acc)
  /\ UNCHANGED <<passcode, inserted, email, merged, creq, mreq, used, failures>>

-----------------------------------------------------------------------------
(* merge-accounts: the session account c and the account w of a wallet *)

\* Both are found; w must have no e-mail (checkPrivateAccount) at that moment.
MergeCheck(m, c, w, keep) ==
  /\ mreq[m].pc = "idle"
  /\ HasRow(c) /\ email[w] = NoEmail
  /\ mreq' = [mreq EXCEPT ![m] =
       [pc |-> "merge", from |-> IF keep THEN w ELSE c, to |-> IF keep THEN c ELSE w,
        keep |-> keep]]
  /\ UNCHANGED <<tables, creq, vreq, used, failures>>

\* The transaction of migrateAccountData deletes the account merged from and its
\* role ("drop role" fails without one), and its private.account row; unless the
\* session account is kept, that row first replaces the wallet account's.
MergeCommit(m) ==
  LET from == mreq[m].from
      to == mreq[m].to
  IN /\ mreq[m].pc = "merge"
     /\ from \in role
     /\ mreq[m].keep \/ HasRow(to)
     /\ email' = IF mreq[m].keep \/ from = to THEN [email EXCEPT ![from] = NoRow]
                 ELSE [email EXCEPT ![to] = email[from], ![from] = NoRow]
     /\ role' = role \ {from}
     /\ merged' = merged \cup {from}
     /\ mreq' = [mreq EXCEPT ![m] = IdleMerge]
     /\ UNCHANGED <<passcode, inserted, creq, vreq, used, failures>>

\* A bad signature or a failed statement.
MergeRollback(m) ==
  /\ mreq[m].pc = "merge"
  /\ mreq' = [mreq EXCEPT ![m] = IdleMerge]
  /\ UNCHANGED <<tables, creq, vreq, used, failures>>

-----------------------------------------------------------------------------
(* The clock, and what stops a request between two statements *)

\* PASSCODE_EXPIRES_IN passes.
Expire(i) ==
  /\ passcode[i].exists /\ ~passcode[i].expired
  /\ passcode' = [passcode EXCEPT ![i].expired = TRUE]
  /\ UNCHANGED <<inserted, email, role, merged, creq, vreq, mreq, used, failures>>

\* The database connection or the process is lost: committed statements stay.
FailVerify(v) ==
  /\ failures < MaxFailures
  /\ vreq[v].pc # "idle"
  /\ failures' = failures + 1
  /\ Error(v)
  /\ UNCHANGED <<tables, creq, mreq, used>>
FailCreate(c) ==
  /\ failures < MaxFailures
  /\ creq[c].pc # "idle"
  /\ failures' = failures + 1
  /\ creq' = [creq EXCEPT ![c] = IdleCreate]
  /\ UNCHANGED <<tables, vreq, mreq, used>>

-----------------------------------------------------------------------------
ContinueCreate(c) == DeleteUnconsumed(c) \/ InsertPasscode(c)
ContinueVerify(v) ==
  \/ CountMismatch(v) \/ Consume(v) \/ ReadCurrent(v) \/ SetEmail(v)
  \/ FindByEmail(v) \/ CreateAccount(v) \/ CreateAuthUser(v)
Merge(m) ==
  \/ \E c, w \in AccountIds, keep \in BOOLEAN : MergeCheck(m, c, w, keep)
  \/ MergeCommit(m) \/ MergeRollback(m)

Next ==
  \/ \E c \in Creators :
       \/ \E e \in Emails, cur \in SessionIds : StartCreate(c, e, cur)
       \/ ContinueCreate(c)
       \/ FailCreate(c)
  \/ \E v \in Verifiers :
       \/ \E e \in Emails, code \in Codes, cur \in SessionIds : ReadPasscode(v, e, code, cur)
       \/ \E e \in Emails : RejectPasscode(v, e)
       \/ ContinueVerify(v)
       \/ FailVerify(v)
  \/ \E m \in Mergers : Merge(m)
  \/ \E i \in PasscodeIds : Expire(i)

Spec == Init /\ [][Next]_vars

\* The event loop and the database finish every request they started.
Fairness ==
  /\ \A c \in Creators : WF_vars(ContinueCreate(c))
  /\ \A v \in Verifiers : WF_vars(ContinueVerify(v))
FairSpec == Spec /\ Fairness

-----------------------------------------------------------------------------
TypeOK ==
  /\ passcode \in [PasscodeIds -> PasscodeRow]
  /\ inserted \subseteq PasscodeIds
  /\ email \in [AccountIds -> Emails \cup {NoEmail, NoRow}]
  /\ role \subseteq AccountIds
  /\ merged \subseteq AccountIds
  /\ creq \in [Creators -> CreateRequest]
  /\ vreq \in [Verifiers -> VerifyRequest]
  /\ mreq \in [Mergers -> MergeRequest]
  /\ used \in [PasscodeIds -> Nat]
  /\ failures \in Nat

\* The requests at step pc with passcode i, and the creators about to insert for e.
At(pc, i) == {v \in Verifiers : vreq[v].pc = pc /\ vreq[v].id = i}
Inserting(e) == {c \in Creators : creq[c].pc = "insert" /\ creq[c].email = e}

\* The try count is read, compared and incremented in separate statements, so
\* wrong guesses that overlap slip past the limit: at most one for each request
\* that runs beside the last counted one, however they interleave.
TryBound ==
  \A i \in PasscodeIds :
    passcode[i].max_try_count + Cardinality(At("mismatch", i))
      <= MaxTryCount - 1 + Cardinality(Verifiers)

\* createPasscode deletes, then inserts, in two statements: an e-mail never has
\* more unconsumed passcodes than there are createPasscode requests at a time
\* (exactly the one of the unit test when requests do not overlap).
UnconsumedBound ==
  \A e \in Emails :
    Cardinality(Unconsumed(e)) + Cardinality(Inserting(e)) <= Cardinality(Creators)

\* A passcode logs in at most once for each request verifyPasscode runs at a
\* time, and after its first acceptance no new request can pick it up.
UseBound ==
  \A i \in PasscodeIds :
    /\ used[i] + Cardinality(At("consume", i)) <= Cardinality(Verifiers)
    /\ used[i] > 0 /\ passcode[i].exists => passcode[i].consumed

\* Whichever way a login ends (existing account, new account, e-mail added to
\* the current one), the account it answers holds the verified e-mail then, or
\* was merged away while this very request ran, between the select of its e-mail
\* and the update: the answer then names an account that is gone.
LoginMatchesEmail ==
  [][\A v \in Verifiers :
       LET a == vreq'[v].acc
       IN vreq[v].pc # "idle" /\ vreq'[v].pc = "idle" /\ a # None
            => \/ email'[a] = vreq[v].email
               \/ a \in merged \ vreq[v].before]_vars

\* The account is committed before its role is created, in another statement: a
\* request lost in between leaves one account without, and nothing else does.
Roleless ==
  {a \in AccountIds : /\ HasRow(a) /\ a \notin role
                      /\ \A v \in Verifiers : ~(vreq[v].pc = "role" /\ vreq[v].acc = a)}
RolesLost == Cardinality(Roleless) <= failures

\* No request is lost: an account that got a private.account row gets the role
\* every later request of its owner needs.
RoleFollowsAccount == \A a \in AccountIds : HasRow(a) ~> a \in role
=============================================================================
