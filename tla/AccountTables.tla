---------------------------- MODULE AccountTables ----------------------------
(***************************************************************************)
(* The tables that say who somebody is: public.account, private.account,   *)
(* the database roles and the rows that reference an account, with the     *)
(* constraints of migrations/schema_snapshot.sql; and the requests in      *)
(* flight that read and write them. A statement that violates a constraint *)
(* changes nothing and raises an error.                                    *)
(***************************************************************************)
EXTENDS Integers, FiniteSets

CONSTANTS
  AccountIds,  \* ids uuid_generate_v1() may draw
  Addrs,       \* wallet addresses
  Emails,      \* e-mail addresses
  Googles,     \* Google user ids
  Rows,        \* rows with a foreign key to account.id (post, upload, project, ...)
  UniqueRows,  \* those of which an account has at most one (organization.account_id)
  Requests,    \* requests the server handles at the same time
  MaxEpoch,    \* bound: how often the nonce of an account is replaced
  None         \* SQL null, and an absent request field

ASSUME ConstantsAssumption ==
  /\ MaxEpoch \in Nat
  /\ UniqueRows \subseteq Rows
  /\ None \notin AccountIds \cup Addrs \cup Emails \cup Googles
  /\ \A S \in {Emails, Googles} : Addrs \cap S = {}
  /\ Emails \cap Googles = {}

VARIABLES
  account,      \* public.account, one row per id
  private,      \* private.account, one row per id
  role,         \* ids that have a database role
  owner,        \* the account each row references, or None before it is inserted
  s3_deletion,  \* accounts whose profile images are queued for deletion
  req,          \* the requests
  sessions,     \* accounts that some browser is, or once was, logged in to
  spent         \* history: the nonces whose signature was accepted

tables == <<account, private, role, owner, s3_deletion>>
vars == <<account, private, role, owner, s3_deletion, req, sessions, spent>>

-----------------------------------------------------------------------------
\* A random nonce is known by its account and its number.
Nonces == AccountIds \X (0 .. MaxEpoch)

AccountRow == [status : {"new", "live", "gone"}, addr : Addrs \cup {None},
               creator : AccountIds \cup {None}, epoch : 0 .. MaxEpoch]
NewAccount == [status |-> "new", addr |-> None, creator |-> None, epoch |-> 0]
DeletedAccount == [NewAccount EXCEPT !.status = "gone"]

PrivateRow == [exists : BOOLEAN, email : Emails \cup {None}, google : Googles \cup {None},
               google_email : Emails \cup {None}]
NoPrivate == [exists |-> FALSE, email |-> None, google |-> None, google_email |-> None]
EmptyPrivate == [NoPrivate EXCEPT !.exists = TRUE]

Live(a) == account[a].status = "live"
ByAddr(w) == {a \in AccountIds : account[a].addr = w}
Nonce(a) == <<a, account[a].epoch>>
RotateNonce(a) ==
  /\ account[a].epoch < MaxEpoch
  /\ account' = IF Live(a) THEN [account EXCEPT ![a].epoch = @ + 1] ELSE account

\* account_addr_key; a row that is not live has no address.
UniqueAddrs(t) ==
  \A a, b \in AccountIds : a # b => t[a].addr = None \/ t[a].addr # t[b].addr

\* account_email_key, account_google_key and account_google_email_key.
UniquePrivate(p) ==
  \A a, b \in AccountIds :
    a # b => /\ p[a].email \in {None} \/ p[a].email # p[b].email
             /\ p[a].google \in {None} \/ p[a].google # p[b].google
             /\ p[a].google_email \in {None} \/ p[a].google_email # p[b].google_email

\* organization_account_id_key and its like.
UniqueOwners(o) ==
  \A i, j \in UniqueRows : i # j /\ o[i] # None => o[i] # o[j]

\* An insert into public.account draws an id that was never used.
InsertAccount(a, row) == account[a].status = "new" /\ account' = [account EXCEPT ![a] = row]

-----------------------------------------------------------------------------
(* Requests *)

Pcs == {"idle", "kRotate", "kCreator", "kPrivate", "kRole", "kCreate", "kReselect",
        "cNonce", "cRotate", "cAddr", "mCheck", "mNonce", "mMerge",
        "gFind", "gLink", "gCreate", "gRole"}

\* acct: the account of the session or the one found so far; wallet: the account
\* of the address to merge; nonce: what the wallet signed; read: the nonce selected.
\* A field that no later statement uses is None again.
Request == [pc : Pcs, acct : AccountIds \cup {None}, wallet : AccountIds \cup {None},
            addr : Addrs \cup {None}, nonce : Nonces \cup {None}, read : Nonces \cup {None},
            keep : BOOLEAN, google : Googles \cup {None}, email : Emails \cup {None}]
Idle == [pc |-> "idle", acct |-> None, wallet |-> None, addr |-> None, nonce |-> None,
         read |-> None, keep |-> FALSE, google |-> None, email |-> None]

\* What a wallet has signed when a request for account a arrives: the nonce a has
\* now, or anything else (an older nonce, another account's), which never verifies.
Signed(a, valid) == IF valid THEN Nonce(a) ELSE None
Verified(q) == q.nonce = q.read

At(r, pc) == req[r].pc = pc
Goto(r, q) == req' = [req EXCEPT ![r] = q]
Done(r) == req' = [req EXCEPT ![r] = Idle]

\* create_auth_user, tolerating a role that is there already, and the login.
CreateAuthUser(r, a) ==
  /\ role' = role \cup {a}
  /\ sessions' = sessions \cup {a}
  /\ Done(r)

\* A handler whose connection or server is lost between two statements.
Lost(r) ==
  /\ ~At(r, "idle")
  /\ Done(r)
  /\ UNCHANGED <<tables, sessions, spent>>

TablesInit ==
  /\ account = [a \in AccountIds |-> NewAccount]
  /\ private = [a \in AccountIds |-> NoPrivate]
  /\ role = {}
  /\ owner = [i \in Rows |-> None]
  /\ s3_deletion = {}
  /\ req = [r \in Requests |-> Idle]
  /\ sessions = {}
  /\ spent = {}
=============================================================================
