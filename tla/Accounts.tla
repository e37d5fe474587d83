------------------------------- MODULE Accounts -------------------------------
(***************************************************************************)
(* The handlers of WalletAuth and GoogleAuth, and what logged-in users     *)
(* insert, on the same tables at the same time.                            *)
(***************************************************************************)
EXTENDS WalletAuth, GoogleAuth

\* Account c inserts a row that references account a (GraphQL createProject and
\* the like: project_insert_policy lets every role insert).
InsertRow(r, c, i, a) ==
  /\ At(r, "idle")
  /\ c \in role /\ Live(a)
  /\ owner[i] = None
  /\ UniqueOwners([owner EXCEPT ![i] = a])
  /\ owner' = [owner EXCEPT ![i] = a]
  /\ UNCHANGED <<account, private, role, s3_deletion, req, sessions, spent>>

\* Account c creates a profile for somebody else, who may sign in with wallet w
\* later (GraphQL createAccount: account_insert_all lets anybody insert).
CreateProfile(r, c, a, w) ==
  /\ At(r, "idle")
  /\ Live(c) /\ c \in role
  /\ ByAddr(w) = {}
  /\ InsertAccount(a, [NewAccount EXCEPT !.status = "live", !.addr = w, !.creator = c])
  /\ UNCHANGED <<private, role, owner, s3_deletion, req, sessions, spent>>

Next ==
  \E r \in Requests :
    \/ WalletNext(r)
    \/ GoogleNext(r)
    \/ \E c \in sessions, a \in AccountIds :
         \/ \E i \in Rows : InsertRow(r, c, i, a)
         \/ \E w \in Addrs : CreateProfile(r, c, a, w)
    \/ Lost(r)

Spec == TablesInit /\ [][Next]_vars

-----------------------------------------------------------------------------
TypeOK ==
  /\ account \in [AccountIds -> AccountRow]
  /\ private \in [AccountIds -> PrivateRow]
  /\ role \subseteq AccountIds
  /\ owner \in [Rows -> AccountIds \cup {None}]
  /\ s3_deletion \subseteq AccountIds
  /\ req \in [Requests -> Request]
  /\ sessions \subseteq AccountIds
  /\ spent \subseteq Nonces

\* A merge rewrites six tables, in the order of the foreign keys: whatever runs
\* meanwhile, no row references an account that is gone, none is shared by two
\* accounts, and the images of an account that is there are not deleted.
ReferencesOK ==
  LET there == {a \in AccountIds : Live(a)}
  IN /\ \A a \in AccountIds : private[a].exists => a \in there
     /\ \A a \in there : account[a].creator \in there \cup {None}
     /\ \A i \in Rows : owner[i] \in there \cup {None}
     /\ UniquePrivate(private)
     /\ UniqueOwners(owner)
     /\ UniqueAddrs(account)
     /\ s3_deletion \cap there = {}

\* "generate a new nonce for the user to invalidate the current signature"
\* (keplrStrategy.ts, wallet-auth.ts): once a signature has been accepted, and
\* even if the merge it was for failed, a request that starts later needs another one.
NonceInvalidated == \A a \in AccountIds : Live(a) => Nonce(a) \notin spent

-----------------------------------------------------------------------------
(* The credentials, as Identity has them *)

Credentials == Addrs \cup Emails \cup Googles
Opening(a) == {account[a].addr, private[a].email, private[a].google} \ {None}
Opened(c) == {a \in AccountIds : c \in {account[a].addr, private[a].email, private[a].google}}
login == [c \in Credentials |-> IF Opened(c) = {} THEN None ELSE CHOOSE a \in Opened(c) : TRUE]

\* However requests overlap, a credential that opens an account never comes to
\* open another one, unless the two are being merged.
NoLoginStolen ==
  [][\A a, b \in AccountIds :
       a # b /\ Opening(a) \cap Opening(b)' # {} =>
         \E r \in Requests : From(req[r]) = a /\ To(req[r]) = b /\ MergeCommit(r)]_vars

\* One request at a time, the tables do what Identity says.
Id == INSTANCE Identity
ImplementsIdentity == Id!Spec

\* However they overlap, they take nothing from it but what a merge may lose: what
\* is linked meanwhile to the wallet's account, or an account without rows.
ImplementsIdentityLate == Id!SpecLate

\* "Before, we've verified that this private.account doesn't contain any info"
\* (wallet-auth.ts): a merge drops no e-mail and no Google login.
MergeKeepsLogins ==
  [][\A r \in Requests : MergeCommit(r) /\ From(req[r]) # To(req[r]) =>
       \A c \in Emails \cup Googles : login[c] # None => login'[c] # None]_vars
=============================================================================
