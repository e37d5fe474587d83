------------------------------ MODULE WalletAuth ------------------------------
(***************************************************************************)
(* Signing in with a wallet, connecting a wallet to an account and merging *)
(* the account of a wallet with another one: keplrStrategy.ts and          *)
(* wallet-auth.ts. Login and connect run each statement by itself; a merge *)
(* reads first and then migrates in the transaction it opened.             *)
(***************************************************************************)
EXTENDS AccountTables

-----------------------------------------------------------------------------
(* KeplrStrategy *)

\* select id, nonce from account where addr: an existing account signs its nonce,
\* and a new one signs '' (with anything else the login fails).
KeplrFind(r, w, valid) ==
  /\ At(r, "idle")
  /\ \/ \E a \in ByAddr(w) :
          Goto(r, [Idle EXCEPT !.pc = "kRotate", !.acct = a, !.nonce = Signed(a, valid), !.read = Nonce(a)])
     \/ ByAddr(w) = {} /\ valid /\ Goto(r, [Idle EXCEPT !.pc = "kCreate", !.addr = w])
  /\ UNCHANGED <<tables, sessions, spent>>

KeplrRotate(r) ==
  /\ At(r, "kRotate")
  /\ RotateNonce(req[r].acct)
  /\ IF Verified(req[r])
     THEN spent' = spent \cup {req[r].nonce} /\ Goto(r, [Idle EXCEPT !.pc = "kCreator", !.acct = req[r].acct])
     ELSE Done(r) /\ UNCHANGED spent
  /\ UNCHANGED <<private, role, owner, s3_deletion, sessions>>

KeplrUnsetCreator(r) ==
  /\ At(r, "kCreator")
  /\ account' = [account EXCEPT ![req[r].acct].creator = None]
  /\ Goto(r, [req[r] EXCEPT !.pc = "kPrivate"])
  /\ UNCHANGED <<private, role, owner, s3_deletion, sessions, spent>>

\* Mutant: without the foreign key to public.account.
KeplrInsertPrivateUnchecked(r) ==
  /\ At(r, "kPrivate")
  /\ private' = [private EXCEPT ![req[r].acct].exists = TRUE]
  /\ Goto(r, [req[r] EXCEPT !.pc = "kRole"])
  /\ UNCHANGED <<account, role, owner, s3_deletion, sessions, spent>>

\* on conflict do nothing; an account merged away meanwhile is a foreign key error.
KeplrInsertPrivate(r) ==
  LET a == req[r].acct
  IN /\ At(r, "kPrivate")
     /\ IF Live(a)
        THEN /\ private' = [private EXCEPT ![a].exists = TRUE]
             /\ Goto(r, [req[r] EXCEPT !.pc = "kRole"])
        ELSE Done(r) /\ UNCHANGED private
     /\ UNCHANGED <<account, role, owner, s3_deletion, sessions, spent>>

KeplrRole(r) ==
  /\ At(r, "kRole")
  /\ CreateAuthUser(r, req[r].acct)
  /\ UNCHANGED <<account, private, owner, s3_deletion, spent>>

\* create_new_account_with_wallet: an account that got the address meanwhile is used instead.
KeplrCreate(r) ==
  LET w == req[r].addr
  IN /\ At(r, "kCreate")
     /\ \/ \E a \in ByAddr(w) :
             /\ account' = [account EXCEPT ![a].creator = None]
             /\ private' = [private EXCEPT ![a].exists = TRUE]
        \/ /\ ByAddr(w) = {}
           /\ \E a \in AccountIds :
                /\ InsertAccount(a, [NewAccount EXCEPT !.status = "live", !.addr = w])
                /\ private' = [private EXCEPT ![a] = EmptyPrivate]
     /\ Goto(r, [req[r] EXCEPT !.pc = "kReselect"])
     /\ UNCHANGED <<role, owner, s3_deletion, sessions, spent>>

\* Mutant: the account id of a row that is not there.
KeplrReselectUnchecked(r) ==
  LET found == ByAddr(req[r].addr)
  IN /\ At(r, "kReselect")
     /\ \E a \in IF found = {} THEN {None} ELSE found : Goto(r, [Idle EXCEPT !.pc = "kRole", !.acct = a])
     /\ UNCHANGED <<tables, sessions, spent>>

\* The id is selected again by address; without a row the handler throws.
KeplrReselect(r) ==
  /\ At(r, "kReselect")
  /\ \/ \E a \in ByAddr(req[r].addr) : Goto(r, [Idle EXCEPT !.pc = "kRole", !.acct = a])
     \/ ByAddr(req[r].addr) = {} /\ Done(r)
  /\ UNCHANGED <<tables, sessions, spent>>

-----------------------------------------------------------------------------
(* connectWallet: the wallet at address w signs for account c *)

\* An address that is in use is an error, whoever has it.
ConnectFind(r, c, w, valid) ==
  /\ At(r, "idle")
  /\ ByAddr(w) = {}
  /\ Goto(r, [Idle EXCEPT !.pc = "cNonce", !.acct = c, !.addr = w, !.nonce = Signed(c, valid)])
  /\ UNCHANGED <<tables, sessions, spent>>

ConnectReadNonce(r) ==
  LET a == req[r].acct
  IN /\ At(r, "cNonce")
     /\ IF Live(a) THEN Goto(r, [req[r] EXCEPT !.pc = "cRotate", !.read = Nonce(a)]) ELSE Done(r)
     /\ UNCHANGED <<tables, sessions, spent>>

ConnectRotate(r) ==
  /\ At(r, "cRotate")
  /\ RotateNonce(req[r].acct)
  /\ IF Verified(req[r])
     THEN /\ spent' = spent \cup {req[r].nonce}
          /\ Goto(r, [Idle EXCEPT !.pc = "cAddr", !.acct = req[r].acct, !.addr = req[r].addr])
     ELSE Done(r) /\ UNCHANGED spent
  /\ UNCHANGED <<private, role, owner, s3_deletion, sessions>>

\* No row if the account is gone; an error (account_addr_key) if another one has the address.
ConnectSetAddr(r) ==
  LET a == req[r].acct
  IN /\ At(r, "cAddr")
     /\ account' = IF Live(a) /\ ByAddr(req[r].addr) = {}
                   THEN [account EXCEPT ![a].addr = req[r].addr] ELSE account
     /\ Done(r)
     /\ UNCHANGED <<private, role, owner, s3_deletion, sessions, spent>>

-----------------------------------------------------------------------------
(* POST /merge-accounts: session account c, wallet at address w *)

MergeFind(r, c, w, valid, keep) ==
  /\ At(r, "idle")
  /\ \E a \in ByAddr(w) :
       Goto(r, [Idle EXCEPT !.pc = "mCheck", !.acct = c, !.wallet = a, !.addr = w,
                            !.nonce = Signed(c, valid), !.keep = keep])
  /\ UNCHANGED <<tables, sessions, spent>>

\* checkPrivateAccount: a wallet account with an e-mail or Google login is refused.
MergeCheckPrivate(r) ==
  LET p == private[req[r].wallet]
  IN /\ At(r, "mCheck")
     /\ IF {p.email, p.google, p.google_email} = {None}
        THEN Goto(r, [req[r] EXCEPT !.pc = "mNonce"]) ELSE Done(r)
     /\ UNCHANGED <<tables, sessions, spent>>

MergeReadNonce(r) ==
  LET a == req[r].acct
  IN /\ At(r, "mNonce")
     /\ IF Live(a) THEN Goto(r, [req[r] EXCEPT !.pc = "mMerge", !.read = Nonce(a)]) ELSE Done(r)
     /\ UNCHANGED <<tables, sessions, spent>>

From(q) == IF q.keep THEN q.wallet ELSE q.acct
To(q) == IF q.keep THEN q.acct ELSE q.wallet

\* What migrateAccountData leaves in each table.
Moved(a, from, to) == IF a = from THEN to ELSE a
MigratedOwner(from, to) == [i \in Rows |-> Moved(owner[i], from, to)]
\* Mutant: the e-mail and Google login are deleted with the account that had them.
MigratedPrivateDropped(q) == [private EXCEPT ![From(q)] = NoPrivate]
MigratedPrivate(q) ==
  LET from == From(q) to == To(q)
  IN IF q.keep \/ from = to \/ ~private[from].exists
     THEN [private EXCEPT ![IF q.keep THEN from ELSE to] = NoPrivate]
     ELSE [private EXCEPT ![from] = NoPrivate, ![to] = private[from]]
MigratedAccount(q) ==
  LET from == From(q) to == To(q)
      moved == [a \in AccountIds |-> [account[a] EXCEPT !.creator = Moved(@, from, to),
                                                         !.epoch = IF a = q.acct /\ Live(a) THEN @ + 1 ELSE @]]
      deleted == [moved EXCEPT ![from] = IF Live(from) THEN DeletedAccount ELSE account[from]]
  IN IF q.keep /\ from # to /\ Live(to) THEN [deleted EXCEPT ![to].addr = q.addr] ELSE deleted

\* Mutant: foreign keys that are not enforced.
CanMigrateUnchecked(q) == From(q) \in role /\ UniqueOwners(MigratedOwner(From(q), To(q)))

\* Every statement of migrateAccountData succeeds: no duplicate key, no row that
\* references a missing account, and drop role finds the role.
CanMigrate(q) ==
  LET from == From(q) to == To(q)
      left == {a \in AccountIds : MigratedAccount(q)[a].status = "live"}
  IN /\ from \in role
     /\ UniqueOwners(MigratedOwner(from, to))
     /\ UniqueAddrs(MigratedAccount(q))
     /\ \A i \in Rows : MigratedOwner(from, to)[i] \in left \cup {None}
     /\ \A a \in left : MigratedAccount(q)[a].creator \in left \cup {None}
     /\ {a \in AccountIds : MigratedPrivate(q)[a].exists} \subseteq left

\* The transaction: rotate the nonce, verify, migrate, commit.
MergeCommit(r) ==
  LET q == req[r]
  IN /\ At(r, "mMerge")
     /\ Verified(q)
     /\ account[q.acct].epoch < MaxEpoch
     /\ CanMigrate(q)
     /\ account' = MigratedAccount(q)
     /\ private' = MigratedPrivate(q)
     /\ owner' = MigratedOwner(From(q), To(q))
     /\ role' = role \ {From(q)}
     /\ s3_deletion' = s3_deletion \cup {From(q)}
     /\ sessions' = IF q.keep THEN sessions ELSE sessions \cup {q.wallet}
     /\ spent' = spent \cup {q.nonce}
     /\ Done(r)

\* Mutant: the whole transaction is rolled back, the new nonce with it.
MergeRollbackAll(r) ==
  /\ At(r, "mMerge")
  /\ spent' = IF Verified(req[r]) THEN spent \cup {req[r].nonce} ELSE spent
  /\ Done(r)
  /\ UNCHANGED <<tables, sessions>>

\* A bad signature or a failed statement: back to the savepoint, and the new nonce is kept.
MergeRollback(r) ==
  /\ At(r, "mMerge")
  /\ RotateNonce(req[r].acct)
  /\ spent' = IF Verified(req[r]) THEN spent \cup {req[r].nonce} ELSE spent
  /\ Done(r)
  /\ UNCHANGED <<private, role, owner, s3_deletion, sessions>>

-----------------------------------------------------------------------------
WalletNext(r) ==
  \/ \E w \in Addrs, valid \in BOOLEAN :
       \/ KeplrFind(r, w, valid)
       \/ \E c \in sessions : ConnectFind(r, c, w, valid)
       \/ \E c \in sessions, keep \in BOOLEAN : MergeFind(r, c, w, valid, keep)
  \/ KeplrRotate(r) \/ KeplrUnsetCreator(r) \/ KeplrInsertPrivate(r) \/ KeplrRole(r)
  \/ KeplrCreate(r) \/ KeplrReselect(r)
  \/ ConnectReadNonce(r) \/ ConnectRotate(r) \/ ConnectSetAddr(r)
  \/ MergeCheckPrivate(r) \/ MergeReadNonce(r) \/ MergeCommit(r) \/ MergeRollback(r)
=============================================================================
