---------------------------- MODULE AccountsProofs ----------------------------
(***************************************************************************)
(* The account tables under any number of overlapping requests: what a     *)
(* request remembers is related to the tables as they are now, although    *)
(* others have changed them since.                                         *)
(***************************************************************************)
EXTENDS Accounts, TLAPS

\* What table t of accounts may become: an id that was drawn is never drawn
\* again, an account that is gone stays gone, and nonces only advance.
Known(t, a) == t[a].status # "new"
Advances(t, u) ==
  \A a \in AccountIds : Known(t, a) =>
    /\ Known(u, a)
    /\ u[a].status = "live" => t[a].status = "live" /\ t[a].epoch <= u[a].epoch

\* A request has what its next statement needs, names accounts that were there
\* once, and compares its signature with a nonce the account has or had.
HasAccount == {"kRotate", "kCreator", "kPrivate", "kRole", "cNonce", "cRotate", "cAddr",
               "mCheck", "mNonce", "mMerge", "gLink", "gRole"}
HasAddr == {"kCreate", "kReselect", "cNonce", "cRotate", "cAddr", "mCheck", "mNonce", "mMerge"}
HasRead == {"kRotate", "cRotate", "mMerge"}

Sound(t, q) ==
  /\ q.acct # None => Known(t, q.acct)
  /\ q.wallet # None => Known(t, q.wallet)
  /\ q.pc \in HasAccount => q.acct # None
  /\ q.pc \in HasAddr => q.addr # None
  /\ q.pc \in {"mCheck", "mNonce", "mMerge"} => q.wallet # None
  /\ q.pc \in {"gFind", "gLink", "gCreate"} => q.google # None /\ q.email # None
  /\ q.pc \in HasRead => \E n \in 0 .. MaxEpoch :
       q.read = <<q.acct, n>> /\ (t[q.acct].status = "live" => n <= t[q.acct].epoch)

RequestOK == \A r \in Requests : Sound(account, req[r])

\* The nonces that were accepted are older than the one an account has.
SpentOK ==
  \A a \in AccountIds, n \in 0 .. MaxEpoch : <<a, n>> \in spent =>
    Known(account, a) /\ (Live(a) => n < account[a].epoch)

NamesOK == \A a \in sessions \cup role \cup s3_deletion : Known(account, a)

\* ReferencesOK, table by table; and rows that are not there are empty.
AccountsOK(t) ==
  /\ \A a \in AccountIds : t[a].status # "live" => t[a].addr = None /\ t[a].creator = None
  /\ \A a \in AccountIds : t[a].creator # None => t[t[a].creator].status = "live"
  /\ UniqueAddrs(t)
PrivatesOK(p) ==
  /\ \A a \in AccountIds :
       ~p[a].exists => p[a].email = None /\ p[a].google = None /\ p[a].google_email = None
  /\ UniquePrivate(p)
Linked(t, p) == \A a \in AccountIds : p[a].exists => t[a].status = "live"
OwnersOK(t, o) == UniqueOwners(o) /\ \A i \in Rows : o[i] # None => t[o[i]].status = "live"
ImagesOK(t, s) == \A a \in s : t[a].status # "live"

TablesOK ==
  /\ AccountsOK(account) /\ PrivatesOK(private) /\ Linked(account, private)
  /\ OwnersOK(account, owner) /\ ImagesOK(account, s3_deletion)

IInv == TypeOK /\ RequestOK /\ SpentOK /\ NamesOK /\ TablesOK

-----------------------------------------------------------------------------

LEMMA InitInv == TablesInit => IInv
<1> SUFFICES ASSUME TablesInit PROVE IInv
  OBVIOUS
<1> USE ConstantsAssumption
<1>1. TypeOK
  BY DEF TypeOK, TablesInit, AccountRow, NewAccount, PrivateRow, NoPrivate, Request, Idle, Pcs
<1>2. RequestOK
  BY DEF RequestOK, Sound, TablesInit, Idle, HasAccount, HasAddr, HasRead
<1>3. SpentOK /\ NamesOK
  BY DEF SpentOK, NamesOK, TablesInit
<1>4. TablesOK
  BY DEF TablesOK, AccountsOK, PrivatesOK, Linked, OwnersOK, ImagesOK, UniquePrivate, UniqueOwners,
     UniqueAddrs, TablesInit, NewAccount, NoPrivate
<1> QED
  BY <1>1, <1>2, <1>3, <1>4 DEF IInv

\* What a merge leaves of each account.
LEMMA Migrated ==
  ASSUME TypeOK, NEW q \in Request, From(q) \in AccountIds, To(q) \in AccountIds, q.addr \in Addrs,
         account[q.acct].epoch < MaxEpoch
  PROVE  /\ MigratedAccount(q) \in [AccountIds -> AccountRow]
         /\ \A a \in AccountIds : MigratedAccount(q)[a] =
              IF a = From(q) /\ Live(a) THEN DeletedAccount
              ELSE IF a = From(q) THEN account[a]
              ELSE [status |-> account[a].status,
                    addr |-> IF q.keep /\ a = To(q) /\ Live(a) THEN q.addr ELSE account[a].addr,
                    creator |-> Moved(account[a].creator, From(q), To(q)),
                    epoch |-> IF a = q.acct /\ Live(a) THEN account[a].epoch + 1 ELSE account[a].epoch]
<1> DEFINE moved == [a \in AccountIds |->
                      [account[a] EXCEPT !.creator = Moved(@, From(q), To(q)),
                                         !.epoch = IF a = q.acct /\ Live(a) THEN @ + 1 ELSE @]]
           deleted == [moved EXCEPT ![From(q)] = IF Live(From(q)) THEN DeletedAccount ELSE account[From(q)]]
<1>1. MigratedAccount(q) = IF q.keep /\ From(q) # To(q) /\ Live(To(q))
                           THEN [deleted EXCEPT ![To(q)].addr = q.addr] ELSE deleted
  BY DEF MigratedAccount
<1> DEFINE creator(a) == Moved(account[a].creator, From(q), To(q))
           epoch(a) == IF a = q.acct /\ Live(a) THEN account[a].epoch + 1 ELSE account[a].epoch
<1>2. \A a \in AccountIds : moved[a] =
        [status |-> account[a].status, addr |-> account[a].addr, creator |-> creator(a), epoch |-> epoch(a)]
  BY DEF TypeOK, AccountRow
<1>3. ASSUME NEW a \in AccountIds PROVE moved[a] \in AccountRow
  <2>1. account[a] \in AccountRow /\ (a = q.acct => account[a].epoch < MaxEpoch)
    BY DEF TypeOK
  <2>2. creator(a) \in AccountIds \cup {None}
    BY <2>1 DEF AccountRow, Moved
  <2>3. epoch(a) \in 0 .. MaxEpoch
    BY <2>1, ConstantsAssumption DEF AccountRow
  <2> HIDE DEF moved, deleted, creator, epoch
  <2>4. account[a].status \in {"new", "live", "gone"} /\ account[a].addr \in Addrs \cup {None}
    BY <2>1 DEF AccountRow
  <2>5. [status |-> account[a].status, addr |-> account[a].addr,
         creator |-> creator(a), epoch |-> epoch(a)] \in AccountRow
    BY <2>2, <2>3, <2>4 DEF AccountRow
  <2> QED
    BY <1>2, <2>5
<1>4. DeletedAccount \in AccountRow /\ \A a \in AccountIds : account[a] \in AccountRow
  BY ConstantsAssumption DEF TypeOK, AccountRow, DeletedAccount, NewAccount
<1>5. /\ deleted \in [AccountIds -> AccountRow]
      /\ \A a \in AccountIds : deleted[a] =
           IF a = From(q) THEN (IF Live(a) THEN DeletedAccount ELSE account[a]) ELSE moved[a]
  BY <1>3, <1>4
<1> HIDE DEF moved, deleted, creator, epoch
<1>6. MigratedAccount(q) \in [AccountIds -> AccountRow]
  BY <1>1, <1>5 DEF AccountRow
<1>7. ASSUME NEW a \in AccountIds
      PROVE  MigratedAccount(q)[a] =
               IF q.keep /\ From(q) # To(q) /\ Live(To(q)) /\ a = To(q)
               THEN [deleted[a] EXCEPT !.addr = q.addr] ELSE deleted[a]
  BY <1>1, <1>5
<1>8. ASSUME NEW a \in AccountIds, a # From(q)
      PROVE  MigratedAccount(q)[a] =
              [status |-> account[a].status,
               addr |-> IF q.keep /\ a = To(q) /\ Live(a) THEN q.addr ELSE account[a].addr,
               creator |-> creator(a), epoch |-> epoch(a)]
  <2>1. deleted[a] = [status |-> account[a].status, addr |-> account[a].addr,
                      creator |-> creator(a), epoch |-> epoch(a)]
    BY <1>2, <1>5, <1>8
  <2>2. CASE q.keep /\ a = To(q) /\ Live(a)
    BY <1>7, <1>8, <2>1, <2>2
  <2>3. CASE ~(q.keep /\ a = To(q) /\ Live(a))
    BY <1>7, <1>8, <2>1, <2>3
  <2> QED
    BY <2>2, <2>3
<1> QED
  BY <1>5, <1>6, <1>7, <1>8 DEF creator, epoch

-----------------------------------------------------------------------------
(* The steps keep types *)

LEMMA MergeNames ==
  ASSUME TypeOK, RequestOK, NEW r \in Requests, At(r, "mMerge")
  PROVE  /\ req[r] \in Request /\ req[r].addr \in Addrs
         /\ req[r].acct \in AccountIds /\ req[r].wallet \in AccountIds /\ req[r].read \in Nonces
         /\ From(req[r]) \in AccountIds /\ To(req[r]) \in AccountIds
         /\ Known(account, From(req[r])) /\ Known(account, To(req[r])) /\ Known(account, req[r].wallet)
         /\ req[r].keep => From(req[r]) = req[r].wallet /\ To(req[r]) = req[r].acct
         /\ ~req[r].keep => From(req[r]) = req[r].acct /\ To(req[r]) = req[r].wallet
<1>1. req[r] \in Request /\ Sound(account, req[r]) /\ req[r].pc = "mMerge"
  BY DEF TypeOK, RequestOK, At
<1>2. /\ req[r].acct \in AccountIds /\ req[r].wallet \in AccountIds /\ req[r].addr \in Addrs
      /\ Known(account, req[r].acct) /\ Known(account, req[r].wallet)
  BY <1>1 DEF Request, Sound, HasAccount, HasAddr
<1>3. req[r].read \in Nonces
  BY <1>1, <1>2 DEF Sound, HasRead, Nonces
<1> QED
  BY <1>1, <1>2, <1>3 DEF From, To

LEMMA MergeAccounts ==
  ASSUME TypeOK, RequestOK, NEW r \in Requests, MergeCommit(r)
  PROVE  LET q == req[r]
         IN /\ account' \in [AccountIds -> AccountRow]
            /\ \A a \in AccountIds : a = From(q) =>
                 account'[a] = IF Live(a) THEN DeletedAccount ELSE account[a]
            /\ \A a \in AccountIds : a # From(q) =>
                 /\ account'[a].status = account[a].status
                 /\ account'[a].addr = IF q.keep /\ a = To(q) /\ Live(a) THEN q.addr ELSE account[a].addr
                 /\ account'[a].creator = Moved(account[a].creator, From(q), To(q))
                 /\ account'[a].epoch =
                      IF a = q.acct /\ Live(a) THEN account[a].epoch + 1 ELSE account[a].epoch
<1> DEFINE q == req[r]
<1>1. At(r, "mMerge") /\ account[q.acct].epoch < MaxEpoch /\ account' = MigratedAccount(q)
  BY DEF MergeCommit
<1>2. q \in Request /\ From(q) \in AccountIds /\ To(q) \in AccountIds /\ q.addr \in Addrs
  BY <1>1, MergeNames
<1> HIDE DEF q
<1>3. /\ account' \in [AccountIds -> AccountRow]
      /\ \A a \in AccountIds : account'[a] =
              IF a = From(q) /\ Live(a) THEN DeletedAccount
              ELSE IF a = From(q) THEN account[a]
              ELSE [status |-> account[a].status,
                    addr |-> IF q.keep /\ a = To(q) /\ Live(a) THEN q.addr ELSE account[a].addr,
                    creator |-> Moved(account[a].creator, From(q), To(q)),
                    epoch |-> IF a = q.acct /\ Live(a) THEN account[a].epoch + 1 ELSE account[a].epoch]
  BY <1>1, <1>2, Migrated
<1> QED
  BY <1>3 DEF q

\* Accounts are never drawn twice and never come back, and nonces advance.
LEMMA AccountStep ==
  ASSUME TypeOK, RequestOK, [Next]_vars
  PROVE  Advances(account, account')
<1>a. Advances(account, account)
  BY DEF Advances, TypeOK, AccountRow
<1>1. ASSUME NEW r \in Requests, NEW w \in Addrs, NEW valid \in BOOLEAN,
             KeplrFind(r, w, valid)
      PROVE  Advances(account, account')
  BY <1>1, <1>a DEF KeplrFind, tables
<1>2. ASSUME NEW r \in Requests, NEW c \in sessions, NEW w \in Addrs, NEW valid \in BOOLEAN,
             ConnectFind(r, c, w, valid)
      PROVE  Advances(account, account')
  BY <1>2, <1>a DEF ConnectFind, tables
<1>3. ASSUME NEW r \in Requests, NEW c \in sessions, NEW w \in Addrs, NEW valid \in BOOLEAN, NEW keep \in BOOLEAN,
             MergeFind(r, c, w, valid, keep)
      PROVE  Advances(account, account')
  BY <1>3, <1>a DEF MergeFind, tables
<1>4. ASSUME NEW r \in Requests, KeplrRotate(r) PROVE Advances(account, account')
  BY <1>4, <1>a DEF KeplrRotate, At, Goto, Done, RotateNonce, Verified, Live, Advances,
     Known, TypeOK, AccountRow
<1>5. ASSUME NEW r \in Requests, KeplrUnsetCreator(r) PROVE Advances(account, account')
  BY <1>5, <1>a DEF KeplrUnsetCreator, At, Goto, Advances, Known, TypeOK, AccountRow
<1>6. ASSUME NEW r \in Requests, KeplrInsertPrivate(r) PROVE Advances(account, account')
  BY <1>6, <1>a DEF KeplrInsertPrivate, tables
<1>7. ASSUME NEW r \in Requests, KeplrRole(r) PROVE Advances(account, account')
  BY <1>7, <1>a DEF KeplrRole, tables
<1>8. ASSUME NEW r \in Requests, KeplrCreate(r) PROVE Advances(account, account')
  BY <1>8, <1>a DEF KeplrCreate, At, Goto, ByAddr, InsertAccount, NewAccount,
     EmptyPrivate, NoPrivate, Advances, Known, TypeOK, AccountRow
<1>9. ASSUME NEW r \in Requests, KeplrReselect(r) PROVE Advances(account, account')
  BY <1>9, <1>a DEF KeplrReselect, tables
<1>10. ASSUME NEW r \in Requests, ConnectReadNonce(r) PROVE Advances(account, account')
  BY <1>10, <1>a DEF ConnectReadNonce, tables
<1>11. ASSUME NEW r \in Requests, ConnectRotate(r) PROVE Advances(account, account')
  BY <1>11, <1>a DEF ConnectRotate, At, Goto, Done, RotateNonce, Verified, Live,
     Advances, Known, TypeOK, AccountRow
<1>12. ASSUME NEW r \in Requests, ConnectSetAddr(r) PROVE Advances(account, account')
  BY <1>12, <1>a DEF ConnectSetAddr, At, Done, Live, ByAddr, Advances, Known, TypeOK,
     AccountRow
<1>13. ASSUME NEW r \in Requests, MergeCheckPrivate(r) PROVE Advances(account, account')
  BY <1>13, <1>a DEF MergeCheckPrivate, tables
<1>14. ASSUME NEW r \in Requests, MergeReadNonce(r) PROVE Advances(account, account')
  BY <1>14, <1>a DEF MergeReadNonce, tables
<1>15. ASSUME NEW r \in Requests, MergeCommit(r) PROVE Advances(account, account')
  <2>3. ASSUME NEW a \in AccountIds
        PROVE  /\ a # From(req[r]) => /\ account'[a].status = account[a].status
                                    /\ account'[a].epoch \in {account[a].epoch, account[a].epoch + 1}
               /\ a = From(req[r]) => account'[a] \in {account[a], DeletedAccount}
    BY <1>15, MergeAccounts
  <2>4. ASSUME NEW a \in AccountIds, Known(account, a)
        PROVE  /\ Known(account', a)
               /\ account'[a].status = "live" =>
                    account[a].status = "live" /\ account[a].epoch <= account'[a].epoch
    <3>1. account[a].epoch \in Int
      BY ConstantsAssumption DEF TypeOK, AccountRow
    <3>2. CASE a = From(req[r])
      BY <2>3, <2>4, <3>1, <3>2 DEF Known, DeletedAccount, NewAccount
    <3>3. CASE a # From(req[r])
      BY <2>3, <2>4, <3>1, <3>3 DEF Known
    <3> QED
      BY <3>2, <3>3
  <2> QED
    BY <2>4 DEF Advances
<1>16. ASSUME NEW r \in Requests, MergeRollback(r) PROVE Advances(account, account')
  BY <1>16, <1>a DEF MergeRollback, At, Done, RotateNonce, Verified, Live, Advances,
     Known, TypeOK, AccountRow
<1>17. ASSUME NEW r \in Requests, NEW g \in Googles, NEW e \in Emails,
             GoogleFindEmail(r, g, e)
      PROVE  Advances(account, account')
  BY <1>17, <1>a DEF GoogleFindEmail, tables
<1>18. ASSUME NEW r \in Requests, NEW c \in sessions, NEW g \in Googles, NEW e \in Emails,
             GoogleConnect(r, c, g, e)
      PROVE  Advances(account, account')
  BY <1>18, <1>a DEF GoogleConnect, tables
<1>19. ASSUME NEW r \in Requests, GoogleFind(r) PROVE Advances(account, account')
  BY <1>19, <1>a DEF GoogleFind, tables
<1>20. ASSUME NEW r \in Requests, GoogleLink(r) PROVE Advances(account, account')
  BY <1>20, <1>a DEF GoogleLink, tables
<1>21. ASSUME NEW r \in Requests, GoogleCreate(r) PROVE Advances(account, account')
  BY <1>21, <1>a DEF GoogleCreate, At, Goto, Done, InsertAccount, NewAccount, Advances,
     Known, TypeOK, AccountRow
<1>22. ASSUME NEW r \in Requests, GoogleRole(r) PROVE Advances(account, account')
  BY <1>22, <1>a DEF GoogleRole, tables
<1>23. ASSUME NEW r \in Requests, NEW c \in sessions,
             GoogleDisconnect(r, c)
      PROVE  Advances(account, account')
  BY <1>23, <1>a DEF GoogleDisconnect, tables
<1>24. ASSUME NEW r \in Requests, NEW c \in sessions, NEW a \in AccountIds, NEW i \in Rows,
             InsertRow(r, c, i, a)
      PROVE  Advances(account, account')
  BY <1>24, <1>a DEF InsertRow, tables
<1>25. ASSUME NEW r \in Requests, NEW c \in sessions, NEW a \in AccountIds, NEW w \in Addrs,
             CreateProfile(r, c, a, w)
      PROVE  Advances(account, account')
  BY <1>25, <1>a DEF CreateProfile, InsertAccount, NewAccount, Advances, Known, TypeOK,
     AccountRow
<1>26. ASSUME NEW r \in Requests, Lost(r) PROVE Advances(account, account')
  BY <1>26, <1>a DEF Lost, tables
<1>27. CASE UNCHANGED vars
  BY <1>27, <1>a DEF vars, tables
<1> QED
  BY <1>1, <1>2, <1>3, <1>4, <1>5, <1>6, <1>7, <1>8, <1>9, <1>10, <1>11, <1>12, <1>13,
     <1>14, <1>15, <1>16, <1>17, <1>18, <1>19, <1>20, <1>21, <1>22, <1>23, <1>24,
     <1>25, <1>26, <1>27
     DEF Next, WalletNext, GoogleNext

LEMMA LiveRow == ASSUME NEW p \in AccountRow PROVE [p EXCEPT !.status = "live"] \in AccountRow
BY DEF AccountRow

LEMMA AddrRow ==
  ASSUME NEW p \in AccountRow, NEW w \in Addrs PROVE [p EXCEPT !.addr = w] \in AccountRow
BY DEF AccountRow

LEMMA CreatorRow ==
  ASSUME NEW p \in AccountRow, NEW c \in AccountIds \cup {None} PROVE [p EXCEPT !.creator = c] \in AccountRow
BY DEF AccountRow

LEMMA ExistsRow == ASSUME NEW p \in PrivateRow PROVE [p EXCEPT !.exists = TRUE] \in PrivateRow
BY DEF PrivateRow

LEMMA GoogleRow ==
  ASSUME NEW p \in PrivateRow, NEW g \in Googles, NEW e \in Emails
  PROVE  [p EXCEPT !.google = g, !.google_email = e] \in PrivateRow
BY DEF PrivateRow

LEMMA NewRows == NewAccount \in AccountRow /\ EmptyPrivate \in PrivateRow
<1>1. NewAccount \in AccountRow
  BY ConstantsAssumption DEF NewAccount, AccountRow
<1>2. NoPrivate \in PrivateRow
  BY DEF NoPrivate, PrivateRow
<1> QED
  BY <1>1, <1>2, ExistsRow DEF EmptyPrivate

LEMMA Nonced ==
  ASSUME TypeOK, NEW a \in AccountIds, NEW valid \in BOOLEAN
  PROVE  Signed(a, valid) \in Nonces \cup {None} /\ Nonce(a) \in Nonces
BY DEF TypeOK, Signed, Nonce, Nonces, AccountRow

\* What a request at each statement knows.
LEMMA Knows ==
  ASSUME TypeOK, RequestOK, NEW r \in Requests
  PROVE  LET q == req[r]
         IN /\ q \in Request
            /\ q.pc \in HasAccount => q.acct \in AccountIds /\ Known(account, q.acct)
            /\ q.pc \in HasAddr => q.addr \in Addrs
            /\ q.pc \in HasRead => q.read \in Nonces
            /\ q.pc \in {"gFind", "gLink", "gCreate"} => q.google \in Googles /\ q.email \in Emails
<1> DEFINE q == req[r]
<1>1. q \in Request /\ Sound(account, q)
  BY DEF TypeOK, RequestOK
<1> HIDE DEF q
<1>2. q.pc \in HasAccount => q.acct \in AccountIds /\ Known(account, q.acct)
  BY <1>1 DEF Request, Sound
<1>3. q.pc \in HasRead => q.read \in Nonces
  <2>1. HasRead \subseteq HasAccount
    BY DEF HasRead, HasAccount
  <2> QED
    BY <1>1, <1>2, <2>1 DEF Sound, Nonces
<1> QED
  BY <1>1, <1>2, <1>3 DEF Request, Sound, q

LEMMA Requested ==
  ASSUME TypeOK, NEW r \in Requests, NEW q \in Request, Goto(r, q)
  PROVE  req' \in [Requests -> Request]
BY DEF TypeOK, Goto

LEMMA Finished ==
  ASSUME TypeOK, NEW r \in Requests, Done(r)
  PROVE  req' \in [Requests -> Request]
BY DEF TypeOK, Done, Idle, Request, Pcs

LEMMA TypeStep ==
  ASSUME TypeOK, RequestOK, [Next]_vars
  PROVE  TypeOK'
<1>1. ASSUME NEW r \in Requests, NEW w \in Addrs, NEW valid \in BOOLEAN,
             KeplrFind(r, w, valid)
      PROVE  TypeOK'
  <2>1. \E q \in Request : Goto(r, q)
    BY <1>1, Nonced DEF KeplrFind, ByAddr, Idle, Request, Pcs, TypeOK
  <2> QED
    BY <1>1, <2>1, Requested DEF KeplrFind, tables, TypeOK
<1>2. ASSUME NEW r \in Requests, NEW c \in sessions, NEW w \in Addrs, NEW valid \in BOOLEAN,
             ConnectFind(r, c, w, valid)
      PROVE  TypeOK'
  <2>1. \E q \in Request : Goto(r, q)
    BY <1>2, Nonced DEF ConnectFind, ByAddr, Idle, Request, Pcs, TypeOK
  <2> QED
    BY <1>2, <2>1, Requested DEF ConnectFind, tables, TypeOK
<1>3. ASSUME NEW r \in Requests, NEW c \in sessions, NEW w \in Addrs, NEW valid \in BOOLEAN, NEW keep \in BOOLEAN,
             MergeFind(r, c, w, valid, keep)
      PROVE  TypeOK'
  <2>1. \E q \in Request : Goto(r, q)
    BY <1>3, Nonced DEF MergeFind, ByAddr, Idle, Request, Pcs, TypeOK
  <2> QED
    BY <1>3, <2>1, Requested DEF MergeFind, tables, TypeOK
<1>4. ASSUME NEW r \in Requests, KeplrRotate(r) PROVE TypeOK'
  <2>1. (\E q \in Request : Goto(r, q)) \/ Done(r)
    BY <1>4, Knows, Nonced DEF KeplrRotate, At, RotateNonce, Verified, Live,
       HasAccount, HasAddr, HasRead, Idle, Request, Pcs
  <2>2. req' \in [Requests -> Request]
    BY <2>1, Requested, Finished
  <2> QED
    BY <1>4, <2>2, Knows, ConstantsAssumption DEF KeplrRotate, At, RotateNonce,
       Verified, Live, HasAccount, HasAddr, HasRead, tables, AccountRow, TypeOK
<1>5. ASSUME NEW r \in Requests, KeplrUnsetCreator(r) PROVE TypeOK'
  <2>1. (\E q \in Request : Goto(r, q)) \/ Done(r)
    BY <1>5, Knows, Nonced DEF KeplrUnsetCreator, At, HasAccount, HasAddr, HasRead,
       Idle, Request, Pcs
  <2>2. req' \in [Requests -> Request]
    BY <2>1, Requested, Finished
  <2> QED
    BY <1>5, <2>2, Knows, ConstantsAssumption DEF KeplrUnsetCreator, At, HasAccount,
       HasAddr, HasRead, tables, AccountRow, TypeOK
<1>6. ASSUME NEW r \in Requests, KeplrInsertPrivate(r) PROVE TypeOK'
  <2>1. req[r].pc = "kPrivate" /\ req[r] \in Request /\ req[r].acct \in AccountIds
    BY <1>6, Knows DEF KeplrInsertPrivate, At, HasAccount
  <2>2. (\E q \in Request : Goto(r, q)) \/ Done(r)
    BY <1>6, <2>1 DEF KeplrInsertPrivate, Request, Pcs
  <2>3. req' \in [Requests -> Request]
    BY <2>2, Requested, Finished
  <2>4. /\ [private[req[r].acct] EXCEPT !.exists = TRUE] \in PrivateRow
        /\ \/ private' = private
           \/ private' = [private EXCEPT ![req[r].acct] = [private[req[r].acct] EXCEPT !.exists = TRUE]]
    BY <1>6, <2>1, ExistsRow DEF KeplrInsertPrivate, TypeOK
  <2>5. private' \in [AccountIds -> PrivateRow]
    BY <2>1, <2>4 DEF TypeOK
  <2> QED
    BY <1>6, <2>3, <2>5 DEF KeplrInsertPrivate, TypeOK
<1>7. ASSUME NEW r \in Requests, KeplrRole(r) PROVE TypeOK'
  <2>1. (\E q \in Request : Goto(r, q)) \/ Done(r)
    BY <1>7, Knows, Nonced DEF KeplrRole, At, CreateAuthUser, HasAccount, HasAddr,
       HasRead, Idle, Request, Pcs
  <2>2. req' \in [Requests -> Request]
    BY <2>1, Requested, Finished
  <2> QED
    BY <1>7, <2>2, Knows, ConstantsAssumption DEF KeplrRole, At, CreateAuthUser,
       HasAccount, HasAddr, HasRead, tables, TypeOK
<1>8. ASSUME NEW r \in Requests, KeplrCreate(r) PROVE TypeOK'
  <2>1. req[r].pc = "kCreate" /\ req[r] \in Request /\ req[r].addr \in Addrs
    BY <1>8, Knows DEF KeplrCreate, At, HasAddr
  <2>2. \E q \in Request : Goto(r, q)
    BY <1>8, <2>1 DEF KeplrCreate, Request, Pcs
  <2>3. req' \in [Requests -> Request]
    BY <2>2, Requested
  <2>4. EmptyPrivate \in PrivateRow
    BY NewRows
  <2>5. [NewAccount EXCEPT !.status = "live", !.addr = req[r].addr] \in AccountRow
    BY <2>1, NewRows, LiveRow, AddrRow
  <2>6. PICK a \in AccountIds :
          \/ /\ account' = [account EXCEPT ![a] = [account[a] EXCEPT !.creator = None]]
             /\ private' = [private EXCEPT ![a] = [private[a] EXCEPT !.exists = TRUE]]
          \/ /\ account' = [account EXCEPT ![a] = [NewAccount EXCEPT !.status = "live", !.addr = req[r].addr]]
             /\ private' = [private EXCEPT ![a] = EmptyPrivate]
    BY <1>8 DEF KeplrCreate, ByAddr, InsertAccount
  <2>7. account' \in [AccountIds -> AccountRow]
    <3>1. [account[a] EXCEPT !.creator = None] \in AccountRow
      BY CreatorRow DEF TypeOK
    <3> QED
      BY <2>5, <2>6, <3>1 DEF TypeOK
  <2>8. private' \in [AccountIds -> PrivateRow]
    BY <2>4, <2>6, ExistsRow DEF TypeOK
  <2> QED
    BY <1>8, <2>3, <2>7, <2>8 DEF KeplrCreate, TypeOK
<1>9. ASSUME NEW r \in Requests, KeplrReselect(r) PROVE TypeOK'
  <2>1. (\E q \in Request : Goto(r, q)) \/ Done(r)
    BY <1>9, Knows, Nonced DEF KeplrReselect, At, ByAddr, HasAccount, HasAddr, HasRead,
       Idle, Request, Pcs
  <2>2. req' \in [Requests -> Request]
    BY <2>1, Requested, Finished
  <2> QED
    BY <1>9, <2>2, Knows, ConstantsAssumption DEF KeplrReselect, At, ByAddr,
       HasAccount, HasAddr, HasRead, tables, TypeOK
<1>10. ASSUME NEW r \in Requests, ConnectReadNonce(r) PROVE TypeOK'
  <2>1. (\E q \in Request : Goto(r, q)) \/ Done(r)
    BY <1>10, Knows, Nonced DEF ConnectReadNonce, At, Live, Nonce, HasAccount, HasAddr,
       HasRead, Idle, Request, Pcs
  <2>2. req' \in [Requests -> Request]
    BY <2>1, Requested, Finished
  <2> QED
    BY <1>10, <2>2, Knows, ConstantsAssumption DEF ConnectReadNonce, At, Live, Nonce,
       HasAccount, HasAddr, HasRead, tables, TypeOK
<1>11. ASSUME NEW r \in Requests, ConnectRotate(r) PROVE TypeOK'
  <2>1. (\E q \in Request : Goto(r, q)) \/ Done(r)
    BY <1>11, Knows, Nonced DEF ConnectRotate, At, RotateNonce, Verified, Live,
       HasAccount, HasAddr, HasRead, Idle, Request, Pcs
  <2>2. req' \in [Requests -> Request]
    BY <2>1, Requested, Finished
  <2> QED
    BY <1>11, <2>2, Knows, ConstantsAssumption DEF ConnectRotate, At, RotateNonce,
       Verified, Live, HasAccount, HasAddr, HasRead, tables, AccountRow, TypeOK
<1>12. ASSUME NEW r \in Requests, ConnectSetAddr(r) PROVE TypeOK'
  <2>1. (\E q \in Request : Goto(r, q)) \/ Done(r)
    BY <1>12, Knows, Nonced DEF ConnectSetAddr, At, Live, ByAddr, HasAccount, HasAddr,
       HasRead, Idle, Request, Pcs
  <2>2. req' \in [Requests -> Request]
    BY <2>1, Requested, Finished
  <2> QED
    BY <1>12, <2>2, Knows, ConstantsAssumption DEF ConnectSetAddr, At, Live, ByAddr,
       HasAccount, HasAddr, HasRead, tables, AccountRow, TypeOK
<1>13. ASSUME NEW r \in Requests, MergeCheckPrivate(r) PROVE TypeOK'
  <2>1. (\E q \in Request : Goto(r, q)) \/ Done(r)
    BY <1>13, Knows, Nonced DEF MergeCheckPrivate, At, HasAccount, HasAddr, HasRead,
       Idle, Request, Pcs
  <2>2. req' \in [Requests -> Request]
    BY <2>1, Requested, Finished
  <2> QED
    BY <1>13, <2>2, Knows, ConstantsAssumption DEF MergeCheckPrivate, At, HasAccount,
       HasAddr, HasRead, tables, TypeOK
<1>14. ASSUME NEW r \in Requests, MergeReadNonce(r) PROVE TypeOK'
  <2>1. (\E q \in Request : Goto(r, q)) \/ Done(r)
    BY <1>14, Knows, Nonced DEF MergeReadNonce, At, Live, Nonce, HasAccount, HasAddr,
       HasRead, Idle, Request, Pcs
  <2>2. req' \in [Requests -> Request]
    BY <2>1, Requested, Finished
  <2> QED
    BY <1>14, <2>2, Knows, ConstantsAssumption DEF MergeReadNonce, At, Live, Nonce,
       HasAccount, HasAddr, HasRead, tables, TypeOK
<1>15. ASSUME NEW r \in Requests, MergeCommit(r) PROVE TypeOK'
  <2>1. account' \in [AccountIds -> AccountRow]
    BY <1>15, MergeAccounts
  <2>2. /\ At(r, "mMerge") /\ role' = role \ {From(req[r])} /\ s3_deletion' = s3_deletion \cup {From(req[r])}
        /\ sessions' = (IF req[r].keep THEN sessions ELSE sessions \cup {req[r].wallet})
        /\ spent' = spent \cup {req[r].nonce} /\ req[r].nonce = req[r].read
        /\ private' = MigratedPrivate(req[r]) /\ owner' = MigratedOwner(From(req[r]), To(req[r]))
        /\ Done(r)
    BY <1>15 DEF MergeCommit, Verified
  <2>3. /\ req[r].wallet \in AccountIds /\ req[r].read \in Nonces
        /\ From(req[r]) \in AccountIds /\ To(req[r]) \in AccountIds
    BY <2>2, MergeNames
  <2>4. private' \in [AccountIds -> PrivateRow]
    BY <2>2, <2>3 DEF MigratedPrivate, NoPrivate, PrivateRow, TypeOK
  <2>5. owner' \in [Rows -> AccountIds \cup {None}]
    BY <2>2, <2>3 DEF MigratedOwner, Moved, TypeOK
  <2>6. req' \in [Requests -> Request]
    BY <2>2, Finished
  <2> QED
    BY <2>1, <2>2, <2>3, <2>4, <2>5, <2>6 DEF TypeOK
<1>16. ASSUME NEW r \in Requests, MergeRollback(r) PROVE TypeOK'
  <2>1. (\E q \in Request : Goto(r, q)) \/ Done(r)
    BY <1>16, Knows, Nonced DEF MergeRollback, At, RotateNonce, Verified, Live,
       HasAccount, HasAddr, HasRead, Idle, Request, Pcs
  <2>2. req' \in [Requests -> Request]
    BY <2>1, Requested, Finished
  <2> QED
    BY <1>16, <2>2, Knows, ConstantsAssumption DEF MergeRollback, At, RotateNonce,
       Verified, Live, HasAccount, HasAddr, HasRead, tables, AccountRow, TypeOK
<1>17. ASSUME NEW r \in Requests, NEW g \in Googles, NEW e \in Emails,
             GoogleFindEmail(r, g, e)
      PROVE  TypeOK'
  <2>1. \E q \in Request : Goto(r, q)
    BY <1>17 DEF GoogleFindEmail, Idle, Request, Pcs
  <2> QED
    BY <1>17, <2>1, Requested DEF GoogleFindEmail, tables, TypeOK
<1>18. ASSUME NEW r \in Requests, NEW c \in sessions, NEW g \in Googles, NEW e \in Emails,
             GoogleConnect(r, c, g, e)
      PROVE  TypeOK'
  BY <1>18 DEF GoogleConnect, PrivateRow, TypeOK
<1>19. ASSUME NEW r \in Requests, GoogleFind(r) PROVE TypeOK'
  <2>1. (\E q \in Request : Goto(r, q)) \/ Done(r)
    BY <1>19, Knows, Nonced DEF GoogleFind, At, HasAccount, HasAddr, HasRead, Idle,
       Request, Pcs
  <2>2. req' \in [Requests -> Request]
    BY <2>1, Requested, Finished
  <2> QED
    BY <1>19, <2>2, Knows, ConstantsAssumption DEF GoogleFind, At, HasAccount, HasAddr,
       HasRead, tables, TypeOK
<1>20. ASSUME NEW r \in Requests, GoogleLink(r) PROVE TypeOK'
  <2>1. req[r].pc = "gLink" /\ req[r].acct \in AccountIds /\ req[r].google \in Googles /\ req[r].email \in Emails
    BY <1>20, Knows DEF GoogleLink, At, HasAccount
  <2>2. req' \in [Requests -> Request]
    BY <1>20, Finished DEF GoogleLink
  <2>3. ASSUME NEW a \in AccountIds
        PROVE  [private[a] EXCEPT !.google = req[r].google, !.google_email = req[r].email] \in PrivateRow
    BY <2>1, GoogleRow DEF TypeOK
  <2>4. private' \in [AccountIds -> PrivateRow]
    BY <1>20, <2>3 DEF GoogleLink, TypeOK
  <2> QED
    BY <1>20, <2>1, <2>2, <2>4 DEF GoogleLink, TypeOK
<1>21. ASSUME NEW r \in Requests, GoogleCreate(r) PROVE TypeOK'
  <2>1. req[r].pc = "gCreate" /\ req[r] \in Request /\ req[r].google \in Googles /\ req[r].email \in Emails
    BY <1>21, Knows DEF GoogleCreate, At
  <2>2. (\E q \in Request : Goto(r, q)) \/ Done(r)
    BY <1>21, <2>1 DEF GoogleCreate, Request, Pcs
  <2>3. req' \in [Requests -> Request]
    BY <2>2, Requested, Finished
  <2>4. [exists |-> TRUE, email |-> req[r].email, google |-> req[r].google, google_email |-> req[r].email]
          \in PrivateRow
    BY <2>1 DEF PrivateRow
  <2>5. [NewAccount EXCEPT !.status = "live"] \in AccountRow
    BY NewRows, LiveRow
  <2>6. account' \in [AccountIds -> AccountRow] /\ private' \in [AccountIds -> PrivateRow]
    BY <1>21, <2>4, <2>5 DEF GoogleCreate, InsertAccount, TypeOK
  <2> QED
    BY <1>21, <2>3, <2>6 DEF GoogleCreate, TypeOK
<1>22. ASSUME NEW r \in Requests, GoogleRole(r) PROVE TypeOK'
  <2>1. (\E q \in Request : Goto(r, q)) \/ Done(r)
    BY <1>22, Knows, Nonced DEF GoogleRole, At, CreateAuthUser, HasAccount, HasAddr,
       HasRead, Idle, Request, Pcs
  <2>2. req' \in [Requests -> Request]
    BY <2>1, Requested, Finished
  <2> QED
    BY <1>22, <2>2, Knows, ConstantsAssumption DEF GoogleRole, At, CreateAuthUser,
       HasAccount, HasAddr, HasRead, tables, TypeOK
<1>23. ASSUME NEW r \in Requests, NEW c \in sessions, GoogleDisconnect(r, c) PROVE TypeOK'
  BY <1>23 DEF GoogleDisconnect, PrivateRow, TypeOK
<1>24. ASSUME NEW r \in Requests, NEW c \in sessions, NEW a \in AccountIds, NEW i \in Rows,
             InsertRow(r, c, i, a)
      PROVE  TypeOK'
  BY <1>24 DEF InsertRow, TypeOK
<1>25. ASSUME NEW r \in Requests, NEW c \in sessions, NEW a \in AccountIds, NEW w \in Addrs,
             CreateProfile(r, c, a, w)
      PROVE  TypeOK'
  <2>1. [NewAccount EXCEPT !.status = "live", !.addr = w, !.creator = c] \in AccountRow
    BY NewRows, LiveRow, AddrRow, CreatorRow DEF TypeOK
  <2>2. account' \in [AccountIds -> AccountRow]
    BY <1>25, <2>1 DEF CreateProfile, InsertAccount, TypeOK
  <2> QED
    BY <1>25, <2>2 DEF CreateProfile, TypeOK
<1>26. ASSUME NEW r \in Requests, Lost(r) PROVE TypeOK'
  BY <1>26, Finished DEF Lost, tables, TypeOK
<1>27. CASE UNCHANGED vars
  BY <1>27 DEF vars, tables, TypeOK
<1> QED
  BY <1>1, <1>2, <1>3, <1>4, <1>5, <1>6, <1>7, <1>8, <1>9, <1>10, <1>11, <1>12, <1>13,
     <1>14, <1>15, <1>16, <1>17, <1>18, <1>19, <1>20, <1>21, <1>22, <1>23, <1>24,
     <1>25, <1>26, <1>27
     DEF Next, WalletNext, GoogleNext

-----------------------------------------------------------------------------
(* The steps keep what requests know *)

LEMMA Later ==
  ASSUME TypeOK, TypeOK', Advances(account, account'), NEW q \in Request, Sound(account, q)
  PROVE  Sound(account', q)
<1>1. (q.acct # None => Known(account', q.acct)) /\ (q.wallet # None => Known(account', q.wallet))
  BY DEF Sound, Advances, Request
<1>2. ASSUME q.pc \in HasRead
      PROVE  \E n \in 0 .. MaxEpoch :
               q.read = <<q.acct, n>> /\ (account'[q.acct].status = "live" => n <= account'[q.acct].epoch)
  <2>1. q.acct \in AccountIds /\ Known(account, q.acct)
    BY <1>2 DEF Sound, HasRead, HasAccount, Request
  <2>2. PICK n \in 0 .. MaxEpoch :
          q.read = <<q.acct, n>> /\ (account[q.acct].status = "live" => n <= account[q.acct].epoch)
    BY <1>2 DEF Sound
  <2>3. account[q.acct].epoch \in Int /\ account'[q.acct].epoch \in Int
    BY <2>1, ConstantsAssumption DEF TypeOK, AccountRow
  <2> QED
    BY <2>1, <2>2, <2>3 DEF Advances
<1> QED
  BY <1>1, <1>2 DEF Sound

\* A request that goes on without selecting a nonce.
LEMMA Onward ==
  ASSUME NEW t, NEW q \in Request, Sound(t, q), NEW p, p \notin HasRead, p \notin {"gFind", "gLink"},
         p \in HasAccount => q.pc \in HasAccount, p \in HasAddr => q.pc \in HasAddr,
         p \in {"mCheck", "mNonce"} => q.pc = "mCheck", p = "gCreate" => q.pc = "gFind"
  PROVE  Sound(t, [q EXCEPT !.pc = p])
BY DEF Sound, Request, HasRead

\* A request that has selected the nonce its signature is compared with.
LEMMA Selected ==
  ASSUME TypeOK, NEW q \in Request, Sound(account, q), q.pc \in {"cNonce", "mNonce"}
  PROVE  /\ q.pc = "cNonce" => Sound(account, [q EXCEPT !.pc = "cRotate", !.read = Nonce(q.acct)])
         /\ q.pc = "mNonce" => Sound(account, [q EXCEPT !.pc = "mMerge", !.read = Nonce(q.acct)])
<1>1. q.acct \in AccountIds
  BY DEF Sound, Request, HasAccount
<1>2. account[q.acct].epoch \in 0 .. MaxEpoch
  BY <1>1 DEF TypeOK, AccountRow
<1> QED
  BY <1>2, ConstantsAssumption DEF Sound, Request, Nonce, HasAccount, HasAddr, HasRead

LEMMA Undisturbed ==
  ASSUME TypeOK, TypeOK', RequestOK, Advances(account, account'), UNCHANGED req
  PROVE  RequestOK'
BY Later DEF RequestOK, TypeOK

LEMMA Served ==
  ASSUME TypeOK, TypeOK', RequestOK, Advances(account, account'),
         NEW r \in Requests, NEW q, Goto(r, q), Sound(account', q)
  PROVE  RequestOK'
<1> SUFFICES ASSUME NEW x \in Requests PROVE Sound(account', req'[x])
  BY DEF RequestOK
<1>1. CASE x = r
  BY <1>1 DEF Goto, TypeOK
<1>2. CASE x # r
  BY <1>2, Later DEF Goto, TypeOK, RequestOK
<1> QED
  BY <1>1, <1>2

LEMMA Ended ==
  ASSUME TypeOK, TypeOK', RequestOK, Advances(account, account'), NEW r \in Requests, Done(r)
  PROVE  RequestOK'
<1>1. Sound(account', Idle)
  BY DEF Sound, Idle, HasAccount, HasAddr, HasRead
<1> QED
  BY <1>1, Served DEF Done, Goto

LEMMA RequestStep ==
  ASSUME IInv, [Next]_vars
  PROVE  RequestOK'
<1>a. TypeOK /\ TypeOK' /\ RequestOK /\ Advances(account, account')
  BY TypeStep, AccountStep DEF IInv
<1>b. SpentOK /\ NamesOK /\ TablesOK
  BY DEF IInv
<1>1. ASSUME NEW r \in Requests, NEW w \in Addrs, NEW valid \in BOOLEAN,
             KeplrFind(r, w, valid)
      PROVE  RequestOK'
  <2>1. \A a \in ByAddr(w) : a \in AccountIds /\ Known(account, a)
    BY <1>b, ConstantsAssumption DEF ByAddr, TablesOK, AccountsOK, Known
  <2>2. ASSUME NEW a \in ByAddr(w), NEW n
        PROVE  Sound(account, [Idle EXCEPT !.pc = "kRotate", !.acct = a, !.nonce = n, !.read = Nonce(a)])
    <3>1. account[a].epoch \in 0 .. MaxEpoch
      BY <1>a, <2>1 DEF TypeOK, AccountRow
    <3> QED
      BY <2>1, <3>1, ConstantsAssumption DEF Nonce, Sound, Idle, HasAccount, HasAddr, HasRead
  <2>3. Sound(account, [Idle EXCEPT !.pc = "kCreate", !.addr = w])
    BY ConstantsAssumption DEF Sound, Idle, HasAccount, HasAddr, HasRead
  <2> QED
    BY <1>1, <1>a, <2>2, <2>3, Served DEF KeplrFind, tables
<1>2. ASSUME NEW r \in Requests, NEW c \in sessions, NEW w \in Addrs, NEW valid \in BOOLEAN,
             ConnectFind(r, c, w, valid)
      PROVE  RequestOK'
  <2>1. c \in AccountIds /\ Known(account, c)
    BY <1>a, <1>b DEF TypeOK, NamesOK
  <2>2. Sound(account, [Idle EXCEPT !.pc = "cNonce", !.acct = c, !.addr = w, !.nonce = Signed(c, valid)])
    BY <2>1, ConstantsAssumption DEF Sound, Idle, HasAccount, HasAddr, HasRead
  <2> QED
    BY <1>2, <1>a, <2>2, Served DEF ConnectFind, tables
<1>3. ASSUME NEW r \in Requests, NEW c \in sessions, NEW w \in Addrs, NEW valid \in BOOLEAN, NEW keep \in BOOLEAN,
             MergeFind(r, c, w, valid, keep)
      PROVE  RequestOK'
  <2>1. c \in AccountIds /\ Known(account, c)
    BY <1>a, <1>b DEF TypeOK, NamesOK
  <2>2. \A a \in ByAddr(w) : a \in AccountIds /\ Known(account, a)
    BY <1>b, ConstantsAssumption DEF ByAddr, TablesOK, AccountsOK, Known
  <2>3. ASSUME NEW a \in ByAddr(w)
        PROVE  Sound(account, [Idle EXCEPT !.pc = "mCheck", !.acct = c, !.wallet = a, !.addr = w,
                                           !.nonce = Signed(c, valid), !.keep = keep])
    BY <2>1, <2>2, ConstantsAssumption DEF Sound, Idle, HasAccount, HasAddr, HasRead
  <2> QED
    BY <1>3, <1>a, <2>3, Served DEF MergeFind, tables
<1>4. ASSUME NEW r \in Requests, KeplrRotate(r) PROVE RequestOK'
  <2>1. req[r].acct \in AccountIds /\ Known(account', req[r].acct)
    BY <1>4, <1>a, Knows DEF KeplrRotate, At, HasAccount, Advances
  <2>2. Sound(account', [Idle EXCEPT !.pc = "kCreator", !.acct = req[r].acct])
    BY <2>1, ConstantsAssumption DEF Sound, Idle, HasAccount, HasAddr, HasRead
  <2> QED
    BY <1>4, <1>a, <2>2, Served, Ended DEF KeplrRotate
<1>5. ASSUME NEW r \in Requests, KeplrUnsetCreator(r) PROVE RequestOK'
  <2>1. req[r] \in Request /\ req[r].pc = "kCreator" /\ Sound(account', req[r])
    BY <1>5, <1>a, Later DEF KeplrUnsetCreator, At, TypeOK, RequestOK
  <2>2. Sound(account', [req[r] EXCEPT !.pc = "kPrivate"])
    BY <2>1, Onward DEF HasAccount, HasAddr, HasRead
  <2> QED
    BY <1>5, <1>a, <2>2, Served DEF KeplrUnsetCreator
<1>6. ASSUME NEW r \in Requests, KeplrInsertPrivate(r) PROVE RequestOK'
  <2>1. req[r] \in Request /\ req[r].pc = "kPrivate" /\ Sound(account', req[r])
    BY <1>6, <1>a, Later DEF KeplrInsertPrivate, At, TypeOK, RequestOK
  <2>2. Sound(account', [req[r] EXCEPT !.pc = "kRole"])
    BY <2>1, Onward DEF HasAccount, HasAddr, HasRead
  <2> QED
    BY <1>6, <1>a, <2>2, Served, Ended DEF KeplrInsertPrivate
<1>7. ASSUME NEW r \in Requests, KeplrRole(r) PROVE RequestOK'
  BY <1>7, <1>a, Ended DEF KeplrRole, CreateAuthUser
<1>8. ASSUME NEW r \in Requests, KeplrCreate(r) PROVE RequestOK'
  <2>1. req[r] \in Request /\ req[r].pc = "kCreate" /\ Sound(account', req[r])
    BY <1>8, <1>a, Later DEF KeplrCreate, At, TypeOK, RequestOK
  <2>2. Sound(account', [req[r] EXCEPT !.pc = "kReselect"])
    BY <2>1, Onward DEF HasAccount, HasAddr, HasRead
  <2> QED
    BY <1>8, <1>a, <2>2, Served DEF KeplrCreate
<1>9. ASSUME NEW r \in Requests, KeplrReselect(r) PROVE RequestOK'
  <2>1. \A a \in ByAddr(req[r].addr) : a \in AccountIds /\ Known(account, a)
    <3>1. req[r].addr \in Addrs
      BY <1>9, <1>a, Knows DEF KeplrReselect, At, HasAddr
    <3> QED
      BY <1>b, <3>1, ConstantsAssumption DEF ByAddr, TablesOK, AccountsOK, Known
  <2>2. ASSUME NEW a \in ByAddr(req[r].addr)
        PROVE  Sound(account, [Idle EXCEPT !.pc = "kRole", !.acct = a])
    BY <2>1, ConstantsAssumption DEF Sound, Idle, HasAccount, HasAddr, HasRead
  <2> QED
    BY <1>9, <1>a, <2>2, Served, Ended DEF KeplrReselect, tables
<1>10. ASSUME NEW r \in Requests, ConnectReadNonce(r) PROVE RequestOK'
  <2>1. /\ req[r] \in Request /\ req[r].pc = "cNonce" /\ Sound(account, req[r])
        /\ account' = account
    BY <1>10, <1>a DEF ConnectReadNonce, At, TypeOK, RequestOK, tables
  <2>2. Sound(account, [req[r] EXCEPT !.pc = "cRotate", !.read = Nonce(req[r].acct)])
    BY <1>a, <2>1, Selected
  <2> QED
    BY <1>10, <1>a, <2>1, <2>2, Served, Ended DEF ConnectReadNonce
<1>11. ASSUME NEW r \in Requests, ConnectRotate(r) PROVE RequestOK'
  <2>1. /\ req[r].acct \in AccountIds /\ Known(account', req[r].acct)
        /\ req[r].addr \in Addrs
    BY <1>11, <1>a, Knows DEF ConnectRotate, At, HasAccount, HasAddr, Advances
  <2>2. Sound(account', [Idle EXCEPT !.pc = "cAddr", !.acct = req[r].acct, !.addr = req[r].addr])
    BY <2>1, ConstantsAssumption DEF Sound, Idle, HasAccount, HasAddr, HasRead
  <2> QED
    BY <1>11, <1>a, <2>2, Served, Ended DEF ConnectRotate
<1>12. ASSUME NEW r \in Requests, ConnectSetAddr(r) PROVE RequestOK'
  BY <1>12, <1>a, Ended DEF ConnectSetAddr
<1>13. ASSUME NEW r \in Requests, MergeCheckPrivate(r) PROVE RequestOK'
  <2>1. req[r] \in Request /\ req[r].pc = "mCheck" /\ Sound(account', req[r])
    BY <1>13, <1>a, Later DEF MergeCheckPrivate, At, TypeOK, RequestOK
  <2>2. Sound(account', [req[r] EXCEPT !.pc = "mNonce"])
    BY <2>1, Onward DEF HasAccount, HasAddr, HasRead
  <2> QED
    BY <1>13, <1>a, <2>2, Served, Ended DEF MergeCheckPrivate
<1>14. ASSUME NEW r \in Requests, MergeReadNonce(r) PROVE RequestOK'
  <2>1. /\ req[r] \in Request /\ req[r].pc = "mNonce" /\ Sound(account, req[r])
        /\ account' = account
    BY <1>14, <1>a DEF MergeReadNonce, At, TypeOK, RequestOK, tables
  <2>2. Sound(account, [req[r] EXCEPT !.pc = "mMerge", !.read = Nonce(req[r].acct)])
    BY <1>a, <2>1, Selected
  <2> QED
    BY <1>14, <1>a, <2>1, <2>2, Served, Ended DEF MergeReadNonce
<1>15. ASSUME NEW r \in Requests, MergeCommit(r) PROVE RequestOK'
  BY <1>15, <1>a, Ended DEF MergeCommit
<1>16. ASSUME NEW r \in Requests, MergeRollback(r) PROVE RequestOK'
  BY <1>16, <1>a, Ended DEF MergeRollback
<1>17. ASSUME NEW r \in Requests, NEW g \in Googles, NEW e \in Emails,
             GoogleFindEmail(r, g, e)
      PROVE  RequestOK'
  <2>1. \A a \in AccountIds : private[a].email = e => Known(account, a)
    BY <1>b, ConstantsAssumption DEF TablesOK, PrivatesOK, Linked, Known
  <2>2. ASSUME NEW a \in AccountIds, private[a].email = e
        PROVE  Sound(account, [Idle EXCEPT !.pc = "gFind", !.acct = a, !.google = g, !.email = e])
    BY <2>1, <2>2, ConstantsAssumption DEF Sound, Idle, HasAccount, HasAddr, HasRead
  <2>3. Sound(account, [Idle EXCEPT !.pc = "gFind", !.google = g, !.email = e])
    BY ConstantsAssumption DEF Sound, Idle, HasAccount, HasAddr, HasRead
  <2> QED
    BY <1>17, <1>a, <2>2, <2>3, Served DEF GoogleFindEmail, tables
<1>18. ASSUME NEW r \in Requests, NEW c \in sessions, NEW g \in Googles, NEW e \in Emails,
             GoogleConnect(r, c, g, e)
      PROVE  RequestOK'
  BY <1>18, <1>a, Undisturbed DEF GoogleConnect
<1>19. ASSUME NEW r \in Requests, GoogleFind(r) PROVE RequestOK'
  <2>1. req[r] \in Request /\ req[r].pc = "gFind" /\ Sound(account, req[r])
    BY <1>19, <1>a DEF GoogleFind, At, TypeOK, RequestOK
  <2>2. req[r].acct # None => Sound(account, [req[r] EXCEPT !.pc = "gLink"])
    BY <2>1 DEF Sound, Request, HasAccount, HasAddr, HasRead
  <2>3. Sound(account, [req[r] EXCEPT !.pc = "gCreate"])
    BY <2>1, Onward DEF HasAccount, HasAddr, HasRead
  <2> QED
    BY <1>19, <1>a, <2>2, <2>3, Served, Ended DEF GoogleFind, tables
<1>20. ASSUME NEW r \in Requests, GoogleLink(r) PROVE RequestOK'
  BY <1>20, <1>a, Ended DEF GoogleLink
<1>21. ASSUME NEW r \in Requests, GoogleCreate(r) PROVE RequestOK'
  <2>1. req[r] \in Request /\ req[r].pc = "gCreate" /\ Sound(account', req[r])
    BY <1>21, <1>a, Later DEF GoogleCreate, At, TypeOK, RequestOK
  <2>2. ASSUME NEW a \in AccountIds, account' = [account EXCEPT ![a] = [NewAccount EXCEPT !.status = "live"]]
        PROVE  Sound(account', [req[r] EXCEPT !.pc = "gRole", !.acct = a])
    <3>1. account'[a].status = "live"
      BY <1>a, <2>2 DEF TypeOK, NewAccount
    <3> QED
      BY <2>1, <3>1, ConstantsAssumption DEF Sound, Known, Request, HasAccount, HasAddr, HasRead
  <2> QED
    BY <1>21, <1>a, <2>2, Served, Ended DEF GoogleCreate, InsertAccount
<1>22. ASSUME NEW r \in Requests, GoogleRole(r) PROVE RequestOK'
  BY <1>22, <1>a, Ended DEF GoogleRole, CreateAuthUser
<1>23. ASSUME NEW r \in Requests, NEW c \in sessions,
             GoogleDisconnect(r, c)
      PROVE  RequestOK'
  BY <1>23, <1>a, Undisturbed DEF GoogleDisconnect
<1>24. ASSUME NEW r \in Requests, NEW c \in sessions, NEW a \in AccountIds, NEW i \in Rows,
             InsertRow(r, c, i, a)
      PROVE  RequestOK'
  BY <1>24, <1>a, Undisturbed DEF InsertRow
<1>25. ASSUME NEW r \in Requests, NEW c \in sessions, NEW a \in AccountIds, NEW w \in Addrs,
             CreateProfile(r, c, a, w)
      PROVE  RequestOK'
  BY <1>25, <1>a, Undisturbed DEF CreateProfile
<1>26. ASSUME NEW r \in Requests, Lost(r) PROVE RequestOK'
  BY <1>26, <1>a, Ended DEF Lost
<1>27. CASE UNCHANGED vars
  BY <1>27, <1>a, Undisturbed DEF vars
<1> QED
  BY <1>1, <1>2, <1>3, <1>4, <1>5, <1>6, <1>7, <1>8, <1>9, <1>10, <1>11, <1>12, <1>13,
     <1>14, <1>15, <1>16, <1>17, <1>18, <1>19, <1>20, <1>21, <1>22, <1>23, <1>24,
     <1>25, <1>26, <1>27
     DEF Next, WalletNext, GoogleNext

-----------------------------------------------------------------------------
(* The steps keep spent nonces and known names *)

LEMMA SpentKept ==
  ASSUME TypeOK, TypeOK', SpentOK, Advances(account, account'), UNCHANGED spent
  PROVE  SpentOK'
<1> SUFFICES ASSUME NEW a \in AccountIds, NEW n \in 0 .. MaxEpoch, <<a, n>> \in spent
             PROVE  Known(account', a) /\ (account'[a].status = "live" => n < account'[a].epoch)
  BY DEF SpentOK, Live
<1>1. Known(account, a) /\ (account[a].status = "live" => n < account[a].epoch)
  BY DEF SpentOK, Live
<1>2. account[a].epoch \in Int /\ account'[a].epoch \in Int
  BY ConstantsAssumption DEF TypeOK, AccountRow
<1> QED
  BY <1>1, <1>2 DEF Advances

\* The nonce a request has compared is replaced before it is spent.
LEMMA Spends ==
  ASSUME TypeOK, TypeOK', RequestOK, SpentOK, Advances(account, account'),
         NEW r \in Requests, req[r].pc \in HasRead,
         spent' = spent \/ spent' = spent \cup {req[r].read},
         Live(req[r].acct) /\ account'[req[r].acct].status = "live"
           => account'[req[r].acct].epoch = account[req[r].acct].epoch + 1
  PROVE  SpentOK'
<1> SUFFICES ASSUME NEW a \in AccountIds, NEW n \in 0 .. MaxEpoch, <<a, n>> \in spent'
             PROVE  Known(account', a) /\ (account'[a].status = "live" => n < account'[a].epoch)
  BY DEF SpentOK, Live
<1>1. account[a].epoch \in Int /\ account'[a].epoch \in Int
  BY ConstantsAssumption DEF TypeOK, AccountRow
<1>2. CASE <<a, n>> \in spent
  <2>1. Known(account, a) /\ (account[a].status = "live" => n < account[a].epoch)
    BY <1>2 DEF SpentOK, Live
  <2> QED
    BY <1>1, <2>1 DEF Advances
<1>3. CASE <<a, n>> = req[r].read
  <2>1. Sound(account, req[r]) /\ req[r].acct \in AccountIds /\ Known(account, req[r].acct)
    BY Knows DEF RequestOK, HasRead, HasAccount
  <2>2. PICK m \in 0 .. MaxEpoch :
          /\ req[r].read = <<req[r].acct, m>>
          /\ account[req[r].acct].status = "live" => m <= account[req[r].acct].epoch
    BY <2>1 DEF Sound
  <2>3. a = req[r].acct /\ n = m
    BY <1>3, <2>2
  <2> QED
    BY <1>1, <2>1, <2>2, <2>3 DEF Advances, Live
<1> QED
  BY <1>2, <1>3

LEMMA SpentStep ==
  ASSUME IInv, [Next]_vars
  PROVE  SpentOK'
<1>a. TypeOK /\ TypeOK' /\ RequestOK /\ SpentOK /\ Advances(account, account')
  BY TypeStep, AccountStep DEF IInv
<1>1. ASSUME NEW r \in Requests, NEW w \in Addrs, NEW valid \in BOOLEAN,
             KeplrFind(r, w, valid)
      PROVE  SpentOK'
  BY <1>1, <1>a, SpentKept DEF KeplrFind
<1>2. ASSUME NEW r \in Requests, NEW c \in sessions, NEW w \in Addrs, NEW valid \in BOOLEAN,
             ConnectFind(r, c, w, valid)
      PROVE  SpentOK'
  BY <1>2, <1>a, SpentKept DEF ConnectFind
<1>3. ASSUME NEW r \in Requests, NEW c \in sessions, NEW w \in Addrs, NEW valid \in BOOLEAN, NEW keep \in BOOLEAN,
             MergeFind(r, c, w, valid, keep)
      PROVE  SpentOK'
  BY <1>3, <1>a, SpentKept DEF MergeFind
<1>4. ASSUME NEW r \in Requests, KeplrRotate(r) PROVE SpentOK'
  <2>1. /\ req[r].pc \in HasRead /\ req[r].acct \in AccountIds
        /\ spent' = spent \/ spent' = spent \cup {req[r].read}
    BY <1>4, <1>a, Knows DEF KeplrRotate, At, Verified, HasRead, HasAccount
  <2>2. Live(req[r].acct) => account'[req[r].acct].epoch = account[req[r].acct].epoch + 1
    BY <1>4, <1>a, <2>1 DEF KeplrRotate, RotateNonce, TypeOK, AccountRow
  <2> QED
    BY <1>a, <2>1, <2>2, Spends
<1>5. ASSUME NEW r \in Requests, KeplrUnsetCreator(r) PROVE SpentOK'
  BY <1>5, <1>a, SpentKept DEF KeplrUnsetCreator
<1>6. ASSUME NEW r \in Requests, KeplrInsertPrivate(r) PROVE SpentOK'
  BY <1>6, <1>a, SpentKept DEF KeplrInsertPrivate
<1>7. ASSUME NEW r \in Requests, KeplrRole(r) PROVE SpentOK'
  BY <1>7, <1>a, SpentKept DEF KeplrRole
<1>8. ASSUME NEW r \in Requests, KeplrCreate(r) PROVE SpentOK'
  BY <1>8, <1>a, SpentKept DEF KeplrCreate
<1>9. ASSUME NEW r \in Requests, KeplrReselect(r) PROVE SpentOK'
  BY <1>9, <1>a, SpentKept DEF KeplrReselect
<1>10. ASSUME NEW r \in Requests, ConnectReadNonce(r) PROVE SpentOK'
  BY <1>10, <1>a, SpentKept DEF ConnectReadNonce
<1>11. ASSUME NEW r \in Requests, ConnectRotate(r) PROVE SpentOK'
  <2>1. /\ req[r].pc \in HasRead /\ req[r].acct \in AccountIds
        /\ spent' = spent \/ spent' = spent \cup {req[r].read}
    BY <1>11, <1>a, Knows DEF ConnectRotate, At, Verified, HasRead, HasAccount
  <2>2. Live(req[r].acct) => account'[req[r].acct].epoch = account[req[r].acct].epoch + 1
    BY <1>11, <1>a, <2>1 DEF ConnectRotate, RotateNonce, TypeOK, AccountRow
  <2> QED
    BY <1>a, <2>1, <2>2, Spends
<1>12. ASSUME NEW r \in Requests, ConnectSetAddr(r) PROVE SpentOK'
  BY <1>12, <1>a, SpentKept DEF ConnectSetAddr
<1>13. ASSUME NEW r \in Requests, MergeCheckPrivate(r) PROVE SpentOK'
  BY <1>13, <1>a, SpentKept DEF MergeCheckPrivate
<1>14. ASSUME NEW r \in Requests, MergeReadNonce(r) PROVE SpentOK'
  BY <1>14, <1>a, SpentKept DEF MergeReadNonce
<1>15. ASSUME NEW r \in Requests, MergeCommit(r) PROVE SpentOK'
  <2>1. /\ req[r].pc \in HasRead /\ spent' = spent \cup {req[r].read}
        /\ req[r].acct \in AccountIds
    BY <1>15, <1>a, Knows DEF MergeCommit, At, Verified, HasRead, HasAccount
  <2>2. CASE req[r].acct = From(req[r])
    BY <1>15, <1>a, <2>1, <2>2, MergeAccounts, Spends DEF DeletedAccount, NewAccount, Live
  <2>3. CASE req[r].acct # From(req[r])
    BY <1>15, <1>a, <2>1, <2>3, MergeAccounts, Spends DEF Live
  <2> QED
    BY <2>2, <2>3
<1>16. ASSUME NEW r \in Requests, MergeRollback(r) PROVE SpentOK'
  <2>1. /\ req[r].pc \in HasRead /\ req[r].acct \in AccountIds
        /\ spent' = spent \/ spent' = spent \cup {req[r].read}
    BY <1>16, <1>a, Knows DEF MergeRollback, At, Verified, HasRead, HasAccount
  <2>2. Live(req[r].acct) => account'[req[r].acct].epoch = account[req[r].acct].epoch + 1
    BY <1>16, <1>a, <2>1 DEF MergeRollback, RotateNonce, TypeOK, AccountRow
  <2> QED
    BY <1>a, <2>1, <2>2, Spends
<1>17. ASSUME NEW r \in Requests, NEW g \in Googles, NEW e \in Emails,
             GoogleFindEmail(r, g, e)
      PROVE  SpentOK'
  BY <1>17, <1>a, SpentKept DEF GoogleFindEmail
<1>18. ASSUME NEW r \in Requests, NEW c \in sessions, NEW g \in Googles, NEW e \in Emails,
             GoogleConnect(r, c, g, e)
      PROVE  SpentOK'
  BY <1>18, <1>a, SpentKept DEF GoogleConnect
<1>19. ASSUME NEW r \in Requests, GoogleFind(r) PROVE SpentOK'
  BY <1>19, <1>a, SpentKept DEF GoogleFind
<1>20. ASSUME NEW r \in Requests, GoogleLink(r) PROVE SpentOK'
  BY <1>20, <1>a, SpentKept DEF GoogleLink
<1>21. ASSUME NEW r \in Requests, GoogleCreate(r) PROVE SpentOK'
  BY <1>21, <1>a, SpentKept DEF GoogleCreate
<1>22. ASSUME NEW r \in Requests, GoogleRole(r) PROVE SpentOK'
  BY <1>22, <1>a, SpentKept DEF GoogleRole
<1>23. ASSUME NEW r \in Requests, NEW c \in sessions, GoogleDisconnect(r, c) PROVE SpentOK'
  BY <1>23, <1>a, SpentKept DEF GoogleDisconnect
<1>24. ASSUME NEW r \in Requests, NEW c \in sessions, NEW a \in AccountIds, NEW i \in Rows,
             InsertRow(r, c, i, a)
      PROVE  SpentOK'
  BY <1>24, <1>a, SpentKept DEF InsertRow
<1>25. ASSUME NEW r \in Requests, NEW c \in sessions, NEW a \in AccountIds, NEW w \in Addrs,
             CreateProfile(r, c, a, w)
      PROVE  SpentOK'
  BY <1>25, <1>a, SpentKept DEF CreateProfile
<1>26. ASSUME NEW r \in Requests, Lost(r) PROVE SpentOK'
  BY <1>26, <1>a, SpentKept DEF Lost
<1>27. CASE UNCHANGED vars
  BY <1>27, <1>a, SpentKept DEF vars
<1> QED
  BY <1>1, <1>2, <1>3, <1>4, <1>5, <1>6, <1>7, <1>8, <1>9, <1>10, <1>11, <1>12, <1>13,
     <1>14, <1>15, <1>16, <1>17, <1>18, <1>19, <1>20, <1>21, <1>22, <1>23, <1>24,
     <1>25, <1>26, <1>27
     DEF Next, WalletNext, GoogleNext

LEMMA Names ==
  ASSUME TypeOK, NamesOK, Advances(account, account'), NEW a \in AccountIds, Known(account, a),
         sessions' \subseteq sessions \cup {a}, role' \subseteq role \cup {a},
         s3_deletion' \subseteq s3_deletion \cup {a}
  PROVE  NamesOK'
BY DEF TypeOK, NamesOK, Advances

LEMMA NamesKept ==
  ASSUME TypeOK, NamesOK, Advances(account, account'), UNCHANGED <<sessions, role, s3_deletion>>
  PROVE  NamesOK'
BY DEF TypeOK, NamesOK, Advances

LEMMA NamesStep ==
  ASSUME IInv, [Next]_vars
  PROVE  NamesOK'
<1>a. TypeOK /\ RequestOK /\ NamesOK /\ TablesOK /\ Advances(account, account')
  BY AccountStep DEF IInv
<1>1. ASSUME NEW r \in Requests, NEW w \in Addrs, NEW valid \in BOOLEAN,
             KeplrFind(r, w, valid)
      PROVE  NamesOK'
  BY <1>1, <1>a, NamesKept DEF KeplrFind, tables
<1>2. ASSUME NEW r \in Requests, NEW c \in sessions, NEW w \in Addrs, NEW valid \in BOOLEAN,
             ConnectFind(r, c, w, valid)
      PROVE  NamesOK'
  BY <1>2, <1>a, NamesKept DEF ConnectFind, tables
<1>3. ASSUME NEW r \in Requests, NEW c \in sessions, NEW w \in Addrs, NEW valid \in BOOLEAN, NEW keep \in BOOLEAN,
             MergeFind(r, c, w, valid, keep)
      PROVE  NamesOK'
  BY <1>3, <1>a, NamesKept DEF MergeFind, tables
<1>4. ASSUME NEW r \in Requests, KeplrRotate(r) PROVE NamesOK'
  BY <1>4, <1>a, NamesKept DEF KeplrRotate
<1>5. ASSUME NEW r \in Requests, KeplrUnsetCreator(r) PROVE NamesOK'
  BY <1>5, <1>a, NamesKept DEF KeplrUnsetCreator
<1>6. ASSUME NEW r \in Requests, KeplrInsertPrivate(r) PROVE NamesOK'
  BY <1>6, <1>a, NamesKept DEF KeplrInsertPrivate
<1>7. ASSUME NEW r \in Requests, KeplrRole(r) PROVE NamesOK'
  <2>1. req[r].acct \in AccountIds /\ Known(account, req[r].acct)
    BY <1>7, <1>a, Knows DEF KeplrRole, At, HasAccount
  <2> QED
    BY <1>7, <1>a, <2>1, Names DEF KeplrRole, CreateAuthUser
<1>8. ASSUME NEW r \in Requests, KeplrCreate(r) PROVE NamesOK'
  BY <1>8, <1>a, NamesKept DEF KeplrCreate
<1>9. ASSUME NEW r \in Requests, KeplrReselect(r) PROVE NamesOK'
  BY <1>9, <1>a, NamesKept DEF KeplrReselect, tables
<1>10. ASSUME NEW r \in Requests, ConnectReadNonce(r) PROVE NamesOK'
  BY <1>10, <1>a, NamesKept DEF ConnectReadNonce, tables
<1>11. ASSUME NEW r \in Requests, ConnectRotate(r) PROVE NamesOK'
  BY <1>11, <1>a, NamesKept DEF ConnectRotate
<1>12. ASSUME NEW r \in Requests, ConnectSetAddr(r) PROVE NamesOK'
  BY <1>12, <1>a, NamesKept DEF ConnectSetAddr
<1>13. ASSUME NEW r \in Requests, MergeCheckPrivate(r) PROVE NamesOK'
  BY <1>13, <1>a, NamesKept DEF MergeCheckPrivate, tables
<1>14. ASSUME NEW r \in Requests, MergeReadNonce(r) PROVE NamesOK'
  BY <1>14, <1>a, NamesKept DEF MergeReadNonce, tables
<1>15. ASSUME NEW r \in Requests, MergeCommit(r) PROVE NamesOK'
  <2>1. /\ At(r, "mMerge") /\ role' \subseteq role /\ s3_deletion' = s3_deletion \cup {From(req[r])}
        /\ sessions' \subseteq sessions \cup {req[r].wallet}
    BY <1>15 DEF MergeCommit
  <2>2. /\ From(req[r]) \in AccountIds /\ Known(account, From(req[r]))
        /\ req[r].wallet \in AccountIds /\ Known(account, req[r].wallet)
    BY <1>a, <2>1, MergeNames
  <2> QED
    BY <1>a, <2>1, <2>2 DEF TypeOK, NamesOK, Advances
<1>16. ASSUME NEW r \in Requests, MergeRollback(r) PROVE NamesOK'
  BY <1>16, <1>a, NamesKept DEF MergeRollback
<1>17. ASSUME NEW r \in Requests, NEW g \in Googles, NEW e \in Emails,
             GoogleFindEmail(r, g, e)
      PROVE  NamesOK'
  BY <1>17, <1>a, NamesKept DEF GoogleFindEmail, tables
<1>18. ASSUME NEW r \in Requests, NEW c \in sessions, NEW g \in Googles, NEW e \in Emails,
             GoogleConnect(r, c, g, e)
      PROVE  NamesOK'
  BY <1>18, <1>a, NamesKept DEF GoogleConnect
<1>19. ASSUME NEW r \in Requests, GoogleFind(r) PROVE NamesOK'
  <2>1. req[r].google \in Googles
    BY <1>19, <1>a, Knows DEF GoogleFind, At
  <2>2. \A a \in AccountIds : private[a].google = req[r].google => Known(account, a)
    BY <1>a, <2>1, ConstantsAssumption DEF TablesOK, PrivatesOK, Linked, Known
  <2>3. \/ UNCHANGED sessions
        \/ \E a \in AccountIds : private[a].google = req[r].google /\ sessions' = sessions \cup {a}
    BY <1>19 DEF GoogleFind
  <2>4. UNCHANGED <<role, s3_deletion>>
    BY <1>19 DEF GoogleFind, tables
  <2> QED
    BY <1>a, <2>2, <2>3, <2>4, Names, NamesKept
<1>20. ASSUME NEW r \in Requests, GoogleLink(r) PROVE NamesOK'
  <2>1. req[r].acct \in AccountIds /\ Known(account, req[r].acct)
    BY <1>20, <1>a, Knows DEF GoogleLink, At, HasAccount
  <2> QED
    BY <1>20, <1>a, <2>1, Names DEF GoogleLink
<1>21. ASSUME NEW r \in Requests, GoogleCreate(r) PROVE NamesOK'
  BY <1>21, <1>a, NamesKept DEF GoogleCreate
<1>22. ASSUME NEW r \in Requests, GoogleRole(r) PROVE NamesOK'
  <2>1. req[r].acct \in AccountIds /\ Known(account, req[r].acct)
    BY <1>22, <1>a, Knows DEF GoogleRole, At, HasAccount
  <2> QED
    BY <1>22, <1>a, <2>1, Names DEF GoogleRole, CreateAuthUser
<1>23. ASSUME NEW r \in Requests, NEW c \in sessions, GoogleDisconnect(r, c) PROVE NamesOK'
  BY <1>23, <1>a, NamesKept DEF GoogleDisconnect
<1>24. ASSUME NEW r \in Requests, NEW c \in sessions, NEW a \in AccountIds, NEW i \in Rows,
             InsertRow(r, c, i, a)
      PROVE  NamesOK'
  BY <1>24, <1>a, NamesKept DEF InsertRow
<1>25. ASSUME NEW r \in Requests, NEW c \in sessions, NEW a \in AccountIds, NEW w \in Addrs,
             CreateProfile(r, c, a, w)
      PROVE  NamesOK'
  BY <1>25, <1>a, NamesKept DEF CreateProfile
<1>26. ASSUME NEW r \in Requests, Lost(r) PROVE NamesOK'
  BY <1>26, <1>a, NamesKept DEF Lost, tables
<1>27. CASE UNCHANGED vars
  BY <1>27, <1>a, NamesKept DEF vars, tables
<1> QED
  BY <1>1, <1>2, <1>3, <1>4, <1>5, <1>6, <1>7, <1>8, <1>9, <1>10, <1>11, <1>12, <1>13,
     <1>14, <1>15, <1>16, <1>17, <1>18, <1>19, <1>20, <1>21, <1>22, <1>23, <1>24,
     <1>25, <1>26, <1>27
     DEF Next, WalletNext, GoogleNext

-----------------------------------------------------------------------------
(* The steps keep the tables consistent *)

\* As long as no account is deleted, what referenced one still does.
LEMMA NoneDeleted ==
  ASSUME TypeOK, NamesOK, TablesOK, Advances(account, account'),
         \A a \in AccountIds : account[a].status = "live" => account'[a].status = "live"
  PROVE  /\ Linked(account', private) /\ OwnersOK(account', owner)
         /\ ImagesOK(account', s3_deletion)
<1>1. Linked(account', private) /\ OwnersOK(account', owner)
  BY DEF TypeOK, TablesOK, Linked, OwnersOK
<1>2. ImagesOK(account', s3_deletion)
  BY DEF TypeOK, TablesOK, NamesOK, ImagesOK, Advances
<1> QED
  BY <1>1, <1>2

LEMMA Untouched ==
  ASSUME TablesOK, UNCHANGED <<account, private, owner, s3_deletion>>
  PROVE  TablesOK'
BY DEF TablesOK

\* Nothing but the nonce, or the creator, of an account changes.
LEMMA Minor ==
  ASSUME TypeOK, TypeOK', NamesOK, TablesOK, Advances(account, account'),
         UNCHANGED <<private, owner, s3_deletion>>,
         \A a \in AccountIds : /\ account'[a].status = account[a].status
                               /\ account'[a].addr = account[a].addr
                               /\ account'[a].creator \in {None, account[a].creator}
  PROVE  TablesOK'
<1>1. AccountsOK(account')
  BY DEF TablesOK, AccountsOK, UniqueAddrs, TypeOK, AccountRow
<1> QED
  BY <1>1, NoneDeleted DEF TablesOK

LEMMA TablesStep ==
  ASSUME IInv, [Next]_vars
  PROVE  TablesOK'
<1>a. /\ TypeOK /\ TypeOK' /\ RequestOK /\ NamesOK /\ TablesOK
      /\ Advances(account, account')
  BY TypeStep, AccountStep DEF IInv
<1>1. ASSUME NEW r \in Requests, NEW w \in Addrs, NEW valid \in BOOLEAN,
             KeplrFind(r, w, valid)
      PROVE  TablesOK'
  BY <1>1, <1>a, Untouched DEF KeplrFind, tables
<1>2. ASSUME NEW r \in Requests, NEW c \in sessions, NEW w \in Addrs, NEW valid \in BOOLEAN,
             ConnectFind(r, c, w, valid)
      PROVE  TablesOK'
  BY <1>2, <1>a, Untouched DEF ConnectFind, tables
<1>3. ASSUME NEW r \in Requests, NEW c \in sessions, NEW w \in Addrs, NEW valid \in BOOLEAN, NEW keep \in BOOLEAN,
             MergeFind(r, c, w, valid, keep)
      PROVE  TablesOK'
  BY <1>3, <1>a, Untouched DEF MergeFind, tables
<1>4. ASSUME NEW r \in Requests, KeplrRotate(r) PROVE TablesOK'
  <2>1. \A a \in AccountIds : /\ account'[a].status = account[a].status
                              /\ account'[a].addr = account[a].addr
                              /\ account'[a].creator = account[a].creator
    BY <1>4, <1>a DEF KeplrRotate, RotateNonce, TypeOK, AccountRow
  <2> QED
    BY <1>4, <1>a, <2>1, Minor DEF KeplrRotate
<1>5. ASSUME NEW r \in Requests, KeplrUnsetCreator(r) PROVE TablesOK'
  <2>1. \A a \in AccountIds : /\ account'[a].status = account[a].status
                              /\ account'[a].addr = account[a].addr
                              /\ account'[a].creator \in {None, account[a].creator}
    BY <1>5, <1>a DEF KeplrUnsetCreator, TypeOK, AccountRow
  <2> QED
    BY <1>5, <1>a, <2>1, Minor DEF KeplrUnsetCreator
<1>6. ASSUME NEW r \in Requests, KeplrInsertPrivate(r) PROVE TablesOK'
  <2>1. /\ req[r].acct \in AccountIds
        /\ \/ private' = private
           \/ Live(req[r].acct) /\ private' = [private EXCEPT ![req[r].acct].exists = TRUE]
        /\ UNCHANGED <<account, owner, s3_deletion>>
    BY <1>6, <1>a, Knows DEF KeplrInsertPrivate, At, HasAccount
  <2>2. \A a \in AccountIds :
          /\ private'[a].exists => private[a].exists \/ account[a].status = "live"
          /\ private[a].exists => private'[a].exists
          /\ private'[a].email = private[a].email /\ private'[a].google = private[a].google
          /\ private'[a].google_email = private[a].google_email
    BY <1>a, <2>1 DEF Live, TypeOK, PrivateRow
  <2>3. PrivatesOK(private') /\ Linked(account, private')
    BY <1>a, <2>2 DEF TablesOK, PrivatesOK, Linked, UniquePrivate
  <2> QED
    BY <1>a, <2>1, <2>3 DEF TablesOK
<1>7. ASSUME NEW r \in Requests, KeplrRole(r) PROVE TablesOK'
  BY <1>7, <1>a, Untouched DEF KeplrRole, tables, CreateAuthUser
<1>8. ASSUME NEW r \in Requests, KeplrCreate(r) PROVE TablesOK'
  <2>1. req[r].addr \in Addrs
    BY <1>8, <1>a, Knows DEF KeplrCreate, At, HasAddr
  <2>2. UNCHANGED <<owner, s3_deletion>>
    BY <1>8 DEF KeplrCreate
  <2>3. CASE \E a \in ByAddr(req[r].addr) : /\ account' = [account EXCEPT ![a].creator = None]
                                            /\ private' = [private EXCEPT ![a].exists = TRUE]
    <3>1. PICK a \in AccountIds : /\ account[a].addr = req[r].addr
                                  /\ account' = [account EXCEPT ![a].creator = None]
                                  /\ private' = [private EXCEPT ![a].exists = TRUE]
      BY <2>3 DEF ByAddr
    <3>2. \A x \in AccountIds : /\ account'[x].status = account[x].status
                                /\ account'[x].addr = account[x].addr
                                /\ account'[x].creator \in {None, account[x].creator}
      BY <1>a, <3>1 DEF TypeOK, AccountRow
    <3>3. AccountsOK(account')
      BY <1>a, <3>2 DEF TablesOK, AccountsOK, UniqueAddrs, TypeOK, AccountRow
    <3>4. account'[a].status = "live"
      BY <1>a, <2>1, <3>1, <3>2, ConstantsAssumption DEF TablesOK, AccountsOK
    <3>5. Linked(account', private) /\ OwnersOK(account', owner) /\ ImagesOK(account', s3_deletion)
      BY <1>a, <3>2, NoneDeleted
    <3>6. PrivatesOK(private') /\ Linked(account', private')
      BY <1>a, <3>1, <3>4, <3>5 DEF TablesOK, PrivatesOK, Linked, UniquePrivate, TypeOK, PrivateRow
    <3> QED
      BY <2>2, <3>3, <3>5, <3>6 DEF TablesOK
  <2>4. CASE /\ ByAddr(req[r].addr) = {}
             /\ \E a \in AccountIds :
                  /\ InsertAccount(a, [NewAccount EXCEPT !.status = "live", !.addr = req[r].addr])
                  /\ private' = [private EXCEPT ![a] = EmptyPrivate]
    <3>1. PICK a \in AccountIds :
            /\ account[a].status = "new"
            /\ account' = [account EXCEPT ![a] = [NewAccount EXCEPT !.status = "live", !.addr = req[r].addr]]
            /\ private' = [private EXCEPT ![a] = EmptyPrivate]
      BY <2>4 DEF InsertAccount
    <3>2. \A x \in AccountIds : account[x].addr # req[r].addr
      BY <2>4 DEF ByAddr
    <3>3. /\ account'[a].status = "live" /\ account'[a].creator = None /\ account'[a].addr = req[r].addr
          /\ \A x \in AccountIds \ {a} : account'[x] = account[x]
      BY <1>a, <3>1 DEF TypeOK, NewAccount
    <3>4. /\ private'[a].exists /\ private'[a].email = None /\ private'[a].google = None
          /\ private'[a].google_email = None
          /\ \A x \in AccountIds \ {a} : private'[x] = private[x]
      BY <1>a, <3>1 DEF TypeOK, EmptyPrivate, NoPrivate
    <3>5. AccountsOK(account')
      BY <1>a, <2>1, <3>1, <3>2, <3>3, ConstantsAssumption
         DEF TablesOK, AccountsOK, UniqueAddrs, TypeOK, AccountRow
    <3>6. Linked(account', private) /\ OwnersOK(account', owner) /\ ImagesOK(account', s3_deletion)
      BY <1>a, <3>3, NoneDeleted
    <3>7. PrivatesOK(private') /\ Linked(account', private')
      BY <1>a, <3>3, <3>4, <3>6 DEF TablesOK, PrivatesOK, Linked, UniquePrivate
    <3> QED
      BY <2>2, <3>5, <3>6, <3>7 DEF TablesOK
  <2> QED
    BY <1>8, <2>3, <2>4 DEF KeplrCreate
<1>9. ASSUME NEW r \in Requests, KeplrReselect(r) PROVE TablesOK'
  BY <1>9, <1>a, Untouched DEF KeplrReselect, tables
<1>10. ASSUME NEW r \in Requests, ConnectReadNonce(r) PROVE TablesOK'
  BY <1>10, <1>a, Untouched DEF ConnectReadNonce, tables
<1>11. ASSUME NEW r \in Requests, ConnectRotate(r) PROVE TablesOK'
  <2>1. \A a \in AccountIds : /\ account'[a].status = account[a].status
                              /\ account'[a].addr = account[a].addr
                              /\ account'[a].creator = account[a].creator
    BY <1>11, <1>a DEF ConnectRotate, RotateNonce, TypeOK, AccountRow
  <2> QED
    BY <1>11, <1>a, <2>1, Minor DEF ConnectRotate
<1>12. ASSUME NEW r \in Requests, ConnectSetAddr(r) PROVE TablesOK'
  <2>1. req[r].acct \in AccountIds /\ req[r].addr \in Addrs
    BY <1>12, <1>a, Knows DEF ConnectSetAddr, At, HasAccount, HasAddr
  <2>2. /\ UNCHANGED <<private, owner, s3_deletion>>
        /\ \/ account' = account
           \/ /\ account[req[r].acct].status = "live"
              /\ \A x \in AccountIds : account[x].addr # req[r].addr
              /\ account' = [account EXCEPT ![req[r].acct].addr = req[r].addr]
    BY <1>12 DEF ConnectSetAddr, Live, ByAddr
  <2>3. CASE account' = account
    BY <1>a, <2>2, <2>3, Untouched
  <2>4. CASE account' # account
    <3>1. \A x \in AccountIds : /\ account'[x].status = account[x].status
                                /\ account'[x].creator = account[x].creator
                                /\ account'[x].addr = IF x = req[r].acct THEN req[r].addr ELSE account[x].addr
      BY <1>a, <2>1, <2>2, <2>4 DEF TypeOK, AccountRow
    <3>2. AccountsOK(account')
      BY <1>a, <2>1, <2>2, <2>4, <3>1 DEF TablesOK, AccountsOK, UniqueAddrs, TypeOK, AccountRow
    <3> QED
      BY <1>a, <2>2, <3>1, <3>2, NoneDeleted DEF TablesOK
  <2> QED
    BY <2>3, <2>4
<1>13. ASSUME NEW r \in Requests, MergeCheckPrivate(r) PROVE TablesOK'
  BY <1>13, <1>a, Untouched DEF MergeCheckPrivate, tables
<1>14. ASSUME NEW r \in Requests, MergeReadNonce(r) PROVE TablesOK'
  BY <1>14, <1>a, Untouched DEF MergeReadNonce, tables
<1>15. ASSUME NEW r \in Requests, MergeCommit(r) PROVE TablesOK'
  <2> DEFINE q == req[r]
             left == {a \in AccountIds : account'[a].status = "live"}
  <2>1. At(r, "mMerge") /\ CanMigrate(q) /\ account' = MigratedAccount(q)
        /\ private' = MigratedPrivate(q) /\ owner' = MigratedOwner(From(q), To(q))
        /\ s3_deletion' = s3_deletion \cup {From(q)}
    BY <1>15 DEF MergeCommit
  <2>2. /\ UniqueOwners(owner') /\ UniqueAddrs(account')
        /\ \A i \in Rows : owner'[i] \in left \cup {None}
        /\ \A a \in left : account'[a].creator \in left \cup {None}
        /\ {a \in AccountIds : private'[a].exists} \subseteq left
    BY <2>1 DEF CanMigrate
  <2>3. /\ From(q) \in AccountIds /\ To(q) \in AccountIds /\ Known(account, From(q))
        /\ req[r].keep \in BOOLEAN
    BY <1>a, <2>1, MergeNames DEF Request
  <2>4. /\ \A a \in AccountIds : a = From(q) =>
             account'[a] = IF Live(a) THEN DeletedAccount ELSE account[a]
        /\ \A a \in AccountIds : a # From(q) =>
             /\ account'[a].status = account[a].status
             /\ account'[a].addr = IF q.keep /\ a = To(q) /\ Live(a) THEN q.addr ELSE account[a].addr
             /\ account'[a].creator = Moved(account[a].creator, From(q), To(q))
    BY <1>15, <1>a, MergeAccounts
  <2>5. account'[From(q)].status # "live"
    BY <2>3, <2>4 DEF Live, DeletedAccount, NewAccount
  <2>6. \A a \in AccountIds : account'[a].status # "live" => account'[a].addr = None /\ account'[a].creator = None
    <3> SUFFICES ASSUME NEW a \in AccountIds, account'[a].status # "live"
                 PROVE  account'[a].addr = None /\ account'[a].creator = None
      OBVIOUS
    <3>1. CASE a = From(q)
      BY <1>a, <2>4, <3>1 DEF Live, DeletedAccount, NewAccount, TablesOK, AccountsOK
    <3>2. CASE a # From(q)
      BY <1>a, <2>3, <2>4, <3>2, ConstantsAssumption DEF Live, Moved, TablesOK, AccountsOK
    <3> QED
      BY <3>1, <3>2
  <2>7. AccountsOK(account')
    BY <2>2, <2>6 DEF AccountsOK
  <2>8. PrivatesOK(private')
    <3>1. CASE private' = [private EXCEPT ![From(q)] = NoPrivate]
      BY <1>a, <2>3, <3>1 DEF TablesOK, PrivatesOK, UniquePrivate, NoPrivate, TypeOK
    <3>2. CASE private' = [private EXCEPT ![To(q)] = NoPrivate]
      BY <1>a, <2>3, <3>2 DEF TablesOK, PrivatesOK, UniquePrivate, NoPrivate, TypeOK
    <3>3. CASE /\ private' = [private EXCEPT ![From(q)] = NoPrivate, ![To(q)] = private[From(q)]]
               /\ From(q) # To(q)
      BY <1>a, <2>3, <3>3 DEF TablesOK, PrivatesOK, UniquePrivate, NoPrivate, TypeOK
    <3> QED
      BY <2>1, <3>1, <3>2, <3>3 DEF MigratedPrivate
  <2>9. Linked(account', private') /\ OwnersOK(account', owner')
    BY <2>2 DEF Linked, OwnersOK
  <2>10. ImagesOK(account', s3_deletion')
    BY <1>a, <2>1, <2>3, <2>4, <2>5 DEF TablesOK, ImagesOK, TypeOK
  <2> QED
    BY <2>7, <2>8, <2>9, <2>10 DEF TablesOK
<1>16. ASSUME NEW r \in Requests, MergeRollback(r) PROVE TablesOK'
  <2>1. \A a \in AccountIds : /\ account'[a].status = account[a].status
                              /\ account'[a].addr = account[a].addr
                              /\ account'[a].creator = account[a].creator
    BY <1>16, <1>a DEF MergeRollback, RotateNonce, TypeOK, AccountRow
  <2> QED
    BY <1>16, <1>a, <2>1, Minor DEF MergeRollback
<1>17. ASSUME NEW r \in Requests, NEW g \in Googles, NEW e \in Emails,
             GoogleFindEmail(r, g, e)
      PROVE  TablesOK'
  BY <1>17, <1>a, Untouched DEF GoogleFindEmail, tables
<1>18. ASSUME NEW r \in Requests, NEW c \in sessions, NEW g \in Googles, NEW e \in Emails,
             GoogleConnect(r, c, g, e)
      PROVE  TablesOK'
  <2>1. /\ UNCHANGED <<account, owner, s3_deletion>> /\ c \in AccountIds /\ private[c].exists
        /\ UniquePrivate(private')
        /\ private' = [private EXCEPT ![c] = [private[c] EXCEPT !.email = IF @ = None THEN e ELSE @,
                                                                !.google = g, !.google_email = e]]
    BY <1>18, <1>a DEF GoogleConnect, TypeOK
  <2>2. private'[c].exists /\ \A a \in AccountIds \ {c} : private'[a] = private[a]
    BY <1>a, <2>1 DEF TypeOK, PrivateRow
  <2>3. PrivatesOK(private') /\ Linked(account, private')
    BY <1>a, <2>1, <2>2 DEF TablesOK, PrivatesOK, Linked
  <2> QED
    BY <1>a, <2>1, <2>3 DEF TablesOK
<1>19. ASSUME NEW r \in Requests, GoogleFind(r) PROVE TablesOK'
  BY <1>19, <1>a, Untouched DEF GoogleFind, tables
<1>20. ASSUME NEW r \in Requests, GoogleLink(r) PROVE TablesOK'
  <2>1. UNCHANGED <<account, owner, s3_deletion>> /\ req[r].email \in Emails
    BY <1>20, <1>a, Knows DEF GoogleLink, At
  <2>2. CASE private' = private
    BY <1>a, <2>1, <2>2, Untouched
  <2>3. CASE private' # private
    <3>1. /\ UniquePrivate(private')
          /\ private' = [a \in AccountIds |->
                           IF private[a].email = req[r].email
                           THEN [private[a] EXCEPT !.google = req[r].google, !.google_email = req[r].email]
                           ELSE private[a]]
      BY <1>20, <2>3 DEF GoogleLink
    <3>2. \A a \in AccountIds : /\ private'[a].exists = private[a].exists
                                /\ ~private[a].exists => private'[a] = private[a]
      BY <1>a, <2>1, <3>1, ConstantsAssumption DEF TablesOK, PrivatesOK, TypeOK, PrivateRow
    <3>3. PrivatesOK(private') /\ Linked(account, private')
      BY <1>a, <3>1, <3>2 DEF TablesOK, PrivatesOK, Linked
    <3> QED
      BY <1>a, <2>1, <3>3 DEF TablesOK
  <2> QED
    BY <2>2, <2>3
<1>21. ASSUME NEW r \in Requests, GoogleCreate(r) PROVE TablesOK'
  <2>1. UNCHANGED <<owner, s3_deletion>> /\ req[r].google \in Googles /\ req[r].email \in Emails
    BY <1>21, <1>a, Knows DEF GoogleCreate, At
  <2>2. CASE UNCHANGED <<account, private>>
    BY <1>a, <2>1, <2>2, Untouched
  <2>3. CASE ~UNCHANGED <<account, private>>
    <3>1. PICK a \in AccountIds :
            /\ account[a].status = "new"
            /\ account' = [account EXCEPT ![a] = [NewAccount EXCEPT !.status = "live"]]
            /\ private' = [private EXCEPT ![a] = [exists |-> TRUE, email |-> req[r].email,
                                                  google |-> req[r].google, google_email |-> req[r].email]]
      BY <1>21, <2>3 DEF GoogleCreate, InsertAccount
    <3>2. \A x \in AccountIds : /\ private[x].email # req[r].email /\ private[x].google_email # req[r].email
                                /\ private[x].google # req[r].google
      BY <1>21, <2>3 DEF GoogleCreate
    <3>3. /\ account'[a].status = "live" /\ account'[a].creator = None /\ account'[a].addr = None
          /\ \A x \in AccountIds \ {a} : account'[x] = account[x]
      BY <1>a, <3>1 DEF TypeOK, NewAccount
    <3>4. /\ private'[a].exists /\ private'[a].email = req[r].email
          /\ private'[a].google = req[r].google /\ private'[a].google_email = req[r].email
          /\ \A x \in AccountIds \ {a} : private'[x] = private[x]
      BY <1>a, <3>1 DEF TypeOK
    <3>5. AccountsOK(account')
      BY <1>a, <3>1, <3>3, ConstantsAssumption DEF TablesOK, AccountsOK, UniqueAddrs, TypeOK, AccountRow
    <3>6. Linked(account', private) /\ OwnersOK(account', owner) /\ ImagesOK(account', s3_deletion)
      BY <1>a, <3>3, NoneDeleted
    <3>7. PrivatesOK(private') /\ Linked(account', private')
      BY <1>a, <3>2, <3>3, <3>4, <3>6 DEF TablesOK, PrivatesOK, Linked, UniquePrivate
    <3> QED
      BY <2>1, <3>5, <3>6, <3>7 DEF TablesOK
  <2> QED
    BY <2>2, <2>3
<1>22. ASSUME NEW r \in Requests, GoogleRole(r) PROVE TablesOK'
  BY <1>22, <1>a, Untouched DEF GoogleRole, tables, CreateAuthUser
<1>23. ASSUME NEW r \in Requests, NEW c \in sessions, GoogleDisconnect(r, c) PROVE TablesOK'
  <2>1. /\ UNCHANGED <<account, owner, s3_deletion>> /\ c \in AccountIds
        /\ private' = [private EXCEPT ![c].google = None, ![c].google_email = None]
    BY <1>23, <1>a DEF GoogleDisconnect, TypeOK
  <2>2. \A a \in AccountIds : /\ private'[a].exists = private[a].exists
                              /\ private'[a].email = private[a].email
                              /\ private'[a].google \in {None, private[a].google}
                              /\ private'[a].google_email \in {None, private[a].google_email}
    BY <1>a, <2>1 DEF TypeOK, PrivateRow
  <2>3. PrivatesOK(private') /\ Linked(account, private')
    BY <1>a, <2>2 DEF TablesOK, PrivatesOK, Linked, UniquePrivate
  <2> QED
    BY <1>a, <2>1, <2>3 DEF TablesOK
<1>24. ASSUME NEW r \in Requests, NEW c \in sessions, NEW a \in AccountIds, NEW i \in Rows,
             InsertRow(r, c, i, a)
      PROVE  TablesOK'
  <2>1. /\ UNCHANGED <<account, private, s3_deletion>> /\ account[a].status = "live"
        /\ UniqueOwners(owner') /\ owner' = [owner EXCEPT ![i] = a]
    BY <1>24 DEF InsertRow, Live
  <2>2. OwnersOK(account, owner')
    BY <1>a, <2>1 DEF TablesOK, OwnersOK, TypeOK
  <2> QED
    BY <1>a, <2>1, <2>2 DEF TablesOK
<1>25. ASSUME NEW r \in Requests, NEW c \in sessions, NEW a \in AccountIds, NEW w \in Addrs,
             CreateProfile(r, c, a, w)
      PROVE  TablesOK'
  <2>1. c \in AccountIds /\ account[c].status = "live" /\ UNCHANGED <<private, owner, s3_deletion>>
    BY <1>25, <1>a DEF CreateProfile, Live, TypeOK
  <2>2. /\ account[a].status = "new" /\ \A x \in AccountIds : account[x].addr # w
        /\ account' = [account EXCEPT ![a] = [NewAccount EXCEPT !.status = "live", !.addr = w, !.creator = c]]
    BY <1>25 DEF CreateProfile, InsertAccount, ByAddr
  <2>3. /\ account'[a].status = "live" /\ account'[a].creator = c /\ account'[a].addr = w
        /\ \A x \in AccountIds \ {a} : account'[x] = account[x]
    BY <1>a, <2>2 DEF TypeOK, NewAccount
  <2>4. AccountsOK(account')
    BY <1>a, <2>1, <2>2, <2>3, ConstantsAssumption DEF TablesOK, AccountsOK, UniqueAddrs, TypeOK, AccountRow
  <2> QED
    BY <1>a, <2>1, <2>3, <2>4, NoneDeleted DEF TablesOK
<1>26. ASSUME NEW r \in Requests, Lost(r) PROVE TablesOK'
  BY <1>26, <1>a, Untouched DEF Lost, tables
<1>27. CASE UNCHANGED vars
  BY <1>27, <1>a, Untouched DEF vars, tables
<1> QED
  BY <1>1, <1>2, <1>3, <1>4, <1>5, <1>6, <1>7, <1>8, <1>9, <1>10, <1>11, <1>12, <1>13,
     <1>14, <1>15, <1>16, <1>17, <1>18, <1>19, <1>20, <1>21, <1>22, <1>23, <1>24,
     <1>25, <1>26, <1>27
     DEF Next, WalletNext, GoogleNext

-----------------------------------------------------------------------------
LEMMA Invariant == Spec => []IInv
<1>1. IInv /\ [Next]_vars => IInv'
  BY TypeStep, RequestStep, SpentStep, NamesStep, TablesStep DEF IInv
<1> QED
  BY <1>1, InitInv, PTL DEF Spec

\* The tables and the requests keep their types: no handler goes on without the
\* account, address or nonce its next statement needs.
THEOREM TypeCorrect == Spec => []TypeOK
<1>1. IInv => TypeOK
  BY DEF IInv
<1> QED
  BY <1>1, Invariant, PTL

\* A signature that was accepted is worth nothing to a request that starts later.
THEOREM NoncesAreInvalidated == Spec => []NonceInvalidated
<1>1. IInv => NonceInvalidated
  <2> SUFFICES ASSUME IInv, NEW a \in AccountIds, Live(a), Nonce(a) \in spent PROVE FALSE
    BY DEF NonceInvalidated
  <2>1. account[a].epoch \in 0 .. MaxEpoch
    BY DEF IInv, TypeOK, AccountRow
  <2> QED
    BY <2>1, ConstantsAssumption DEF IInv, SpentOK, Nonce
<1> QED
  BY <1>1, Invariant, PTL

\* Whatever runs while accounts are merged: no row, creator, login or queued image
\* names an account wrongly, and no two accounts share a credential.
THEOREM ReferencesHold == Spec => []ReferencesOK
<1>1. IInv => ReferencesOK
  <2> SUFFICES ASSUME IInv PROVE ReferencesOK
    OBVIOUS
  <2>1. TypeOK /\ TablesOK
    BY DEF IInv
  <2>2. \A a \in AccountIds : account[a].creator \in AccountIds \cup {None}
    BY <2>1 DEF TypeOK, AccountRow
  <2>3. \A i \in Rows : owner[i] \in AccountIds \cup {None}
    BY <2>1 DEF TypeOK
  <2> QED
    BY <2>1, <2>2, <2>3
       DEF ReferencesOK, TablesOK, AccountsOK, PrivatesOK, Linked, OwnersOK, ImagesOK, Live
<1> QED
  BY <1>1, Invariant, PTL

-----------------------------------------------------------------------------
(* No login is stolen *)

\* Account b gets, or keeps, a credential that account a has now.
AddrShared(a, b) == account[a].addr # None /\ account[a].addr = account'[b].addr
EmailShared(a, b) == private[a].email # None /\ private[a].email = private'[b].email
GoogleShared(a, b) == private[a].google # None /\ private[a].google = private'[b].google
Shared(a, b) == AddrShared(a, b) \/ EmailShared(a, b) \/ GoogleShared(a, b)

LEMMA SameCredential ==
  ASSUME TypeOK, TypeOK', NEW a \in AccountIds, NEW b \in AccountIds,
         Opening(a) \cap Opening(b)' # {}
  PROVE  Shared(a, b)
<1>1. PICK c : c \in Opening(a) /\ c \in Opening(b)'
  OBVIOUS
<1>2. /\ c # None /\ c \in {account[a].addr, private[a].email, private[a].google}
      /\ c \in {account'[b].addr, private'[b].email, private'[b].google}
  BY <1>1 DEF Opening
<1>3. /\ account[a].addr \in Addrs \cup {None} /\ account'[b].addr \in Addrs \cup {None}
      /\ private[a].email \in Emails \cup {None} /\ private'[b].email \in Emails \cup {None}
      /\ private[a].google \in Googles \cup {None} /\ private'[b].google \in Googles \cup {None}
  BY DEF TypeOK, AccountRow, PrivateRow
<1>4. Addrs \cap Emails = {} /\ Addrs \cap Googles = {} /\ Emails \cap Googles = {}
  BY ConstantsAssumption
<1> QED
  BY <1>2, <1>3, <1>4 DEF Shared, AddrShared, EmailShared, GoogleShared

LEMMA AddrsKept ==
  ASSUME TablesOK, \A b \in AccountIds : account'[b].addr \in {None, account[b].addr},
         NEW a \in AccountIds, NEW b \in AccountIds, a # b
  PROVE  ~AddrShared(a, b)
BY DEF AddrShared, TablesOK, AccountsOK, UniqueAddrs

LEMMA LoginsKept ==
  ASSUME TablesOK,
         \A b \in AccountIds : /\ private'[b].email \in {None, private[b].email}
                               /\ private'[b].google \in {None, private[b].google},
         NEW a \in AccountIds, NEW b \in AccountIds, a # b
  PROVE  ~EmailShared(a, b) /\ ~GoogleShared(a, b)
BY DEF EmailShared, GoogleShared, TablesOK, PrivatesOK, UniquePrivate

LEMMA OnlyMergesMove ==
  ASSUME IInv, [Next]_vars, \A r \in Requests : ~MergeCommit(r)
  PROVE  \A a, b \in AccountIds : a # b => ~Shared(a, b)
<1> DEFINE NotStolen == \A a, b \in AccountIds : a # b => ~Shared(a, b)
<1>a. TypeOK /\ TypeOK' /\ RequestOK /\ TablesOK
  BY TypeStep DEF IInv
<1>b. UNCHANGED <<account, private>> => NotStolen
  BY <1>a, AddrsKept, LoginsKept DEF Shared
<1>1. ASSUME NEW r \in Requests, NEW w \in Addrs, NEW valid \in BOOLEAN,
             KeplrFind(r, w, valid)
      PROVE  NotStolen
  BY <1>1, <1>a, <1>b DEF KeplrFind, tables
<1>2. ASSUME NEW r \in Requests, NEW c \in sessions, NEW w \in Addrs, NEW valid \in BOOLEAN,
             ConnectFind(r, c, w, valid)
      PROVE  NotStolen
  BY <1>2, <1>a, <1>b DEF ConnectFind, tables
<1>3. ASSUME NEW r \in Requests, NEW c \in sessions, NEW w \in Addrs, NEW valid \in BOOLEAN, NEW keep \in BOOLEAN,
             MergeFind(r, c, w, valid, keep)
      PROVE  NotStolen
  BY <1>3, <1>a, <1>b DEF MergeFind, tables
<1>4. ASSUME NEW r \in Requests, KeplrRotate(r) PROVE NotStolen
  <2>1. /\ \A b \in AccountIds : account'[b].addr = account[b].addr
        /\ UNCHANGED private
    BY <1>4, <1>a DEF KeplrRotate, RotateNonce, TypeOK, AccountRow
  <2> QED
    BY <1>a, <2>1, AddrsKept, LoginsKept DEF Shared
<1>5. ASSUME NEW r \in Requests, KeplrUnsetCreator(r) PROVE NotStolen
  <2>1. UNCHANGED private /\ \A b \in AccountIds : account'[b].addr = account[b].addr
    BY <1>5, <1>a DEF KeplrUnsetCreator, TypeOK, AccountRow
  <2> QED
    BY <1>a, <2>1, AddrsKept, LoginsKept DEF Shared
<1>6. ASSUME NEW r \in Requests, KeplrInsertPrivate(r) PROVE NotStolen
  <2>1. /\ req[r].acct \in AccountIds /\ UNCHANGED account
        /\ private' = private \/ private' = [private EXCEPT ![req[r].acct].exists = TRUE]
    BY <1>6, <1>a, Knows DEF KeplrInsertPrivate, At, HasAccount
  <2>2. \A b \in AccountIds : private'[b].email = private[b].email /\ private'[b].google = private[b].google
    BY <1>a, <2>1 DEF TypeOK, PrivateRow
  <2> QED
    BY <1>a, <2>1, <2>2, AddrsKept, LoginsKept DEF Shared
<1>7. ASSUME NEW r \in Requests, KeplrRole(r) PROVE NotStolen
  BY <1>7, <1>a, <1>b DEF KeplrRole, tables
<1>8. ASSUME NEW r \in Requests, KeplrCreate(r) PROVE NotStolen
  <2>1. CASE \E x \in ByAddr(req[r].addr) : /\ account' = [account EXCEPT ![x].creator = None]
                                            /\ private' = [private EXCEPT ![x].exists = TRUE]
    <3>1. \A b \in AccountIds : /\ account'[b].addr = account[b].addr
                                /\ private'[b].email = private[b].email
                                /\ private'[b].google = private[b].google
      BY <1>a, <2>1 DEF ByAddr, TypeOK, AccountRow, PrivateRow
    <3> QED
      BY <1>a, <3>1, AddrsKept, LoginsKept DEF Shared
  <2>2. CASE /\ ByAddr(req[r].addr) = {}
             /\ \E x \in AccountIds :
                  /\ InsertAccount(x, [NewAccount EXCEPT !.status = "live", !.addr = req[r].addr])
                  /\ private' = [private EXCEPT ![x] = EmptyPrivate]
    <3>1. PICK x \in AccountIds :
            /\ account' = [account EXCEPT ![x] = [NewAccount EXCEPT !.status = "live", !.addr = req[r].addr]]
            /\ private' = [private EXCEPT ![x] = EmptyPrivate]
      BY <2>2 DEF InsertAccount
    <3>2. \A b \in AccountIds : account[b].addr # req[r].addr
      BY <2>2 DEF ByAddr
    <3>3. \A b \in AccountIds : account'[b].addr \in {req[r].addr, account[b].addr}
      BY <1>a, <3>1 DEF TypeOK, NewAccount
    <3>4. \A b \in AccountIds : /\ private'[b].email \in {None, private[b].email}
                                /\ private'[b].google \in {None, private[b].google}
      BY <1>a, <3>1 DEF TypeOK, EmptyPrivate, NoPrivate
    <3>5. \A a, b \in AccountIds : a # b => ~AddrShared(a, b)
      BY <1>a, <3>2, <3>3 DEF AddrShared, TablesOK, AccountsOK, UniqueAddrs
    <3> QED
      BY <1>a, <3>4, <3>5, LoginsKept DEF Shared
  <2> QED
    BY <1>8, <2>1, <2>2 DEF KeplrCreate
<1>9. ASSUME NEW r \in Requests, KeplrReselect(r) PROVE NotStolen
  BY <1>9, <1>a, <1>b DEF KeplrReselect, tables
<1>10. ASSUME NEW r \in Requests, ConnectReadNonce(r) PROVE NotStolen
  BY <1>10, <1>a, <1>b DEF ConnectReadNonce, tables
<1>11. ASSUME NEW r \in Requests, ConnectRotate(r) PROVE NotStolen
  <2>1. /\ \A b \in AccountIds : account'[b].addr = account[b].addr
        /\ UNCHANGED private
    BY <1>11, <1>a DEF ConnectRotate, RotateNonce, TypeOK, AccountRow
  <2> QED
    BY <1>a, <2>1, AddrsKept, LoginsKept DEF Shared
<1>12. ASSUME NEW r \in Requests, ConnectSetAddr(r) PROVE NotStolen
  <2>1. /\ UNCHANGED private
        /\ \/ account' = account
           \/ /\ \A b \in AccountIds : account[b].addr # req[r].addr
              /\ account' = [account EXCEPT ![req[r].acct].addr = req[r].addr]
    BY <1>12 DEF ConnectSetAddr, ByAddr
  <2>2. CASE account' = account
    BY <1>b, <2>1, <2>2
  <2>3. CASE account' # account
    <3>1. \A b \in AccountIds : account'[b].addr \in {req[r].addr, account[b].addr}
      BY <1>a, <2>1, <2>3 DEF TypeOK, AccountRow
    <3>2. \A a, b \in AccountIds : a # b => ~AddrShared(a, b)
      BY <1>a, <2>1, <2>3, <3>1 DEF AddrShared, TablesOK, AccountsOK, UniqueAddrs
    <3> QED
      BY <1>a, <2>1, <3>2, LoginsKept DEF Shared
  <2> QED
    BY <2>2, <2>3
<1>13. ASSUME NEW r \in Requests, MergeCheckPrivate(r) PROVE NotStolen
  BY <1>13, <1>a, <1>b DEF MergeCheckPrivate, tables
<1>14. ASSUME NEW r \in Requests, MergeReadNonce(r) PROVE NotStolen
  BY <1>14, <1>a, <1>b DEF MergeReadNonce, tables
<1>15. ASSUME NEW r \in Requests, MergeRollback(r) PROVE NotStolen
  <2>1. /\ \A b \in AccountIds : account'[b].addr = account[b].addr
        /\ UNCHANGED private
    BY <1>15, <1>a DEF MergeRollback, RotateNonce, TypeOK, AccountRow
  <2> QED
    BY <1>a, <2>1, AddrsKept, LoginsKept DEF Shared
<1>16. ASSUME NEW r \in Requests, NEW g \in Googles, NEW e \in Emails,
             GoogleFindEmail(r, g, e)
      PROVE  NotStolen
  BY <1>16, <1>a, <1>b DEF GoogleFindEmail, tables
<1>17. ASSUME NEW r \in Requests, NEW c \in sessions, NEW g \in Googles, NEW e \in Emails,
             GoogleConnect(r, c, g, e)
      PROVE  NotStolen
  <2>1. /\ UNCHANGED account /\ UniquePrivate(private') /\ c \in AccountIds
        /\ private' = [private EXCEPT ![c] = [private[c] EXCEPT !.email = IF @ = None THEN e ELSE @,
                                                                !.google = g, !.google_email = e]]
    BY <1>17, <1>a DEF GoogleConnect, TypeOK
  <2>2. \A a \in AccountIds \ {c} : private'[a] = private[a]
    BY <1>a, <2>1 DEF TypeOK
  <2>3. \A a, b \in AccountIds : a # b => ~EmailShared(a, b) /\ ~GoogleShared(a, b)
    <3> SUFFICES ASSUME NEW a \in AccountIds, NEW b \in AccountIds, a # b
                 PROVE  ~EmailShared(a, b) /\ ~GoogleShared(a, b)
      OBVIOUS
    <3>1. CASE b = c
      BY <2>1, <2>2, <3>1 DEF EmailShared, GoogleShared, UniquePrivate
    <3>2. CASE b # c
      BY <1>a, <2>2, <3>2 DEF EmailShared, GoogleShared, TablesOK, PrivatesOK, UniquePrivate
    <3> QED
      BY <3>1, <3>2
  <2> QED
    BY <1>a, <2>1, <2>3, AddrsKept DEF Shared
<1>18. ASSUME NEW r \in Requests, GoogleFind(r) PROVE NotStolen
  BY <1>18, <1>a, <1>b DEF GoogleFind, tables
<1>19. ASSUME NEW r \in Requests, GoogleLink(r) PROVE NotStolen
  <2>1. CASE private' = private
    BY <1>19, <1>b, <2>1 DEF GoogleLink
  <2>2. CASE private' # private
    <3>1. /\ UniquePrivate(private') /\ UNCHANGED account
          /\ private' = [x \in AccountIds |->
                           IF private[x].email = req[r].email
                           THEN [private[x] EXCEPT !.google = req[r].google, !.google_email = req[r].email]
                           ELSE private[x]]
      BY <1>19, <2>2 DEF GoogleLink
    <3>2. req[r].email # None
      BY <1>19, <1>a, Knows, ConstantsAssumption DEF GoogleLink, At
    <3>3. \A b \in AccountIds : /\ private'[b].email = private[b].email
                                /\ private'[b].google = IF private[b].email = req[r].email
                                                        THEN req[r].google ELSE private[b].google
      BY <1>a, <3>1 DEF TypeOK, PrivateRow
    <3>4. ASSUME NEW a \in AccountIds, NEW b \in AccountIds, a # b
          PROVE  ~EmailShared(a, b) /\ ~GoogleShared(a, b)
      <4>1. ~EmailShared(a, b)
        BY <1>a, <3>3, <3>4 DEF EmailShared, TablesOK, PrivatesOK, UniquePrivate
      <4>2. CASE private[b].email = req[r].email
        <5>1. private[a].email # req[r].email
          BY <1>a, <3>2, <3>4, <4>2 DEF TablesOK, PrivatesOK, UniquePrivate
        <5>2. private'[a].google = private[a].google
          BY <3>3, <5>1
        <5> QED
          BY <3>1, <3>4, <4>1, <5>2 DEF GoogleShared, UniquePrivate
      <4>3. CASE private[b].email # req[r].email
        BY <1>a, <3>3, <3>4, <4>1, <4>3 DEF GoogleShared, TablesOK, PrivatesOK, UniquePrivate
      <4> QED
        BY <4>2, <4>3
    <3> QED
      BY <1>a, <3>1, <3>4, AddrsKept DEF Shared
  <2> QED
    BY <2>1, <2>2
<1>20. ASSUME NEW r \in Requests, GoogleCreate(r) PROVE NotStolen
  <2>1. CASE UNCHANGED <<account, private>>
    BY <1>b, <2>1
  <2>2. CASE ~UNCHANGED <<account, private>>
    <3>1. PICK x \in AccountIds :
            /\ account' = [account EXCEPT ![x] = [NewAccount EXCEPT !.status = "live"]]
            /\ private' = [private EXCEPT ![x] = [exists |-> TRUE, email |-> req[r].email,
                                                  google |-> req[r].google, google_email |-> req[r].email]]
      BY <1>20, <2>2 DEF GoogleCreate, InsertAccount
    <3>2. \A b \in AccountIds : private[b].email # req[r].email /\ private[b].google # req[r].google
      BY <1>20, <2>2 DEF GoogleCreate
    <3>3. \A b \in AccountIds : account'[b].addr \in {None, account[b].addr}
      BY <1>a, <3>1 DEF TypeOK, NewAccount
    <3>4. \A b \in AccountIds : /\ private'[b].email \in {req[r].email, private[b].email}
                                /\ private'[b].google \in {req[r].google, private[b].google}
      BY <1>a, <3>1 DEF TypeOK
    <3>5. \A a, b \in AccountIds : a # b => ~EmailShared(a, b) /\ ~GoogleShared(a, b)
      BY <1>a, <3>2, <3>4 DEF EmailShared, GoogleShared, TablesOK, PrivatesOK, UniquePrivate
    <3> QED
      BY <1>a, <3>3, <3>5, AddrsKept DEF Shared
  <2> QED
    BY <2>1, <2>2
<1>21. ASSUME NEW r \in Requests, GoogleRole(r) PROVE NotStolen
  BY <1>21, <1>a, <1>b DEF GoogleRole, tables
<1>22. ASSUME NEW r \in Requests, NEW c \in sessions, GoogleDisconnect(r, c) PROVE NotStolen
  <2>1. /\ UNCHANGED account /\ c \in AccountIds
        /\ private' = [private EXCEPT ![c].google = None, ![c].google_email = None]
    BY <1>22, <1>a DEF GoogleDisconnect, TypeOK
  <2>2. \A b \in AccountIds : /\ private'[b].email = private[b].email
                              /\ private'[b].google \in {None, private[b].google}
    BY <1>a, <2>1 DEF TypeOK, PrivateRow
  <2> QED
    BY <1>a, <2>1, <2>2, AddrsKept, LoginsKept DEF Shared
<1>23. ASSUME NEW r \in Requests, NEW c \in sessions, NEW a \in AccountIds, NEW i \in Rows,
             InsertRow(r, c, i, a)
      PROVE  NotStolen
  BY <1>23, <1>a, <1>b DEF InsertRow, tables
<1>24. ASSUME NEW r \in Requests, NEW c \in sessions, NEW a \in AccountIds, NEW w \in Addrs,
             CreateProfile(r, c, a, w)
      PROVE  NotStolen
  <2>1. /\ UNCHANGED private /\ \A b \in AccountIds : account[b].addr # w
        /\ account' = [account EXCEPT ![a] = [NewAccount EXCEPT !.status = "live", !.addr = w, !.creator = c]]
    BY <1>24 DEF CreateProfile, InsertAccount, ByAddr
  <2>2. \A b \in AccountIds : account'[b].addr \in {w, account[b].addr}
    BY <1>a, <2>1 DEF TypeOK, NewAccount
  <2>3. \A x, b \in AccountIds : x # b => ~AddrShared(x, b)
    BY <1>a, <2>1, <2>2 DEF AddrShared, TablesOK, AccountsOK, UniqueAddrs
  <2> QED
    BY <1>a, <2>1, <2>3, LoginsKept DEF Shared
<1>25. ASSUME NEW r \in Requests, Lost(r) PROVE NotStolen
  BY <1>25, <1>a, <1>b DEF Lost, tables
<1>26. CASE UNCHANGED vars
  BY <1>26, <1>a, <1>b DEF vars, tables
<1> QED
  BY <1>1, <1>2, <1>3, <1>4, <1>5, <1>6, <1>7, <1>8, <1>9, <1>10, <1>11, <1>12, <1>13,
     <1>14, <1>15, <1>16, <1>17, <1>18, <1>19, <1>20, <1>21, <1>22, <1>23, <1>24,
     <1>25, <1>26
     DEF Next, WalletNext, GoogleNext

LEMMA MergesMove ==
  ASSUME IInv, NEW r \in Requests, MergeCommit(r),
         NEW a \in AccountIds, NEW b \in AccountIds, a # b, Shared(a, b)
  PROVE  a = From(req[r]) /\ b = To(req[r])
<1> DEFINE q == req[r]
<1>a. TypeOK /\ RequestOK /\ TablesOK
  BY DEF IInv
<1>1. /\ At(r, "mMerge") /\ UniqueAddrs(account')
      /\ private' = MigratedPrivate(q)
  BY DEF MergeCommit, CanMigrate
<1>2. From(q) \in AccountIds /\ To(q) \in AccountIds
  BY <1>a, <1>1, MergeNames
<1>3. /\ \A x \in AccountIds : x = From(q) =>
           account'[x] = IF Live(x) THEN DeletedAccount ELSE account[x]
      /\ \A x \in AccountIds : x # From(q) =>
           account'[x].addr = IF q.keep /\ x = To(q) /\ Live(x) THEN q.addr ELSE account[x].addr
  BY <1>a, MergeAccounts
<1>4. CASE AddrShared(a, b)
  <2>1. account'[From(q)].addr = None
    BY <1>a, <1>2, <1>3 DEF Live, DeletedAccount, NewAccount, TablesOK, AccountsOK
  <2>2. b # From(q)
    BY <1>4, <2>1 DEF AddrShared
  <2>3. b = To(q)
    BY <1>a, <1>3, <1>4, <2>2, AddrsKept DEF AddrShared, TablesOK, AccountsOK, UniqueAddrs
  <2>4. a = From(q)
    BY <1>1, <1>3, <1>4, <2>3 DEF AddrShared, UniqueAddrs
  <2> QED
    BY <2>3, <2>4
<1>5. CASE EmailShared(a, b) \/ GoogleShared(a, b)
  <2>1. CASE \E x \in AccountIds : private' = [private EXCEPT ![x] = NoPrivate]
    <3>1. \A y \in AccountIds : /\ private'[y].email \in {None, private[y].email}
                                /\ private'[y].google \in {None, private[y].google}
      BY <1>a, <2>1 DEF NoPrivate, TypeOK
    <3> QED
      BY <1>a, <1>5, <3>1, LoginsKept
  <2>2. CASE /\ private' = [private EXCEPT ![From(q)] = NoPrivate, ![To(q)] = private[From(q)]]
             /\ From(q) # To(q)
    <3>1. /\ private'[From(q)] = NoPrivate /\ private'[To(q)] = private[From(q)]
          /\ \A y \in AccountIds \ {From(q), To(q)} : private'[y] = private[y]
      BY <1>a, <1>2, <2>2 DEF TypeOK
    <3> QED
      BY <1>a, <1>2, <1>5, <3>1
         DEF EmailShared, GoogleShared, NoPrivate, TablesOK, PrivatesOK, UniquePrivate
  <2> QED
    BY <1>1, <1>2, <2>1, <2>2 DEF MigratedPrivate
<1> QED
  BY <1>4, <1>5 DEF Shared

\* However requests overlap, a wallet, e-mail or Google user that opens an account
\* comes to open another one only when a merge moves it there.
THEOREM LoginsAreNotStolen == Spec => NoLoginStolen
<1> DEFINE Moves ==
      \A a, b \in AccountIds :
        a # b /\ Opening(a) \cap Opening(b)' # {} =>
          \E r \in Requests : From(req[r]) = a /\ To(req[r]) = b /\ MergeCommit(r)
<1>1. IInv /\ [Next]_vars => Moves
  <2> SUFFICES ASSUME IInv, [Next]_vars, NEW a \in AccountIds, NEW b \in AccountIds,
                      a # b, Opening(a) \cap Opening(b)' # {}
               PROVE  \E r \in Requests : From(req[r]) = a /\ To(req[r]) = b /\ MergeCommit(r)
    OBVIOUS
  <2>1. Shared(a, b)
    BY SameCredential, TypeStep DEF IInv
  <2>2. PICK r \in Requests : MergeCommit(r)
    BY <2>1, OnlyMergesMove
  <2> QED
    BY <2>1, <2>2, MergesMove
<1> QED
  BY <1>1, Invariant, PTL DEF Spec, NoLoginStolen

=============================================================================
