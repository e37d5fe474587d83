---------------------------- MODULE IdentityProofs ----------------------------
(***************************************************************************)
(* One request at a time, the account tables implement Identity: whose a   *)
(* credential is can be read off the tables, and what a statement changes  *)
(* in them is a step of Identity. Requests that overlap implement what     *)
(* Identity promises of late merges.                                       *)
(***************************************************************************)
EXTENDS AccountsProofs

Opens(a, c) == c \in {account[a].addr, private[a].email, private[a].google}

LoginOK ==
  /\ login \in [Credentials -> AccountIds \cup {None}]
  /\ \A c \in Credentials, a \in AccountIds : login[c] = a <=> Opens(a, c)

\* What a merge under way knows when nobody else changes the tables.
SerialOK ==
  \A r \in Requests :
    LET q == req[r]
    IN /\ q.pc \in {"mCheck", "mNonce", "mMerge"} => account[q.wallet].addr = q.addr
       /\ q.pc \in {"mNonce", "mMerge"} =>
            private[q.wallet].email = None /\ private[q.wallet].google = None
       /\ q.pc = "mMerge" => Live(q.acct)

-----------------------------------------------------------------------------
(* The tables say whose a credential is *)

\* The kinds of credentials are told apart by the column they are in.
Columns ==
  \A a \in AccountIds :
    /\ \A c \in Addrs : Opens(a, c) <=> account[a].addr = c
    /\ \A c \in Emails : Opens(a, c) <=> private[a].email = c
    /\ \A c \in Googles : Opens(a, c) <=> private[a].google = c

LEMMA Kinds == TypeOK => Columns
<1> SUFFICES ASSUME TypeOK, NEW a \in AccountIds
             PROVE  /\ \A c \in Addrs : Opens(a, c) <=> account[a].addr = c
                    /\ \A c \in Emails : Opens(a, c) <=> private[a].email = c
                    /\ \A c \in Googles : Opens(a, c) <=> private[a].google = c
  BY DEF Columns
<1>1. /\ account[a].addr \in Addrs \cup {None} /\ private[a].email \in Emails \cup {None}
      /\ private[a].google \in Googles \cup {None}
  BY DEF TypeOK, AccountRow, PrivateRow
<1>2. /\ Addrs \cap Emails = {} /\ Addrs \cap Googles = {} /\ Emails \cap Googles = {}
      /\ None \notin Addrs /\ None \notin Emails /\ None \notin Googles
  BY ConstantsAssumption
<1> QED
  BY <1>1, <1>2 DEF Opens

LEMMA LoginIs == TypeOK /\ TablesOK => LoginOK
<1> SUFFICES ASSUME TypeOK, TablesOK PROVE LoginOK
  OBVIOUS
<1>1. ASSUME NEW c \in Credentials, NEW a \in AccountIds, NEW b \in AccountIds,
             Opens(a, c), Opens(b, c)
      PROVE  a = b
  <2>1. Columns
    BY Kinds
  <2>2. c # None
    BY ConstantsAssumption DEF Credentials
  <2> QED
    BY <1>1, <2>1, <2>2
       DEF Credentials, Columns, TablesOK, AccountsOK, PrivatesOK, UniqueAddrs, UniquePrivate
<1>2. ASSUME NEW c \in Credentials
      PROVE  /\ login[c] \in AccountIds \cup {None}
             /\ \A a \in AccountIds : login[c] = a <=> Opens(a, c)
  <2>1. \A a \in AccountIds : a \in Opened(c) <=> Opens(a, c)
    BY DEF Opened, Opens
  <2>2. Opened(c) \subseteq AccountIds
    BY DEF Opened
  <2>3. CASE Opened(c) = {}
    BY <2>1, <2>3, ConstantsAssumption DEF login
  <2>4. CASE Opened(c) # {}
    <3>1. login[c] \in Opened(c)
      BY <2>4 DEF login
    <3> QED
      BY <1>1, <2>1, <2>2, <3>1
  <2> QED
    BY <2>3, <2>4
<1>3. login \in [Credentials -> AccountIds \cup {None}]
  BY <1>2 DEF login
<1> QED
  BY <1>2, <1>3 DEF LoginOK

\* The tables before and after a step.
Before == TypeOK /\ TablesOK /\ LoginOK /\ Columns

LEMMA Both == IInv /\ IInv' => Before /\ Before'
<1>1. IInv => Before
  BY Kinds, LoginIs DEF IInv, Before
<1> QED
  BY <1>1, PTL

LEMMA Reads ==
  ASSUME LoginOK', NEW f \in [Credentials -> AccountIds \cup {None}],
         \A c \in Credentials, a \in AccountIds : f[c] = a <=> Opens(a, c)'
  PROVE  login' = f
<1>1. ASSUME NEW c \in Credentials PROVE login'[c] = f[c]
  BY <1>1 DEF LoginOK
<1> QED
  BY <1>1 DEF LoginOK

-----------------------------------------------------------------------------
(* What the statements do to the credentials *)

\* The credentials of account a are the same after the step.
Same(a) == /\ account'[a].addr = account[a].addr
           /\ private'[a].email = private[a].email
           /\ private'[a].google = private[a].google

LEMMA SameOpens == ASSUME NEW a, NEW c, Same(a) PROVE Opens(a, c)' <=> Opens(a, c)
BY DEF Same, Opens

\* A step that changes no credential changes no login.
LEMMA Quiet ==
  ASSUME Before, Before', \A a \in AccountIds : Same(a)
  PROVE  UNCHANGED login
<1>1. \A c \in Credentials, a \in AccountIds : login[c] = a <=> Opens(a, c)'
  BY SameOpens DEF Before, LoginOK
<1>2. login \in [Credentials -> AccountIds \cup {None}]
  BY DEF Before, LoginOK
<1> QED
  BY <1>1, <1>2, Reads DEF Before

\* A step that gives account a credentials it had not, of which only the wallet
\* and the Google user may replace former ones, links them.
LEMMA Linking ==
  ASSUME Before, Before', UNCHANGED owner, NEW a \in AccountIds,
         \A b \in AccountIds \ {a} : Same(b),
         account[a].addr = None \/ account'[a].addr # None,
         private[a].google = None \/ private'[a].google # None,
         private[a].email = None \/ private'[a].email = private[a].email
  PROVE  Id!Next
<1> DEFINE S == {c \in Credentials : Opens(a, c)' /\ ~Opens(a, c)}
           Replaced(c) == login[c] = a /\ \E d \in S : Id!SameKind(c, d)
           f == [c \in Credentials |->
                   IF c \in S THEN a ELSE IF Replaced(c) THEN None ELSE login[c]]
<1>1. LoginOK /\ LoginOK' /\ Columns /\ Columns' /\ TypeOK'
  BY DEF Before
<1>2. \A c \in Credentials, b \in AccountIds :
        (login[c] = b <=> Opens(b, c)) /\ (login'[c] = b <=> Opens(b, c)')
  BY <1>1 DEF LoginOK
<1>3. \A c \in Credentials : login[c] \in AccountIds \cup {None}
  BY <1>1 DEF LoginOK
<1>4. \A b \in AccountIds \ {a}, c \in Credentials : Opens(b, c)' <=> Opens(b, c)
  BY SameOpens
<1>5. \A c \in S : c \in Credentials /\ Opens(a, c)' /\ ~Opens(a, c)
  OBVIOUS
<1>6. ASSUME NEW c \in Credentials, Opens(a, c)', ~Opens(a, c) PROVE c \in S
  BY <1>6
<1>7. S \in SUBSET Credentials
  OBVIOUS
<1> HIDE DEF S
<1>8. \A c \in S : login[c] = None
  BY <1>2, <1>3, <1>4, <1>5
<1>9. ASSUME NEW c \in Credentials, NEW d \in Credentials, Id!SameKind(c, d)
      PROVE  \/ {c, d} \subseteq Addrs \/ {c, d} \subseteq Emails \/ {c, d} \subseteq Googles
  BY <1>9 DEF Id!SameKind, Id!Kinds
<1>10. ASSUME NEW c \in Credentials, NEW d \in Credentials, Id!SameKind(c, d),
              Opens(a, c)', Opens(a, d)'
       PROVE  c = d
  BY <1>1, <1>9, <1>10 DEF Columns
<1>11. ASSUME NEW c \in S \cap Emails, NEW e \in Emails PROVE login[e] # a
  <2> SUFFICES ASSUME login[e] = a PROVE FALSE
    OBVIOUS
  <2>1. private[a].email = e /\ e # None
    BY <1>1, <1>2, ConstantsAssumption DEF Columns, Credentials
  <2>2. private'[a].email = c
    BY <1>1, <1>5 DEF Columns
  <2> QED
    BY <1>1, <1>5, <2>1, <2>2 DEF Columns
\* What a had of a kind, it has still unless another one of that kind came.
<1>12. ASSUME NEW c \in Credentials, Opens(a, c)
       PROVE  Opens(a, c)' \/ \E d \in S : Id!SameKind(c, d)
  <2>1. ASSUME NEW K \in {Addrs, Emails, Googles}, c \in K, NEW d \in K, Opens(a, d)'
        PROVE  Opens(a, c)' \/ \E x \in S : Id!SameKind(c, x)
    <3>1. Id!SameKind(c, d) /\ Id!SameKind(d, c) /\ d \in Credentials
      BY <2>1 DEF Id!SameKind, Id!Kinds, Credentials
    <3>2. CASE Opens(a, d)
      <4>1. c = d
        BY <1>1, <1>12, <2>1, <3>2 DEF Columns
      <4> QED
        BY <2>1, <4>1
    <3> QED
      BY <1>6, <2>1, <3>1, <3>2
  <2>2. /\ account'[a].addr \in Addrs \cup {None} /\ private'[a].email \in Emails \cup {None}
        /\ private'[a].google \in Googles \cup {None}
    BY <1>1 DEF TypeOK, AccountRow, PrivateRow
  <2>3. None \notin Credentials
    BY ConstantsAssumption DEF Credentials
  <2>4. CASE c \in Addrs
    <3>1. account[a].addr = c /\ account'[a].addr \in Addrs
      BY <1>1, <1>12, <2>2, <2>3, <2>4 DEF Columns
    <3> QED
      BY <1>1, <2>1, <2>4, <3>1 DEF Columns
  <2>5. CASE c \in Emails
    BY <1>1, <1>12, <2>3, <2>5 DEF Columns
  <2>6. CASE c \in Googles
    <3>1. private[a].google = c /\ private'[a].google \in Googles
      BY <1>1, <1>12, <2>2, <2>3, <2>6 DEF Columns
    <3> QED
      BY <1>1, <2>1, <2>6, <3>1 DEF Columns
  <2> QED
    BY <2>4, <2>5, <2>6 DEF Credentials
<1>13. None \notin AccountIds
  BY ConstantsAssumption
<1>14. ASSUME NEW c \in Credentials, NEW b \in AccountIds PROVE f[c] = b <=> Opens(b, c)'
  <2>1. CASE b # a
    BY <1>2, <1>4, <1>5, <1>8, <1>13, <2>1
  <2>2. CASE b = a /\ c \in S
    BY <1>5, <2>2
  <2>3. CASE b = a /\ c \notin S
    <3>1. ASSUME Opens(a, c)' PROVE Opens(a, c) /\ ~Replaced(c)
      <4>1. ASSUME NEW d \in S, Id!SameKind(c, d) PROVE FALSE
        BY <1>5, <1>10, <2>3, <3>1, <4>1
      <4> QED
        BY <1>6, <2>3, <3>1, <4>1
    <3>2. ASSUME Opens(a, c), ~Replaced(c) PROVE Opens(a, c)'
      BY <1>2, <1>12, <3>2
    <3> QED
      BY <1>2, <1>13, <2>3, <3>1, <3>2
  <2> QED
    BY <2>1, <2>2, <2>3
<1>15. f \in [Credentials -> AccountIds \cup {None}]
  BY <1>3
<1>16. login' = f
  <2> HIDE DEF f
  <2> QED
    BY <1>1, <1>14, <1>15, Reads
<1>17. \A c, d \in S : Id!SameKind(c, d) => c = d
  BY <1>5, <1>10
<1>18. Id!Credentials = Credentials
  BY DEF Id!Credentials, Credentials
<1>19. Id!Link(S, a)
  BY <1>8, <1>11, <1>16, <1>17, <1>18 DEF Id!Link
<1> QED
  BY <1>7, <1>18, <1>19 DEF Id!Next

\* One that changes neither tables nor rows.
LEMMA Unread ==
  ASSUME Before, Before', UNCHANGED <<account, private, owner>>
  PROVE  UNCHANGED <<login, owner>>
BY Quiet DEF Same

\* An account that is not there has no credential.
LEMMA Blank ==
  ASSUME TablesOK, NEW a \in AccountIds, ~Live(a)
  PROVE  account[a].addr = None /\ private[a].email = None /\ private[a].google = None
BY DEF TablesOK, AccountsOK, PrivatesOK, Linked, Live

LEMMA Disconnected ==
  ASSUME Before, Before', NEW c \in AccountIds, UNCHANGED <<account, owner>>,
         private' = [private EXCEPT ![c].google = None, ![c].google_email = None]
  PROVE  UNCHANGED <<login, owner>> \/ Id!Next
<1> DEFINE g == private[c].google
<1>1. LoginOK /\ LoginOK' /\ Columns /\ Columns' /\ TypeOK /\ TypeOK'
  BY DEF Before
<1>2. g \in Googles \cup {None}
  BY <1>1 DEF TypeOK, PrivateRow
<1>3. /\ \A b \in AccountIds \ {c} : Same(b)
      /\ private'[c].google = None /\ private'[c].email = private[c].email
      /\ account'[c].addr = account[c].addr
  BY <1>1 DEF Same, TypeOK, PrivateRow
<1> HIDE DEF g
<1>4. CASE g = None
  <2>1. \A b \in AccountIds : Same(b)
    BY <1>3, <1>4 DEF Same, g
  <2> QED
    BY <2>1, Quiet
<1>5. CASE g \in Googles
  <2> DEFINE f == [login EXCEPT ![g] = None]
  <2>1. g \in Credentials /\ None \notin AccountIds /\ None \notin Credentials
    BY <1>5, ConstantsAssumption DEF Credentials
  <2>2. login \in [Credentials -> AccountIds \cup {None}]
    BY <1>1 DEF LoginOK
  <2>3. Opens(c, g)
    BY DEF Opens, g
  <2>4. ASSUME NEW x \in Credentials, NEW a \in AccountIds PROVE f[x] = a <=> Opens(a, x)'
    <3>1. f[x] = IF x = g THEN None ELSE login[x]
      BY <2>1, <2>2
    <3>2. login[x] = a <=> Opens(a, x)
      BY <1>1 DEF LoginOK
    <3>3. a # c => (Opens(a, x)' <=> Opens(a, x))
      BY <1>3, SameOpens
    <3>4. Opens(a, g) => a = c
      BY <1>1, <2>1, <2>3 DEF LoginOK
    <3>5. Opens(c, x)' <=> x \in {account[c].addr, private[c].email}
      BY <1>3, <2>1 DEF Opens
    <3>6. Opens(c, x) <=> x \in {account[c].addr, private[c].email, g}
      BY DEF Opens, g
    <3>7. g \notin {account[c].addr, private[c].email}
      BY <1>1, <1>5, ConstantsAssumption DEF TypeOK, AccountRow, PrivateRow
    <3> QED
      BY <2>1, <3>1, <3>2, <3>3, <3>4, <3>5, <3>6, <3>7
  <2>5. f \in [Credentials -> AccountIds \cup {None}]
    BY <2>1, <2>2
  <2>6. login' = f
    <3> HIDE DEF f
    <3> QED
      BY <1>1, <2>4, <2>5, Reads
  <2>7. Id!Release(g)
    BY <1>5, <2>6 DEF Id!Release
  <2> QED
    BY <1>5, <2>7 DEF Id!Next
<1> QED
  BY <1>2, <1>4, <1>5

\* A merge, or the removal of an account by itself.
LEMMA Merging ==
  ASSUME IInv, Before, Before', SerialOK, NEW r \in Requests, MergeCommit(r)
  PROVE  /\ Id!Next
         /\ From(req[r]) # To(req[r]) =>
              \A c \in Emails \cup Googles : login[c] # None => login'[c] # None
<1>1. At(r, "mMerge") /\ TypeOK /\ RequestOK /\ TablesOK
  BY DEF MergeCommit, IInv
<1>q. PICK q \in Request, from \in AccountIds, to \in AccountIds :
        /\ q = req[r] /\ from = From(q) /\ to = To(q)
        /\ q.addr \in Addrs /\ q.acct \in AccountIds /\ q.wallet \in AccountIds
  BY <1>1, MergeNames
<1>2. q.addr \in Addrs /\ q.acct \in AccountIds /\ q.wallet \in AccountIds
  BY <1>q
<1>3. /\ Live(q.acct) /\ account[q.wallet].addr = q.addr
      /\ private[q.wallet].email = None /\ private[q.wallet].google = None
  BY <1>q, <1>1 DEF SerialOK, At
<1>4. LoginOK /\ LoginOK' /\ Columns /\ Columns' /\ TypeOK'
  BY DEF Before
<1>5. Live(q.wallet) /\ q.addr # None
  BY <1>1, <1>2, <1>3, ConstantsAssumption, Blank
<1>6. Live(from) /\ Live(to)
  BY <1>q, <1>3, <1>5 DEF From, To
<1>7. /\ account' = MigratedAccount(q) /\ private' = MigratedPrivate(q)
      /\ owner' = MigratedOwner(from, to) /\ CanMigrate(q)
      /\ account[q.acct].epoch < MaxEpoch
  BY <1>q DEF MergeCommit
<1>8. /\ q.keep => from = q.wallet /\ to = q.acct
      /\ ~q.keep => from = q.acct /\ to = q.wallet
  BY <1>q DEF From, To
<1>m. \A a \in AccountIds : MigratedAccount(q)[a] =
        IF a = from THEN DeletedAccount
        ELSE [status |-> account[a].status,
              addr |-> IF q.keep /\ a = to THEN q.addr ELSE account[a].addr,
              creator |-> Moved(account[a].creator, from, to),
              epoch |-> IF a = q.acct /\ Live(a) THEN account[a].epoch + 1 ELSE account[a].epoch]
  <2>1. From(q) \in AccountIds /\ To(q) \in AccountIds /\ Live(From(q)) /\ Live(To(q))
    BY <1>q, <1>6
  <2>2. \A a \in AccountIds : MigratedAccount(q)[a] =
          IF a = From(q) /\ Live(a) THEN DeletedAccount
          ELSE IF a = From(q) THEN account[a]
          ELSE [status |-> account[a].status,
                addr |-> IF q.keep /\ a = To(q) /\ Live(a) THEN q.addr ELSE account[a].addr,
                creator |-> Moved(account[a].creator, From(q), To(q)),
                epoch |-> IF a = q.acct /\ Live(a) THEN account[a].epoch + 1 ELSE account[a].epoch]
    BY <1>1, <1>2, <1>7, <2>1, Migrated
  <2> QED
    BY <1>q, <2>1, <2>2
<1>9. \A a \in AccountIds : account'[a].addr =
        IF a = from THEN None ELSE IF a = to THEN q.addr ELSE account[a].addr
  <2>1. ASSUME NEW a \in AccountIds
        PROVE  account'[a].addr = IF a = from THEN None
                                  ELSE IF q.keep /\ a = to THEN q.addr ELSE account[a].addr
    <3>1. DeletedAccount.addr = None
      BY DEF DeletedAccount, NewAccount
    <3>2. account'[a] = MigratedAccount(q)[a]
      BY <1>7
    <3>3. CASE a = from
      BY <1>m, <3>1, <3>2, <3>3
    <3>4. CASE a # from
      <4> DEFINE row == [status |-> account[a].status,
                         addr |-> IF q.keep /\ a = to THEN q.addr ELSE account[a].addr,
                         creator |-> Moved(account[a].creator, from, to),
                         epoch |-> IF a = q.acct /\ Live(a) THEN account[a].epoch + 1
                                   ELSE account[a].epoch]
      <4>1. row.addr = IF q.keep /\ a = to THEN q.addr ELSE account[a].addr
        OBVIOUS
      <4>2. account'[a] = row
        BY <1>m, <3>2, <3>4
      <4> HIDE DEF row
      <4> QED
        BY <3>4, <4>1, <4>2
    <3> QED
      BY <3>3, <3>4
  <2> QED
    BY <1>3, <1>8, <2>1
<1>10. /\ \A a \in AccountIds \ {from, to} : private'[a] = private[a]
       /\ private'[from].email = None /\ private'[from].google = None
       /\ from # to => /\ private'[to].email \in {private[from].email, private[to].email}
                       /\ private'[to].google \in {private[from].google, private[to].google}
                       /\ private[from].email # None => private'[to].email = private[from].email
                       /\ private[from].google # None => private'[to].google = private[from].google
                       /\ private[to].email # None => private'[to].email = private[to].email
                       /\ private[to].google # None => private'[to].google = private[to].google
  <2>1. private \in [AccountIds -> PrivateRow] /\ \A a \in AccountIds : ~private[a].exists =>
          private[a].email = None /\ private[a].google = None
    BY <1>1 DEF TypeOK, TablesOK, PrivatesOK
  <2>2. NoPrivate.email = None /\ NoPrivate.google = None
    BY DEF NoPrivate
  <2>3. private' = IF q.keep \/ from = to \/ ~private[from].exists
                   THEN [private EXCEPT ![IF q.keep THEN from ELSE to] = NoPrivate]
                   ELSE [private EXCEPT ![from] = NoPrivate, ![to] = private[from]]
    BY <1>q, <1>7 DEF MigratedPrivate
  <2>4. CASE q.keep
    BY <1>2, <1>3, <1>8, <2>1, <2>2, <2>3, <2>4
  <2>5. CASE ~q.keep /\ (from = to \/ ~private[from].exists)
    BY <1>2, <1>3, <1>8, <2>1, <2>2, <2>3, <2>5
  <2>6. CASE ~q.keep /\ from # to /\ private[from].exists
    BY <1>2, <1>3, <1>8, <2>1, <2>2, <2>3, <2>6
  <2> QED
    BY <2>4, <2>5, <2>6
<1>11. \A a \in AccountIds \ {from, to}, c \in Credentials : Opens(a, c)' <=> Opens(a, c)
  BY <1>9, <1>10 DEF Opens
<1>12. None \notin AccountIds /\ None \notin Credentials /\ Id!Credentials = Credentials
  BY ConstantsAssumption DEF Credentials, Id!Credentials
<1>13. ASSUME NEW c \in Credentials PROVE ~Opens(from, c)'
  BY <1>2, <1>9, <1>10, <1>12 DEF Opens
<1>14. \A c \in Credentials, a \in AccountIds : login[c] = a <=> Opens(a, c)
  BY <1>4 DEF LoginOK
<1>15. login \in [Credentials -> AccountIds \cup {None}]
  BY <1>4 DEF LoginOK
<1>16. CASE from = to
  <2> DEFINE f == [c \in Credentials |-> IF login[c] = from THEN None ELSE login[c]]
  <2>1. from = q.acct /\ from = q.wallet
    BY <1>8, <1>16
  <2>2. \A c \in Credentials, a \in AccountIds : f[c] = a <=> Opens(a, c)'
    BY <1>11, <1>12, <1>13, <1>14, <1>16
  <2>3. f \in [Credentials -> AccountIds \cup {None}]
    BY <1>15
  <2>4. login' = f
    <3> HIDE DEF f
    <3> QED
      BY <1>4, <2>2, <2>3, Reads
  <2>5. ASSUME NEW i \in Rows PROVE owner[i] # from /\ owner'[i] = owner[i]
    <3>1. MigratedOwner(from, to)[i] = owner[i]
      BY <1>16 DEF MigratedOwner, Moved
    <3>2. MigratedAccount(q)[from].status # "live"
      BY <1>m DEF DeletedAccount, NewAccount
    <3>3. owner[i] \in {a \in AccountIds : MigratedAccount(q)[a].status = "live"} \cup {None}
      BY <1>q, <1>7, <3>1 DEF CanMigrate
    <3> QED
      BY <1>2, <1>7, <1>12, <3>1, <3>2, <3>3
  <2>6. owner' = owner
    BY <1>1, <1>7, <2>5 DEF TypeOK, MigratedOwner
  <2>7. \A c \in Emails \cup Googles : login[c] # from
    BY <1>2, <1>3, <1>4, <1>12, <1>14, <2>1 DEF Columns, Credentials
  <2>8. Id!Close(from)
    BY <1>12, <2>4, <2>5, <2>6, <2>7 DEF Id!Close, Id!Owned
  <2> QED
    BY <1>q, <1>16, <2>8 DEF Id!Next
<1>17. CASE from # to
  <2> DEFINE f == [c \in Credentials |->
                     IF login[c] \notin {to, from} THEN login[c]
                     ELSE IF c \in Addrs \ {q.addr} THEN None ELSE to]
  <2>1. ASSUME NEW c \in Credentials
        PROVE  Opens(to, c)' <=> (Opens(to, c) \/ Opens(from, c)) /\ (c \in Addrs => c = q.addr)
    <3>1. CASE c \in Addrs
      <4>1. Opens(to, c)' <=> c = q.addr
        BY <1>2, <1>4, <1>9, <1>17, <3>1 DEF Columns
      <4>2. c = q.addr => Opens(q.wallet, c) /\ q.wallet \in {from, to}
        BY <1>3, <1>8 DEF Opens
      <4> QED
        BY <3>1, <4>1, <4>2
    <3>2. CASE c \in Emails
      <4>1. c \notin Addrs
        BY <3>2, ConstantsAssumption
      <4> QED
        BY <1>2, <1>4, <1>10, <1>12, <1>17, <3>2, <4>1 DEF Columns
    <3>3. CASE c \in Googles
      <4>1. c \notin Addrs
        BY <3>3, ConstantsAssumption
      <4> QED
        BY <1>2, <1>4, <1>10, <1>12, <1>17, <3>3, <4>1 DEF Columns
    <3> QED
      BY <3>1, <3>2, <3>3 DEF Credentials
  <2>2. ASSUME NEW c \in Credentials, NEW a \in AccountIds PROVE f[c] = a <=> Opens(a, c)'
    <3>1. CASE a \notin {from, to}
      BY <1>2, <1>11, <1>12, <1>14, <3>1
    <3>2. CASE a = from
      BY <1>2, <1>12, <1>13, <1>17, <3>2
    <3>3. CASE a = to
      BY <1>2, <1>12, <1>14, <2>1, <3>3
    <3> QED
      BY <3>1, <3>2, <3>3
  <2>3. f \in [Credentials -> AccountIds \cup {None}]
    BY <1>2, <1>15
  <2>4. login' = f
    <3> HIDE DEF f
    <3> QED
      BY <1>4, <2>2, <2>3, Reads
  <2>5. login[q.addr] \in {to, from}
    <3>1. q.addr \in Credentials /\ Opens(q.wallet, q.addr)
      BY <1>2, <1>3 DEF Credentials, Opens
    <3> QED
      BY <1>2, <1>8, <1>14, <3>1
  <2>6. owner' = [i \in Rows |-> IF owner[i] = from THEN to ELSE owner[i]]
    BY <1>7 DEF MigratedOwner, Moved
  <2>7. Id!Merge(to, from, q.addr)
    BY <1>12, <1>17, <2>4, <2>5, <2>6 DEF Id!Merge
  <2>8. ASSUME NEW c \in Emails \cup Googles, login[c] # None PROVE login'[c] # None
    <3>1. c \in Credentials /\ c \notin Addrs
      BY ConstantsAssumption DEF Credentials
    <3> QED
      BY <1>2, <1>12, <2>4, <2>8, <3>1
  <2>9. Id!Next
    BY <1>2, <2>7 DEF Id!Next
  <2> QED
    BY <2>8, <2>9
<1> QED
  BY <1>16, <1>17

\* A merge whose accounts have changed since they were checked: it takes place
\* between the same two accounts, or has become the removal of one.
LEMMA MergingLate ==
  ASSUME IInv, Before, Before', NEW r \in Requests, MergeCommit(r)
  PROVE  Id!NextLate
<1>1. At(r, "mMerge") /\ TypeOK /\ RequestOK /\ TablesOK
  BY DEF MergeCommit, IInv
<1>q. PICK q \in Request, from \in AccountIds, to \in AccountIds :
        /\ q = req[r] /\ from = From(q) /\ to = To(q)
        /\ q.addr \in Addrs /\ q.acct \in AccountIds /\ q.wallet \in AccountIds
  BY <1>1, MergeNames
<1>2. /\ account' = MigratedAccount(q) /\ private' = MigratedPrivate(q)
      /\ owner' = MigratedOwner(from, to) /\ CanMigrate(q)
      /\ account[q.acct].epoch < MaxEpoch
  BY <1>q DEF MergeCommit
<1>3. /\ q.keep => from = q.wallet /\ to = q.acct
      /\ ~q.keep => from = q.acct /\ to = q.wallet
  BY <1>q DEF From, To
<1>4. LoginOK /\ LoginOK' /\ Columns /\ Columns' /\ TypeOK'
  BY DEF Before
<1>5. /\ None \notin AccountIds /\ None \notin Credentials /\ Id!Credentials = Credentials
      /\ Addrs \cap (Emails \cup Googles) = {}
  BY ConstantsAssumption DEF Credentials, Id!Credentials
<1>6. /\ \A c \in Credentials, a \in AccountIds : (login[c] = a <=> Opens(a, c)) /\ (login'[c] = a <=> Opens(a, c)')
      /\ login \in [Credentials -> AccountIds \cup {None}]
  BY <1>4 DEF LoginOK
<1>m. ASSUME NEW a \in AccountIds
      PROVE  account'[a] =
               IF a = from /\ Live(a) THEN DeletedAccount
               ELSE IF a = from THEN account[a]
               ELSE [status |-> account[a].status,
                     addr |-> IF q.keep /\ a = to /\ Live(a) THEN q.addr ELSE account[a].addr,
                     creator |-> Moved(account[a].creator, from, to),
                     epoch |-> IF a = q.acct /\ Live(a) THEN account[a].epoch + 1 ELSE account[a].epoch]
  BY <1>1, <1>2, <1>q, Migrated
\* of the other accounts nothing changes, and nothing is left of the one that goes
<1>7. account'[from].addr = None /\ account'[from].status # "live"
  <2>1. CASE Live(from)
    <3>1. account'[from] = DeletedAccount
      BY <1>m, <2>1
    <3> QED
      BY <3>1 DEF DeletedAccount, NewAccount
  <2>2. CASE ~Live(from)
    <3>1. account'[from] = account[from]
      BY <1>m, <2>2
    <3> QED
      BY <1>1, <2>2, <3>1, Blank DEF Live
  <2> QED
    BY <2>1, <2>2
<1>8. ASSUME NEW a \in AccountIds \ {from, to} PROVE account'[a].addr = account[a].addr
  <2> DEFINE row == [status |-> account[a].status, addr |-> account[a].addr,
                     creator |-> Moved(account[a].creator, from, to),
                     epoch |-> IF a = q.acct /\ Live(a) THEN account[a].epoch + 1 ELSE account[a].epoch]
  <2>1. account'[a] = row
    BY <1>8, <1>m
  <2>2. row.addr = account[a].addr
    OBVIOUS
  <2> HIDE DEF row
  <2> QED
    BY <2>1, <2>2
<1>9. /\ \A a \in AccountIds \ {from, to} : private'[a] = private[a]
      /\ private'[from].email = None /\ private'[from].google = None
      /\ from # to => /\ private'[to].email = private[q.acct].email
                      /\ private'[to].google = private[q.acct].google
  <2>1. private \in [AccountIds -> PrivateRow] /\ \A a \in AccountIds : ~private[a].exists =>
          private[a].email = None /\ private[a].google = None
    BY <1>1 DEF TypeOK, TablesOK, PrivatesOK
  <2>2. NoPrivate.email = None /\ NoPrivate.google = None
    BY DEF NoPrivate
  <2>3. private' = IF q.keep \/ from = to \/ ~private[from].exists
                   THEN [private EXCEPT ![IF q.keep THEN from ELSE to] = NoPrivate]
                   ELSE [private EXCEPT ![from] = NoPrivate, ![to] = private[from]]
    BY <1>q, <1>2 DEF MigratedPrivate
  <2>4. CASE q.keep
    BY <1>q, <1>3, <2>1, <2>2, <2>3, <2>4
  <2>5. CASE ~q.keep /\ (from = to \/ ~private[from].exists)
    BY <1>q, <1>3, <2>1, <2>2, <2>3, <2>5
  <2>6. CASE ~q.keep /\ from # to /\ private[from].exists
    BY <1>q, <1>3, <2>1, <2>2, <2>3, <2>6
  <2> QED
    BY <2>4, <2>5, <2>6
<1>10. \A a \in AccountIds \ {from, to}, c \in Credentials : Opens(a, c)' <=> Opens(a, c)
  BY <1>8, <1>9 DEF Opens
<1>11. ASSUME NEW c \in Credentials PROVE ~Opens(from, c)'
  BY <1>q, <1>5, <1>7, <1>9 DEF Opens
<1>16. CASE from = to
  <2> DEFINE f == [c \in Credentials |-> IF login[c] = from THEN None ELSE login[c]]
  <2>1. \A c \in Credentials, a \in AccountIds : f[c] = a <=> Opens(a, c)'
    BY <1>5, <1>6, <1>10, <1>11, <1>16
  <2>2. f \in [Credentials -> AccountIds \cup {None}]
    BY <1>6
  <2>3. login' = f
    <3> HIDE DEF f
    <3> QED
      BY <1>4, <2>1, <2>2, Reads
  <2>4. ASSUME NEW i \in Rows PROVE owner[i] # from /\ owner'[i] = owner[i]
    <3>1. MigratedOwner(from, to)[i] = owner[i]
      BY <1>16 DEF MigratedOwner, Moved
    <3>2. MigratedAccount(q)[from].status # "live"
      BY <1>2, <1>7
    <3>3. owner[i] \in {a \in AccountIds : MigratedAccount(q)[a].status = "live"} \cup {None}
      BY <1>q, <1>2, <3>1 DEF CanMigrate
    <3> QED
      BY <1>q, <1>2, <1>5, <3>1, <3>2, <3>3
  <2>5. owner' = owner
    BY <1>1, <1>2, <2>4 DEF TypeOK, MigratedOwner
  <2>6. Id!CloseLate(from)
    BY <1>5, <2>3, <2>4, <2>5 DEF Id!CloseLate, Id!Owned
  <2> QED
    BY <1>q, <2>6 DEF Id!NextLate
<1>17. CASE from # to
  <2> DEFINE W == {w \in Addrs : Opens(to, w)'}
             f == [c \in Credentials |->
                     IF c \in W THEN to
                     ELSE IF login[c] \notin {to, from} THEN login[c]
                     ELSE IF c \in Addrs \/ login[c] # q.acct THEN None ELSE to]
  <2>1. \A c : c \in W <=> c \in Addrs /\ Opens(to, c)'
    OBVIOUS
  <2>2. W \in SUBSET Addrs
    OBVIOUS
  <2> HIDE DEF W
  <2>3. \A w, v \in W : w = v
    BY <1>q, <1>4, <2>1 DEF Columns
  \* an address that a third account has would be there twice
  <2>4. ASSUME NEW w \in W PROVE login[w] \in {to, from, None}
    <3> SUFFICES ASSUME login[w] \notin {to, from, None} PROVE FALSE
      OBVIOUS
    <3>1. w \in Credentials /\ login[w] \in AccountIds \ {from, to}
      BY <1>6, <2>1 DEF Credentials
    <3>2. PICK b \in AccountIds \ {from, to} : login[w] = b
      BY <3>1
    <3>3. Opens(b, w)' /\ Opens(to, w)'
      BY <1>6, <1>10, <2>1, <3>1, <3>2
    <3>4. login'[w] = b /\ login'[w] = to
      BY <1>q, <1>6, <3>1, <3>2, <3>3
    <3> QED
      BY <3>2, <3>4
  <2>5. ASSUME NEW c \in Credentials, c \notin Addrs PROVE Opens(to, c)' <=> Opens(q.acct, c)
    <3>1. CASE c \in Emails
      BY <1>q, <1>4, <1>9, <1>17, <3>1 DEF Columns
    <3>2. CASE c \in Googles
      BY <1>q, <1>4, <1>9, <1>17, <3>2 DEF Columns
    <3> QED
      BY <2>5, <3>1, <3>2 DEF Credentials
  <2>6. ASSUME NEW c \in Credentials, NEW a \in AccountIds PROVE f[c] = a <=> Opens(a, c)'
    <3>1. CASE a \notin {from, to}
      BY <1>q, <1>5, <1>6, <1>10, <2>4, <3>1
    <3>2. CASE a = from
      BY <1>q, <1>5, <1>11, <1>17, <3>2
    <3>3. CASE a = to /\ c \in Addrs
      BY <1>q, <1>5, <2>1, <3>3
    <3>4. CASE a = to /\ c \notin Addrs
      <4>1. q.acct \in {from, to} /\ c \notin W
        BY <1>3, <2>1, <3>4
      <4> QED
        BY <1>q, <1>5, <1>6, <2>5, <3>4, <4>1
    <3> QED
      BY <3>1, <3>2, <3>3, <3>4
  <2>7. f \in [Credentials -> AccountIds \cup {None}]
    BY <1>q, <1>6
  <2>8. login' = f
    <3> HIDE DEF f
    <3> QED
      BY <1>4, <2>6, <2>7, Reads
  <2>9. owner' = [i \in Rows |-> IF owner[i] = from THEN to ELSE owner[i]]
    BY <1>2 DEF MigratedOwner, Moved
  <2>10. Id!MergeLate(to, from, q.acct, W)
    BY <1>5, <1>17, <2>3, <2>4, <2>8, <2>9 DEF Id!MergeLate
  <2>11. q.acct \in {to, from}
    BY <1>3
  <2> QED
    BY <1>q, <2>2, <2>10, <2>11 DEF Id!NextLate
<1> QED
  BY <1>16, <1>17

\* Whatever a request does to the tables is a step of Identity, or a merge.
LEMMA IdentityStep ==
  ASSUME IInv, IInv', [Next]_vars
  PROVE  UNCHANGED <<login, owner>> \/ Id!Next \/ \E r \in Requests : MergeCommit(r)
<1>a. Before /\ Before' /\ TypeOK /\ TypeOK' /\ RequestOK /\ TablesOK
  BY Both DEF IInv
<1>b. UNCHANGED <<account, private, owner>> => UNCHANGED <<login, owner>>
  BY <1>a, Unread
<1>c. \A a \in AccountIds : account[a].status = "new" =>
        account[a].addr = None /\ private[a].email = None /\ private[a].google = None
  BY <1>a, Blank DEF Live
<1>1. ASSUME NEW r \in Requests, NEW w \in Addrs, NEW valid \in BOOLEAN,
             KeplrFind(r, w, valid)
      PROVE  UNCHANGED <<login, owner>> \/ Id!Next
  BY <1>b, <1>1 DEF KeplrFind, tables
<1>2. ASSUME NEW r \in Requests, NEW c \in sessions, NEW w \in Addrs, NEW valid \in BOOLEAN,
             ConnectFind(r, c, w, valid)
      PROVE  UNCHANGED <<login, owner>> \/ Id!Next
  BY <1>b, <1>2 DEF ConnectFind, tables
<1>3. ASSUME NEW r \in Requests, NEW c \in sessions, NEW w \in Addrs, NEW valid \in BOOLEAN, NEW keep \in BOOLEAN,
             MergeFind(r, c, w, valid, keep)
      PROVE  UNCHANGED <<login, owner>> \/ Id!Next
  BY <1>b, <1>3 DEF MergeFind, tables
<1>4. ASSUME NEW r \in Requests, KeplrRotate(r) PROVE UNCHANGED <<login, owner>> \/ Id!Next
  <2>1. \A a \in AccountIds : Same(a)
    BY <1>a, <1>4 DEF KeplrRotate, RotateNonce, Same, TypeOK, AccountRow
  <2> QED
    BY <1>a, <1>4, <2>1, Quiet DEF KeplrRotate
<1>5. ASSUME NEW r \in Requests,
             KeplrUnsetCreator(r)
      PROVE  UNCHANGED <<login, owner>> \/ Id!Next
  <2>1. \A a \in AccountIds : Same(a)
    BY <1>a, <1>5 DEF KeplrUnsetCreator, Same, TypeOK, AccountRow, PrivateRow
  <2> QED
    BY <1>a, <1>5, <2>1, Quiet DEF KeplrUnsetCreator
<1>6. ASSUME NEW r \in Requests,
             KeplrInsertPrivate(r)
      PROVE  UNCHANGED <<login, owner>> \/ Id!Next
  <2>1. \A a \in AccountIds : Same(a)
    BY <1>a, <1>6 DEF KeplrInsertPrivate, Same, TypeOK, AccountRow, PrivateRow
  <2> QED
    BY <1>a, <1>6, <2>1, Quiet DEF KeplrInsertPrivate
<1>7. ASSUME NEW r \in Requests, KeplrRole(r) PROVE UNCHANGED <<login, owner>> \/ Id!Next
  BY <1>b, <1>7 DEF KeplrRole, tables
<1>8. ASSUME NEW r \in Requests, KeplrCreate(r) PROVE UNCHANGED <<login, owner>> \/ Id!Next
  <2>1. ASSUME NEW a \in ByAddr(req[r].addr),
               account' = [account EXCEPT ![a].creator = None],
               private' = [private EXCEPT ![a].exists = TRUE]
        PROVE  UNCHANGED <<login, owner>>
    <3>1. \A b \in AccountIds : Same(b)
      BY <1>a, <2>1 DEF Same, TypeOK, AccountRow, PrivateRow
    <3> QED
      BY <1>a, <1>8, <3>1, Quiet DEF KeplrCreate
  <2>2. ASSUME NEW a \in AccountIds,
               InsertAccount(a, [NewAccount EXCEPT !.status = "live", !.addr = req[r].addr]),
               private' = [private EXCEPT ![a] = EmptyPrivate]
        PROVE  Id!Next
    <3>1. req[r].addr # None
      BY <1>a, <1>8 DEF KeplrCreate, At, RequestOK, Sound, HasAddr
    <3>2. \A b \in AccountIds \ {a} : Same(b)
      BY <1>a, <2>2 DEF InsertAccount, Same, TypeOK
    <3>3. account'[a].addr # None
      BY <1>a, <2>2, <3>1 DEF InsertAccount, NewAccount, TypeOK
    <3>4. private[a].google = None /\ private[a].email = None
      BY <1>a, <1>c, <2>2 DEF InsertAccount
    <3>5. private'[a].email = None
      BY <1>a, <2>2 DEF EmptyPrivate, NoPrivate, TypeOK
    <3> QED
      BY <1>a, <1>8, <3>2, <3>3, <3>4, <3>5, Linking DEF KeplrCreate
  <2> QED
    BY <1>8, <2>1, <2>2 DEF KeplrCreate
<1>9. ASSUME NEW r \in Requests,
             KeplrReselect(r)
      PROVE  UNCHANGED <<login, owner>> \/ Id!Next
  BY <1>b, <1>9 DEF KeplrReselect, tables
<1>10. ASSUME NEW r \in Requests,
             ConnectReadNonce(r)
      PROVE  UNCHANGED <<login, owner>> \/ Id!Next
  BY <1>b, <1>10 DEF ConnectReadNonce, tables
<1>11. ASSUME NEW r \in Requests,
             ConnectRotate(r)
      PROVE  UNCHANGED <<login, owner>> \/ Id!Next
  <2>1. \A a \in AccountIds : Same(a)
    BY <1>a, <1>11 DEF ConnectRotate, RotateNonce, Same, TypeOK, AccountRow
  <2> QED
    BY <1>a, <1>11, <2>1, Quiet DEF ConnectRotate
<1>12. ASSUME NEW r \in Requests,
             ConnectSetAddr(r)
      PROVE  UNCHANGED <<login, owner>> \/ Id!Next
  <2> DEFINE a == req[r].acct
  <2>1. CASE account' = account
    BY <1>b, <1>12, <2>1 DEF ConnectSetAddr
  <2>2. CASE account' = [account EXCEPT ![a].addr = req[r].addr]
    <3>1. a \in AccountIds /\ req[r].addr # None
      BY <1>a, <1>12 DEF ConnectSetAddr, At, RequestOK, Sound, HasAccount, HasAddr, TypeOK, Request
    <3> HIDE DEF a
    <3>2. \A b \in AccountIds \ {a} : Same(b)
      BY <1>a, <1>12, <2>2 DEF ConnectSetAddr, Same, TypeOK
    <3>3. account'[a].addr = req[r].addr /\ UNCHANGED <<private, owner>>
      BY <1>a, <1>12, <2>2, <3>1 DEF ConnectSetAddr, TypeOK, AccountRow
    <3> QED
      BY <1>a, <3>1, <3>2, <3>3, Linking
  <2> QED
    BY <1>12, <2>1, <2>2 DEF ConnectSetAddr
<1>13. ASSUME NEW r \in Requests,
             MergeCheckPrivate(r)
      PROVE  UNCHANGED <<login, owner>> \/ Id!Next
  BY <1>b, <1>13 DEF MergeCheckPrivate, tables
<1>14. ASSUME NEW r \in Requests,
             MergeReadNonce(r)
      PROVE  UNCHANGED <<login, owner>> \/ Id!Next
  BY <1>b, <1>14 DEF MergeReadNonce, tables
<1>16. ASSUME NEW r \in Requests,
             MergeRollback(r)
      PROVE  UNCHANGED <<login, owner>> \/ Id!Next
  <2>1. \A a \in AccountIds : Same(a)
    BY <1>a, <1>16 DEF MergeRollback, RotateNonce, Same, TypeOK, AccountRow
  <2> QED
    BY <1>a, <1>16, <2>1, Quiet DEF MergeRollback
<1>17. ASSUME NEW r \in Requests, NEW g \in Googles, NEW e \in Emails,
             GoogleFindEmail(r, g, e)
      PROVE  UNCHANGED <<login, owner>> \/ Id!Next
  BY <1>b, <1>17 DEF GoogleFindEmail, tables
<1>18. ASSUME NEW r \in Requests, NEW c \in sessions, NEW g \in Googles, NEW e \in Emails,
             GoogleConnect(r, c, g, e)
      PROVE  UNCHANGED <<login, owner>> \/ Id!Next
  <2> DEFINE p == private[c]
  <2>1. c \in AccountIds /\ g # None
    BY <1>a, ConstantsAssumption DEF TypeOK
  <2>2. p \in PrivateRow
    BY <1>a, <2>1 DEF TypeOK
  <2>3. private' = [private EXCEPT ![c] = [p EXCEPT !.email = IF @ = None THEN e ELSE @,
                                                    !.google = g, !.google_email = e]]
    BY <1>18 DEF GoogleConnect
  <2>4. \A b \in AccountIds \ {c} : Same(b)
    BY <1>a, <1>18, <2>3 DEF GoogleConnect, Same, TypeOK
  <2>5. private'[c].google = g /\ (p.email = None \/ private'[c].email = p.email)
    BY <1>a, <2>1, <2>2, <2>3 DEF TypeOK, PrivateRow
  <2> QED
    BY <1>a, <1>18, <2>1, <2>4, <2>5, Linking DEF GoogleConnect
<1>19. ASSUME NEW r \in Requests, GoogleFind(r) PROVE UNCHANGED <<login, owner>> \/ Id!Next
  BY <1>b, <1>19 DEF GoogleFind, tables
<1>20. ASSUME NEW r \in Requests, GoogleLink(r) PROVE UNCHANGED <<login, owner>> \/ Id!Next
  <2> DEFINE q == req[r]
             linked == [b \in AccountIds |->
                          IF private[b].email = q.email
                          THEN [private[b] EXCEPT !.google = q.google, !.google_email = q.email]
                          ELSE private[b]]
  <2>1. CASE private' = private
    BY <1>b, <1>20, <2>1 DEF GoogleLink
  <2>2. CASE private' = linked
    <3>1. q.google # None /\ q.email # None
      BY <1>a, <1>20 DEF GoogleLink, At, RequestOK, Sound
    <3>2. \A b \in AccountIds :
            /\ private'[b].email = private[b].email
            /\ private'[b].google = IF private[b].email = q.email THEN q.google ELSE private[b].google
      BY <1>a, <2>2 DEF TypeOK, PrivateRow
    <3>3. UNCHANGED <<account, owner>>
      BY <1>20 DEF GoogleLink
    <3> HIDE DEF q, linked
    <3>4. CASE \A b \in AccountIds : private[b].email # q.email
      <4>1. \A b \in AccountIds : Same(b)
        BY <3>2, <3>3, <3>4 DEF Same
      <4> QED
        BY <1>a, <3>3, <4>1, Quiet
    <3>5. ASSUME NEW a \in AccountIds, private[a].email = q.email PROVE Id!Next
      <4>1. \A b \in AccountIds \ {a} : private[b].email # q.email
        BY <1>a, <3>1, <3>5 DEF TablesOK, PrivatesOK, UniquePrivate
      <4>2. \A b \in AccountIds \ {a} : Same(b)
        BY <3>2, <3>3, <4>1 DEF Same
      <4> QED
        BY <1>a, <3>1, <3>2, <3>3, <3>5, <4>2, Linking
    <3> QED
      BY <3>4, <3>5
  <2> QED
    BY <1>20, <2>1, <2>2 DEF GoogleLink
<1>21. ASSUME NEW r \in Requests,
             GoogleCreate(r)
      PROVE  UNCHANGED <<login, owner>> \/ Id!Next
  <2> DEFINE q == req[r]
             row == [exists |-> TRUE, email |-> q.email, google |-> q.google, google_email |-> q.email]
  <2>1. CASE UNCHANGED <<account, private>>
    BY <1>b, <1>21, <2>1 DEF GoogleCreate
  <2>2. ASSUME NEW a \in AccountIds, InsertAccount(a, [NewAccount EXCEPT !.status = "live"]),
               private' = [private EXCEPT ![a] = row]
        PROVE  Id!Next
    <3>1. q.google # None
      BY <1>a, <1>21 DEF GoogleCreate, At, RequestOK, Sound
    <3>2. \A b \in AccountIds \ {a} : Same(b)
      BY <1>a, <2>2 DEF InsertAccount, Same, TypeOK
    <3>3. private'[a].google = q.google /\ private'[a].email = q.email
      BY <1>a, <2>2 DEF TypeOK
    <3>4. private[a].email = None /\ private[a].google = None /\ account[a].addr = None
      BY <1>a, <1>c, <2>2 DEF InsertAccount
    <3> QED
      BY <1>a, <1>21, <3>1, <3>2, <3>3, <3>4, Linking DEF GoogleCreate
  <2> QED
    BY <1>21, <2>1, <2>2 DEF GoogleCreate
<1>22. ASSUME NEW r \in Requests, GoogleRole(r) PROVE UNCHANGED <<login, owner>> \/ Id!Next
  BY <1>b, <1>22 DEF GoogleRole, tables
<1>23. ASSUME NEW r \in Requests, NEW c \in sessions,
             GoogleDisconnect(r, c)
      PROVE  UNCHANGED <<login, owner>> \/ Id!Next
  <2>1. c \in AccountIds
    BY <1>a DEF TypeOK
  <2> QED
    BY <1>a, <1>23, <2>1, Disconnected DEF GoogleDisconnect
<1>24. ASSUME NEW r \in Requests, NEW c \in sessions, NEW a \in AccountIds, NEW i \in Rows,
             InsertRow(r, c, i, a)
      PROVE  UNCHANGED <<login, owner>> \/ Id!Next
  <2>1. UNCHANGED login
    BY <1>a, <1>24, Quiet DEF InsertRow, Same
  <2>2. Id!Insert(i, a)
    BY <1>24, <2>1 DEF InsertRow, Id!Insert
  <2> QED
    BY <2>2 DEF Id!Next
<1>25. ASSUME NEW r \in Requests, NEW c \in sessions, NEW a \in AccountIds, NEW w \in Addrs,
             CreateProfile(r, c, a, w)
      PROVE  UNCHANGED <<login, owner>> \/ Id!Next
  <2>1. \A b \in AccountIds \ {a} : Same(b)
    BY <1>a, <1>25 DEF CreateProfile, InsertAccount, Same, TypeOK
  <2>2. account'[a].addr = w /\ w # None
    BY <1>a, <1>25, ConstantsAssumption DEF CreateProfile, InsertAccount, NewAccount, TypeOK
  <2> QED
    BY <1>a, <1>25, <2>1, <2>2, Linking DEF CreateProfile
<1>26. ASSUME NEW r \in Requests, Lost(r) PROVE UNCHANGED <<login, owner>> \/ Id!Next
  BY <1>b, <1>26 DEF Lost, tables
<1>27. CASE UNCHANGED vars
  BY <1>b, <1>27 DEF vars
<1> QED
  BY <1>1, <1>2, <1>3, <1>4, <1>5, <1>6, <1>7, <1>8, <1>9, <1>10, <1>11, <1>12, <1>13,
     <1>14, <1>16, <1>17, <1>18, <1>19, <1>20, <1>21, <1>22, <1>23, <1>24,
     <1>25, <1>26, <1>27
     DEF Next, WalletNext, GoogleNext

\* What a merge was told stays true while its request is the only one.
LEMMA SerialStep ==
  ASSUME NEW one, Requests = {one}, IInv, IInv', SerialOK, [Next]_vars
  PROVE  SerialOK'
<1>a. TypeOK /\ RequestOK /\ req[one] \in Request
  BY DEF IInv, TypeOK
<1> DEFINE Told == LET q == req[one]
                   IN /\ q.pc \in {"mCheck", "mNonce", "mMerge"} => account[q.wallet].addr = q.addr
                      /\ q.pc \in {"mNonce", "mMerge"} =>
                           private[q.wallet].email = None /\ private[q.wallet].google = None
                      /\ q.pc = "mMerge" => Live(q.acct)
<1> SUFFICES Told'
  BY DEF SerialOK
<1>b. Told
  BY DEF SerialOK
<1>c. req'[one].pc \notin {"mCheck", "mNonce", "mMerge"} => Told'
  OBVIOUS
<1>d. \A q : Goto(one, q) => req'[one] = q
  BY <1>a DEF Goto, TypeOK
<1>e. Done(one) => req'[one].pc = "idle"
  BY <1>a DEF Done, Idle, TypeOK

<1>1. ASSUME NEW w \in Addrs, NEW valid \in BOOLEAN,
             KeplrFind(one, w, valid)
      PROVE  Told'
  BY <1>a, <1>c, <1>d, <1>e, <1>1 DEF KeplrFind, Idle, Request
<1>2. ASSUME NEW c \in sessions, NEW w \in Addrs, NEW valid \in BOOLEAN,
             ConnectFind(one, c, w, valid)
      PROVE  Told'
  BY <1>a, <1>c, <1>d, <1>e, <1>2 DEF ConnectFind, Idle, Request
<1>3. ASSUME NEW c \in sessions, NEW w \in Addrs, NEW valid \in BOOLEAN, NEW keep \in BOOLEAN,
             MergeFind(one, c, w, valid, keep)
      PROVE  Told'
  <2>1. PICK a \in ByAddr(w) :
          req' = [req EXCEPT ![one] = [Idle EXCEPT !.pc = "mCheck", !.acct = c, !.wallet = a, !.addr = w,
                                                   !.nonce = Signed(c, valid), !.keep = keep]]
    BY <1>3 DEF MergeFind, Goto
  <2>2. req'[one].pc = "mCheck" /\ req'[one].wallet = a /\ req'[one].addr = w
    BY <1>a, <2>1 DEF Idle, TypeOK
  <2> QED
    BY <1>3, <2>1, <2>2 DEF MergeFind, tables, ByAddr
<1>4. ASSUME KeplrRotate(one) PROVE Told'
  BY <1>a, <1>c, <1>d, <1>e, <1>4 DEF KeplrRotate, Idle, Request
<1>5. ASSUME KeplrUnsetCreator(one) PROVE Told'
  BY <1>a, <1>c, <1>d, <1>e, <1>5 DEF KeplrUnsetCreator, Request
<1>6. ASSUME KeplrInsertPrivate(one) PROVE Told'
  BY <1>a, <1>c, <1>d, <1>e, <1>6 DEF KeplrInsertPrivate, Idle, Request
<1>7. ASSUME KeplrRole(one) PROVE Told'
  BY <1>a, <1>c, <1>d, <1>e, <1>7 DEF KeplrRole, CreateAuthUser, Request
<1>8. ASSUME KeplrCreate(one) PROVE Told'
  BY <1>a, <1>c, <1>d, <1>e, <1>8 DEF KeplrCreate, Idle, Request
<1>9. ASSUME KeplrReselect(one) PROVE Told'
  BY <1>a, <1>c, <1>d, <1>e, <1>9 DEF KeplrReselect, Idle, Request
<1>10. ASSUME ConnectReadNonce(one) PROVE Told'
  BY <1>a, <1>c, <1>d, <1>e, <1>10 DEF ConnectReadNonce, Idle, Request
<1>11. ASSUME ConnectRotate(one) PROVE Told'
  BY <1>a, <1>c, <1>d, <1>e, <1>11 DEF ConnectRotate, Idle, Request
<1>12. ASSUME ConnectSetAddr(one) PROVE Told'
  BY <1>a, <1>c, <1>d, <1>e, <1>12 DEF ConnectSetAddr, Request
<1>13. ASSUME MergeCheckPrivate(one) PROVE Told'
  <2> DEFINE q == req[one]
  <2>1. CASE req' = [req EXCEPT ![one] = [q EXCEPT !.pc = "mNonce"]]
    <3>1. /\ req'[one].pc = "mNonce" /\ req'[one].wallet = q.wallet /\ req'[one].addr = q.addr
          /\ private[q.wallet].email = None /\ private[q.wallet].google = None
      BY <1>a, <1>13, <2>1 DEF MergeCheckPrivate, Goto, Done, Idle, Request, TypeOK
    <3> QED
      BY <1>b, <1>13, <3>1 DEF MergeCheckPrivate, tables, At
  <2>2. CASE Done(one)
    BY <1>c, <1>e, <2>2
  <2> QED
    BY <1>13, <2>1, <2>2 DEF MergeCheckPrivate, Goto
<1>14. ASSUME MergeReadNonce(one) PROVE Told'
  <2> DEFINE q == req[one]
  <2>1. CASE Live(q.acct) /\ req' = [req EXCEPT ![one] = [q EXCEPT !.pc = "mMerge", !.read = Nonce(q.acct)]]
    <3>1. /\ req'[one].pc = "mMerge" /\ req'[one].wallet = q.wallet /\ req'[one].addr = q.addr
          /\ req'[one].acct = q.acct
      BY <1>a, <2>1 DEF Request, TypeOK
    <3> QED
      BY <1>b, <1>14, <2>1, <3>1 DEF MergeReadNonce, tables, At, Live
  <2>2. CASE Done(one)
    BY <1>c, <1>e, <2>2
  <2> QED
    BY <1>14, <2>1, <2>2 DEF MergeReadNonce, Goto
<1>15. ASSUME MergeCommit(one) PROVE Told'
  BY <1>a, <1>c, <1>d, <1>e, <1>15 DEF MergeCommit, Request
<1>16. ASSUME MergeRollback(one) PROVE Told'
  BY <1>a, <1>c, <1>d, <1>e, <1>16 DEF MergeRollback, Request
<1>17. ASSUME NEW g \in Googles, NEW e \in Emails,
             GoogleFindEmail(one, g, e)
      PROVE  Told'
  BY <1>a, <1>c, <1>d, <1>e, <1>17 DEF GoogleFindEmail, Idle, Request
<1>18. ASSUME NEW c \in sessions, NEW g \in Googles, NEW e \in Emails,
             GoogleConnect(one, c, g, e)
      PROVE  Told'
  BY <1>c, <1>18 DEF GoogleConnect, At
<1>19. ASSUME GoogleFind(one) PROVE Told'
  BY <1>a, <1>c, <1>d, <1>e, <1>19 DEF GoogleFind, Idle, Request
<1>20. ASSUME GoogleLink(one) PROVE Told'
  BY <1>a, <1>c, <1>d, <1>e, <1>20 DEF GoogleLink, Idle, Request
<1>21. ASSUME GoogleCreate(one) PROVE Told'
  BY <1>a, <1>c, <1>d, <1>e, <1>21 DEF GoogleCreate, Idle, Request
<1>22. ASSUME GoogleRole(one) PROVE Told'
  BY <1>a, <1>c, <1>d, <1>e, <1>22 DEF GoogleRole, CreateAuthUser, Request
<1>23. ASSUME NEW c \in sessions, GoogleDisconnect(one, c) PROVE Told'
  BY <1>c, <1>23 DEF GoogleDisconnect, At
<1>24. ASSUME NEW c \in sessions, NEW a \in AccountIds, NEW i \in Rows,
             InsertRow(one, c, i, a)
      PROVE  Told'
  BY <1>c, <1>24 DEF InsertRow, At
<1>25. ASSUME NEW c \in sessions, NEW a \in AccountIds, NEW w \in Addrs,
             CreateProfile(one, c, a, w)
      PROVE  Told'
  BY <1>c, <1>25 DEF CreateProfile, At
<1>26. ASSUME Lost(one) PROVE Told'
  BY <1>a, <1>c, <1>d, <1>e, <1>26 DEF Lost, Request
<1>27. CASE UNCHANGED vars
  BY <1>b, <1>27 DEF vars, Live
<1> QED
  BY <1>1, <1>2, <1>3, <1>4, <1>5, <1>6, <1>7, <1>8, <1>9, <1>10, <1>11, <1>12, <1>13,
     <1>14, <1>15, <1>16, <1>17, <1>18, <1>19, <1>20, <1>21, <1>22, <1>23, <1>24,
     <1>25, <1>26, <1>27
     DEF Next, WalletNext, GoogleNext


LEMMA InitSerial == TablesInit => SerialOK /\ Id!Init
<1> SUFFICES ASSUME TablesInit PROVE SerialOK /\ Id!Init
  OBVIOUS
<1>1. SerialOK
  BY DEF TablesInit, SerialOK, Idle
<1>2. \A c \in Credentials : Opened(c) = {}
  BY ConstantsAssumption DEF TablesInit, Opened, NewAccount, NoPrivate, Credentials
<1>3. login = [c \in Credentials |-> None]
  BY <1>2 DEF login
<1> QED
  BY <1>1, <1>3 DEF TablesInit, Id!Init, Id!Credentials, Credentials

\* One request at a time, the statements of the handlers together do what
\* Identity says of credentials and rows, whatever the accounts and the rows.
THEOREM SerialImplementsIdentity ==
  ASSUME NEW one, Requests = {one}
  PROVE  Spec => ImplementsIdentity
<1>1. TablesInit => IInv /\ SerialOK /\ Id!Init
  BY InitInv, InitSerial
<1>2. Spec => []IInv
  BY Invariant
<1>3. IInv /\ IInv' /\ SerialOK /\ [Next]_vars => SerialOK' /\ [Id!Next]_(Id!vars)
  <2> SUFFICES ASSUME IInv, IInv', SerialOK, [Next]_vars PROVE SerialOK' /\ [Id!Next]_(Id!vars)
    OBVIOUS
  <2>1. Before /\ Before'
    BY Both
  <2> QED
    BY <2>1, SerialStep, IdentityStep, Merging DEF Id!vars
<1> QED
  BY <1>1, <1>2, <1>3, PTL DEF Spec, ImplementsIdentity, Id!Spec

\* What the comment of migrateAccountData relies on is so when nothing overlaps the
\* merge: it drops no e-mail and no Google login. With two requests at a time it does.
THEOREM SerialMergeKeepsLogins ==
  ASSUME NEW one, Requests = {one}
  PROVE  Spec => MergeKeepsLogins
<1>1. TablesInit => SerialOK
  BY InitSerial
<1>2. IInv /\ IInv' /\ SerialOK /\ [Next]_vars =>
        /\ SerialOK'
        /\ [\A r \in Requests : MergeCommit(r) /\ From(req[r]) # To(req[r]) =>
              \A c \in Emails \cup Googles : login[c] # None => login'[c] # None]_vars
  <2> SUFFICES ASSUME IInv, IInv', SerialOK, [Next]_vars
               PROVE  /\ SerialOK'
                      /\ \A r \in Requests : MergeCommit(r) /\ From(req[r]) # To(req[r]) =>
                           \A c \in Emails \cup Googles : login[c] # None => login'[c] # None
    OBVIOUS
  <2>1. Before /\ Before'
    BY Both
  <2> QED
    BY <2>1, SerialStep, Merging
<1> QED
  BY <1>1, <1>2, Invariant, PTL DEF Spec, MergeKeepsLogins

\* However requests overlap, no credential opens two accounts or goes to an
\* account that is not its own but by a merge of the two; e-mails are not
\* replaced; no row is lost. What may be lost are logins, in a late merge.
THEOREM ImplementsLateIdentity == Spec => ImplementsIdentityLate
<1>1. TablesInit => Id!Init
  BY InitSerial
<1>2. IInv /\ IInv' /\ [Next]_vars => [Id!NextLate]_(Id!vars)
  <2> SUFFICES ASSUME IInv, IInv', [Next]_vars PROVE [Id!NextLate]_(Id!vars)
    OBVIOUS
  <2>1. Before /\ Before'
    BY Both
  <2>2. Id!Next => Id!NextLate
    BY DEF Id!NextLate
  <2> QED
    BY <2>1, <2>2, IdentityStep, MergingLate DEF Id!vars
<1> QED
  BY <1>1, <1>2, Invariant, PTL DEF Spec, ImplementsIdentityLate, Id!SpecLate
=============================================================================
