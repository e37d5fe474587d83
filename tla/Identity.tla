------------------------------- MODULE Identity -------------------------------
(***************************************************************************)
(* What the account tables promise, without statements or requests: every  *)
(* credential (wallet address, e-mail, Google user) opens one account or   *)
(* none, and every row belongs to one account. An account has at most one  *)
(* credential of each kind.                                                *)
(***************************************************************************)
CONSTANTS AccountIds, Addrs, Emails, Googles, Rows, None

VARIABLES
  login,  \* the account a credential opens, or None
  owner   \* the account a row belongs to, or None before it exists

vars == <<login, owner>>

Kinds == {Addrs, Emails, Googles}
Credentials == Addrs \cup Emails \cup Googles
Owned(a) == {i \in Rows : owner[i] = a}
SameKind(c, d) == \E K \in Kinds : {c, d} \subseteq K

Init ==
  /\ login = [c \in Credentials |-> None]
  /\ owner = [i \in Rows |-> None]

\* Free credentials S, at most one of each kind, open account a from now on,
\* in the place of its former wallet or Google user. E-mails are never replaced.
Link(S, a) ==
  /\ \A c \in S : login[c] = None
  /\ \A c, d \in S : SameKind(c, d) => c = d
  /\ \A c \in S \cap Emails, e \in Emails : login[e] # a
  /\ login' = [c \in Credentials |->
                 IF c \in S THEN a
                 ELSE IF login[c] = a /\ \E d \in S : SameKind(c, d) THEN None ELSE login[c]]
  /\ UNCHANGED owner

\* Only a Google user can be disconnected.
Release(g) ==
  /\ g \in Googles
  /\ login' = [login EXCEPT ![g] = None]
  /\ UNCHANGED owner

\* Two accounts become one: account a gets the rows of b and the e-mail and the
\* Google user of the two, which have one of each at most; the wallet of a is w.
Merge(a, b, w) ==
  /\ a # b
  /\ login[w] \in {a, b}
  /\ login' = [c \in Credentials |->
                 IF login[c] \notin {a, b} THEN login[c]
                 ELSE IF c \in Addrs \ {w} THEN None ELSE a]
  /\ owner' = [i \in Rows |-> IF owner[i] = b THEN a ELSE owner[i]]

\* An account that has nothing but a wallet may be closed.
Close(a) ==
  /\ Owned(a) = {}
  /\ \A c \in Emails \cup Googles : login[c] # a
  /\ login' = [c \in Credentials |-> IF login[c] = a THEN None ELSE login[c]]
  /\ UNCHANGED owner

Insert(i, a) == owner[i] = None /\ owner' = [owner EXCEPT ![i] = a] /\ UNCHANGED login

Next ==
  \/ \E a \in AccountIds :
       \/ \E S \in SUBSET Credentials : Link(S, a)
       \/ \E b \in AccountIds, w \in Addrs : Merge(a, b, w)
       \/ \E i \in Rows : Insert(i, a)
       \/ Close(a)
  \/ \E g \in Googles : Release(g)

Spec == Init /\ [][Next]_vars

-----------------------------------------------------------------------------
(* What is left of the promise when requests overlap: an account may have  *)
(* changed, or be gone, between the checks of a merge and the merge.       *)

\* Of the e-mails and Google users of the two only those of x are sure to stay,
\* and of the wallets one at most, which may have been nobody's by then. What is
\* lost opens nothing: a merge never moves it to a third account.
MergeLate(a, b, x, W) ==
  /\ a # b
  /\ \A w, v \in W : w = v /\ login[w] \in {a, b, None}
  /\ login' = [c \in Credentials |->
                 IF c \in W THEN a
                 ELSE IF login[c] \notin {a, b} THEN login[c]
                 ELSE IF c \in Addrs \/ login[c] # x THEN None ELSE a]
  /\ owner' = [i \in Rows |-> IF owner[i] = b THEN a ELSE owner[i]]

\* An account without rows may be closed with all it has.
CloseLate(a) ==
  /\ Owned(a) = {}
  /\ login' = [c \in Credentials |-> IF login[c] = a THEN None ELSE login[c]]
  /\ UNCHANGED owner

NextLate ==
  \/ Next
  \/ \E a \in AccountIds :
       \/ \E b \in AccountIds, W \in SUBSET Addrs : \E x \in {a, b} : MergeLate(a, b, x, W)
       \/ CloseLate(a)

SpecLate == Init /\ [][NextLate]_vars
=============================================================================
