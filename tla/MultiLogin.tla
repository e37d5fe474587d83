----------------------------- MODULE MultiLogin -----------------------------
(***************************************************************************)
(* What "Multiple logins per session" (docs/login-system.md) promises a    *)
(* browser, without cookies or requests: a set of authenticated accounts   *)
(* that logins add to, and the one account it acts as.                     *)
(***************************************************************************)
CONSTANTS AccountIds, None

VARIABLES
  user,  \* the account the browser acts as, or None
  ids    \* the accounts it has authenticated with

vars == <<user, ids>>

Init == user = None /\ ids = {}

Login(a) == user' = a /\ ids' = ids \cup {a}

Switch(a) == a \in ids /\ user # None /\ user' = a /\ UNCHANGED ids

Logout == user # None /\ user' = None /\ ids' = {}

\* A merge into the wallet account w leaves w as the only account.
MergeInto(w) == user # None /\ user' = w /\ ids' = {w}

Next ==
  \/ \E a \in AccountIds : Login(a) \/ Switch(a) \/ MergeInto(a)
  \/ Logout

Spec == Init /\ [][Next]_vars
=============================================================================
