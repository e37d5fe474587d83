------------------------------ MODULE GoogleAuth ------------------------------
(***************************************************************************)
(* Signing in with Google, connecting a Google account to the current      *)
(* account and disconnecting it: googleStrategy.ts, connectGoogleStrategy.ts *)
(* and the routes in auth.ts. Google has verified user id g and e-mail e;  *)
(* every statement commits by itself.                                      *)
(***************************************************************************)
EXTENDS AccountTables

\* verifyGoogleAccount: an account with this e-mail and no Google account yet,
GoogleFindEmail(r, g, e) ==
  LET found == {a \in AccountIds : private[a].email = e /\ private[a].google = None}
  IN /\ At(r, "idle")
     /\ \/ \E a \in found : Goto(r, [Idle EXCEPT !.pc = "gFind", !.acct = a, !.google = g, !.email = e])
        \/ found = {} /\ Goto(r, [Idle EXCEPT !.pc = "gFind", !.google = g, !.email = e])
     /\ UNCHANGED <<tables, sessions, spent>>

\* and the account of this Google user, which logs in if there was no first one.
GoogleFind(r) ==
  LET found == {a \in AccountIds : private[a].google = req[r].google}
  IN /\ At(r, "gFind")
     /\ \/ /\ req[r].acct # None
           /\ Goto(r, [req[r] EXCEPT !.pc = "gLink"]) /\ UNCHANGED sessions
        \/ /\ req[r].acct = None
           /\ \E a \in found : sessions' = sessions \cup {a}
           /\ Done(r)
        \/ /\ req[r].acct = None /\ found = {}
           /\ Goto(r, [req[r] EXCEPT !.pc = "gCreate"]) /\ UNCHANGED sessions
     /\ UNCHANGED <<tables, spent>>

\* update ... where email: whatever row has the e-mail now gets the Google user.
GoogleLink(r) ==
  LET q == req[r]
      linked == [a \in AccountIds |->
                   IF private[a].email = q.email
                   THEN [private[a] EXCEPT !.google = q.google, !.google_email = q.email]
                   ELSE private[a]]
  IN /\ At(r, "gLink")
     /\ IF UniquePrivate(linked)
        THEN private' = linked /\ sessions' = sessions \cup {q.acct}
        ELSE UNCHANGED <<private, sessions>>
     /\ Done(r)
     /\ UNCHANGED <<account, role, owner, s3_deletion, spent>>

\* create_new_web2_account: both rows, or an error if another account has the e-mail or user.
GoogleCreate(r) ==
  LET q == req[r]
      row == [exists |-> TRUE, email |-> q.email, google |-> q.google, google_email |-> q.email]
      taken == \E a \in AccountIds : \/ q.email \in {private[a].email, private[a].google_email}
                                     \/ private[a].google = q.google
  IN /\ At(r, "gCreate")
     /\ \/ taken /\ Done(r) /\ UNCHANGED <<account, private>>
        \/ /\ ~taken
           /\ \E a \in AccountIds :
                /\ InsertAccount(a, [NewAccount EXCEPT !.status = "live"])
                /\ private' = [private EXCEPT ![a] = row]
                /\ Goto(r, [q EXCEPT !.pc = "gRole", !.acct = a])
     /\ UNCHANGED <<role, owner, s3_deletion, sessions, spent>>

GoogleRole(r) ==
  /\ At(r, "gRole")
  /\ CreateAuthUser(r, req[r].acct)
  /\ UNCHANGED <<account, private, owner, s3_deletion, spent>>

\* Mutant: the Google user is taken from the account that has it.
GoogleConnectTakeover(r, c, g, e) ==
  /\ At(r, "idle")
  /\ private[c].exists
  /\ private' = [a \in AccountIds |->
                   IF a = c THEN [private[a] EXCEPT !.google = g]
                   ELSE IF private[a].google = g THEN [private[a] EXCEPT !.google = None] ELSE private[a]]
  /\ UNCHANGED <<account, role, owner, s3_deletion, req, sessions, spent>>

\* connectGoogleAccount, one statement: the e-mail is set only if the account has none.
GoogleConnect(r, c, g, e) ==
  LET p == private[c]
      connected == [private EXCEPT ![c] = [p EXCEPT !.email = IF @ = None THEN e ELSE @,
                                                    !.google = g, !.google_email = e]]
  IN /\ At(r, "idle")
     /\ p.exists
     /\ UniquePrivate(connected)
     /\ private' = connected
     /\ UNCHANGED <<account, role, owner, s3_deletion, req, sessions, spent>>

\* POST /google/disconnect.
GoogleDisconnect(r, c) ==
  /\ At(r, "idle")
  /\ private' = [private EXCEPT ![c].google = None, ![c].google_email = None]
  /\ UNCHANGED <<account, role, owner, s3_deletion, req, sessions, spent>>

-----------------------------------------------------------------------------
GoogleNext(r) ==
  \/ \E g \in Googles, e \in Emails :
       \/ GoogleFindEmail(r, g, e)
       \/ \E c \in sessions : GoogleConnect(r, c, g, e)
  \/ GoogleFind(r) \/ GoogleLink(r) \/ GoogleCreate(r) \/ GoogleRole(r)
  \/ \E c \in sessions : GoogleDisconnect(r, c)
=============================================================================
