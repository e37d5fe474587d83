------------------------------- MODULE Session -------------------------------
(***************************************************************************)
(* The login session of one browser. The server keeps nothing: the whole   *)
(* session is a signed cookie (cookie-session, server/Server.ts). A request *)
(* carries the cookie the browser had when it was sent; the handler changes *)
(* its own copy; if it changed, the response carries the new cookie, which  *)
(* replaces the browser's when it arrives. Requests overlap freely.         *)
(***************************************************************************)
EXTENDS FiniteSets

CONSTANTS
  AccountIds,      \* accounts (a login that creates one is a login to one that exists)
  WalletAccounts,  \* those with a wallet and, at the start, no e-mail or Google login
  Requests,        \* requests the browser may have in flight at the same time
  None             \* no account

ASSUME ConstantsAssumption == None \notin AccountIds /\ WalletAccounts \subseteq AccountIds

VARIABLES
  cookie,  \* the browser's session cookie
  req,     \* the requests
  live,    \* accounts that have a private.account row: a merge deletes one
  web3,    \* accounts with a wallet and no web2 login: those a merge accepts
  proved   \* history: accounts this browser logged in to or proved the wallet of

vars == <<cookie, req, live, web3, proved>>

-----------------------------------------------------------------------------
Kinds == {"login", "switch", "logout", "connectGoogle", "mergeKeep", "mergeIntoWallet"}

\* passport.user.accountId, activeAccountId and authenticatedAccountIds.
SessionData == [user : AccountIds \cup {None}, active : AccountIds \cup {None}, ids : SUBSET AccountIds]
NoSession == [user |-> None, active |-> None, ids |-> {}]

Request == [pc : {"idle", "sent", "handled"}, kind : Kinds \cup {None},
            sent : SessionData, result : SessionData]
Idle == [pc |-> "idle", kind |-> None, sent |-> NoSession, result |-> NoSession]

Init ==
  /\ cookie = NoSession
  /\ req = [r \in Requests |-> Idle]
  /\ live = AccountIds
  /\ web3 = WalletAccounts
  /\ proved = {}

-----------------------------------------------------------------------------
(* What a handler does to its copy of the session *)

\* Mutant: the regenerate of a store that implements it, which starts a new session.
ReqLoginRegenerated(s, a) == [NoSession EXCEPT !.user = a]
\* req.login keeps the rest of the session: regenerate is a no-op workaround.
ReqLogin(s, a) == [s EXCEPT !.user = a]
UpdateActiveAccounts(s, a) == [s EXCEPT !.active = a, !.ids = s.ids \cup {a}]
EnsureLoggedIn(s) == s.user # None

Handling(r, kind) == req[r].pc = "sent" /\ req[r].kind = kind
Handled(r, s) == req' = [req EXCEPT ![r].pc = "handled", ![r].result = s]

-----------------------------------------------------------------------------
(* The browser *)

Send(r, kind) ==
  /\ req[r].pc = "idle"
  /\ req' = [req EXCEPT ![r] = [pc |-> "sent", kind |-> kind, sent |-> cookie, result |-> NoSession]]
  /\ UNCHANGED <<cookie, live, web3, proved>>

\* Set-Cookie is sent only when the handler changed the session.
Receive(r) ==
  /\ req[r].pc = "handled"
  /\ cookie' = IF req[r].result # req[r].sent THEN req[r].result ELSE cookie
  /\ req' = [req EXCEPT ![r] = Idle]
  /\ UNCHANGED <<live, web3, proved>>

-----------------------------------------------------------------------------
(* The handlers *)

\* Keplr, passcode or Google: the strategy has verified the owner of account a.
HandleLogin(r, a) ==
  /\ Handling(r, "login")
  /\ a \in live
  /\ Handled(r, ReqLogin(UpdateActiveAccounts(req[r].sent, a), a))
  /\ proved' = proved \cup {a}
  /\ UNCHANGED <<cookie, live, web3>>

\* A passcode verified while logged in adds the e-mail to the current account, if
\* it has none, and logs in to it again.
HandleAddEmail(r) ==
  LET s == req[r].sent
  IN /\ Handling(r, "login")
     /\ EnsureLoggedIn(s)
     /\ s.user \in live
     /\ Handled(r, ReqLogin(UpdateActiveAccounts(s, s.user), s.user))
     /\ web3' = web3 \ {s.user}
     /\ UNCHANGED <<cookie, live, proved>>

\* GET /auth/google/connect/callback: the account of the cookie Google's redirect
\* comes back with gets the Google login, even if it was not active when it began.
HandleConnectGoogle(r) ==
  LET s == req[r].sent
  IN /\ Handling(r, "connectGoogle")
     /\ EnsureLoggedIn(s)
     /\ Handled(r, ReqLogin(s, s.user))
     /\ web3' = web3 \ {s.user}
     /\ UNCHANGED <<cookie, live, proved>>

\* Mutants: any account there is; and that for anybody.
HandleSwitchAny(r, a) ==
  /\ Handling(r, "switch")
  /\ EnsureLoggedIn(req[r].sent)
  /\ a \in live
  /\ Handled(r, ReqLogin(UpdateActiveAccounts(req[r].sent, a), a))
  /\ UNCHANGED <<cookie, live, web3, proved>>
HandleSwitchUnguarded(r, a) ==
  /\ Handling(r, "switch")
  /\ a \in live
  /\ Handled(r, ReqLogin(UpdateActiveAccounts(req[r].sent, a), a))
  /\ UNCHANGED <<cookie, live, web3, proved>>

\* POST /auth/accounts: only an account this session has authenticated with.
HandleSwitch(r, a) ==
  /\ Handling(r, "switch")
  /\ EnsureLoggedIn(req[r].sent)
  /\ a \in req[r].sent.ids
  /\ Handled(r, ReqLogin([req[r].sent EXCEPT !.active = a], a))
  /\ UNCHANGED <<cookie, live, web3, proved>>

\* Mutant: req.logout alone, without req.session = null.
HandleLogoutUser(r) ==
  /\ Handling(r, "logout")
  /\ EnsureLoggedIn(req[r].sent)
  /\ Handled(r, [req[r].sent EXCEPT !.user = None])
  /\ UNCHANGED <<cookie, live, web3, proved>>

HandleLogout(r) ==
  /\ Handling(r, "logout")
  /\ EnsureLoggedIn(req[r].sent)
  /\ Handled(r, NoSession)
  /\ UNCHANGED <<cookie, live, web3, proved>>

\* Mutant: the wallet account is left where other merges find it.
HandleMergeKeepFound(r, w) ==
  /\ Handling(r, "mergeKeep")
  /\ EnsureLoggedIn(req[r].sent)
  /\ req[r].sent.user \in live /\ w \in web3
  /\ live' = live \ {w}
  /\ Handled(r, req[r].sent)
  /\ proved' = proved \cup {w}
  /\ UNCHANGED <<cookie, web3>>

\* POST /wallet-auth/merge-accounts with the signature of wallet account w:
\* keeping the current account deletes w and leaves the session alone,
HandleMergeKeep(r, w) ==
  /\ Handling(r, "mergeKeep")
  /\ EnsureLoggedIn(req[r].sent)
  /\ req[r].sent.user \in live /\ w \in web3
  /\ live' = live \ {w}
  /\ web3' = web3 \ {w}
  /\ Handled(r, req[r].sent)
  /\ proved' = proved \cup {w}
  /\ UNCHANGED cookie

\* keeping the wallet account deletes the current one, whose web2 login it
\* takes over, and starts over as w.
HandleMergeIntoWallet(r, w) ==
  LET s == req[r].sent
  IN /\ Handling(r, "mergeIntoWallet")
     /\ EnsureLoggedIn(s)
     /\ s.user \in live /\ w \in web3
     /\ live' = live \ {s.user}
     /\ web3' = (IF s.user \in web3 THEN web3 ELSE web3 \ {w}) \ {s.user}
     /\ Handled(r, ReqLogin([s EXCEPT !.active = w, !.ids = {w}], w))
     /\ proved' = proved \cup {w}
     /\ UNCHANGED cookie

\* Not logged in, no such account, a bad signature: an error leaves the session alone.
HandleError(r) ==
  /\ req[r].pc = "sent"
  /\ Handled(r, req[r].sent)
  /\ UNCHANGED <<cookie, live, web3, proved>>

-----------------------------------------------------------------------------
Next ==
  \E r \in Requests :
    \/ \E kind \in Kinds : Send(r, kind)
    \/ Receive(r)
    \/ \E a \in AccountIds :
         HandleLogin(r, a) \/ HandleSwitch(r, a) \/ HandleMergeKeep(r, a) \/ HandleMergeIntoWallet(r, a)
    \/ HandleAddEmail(r) \/ HandleConnectGoogle(r)
    \/ HandleLogout(r)
    \/ HandleError(r)

Spec == Init /\ [][Next]_vars

-----------------------------------------------------------------------------
TypeOK ==
  /\ cookie \in SessionData
  /\ req \in [Requests -> Request]
  /\ live \subseteq AccountIds
  /\ web3 \subseteq live
  /\ proved \subseteq AccountIds

\* The account GET /auth/accounts shows as active is the one passport acts as,
\* and one of the authenticated ones.
Consistent(s) == s.active = s.user /\ (s.user # None => s.user \in s.ids) /\ (s.user = None => s.ids = {})

\* Two libraries and four handlers write three session fields; they never disagree,
\* in the browser or in any request or response on its way.
SessionConsistent ==
  /\ Consistent(cookie)
  /\ \A r \in Requests : Consistent(req[r].sent) /\ Consistent(req[r].result)

\* Whatever order responses arrive in, the browser only ever acts as, or offers
\* to switch to, accounts whose owner logged in or signed from this browser.
OnlyProvedAccounts == cookie.ids \cup ({cookie.user} \ {None}) \subseteq proved

\* A merge deletes an account, a passcode or a Google callback gives it a login of
\* another kind: in whatever order requests overlap, and whichever account their
\* cookie names by then, only an account its owner proved from this browser.
OnlyProvedChange ==
  [][(live \ live') \cup (web3 \ web3') \subseteq proved']_vars

\* One request at a time, the cookie does what the documentation says.
Docs == INSTANCE MultiLogin WITH user <- cookie.user, ids <- cookie.ids
ImplementsMultiLogin == Docs!Spec

\* "the user is no longer allowed to make requests to protected endpoints"
\* (docs/login-system.md): once logged out, only a login opens the session again.
LogoutIsFinal ==
  [][\A r \in Requests :
       Receive(r) /\ cookie.user = None /\ cookie'.user # None => req[r].kind = "login"]_vars
=============================================================================
