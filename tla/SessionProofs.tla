---------------------------- MODULE SessionProofs ----------------------------
(***************************************************************************)
(* Theorems of Session, for every set of accounts and any number of        *)
(* requests in flight; the refinement of MultiLogin, for one request at a  *)
(* time.                                                                   *)
(***************************************************************************)
EXTENDS Session, TLAPS

\* Where the sessions a request carries and answers come from.
RequestOK ==
  \A r \in Requests :
    /\ req[r].sent.ids \subseteq proved /\ req[r].result.ids \subseteq proved
    /\ req[r].pc # "handled" => req[r].result = NoSession
    /\ req[r].pc = "idle" => req[r].sent = NoSession

\* Only a login makes an unauthenticated request's session an authenticated one.
AuthenticatedByLogin ==
  \A r \in Requests :
    req[r].sent.user = None /\ req[r].result.user # None => req[r].kind = "login"

IInv ==
  TypeOK /\ SessionConsistent /\ AuthenticatedByLogin /\ RequestOK /\ cookie.ids \subseteq proved

USE ConstantsAssumption

-----------------------------------------------------------------------------
(* The sessions a handler may answer with *)

LEMMA SwitchedSession ==
  ASSUME NEW s \in SessionData, NEW a \in s.ids
  PROVE  LET t == ReqLogin([s EXCEPT !.active = a], a)
         IN  t \in SessionData /\ Consistent(t) /\ t.user = a /\ t.ids = s.ids
BY DEF SessionData, ReqLogin, Consistent

LEMMA NoSessionFacts == NoSession \in SessionData /\ Consistent(NoSession) /\ NoSession.ids = {} /\ NoSession.user = None
BY DEF NoSession, SessionData, Consistent

\* Logging in again to the account one is logged in to.
LEMMA RepeatedLogin ==
  ASSUME NEW s \in SessionData, Consistent(s), s.user # None
  PROVE  /\ s.user \in AccountIds /\ s.user \in s.ids
         /\ \A t \in {ReqLogin(s, s.user), ReqLogin(UpdateActiveAccounts(s, s.user), s.user)} :
              t \in SessionData /\ Consistent(t) /\ t.user = s.user /\ t.ids = s.ids
<1>1. s.user \in AccountIds /\ s.user \in s.ids /\ s.active = s.user /\ s.ids \subseteq AccountIds
  BY DEF SessionData, Consistent
<1>2. LET t == ReqLogin(s, s.user)
      IN  t \in SessionData /\ Consistent(t) /\ t.user = s.user /\ t.ids = s.ids
  BY <1>1 DEF SessionData, ReqLogin, Consistent
<1>3. LET t == ReqLogin(UpdateActiveAccounts(s, s.user), s.user)
      IN  t \in SessionData /\ Consistent(t) /\ t.user = s.user /\ t.ids = s.ids
  <2> DEFINE u == UpdateActiveAccounts(s, s.user)
  <2>1. u \in SessionData /\ u.user = s.user /\ u.active = s.user /\ u.ids = s.ids
    BY <1>1 DEF SessionData, UpdateActiveAccounts
  <2> HIDE DEF u
  <2>2. LET t == ReqLogin(u, s.user)
        IN  t \in SessionData /\ Consistent(t) /\ t.user = s.user /\ t.ids = s.ids
    BY <1>1, <2>1 DEF SessionData, ReqLogin, Consistent
  <2> QED
    BY <2>2 DEF u
<1> QED
  BY <1>1, <1>2, <1>3

\* A handler changes one request: it is handled, with an answer.
LEMMA HandledFacts ==
  ASSUME TypeOK, NEW r \in Requests, NEW s \in SessionData, Handled(r, s)
  PROVE  /\ req' \in [Requests -> Request]
         /\ req'[r].pc = "handled" /\ req'[r].kind = req[r].kind
         /\ req'[r].sent = req[r].sent /\ req'[r].result = s
         /\ \A q \in Requests : q # r => req'[q] = req[q]
<1> DEFINE t == [req[r] EXCEPT !.pc = "handled", !.result = s]
<1>1. req[r] \in Request /\ req \in [Requests -> Request]
  BY DEF TypeOK
<1>2. /\ t \in Request /\ t.pc = "handled" /\ t.kind = req[r].kind
      /\ t.sent = req[r].sent /\ t.result = s
  BY <1>1 DEF Request
<1>3. req' = [req EXCEPT ![r] = t]
  BY <1>1 DEF Handled, Request
<1> HIDE DEF t
<1> QED
  BY <1>1, <1>2, <1>3

\* Answering with a consistent session of proved accounts keeps the invariant.
LEMMA HandledStep ==
  ASSUME IInv, NEW r \in Requests, NEW s \in SessionData, Handled(r, s), cookie' = cookie,
         Consistent(s), s.ids \subseteq proved', proved \subseteq proved', proved' \subseteq AccountIds,
         live' \subseteq AccountIds, web3' \subseteq live',
         req[r].sent.user = None /\ s.user # None => req[r].kind = "login"
  PROVE  IInv'
<1>1. /\ req' \in [Requests -> Request]
      /\ req'[r].pc = "handled" /\ req'[r].kind = req[r].kind
      /\ req'[r].sent = req[r].sent /\ req'[r].result = s
      /\ \A q \in Requests : q # r => req'[q] = req[q]
  BY HandledFacts DEF IInv
<1>2. TypeOK'
  BY <1>1 DEF IInv, TypeOK
<1>3. SessionConsistent'
  BY <1>1 DEF IInv, SessionConsistent, Consistent
<1>4. AuthenticatedByLogin'
  BY <1>1 DEF IInv, AuthenticatedByLogin
<1>5. RequestOK' /\ (cookie.ids \subseteq proved)'
  BY <1>1 DEF IInv, RequestOK
<1> QED
  BY <1>2, <1>3, <1>4, <1>5 DEF IInv

-----------------------------------------------------------------------------
LEMMA Inductive == Spec => []IInv
<1>1. Init => IInv
  BY NoSessionFacts DEF Init, IInv, TypeOK, SessionConsistent, AuthenticatedByLogin, RequestOK, Request, Idle
<1>2. IInv /\ [Next]_vars => IInv'
  <2> SUFFICES ASSUME IInv, [Next]_vars PROVE IInv'
    OBVIOUS
  <2>a. /\ TypeOK /\ cookie \in SessionData /\ req \in [Requests -> Request]
        /\ proved \subseteq AccountIds /\ live \subseteq AccountIds /\ web3 \subseteq live
    BY DEF IInv, TypeOK
  <2>b. \A r \in Requests :
          /\ req[r] \in Request /\ req[r].sent \in SessionData /\ req[r].result \in SessionData
          /\ Consistent(req[r].sent) /\ Consistent(req[r].result)
          /\ req[r].sent.ids \subseteq proved /\ req[r].result.ids \subseteq proved
          /\ req[r].sent.ids \subseteq AccountIds
    BY <2>a DEF IInv, SessionConsistent, RequestOK, Request, SessionData
  <2>1. ASSUME NEW r \in Requests, NEW kind \in Kinds, Send(r, kind) PROVE IInv'
    <3> DEFINE t == [pc |-> "sent", kind |-> kind, sent |-> cookie, result |-> NoSession]
    <3>1. t \in Request
      BY <2>a, NoSessionFacts DEF Request
    <3>2. req' = [req EXCEPT ![r] = t] /\ UNCHANGED <<cookie, live, web3, proved>>
      BY <2>1 DEF Send
    <3>3. TypeOK'
      BY <2>a, <3>1, <3>2 DEF TypeOK
    <3>4. SessionConsistent' /\ AuthenticatedByLogin'
      BY <2>a, <3>2, NoSessionFacts DEF IInv, SessionConsistent, AuthenticatedByLogin, Consistent
    <3>5. RequestOK' /\ (cookie.ids \subseteq proved)'
      BY <2>a, <3>2, NoSessionFacts DEF IInv, RequestOK
    <3> QED
      BY <3>3, <3>4, <3>5 DEF IInv
  <2>2. ASSUME NEW r \in Requests, Receive(r) PROVE IInv'
    <3>1. /\ req' = [req EXCEPT ![r] = Idle] /\ UNCHANGED <<live, web3, proved>>
          /\ cookie' \in {cookie, req[r].result}
      BY <2>2 DEF Receive
    <3>2. TypeOK'
      BY <2>a, <2>b, <3>1, NoSessionFacts DEF TypeOK, Idle, Request
    <3>3. SessionConsistent' /\ AuthenticatedByLogin'
      BY <2>a, <2>b, <3>1, NoSessionFacts DEF IInv, SessionConsistent, AuthenticatedByLogin, Idle, Consistent
    <3>4. RequestOK' /\ (cookie.ids \subseteq proved)'
      BY <2>a, <2>b, <3>1, NoSessionFacts DEF IInv, RequestOK, Idle
    <3> QED
      BY <3>2, <3>3, <3>4 DEF IInv
  <2>3. ASSUME NEW r \in Requests, NEW a \in AccountIds, HandleLogin(r, a) PROVE IInv'
    <3> DEFINE s == ReqLogin(UpdateActiveAccounts(req[r].sent, a), a)
    <3>1. s \in SessionData /\ Consistent(s) /\ s.ids = req[r].sent.ids \cup {a}
      BY <2>b DEF ReqLogin, UpdateActiveAccounts, SessionData, Consistent
    <3>2. /\ Handled(r, s) /\ cookie' = cookie /\ live' = live /\ web3' = web3
          /\ proved' = proved \cup {a} /\ req[r].kind = "login"
      BY <2>3 DEF HandleLogin, Handling
    <3> HIDE DEF s
    <3> QED
      BY <2>a, <2>b, <3>1, <3>2, HandledStep
  <2>4. ASSUME NEW r \in Requests, NEW a \in AccountIds, HandleSwitch(r, a) PROVE IInv'
    <3> DEFINE s == ReqLogin([req[r].sent EXCEPT !.active = a], a)
    <3>1. /\ Handled(r, s) /\ UNCHANGED <<cookie, live, web3, proved>>
          /\ a \in req[r].sent.ids /\ req[r].sent.user # None
      BY <2>4 DEF HandleSwitch, EnsureLoggedIn
    <3>2. s \in SessionData /\ Consistent(s) /\ s.ids = req[r].sent.ids
      BY <2>b, <3>1, SwitchedSession
    <3> HIDE DEF s
    <3> QED
      BY <2>a, <2>b, <3>1, <3>2, HandledStep
  <2>5. ASSUME NEW r \in Requests, HandleLogout(r) PROVE IInv'
    <3>1. Handled(r, NoSession) /\ UNCHANGED <<cookie, live, web3, proved>>
      BY <2>5 DEF HandleLogout
    <3> QED
      BY <2>a, <3>1, NoSessionFacts, HandledStep
  <2>6. ASSUME NEW r \in Requests, NEW w \in AccountIds, HandleMergeKeep(r, w) PROVE IInv'
    <3>1. /\ Handled(r, req[r].sent) /\ cookie' = cookie
          /\ live' = live \ {w} /\ web3' = web3 \ {w} /\ proved' = proved \cup {w}
      BY <2>6 DEF HandleMergeKeep
    <3> QED
      BY <2>a, <2>b, <3>1, HandledStep
  <2>7. ASSUME NEW r \in Requests, NEW w \in AccountIds, HandleMergeIntoWallet(r, w) PROVE IInv'
    <3> DEFINE s == ReqLogin([req[r].sent EXCEPT !.active = w, !.ids = {w}], w)
    <3>1. s \in SessionData /\ Consistent(s) /\ s.ids = {w}
      BY <2>b DEF ReqLogin, SessionData, Consistent
    <3>2. /\ Handled(r, s) /\ cookie' = cookie /\ proved' = proved \cup {w}
          /\ live' = live \ {req[r].sent.user} /\ req[r].sent.user # None
          /\ web3' = (IF req[r].sent.user \in web3 THEN web3 ELSE web3 \ {w}) \ {req[r].sent.user}
      BY <2>7 DEF HandleMergeIntoWallet, EnsureLoggedIn
    <3>3. live' \subseteq AccountIds /\ web3' \subseteq live'
      BY <2>a, <3>2
    <3> HIDE DEF s
    <3> QED
      BY <2>a, <2>b, <3>1, <3>2, <3>3, HandledStep
  <2>8. ASSUME NEW r \in Requests, HandleError(r) PROVE IInv'
    <3>1. Handled(r, req[r].sent) /\ UNCHANGED <<cookie, live, web3, proved>>
      BY <2>8 DEF HandleError
    <3> QED
      BY <2>a, <2>b, <3>1, HandledStep
  <2>9. ASSUME NEW r \in Requests, HandleAddEmail(r) PROVE IInv'
    <3> DEFINE s == ReqLogin(UpdateActiveAccounts(req[r].sent, req[r].sent.user), req[r].sent.user)
    <3>1. /\ Handled(r, s) /\ UNCHANGED <<cookie, live, proved>>
          /\ web3' = web3 \ {req[r].sent.user} /\ req[r].sent.user # None
      BY <2>9 DEF HandleAddEmail, EnsureLoggedIn
    <3>2. s \in SessionData /\ Consistent(s) /\ s.ids = req[r].sent.ids
      BY <2>b, <3>1, RepeatedLogin
    <3> HIDE DEF s
    <3> QED
      BY <2>a, <2>b, <3>1, <3>2, HandledStep
  <2>10. ASSUME NEW r \in Requests, HandleConnectGoogle(r) PROVE IInv'
    <3> DEFINE s == ReqLogin(req[r].sent, req[r].sent.user)
    <3>1. /\ Handled(r, s) /\ UNCHANGED <<cookie, live, proved>>
          /\ web3' = web3 \ {req[r].sent.user} /\ req[r].sent.user # None
      BY <2>10 DEF HandleConnectGoogle, EnsureLoggedIn
    <3>2. s \in SessionData /\ Consistent(s) /\ s.ids = req[r].sent.ids
      BY <2>b, <3>1, RepeatedLogin
    <3> HIDE DEF s
    <3> QED
      BY <2>a, <2>b, <3>1, <3>2, HandledStep
  <2>11. CASE UNCHANGED vars
    BY <2>11 DEF vars, IInv, TypeOK, SessionConsistent, AuthenticatedByLogin, RequestOK
  <2> QED
    BY <2>1, <2>2, <2>3, <2>4, <2>5, <2>6, <2>7, <2>8, <2>9, <2>10, <2>11 DEF Next
<1> QED
  BY <1>1, <1>2, PTL DEF Spec

\* The cookie, the sessions in flight and the accounts keep their types.
THEOREM TypeCorrect == Spec => []TypeOK
  BY Inductive, PTL DEF IInv

\* The active account, passport's user and the authenticated accounts agree in
\* the browser and in everything on its way to or from it.
THEOREM SessionConsistentHolds == Spec => []SessionConsistent
  BY Inductive, PTL DEF IInv

\* A browser only acts as accounts whose owner proved them in that browser.
THEOREM OnlyProvedAccountsHolds == Spec => []OnlyProvedAccounts
<1>1. IInv => OnlyProvedAccounts
  BY DEF IInv, OnlyProvedAccounts, SessionConsistent, Consistent
<1> QED
  BY <1>1, Inductive, PTL

\* A logged-in request acts as an account its browser has proved.
LEMMA SentProved ==
  ASSUME IInv, NEW r \in Requests, EnsureLoggedIn(req[r].sent)
  PROVE  req[r].sent.user \in proved
BY DEF IInv, SessionConsistent, Consistent, RequestOK, EnsureLoggedIn

\* However requests and responses overlap, an account is deleted by a merge, or given
\* an e-mail or a Google login, only if its owner proved it from this browser.
THEOREM OnlyProvedChangeHolds == Spec => OnlyProvedChange
<1>1. IInv /\ [Next]_vars => [(live \ live') \cup (web3 \ web3') \subseteq proved']_vars
  <2> SUFFICES ASSUME IInv, Next
               PROVE  (live \ live') \cup (web3 \ web3') \subseteq proved'
    OBVIOUS
  <2> PICK r \in Requests :
        \/ \E kind \in Kinds : Send(r, kind)
        \/ Receive(r)
        \/ \E a \in AccountIds :
             HandleLogin(r, a) \/ HandleSwitch(r, a) \/ HandleMergeKeep(r, a) \/ HandleMergeIntoWallet(r, a)
        \/ HandleAddEmail(r) \/ HandleConnectGoogle(r)
        \/ HandleLogout(r)
        \/ HandleError(r)
    BY DEF Next
  <2>1. CASE UNCHANGED <<live, web3>>
    BY <2>1
  <2>2. ASSUME NEW w \in AccountIds, HandleMergeKeep(r, w)
        PROVE  (live \ live') \cup (web3 \ web3') \subseteq proved'
    BY <2>2 DEF HandleMergeKeep
  <2>3. ASSUME NEW w \in AccountIds, HandleMergeIntoWallet(r, w)
        PROVE  (live \ live') \cup (web3 \ web3') \subseteq proved'
    <3>1. req[r].sent.user \in proved /\ proved' = proved \cup {w}
      BY <2>3, SentProved DEF HandleMergeIntoWallet
    <3>2. live \ live' \subseteq {req[r].sent.user} /\ web3 \ web3' \subseteq {req[r].sent.user, w}
      BY <2>3 DEF HandleMergeIntoWallet
    <3> QED
      BY <3>1, <3>2
  <2>4. CASE HandleAddEmail(r) \/ HandleConnectGoogle(r)
    BY <2>4, SentProved DEF HandleAddEmail, HandleConnectGoogle
  <2> QED
    BY <2>1, <2>2, <2>3, <2>4
       DEF Send, Receive, HandleLogin, HandleSwitch, HandleLogout, HandleError
<1> QED
  BY <1>1, Inductive, PTL DEF Spec, OnlyProvedChange

-----------------------------------------------------------------------------
(* One request at a time *)

\* What an answered request did to the session it carried.
Effect(s, t) ==
  \/ t = s
  \/ \E a \in AccountIds :
       \/ t.user = a /\ t.ids = s.ids \cup {a}
       \/ s.user # None /\ a \in s.ids /\ t.user = a /\ t.ids = s.ids
       \/ s.user # None /\ t.user = a /\ t.ids = {a}
  \/ s.user # None /\ t = NoSession

AnswerOK == \A r \in Requests : req[r].pc = "handled" => Effect(req[r].sent, req[r].result)

\* A request that is under way carries the browser's present cookie.
CurrentCookie == \A r \in Requests : req[r].pc # "idle" => req[r].sent = cookie

LEMMA AnswerStep ==
  ASSUME IInv, AnswerOK, [Next]_vars
  PROVE  AnswerOK'
<1>a. TypeOK /\ req \in [Requests -> Request] /\ \A r \in Requests : req[r].sent \in SessionData
  BY DEF IInv, TypeOK, Request
<1>1. ASSUME NEW r \in Requests, NEW s \in SessionData, Handled(r, s), Effect(req[r].sent, s)
      PROVE  AnswerOK'
  BY <1>a, <1>1, HandledFacts DEF AnswerOK, Effect
<1>2. ASSUME NEW r \in Requests, NEW kind \in Kinds, Send(r, kind) PROVE AnswerOK'
  BY <1>a, <1>2 DEF Send, AnswerOK, Effect
<1>3. ASSUME NEW r \in Requests, Receive(r) PROVE AnswerOK'
  BY <1>a, <1>3 DEF Receive, AnswerOK, Effect, Idle
<1>4. ASSUME NEW r \in Requests, NEW a \in AccountIds, HandleLogin(r, a) PROVE AnswerOK'
  <2> DEFINE s == ReqLogin(UpdateActiveAccounts(req[r].sent, a), a)
  <2>1. s \in SessionData /\ s.user = a /\ s.ids = req[r].sent.ids \cup {a}
    BY <1>a DEF ReqLogin, UpdateActiveAccounts, SessionData
  <2>2. Handled(r, s)
    BY <1>4 DEF HandleLogin
  <2>3. Effect(req[r].sent, s)
    BY <2>1 DEF Effect
  <2> QED
    BY <1>1, <2>1, <2>2, <2>3
<1>5. ASSUME NEW r \in Requests, NEW a \in AccountIds, HandleSwitch(r, a) PROVE AnswerOK'
  <2> DEFINE s == ReqLogin([req[r].sent EXCEPT !.active = a], a)
  <2>1. s \in SessionData /\ s.user = a /\ s.ids = req[r].sent.ids
    BY <1>a DEF ReqLogin, SessionData
  <2>2. Handled(r, s) /\ req[r].sent.user # None /\ a \in req[r].sent.ids
    BY <1>5 DEF HandleSwitch, EnsureLoggedIn
  <2>3. Effect(req[r].sent, s)
    BY <2>1, <2>2 DEF Effect
  <2> QED
    BY <1>1, <2>1, <2>2, <2>3
<1>6. ASSUME NEW r \in Requests, HandleLogout(r) PROVE AnswerOK'
  BY <1>1, <1>6, NoSessionFacts DEF HandleLogout, EnsureLoggedIn, Effect
<1>7. ASSUME NEW r \in Requests, NEW w \in AccountIds, HandleMergeKeep(r, w) PROVE AnswerOK'
  BY <1>a, <1>1, <1>7 DEF HandleMergeKeep, Effect
<1>8. ASSUME NEW r \in Requests, NEW w \in AccountIds, HandleMergeIntoWallet(r, w) PROVE AnswerOK'
  <2> DEFINE s == ReqLogin([req[r].sent EXCEPT !.active = w, !.ids = {w}], w)
  <2>1. s \in SessionData /\ s.user = w /\ s.ids = {w}
    BY <1>a DEF ReqLogin, SessionData
  <2>2. Handled(r, s) /\ req[r].sent.user # None
    BY <1>8 DEF HandleMergeIntoWallet, EnsureLoggedIn
  <2>3. Effect(req[r].sent, s)
    BY <2>1, <2>2 DEF Effect
  <2> QED
    BY <1>1, <2>1, <2>2, <2>3
<1>9. ASSUME NEW r \in Requests, HandleError(r) PROVE AnswerOK'
  BY <1>a, <1>1, <1>9 DEF HandleError, Effect
<1>10. ASSUME NEW r \in Requests, HandleAddEmail(r) \/ HandleConnectGoogle(r) PROVE AnswerOK'
  <2> DEFINE s == req[r].sent
  <2>1. PICK t \in {ReqLogin(s, s.user), ReqLogin(UpdateActiveAccounts(s, s.user), s.user)} :
          Handled(r, t) /\ s.user # None
    BY <1>10 DEF HandleAddEmail, HandleConnectGoogle, EnsureLoggedIn
  <2>2. s \in SessionData /\ Consistent(s)
    BY <1>a DEF IInv, SessionConsistent
  <2>3. t \in SessionData /\ t.user = s.user /\ t.ids = s.ids /\ s.user \in AccountIds /\ s.user \in s.ids
    BY <2>1, <2>2, RepeatedLogin
  <2>4. Effect(req[r].sent, t)
    BY <2>1, <2>3 DEF Effect
  <2> QED
    BY <1>1, <2>1, <2>3, <2>4
<1>11. CASE UNCHANGED vars
  BY <1>11 DEF vars, AnswerOK, Effect
<1> QED
  BY <1>2, <1>3, <1>4, <1>5, <1>6, <1>7, <1>8, <1>9, <1>10, <1>11 DEF Next

LEMMA CurrentCookieStep ==
  ASSUME NEW one, Requests = {one}, IInv, CurrentCookie, [Next]_vars
  PROVE  CurrentCookie'
<1>a. TypeOK /\ req \in [Requests -> Request] /\ \A r \in Requests : req[r].sent \in SessionData
  BY DEF IInv, TypeOK, Request
<1>1. ASSUME NEW r \in Requests, NEW s \in SessionData, Handled(r, s), cookie' = cookie, req[r].pc = "sent"
      PROVE  CurrentCookie'
  BY <1>a, <1>1, HandledFacts DEF CurrentCookie
<1>2. ASSUME NEW r \in Requests, NEW kind \in Kinds, Send(r, kind) PROVE CurrentCookie'
  BY <1>a, <1>2 DEF Send, CurrentCookie
<1>3. ASSUME NEW r \in Requests, Receive(r) PROVE CurrentCookie'
  BY <1>a, <1>3 DEF Receive, CurrentCookie, Idle
<1>4. ASSUME NEW r \in Requests, NEW a \in AccountIds, HandleLogin(r, a) PROVE CurrentCookie'
  <2>1. ReqLogin(UpdateActiveAccounts(req[r].sent, a), a) \in SessionData
    BY <1>a DEF ReqLogin, UpdateActiveAccounts, SessionData
  <2> QED
    BY <1>1, <1>4, <2>1 DEF HandleLogin, Handling
<1>5. ASSUME NEW r \in Requests, NEW a \in AccountIds, HandleSwitch(r, a) PROVE CurrentCookie'
  <2>1. ReqLogin([req[r].sent EXCEPT !.active = a], a) \in SessionData
    BY <1>a DEF ReqLogin, SessionData
  <2> QED
    BY <1>1, <1>5, <2>1 DEF HandleSwitch, Handling
<1>6. ASSUME NEW r \in Requests, HandleLogout(r) PROVE CurrentCookie'
  BY <1>1, <1>6, NoSessionFacts DEF HandleLogout, Handling
<1>7. ASSUME NEW r \in Requests, NEW w \in AccountIds, HandleMergeKeep(r, w) PROVE CurrentCookie'
  BY <1>a, <1>1, <1>7 DEF HandleMergeKeep, Handling
<1>8. ASSUME NEW r \in Requests, NEW w \in AccountIds, HandleMergeIntoWallet(r, w) PROVE CurrentCookie'
  <2>1. ReqLogin([req[r].sent EXCEPT !.active = w, !.ids = {w}], w) \in SessionData
    BY <1>a DEF ReqLogin, SessionData
  <2> QED
    BY <1>1, <1>8, <2>1 DEF HandleMergeIntoWallet, Handling
<1>9. ASSUME NEW r \in Requests, HandleError(r) PROVE CurrentCookie'
  BY <1>a, <1>1, <1>9 DEF HandleError
<1>10. ASSUME NEW r \in Requests, HandleAddEmail(r) \/ HandleConnectGoogle(r) PROVE CurrentCookie'
  <2> DEFINE s == req[r].sent
  <2>1. PICK t \in {ReqLogin(s, s.user), ReqLogin(UpdateActiveAccounts(s, s.user), s.user)} :
          Handled(r, t) /\ s.user # None /\ cookie' = cookie /\ req[r].pc = "sent"
    BY <1>10 DEF HandleAddEmail, HandleConnectGoogle, EnsureLoggedIn, Handling
  <2>2. t \in SessionData
    BY <1>a, <2>1, RepeatedLogin DEF IInv, SessionConsistent
  <2> QED
    BY <1>1, <2>1, <2>2
<1>11. CASE UNCHANGED vars
  BY <1>11 DEF vars, CurrentCookie
<1> QED
  BY <1>2, <1>3, <1>4, <1>5, <1>6, <1>7, <1>8, <1>9, <1>10, <1>11 DEF Next

LEMMA SerialInductive ==
  ASSUME NEW one, Requests = {one}
  PROVE  Spec => [](AnswerOK /\ CurrentCookie)
<1>1. Init => AnswerOK /\ CurrentCookie
  BY DEF Init, AnswerOK, CurrentCookie, Idle
<1>2. IInv /\ AnswerOK /\ CurrentCookie /\ [Next]_vars => (AnswerOK /\ CurrentCookie)'
  BY AnswerStep, CurrentCookieStep
<1> QED
  BY <1>1, <1>2, Inductive, PTL DEF Spec

\* The cookie session implements the documented "Multiple logins per session"
\* as long as the browser waits for each response before its next request.
THEOREM SerialImplementsMultiLogin ==
  ASSUME NEW one, Requests = {one}
  PROVE  Spec => ImplementsMultiLogin
<1>1. Init => Docs!Init
  BY DEF Init, Docs!Init, NoSession
<1>2. IInv /\ AnswerOK /\ CurrentCookie /\ [Next]_vars => [Docs!Next]_(Docs!vars)
  <2> SUFFICES ASSUME IInv, AnswerOK, CurrentCookie, [Next]_vars, cookie' # cookie
               PROVE  Docs!Next
    BY DEF Docs!vars
  <2>1. PICK r \in Requests : Receive(r)
    BY DEF Next, vars, Send, HandleLogin, HandleAddEmail, HandleConnectGoogle, HandleSwitch, HandleLogout, HandleMergeKeep,
           HandleMergeIntoWallet, HandleError
  <2>2. Effect(cookie, cookie')
    BY <2>1 DEF Receive, AnswerOK, CurrentCookie
  <2>3. CASE \E a \in AccountIds : cookie'.user = a /\ cookie'.ids = cookie.ids \cup {a}
    BY <2>3 DEF Docs!Next, Docs!Login
  <2>4. CASE \E a \in AccountIds : /\ cookie.user # None /\ a \in cookie.ids
                                   /\ cookie'.user = a /\ cookie'.ids = cookie.ids
    BY <2>4 DEF Docs!Next, Docs!Switch
  <2>5. CASE \E a \in AccountIds : cookie.user # None /\ cookie'.user = a /\ cookie'.ids = {a}
    BY <2>5 DEF Docs!Next, Docs!MergeInto
  <2>6. CASE cookie.user # None /\ cookie' = NoSession
    BY <2>6, NoSessionFacts DEF Docs!Next, Docs!Logout
  <2> QED
    BY <2>2, <2>3, <2>4, <2>5, <2>6 DEF Effect
<1> QED
  BY <1>1, <1>2, Inductive, SerialInductive, PTL DEF Spec, ImplementsMultiLogin, Docs!Spec

\* With one request at a time a logout is final: only a login undoes it.
THEOREM SerialLogoutIsFinal ==
  ASSUME NEW one, Requests = {one}
  PROVE  Spec => LogoutIsFinal
<1>1. IInv /\ CurrentCookie /\ [Next]_vars
        => [\A r \in Requests :
              Receive(r) /\ cookie.user = None /\ cookie'.user # None => req[r].kind = "login"]_vars
  BY DEF IInv, CurrentCookie, Receive, AuthenticatedByLogin
<1> QED
  BY <1>1, Inductive, SerialInductive, PTL DEF Spec, LogoutIsFinal
=============================================================================
