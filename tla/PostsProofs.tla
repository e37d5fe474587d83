------------------------------ MODULE PostsProofs ------------------------------
(***************************************************************************)
(* Who is shown a post, who writes one, and what a deletion leaves, for any *)
(* number of posts, files, accounts and requests and whatever GraphQL does   *)
(* to the project's admin meanwhile. What a request has read is related to   *)
(* what was the case at some time since it started (wasAdmin, seen), and     *)
(* what a deletion still has to do to what it has queued.                    *)
(***************************************************************************)
EXTENDS Posts, TLAPS

\* Whoever passed the check of the admin was the admin when it was made; a request
\* that will write knows its post.
AdminOK ==
  \A r \in Requests :
    /\ req[r].account # None \/ req[r].toQueue # {} => InProgress(r)
    /\ req[r].account = admin => r \in wasAdmin
    /\ req[r].isAdmin => r \in wasAdmin
    /\ req[r].pc = "insert" => r \in wasAdmin
    /\ r \in Deletes /\ req[r].pc = "files" => r \in wasAdmin
    /\ req[r].toQueue # {} => r \in wasAdmin
    /\ req[r].pc = "insert" \/ (r \in Deletes /\ req[r].pc \in {"posts", "admin"})
         => req[r].iri \in Iris

\* The history has the present rows, and those a read has already selected.
SeenOK ==
  \A r \in Readers :
    /\ InProgress(r) => Rows \subseteq seen[r]
    /\ req[r].rows \subseteq seen[r]

\* While a deletion goes on, each file of its post is to be checked, to be queued,
\* or queued.
QueuedOK ==
  \A r \in Deletes :
    req[r].pc = "files" =>
      \A f \in PostFiles[req[r].iri] :
        f \in req[r].files \cup req[r].toQueue \/ <<"project", f>> \in queued[r]

IInv == TypeOK /\ AdminOK /\ SeenOK /\ AnswerFitsPrivacy /\ QueuedOK

-----------------------------------------------------------------------------
(* The steps of a request, as far as the invariant can tell them apart *)

Changes(r) == req' \in [Requests -> Request] /\ \A s \in Requests : s # r => req'[s] = req[s]

Fresh(q, pc, account, rows) ==
  /\ q.pc = pc /\ q.account = account /\ q.rows = rows
  /\ ~q.isAdmin /\ q.files = {} /\ q.toQueue = {}

\* It starts, and is answered at once or goes on with what the first statement read.
Begins(r, a) ==
  /\ Changes(r) /\ Starts(r, a) /\ req'[r].shown = {}
  /\ \/ Fresh(req'[r], "answered", None, {})
     \/ \E pc \in {"posts", "admin", "insert"}, rows \in SUBSET Rows :
          /\ Fresh(req'[r], pc, a, rows)
          /\ (pc = "insert" => a = admin)
          /\ (pc = "insert" \/ r \in Deletes => req'[r].iri \in Iris)
  /\ UNCHANGED <<post, admin, queued>>

\* It ends: it may have inserted or deleted the post, and forgets everything.
Ends(r) ==
  /\ Changes(r) /\ InProgress(r) /\ req'[r].shown = {}
  /\ \E pc \in {"answered", "lost"} : Fresh(req'[r], pc, None, {})
  /\ \A s \in Readers :
       /\ seen[s] \subseteq seen'[s]
       /\ InProgress(s) /\ Rows \subseteq seen[s] => Rows' \subseteq seen'[s]
  /\ UNCHANGED <<admin, wasAdmin, queued>>

\* It goes on, and passes the check of the admin only if it is the admin now.
Goes(r) ==
  LET old == req[r]
      new == req'[r]
  IN /\ Changes(r) /\ InProgress(r)
     /\ \/ new.pc = old.pc \/ new.pc \in {"files", "answered"}
        \/ old.pc = "posts" /\ new.pc = "admin"
     /\ new.account = old.account /\ new.iri = old.iri /\ new.shown = old.shown
     /\ new.rows = old.rows \/ new.rows \subseteq Rows
     /\ new.isAdmin => old.isAdmin \/ old.account = admin
     /\ r \in Deletes /\ new.pc = "files" => old.pc = "files" \/ old.account = admin
     /\ new.toQueue \subseteq old.toQueue \/ old.account = admin
     /\ \A s \in Deletes : queued[s] \subseteq queued'[s]
     /\ r \in Deletes /\ new.pc = "files" =>
          \A f \in PostFiles[new.iri] :
            \/ f \in new.files \cup new.toQueue \/ <<"project", f>> \in queued'[r]
            \/ old.pc = "files" /\ f \notin old.files \cup old.toQueue
     /\ UNCHANGED <<post, admin, wasAdmin, seen>>

\* A read is answered.
Shown(r) == {<<row[1], View(row[2], req[r].isAdmin)>> : row \in req[r].rows}
Shows(r) ==
  /\ Changes(r) /\ InProgress(r) /\ r \in Readers
  /\ Fresh(req'[r], "answered", None, {}) /\ req'[r].shown = Shown(r)
  /\ UNCHANGED <<post, admin, wasAdmin, seen, queued>>

\* Nothing a request does.
Around ==
  /\ UNCHANGED <<post, req, seen, queued>>
  /\ UNCHANGED <<admin, wasAdmin>> \/ \E a \in Accounts : ChangeAdmin(a)

LEMMA BecomesChanges ==
  ASSUME TypeOK, NEW r \in Requests, NEW request \in Request, Becomes(r, request)
  PROVE  Changes(r) /\ req'[r] = request
BY DEF TypeOK, Becomes, Changes

LEMMA AnswersFresh ==
  ASSUME TypeOK, NEW r \in Requests,
         NEW status \in {"ok", "notFound", "unauthorized", "missingFile", "error"},
         Answers(r, status)
  PROVE  Changes(r) /\ Fresh(req'[r], "answered", None, {}) /\ req'[r].shown = {}
<1> DEFINE q == [New EXCEPT !.pc = "answered", !.iri = req[r].iri, !.status = status]
<1>1. req[r].iri \in Iris \cup {None}
  BY DEF TypeOK, Request
<1>2. q \in Request
  BY <1>1 DEF New, Request
<1>3. Fresh(q, "answered", None, {}) /\ q.shown = {}
  BY DEF New, Fresh
<1>4. Becomes(r, q)
  BY DEF Answers
<1> QED
  BY <1>2, <1>3, <1>4, BecomesChanges

\* ReadYears, StartList, ReadPost and MayCreate make the request a new record.
LEMMA BeginSteps ==
  ASSUME TypeOK, NEW r \in Requests, NEW a \in Accounts,
         \/ ReadYears(r, a) \/ StartList(r, a)
         \/ \E p \in Iris : ReadPost(r, a, p) \/ MayCreate(r, a, p)
  PROVE  Begins(r, a)
<1> DEFINE Answer(status) == [New EXCEPT !.pc = "answered", !.status = status]
           List == [New EXCEPT !.pc = "posts", !.account = a]
           Read(p) == [New EXCEPT !.pc = "admin", !.account = a, !.iri = p,
                                  !.rows = {<<p, post[p]>>}]
           Create(p) == [New EXCEPT !.pc = "insert", !.account = a, !.iri = p]
<1>1. ASSUME NEW status \in {"notFound", "unauthorized"}, Becomes(r, Answer(status))
      PROVE  Changes(r) /\ Fresh(req'[r], "answered", None, {}) /\ req'[r].shown = {}
  <2>1. /\ Answer(status) \in Request /\ Fresh(Answer(status), "answered", None, {})
        /\ Answer(status).shown = {}
    BY DEF New, Request, Fresh
  <2> HIDE DEF Answer
  <2> QED
    BY <1>1, <2>1, BecomesChanges
<1>2. ASSUME Becomes(r, List)
      PROVE  Changes(r) /\ Fresh(req'[r], "posts", a, {}) /\ req'[r].shown = {}
  <2>1. List \in Request /\ Fresh(List, "posts", a, {}) /\ List.shown = {}
    BY DEF New, Request, Fresh
  <2> HIDE DEF List
  <2> QED
    BY <1>2, <2>1, BecomesChanges
<1>3. ASSUME NEW p \in Iris, post[p] # None, Becomes(r, Read(p))
      PROVE  /\ Changes(r) /\ Fresh(req'[r], "admin", a, {<<p, post[p]>>}) /\ req'[r].shown = {}
             /\ req'[r].iri \in Iris /\ {<<p, post[p]>>} \in SUBSET Rows
  <2>1. post[p] \in Privacy
    BY <1>3 DEF TypeOK
  <2>2. {<<p, post[p]>>} \in SUBSET (Iris \X Privacy)
    BY <2>1
  <2>3. /\ Read(p) \in Request /\ Fresh(Read(p), "admin", a, {<<p, post[p]>>})
        /\ Read(p).shown = {} /\ Read(p).iri \in Iris
    BY <2>2 DEF New, Request, Fresh
  <2>4. {<<p, post[p]>>} \in SUBSET Rows
    BY <2>1 DEF Rows
  <2> HIDE DEF Read
  <2> QED
    BY <1>3, <2>3, <2>4, BecomesChanges
<1>4. ASSUME NEW p \in Iris, Becomes(r, Create(p))
      PROVE  /\ Changes(r) /\ Fresh(req'[r], "insert", a, {}) /\ req'[r].shown = {}
             /\ req'[r].iri \in Iris
  <2>1. /\ Create(p) \in Request /\ Fresh(Create(p), "insert", a, {}) /\ Create(p).shown = {}
        /\ Create(p).iri \in Iris
    BY DEF New, Request, Fresh
  <2> HIDE DEF Create
  <2> QED
    BY <1>4, <2>1, BecomesChanges
<1>5. {} \in SUBSET Rows
  OBVIOUS
<1> HIDE DEF Answer, List, Read, Create
<1>6. CASE ReadYears(r, a)
  <2>1. Starts(r, a) /\ r \notin Deletes /\ UNCHANGED <<post, admin, queued>>
    BY <1>6, ConstantsAssumption DEF ReadYears
  <2>2. Becomes(r, Answer("notFound")) \/ Becomes(r, List)
    BY <1>6 DEF ReadYears, Answer, List
  <2> QED
    BY <1>1, <1>2, <1>5, <2>1, <2>2 DEF Begins
<1>7. CASE StartList(r, a)
  <2>1. /\ Starts(r, a) /\ UNCHANGED <<post, admin, queued>> /\ Becomes(r, List)
        /\ r \notin Deletes
    BY <1>7, ConstantsAssumption DEF StartList, List
  <2> QED
    BY <1>2, <1>5, <2>1 DEF Begins
<1>8. ASSUME NEW p \in Iris, ReadPost(r, a, p) PROVE Begins(r, a)
  <2>1. Starts(r, a) /\ UNCHANGED <<post, admin, queued>>
    BY <1>8 DEF ReadPost
  <2>2. Becomes(r, Answer("notFound")) \/ (post[p] # None /\ Becomes(r, Read(p)))
    BY <1>8 DEF ReadPost, Answer, Read
  <2> QED
    BY <1>1, <1>3, <2>1, <2>2 DEF Begins
<1>9. ASSUME NEW p \in Iris, MayCreate(r, a, p) PROVE Begins(r, a)
  <2>1. Starts(r, a) /\ UNCHANGED <<post, admin, queued>>
    BY <1>9 DEF MayCreate
  <2>2. Becomes(r, Answer("unauthorized")) \/ (a = admin /\ Becomes(r, Create(p)))
    BY <1>9 DEF MayCreate, Answer, Create
  <2> QED
    BY <1>1, <1>4, <1>5, <2>1, <2>2 DEF Begins
<1> QED
  BY <1>6, <1>7, <1>8, <1>9

LEMMA EndSteps ==
  ASSUME TypeOK, NEW r \in Requests, InProgress(r),
         \/ Lose(r) \/ DeletePost(r) \/ \E privacy \in Privacy : InsertPost(r, privacy)
         \/ MayDelete(r) /\ admin # req[r].account
         \/ AnswerRead(r) /\ <<req[r].iri, "nothing">> \in Shown(r)
         \/ \E f \in Files : ReadFile(r, f) /\ f \notin upload
  PROVE  Ends(r)
<1> DEFINE Kept == \A s \in Readers :
                     /\ seen[s] \subseteq seen'[s]
                     /\ InProgress(s) /\ Rows \subseteq seen[s] => Rows' \subseteq seen'[s]
<1>1. UNCHANGED <<post, seen>> => Kept
  BY DEF Rows
<1>2. CASE Lose(r)
  <2> DEFINE Lost == [New EXCEPT !.pc = "lost"]
  <2>1. Lost \in Request /\ Fresh(Lost, "lost", None, {}) /\ Lost.shown = {}
    BY DEF New, Request, Fresh
  <2>2. Becomes(r, Lost) /\ UNCHANGED <<post, admin, wasAdmin, seen, queued>>
    BY <1>2 DEF Lose
  <2> HIDE DEF Lost
  <2> QED
    BY <1>1, <2>1, <2>2, BecomesChanges DEF Ends
<1>3. CASE DeletePost(r)
  <2>1. Kept
    <3>1. Rows' \subseteq Rows
      BY <1>3, ConstantsAssumption DEF DeletePost, Rows, TypeOK
    <3> QED
      BY <1>3, <3>1 DEF DeletePost
  <2>2. Answers(r, "ok") /\ UNCHANGED <<admin, wasAdmin, queued>>
    BY <1>3 DEF DeletePost
  <2> QED
    BY <2>1, <2>2, AnswersFresh DEF Ends
<1>4. ASSUME NEW privacy \in Privacy, InsertPost(r, privacy) PROVE Ends(r)
  <2>1. Kept
    <3>1. CASE UNCHANGED <<post, seen>>
      BY <1>1, <3>1
    <3>2. CASE post[req[r].iri] = None
      <4>1. Rows' \subseteq Rows \cup {<<req[r].iri, privacy>>}
        BY <1>4, <3>2 DEF InsertPost, Rows, TypeOK
      <4>2. \A s \in Readers :
              seen'[s] = IF InProgress(s) THEN seen[s] \cup {<<req[r].iri, privacy>>} ELSE seen[s]
        BY <1>4, <3>2 DEF InsertPost
      <4> QED
        BY <4>1, <4>2
    <3> QED
      BY <1>4, <3>1, <3>2 DEF InsertPost
  <2>2. (Answers(r, "ok") \/ Answers(r, "error")) /\ UNCHANGED <<admin, wasAdmin, queued>>
    BY <1>4 DEF InsertPost
  <2> QED
    BY <2>1, <2>2, AnswersFresh DEF Ends
<1>5. ASSUME NEW status \in {"unauthorized", "missingFile"}, Answers(r, status),
             UNCHANGED <<post, admin, wasAdmin, seen, queued>>
      PROVE  Ends(r)
  BY <1>1, <1>5, AnswersFresh DEF Ends
<1>6. CASE MayDelete(r) /\ admin # req[r].account
  BY <1>5, <1>6 DEF MayDelete
<1>7. CASE AnswerRead(r) /\ <<req[r].iri, "nothing">> \in Shown(r)
  BY <1>5, <1>7 DEF AnswerRead, Shown
<1>8. ASSUME NEW f \in Files, ReadFile(r, f), f \notin upload PROVE Ends(r)
  BY <1>5, <1>8 DEF ReadFile
<1> QED
  BY <1>2, <1>3, <1>4, <1>6, <1>7, <1>8

LEMMA ShowSteps ==
  ASSUME TypeOK, NEW r \in Requests, InProgress(r), AnswerRead(r),
         <<req[r].iri, "nothing">> \notin Shown(r)
  PROVE  Shows(r)
<1> DEFINE q == [New EXCEPT !.pc = "answered", !.status = "ok", !.shown = Shown(r)]
<1>1. req[r].rows \subseteq Iris \X Privacy /\ req[r].isAdmin \in BOOLEAN
  BY DEF TypeOK, Request
<1>2. Shown(r) \in SUBSET (Iris \X Views)
  BY <1>1 DEF Shown, View, Views
<1>3. q \in Request /\ Fresh(q, "answered", None, {}) /\ q.shown = Shown(r)
  BY <1>2 DEF New, Request, Fresh
<1>4. Becomes(r, q) /\ r \in Readers /\ UNCHANGED <<post, admin, wasAdmin, seen, queued>>
  BY DEF AnswerRead, Shown
<1> HIDE DEF q
<1> QED
  BY <1>3, <1>4, BecomesChanges DEF Shows

\* The records of the requests that go on.
LEMMA GoSteps ==
  ASSUME TypeOK, AdminOK, NEW r \in Requests, InProgress(r),
         \/ \E page \in SUBSET Rows : ReadPosts(r, page)
         \/ ReadAdmin(r)
         \/ MayDelete(r) /\ admin = req[r].account
         \/ \E f \in Files : ReadFile(r, f) /\ f \in upload
         \/ \E f \in Files : CheckFile(r, f) \/ QueueFile(r, f) \/ QueueFileFails(r, f)
  PROVE  Goes(r)
<1> DEFINE old == req[r]
<1>1. old \in Request
  BY DEF TypeOK
<1>2. ASSUME NEW page \in SUBSET Rows, ReadPosts(r, page) PROVE Goes(r)
  <2> DEFINE new == [old EXCEPT !.pc = "admin", !.rows = page]
  <2>1. page \in SUBSET (Iris \X Privacy)
    BY DEF Rows
  <2>2. /\ new \in Request /\ new.pc = "admin" /\ new.account = old.account /\ new.iri = old.iri
        /\ new.shown = old.shown
        /\ new.rows = page /\ new.isAdmin = old.isAdmin /\ new.toQueue = old.toQueue
    BY <1>1, <2>1 DEF Request
  <2>3. old.pc = "posts" /\ Becomes(r, new) /\ UNCHANGED <<post, admin, wasAdmin, seen, queued>>
    BY <1>2 DEF ReadPosts
  <2> HIDE DEF old, new
  <2>4. Changes(r) /\ req'[r] = new
    BY <2>2, <2>3, BecomesChanges
  <2> QED
    BY <2>2, <2>3, <2>4 DEF Goes, old
<1>3. CASE ReadAdmin(r)
  <2> DEFINE isAdmin == admin = old.account
             files == FilesToRead(old.rows, isAdmin)
             new == [old EXCEPT !.pc = "files", !.isAdmin = isAdmin, !.files = files]
  <2>1. files \in SUBSET Files
    BY <1>1, ConstantsAssumption DEF Request, FilesToRead
  <2> HIDE DEF files
  <2>2. /\ new \in Request /\ new.pc = "files" /\ new.account = old.account /\ new.iri = old.iri
        /\ new.shown = old.shown
        /\ new.rows = old.rows /\ new.toQueue = old.toQueue
    BY <1>1, <2>1 DEF Request
  <2>3. new.isAdmin => old.account = admin
    BY <1>1 DEF Request
  <2>4. Becomes(r, new) /\ r \in Readers /\ UNCHANGED <<post, admin, wasAdmin, seen, queued>>
    BY <1>3 DEF ReadAdmin, files
  <2> HIDE DEF old, isAdmin, new
  <2>5. Changes(r) /\ req'[r] = new
    BY <2>2, <2>4, BecomesChanges
  <2>6. r \notin Deletes
    BY <2>4, ConstantsAssumption
  <2>7. req'[r].isAdmin => req[r].account = admin
    BY <2>3, <2>5 DEF old
  <2> QED
    BY <2>2, <2>4, <2>5, <2>6, <2>7 DEF Goes, old
<1>4. CASE MayDelete(r) /\ admin = req[r].account
  <2> DEFINE new == [old EXCEPT !.pc = "files", !.files = PostFiles[old.iri]]
  <2>1. PostFiles[old.iri] \in SUBSET Files
    BY <1>4, ConstantsAssumption DEF MayDelete, AdminOK
  <2>2. /\ new \in Request /\ new.pc = "files" /\ new.account = old.account /\ new.iri = old.iri
        /\ new.shown = old.shown
        /\ new.rows = old.rows /\ new.isAdmin = old.isAdmin /\ new.toQueue = old.toQueue
        /\ new.files = PostFiles[old.iri]
    BY <1>1, <2>1 DEF Request
  <2>3. Becomes(r, new) /\ UNCHANGED <<post, admin, wasAdmin, seen, queued>>
    BY <1>4 DEF MayDelete
  <2> HIDE DEF old, new
  <2>4. Changes(r) /\ req'[r] = new
    BY <2>2, <2>3, BecomesChanges
  <2> QED
    BY <1>4, <2>2, <2>3, <2>4 DEF Goes, old
<1>5. ASSUME NEW f \in Files, ReadFile(r, f), f \in upload PROVE Goes(r)
  <2> DEFINE new == [old EXCEPT !.files = @ \ {f}]
  <2>1. /\ new \in Request /\ new.pc = old.pc /\ new.account = old.account /\ new.iri = old.iri
        /\ new.shown = old.shown
        /\ new.rows = old.rows /\ new.isAdmin = old.isAdmin /\ new.toQueue = old.toQueue
    BY <1>1 DEF Request
  <2>2. /\ Becomes(r, new) /\ UNCHANGED <<post, admin, wasAdmin, seen, queued>>
        /\ r \in Readers /\ old.pc = "files"
    BY <1>5 DEF ReadFile
  <2>3. r \notin Deletes
    BY <2>2, ConstantsAssumption
  <2> HIDE DEF old, new
  <2>4. Changes(r) /\ req'[r] = new
    BY <2>1, <2>2, BecomesChanges
  <2> QED
    BY <2>1, <2>2, <2>3, <2>4 DEF Goes, old
<1>6. ASSUME NEW f \in Files, CheckFile(r, f) PROVE Goes(r)
  <2> DEFINE left == old.files \ {f}
             more == old.toQueue \cup {f}
             passed == [old EXCEPT !.files = left, !.toQueue = more]
             failed == [old EXCEPT !.files = left]
             answered == [old EXCEPT !.files = left, !.pc = "answered", !.status = "unauthorized"]
  <2>1. left \in SUBSET Files /\ more \in SUBSET Files
    BY <1>1 DEF Request
  <2>2. /\ r \in Deletes /\ old.pc \in {"files", "answered"} /\ f \in old.files
        /\ UNCHANGED <<post, admin, wasAdmin, seen, queued>>
        /\ \/ admin = old.account /\ Becomes(r, passed)
           \/ old.pc = "answered" /\ Becomes(r, failed)
           \/ Becomes(r, answered)
    BY <1>1, <1>6 DEF CheckFile, Request
  <2> HIDE DEF left, more
  <2>3. /\ passed \in Request /\ passed.pc = old.pc /\ passed.account = old.account
        /\ passed.shown = old.shown /\ passed.rows = old.rows /\ passed.isAdmin = old.isAdmin
        /\ passed.iri = old.iri /\ passed.files = left /\ passed.toQueue = more
    BY <1>1, <2>1 DEF Request
  <2>4. /\ failed \in Request /\ failed.pc = old.pc /\ failed.account = old.account
        /\ failed.shown = old.shown /\ failed.rows = old.rows /\ failed.isAdmin = old.isAdmin
        /\ failed.iri = old.iri /\ failed.toQueue = old.toQueue
    BY <1>1, <2>1 DEF Request
  <2>5. /\ answered \in Request /\ answered.pc = "answered" /\ answered.account = old.account
        /\ answered.shown = old.shown /\ answered.rows = old.rows
        /\ answered.isAdmin = old.isAdmin /\ answered.iri = old.iri
        /\ answered.toQueue = old.toQueue
    BY <1>1, <2>1 DEF Request
  <2> HIDE DEF old, passed, failed, answered
  <2>6. CASE admin = old.account /\ Becomes(r, passed)
    <3>1. Changes(r) /\ req'[r] = passed
      BY <2>3, <2>6, BecomesChanges
    <3>2. old.pc = "files" => \A g \in old.files \cup old.toQueue : g \in left \cup more
      BY DEF left, more
    <3> QED
      BY <2>2, <2>3, <2>6, <3>1, <3>2 DEF Goes, old
  <2>7. CASE old.pc = "answered" /\ Becomes(r, failed)
    <3>1. Changes(r) /\ req'[r] = failed
      BY <2>4, <2>7, BecomesChanges
    <3> QED
      BY <2>2, <2>4, <2>7, <3>1 DEF Goes, old
  <2>8. CASE Becomes(r, answered)
    <3>1. Changes(r) /\ req'[r] = answered
      BY <2>5, <2>8, BecomesChanges
    <3> QED
      BY <2>2, <2>5, <3>1 DEF Goes, old
  <2> QED
    BY <2>2, <2>6, <2>7, <2>8
<1>7. ASSUME NEW f \in Files, QueueFile(r, f) PROVE Goes(r)
  <2> DEFINE less == old.toQueue \ {f}
             new == [old EXCEPT !.toQueue = less]
  <2>1. less \in SUBSET Files
    BY <1>1 DEF Request
  <2>2. /\ r \in Deletes /\ UNCHANGED <<post, admin, wasAdmin, seen>> /\ Becomes(r, new)
        /\ queued' = [queued EXCEPT ![r] = @ \cup {<<"project", f>>}]
    BY <1>1, <1>7 DEF QueueFile, Request
  <2>3. \A g \in old.toQueue : g \in less \/ <<"project", g>> \in queued'[r]
    BY <2>2 DEF TypeOK
  <2>4. \A s \in Deletes : queued[s] \subseteq queued'[s]
    BY <2>2 DEF TypeOK
  <2>5. less \subseteq old.toQueue
    OBVIOUS
  <2> HIDE DEF less
  <2>6. /\ new \in Request /\ new.pc = old.pc /\ new.account = old.account /\ new.iri = old.iri
        /\ new.shown = old.shown
        /\ new.rows = old.rows /\ new.isAdmin = old.isAdmin /\ new.files = old.files
        /\ new.toQueue = less
    BY <1>1, <2>1 DEF Request
  <2> HIDE DEF old, new
  <2>7. Changes(r) /\ req'[r] = new
    BY <2>2, <2>6, BecomesChanges
  <2> QED
    BY <2>2, <2>3, <2>4, <2>5, <2>6, <2>7 DEF Goes, old
<1>8. ASSUME NEW f \in Files, QueueFileFails(r, f) PROVE Goes(r)
  <2> DEFINE less == old.toQueue \ {f}
             status == IF old.pc = "files" THEN "error" ELSE old.status
             new == [old EXCEPT !.toQueue = less, !.pc = "answered", !.status = status]
  <2>1. /\ less \in SUBSET Files /\ less \subseteq old.toQueue
        /\ status \in {"none", "ok", "notFound", "unauthorized", "missingFile", "error"}
    BY <1>1 DEF Request
  <2>2. Becomes(r, new) /\ UNCHANGED <<post, admin, wasAdmin, seen, queued>>
    BY <1>1, <1>8 DEF QueueFileFails, Request
  <2> HIDE DEF less, status
  <2>3. /\ new \in Request /\ new.pc = "answered" /\ new.account = old.account
        /\ new.iri = old.iri /\ new.shown = old.shown /\ new.rows = old.rows
        /\ new.isAdmin = old.isAdmin /\ new.toQueue = less
    BY <1>1, <2>1 DEF Request
  <2> HIDE DEF old, new
  <2>4. Changes(r) /\ req'[r] = new
    BY <2>2, <2>3, BecomesChanges
  <2> QED
    BY <2>1, <2>2, <2>3, <2>4 DEF Goes, old
<1> QED
  BY <1>2, <1>3, <1>4, <1>5, <1>6, <1>7, <1>8

\* The steps of the model, all of them.
LEMMA StepCases ==
  ASSUME TypeOK, AdminOK, [Next]_vars
  PROVE  \/ \E r \in Requests, a \in Accounts : Begins(r, a)
         \/ \E r \in Requests : Ends(r) \/ Goes(r) \/ Shows(r)
         \/ Around
<1>1. ASSUME NEW r \in Requests, NEW a \in Accounts,
             \/ ReadYears(r, a) \/ StartList(r, a)
             \/ \E p \in Iris : ReadPost(r, a, p) \/ MayCreate(r, a, p)
      PROVE  Begins(r, a)
  BY <1>1, BeginSteps
<1>2. ASSUME NEW r \in Requests, \E page \in SUBSET Rows : ReadPosts(r, page)
      PROVE  Goes(r)
  <2>1. InProgress(r)
    BY <1>2 DEF ReadPosts, InProgress
  <2> QED
    BY <1>2, <2>1, GoSteps
<1>3. ASSUME NEW r \in Requests, ReadAdmin(r) PROVE Goes(r)
  <2>1. InProgress(r)
    BY <1>3 DEF ReadAdmin, InProgress
  <2> QED
    BY <1>3, <2>1, GoSteps
<1>4. ASSUME NEW r \in Requests, MayDelete(r) PROVE Goes(r) \/ Ends(r)
  <2>1. InProgress(r)
    BY <1>4 DEF MayDelete, InProgress
  <2> QED
    BY <1>4, <2>1, GoSteps, EndSteps
<1>5. ASSUME NEW r \in Requests, AnswerRead(r) PROVE Shows(r) \/ Ends(r)
  <2>1. InProgress(r)
    BY <1>5 DEF AnswerRead, InProgress
  <2> QED
    BY <1>5, <2>1, ShowSteps, EndSteps
<1>6. ASSUME NEW r \in Requests, DeletePost(r) \/ Lose(r) PROVE Ends(r)
  <2>1. InProgress(r)
    BY <1>6 DEF DeletePost, Lose, InProgress
  <2> QED
    BY <1>6, <2>1, EndSteps
<1>7. ASSUME NEW r \in Requests, \E privacy \in Privacy : InsertPost(r, privacy)
      PROVE  Ends(r)
  <2>1. InProgress(r)
    BY <1>7 DEF InsertPost, InProgress
  <2> QED
    BY <1>7, <2>1, EndSteps
<1>8. ASSUME NEW r \in Requests, NEW f \in Files, ReadFile(r, f) PROVE Goes(r) \/ Ends(r)
  <2>1. InProgress(r)
    BY <1>8 DEF ReadFile, InProgress
  <2> QED
    BY <1>8, <2>1, GoSteps, EndSteps
<1>9. ASSUME NEW r \in Requests, NEW f \in Files,
             CheckFile(r, f) \/ QueueFile(r, f) \/ QueueFileFails(r, f)
      PROVE  Goes(r)
  <2>1. InProgress(r)
    BY <1>9 DEF CheckFile, QueueFile, QueueFileFails, InProgress, AdminOK
  <2> QED
    BY <1>9, <2>1, GoSteps
<1>10. ASSUME \/ \E a \in Accounts : ChangeAdmin(a)
              \/ \E f \in Files : Upload(f) \/ DeleteFile(f) \/ RunJob("project", f)
              \/ UNCHANGED vars
       PROVE  Around
  BY <1>10 DEF Around, ChangeAdmin, Upload, DeleteFile, RunJob, vars
<1> QED
  BY <1>1, <1>2, <1>3, <1>4, <1>5, <1>6, <1>7, <1>8, <1>9, <1>10 DEF Next, Step

-----------------------------------------------------------------------------
(* The invariant *)

LEMMA InitInv == Init => IInv
<1> SUFFICES ASSUME Init PROVE IInv
  OBVIOUS
<1>1. New \in Request
  BY DEF New, Request
<1>2. \A r \in Requests : req[r] = New
  BY DEF Init
<1>3. TypeOK
  BY <1>1, ConstantsAssumption DEF Init, TypeOK
<1>4. AdminOK
  BY <1>2, ConstantsAssumption DEF Init, AdminOK, New
<1>5. SeenOK
  BY <1>2 DEF SeenOK, InProgress, New, Requests
<1>6. AnswerFitsPrivacy
  BY <1>2 DEF AnswerFitsPrivacy, New, Requests
<1>7. QueuedOK
  BY <1>2 DEF QueuedOK, New, Requests
<1> QED
  BY <1>3, <1>4, <1>5, <1>6, <1>7 DEF IInv

LEMMA TypeStep == TypeOK /\ AdminOK /\ [Next]_vars => TypeOK'
<1> SUFFICES ASSUME TypeOK, AdminOK, [Next]_vars PROVE TypeOK'
  OBVIOUS
<1>1. req' \in [Requests -> Request]
  BY StepCases DEF Begins, Ends, Goes, Shows, Changes, Around, TypeOK
<1> DEFINE Others == /\ post' \in [Iris -> Privacy \cup {None}]
                     /\ admin' \in Accounts
                     /\ upload' \subseteq Files
                     /\ queue' \subseteq Keys
                     /\ changes' \in 0..MaxAdminChanges
                     /\ wasAdmin' \subseteq Requests
                     /\ seen' \in [Readers -> SUBSET (Iris \X Privacy)]
                     /\ queued' \in [Deletes -> SUBSET Keys]
<1>2. ASSUME UNCHANGED <<post, admin, upload, queue, changes, wasAdmin, seen, queued>>
      PROVE  Others
  BY <1>2 DEF TypeOK
<1>3. ASSUME NEW r \in Requests, NEW a \in Accounts, Starts(r, a),
             UNCHANGED <<post, admin, upload, queue, changes, queued>>
      PROVE  Others
  BY <1>3 DEF TypeOK, Starts, Rows
<1>4. ASSUME NEW r \in Requests, NEW a \in Accounts, ReadYears(r, a) \/ StartList(r, a) PROVE Others
  BY <1>3, <1>4 DEF ReadYears, StartList
<1>5. ASSUME NEW r \in Requests, NEW a \in Accounts, NEW p \in Iris,
             ReadPost(r, a, p) \/ MayCreate(r, a, p)
      PROVE  Others
  BY <1>3, <1>5 DEF ReadPost, MayCreate
<1>6. ASSUME NEW r \in Requests, \E page \in SUBSET Rows : ReadPosts(r, page) PROVE Others
  BY <1>2, <1>6 DEF ReadPosts
<1>7. ASSUME NEW r \in Requests, ReadAdmin(r) \/ MayDelete(r) \/ AnswerRead(r) \/ Lose(r)
      PROVE  Others
  BY <1>2, <1>7 DEF ReadAdmin, MayDelete, AnswerRead, Lose
<1>8. ASSUME NEW r \in Requests, DeletePost(r) PROVE Others
  BY <1>8 DEF DeletePost, TypeOK
<1>9. ASSUME NEW r \in Requests, NEW privacy \in Privacy, InsertPost(r, privacy) PROVE Others
  <2>1. CASE UNCHANGED <<post, seen>>
    BY <1>2, <1>9, <2>1 DEF InsertPost
  <2>2. CASE post[req[r].iri] = None
    <3>1. post' \in [Iris -> Privacy \cup {None}]
      BY <1>9, <2>2 DEF InsertPost, TypeOK
    <3>2. <<req[r].iri, privacy>> \in Iris \X Privacy
      BY <1>9 DEF AdminOK, InsertPost
    <3> QED
      BY <1>9, <2>2, <3>1, <3>2 DEF InsertPost, TypeOK
  <2> QED
    BY <1>9, <2>1, <2>2 DEF InsertPost
<1>10. ASSUME NEW r \in Requests, NEW f \in Files,
              ReadFile(r, f) \/ CheckFile(r, f) \/ QueueFileFails(r, f)
       PROVE  Others
  BY <1>2, <1>10 DEF ReadFile, CheckFile, QueueFileFails
<1>11. ASSUME NEW r \in Requests, NEW f \in Files, QueueFile(r, f) PROVE Others
  <2>1. <<"project", f>> \in Keys
    BY DEF Keys
  <2> QED
    BY <1>11, <2>1 DEF QueueFile, TypeOK
<1>12. ASSUME NEW a \in Accounts, ChangeAdmin(a) PROVE Others
  BY <1>12, ConstantsAssumption DEF ChangeAdmin, TypeOK
<1>13. ASSUME NEW f \in Files, Upload(f) \/ DeleteFile(f) \/ RunJob("project", f) PROVE Others
  BY <1>13 DEF Upload, DeleteFile, RunJob, TypeOK
<1>14. ASSUME UNCHANGED vars PROVE Others
  BY <1>2, <1>14 DEF vars
<1> HIDE DEF Others
<1>15. Others
  BY <1>4, <1>5, <1>6, <1>7, <1>8, <1>9, <1>10, <1>11, <1>12, <1>13, <1>14 DEF Next, Step
<1> QED
  BY <1>1, <1>15 DEF TypeOK, Others

LEMMA AdminStep == TypeOK /\ AdminOK /\ [Next]_vars => AdminOK'
<1> SUFFICES ASSUME TypeOK, AdminOK, [Next]_vars PROVE AdminOK'
  OBVIOUS
<1>1. ASSUME NEW r \in Requests, NEW a \in Accounts, Begins(r, a) PROVE AdminOK'
  BY <1>1, ConstantsAssumption DEF Begins, Changes, Starts, Fresh, AdminOK, InProgress, TypeOK
<1>2. ASSUME NEW r \in Requests, Ends(r) PROVE AdminOK'
  BY <1>2, ConstantsAssumption DEF Ends, Changes, Fresh, AdminOK, InProgress, TypeOK
<1>3. ASSUME NEW r \in Requests, Goes(r) PROVE AdminOK'
  BY <1>3 DEF Goes, Changes, AdminOK, InProgress
<1>4. ASSUME NEW r \in Requests, Shows(r) PROVE AdminOK'
  BY <1>4, ConstantsAssumption DEF Shows, Changes, Fresh, AdminOK, InProgress, TypeOK
<1>5. ASSUME Around PROVE AdminOK'
  BY <1>5, ConstantsAssumption DEF Around, ChangeAdmin, AdminOK, InProgress
<1> QED
  BY <1>1, <1>2, <1>3, <1>4, <1>5, StepCases

LEMMA SeenStep == TypeOK /\ AdminOK /\ SeenOK /\ [Next]_vars => SeenOK'
<1> SUFFICES ASSUME TypeOK, AdminOK, SeenOK, [Next]_vars PROVE SeenOK'
  OBVIOUS
<1>1. ASSUME NEW r \in Requests, NEW a \in Accounts, Begins(r, a) PROVE SeenOK'
  <2>1. Rows' = Rows
    BY <1>1 DEF Begins, Rows
  <2> QED
    BY <1>1, <2>1 DEF Begins, Changes, Starts, Fresh, SeenOK, InProgress, TypeOK, Requests
<1>2. ASSUME NEW r \in Requests, Ends(r) PROVE SeenOK'
  BY <1>2 DEF Ends, Changes, Fresh, SeenOK, InProgress, Requests
<1>3. ASSUME NEW r \in Requests, Goes(r) PROVE SeenOK'
  <2>1. Rows' = Rows
    BY <1>3 DEF Goes, Rows
  <2> QED
    BY <1>3, <2>1 DEF Goes, Changes, SeenOK, InProgress, Requests
<1>4. ASSUME NEW r \in Requests, Shows(r) PROVE SeenOK'
  <2>1. Rows' = Rows
    BY <1>4 DEF Shows, Rows
  <2> QED
    BY <1>4, <2>1 DEF Shows, Changes, Fresh, SeenOK, InProgress, Requests
<1>5. ASSUME Around PROVE SeenOK'
  BY <1>5 DEF Around, SeenOK, InProgress, Rows
<1> QED
  BY <1>1, <1>2, <1>3, <1>4, <1>5, StepCases

LEMMA ShownStep ==
  TypeOK /\ AdminOK /\ SeenOK /\ AnswerFitsPrivacy /\ [Next]_vars => AnswerFitsPrivacy'
<1> SUFFICES ASSUME TypeOK, AdminOK, SeenOK, AnswerFitsPrivacy, [Next]_vars PROVE AnswerFitsPrivacy'
  OBVIOUS
<1> DEFINE Justified(s, row) ==
      \E privacy \in Privacy : <<row[1], privacy>> \in seen[s] /\ row[2] \in MayShow[privacy]
<1>1. ASSUME NEW r \in Requests, NEW a \in Accounts, Begins(r, a) PROVE AnswerFitsPrivacy'
  BY <1>1 DEF Begins, Changes, Starts, AnswerFitsPrivacy, TypeOK, Requests
<1>2. ASSUME NEW r \in Requests, Ends(r) PROVE AnswerFitsPrivacy'
  <2>1. \A s \in Readers : seen[s] \subseteq seen'[s]
    BY <1>2 DEF Ends
  <2> QED
    BY <1>2, <2>1 DEF Ends, Changes, AnswerFitsPrivacy, Requests
<1>3. ASSUME NEW r \in Requests, Goes(r) PROVE AnswerFitsPrivacy'
  BY <1>3 DEF Goes, Changes, AnswerFitsPrivacy, Requests
<1>4. ASSUME NEW r \in Requests, Shows(r) PROVE AnswerFitsPrivacy'
  <2>1. ASSUME r \notin wasAdmin, NEW row \in Shown(r) PROVE Justified(r, row)
    <3>1. ~req[r].isAdmin
      BY <2>1 DEF AdminOK
    <3>2. req[r].rows \subseteq Iris \X Privacy /\ req[r].rows \subseteq seen[r]
      BY <1>4 DEF TypeOK, Request, SeenOK, Shows
    <3>3. PICK w \in req[r].rows : row = <<w[1], View(w[2], req[r].isAdmin)>>
      BY <2>1 DEF Shown
    <3>4. w[2] \in Privacy /\ <<w[1], w[2]>> \in seen[r]
      BY <3>2, <3>3
    <3>5. View(w[2], req[r].isAdmin) \in MayShow[w[2]]
      BY <3>1, <3>4 DEF View, MayShow, Views, Privacy
    <3> QED
      BY <3>3, <3>4, <3>5
  <2> QED
    BY <1>4, <2>1 DEF Shows, Changes, AnswerFitsPrivacy, Requests
<1>5. ASSUME Around PROVE AnswerFitsPrivacy'
  <2>1. wasAdmin \subseteq wasAdmin'
    BY <1>5 DEF Around, ChangeAdmin
  <2> QED
    BY <1>5, <2>1 DEF Around, AnswerFitsPrivacy
<1> QED
  BY <1>1, <1>2, <1>3, <1>4, <1>5, StepCases

LEMMA QueuedStep == TypeOK /\ AdminOK /\ QueuedOK /\ [Next]_vars => QueuedOK'
<1> SUFFICES ASSUME TypeOK, AdminOK, QueuedOK, [Next]_vars PROVE QueuedOK'
  OBVIOUS
<1>1. ASSUME NEW r \in Requests, NEW a \in Accounts, Begins(r, a) PROVE QueuedOK'
  BY <1>1 DEF Begins, Changes, Fresh, QueuedOK, Requests
<1>2. ASSUME NEW r \in Requests, Ends(r) PROVE QueuedOK'
  BY <1>2 DEF Ends, Changes, Fresh, QueuedOK, Requests
<1>3. ASSUME NEW r \in Requests, Goes(r) PROVE QueuedOK'
  BY <1>3 DEF Goes, Changes, QueuedOK, Requests
<1>4. ASSUME NEW r \in Requests, Shows(r) PROVE QueuedOK'
  BY <1>4 DEF Shows, Changes, Fresh, QueuedOK, Requests
<1>5. ASSUME Around PROVE QueuedOK'
  BY <1>5 DEF Around, QueuedOK
<1> QED
  BY <1>1, <1>2, <1>3, <1>4, <1>5, StepCases

-----------------------------------------------------------------------------
LEMMA Invariant == Spec => []IInv
<1>1. IInv /\ [Next]_vars => IInv'
  BY TypeStep, AdminStep, SeenStep, ShownStep, QueuedStep DEF IInv
<1> QED
  BY <1>1, InitInv, PTL DEF Spec

\* The model's type invariant: what the statements of a request have read fits what
\* the later ones expect.
THEOREM TypeCorrect == Spec => []TypeOK
<1>1. IInv => TypeOK
  BY DEF IInv
<1> QED
  BY <1>1, Invariant, PTL

\* GET of a post or of the list shows no more of a post than one of the privacies it
\* had during the request allows, unless the reader was the admin during it.
THEOREM AnswersFitPrivacy == Spec => []AnswerFitsPrivacy
<1>1. IInv => AnswerFitsPrivacy
  BY DEF IInv
<1> QED
  BY <1>1, Invariant, PTL

\* The steps that write posts or queue files.
LEMMA WritingSteps ==
  [Next]_vars /\ (post' # post \/ queued' # queued) =>
    \E r \in Requests :
      DeletePost(r) \/ (\E privacy \in Privacy : InsertPost(r, privacy))
                    \/ (\E f \in Files : QueueFile(r, f))
<1> SUFFICES ASSUME [Next]_vars, post' # post \/ queued' # queued
             PROVE  \E r \in Requests :
                      DeletePost(r) \/ (\E privacy \in Privacy : InsertPost(r, privacy))
                                    \/ (\E f \in Files : QueueFile(r, f))
  OBVIOUS
<1>1. ASSUME NEW r \in Requests, NEW a \in Accounts,
             \/ ReadYears(r, a) \/ StartList(r, a)
             \/ \E p \in Iris : ReadPost(r, a, p) \/ MayCreate(r, a, p)
      PROVE  FALSE
  BY <1>1 DEF ReadYears, StartList, ReadPost, MayCreate
<1>2. ASSUME NEW r \in Requests,
             \/ \E page \in SUBSET Rows : ReadPosts(r, page)
             \/ ReadAdmin(r) \/ MayDelete(r) \/ AnswerRead(r) \/ Lose(r)
             \/ \E f \in Files : ReadFile(r, f) \/ CheckFile(r, f) \/ QueueFileFails(r, f)
      PROVE  FALSE
  BY <1>2 DEF ReadPosts, ReadAdmin, MayDelete, AnswerRead, Lose, ReadFile, CheckFile, QueueFileFails
<1>3. ASSUME \/ \E a \in Accounts : ChangeAdmin(a)
             \/ \E f \in Files : Upload(f) \/ DeleteFile(f) \/ RunJob("project", f)
             \/ UNCHANGED vars
      PROVE  FALSE
  BY <1>3 DEF ChangeAdmin, Upload, DeleteFile, RunJob, vars
<1> QED
  BY <1>1, <1>2, <1>3 DEF Next, Step

\* Only requests of somebody who was the admin during them insert or delete a post or
\* queue its files: the check is never older than the request.
THEOREM WritesByAdmins == Spec => OnlyAdminsWrite
<1>1. ASSUME IInv, [Next]_vars, post' # post \/ queued' # queued
      PROVE  \E r \in wasAdmin : req'[r] # req[r]
  <2>1. ASSUME NEW r \in Requests, DeletePost(r)
        PROVE  r \in wasAdmin /\ req'[r] # req[r]
    BY <1>1, <2>1 DEF IInv, TypeOK, AdminOK, DeletePost, Answers, Becomes, New
  <2>2. ASSUME NEW r \in Requests, NEW privacy \in Privacy, InsertPost(r, privacy)
        PROVE  r \in wasAdmin /\ req'[r] # req[r]
    BY <1>1, <2>2 DEF IInv, TypeOK, AdminOK, InsertPost, Answers, Becomes, New
  <2>3. ASSUME NEW r \in Requests, NEW f \in Files, QueueFile(r, f)
        PROVE  r \in wasAdmin /\ req'[r] # req[r]
    <3>1. r \in Requests /\ f \in req[r].toQueue /\ f \notin req'[r].toQueue
      BY <1>1, <2>3 DEF IInv, TypeOK, QueueFile, Becomes
    <3> QED
      BY <1>1, <3>1 DEF IInv, AdminOK
  <2> QED
    BY <1>1, <2>1, <2>2, <2>3, WritingSteps
<1> QED
  BY <1>1, Invariant, PTL DEF Spec, OnlyAdminsWrite

\* The row of a post goes only with the answer of success of the deletion that
\* queued its files before, each under the key its name has in the project's folder,
\* whatever failed, overlapped or changed meanwhile.
THEOREM FilesAreQueuedFirst == Spec => FilesQueuedFirst
<1>1. IInv /\ [Next]_vars
        => [\A p \in Iris : post[p] # None /\ post'[p] = None =>
              \E r \in Deletes :
                /\ req[r].iri = p /\ {"project"} \X PostFiles[p] \subseteq queued[r]
                /\ req[r].pc # "answered" /\ req'[r].status = "ok"]_vars
  <2> SUFFICES ASSUME IInv, [Next]_vars, NEW p \in Iris, post[p] # None, post'[p] = None
               PROVE  \E r \in Deletes :
                        /\ req[r].iri = p /\ {"project"} \X PostFiles[p] \subseteq queued[r]
                        /\ req[r].pc # "answered" /\ req'[r].status = "ok"
    OBVIOUS
  <2>1. ASSUME NEW r \in Requests, DeletePost(r)
        PROVE  /\ r \in Deletes /\ req[r].iri = p /\ {"project"} \X PostFiles[p] \subseteq queued[r]
               /\ req[r].pc # "answered" /\ req'[r].status = "ok"
    <3>1. r \in Deletes /\ req[r].iri = p /\ {"project"} \X PostFiles[p] \subseteq queued[r]
      BY <2>1 DEF IInv, TypeOK, QueuedOK, DeletePost
    <3>2. req[r].pc # "answered" /\ req'[r].status = "ok"
      BY <2>1 DEF IInv, TypeOK, Request, New, DeletePost, Answers, Becomes
    <3> QED
      BY <3>1, <3>2
  <2>2. ASSUME NEW r \in Requests, NEW privacy \in Privacy, InsertPost(r, privacy)
        PROVE  FALSE
    BY <2>2, ConstantsAssumption DEF IInv, TypeOK, InsertPost
  <2>3. ASSUME NEW r \in Requests, NEW f \in Files, QueueFile(r, f)
        PROVE  FALSE
    BY <2>3 DEF QueueFile
  <2> QED
    BY <2>1, <2>2, <2>3, WritingSteps
<1> QED
  BY <1>1, Invariant, PTL DEF Spec, FilesQueuedFirst
=============================================================================
