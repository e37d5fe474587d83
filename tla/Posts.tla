--------------------------------- MODULE Posts ---------------------------------
(***************************************************************************)
(* Posts of a project (routes/posts.ts): GET one or all of them, POST,      *)
(* DELETE; every statement an action. A post is identified by the hash of   *)
(* its contents, which fixes its files. What a reader is shown depends on    *)
(* the post's privacy and on whether the reader is the project's admin,      *)
(* which GraphQL may change between two statements. The files themselves     *)
(* have upload rows of their own (module Files), which only the project's    *)
(* files API and the deletion queue add and remove.                          *)
(***************************************************************************)
EXTENDS Naturals

CONSTANTS
  Accounts,         \* accounts that may be the project's admin or send a request
  Iris,             \* post IRIs
  Files,            \* files, with a name and a content each
  PostFiles,        \* the files in the contents of each post
  Folder,           \* the folder a file is stored in: "project" or "posts"
  Readers, Creates, Deletes,   \* GET of a post or of the list, POST, DELETE
  MaxAdminChanges,  \* bound: changes of the project's admin
  None              \* no post

Requests == Readers \cup Creates \cup Deletes
Privacy == {"private", "private_files", "private_locations", "public"}

ASSUME ConstantsAssumption ==
  /\ PostFiles \in [Iris -> SUBSET Files]
  /\ Folder \in [Files -> {"project", "posts"}]
  /\ Readers \cap (Creates \cup Deletes) = {} /\ Creates \cap Deletes = {}
  /\ MaxAdminChanges \in Nat /\ None \notin Accounts \cup Iris \cup Privacy

VARIABLES
  post,     \* the privacy of each post that has a row
  admin,    \* the project's admin_account_id
  upload,   \* files that have an upload row
  queue,    \* keys in the S3 deletion queue
  req,      \* the requests
  changes,  \* changes of the admin so far
  wasAdmin, \* history: requests whose account was the admin since they started
  seen,     \* history: rows each request could have read since it started
  queued    \* history: the keys each request queued for deletion

vars == <<post, admin, upload, queue, req, changes, wasAdmin, seen, queued>>

-----------------------------------------------------------------------------
Keys == {"project", "posts"} \X Files
Views == {"nothing", "iris", "noLocations", "all"}

\* A request: who sent it, its post, and what its statements have read.
Request == [pc : {"new", "posts", "admin", "files", "insert", "delete", "answered", "lost"},
            account : Accounts \cup {None}, iri : Iris \cup {None},
            rows : SUBSET (Iris \X Privacy), isAdmin : BOOLEAN,
            files : SUBSET Files, toQueue : SUBSET Files,
            status : {"none", "ok", "notFound", "unauthorized", "missingFile", "error"},
            shown : SUBSET (Iris \X Views)]
New == [pc |-> "new", account |-> None, iri |-> None, rows |-> {}, isAdmin |-> FALSE,
        files |-> {}, toQueue |-> {}, status |-> "none", shown |-> {}]

Init ==
  /\ post \in [Iris -> Privacy \cup {None}]
  /\ admin \in Accounts
  /\ upload \in SUBSET Files
  /\ queue = {}
  /\ req = [r \in Requests |-> New]
  /\ changes = 0
  /\ wasAdmin = {}
  /\ seen = [r \in Readers |-> {}]
  /\ queued = [r \in Deletes |-> {}]

-----------------------------------------------------------------------------
Rows == {row \in Iris \X Privacy : post[row[1]] = row[2]}
InProgress(r) == req[r].pc \notin {"new", "lost"}

\* The first statement of a request of account a: the histories start.
Starts(r, a) ==
  /\ req[r].pc = "new"
  /\ wasAdmin' = IF a = admin THEN wasAdmin \cup {r} ELSE wasAdmin
  /\ seen' = IF r \in Readers THEN [seen EXCEPT ![r] = Rows] ELSE seen

Becomes(r, request) == req' = [req EXCEPT ![r] = request]
Answers(r, status) ==
  Becomes(r, [New EXCEPT !.pc = "answered", !.iri = req[r].iri, !.status = status])

\* Mutant: whatever the row.
ReadPostUnchecked(r, a, p) ==
  /\ r \in Readers \cup Deletes
  /\ Starts(r, a)
  /\ Becomes(r, [New EXCEPT !.pc = "admin", !.account = a, !.iri = p, !.rows = {<<p, post[p]>>}])
  /\ UNCHANGED <<post, admin, upload, queue, changes, queued>>

\* SELECT * FROM post WHERE iri: 404 without a row.
ReadPost(r, a, p) ==
  /\ r \in Readers \cup Deletes
  /\ Starts(r, a)
  /\ Becomes(r, IF post[p] = None
                THEN [New EXCEPT !.pc = "answered", !.status = "notFound"]
                ELSE [New EXCEPT !.pc = "admin", !.account = a, !.iri = p, !.rows = {<<p, post[p]>>}])
  /\ UNCHANGED <<post, admin, upload, queue, changes, queued>>

\* The list without a year: the years that have posts, or 404.
ReadYears(r, a) ==
  /\ r \in Readers
  /\ Starts(r, a)
  /\ Becomes(r, IF Rows = {} THEN [New EXCEPT !.pc = "answered", !.status = "notFound"]
                            ELSE [New EXCEPT !.pc = "posts", !.account = a])
  /\ UNCHANGED <<post, admin, upload, queue, changes, queued>>

\* The list with a year starts at the posts; their count is a statement of its own
\* whose result is only passed on.
StartList(r, a) ==
  /\ r \in Readers
  /\ Starts(r, a)
  /\ Becomes(r, [New EXCEPT !.pc = "posts", !.account = a])
  /\ UNCHANGED <<post, admin, upload, queue, changes, queued>>

\* A page: any of the posts.
ReadPosts(r, page) ==
  /\ req[r].pc = "posts"
  /\ page \subseteq Rows
  /\ Becomes(r, [req[r] EXCEPT !.pc = "admin", !.rows = page])
  /\ UNCHANGED <<post, admin, upload, queue, changes, wasAdmin, seen, queued>>

-----------------------------------------------------------------------------
(* GET: what a reader is shown *)

\* Mutant: the locations are kept.
ViewWithLocations(privacy, isAdmin) ==
  CASE isAdmin \/ privacy \in {"public", "private_locations"} -> "all"
    [] privacy = "private_files" -> "iris"
    [] OTHER -> "nothing"

\* getPostData
View(privacy, isAdmin) ==
  CASE isAdmin \/ privacy = "public" -> "all"
    [] privacy = "private_locations" -> "noLocations"
    [] privacy = "private_files" -> "iris"
    [] OTHER -> "nothing"

\* The files whose URLs are part of an answer.
FilesToRead(rows, isAdmin) ==
  UNION {PostFiles[row[1]] : row \in {w \in rows : View(w[2], isAdmin) \in {"all", "noLocations"}}}

\* getIsProjectAdmin
ReadAdmin(r) ==
  /\ r \in Readers /\ req[r].pc = "admin"
  /\ LET isAdmin == admin = req[r].account
     IN Becomes(r, [req[r] EXCEPT !.pc = "files", !.isAdmin = isAdmin,
                                  !.files = FilesToRead(req[r].rows, isAdmin)])
  /\ UNCHANGED <<post, admin, upload, queue, changes, wasAdmin, seen, queued>>

\* One file without an upload row fails the request, and so all posts of a list.
ReadFile(r, f) ==
  /\ r \in Readers /\ req[r].pc = "files" /\ f \in req[r].files
  /\ IF f \in upload THEN Becomes(r, [req[r] EXCEPT !.files = @ \ {f}])
                     ELSE Answers(r, "missingFile")
  /\ UNCHANGED <<post, admin, upload, queue, changes, wasAdmin, seen, queued>>

AnswerRead(r) ==
  LET shown == {<<row[1], View(row[2], req[r].isAdmin)>> : row \in req[r].rows}
  IN /\ r \in Readers /\ req[r].pc = "files" /\ req[r].files = {}
     /\ IF <<req[r].iri, "nothing">> \in shown \* a GET of the post
        THEN Answers(r, "unauthorized")
        ELSE Becomes(r, [New EXCEPT !.pc = "answered", !.status = "ok", !.shown = shown])
     /\ UNCHANGED <<post, admin, upload, queue, changes, wasAdmin, seen, queued>>

-----------------------------------------------------------------------------
(* POST *)

\* Mutant: anyone may.
MayCreateAny(r, a, p) ==
  /\ r \in Creates
  /\ Starts(r, a)
  /\ Becomes(r, [New EXCEPT !.pc = "insert", !.account = a, !.iri = p])
  /\ UNCHANGED <<post, admin, upload, queue, changes, queued>>

MayCreate(r, a, p) ==
  /\ r \in Creates
  /\ Starts(r, a)
  /\ Becomes(r, IF a = admin THEN [New EXCEPT !.pc = "insert", !.account = a, !.iri = p]
                             ELSE [New EXCEPT !.pc = "answered", !.status = "unauthorized"])
  /\ UNCHANGED <<post, admin, upload, queue, changes, queued>>

\* post_pkey: the same contents are the same post, whoever posts them.
InsertPost(r, privacy) ==
  LET p == req[r].iri
  IN /\ req[r].pc = "insert"
     /\ IF post[p] = None
        THEN /\ post' = [post EXCEPT ![p] = privacy]
             /\ Answers(r, "ok")
             /\ seen' = [s \in Readers |-> IF InProgress(s) THEN seen[s] \cup {<<p, privacy>>}
                                                            ELSE seen[s]]
        ELSE /\ Answers(r, "error")
             /\ UNCHANGED <<post, seen>>
     /\ UNCHANGED <<admin, upload, queue, changes, wasAdmin, queued>>

-----------------------------------------------------------------------------
(* DELETE *)

MayDelete(r) ==
  /\ r \in Deletes /\ req[r].pc = "admin"
  /\ IF admin = req[r].account
     THEN Becomes(r, [req[r] EXCEPT !.pc = "files", !.files = PostFiles[req[r].iri]])
     ELSE Answers(r, "unauthorized")
  /\ UNCHANGED <<post, admin, upload, queue, changes, wasAdmin, seen, queued>>

\* deleteFile for all files at once: the statements of one connection run in the
\* order they were made, first the check of every file. A check that fails answers
\* the request; the rest of the statements run all the same.
CheckFile(r, f) ==
  /\ r \in Deletes /\ req[r].pc \in {"files", "answered"} /\ f \in req[r].files
  /\ LET checked == [req[r] EXCEPT !.files = @ \ {f}]
     IN Becomes(r, IF admin = req[r].account THEN [checked EXCEPT !.toQueue = @ \cup {f}]
                   ELSE IF req[r].pc = "answered" THEN checked
                   ELSE [checked EXCEPT !.pc = "answered", !.status = "unauthorized"])
  /\ UNCHANGED <<post, admin, upload, queue, changes, wasAdmin, seen, queued>>

\* The key is made of the project and the file's name.
QueueFile(r, f) ==
  /\ r \in Deletes /\ req[r].files = {} /\ f \in req[r].toQueue
  /\ Becomes(r, [req[r] EXCEPT !.toQueue = @ \ {f}])
  /\ queue' = queue \cup {<<"project", f>>}
  /\ queued' = [queued EXCEPT ![r] = @ \cup {<<"project", f>>}]
  /\ UNCHANGED <<post, admin, upload, changes, wasAdmin, seen>>

QueueFileFails(r, f) ==
  /\ r \in Deletes /\ req[r].files = {} /\ f \in req[r].toQueue
  /\ Becomes(r, [req[r] EXCEPT !.toQueue = @ \ {f}, !.pc = "answered",
                               !.status = IF req[r].pc = "files" THEN "error" ELSE @])
  /\ UNCHANGED <<post, admin, upload, queue, changes, wasAdmin, seen, queued>>

\* Mutant: Promise.all is not awaited.
DeletePostUnawaited(r) ==
  /\ r \in Deletes /\ req[r].pc = "files"
  /\ post' = [post EXCEPT ![req[r].iri] = None]
  /\ Answers(r, "ok")
  /\ UNCHANGED <<admin, upload, queue, changes, wasAdmin, seen, queued>>

DeletePost(r) ==
  /\ r \in Deletes /\ req[r].pc = "files" /\ req[r].files = {} /\ req[r].toQueue = {}
  /\ post' = [post EXCEPT ![req[r].iri] = None]
  /\ Answers(r, "ok")
  /\ UNCHANGED <<admin, upload, queue, changes, wasAdmin, seen, queued>>

-----------------------------------------------------------------------------
(* Around the posts *)

\* A statement fails, or the server stops: the rest of the request does not happen.
Lose(r) ==
  /\ InProgress(r)
  /\ \/ req[r].pc # "answered"
     \/ req[r].files \cup req[r].toQueue # {}
  /\ Becomes(r, [New EXCEPT !.pc = "lost"])
  /\ UNCHANGED <<post, admin, upload, queue, changes, wasAdmin, seen, queued>>

\* GraphQL: updateProject.
ChangeAdmin(a) ==
  /\ changes < MaxAdminChanges
  /\ admin' = a
  /\ changes' = changes + 1
  /\ wasAdmin' = wasAdmin \cup {r \in Requests : InProgress(r) /\ req[r].account = a}
  /\ UNCHANGED <<post, upload, queue, req, seen, queued>>

\* POST /files inserts an upload row; a delete_s3_file job deletes the row of its url.
Upload(f) ==
  /\ f \notin upload
  /\ upload' = upload \cup {f}
  /\ UNCHANGED <<post, admin, queue, req, changes, wasAdmin, seen, queued>>

RunJob(folder, f) ==
  /\ <<folder, f>> \in queue
  /\ queue' = queue \ {<<folder, f>>}
  /\ upload' = IF Folder[f] = folder THEN upload \ {f} ELSE upload
  /\ UNCHANGED <<post, admin, req, changes, wasAdmin, seen, queued>>

\* DELETE /files by the admin, and in the end its job (module Files): any file of the
\* project, those of its posts too, by their name in its folder.
DeleteFile(f) ==
  /\ f \in upload
  /\ upload' = upload \ {f}
  /\ UNCHANGED <<post, admin, queue, req, changes, wasAdmin, seen, queued>>

-----------------------------------------------------------------------------
Step(r) ==
  \/ \E a \in Accounts : ReadYears(r, a) \/ StartList(r, a)
                         \/ \E p \in Iris : ReadPost(r, a, p) \/ MayCreate(r, a, p)
  \/ \E page \in SUBSET Rows : ReadPosts(r, page)
  \/ ReadAdmin(r) \/ MayDelete(r) \/ AnswerRead(r) \/ DeletePost(r) \/ Lose(r)
  \/ \E privacy \in Privacy : InsertPost(r, privacy)
  \/ \E f \in Files : ReadFile(r, f) \/ CheckFile(r, f) \/ QueueFile(r, f) \/ QueueFileFails(r, f)

Next ==
  \/ \E r \in Requests : Step(r)
  \/ \E a \in Accounts : ChangeAdmin(a)
  \/ \E f \in Files : Upload(f) \/ DeleteFile(f) \/ RunJob("project", f)

Spec == Init /\ [][Next]_vars

-----------------------------------------------------------------------------
TypeOK ==
  /\ post \in [Iris -> Privacy \cup {None}]
  /\ admin \in Accounts
  /\ upload \subseteq Files
  /\ queue \subseteq Keys
  /\ req \in [Requests -> Request]
  /\ changes \in 0..MaxAdminChanges
  /\ wasAdmin \subseteq Requests
  /\ seen \in [Readers -> SUBSET (Iris \X Privacy)]
  /\ queued \in [Deletes -> SUBSET Keys]

\* The comment of post_privacy: the views it leaves to anyone but the admin.
MayShow == [private |-> {"nothing"}, private_files |-> {"nothing", "iris"},
            private_locations |-> {"nothing", "iris", "noLocations"}, public |-> Views]

\* Whatever happens between its statements, a read shows a post as one of the
\* privacies the post had during the read allows, unless the reader was the admin
\* at some time during it.
AnswerFitsPrivacy ==
  \A r \in Readers \ wasAdmin : \A row \in req[r].shown :
    \E privacy \in Privacy :
      <<row[1], privacy>> \in seen[r] /\ row[2] \in MayShow[privacy]

\* A post comes or goes, and a file is queued for deletion, only by a request
\* whose account was the project's admin at some time during it.
OnlyAdminsWrite ==
  [][post' # post \/ queued' # queued =>
       \E r \in wasAdmin : req'[r] # req[r]]_vars

\* "Add files to the S3 deletion queue table", then "Delete post" (posts.ts): the row
\* of a post goes with the answer of success of a deletion that queued each of its
\* files itself, under the key their name has in the project's folder; never with
\* one that failed, was lost or was refused halfway.
FilesQueuedFirst ==
  [][\A p \in Iris : post[p] # None /\ post'[p] = None =>
       \E r \in Deletes :
         /\ req[r].iri = p /\ {"project"} \X PostFiles[p] \subseteq queued[r]
         /\ req[r].pc # "answered" /\ req'[r].status = "ok"]_vars

\* "Add files to the S3 deletion queue table" (posts.ts): the keys queued are those
\* the post's files are stored under.
PostFilesQueued ==
  \A r \in Deletes :
    req[r].status = "ok" => {<<Folder[f], f>> : f \in PostFiles[req[r].iri]} \subseteq queued[r]
=============================================================================
