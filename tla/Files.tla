--------------------------------- MODULE Files ---------------------------------
(***************************************************************************)
(* Files: POST /files stores an object on S3 and, for a project, a row of   *)
(* upload; DELETE /files adds a row to s3_deletion, whose trigger adds a job *)
(* to the worker's queue in the same statement (routes/files.ts). The job   *)
(* deletes the object, its row in s3_deletion and the upload row one after   *)
(* the other, and is run again from the start when it fails                 *)
(* (worker/tasks/delete_s3_file.ts). S3 and PostgreSQL share no transaction. *)
(***************************************************************************)
EXTENDS Naturals

CONSTANTS
  ProjectKeys,  \* keys in project folders: their uploads are tracked (names have an extension)
  OtherKeys,    \* keys in profile folders: no upload row
  Uploads,      \* POST /files requests; also the contents they store
  Deletions,    \* DELETE /files requests; also the rows and jobs they create
  MaxAttempts,  \* runs of a job before the worker gives it up
  MaxCrashes,   \* bound: crashes of the server
  None          \* no key, no object

Keys == ProjectKeys \cup OtherKeys

ASSUME ConstantsAssumption ==
  /\ ProjectKeys \cap OtherKeys = {} /\ Uploads \cap Deletions = {}
  /\ None \notin Keys \cup Uploads
  /\ MaxAttempts \in Nat \ {0} /\ MaxCrashes \in Nat

VARIABLES
  object,      \* S3: the upload whose content is stored under each key
  upload,      \* the upload rows, one per url
  s3Deletion,  \* the rows of s3_deletion
  job,         \* the delete_s3_file jobs
  req,         \* the requests
  crashes,     \* crashes so far
  exposed,     \* history: uploads that overlap or precede a deletion of their key
  restored     \* history: deletions accepted before something was stored under their key

vars == <<object, upload, s3Deletion, job, req, crashes, exposed, restored>>

-----------------------------------------------------------------------------
Request == [pc : {"new", "put", "insert", "queue", "ok", "failed"}, key : Keys \cup {None}]
Job == [pc : {"none", "queued", "object", "row", "upload", "done"}, attempts : 0..MaxAttempts]

Init ==
  /\ object = [k \in Keys |-> None]
  /\ upload = [k \in ProjectKeys |-> None]
  /\ s3Deletion = {}
  /\ job = [d \in Deletions |-> [pc |-> "none", attempts |-> 0]]
  /\ req = [r \in Uploads \cup Deletions |-> [pc |-> "new", key |-> None]]
  /\ crashes = 0
  /\ exposed = {}
  /\ restored = {}

Goto(r, pc) == req' = [req EXCEPT ![r].pc = pc]

\* Answered with an error, or not at all.
Failed == [pc |-> "failed", key |-> None]
Fail(r) == req' = [req EXCEPT ![r] = Failed]
Running(d) == job[d].pc \in {"object", "row", "upload"}

\* A job that failed for the last time stays in the queue, but is never run again.
Spent(d) == job[d].pc = "queued" /\ job[d].attempts = MaxAttempts
Unfinished(d) == Running(d) \/ (job[d].pc = "queued" /\ ~Spent(d))

\* A request that is let in: its account has the profile of the path, or is the admin
\* of its project. (The patterns are not anchored, and a path that has neither is
\* uploaded without a check; who sends a request is no part of its state.)
Start(r, k) ==
  /\ req[r].pc = "new"
  /\ req' = [req EXCEPT ![r] = [pc |-> IF r \in Uploads THEN "put" ELSE "queue", key |-> k]]
  /\ exposed' = IF r \in Uploads /\ \E d \in Deletions : Unfinished(d) /\ req[d].key = k
                THEN exposed \cup {r} ELSE exposed
  /\ UNCHANGED <<object, upload, s3Deletion, job, crashes, restored>>

Refuse(r) ==
  /\ req[r].pc = "new"
  /\ Fail(r)
  /\ UNCHANGED <<object, upload, s3Deletion, job, crashes, exposed, restored>>

-----------------------------------------------------------------------------
(* POST /files *)

\* Accepted deletions of a key under which something is stored again.
Restoring(k) == {d \in Deletions : job[d].pc # "none" /\ req[d].key = k}

\* The object replaces the one stored under the same name.
Put(u) ==
  LET k == req[u].key
  IN /\ req[u].pc = "put"
     /\ object' = [object EXCEPT ![k] = u]
     /\ Goto(u, IF k \in ProjectKeys THEN "insert" ELSE "ok")
     /\ restored' = restored \cup Restoring(k)
     /\ UNCHANGED <<upload, s3Deletion, job, crashes, exposed>>

\* Mutant: the status of the answer is not looked at.
PutUnchecked(u) ==
  LET k == req[u].key
  IN /\ req[u].pc = "put"
     /\ Goto(u, IF k \in ProjectKeys THEN "insert" ELSE "ok")
     /\ UNCHANGED <<object, upload, s3Deletion, job, crashes, exposed, restored>>

\* The status is not 2xx, or the answer of S3 does not arrive.
PutFails(u) ==
  /\ req[u].pc = "put"
  /\ \/ UNCHANGED <<object, restored>>
     \/ /\ object' = [object EXCEPT ![req[u].key] = u]
        /\ restored' = restored \cup Restoring(req[u].key)
  /\ Fail(u)
  /\ UNCHANGED <<upload, s3Deletion, job, crashes, exposed>>

\* Mutant: insert ... on conflict do update.
InsertOrReplace(u) ==
  /\ req[u].pc = "insert"
  /\ upload' = [upload EXCEPT ![req[u].key] = u]
  /\ Goto(u, "ok")
  /\ restored' = restored \cup Restoring(req[u].key)
  /\ UNCHANGED <<object, s3Deletion, job, crashes, exposed>>

\* upload_url_key: one row per url.
Insert(u) ==
  /\ req[u].pc = "insert"
  /\ upload[req[u].key] = None
  /\ upload' = [upload EXCEPT ![req[u].key] = u]
  /\ Goto(u, "ok")
  /\ restored' = restored \cup Restoring(req[u].key)
  /\ UNCHANGED <<object, s3Deletion, job, crashes, exposed>>

\* The url has a row, or the statement fails: the object has been stored.
InsertFails(u) ==
  /\ req[u].pc = "insert"
  /\ Fail(u)
  /\ UNCHANGED <<object, upload, s3Deletion, job, crashes, exposed, restored>>

-----------------------------------------------------------------------------
(* DELETE /files and the trigger of s3_deletion *)

QueueDeletion(d) ==
  /\ req[d].pc = "queue"
  /\ s3Deletion' = s3Deletion \cup {d}
  /\ job' = [job EXCEPT ![d].pc = "queued"]
  /\ Goto(d, "ok")
  /\ exposed' = exposed \cup {u \in Uploads : req[u].key = req[d].key}
  /\ UNCHANGED <<object, upload, crashes, restored>>

QueueFails(d) ==
  /\ req[d].pc = "queue"
  /\ Fail(d)
  /\ UNCHANGED <<object, upload, s3Deletion, job, crashes, exposed, restored>>

-----------------------------------------------------------------------------
(* The job: graphile-worker counts an attempt when it starts one *)

\* Mutants: attempts without end; attempts that are not counted; and the last
\* attempt is never made, nor given up.
RunAlways(d) ==
  /\ job[d].pc = "queued"
  /\ job' = [job EXCEPT ![d] = [pc |-> "object", attempts |-> @.attempts + 1]]
  /\ UNCHANGED <<object, upload, s3Deletion, req, crashes, exposed, restored>>
RunUncounted(d) ==
  /\ job[d].pc = "queued" /\ ~Spent(d)
  /\ job' = [job EXCEPT ![d].pc = "object"]
  /\ UNCHANGED <<object, upload, s3Deletion, req, crashes, exposed, restored>>
RunOnceLess(d) ==
  /\ job[d].pc = "queued" /\ job[d].attempts + 1 < MaxAttempts
  /\ job' = [job EXCEPT ![d] = [pc |-> "object", attempts |-> @.attempts + 1]]
  /\ UNCHANGED <<object, upload, s3Deletion, req, crashes, exposed, restored>>

Run(d) ==
  /\ job[d].pc = "queued" /\ ~Spent(d)
  /\ job' = [job EXCEPT ![d] = [pc |-> "object", attempts |-> @.attempts + 1]]
  /\ UNCHANGED <<object, upload, s3Deletion, req, crashes, exposed, restored>>

\* Mutant: an answer that is not 2xx is no error.
DeleteObjectMaybe(d) ==
  /\ job[d].pc = "object"
  /\ \/ object' = [object EXCEPT ![req[d].key] = None]
     \/ UNCHANGED object
  /\ job' = [job EXCEPT ![d].pc = "row"]
  /\ UNCHANGED <<upload, s3Deletion, req, crashes, exposed, restored>>

\* Deleting an object that does not exist is no error.
DeleteObject(d) ==
  /\ job[d].pc = "object"
  /\ object' = [object EXCEPT ![req[d].key] = None]
  /\ job' = [job EXCEPT ![d].pc = "row"]
  /\ UNCHANGED <<upload, s3Deletion, req, crashes, exposed, restored>>

DeleteRow(d) ==
  /\ job[d].pc = "row"
  /\ s3Deletion' = s3Deletion \ {d}
  /\ job' = [job EXCEPT ![d].pc = "upload"]
  /\ UNCHANGED <<object, upload, req, crashes, exposed, restored>>

DeleteUpload(d) ==
  LET k == req[d].key
  IN /\ job[d].pc = "upload"
     /\ upload' = IF k \in ProjectKeys THEN [upload EXCEPT ![k] = None] ELSE upload
     /\ job' = [job EXCEPT ![d].pc = "done"]
     /\ UNCHANGED <<object, s3Deletion, req, crashes, exposed, restored>>

\* S3 or a statement fails: the job is queued again, whatever it has done.
JobFails(d) ==
  /\ Running(d)
  /\ job' = [job EXCEPT ![d].pc = "queued"]
  /\ UNCHANGED <<object, upload, s3Deletion, req, crashes, exposed, restored>>

\* The server stops: its requests are lost, and its jobs run again some day.
Crash ==
  /\ crashes < MaxCrashes
  /\ crashes' = crashes + 1
  /\ req' = [r \in DOMAIN req |->
               IF req[r].pc \in {"put", "insert", "queue"} THEN Failed ELSE req[r]]
  /\ job' = [d \in Deletions |-> IF Running(d) THEN [job[d] EXCEPT !.pc = "queued"] ELSE job[d]]
  /\ UNCHANGED <<object, upload, s3Deletion, exposed, restored>>

-----------------------------------------------------------------------------
JobStep(d) == Run(d) \/ DeleteObject(d) \/ DeleteRow(d) \/ DeleteUpload(d) \/ JobFails(d)

Next ==
  \/ \E r \in Uploads \cup Deletions : (\E k \in Keys : Start(r, k)) \/ Refuse(r)
  \/ \E u \in Uploads : Put(u) \/ PutFails(u) \/ Insert(u) \/ InsertFails(u)
  \/ \E d \in Deletions : QueueDeletion(d) \/ QueueFails(d) \/ JobStep(d)
  \/ Crash

\* The worker polls for jobs and goes on with those it runs.
Fairness == \A d \in Deletions : WF_job(JobStep(d))

Spec == Init /\ [][Next]_vars
FairSpec == Spec /\ Fairness

-----------------------------------------------------------------------------
TypeOK ==
  /\ object \in [Keys -> Uploads \cup {None}]
  /\ upload \in [ProjectKeys -> Uploads \cup {None}]
  /\ s3Deletion \subseteq Deletions
  /\ job \in [Deletions -> Job]
  /\ req \in [Uploads \cup Deletions -> Request]
  /\ crashes \in 0..MaxCrashes
  /\ exposed \subseteq Uploads /\ restored \subseteq Deletions

\* A file the server said it stored stays: unless a deletion of its key was
\* unfinished when the upload started or was accepted since, the object is there,
\* and a project file keeps its row. The object of a project file may by then be the
\* content of another upload of that name, but only of one that was not answered
\* with success; a profile's is simply replaced.
UploadKept ==
  \A u \in Uploads :
    LET k == req[u].key
    IN req[u].pc = "ok" /\ u \notin exposed =>
         /\ object[k] # None
         /\ k \in ProjectKeys =>
              /\ upload[k] = u
              /\ object[k] # u => req[object[k]].pc # "ok"

\* An upload row without its object is the work of a deletion: one the upload
\* overlapped, or one accepted since.
RowHasObject ==
  \A k \in ProjectKeys : object[k] = None /\ upload[k] # None => upload[k] \in exposed

\* "Table serving as a FIFO queue for files to be deleted from AWS S3"
\* (s3_deletion): a row leaves it only when the object is gone, and a job is done
\* only when the upload row is gone too, over every failure, retry and crash;
\* unless something was stored under that key since.
DeletionComplete ==
  \A d \in Deletions :
    job[d].pc # "none" /\ d \notin restored =>
      /\ d \notin s3Deletion => object[req[d].key] = None
      /\ job[d].pc = "done" /\ req[d].key \in ProjectKeys => upload[req[d].key] = None

\* The attempts of a job before its place in the one it is in: a failure, or a
\* crash, ends the attempt, so that it is further than all of its steps.
Place == [none |-> 0, object |-> 1, row |-> 2, upload |-> 3, queued |-> 4, done |-> 5]
Progress(j) == 6 * j.attempts + Place[j.pc]

\* Whatever fails, is cut off or starts again, no job comes back to where it was:
\* of the attempts there are, each is used up, and the job ends.
JobsAdvance == [][\A d \in Deletions : job'[d] # job[d] => Progress(job[d]) < Progress(job'[d])]_vars

\* A deletion that was accepted is done, or all its attempts have failed.
DeletionEnds == \A d \in Deletions : job[d].pc = "queued" ~> job[d].pc = "done" \/ Spent(d)
=============================================================================
