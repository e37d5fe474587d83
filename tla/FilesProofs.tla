------------------------------ MODULE FilesProofs ------------------------------
(***************************************************************************)
(* What stays of an upload and of a deletion, for any number of requests,   *)
(* keys, attempts and crashes. The keys of a request, its place in object    *)
(* and upload, and the jobs of its key are related step by step: an upload   *)
(* that is not exposed never meets a job that deletes its key.               *)
(***************************************************************************)
EXTENDS Files, TLAPS

RequestOK ==
  /\ \A r \in Uploads \cup Deletions :
       req[r].pc \in {"put", "insert", "queue", "ok"} => req[r].key \in Keys
  /\ \A u \in Uploads : req[u].pc # "queue" /\ (req[u].pc = "insert" => req[u].key \in ProjectKeys)
  /\ \A d \in Deletions :
       req[d].pc \notin {"put", "insert"} /\ (job[d].pc # "none" => req[d].pc = "ok")

\* What is stored under a key was put there by an upload of that key; a failed
\* one has forgotten which. A row is that of an upload that was answered.
StoredOK ==
  /\ \A k \in Keys : object[k] # None =>
       LET q == req[object[k]]
       IN q.pc = "failed" \/ (q.pc \in {"insert", "ok"} /\ q.key = k)
  /\ \A k \in ProjectKeys : upload[k] # None =>
       req[upload[k]].pc = "ok" /\ req[upload[k]].key = k

\* An upload at work, or done, that is not exposed has no job to fear.
NoJob ==
  \A u \in Uploads, d \in Deletions :
    u \notin exposed /\ req[u].pc \in {"put", "insert", "ok"} /\ req[d].key = req[u].key
      => ~Unfinished(d)

\* Before its row is inserted: its object is there, or another one whose upload
\* can be answered with success only by inserting the row of the key.
Pending ==
  \A u \in Uploads :
    LET k == req[u].key
    IN req[u].pc = "insert" /\ u \notin exposed =>
         /\ object[k] # None
         /\ object[k] # u /\ req[object[k]].pc = "ok" => upload[k] # None

\* A job past its first step has deleted the object.
Deleted == \A d \in Deletions : job[d].pc = "row" /\ d \notin restored => object[req[d].key] = None

DeletionOK == Deleted /\ DeletionComplete

IInv == TypeOK /\ RequestOK /\ StoredOK /\ NoJob /\ Pending /\ UploadKept /\ DeletionOK

-----------------------------------------------------------------------------
LEMMA InitInv == Init => IInv
BY ConstantsAssumption DEF Init, IInv, TypeOK, Request, Job, RequestOK, StoredOK, NoJob, Pending,
   UploadKept, DeletionOK, Deleted, DeletionComplete, Keys

\* Types. Only the attempts of a job need arithmetic: Run starts no spent job.
LEMMA TypeStep == TypeOK /\ [Next]_vars => TypeOK'
<1> SUFFICES ASSUME TypeOK, [Next]_vars PROVE TypeOK'
  OBVIOUS
<1>1. ASSUME NEW r \in Uploads \cup Deletions, NEW k \in Keys, Start(r, k) PROVE TypeOK'
  BY <1>1 DEF TypeOK, Request, Start
<1>2. ASSUME NEW r \in Uploads \cup Deletions, Refuse(r) PROVE TypeOK'
  BY <1>2 DEF TypeOK, Request, Refuse, Fail, Failed
<1>3. ASSUME NEW u \in Uploads, Put(u) PROVE TypeOK'
  <2>1. req' \in [Uploads \cup Deletions -> Request]
    BY <1>3 DEF TypeOK, Put, Goto, Request
  <2>2. object' \in [Keys -> Uploads \cup {None}] /\ restored' \subseteq Deletions
    BY <1>3 DEF TypeOK, Put, Restoring
  <2> QED
    BY <1>3, <2>1, <2>2 DEF TypeOK, Put
<1>4. ASSUME NEW u \in Uploads, PutFails(u) PROVE TypeOK'
  BY <1>4 DEF TypeOK, Request, PutFails, Fail, Failed, Restoring
<1>5. ASSUME NEW u \in Uploads, Insert(u) PROVE TypeOK'
  <2>1. req' \in [Uploads \cup Deletions -> Request]
    BY <1>5 DEF TypeOK, Insert, Goto, Request
  <2>2. upload' \in [ProjectKeys -> Uploads \cup {None}] /\ restored' \subseteq Deletions
    BY <1>5 DEF TypeOK, Insert, Restoring
  <2> QED
    BY <1>5, <2>1, <2>2 DEF TypeOK, Insert
<1>6. ASSUME NEW u \in Uploads, InsertFails(u) PROVE TypeOK'
  BY <1>6 DEF TypeOK, Request, InsertFails, Fail, Failed
<1>7. ASSUME NEW d \in Deletions, QueueDeletion(d) PROVE TypeOK'
  BY <1>7 DEF TypeOK, Request, Job, QueueDeletion, Goto
<1>8. ASSUME NEW d \in Deletions, QueueFails(d) PROVE TypeOK'
  BY <1>8 DEF TypeOK, Request, QueueFails, Fail, Failed
<1>9. ASSUME NEW d \in Deletions, Run(d) PROVE TypeOK'
  <2>1. job[d].attempts \in 0..MaxAttempts /\ job[d].attempts # MaxAttempts
    BY <1>9 DEF TypeOK, Job, Run, Spent
  <2>2. job[d].attempts + 1 \in 0..MaxAttempts
    BY <2>1, ConstantsAssumption
  <2>3. [pc |-> "object", attempts |-> job[d].attempts + 1] \in Job
    BY <2>2 DEF Job
  <2>4. job' \in [Deletions -> Job]
    BY <1>9, <2>3 DEF TypeOK, Run
  <2> QED
    BY <1>9, <2>4 DEF TypeOK, Run
<1>10. ASSUME NEW d \in Deletions, DeleteObject(d) PROVE TypeOK'
  BY <1>10 DEF TypeOK, Job, DeleteObject
<1>11. ASSUME NEW d \in Deletions, DeleteRow(d) PROVE TypeOK'
  BY <1>11 DEF TypeOK, Job, DeleteRow
<1>12. ASSUME NEW d \in Deletions, DeleteUpload(d) PROVE TypeOK'
  BY <1>12 DEF TypeOK, Job, DeleteUpload
<1>13. ASSUME NEW d \in Deletions, JobFails(d) PROVE TypeOK'
  BY <1>13 DEF TypeOK, Job, JobFails
<1>14. ASSUME Crash PROVE TypeOK'
  BY <1>14, ConstantsAssumption DEF TypeOK, Request, Job, Crash, Failed
<1>15. ASSUME UNCHANGED vars PROVE TypeOK'
  BY <1>15 DEF TypeOK, vars
<1> QED
  BY <1>1, <1>2, <1>3, <1>4, <1>5, <1>6, <1>7, <1>8, <1>9, <1>10, <1>11, <1>12,
     <1>13, <1>14, <1>15 DEF Next, JobStep

\* A request keeps its key while it is at work, and a job is that of an accepted deletion.
LEMMA RequestStep == TypeOK /\ RequestOK /\ [Next]_vars => RequestOK'
<1> SUFFICES ASSUME TypeOK, RequestOK, [Next]_vars PROVE RequestOK'
  OBVIOUS
<1>1. ASSUME NEW r \in Uploads \cup Deletions, NEW k \in Keys, Start(r, k) PROVE RequestOK'
  BY <1>1, ConstantsAssumption DEF RequestOK, Start
<1>2. ASSUME NEW r \in Uploads \cup Deletions, Refuse(r) PROVE RequestOK'
  BY <1>2 DEF RequestOK, Refuse, Fail, Failed
<1>3. ASSUME NEW u \in Uploads, Put(u) PROVE RequestOK'
  BY <1>3 DEF RequestOK, Put, Goto
<1>4. ASSUME NEW u \in Uploads, PutFails(u) PROVE RequestOK'
  BY <1>4 DEF RequestOK, PutFails, Fail, Failed, Restoring
<1>5. ASSUME NEW u \in Uploads, Insert(u) PROVE RequestOK'
  BY <1>5 DEF RequestOK, Insert, Goto
<1>6. ASSUME NEW u \in Uploads, InsertFails(u) PROVE RequestOK'
  BY <1>6 DEF RequestOK, InsertFails, Fail, Failed
<1>7. ASSUME NEW d \in Deletions, QueueDeletion(d) PROVE RequestOK'
  BY <1>7 DEF RequestOK, TypeOK, QueueDeletion, Goto
<1>8. ASSUME NEW d \in Deletions, QueueFails(d) PROVE RequestOK'
  BY <1>8 DEF RequestOK, QueueFails, Fail, Failed
<1>9. ASSUME NEW d \in Deletions, Run(d) PROVE RequestOK'
  BY <1>9 DEF RequestOK, Run
<1>10. ASSUME NEW d \in Deletions, DeleteObject(d) PROVE RequestOK'
  BY <1>10 DEF RequestOK, DeleteObject
<1>11. ASSUME NEW d \in Deletions, DeleteRow(d) PROVE RequestOK'
  BY <1>11 DEF RequestOK, DeleteRow
<1>12. ASSUME NEW d \in Deletions, DeleteUpload(d) PROVE RequestOK'
  BY <1>12 DEF RequestOK, DeleteUpload
<1>13. ASSUME NEW d \in Deletions, JobFails(d) PROVE RequestOK'
  BY <1>13 DEF RequestOK, JobFails, Running
<1>14. ASSUME Crash PROVE RequestOK'
  BY <1>14 DEF RequestOK, TypeOK, Crash, Failed, Running
<1>15. ASSUME UNCHANGED vars PROVE RequestOK'
  BY <1>15 DEF RequestOK, vars
<1> QED
  BY <1>1, <1>2, <1>3, <1>4, <1>5, <1>6, <1>7, <1>8, <1>9, <1>10, <1>11, <1>12,
     <1>13, <1>14, <1>15 DEF Next, JobStep

\* Objects and rows are stored by uploads that still know their key, except failed ones.
LEMMA StoredStep == TypeOK /\ RequestOK /\ StoredOK /\ [Next]_vars => StoredOK'
<1> SUFFICES ASSUME TypeOK, RequestOK, StoredOK, [Next]_vars PROVE StoredOK'
  OBVIOUS
<1>1. ASSUME NEW r \in Uploads \cup Deletions, NEW k \in Keys, Start(r, k) PROVE StoredOK'
  BY <1>1 DEF StoredOK, Start
<1>2. ASSUME NEW r \in Uploads \cup Deletions, Refuse(r) PROVE StoredOK'
  BY <1>2 DEF StoredOK, Refuse, Fail
<1>3. ASSUME NEW u \in Uploads, Put(u) PROVE StoredOK'
  BY <1>3 DEF StoredOK, TypeOK, Put, Goto
<1>4. ASSUME NEW u \in Uploads, PutFails(u) PROVE StoredOK'
  BY <1>4 DEF StoredOK, TypeOK, PutFails, Fail, Failed, Restoring
<1>5. ASSUME NEW u \in Uploads, Insert(u) PROVE StoredOK'
  BY <1>5 DEF StoredOK, TypeOK, Insert, Goto
<1>6. ASSUME NEW u \in Uploads, InsertFails(u) PROVE StoredOK'
  BY <1>6 DEF StoredOK, InsertFails, Fail, Failed
<1>7. ASSUME NEW d \in Deletions, QueueDeletion(d) PROVE StoredOK'
  BY <1>7 DEF StoredOK, QueueDeletion, Goto
<1>8. ASSUME NEW d \in Deletions, QueueFails(d) PROVE StoredOK'
  BY <1>8 DEF StoredOK, QueueFails, Fail
<1>9. ASSUME NEW d \in Deletions, Run(d) PROVE StoredOK'
  BY <1>9 DEF StoredOK, Run
<1>10. ASSUME NEW d \in Deletions, DeleteObject(d) PROVE StoredOK'
  BY <1>10 DEF StoredOK, DeleteObject
<1>11. ASSUME NEW d \in Deletions, DeleteRow(d) PROVE StoredOK'
  BY <1>11 DEF StoredOK, DeleteRow
<1>12. ASSUME NEW d \in Deletions, DeleteUpload(d) PROVE StoredOK'
  BY <1>12 DEF StoredOK, DeleteUpload
<1>13. ASSUME NEW d \in Deletions, JobFails(d) PROVE StoredOK'
  BY <1>13 DEF StoredOK, JobFails
<1>14. ASSUME Crash PROVE StoredOK'
  BY <1>14 DEF StoredOK, TypeOK, Crash, Failed
<1>15. ASSUME UNCHANGED vars PROVE StoredOK'
  BY <1>15 DEF StoredOK, vars
<1> QED
  BY <1>1, <1>2, <1>3, <1>4, <1>5, <1>6, <1>7, <1>8, <1>9, <1>10, <1>11, <1>12,
     <1>13, <1>14, <1>15 DEF Next, JobStep

\* An upload that starts beside a job of its key is exposed, and so is every upload of
\* the key when a deletion is accepted; a job that is spent or done never runs again.
LEMMA NoJobStep == TypeOK /\ RequestOK /\ NoJob /\ [Next]_vars => NoJob'
<1> SUFFICES ASSUME TypeOK, RequestOK, NoJob, [Next]_vars PROVE NoJob'
  OBVIOUS
<1>1. ASSUME NEW r \in Uploads \cup Deletions, NEW k \in Keys, Start(r, k) PROVE NoJob'
  BY <1>1 DEF NoJob, Unfinished, Running, Spent, RequestOK, Start
<1>2. ASSUME NEW r \in Uploads \cup Deletions, Refuse(r) PROVE NoJob'
  BY <1>2 DEF NoJob, Unfinished, Running, Spent, RequestOK, Refuse, Fail, Failed
<1>3. ASSUME NEW u \in Uploads, Put(u) PROVE NoJob'
  BY <1>3 DEF NoJob, Unfinished, Running, Spent, Put, Goto
<1>4. ASSUME NEW u \in Uploads, PutFails(u) PROVE NoJob'
  BY <1>4 DEF NoJob, Unfinished, Running, Spent, RequestOK, PutFails, Fail, Failed, Restoring
<1>5. ASSUME NEW u \in Uploads, Insert(u) PROVE NoJob'
  BY <1>5 DEF NoJob, Unfinished, Running, Spent, Insert, Goto
<1>6. ASSUME NEW u \in Uploads, InsertFails(u) PROVE NoJob'
  BY <1>6 DEF NoJob, Unfinished, Running, Spent, RequestOK, InsertFails, Fail, Failed
<1>7. ASSUME NEW d \in Deletions, QueueDeletion(d) PROVE NoJob'
  BY <1>7 DEF NoJob, Unfinished, Running, Spent, QueueDeletion, Goto
<1>8. ASSUME NEW d \in Deletions, QueueFails(d) PROVE NoJob'
  BY <1>8 DEF NoJob, Unfinished, Running, Spent, RequestOK, QueueFails, Fail
<1>9. ASSUME NEW d \in Deletions, Run(d) PROVE NoJob'
  BY <1>9 DEF NoJob, Unfinished, Running, Spent, Run
<1>10. ASSUME NEW d \in Deletions, DeleteObject(d) PROVE NoJob'
  BY <1>10 DEF NoJob, Unfinished, Running, Spent, DeleteObject
<1>11. ASSUME NEW d \in Deletions, DeleteRow(d) PROVE NoJob'
  BY <1>11 DEF NoJob, Unfinished, Running, Spent, DeleteRow
<1>12. ASSUME NEW d \in Deletions, DeleteUpload(d) PROVE NoJob'
  BY <1>12 DEF NoJob, Unfinished, Running, Spent, DeleteUpload
<1>13. ASSUME NEW d \in Deletions, JobFails(d) PROVE NoJob'
  BY <1>13 DEF NoJob, Unfinished, Running, Spent, JobFails
<1>14. ASSUME Crash PROVE NoJob'
  BY <1>14 DEF NoJob, Unfinished, Running, Spent, RequestOK, TypeOK, Crash, Failed
<1>15. ASSUME UNCHANGED vars PROVE NoJob'
  BY <1>15 DEF NoJob, Unfinished, Running, Spent, vars
<1> QED
  BY <1>1, <1>2, <1>3, <1>4, <1>5, <1>6, <1>7, <1>8, <1>9, <1>10, <1>11, <1>12,
     <1>13, <1>14, <1>15 DEF Next, JobStep

\* Between Put and Insert only another upload can replace the object, and it is
\* answered with success only if its own row is inserted.
LEMMA PendingStep ==
  TypeOK /\ RequestOK /\ StoredOK /\ NoJob /\ Pending /\ [Next]_vars => Pending'
<1> SUFFICES ASSUME TypeOK, RequestOK, StoredOK, NoJob, Pending, [Next]_vars PROVE Pending'
  OBVIOUS
<1>1. ASSUME NEW r \in Uploads \cup Deletions, NEW k \in Keys, Start(r, k) PROVE Pending'
  BY <1>1 DEF Pending, Start
<1>2. ASSUME NEW r \in Uploads \cup Deletions, Refuse(r) PROVE Pending'
  BY <1>2 DEF Pending, Refuse, Fail, Failed
<1>3. ASSUME NEW u \in Uploads, Put(u) PROVE Pending'
  BY <1>3, ConstantsAssumption DEF Pending, StoredOK, RequestOK, TypeOK, Put, Goto
<1>4. ASSUME NEW u \in Uploads, PutFails(u) PROVE Pending'
  BY <1>4, ConstantsAssumption DEF Pending, RequestOK, TypeOK, PutFails, Fail, Failed, Restoring
<1>5. ASSUME NEW u \in Uploads, Insert(u) PROVE Pending'
  BY <1>5 DEF Pending, StoredOK, RequestOK, TypeOK, Insert, Goto
<1>6. ASSUME NEW u \in Uploads, InsertFails(u) PROVE Pending'
  BY <1>6 DEF Pending, InsertFails, Fail, Failed
<1>7. ASSUME NEW d \in Deletions, QueueDeletion(d) PROVE Pending'
  BY <1>7 DEF Pending, RequestOK, TypeOK, QueueDeletion, Goto
<1>8. ASSUME NEW d \in Deletions, QueueFails(d) PROVE Pending'
  BY <1>8 DEF Pending, QueueFails, Fail, Failed
<1>9. ASSUME NEW d \in Deletions, Run(d) PROVE Pending'
  BY <1>9 DEF Pending, Run
<1>10. ASSUME NEW d \in Deletions, DeleteObject(d) PROVE Pending'
  BY <1>10 DEF Pending, NoJob, DeleteObject, Unfinished, Running
<1>11. ASSUME NEW d \in Deletions, DeleteRow(d) PROVE Pending'
  BY <1>11 DEF Pending, DeleteRow
<1>12. ASSUME NEW d \in Deletions, DeleteUpload(d) PROVE Pending'
  BY <1>12 DEF Pending, NoJob, DeleteUpload, Unfinished, Running
<1>13. ASSUME NEW d \in Deletions, JobFails(d) PROVE Pending'
  BY <1>13 DEF Pending, JobFails
<1>14. ASSUME Crash PROVE Pending'
  BY <1>14 DEF Pending, TypeOK, Crash, Failed
<1>15. ASSUME UNCHANGED vars PROVE Pending'
  BY <1>15 DEF Pending, vars
<1> QED
  BY <1>1, <1>2, <1>3, <1>4, <1>5, <1>6, <1>7, <1>8, <1>9, <1>10, <1>11, <1>12,
     <1>13, <1>14, <1>15 DEF Next, JobStep

\* What is kept once an upload is answered. Its row stops other inserts of the key; a
\* job that would remove object or row is excluded by NoJob.
LEMMA KeptStep ==
  TypeOK /\ RequestOK /\ StoredOK /\ NoJob /\ Pending /\ UploadKept /\ [Next]_vars => UploadKept'
<1> SUFFICES ASSUME TypeOK, RequestOK, StoredOK, NoJob, Pending, UploadKept, [Next]_vars
             PROVE  UploadKept'
  OBVIOUS
<1>1. ASSUME NEW r \in Uploads \cup Deletions, NEW k \in Keys, Start(r, k) PROVE UploadKept'
  BY <1>1 DEF UploadKept, Start
<1>2. ASSUME NEW r \in Uploads \cup Deletions, Refuse(r) PROVE UploadKept'
  BY <1>2 DEF UploadKept, Refuse, Fail, Failed
<1>3. ASSUME NEW u \in Uploads, Put(u) PROVE UploadKept'
  BY <1>3, ConstantsAssumption DEF UploadKept, StoredOK, RequestOK, TypeOK, Put, Goto
<1>4. ASSUME NEW u \in Uploads, PutFails(u) PROVE UploadKept'
  BY <1>4, ConstantsAssumption DEF UploadKept, RequestOK, TypeOK, PutFails, Fail, Failed, Restoring
<1>5. ASSUME NEW u \in Uploads, Insert(u) PROVE UploadKept'
  BY <1>5, ConstantsAssumption DEF UploadKept, Pending, StoredOK, RequestOK, TypeOK, Insert, Goto
<1>6. ASSUME NEW u \in Uploads, InsertFails(u) PROVE UploadKept'
  BY <1>6 DEF UploadKept, InsertFails, Fail, Failed
<1>7. ASSUME NEW d \in Deletions, QueueDeletion(d) PROVE UploadKept'
  BY <1>7 DEF UploadKept, RequestOK, TypeOK, QueueDeletion, Goto
<1>8. ASSUME NEW d \in Deletions, QueueFails(d) PROVE UploadKept'
  BY <1>8 DEF UploadKept, QueueFails, Fail, Failed
<1>9. ASSUME NEW d \in Deletions, Run(d) PROVE UploadKept'
  BY <1>9 DEF UploadKept, Run
<1>10. ASSUME NEW d \in Deletions, DeleteObject(d) PROVE UploadKept'
  BY <1>10 DEF UploadKept, NoJob, DeleteObject, Unfinished, Running
<1>11. ASSUME NEW d \in Deletions, DeleteRow(d) PROVE UploadKept'
  BY <1>11 DEF UploadKept, DeleteRow
<1>12. ASSUME NEW d \in Deletions, DeleteUpload(d) PROVE UploadKept'
  BY <1>12 DEF UploadKept, NoJob, DeleteUpload, Unfinished, Running
<1>13. ASSUME NEW d \in Deletions, JobFails(d) PROVE UploadKept'
  BY <1>13 DEF UploadKept, JobFails
<1>14. ASSUME Crash PROVE UploadKept'
  <2>1. ASSUME NEW u \in Uploads, req'[u].pc = "ok"
        PROVE  req'[u] = req[u]
    BY <1>14, <2>1 DEF Crash, Failed, TypeOK
  <2>2. ASSUME NEW u \in Uploads, req'[u].pc = "ok", u \notin exposed
        PROVE  /\ object[req[u].key] # None
               /\ req[u].key \in ProjectKeys =>
                    /\ upload[req[u].key] = u
                    /\ object[req[u].key] # u => req'[object[req[u].key]].pc # "ok"
    <3>1. req[u].pc = "ok" /\ req[u].key \in Keys
      BY <2>1, <2>2 DEF RequestOK
    <3>2. object[req[u].key] \in Uploads \cup {None}
      BY <3>1 DEF TypeOK
    <3> QED
      BY <2>1, <2>2, <3>1, <3>2 DEF UploadKept
  <2>3. UNCHANGED <<object, upload, exposed>>
    BY <1>14 DEF Crash
  <2> QED
    BY <2>1, <2>2, <2>3 DEF UploadKept
<1>15. ASSUME UNCHANGED vars PROVE UploadKept'
  BY <1>15 DEF UploadKept, vars
<1> QED
  BY <1>1, <1>2, <1>3, <1>4, <1>5, <1>6, <1>7, <1>8, <1>9, <1>10, <1>11, <1>12,
     <1>13, <1>14, <1>15 DEF Next, JobStep

\* The steps of a job in their order, and again from the first after a failure.
LEMMA DeletionStep == TypeOK /\ RequestOK /\ DeletionOK /\ [Next]_vars => DeletionOK'
<1> SUFFICES ASSUME TypeOK, RequestOK, DeletionOK, [Next]_vars PROVE DeletionOK'
  OBVIOUS
<1>1. ASSUME NEW r \in Uploads \cup Deletions, NEW k \in Keys, Start(r, k) PROVE DeletionOK'
  BY <1>1 DEF DeletionOK, Deleted, DeletionComplete, RequestOK, Start
<1>2. ASSUME NEW r \in Uploads \cup Deletions, Refuse(r) PROVE DeletionOK'
  BY <1>2 DEF DeletionOK, Deleted, DeletionComplete, RequestOK, Refuse, Fail
<1>3. ASSUME NEW u \in Uploads, Put(u) PROVE DeletionOK'
  BY <1>3 DEF DeletionOK, Deleted, DeletionComplete, Put, Goto, Restoring
<1>4. ASSUME NEW u \in Uploads, PutFails(u) PROVE DeletionOK'
  BY <1>4 DEF DeletionOK, Deleted, DeletionComplete, RequestOK, TypeOK, PutFails, Fail, Failed, Restoring
<1>5. ASSUME NEW u \in Uploads, Insert(u) PROVE DeletionOK'
  BY <1>5 DEF DeletionOK, Deleted, DeletionComplete, Insert, Goto, Restoring
<1>6. ASSUME NEW u \in Uploads, InsertFails(u) PROVE DeletionOK'
  BY <1>6 DEF DeletionOK, Deleted, DeletionComplete, RequestOK, InsertFails, Fail
<1>7. ASSUME NEW d \in Deletions, QueueDeletion(d) PROVE DeletionOK'
  BY <1>7 DEF DeletionOK, Deleted, DeletionComplete, QueueDeletion, Goto
<1>8. ASSUME NEW d \in Deletions, QueueFails(d) PROVE DeletionOK'
  BY <1>8 DEF DeletionOK, Deleted, DeletionComplete, RequestOK, QueueFails, Fail
<1>9. ASSUME NEW d \in Deletions, Run(d) PROVE DeletionOK'
  BY <1>9 DEF DeletionOK, Deleted, DeletionComplete, Run
<1>10. ASSUME NEW d \in Deletions, DeleteObject(d) PROVE DeletionOK'
  BY <1>10 DEF DeletionOK, Deleted, DeletionComplete, RequestOK, TypeOK, DeleteObject
<1>11. ASSUME NEW d \in Deletions, DeleteRow(d) PROVE DeletionOK'
  BY <1>11 DEF DeletionOK, Deleted, DeletionComplete, DeleteRow
<1>12. ASSUME NEW d \in Deletions, DeleteUpload(d) PROVE DeletionOK'
  BY <1>12 DEF DeletionOK, Deleted, DeletionComplete, TypeOK, DeleteUpload
<1>13. ASSUME NEW d \in Deletions, JobFails(d) PROVE DeletionOK'
  BY <1>13 DEF DeletionOK, Deleted, DeletionComplete, JobFails, Running
<1>14. ASSUME Crash PROVE DeletionOK'
  BY <1>14 DEF DeletionOK, Deleted, DeletionComplete, RequestOK, TypeOK, Crash, Running
<1>15. ASSUME UNCHANGED vars PROVE DeletionOK'
  BY <1>15 DEF DeletionOK, Deleted, DeletionComplete, vars
<1> QED
  BY <1>1, <1>2, <1>3, <1>4, <1>5, <1>6, <1>7, <1>8, <1>9, <1>10, <1>11, <1>12,
     <1>13, <1>14, <1>15 DEF Next, JobStep

-----------------------------------------------------------------------------
LEMMA Invariant == Spec => []IInv
<1>1. IInv /\ [Next]_vars => IInv'
  BY TypeStep, RequestStep, StoredStep, NoJobStep, PendingStep, KeptStep, DeletionStep DEF IInv
<1> QED
  BY <1>1, InitInv, PTL DEF Spec

\* The model's type invariant: no step of an upload, a deletion or a job leaves
\* the states the code can be in.
THEOREM TypeCorrect == Spec => []TypeOK
<1>1. IInv => TypeOK
  BY DEF IInv
<1> QED
  BY <1>1, Invariant, PTL

\* What POST /files answered with success stays stored, with its row, until a
\* deletion of that file that it overlaps or that is accepted later.
THEOREM UploadsAreKept == Spec => []UploadKept
<1>1. IInv => UploadKept
  BY DEF IInv
<1> QED
  BY <1>1, Invariant, PTL

\* A row of upload whose object is missing is explained by a deletion: neither a
\* failed upload nor a crash leaves one.
THEOREM RowsHaveObjects == Spec => []RowHasObject
<1>1. IInv => RowHasObject
  BY ConstantsAssumption DEF IInv, RowHasObject, UploadKept, StoredOK, TypeOK, Keys
<1> QED
  BY <1>1, Invariant, PTL

\* However often the job of a deletion fails, is cut off or runs again: its row
\* leaves s3_deletion after its object is gone, and it ends after its upload row is.
THEOREM DeletionsAreComplete == Spec => []DeletionComplete
<1>1. IInv => DeletionComplete
  BY DEF IInv, DeletionOK
<1> QED
  BY <1>1, Invariant, PTL

-----------------------------------------------------------------------------
(* Jobs end *)

\* A number of steps is more than all the places of a step before it.
LEMMA MoreAttempts ==
  ASSUME NEW i \in Job, NEW j \in Job, j.attempts = i.attempts + 1
  PROVE  Progress(i) < Progress(j)
BY DEF Job, Progress, Place

LEMMA Further ==
  ASSUME NEW i \in Job, NEW j \in Job, j.attempts = i.attempts, Place[i.pc] < Place[j.pc]
  PROVE  Progress(i) < Progress(j)
BY DEF Job, Progress, Place

\* A job never comes back to where it was, whatever fails or stops: together with the
\* bound on its attempts (TypeOK), it changes a bounded number of times.
THEOREM JobsNeverGoBack == Spec => JobsAdvance
<1>1. ASSUME IInv, [Next]_vars, NEW e \in Deletions, job'[e] # job[e]
      PROVE  Progress(job[e]) < Progress(job'[e])
  <2>0. /\ job \in [Deletions -> Job] /\ RequestOK
        /\ job[e] \in Job /\ job'[e] \in Job
    BY <1>1, TypeStep DEF IInv, TypeOK
  <2> DEFINE Attempt == job'[e].attempts = job[e].attempts + 1
             Onward == job'[e].attempts = job[e].attempts /\ Place[job[e].pc] < Place[job'[e].pc]
  <2>1. ASSUME NEW d \in Deletions, QueueDeletion(d) PROVE Onward
    BY <1>1, <2>0, <2>1 DEF QueueDeletion, RequestOK, Place, Job
  <2>2. ASSUME NEW d \in Deletions, Run(d) PROVE Attempt
    BY <1>1, <2>0, <2>2 DEF Run, Job
  <2>3. ASSUME NEW d \in Deletions, DeleteObject(d) \/ DeleteRow(d) \/ DeleteUpload(d) \/ JobFails(d)
        PROVE  Onward
    BY <1>1, <2>0, <2>3 DEF DeleteObject, DeleteRow, DeleteUpload, JobFails, Running, Place, Job
  <2>4. ASSUME Crash PROVE Onward
    BY <1>1, <2>0, <2>4 DEF Crash, Running, Place, Job
  <2>5. Attempt \/ Onward
    <3>1. ASSUME NEW r \in Uploads \cup Deletions, (\E k \in Keys : Start(r, k)) \/ Refuse(r)
          PROVE  FALSE
      BY <1>1, <3>1 DEF Start, Refuse
    <3>2. ASSUME NEW u \in Uploads, Put(u) \/ PutFails(u) \/ Insert(u) \/ InsertFails(u)
          PROVE  FALSE
      BY <1>1, <3>2 DEF Put, PutFails, Insert, InsertFails
    <3>3. ASSUME NEW d \in Deletions, QueueFails(d) PROVE FALSE
      BY <1>1, <3>3 DEF QueueFails
    <3>4. ~UNCHANGED vars
      BY <1>1 DEF vars
    <3> HIDE DEF Attempt, Onward
    <3> QED
      BY <1>1, <2>1, <2>2, <2>3, <2>4, <3>1, <3>2, <3>3, <3>4 DEF Next, JobStep
  <2>6. CASE Attempt
    BY <2>0, <2>6, MoreAttempts
  <2>7. CASE Onward
    BY <2>0, <2>7, Further
  <2> QED
    BY <2>5, <2>6, <2>7
<1>2. IInv /\ [Next]_vars =>
        [\A d \in Deletions : job'[d] # job[d] => Progress(job[d]) < Progress(job'[d])]_vars
  BY <1>1
<1> QED
  BY <1>2, Invariant, PTL DEF Spec, JobsAdvance
=============================================================================
