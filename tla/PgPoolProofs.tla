----------------------------- MODULE PgPoolProofs -----------------------------
(***************************************************************************)
(* Proofs about PgPool, for any number of connections and requests. The     *)
(* invariants are proved in layers: types and the queue, who holds which    *)
(* connection, what the transaction of each connection is, what is          *)
(* committed, and what was left behind. Each layer uses the ones before it. *)
(***************************************************************************)
EXTENDS PgPool, Integers, SequenceTheorems, FiniteSetTheorems, FunctionTheorems, TLAPS

-----------------------------------------------------------------------------
(* Types, the queue, and the steps each kind of request can be at *)

Waiting(q) == q.pc \in {"waiting", "waitingJob"}

QueueOK ==
  /\ \A i \in 1..Len(queue) : Waiting(req[queue[i]])
  /\ \A i, j \in 1..Len(queue) : queue[i] = queue[j] => i = j

\* Where a request of each kind can be. Merges and GraphQL requests are those with
\* a transaction.
Txs == Mergers \cup Graphql
InTx == InMerge \cup InGraphql
Pcs(r, pc) ==
  /\ pc \in {"addJob", "waitingJob", "job"} => r \in Mailers
  /\ pc \in {"check", "nonce", "savepoint", "rows", "accounts", "undo"} => r \in Mergers
  /\ pc = "graphql" => r \in Graphql
  /\ pc \in {"commit", "keep"} => r \in Txs
  /\ pc \in {"beside", "delete"} => r \in Deleters
  /\ pc = "silent" => r \in Googles

KindsOK ==
  \A r \in Requests :
    /\ req[r].pc \in {"new", "waiting"} => req[r].client = None
    /\ req[r].pc = "job" => req[r].job # None
    /\ Pcs(r, req[r].pc)

TypeInv == TypeOK /\ QueueOK /\ KindsOK

StraysType ==
  /\ over \in [Requests -> SUBSET (Statements \cup Files)]
  /\ left \in [Conns -> SUBSET (Deleters \X Files)]
  /\ passed \subseteq Conns

\* What Release does, by cases: nobody waits, or the first one is served.
Served(c, requests) ==
  LET h == Head(queue)
  IN /\ h \in Requests /\ Waiting(req[h])
     /\ req' = [requests EXCEPT ![h] = Granted(@, c)]
     /\ queue' = Tail(queue) /\ conn' = conn

Unserved(c, requests) ==
  /\ queue = <<>> /\ queue' = queue
  /\ conn' = [conn EXCEPT ![c].state = "idle"]
  /\ req' = requests

LEMMA ReleaseCases ==
  ASSUME TypeInv, NEW c, NEW requests, Release(c, requests)
  PROVE  (Served(c, requests) /\ queue # <<>>) \/ Unserved(c, requests)
<1>1. CASE queue = <<>>
  BY <1>1 DEF Release, Unserved
<1>2. CASE queue # <<>>
  <2>1. queue \in Seq(Requests)
    BY DEF TypeInv, TypeOK
  <2>2. Len(queue) \in Nat /\ Len(queue) > 0 /\ Head(queue) = queue[1]
    BY <1>2, <2>1, EmptySeq
  <2>3. Head(queue) \in Requests /\ Waiting(req[Head(queue)])
    BY <2>1, <2>2, ElementOfSeq DEF TypeInv, QueueOK
  <2> QED
    BY <1>2, <2>3 DEF Release, Served
<1> QED
  BY <1>1, <1>2

\* The queue stays well formed when its head leaves and only its head changes,
LEMMA QueueTail ==
  ASSUME TypeInv, queue # <<>>, queue' = Tail(queue),
         \A r \in Requests : r # Head(queue) /\ Waiting(req[r]) => Waiting(req'[r])
  PROVE  queue' \in Seq(Requests) /\ QueueOK'
<1>1. queue \in Seq(Requests)
  BY DEF TypeInv, TypeOK
<1>2. /\ Tail(queue) \in Seq(Requests)
      /\ Len(queue) \in Nat /\ Len(queue) > 0 /\ Head(queue) = queue[1]
      /\ Len(Tail(queue)) = Len(queue) - 1
      /\ \A i \in 1..Len(Tail(queue)) : Tail(queue)[i] = queue[i + 1]
  BY <1>1, EmptySeq, HeadTailProperties
<1>3. \A i \in 1..Len(queue) : queue[i] \in Requests /\ Waiting(req[queue[i]])
  BY <1>1, ElementOfSeq DEF TypeInv, QueueOK
<1>4. \A i \in 1..Len(Tail(queue)) : Waiting(req'[Tail(queue)[i]])
  <2> SUFFICES ASSUME NEW i \in 1..Len(Tail(queue)) PROVE Waiting(req'[queue[i + 1]])
    BY <1>2
  <2>1. i + 1 \in 1..Len(queue) /\ 1 \in 1..Len(queue) /\ i + 1 # 1
    BY <1>2
  <2>2. queue[i + 1] # Head(queue)
    BY <1>2, <2>1 DEF TypeInv, QueueOK
  <2> QED
    BY <1>3, <2>1, <2>2
<1>5. \A i, j \in 1..Len(Tail(queue)) : Tail(queue)[i] = Tail(queue)[j] => i = j
  <2> SUFFICES ASSUME NEW i \in 1..Len(Tail(queue)), NEW j \in 1..Len(Tail(queue)),
                      queue[i + 1] = queue[j + 1]
               PROVE  i = j
    BY <1>2
  <2>1. i + 1 \in 1..Len(queue) /\ j + 1 \in 1..Len(queue)
    BY <1>2
  <2> QED
    BY <2>1 DEF TypeInv, QueueOK
<1> QED
  BY <1>2, <1>4, <1>5 DEF QueueOK, Waiting

\* when a request that starts to wait is appended,
LEMMA QueueAppend ==
  ASSUME TypeInv, NEW r \in Requests, ~Waiting(req[r]), queue' = Append(queue, r),
         Waiting(req'[r]), \A s \in Requests : s # r => req'[s] = req[s]
  PROVE  queue' \in Seq(Requests) /\ QueueOK'
<1>1. queue \in Seq(Requests) /\ Len(queue) \in Nat
  BY DEF TypeInv, TypeOK
<1>2. /\ Append(queue, r) \in Seq(Requests)
      /\ Len(Append(queue, r)) = Len(queue) + 1
      /\ \A i \in 1..Len(queue) : Append(queue, r)[i] = queue[i]
      /\ Append(queue, r)[Len(queue) + 1] = r
  BY <1>1, AppendProperties
<1>3. \A i \in 1..Len(queue) : queue[i] \in Requests /\ Waiting(req[queue[i]]) /\ queue[i] # r
  BY <1>1, ElementOfSeq DEF TypeInv, QueueOK
<1>4. \A i \in 1..(Len(queue) + 1) : i \in 1..Len(queue) \/ i = Len(queue) + 1
  BY <1>1
<1>5. \A i \in 1..Len(queue') : Waiting(req'[queue'[i]])
  BY <1>2, <1>3, <1>4
<1>6. \A i, j \in 1..Len(queue') : queue'[i] = queue'[j] => i = j
  BY <1>2, <1>3, <1>4 DEF TypeInv, QueueOK
<1> QED
  BY <1>2, <1>5, <1>6 DEF QueueOK, Waiting

\* and when no request that waits changes.
LEMMA QueueSame ==
  ASSUME TypeInv, queue' = queue,
         \A r \in Requests : Waiting(req[r]) => req'[r] = req[r]
  PROVE  queue' \in Seq(Requests) /\ QueueOK'
<1>1. \A i \in 1..Len(queue) : queue[i] \in Requests
  BY ElementOfSeq DEF TypeInv, TypeOK
<1> QED
  BY <1>1 DEF TypeInv, TypeOK, QueueOK

\* A release, by a request r that does not wait, keeps every type.
LEMMA ReleaseType ==
  ASSUME TypeInv, NEW r \in Requests, ~Waiting(req[r]), NEW c \in Conns, NEW q \in Request,
         ~Waiting(q), Release(c, [req EXCEPT ![r] = q])
  PROVE  /\ conn' \in [Conns -> Connection] /\ req' \in [Requests -> Request]
         /\ queue' \in Seq(Requests) /\ QueueOK'
         /\ req'[r] = q
         /\ \A s \in Requests \ {r} :
              \/ req'[s] = req[s]
              \/ Waiting(req[s]) /\ req'[s] = Granted(req[s], c)
<1> DEFINE requests == [req EXCEPT ![r] = q]
<1>0. req \in [Requests -> Request] /\ conn \in [Conns -> Connection]
  BY DEF TypeInv, TypeOK
<1>a. requests \in [Requests -> Request] /\ requests[r] = q /\ \A s \in Requests \ {r} : requests[s] = req[s]
  BY <1>0
<1>1. CASE Served(c, requests) /\ queue # <<>>
  <2> DEFINE h == Head(queue)
  <2>1. h \in Requests /\ h # r /\ Waiting(req[h])
    BY <1>1 DEF Served
  <2>2. req' = [requests EXCEPT ![h] = Granted(req[h], c)]
    BY <1>1, <1>a, <2>1 DEF Served
  <2>3. Granted(req[h], c) \in Request
    BY <1>0, <2>1 DEF Granted, Request, Waiting
  <2>4. req' \in [Requests -> Request]
    BY <1>a, <2>1, <2>2, <2>3
  <2>5. queue' \in Seq(Requests) /\ QueueOK'
    <3>1. \A s \in Requests : s # h /\ Waiting(req[s]) => req'[s] = req[s]
      BY <1>0, <1>a, <2>1, <2>2
    <3> QED
      BY <1>1, <3>1, QueueTail DEF Served
  <2> QED
    BY <1>0, <1>1, <1>a, <2>1, <2>2, <2>4, <2>5 DEF Served
<1>2. CASE Unserved(c, requests)
  <2>1. queue' \in Seq(Requests) /\ QueueOK'
    BY <1>0, <1>2, <1>a, QueueSame DEF Unserved
  <2>2. conn' \in [Conns -> Connection]
    BY <1>0, <1>2 DEF Unserved, Connection
  <2> QED
    BY <1>2, <1>a, <2>1, <2>2 DEF Unserved
<1> QED
  BY <1>1, <1>2, ReleaseCases

\* A request that waits, or asks, gets the connection; every kind stays right.
KindOK(r, q) ==
  /\ q.pc \notin {"new", "waiting", "ended", "failed"} => q.client # None
  /\ q.job # None => r \in Mailers /\ q.pc \in {"job", "ok", "failed"}
  /\ q.pc \in {"new", "waiting"} => q.client = None
  /\ q.pc = "job" => q.job # None
  /\ Pcs(r, q.pc)

LEMMA GrantedKind ==
  ASSUME NEW r \in Requests, NEW q \in Request, NEW c \in Conns, KindOK(r, q),
         q.pc \in {"new", "waiting", "addJob", "waitingJob"}
  PROVE  /\ Granted(q, c) \in Request /\ KindOK(r, Granted(q, c)) /\ ~Waiting(Granted(q, c))
         /\ IF q.pc \in {"new", "waiting"} THEN Granted(q, c) = [pc |-> "run", client |-> c, job |-> q.job]
                                           ELSE Granted(q, c) = [pc |-> "job", client |-> q.client, job |-> c]
<1>1. c # None
  BY ConstantsAssumption
<1>2. CASE q.pc \in {"new", "waiting"}
  <2>1. Granted(q, c) = [pc |-> "run", client |-> c, job |-> q.job]
    BY <1>2 DEF Granted, Request
  <2> QED
    BY <1>1, <1>2, <2>1 DEF KindOK, Pcs, Request, InMerge, InGraphql, Waiting
<1>3. CASE q.pc \in {"addJob", "waitingJob"}
  <2>1. Granted(q, c) = [pc |-> "job", client |-> q.client, job |-> c]
    BY <1>3 DEF Granted, Request
  <2> QED
    BY <1>1, <1>3, <2>1 DEF KindOK, Pcs, Request, InMerge, InGraphql, Waiting
<1> QED
  BY <1>2, <1>3

LEMMA KindsCollected ==
  /\ TypeInv => \A r \in Requests : req[r] \in Request /\ KindOK(r, req[r])
  /\ /\ conn' \in [Conns -> Connection] /\ queue' \in Seq(Requests) /\ QueueOK'
     /\ req' \in [Requests -> Request]
     /\ answer' \in [Requests -> {"none", "ok", "failed"}]
     /\ done' \subseteq Write /\ past' \subseteq Mergers /\ StraysType'
     /\ \A r \in Requests : KindOK(r, req'[r])
     => TypeInv'
<1>1. TypeInv => \A r \in Requests : req[r] \in Request /\ KindOK(r, req[r])
  BY DEF TypeInv, TypeOK, KindsOK, KindOK
<1>2. (\A r \in Requests : KindOK(r, req'[r])) => KindsOK'
  BY DEF KindsOK, KindOK
<1>3. (\A r \in Requests : KindOK(r, req'[r])) =>
        \A r \in Requests :
          /\ req'[r].pc \notin {"new", "waiting", "ended", "failed"} => req'[r].client # None
          /\ req'[r].job # None => r \in Mailers /\ req'[r].pc \in {"job", "ok", "failed"}
  BY DEF KindOK
<1> QED
  BY <1>1, <1>2, <1>3 DEF TypeInv, TypeOK, StraysType

\* The steps that only run a statement, or none: they move one request on.
Local(r) ==
  \/ (\E s \in Statements : Statement(r, s)) \/ LastStatement(r) \/ StatementFails(r)
  \/ NoEmails(r)
  \/ FindPost(r) \/ (\E f \in Files : DeleteFile(r, f) \/ DeleteFileFails(r, f))
  \/ Resolve(r) \/ ResolveFails(r)
  \/ Begin(r) \/ Check(r) \/ WriteNonce(r) \/ Savepoint(r) \/ Migrate(r) \/ Commit(r)
  \/ Refuse(r) \/ MergeStatementFails(r) \/ RollbackTo(r) \/ RollbackToFails(r)

LocalPcs == {"run", "addJob", "beside", "delete", "ok", "failed", "silent"} \cup InTx

Moves(r, pc) ==
  /\ req' = [req EXCEPT ![r].pc = pc]
  /\ Pcs(r, pc)
  /\ req[r].job # None => pc \in {"ok", "failed"}

\* (A COMMIT is modelled as a fresh busy connection.)
StatesKept(r) ==
  \A c \in Conns : \/ conn'[c].state = conn[c].state
                   \/ c = req[r].client /\ conn'[c].state = "busy"

\* A statement, whatever comes of it, leaves the connection checked out or not.
LEMMA Runs ==
  ASSUME TypeInv, NEW c \in Conns, NEW writes \in SUBSET Write, Takes(c, writes) \/ Breaks(c)
  PROVE  /\ conn' \in [Conns -> Connection] /\ \A d \in Conns : conn'[d].state = conn[d].state
         /\ done' \subseteq Write
<1>1. conn \in [Conns -> Connection] /\ done \subseteq Write
  BY DEF TypeInv, TypeOK
<1>2. CASE Takes(c, writes)
  BY <1>1, <1>2 DEF Takes, Connection
<1>3. CASE Breaks(c)
  BY <1>1, <1>3 DEF Breaks, Connection
<1> QED
  BY <1>2, <1>3

LEMMA LocalStep ==
  ASSUME TypeInv, NEW r \in Requests, Local(r)
  PROVE  /\ req[r].client # None /\ ~Waiting(req[r]) /\ req[r].pc \notin {"ended", "failed"}
         /\ \E pc \in LocalPcs : Moves(r, pc)
         /\ queue' = queue /\ answer' = answer
         /\ conn' \in [Conns -> Connection] /\ StatesKept(r)
         /\ done' \subseteq Write /\ past' \subseteq Mergers /\ StraysType'
<1>t. /\ req \in [Requests -> Request] /\ conn \in [Conns -> Connection]
      /\ done \subseteq Write /\ past \subseteq Mergers /\ None \notin Conns
      /\ StraysType
  BY ConstantsAssumption DEF TypeInv, TypeOK, StraysType
<1>c. /\ req[r].client \in Conns \cup {None} /\ req[r].job \in Conns \cup {None}
      /\ req[r].pc \in {"run", "job", "beside", "delete"} \cup InTx => req[r].client \in Conns
      /\ req[r].pc = "job" => req[r].job \in Conns
      /\ req[r].pc \in InTx \cup {"run", "beside", "delete"} => req[r].job = None
      /\ Pcs(r, req[r].pc)
  BY <1>t DEF TypeInv, TypeOK, Request, InMerge, InGraphql, InTx, KindsOK
<1>k. /\ r \in OneByOne => r \notin Txs /\ r \notin Deleters
      /\ r \in Mergers => r \notin Graphql /\ r \notin Deleters
      /\ r \in Graphql => r \notin Deleters
  BY ConstantsAssumption DEF Txs
<1>w. \A part \in Statements \cup Files \cup MergeParts \cup {"job", "post"} : {<<r, part>>} \in SUBSET Write
  BY DEF Write
<1>v. {} \in SUBSET Write /\ {r} \X Statements \in SUBSET Write
  BY DEF Write
<1> DEFINE At == req[r].pc \in {"run", "job", "beside", "delete"} \cup InTx
           Others == queue' = queue /\ answer' = answer /\ past' \subseteq Mergers
           Conned == conn' \in [Conns -> Connection] /\ StatesKept(r) /\ done' \subseteq Write
           Moved == \E pc \in LocalPcs : Moves(r, pc)
<1>q. ASSUME At, Others, Conned, StraysType', Moved
      PROVE  /\ req[r].client # None /\ ~Waiting(req[r]) /\ req[r].pc \notin {"ended", "failed"}
             /\ \E pc \in LocalPcs : Moves(r, pc)
             /\ queue' = queue /\ answer' = answer
             /\ conn' \in [Conns -> Connection] /\ StatesKept(r)
             /\ done' \subseteq Write /\ past' \subseteq Mergers /\ StraysType'
  BY <1>q, <1>c, <1>t DEF Waiting, InTx, InMerge, InGraphql
\* a statement that runs or fails, and nothing else about the connection
<1>r. ASSUME NEW c \in Conns, NEW writes \in SUBSET Write, Takes(c, writes) \/ Breaks(c)
      PROVE  Conned
  BY <1>r, Runs DEF StatesKept
<1>g. ASSUME NEW pc \in LocalPcs, Goto(r, pc), Pcs(r, pc), req[r].job # None => pc \in {"ok", "failed"}
      PROVE  Moved
  BY <1>g DEF Goto, Moves
<1>u. ASSUME NEW c \in Conns, Sent(c), over' = over, left' = left
      PROVE  StraysType'
  BY <1>u, <1>t DEF Sent, StraysType
<1>o. ASSUME NEW c \in Conns, Sent(c), left' = left,
             NEW f \in Statements \cup Files, over' = [over EXCEPT ![r] = @ \cup {f}]
      PROVE  StraysType'
  BY <1>o, <1>t DEF Sent, StraysType
<1>p. LocalPcs = {"run", "addJob", "beside", "delete", "ok", "failed", "silent",
                  "check", "nonce", "savepoint", "rows", "accounts", "commit", "undo", "keep", "graphql"}
  BY DEF LocalPcs, InTx, InMerge, InGraphql
<1>x. InTx = {"check", "nonce", "savepoint", "rows", "accounts", "commit", "undo", "keep", "graphql"}
  BY DEF InTx, InMerge, InGraphql
<1> HIDE DEF At, Others, Conned, Moved
<1>1. ASSUME NEW s \in Statements, Statement(r, s) PROVE At /\ Others /\ Conned /\ StraysType' /\ Moved
  <2>1. At /\ Others /\ req[r].client \in Conns
    BY <1>1, <1>t, <1>c DEF At, Others, Statement
  <2>2. Conned /\ StraysType'
    BY <1>1, <1>r, <1>w, <1>o, <2>1 DEF Statement, Succeeds
  <2>3. PICK pc \in {"run", "addJob", "ok"} : Goto(r, pc) /\ (pc = "addJob" => r \in Mailers)
    BY <1>1 DEF Statement
  <2>4. Moved
    <3>1. pc \in LocalPcs /\ Pcs(r, pc) /\ req[r].job = None
      BY <1>1, <1>c, <1>p, <2>3 DEF Pcs, Statement
    <3> QED
      BY <1>g, <2>3, <3>1
  <2> QED
    BY <2>1, <2>2, <2>4
<1>2. ASSUME LastStatement(r) PROVE At /\ Others /\ Conned /\ StraysType' /\ Moved
  <2>1. At /\ Others /\ (req[r].pc = "job" => req[r].job \in Conns) /\ (req[r].pc = "delete" => req[r].client \in Conns)
    BY <1>2, <1>t, <1>c DEF At, Others, LastStatement
  <2>2. Conned /\ StraysType'
    BY <1>2, <1>r, <1>w, <1>u, <2>1 DEF LastStatement, Succeeds
  <2>3. Moved
    BY <1>2, <1>g, <1>p DEF LastStatement, Pcs
  <2> QED
    BY <2>1, <2>2, <2>3
<1>3. ASSUME StatementFails(r) PROVE At /\ Others /\ Conned /\ StraysType' /\ Moved
  <2>1. At /\ Others /\ (req[r].pc = "job" => req[r].job \in Conns) /\ (req[r].pc # "job" => req[r].client \in Conns)
    BY <1>3, <1>t, <1>c DEF At, Others, StatementFails
  <2>2. Conned /\ StraysType'
    BY <1>3, <1>r, <1>v, <1>u, <2>1 DEF StatementFails, Fails
  <2>3. Moved
    BY <1>3, <1>g, <1>p DEF StatementFails, Pcs
  <2> QED
    BY <2>1, <2>2, <2>3
<1>4. ASSUME NoEmails(r) PROVE At /\ Others /\ Conned /\ StraysType' /\ Moved
  <2>1. At /\ Others /\ req[r].job = None
    BY <1>4, <1>t, <1>c DEF At, Others, NoEmails
  <2>2. Conned /\ StraysType'
    BY <1>4, <1>t DEF NoEmails, strays, StraysType, Conned, StatesKept
  <2>3. Moved
    BY <1>4, <1>g, <1>p, <2>1 DEF NoEmails, Pcs
  <2> QED
    BY <2>1, <2>2, <2>3
<1>5. ASSUME FindPost(r) PROVE At /\ Others /\ Conned /\ StraysType' /\ Moved
  <2>1. At /\ Others /\ req[r].client \in Conns /\ req[r].job = None
    BY <1>5, <1>t, <1>c DEF At, Others, FindPost
  <2>2. Conned /\ StraysType'
    BY <1>5, <1>r, <1>v, <1>u, <2>1 DEF FindPost, Succeeds
  <2>3. Moved
    BY <1>5, <1>g, <1>p, <2>1 DEF FindPost, Pcs
  <2> QED
    BY <2>1, <2>2, <2>3
<1>6. ASSUME NEW f \in Files, DeleteFile(r, f) PROVE At /\ Others /\ Conned /\ StraysType' /\ Moved
  <2>1. At /\ Others /\ req[r].client \in Conns /\ req[r].job = None /\ r \in Deleters
    BY <1>6, <1>t, <1>c DEF At, Others, DeleteFile, Pcs
  <2>2. Conned /\ StraysType'
    BY <1>6, <1>r, <1>w, <1>o, <2>1 DEF DeleteFile, Succeeds
  <2>3. Moved
    BY <1>6, <1>g, <1>p, <2>1 DEF DeleteFile, Pcs
  <2> QED
    BY <2>1, <2>2, <2>3
<1>7. ASSUME NEW f \in Files, DeleteFileFails(r, f) PROVE At /\ Others /\ Conned /\ StraysType' /\ Moved
  <2>1. At /\ Others /\ req[r].client \in Conns /\ req[r].job = None /\ r \in Deleters
    BY <1>7, <1>t, <1>c DEF At, Others, DeleteFileFails, Pcs
  <2>2. Conned
    BY <1>7, <1>r, <1>v, <2>1 DEF DeleteFileFails
  <2>3. StraysType'
    <3>1. over' = [over EXCEPT ![r] = over[r] \cup {f}] /\ passed' = passed \ {req[r].client}
      BY <1>7 DEF DeleteFileFails
    <3>2. over' \in [Requests -> SUBSET (Statements \cup Files)] /\ passed' \subseteq Conns
      BY <1>t, <3>1 DEF StraysType
    <3>3. left' = [left EXCEPT ![req[r].client] = {r} \X (Files \ over'[r])]
      BY <1>7 DEF DeleteFileFails
    <3>4. {r} \X (Files \ over'[r]) \subseteq Deleters \X Files
      BY <2>1
    <3>5. left' \in [Conns -> SUBSET (Deleters \X Files)]
      BY <1>t, <3>3, <3>4 DEF StraysType
    <3> QED
      BY <3>2, <3>5 DEF StraysType
  <2>4. Moved
    BY <1>7, <1>g, <1>p, <2>1 DEF DeleteFileFails, Pcs
  <2> QED
    BY <2>1, <2>2, <2>3, <2>4
<1>8. ASSUME Resolve(r) \/ ResolveFails(r) PROVE At /\ Others /\ Conned /\ StraysType' /\ Moved
  <2>1. At /\ Others /\ req[r].client \in Conns /\ req[r].job = None /\ r \in Graphql
    BY <1>8, <1>t, <1>c, <1>x DEF At, Others, Resolve, ResolveFails, Pcs
  <2>2. Conned
    <3>1. CASE Resolve(r)
      BY <1>r, <1>v, <2>1, <3>1 DEF Resolve, Succeeds
    <3>2. CASE ResolveFails(r)
      <4>1. PICK tx \in {"aborted", conn[req[r].client].tx} : conn' = [conn EXCEPT ![req[r].client].tx = tx]
        BY <3>2 DEF ResolveFails
      <4>2. tx \in {"none", "open", "aborted"} /\ done' = done
        BY <1>t, <2>1, <3>2 DEF ResolveFails, Connection
      <4> QED
        BY <1>t, <2>1, <4>1, <4>2 DEF Conned, StatesKept, Connection
    <3> QED
      BY <1>8, <3>1, <3>2
  <2>3. StraysType'
    BY <1>8, <1>u, <2>1 DEF Resolve, ResolveFails, Succeeds
  <2>4. Moved
    BY <1>8, <1>g, <1>p, <2>1 DEF Resolve, ResolveFails, Pcs, Txs
  <2> QED
    BY <2>1, <2>2, <2>3, <2>4
<1>9. ASSUME Begin(r) PROVE At /\ Others /\ Conned /\ StraysType' /\ Moved
  <2>1. At /\ Others /\ req[r].client \in Conns /\ req[r].job = None
    BY <1>9, <1>t, <1>c DEF At, Others, Begin
  <2>2. Conned
    BY <1>9, <1>t, <2>1 DEF Begin, Conned, StatesKept, Connection
  <2>3. StraysType'
    BY <1>9, <1>u, <2>1 DEF Begin
  <2>4. Moved
    BY <1>9, <1>g, <1>p, <2>1 DEF Begin, Pcs
  <2> QED
    BY <2>1, <2>2, <2>3, <2>4
<1>10. ASSUME Savepoint(r) PROVE At /\ Others /\ Conned /\ StraysType' /\ Moved
  <2>1. At /\ Others /\ req[r].client \in Conns /\ req[r].job = None /\ r \in Mergers
    BY <1>10, <1>t, <1>c, <1>x DEF At, Others, Savepoint, Pcs
  <2>a. conn[req[r].client] \in Connection
    BY <1>t, <2>1
  <2>b. /\ conn' = [conn EXCEPT ![req[r].client] =
                       [conn[req[r].client] EXCEPT !.savepoint = TRUE, !.saved = conn[req[r].client].work]]
        /\ done' = done
    BY <1>10, <1>t, <2>1 DEF Savepoint
  <2>2. Conned
    BY <1>t, <2>1, <2>a, <2>b DEF Conned, StatesKept, Connection
  <2>3. StraysType'
    BY <1>10, <1>u, <2>1 DEF Savepoint
  <2>4. Moved
    BY <1>10, <1>g, <1>p, <2>1 DEF Savepoint, Pcs
  <2> QED
    BY <2>1, <2>2, <2>3, <2>4
<1>11. ASSUME Check(r) \/ WriteNonce(r) \/ Migrate(r) \/ Refuse(r)
       PROVE  At /\ Others /\ Conned /\ StraysType' /\ Moved
  <2>1. At /\ Others /\ req[r].client \in Conns /\ req[r].job = None /\ r \in Mergers
    BY <1>11, <1>t, <1>c, <1>x DEF At, Others, Check, WriteNonce, Migrate, Refuse, Pcs
  <2>2. \E writes \in SUBSET Write : Succeeds(req[r].client, writes)
    BY <1>11, <1>v, <1>w DEF Check, WriteNonce, Migrate, Refuse, MergeParts
  <2>3. Conned /\ StraysType'
    BY <1>11, <1>r, <1>u, <2>1, <2>2 DEF Check, WriteNonce, Migrate, Refuse, Succeeds
  <2>4. \E pc \in {"nonce", "savepoint", "accounts", "commit", "undo"} : Goto(r, pc)
    BY <1>11 DEF Check, WriteNonce, Migrate, Refuse
  <2>5. Moved
    BY <1>g, <1>p, <2>1, <2>4 DEF Pcs, Txs
  <2> QED
    BY <2>1, <2>3, <2>5
<1>12. ASSUME MergeStatementFails(r) \/ RollbackToFails(r)
       PROVE  At /\ Others /\ Conned /\ StraysType' /\ Moved
  <2>1. At /\ Others /\ req[r].client \in Conns /\ req[r].job = None /\ r \in Mergers
    BY <1>12, <1>t, <1>c, <1>x DEF At, Others, MergeStatementFails, RollbackToFails, Pcs
  <2>2. Conned /\ StraysType'
    BY <1>12, <1>r, <1>v, <1>u, <2>1 DEF MergeStatementFails, RollbackToFails, Fails
  <2>3. \E pc \in {"undo", "failed"} : Goto(r, pc)
    BY <1>12 DEF MergeStatementFails, RollbackToFails
  <2>4. Moved
    BY <1>g, <1>p, <2>1, <2>3 DEF Pcs
  <2> QED
    BY <2>1, <2>2, <2>4
<1>13. ASSUME Commit(r) PROVE At /\ Others /\ Conned /\ StraysType' /\ Moved
  <2>1. At /\ Others /\ req[r].client \in Conns /\ req[r].job = None
    BY <1>13, <1>t, <1>c, <1>x DEF At, Others, Commit
  <2>2. Conned
    <3>1. [Closed EXCEPT !.state = "busy"] \in Connection /\ [Closed EXCEPT !.state = "busy"].state = "busy"
      BY DEF Closed, Connection
    <3>2. conn' = [conn EXCEPT ![req[r].client] = [Closed EXCEPT !.state = "busy"]]
      BY <1>13 DEF Commit
    <3>3. done' \subseteq Write
      <4>1. conn[req[r].client].work \subseteq Write
        BY <1>t, <2>1 DEF Connection
      <4> QED
        BY <1>13, <1>t, <4>1 DEF Commit
    <3> QED
      BY <1>t, <2>1, <3>1, <3>2, <3>3 DEF Conned, StatesKept
  <2>3. StraysType'
    BY <1>13, <1>u, <2>1 DEF Commit
  <2>4. Moved
    BY <1>13, <1>g, <1>p, <2>1 DEF Commit, Pcs
  <2> QED
    BY <2>1, <2>2, <2>3, <2>4
<1>14. ASSUME RollbackTo(r) PROVE At /\ Others /\ Conned /\ StraysType' /\ Moved
  <2>1. At /\ Others /\ req[r].client \in Conns /\ req[r].job = None /\ r \in Mergers
    BY <1>14, <1>t, <1>c, <1>x DEF At, Others, RollbackTo, Pcs
  <2>a. conn[req[r].client] \in Connection
    BY <1>t, <2>1
  <2>2. Conned
    BY <1>14, <1>t, <2>1, <2>a DEF RollbackTo, Conned, StatesKept, Connection
  <2>3. StraysType'
    BY <1>14, <1>u, <2>1 DEF RollbackTo
  <2>4. Moved
    BY <1>14, <1>g, <1>p, <2>1 DEF RollbackTo, Pcs, Txs
  <2> QED
    BY <2>1, <2>2, <2>3, <2>4
<1>15. At /\ Others /\ Conned /\ StraysType' /\ Moved
  BY <1>1, <1>2, <1>3, <1>4, <1>5, <1>6, <1>7, <1>8, <1>9, <1>10, <1>11, <1>12, <1>13, <1>14 DEF Local
<1> QED
  BY <1>q, <1>15

\* A statement that was left behind moves no request.
LEMMA LeftStep ==
  ASSUME TypeInv, NEW c \in Conns, NEW w \in left[c], LeftRuns(c, w)
  PROVE  /\ conn' \in [Conns -> Connection] /\ \A d \in Conns : conn'[d].state = conn[d].state
         /\ done' \subseteq Write /\ StraysType'
         /\ queue' = queue /\ req' = req /\ answer' = answer /\ past' = past /\ over' = over
<1>1. /\ left \in [Conns -> SUBSET (Deleters \X Files)] /\ passed \subseteq Conns
      /\ over \in [Requests -> SUBSET (Statements \cup Files)]
  BY DEF TypeInv, TypeOK
<1>2. {w} \in SUBSET Write
  BY <1>1 DEF Write, Requests
<1>3. conn' \in [Conns -> Connection] /\ (\A d \in Conns : conn'[d].state = conn[d].state) /\ done' \subseteq Write
  <2>1. CASE Takes(c, {w}) \/ Breaks(c)
    BY <1>2, <2>1, Runs
  <2>2. CASE UNCHANGED <<conn, done>>
    BY <2>2 DEF TypeInv, TypeOK
  <2> QED
    BY <2>1, <2>2 DEF LeftRuns
<1>4. left' \in [Conns -> SUBSET (Deleters \X Files)] /\ passed' \subseteq Conns
  BY <1>1 DEF LeftRuns
<1> QED
  BY <1>1, <1>3, <1>4 DEF LeftRuns, StraysType

LEMMA InitType == Init => TypeInv
  BY DEF Init, TypeInv, TypeOK, QueueOK, KindsOK, Pcs, Connection, Request, InMerge, InGraphql, Closed

LEMMA NextType == TypeInv /\ [Next]_vars => TypeInv'
<1> SUFFICES ASSUME TypeInv, [Next]_vars PROVE TypeInv'
  OBVIOUS
<1> USE DEF TypeInv
<1>t. /\ req \in [Requests -> Request] /\ conn \in [Conns -> Connection]
      /\ None \notin Conns
  BY ConstantsAssumption DEF TypeOK
<1>1. ASSUME NEW r \in Requests, Connect(r) PROVE TypeInv'
  <2>1. CASE OpenFails(r)
    <3>1. queue' \in Seq(Requests) /\ QueueOK'
      BY <1>t, <2>1, QueueSame DEF OpenFails, Connecting, Goto, Waiting
    <3> QED
      BY <2>1, <3>1 DEF OpenFails, Connecting, Goto, TypeOK, KindsOK, Pcs, strays, Request, InMerge, InGraphql
  <2>2. CASE Wait(r)
    <3>1. queue' \in Seq(Requests) /\ QueueOK'
      BY <1>t, <2>2, QueueAppend DEF Wait, Connecting, Goto, Waiting
    <3> QED
      BY <2>2, <3>1 DEF Wait, Connecting, Goto, TypeOK, KindsOK, Pcs, strays, Request, InMerge, InGraphql
  <2>3. ASSUME NEW c \in Conns, TakeIdle(r, c) \/ OpenNew(r, c) PROVE TypeInv'
    <3>1. queue' \in Seq(Requests) /\ QueueOK'
      BY <1>t, <2>3, QueueSame DEF TakeIdle, OpenNew, Connecting, Waiting
    <3>2. conn' \in [Conns -> Connection]
      BY <1>t, <2>3 DEF TakeIdle, OpenNew, Connection
    <3>3. /\ req[r] \in Request /\ KindOK(r, req[r]) /\ req[r].pc \in {"new", "addJob"}
          /\ req' = [req EXCEPT ![r] = Granted(req[r], c)]
      BY <2>3, KindsCollected DEF TakeIdle, OpenNew, Connecting
    <3>4. Granted(req[r], c) \in Request /\ KindOK(r, Granted(req[r], c))
      BY <3>3, GrantedKind
    <3>5. req' \in [Requests -> Request] /\ \A s \in Requests : KindOK(s, req'[s])
      BY <1>t, <3>3, <3>4, KindsCollected
    <3> QED
      BY <2>3, <3>1, <3>2, <3>5, KindsCollected DEF TakeIdle, OpenNew, TypeOK, strays, StraysType
  <2> QED
    BY <1>1, <2>1, <2>2, <2>3 DEF Connect
<1>3. ASSUME NEW r \in Requests, ReleaseJob(r) PROVE TypeInv'
  <2> DEFINE q == [req[r] EXCEPT !.job = None]
  <2>1. q \in Request /\ ~Waiting(q) /\ ~Waiting(req[r]) /\ req[r].job \in Conns
    BY <1>3, <1>t DEF ReleaseJob, Request, Waiting
  <2>2. [req EXCEPT ![r].job = None] = [req EXCEPT ![r] = q]
    BY <1>t
  <2>3. Release(req[r].job, [req EXCEPT ![r] = q])
    BY <1>3, <2>2 DEF ReleaseJob
  <2>4. /\ conn' \in [Conns -> Connection] /\ req' \in [Requests -> Request]
        /\ queue' \in Seq(Requests) /\ QueueOK' /\ req'[r] = q
        /\ \A s \in Requests \ {r} :
              \/ req'[s] = req[s]
              \/ Waiting(req[s]) /\ req'[s] = Granted(req[s], req[r].job)
    BY <2>1, <2>3, ReleaseType
  <2>5. KindOK(r, q)
    BY <1>3, <1>t, KindsCollected DEF ReleaseJob, KindOK, Pcs, Request, InMerge, InGraphql
  <2>6. \A s \in Requests : KindOK(s, req'[s])
    BY <2>1, <2>4, <2>5, KindsCollected, GrantedKind DEF Waiting
  <2> QED
    BY <1>3, <2>4, <2>6, KindsCollected DEF ReleaseJob, TypeOK, strays, StraysType
<1>4. ASSUME NEW r \in Requests, Answer(r) PROVE TypeInv'
  <2> DEFINE q == [req[r] EXCEPT !.pc = "ended", !.client = None]
  <2>1. q \in Request /\ ~Waiting(q) /\ ~Waiting(req[r])
    BY <1>4, <1>t DEF Answer, Request, Waiting
  <2>2. [req EXCEPT ![r].pc = "ended", ![r].client = None] = [req EXCEPT ![r] = q]
    BY <1>t
  <2>3. answer' \in [Requests -> {"none", "ok", "failed"}]
    BY <1>4 DEF Answer, TypeOK
  <2>4. CASE req[r].client = None
    <3>1. req' = [req EXCEPT ![r] = q] /\ conn' = conn /\ queue' = queue
      BY <1>4, <2>2, <2>4 DEF Answer
    <3>2. queue' \in Seq(Requests) /\ QueueOK'
      BY <1>t, <2>1, <3>1, QueueSame
    <3> QED
      BY <1>4, <1>t, <2>1, <2>3, <3>1, <3>2 DEF Answer, TypeOK, KindsOK, Pcs, strays, InMerge, InGraphql
  <2>5. CASE req[r].client # None
    <3>1. Release(req[r].client, [req EXCEPT ![r] = q]) /\ req[r].client \in Conns
      BY <1>4, <1>t, <2>2, <2>5 DEF Answer, Request
    <3>2. /\ conn' \in [Conns -> Connection] /\ req' \in [Requests -> Request]
          /\ queue' \in Seq(Requests) /\ QueueOK' /\ req'[r] = q
          /\ \A s \in Requests \ {r} :
                \/ req'[s] = req[s]
                \/ Waiting(req[s]) /\ req'[s] = Granted(req[s], req[r].client)
      BY <2>1, <3>1, ReleaseType
    <3>3. KindOK(r, q)
      BY <1>4, <1>t, KindsCollected DEF Answer, KindOK, Pcs, Request, InMerge, InGraphql
    <3>4. \A s \in Requests : KindOK(s, req'[s])
      BY <2>1, <3>1, <3>2, <3>3, KindsCollected, GrantedKind DEF Waiting
    <3> QED
      BY <1>4, <2>3, <3>2, <3>4, KindsCollected DEF Answer, TypeOK, strays, StraysType
  <2> QED
    BY <2>4, <2>5
<1>5. ASSUME NEW r \in Requests, Local(r) PROVE TypeInv'
  <2>1. /\ req[r].client # None /\ ~Waiting(req[r])
        /\ queue' = queue /\ answer' = answer
        /\ conn' \in [Conns -> Connection]
        /\ done' \subseteq Write /\ past' \subseteq Mergers /\ StraysType'
    BY <1>5, LocalStep
  <2>2. PICK pc \in LocalPcs : Moves(r, pc)
    BY <1>5, LocalStep
  <2>3. queue' \in Seq(Requests) /\ QueueOK'
    BY <1>t, <2>1, <2>2, QueueSame DEF Moves
  <2>4. req' \in [Requests -> Request] /\ \A s \in Requests : s # r => req'[s] = req[s]
    BY <1>t, <2>2 DEF Moves, LocalPcs, Request, InTx, InMerge, InGraphql
  <2>5. req'[r].pc = pc /\ req'[r].client = req[r].client /\ req'[r].job = req[r].job
    BY <1>t, <2>2 DEF Moves
  <2>6. KindsOK'
    BY <2>1, <2>2, <2>4, <2>5 DEF KindsOK, Moves, LocalPcs, InTx, InMerge, InGraphql
  <2>7. \A x \in Requests : req'[x].job # None => x \in Mailers /\ req'[x].pc \in {"job", "ok", "failed"}
    BY <2>1, <2>2, <2>4, <2>5 DEF TypeOK, Moves
  <2> QED
    BY <1>t, <2>1, <2>3, <2>4, <2>5, <2>6, <2>7 DEF TypeOK, StraysType
<1>6. ASSUME NEW c \in Conns, IdleTimeout(c) PROVE TypeInv'
  <2>1. queue' \in Seq(Requests) /\ QueueOK'
    BY <1>6, QueueSame DEF IdleTimeout
  <2>2. conn' \in [Conns -> Connection]
    BY <1>6, <1>t DEF IdleTimeout, Connection, Closed
  <2>3. left' \in [Conns -> SUBSET (Deleters \X Files)] /\ passed' \subseteq Conns
    BY <1>6 DEF IdleTimeout, TypeOK
  <2> QED
    BY <1>6, <2>1, <2>2, <2>3 DEF IdleTimeout, TypeOK, KindsOK
<1>8. ASSUME NEW c \in Conns, Leftover(c) PROVE TypeInv'
  <2>1. /\ conn' \in [Conns -> Connection] /\ done' \subseteq Write /\ StraysType'
        /\ queue' = queue /\ req' = req /\ answer' = answer /\ past' = past
    BY <1>8, LeftStep DEF Leftover
  <2>2. queue' \in Seq(Requests) /\ QueueOK'
    BY <2>1, QueueSame
  <2> QED
    BY <2>1, <2>2 DEF TypeOK, KindsOK, StraysType
<1>7. CASE UNCHANGED vars
  <2>1. queue' \in Seq(Requests) /\ QueueOK'
    BY <1>7, QueueSame DEF vars
  <2> QED
    BY <1>7, <2>1 DEF vars, TypeOK, KindsOK
<1> QED
  BY <1>1, <1>3, <1>4, <1>5, <1>6, <1>7, <1>8 DEF Next, Step, Local, AllEnded

\* Every variable keeps its type, and a connection is only named by a request
\* that has checked it out.
THEOREM TypeCorrect == Spec => []TypeOK
<1>1. Spec => []TypeInv
  BY InitType, NextType, PTL DEF Spec
<1>2. TypeInv => TypeOK
  BY DEF TypeInv
<1> QED
  BY <1>1, <1>2, PTL

-----------------------------------------------------------------------------
(* Who holds which connection *)

Holds(r, c) == c \in {req[r].client, req[r].job}

OwnedInv ==
  /\ \A r \in Requests, c \in Conns : Holds(r, c) => conn[c].state = "busy"
  /\ \A r, s \in Requests, c \in Conns : Holds(r, c) /\ Holds(s, c) => r = s
  /\ \A c \in Conns : conn[c].state = "busy" => \E r \in Requests : Holds(r, c)
  /\ \A r \in Requests : req[r].client \in Conns => req[r].client # req[r].job
  /\ queue # <<>> => \A c \in Conns : conn[c].state = "busy"

LEMMA OwnedMeaning == ASSUME OwnedInv PROVE ConnectionsOwned
<1>1. ASSUME NEW c \in Conns, conn[c].state = "busy"
      PROVE  \E r \in Requests : Holders(c) = {r}
  <2>1. PICK r \in Requests : Holds(r, c)
    BY <1>1 DEF OwnedInv
  <2>2. \A s \in Requests : Holds(s, c) => s = r
    BY <2>1 DEF OwnedInv
  <2>3. Holders(c) = {r}
    BY <2>1, <2>2 DEF Holders, Holds
  <2> QED
    BY <2>3
<1>2. ASSUME NEW c \in Conns, conn[c].state # "busy"
      PROVE  Holders(c) = {}
  BY <1>2 DEF OwnedInv, Holders, Holds
<1> QED
  BY <1>1, <1>2 DEF OwnedInv, ConnectionsOwned

\* Holders do not change and no connection changes its state, so nothing does,
LEMMA OwnedSame ==
  ASSUME OwnedInv, queue' = queue \/ \A c \in Conns : conn[c].state = "busy",
         \A c \in Conns : conn'[c].state = "busy" <=> conn[c].state = "busy",
         \A s \in Requests : req'[s].client = req[s].client /\ req'[s].job = req[s].job
  PROVE  OwnedInv'
  BY DEF OwnedInv, Holds

\* a request takes a connection nobody holds,
LEMMA OwnedTake ==
  ASSUME TypeInv, OwnedInv, NEW r \in Requests, NEW c \in Conns,
         req[r].pc \in {"new", "addJob"}, conn[c].state # "busy",
         conn' = [conn EXCEPT ![c].state = "busy"],
         req' = [req EXCEPT ![r] = Granted(req[r], c)], queue' = queue
  PROVE  OwnedInv'
<1>1. /\ req \in [Requests -> Request] /\ conn \in [Conns -> Connection] /\ None \notin Conns
      /\ req[r] \in Request /\ KindOK(r, req[r])
  BY ConstantsAssumption, KindsCollected DEF TypeInv, TypeOK
<1>2. req[r].job = None /\ (req[r].pc = "new" => req[r].client = None)
  BY <1>1 DEF KindOK, Request
<1>3. \A d \in Conns : conn'[d].state = IF d = c THEN "busy" ELSE conn[d].state
  BY <1>1 DEF Connection
<1>4. \A s \in Requests, d \in Conns : Holds(s, d)' <=> Holds(s, d) \/ (s = r /\ d = c)
  <2>1. \A s \in Requests : s # r => req'[s] = req[s]
    BY <1>1
  <2>2. req'[r] = Granted(req[r], c)
    BY <1>1
  <2>3. Granted(req[r], c) = IF req[r].pc = "new" THEN [pc |-> "run", client |-> c, job |-> req[r].job]
                                                 ELSE [pc |-> "job", client |-> req[r].client, job |-> c]
    BY <1>1, GrantedKind
  <2> QED
    BY <1>1, <1>2, <2>1, <2>2, <2>3 DEF Holds
<1>5. \A s \in Requests : ~Holds(s, c)
  BY DEF OwnedInv
<1>6. \A s \in Requests : req'[s].client \in Conns => req'[s].client # req'[s].job
  <2>1. \A s \in Requests : s # r => req'[s] = req[s]
    BY <1>1
  <2>2. req'[r] = IF req[r].pc = "new" THEN [pc |-> "run", client |-> c, job |-> req[r].job]
                                       ELSE [pc |-> "job", client |-> req[r].client, job |-> c]
    BY <1>1, GrantedKind
  <2> QED
    BY <1>1, <1>2, <1>5, <2>1, <2>2 DEF OwnedInv, Holds
<1>7. queue' # <<>> => FALSE
  BY DEF OwnedInv
<1> QED
  BY <1>3, <1>4, <1>5, <1>6, <1>7 DEF OwnedInv

\* and a release leaves the connection to nobody, or to the first that waits.
LEMMA OwnedRelease ==
  ASSUME TypeInv, OwnedInv, NEW r \in Requests, ~Waiting(req[r]), NEW c \in Conns, NEW q \in Request,
         Holds(r, c), {q.client, q.job} \cap Conns = ({req[r].client, req[r].job} \ {c}) \cap Conns,
         q.client \in Conns => q.client # q.job,
         ~Waiting(q), Release(c, [req EXCEPT ![r] = q])
  PROVE  OwnedInv'
<1> DEFINE requests == [req EXCEPT ![r] = q]
<1>0. req \in [Requests -> Request] /\ conn \in [Conns -> Connection] /\ None \notin Conns
  BY ConstantsAssumption DEF TypeInv, TypeOK
<1>a. requests \in [Requests -> Request] /\ requests[r] = q /\ \A s \in Requests \ {r} : requests[s] = req[s]
  BY <1>0
<1>b. conn[c].state = "busy" /\ \A s \in Requests : Holds(s, c) => s = r
  BY DEF OwnedInv
<1>c. \A d \in Conns : d \in {q.client, q.job} <=> Holds(r, d) /\ d # c
  BY DEF Holds
<1>1. CASE Served(c, requests) /\ queue # <<>>
  <2>0. PICK h \in Requests : h = Head(queue)
    BY <1>1 DEF Served
  <2>1. h \in Requests /\ h # r /\ Waiting(req[h]) /\ conn' = conn
    BY <1>1, <2>0 DEF Served
  <2>2. req' = [requests EXCEPT ![h] = Granted(req[h], c)]
    BY <1>1, <1>a, <2>0, <2>1 DEF Served
  <2>3. /\ req'[h] = Granted(req[h], c) /\ req'[r] = q
        /\ \A s \in Requests : s # r /\ s # h => req'[s] = req[s]
    BY <1>a, <2>1, <2>2
  <2>4. /\ req[h] \in Request /\ KindOK(h, req[h])
        /\ req[h].job = None /\ (req[h].pc = "waiting" => req[h].client = None)
    BY <2>1, KindsCollected DEF KindOK, Waiting
  <2>5. req'[h] = IF req[h].pc = "waiting" THEN [pc |-> "run", client |-> c, job |-> req[h].job]
                                           ELSE [pc |-> "job", client |-> req[h].client, job |-> c]
    BY <2>1, <2>3, <2>4, GrantedKind DEF Waiting
  <2>6. /\ req'[h].client = IF req[h].pc = "waiting" THEN c ELSE req[h].client
        /\ req'[h].job = IF req[h].pc = "waiting" THEN req[h].job ELSE c
    BY <2>5
  <2>7. \A d \in Conns : Holds(h, d)' <=> Holds(h, d) \/ d = c
    BY <1>0, <2>4, <2>6 DEF Holds
  <2>8. ~Holds(h, c)
    BY <1>b, <2>1
  <2>9. \A s \in Requests, d \in Conns : Holds(s, d)' <=> (Holds(s, d) /\ d # c) \/ (s = h /\ d = c)
    <3>1. \A d \in Conns : Holds(r, d)' <=> Holds(r, d) /\ d # c
      BY <1>c, <2>3 DEF Holds
    <3>2. \A s \in Requests : s # r /\ s # h => \A d \in Conns : Holds(s, d)' <=> Holds(s, d) /\ d # c
      BY <1>b, <2>3 DEF Holds
    <3> QED
      BY <2>1, <2>7, <2>8, <3>1, <3>2
  <2>10. \A s \in Requests : req'[s].client \in Conns => req'[s].client # req'[s].job
    <3>1. req'[h].client \in Conns => req'[h].client # req'[h].job
      BY <1>0, <2>4, <2>6, <2>8 DEF Holds
    <3> QED
      BY <2>3, <3>1 DEF OwnedInv
  <2>11. \A s, t \in Requests, d \in Conns : Holds(s, d)' /\ Holds(t, d)' => s = t
    BY <2>9 DEF OwnedInv
  <2>12. \A d \in Conns : conn'[d].state = "busy" => \E s \in Requests : Holds(s, d)'
    BY <2>1, <2>9 DEF OwnedInv
  <2>13. \A s \in Requests, d \in Conns : Holds(s, d)' => conn'[d].state = "busy"
    BY <1>b, <2>1, <2>9 DEF OwnedInv
  <2>14. \A d \in Conns : conn'[d].state = "busy"
    BY <1>1, <2>1 DEF OwnedInv
  <2> QED
    BY <2>10, <2>11, <2>12, <2>13, <2>14 DEF OwnedInv
<1>2. CASE Unserved(c, requests)
  <2>1. req'[r] = q /\ \A s \in Requests : s # r => req'[s] = req[s]
    BY <1>2, <1>a DEF Unserved
  <2>2. \A d \in Conns : conn'[d].state = IF d = c THEN "idle" ELSE conn[d].state
    BY <1>0, <1>2 DEF Unserved, Connection
  <2>3. \A s \in Requests, d \in Conns : Holds(s, d)' <=> Holds(s, d) /\ d # c
    BY <1>b, <1>c, <2>1 DEF Holds
  <2>4. queue' = <<>>
    BY <1>2 DEF Unserved
  <2>5. \A s \in Requests : req'[s].client \in Conns => req'[s].client # req'[s].job
    BY <2>1 DEF OwnedInv
  <2> QED
    BY <2>2, <2>3, <2>4, <2>5 DEF OwnedInv
<1> QED
  BY <1>1, <1>2, ReleaseCases

\* Both requests that release: addJob's, and the answer.
LEMMA ReleaseJobOwned ==
  ASSUME TypeInv, OwnedInv, NEW r \in Requests, ReleaseJob(r)
  PROVE  OwnedInv'
<1> DEFINE q == [req[r] EXCEPT !.job = None]
<1>0. req \in [Requests -> Request] /\ req[r] \in Request /\ None \notin Conns
  BY ConstantsAssumption DEF TypeInv, TypeOK
<1>1. q \in Request /\ ~Waiting(q) /\ ~Waiting(req[r]) /\ req[r].job \in Conns
  BY <1>0 DEF ReleaseJob, Request, Waiting
<1>2. q.client = req[r].client /\ q.job = None
  BY <1>0 DEF Request
<1>3. Release(req[r].job, [req EXCEPT ![r] = q])
  <2>1. [req EXCEPT ![r].job = None] = [req EXCEPT ![r] = q]
    BY <1>0
  <2> QED
    BY <2>1 DEF ReleaseJob
<1>4. /\ Holds(r, req[r].job) /\ q.client \in Conns => q.client # q.job
      /\ {q.client, q.job} \cap Conns = ({req[r].client, req[r].job} \ {req[r].job}) \cap Conns
  BY <1>0, <1>1, <1>2 DEF OwnedInv, Holds
<1> QED
  BY <1>0, <1>1, <1>2, <1>3, <1>4, OwnedRelease DEF Holds

LEMMA AnswerOwned ==
  ASSUME TypeInv, OwnedInv, NEW r \in Requests, Answer(r)
  PROVE  OwnedInv'
<1> DEFINE q == [req[r] EXCEPT !.pc = "ended", !.client = None]
<1>0. req \in [Requests -> Request] /\ req[r] \in Request /\ None \notin Conns
  BY ConstantsAssumption DEF TypeInv, TypeOK
<1>1. q \in Request /\ ~Waiting(q) /\ ~Waiting(req[r])
  BY <1>0 DEF Answer, Request, Waiting
<1>2. q.client = None /\ q.job = None /\ req[r].job = None
  BY <1>0 DEF Answer, Request
<1>3. [req EXCEPT ![r].pc = "ended", ![r].client = None] = [req EXCEPT ![r] = q]
  BY <1>0
<1>4. CASE req[r].client = None
  <2>1. req' = [req EXCEPT ![r] = q] /\ conn' = conn /\ queue' = queue
    BY <1>3, <1>4 DEF Answer
  <2>2. \A s \in Requests : req'[s].client = req[s].client /\ req'[s].job = req[s].job
    BY <1>0, <1>2, <1>4, <2>1
  <2> QED
    BY <2>1, <2>2, OwnedSame
<1>5. CASE req[r].client # None
  <2>1. Release(req[r].client, [req EXCEPT ![r] = q]) /\ req[r].client \in Conns
    BY <1>0, <1>3, <1>5 DEF Answer, Request
  <2>2. {q.client, q.job} \cap Conns = ({req[r].client, req[r].job} \ {req[r].client}) \cap Conns
    BY <1>0, <1>2
  <2> QED
    BY <1>0, <1>1, <1>2, <2>1, <2>2, OwnedRelease DEF Holds
<1> QED
  BY <1>4, <1>5

LEMMA NextOwned == TypeInv /\ OwnedInv /\ [Next]_vars => OwnedInv'
<1> SUFFICES ASSUME TypeInv, OwnedInv, [Next]_vars PROVE OwnedInv'
  OBVIOUS
<1>t. /\ req \in [Requests -> Request] /\ conn \in [Conns -> Connection]
      /\ None \notin Conns
  BY ConstantsAssumption DEF TypeInv, TypeOK
<1>1. ASSUME NEW r \in Requests, Connect(r) PROVE OwnedInv'
  <2>1. CASE OpenFails(r) \/ Wait(r)
    <3>0. \E pc : req' = [req EXCEPT ![r].pc = pc]
      BY <2>1 DEF OpenFails, Wait, Goto
    <3>1. \A s \in Requests : req'[s].client = req[s].client /\ req'[s].job = req[s].job
      BY <1>t, <3>0
    <3> QED
      BY <2>1, <3>1, OwnedSame DEF OpenFails, Wait
  <2>2. ASSUME NEW c \in Conns, TakeIdle(r, c) \/ OpenNew(r, c) PROVE OwnedInv'
    BY <2>2, OwnedTake DEF TakeIdle, OpenNew, Connecting
  <2> QED
    BY <1>1, <2>1, <2>2 DEF Connect
<1>2. ASSUME NEW r \in Requests, Local(r) PROVE OwnedInv'
  <2>1. /\ req[r].client \in Conns => conn[req[r].client].state = "busy"
        /\ queue' = queue /\ StatesKept(r)
    BY <1>2, LocalStep DEF OwnedInv, Holds
  <2>2. PICK pc \in LocalPcs : Moves(r, pc)
    BY <1>2, LocalStep
  <2>3. \A s \in Requests : req'[s].client = req[s].client /\ req'[s].job = req[s].job
    BY <1>t, <2>2 DEF Moves
  <2>4. \A c \in Conns : conn'[c].state = "busy" <=> conn[c].state = "busy"
    BY <2>1 DEF StatesKept
  <2> QED
    BY <2>1, <2>3, <2>4, OwnedSame
<1>3. ASSUME NEW c \in Conns, IdleTimeout(c) PROVE OwnedInv'
  <2>1. \A d \in Conns : conn'[d].state = "busy" <=> conn[d].state = "busy"
    BY <1>t, <1>3 DEF IdleTimeout, Closed
  <2> QED
    BY <1>3, <2>1, OwnedSame DEF IdleTimeout
<1>4. CASE UNCHANGED vars
  BY <1>4, OwnedSame DEF vars
<1>5. ASSUME NEW c \in Conns, Leftover(c) PROVE OwnedInv'
  <2>1. queue' = queue /\ req' = req /\ \A d \in Conns : conn'[d].state = conn[d].state
    BY <1>5, LeftStep DEF Leftover
  <2> QED
    BY <2>1, OwnedSame
<1> QED
  BY <1>1, <1>2, <1>3, <1>4, <1>5, ReleaseJobOwned, AnswerOwned DEF Next, Step, Local, AllEnded

\* Every connection that is checked out has one holder: none is lost, and none
\* is lent to two requests at once.
THEOREM ConnectionsAreOwned == Spec => []ConnectionsOwned
<1>1. Init => OwnedInv
  BY ConstantsAssumption DEF Init, OwnedInv, Holds, Closed
<1>2. Spec => [](TypeInv /\ OwnedInv)
  BY <1>1, InitType, NextType, NextOwned, PTL DEF Spec
<1>3. OwnedInv => ConnectionsOwned
  BY OwnedMeaning
<1> QED
  BY <1>2, <1>3, PTL

-----------------------------------------------------------------------------
(* The transaction of each connection *)

\* The writes of a request in a transaction, next to which there may be some that a
\* failed DELETE /posts left to it.
Carries(r, writes, parts) ==
  /\ {r} \X parts \subseteq writes
  /\ writes \subseteq {r} \X parts \cup Deleters \X Files
Quiet == {"nonce", "savepoint", "rows", "accounts", "commit", "keep"}

\* What the connection k of a merge carries, step by step, and that nothing is left
\* to run on it (rest) from its second statement on.
MergeState(r, pc, k, rest, gone) ==
  /\ pc \in Quiet => k.tx = "open"
  /\ pc = "nonce" => Carries(r, k.work, {}) /\ ~k.savepoint
  /\ pc = "savepoint" => Carries(r, k.work, {"nonce"}) /\ ~k.savepoint
  /\ pc \in {"rows", "accounts", "commit"} => k.savepoint /\ Carries(r, k.saved, {"nonce"})
  /\ pc \in {"rows", "keep"} => Carries(r, k.work, {"nonce"})
  /\ pc = "accounts" => Carries(r, k.work, {"nonce", "rows"})
  /\ pc = "commit" => Carries(r, k.work, MergeParts)
  /\ pc = "undo" => /\ k.savepoint <=> r \in gone
                    /\ k.savepoint => rest = {} /\ Carries(r, k.saved, {"nonce"})
  /\ pc \in {"rows", "accounts", "commit", "keep"} => r \in gone
  /\ pc \in {"run", "check", "nonce", "savepoint"} => r \notin gone

GraphqlState(r, pc, k) ==
  /\ pc = "commit" => k.tx = "open" /\ Carries(r, k.work, Statements)
  /\ pc = "keep" => Carries(r, k.work, {})

TxState(r, pc, k, rest, ahead, gone) ==
  /\ pc \in {"check", "graphql"} => /\ rest = {} \/ ahead
                                    /\ k.tx # "none" /\ ~k.savepoint /\ Carries(r, k.work, {})
  /\ pc \in Quiet => rest = {}
  /\ pc \in InTx /\ k.tx = "open" =>
       k.work \subseteq {r} \X (MergeParts \cup Statements) \cup Deleters \X Files
  /\ r \in Mergers => MergeState(r, pc, k, rest, gone)
  /\ r \in Graphql => GraphqlState(r, pc, k)

InTransaction(k) == k.tx = "open" \/ k.savepoint
EmptyIfNone(k) == k.tx = "none" => k.work = {} /\ ~k.savepoint

TxInv ==
  /\ \A c \in Conns : InTransaction(conn[c]) =>
       \E r \in Txs : req[r].client = c /\ req[r].pc \in InTx
  /\ \A c \in Conns : EmptyIfNone(conn[c])
  /\ \A r \in Txs : req[r].pc \in {"run"} \cup InTx =>
       TxState(r, req[r].pc, conn[req[r].client], left[req[r].client], req[r].client \in passed, past)

\* A connection that is not held by a transaction at work is outside any that
\* could still be committed,
LEMMA NotInTransaction ==
  ASSUME OwnedInv, TxInv, NEW r \in Requests, NEW c \in Conns, Holds(r, c),
         r \notin Txs \/ req[r].pc \notin InTx
  PROVE  ~InTransaction(conn[c])
<1> SUFFICES ASSUME InTransaction(conn[c]) PROVE FALSE
  OBVIOUS
<1>1. PICK s \in Txs : req[s].client = c /\ req[s].pc \in InTx
  BY DEF TxInv
<1>2. s \in Requests /\ Holds(s, c)
  BY <1>1 DEF Requests, Txs, Holds
<1>3. s = r
  BY <1>2 DEF OwnedInv
<1> QED
  BY <1>1, <1>3

\* and two requests have two connections.
LEMMA TxHolder ==
  ASSUME TypeInv, OwnedInv, NEW r \in Txs, req[r].pc \in {"run"} \cup InTx
  PROVE  /\ r \in Requests /\ req[r].client \in Conns /\ Holds(r, req[r].client)
         /\ \A s \in Requests : s # r => ~Holds(s, req[r].client)
<1>1. r \in Requests /\ req[r].client \in Conns /\ Holds(r, req[r].client)
  BY DEF TypeInv, TypeOK, Request, InTx, InMerge, InGraphql, Holds, Txs, Requests
<1> QED
  BY <1>1 DEF OwnedInv

SameData(k, l) ==
  k.tx = l.tx /\ k.work = l.work /\ k.savepoint = l.savepoint /\ k.saved = l.saved
SameLine(c) ==
  SameData(conn'[c], conn[c]) /\ left'[c] = left[c] /\ (c \in passed' <=> c \in passed)

\* Steps that neither move a transaction nor touch its connection keep TxInv,
LEMMA TxFrame ==
  ASSUME TxInv, past' = past,
         \A c \in Conns : \/ SameLine(c)
                          \/ /\ ~InTransaction(conn'[c]) /\ EmptyIfNone(conn'[c])
                             /\ \A r \in Txs : req[r].pc \in InTx => req[r].client # c,
         \A r \in Txs : req[r].pc \in InTx => req'[r] = req[r],
         \A r \in Txs : req'[r].pc \in InTx => req'[r] = req[r],
         \A r \in Txs : req'[r].pc = "run" => r \notin past,
         \A r \in Txs : req[r].pc \in InTx => req[r].client \in Conns
  PROVE  TxInv'
<1>1. ASSUME NEW c \in Conns, InTransaction(conn'[c])
      PROVE  \E r \in Txs : req'[r].client = c /\ req'[r].pc \in InTx
  <2>1. InTransaction(conn[c])
    BY <1>1 DEF SameLine, SameData, InTransaction
  <2>2. PICK r \in Txs : req[r].client = c /\ req[r].pc \in InTx
    BY <2>1 DEF TxInv
  <2> QED
    BY <2>2
<1>2. \A c \in Conns : EmptyIfNone(conn'[c])
  BY DEF TxInv, SameLine, SameData, EmptyIfNone
<1>3. ASSUME NEW r \in Txs, req'[r].pc \in InTx
      PROVE  TxState(r, req'[r].pc, conn'[req'[r].client], left'[req'[r].client],
                     req'[r].client \in passed', past)
  <2>1. req'[r] = req[r] /\ req[r].client \in Conns
    BY <1>3
  <2>2. SameLine(req[r].client)
    BY <1>3, <2>1
  <2>3. TxState(r, req[r].pc, conn[req[r].client], left[req[r].client], req[r].client \in passed, past)
    BY <1>3, <2>1 DEF TxInv
  <2> QED
    BY <2>1, <2>2, <2>3 DEF TxState, MergeState, GraphqlState, SameLine, SameData
<1>4. ASSUME NEW r \in Txs, req'[r].pc = "run"
      PROVE  TxState(r, req'[r].pc, conn'[req'[r].client], left'[req'[r].client],
                     req'[r].client \in passed', past)
  BY <1>4 DEF TxState, MergeState, GraphqlState, Quiet, InTx, InMerge, InGraphql
<1> QED
  BY <1>1, <1>2, <1>3, <1>4 DEF TxInv

\* and a step of a transaction changes its own connection only.
LEMMA TxStep ==
  ASSUME TypeInv, OwnedInv, TxInv, NEW r \in Txs, req[r].pc \in {"run"} \cup InTx,
         NEW k, conn' = [conn EXCEPT ![req[r].client] = k],
         \A d \in Conns : d # req[r].client => left'[d] = left[d] /\ (d \in passed' <=> d \in passed),
         NEW pc \in {"ok", "failed"} \cup InTx, req' = [req EXCEPT ![r].pc = pc],
         InTransaction(k) => pc \in InTx, EmptyIfNone(k),
         pc \in InTx => TxState(r, pc, k, left'[req[r].client], req[r].client \in passed', past'),
         \A s \in Txs : s # r => (s \in past' <=> s \in past)
  PROVE  TxInv'
<1> DEFINE c == req[r].client
<1>0. /\ req \in [Requests -> Request] /\ conn \in [Conns -> Connection]
      /\ Txs \subseteq Requests
  BY DEF TypeInv, TypeOK, Requests, Txs
<1>1. c \in Conns /\ Holds(r, c) /\ \A s \in Requests : s # r => ~Holds(s, c)
  BY TxHolder
<1>2. /\ conn'[c] = k /\ \A d \in Conns : d # c => conn'[d] = conn[d]
      /\ req'[r].pc = pc /\ req'[r].client = c
      /\ \A s \in Requests : s # r => req'[s] = req[s]
  BY <1>0, <1>1
<1>3. ASSUME NEW s \in Txs, s # r, req[s].pc \in {"run"} \cup InTx
      PROVE  req[s].client \in Conns /\ req[s].client # c
  BY <1>0, <1>1, <1>3, TxHolder
<1>4. ASSUME NEW d \in Conns, InTransaction(conn'[d])
      PROVE  \E s \in Txs : req'[s].client = d /\ req'[s].pc \in InTx
  <2>1. CASE d = c
    BY <1>2, <1>4, <2>1
  <2>2. CASE d # c
    <3>1. PICK s \in Txs : req[s].client = d /\ req[s].pc \in InTx
      BY <1>2, <1>4, <2>2 DEF TxInv
    <3> QED
      BY <1>0, <1>2, <2>2, <3>1
  <2> QED
    BY <2>1, <2>2
<1>5. \A d \in Conns : EmptyIfNone(conn'[d])
  BY <1>2 DEF TxInv
<1>6. ASSUME NEW s \in Txs, req'[s].pc \in {"run"} \cup InTx
      PROVE  TxState(s, req'[s].pc, conn'[req'[s].client], left'[req'[s].client],
                     req'[s].client \in passed', past')
  <2>1. CASE s = r
    <3>1. pc # "run"
      BY DEF InTx, InMerge, InGraphql
    <3> QED
      BY <1>2, <1>6, <2>1, <3>1
  <2>2. CASE s # r
    <3>1. /\ req'[s] = req[s] /\ conn'[req[s].client] = conn[req[s].client]
          /\ left'[req[s].client] = left[req[s].client]
          /\ req[s].client \in passed' <=> req[s].client \in passed
      BY <1>0, <1>2, <1>3, <1>6, <2>2
    <3>2. TxState(s, req[s].pc, conn[req[s].client], left[req[s].client], req[s].client \in passed, past)
      BY <1>6, <3>1 DEF TxInv
    <3> QED
      BY <2>2, <3>1, <3>2 DEF TxState, MergeState
  <2> QED
    BY <2>1, <2>2
<1> QED
  BY <1>4, <1>5, <1>6 DEF TxInv

\* What was left behind runs on a connection that is in no transaction, or in one
\* that has not come further than its first statement.
LEMMA LeftTx ==
  ASSUME TypeInv, OwnedInv, TxInv, NEW c \in Conns, NEW w \in left[c], LeftRuns(c, w)
  PROVE  TxInv'
<1> DEFINE rest == left[c] \ {w}
<1>1. /\ conn \in [Conns -> Connection] /\ left \in [Conns -> SUBSET (Deleters \X Files)]
      /\ w \in Deleters \X Files /\ Txs \subseteq Requests
  BY DEF TypeInv, TypeOK, Txs, Requests
<1>2. /\ req' = req /\ past' = past /\ left' = [left EXCEPT ![c] = rest]
      /\ passed' = IF rest = {} THEN passed \ {c} ELSE passed
  BY <1>1 DEF LeftRuns
<1>3. \A d \in Conns : d # c => conn'[d] = conn[d]
  BY <1>1 DEF LeftRuns, Takes, Breaks
<1>4. /\ conn'[c].savepoint = conn[c].savepoint /\ conn'[c].saved = conn[c].saved
      /\ \/ conn'[c].tx = conn[c].tx /\ conn'[c].work = conn[c].work
         \/ conn[c].tx = "open" /\ conn'[c].tx = "open" /\ conn'[c].work = conn[c].work \cup {w}
         \/ conn[c].tx = "open" /\ conn'[c].tx = "aborted" /\ conn'[c].work = conn[c].work
  <2>1. CASE Takes(c, {w})
    BY <1>1, <2>1 DEF Takes, Connection
  <2>2. CASE Breaks(c)
    BY <1>1, <2>2 DEF Breaks, Connection
  <2>3. CASE UNCHANGED <<conn, done>>
    BY <2>3
  <2> QED
    BY <2>1, <2>2, <2>3 DEF LeftRuns
<1>5. \A d \in Conns : EmptyIfNone(conn'[d]) /\ (InTransaction(conn'[d]) => InTransaction(conn[d]))
  BY <1>3, <1>4 DEF TxInv, EmptyIfNone, InTransaction
<1>6. ASSUME NEW r \in Txs, req[r].pc \in {"run"} \cup InTx
      PROVE  TxState(r, req[r].pc, conn'[req[r].client], left'[req[r].client], req[r].client \in passed', past)
  <2>1. req[r].client \in Conns
    BY <1>6, TxHolder
  <2>2. TxState(r, req[r].pc, conn[req[r].client], left[req[r].client], req[r].client \in passed, past)
    BY <1>6 DEF TxInv
  <2>3. CASE req[r].client # c
    BY <1>1, <1>2, <1>3, <2>1, <2>2, <2>3
  <2>4. CASE req[r].client = c
    <3>1. req[r].pc \notin Quiet /\ (req[r].pc = "undo" /\ r \in Mergers => ~conn[c].savepoint)
      BY <2>2, <2>4 DEF TxState, MergeState
    <3>2. left'[c] = rest /\ (rest = {} \/ (c \in passed' <=> c \in passed))
      BY <1>1, <1>2
    <3>3. CASE req[r].pc \in {"check", "graphql"}
      <4>1. /\ left'[c] = {} \/ c \in passed'
            /\ conn'[c].tx # "none" /\ ~conn'[c].savepoint /\ Carries(r, conn'[c].work, {})
        BY <1>1, <1>4, <2>2, <2>4, <3>2, <3>3 DEF TxState, Carries
      <4>2. conn'[c].work \subseteq {r} \X (MergeParts \cup Statements) \cup Deleters \X Files
        BY <4>1 DEF Carries
      <4> QED
        BY <2>2, <2>4, <3>3, <4>1, <4>2 DEF TxState, MergeState, GraphqlState, Quiet
    <3>4. CASE req[r].pc = "undo"
      <4>1. conn'[c].tx = "open" =>
              conn'[c].work \subseteq {r} \X (MergeParts \cup Statements) \cup Deleters \X Files
        BY <1>1, <1>4, <1>6, <2>2, <2>4, <3>4 DEF TxState, InTx, InMerge
      <4> QED
        BY <1>4, <2>2, <2>4, <3>1, <3>4, <4>1 DEF TxState, MergeState, GraphqlState, Quiet
    <3>5. CASE req[r].pc = "run"
      BY <2>2, <3>5 DEF TxState, MergeState, GraphqlState, Quiet, InTx, InMerge, InGraphql
    <3> QED
      BY <1>6, <2>4, <3>1, <3>3, <3>4, <3>5 DEF InTx, InMerge, InGraphql, Quiet
  <2> QED
    BY <2>3, <2>4
<1> QED
  BY <1>2, <1>5, <1>6 DEF TxInv

-----------------------------------------------------------------------------
(* What is committed, and what was answered *)

MergeDone(r, pc, ans, writes, gone) ==
  /\ pc \notin {"ok", "failed", "ended"} => \A part \in MergeParts : <<r, part>> \notin writes
  /\ pc = "ok" \/ ans = "ok" => \A part \in MergeParts : <<r, part>> \in writes
  /\ pc = "failed" \/ (pc = "ended" /\ ans # "ok") =>
       /\ <<r, "rows">> \notin writes /\ <<r, "accounts">> \notin writes
       /\ <<r, "nonce">> \in writes <=> r \in gone
  /\ pc \in {"new", "waiting", "run", "check", "nonce", "savepoint"} => r \notin gone

GraphqlDone(r, pc, ans, writes) ==
  IF pc = "ok" \/ ans = "ok" THEN \A s \in Statements : <<r, s>> \in writes
                             ELSE \A s \in Statements : <<r, s>> \notin writes

OneByOneDone(r, pc, ans, writes, ran) ==
  /\ \A s \in ran : <<r, s>> \in writes
  /\ pc \in {"addJob", "waitingJob", "job", "ok"} \/ ans = "ok" => \A s \in Statements : <<r, s>> \in writes
  /\ pc = "ok" \/ ans = "ok" => (r \in Mailers => <<r, "job">> \in writes)

DeleteDone(r, pc, ans, writes, ran) ==
  /\ pc \in {"new", "waiting", "run"} => ran = {}
  /\ pc = "beside" => \A f \in ran : <<r, f>> \in writes
  /\ pc \in {"delete", "ok"} \/ ans = "ok" => \A f \in Files : <<r, f>> \in writes
  /\ pc = "ok" \/ ans = "ok" => <<r, "post">> \in writes

DoneOK(r, pc, ans, writes, ran, gone) ==
  /\ r \in Mergers => MergeDone(r, pc, ans, writes, gone)
  /\ r \in Graphql => GraphqlDone(r, pc, ans, writes)
  /\ r \in OneByOne => OneByOneDone(r, pc, ans, writes, ran)
  /\ r \in Deleters => DeleteDone(r, pc, ans, writes, ran)
  /\ ans # "none" => pc = "ended"

DoneInv == \A r \in Requests : DoneOK(r, req[r].pc, answer[r], done, over[r], past)

\* Nothing changes for a request when another one writes, except that it may be
\* given the connection it waits for; and that its files may be queued late.
SameDone(s) ==
  /\ done \subseteq done' /\ over'[s] = over[s]
  /\ s \in past' <=> s \in past
  /\ s \in Txs => \A part \in MergeParts \cup Statements : <<s, part>> \in done' => <<s, part>> \in done

LEMMA DoneOther ==
  ASSUME NEW s \in Requests, DoneOK(s, req[s].pc, answer[s], done, over[s], past), SameDone(s),
         answer'[s] = answer[s], NEW pc,
         \/ pc = req[s].pc
         \/ req[s].pc \in {"new", "waiting"} /\ pc \in {"waiting", "run"}
         \/ req[s].pc \in {"addJob", "waitingJob"} /\ pc \in {"waitingJob", "job"} /\ s \in Mailers
  PROVE  DoneOK(s, pc, answer'[s], done', over'[s], past')
<1>k. s \in Mailers => s \in OneByOne /\ s \notin Mergers /\ s \notin Graphql /\ s \notin Deleters
  BY ConstantsAssumption DEF OneByOne
<1>1. ASSUME s \in Mergers PROVE MergeDone(s, pc, answer'[s], done', past')
  BY <1>1, <1>k DEF DoneOK, MergeDone, SameDone, MergeParts, Txs
<1>2. ASSUME s \in Graphql PROVE GraphqlDone(s, pc, answer'[s], done')
  BY <1>2, <1>k DEF DoneOK, GraphqlDone, SameDone, Txs
<1>3. ASSUME s \in OneByOne PROVE OneByOneDone(s, pc, answer'[s], done', over'[s])
  BY <1>3 DEF DoneOK, OneByOneDone, SameDone
<1>4. ASSUME s \in Deleters PROVE DeleteDone(s, pc, answer'[s], done', over'[s])
  BY <1>4, <1>k DEF DoneOK, DeleteDone, SameDone
<1> QED
  BY <1>1, <1>2, <1>3, <1>4 DEF DoneOK

\* A release changes no answer, and lets the head of the queue go on.
LEMMA DoneRelease ==
  ASSUME TypeInv, NEW s \in Requests, NEW c \in Conns, Waiting(req[s]),
         req'[s] = Granted(req[s], c)
  PROVE  \/ req[s].pc = "waiting" /\ req'[s].pc = "run"
         \/ req[s].pc = "waitingJob" /\ req'[s].pc = "job" /\ s \in Mailers
<1>1. req[s] \in Request /\ KindOK(s, req[s])
  BY KindsCollected
<1>2. IF req[s].pc = "waiting" THEN req'[s].pc = "run" ELSE req'[s].pc = "job"
  BY <1>1, GrantedKind DEF Waiting
<1> QED
  BY <1>1, <1>2 DEF Waiting, KindOK, Pcs

CommitInv == TxInv /\ DoneInv

\* addJob's release and the answer keep both: the transactions stay where they
\* are, and the connection given away is not inside one.
LEMMA ReleaseCommit ==
  ASSUME TypeInv, OwnedInv, CommitInv, NEW r \in Requests, ~Waiting(req[r]),
         NEW c \in Conns, NEW q \in Request, ~Waiting(q), Release(c, [req EXCEPT ![r] = q]),
         req[r].pc \notin InTx, q.pc \notin InTx, q.pc # "run",
         done' = done, past' = past, over' = over, left' = left, passed' = passed,
         \A s \in Requests : s # r => answer'[s] = answer[s],
         DoneOK(r, q.pc, answer'[r], done', over'[r], past')
  PROVE  CommitInv'
<1>0. /\ conn \in [Conns -> Connection] /\ Txs \subseteq Requests /\ req \in [Requests -> Request]
      /\ past \subseteq Mergers /\ Mailers \cap Txs = {}
  BY ConstantsAssumption DEF Requests, OneByOne, Txs, TypeInv, TypeOK
<1>1. /\ req'[r] = q
      /\ \A s \in Requests \ {r} :
              \/ req'[s] = req[s]
              \/ Waiting(req[s]) /\ req'[s] = Granted(req[s], c)
  BY ReleaseType
<1>2. \A d \in Conns : SameLine(d)
  <2>1. CASE conn' = conn
    BY <2>1 DEF SameLine, SameData
  <2>2. CASE conn' = [conn EXCEPT ![c].state = "idle"]
    BY <1>0, <2>2 DEF SameLine, SameData, Connection
  <2> QED
    BY <2>1, <2>2 DEF Release
<1>3. ASSUME NEW s \in Requests, s # r
      PROVE  /\ \/ req'[s] = req[s]
                \/ req[s].pc = "waiting" /\ req'[s].pc = "run"
                \/ req[s].pc = "waitingJob" /\ req'[s].pc = "job" /\ s \in Mailers
             /\ DoneOK(s, req'[s].pc, answer'[s], done', over'[s], past')
  <2>1. \/ req'[s] = req[s]
        \/ req[s].pc = "waiting" /\ req'[s].pc = "run"
        \/ req[s].pc = "waitingJob" /\ req'[s].pc = "job" /\ s \in Mailers
    BY <1>1, <1>3, DoneRelease
  <2>2. DoneOK(s, req[s].pc, answer[s], done, over[s], past) /\ SameDone(s) /\ answer'[s] = answer[s]
    BY <1>3 DEF CommitInv, DoneInv, SameDone
  <2>3. DoneOK(s, req'[s].pc, answer'[s], done', over'[s], past')
    BY <2>1, <2>2, DoneOther
  <2> QED
    BY <2>1, <2>3
<1>4. DoneInv'
  BY <1>1, <1>3 DEF DoneInv
<1>5. \A s \in Txs : /\ req[s].pc \in InTx => req'[s] = req[s] /\ req[s].client \in Conns
                     /\ req'[s].pc \in InTx => req'[s] = req[s]
                     /\ req'[s].pc = "run" => s \notin past
  <2> SUFFICES ASSUME NEW s \in Txs
               PROVE  /\ req[s].pc \in InTx => req'[s] = req[s] /\ req[s].client \in Conns
                      /\ req'[s].pc \in InTx => req'[s] = req[s]
                      /\ req'[s].pc = "run" => s \notin past
    OBVIOUS
  <2>1. s \in Requests /\ DoneOK(s, req[s].pc, answer[s], done, over[s], past)
    BY <1>0 DEF CommitInv, DoneInv
  <2>2. req[s].pc \in InTx => req[s].client \in Conns
    BY TxHolder
  <2>5. req[s].pc \in {"waiting", "run"} => s \notin past
    BY <1>0, <2>1 DEF DoneOK, MergeDone
  <2>3. CASE s = r
    BY <1>1, <2>1, <2>2, <2>3
  <2>4. CASE s # r
    <3>1. req'[s] = req[s] \/ (req[s].pc = "waiting" /\ req'[s].pc = "run")
      BY <1>0, <1>3, <2>1, <2>4
    <3> QED
      BY <2>2, <2>5, <3>1 DEF InTx, InMerge, InGraphql
  <2> QED
    BY <2>3, <2>4
<1>6. TxInv'
  BY <1>2, <1>5, TxFrame DEF CommitInv
<1> QED
  BY <1>4, <1>6 DEF CommitInv

\* A step of one request that changes neither an answer nor what the others did.
LEMMA LocalDone ==
  ASSUME TypeInv, DoneInv, NEW r \in Requests, NEW pc, Goto(r, pc), answer' = answer,
         \A s \in Requests : s # r => SameDone(s),
         DoneOK(r, pc, answer[r], done', over'[r], past')
  PROVE  DoneInv'
<1>1. req'[r].pc = pc /\ \A s \in Requests : s # r => req'[s] = req[s]
  BY DEF Goto, TypeInv, TypeOK, Request
<1>2. ASSUME NEW s \in Requests, s # r
      PROVE  DoneOK(s, req'[s].pc, answer'[s], done', over'[s], past')
  <2>1. /\ req'[s].pc = req[s].pc /\ SameDone(s)
        /\ DoneOK(s, req[s].pc, answer[s], done, over[s], past)
    BY <1>1, <1>2 DEF DoneInv
  <2> QED
    BY <2>1, DoneOther
<1> QED
  BY <1>1, <1>2 DEF DoneInv

\* A step of a transaction that sends a statement, and what must hold after it.
LEMMA TxMove ==
  ASSUME TypeInv, OwnedInv, CommitInv, NEW r \in Txs, req[r].pc \in {"run"} \cup InTx,
         NEW k, conn' = [conn EXCEPT ![req[r].client] = k], Sent(req[r].client),
         NEW pc \in {"ok", "failed"} \cup InTx, Goto(r, pc), UNCHANGED <<answer, over, left>>,
         InTransaction(k) => pc \in InTx, EmptyIfNone(k),
         pc \in InTx => TxState(r, pc, k, left[req[r].client], req[r].client \in passed', past'),
         \A s \in Requests : s # r => SameDone(s),
         r \in Mergers => MergeDone(r, pc, "none", done', past'),
         r \in Graphql => GraphqlDone(r, pc, "none", done')
  PROVE  CommitInv'
<1>1. r \in Requests /\ Txs \subseteq Requests /\ r \notin OneByOne /\ r \notin Deleters
  BY ConstantsAssumption DEF Requests, Txs
<1>2. answer[r] = "none"
  BY <1>1 DEF CommitInv, DoneInv, DoneOK, InTx, InMerge, InGraphql
<1>3. DoneInv'
  <2>1. DoneOK(r, pc, answer[r], done', over'[r], past')
    BY <1>1, <1>2 DEF DoneOK
  <2> QED
    BY <1>1, <2>1, LocalDone DEF CommitInv
<1>4. \A s \in Txs : s # r => (s \in past' <=> s \in past)
  BY <1>1 DEF SameDone
<1>5. \A d \in Conns : d # req[r].client => left'[d] = left[d] /\ (d \in passed' <=> d \in passed)
  BY DEF Sent
<1>6. TxInv'
  BY <1>4, <1>5, TxStep DEF CommitInv, Goto
<1> QED
  BY <1>3, <1>6 DEF CommitInv

\* Where a request with a transaction stands before each of its steps.
LEMMA TxStands ==
  ASSUME TypeInv, OwnedInv, CommitInv, NEW r \in Requests,
         (req[r].pc = "run" /\ r \in Txs) \/ req[r].pc \in InTx
  PROVE  /\ r \in Txs /\ Pcs(r, req[r].pc) /\ req[r].client \in Conns
         /\ conn \in [Conns -> Connection] /\ conn[req[r].client] \in Connection
         /\ EmptyIfNone(conn[req[r].client])
         /\ TxState(r, req[r].pc, conn[req[r].client], left[req[r].client], req[r].client \in passed, past)
         /\ r \in Mergers => MergeDone(r, req[r].pc, "none", done, past) /\ r \notin Graphql
         /\ r \in Graphql => GraphqlDone(r, req[r].pc, "none", done) /\ r \notin Mergers
         /\ req[r].pc = "run" => ~InTransaction(conn[req[r].client])
<1>1. r \in Txs /\ Pcs(r, req[r].pc)
  BY DEF TypeInv, KindsOK, Pcs, InTx, InMerge, InGraphql, Txs
<1>2. req[r].client \in Conns /\ Holds(r, req[r].client) /\ conn \in [Conns -> Connection]
  BY <1>1, TxHolder DEF TypeInv, TypeOK
<1>3. TxState(r, req[r].pc, conn[req[r].client], left[req[r].client], req[r].client \in passed, past)
  BY <1>1 DEF CommitInv, TxInv
<1>4. answer[r] = "none" /\ DoneOK(r, req[r].pc, answer[r], done, over[r], past)
  BY DEF CommitInv, DoneInv, DoneOK, InTx, InMerge, InGraphql
<1>5. req[r].pc = "run" => ~InTransaction(conn[req[r].client])
  BY <1>2, NotInTransaction DEF CommitInv, InTx, InMerge, InGraphql
<1>6. r \in Mergers => r \notin Graphql
  BY ConstantsAssumption
<1> QED
  BY <1>1, <1>2, <1>3, <1>4, <1>5, <1>6 DEF CommitInv, TxInv, DoneOK

\* A statement that succeeds from the second one on found nothing left to run.
LEMMA NothingLeft ==
  ASSUME TypeInv, OwnedInv, CommitInv, NEW r \in Requests,
         req[r].pc \in {"check", "graphql"} \cup Quiet, Sent(req[r].client)
  PROVE  left[req[r].client] = {}
<1>1. req[r].pc \in InTx
  BY DEF Quiet, InTx, InMerge, InGraphql
<1> QED
  BY <1>1, TxStands DEF TxState, Sent

\* One more write of a merge whose transaction is open, or a refusal.
LEMMA MergeWrites ==
  ASSUME TypeInv, OwnedInv, CommitInv, NEW r \in Requests, NEW writes, NEW pc,
         Succeeds(req[r].client, writes), Goto(r, pc), UNCHANGED <<answer, over, left, past>>,
         \/ req[r].pc = "check" /\ pc = "nonce" /\ writes = {}
         \/ req[r].pc = "nonce" /\ pc = "savepoint" /\ writes = {<<r, "nonce">>}
         \/ req[r].pc = "rows" /\ pc = "accounts" /\ writes = {<<r, "rows">>}
         \/ req[r].pc = "accounts" /\ pc = "commit" /\ writes = {<<r, "accounts">>}
         \/ req[r].pc \in {"check", "rows"} /\ pc = "undo" /\ writes = {}
  PROVE  CommitInv'
<1> DEFINE c == req[r].client
           k == [conn[c] EXCEPT !.work = conn[c].work \cup writes]
<1>0. /\ req[r].pc \in {"check", "nonce", "rows", "accounts"} /\ req[r].pc \in InTx
      /\ pc \in {"nonce", "savepoint", "accounts", "commit", "undo"} /\ pc \in InTx
      /\ pc \notin {"check", "graphql", "run", "rows", "keep"}
  BY DEF InTx, InMerge
<1>1. /\ r \in Mergers /\ r \in Txs /\ c \in Conns /\ conn \in [Conns -> Connection]
      /\ conn[c] \in Connection /\ r \notin Graphql
      /\ TxState(r, req[r].pc, conn[c], left[c], c \in passed, past)
      /\ MergeState(r, req[r].pc, conn[c], left[c], past) /\ MergeDone(r, req[r].pc, "none", done, past)
  BY <1>0, TxStands DEF Pcs, TxState
<1>2. conn[c].tx = "open"
  BY <1>0, <1>1 DEF TxState, MergeState, Quiet, Succeeds, Takes, Connection
<1>3. done' = done /\ conn' = [conn EXCEPT ![c] = k] /\ Sent(c) /\ left[c] = {}
  <2>1. left[c] = {}
    BY <1>0, NothingLeft DEF Succeeds, Quiet
  <2> QED
    BY <1>1, <1>2, <2>1 DEF Succeeds, Takes
<1>4. /\ k.tx = "open" /\ k.work = conn[c].work \cup writes
      /\ k.savepoint = conn[c].savepoint /\ k.saved = conn[c].saved
  BY <1>1, <1>2 DEF Connection
<1> HIDE DEF k
<1>5. MergeState(r, pc, k, left[c], past)
  <2>1. CASE req[r].pc = "check"
    BY <1>0, <1>1, <1>4, <2>1 DEF MergeState, TxState, Carries, Quiet
  <2>2. CASE req[r].pc = "nonce"
    BY <1>0, <1>1, <1>4, <2>2 DEF MergeState, Carries, Quiet
  <2>3. CASE req[r].pc = "rows"
    BY <1>0, <1>1, <1>3, <1>4, <2>3 DEF MergeState, Carries, Quiet
  <2>4. CASE req[r].pc = "accounts"
    BY <1>0, <1>1, <1>4, <2>4 DEF MergeState, Carries, Quiet, MergeParts
  <2> QED
    BY <1>0, <2>1, <2>2, <2>3, <2>4
<1>6. MergeDone(r, pc, "none", done, past)
  BY <1>0, <1>1 DEF MergeDone, MergeState
<1>7. TxState(r, pc, k, left[c], c \in passed', past)
  <2>1. k.work \subseteq {r} \X (MergeParts \cup Statements) \cup Deleters \X Files
    <3>1. \A w \in writes : w \in {r} \X MergeParts
      BY DEF MergeParts
    <3>2. conn[c].work \subseteq {r} \X (MergeParts \cup Statements) \cup Deleters \X Files
      BY <1>0, <1>1, <1>2 DEF TxState
    <3> QED
      BY <1>4, <3>1, <3>2
  <2> QED
    BY <1>0, <1>1, <1>3, <1>5, <2>1 DEF TxState
<1>8. \A s \in Requests : s # r => SameDone(s)
  BY <1>3 DEF SameDone
<1> QED
  BY <1>0, <1>1, <1>3, <1>4, <1>6, <1>7, <1>8, TxMove DEF EmptyIfNone

LEMMA MergeFails ==
  ASSUME TypeInv, OwnedInv, CommitInv, NEW r \in Requests, MergeStatementFails(r)
  PROVE  CommitInv'
<1> DEFINE c == req[r].client
           k == [conn[c] EXCEPT !.tx = IF conn[c].tx = "open" THEN "aborted" ELSE conn[c].tx]
<1>0. /\ req[r].pc \in {"run", "check", "nonce", "savepoint", "rows", "accounts"}
      /\ req[r].pc \in InTx \/ req[r].pc = "run"
      /\ req[r].pc = "run" => r \in Mergers
      /\ Sent(c) /\ Breaks(c) /\ Goto(r, "undo") /\ UNCHANGED <<answer, over, left, past>>
      /\ "undo" \in InTx
  BY DEF MergeStatementFails, Fails, InTx, InMerge
<1>1. /\ r \in Mergers /\ r \in Txs /\ c \in Conns /\ conn \in [Conns -> Connection]
      /\ conn[c] \in Connection /\ r \notin Graphql
      /\ EmptyIfNone(conn[c]) /\ (req[r].pc = "run" => ~InTransaction(conn[c]))
      /\ TxState(r, req[r].pc, conn[c], left[c], c \in passed, past)
      /\ MergeState(r, req[r].pc, conn[c], left[c], past) /\ MergeDone(r, req[r].pc, "none", done, past)
  <2>1. (req[r].pc = "run" /\ r \in Txs) \/ req[r].pc \in InTx
    BY <1>0 DEF Txs
  <2>2. r \in Txs /\ Pcs(r, req[r].pc)
    BY <2>1, TxStands
  <2>3. r \in Mergers
    BY <1>0, <2>2 DEF Pcs
  <2> QED
    BY <2>1, <2>2, <2>3, TxStands DEF TxState
<1>3. done' = done /\ conn' = [conn EXCEPT ![c] = k]
  BY <1>0, <1>1 DEF Breaks
<1>4. /\ k.tx = (IF conn[c].tx = "open" THEN "aborted" ELSE conn[c].tx) /\ k.tx # "open"
      /\ k.work = conn[c].work /\ k.savepoint = conn[c].savepoint /\ k.saved = conn[c].saved
  BY <1>1 DEF Connection
<1> HIDE DEF k
<1>6. MergeState(r, "undo", k, left[c], past)
  BY <1>0, <1>1, <1>4 DEF MergeState, TxState, InTransaction, Quiet
<1>7. MergeDone(r, "undo", "none", done, past)
  BY <1>0, <1>1 DEF MergeDone
<1>8. \A s \in Requests : s # r => SameDone(s)
  BY <1>0, <1>3 DEF SameDone
<1>9. TxState(r, "undo", k, left[c], c \in passed', past)
  BY <1>1, <1>4, <1>6 DEF TxState, Quiet
<1> QED
  BY <1>0, <1>1, <1>3, <1>4, <1>7, <1>8, <1>9, TxMove DEF EmptyIfNone

\* The steps of a transaction itself, and PostGraphile's statements in it.
LEMMA BeginCommit ==
  ASSUME TypeInv, OwnedInv, CommitInv, NEW r \in Requests, Begin(r)
  PROVE  CommitInv'
<1> DEFINE c == req[r].client
           k == [conn[c] EXCEPT !.tx = "open"]
           pc == IF r \in Mergers THEN "check" ELSE "graphql"
<1>1. /\ r \in Txs /\ c \in Conns /\ conn \in [Conns -> Connection] /\ conn[c] \in Connection
      /\ EmptyIfNone(conn[c]) /\ ~InTransaction(conn[c]) /\ req[r].pc = "run"
      /\ TxState(r, "run", conn[c], left[c], c \in passed, past)
      /\ r \in Mergers => MergeDone(r, "run", "none", done, past) /\ r \notin Graphql
      /\ r \in Graphql => GraphqlDone(r, "run", "none", done) /\ r \notin Mergers
  BY TxStands DEF Begin, Txs
<1>2. Sent(c) /\ Goto(r, pc) /\ UNCHANGED <<answer, over, left, past, done>>
  BY DEF Begin
<1>3. conn[c].tx = "none" /\ conn' = [conn EXCEPT ![c] = k]
  BY <1>1 DEF Begin, InTransaction, Connection
<1>4. k.tx = "open" /\ k.work = {} /\ ~k.savepoint
  BY <1>1, <1>3 DEF EmptyIfNone, Connection
<1>5. left[c] = {} \/ c \in passed'
  BY <1>2 DEF Sent
<1>6. pc \in {"check", "graphql"} /\ pc \in InTx /\ (pc = "check" <=> r \in Mergers)
  BY DEF InTx, InMerge, InGraphql
<1>7. r \in Mergers => MergeDone(r, pc, "none", done, past)
  BY <1>1, <1>6 DEF MergeDone
<1>8. r \in Graphql => GraphqlDone(r, pc, "none", done)
  BY <1>1, <1>6 DEF GraphqlDone
<1> HIDE DEF k, pc
<1>9. TxState(r, pc, k, left[c], c \in passed', past)
  BY <1>1, <1>4, <1>5, <1>6 DEF TxState, MergeState, GraphqlState, Carries, Quiet
<1>10. \A s \in Requests : s # r => SameDone(s)
  BY <1>2 DEF SameDone
<1> QED
  BY <1>1, <1>2, <1>3, <1>4, <1>6, <1>7, <1>8, <1>9, <1>10, TxMove DEF EmptyIfNone

LEMMA SavepointCommit ==
  ASSUME TypeInv, OwnedInv, CommitInv, NEW r \in Requests, Savepoint(r)
  PROVE  CommitInv'
<1> DEFINE c == req[r].client
           k == [conn[c] EXCEPT !.savepoint = TRUE, !.saved = conn[c].work]
<1>0. /\ req[r].pc = "savepoint" /\ Sent(c) /\ conn[c].tx = "open" /\ past' = past \cup {r}
      /\ Goto(r, "rows") /\ UNCHANGED <<answer, over, left, done>>
      /\ "savepoint" \in InTx /\ "rows" \in InTx
  BY DEF Savepoint, InTx, InMerge
<1>1. /\ r \in Mergers /\ r \in Txs /\ c \in Conns /\ conn \in [Conns -> Connection]
      /\ conn[c] \in Connection /\ r \notin Graphql
      /\ TxState(r, "savepoint", conn[c], left[c], c \in passed, past)
      /\ MergeState(r, "savepoint", conn[c], left[c], past) /\ MergeDone(r, "savepoint", "none", done, past)
  BY <1>0, TxStands DEF Pcs, TxState
<1>2. k.tx = "open" /\ k.work = conn[c].work /\ k.savepoint /\ k.saved = conn[c].work
  BY <1>0, <1>1 DEF Connection
<1>3. conn' = [conn EXCEPT ![c] = k]
  BY <1>1 DEF Savepoint
<1> HIDE DEF k
<1>4. MergeState(r, "rows", k, left[c], past')
  BY <1>0, <1>1, <1>2 DEF MergeState, Quiet
<1>5. TxState(r, "rows", k, left[c], c \in passed', past')
  BY <1>0, <1>1, <1>2, <1>4 DEF TxState, Quiet
<1>6. MergeDone(r, "rows", "none", done, past')
  BY <1>1 DEF MergeDone
<1>7. \A s \in Requests : s # r => SameDone(s)
  BY <1>0 DEF SameDone
<1> QED
  BY <1>0, <1>1, <1>2, <1>3, <1>5, <1>6, <1>7, TxMove DEF EmptyIfNone

LEMMA CommitCommit ==
  ASSUME TypeInv, OwnedInv, CommitInv, NEW r \in Requests, Commit(r)
  PROVE  CommitInv'
<1> DEFINE c == req[r].client
           k == [Closed EXCEPT !.state = "busy"]
           pc == IF req[r].pc = "commit" THEN "ok" ELSE "failed"
<1>0. /\ req[r].pc \in {"commit", "keep"} /\ req[r].pc \in InTx /\ Sent(c)
      /\ Goto(r, pc) /\ UNCHANGED <<answer, over, left, past>>
      /\ conn' = [conn EXCEPT ![c] = k]
      /\ done' = IF conn[c].tx = "open" THEN done \cup conn[c].work ELSE done
  BY DEF Commit, InTx, InMerge
<1>1. /\ r \in Txs /\ c \in Conns
      /\ TxState(r, req[r].pc, conn[c], left[c], c \in passed, past)
      /\ r \in Mergers => MergeDone(r, req[r].pc, "none", done, past) /\ r \notin Graphql
      /\ r \in Graphql => GraphqlDone(r, req[r].pc, "none", done) /\ r \notin Mergers
  BY <1>0, TxStands
<1>2. k.tx = "none" /\ k.work = {} /\ ~k.savepoint
  BY DEF Closed
<1>3. pc \in {"ok", "failed"} /\ pc \notin InTx /\ (pc = "ok" <=> req[r].pc = "commit")
  BY DEF InTx, InMerge, InGraphql
<1>k. r \notin Deleters /\ \A s \in Txs : s \notin Deleters
  BY <1>1, ConstantsAssumption DEF Txs
<1>4. \A s \in Requests : s # r => SameDone(s)
  <2>1. conn[c].tx = "open" => conn[c].work \subseteq {r} \X (MergeParts \cup Statements) \cup Deleters \X Files
    BY <1>0, <1>1 DEF TxState
  <2> QED
    BY <1>0, <1>k, <2>1 DEF SameDone
<1> HIDE DEF k, pc
<1>5. ASSUME r \in Mergers PROVE MergeDone(r, pc, "none", done', past')
  <2>1. /\ conn[c].tx = "open" /\ MergeState(r, req[r].pc, conn[c], left[c], past)
        /\ done' = done \cup conn[c].work /\ past' = past
    BY <1>0, <1>1, <1>5 DEF TxState, MergeState, Quiet
  <2>2. \A part \in MergeParts : <<r, part>> \notin done
    BY <1>0, <1>1, <1>5 DEF MergeDone
  <2>3. CASE req[r].pc = "commit"
    <3>1. \A part \in MergeParts : <<r, part>> \in conn[c].work
      BY <2>1, <2>3 DEF MergeState, Carries
    <3> QED
      BY <1>3, <2>1, <2>3, <3>1 DEF MergeDone
  <2>4. CASE req[r].pc = "keep"
    <3>1. Carries(r, conn[c].work, {"nonce"}) /\ r \in past
      BY <2>1, <2>4 DEF MergeState
    <3>2. <<r, "nonce">> \in conn[c].work /\ <<r, "rows">> \notin conn[c].work /\ <<r, "accounts">> \notin conn[c].work
      BY <1>k, <3>1 DEF Carries
    <3>3. pc = "failed" /\ "rows" \in MergeParts /\ "accounts" \in MergeParts
      BY <1>3, <2>4 DEF MergeParts
    <3> QED
      BY <2>1, <2>2, <3>1, <3>2, <3>3 DEF MergeDone
  <2> QED
    BY <1>0, <2>3, <2>4
<1>6. ASSUME r \in Graphql PROVE GraphqlDone(r, pc, "none", done')
  <2>1. GraphqlState(r, req[r].pc, conn[c]) /\ \A s \in Statements : <<r, s>> \notin done
    BY <1>0, <1>1, <1>6 DEF TxState, GraphqlDone
  <2>2. CASE req[r].pc = "commit"
    <3>1. conn[c].tx = "open" /\ \A s \in Statements : <<r, s>> \in conn[c].work
      BY <2>1, <2>2 DEF GraphqlState, Carries
    <3> QED
      BY <1>0, <1>3, <2>2, <3>1 DEF GraphqlDone
  <2>3. CASE req[r].pc = "keep"
    <3>1. \A s \in Statements : <<r, s>> \notin conn[c].work
      BY <1>k, <2>1, <2>3 DEF GraphqlState, Carries
    <3> QED
      BY <1>0, <1>3, <2>1, <2>3, <3>1 DEF GraphqlDone
  <2> QED
    BY <1>0, <2>2, <2>3
<1> QED
  BY <1>0, <1>1, <1>2, <1>3, <1>4, <1>5, <1>6, TxMove DEF EmptyIfNone, InTransaction

LEMMA RollbackCommit ==
  ASSUME TypeInv, OwnedInv, CommitInv, NEW r \in Requests, RollbackTo(r) \/ RollbackToFails(r)
  PROVE  CommitInv'
<1> DEFINE c == req[r].client
<1>0. req[r].pc = "undo" /\ "undo" \in InTx /\ "keep" \in InTx /\ "failed" \notin InTx
  BY DEF RollbackTo, RollbackToFails, InTx, InMerge, InGraphql
<1>1. /\ r \in Mergers /\ r \in Txs /\ c \in Conns /\ conn \in [Conns -> Connection]
      /\ conn[c] \in Connection /\ r \notin Graphql /\ EmptyIfNone(conn[c])
      /\ TxState(r, "undo", conn[c], left[c], c \in passed, past)
      /\ MergeState(r, "undo", conn[c], left[c], past) /\ MergeDone(r, "undo", "none", done, past)
  BY <1>0, TxStands DEF Pcs, TxState
<1>2. CASE RollbackTo(r)
  <2> DEFINE k == [conn[c] EXCEPT !.tx = "open", !.work = conn[c].saved]
  <2>1. /\ Sent(c) /\ Goto(r, "keep") /\ UNCHANGED <<answer, over, left, done, past>>
        /\ conn[c].savepoint /\ conn' = [conn EXCEPT ![c] = k]
    BY <1>2 DEF RollbackTo
  <2>2. k.tx = "open" /\ k.work = conn[c].saved
    BY <1>1 DEF Connection
  <2> HIDE DEF k
  <2>3. left[c] = {} /\ Carries(r, k.work, {"nonce"}) /\ r \in past
    BY <1>1, <2>1, <2>2 DEF MergeState
  <2>4. k.work \subseteq {r} \X (MergeParts \cup Statements) \cup Deleters \X Files
    BY <2>3 DEF Carries, MergeParts
  <2>5. TxState(r, "keep", k, left[c], c \in passed', past)
    BY <1>1, <2>2, <2>3, <2>4 DEF TxState, MergeState, Quiet
  <2>6. MergeDone(r, "keep", "none", done, past)
    BY <1>1 DEF MergeDone
  <2>7. \A s \in Requests : s # r => SameDone(s)
    BY <2>1 DEF SameDone
  <2> QED
    BY <1>0, <1>1, <2>1, <2>2, <2>5, <2>6, <2>7, TxMove DEF EmptyIfNone
<1>3. CASE RollbackToFails(r)
  <2> DEFINE k == [conn[c] EXCEPT !.tx = IF conn[c].tx = "open" THEN "aborted" ELSE conn[c].tx]
  <2>1. /\ Sent(c) /\ Goto(r, "failed") /\ UNCHANGED <<answer, over, left, done, past>>
        /\ ~conn[c].savepoint /\ conn' = [conn EXCEPT ![c] = k]
    BY <1>1, <1>3 DEF RollbackToFails, Fails, Breaks
  <2>2. ~InTransaction(k) /\ EmptyIfNone(k)
    BY <1>1, <2>1 DEF InTransaction, EmptyIfNone, Connection
  <2> HIDE DEF k
  <2>3. r \notin past
    BY <1>1, <2>1 DEF MergeState
  <2>4. MergeDone(r, "failed", "none", done, past)
    BY <1>1, <2>3 DEF MergeDone, MergeParts
  <2>5. \A s \in Requests : s # r => SameDone(s)
    BY <2>1 DEF SameDone
  <2> QED
    BY <1>0, <1>1, <2>1, <2>2, <2>4, <2>5, TxMove
<1> QED
  BY <1>2, <1>3

LEMMA ResolveCommit ==
  ASSUME TypeInv, OwnedInv, CommitInv, NEW r \in Requests, Resolve(r) \/ ResolveFails(r)
  PROVE  CommitInv'
<1> DEFINE c == req[r].client
<1>0. /\ req[r].pc = "graphql" /\ {"graphql", "commit", "keep"} \subseteq InTx /\ Sent(c)
      /\ UNCHANGED <<answer, over, left, past>>
  BY DEF Resolve, ResolveFails, Succeeds, InTx, InGraphql
<1>1. /\ r \in Graphql /\ r \in Txs /\ c \in Conns /\ conn \in [Conns -> Connection]
      /\ conn[c] \in Connection /\ r \notin Mergers /\ EmptyIfNone(conn[c])
      /\ TxState(r, "graphql", conn[c], left[c], c \in passed, past)
      /\ GraphqlDone(r, "graphql", "none", done)
  BY <1>0, TxStands DEF Pcs
<1>2. left[c] = {} /\ conn[c].tx # "none" /\ Carries(r, conn[c].work, {})
  BY <1>0, <1>1, NothingLeft DEF TxState
<1>3. CASE Resolve(r)
  <2> DEFINE k == [conn[c] EXCEPT !.work = conn[c].work \cup {r} \X Statements]
  <2>1. /\ conn[c].tx = "open" /\ conn' = [conn EXCEPT ![c] = k] /\ done' = done /\ Goto(r, "commit")
    BY <1>1, <1>2, <1>3 DEF Resolve, Succeeds, Takes, Connection
  <2>2. k.tx = "open" /\ k.work = conn[c].work \cup {r} \X Statements
    BY <1>1, <2>1 DEF Connection
  <2> HIDE DEF k
  <2>3. Carries(r, k.work, Statements)
    BY <1>2, <2>2 DEF Carries
  <2>4. k.work \subseteq {r} \X (MergeParts \cup Statements) \cup Deleters \X Files
    BY <2>3 DEF Carries
  <2>5. TxState(r, "commit", k, left[c], c \in passed', past)
    BY <1>1, <1>2, <2>2, <2>3, <2>4 DEF TxState, GraphqlState, Quiet
  <2>6. GraphqlDone(r, "commit", "none", done)
    BY <1>1 DEF GraphqlDone
  <2>7. \A s \in Requests : s # r => SameDone(s)
    BY <1>0, <2>1 DEF SameDone
  <2> QED
    BY <1>0, <1>1, <2>1, <2>2, <2>5, <2>6, <2>7, TxMove DEF EmptyIfNone
<1>4. CASE ResolveFails(r)
  <2>1. PICK tx \in {"aborted", conn[c].tx} : conn' = [conn EXCEPT ![c].tx = tx]
    BY <1>4 DEF ResolveFails
  <2> DEFINE k == [conn[c] EXCEPT !.tx = tx]
  <2>2. conn' = [conn EXCEPT ![c] = k] /\ done' = done /\ Goto(r, "keep")
    BY <1>4, <2>1 DEF ResolveFails
  <2>3. k.tx # "none" /\ k.work = conn[c].work
    BY <1>1, <1>2 DEF Connection
  <2> HIDE DEF k
  <2>4. k.work \subseteq {r} \X (MergeParts \cup Statements) \cup Deleters \X Files
    BY <1>2, <2>3 DEF Carries
  <2>5. TxState(r, "keep", k, left[c], c \in passed', past)
    BY <1>1, <1>2, <2>3, <2>4 DEF TxState, GraphqlState, Quiet
  <2>6. GraphqlDone(r, "keep", "none", done)
    BY <1>1 DEF GraphqlDone
  <2>7. \A s \in Requests : s # r => SameDone(s)
    BY <1>0, <2>2 DEF SameDone
  <2> QED
    BY <1>0, <1>1, <2>2, <2>3, <2>5, <2>6, <2>7, TxMove DEF EmptyIfNone
<1> QED
  BY <1>3, <1>4

\* Outside a transaction a statement commits what it writes, or nothing.
LEMMA PlainTx ==
  ASSUME TypeInv, OwnedInv, CommitInv, NEW r \in Requests, NEW c \in Conns, Holds(r, c),
         req[r].pc \notin InTx, NEW pc, pc \notin InTx, pc = "run" => r \notin Txs, Goto(r, pc),
         answer' = answer, past' = past, \A s \in Requests : s # r => over'[s] = over[s],
         NEW writes, \A w \in writes : \A s, part : w = <<s, part>> => s = r,
         Takes(c, writes) \/ (writes = {} /\ (Breaks(c) \/ (conn' = conn /\ done' = done))),
         \A d \in Conns : d # c => left'[d] = left[d] /\ (d \in passed' <=> d \in passed),
         DoneOK(r, pc, answer[r], done \cup writes, over'[r], past)
  PROVE  CommitInv' /\ conn' = conn /\ done' = done \cup writes
<1>0. /\ req \in [Requests -> Request] /\ conn \in [Conns -> Connection] /\ Txs \subseteq Requests
      /\ \A s \in Requests : s # r => req'[s] = req[s] /\ ~Holds(s, c)
      /\ req'[r].pc = pc
  BY DEF TypeInv, TypeOK, Requests, Txs, OwnedInv, Goto
<1>1. ~InTransaction(conn[c]) /\ EmptyIfNone(conn[c])
  BY NotInTransaction DEF CommitInv, TxInv
<1>2. conn' = conn /\ done' = done \cup writes
  <2>1. CASE Takes(c, writes)
    BY <1>1, <2>1 DEF Takes, InTransaction
  <2>2. CASE writes = {} /\ Breaks(c)
    <3>1. conn' = [conn EXCEPT ![c] = [conn[c] EXCEPT !.tx = conn[c].tx]]
      BY <1>1, <2>2 DEF Breaks, InTransaction
    <3>2. [conn[c] EXCEPT !.tx = conn[c].tx] = conn[c]
      BY <1>0 DEF Connection
    <3> QED
      BY <1>0, <2>2, <3>1, <3>2 DEF Breaks
  <2>3. CASE writes = {} /\ (conn' = conn /\ done' = done)
    BY <2>3
  <2> QED
    BY <2>1, <2>2, <2>3
<1>3. DoneInv'
  <2>1. \A s \in Requests : s # r => SameDone(s)
    BY <1>2 DEF SameDone
  <2> QED
    BY <1>2, <2>1, LocalDone DEF CommitInv
<1>4. \A d \in Conns : \/ SameLine(d)
                       \/ /\ ~InTransaction(conn'[d]) /\ EmptyIfNone(conn'[d])
                          /\ \A s \in Txs : req[s].pc \in InTx => req[s].client # d
  <2> SUFFICES ASSUME NEW d \in Conns
               PROVE  \/ SameLine(d)
                      \/ /\ ~InTransaction(conn'[d]) /\ EmptyIfNone(conn'[d])
                         /\ \A s \in Txs : req[s].pc \in InTx => req[s].client # d
    OBVIOUS
  <2>1. CASE d # c
    BY <1>2, <2>1 DEF SameLine, SameData
  <2>2. CASE d = c
    BY <1>0, <1>1, <1>2, <2>2 DEF Holds
  <2> QED
    BY <2>1, <2>2
<1>5. ASSUME NEW s \in Txs
      PROVE  /\ req[s].pc \in InTx => req'[s] = req[s] /\ req[s].client \in Conns
             /\ req'[s].pc \in InTx => req'[s] = req[s]
             /\ req'[s].pc = "run" => s \notin past
  <2>1. req[s].pc \in InTx => req[s].client \in Conns
    BY TxHolder
  <2>2. s # r => req'[s] = req[s]
    BY <1>0
  <2>3. req[s].pc = "run" => s \notin past
    <3>1. DoneOK(s, req[s].pc, answer[s], done, over[s], past) /\ past \subseteq Mergers
      BY <1>0 DEF CommitInv, DoneInv, TypeInv, TypeOK
    <3> QED
      BY <3>1 DEF DoneOK, MergeDone
  <2> QED
    BY <1>0, <2>1, <2>2, <2>3
<1>6. TxInv'
  BY <1>4, <1>5, TxFrame DEF CommitInv
<1> QED
  BY <1>2, <1>3, <1>6 DEF CommitInv

\* The statements of the requests that run one after another.
LEMMA StatementCommit ==
  ASSUME TypeInv, OwnedInv, CommitInv, NEW r \in Requests, NEW s \in Statements, Statement(r, s)
  PROVE  CommitInv' /\ conn' = conn /\ done' = done \cup {<<r, s>>}
<1> DEFINE c == req[r].client
           pc == IF ~(Statements \subseteq over'[r]) THEN "run" ELSE IF r \in Mailers THEN "addJob" ELSE "ok"
<1>1. /\ r \in OneByOne /\ r \notin Txs /\ r \notin Deleters /\ req[r].pc = "run"
      /\ over \in [Requests -> SUBSET (Statements \cup Files)]
  BY ConstantsAssumption DEF Statement, Txs, TypeInv, TypeOK
<1>2. c \in Conns /\ Holds(r, c) /\ req[r].pc \notin InTx
  BY <1>1 DEF TypeInv, TypeOK, Request, Holds, InTx, InMerge, InGraphql
<1>3. OneByOneDone(r, "run", answer[r], done, over[r]) /\ answer[r] = "none"
  BY <1>1 DEF CommitInv, DoneInv, DoneOK
<1>4. Takes(c, {<<r, s>>}) /\ Goto(r, pc) /\ answer' = answer /\ past' = past /\ left' = left
  BY DEF Statement, Succeeds
<1>5. over'[r] = over[r] \cup {s} /\ \A q \in Requests : q # r => over'[q] = over[q]
  BY <1>1 DEF Statement
<1>6. \A d \in Conns : d # c => left'[d] = left[d] /\ (d \in passed' <=> d \in passed)
  BY DEF Statement, Succeeds, Sent
<1>7. /\ pc \in {"run", "addJob", "ok"} /\ pc \notin InTx
  BY DEF InTx, InMerge, InGraphql
<1>8. pc # "run" => Statements \subseteq over'[r]
  OBVIOUS
<1>9. pc = "ok" => r \notin Mailers
  OBVIOUS
<1> HIDE DEF pc
<1>10. OneByOneDone(r, pc, answer[r], done \cup {<<r, s>>}, over'[r])
  BY <1>3, <1>5, <1>7, <1>8, <1>9 DEF OneByOneDone
<1>11. DoneOK(r, pc, answer[r], done \cup {<<r, s>>}, over'[r], past)
  BY <1>1, <1>3, <1>10 DEF DoneOK, Txs
<1>12. \A w \in {<<r, s>>} : \A q, part : w = <<q, part>> => q = r
  OBVIOUS
<1> QED
  BY <1>1, <1>2, <1>4, <1>5, <1>6, <1>7, <1>11, <1>12, PlainTx

LEMMA LastCommit ==
  ASSUME TypeInv, OwnedInv, CommitInv, NEW r \in Requests, LastStatement(r)
  PROVE  /\ CommitInv' /\ conn' = conn
         /\ done' = done \cup {<<r, IF req[r].pc = "job" THEN "job" ELSE "post">>}
<1>1. /\ req[r].pc \in {"job", "delete"} /\ req[r].pc \notin InTx /\ Goto(r, "ok") /\ "ok" \notin InTx
      /\ answer' = answer /\ past' = past /\ left' = left /\ over' = over /\ req[r] \in Request /\ KindOK(r, req[r])
  BY KindsCollected DEF LastStatement, InTx, InMerge, InGraphql
<1>2. /\ req[r].pc = "job" => r \in Mailers /\ r \in OneByOne
      /\ req[r].pc = "delete" => r \in Deleters
      /\ r \in OneByOne => r \notin Txs /\ r \notin Deleters
      /\ r \in Deleters => r \notin Txs
  BY <1>1, ConstantsAssumption DEF KindOK, Pcs, OneByOne, Txs
<1>3. DoneOK(r, req[r].pc, answer[r], done, over[r], past) /\ answer[r] = "none"
  BY <1>1 DEF CommitInv, DoneInv, DoneOK
<1>4. CASE req[r].pc = "job"
  <2>1. /\ req[r].job \in Conns /\ Holds(r, req[r].job) /\ Takes(req[r].job, {<<r, "job">>})
        /\ Sent(req[r].job)
    BY <1>1, <1>4 DEF KindOK, Request, Holds, LastStatement, Succeeds
  <2>2. OneByOneDone(r, "ok", answer[r], done \cup {<<r, "job">>}, over[r])
    BY <1>2, <1>3, <1>4 DEF DoneOK, OneByOneDone
  <2>3. DoneOK(r, "ok", answer[r], done \cup {<<r, "job">>}, over'[r], past)
    BY <1>1, <1>2, <1>3, <1>4, <2>2 DEF DoneOK, Txs
  <2>4. \A w \in {<<r, "job">>} : \A q, part : w = <<q, part>> => q = r
    OBVIOUS
  <2>5. \A d \in Conns : d # req[r].job => left'[d] = left[d] /\ (d \in passed' <=> d \in passed)
    BY <1>1, <2>1 DEF Sent
  <2>6. \A s \in Requests : s # r => over'[s] = over[s]
    BY <1>1
  <2>7. CommitInv' /\ conn' = conn /\ done' = done \cup {<<r, "job">>}
    BY <1>1, <2>1, <2>3, <2>4, <2>5, <2>6, PlainTx
  <2> QED
    BY <1>4, <2>7
<1>5. CASE req[r].pc = "delete"
  <2>1. /\ req[r].client \in Conns /\ Holds(r, req[r].client) /\ Takes(req[r].client, {<<r, "post">>})
        /\ Sent(req[r].client)
    BY <1>1, <1>5 DEF KindOK, Request, Holds, LastStatement, Succeeds
  <2>2. DeleteDone(r, "ok", answer[r], done \cup {<<r, "post">>}, over[r])
    BY <1>2, <1>3, <1>5 DEF DoneOK, DeleteDone
  <2>3. DoneOK(r, "ok", answer[r], done \cup {<<r, "post">>}, over'[r], past)
    BY <1>1, <1>2, <1>3, <1>5, <2>2 DEF DoneOK, Txs
  <2>4. \A w \in {<<r, "post">>} : \A q, part : w = <<q, part>> => q = r
    OBVIOUS
  <2>5. \A d \in Conns : d # req[r].client => left'[d] = left[d] /\ (d \in passed' <=> d \in passed)
    BY <1>1, <2>1 DEF Sent
  <2>6. \A s \in Requests : s # r => over'[s] = over[s]
    BY <1>1
  <2>7. CommitInv' /\ conn' = conn /\ done' = done \cup {<<r, "post">>}
    BY <1>1, <2>1, <2>3, <2>4, <2>5, <2>6, PlainTx
  <2> QED
    BY <1>5, <2>7
<1> QED
  BY <1>1, <1>4, <1>5

\* A statement that fails outside a transaction changes nothing; nor does a Google
\* callback without e-mails.
LEMMA FailCommit ==
  ASSUME TypeInv, OwnedInv, CommitInv, NEW r \in Requests, StatementFails(r) \/ NoEmails(r)
  PROVE  CommitInv' /\ conn' = conn /\ done' = done
<1>0. req[r] \in Request /\ KindOK(r, req[r]) /\ DoneOK(r, req[r].pc, answer[r], done, over[r], past)
  BY KindsCollected DEF CommitInv, DoneInv
<1>1. PICK c \in Conns : /\ Holds(r, c)
                         /\ \A d \in Conns : d # c => left'[d] = left[d] /\ (d \in passed' <=> d \in passed)
                         /\ Breaks(c) \/ (conn' = conn /\ done' = done)
  <2>1. CASE StatementFails(r)
    BY <1>0, <2>1, ConstantsAssumption DEF StatementFails, Fails, Sent, KindOK, Request, Holds
  <2>2. CASE NoEmails(r)
    <3>1. req[r].client \in Conns /\ Holds(r, req[r].client)
      BY <1>0, <2>2 DEF NoEmails, KindOK, Request, Holds
    <3> QED
      BY <2>2, <3>1 DEF NoEmails, strays
  <2> QED
    BY <2>1, <2>2
<1>2. PICK pc \in {"failed", "silent"} : Goto(r, pc) /\ (pc = "silent" => r \in Googles)
  BY DEF StatementFails, NoEmails
<1>3. /\ req[r].pc \in {"run", "job", "delete"} /\ req[r].pc \notin InTx /\ pc \notin InTx
      /\ answer' = answer /\ past' = past /\ over' = over /\ r \notin Mergers
      /\ answer[r] = "none"
  <2>1. req[r].pc \in {"run", "job", "delete"} /\ answer' = answer /\ past' = past /\ over' = over
    BY DEF StatementFails, NoEmails
  <2>2. r \notin Mergers
    BY <1>0, ConstantsAssumption DEF StatementFails, NoEmails, KindOK, Pcs, OneByOne
  <2>3. answer[r] = "none"
    BY <1>0, <2>1 DEF DoneOK
  <2> QED
    BY <2>1, <2>2, <2>3 DEF InTx, InMerge, InGraphql
<1>4. DoneOK(r, pc, answer[r], done \cup {}, over'[r], past)
  BY <1>0, <1>3 DEF DoneOK, GraphqlDone, OneByOneDone, DeleteDone
<1>5. done \cup {} = done /\ \A w \in {} : \A s, part : w = <<s, part>> => s = r
  OBVIOUS
<1>6. \A s \in Requests : s # r => over'[s] = over[s]
  BY <1>3
<1>7. pc \notin InTx /\ (pc = "run" => r \notin Txs) /\ Goto(r, pc)
  BY <1>2, <1>3
<1>8. CommitInv' /\ conn' = conn /\ done' = done \cup {}
  <2>1. Holds(r, c) /\ \A d \in Conns : d # c => left'[d] = left[d] /\ (d \in passed' <=> d \in passed)
    BY <1>1
  <2>2. CASE Breaks(c)
    BY <1>3, <1>4, <1>5, <1>6, <1>7, <2>1, <2>2, PlainTx
  <2>3. CASE conn' = conn /\ done' = done
    <3>1. Takes(c, {}) \/ ({} = {} /\ (Breaks(c) \/ (conn' = conn /\ done' = done)))
      BY <2>3
    <3>2. CommitInv'
      BY <1>3, <1>4, <1>5, <1>6, <1>7, <2>1, <3>1, PlainTx
    <3> QED
      BY <1>5, <2>3, <3>2
  <2> QED
    BY <1>1, <2>2, <2>3
<1> QED
  BY <1>5, <1>8

\* The files of a post that is deleted, beside each other.
LEMMA DeleteCommit ==
  ASSUME TypeInv, OwnedInv, CommitInv, NEW r \in Requests,
         FindPost(r) \/ (\E f \in Files : DeleteFile(r, f) \/ DeleteFileFails(r, f))
  PROVE  /\ CommitInv' /\ conn' = conn
         /\ done' = done \/ (r \in Deleters /\ answer[r] = "none" /\ \E f \in Files : done' = done \cup {<<r, f>>})
<1> DEFINE c == req[r].client
<1>0. req[r] \in Request /\ KindOK(r, req[r]) /\ DoneOK(r, req[r].pc, answer[r], done, over[r], past)
  BY KindsCollected DEF CommitInv, DoneInv
<1>1. /\ r \in Deleters /\ r \notin Txs /\ r \notin OneByOne
      /\ req[r].pc \in {"run", "beside"} /\ req[r].pc \notin InTx
      /\ answer' = answer /\ past' = past /\ over \in [Requests -> SUBSET (Statements \cup Files)]
  <2>1. req[r].pc \in {"run", "beside"} /\ r \in Deleters /\ answer' = answer /\ past' = past
    BY <1>0 DEF FindPost, DeleteFile, DeleteFileFails, KindOK, Pcs
  <2> QED
    BY <2>1, ConstantsAssumption DEF Txs, InTx, InMerge, InGraphql, TypeInv, TypeOK
<1>2. c \in Conns /\ Holds(r, c)
  BY <1>0, <1>1 DEF KindOK, Request, Holds
<1>3. DeleteDone(r, req[r].pc, "none", done, over[r]) /\ answer[r] = "none"
  BY <1>0, <1>1 DEF DoneOK
<1>4. ASSUME NEW pc, NEW writes, DeleteDone(r, pc, "none", writes, over'[r])
      PROVE  DoneOK(r, pc, answer[r], writes, over'[r], past)
  BY <1>1, <1>3, <1>4 DEF DoneOK, Txs
<1>5. \A pc \in {"delete", "beside", "failed"} : pc \notin InTx /\ pc # "run"
  BY DEF InTx, InMerge, InGraphql
<1>e. done \cup {} = done /\ \A w \in {} : \A s, part : w = <<s, part>> => s = r
  OBVIOUS
<1>6. CASE FindPost(r)
  <2>1. PICK pc \in {"delete", "beside"} : Goto(r, pc) /\ (pc = "delete" => Files = {})
    BY <1>6 DEF FindPost
  <2>2. Takes(c, {}) /\ Sent(c) /\ over' = over /\ left' = left /\ req[r].pc = "run"
    BY <1>6 DEF FindPost, Succeeds
  <2>3. DeleteDone(r, pc, "none", done \cup {}, over'[r])
    BY <1>3, <2>1, <2>2 DEF DeleteDone
  <2>4. \A s \in Requests : s # r => over'[s] = over[s]
    BY <2>2
  <2>5. \A d \in Conns : d # c => left'[d] = left[d] /\ (d \in passed' <=> d \in passed)
    BY <2>2 DEF Sent
  <2>6. DoneOK(r, pc, answer[r], done \cup {}, over'[r], past)
    BY <1>4, <2>3
  <2>7. pc \notin InTx /\ (pc = "run" => r \notin Txs) /\ Goto(r, pc)
    BY <1>5, <2>1
  <2>8. CommitInv' /\ conn' = conn /\ done' = done \cup {}
    BY <1>1, <1>2, <1>e, <2>2, <2>4, <2>5, <2>6, <2>7, PlainTx
  <2> QED
    BY <1>e, <2>8
<1>7. ASSUME NEW f \in Files, DeleteFile(r, f)
      PROVE  CommitInv' /\ conn' = conn /\ done' = done \cup {<<r, f>>}
  <2>1. PICK pc \in {"delete", "beside"} : Goto(r, pc) /\ (pc = "delete" => Files \subseteq over'[r])
    BY <1>7 DEF DeleteFile
  <2>2. Takes(c, {<<r, f>>}) /\ Sent(c) /\ left' = left /\ req[r].pc = "beside"
    BY <1>7 DEF DeleteFile, Succeeds
  <2>3. over'[r] = over[r] \cup {f} /\ \A s \in Requests : s # r => over'[s] = over[s]
    BY <1>1, <1>7 DEF DeleteFile
  <2>4. DeleteDone(r, pc, "none", done \cup {<<r, f>>}, over'[r])
    BY <1>3, <2>1, <2>2, <2>3 DEF DeleteDone
  <2>5. \A w \in {<<r, f>>} : \A q, part : w = <<q, part>> => q = r
    OBVIOUS
  <2>6. \A d \in Conns : d # c => left'[d] = left[d] /\ (d \in passed' <=> d \in passed)
    BY <2>2 DEF Sent
  <2>7. DoneOK(r, pc, answer[r], done \cup {<<r, f>>}, over'[r], past)
    BY <1>4, <2>4
  <2>8. pc \notin InTx /\ (pc = "run" => r \notin Txs) /\ Goto(r, pc)
    BY <1>5, <2>1
  <2>9. \A s \in Requests : s # r => over'[s] = over[s]
    BY <2>3
  <2> QED
    BY <1>1, <1>2, <2>2, <2>5, <2>6, <2>7, <2>8, <2>9, PlainTx
<1>8. ASSUME NEW f \in Files, DeleteFileFails(r, f)
      PROVE  CommitInv' /\ conn' = conn /\ done' = done
  <2>1. Breaks(c) /\ Goto(r, "failed") /\ \A s \in Requests : s # r => over'[s] = over[s]
    BY <1>1, <1>8 DEF DeleteFileFails
  <2>2. \A d \in Conns : d # c => left'[d] = left[d] /\ (d \in passed' <=> d \in passed)
    BY <1>8 DEF DeleteFileFails
  <2>3. DoneOK(r, "failed", answer[r], done \cup {}, over'[r], past)
    BY <1>3, <1>4 DEF DeleteDone
  <2>4. "failed" \notin InTx /\ "failed" # "run"
    BY <1>5
  <2>5. CommitInv' /\ conn' = conn /\ done' = done \cup {}
    BY <1>1, <1>2, <1>e, <2>1, <2>2, <2>3, <2>4, PlainTx
  <2> QED
    BY <1>e, <2>5
<1> QED
  BY <1>1, <1>3, <1>6, <1>7, <1>8

\* What was left behind is of a request that no longer depends on it.
LEMMA LeftCommit ==
  ASSUME TypeInv, OwnedInv, CommitInv, NEW c \in Conns, NEW w \in left[c], LeftRuns(c, w)
  PROVE  CommitInv'
<1>1. TxInv'
  BY LeftTx DEF CommitInv
<1>2. /\ req' = req /\ answer' = answer /\ over' = over /\ past' = past
      /\ done' = done \/ done' = done \cup {w}
  BY DEF LeftRuns, Takes, Breaks
<1>3. w \in Deleters \X Files /\ \A s \in Txs : s \notin Deleters
  BY ConstantsAssumption DEF TypeInv, TypeOK, Txs
<1>4. ASSUME NEW s \in Requests PROVE DoneOK(s, req'[s].pc, answer'[s], done', over'[s], past')
  <2>1. SameDone(s)
    BY <1>2, <1>3 DEF SameDone
  <2>2. DoneOK(s, req[s].pc, answer[s], done, over[s], past)
    BY DEF CommitInv, DoneInv
  <2> QED
    BY <1>2, <2>1, <2>2, DoneOther
<1> QED
  BY <1>1, <1>4 DEF CommitInv, DoneInv

LEMMA ConnectCommit ==
  ASSUME TypeInv, OwnedInv, CommitInv, NEW r \in Requests, Connect(r)
  PROVE  CommitInv'
<1>1. /\ req \in [Requests -> Request] /\ conn \in [Conns -> Connection] /\ req[r].pc \in {"new", "addJob"}
      /\ req[r] \in Request /\ KindOK(r, req[r]) /\ past \subseteq Mergers
  BY KindsCollected DEF TypeInv, TypeOK, Connect, OpenFails, Wait, TakeIdle, OpenNew, Connecting
<1>2. /\ answer' = answer /\ done' = done /\ past' = past /\ over' = over
      /\ \A d \in Conns : SameLine(d)
  <2>1. answer' = answer /\ done' = done /\ past' = past /\ over' = over /\ left' = left /\ passed' = passed
    BY DEF Connect, OpenFails, Wait, TakeIdle, OpenNew, strays
  <2>2. conn' = conn \/ \E c \in Conns : conn' = [conn EXCEPT ![c].state = "busy"]
    BY DEF Connect, OpenFails, Wait, TakeIdle, OpenNew
  <2> QED
    BY <1>1, <2>1, <2>2 DEF SameLine, SameData, Connection
<1>3. \E q : /\ req' = [req EXCEPT ![r] = q]
             /\ \/ q.pc = "failed"
                \/ req[r].pc = "new" /\ q.pc \in {"waiting", "run"}
                \/ req[r].pc = "addJob" /\ q.pc \in {"waitingJob", "job"}
  <2>1. ASSUME OpenFails(r)
        PROVE  req' = [req EXCEPT ![r] = [req[r] EXCEPT !.pc = "failed"]]
               /\ [req[r] EXCEPT !.pc = "failed"].pc = "failed"
    BY <1>1, <2>1 DEF OpenFails, Goto, Request
  <2>2. ASSUME Wait(r)
        PROVE  \E pc : /\ req' = [req EXCEPT ![r] = [req[r] EXCEPT !.pc = pc]]
                       /\ [req[r] EXCEPT !.pc = pc].pc = pc
                       /\ \/ req[r].pc = "new" /\ pc = "waiting"
                          \/ req[r].pc = "addJob" /\ pc = "waitingJob"
    <3>1. PICK pc : /\ Goto(r, pc)
                    /\ \/ req[r].pc = "new" /\ pc = "waiting"
                       \/ req[r].pc = "addJob" /\ pc = "waitingJob"
      BY <1>1, <2>2 DEF Wait
    <3>2. [req[r] EXCEPT !.pc = pc].pc = pc
      BY <1>1 DEF Request
    <3> QED
      BY <1>1, <3>1, <3>2 DEF Goto
  <2>3. ASSUME NEW c \in Conns, TakeIdle(r, c) \/ OpenNew(r, c)
        PROVE  \E q : /\ req' = [req EXCEPT ![r] = q]
                      /\ \/ q.pc = "failed"
                         \/ req[r].pc = "new" /\ q.pc \in {"waiting", "run"}
                         \/ req[r].pc = "addJob" /\ q.pc \in {"waitingJob", "job"}
    <3>1. req' = [req EXCEPT ![r] = Granted(req[r], c)]
      BY <1>1, <2>3 DEF TakeIdle, OpenNew
    <3>2. IF req[r].pc = "new" THEN Granted(req[r], c).pc = "run" ELSE Granted(req[r], c).pc = "job"
      BY <1>1, GrantedKind
    <3> QED
      BY <1>1, <3>1, <3>2
  <2> QED
    BY <2>1, <2>2, <2>3 DEF Connect
<1>4. PICK q : /\ req' = [req EXCEPT ![r] = q]
               /\ \/ q.pc = "failed"
                  \/ req[r].pc = "new" /\ q.pc \in {"waiting", "run"}
                  \/ req[r].pc = "addJob" /\ q.pc \in {"waitingJob", "job"}
  BY <1>3
<1>5. req'[r] = q /\ \A s \in Requests : s # r => req'[s] = req[s]
  BY <1>1, <1>4
<1>7. \A s \in Requests : SameDone(s) /\ DoneOK(s, req[s].pc, answer[s], done, over[s], past)
  BY <1>2 DEF SameDone, CommitInv, DoneInv
<1>8. DoneOK(r, q.pc, answer[r], done, over[r], past)
  <2>1. DoneOK(r, req[r].pc, answer[r], done, over[r], past) /\ req[r].pc \in {"new", "addJob"}
    BY <1>1, <1>7
  <2>2. req[r].pc = "addJob" => r \in OneByOne /\ r \notin Txs /\ r \notin Deleters
    BY <1>1, ConstantsAssumption DEF KindOK, Pcs, OneByOne, Txs
  <2>3. r \in Mergers => MergeDone(r, q.pc, answer[r], done, past)
    BY <1>4, <2>1, <2>2 DEF DoneOK, MergeDone, MergeParts, Txs
  <2>4. r \in Graphql => GraphqlDone(r, q.pc, answer[r], done)
    BY <1>4, <2>1, <2>2 DEF DoneOK, GraphqlDone, Txs
  <2>5. r \in OneByOne => OneByOneDone(r, q.pc, answer[r], done, over[r])
    BY <1>4, <2>1 DEF DoneOK, OneByOneDone
  <2>6. r \in Deleters => DeleteDone(r, q.pc, answer[r], done, over[r])
    BY <1>4, <2>1, <2>2 DEF DoneOK, DeleteDone
  <2> QED
    BY <2>1, <2>3, <2>4, <2>5, <2>6 DEF DoneOK
<1>9. DoneInv'
  <2>1. ASSUME NEW s \in Requests PROVE DoneOK(s, req'[s].pc, answer'[s], done', over'[s], past')
    BY <1>2, <1>5, <1>7, <1>8
  <2> QED
    BY <2>1 DEF DoneInv
<1>10. TxInv'
  <2>1. Txs \subseteq Requests
    BY DEF Requests, Txs
  <2>2. \A s \in Txs : /\ req[s].pc \in InTx => req'[s] = req[s]
                       /\ req'[s].pc \in InTx => req'[s] = req[s]
    BY <1>1, <1>4, <1>5, <2>1 DEF InTx, InMerge, InGraphql
  <2>3. \A s \in Txs : req'[s].pc = "run" => s \notin past
    <3> SUFFICES ASSUME NEW s \in Txs, req'[s].pc = "run" PROVE s \notin past
      OBVIOUS
    <3>1. req[s].pc \in {"new", "run"}
      BY <1>4, <1>5, <2>1
    <3> QED
      BY <1>1, <1>7, <2>1, <3>1 DEF DoneOK, MergeDone
  <2>4. \A s \in Txs : req[s].pc \in InTx => req[s].client \in Conns
    BY TxHolder
  <2> QED
    BY <1>2, <2>2, <2>3, <2>4, TxFrame DEF CommitInv
<1> QED
  BY <1>9, <1>10 DEF CommitInv

\* The transactions stay where they are when no request moves.
LEMMA TxAt ==
  ASSUME TypeInv, OwnedInv, CommitInv, NEW s \in Txs
  PROVE  /\ s \in Requests
         /\ req[s].pc \in InTx => req[s].client \in Conns
         /\ req[s].pc = "run" => s \notin past
<1>1. s \in Requests /\ past \subseteq Mergers
  BY DEF Txs, Requests, TypeInv, TypeOK
<1>2. DoneOK(s, req[s].pc, answer[s], done, over[s], past)
  BY <1>1 DEF CommitInv, DoneInv
<1> QED
  BY <1>1, <1>2, TxHolder DEF DoneOK, MergeDone

LEMMA IdleCommit ==
  ASSUME TypeInv, OwnedInv, CommitInv,
         (\E c \in Conns : IdleTimeout(c)) \/ UNCHANGED vars
  PROVE  CommitInv'
<1>1. req' = req /\ answer' = answer /\ done' = done /\ past' = past /\ over' = over
  BY DEF IdleTimeout, vars
<1>2. DoneInv'
  BY <1>1 DEF CommitInv, DoneInv
<1>3. ASSUME NEW d \in Conns
      PROVE  \/ SameLine(d)
             \/ /\ ~InTransaction(conn'[d]) /\ EmptyIfNone(conn'[d])
                /\ \A r \in Requests : ~Holds(r, d)
  <2>1. CASE UNCHANGED vars
    BY <2>1 DEF vars, SameLine, SameData, strays
  <2>2. ASSUME NEW c \in Conns, IdleTimeout(c)
        PROVE  \/ SameLine(d)
               \/ /\ ~InTransaction(conn'[d]) /\ EmptyIfNone(conn'[d])
                  /\ \A r \in Requests : ~Holds(r, d)
    <3>1. conn \in [Conns -> Connection]
      BY DEF TypeInv, TypeOK
    <3>2. CASE d = c
      BY <2>2, <3>1, <3>2 DEF IdleTimeout, Closed, InTransaction, EmptyIfNone, OwnedInv
    <3>3. CASE d # c
      BY <2>2, <3>1, <3>3 DEF IdleTimeout, SameLine, SameData
    <3> QED
      BY <3>2, <3>3
  <2> QED
    BY <2>1, <2>2
<1>4. \A r \in Txs : /\ req[r].pc \in InTx => req[r].client \in Conns
                     /\ req[r].pc = "run" => r \notin past
  BY TxAt
<1>5. \A d \in Conns : (\A r \in Requests : ~Holds(r, d)) => \A r \in Txs : req[r].client # d
  BY DEF Holds, Requests, Txs
<1>6. \A d \in Conns : \/ SameLine(d)
                       \/ /\ ~InTransaction(conn'[d]) /\ EmptyIfNone(conn'[d])
                          /\ \A r \in Txs : req[r].pc \in InTx => req[r].client # d
  BY <1>3, <1>5
<1>7. TxInv'
  BY <1>1, <1>4, <1>6, TxFrame DEF CommitInv
<1> QED
  BY <1>2, <1>7 DEF CommitInv

LEMMA ReleasesCommit ==
  ASSUME TypeInv, OwnedInv, CommitInv, NEW r \in Requests, ReleaseJob(r) \/ Answer(r)
  PROVE  CommitInv'
<1>0. /\ req \in [Requests -> Request] /\ req[r] \in Request /\ None \notin Conns
      /\ answer \in [Requests -> {"none", "ok", "failed"}] /\ KindOK(r, req[r])
      /\ DoneOK(r, req[r].pc, answer[r], done, over[r], past)
  BY ConstantsAssumption, KindsCollected DEF TypeInv, TypeOK, CommitInv, DoneInv
<1>1. CASE ReleaseJob(r)
  <2> DEFINE q == [req[r] EXCEPT !.job = None]
  <2>1. q \in Request /\ q.pc = req[r].pc /\ req[r].job \in Conns /\ req[r].pc \in {"ok", "failed"}
    BY <1>0, <1>1 DEF ReleaseJob, Request
  <2>2. [req EXCEPT ![r].job = None] = [req EXCEPT ![r] = q]
    BY <1>0
  <2>3. /\ Release(req[r].job, [req EXCEPT ![r] = q])
        /\ answer' = answer /\ done' = done /\ past' = past /\ over' = over
        /\ left' = left /\ passed' = passed
    BY <1>1, <2>2 DEF ReleaseJob, strays
  <2> HIDE DEF q
  <2>4. ~Waiting(req[r]) /\ ~Waiting(q) /\ req[r].pc \notin InTx /\ q.pc \notin InTx /\ q.pc # "run"
    BY <2>1 DEF Waiting, InTx, InMerge, InGraphql
  <2>5. DoneOK(r, q.pc, answer'[r], done', over'[r], past')
    BY <1>0, <2>1, <2>3
  <2>6. \A s \in Requests : s # r => answer'[s] = answer[s]
    BY <2>3
  <2> QED
    BY <2>1, <2>3, <2>4, <2>5, <2>6, ReleaseCommit
<1>2. CASE Answer(r)
  <2> DEFINE q == [req[r] EXCEPT !.pc = "ended", !.client = None]
  <2>1. q \in Request /\ q.pc = "ended" /\ req[r].pc \in {"ok", "failed", "silent"}
    BY <1>0, <1>2 DEF Answer, Request
  <2>2. [req EXCEPT ![r].pc = "ended", ![r].client = None] = [req EXCEPT ![r] = q]
    BY <1>0
  <2>3. /\ answer'[r] = (IF req[r].pc = "silent" THEN "none" ELSE req[r].pc)
        /\ \A s \in Requests : s # r => answer'[s] = answer[s]
        /\ done' = done /\ past' = past /\ over' = over /\ left' = left /\ passed' = passed
    BY <1>0, <1>2 DEF Answer, strays
  <2>4. IF req[r].client = None
        THEN req' = [req EXCEPT ![r] = q] /\ conn' = conn
        ELSE Release(req[r].client, [req EXCEPT ![r] = q])
    BY <1>2, <2>2 DEF Answer
  <2> HIDE DEF q
  <2>5. ~Waiting(req[r]) /\ ~Waiting(q) /\ req[r].pc \notin InTx /\ q.pc \notin InTx /\ q.pc # "run"
    BY <2>1 DEF Waiting, InTx, InMerge, InGraphql
  <2>6. DoneOK(r, "ended", answer'[r], done', over'[r], past')
    <3>1. answer[r] = "none"
      BY <1>0, <2>1 DEF DoneOK
    <3>2. /\ req[r].pc = "silent" => r \in OneByOne
          /\ r \in OneByOne => r \notin Mergers /\ r \notin Graphql /\ r \notin Deleters
      BY <1>0, ConstantsAssumption DEF KindOK, Pcs
    <3>3. r \in Mergers => MergeDone(r, "ended", answer'[r], done', past')
      BY <1>0, <2>1, <2>3, <3>2 DEF DoneOK, MergeDone, MergeParts
    <3>4. r \in Graphql => GraphqlDone(r, "ended", answer'[r], done')
      BY <1>0, <2>1, <2>3, <3>1, <3>2 DEF DoneOK, GraphqlDone
    <3>5. r \in OneByOne => OneByOneDone(r, "ended", answer'[r], done', over'[r])
      BY <1>0, <2>1, <2>3, <3>1 DEF DoneOK, OneByOneDone
    <3>6. r \in Deleters => DeleteDone(r, "ended", answer'[r], done', over'[r])
      BY <1>0, <2>1, <2>3, <3>1, <3>2 DEF DoneOK, DeleteDone
    <3> QED
      BY <3>3, <3>4, <3>5, <3>6 DEF DoneOK
  <2>7. CASE req[r].client # None
    <3>1. req[r].client \in Conns
      BY <1>0, <2>7 DEF Request
    <3> QED
      BY <2>1, <2>3, <2>4, <2>5, <2>6, <2>7, <3>1, ReleaseCommit
  <2>8. CASE req[r].client = None
    <3>1. conn' = conn /\ req'[r] = q /\ \A s \in Requests : s # r => req'[s] = req[s]
      BY <1>0, <2>4, <2>8
    <3>2. DoneInv'
      <4>1. ASSUME NEW s \in Requests PROVE DoneOK(s, req'[s].pc, answer'[s], done', over'[s], past')
        BY <2>1, <2>3, <2>6, <3>1 DEF CommitInv, DoneInv
      <4> QED
        BY <4>1 DEF DoneInv
    <3>3. \A s \in Txs : /\ req[s].pc \in InTx => req[s].client \in Conns
                         /\ req[s].pc = "run" => s \notin past
      BY TxAt
    <3>4. \A s \in Txs : /\ req[s].pc \in InTx => req'[s] = req[s]
                         /\ req'[s].pc \in InTx => req'[s] = req[s]
                         /\ req'[s].pc = "run" => s \notin past
      <4>1. Txs \subseteq Requests
        BY DEF Txs, Requests
      <4> QED
        BY <2>5, <3>1, <3>3, <4>1
    <3>5. \A c \in Conns : SameLine(c)
      BY <2>3, <3>1 DEF SameLine, SameData
    <3>6. TxInv'
      BY <2>3, <3>3, <3>4, <3>5, TxFrame DEF CommitInv
    <3> QED
      BY <3>2, <3>6 DEF CommitInv
  <2> QED
    BY <2>7, <2>8
<1> QED
  BY <1>1, <1>2

LEMMA InitCommit == Init => CommitInv
<1> SUFFICES ASSUME Init PROVE CommitInv
  OBVIOUS
<1>1. \A c \in Conns : ~InTransaction(conn[c]) /\ EmptyIfNone(conn[c])
  BY DEF Init, Closed, InTransaction, EmptyIfNone
<1>2. \A r \in Requests : req[r].pc = "new" /\ answer[r] = "none" /\ over[r] = {}
  BY DEF Init
<1>3. \A r \in Txs : req[r].pc \notin InTx \cup {"run"}
  BY <1>2 DEF Txs, Requests, InTx, InMerge, InGraphql
<1>4. TxInv
  BY <1>1, <1>3 DEF TxInv
<1>5. DoneInv
  BY <1>2 DEF Init, DoneInv, DoneOK, MergeDone, GraphqlDone, OneByOneDone, DeleteDone
<1> QED
  BY <1>4, <1>5 DEF CommitInv

LEMMA StepCommit ==
  ASSUME TypeInv, OwnedInv, CommitInv, NEW r \in Requests, Step(r)
  PROVE  CommitInv'
<1>1. ASSUME Check(r) \/ WriteNonce(r) \/ Migrate(r) \/ Refuse(r) PROVE CommitInv'
  <2>1. CASE Check(r)
    BY <2>1, MergeWrites DEF Check, Succeeds
  <2>2. CASE WriteNonce(r)
    BY <2>2, MergeWrites DEF WriteNonce
  <2>3. CASE Migrate(r)
    BY <2>3, MergeWrites DEF Migrate
  <2>4. CASE Refuse(r)
    BY <2>4, MergeWrites DEF Refuse
  <2> QED
    BY <1>1, <2>1, <2>2, <2>3, <2>4
<1>2. ASSUME FindPost(r) \/ (\E f \in Files : DeleteFile(r, f) \/ DeleteFileFails(r, f)) PROVE CommitInv'
  BY <1>2, DeleteCommit
<1>3. ASSUME NEW s \in Statements, Statement(r, s) PROVE CommitInv'
  BY <1>3, StatementCommit
<1>4. ASSUME LastStatement(r) \/ StatementFails(r) \/ NoEmails(r) PROVE CommitInv'
  BY <1>4, LastCommit, FailCommit
<1>5. ASSUME \/ Begin(r) \/ Savepoint(r) \/ Commit(r) \/ MergeStatementFails(r)
             \/ RollbackTo(r) \/ RollbackToFails(r) \/ Resolve(r) \/ ResolveFails(r)
      PROVE  CommitInv'
  BY <1>5, BeginCommit, SavepointCommit, CommitCommit, MergeFails, RollbackCommit, ResolveCommit
<1>6. ASSUME ReleaseJob(r) \/ Answer(r) PROVE CommitInv'
  BY <1>6, ReleasesCommit
<1> QED
  BY <1>1, <1>2, <1>3, <1>4, <1>5, <1>6 DEF Step

LEMMA NextCommit == TypeInv /\ OwnedInv /\ CommitInv /\ [Next]_vars => CommitInv'
<1> SUFFICES ASSUME TypeInv, OwnedInv, CommitInv, [Next]_vars PROVE CommitInv'
  OBVIOUS
<1>1. ASSUME NEW r \in Requests, Connect(r) \/ Step(r) PROVE CommitInv'
  BY <1>1, ConnectCommit, StepCommit
<1>2. ASSUME NEW c \in Conns, Leftover(c) PROVE CommitInv'
  BY <1>2, LeftCommit DEF Leftover
<1>3. CASE (\E c \in Conns : IdleTimeout(c)) \/ UNCHANGED vars
  BY <1>3, IdleCommit
<1> QED
  BY <1>1, <1>2, <1>3 DEF Next, AllEnded

-----------------------------------------------------------------------------
(* What was left behind *)

\* The files that are left to run, or got into somebody's transaction, are of
\* deletions that failed; while theirs is not answered, they still hold the
\* connection, so it is nobody else's transaction yet.
LateInv ==
  \A q \in Deleters, f \in Files, c \in Conns :
    /\ <<q, f>> \in left[c] => (req[q].pc = "failed" /\ req[q].client = c) \/ answer[q] = "failed"
    /\ <<q, f>> \in conn[c].work \cup conn[c].saved => answer[q] = "failed"

\* Steps that leave nothing behind, and put nothing that was into a transaction.
LEMMA LateKept ==
  ASSUME LateInv,
         \A q \in Deleters : answer[q] = "failed" => answer'[q] = "failed",
         \A q \in Deleters : req[q].pc = "failed" =>
           (req'[q].pc = "failed" /\ req'[q].client = req[q].client) \/ answer'[q] = "failed",
         \A c \in Conns : left'[c] \subseteq left[c],
         \A c \in Conns, q \in Deleters, f \in Files :
           <<q, f>> \in conn'[c].work \cup conn'[c].saved => <<q, f>> \in conn[c].work \cup conn[c].saved
  PROVE  LateInv'
<1> SUFFICES ASSUME NEW q \in Deleters, NEW f \in Files, NEW c \in Conns
             PROVE  /\ <<q, f>> \in left'[c] =>
                         (req'[q].pc = "failed" /\ req'[q].client = c) \/ answer'[q] = "failed"
                    /\ <<q, f>> \in conn'[c].work \cup conn'[c].saved => answer'[q] = "failed"
  BY DEF LateInv
<1> QED
  BY DEF LateInv

\* A statement adds no more than its own writes to a transaction.
LEMMA OwnWrites ==
  ASSUME TypeInv, NEW c \in Conns, NEW writes, NEW q, NEW f, <<q, f>> \notin writes,
         Takes(c, writes) \/ Breaks(c), NEW d \in Conns,
         <<q, f>> \in conn'[d].work \cup conn'[d].saved
  PROVE  <<q, f>> \in conn[d].work \cup conn[d].saved
<1>1. conn \in [Conns -> Connection]
  BY DEF TypeInv, TypeOK
<1>2. conn'[d].saved = conn[d].saved /\ conn'[d].work \subseteq conn[d].work \cup writes
  <2>1. CASE Takes(c, writes)
    BY <1>1, <2>1 DEF Takes, Connection
  <2>2. CASE Breaks(c)
    BY <1>1, <2>2 DEF Breaks, Connection
  <2> QED
    BY <2>1, <2>2
<1> QED
  BY <1>2

\* The transactions' own steps move writes between what is kept and what is not,
\* or add those of their request.
LEMMA TxWrites ==
  ASSUME TypeInv, NEW r \in Requests, NEW d \in Conns, NEW q \in Deleters, NEW f \in Files,
         \/ Begin(r) \/ Check(r) \/ WriteNonce(r) \/ Savepoint(r) \/ Migrate(r) \/ Commit(r) \/ Refuse(r)
         \/ MergeStatementFails(r) \/ RollbackTo(r) \/ RollbackToFails(r) \/ Resolve(r) \/ ResolveFails(r),
         <<q, f>> \in conn'[d].work \cup conn'[d].saved
  PROVE  <<q, f>> \in conn[d].work \cup conn[d].saved
<1> DEFINE c == req[r].client
<1>1. conn \in [Conns -> Connection]
  BY DEF TypeInv, TypeOK
<1>2. r # q /\ c \in Conns
  <2>1. (req[r].pc = "run" /\ r \in Txs) \/ req[r].pc \in InTx
    BY DEF Begin, Check, WriteNonce, Savepoint, Migrate, Commit, Refuse, MergeStatementFails,
           RollbackTo, RollbackToFails, Resolve, ResolveFails, Txs, InTx, InMerge, InGraphql
  <2>2. r \in Txs
    BY <2>1 DEF TypeInv, KindsOK, Pcs, InTx, InMerge, InGraphql, Txs
  <2> QED
    BY <2>1, <2>2, ConstantsAssumption DEF TypeInv, TypeOK, Request, Txs, InTx, InMerge, InGraphql
<1>3. ASSUME Check(r) \/ WriteNonce(r) \/ Migrate(r) \/ Refuse(r) \/ Resolve(r)
             \/ MergeStatementFails(r) \/ RollbackToFails(r)
      PROVE  \E writes : <<q, f>> \notin writes /\ (Takes(c, writes) \/ Breaks(c))
  <2>1. ASSUME NEW part PROVE <<q, f>> \notin {<<r, part>>}
    BY <1>2
  <2>2. <<q, f>> \notin {r} \X Statements /\ <<q, f>> \notin {}
    BY <1>2
  <2>3. CASE Check(r) \/ Refuse(r)
    BY <2>2, <2>3 DEF Check, Refuse, Succeeds
  <2>4. CASE WriteNonce(r) \/ Migrate(r)
    BY <2>1, <2>4 DEF WriteNonce, Migrate, Succeeds
  <2>5. CASE Resolve(r)
    BY <2>2, <2>5 DEF Resolve, Succeeds
  <2>6. CASE MergeStatementFails(r) \/ RollbackToFails(r)
    BY <2>2, <2>6 DEF MergeStatementFails, RollbackToFails, Fails
  <2> QED
    BY <1>3, <2>3, <2>4, <2>5, <2>6
<1>4. ASSUME Begin(r) \/ Savepoint(r) \/ Commit(r) \/ RollbackTo(r) \/ ResolveFails(r)
      PROVE  <<q, f>> \in conn[d].work \cup conn[d].saved
  <2>1. CASE Begin(r)
    BY <1>1, <2>1 DEF Begin, Connection
  <2>2. CASE Savepoint(r)
    BY <1>1, <2>2 DEF Savepoint, Connection
  <2>3. CASE Commit(r)
    BY <1>1, <2>3 DEF Commit, Closed
  <2>4. CASE RollbackTo(r)
    BY <1>1, <2>4 DEF RollbackTo, Connection
  <2>5. CASE ResolveFails(r)
    BY <1>1, <2>5 DEF ResolveFails, Connection
  <2> QED
    BY <1>4, <2>1, <2>2, <2>3, <2>4, <2>5
<1> QED
  BY <1>2, <1>3, <1>4, OwnWrites

LEMMA LocalLate ==
  ASSUME TypeInv, OwnedInv, CommitInv, LateInv, NEW r \in Requests, Local(r)
  PROVE  LateInv'
<1>1. /\ req \in [Requests -> Request] /\ left \in [Conns -> SUBSET (Deleters \X Files)]
      /\ Deleters \subseteq Requests /\ req[r].pc # "failed" /\ answer' = answer
      /\ \E pc : req' = [req EXCEPT ![r].pc = pc]
  BY LocalStep DEF TypeInv, TypeOK, Requests, Moves
<1>2. /\ \A q \in Deleters : answer[q] = "failed" => answer'[q] = "failed"
      /\ \A q \in Deleters : req[q].pc = "failed" => req'[q] = req[q]
  BY <1>1
<1>3. \A c \in Conns, q \in Deleters, f \in Files :
        <<q, f>> \in conn'[c].work \cup conn'[c].saved => <<q, f>> \in conn[c].work \cup conn[c].saved
  <2>1. ASSUME \/ (\E s \in Statements : Statement(r, s)) \/ LastStatement(r) \/ StatementFails(r)
               \/ NoEmails(r) \/ FindPost(r) \/ (\E f \in Files : DeleteFile(r, f) \/ DeleteFileFails(r, f))
        PROVE  conn' = conn
    BY <2>1, StatementCommit, LastCommit, FailCommit, DeleteCommit
  <2> QED
    BY <2>1, TxWrites DEF Local
<1>4. ASSUME ~\E f \in Files : DeleteFileFails(r, f) PROVE left' = left
  BY <1>4 DEF Local, Statement, LastStatement, StatementFails, NoEmails, FindPost, DeleteFile, strays,
              Begin, Check, WriteNonce, Savepoint, Migrate, Commit, Refuse, MergeStatementFails,
              RollbackTo, RollbackToFails, Resolve, ResolveFails
<1>5. CASE ~\E f \in Files : DeleteFileFails(r, f)
  BY <1>2, <1>3, <1>4, <1>5, LateKept
<1>6. CASE \E f \in Files : DeleteFileFails(r, f)
  <2> DEFINE c == req[r].client
  <2>1. /\ req'[r].pc = "failed" /\ req'[r].client = c
        /\ \A d \in Conns : d # c => left'[d] = left[d]
        /\ \A q \in Deleters, f \in Files : c \in Conns /\ <<q, f>> \in left'[c] => q = r
    BY <1>1, <1>6 DEF DeleteFileFails, Goto, Request
  <2> SUFFICES ASSUME NEW q \in Deleters, NEW f \in Files, NEW d \in Conns
               PROVE  /\ <<q, f>> \in left'[d] =>
                           (req'[q].pc = "failed" /\ req'[q].client = d) \/ answer'[q] = "failed"
                      /\ <<q, f>> \in conn'[d].work \cup conn'[d].saved => answer'[q] = "failed"
    BY DEF LateInv
  <2>2. <<q, f>> \in conn'[d].work \cup conn'[d].saved => answer'[q] = "failed"
    BY <1>1, <1>3 DEF LateInv
  <2>3. ASSUME <<q, f>> \in left'[d]
        PROVE  (req'[q].pc = "failed" /\ req'[q].client = d) \/ answer'[q] = "failed"
    <3>1. CASE d = c
      BY <2>1, <2>3, <3>1
    <3>2. CASE d # c
      BY <1>1, <1>2, <2>1, <2>3, <3>2 DEF LateInv
    <3> QED
      BY <3>1, <3>2
  <2> QED
    BY <2>2, <2>3
<1> QED
  BY <1>5, <1>6

\* It runs outside transactions, or in that of a later holder of the connection.
LEMMA LeftLate ==
  ASSUME TypeInv, OwnedInv, CommitInv, LateInv, NEW c \in Conns, NEW w \in left[c], LeftRuns(c, w)
  PROVE  LateInv'
<1>1. /\ conn \in [Conns -> Connection] /\ left \in [Conns -> SUBSET (Deleters \X Files)]
      /\ Deleters \subseteq Requests /\ req' = req /\ answer' = answer
      /\ \A d \in Conns : left'[d] \subseteq left[d]
  BY DEF TypeInv, TypeOK, Requests, LeftRuns
<1>2. ASSUME NEW d \in Conns, NEW q \in Deleters, NEW f \in Files,
             <<q, f>> \in conn'[d].work \cup conn'[d].saved
      PROVE  answer[q] = "failed"
  <2>1. CASE w # <<q, f>> \/ conn' = conn \/ Breaks(c)
    <3>1. CASE conn' = conn
      BY <1>2, <3>1 DEF LateInv
    <3>2. CASE Breaks(c)
      <4>1. <<q, f>> \notin {}
        OBVIOUS
      <4>2. <<q, f>> \in conn[d].work \cup conn[d].saved
        BY <1>2, <3>2, <4>1, OwnWrites
      <4> QED
        BY <4>2 DEF LateInv
    <3>3. CASE w # <<q, f>> /\ Takes(c, {w})
      <4>1. <<q, f>> \in conn[d].work \cup conn[d].saved
        BY <1>2, <3>3, OwnWrites
      <4> QED
        BY <4>1 DEF LateInv
    <3> QED
      BY <2>1, <3>1, <3>2, <3>3 DEF LeftRuns
  <2>2. CASE w = <<q, f>> /\ Takes(c, {w}) /\ conn[c].tx = "open"
    <3>1. PICK r \in Txs : req[r].client = c /\ req[r].pc \in InTx
      BY <2>2 DEF CommitInv, TxInv, InTransaction
    <3>2. r # q /\ r \in Requests /\ q \in Requests
      BY <1>1, <3>1, ConstantsAssumption DEF Txs, Requests
    <3>3. ~(req[q].pc = "failed" /\ req[q].client = c)
      BY <3>1, <3>2 DEF OwnedInv, Holds
    <3> QED
      BY <2>2, <3>3 DEF LateInv
  <2>3. CASE Takes(c, {w}) /\ conn[c].tx # "open"
    BY <2>1, <2>3 DEF Takes
  <2> QED
    BY <2>1, <2>2, <2>3 DEF LeftRuns
<1> QED
  BY <1>1, <1>2 DEF LateInv

\* Connections come and go with what was left behind on them.
LEMMA PoolLate ==
  ASSUME TypeInv, OwnedInv, CommitInv, LateInv,
         \/ \E r \in Requests : Connect(r) \/ ReleaseJob(r) \/ Answer(r)
         \/ \E c \in Conns : IdleTimeout(c)
         \/ UNCHANGED vars
  PROVE  LateInv'
<1>0. /\ req \in [Requests -> Request] /\ conn \in [Conns -> Connection]
      /\ left \in [Conns -> SUBSET (Deleters \X Files)]
      /\ Deleters \subseteq Requests /\ answer \in [Requests -> {"none", "ok", "failed"}]
      /\ \A q \in Deleters : q \notin Mailers
      /\ \A q \in Deleters : answer[q] # "none" => req[q].pc = "ended"
  BY ConstantsAssumption DEF TypeInv, TypeOK, Requests, OneByOne, CommitInv, DoneInv, DoneOK
<1>1. ASSUME NEW r \in Requests, Connect(r) PROVE LateInv'
  <2>1. /\ answer' = answer /\ left' = left /\ req[r].pc \in {"new", "addJob"}
        /\ \A q \in Requests : q # r => req'[q] = req[q]
    BY <1>0, <1>1 DEF Connect, OpenFails, Wait, TakeIdle, OpenNew, Goto, Connecting, strays
  <2>2. conn' = conn \/ \E c \in Conns : conn' = [conn EXCEPT ![c].state = "busy"]
    BY <1>1 DEF Connect, OpenFails, Wait, TakeIdle, OpenNew
  <2>3. \A c \in Conns : conn'[c].work = conn[c].work /\ conn'[c].saved = conn[c].saved
    BY <1>0, <2>2 DEF Connection
  <2>4. \A q \in Deleters : req[q].pc = "failed" => req'[q] = req[q]
    BY <1>0, <2>1
  <2> QED
    BY <2>1, <2>3, <2>4, LateKept
<1>2. ASSUME NEW r \in Requests, NEW c \in Conns, NEW q \in Request, ~Waiting(req[r]), ~Waiting(q),
             Release(c, [req EXCEPT ![r] = q])
      PROVE  /\ \A d \in Conns : conn'[d].work = conn[d].work /\ conn'[d].saved = conn[d].saved
             /\ req'[r] = q /\ \A s \in Requests : s # r /\ req[s].pc = "failed" => req'[s] = req[s]
  <2>1. conn' = conn \/ conn' = [conn EXCEPT ![c].state = "idle"]
    BY <1>2 DEF Release
  <2>2. \A d \in Conns : conn'[d].work = conn[d].work /\ conn'[d].saved = conn[d].saved
    BY <1>0, <2>1 DEF Connection
  <2>3. req'[r] = q /\ \A s \in Requests \ {r} : req'[s] = req[s] \/ Waiting(req[s])
    BY <1>2, ReleaseType
  <2> QED
    BY <2>2, <2>3 DEF Waiting
<1>3. ASSUME NEW r \in Requests, ReleaseJob(r) PROVE LateInv'
  <2> DEFINE q == [req[r] EXCEPT !.job = None]
  <2>1. /\ q \in Request /\ q.pc = req[r].pc /\ req[r].job \in Conns /\ req[r].pc \in {"ok", "failed"}
        /\ q.client = req[r].client
    BY <1>0, <1>3 DEF ReleaseJob, Request
  <2>2. [req EXCEPT ![r].job = None] = [req EXCEPT ![r] = q]
    BY <1>0
  <2>3. Release(req[r].job, [req EXCEPT ![r] = q]) /\ answer' = answer /\ left' = left
    BY <1>3, <2>2 DEF ReleaseJob, strays
  <2> HIDE DEF q
  <2>4. ~Waiting(req[r]) /\ ~Waiting(q)
    BY <2>1 DEF Waiting
  <2>5. /\ \A d \in Conns : conn'[d].work = conn[d].work /\ conn'[d].saved = conn[d].saved
        /\ req'[r] = q /\ \A s \in Requests : s # r /\ req[s].pc = "failed" => req'[s] = req[s]
    BY <1>2, <2>1, <2>3, <2>4
  <2>6. \A s \in Deleters : req[s].pc = "failed" => req'[s].pc = "failed" /\ req'[s].client = req[s].client
    BY <1>0, <2>1, <2>5
  <2> QED
    BY <2>3, <2>5, <2>6, LateKept
<1>4. ASSUME NEW r \in Requests, Answer(r) PROVE LateInv'
  <2> DEFINE q == [req[r] EXCEPT !.pc = "ended", !.client = None]
  <2>1. q \in Request /\ q.pc = "ended" /\ req[r].pc \in {"ok", "failed", "silent"}
    BY <1>0, <1>4 DEF Answer, Request
  <2>2. [req EXCEPT ![r].pc = "ended", ![r].client = None] = [req EXCEPT ![r] = q]
    BY <1>0
  <2>3. /\ req[r].pc = "failed" => answer'[r] = "failed"
        /\ \A s \in Requests : s # r => answer'[s] = answer[s]
        /\ left' = left
    BY <1>0, <1>4 DEF Answer, strays
  <2>4. IF req[r].client = None
        THEN req' = [req EXCEPT ![r] = q] /\ conn' = conn
        ELSE Release(req[r].client, [req EXCEPT ![r] = q])
    BY <1>4, <2>2 DEF Answer
  <2> HIDE DEF q
  <2>5. ~Waiting(req[r]) /\ ~Waiting(q)
    BY <2>1 DEF Waiting
  <2>6. /\ \A d \in Conns : conn'[d].work = conn[d].work /\ conn'[d].saved = conn[d].saved
        /\ \A s \in Requests : s # r /\ req[s].pc = "failed" => req'[s] = req[s]
    <3>1. CASE req[r].client = None
      BY <1>0, <2>4, <3>1
    <3>2. CASE req[r].client # None
      <4>1. req[r].client \in Conns
        BY <1>0, <3>2 DEF Request
      <4> QED
        BY <1>2, <2>1, <2>4, <2>5, <3>2, <4>1
    <3> QED
      BY <3>1, <3>2
  <2>7. \A s \in Deleters : answer[s] = "failed" => answer'[s] = "failed"
    BY <1>0, <2>1, <2>3
  <2>8. \A s \in Deleters : req[s].pc = "failed" =>
          (req'[s].pc = "failed" /\ req'[s].client = req[s].client) \/ answer'[s] = "failed"
    BY <1>0, <2>3, <2>6
  <2> QED
    BY <2>3, <2>6, <2>7, <2>8, LateKept
<1>5. ASSUME NEW c \in Conns, IdleTimeout(c) PROVE LateInv'
  <2>1. req' = req /\ answer' = answer /\ \A d \in Conns : left'[d] \subseteq left[d]
    BY <1>0, <1>5 DEF IdleTimeout
  <2>2. \A d \in Conns : conn'[d].work \subseteq conn[d].work /\ conn'[d].saved \subseteq conn[d].saved
    BY <1>0, <1>5 DEF IdleTimeout, Closed
  <2> QED
    BY <2>1, <2>2, LateKept
<1>6. CASE UNCHANGED vars
  BY <1>6, LateKept DEF vars, strays
<1> QED
  BY <1>1, <1>3, <1>4, <1>5, <1>6

LEMMA NextLate == TypeInv /\ OwnedInv /\ CommitInv /\ LateInv /\ [Next]_vars => LateInv'
<1> SUFFICES ASSUME TypeInv, OwnedInv, CommitInv, LateInv, [Next]_vars PROVE LateInv'
  OBVIOUS
<1>1. ASSUME NEW r \in Requests, Connect(r) \/ Step(r) PROVE LateInv'
  <2>1. Connect(r) \/ Local(r) \/ ReleaseJob(r) \/ Answer(r)
    BY <1>1 DEF Step, Local
  <2> QED
    BY <2>1, LocalLate, PoolLate
<1>2. ASSUME NEW c \in Conns, Leftover(c) PROVE LateInv'
  BY <1>2, LeftLate DEF Leftover
<1> QED
  BY <1>1, <1>2, PoolLate DEF Next, AllEnded

IInv == TypeInv /\ OwnedInv /\ CommitInv /\ LateInv

LEMMA Committed == Spec => []IInv
<1>1. Init => OwnedInv
  BY ConstantsAssumption DEF Init, OwnedInv, Holds, Closed
<1>2. Init => LateInv
  BY DEF Init, LateInv, Closed
<1> QED
  BY <1>1, <1>2, InitType, InitCommit, NextType, NextOwned, NextCommit, NextLate, PTL DEF Spec, IInv

-----------------------------------------------------------------------------
\* No request starts on a connection somebody else left inside a transaction: the
\* open ones belong to the merges and GraphQL requests that run on them, and hold
\* what these wrote and what failed deletions of posts had left to them.
THEOREM OpenTransactionsOwned == Spec => []NoForeignTransaction
<1>1. ASSUME IInv, NEW c \in Conns, conn[c].tx = "open"
      PROVE  \E r \in Mergers \cup Graphql :
               /\ req[r].client = c /\ req[r].pc \in InMerge \cup InGraphql
               /\ conn[c].work \subseteq {r} \X (MergeParts \cup Statements) \cup Late
  <2>1. PICK r \in Txs : req[r].client = c /\ req[r].pc \in InTx
    BY <1>1 DEF IInv, CommitInv, TxInv, InTransaction
  <2>2. conn[c].work \subseteq {r} \X (MergeParts \cup Statements) \cup Deleters \X Files
    BY <1>1, <2>1 DEF IInv, CommitInv, TxInv, TxState
  <2>3. \A q \in Deleters, f \in Files : <<q, f>> \in conn[c].work => <<q, f>> \in Late
    BY <1>1 DEF IInv, LateInv, Late
  <2>4. conn[c].work \subseteq {r} \X (MergeParts \cup Statements) \cup Late
    BY <2>2, <2>3
  <2> QED
    BY <2>1, <2>4 DEF Txs, InTx
<1>2. IInv => NoForeignTransaction
  BY <1>1 DEF NoForeignTransaction
<1> QED
  BY <1>2, Committed, PTL

\* Whoever is answered with success has all its writes committed.
THEOREM SuccessIsDurable == Spec => []OkIsDurable
<1>1. ASSUME IInv, NEW r \in Requests, answer[r] = "ok"
      PROVE  {r} \X Parts(r) \subseteq done
  <2>1. DoneOK(r, req[r].pc, "ok", done, over[r], past)
    BY <1>1 DEF IInv, CommitInv, DoneInv
  <2>2. /\ r \in Mailers => r \notin Mergers /\ r \in OneByOne
        /\ r \in Deleters => r \notin Mergers /\ r \notin Mailers
    BY ConstantsAssumption DEF OneByOne
  <2>3. CASE r \in Mergers
    <3>1. \A part \in MergeParts : <<r, part>> \in done
      BY <2>1, <2>3 DEF DoneOK, MergeDone
    <3>2. Parts(r) = MergeParts
      BY <2>2, <2>3 DEF Parts
    <3> QED
      BY <3>1, <3>2
  <2>4. CASE r \in Mailers
    <3>1. /\ \A s \in Statements : <<r, s>> \in done
          /\ <<r, "job">> \in done /\ Parts(r) = Statements \cup {"job"}
      BY <2>1, <2>2, <2>4 DEF DoneOK, OneByOneDone, Parts
    <3> QED
      BY <3>1
  <2>5. CASE r \in Deleters
    <3>1. /\ \A f \in Files : <<r, f>> \in done
          /\ <<r, "post">> \in done /\ Parts(r) = Files \cup {"post"}
      BY <2>1, <2>2, <2>5 DEF DoneOK, DeleteDone, Parts
    <3> QED
      BY <3>1
  <2>6. CASE r \notin Mergers \cup Mailers \cup Deleters
    <3>1. (\A s \in Statements : <<r, s>> \in done) /\ Parts(r) = Statements
      BY <2>1, <2>6 DEF DoneOK, GraphqlDone, OneByOneDone, Parts, Requests
    <3> QED
      BY <3>1
  <2> QED
    BY <2>3, <2>4, <2>5, <2>6
<1>2. IInv => OkIsDurable
  BY <1>1 DEF OkIsDurable
<1> QED
  BY <1>2, Committed, PTL

\* A merge commits nothing, its nonce, or everything,
THEOREM MergesAreAtomic == Spec => []MergeAtomic
<1>1. ASSUME IInv, NEW r \in Mergers
      PROVE  {part \in MergeParts : <<r, part>> \in done} \in {{}, {"nonce"}, MergeParts}
  <2>1. r \in Requests
    BY DEF Requests
  <2>2. MergeDone(r, req[r].pc, answer[r], done, past)
    BY <1>1, <2>1 DEF IInv, CommitInv, DoneInv, DoneOK
  <2> QED
    BY <2>2 DEF MergeDone, MergeParts
<1>2. IInv => MergeAtomic
  BY <1>1 DEF MergeAtomic
<1> QED
  BY <1>2, Committed, PTL

\* and its nonce whenever it got past its savepoint.
THEOREM NonceIsSaved == Spec => []NonceSaved
<1>1. ASSUME IInv, NEW r \in past, req[r].pc \in {"ok", "failed", "ended"}
      PROVE  <<r, "nonce">> \in done
  <2>1. r \in Mergers /\ r \in Requests
    BY <1>1 DEF IInv, TypeInv, TypeOK, Requests
  <2>2. MergeDone(r, req[r].pc, answer[r], done, past)
    BY <1>1, <2>1 DEF IInv, CommitInv, DoneInv, DoneOK
  <2> QED
    BY <1>1, <2>2 DEF MergeDone, MergeParts
<1>2. IInv => NonceSaved
  BY <1>1 DEF NonceSaved
<1> QED
  BY <1>2, Committed, PTL

-----------------------------------------------------------------------------
(* The queue *)

\* With fewer POST /passcode than connections not everybody with a connection is
\* one that waits for its second: each of those has one connection only, so they
\* cannot have them all, and a request waits only while somebody has each.
THEOREM NobodyWaitsForever ==
  ASSUME IsFiniteSet(Mailers), IsFiniteSet(Conns), Cardinality(Mailers) < Cardinality(Conns)
  PROVE  Spec => []NeverStuck
<1>1. ASSUME TypeInv, OwnedInv PROVE NeverStuck
  <2> SUFFICES ASSUME queue # <<>>,
                      \A r \in Requests : {req[r].client, req[r].job} # {None} =>
                        req[r].pc \in {"addJob", "waitingJob"}
               PROVE  FALSE
    BY DEF NeverStuck
  <2> DEFINE f == [c \in Conns |-> CHOOSE r \in Requests : Holds(r, c)]
  <2>1. ASSUME NEW c \in Conns PROVE f[c] \in Requests /\ Holds(f[c], c)
    BY <1>1 DEF OwnedInv
  <2>2. ASSUME NEW c \in Conns PROVE f[c] \in Mailers /\ req[f[c]].client = c
    <3>1. /\ f[c] \in Requests /\ c \in {req[f[c]].client, req[f[c]].job} /\ None \notin Conns
          /\ KindOK(f[c], req[f[c]])
      BY <1>1, <2>1, ConstantsAssumption, KindsCollected DEF Holds
    <3>2. req[f[c]].pc \in {"addJob", "waitingJob"}
      BY <3>1
    <3> HIDE DEF f
    <3> QED
      BY <3>1, <3>2 DEF KindOK, Pcs
  <2>3. f \in Injection(Conns, Mailers)
    <3>1. f \in [Conns -> Mailers]
      BY <2>2
    <3>2. \A c, d \in Conns : f[c] = f[d] => c = d
      BY <2>2
    <3> HIDE DEF f
    <3> QED
      BY <3>1, <3>2, Fun_IsInj
  <2> HIDE DEF f
  <2>4. Cardinality(Conns) <= Cardinality(Mailers)
    BY <2>3, FS_Injection
  <2>5. Cardinality(Conns) \in Nat /\ Cardinality(Mailers) \in Nat
    BY FS_CardinalityType
  <2> QED
    BY <2>4, <2>5
<1>2. IInv => NeverStuck
  BY <1>1 DEF IInv
<1> QED
  BY <1>2, Committed, PTL

\* No step but a release gives a connection away while requests wait, and a
\* release gives it to the first of them.
THEOREM QueueIsFirstInFirstOut == Spec => ServedInOrder
<1> DEFINE Served1(r) == \/ {req'[r].client, req'[r].job} \subseteq {None, req[r].client, req[r].job}
                         \/ r = Head(queue)
<1>1. ASSUME TypeInv, OwnedInv, [Next]_vars, queue # <<>>, NEW r \in Requests
      PROVE  Served1(r)
  <2>0. /\ req \in [Requests -> Request] /\ conn \in [Conns -> Connection] /\ queue # <<>>
        /\ \A c \in Conns : conn[c].state = "busy"
    BY <1>1 DEF TypeInv, TypeOK, OwnedInv
  <2>1. ASSUME NEW s \in Requests, Connect(s) PROVE Served1(r)
    <3>1. \E pc : req' = [req EXCEPT ![s].pc = pc]
      BY <2>0, <2>1 DEF Connect, OpenFails, Wait, TakeIdle, OpenNew, Goto
    <3> QED
      BY <2>0, <3>1 DEF Request
  <2>2. ASSUME NEW s \in Requests, Local(s) PROVE Served1(r)
    <3>1. \E pc : req' = [req EXCEPT ![s].pc = pc]
      BY <1>1, <2>2, LocalStep DEF Moves
    <3> QED
      BY <2>0, <3>1 DEF Request
  <2>3. ASSUME NEW s \in Requests, NEW c, NEW q \in Request, Release(c, [req EXCEPT ![s] = q]),
               {q.client, q.job} \subseteq {None, req[s].client, req[s].job}
        PROVE  Served1(r)
    <3> DEFINE given == [req EXCEPT ![s] = q]
    <3>1. Served(c, given) \/ Unserved(c, given)
      BY <1>1, <2>3, ReleaseCases
    <3>2. given \in [Requests -> Request] /\ {given[r].client, given[r].job} \subseteq {None, req[r].client, req[r].job}
      BY <2>0, <2>3
    <3> HIDE DEF given
    <3>3. r = Head(queue) \/ req'[r] = given[r]
      BY <3>1, <3>2 DEF Served, Unserved
    <3> QED
      BY <3>2, <3>3
  <2>4. ASSUME NEW s \in Requests, ReleaseJob(s) PROVE Served1(r)
    <3> DEFINE q == [req[s] EXCEPT !.job = None]
    <3>1. q \in Request /\ q.client = req[s].client /\ q.job = None
      BY <2>0 DEF Request
    <3>2. [req EXCEPT ![s].job = None] = [req EXCEPT ![s] = q]
      BY <2>0
    <3>3. Release(req[s].job, [req EXCEPT ![s] = q])
      BY <2>4, <3>2 DEF ReleaseJob
    <3> HIDE DEF q
    <3> QED
      BY <2>3, <3>1, <3>3
  <2>5. ASSUME NEW s \in Requests, Answer(s) PROVE Served1(r)
    <3> DEFINE q == [req[s] EXCEPT !.pc = "ended", !.client = None]
    <3>1. q \in Request /\ q.client = None /\ q.job = req[s].job
      BY <2>0 DEF Request
    <3>2. [req EXCEPT ![s].pc = "ended", ![s].client = None] = [req EXCEPT ![s] = q]
      BY <2>0
    <3>3. req' = [req EXCEPT ![s] = q] \/ Release(req[s].client, [req EXCEPT ![s] = q])
      BY <2>5, <3>2 DEF Answer
    <3> HIDE DEF q
    <3> QED
      BY <2>0, <2>3, <3>1, <3>3
  <2>6. CASE (\E c \in Conns : IdleTimeout(c)) \/ UNCHANGED vars
    BY <2>6 DEF IdleTimeout, vars
  <2>7. ASSUME NEW c \in Conns, Leftover(c) PROVE Served1(r)
    BY <2>7 DEF Leftover, LeftRuns
  <2>8. ASSUME NEW s \in Requests, Step(s) PROVE Served1(r)
    BY <2>2, <2>4, <2>5, <2>8 DEF Step, Local
  <2> QED
    BY <1>1, <2>1, <2>6, <2>7, <2>8 DEF Next, AllEnded
<1>2. TypeInv /\ OwnedInv /\ [Next]_vars =>
        [\A r \in Requests :
           queue # <<>> /\ ~({req'[r].client, req'[r].job} \subseteq {None, req[r].client, req[r].job}) =>
             r = Head(queue)]_vars
  BY <1>1
<1> QED
  BY <1>2, Committed, PTL DEF Spec, ServedInOrder, IInv

-----------------------------------------------------------------------------
(* Outcomes: what is seen of all this from outside *)

\* COMMIT is the step of a transaction that is seen, and it is taken once. What a
\* failed deletion left to the transaction goes with it.
LEMMA CommitSeen ==
  ASSUME IInv, NEW r \in Requests, Commit(r)
  PROVE  Out!Merge(r) \/ Out!Resolve(r) \/ Out!QueueLate \/ (done' = done /\ answer' = answer)
<1> DEFINE c == req[r].client
           late == conn[c].work \cap Late
<1>0. TypeInv /\ OwnedInv /\ CommitInv /\ LateInv
  BY DEF IInv
<1>1. /\ r \in Txs /\ c \in Conns /\ req[r].pc \in {"commit", "keep"} /\ req[r].pc \in InTx
      /\ TxState(r, req[r].pc, conn[c], left[c], c \in passed, past)
      /\ r \in Mergers => MergeDone(r, req[r].pc, "none", done, past) /\ r \notin Graphql
      /\ r \in Graphql => GraphqlDone(r, req[r].pc, "none", done) /\ r \notin Mergers
  BY <1>0, TxStands DEF Commit, InTx, InMerge
<1>2. /\ answer[r] = "none" /\ answer' = answer
      /\ done' = IF conn[c].tx = "open" THEN done \cup conn[c].work ELSE done
  BY <1>0, <1>1 DEF CommitInv, DoneInv, DoneOK, Commit
<1>3. Out!Late = Late
  BY DEF Late, Out!Late
<1>4. ASSUME NEW parts, Carries(r, conn[c].work, parts)
      PROVE  late \in SUBSET Out!Late /\ conn[c].work = {r} \X parts \cup late
  <2>1. \A q \in Deleters, f \in Files : <<q, f>> \in conn[c].work => <<q, f>> \in Late
    BY <1>0, <1>1 DEF LateInv, Late
  <2> QED
    BY <1>3, <1>4, <2>1 DEF Carries
<1> HIDE DEF late
<1>5. CASE r \in Mergers
  <2>1. /\ conn[c].tx = "open" /\ MergeState(r, req[r].pc, conn[c], left[c], past)
        /\ MergeDone(r, req[r].pc, "none", done, past)
    BY <1>1, <1>5 DEF TxState, MergeState, Quiet
  <2>2. \E parts \in {{"nonce"}, MergeParts} : Carries(r, conn[c].work, parts)
    BY <1>1, <2>1 DEF MergeState
  <2>3. PICK parts \in {{"nonce"}, MergeParts} : conn[c].work = {r} \X parts \cup late /\ late \in SUBSET Out!Late
    BY <1>4, <2>2
  <2>4. Out!Commits({r} \X parts \cup late)
    BY <1>2, <2>1, <2>3 DEF Out!Commits
  <2>5. Out!HasNone(r, {"nonce", "rows", "accounts"})
    <3>1. \A part \in MergeParts : <<r, part>> \notin done
      BY <1>1, <2>1 DEF MergeDone
    <3> QED
      BY <3>1 DEF Out!HasNone, MergeParts
  <2>6. parts \in {{"nonce"}, {"nonce", "rows", "accounts"}}
    BY <2>3 DEF MergeParts
  <2>7. Out!Merge(r)
    BY <1>2, <1>5, <2>3, <2>4, <2>5, <2>6 DEF Out!Merge
  <2> QED
    BY <2>7
<1>6. CASE r \in Graphql /\ conn[c].tx = "open" /\ req[r].pc = "commit"
  <2>1. conn[c].work = {r} \X Statements \cup late /\ late \in SUBSET Out!Late
    BY <1>1, <1>4, <1>6 DEF TxState, GraphqlState
  <2>2. Out!Commits({r} \X Statements \cup late)
    BY <1>2, <1>6, <2>1 DEF Out!Commits
  <2>3. Out!HasNone(r, Statements)
    <3>1. \A s \in Statements : <<r, s>> \notin done
      BY <1>1, <1>6 DEF GraphqlDone
    <3> QED
      BY <3>1 DEF Out!HasNone
  <2>4. Out!Resolve(r)
    BY <1>2, <1>6, <2>1, <2>2, <2>3 DEF Out!Resolve
  <2> QED
    BY <2>4
<1>7. CASE r \in Graphql /\ conn[c].tx = "open" /\ req[r].pc = "keep"
  <2>1. Carries(r, conn[c].work, {})
    BY <1>1, <1>7 DEF TxState, GraphqlState
  <2>2. conn[c].work = {r} \X {} \cup late /\ late \in SUBSET Out!Late
    BY <1>4, <2>1
  <2>3. conn[c].work = late
    BY <2>2
  <2>4. Out!Commits(late)
    BY <1>2, <1>7, <2>3 DEF Out!Commits
  <2>5. Out!QueueLate
    BY <2>2, <2>4 DEF Out!QueueLate
  <2> QED
    BY <2>5
<1>8. CASE conn[c].tx # "open"
  BY <1>2, <1>8
<1> QED
  BY <1>1, <1>5, <1>6, <1>7, <1>8 DEF Txs

\* Any other statement is committed as it runs: nobody left a transaction open
\* on its connection.
LEMMA StatementSeen ==
  ASSUME IInv, NEW r \in Requests,
         \/ (\E s \in Statements : Statement(r, s)) \/ LastStatement(r)
         \/ FindPost(r) \/ (\E f \in Files : DeleteFile(r, f) \/ DeleteFileFails(r, f))
  PROVE  Out!Write(r) \/ (done' = done /\ answer' = answer)
<1>0. /\ TypeInv /\ OwnedInv /\ CommitInv /\ KindOK(r, req[r])
      /\ DoneOK(r, req[r].pc, answer[r], done, over[r], past)
  BY KindsCollected DEF IInv, CommitInv, DoneInv
<1>1. answer' = answer /\ answer[r] = "none"
  BY <1>0 DEF Statement, LastStatement, FindPost, DeleteFile, DeleteFileFails, DoneOK
<1>2. ASSUME NEW s \in Statements, Statement(r, s) PROVE Out!Write(r)
  <2>1. done' = done \cup {<<r, s>>} /\ r \in OneByOne
    BY <1>0, <1>2, StatementCommit DEF Statement
  <2> QED
    BY <1>1, <2>1 DEF Out!Write, Out!Commits, Out!OneByOne, OneByOne
<1>3. CASE LastStatement(r) /\ req[r].pc = "job"
  <2>1. done' = done \cup {<<r, "job">>} /\ r \in Mailers /\ r \in OneByOne
    BY <1>0, <1>3, LastCommit DEF KindOK, Pcs, OneByOne
  <2>2. \A s \in Statements : <<r, s>> \in done
    BY <1>0, <1>3, <2>1 DEF DoneOK, OneByOneDone
  <2>3. Out!HasAll(r, Statements)
    BY <2>2 DEF Out!HasAll
  <2> QED
    BY <1>1, <2>1, <2>3 DEF Out!Write, Out!Commits
<1>4. CASE LastStatement(r) /\ req[r].pc = "delete"
  <2>1. done' = done \cup {<<r, "post">>} /\ r \in Deleters
    BY <1>0, <1>4, LastCommit DEF KindOK, Pcs
  <2>2. \A f \in Files : <<r, f>> \in done
    BY <1>0, <1>4, <2>1 DEF DoneOK, DeleteDone
  <2>3. Out!HasAll(r, Files)
    BY <2>2 DEF Out!HasAll
  <2> QED
    BY <1>1, <2>1, <2>3 DEF Out!Write, Out!Commits
<1>5. CASE FindPost(r) \/ (\E f \in Files : DeleteFile(r, f) \/ DeleteFileFails(r, f))
  <2>1. done' = done \/ (r \in Deleters /\ \E f \in Files : done' = done \cup {<<r, f>>})
    BY <1>0, <1>5, DeleteCommit
  <2> QED
    BY <1>1, <2>1 DEF Out!Write, Out!Commits
<1>6. LastStatement(r) => req[r].pc \in {"job", "delete"}
  BY DEF LastStatement
<1> QED
  BY <1>2, <1>3, <1>4, <1>5, <1>6

\* What a failed deletion left behind may be queued before the error is answered,
\* and after it.
LEMMA LeftSeen ==
  ASSUME IInv, NEW c \in Conns, NEW w \in left[c], LeftRuns(c, w)
  PROVE  \/ Out!QueueLate \/ (\E q \in Requests : Out!Write(q)) \/ (done' = done /\ answer' = answer)
<1>1. w \in Deleters \X Files
  BY DEF IInv, TypeInv, TypeOK
<1>2. answer' = answer /\ (done' = done \/ done' = done \cup {w})
  BY DEF LeftRuns, Takes, Breaks
<1>3. PICK q \in Deleters, f \in Files : w = <<q, f>>
  BY <1>1
<1>4. q \in Requests /\ DoneOK(q, req[q].pc, answer[q], done, over[q], past)
  BY DEF Requests, IInv, CommitInv, DoneInv
<1>5. req[q].pc = "failed" \/ answer[q] = "failed"
  BY <1>3 DEF IInv, LateInv
<1>6. CASE answer[q] = "failed" /\ done' = done \cup {w}
  <2>1. {w} \in SUBSET Out!Late
    BY <1>3, <1>6 DEF Out!Late
  <2>2. Out!Commits({w})
    BY <1>2, <1>6 DEF Out!Commits
  <2> QED
    BY <2>1, <2>2 DEF Out!QueueLate
<1>7. CASE req[q].pc = "failed" /\ done' = done \cup {w}
  <2>1. answer[q] = "none"
    BY <1>4, <1>7 DEF DoneOK
  <2>2. Out!Write(q)
    BY <1>2, <1>3, <1>7, <2>1 DEF Out!Write, Out!Commits
  <2> QED
    BY <1>4, <2>2
<1> QED
  BY <1>2, <1>5, <1>6, <1>7

\* An answer of success has everything committed before it, and an error of a
\* transaction nothing but the nonce of a merge.
LEMMA AnswerSeen ==
  ASSUME IInv, NEW r \in Requests, Answer(r)
  PROVE  Out!Reply(r) \/ (done' = done /\ answer' = answer)
<1>1. /\ answer[r] = "none" /\ done' = done /\ req[r].pc \in {"ok", "failed", "silent"}
      /\ DoneOK(r, req[r].pc, answer[r], done, over[r], past)
      /\ answer \in [Requests -> {"none", "ok", "failed"}]
  BY DEF IInv, CommitInv, DoneInv, DoneOK, Answer, TypeInv, TypeOK
<1>2. CASE req[r].pc = "ok"
  <2>1. ASSUME NEW parts, \A part \in parts : <<r, part>> \in done PROVE Out!HasAll(r, parts)
    BY <2>1 DEF Out!HasAll
  <2>2. /\ r \in Mailers => r \notin Mergers /\ r \in OneByOne
        /\ r \in Deleters => r \notin Mergers /\ r \notin Mailers
    BY ConstantsAssumption DEF OneByOne
  <2>3. ASSUME r \in Mergers PROVE Out!HasAll(r, {"nonce", "rows", "accounts"})
    BY <1>1, <1>2, <2>1, <2>3 DEF DoneOK, MergeDone, MergeParts
  <2>4. ASSUME r \in Mailers PROVE Out!HasAll(r, Statements \cup {"job"})
    BY <1>1, <1>2, <2>1, <2>2, <2>4 DEF DoneOK, OneByOneDone
  <2>5. ASSUME r \in Deleters PROVE Out!HasAll(r, Files \cup {"post"})
    BY <1>1, <1>2, <2>1, <2>5 DEF DoneOK, DeleteDone
  <2>6. ASSUME r \notin Mergers \cup Mailers \cup Deleters PROVE Out!HasAll(r, Statements)
    BY <1>1, <1>2, <2>1, <2>6 DEF DoneOK, GraphqlDone, OneByOneDone, Requests
  <2>7. Out!Succeeded(r)
    BY <2>2, <2>3, <2>4, <2>5, <2>6 DEF Out!Succeeded
  <2>8. answer' = [answer EXCEPT ![r] = "ok"]
    BY <1>2 DEF Answer
  <2> QED
    BY <1>1, <2>7, <2>8 DEF Out!Reply
<1>3. CASE req[r].pc = "failed"
  <2>1. r \in Mergers => Out!HasNone(r, {"rows", "accounts"})
    BY <1>1, <1>3 DEF DoneOK, MergeDone, Out!HasNone
  <2>2. r \in Graphql => Out!HasNone(r, Statements)
    BY <1>1, <1>3 DEF DoneOK, GraphqlDone, Out!HasNone
  <2>3. answer' = [answer EXCEPT ![r] = "failed"]
    BY <1>3 DEF Answer
  <2> QED
    BY <1>1, <2>1, <2>2, <2>3 DEF Out!Reply
<1>4. CASE req[r].pc = "silent"
  <2>1. answer' = [answer EXCEPT ![r] = answer[r]]
    BY <1>1, <1>4 DEF Answer
  <2> QED
    BY <1>1, <2>1
<1> QED
  BY <1>1, <1>2, <1>3, <1>4

\* Inside its transaction a request writes to its connection only.
LEMMA TxHidden ==
  ASSUME IInv, NEW r \in Requests,
         \/ Begin(r) \/ Check(r) \/ WriteNonce(r) \/ Savepoint(r) \/ Migrate(r) \/ Refuse(r)
         \/ MergeStatementFails(r) \/ RollbackTo(r) \/ RollbackToFails(r) \/ Resolve(r) \/ ResolveFails(r)
  PROVE  done' = done /\ answer' = answer
<1>1. CASE Begin(r) \/ Savepoint(r) \/ MergeStatementFails(r) \/ RollbackTo(r) \/ RollbackToFails(r)
           \/ ResolveFails(r)
  BY <1>1 DEF Begin, Savepoint, MergeStatementFails, RollbackTo, RollbackToFails, ResolveFails, Fails, Breaks
<1>2. ASSUME NEW writes, Succeeds(req[r].client, writes),
             req[r].pc \in {"check", "graphql", "nonce", "rows", "accounts"}
      PROVE  done' = done
  <2>1. req[r].pc \in InTx
    BY <1>2 DEF InTx, InMerge, InGraphql
  <2>2. /\ req[r].client \in Conns /\ conn[req[r].client] \in Connection /\ r \in Txs
        /\ TxState(r, req[r].pc, conn[req[r].client], left[req[r].client], req[r].client \in passed, past)
        /\ Pcs(r, req[r].pc)
    BY <2>1, TxStands DEF IInv
  <2>3. conn[req[r].client].tx # "none"
    BY <1>2, <2>2 DEF TxState, MergeState, Pcs, Quiet
  <2>4. conn[req[r].client].tx = "open"
    BY <1>2, <2>2, <2>3 DEF Succeeds, Takes, Connection
  <2> QED
    BY <1>2, <2>4 DEF Succeeds, Takes
<1>3. CASE Check(r) \/ Refuse(r) \/ WriteNonce(r) \/ Migrate(r) \/ Resolve(r)
  <2>1. /\ req[r].pc \in {"check", "graphql", "nonce", "rows", "accounts"} /\ answer' = answer
        /\ \E writes : Succeeds(req[r].client, writes)
    BY <1>3 DEF Check, Refuse, WriteNonce, Migrate, Resolve
  <2> QED
    BY <1>2, <2>1
<1> QED
  BY <1>1, <1>3

\* The pool, its queue and the transactions on its connections implement
\* Outcomes: COMMIT, a statement outside a transaction and the answer are what is
\* seen, everything else is hidden.
THEOREM PoolImplementsOutcomes == Spec => ImplementsOutcomes
<1>1. Init => Out!Init
  BY DEF Init, Out!Init, Out!Requests, Requests, Out!OneByOne, OneByOne
<1>2. ASSUME IInv, [Next]_vars PROVE [Out!Next]_(Out!vars)
  <2>0. Out!Requests = Requests /\ TypeInv /\ OwnedInv /\ CommitInv
    BY <1>2 DEF Out!Requests, Requests, Out!OneByOne, OneByOne, IInv
  <2> DEFINE Seen == [Out!Next]_(Out!vars)
             Hidden == done' = done /\ answer' = answer
  <2>h. ASSUME Hidden PROVE Seen
    BY <2>h DEF Out!vars
  <2>s. ASSUME Out!QueueLate \/ (\E r \in Requests : Out!Merge(r) \/ Out!Resolve(r) \/ Out!Write(r) \/ Out!Reply(r))
        PROVE  Seen
    BY <2>0, <2>s DEF Out!Next
  <2> HIDE DEF Seen
  <2>1. ASSUME NEW r \in Requests, Connect(r) \/ ReleaseJob(r) PROVE Seen
    <3>1. Hidden
      BY <2>1 DEF Connect, OpenFails, Wait, TakeIdle, OpenNew, ReleaseJob
    <3> QED
      BY <2>h, <3>1
  <2>2. ASSUME NEW r \in Requests, Commit(r) PROVE Seen
    BY <1>2, <2>h, <2>s, <2>2, CommitSeen
  <2>3. ASSUME NEW r \in Requests, Answer(r) PROVE Seen
    BY <1>2, <2>h, <2>s, <2>3, AnswerSeen
  <2>4. ASSUME NEW r \in Requests,
               \/ (\E s \in Statements : Statement(r, s)) \/ LastStatement(r)
               \/ FindPost(r) \/ (\E f \in Files : DeleteFile(r, f) \/ DeleteFileFails(r, f))
        PROVE  Seen
    BY <1>2, <2>h, <2>s, <2>4, StatementSeen
  <2>5. ASSUME NEW r \in Requests, StatementFails(r) \/ NoEmails(r) PROVE Seen
    <3>1. Hidden
      BY <2>0, <2>5, FailCommit DEF StatementFails, NoEmails
    <3> QED
      BY <2>h, <3>1
  <2>6. ASSUME NEW r \in Requests,
               \/ Begin(r) \/ Check(r) \/ WriteNonce(r) \/ Savepoint(r) \/ Migrate(r) \/ Refuse(r)
               \/ MergeStatementFails(r) \/ RollbackTo(r) \/ RollbackToFails(r) \/ Resolve(r) \/ ResolveFails(r)
        PROVE  Seen
    BY <1>2, <2>h, <2>6, TxHidden
  <2>7. ASSUME NEW c \in Conns, Leftover(c) PROVE Seen
    BY <1>2, <2>h, <2>s, <2>7, LeftSeen DEF Leftover
  <2>8. ASSUME (\E c \in Conns : IdleTimeout(c)) \/ UNCHANGED vars PROVE Seen
    <3>1. Hidden
      BY <2>8 DEF IdleTimeout, vars
    <3> QED
      BY <2>h, <3>1
  <2>9. ASSUME NEW r \in Requests, Connect(r) \/ Step(r) PROVE Seen
    BY <2>1, <2>2, <2>3, <2>4, <2>5, <2>6, <2>9 DEF Step
  <2>10. \/ \E r \in Requests : Connect(r) \/ Step(r)
         \/ \E c \in Conns : IdleTimeout(c) \/ Leftover(c)
         \/ UNCHANGED vars
    BY <1>2 DEF Next, AllEnded
  <2>11. Seen
    BY <2>7, <2>8, <2>9, <2>10
  <2> QED
    BY <2>11 DEF Seen
<1> QED
  BY <1>1, <1>2, Committed, PTL DEF Spec, ImplementsOutcomes, Out!Spec
=============================================================================
