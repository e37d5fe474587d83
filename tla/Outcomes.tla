------------------------------- MODULE Outcomes -------------------------------
(***************************************************************************)
(* What the requests of PgPool promise, without connections, transactions  *)
(* or a pool: which writes are committed together, what comes before an     *)
(* answer, and what alone may come after it.                               *)
(***************************************************************************)
CONSTANTS Plain, Mailers, Mergers, Graphql, Deleters, Statements, Files

VARIABLES
  done,   \* the committed writes
  answer  \* what each client was answered

vars == <<done, answer>>

OneByOne == Plain \cup Mailers
Requests == OneByOne \cup Mergers \cup Graphql \cup Deleters
HasAll(r, parts) == {r} \X parts \subseteq done
HasNone(r, parts) == ({r} \X parts) \cap done = {}

Init ==
  /\ done = {}
  /\ answer = [r \in Requests |-> "none"]

Commits(writes) == done' = done \cup writes /\ UNCHANGED answer

\* The files of a post whose deletion was answered with an error may be queued
\* at any time after it, on their own or with the transaction of somebody else.
Late == {r \in Deleters : answer[r] = "failed"} \X Files
QueueLate == \E late \in SUBSET Late : Commits(late)

\* A merge takes place as a whole, or leaves a new nonce behind; once.
Merge(r) ==
  /\ r \in Mergers /\ answer[r] = "none"
  /\ HasNone(r, {"nonce", "rows", "accounts"})
  /\ \E parts \in {{"nonce"}, {"nonce", "rows", "accounts"}}, late \in SUBSET Late :
       Commits({r} \X parts \cup late)

\* So does a GraphQL request.
Resolve(r) ==
  /\ r \in Graphql /\ answer[r] = "none"
  /\ HasNone(r, Statements)
  /\ \E late \in SUBSET Late : Commits({r} \X Statements \cup late)

\* Other requests commit one write after another, a job or a deleted post last.
Write(r) ==
  /\ answer[r] = "none"
  /\ \/ r \in OneByOne /\ \E s \in Statements : Commits({<<r, s>>})
     \/ r \in Mailers /\ HasAll(r, Statements) /\ Commits({<<r, "job">>})
     \/ r \in Deleters /\ \E f \in Files : Commits({<<r, f>>})
     \/ r \in Deleters /\ HasAll(r, Files) /\ Commits({<<r, "post">>})

Succeeded(r) ==
  CASE r \in Mergers  -> HasAll(r, {"nonce", "rows", "accounts"})
    [] r \in Mailers  -> HasAll(r, Statements \cup {"job"})
    [] r \in Deleters -> HasAll(r, Files \cup {"post"})
    [] OTHER          -> HasAll(r, Statements)

\* Success is answered when everything is committed; an error of a transaction
\* when nothing is, or no more than the nonce of a merge.
Reply(r) ==
  /\ answer[r] = "none"
  /\ \/ Succeeded(r) /\ answer' = [answer EXCEPT ![r] = "ok"]
     \/ /\ r \in Mergers => HasNone(r, {"rows", "accounts"})
        /\ r \in Graphql => HasNone(r, Statements)
        /\ answer' = [answer EXCEPT ![r] = "failed"]
  /\ UNCHANGED done

Next == QueueLate \/ (\E r \in Requests : Merge(r) \/ Resolve(r) \/ Write(r) \/ Reply(r))

Spec == Init /\ [][Next]_vars
=============================================================================
