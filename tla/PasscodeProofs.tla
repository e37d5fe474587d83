--------------------------- MODULE PasscodeProofs ---------------------------
(***************************************************************************)
(* Theorems of Passcode, for every number of overlapping requests and      *)
(* every value of the other constants.                                     *)
(***************************************************************************)
EXTENDS Passcode, FiniteSetTheorems, TLAPS

\* What a request that has started remembers: the account whose null e-mail it
\* read may have been merged away since, the account it created may not, because
\* "drop role" finds no role to drop.
RequestOK ==
  /\ \A c \in Creators : creq[c].pc # "idle" => creq[c].email \in Emails
  /\ \A v \in Verifiers :
       /\ vreq[v].pc # "idle" => /\ vreq[v].email \in Emails /\ vreq[v].id \in inserted
                                 /\ vreq[v].before \subseteq merged
       /\ vreq[v].pc \in {"current", "setEmail"} => vreq[v].cur \in AccountIds
       /\ vreq[v].pc = "setEmail" =>
            HasRow(vreq[v].cur) \/ vreq[v].cur \in merged \ vreq[v].before
       /\ vreq[v].pc = "role" => /\ vreq[v].acc \in AccountIds
                                 /\ email[vreq[v].acc] = vreq[v].email
                                 /\ vreq[v].acc \notin role
  /\ \A m \in Mergers :
       mreq[m].pc = "merge" => /\ mreq[m].from \in AccountIds /\ mreq[m].to \in AccountIds
                               /\ HasRow(mreq[m].to) \/ mreq[m].to \in merged

\* An account has a role only while it exists, and ids are not drawn again.
RowsOK ==
  \A a \in AccountIds : /\ a \in merged => ~HasRow(a)
                        /\ a \in role => HasRow(a)

\* An account that was just created is not one whose null e-mail was read
\* before, by a login or by a merge, nor another request's.
CreatedIsNew ==
  \A w \in Verifiers :
    vreq[w].pc = "role" =>
      /\ \A v \in Verifiers : vreq[v].pc = "setEmail" => vreq[v].cur # vreq[w].acc
      /\ \A v \in Verifiers : v # w /\ vreq[v].pc = "role" => vreq[v].acc # vreq[w].acc
      /\ \A m \in Mergers : mreq[m].pc = "merge" /\ ~mreq[m].keep => mreq[m].to # vreq[w].acc

\* A passcode exists, or was accepted, only after its id was drawn.
DrawnFirst ==
  \A i \in PasscodeIds : passcode[i].exists \/ used[i] > 0 => i \in inserted

IInv == TypeOK /\ RequestOK /\ RowsOK /\ CreatedIsNew /\ DrawnFirst

USE ConstantsAssumption

-----------------------------------------------------------------------------
(* What the nested updates of a record in a table leave alone. *)

LEMMA GotoFacts ==
  ASSUME TypeOK, NEW v \in Verifiers, NEW pc \in VerifyPcs, Goto(v, pc)
  PROVE  /\ vreq' \in [Verifiers -> VerifyRequest]
         /\ vreq'[v].pc = pc
         /\ vreq'[v].email = vreq[v].email /\ vreq'[v].cur = vreq[v].cur
         /\ vreq'[v].id = vreq[v].id /\ vreq'[v].acc = vreq[v].acc
         /\ vreq'[v].before = vreq[v].before
         /\ \A w \in Verifiers : w # v => vreq'[w] = vreq[w]
<1> DEFINE r == [vreq[v] EXCEPT !.pc = pc]
<1>1. vreq[v] \in VerifyRequest /\ vreq \in [Verifiers -> VerifyRequest]
  BY DEF TypeOK
<1>2. /\ r \in VerifyRequest /\ r.pc = pc /\ r.email = vreq[v].email
      /\ r.cur = vreq[v].cur /\ r.id = vreq[v].id /\ r.acc = vreq[v].acc
      /\ r.before = vreq[v].before
  BY <1>1 DEF VerifyRequest
<1>3. vreq' = [vreq EXCEPT ![v] = r]
  BY DEF Goto
<1> QED
  BY <1>1, <1>2, <1>3

LEMMA FinishFacts ==
  ASSUME TypeOK, NEW v \in Verifiers, Error(v) \/ \E a \in AccountIds : Answer(v, a)
  PROVE  /\ vreq' \in [Verifiers -> VerifyRequest]
         /\ vreq'[v].pc = "idle"
         /\ \A w \in Verifiers : w # v => vreq'[w] = vreq[w]
<1>1. IdleVerify \in VerifyRequest /\ IdleVerify.pc = "idle"
  BY DEF IdleVerify, VerifyRequest, VerifyPcs
<1>2. ASSUME NEW a \in AccountIds
      PROVE  /\ [IdleVerify EXCEPT !.acc = a] \in VerifyRequest
             /\ [IdleVerify EXCEPT !.acc = a].pc = "idle"
  BY DEF IdleVerify, VerifyRequest, VerifyPcs
<1>3. PICK r \in VerifyRequest : r.pc = "idle" /\ vreq' = [vreq EXCEPT ![v] = r]
  BY <1>1, <1>2 DEF Answer, Error
<1> QED
  BY <1>3 DEF TypeOK

\* A merge touches nothing of a passcode.
LEMMA MergeFacts ==
  ASSUME NEW m \in Mergers, Merge(m)
  PROVE  UNCHANGED <<passcode, inserted, creq, vreq, used, failures>>
BY DEF Merge, MergeCheck, MergeCommit, MergeRollback, tables

\* The two answers that follow a write to the account's tables.
LEMMA WroteFacts ==
  ASSUME TypeOK, RequestOK, NEW v \in Verifiers, SetEmail(v) \/ CreateAuthUser(v)
  PROVE  /\ vreq' \in [Verifiers -> VerifyRequest]
         /\ vreq'[v].pc = "idle"
         /\ \A w \in Verifiers : w # v => vreq'[w] = vreq[w]
         /\ vreq[v].pc \in {"setEmail", "role"}
         /\ UNCHANGED <<passcode, inserted, merged, creq, mreq, used, failures>>
<1>1. Error(v) \/ \E a \in AccountIds : Answer(v, a)
  BY DEF SetEmail, CreateAuthUser, RequestOK
<1> QED
  BY <1>1, FinishFacts DEF SetEmail, CreateAuthUser

LEMMA CountMismatchFacts ==
  ASSUME TypeOK, RequestOK, NEW v \in Verifiers, CountMismatch(v)
  PROVE  /\ vreq[v].id \in PasscodeIds
         /\ passcode' \in [PasscodeIds -> PasscodeRow]
         /\ \A i \in PasscodeIds :
              /\ passcode'[i].exists = passcode[i].exists
              /\ passcode'[i].email = passcode[i].email
              /\ passcode'[i].consumed = passcode[i].consumed
              /\ passcode'[i].max_try_count <=
                   passcode[i].max_try_count + (IF i = vreq[v].id THEN 1 ELSE 0)
<1> DEFINE i == vreq[v].id
           n == IF passcode[i].exists THEN passcode[i].max_try_count + 1
                                      ELSE passcode[i].max_try_count
           r == [passcode[i] EXCEPT !.max_try_count = n]
<1>1. i \in PasscodeIds /\ passcode[i] \in PasscodeRow
  BY DEF TypeOK, RequestOK, CountMismatch
<1>2. n \in Nat /\ n <= passcode[i].max_try_count + 1
  BY <1>1 DEF PasscodeRow
<1> HIDE DEF n
<1>3. /\ r \in PasscodeRow /\ r.exists = passcode[i].exists /\ r.email = passcode[i].email
      /\ r.consumed = passcode[i].consumed /\ r.max_try_count = n
  BY <1>1, <1>2 DEF PasscodeRow
<1>4. passcode' = [passcode EXCEPT ![i] = r]
  BY DEF CountMismatch, n
<1>5. \A j \in PasscodeIds : passcode[j].max_try_count \in Nat
  BY DEF TypeOK, PasscodeRow
<1> HIDE DEF r
<1> QED
  BY <1>1, <1>2, <1>3, <1>4, <1>5 DEF TypeOK

LEMMA ConsumeFacts ==
  ASSUME TypeOK, RequestOK, NEW v \in Verifiers, Consume(v)
  PROVE  /\ vreq[v].id \in PasscodeIds
         /\ passcode' \in [PasscodeIds -> PasscodeRow]
         /\ \A i \in PasscodeIds :
              /\ passcode'[i].exists = passcode[i].exists
              /\ passcode'[i].email = passcode[i].email
              /\ passcode'[i].max_try_count = passcode[i].max_try_count
              /\ passcode'[i].consumed =
                   IF i = vreq[v].id THEN passcode[i].exists ELSE passcode[i].consumed
         /\ used' \in [PasscodeIds -> Nat]
         /\ \A i \in PasscodeIds : used'[i] = used[i] + (IF i = vreq[v].id THEN 1 ELSE 0)
         /\ vreq' \in [Verifiers -> VerifyRequest]
         /\ vreq'[v].pc \in {"current", "find"}
         /\ vreq'[v].pc = "current" => vreq[v].cur \in AccountIds
         /\ vreq'[v].email = vreq[v].email /\ vreq'[v].cur = vreq[v].cur
         /\ vreq'[v].id = vreq[v].id /\ vreq'[v].acc = vreq[v].acc
         /\ vreq'[v].before = vreq[v].before
         /\ \A w \in Verifiers : w # v => vreq'[w] = vreq[w]
         /\ vreq[v].pc = "consume"
         /\ UNCHANGED <<inserted, email, role, merged, creq, mreq, failures>>
<1> DEFINE i == vreq[v].id
           r == [passcode[i] EXCEPT !.consumed = passcode[i].exists]
           pc == IF vreq[v].cur # None THEN "current" ELSE "find"
<1>1. i \in PasscodeIds /\ passcode[i] \in PasscodeRow /\ vreq[v].cur \in AccountIds \cup {None}
  BY DEF TypeOK, RequestOK, Consume, VerifyRequest
<1>2. /\ r \in PasscodeRow /\ r.exists = passcode[i].exists /\ r.email = passcode[i].email
      /\ r.consumed = passcode[i].exists /\ r.max_try_count = passcode[i].max_try_count
  BY <1>1 DEF PasscodeRow
<1>3. passcode' = [passcode EXCEPT ![i] = r]
  BY DEF Consume
<1>4. used' = [used EXCEPT ![i] = used[i] + 1] /\ used \in [PasscodeIds -> Nat]
  BY DEF Consume, TypeOK
<1>5. pc \in VerifyPcs /\ pc \in {"current", "find"} /\ (pc = "current" => vreq[v].cur # None)
  BY DEF VerifyPcs
<1>6. Goto(v, pc)
  BY DEF Consume
<1> HIDE DEF r, pc
<1>7. /\ passcode' \in [PasscodeIds -> PasscodeRow]
      /\ \A j \in PasscodeIds :
           /\ passcode'[j].exists = passcode[j].exists
           /\ passcode'[j].email = passcode[j].email
           /\ passcode'[j].max_try_count = passcode[j].max_try_count
           /\ passcode'[j].consumed = IF j = i THEN passcode[j].exists ELSE passcode[j].consumed
  BY <1>1, <1>2, <1>3 DEF TypeOK
<1>8. /\ used' \in [PasscodeIds -> Nat]
      /\ \A j \in PasscodeIds : used'[j] = used[j] + (IF j = i THEN 1 ELSE 0)
  BY <1>1, <1>4
<1>9. /\ vreq' \in [Verifiers -> VerifyRequest]
      /\ vreq'[v].pc = pc
      /\ vreq'[v].email = vreq[v].email /\ vreq'[v].cur = vreq[v].cur
      /\ vreq'[v].id = vreq[v].id /\ vreq'[v].acc = vreq[v].acc
         /\ vreq'[v].before = vreq[v].before
      /\ \A w \in Verifiers : w # v => vreq'[w] = vreq[w]
  BY <1>5, <1>6, GotoFacts
<1>10. vreq[v].pc = "consume" /\ UNCHANGED <<inserted, email, role, merged, creq, mreq, failures>>
  BY DEF Consume
<1> QED
  BY <1>1, <1>5, <1>7, <1>8, <1>9, <1>10

LEMMA ExpireFacts ==
  ASSUME TypeOK, NEW i \in PasscodeIds, Expire(i)
  PROVE  /\ passcode' \in [PasscodeIds -> PasscodeRow]
         /\ \A j \in PasscodeIds :
              /\ passcode'[j].exists = passcode[j].exists
              /\ passcode'[j].email = passcode[j].email
              /\ passcode'[j].max_try_count = passcode[j].max_try_count
              /\ passcode'[j].consumed = passcode[j].consumed
<1> DEFINE r == [passcode[i] EXCEPT !.expired = TRUE]
<1>1. passcode[i] \in PasscodeRow
  BY DEF TypeOK
<1>2. /\ r \in PasscodeRow /\ r.exists = passcode[i].exists /\ r.email = passcode[i].email
      /\ r.consumed = passcode[i].consumed /\ r.max_try_count = passcode[i].max_try_count
  BY <1>1 DEF PasscodeRow
<1>3. passcode' = [passcode EXCEPT ![i] = r]
  BY DEF Expire
<1> HIDE DEF r
<1> QED
  BY <1>1, <1>2, <1>3 DEF TypeOK

\* The request that creates an account goes on to its role with the new id.
LEMMA CreatedFacts ==
  ASSUME TypeOK, NEW v \in Verifiers, NEW a \in AccountIds,
         vreq' = [vreq EXCEPT ![v].pc = "role", ![v].acc = a]
  PROVE  /\ vreq' \in [Verifiers -> VerifyRequest]
         /\ vreq'[v].pc = "role" /\ vreq'[v].acc = a
         /\ vreq'[v].email = vreq[v].email /\ vreq'[v].id = vreq[v].id
         /\ vreq'[v].before = vreq[v].before
         /\ \A w \in Verifiers : w # v => vreq'[w] = vreq[w]
<1> DEFINE r == [vreq[v] EXCEPT !.pc = "role", !.acc = a]
<1>1. vreq[v] \in VerifyRequest /\ vreq \in [Verifiers -> VerifyRequest]
  BY DEF TypeOK
<1>2. /\ r \in VerifyRequest /\ r.pc = "role" /\ r.acc = a
      /\ r.email = vreq[v].email /\ r.id = vreq[v].id /\ r.before = vreq[v].before
  BY <1>1 DEF VerifyRequest, VerifyPcs
<1>3. vreq' = [vreq EXCEPT ![v] = r]
  BY <1>1 DEF VerifyRequest
<1> QED
  BY <1>1, <1>2, <1>3

LEMMA MergeCheckFacts ==
  ASSUME TypeOK, NEW m \in Mergers, NEW c \in AccountIds, NEW w \in AccountIds,
         NEW keep \in BOOLEAN, MergeCheck(m, c, w, keep)
  PROVE  /\ mreq' \in [Mergers -> MergeRequest]
         /\ mreq'[m].from \in AccountIds /\ mreq'[m].to \in AccountIds
         /\ email[mreq'[m].to] # NoRow
         /\ mreq'[m].keep \/ email[mreq'[m].to] = NoEmail
         /\ \A n \in Mergers : n # m => mreq'[n] = mreq[n]
         /\ UNCHANGED <<passcode, inserted, email, role, merged, creq, vreq, used, failures>>
<1> DEFINE q == [pc |-> "merge", from |-> IF keep THEN w ELSE c, to |-> IF keep THEN c ELSE w,
                 keep |-> keep]
<1>1. q \in MergeRequest /\ q.from \in AccountIds /\ q.to \in AccountIds
  BY DEF MergeRequest
<1>2. email[q.to] # NoRow /\ (q.keep \/ email[q.to] = NoEmail)
  BY DEF MergeCheck, HasRow
<1>3. mreq' = [mreq EXCEPT ![m] = q] /\ mreq \in [Mergers -> MergeRequest]
  BY DEF MergeCheck, TypeOK
<1>4. UNCHANGED <<passcode, inserted, email, role, merged, creq, vreq, used, failures>>
  BY DEF MergeCheck, tables
<1> HIDE DEF q
<1> QED
  BY <1>1, <1>2, <1>3, <1>4

LEMMA MergeRollbackFacts ==
  ASSUME TypeOK, NEW m \in Mergers, MergeRollback(m)
  PROVE  /\ mreq' \in [Mergers -> MergeRequest] /\ mreq'[m].pc = "idle"
         /\ \A n \in Mergers : n # m => mreq'[n] = mreq[n]
         /\ UNCHANGED <<passcode, inserted, email, role, merged, creq, vreq, used, failures>>
BY DEF TypeOK, MergeRollback, IdleMerge, MergeRequest, tables

\* The account merged from is gone, and the e-mail it had may be the other's now.
LEMMA MergeCommitFacts ==
  ASSUME TypeOK, RequestOK, RowsOK, NEW m \in Mergers, MergeCommit(m)
  PROVE  LET from == mreq[m].from to == mreq[m].to
         IN /\ mreq[m].pc = "merge" /\ from \in AccountIds /\ to \in AccountIds /\ from \in role
            /\ email' \in [AccountIds -> Emails \cup {NoEmail, NoRow}]
            /\ HasRow(from) /\ email'[from] = NoRow
            /\ \A a \in AccountIds : a # from => HasRow(a)' = HasRow(a)
            /\ \A a \in AccountIds :
                 a # from /\ (a # to \/ mreq[m].keep) => email'[a] = email[a]
            /\ role' = role \ {from} /\ merged' = merged \cup {from}
            /\ mreq' \in [Mergers -> MergeRequest] /\ mreq'[m].pc = "idle"
            /\ \A n \in Mergers : n # m => mreq'[n] = mreq[n]
            /\ UNCHANGED <<passcode, inserted, creq, vreq, used, failures>>
<1> DEFINE from == mreq[m].from
           to == mreq[m].to
<1>1. /\ mreq[m].pc = "merge" /\ from \in AccountIds /\ to \in AccountIds /\ from \in role
      /\ mreq[m].keep \/ HasRow(to)
  BY DEF MergeCommit, RequestOK
<1>2. HasRow(from) /\ email[from] # NoRow
  BY <1>1 DEF RowsOK, HasRow
<1>3. /\ email \in [AccountIds -> Emails \cup {NoEmail, NoRow}]
      /\ email' = IF mreq[m].keep \/ from = to THEN [email EXCEPT ![from] = NoRow]
                  ELSE [email EXCEPT ![to] = email[from], ![from] = NoRow]
  BY DEF MergeCommit, TypeOK
<1>4. CASE mreq[m].keep \/ from = to
  <2>1. email' = [email EXCEPT ![from] = NoRow]
    BY <1>3, <1>4
  <2>2. /\ email' \in [AccountIds -> Emails \cup {NoEmail, NoRow}]
        /\ email'[from] = NoRow /\ \A a \in AccountIds : a # from => email'[a] = email[a]
    BY <1>1, <1>3, <2>1 DEF HasRow
  <2> QED
    BY <1>1, <1>2, <2>2 DEF HasRow, MergeCommit, IdleMerge, MergeRequest, TypeOK
<1>5. CASE ~mreq[m].keep /\ from # to
  <2>1. email' = [email EXCEPT ![to] = email[from], ![from] = NoRow]
    BY <1>3, <1>5
  <2>2. /\ email' \in [AccountIds -> Emails \cup {NoEmail, NoRow}]
        /\ email'[from] = NoRow /\ email'[to] = email[from]
        /\ \A a \in AccountIds : a # from /\ a # to => email'[a] = email[a]
    BY <1>1, <1>3, <1>5, <2>1 DEF HasRow
  <2> QED
    BY <1>1, <1>2, <1>5, <2>2 DEF HasRow, MergeCommit, IdleMerge, MergeRequest, TypeOK
<1> QED
  BY <1>4, <1>5

-----------------------------------------------------------------------------
\* The types and what started requests remember are inductive together: an
\* answer has a real e-mail because the request it ends has one.
LEMMA TypeStep ==
  ASSUME TypeOK, RequestOK, RowsOK, [Next]_vars
  PROVE  TypeOK'
<1> USE DEF TypeOK, tables
<1>1. ASSUME NEW c \in Creators, NEW e \in Emails, NEW cur \in SessionIds,
             StartCreate(c, e, cur)
      PROVE  TypeOK'
  BY <1>1 DEF StartCreate, CreateRequest
<1>2. ASSUME NEW c \in Creators, DeleteUnconsumed(c) PROVE TypeOK'
  BY <1>2 DEF DeleteUnconsumed, Deleted, Unconsumed, CreateRequest, PasscodeRow
<1>3. ASSUME NEW c \in Creators, InsertPasscode(c) PROVE TypeOK'
  BY <1>3 DEF InsertPasscode, IdleCreate, CreateRequest, PasscodeRow, RequestOK
<1>4. ASSUME NEW c \in Creators, FailCreate(c) PROVE TypeOK'
  BY <1>4 DEF FailCreate, IdleCreate, CreateRequest
<1>5. ASSUME NEW v \in Verifiers, NEW e \in Emails, NEW code \in Codes, NEW cur \in SessionIds,
             ReadPasscode(v, e, code, cur)
      PROVE  TypeOK'
  BY <1>5 DEF ReadPasscode, SessionIds, Unconsumed, VerifyPcs, VerifyRequest
<1>6. ASSUME NEW v \in Verifiers, NEW e \in Emails, RejectPasscode(v, e) PROVE TypeOK'
  BY <1>6 DEF RejectPasscode, vars
<1>7. ASSUME NEW v \in Verifiers, CountMismatch(v) PROVE TypeOK'
  BY <1>7, FinishFacts, CountMismatchFacts DEF CountMismatch
<1>8. ASSUME NEW v \in Verifiers, Consume(v) PROVE TypeOK'
  BY <1>8, ConsumeFacts
<1>9. ASSUME NEW v \in Verifiers, ReadCurrent(v) PROVE TypeOK'
  BY <1>9, GotoFacts, FinishFacts DEF ReadCurrent, VerifyPcs
<1>10. ASSUME NEW v \in Verifiers, SetEmail(v) PROVE TypeOK'
  BY <1>10, FinishFacts DEF SetEmail, RequestOK
<1>11. ASSUME NEW v \in Verifiers, FindByEmail(v) PROVE TypeOK'
  BY <1>11, GotoFacts, FinishFacts DEF FindByEmail, VerifyPcs, RequestOK
<1>12. ASSUME NEW v \in Verifiers, CreateAccount(v) PROVE TypeOK'
  BY <1>12, CreatedFacts, FinishFacts DEF CreateAccount, RequestOK
<1>13. ASSUME NEW v \in Verifiers, CreateAuthUser(v) PROVE TypeOK'
  BY <1>13, FinishFacts DEF CreateAuthUser, RequestOK
<1>14. ASSUME NEW v \in Verifiers, FailVerify(v) PROVE TypeOK'
  BY <1>14, FinishFacts DEF FailVerify
<1>15. ASSUME NEW i \in PasscodeIds, Expire(i) PROVE TypeOK'
  BY <1>15, ExpireFacts DEF Expire
<1>16. CASE UNCHANGED vars
  BY <1>16 DEF vars
<1>17. ASSUME NEW m \in Mergers, Merge(m) PROVE TypeOK'
  <2>1. ASSUME NEW c \in AccountIds, NEW w \in AccountIds, NEW keep \in BOOLEAN,
               MergeCheck(m, c, w, keep)
        PROVE  TypeOK'
    BY <2>1, MergeCheckFacts
  <2>2. CASE MergeCommit(m)
    BY <2>2, MergeCommitFacts
  <2>3. CASE MergeRollback(m)
    BY <2>3, MergeRollbackFacts
  <2> QED
    BY <1>17, <2>1, <2>2, <2>3 DEF Merge
<1> QED
  BY <1>1, <1>2, <1>3, <1>4, <1>5, <1>6, <1>7, <1>8,
     <1>9, <1>10, <1>11, <1>12, <1>13, <1>14, <1>15, <1>16, <1>17 DEF Next, ContinueCreate, ContinueVerify

LEMMA RequestStep ==
  ASSUME TypeOK, RequestOK, RowsOK, CreatedIsNew, DrawnFirst, [Next]_vars
  PROVE  RequestOK'
<1> USE DEF TypeOK, RequestOK, tables, HasRow
<1>1. ASSUME NEW c \in Creators, NEW e \in Emails, NEW cur \in SessionIds,
             StartCreate(c, e, cur)
      PROVE  RequestOK'
  BY <1>1 DEF StartCreate, CreateRequest
<1>2. ASSUME NEW c \in Creators, DeleteUnconsumed(c) PROVE RequestOK'
  BY <1>2 DEF DeleteUnconsumed, Deleted, Unconsumed, CreateRequest, PasscodeRow
<1>3. ASSUME NEW c \in Creators, InsertPasscode(c) PROVE RequestOK'
  BY <1>3 DEF InsertPasscode, IdleCreate, CreateRequest, PasscodeRow
<1>4. ASSUME NEW c \in Creators, FailCreate(c) PROVE RequestOK'
  BY <1>4 DEF FailCreate, IdleCreate, CreateRequest
<1>5. ASSUME NEW v \in Verifiers, NEW e \in Emails, NEW code \in Codes, NEW cur \in SessionIds,
             ReadPasscode(v, e, code, cur)
      PROVE  RequestOK'
  BY <1>5 DEF DrawnFirst, ReadPasscode, SessionIds, Unconsumed, VerifyPcs, VerifyRequest
<1>6. ASSUME NEW v \in Verifiers, NEW e \in Emails, RejectPasscode(v, e) PROVE RequestOK'
  BY <1>6 DEF RejectPasscode, vars
<1>7. ASSUME NEW v \in Verifiers, CountMismatch(v) PROVE RequestOK'
  BY <1>7, FinishFacts, CountMismatchFacts DEF CountMismatch
<1>8. ASSUME NEW v \in Verifiers, Consume(v) PROVE RequestOK'
  BY <1>8, ConsumeFacts
<1>9. ASSUME NEW v \in Verifiers, ReadCurrent(v) PROVE RequestOK'
  BY <1>9, GotoFacts, FinishFacts DEF ReadCurrent, VerifyPcs
<1>10. ASSUME NEW v \in Verifiers, SetEmail(v) PROVE RequestOK'
  BY <1>10, WroteFacts DEF SetEmail, CreatedIsNew
<1>11. ASSUME NEW v \in Verifiers, FindByEmail(v) PROVE RequestOK'
  BY <1>11, GotoFacts, FinishFacts DEF FindByEmail, VerifyPcs
<1>12. ASSUME NEW v \in Verifiers, CreateAccount(v) PROVE RequestOK'
  BY <1>12, CreatedFacts, FinishFacts DEF CreateAccount, RowsOK
<1>13. ASSUME NEW v \in Verifiers, CreateAuthUser(v) PROVE RequestOK'
  BY <1>13, WroteFacts DEF CreateAuthUser, CreatedIsNew
<1>14. ASSUME NEW v \in Verifiers, FailVerify(v) PROVE RequestOK'
  BY <1>14, FinishFacts DEF FailVerify
<1>15. ASSUME NEW i \in PasscodeIds, Expire(i) PROVE RequestOK'
  BY <1>15, ExpireFacts DEF Expire
<1>16. CASE UNCHANGED vars
  BY <1>16 DEF vars
<1>17. ASSUME NEW m \in Mergers, Merge(m) PROVE RequestOK'
  <2>1. ASSUME NEW c \in AccountIds, NEW w \in AccountIds, NEW keep \in BOOLEAN,
               MergeCheck(m, c, w, keep)
        PROVE  RequestOK'
    BY <2>1, MergeCheckFacts
  <2>2. CASE MergeCommit(m)
    <3> DEFINE from == mreq[m].from
               to == mreq[m].to
    <3>1. /\ mreq[m].pc = "merge" /\ from \in AccountIds /\ to \in AccountIds /\ from \in role
          /\ HasRow(from)
          /\ \A a \in AccountIds : a # from => (email'[a] # NoRow <=> email[a] # NoRow)
          /\ \A a \in AccountIds : a # from /\ (a # to \/ mreq[m].keep) => email'[a] = email[a]
          /\ role' = role \ {from} /\ merged' = merged \cup {from}
          /\ mreq'[m].pc = "idle" /\ \A n \in Mergers : n # m => mreq'[n] = mreq[n]
          /\ UNCHANGED <<passcode, inserted, creq, vreq, used, failures>>
      BY <2>2, MergeCommitFacts
    <3> HIDE DEF from, to
    <3>2. from \notin merged
      BY <3>1 DEF RowsOK
    <3>3. ASSUME NEW v \in Verifiers, vreq[v].pc = "setEmail"
          PROVE  email'[vreq[v].cur] # NoRow \/ vreq[v].cur \in merged' \ vreq[v].before
      BY <3>1, <3>2, <3>3
    <3>4. ASSUME NEW v \in Verifiers, vreq[v].pc = "role"
          PROVE  email'[vreq[v].acc] = vreq[v].email /\ vreq[v].acc \notin role'
      <4>1. vreq[v].acc # from /\ (vreq[v].acc # to \/ mreq[m].keep)
        BY <3>1, <3>4 DEF CreatedIsNew, to
      <4> QED
        BY <3>1, <3>4, <4>1
    <3>5. ASSUME NEW n \in Mergers, mreq'[n].pc = "merge"
          PROVE  /\ mreq'[n].from \in AccountIds /\ mreq'[n].to \in AccountIds
                 /\ email'[mreq'[n].to] # NoRow \/ mreq'[n].to \in merged'
      BY <3>1, <3>5
    <3> QED
      BY <3>1, <3>3, <3>4, <3>5
  <2>3. CASE MergeRollback(m)
    BY <2>3, MergeRollbackFacts
  <2> QED
    BY <1>17, <2>1, <2>2, <2>3 DEF Merge
<1> QED
  BY <1>1, <1>2, <1>3, <1>4, <1>5, <1>6, <1>7, <1>8,
     <1>9, <1>10, <1>11, <1>12, <1>13, <1>14, <1>15, <1>16, <1>17 DEF Next, ContinueCreate, ContinueVerify

LEMMA RowsStep ==
  ASSUME TypeOK, RequestOK, RowsOK, [Next]_vars
  PROVE  RowsOK'
<1> USE DEF TypeOK, RowsOK, HasRow, tables
<1>1. ASSUME NEW c \in Creators, NEW e \in Emails, NEW cur \in SessionIds,
             StartCreate(c, e, cur)
      PROVE  RowsOK'
  BY <1>1 DEF StartCreate
<1>2. ASSUME NEW c \in Creators, DeleteUnconsumed(c) PROVE RowsOK'
  BY <1>2 DEF DeleteUnconsumed, Deleted
<1>3. ASSUME NEW c \in Creators, InsertPasscode(c) PROVE RowsOK'
  BY <1>3 DEF InsertPasscode
<1>4. ASSUME NEW c \in Creators, FailCreate(c) PROVE RowsOK'
  BY <1>4 DEF FailCreate
<1>5. ASSUME NEW v \in Verifiers, NEW e \in Emails, NEW code \in Codes, NEW cur \in SessionIds,
             ReadPasscode(v, e, code, cur)
      PROVE  RowsOK'
  BY <1>5 DEF ReadPasscode, Unconsumed
<1>6. ASSUME NEW v \in Verifiers, NEW e \in Emails, RejectPasscode(v, e) PROVE RowsOK'
  BY <1>6 DEF RejectPasscode, vars
<1>7. ASSUME NEW v \in Verifiers, CountMismatch(v) PROVE RowsOK'
  BY <1>7, FinishFacts, CountMismatchFacts DEF CountMismatch
<1>8. ASSUME NEW v \in Verifiers, Consume(v) PROVE RowsOK'
  BY <1>8, ConsumeFacts DEF RequestOK
<1>9. ASSUME NEW v \in Verifiers, ReadCurrent(v) PROVE RowsOK'
  BY <1>9, GotoFacts, FinishFacts DEF ReadCurrent, VerifyPcs
<1>10. ASSUME NEW v \in Verifiers, SetEmail(v) PROVE RowsOK'
  BY <1>10, WroteFacts DEF SetEmail, RequestOK
<1>11. ASSUME NEW v \in Verifiers, FindByEmail(v) PROVE RowsOK'
  BY <1>11, GotoFacts, FinishFacts DEF FindByEmail, VerifyPcs
<1>12. ASSUME NEW v \in Verifiers, CreateAccount(v) PROVE RowsOK'
  BY <1>12, CreatedFacts, FinishFacts DEF CreateAccount
<1>13. ASSUME NEW v \in Verifiers, CreateAuthUser(v) PROVE RowsOK'
  BY <1>13, WroteFacts DEF CreateAuthUser, RequestOK
<1>14. ASSUME NEW v \in Verifiers, FailVerify(v) PROVE RowsOK'
  BY <1>14, FinishFacts DEF FailVerify
<1>15. ASSUME NEW i \in PasscodeIds, Expire(i) PROVE RowsOK'
  BY <1>15, ExpireFacts DEF Expire
<1>16. CASE UNCHANGED vars
  BY <1>16 DEF vars
<1>17. ASSUME NEW m \in Mergers, Merge(m) PROVE RowsOK'
  BY <1>17, MergeCommitFacts DEF Merge, MergeCheck, MergeRollback
<1> QED
  BY <1>1, <1>2, <1>3, <1>4, <1>5, <1>6, <1>7, <1>8,
     <1>9, <1>10, <1>11, <1>12, <1>13, <1>14, <1>15, <1>16, <1>17 DEF Next, ContinueCreate, ContinueVerify

LEMMA CreatedIsNewStep ==
  ASSUME TypeOK, RequestOK, RowsOK, CreatedIsNew, [Next]_vars
  PROVE  CreatedIsNew'
<1> USE DEF TypeOK, CreatedIsNew, HasRow, tables
<1>1. ASSUME NEW c \in Creators, NEW e \in Emails, NEW cur \in SessionIds,
             StartCreate(c, e, cur)
      PROVE  CreatedIsNew'
  BY <1>1 DEF StartCreate
<1>2. ASSUME NEW c \in Creators, DeleteUnconsumed(c) PROVE CreatedIsNew'
  BY <1>2 DEF DeleteUnconsumed
<1>3. ASSUME NEW c \in Creators, InsertPasscode(c) PROVE CreatedIsNew'
  BY <1>3 DEF InsertPasscode
<1>4. ASSUME NEW c \in Creators, FailCreate(c) PROVE CreatedIsNew'
  BY <1>4 DEF FailCreate
<1>5. ASSUME NEW v \in Verifiers, NEW e \in Emails, NEW code \in Codes, NEW cur \in SessionIds,
             ReadPasscode(v, e, code, cur)
      PROVE  CreatedIsNew'
  BY <1>5 DEF ReadPasscode, Unconsumed
<1>6. ASSUME NEW v \in Verifiers, NEW e \in Emails, RejectPasscode(v, e) PROVE CreatedIsNew'
  BY <1>6 DEF RejectPasscode, vars
<1>7. ASSUME NEW v \in Verifiers, CountMismatch(v) PROVE CreatedIsNew'
  BY <1>7, FinishFacts, CountMismatchFacts DEF CountMismatch
<1>8. ASSUME NEW v \in Verifiers, Consume(v) PROVE CreatedIsNew'
  BY <1>8, ConsumeFacts
<1>9. ASSUME NEW v \in Verifiers, ReadCurrent(v) PROVE CreatedIsNew'
  <2>1. "setEmail" \in VerifyPcs
    BY DEF VerifyPcs
  <2>2. CASE email[vreq[v].cur] = NoEmail
    <3>1. Goto(v, "setEmail") /\ email' = email /\ vreq[v].pc = "current"
      BY <1>9, <2>2 DEF ReadCurrent
    <3>2. /\ \A w \in Verifiers : w # v => vreq'[w] = vreq[w]
          /\ vreq'[v].pc = "setEmail" /\ vreq'[v].cur = vreq[v].cur
      BY <2>1, <3>1, GotoFacts
    <3>3. \A w \in Verifiers : vreq[w].pc = "role" => email[vreq[w].acc] \in Emails
      BY DEF RequestOK
    <3> QED
      BY <1>9, <2>2, <3>1, <3>2, <3>3 DEF ReadCurrent
  <2>3. CASE email[vreq[v].cur] # NoEmail
    BY <1>9, <2>3, FinishFacts DEF ReadCurrent
  <2> QED
    BY <2>2, <2>3
<1>10. ASSUME NEW v \in Verifiers, SetEmail(v) PROVE CreatedIsNew'
  BY <1>10, WroteFacts DEF SetEmail
<1>11. ASSUME NEW v \in Verifiers, FindByEmail(v) PROVE CreatedIsNew'
  BY <1>11, GotoFacts, FinishFacts DEF FindByEmail, VerifyPcs
<1>12. ASSUME NEW v \in Verifiers, CreateAccount(v) PROVE CreatedIsNew'
  BY <1>12, CreatedFacts, FinishFacts DEF CreateAccount, RequestOK
<1>13. ASSUME NEW v \in Verifiers, CreateAuthUser(v) PROVE CreatedIsNew'
  BY <1>13, WroteFacts DEF CreateAuthUser
<1>14. ASSUME NEW v \in Verifiers, FailVerify(v) PROVE CreatedIsNew'
  BY <1>14, FinishFacts DEF FailVerify
<1>15. ASSUME NEW i \in PasscodeIds, Expire(i) PROVE CreatedIsNew'
  BY <1>15, ExpireFacts DEF Expire
<1>16. CASE UNCHANGED vars
  BY <1>16 DEF vars
<1>17. ASSUME NEW m \in Mergers, Merge(m) PROVE CreatedIsNew'
  <2>1. ASSUME NEW c \in AccountIds, NEW w \in AccountIds, NEW keep \in BOOLEAN,
               MergeCheck(m, c, w, keep)
        PROVE  CreatedIsNew'
    BY <2>1, MergeCheckFacts DEF RequestOK
  <2>2. CASE MergeCommit(m)
    BY <2>2, MergeCommitFacts DEF RequestOK
  <2>3. CASE MergeRollback(m)
    BY <2>3, MergeRollbackFacts
  <2> QED
    BY <1>17, <2>1, <2>2, <2>3 DEF Merge
<1> QED
  BY <1>1, <1>2, <1>3, <1>4, <1>5, <1>6, <1>7, <1>8,
     <1>9, <1>10, <1>11, <1>12, <1>13, <1>14, <1>15, <1>16, <1>17 DEF Next, ContinueCreate, ContinueVerify

LEMMA DrawnFirstStep ==
  ASSUME TypeOK, RequestOK, DrawnFirst, [Next]_vars
  PROVE  DrawnFirst'
<1> USE DEF TypeOK, DrawnFirst, tables
<1>1. ASSUME NEW c \in Creators, NEW e \in Emails, NEW cur \in SessionIds,
             StartCreate(c, e, cur)
      PROVE  DrawnFirst'
  BY <1>1 DEF StartCreate
<1>2. ASSUME NEW c \in Creators, DeleteUnconsumed(c) PROVE DrawnFirst'
  BY <1>2 DEF DeleteUnconsumed, Deleted
<1>3. ASSUME NEW c \in Creators, InsertPasscode(c) PROVE DrawnFirst'
  BY <1>3 DEF InsertPasscode
<1>4. ASSUME NEW c \in Creators, FailCreate(c) PROVE DrawnFirst'
  BY <1>4 DEF FailCreate
<1>5. ASSUME NEW v \in Verifiers, NEW e \in Emails, NEW code \in Codes, NEW cur \in SessionIds,
             ReadPasscode(v, e, code, cur)
      PROVE  DrawnFirst'
  BY <1>5 DEF ReadPasscode, Unconsumed
<1>6. ASSUME NEW v \in Verifiers, NEW e \in Emails, RejectPasscode(v, e) PROVE DrawnFirst'
  BY <1>6 DEF RejectPasscode, vars
<1>7. ASSUME NEW v \in Verifiers, CountMismatch(v) PROVE DrawnFirst'
  BY <1>7, FinishFacts, CountMismatchFacts DEF CountMismatch
<1>8. ASSUME NEW v \in Verifiers, Consume(v) PROVE DrawnFirst'
  BY <1>8, ConsumeFacts DEF RequestOK
<1>9. ASSUME NEW v \in Verifiers, ReadCurrent(v) PROVE DrawnFirst'
  BY <1>9, GotoFacts, FinishFacts DEF ReadCurrent, VerifyPcs
<1>10. ASSUME NEW v \in Verifiers, SetEmail(v) PROVE DrawnFirst'
  BY <1>10, FinishFacts DEF SetEmail
<1>11. ASSUME NEW v \in Verifiers, FindByEmail(v) PROVE DrawnFirst'
  BY <1>11, GotoFacts, FinishFacts DEF FindByEmail, VerifyPcs
<1>12. ASSUME NEW v \in Verifiers, CreateAccount(v) PROVE DrawnFirst'
  BY <1>12, CreatedFacts, FinishFacts DEF CreateAccount
<1>13. ASSUME NEW v \in Verifiers, CreateAuthUser(v) PROVE DrawnFirst'
  BY <1>13, FinishFacts DEF CreateAuthUser
<1>14. ASSUME NEW v \in Verifiers, FailVerify(v) PROVE DrawnFirst'
  BY <1>14, FinishFacts DEF FailVerify
<1>15. ASSUME NEW i \in PasscodeIds, Expire(i) PROVE DrawnFirst'
  BY <1>15, ExpireFacts DEF Expire
<1>16. CASE UNCHANGED vars
  BY <1>16 DEF vars
<1>17. ASSUME NEW m \in Mergers, Merge(m) PROVE DrawnFirst'
  BY <1>17, MergeFacts
<1> QED
  BY <1>1, <1>2, <1>3, <1>4, <1>5, <1>6, <1>7, <1>8,
     <1>9, <1>10, <1>11, <1>12, <1>13, <1>14, <1>15, <1>16, <1>17 DEF Next, ContinueCreate, ContinueVerify

LEMMA Inductive == Spec => []IInv
<1>1. Init => IInv
  BY DEF Init, IInv, TypeOK, RequestOK, RowsOK, HasRow, CreatedIsNew, DrawnFirst, PasscodeRow, CreateRequest,
         VerifyRequest, VerifyPcs, MergeRequest, Deleted, IdleCreate, IdleVerify, IdleMerge
<1>2. IInv /\ [Next]_vars => IInv'
  BY TypeStep, RequestStep, RowsStep, CreatedIsNewStep, DrawnFirstStep DEF IInv
<1> QED
  BY <1>1, <1>2, PTL DEF Spec

\* Every variable keeps its type, whatever the interleaving: so every answered
\* login names a real e-mail and a real account.
THEOREM TypeCorrect == Spec => []TypeOK
  BY Inductive, PTL DEF IInv

-----------------------------------------------------------------------------
(* The try limit *)

LEMMA AtFinite ==
  ASSUME NEW pc, NEW i
  PROVE  /\ IsFiniteSet(At(pc, i)) /\ Cardinality(At(pc, i)) <= Cardinality(Verifiers)
         /\ IsFiniteSet(At(pc, i)') /\ Cardinality(At(pc, i)') <= Cardinality(Verifiers)
<1>1. At(pc, i) \in SUBSET Verifiers /\ At(pc, i)' \in SUBSET Verifiers
  BY DEF At
<1> QED
  BY <1>1, FS_Subset

LEMMA VerifiersNat == Cardinality(Verifiers) \in Nat
  BY FS_CardinalityType

\* Counted and uncounted wrong guesses of passcode i.
TrySum(i) == passcode[i].max_try_count + Cardinality(At("mismatch", i))

\* The step counts no guess and starts none.
TrySmaller ==
  \A i \in PasscodeIds :
    /\ passcode'[i].max_try_count <= passcode[i].max_try_count
    /\ At("mismatch", i)' \subseteq At("mismatch", i)

LEMMA TrySmallerSuffices ==
  ASSUME TypeOK, TypeOK', TryBound, TrySmaller
  PROVE  TryBound'
<1> SUFFICES ASSUME NEW i \in PasscodeIds
             PROVE  passcode'[i].max_try_count + Cardinality(At("mismatch", i)')
                      <= MaxTryCount - 1 + Cardinality(Verifiers)
  BY DEF TryBound
<1>1. /\ passcode[i].max_try_count \in Nat /\ passcode'[i].max_try_count \in Nat
      /\ Cardinality(At("mismatch", i)) \in Nat /\ Cardinality(At("mismatch", i)') \in Nat
      /\ Cardinality(Verifiers) \in Nat
  BY AtFinite, FS_CardinalityType DEF TypeOK, PasscodeRow
<1>2. Cardinality(At("mismatch", i)') <= Cardinality(At("mismatch", i))
  <2>1. At("mismatch", i)' \in SUBSET At("mismatch", i)
    BY DEF TrySmaller
  <2> QED
    BY <2>1, AtFinite, FS_Subset
<1> QED
  BY <1>1, <1>2 DEF TryBound, TrySmaller

LEMMA TryBoundStep ==
  ASSUME IInv, TryBound, TypeOK', [Next]_vars
  PROVE  TryBound'
<1> USE DEF tables
<1>a. TypeOK /\ RequestOK /\ vreq \in [Verifiers -> VerifyRequest]
  BY DEF IInv, TypeOK
<1>b. \A j \in PasscodeIds : passcode[j].max_try_count \in Nat
  BY <1>a DEF TypeOK, PasscodeRow
<1>c. UNCHANGED passcode => \A j \in PasscodeIds : passcode'[j].max_try_count <= passcode[j].max_try_count
  BY <1>b
<1>1. ASSUME NEW c \in Creators, NEW e \in Emails, NEW cur \in SessionIds,
             StartCreate(c, e, cur)
      PROVE  TrySmaller
  BY <1>a, <1>b, <1>c, <1>1 DEF StartCreate, TrySmaller, At
<1>2. ASSUME NEW c \in Creators, DeleteUnconsumed(c) PROVE TrySmaller
  BY <1>a, <1>b, <1>c, <1>2 DEF DeleteUnconsumed, TrySmaller, At, Deleted
<1>3. ASSUME NEW c \in Creators, InsertPasscode(c) PROVE TrySmaller
  BY <1>a, <1>b, <1>c, <1>3 DEF InsertPasscode, TrySmaller, At
<1>4. ASSUME NEW c \in Creators, FailCreate(c) PROVE TrySmaller
  BY <1>a, <1>b, <1>c, <1>4 DEF FailCreate, TrySmaller, At
<1>5. ASSUME NEW v \in Verifiers, NEW e \in Emails, NEW code \in Codes, NEW cur \in SessionIds,
             ReadPasscode(v, e, code, cur)
      PROVE  TryBound'
  <2> PICK i \in PasscodeIds :
        /\ passcode[i].max_try_count < MaxTryCount
        /\ vreq' = [vreq EXCEPT ![v] =
             [pc |-> IF passcode[i].code = code THEN "consume" ELSE "mismatch",
              email |-> e, cur |-> cur, id |-> i, acc |-> None, before |-> merged]]
    BY <1>5 DEF ReadPasscode, Unconsumed, Acceptable
  <2>1. vreq[v].pc = "idle" /\ passcode' = passcode
    BY <1>5 DEF ReadPasscode, tables
  <2>2. TrySum(i)' <= MaxTryCount - 1 + Cardinality(Verifiers)
    <3>1. passcode[i].max_try_count \in Nat
      BY <1>b
    <3>2. Cardinality(At("mismatch", i)') \in Nat /\ Cardinality(At("mismatch", i)') <= Cardinality(Verifiers)
      BY AtFinite, FS_CardinalityType
    <3> QED
      BY <2>1, <3>1, <3>2, FS_CardinalityType DEF TrySum
  <2>3. \A j \in PasscodeIds : j # i => At("mismatch", j)' = At("mismatch", j)
    BY <1>a, <2>1 DEF At
  <2> QED
    BY <2>1, <2>2, <2>3 DEF TryBound, TrySum
<1>6. ASSUME NEW v \in Verifiers, NEW e \in Emails, RejectPasscode(v, e) PROVE TrySmaller
  BY <1>a, <1>b, <1>c, <1>6 DEF RejectPasscode, vars, TrySmaller, At
<1>7. ASSUME NEW v \in Verifiers, CountMismatch(v) PROVE TryBound'
  <2> PICK i \in PasscodeIds : i = vreq[v].id
    BY <1>a, <1>7, CountMismatchFacts
  <2>1. /\ v \in At("mismatch", i) /\ At("mismatch", i)' = At("mismatch", i) \ {v}
        /\ \A j \in PasscodeIds : j # i => At("mismatch", j)' = At("mismatch", j)
    <3>1. /\ vreq[v].pc = "mismatch" /\ vreq'[v].pc = "idle"
          /\ \A w \in Verifiers : w # v => vreq'[w] = vreq[w]
      BY <1>a, <1>7, FinishFacts DEF CountMismatch
    <3> QED
      BY <3>1 DEF At
  <2>2. Cardinality(At("mismatch", i)') = Cardinality(At("mismatch", i)) - 1
    BY <2>1, AtFinite, FS_RemoveElement
  <2>3. /\ passcode'[i].max_try_count <= passcode[i].max_try_count + 1
        /\ \A j \in PasscodeIds : j # i => passcode'[j].max_try_count <= passcode[j].max_try_count
        /\ i \in PasscodeIds
    <3>1. \A j \in PasscodeIds : passcode[j].max_try_count \in Nat
      BY <1>b
    <3> QED
      BY <1>a, <1>7, <3>1, CountMismatchFacts
  <2>4. \A j \in PasscodeIds :
          /\ passcode[j].max_try_count \in Nat /\ passcode'[j].max_try_count \in Nat
          /\ Cardinality(At("mismatch", j)) \in Nat
    BY <1>a, <1>b, <1>7, CountMismatchFacts, AtFinite, FS_CardinalityType DEF TypeOK, PasscodeRow
  <2>5. Cardinality(Verifiers) \in Nat
    BY VerifiersNat
  <2>6. ASSUME NEW j \in PasscodeIds
        PROVE  passcode'[j].max_try_count + Cardinality(At("mismatch", j)')
                 <= MaxTryCount - 1 + Cardinality(Verifiers)
    <3>1. passcode[j].max_try_count + Cardinality(At("mismatch", j))
            <= MaxTryCount - 1 + Cardinality(Verifiers)
      BY DEF TryBound
    <3>2. CASE j = i
      BY <2>2, <2>3, <2>4, <2>5, <3>1, <3>2
    <3>3. CASE j # i
      BY <2>1, <2>3, <2>4, <2>5, <3>1, <3>3
    <3> QED
      BY <3>2, <3>3
  <2> QED
    BY <2>6 DEF TryBound
<1>8. ASSUME NEW v \in Verifiers, Consume(v) PROVE TrySmaller
  BY <1>a, <1>b, <1>c, <1>8, ConsumeFacts DEF TrySmaller, At
<1>9. ASSUME NEW v \in Verifiers, ReadCurrent(v) PROVE TrySmaller
  BY <1>a, <1>b, <1>c, <1>9, GotoFacts, FinishFacts DEF ReadCurrent, VerifyPcs, TrySmaller, At
<1>10. ASSUME NEW v \in Verifiers, SetEmail(v) PROVE TrySmaller
  BY <1>a, <1>b, <1>c, <1>10, WroteFacts DEF TrySmaller, At
<1>11. ASSUME NEW v \in Verifiers, FindByEmail(v) PROVE TrySmaller
  BY <1>a, <1>b, <1>c, <1>11, GotoFacts, FinishFacts DEF FindByEmail, VerifyPcs, TrySmaller, At
<1>12. ASSUME NEW v \in Verifiers, CreateAccount(v) PROVE TrySmaller
  BY <1>a, <1>b, <1>c, <1>12, CreatedFacts, FinishFacts DEF CreateAccount, TrySmaller, At
<1>13. ASSUME NEW v \in Verifiers, CreateAuthUser(v) PROVE TrySmaller
  BY <1>a, <1>b, <1>c, <1>13, WroteFacts DEF TrySmaller, At
<1>14. ASSUME NEW v \in Verifiers, FailVerify(v) PROVE TrySmaller
  BY <1>a, <1>b, <1>c, <1>14, FinishFacts DEF FailVerify, TrySmaller, At
<1>15. ASSUME NEW i \in PasscodeIds, Expire(i) PROVE TrySmaller
  BY <1>a, <1>b, <1>c, <1>15, ExpireFacts DEF Expire, TrySmaller, At
<1>16. CASE UNCHANGED vars
  <2>1. passcode' = passcode /\ vreq' = vreq
    BY <1>16 DEF vars
  <2>2. \A i \in PasscodeIds : At("mismatch", i)' = At("mismatch", i)
    BY <2>1 DEF At
  <2>3. \A i \in PasscodeIds : passcode'[i].max_try_count <= passcode[i].max_try_count
    BY <1>c, <2>1
  <2>4. TrySmaller
    BY <2>2, <2>3 DEF TrySmaller
  <2> QED
    BY <2>4, <1>a, TrySmallerSuffices
<1>17. ASSUME NEW m \in Mergers, Merge(m) PROVE TrySmaller
  BY <1>a, <1>b, <1>c, <1>17, MergeFacts DEF TrySmaller, At
<1> QED
  BY <1>1, <1>2, <1>3, <1>4, <1>5, <1>6, <1>7, <1>8,
     <1>9, <1>10, <1>11, <1>12, <1>13, <1>14, <1>15, <1>16, <1>17, TrySmallerSuffices, <1>a
     DEF Next, ContinueCreate, ContinueVerify

\* At most MaxTryCount wrong guesses are counted against a passcode, plus one
\* for each other request that compared before the last count was written.
THEOREM TryBoundHolds == Spec => []TryBound
<1>1. Init => TryBound
  <2> SUFFICES ASSUME Init, NEW i \in PasscodeIds
               PROVE  0 + Cardinality(At("mismatch", i)) <= MaxTryCount - 1 + Cardinality(Verifiers)
    BY DEF Init, TryBound, Deleted
  <2>1. At("mismatch", i) = {}
    BY DEF Init, At, IdleVerify
  <2> QED
    <3>1. Cardinality(At("mismatch", i)) = 0
      BY <2>1, FS_EmptySet
    <3> QED
      BY <3>1, VerifiersNat
<1>2. IInv /\ TypeOK' /\ TryBound /\ [Next]_vars => TryBound'
  BY TryBoundStep
<1> QED
  BY <1>1, <1>2, TypeCorrect, Inductive, PTL DEF Spec
-----------------------------------------------------------------------------
(* One-time use *)

\* The step accepts no passcode, is about to accept none, and makes no accepted one readable.
UseSmaller ==
  \A i \in PasscodeIds :
    /\ used'[i] = used[i]
    /\ At("consume", i)' \subseteq At("consume", i)
    /\ used[i] > 0 /\ passcode'[i].exists => passcode'[i].consumed

LEMMA UseSmallerSuffices ==
  ASSUME TypeOK, TypeOK', UseBound, UseSmaller
  PROVE  UseBound'
<1>1. ASSUME NEW i \in PasscodeIds
      PROVE  used'[i] + Cardinality(At("consume", i)') <= Cardinality(Verifiers)
  <2>1. /\ used[i] \in Nat /\ used'[i] = used[i]
        /\ Cardinality(At("consume", i)) \in Nat /\ Cardinality(At("consume", i)') \in Nat
    BY AtFinite, FS_CardinalityType DEF TypeOK, UseSmaller
  <2>2. Cardinality(At("consume", i)') <= Cardinality(At("consume", i))
    <3>1. At("consume", i)' \in SUBSET At("consume", i)
      BY DEF UseSmaller
    <3> QED
      BY <3>1, AtFinite, FS_Subset
  <2>3. used[i] + Cardinality(At("consume", i)) <= Cardinality(Verifiers)
    BY DEF UseBound
  <2> QED
    BY <2>1, <2>2, <2>3, VerifiersNat
<1>2. ASSUME NEW i \in PasscodeIds, used'[i] > 0, passcode'[i].exists
      PROVE  passcode'[i].consumed
  BY <1>2 DEF UseSmaller
<1> QED
  BY <1>1, <1>2 DEF UseBound

LEMMA UseBoundStep ==
  ASSUME IInv, UseBound, TypeOK', [Next]_vars
  PROVE  UseBound'
<1> USE DEF tables
<1>a. TypeOK /\ RequestOK /\ DrawnFirst /\ vreq \in [Verifiers -> VerifyRequest]
  BY DEF IInv, TypeOK
<1>b. used \in [PasscodeIds -> Nat]
  BY <1>a DEF TypeOK
<1>c. \A j \in PasscodeIds : used[j] > 0 /\ passcode[j].exists => passcode[j].consumed
  BY DEF UseBound
<1>1. ASSUME NEW c \in Creators, NEW e \in Emails, NEW cur \in SessionIds,
             StartCreate(c, e, cur)
      PROVE  UseSmaller
  BY <1>a, <1>c, <1>1 DEF StartCreate, UseSmaller, At
<1>2. ASSUME NEW c \in Creators, DeleteUnconsumed(c) PROVE UseSmaller
  BY <1>a, <1>c, <1>2 DEF DeleteUnconsumed, UseSmaller, At, Deleted
<1>3. ASSUME NEW c \in Creators, InsertPasscode(c) PROVE UseSmaller
  BY <1>a, <1>c, <1>3 DEF InsertPasscode, UseSmaller, At, DrawnFirst
<1>4. ASSUME NEW c \in Creators, FailCreate(c) PROVE UseSmaller
  BY <1>a, <1>c, <1>4 DEF FailCreate, UseSmaller, At
<1>5. ASSUME NEW v \in Verifiers, NEW e \in Emails, NEW code \in Codes, NEW cur \in SessionIds,
             ReadPasscode(v, e, code, cur)
      PROVE  UseBound'
  <2> PICK i \in PasscodeIds :
        /\ passcode[i].exists /\ ~passcode[i].consumed
        /\ vreq' = [vreq EXCEPT ![v] =
             [pc |-> IF passcode[i].code = code THEN "consume" ELSE "mismatch",
              email |-> e, cur |-> cur, id |-> i, acc |-> None, before |-> merged]]
    BY <1>5 DEF ReadPasscode, Unconsumed
  <2>1. vreq[v].pc = "idle" /\ passcode' = passcode /\ used' = used
    BY <1>5 DEF ReadPasscode
  <2>2. used[i] = 0
    BY <1>b DEF UseBound
  <2>3. used'[i] + Cardinality(At("consume", i)') <= Cardinality(Verifiers)
    <3>1. Cardinality(At("consume", i)') \in Nat /\ Cardinality(At("consume", i)') <= Cardinality(Verifiers)
      BY AtFinite, FS_CardinalityType
    <3> QED
      BY <2>1, <2>2, <3>1
  <2>4. \A j \in PasscodeIds : j # i => At("consume", j)' = At("consume", j)
    BY <1>a, <2>1 DEF At
  <2> QED
    BY <2>1, <2>3, <2>4 DEF UseBound
<1>6. ASSUME NEW v \in Verifiers, NEW e \in Emails, RejectPasscode(v, e) PROVE UseSmaller
  BY <1>a, <1>c, <1>6 DEF RejectPasscode, vars, UseSmaller, At
<1>7. ASSUME NEW v \in Verifiers, CountMismatch(v) PROVE UseSmaller
  BY <1>a, <1>c, <1>7, FinishFacts, CountMismatchFacts DEF CountMismatch, UseSmaller, At
<1>8. ASSUME NEW v \in Verifiers, Consume(v) PROVE UseBound'
  <2> PICK i \in PasscodeIds : i = vreq[v].id
    BY <1>a, <1>8, ConsumeFacts
  <2>1. /\ v \in At("consume", i) /\ At("consume", i)' = At("consume", i) \ {v}
        /\ \A j \in PasscodeIds : j # i => At("consume", j)' = At("consume", j)
    <3>1. /\ vreq[v].pc = "consume" /\ vreq'[v].pc # "consume"
          /\ \A w \in Verifiers : w # v => vreq'[w] = vreq[w]
      BY <1>a, <1>8, ConsumeFacts
    <3> QED
      BY <3>1 DEF At
  <2>2. Cardinality(At("consume", i)') = Cardinality(At("consume", i)) - 1
    BY <2>1, AtFinite, FS_RemoveElement
  <2>3. /\ used'[i] = used[i] + 1
        /\ \A j \in PasscodeIds : j # i => used'[j] = used[j]
    BY <1>a, <1>b, <1>8, ConsumeFacts
  <2>4. \A j \in PasscodeIds : Cardinality(At("consume", j)) \in Nat
    BY AtFinite, FS_CardinalityType
  <2>5. ASSUME NEW j \in PasscodeIds
        PROVE  used'[j] + Cardinality(At("consume", j)') <= Cardinality(Verifiers)
    <3>1. used[j] + Cardinality(At("consume", j)) <= Cardinality(Verifiers)
      BY DEF UseBound
    <3>2. CASE j = i
      BY <1>b, <2>2, <2>3, <2>4, <3>1, <3>2, VerifiersNat
    <3>3. CASE j # i
      BY <2>1, <2>3, <3>1, <3>3
    <3> QED
      BY <3>2, <3>3
  <2>6. ASSUME NEW j \in PasscodeIds, used'[j] > 0, passcode'[j].exists
        PROVE  passcode'[j].consumed
    BY <1>a, <1>b, <1>8, <2>3, <2>6, ConsumeFacts DEF UseBound
  <2> QED
    BY <2>5, <2>6 DEF UseBound
<1>9. ASSUME NEW v \in Verifiers, ReadCurrent(v) PROVE UseSmaller
  BY <1>a, <1>c, <1>9, GotoFacts, FinishFacts DEF ReadCurrent, VerifyPcs, UseSmaller, At
<1>10. ASSUME NEW v \in Verifiers, SetEmail(v) PROVE UseSmaller
  BY <1>a, <1>c, <1>10, WroteFacts DEF UseSmaller, At
<1>11. ASSUME NEW v \in Verifiers, FindByEmail(v) PROVE UseSmaller
  BY <1>a, <1>c, <1>11, GotoFacts, FinishFacts DEF FindByEmail, VerifyPcs, UseSmaller, At
<1>12. ASSUME NEW v \in Verifiers, CreateAccount(v) PROVE UseSmaller
  BY <1>a, <1>c, <1>12, CreatedFacts, FinishFacts DEF CreateAccount, UseSmaller, At
<1>13. ASSUME NEW v \in Verifiers, CreateAuthUser(v) PROVE UseSmaller
  BY <1>a, <1>c, <1>13, WroteFacts DEF UseSmaller, At
<1>14. ASSUME NEW v \in Verifiers, FailVerify(v) PROVE UseSmaller
  BY <1>a, <1>c, <1>14, FinishFacts DEF FailVerify, UseSmaller, At
<1>15. ASSUME NEW i \in PasscodeIds, Expire(i) PROVE UseSmaller
  BY <1>a, <1>c, <1>15, ExpireFacts DEF Expire, UseSmaller, At
<1>16. CASE UNCHANGED vars
  <2>1. passcode' = passcode /\ vreq' = vreq /\ used' = used
    BY <1>16 DEF vars
  <2>2. UseSmaller
    BY <1>c, <2>1 DEF UseSmaller, At
  <2> QED
    BY <2>2, <1>a, UseSmallerSuffices
<1>17. ASSUME NEW m \in Mergers, Merge(m) PROVE UseSmaller
  BY <1>a, <1>c, <1>17, MergeFacts DEF UseSmaller, At
<1> QED
  BY <1>1, <1>2, <1>3, <1>4, <1>5, <1>6, <1>7, <1>8,
     <1>9, <1>10, <1>11, <1>12, <1>13, <1>14, <1>15, <1>16, <1>17, UseSmallerSuffices, <1>a
     DEF Next, ContinueCreate, ContinueVerify

\* A passcode is accepted at most once for each request running at the same
\* time, and never by a request that starts after its first acceptance.
THEOREM UseBoundHolds == Spec => []UseBound
<1>1. Init => UseBound
  <2> SUFFICES ASSUME Init, NEW i \in PasscodeIds
               PROVE  /\ 0 + Cardinality(At("consume", i)) <= Cardinality(Verifiers)
                      /\ used[i] > 0 /\ passcode[i].exists => passcode[i].consumed
    BY DEF Init, UseBound
  <2>1. At("consume", i) = {}
    BY DEF Init, At, IdleVerify
  <2>2. Cardinality(At("consume", i)) = 0
    BY <2>1, FS_EmptySet
  <2>3. ~(used[i] > 0)
    BY DEF Init
  <2> QED
    BY <2>2, <2>3, VerifiersNat
<1>2. IInv /\ TypeOK' /\ UseBound /\ [Next]_vars => UseBound'
  BY UseBoundStep
<1> QED
  BY <1>1, <1>2, TypeCorrect, Inductive, PTL DEF Spec
-----------------------------------------------------------------------------
(* Unconsumed passcodes *)

LEMMA UnconsumedFinite ==
  ASSUME NEW e
  PROVE  /\ IsFiniteSet(Unconsumed(e)) /\ Cardinality(Unconsumed(e)) \in Nat
         /\ IsFiniteSet(Unconsumed(e)') /\ Cardinality(Unconsumed(e)') \in Nat
         /\ IsFiniteSet(Inserting(e)) /\ Cardinality(Inserting(e)) \in Nat
         /\ IsFiniteSet(Inserting(e)') /\ Cardinality(Inserting(e)') \in Nat
         /\ Cardinality(Inserting(e)') <= Cardinality(Creators)
         /\ Cardinality(Creators) \in Nat
<1>1. Unconsumed(e) \in SUBSET PasscodeIds /\ Unconsumed(e)' \in SUBSET PasscodeIds
  BY DEF Unconsumed
<1>2. Inserting(e) \in SUBSET Creators /\ Inserting(e)' \in SUBSET Creators
  BY DEF Inserting
<1>3. /\ IsFiniteSet(Unconsumed(e)) /\ IsFiniteSet(Unconsumed(e)')
      /\ IsFiniteSet(Inserting(e)) /\ IsFiniteSet(Inserting(e)')
      /\ Cardinality(Inserting(e)') <= Cardinality(Creators)
  BY <1>1, <1>2, FS_Subset
<1> QED
  BY <1>3, FS_CardinalityType

\* The step adds no unconsumed passcode and brings no creator to its insert.
UnconsumedSmaller ==
  \A e \in Emails :
    /\ Unconsumed(e)' \subseteq Unconsumed(e)
    /\ Inserting(e)' \subseteq Inserting(e)

LEMMA UnconsumedSmallerSuffices ==
  ASSUME UnconsumedBound, UnconsumedSmaller
  PROVE  UnconsumedBound'
<1> SUFFICES ASSUME NEW e \in Emails
             PROVE  Cardinality(Unconsumed(e)') + Cardinality(Inserting(e)') <= Cardinality(Creators)
  BY DEF UnconsumedBound
<1>1. Unconsumed(e)' \in SUBSET Unconsumed(e) /\ Inserting(e)' \in SUBSET Inserting(e)
  BY DEF UnconsumedSmaller
<1>2. /\ Cardinality(Unconsumed(e)') <= Cardinality(Unconsumed(e))
      /\ Cardinality(Inserting(e)') <= Cardinality(Inserting(e))
  BY <1>1, UnconsumedFinite, FS_Subset
<1>3. Cardinality(Unconsumed(e)) + Cardinality(Inserting(e)) <= Cardinality(Creators)
  BY DEF UnconsumedBound
<1> QED
  BY <1>2, <1>3, UnconsumedFinite

LEMMA UnconsumedBoundStep ==
  ASSUME IInv, UnconsumedBound, [Next]_vars
  PROVE  UnconsumedBound'
<1> USE DEF tables
<1>a. /\ TypeOK /\ RequestOK /\ DrawnFirst
      /\ creq \in [Creators -> CreateRequest] /\ passcode \in [PasscodeIds -> PasscodeRow]
  BY DEF IInv, TypeOK
<1>1. ASSUME NEW c \in Creators, NEW e \in Emails, NEW cur \in SessionIds,
             StartCreate(c, e, cur)
      PROVE  UnconsumedSmaller
  BY <1>a, <1>1 DEF StartCreate, UnconsumedSmaller, Unconsumed, Inserting
<1>2. ASSUME NEW c \in Creators, DeleteUnconsumed(c) PROVE UnconsumedBound'
  <2> PICK e \in Emails : e = creq[c].email
    BY <1>a, <1>2 DEF DeleteUnconsumed, RequestOK
  <2>1. /\ creq[c].pc = "delete" /\ creq' = [creq EXCEPT ![c].pc = "insert"]
        /\ \A i \in PasscodeIds : passcode'[i] = IF i \in Unconsumed(e) THEN Deleted ELSE passcode[i]
    BY <1>2 DEF DeleteUnconsumed
  <2>2. /\ creq'[c].email = e
        /\ \A d \in Creators : d # c => creq'[d] = creq[d]
    BY <1>a, <2>1 DEF CreateRequest
  <2>3. ASSUME NEW f \in Emails, f # e
        PROVE  Unconsumed(f)' = Unconsumed(f) /\ Inserting(f)' = Inserting(f)
    <3>1. Unconsumed(f)' = Unconsumed(f)
      BY <2>1, <2>3 DEF Unconsumed, Deleted
    <3>2. Inserting(f)' = Inserting(f)
      BY <2>1, <2>2, <2>3 DEF Inserting
    <3> QED
      BY <3>1, <3>2
  <2>4. Unconsumed(e)' = {}
    BY <2>1 DEF Unconsumed, Deleted
  <2>5. Cardinality(Unconsumed(e)') + Cardinality(Inserting(e)') <= Cardinality(Creators)
    <3>1. Cardinality(Unconsumed(e)') = 0
      BY <2>4, FS_EmptySet
    <3> QED
      BY <3>1, UnconsumedFinite
  <2> QED
    BY <2>3, <2>5 DEF UnconsumedBound
<1>3. ASSUME NEW c \in Creators, InsertPasscode(c) PROVE UnconsumedBound'
  <2> PICK e \in Emails : e = creq[c].email
    BY <1>a, <1>3 DEF InsertPasscode, RequestOK
  <2> PICK i \in PasscodeIds \ inserted, code \in Codes :
        passcode' = [passcode EXCEPT ![i] =
          [exists |-> TRUE, email |-> e, code |-> code, consumed |-> FALSE,
           expired |-> FALSE, max_try_count |-> 0]]
    BY <1>3 DEF InsertPasscode
  <2>1. creq[c].pc = "insert" /\ creq' = [creq EXCEPT ![c] = IdleCreate]
    BY <1>3 DEF InsertPasscode
  <2>2. ~passcode[i].exists
    BY <1>a DEF DrawnFirst
  <2>3. /\ i \notin Unconsumed(e) /\ Unconsumed(e)' = Unconsumed(e) \cup {i}
        /\ \A f \in Emails : f # e => Unconsumed(f)' = Unconsumed(f)
    BY <1>a, <2>2 DEF Unconsumed
  <2>4. /\ c \in Inserting(e) /\ Inserting(e)' = Inserting(e) \ {c}
        /\ \A f \in Emails : f # e => Inserting(f)' = Inserting(f)
    BY <1>a, <2>1 DEF Inserting, IdleCreate
  <2>5. /\ Cardinality(Unconsumed(e)') = Cardinality(Unconsumed(e)) + 1
        /\ Cardinality(Inserting(e)') = Cardinality(Inserting(e)) - 1
    <3>1. Cardinality(Unconsumed(e) \cup {i}) = Cardinality(Unconsumed(e)) + 1
      BY <2>3, UnconsumedFinite, FS_AddElement
    <3>2. Cardinality(Inserting(e) \ {c}) = Cardinality(Inserting(e)) - 1
      BY <2>4, UnconsumedFinite, FS_RemoveElement
    <3> QED
      BY <2>3, <2>4, <3>1, <3>2
  <2>6. Cardinality(Unconsumed(e)') + Cardinality(Inserting(e)') <= Cardinality(Creators)
    BY <2>5, UnconsumedFinite DEF UnconsumedBound
  <2> QED
    BY <2>3, <2>4, <2>6 DEF UnconsumedBound
<1>4. ASSUME NEW c \in Creators, FailCreate(c) PROVE UnconsumedSmaller
  BY <1>a, <1>4 DEF FailCreate, UnconsumedSmaller, Unconsumed, Inserting, IdleCreate
<1>5. ASSUME NEW v \in Verifiers, NEW e \in Emails, NEW code \in Codes, NEW cur \in SessionIds,
             ReadPasscode(v, e, code, cur)
      PROVE  UnconsumedSmaller
  BY <1>a, <1>5 DEF ReadPasscode, UnconsumedSmaller, Unconsumed, Inserting
<1>6. ASSUME NEW v \in Verifiers, NEW e \in Emails, RejectPasscode(v, e) PROVE UnconsumedSmaller
  BY <1>a, <1>6 DEF RejectPasscode, vars, UnconsumedSmaller, Unconsumed, Inserting
<1>7. ASSUME NEW v \in Verifiers, CountMismatch(v) PROVE UnconsumedSmaller
  BY <1>a, <1>7, FinishFacts, CountMismatchFacts DEF CountMismatch, UnconsumedSmaller, Unconsumed, Inserting
<1>8. ASSUME NEW v \in Verifiers, Consume(v) PROVE UnconsumedSmaller
  BY <1>a, <1>8, ConsumeFacts DEF UnconsumedSmaller, Unconsumed, Inserting
<1>9. ASSUME NEW v \in Verifiers, ReadCurrent(v) PROVE UnconsumedSmaller
  BY <1>a, <1>9, GotoFacts, FinishFacts DEF ReadCurrent, VerifyPcs, UnconsumedSmaller, Unconsumed, Inserting
<1>10. ASSUME NEW v \in Verifiers, SetEmail(v) PROVE UnconsumedSmaller
  BY <1>a, <1>10, WroteFacts DEF UnconsumedSmaller, Unconsumed, Inserting
<1>11. ASSUME NEW v \in Verifiers, FindByEmail(v) PROVE UnconsumedSmaller
  BY <1>a, <1>11, GotoFacts, FinishFacts DEF FindByEmail, VerifyPcs, UnconsumedSmaller, Unconsumed, Inserting
<1>12. ASSUME NEW v \in Verifiers, CreateAccount(v) PROVE UnconsumedSmaller
  BY <1>a, <1>12, CreatedFacts, FinishFacts DEF CreateAccount, UnconsumedSmaller, Unconsumed, Inserting
<1>13. ASSUME NEW v \in Verifiers, CreateAuthUser(v) PROVE UnconsumedSmaller
  BY <1>a, <1>13, WroteFacts DEF UnconsumedSmaller, Unconsumed, Inserting
<1>14. ASSUME NEW v \in Verifiers, FailVerify(v) PROVE UnconsumedSmaller
  BY <1>a, <1>14, FinishFacts DEF FailVerify, UnconsumedSmaller, Unconsumed, Inserting
<1>15. ASSUME NEW i \in PasscodeIds, Expire(i) PROVE UnconsumedSmaller
  BY <1>a, <1>15, ExpireFacts DEF Expire, UnconsumedSmaller, Unconsumed, Inserting
<1>16. CASE UNCHANGED vars
  <2>1. passcode' = passcode /\ creq' = creq
    BY <1>16 DEF vars
  <2> QED
    BY <2>1 DEF UnconsumedBound, Unconsumed, Inserting
<1>17. ASSUME NEW m \in Mergers, Merge(m) PROVE UnconsumedSmaller
  BY <1>17, MergeFacts DEF UnconsumedSmaller, Unconsumed, Inserting
<1> QED
  BY <1>1, <1>2, <1>3, <1>4, <1>5, <1>6, <1>7, <1>8,
     <1>9, <1>10, <1>11, <1>12, <1>13, <1>14, <1>15, <1>16, <1>17, UnconsumedSmallerSuffices
     DEF Next, ContinueCreate, ContinueVerify

\* However createPasscode requests overlap, an e-mail has no more unconsumed
\* passcodes than requests that create one at the same time.
THEOREM UnconsumedBoundHolds == Spec => []UnconsumedBound
<1>1. Init => UnconsumedBound
  <2> SUFFICES ASSUME Init, NEW e \in Emails
               PROVE  Cardinality(Unconsumed(e)) + Cardinality(Inserting(e)) <= Cardinality(Creators)
    BY DEF UnconsumedBound
  <2>1. Unconsumed(e) = {} /\ Inserting(e) = {}
    BY DEF Init, Unconsumed, Inserting, IdleCreate, Deleted
  <2>2. Cardinality(Unconsumed(e)) = 0 /\ Cardinality(Inserting(e)) = 0
    BY <2>1, FS_EmptySet
  <2> QED
    BY <2>2, UnconsumedFinite
<1>2. IInv /\ UnconsumedBound /\ [Next]_vars => UnconsumedBound'
  BY UnconsumedBoundStep
<1> QED
  BY <1>1, <1>2, Inductive, PTL DEF Spec

-----------------------------------------------------------------------------
\* A login is answered for the account that holds the verified e-mail, the one
\* found by it, the one just created with it or the current one it was added to;
\* only the last may instead have been merged away while the request ran.
THEOREM LoginMatchesEmailHolds == Spec => LoginMatchesEmail
<1> DEFINE Right(v) ==
      LET a == vreq'[v].acc
      IN vreq[v].pc # "idle" /\ vreq'[v].pc = "idle" /\ a # None
           => \/ email'[a] = vreq[v].email
              \/ a \in merged \ vreq[v].before
<1>1. ASSUME IInv, Next, NEW v \in Verifiers PROVE Right(v)
  <2>a. /\ TypeOK /\ RequestOK /\ RowsOK /\ vreq \in [Verifiers -> VerifyRequest]
        /\ email \in [AccountIds -> Emails \cup {NoEmail, NoRow}]
    BY <1>1 DEF IInv, TypeOK
  <2>b. ASSUME NEW a, Answer(v, a) PROVE vreq'[v].acc = a
    BY <2>a, <2>b DEF Answer, IdleVerify
  <2>c. Error(v) => vreq'[v].acc = None
    BY <2>a DEF Error, IdleVerify
  <2>1. CASE vreq'[v] = vreq[v]
    BY <2>1
  <2>2. CASE SetEmail(v)
    <3>1. vreq[v].cur \in AccountIds /\ (HasRow(vreq[v].cur) \/ vreq[v].cur \in merged \ vreq[v].before)
      BY <2>a, <2>2 DEF RequestOK, SetEmail
    <3>2. Answer(v, vreq[v].cur) => vreq'[v].acc = vreq[v].cur
      BY <2>b
    <3> QED
      BY <2>2, <2>a, <2>c, <3>1, <3>2 DEF SetEmail
  <2>3. CASE FindByEmail(v)
    <3>1. CASE Goto(v, "create")
      BY <2>a, <3>1, GotoFacts DEF VerifyPcs
    <3>2. ASSUME NEW a \in AccountIds, email[a] = vreq[v].email, Answer(v, a) PROVE Right(v)
      <4>1. vreq'[v].acc = a
        BY <2>b, <3>2
      <4> QED
        BY <2>3, <3>2, <4>1 DEF FindByEmail, tables
    <3> QED
      BY <2>3, <3>1, <3>2 DEF FindByEmail
  <2>4. CASE CreateAuthUser(v)
    <3>1. vreq'[v].acc = vreq[v].acc
      BY <2>4, <2>b DEF CreateAuthUser
    <3> QED
      BY <2>4, <2>a, <3>1 DEF CreateAuthUser, RequestOK
  <2>5. CASE Error(v)
    BY <2>c, <2>5
  <2>6. CASE vreq[v].pc = "idle" \/ vreq'[v].pc # "idle"
    BY <2>6
  <2>7. \/ vreq'[v] = vreq[v] \/ vreq[v].pc = "idle" \/ vreq'[v].pc # "idle"
        \/ SetEmail(v) \/ FindByEmail(v) \/ CreateAuthUser(v) \/ Error(v)
    <3>1. ASSUME NEW w \in Verifiers, ContinueVerify(w) \/ FailVerify(w), w # v
          PROVE  vreq'[v] = vreq[v]
      <4>1. \/ Error(w) \/ \E a : Answer(w, a) \/ \E pc : Goto(w, pc)
            \/ \E a : vreq' = [vreq EXCEPT ![w].pc = "role", ![w].acc = a]
        BY <3>1 DEF ContinueVerify, FailVerify, CountMismatch, Consume, ReadCurrent, SetEmail,
                    FindByEmail, CreateAccount, CreateAuthUser
      <4> QED
        BY <2>a, <3>1, <4>1 DEF Error, Answer, Goto
    <3>2. ASSUME ContinueVerify(v) \/ FailVerify(v)
          PROVE  vreq'[v].pc # "idle" \/ SetEmail(v) \/ FindByEmail(v) \/ CreateAuthUser(v) \/ Error(v)
      <4>1. \A pc \in VerifyPcs : Goto(v, pc) => vreq'[v].pc = pc
        BY <2>a, GotoFacts
      <4>2. ASSUME NEW a \in AccountIds, vreq' = [vreq EXCEPT ![v].pc = "role", ![v].acc = a]
            PROVE  vreq'[v].pc # "idle"
        BY <2>a, <4>2, CreatedFacts
      <4>3. CreateAccount(v) => vreq'[v].pc # "idle" \/ Error(v)
        BY <4>2 DEF CreateAccount
      <4> QED
        BY <3>2, <4>1, <4>3 DEF ContinueVerify, FailVerify, CountMismatch, Consume, ReadCurrent, VerifyPcs
    <3>3. ASSUME NEW w \in Verifiers, NEW e \in Emails, NEW code \in Codes, NEW cur \in SessionIds,
                 ReadPasscode(w, e, code, cur)
          PROVE  vreq'[v] = vreq[v] \/ vreq[v].pc = "idle"
      BY <2>a, <3>3 DEF ReadPasscode
    <3>4. ASSUME \/ \E c \in Creators :
                      \/ \E e \in Emails, cur \in SessionIds : StartCreate(c, e, cur)
                      \/ ContinueCreate(c) \/ FailCreate(c)
                 \/ \E w \in Verifiers, e \in Emails : RejectPasscode(w, e)
                 \/ \E m \in Mergers : Merge(m)
                 \/ \E i \in PasscodeIds : Expire(i)
          PROVE  vreq' = vreq
      BY <3>4, MergeFacts DEF StartCreate, ContinueCreate, DeleteUnconsumed, InsertPasscode,
                              FailCreate, RejectPasscode, Expire, vars
    <3> QED
      BY <1>1, <3>1, <3>2, <3>3, <3>4 DEF Next
  <2> QED
    BY <2>1, <2>2, <2>3, <2>4, <2>5, <2>6, <2>7
<1>2. ASSUME IInv, [Next]_vars PROVE [\A v \in Verifiers : Right(v)]_vars
  BY <1>1, <1>2
<1>3. IInv /\ [Next]_vars => [\A v \in Verifiers : Right(v)]_vars
  BY <1>2
<1> QED
  BY <1>3, Inductive, PTL DEF Spec, LoginMatchesEmail

-----------------------------------------------------------------------------
(* Accounts without a role *)

RolesInv == IsFiniteSet(Roleless) /\ failures \in Nat /\ RolesLost

\* A step that leaves no account behind, or a lost request that leaves one.
LEMMA RolesKept ==
  ASSUME RolesInv, Roleless' \subseteq Roleless, failures' = failures
  PROVE  RolesInv'
<1>1. IsFiniteSet(Roleless') /\ Cardinality(Roleless') <= Cardinality(Roleless)
  BY FS_Subset DEF RolesInv
<1>2. Cardinality(Roleless) \in Nat /\ Cardinality(Roleless') \in Nat
  BY <1>1, FS_CardinalityType DEF RolesInv
<1> QED
  BY <1>1, <1>2 DEF RolesInv, RolesLost

LEMMA RoleForgotten ==
  ASSUME RolesInv, NEW a, Roleless' \subseteq Roleless \cup {a}, failures' = failures + 1
  PROVE  RolesInv'
<1>1. /\ IsFiniteSet(Roleless \cup {a})
      /\ Cardinality(Roleless \cup {a}) <= Cardinality(Roleless) + 1
  <2>1. Cardinality(Roleless) \in Nat
    BY FS_CardinalityType DEF RolesInv
  <2>2. /\ IsFiniteSet(Roleless \cup {a})
        /\ Cardinality(Roleless \cup {a}) = IF a \in Roleless THEN Cardinality(Roleless)
                                                              ELSE Cardinality(Roleless) + 1
    BY FS_AddElement DEF RolesInv
  <2> QED
    BY <2>1, <2>2
<1>2. IsFiniteSet(Roleless') /\ Cardinality(Roleless') <= Cardinality(Roleless \cup {a})
  BY <1>1, FS_Subset
<1>3. Cardinality(Roleless) \in Nat /\ Cardinality(Roleless') \in Nat /\ Cardinality(Roleless \cup {a}) \in Nat
  BY <1>1, <1>2, FS_CardinalityType DEF RolesInv
<1> QED
  BY <1>1, <1>2, <1>3 DEF RolesInv, RolesLost

\* A request that is not at its role owes none to anybody.
LEMMA RolesFrame ==
  ASSUME role \subseteq role', NEW v \in Verifiers, vreq[v].pc # "role",
         \A a \in AccountIds : HasRow(a)' => HasRow(a) \/ a \in role',
         \A w \in Verifiers : w # v => vreq'[w] = vreq[w]
  PROVE  Roleless' \subseteq Roleless
BY DEF Roleless

LEMMA RolesStep ==
  ASSUME IInv, RolesInv, [Next]_vars
  PROVE  RolesInv'
<1> USE DEF tables
<1>a. /\ TypeOK /\ RequestOK
      /\ email \in [AccountIds -> Emails \cup {NoEmail, NoRow}]
  BY DEF IInv, TypeOK
<1>1. ASSUME NEW c \in Creators, \/ \E e \in Emails, cur \in SessionIds : StartCreate(c, e, cur)
                                 \/ DeleteUnconsumed(c) \/ InsertPasscode(c)
      PROVE  Roleless' \subseteq Roleless /\ failures' = failures
  BY <1>1 DEF StartCreate, DeleteUnconsumed, InsertPasscode, Roleless, HasRow
<1>2. ASSUME NEW c \in Creators, FailCreate(c) PROVE RolesInv'
  <2>1. Roleless' \subseteq Roleless \cup {None} /\ failures' = failures + 1
    BY <1>2 DEF FailCreate, Roleless, HasRow
  <2> QED
    BY <2>1, RoleForgotten
<1>3. ASSUME NEW v \in Verifiers,
             \/ \E e \in Emails, code \in Codes, cur \in SessionIds : ReadPasscode(v, e, code, cur)
             \/ \E e \in Emails : RejectPasscode(v, e)
             \/ CountMismatch(v)
      PROVE  Roleless' \subseteq Roleless /\ failures' = failures
  <2>1. /\ vreq[v].pc # "role" /\ role' = role /\ email' = email /\ failures' = failures
        /\ \A w \in Verifiers : w # v => vreq'[w] = vreq[w]
    BY <1>a, <1>3, FinishFacts DEF ReadPasscode, RejectPasscode, CountMismatch, vars, TypeOK
  <2> QED
    BY <2>1, RolesFrame DEF HasRow
<1>4. ASSUME NEW v \in Verifiers, Consume(v) \/ ReadCurrent(v) \/ FindByEmail(v)
      PROVE  Roleless' \subseteq Roleless /\ failures' = failures
  <2>1. vreq[v].pc # "role" /\ role' = role /\ email' = email /\ failures' = failures
    BY <1>4 DEF Consume, ReadCurrent, FindByEmail
  <2>2. \A w \in Verifiers : w # v => vreq'[w] = vreq[w]
    BY <1>a, <1>4, GotoFacts, FinishFacts
       DEF Consume, ReadCurrent, FindByEmail, VerifyPcs
  <2> QED
    BY <2>1, <2>2, RolesFrame DEF HasRow
<1>5. ASSUME NEW v \in Verifiers, SetEmail(v)
      PROVE  Roleless' \subseteq Roleless /\ failures' = failures
  <2>1. /\ vreq[v].pc # "role" /\ role' = role /\ failures' = failures
        /\ \A w \in Verifiers : w # v => vreq'[w] = vreq[w]
    BY <1>a, <1>5, WroteFacts DEF SetEmail
  <2>2. \A a \in AccountIds : HasRow(a)' => HasRow(a)
    BY <1>a, <1>5 DEF SetEmail, HasRow, RequestOK
  <2> QED
    BY <2>1, <2>2, RolesFrame
<1>6. ASSUME NEW v \in Verifiers, CreateAccount(v)
      PROVE  Roleless' \subseteq Roleless /\ failures' = failures
  <2>1. vreq[v].pc # "role" /\ role' = role /\ failures' = failures
    BY <1>6 DEF CreateAccount
  <2>2. CASE \E b \in AccountIds : email[b] = vreq[v].email
    <3>1. email' = email /\ Error(v)
      BY <1>6, <2>2 DEF CreateAccount, Error
    <3> QED
      BY <1>a, <2>1, <3>1, FinishFacts, RolesFrame DEF HasRow
  \* the new row is the request's own until it has its role
  <2>3. ASSUME NEW a \in AccountIds \ merged, email' = [email EXCEPT ![a] = vreq[v].email],
               vreq' = [vreq EXCEPT ![v].pc = "role", ![v].acc = a]
        PROVE  Roleless' \subseteq Roleless
    <3>1. /\ vreq'[v].pc = "role" /\ vreq'[v].acc = a
          /\ \A w \in Verifiers : w # v => vreq'[w] = vreq[w]
      BY <1>a, <2>3, CreatedFacts
    <3>2. \A b \in AccountIds : b # a => HasRow(b)' = HasRow(b)
      BY <1>a, <2>3 DEF HasRow
    <3> QED
      BY <2>1, <3>1, <3>2 DEF Roleless
  <2> QED
    BY <1>6, <2>1, <2>2, <2>3 DEF CreateAccount
<1>7. ASSUME NEW v \in Verifiers, CreateAuthUser(v)
      PROVE  Roleless' \subseteq Roleless /\ failures' = failures
  <2>1. /\ role' = role \cup {vreq[v].acc} /\ email' = email /\ failures' = failures
        /\ \A w \in Verifiers : w # v => vreq'[w] = vreq[w]
    BY <1>a, <1>7, WroteFacts DEF CreateAuthUser
  <2> QED
    BY <2>1 DEF Roleless, HasRow
<1>8. ASSUME NEW v \in Verifiers, FailVerify(v) PROVE RolesInv'
  <2>1. /\ role' = role /\ email' = email /\ failures' = failures + 1
        /\ \A w \in Verifiers : w # v => vreq'[w] = vreq[w]
    BY <1>a, <1>8, FinishFacts DEF FailVerify
  <2>2. Roleless' \subseteq Roleless \cup {vreq[v].acc}
    BY <2>1 DEF Roleless, HasRow
  <2> QED
    BY <2>1, <2>2, RoleForgotten
<1>9. CASE (\E i \in PasscodeIds : Expire(i)) \/ UNCHANGED vars
  <2>1. role' = role /\ email' = email /\ failures' = failures /\ vreq' = vreq
    BY <1>9 DEF Expire, vars
  <2>2. Roleless' = Roleless
    BY <2>1 DEF Roleless, HasRow
  <2> QED
    BY <2>1, <2>2, RolesKept
<1>10. ASSUME NEW m \in Mergers, Merge(m)
       PROVE  Roleless' \subseteq Roleless /\ failures' = failures
  <2>1. vreq' = vreq /\ failures' = failures
    BY <1>10, MergeFacts
  <2>2. CASE UNCHANGED tables
    BY <2>1, <2>2 DEF Roleless, HasRow
  <2>3. CASE MergeCommit(m)
    <3>1. \A a \in AccountIds : HasRow(a)' => HasRow(a) /\ a # mreq[m].from
      BY <1>a, <2>3 DEF MergeCommit, HasRow, RequestOK
    <3>2. role' = role \ {mreq[m].from}
      BY <2>3 DEF MergeCommit
    <3> QED
      BY <2>1, <3>1, <3>2 DEF Roleless
  <2> QED
    BY <1>10, <2>2, <2>3, <2>1 DEF Merge, MergeCheck, MergeRollback
<1> QED
  BY <1>1, <1>2, <1>3, <1>4, <1>5, <1>6, <1>7, <1>8, <1>9, <1>10, RolesKept
     DEF Next, ContinueCreate, ContinueVerify

\* Accounts without a role are no more than the requests that were lost,
\* however many run at a time: with none lost, who has no role yet is about to
\* get one.
THEOREM RolesLostHolds == Spec => []RolesLost
<1>1. Init => RolesInv
  <2> SUFFICES ASSUME Init PROVE RolesInv
    OBVIOUS
  <2>1. Roleless = {}
    BY DEF Init, Roleless, HasRow
  <2> QED
    BY <2>1, FS_EmptySet DEF RolesInv, RolesLost, Init
<1>2. IInv /\ RolesInv /\ [Next]_vars => RolesInv'
  BY RolesStep
<1> QED
  BY <1>1, <1>2, Inductive, PTL DEF Spec, RolesInv

-----------------------------------------------------------------------------
(* Requests of a kind one at a time, as in the tests *)

\* A passcode then logs in once, and stands no more than MaxTryCount tries.
THEOREM OneVerifier ==
  ASSUME Cardinality(Verifiers) = 1
  PROVE  Spec => [](\A i \in PasscodeIds : used[i] <= 1 /\ passcode[i].max_try_count <= MaxTryCount)
<1>1. ASSUME TypeOK, UseBound, TryBound, NEW i \in PasscodeIds
      PROVE  used[i] <= 1 /\ passcode[i].max_try_count <= MaxTryCount
  <2>1. /\ Cardinality(At("consume", i)) \in Nat /\ Cardinality(At("mismatch", i)) \in Nat
        /\ used[i] \in Nat /\ passcode[i].max_try_count \in Nat
    BY <1>1, AtFinite, FS_CardinalityType DEF TypeOK, PasscodeRow
  <2> QED
    BY <1>1, <2>1 DEF UseBound, TryBound
<1>2. TypeOK /\ UseBound /\ TryBound =>
        \A i \in PasscodeIds : used[i] <= 1 /\ passcode[i].max_try_count <= MaxTryCount
  BY <1>1
<1> QED
  BY <1>2, TypeCorrect, UseBoundHolds, TryBoundHolds, PTL

\* And an e-mail never has more than one passcode that can still be used.
THEOREM OneCreator ==
  ASSUME Cardinality(Creators) = 1
  PROVE  Spec => [](\A e \in Emails : Cardinality(Unconsumed(e)) <= 1)
<1>1. ASSUME UnconsumedBound, NEW e \in Emails PROVE Cardinality(Unconsumed(e)) <= 1
  BY <1>1, UnconsumedFinite DEF UnconsumedBound
<1>2. UnconsumedBound => \A e \in Emails : Cardinality(Unconsumed(e)) <= 1
  BY <1>1
<1> QED
  BY <1>2, UnconsumedBoundHolds, PTL
=============================================================================
