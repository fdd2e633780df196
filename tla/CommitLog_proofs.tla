-------------------------- MODULE CommitLog_proofs --------------------------
(***************************************************************************)
(* Proofs about the commit pipeline, for every set of documents, users,    *)
(* requests, processes and batches.                                        *)
(***************************************************************************)
EXTENDS CommitLog, FiniteSetTheorems, TLAPS

(***************************************************************************)
(* What the assumptions say of the batch of a request.                     *)
(***************************************************************************)
LEMMA BatchType ==
    ASSUME TypeOK, NEW r \in Requests
    PROVE  /\ push[r].user \in Users
           /\ push[r].doc \in Docs
           /\ push[r].ops \in Seq(OpIds)
           /\ Len(push[r].ops) \in Nat
  <1>1. push[r] \in Pushes
    BY DEF TypeOK
  <1>2. push[r] \in [via : {"http", "ws"}, user : Users, doc : Docs, ops : Seq(OpIds)]
    BY <1>1, PushesAssumption
  <1>3. push[r].user \in Users /\ push[r].doc \in Docs /\ push[r].ops \in Seq(OpIds)
    BY <1>2
  <1>4. QED
    BY <1>3

LEMMA NextRowType ==
    ASSUME TypeOK, NEW r \in Requests, at[r] < Len(push[r].ops)
    PROVE  NextRow(r) \in Row
  <1>1. at[r] \in Nat /\ nextSeq[r] \in Nat
    BY DEF TypeOK
  <1>2. at[r] + 1 \in 1..Len(push[r].ops)
    BY <1>1, BatchType
  <1>3. NextId(r) \in OpIds
    BY <1>2, BatchType DEF NextId
  <1>4. nextSeq[r] + 1 \in Nat \ {0}
    BY <1>1
  <1>5. QED
    BY <1>3, <1>4, BatchType DEF NextRow, Row, DocOf

(***************************************************************************)
(* A push that is answered or rolled back keeps every type.                *)
(***************************************************************************)
LEMMA AnswerType ==
    ASSUME TypeOK, NEW r \in Requests, NEW s \in Statuses, Answer(r, s)
    PROVE  TypeOK'
  <1>1. Freed(r) \in [Docs -> Requests \cup {Nobody}]
    BY DEF TypeOK, Freed
  <1>2. QED
    BY <1>1 DEF TypeOK, Answer, dbVars, Phases

LEMMA StepType ==
    ASSUME TypeOK, NEW r \in Requests, Step(r)
    PROVE  TypeOK'
  <1> USE DEF dbVars, batchVars, Goto, Phases
  <1>0. {"NOT_FOUND", "FORBIDDEN", "RATE_LIMITED", "INTERNAL", "OK"} \subseteq Statuses
    BY DEF Statuses
  <1>1. CASE Authorize(r)
    <2>1. CASE Answer(r, "NOT_FOUND") \/ Answer(r, "FORBIDDEN")
      BY <2>1, <1>0, AnswerType
    <2>2. CASE /\ Goto(r, "consume")
               /\ UNCHANGED <<dbVars, lock, push, batchVars, relayed, status>>
      BY <2>2 DEF TypeOK
    <2>3. QED
      BY <1>1, <2>1, <2>2 DEF Authorize
  <1>2. CASE Consume(r)
    <2>1. CASE Answer(r, "RATE_LIMITED")
      BY <2>1, <1>0, AnswerType
    <2>2. CASE /\ Goto(r, "begin")
               /\ UNCHANGED <<dbVars, lock, push, batchVars, relayed, status>>
      BY <2>2 DEF TypeOK
    <2>3. QED
      BY <1>2, <2>1, <2>2 DEF Consume
  <1>3. CASE Begin(r)
    BY <1>3 DEF Begin, TypeOK
  <1>4. CASE AcquireLock(r)
    BY <1>4 DEF AcquireLock, TypeOK
  <1>5. CASE ReadDocument(r)
    <2>1. CASE Answer(r, "NOT_FOUND")
      BY <2>1, <1>0, AnswerType
    <2>2. CASE /\ nextSeq' = [nextSeq EXCEPT ![r] = serverSeq[DocOf(r)]]
               /\ Goto(r, "dedupe")
               /\ UNCHANGED <<dbVars, lock, push, known, at, rows, relayed, status>>
      <3>1. serverSeq[DocOf(r)] \in Nat
        BY BatchType DEF TypeOK, DocOf
      <3>2. QED
        BY <2>2, <3>1 DEF TypeOK
    <2>3. QED
      BY <1>5, <2>1, <2>2 DEF ReadDocument
  <1>6. CASE ReadCommitted(r)
    <2>1. {x \in operations : x.operationId \in BatchIds(r)} \in SUBSET Row
      BY DEF TypeOK
    <2>2. QED
      BY <1>6, <2>1 DEF ReadCommitted, TypeOK
  <1>7. CASE SkipKnown(r)
    BY <1>7, BatchType DEF SkipKnown, TypeOK
  <1>8. CASE InsertRow(r)
    <2>1. NextRow(r) \in Row
      BY <1>8, NextRowType DEF InsertRow, AtFresh
    <2>2. at[r] < Len(push[r].ops)
      BY <1>8 DEF InsertRow, AtFresh
    <2>3. QED
      BY <1>8, <2>1, <2>2, BatchType DEF InsertRow, TypeOK
  <1>9. CASE UniqueViolation(r)
    BY <1>9, <1>0, AnswerType DEF UniqueViolation
  <1>10. CASE UpdateDocument(r)
    BY <1>10 DEF UpdateDocument, TypeOK
  <1>11. CASE Commit(r)
    <2>1. Freed(r) \in [Docs -> Requests \cup {Nobody}]
      BY DEF TypeOK, Freed
    <2>2. operations \cup rows[r] \subseteq Row
      BY DEF TypeOK
    <2>3. serverSeq' \in [Docs -> Nat]
      BY <1>11 DEF Commit, TypeOK
    <2>4. QED
      BY <1>11, <2>1, <2>2, <2>3 DEF Commit, TypeOK
  <1>12. CASE Relay(r)
    BY <1>12, <1>0 DEF Relay, TypeOK
  <1>13. CASE TouchSession(r)
    <2>1. lastPushedSeq' \in [Docs -> [Users -> Nat]]
      <3> DEFINE d == DocOf(r)
                 u == push[r].user
                 new == Greatest(lastPushedSeq[d][u], nextSeq[r])
      <3>1. d \in Docs /\ u \in Users
        BY BatchType DEF DocOf
      <3>2. new \in Nat
        BY <3>1 DEF TypeOK, Greatest
      <3>3. [lastPushedSeq[d] EXCEPT ![u] = new] \in [Users -> Nat]
        BY <3>1, <3>2 DEF TypeOK
      <3>4. \/ lastPushedSeq' = [lastPushedSeq EXCEPT ![d] = [lastPushedSeq[d] EXCEPT ![u] = new]]
            \/ lastPushedSeq' = lastPushedSeq
        BY <1>13, <3>1 DEF TouchSession, TypeOK
      <3>5. QED
        BY <3>1, <3>3, <3>4 DEF TypeOK
    <2>2. QED
      BY <1>13, <2>1 DEF TouchSession, TypeOK
  <1>14. QED
    BY <1>1, <1>2, <1>3, <1>4, <1>5, <1>6, <1>7, <1>8, <1>9, <1>10, <1>11, <1>12, <1>13
       DEF Step

(***************************************************************************)
(* TypeOK: the state of the pipeline is always well typed, and the loop    *)
(* that maps a batch to rows never runs past the batch's end.              *)
(***************************************************************************)
THEOREM TypeCorrect == Spec => []TypeOK
  <1>1. Init => TypeOK
    <2> SUFFICES ASSUME Init PROVE TypeOK
      OBVIOUS
    <2>1. \A r \in Requests : Len(push[r].ops) \in Nat
      <3> TAKE r \in Requests
      <3>1. push[r] \in [via : {"http", "ws"}, user : Users, doc : Docs, ops : Seq(OpIds)]
        BY PushesAssumption DEF Init
      <3>2. QED
        BY <3>1
    <2>2. QED
      BY <2>1 DEF Init, TypeOK, Phases, Statuses
  <1>2. TypeOK /\ [Next]_vars => TypeOK'
    <2> SUFFICES ASSUME TypeOK, [Next]_vars PROVE TypeOK'
      OBVIOUS
    <2>0. "VALIDATION_FAILED" \in Statuses /\ "INTERNAL" \in Statuses
      BY DEF Statuses
    <2>1. ASSUME NEW r \in Requests, Submit(r) PROVE TypeOK'
      <3>1. CASE Answer(r, "VALIDATION_FAILED")
        BY <3>1, <2>0, AnswerType
      <3>2. CASE /\ Goto(r, "authorize")
                 /\ UNCHANGED <<dbVars, lock, push, batchVars, relayed, status>>
        BY <3>2 DEF TypeOK, dbVars, batchVars, Goto, Phases
      <3>3. QED
        BY <2>1, <3>1, <3>2 DEF Submit
    <2>2. ASSUME NEW r \in Requests, Step(r) PROVE TypeOK'
      BY <2>2, StepType
    <2>3. ASSUME NEW r \in Requests, TransactionFails(r) \/ CommitUnconfirmed(r)
          PROVE TypeOK'
      BY <2>3, <2>0, AnswerType DEF TransactionFails, CommitUnconfirmed
    <2>4. ASSUME NEW i \in Instances, Crash(i) PROVE TypeOK'
      <3>1. status' \in [Requests -> Statuses] /\ pc' \in [Requests -> Phases]
        BY <2>4 DEF Crash, TypeOK, Phases, Statuses
      <3>2. rows' \in [Requests -> SUBSET Row] /\ lock' \in [Docs -> Requests \cup {Nobody}]
        BY <2>4 DEF Crash, TypeOK
      <3>3. QED
        BY <2>4, <3>1, <3>2 DEF Crash, TypeOK, dbVars
    <2>5. ASSUME NEW u \in Users, NEW d \in Docs, SoftDelete(u, d) \/ Restore(u, d)
          PROVE TypeOK'
      BY <2>5 DEF SoftDelete, Restore, TypeOK, batchVars
    <2>6. CASE UNCHANGED vars
      BY <2>6 DEF vars, dbVars, batchVars, TypeOK
    <2>7. QED
      BY <2>1, <2>2, <2>3, <2>4, <2>5, <2>6 DEF Next
  <1>3. QED
    BY <1>1, <1>2, PTL DEF Spec

------------------------------------------------------------------------------
(***************************************************************************)
(* The gapless log.  LogWellFormed is not inductive: that a commit keeps   *)
(* it depends on the rows the transaction holds and on nobody having moved *)
(* the counter since it was read.                                          *)
(***************************************************************************)
BeforeInsert == {"new", "authorize", "consume", "begin", "lock", "read", "dedupe"}

CounterRead == {"dedupe", "insert", "commit"}

\* The rows of an open transaction continue the document's log: they are of
\* its document, fill the slots from the committed counter to the local one,
\* and fill each once.
RowsContinueLog ==
    \A r \in Requests :
        /\ pc[r] \in BeforeInsert => rows[r] = {}
        /\ pc[r] \in CounterRead =>
              /\ serverSeq[DocOf(r)] <= nextSeq[r]
              /\ \A x \in rows[r] :
                    /\ x.documentId = DocOf(r)
                    /\ serverSeq[DocOf(r)] < x.serverSeq
                    /\ x.serverSeq <= nextSeq[r]
              /\ \A n \in (serverSeq[DocOf(r)] + 1)..nextSeq[r] :
                    \E x \in rows[r] : x.serverSeq = n
              /\ \A x, y \in rows[r] : SameKey(x, y) => x = y

\* No key of an uncommitted row is committed, or uncommitted twice.
UncommittedKeysFree ==
    \A r \in Requests : InTransaction(r) =>
        \A y \in rows[r] :
            /\ \A x \in operations : ~SameKey(x, y)
            /\ \A s \in Others(r) : \A x \in rows[s] : ~SameKey(x, y)

IInv ==
    /\ TypeOK
    /\ LogWellFormed
    /\ LockHeldByOpenTransaction
    /\ RowsContinueLog
    /\ UncommittedKeysFree

(***************************************************************************)
(* A step of one push that touches neither the log, nor a lock, nor its    *)
(* rows, and leaves it on the same side of each phase boundary.            *)
(***************************************************************************)
LEMMA QuietStep ==
    ASSUME IInv, TypeOK', NEW r \in Requests, NEW q,
           pc' = [pc EXCEPT ![r] = q],
           UNCHANGED <<operations, serverSeq, lock, push, rows, nextSeq>>,
           HoldsLock(r)' <=> HoldsLock(r),
           q \in CounterRead => pc[r] \in CounterRead,
           q \in BeforeInsert => pc[r] \in BeforeInsert,
           InTransaction(r)' => InTransaction(r) \/ rows[r] = {}
    PROVE  IInv'
  <1>1. LogWellFormed'
    BY DEF IInv, LogWellFormed, SlotsInRange, NoHole, OneRowPerKey, SameKey
  <1>2. \A s \in Requests : s # r => pc'[s] = pc[s]
    BY DEF IInv, TypeOK
  <1>3. pc'[r] = q
    BY DEF IInv, TypeOK
  <1>4. LockHeldByOpenTransaction'
    BY <1>2, <1>3 DEF IInv, TypeOK, LockHeldByOpenTransaction, HoldsLock, DocOf
  <1>5. RowsContinueLog'
    BY <1>2, <1>3 DEF IInv, RowsContinueLog, DocOf, SameKey
  <1>6. UncommittedKeysFree'
    BY <1>2, <1>3 DEF IInv, UncommittedKeysFree, InTransaction, Others, SameKey
  <1>7. QED
    BY <1>1, <1>4, <1>5, <1>6 DEF IInv

(***************************************************************************)
(* Pushes that end, answered or cut: their uncommitted rows vanish and     *)
(* their locks are free.                                                   *)
(***************************************************************************)
LEMMA EndStep ==
    ASSUME IInv, TypeOK', NEW hit \in SUBSET Requests,
           \A s \in hit : pc'[s] = "done",
           \A s \in Requests \ hit : pc'[s] = pc[s] /\ rows'[s] = rows[s],
           lock' = [d \in Docs |-> IF lock[d] \in hit THEN Nobody ELSE lock[d]],
           UNCHANGED <<operations, serverSeq, push, nextSeq>>
    PROVE  IInv'
  <1>1. LogWellFormed'
    BY DEF IInv, LogWellFormed, SlotsInRange, NoHole, OneRowPerKey, SameKey
  <1>2. LockHeldByOpenTransaction'
    BY RequestsAssumption, BatchType
       DEF IInv, TypeOK, LockHeldByOpenTransaction, HoldsLock, DocOf
  <1>3. RowsContinueLog'
    BY DEF IInv, RowsContinueLog, DocOf, SameKey, BeforeInsert, CounterRead
  <1>4. UncommittedKeysFree'
    BY DEF IInv, UncommittedKeysFree, InTransaction, Others, SameKey
  <1>5. QED
    BY <1>1, <1>2, <1>3, <1>4 DEF IInv

LEMMA AnswerStep ==
    ASSUME IInv, TypeOK', NEW r \in Requests, NEW s, Answer(r, s)
    PROVE  IInv'
  <1>1. lock' = [d \in Docs |-> IF lock[d] \in {r} THEN Nobody ELSE lock[d]]
    BY DEF Answer, Freed
  <1>2. pc'[r] = "done"
    BY DEF Answer, IInv, TypeOK
  <1>3. \A t \in Requests \ {r} : pc'[t] = pc[t] /\ rows'[t] = rows[t]
    BY DEF Answer, IInv, TypeOK
  <1>4. UNCHANGED <<operations, serverSeq, push, nextSeq>>
    BY DEF Answer, dbVars
  <1>5. {r} \in SUBSET Requests /\ \A t \in {r} : pc'[t] = "done"
    BY <1>2
  <1>6. QED
    BY <1>1, <1>3, <1>4, <1>5, EndStep, Zenon

(***************************************************************************)
(* The steps inside the transaction.                                       *)
(***************************************************************************)
LEMMA AcquireLockStep ==
    ASSUME IInv, TypeOK', NEW r \in Requests, AcquireLock(r)
    PROVE  IInv'
  <1>1. /\ UNCHANGED <<operations, serverSeq, push, rows, nextSeq>>
        /\ pc[r] = "lock" /\ pc'[r] = "read"
        /\ \A s \in Requests : s # r => pc'[s] = pc[s]
        /\ lock[DocOf(r)] = Nobody
        /\ lock' = [lock EXCEPT ![DocOf(r)] = r]
    BY DEF AcquireLock, Goto, dbVars, batchVars, IInv, TypeOK
  <1>2. LogWellFormed'
    BY <1>1 DEF IInv, LogWellFormed, SlotsInRange, NoHole, OneRowPerKey, SameKey
  <1>3. LockHeldByOpenTransaction'
    <2>1. /\ \A s \in Requests : DocOf(s)' = DocOf(s)
          /\ \A s \in Requests : s # r => (HoldsLock(s)' <=> HoldsLock(s))
          /\ HoldsLock(r)' /\ ~HoldsLock(r)
      BY <1>1 DEF HoldsLock, DocOf
    <2>2. \A e \in Docs : lock'[e] = IF e = DocOf(r) THEN r ELSE lock[e]
      BY <1>1 DEF IInv, TypeOK
    <2>3. \A s \in Requests : DocOf(s) \in Docs
      BY BatchType DEF IInv, DocOf
    <2>4. \A s \in Requests : HoldsLock(s) => lock[DocOf(s)] = s
      BY DEF IInv, LockHeldByOpenTransaction
    <2>5. \A e \in Docs : lock[e] # Nobody =>
              lock[e] \in Requests /\ HoldsLock(lock[e]) /\ DocOf(lock[e]) = e
      BY DEF IInv, TypeOK, LockHeldByOpenTransaction
    <2>6. \A s \in Requests : HoldsLock(s)' => lock'[DocOf(s)'] = s
      BY <2>1, <2>2, <2>3, <2>4, <1>1, RequestsAssumption
    <2>7. \A e \in Docs : lock'[e] # Nobody =>
              pc'[lock'[e]] \in {"read", "dedupe", "insert", "commit"} /\ push'[lock'[e]].doc = e
      BY <1>1, <2>1, <2>2, <2>5 DEF HoldsLock, DocOf
    <2>8. QED
      BY <2>6, <2>7 DEF LockHeldByOpenTransaction, HoldsLock, DocOf
  <1>4. RowsContinueLog'
    BY <1>1 DEF IInv, RowsContinueLog, DocOf, SameKey, BeforeInsert, CounterRead
  <1>5. UncommittedKeysFree'
    BY <1>1 DEF IInv, UncommittedKeysFree, InTransaction, Others, SameKey
  <1>6. QED
    BY <1>2, <1>3, <1>4, <1>5 DEF IInv

LEMMA ReadDocumentStep ==
    ASSUME IInv, TypeOK', NEW r \in Requests, ReadDocument(r)
    PROVE  IInv'
  <1>1. CASE Answer(r, "NOT_FOUND")
    BY <1>1, AnswerStep
  <1>2. CASE /\ nextSeq' = [nextSeq EXCEPT ![r] = serverSeq[DocOf(r)]]
             /\ Goto(r, "dedupe")
             /\ UNCHANGED <<dbVars, lock, push, known, at, rows, relayed, status>>
    <2>1. /\ UNCHANGED <<operations, serverSeq, lock, push, rows>>
          /\ pc[r] = "read" /\ pc'[r] = "dedupe"
          /\ \A s \in Requests : s # r => pc'[s] = pc[s] /\ nextSeq'[s] = nextSeq[s]
          /\ nextSeq'[r] = serverSeq[DocOf(r)]
      BY <1>2 DEF ReadDocument, Goto, dbVars, IInv, TypeOK
    <2>2. LogWellFormed'
      BY <2>1 DEF IInv, LogWellFormed, SlotsInRange, NoHole, OneRowPerKey, SameKey
    <2>3. LockHeldByOpenTransaction'
      <3>1. \A s \in Requests : HoldsLock(s)' <=> HoldsLock(s)
        BY <2>1 DEF HoldsLock
      <3>2. \A e \in Docs : lock[e] # Nobody => lock[e] \in Requests
        BY DEF IInv, TypeOK
      <3>3. QED
        BY <2>1, <3>1, <3>2 DEF IInv, LockHeldByOpenTransaction, HoldsLock, DocOf
    <2>4. RowsContinueLog'
      <3>1. rows[r] = {} /\ serverSeq[DocOf(r)] \in Nat
        BY <2>1, BatchType DEF IInv, RowsContinueLog, BeforeInsert, TypeOK, DocOf
      <3>2. QED
        BY <2>1, <3>1 DEF IInv, RowsContinueLog, DocOf, SameKey, BeforeInsert, CounterRead
    <2>5. UncommittedKeysFree'
      BY <2>1 DEF IInv, UncommittedKeysFree, InTransaction, Others, SameKey
    <2>6. QED
      BY <2>2, <2>3, <2>4, <2>5 DEF IInv
  <1>3. QED
    BY <1>1, <1>2 DEF ReadDocument

\* The new row takes the next slot and a key that no row has.
LEMMA InsertRowStep ==
    ASSUME IInv, TypeOK', NEW r \in Requests, InsertRow(r)
    PROVE  IInv'
  <1> DEFINE new == NextRow(r)
  <1>1. /\ UNCHANGED <<operations, serverSeq, lock, push, pc>>
        /\ pc[r] = "insert"
        /\ \A s \in Requests : s # r => rows'[s] = rows[s] /\ nextSeq'[s] = nextSeq[s]
        /\ rows'[r] = rows[r] \cup {new}
        /\ nextSeq'[r] = nextSeq[r] + 1
    BY DEF InsertRow, AtFresh, dbVars, IInv, TypeOK
  <1>2. /\ new.documentId = DocOf(r)
        /\ new.serverSeq = nextSeq[r] + 1
    BY DEF NextRow
  <1>3. /\ \A x \in operations \cup rows[r] : ~SameKey(x, new)
        /\ \A s \in Others(r) : \A x \in rows[s] : ~SameKey(x, new)
    BY DEF InsertRow, Duplicate, Blocked
  <1>4. LogWellFormed'
    BY <1>1 DEF IInv, LogWellFormed, SlotsInRange, NoHole, OneRowPerKey, SameKey
  <1>5. LockHeldByOpenTransaction'
    BY <1>1 DEF IInv, TypeOK, LockHeldByOpenTransaction, HoldsLock, DocOf
  <1> HIDE DEF new
  <1>6. RowsContinueLog'
    <2> SUFFICES ASSUME NEW s \in Requests
                 PROVE  /\ pc[s] \in BeforeInsert => rows'[s] = {}
                        /\ pc[s] \in CounterRead =>
                             /\ serverSeq[DocOf(s)] <= nextSeq'[s]
                             /\ \A x \in rows'[s] :
                                   /\ x.documentId = DocOf(s)
                                   /\ serverSeq[DocOf(s)] < x.serverSeq
                                   /\ x.serverSeq <= nextSeq'[s]
                             /\ \A n \in (serverSeq[DocOf(s)] + 1)..nextSeq'[s] :
                                   \E x \in rows'[s] : x.serverSeq = n
                             /\ \A x, y \in rows'[s] : SameKey(x, y) => x = y
      BY <1>1 DEF RowsContinueLog, DocOf, SameKey
    <2>1. CASE s # r
      BY <2>1, <1>1 DEF IInv, RowsContinueLog
    <2>2. CASE s = r
      <3>1. /\ serverSeq[DocOf(r)] \in Nat /\ nextSeq[r] \in Nat
            /\ \A x \in rows[r] : x.serverSeq \in Nat
        <4>1. DocOf(r) \in Docs
          BY BatchType DEF IInv, DocOf
        <4>2. rows[r] \subseteq Row
          BY DEF IInv, TypeOK
        <4>3. QED
          BY <4>1, <4>2 DEF IInv, TypeOK, Row
      <3>2. /\ serverSeq[DocOf(r)] <= nextSeq[r]
            /\ \A x \in rows[r] :
                  /\ x.documentId = DocOf(r)
                  /\ serverSeq[DocOf(r)] < x.serverSeq
                  /\ x.serverSeq <= nextSeq[r]
            /\ \A n \in (serverSeq[DocOf(r)] + 1)..nextSeq[r] :
                  \E x \in rows[r] : x.serverSeq = n
            /\ \A x, y \in rows[r] : SameKey(x, y) => x = y
        BY <1>1 DEF IInv, RowsContinueLog, CounterRead
      <3>3. pc[r] \notin BeforeInsert
        BY <1>1 DEF BeforeInsert
      <3>4. \A x, y \in rows'[r] : SameKey(x, y) => x = y
        BY <1>1, <1>3, <3>2 DEF SameKey
      <3>5. \A x \in rows'[r] :
                  /\ x.documentId = DocOf(r)
                  /\ serverSeq[DocOf(r)] < x.serverSeq
                  /\ x.serverSeq <= nextSeq'[r]
        BY <1>1, <1>2, <3>1, <3>2
      <3>6. \A n \in (serverSeq[DocOf(r)] + 1)..nextSeq'[r] :
                  \E x \in rows'[r] : x.serverSeq = n
        BY <1>1, <1>2, <3>1, <3>2
      <3>7. serverSeq[DocOf(r)] <= nextSeq'[r]
        BY <1>1, <3>1, <3>2
      <3>8. QED
        BY <2>2, <3>3, <3>4, <3>5, <3>6, <3>7
    <2>3. QED
      BY <2>1, <2>2
  <1>7. UncommittedKeysFree'
    BY <1>1, <1>3 DEF IInv, UncommittedKeysFree, InTransaction, Others, SameKey
  <1>8. QED
    BY <1>4, <1>5, <1>6, <1>7 DEF IInv

\* The transaction's rows are the continuation of the log that the counter
\* moves over.
LEMMA CommitStep ==
    ASSUME IInv, TypeOK', NEW r \in Requests, Commit(r)
    PROVE  IInv'
  <1> DEFINE d == DocOf(r)
  <1>1. /\ operations' = operations \cup rows[r]
        /\ \A e \in Docs : e # d => serverSeq'[e] = serverSeq[e]
        /\ lock' = Freed(r)
        /\ pc[r] = "commit" /\ pc'[r] = "relay"
        /\ \A s \in Requests : s # r => pc'[s] = pc[s]
        /\ UNCHANGED <<push, rows, nextSeq>>
        /\ d \in Docs
    BY BatchType DEF Commit, Goto, batchVars, IInv, TypeOK, DocOf
  <1>2. /\ serverSeq[d] \in Nat /\ nextSeq[r] \in Nat
        /\ \A x \in operations \cup rows[r] : x.serverSeq \in Nat \ {0} /\ x.documentId \in Docs
    BY <1>1 DEF IInv, TypeOK, Row
  <1>3. /\ serverSeq[d] <= nextSeq[r]
        /\ \A x \in rows[r] :
              /\ x.documentId = d
              /\ serverSeq[d] < x.serverSeq
              /\ x.serverSeq <= nextSeq[r]
        /\ \A n \in (serverSeq[d] + 1)..nextSeq[r] :
              \E x \in rows[r] : x.serverSeq = n
        /\ \A x, y \in rows[r] : SameKey(x, y) => x = y
    BY <1>1 DEF IInv, RowsContinueLog, CounterRead
  <1>4. serverSeq'[d] = nextSeq[r]
    <2>1. CASE rows[r] = {}
      <3>1. serverSeq[d] = nextSeq[r]
        BY <2>1, <1>2, <1>3
      <3>2. QED
        BY <2>1, <3>1 DEF Commit
    <2>2. CASE rows[r] # {}
      BY <2>2, <1>1 DEF Commit, IInv, TypeOK
    <2>3. QED
      BY <2>1, <2>2
  <1>5. \A x \in operations, y \in rows[r] : ~SameKey(x, y)
    BY <1>1 DEF IInv, UncommittedKeysFree, InTransaction
  <1> HIDE DEF d
  <1>6. SlotsInRange'
    <2> SUFFICES ASSUME NEW x \in operations'
                 PROVE  x.serverSeq <= serverSeq'[x.documentId]
      BY DEF SlotsInRange
    <2>1. CASE x \in rows[r]
      BY <2>1, <1>3, <1>4
    <2>2. CASE x \in operations
      <3>1. x.serverSeq <= serverSeq[x.documentId] /\ x.documentId \in Docs
        BY <2>2, <1>2 DEF IInv, LogWellFormed, SlotsInRange
      <3>2. x.serverSeq \in Nat
        BY <2>2, <1>2
      <3>3. CASE x.documentId = d
        BY <3>1, <3>2, <3>3, <1>2, <1>3, <1>4
      <3>4. CASE x.documentId # d
        BY <3>1, <3>4, <1>1
      <3>5. QED
        BY <3>3, <3>4
    <2>3. QED
      BY <2>1, <2>2, <1>1
  <1>7. NoHole'
    <2> SUFFICES ASSUME NEW e \in Docs, NEW n \in 1..serverSeq'[e]
                 PROVE  \E x \in operations' : x.documentId = e /\ x.serverSeq = n
      BY DEF NoHole
    <2>1. CASE e # d \/ n <= serverSeq[d]
      <3>1. n \in 1..serverSeq[e]
        BY <2>1, <1>1, <1>2
      <3>2. QED
        BY <3>1, <1>1 DEF IInv, LogWellFormed, NoHole
    <2>2. CASE e = d /\ ~(n <= serverSeq[d])
      <3>1. n \in (serverSeq[d] + 1)..nextSeq[r]
        BY <2>2, <1>2, <1>4
      <3>2. QED
        BY <2>2, <3>1, <1>1, <1>3
    <2>3. QED
      BY <2>1, <2>2
  <1>8. OneRowPerKey'
    BY <1>1, <1>3, <1>5 DEF IInv, LogWellFormed, OneRowPerKey, SameKey
  <1>9. LockHeldByOpenTransaction'
    BY <1>1, RequestsAssumption, BatchType
       DEF IInv, TypeOK, LockHeldByOpenTransaction, HoldsLock, DocOf, Freed
  <1>10. RowsContinueLog'
    <2>1. \A s \in Requests : s # r /\ pc[s] \in CounterRead => DocOf(s) # d
      BY <1>1 DEF IInv, LockHeldByOpenTransaction, HoldsLock, CounterRead, d
    <2>2. \A s \in Requests : s # r /\ pc[s] \in CounterRead =>
              serverSeq'[DocOf(s)] = serverSeq[DocOf(s)]
      BY <2>1, <1>1, BatchType DEF IInv, DocOf
    <2>3. pc'[r] \notin BeforeInsert /\ pc'[r] \notin CounterRead
      BY <1>1 DEF BeforeInsert, CounterRead
    <2>4. QED
      BY <2>2, <2>3, <1>1 DEF IInv, RowsContinueLog, DocOf, SameKey
  <1>11. UncommittedKeysFree'
    BY <1>1 DEF IInv, UncommittedKeysFree, InTransaction, Others, SameKey
  <1>12. QED
    BY <1>6, <1>7, <1>8, <1>9, <1>10, <1>11 DEF IInv, LogWellFormed

LEMMA StepKeepsIInv ==
    ASSUME IInv, TypeOK', NEW r \in Requests, Step(r)
    PROVE  IInv'
  <1> USE DEF HoldsLock, InTransaction, CounterRead, BeforeInsert
  <1>0. pc[r] \in BeforeInsert => rows[r] = {}
    BY DEF IInv, RowsContinueLog
  <1>a. \A q : pc' = [pc EXCEPT ![r] = q] => pc'[r] = q
    BY DEF IInv, TypeOK
  <1>1. CASE Authorize(r)
    <2>1. CASE Answer(r, "NOT_FOUND") \/ Answer(r, "FORBIDDEN")
      BY <2>1, AnswerStep
    <2>2. CASE /\ Goto(r, "consume")
               /\ UNCHANGED <<dbVars, lock, push, batchVars, relayed, status>>
      BY <1>1, <2>2, <1>a, QuietStep DEF Authorize, Goto, dbVars, batchVars
    <2>3. QED
      BY <1>1, <2>1, <2>2 DEF Authorize
  <1>2. CASE Consume(r)
    <2>1. CASE Answer(r, "RATE_LIMITED")
      BY <2>1, AnswerStep
    <2>2. CASE /\ Goto(r, "begin")
               /\ UNCHANGED <<dbVars, lock, push, batchVars, relayed, status>>
      BY <1>2, <2>2, <1>a, QuietStep DEF Consume, Goto, dbVars, batchVars
    <2>3. QED
      BY <1>2, <2>1, <2>2 DEF Consume
  <1>3. CASE Begin(r)
    BY <1>3, <1>0, <1>a, QuietStep DEF Begin, Goto, dbVars, batchVars
  <1>4. CASE AcquireLock(r)
    BY <1>4, AcquireLockStep
  <1>5. CASE ReadDocument(r)
    BY <1>5, ReadDocumentStep
  <1>6. CASE ReadCommitted(r)
    BY <1>6, <1>a, QuietStep DEF ReadCommitted, Goto, dbVars
  <1>7. CASE SkipKnown(r)
    <2>1. pc' = [pc EXCEPT ![r] = "insert"]
      BY <1>7 DEF SkipKnown, IInv, TypeOK
    <2>2. QED
      BY <1>7, <2>1, <1>a, QuietStep DEF SkipKnown, dbVars
  <1>8. CASE InsertRow(r)
    BY <1>8, InsertRowStep
  <1>9. CASE UniqueViolation(r)
    BY <1>9, AnswerStep DEF UniqueViolation
  <1>10. CASE UpdateDocument(r)
    BY <1>10, <1>a, QuietStep DEF UpdateDocument, Goto, dbVars, batchVars
  <1>11. CASE Commit(r)
    BY <1>11, CommitStep
  <1>12. CASE Relay(r)
    BY <1>12, <1>a, QuietStep DEF Relay, Goto, dbVars, batchVars
  <1>13. CASE TouchSession(r)
    BY <1>13, <1>a, QuietStep DEF TouchSession, Goto, batchVars
  <1>14. QED
    BY <1>1, <1>2, <1>3, <1>4, <1>5, <1>6, <1>7, <1>8, <1>9, <1>10, <1>11, <1>12, <1>13
       DEF Step

(***************************************************************************)
(* The strengthened invariant holds throughout.                            *)
(***************************************************************************)
THEOREM Inductive == Spec => []IInv
  <1>1. Init /\ TypeOK => IInv
    <2> SUFFICES ASSUME Init, TypeOK PROVE IInv
      OBVIOUS
    <2>1. LogWellFormed
      BY DEF Init, LogWellFormed, SlotsInRange, NoHole, OneRowPerKey
    <2>2. LockHeldByOpenTransaction
      BY DEF Init, LockHeldByOpenTransaction, HoldsLock
    <2>3. RowsContinueLog
      BY DEF Init, RowsContinueLog, CounterRead
    <2>4. UncommittedKeysFree
      BY DEF Init, UncommittedKeysFree
    <2>5. QED
      BY <2>1, <2>2, <2>3, <2>4 DEF IInv
  <1>2. IInv /\ TypeOK' /\ [Next]_vars => IInv'
    <2> SUFFICES ASSUME IInv, TypeOK', [Next]_vars PROVE IInv'
      OBVIOUS
    <2>1. ASSUME NEW r \in Requests, Submit(r) PROVE IInv'
      <3>1. CASE Answer(r, "VALIDATION_FAILED")
        BY <3>1, AnswerStep
      <3>2. CASE /\ Goto(r, "authorize")
                 /\ UNCHANGED <<dbVars, lock, push, batchVars, relayed, status>>
        <4>1. pc'[r] = "authorize"
          BY <3>2 DEF Goto, IInv, TypeOK
        <4>2. QED
          BY <2>1, <3>2, <4>1, QuietStep
             DEF Submit, Goto, dbVars, batchVars, HoldsLock, InTransaction, CounterRead,
                 BeforeInsert
      <3>3. QED
        BY <2>1, <3>1, <3>2 DEF Submit
    <2>2. ASSUME NEW r \in Requests, Step(r) PROVE IInv'
      BY <2>2, StepKeepsIInv
    <2>3. ASSUME NEW r \in Requests, TransactionFails(r) \/ CommitUnconfirmed(r)
          PROVE IInv'
      BY <2>3, AnswerStep DEF TransactionFails, CommitUnconfirmed
    <2>4. ASSUME NEW i \in Instances, Crash(i) PROVE IInv'
      <3> DEFINE hit == {r \in Requests : InstanceOf[r] = i /\ pc[r] \notin {"new", "done"}}
      <3>1. \A d \in Docs : lock[d] \in {r \in hit : InTransaction(r)} <=> lock[d] \in hit
        BY RequestsAssumption
           DEF IInv, TypeOK, LockHeldByOpenTransaction, HoldsLock, InTransaction
      <3>2. lock' = [d \in Docs |-> IF lock[d] \in hit THEN Nobody ELSE lock[d]]
        BY <2>4, <3>1 DEF Crash
      <3>3. /\ \A s \in hit : pc'[s] = "done"
            /\ \A s \in Requests \ hit : pc'[s] = pc[s] /\ rows'[s] = rows[s]
            /\ UNCHANGED <<operations, serverSeq, push, nextSeq>>
        BY <2>4 DEF Crash, dbVars
      <3>4. hit \in SUBSET Requests
        OBVIOUS
      <3> HIDE DEF hit
      <3>5. QED
        BY <3>2, <3>3, <3>4, EndStep, Zenon
    <2>5. ASSUME NEW u \in Users, NEW d \in Docs, SoftDelete(u, d) \/ Restore(u, d)
          PROVE IInv'
      <3>1. UNCHANGED <<operations, serverSeq, lock, push, pc, rows, nextSeq>>
        BY <2>5 DEF SoftDelete, Restore, batchVars
      <3>2. QED
        BY <3>1 DEF IInv, LogWellFormed, SlotsInRange, NoHole, OneRowPerKey, SameKey,
                    LockHeldByOpenTransaction, HoldsLock, DocOf, RowsContinueLog,
                    UncommittedKeysFree, InTransaction, Others
    <2>6. CASE UNCHANGED vars
      BY <2>6 DEF vars, dbVars, batchVars, IInv, LogWellFormed, SlotsInRange, NoHole,
                  OneRowPerKey, SameKey, LockHeldByOpenTransaction, HoldsLock, DocOf,
                  RowsContinueLog, UncommittedKeysFree, InTransaction, Others
    <2>7. QED
      BY <2>1, <2>2, <2>3, <2>4, <2>5, <2>6 DEF Next
  <1>3. QED
    BY <1>1, <1>2, TypeCorrect, PTL DEF Spec

(***************************************************************************)
(* Gapless: a document's committed rows fill the slots 1..serverSeq, each  *)
(* once, and no operation id is stored twice (the promise of the schema's  *)
(* serverSeq and of commitBatch).                                          *)
(***************************************************************************)
THEOREM Gapless == Spec => []LogWellFormed
  <1>1. IInv => LogWellFormed
    BY DEF IInv
  <1>2. QED
    BY <1>1, Inductive, PTL

(***************************************************************************)
(* withDocumentLock: the lock is held exactly by the open transaction that *)
(* took it, whatever ends that transaction.                                *)
(***************************************************************************)
THEOREM LockNeverLeaks == Spec => []LockHeldByOpenTransaction
  <1>1. IInv => LockHeldByOpenTransaction
    BY DEF IInv
  <1>2. QED
    BY <1>1, Inductive, PTL

(***************************************************************************)
(* Under the lock no concurrent push can have taken, or be holding, the    *)
(* slot a push is about to insert at.                                      *)
(***************************************************************************)
THEOREM SlotsUncontended == Spec => []SlotNeverContended
  <1>1. IInv => SlotNeverContended
    <2> SUFFICES ASSUME IInv, NEW r \in Requests, AtFresh(r),
                        NEW x \in operations \cup UNION {rows[s] : s \in Others(r)},
                        x.documentId = DocOf(r)
                 PROVE  x.serverSeq # nextSeq[r] + 1
      BY DEF SlotNeverContended
    <2>1. /\ pc[r] = "insert"
          /\ serverSeq[DocOf(r)] <= nextSeq[r]
      BY DEF AtFresh, IInv, RowsContinueLog, CounterRead
    <2>2. serverSeq[DocOf(r)] \in Nat /\ nextSeq[r] \in Nat
      BY BatchType DEF IInv, TypeOK, DocOf
    <2>3. CASE x \in operations
      <3>1. x.serverSeq <= serverSeq[DocOf(r)] /\ x.serverSeq \in Nat
        BY <2>3 DEF IInv, LogWellFormed, SlotsInRange, TypeOK, Row
      <3>2. QED
        BY <3>1, <2>1, <2>2
    <2>4. CASE x \in UNION {rows[s] : s \in Others(r)}
      <3>1. PICK s \in Others(r) : x \in rows[s]
        BY <2>4
      <3>2. s \in Requests /\ s # r /\ pc[s] \in {"insert", "commit"}
        BY <3>1 DEF Others, InTransaction, IInv, RowsContinueLog, BeforeInsert
      <3>3. DocOf(s) = DocOf(r)
        BY <3>1, <3>2 DEF IInv, RowsContinueLog, CounterRead
      <3>4. QED
        BY <2>1, <3>2, <3>3 DEF IInv, LockHeldByOpenTransaction, HoldsLock
    <2>5. QED
      BY <2>3, <2>4
  <1>2. QED
    BY <1>1, Inductive, PTL

------------------------------------------------------------------------------
(***************************************************************************)
(* What a push answers.  The mapping of the batch to rows is followed      *)
(* operation by operation: what the lookup found, what has been inserted,  *)
(* and that both together hold every operation mapped so far.              *)
(***************************************************************************)
Mapping == {"insert", "commit"}

Found(r) == known[r] \cup rows[r]

Mapped(r) ==
    /\ known[r] \subseteq operations
    /\ \A x \in known[r] : x.operationId \in BatchIds(r)
    /\ pc[r] \in BeforeInsert => known[r] = {} /\ at[r] = 0
    /\ pc[r] = "insert" =>
          \A x \in operations :
              x.documentId = DocOf(r) /\ x.operationId \in BatchIds(r) => x \in known[r]
    /\ pc[r] \in Mapping =>
          /\ \A x \in known[r] : x.documentId = DocOf(r) => x.serverSeq <= nextSeq[r]
          /\ \A i \in 1..at[r] : \E x \in Found(r) : x.operationId = push[r].ops[i]
          /\ \A x \in rows[r] : \E i \in 1..at[r] : x.operationId = push[r].ops[i]
    /\ pc[r] = "commit" => at[r] = Len(push[r].ops)

Settled(r) ==
    /\ status[r] = "OK" => pc[r] \in {"touch", "done"} /\ relayed[r] = ToBroadcast(r)
    /\ pc[r] \in {"relay", "touch"} \/ status[r] = "OK" =>
          /\ rows[r] \subseteq operations /\ known[r] \cap rows[r] = {}
          /\ \A x \in rows[r] : x.operationId \in BatchIds(r)
          /\ \A i \in 1..Len(push[r].ops) : \E x \in Found(r) : x.operationId = push[r].ops[i]
          /\ \A x \in Found(r) : x.documentId = DocOf(r) => x.serverSeq <= nextSeq[r]

AckInv ==
    /\ \A r \in Requests : Mapped(r) /\ Settled(r)
    /\ DOMAIN relayed = Requests

LEMMA ToBroadcastKept ==
    ASSUME NEW r \in Requests, push' = push, known'[r] = known[r], rows'[r] = rows[r]
    PROVE  ToBroadcast(r)' = ToBroadcast(r)
  <1>1. Acknowledged(r)' = Acknowledged(r)
    BY DEF Acknowledged
  <1>2. DuplicateCount(r)' = DuplicateCount(r)
    BY DEF DuplicateCount
  <1>3. QED
    BY <1>1, <1>2 DEF ToBroadcast

(***************************************************************************)
(* A push that does not step keeps what it has found, whatever is          *)
(* committed beside it: nothing is, to the document it holds the lock of.  *)
(***************************************************************************)
LEMMA BystanderKept ==
    ASSUME NEW s \in Requests, Mapped(s), Settled(s),
           pc'[s] = pc[s], known'[s] = known[s], at'[s] = at[s],
           nextSeq'[s] = nextSeq[s], rows'[s] = rows[s], status'[s] = status[s],
           relayed'[s] = relayed[s], push' = push,
           operations \subseteq operations',
           \A x \in operations' \ operations : pc[s] = "insert" => x.documentId # DocOf(s)
    PROVE  Mapped(s)' /\ Settled(s)'
  <1>1. Mapped(s)'
    BY DEF Mapped, Found, DocOf, BatchIds, BeforeInsert, Mapping
  <1>2. Settled(s)'
    BY ToBroadcastKept DEF Settled, Found, DocOf, BatchIds
  <1>3. QED
    BY <1>1, <1>2

\* A step before the lookup.
LEMMA EarlyKept ==
    ASSUME NEW r \in Requests, Mapped(r), Settled(r),
           pc[r] \in BeforeInsert, pc'[r] \in BeforeInsert,
           known'[r] = known[r], at'[r] = at[r], status'[r] = status[r],
           operations' = operations
    PROVE  Mapped(r)' /\ Settled(r)'
  BY DEF Mapped, Settled, BeforeInsert, Mapping

\* The end of a push that is not answered with its acknowledgements.
LEMMA EndKept ==
    ASSUME NEW r \in Requests, Mapped(r), Settled(r),
           pc'[r] = "done", status'[r] # "OK", known'[r] = known[r],
           push' = push, operations' = operations
    PROVE  Mapped(r)' /\ Settled(r)'
  BY DEF Mapped, Settled, BeforeInsert, Mapping, BatchIds

\* The end of one that was.
LEMMA DoneKept ==
    ASSUME NEW r \in Requests, Mapped(r), Settled(r),
           pc'[r] = "done", status'[r] = "OK", pc[r] = "touch", status[r] = "OK",
           known'[r] = known[r], rows'[r] = rows[r], nextSeq'[r] = nextSeq[r],
           relayed'[r] = relayed[r], push' = push, operations' = operations
    PROVE  Mapped(r)' /\ Settled(r)'
  <1>1. Mapped(r)'
    BY DEF Mapped, BeforeInsert, Mapping, BatchIds
  <1>2. ToBroadcast(r)' = ToBroadcast(r)
    BY ToBroadcastKept
  <1>3. Settled(r)'
    BY <1>2 DEF Settled, Found, DocOf, BatchIds
  <1>4. QED
    BY <1>1, <1>3

LEMMA AnswerKeepsAcks ==
    ASSUME IInv, AckInv, NEW r \in Requests, NEW s \in Statuses \ {"OK"}, Answer(r, s)
    PROVE  AckInv'
  <1>1. /\ pc'[r] = "done" /\ status'[r] = s /\ known' = known /\ at' = at
        /\ nextSeq' = nextSeq /\ push' = push /\ operations' = operations /\ relayed' = relayed
        /\ \A t \in Requests : t # r =>
              pc'[t] = pc[t] /\ status'[t] = status[t] /\ rows'[t] = rows[t]
    BY DEF Answer, dbVars, IInv, TypeOK
  <1>2. ASSUME NEW t \in Requests PROVE Mapped(t)' /\ Settled(t)'
    <2>1. Mapped(t) /\ Settled(t)
      BY DEF AckInv
    <2>2. CASE t = r
      BY <1>1, <2>1, <2>2, EndKept
    <2>3. CASE t # r
      BY <1>1, <2>1, <2>3, BystanderKept
    <2>4. QED
      BY <2>2, <2>3
  <1>3. QED
    BY <1>1, <1>2 DEF AckInv

(***************************************************************************)
(* A step of one push that leaves the committed rows alone.                *)
(***************************************************************************)
LEMMA OwnStep ==
    ASSUME IInv, AckInv, NEW r \in Requests, Mapped(r)', Settled(r)',
           \A t \in Requests : t # r =>
               /\ pc'[t] = pc[t] /\ known'[t] = known[t] /\ at'[t] = at[t]
               /\ nextSeq'[t] = nextSeq[t] /\ rows'[t] = rows[t] /\ status'[t] = status[t]
               /\ relayed'[t] = relayed[t],
           DOMAIN relayed' = Requests, push' = push, operations' = operations
    PROVE  AckInv'
  <1>1. ASSUME NEW t \in Requests, t # r PROVE Mapped(t)' /\ Settled(t)'
    <2>1. Mapped(t) /\ Settled(t)
      BY DEF AckInv
    <2>2. QED
      BY <1>1, <2>1, BystanderKept
  <1>2. QED
    BY <1>1 DEF AckInv

LEMMA EarlyStep ==
    ASSUME IInv, AckInv, NEW r \in Requests, NEW q \in BeforeInsert,
           pc[r] \in BeforeInsert, pc' = [pc EXCEPT ![r] = q],
           nextSeq' = nextSeq \/ \E n \in Nat : nextSeq' = [nextSeq EXCEPT ![r] = n],
           UNCHANGED <<known, at, rows, status, push, operations, relayed>>
    PROVE  AckInv'
  <1>1. pc'[r] = q /\ \A t \in Requests : t # r => pc'[t] = pc[t] /\ nextSeq'[t] = nextSeq[t]
    BY DEF IInv, TypeOK
  <1>2. Mapped(r) /\ Settled(r) /\ DOMAIN relayed = Requests
    BY DEF AckInv
  <1>3. Mapped(r)' /\ Settled(r)'
    BY <1>1, <1>2, EarlyKept
  <1>4. QED
    BY <1>1, <1>2, <1>3, OwnStep

\* The lookup: under the lock it finds every row the document has of the batch.
LEMMA ReadCommittedKeepsAcks ==
    ASSUME IInv, AckInv, NEW r \in Requests, ReadCommitted(r)
    PROVE  AckInv'
  <1>1. /\ pc[r] = "dedupe" /\ pc'[r] = "insert"
        /\ known'[r] = {x \in operations : x.operationId \in BatchIds(r)}
        /\ \A t \in Requests : t # r => pc'[t] = pc[t] /\ known'[t] = known[t]
        /\ UNCHANGED <<operations, push, at, nextSeq, rows, status, relayed>>
    BY DEF ReadCommitted, Goto, dbVars, IInv, TypeOK
  <1>2. Mapped(r) /\ Settled(r) /\ at[r] = 0 /\ status[r] # "OK" /\ DOMAIN relayed = Requests
    BY <1>1 DEF AckInv, Mapped, Settled, BeforeInsert
  <1>3. rows[r] = {} /\ serverSeq[DocOf(r)] <= nextSeq[r]
    BY <1>1 DEF IInv, RowsContinueLog, BeforeInsert, CounterRead
  <1>4. \A x \in known'[r] : x.documentId = DocOf(r) => x.serverSeq <= nextSeq[r]
    <2>1. serverSeq[DocOf(r)] \in Nat /\ nextSeq[r] \in Nat
      BY BatchType DEF IInv, TypeOK, DocOf
    <2>2. \A x \in operations : x.serverSeq <= serverSeq[x.documentId] /\ x.serverSeq \in Nat
      BY DEF IInv, LogWellFormed, SlotsInRange, TypeOK, Row
    <2>3. QED
      BY <1>1, <1>3, <2>1, <2>2
  <1>5. Mapped(r)'
    BY <1>1, <1>2, <1>3, <1>4 DEF Mapped, BeforeInsert, Mapping, DocOf, BatchIds
  <1>6. Settled(r)'
    BY <1>1, <1>2 DEF Settled
  <1>7. QED
    BY <1>1, <1>2, <1>5, <1>6, OwnStep

\* One turn of the mapping accounts for the operation it is at.
LEMMA TurnKept ==
    ASSUME IInv, AckInv, NEW r \in Requests, pc[r] = "insert", at[r] < Len(push[r].ops),
           pc' = pc, known' = known, at' = [at EXCEPT ![r] = @ + 1],
           UNCHANGED <<operations, push, status, relayed>>,
           rows[r] \subseteq rows'[r], nextSeq[r] <= nextSeq'[r], nextSeq'[r] \in Nat,
           \E x \in known[r] \cup rows'[r] : x.operationId = NextId(r),
           \A x \in rows'[r] \ rows[r] : x.operationId = NextId(r),
           \A t \in Requests : t # r => rows'[t] = rows[t] /\ nextSeq'[t] = nextSeq[t]
    PROVE  AckInv'
  <1>1. at'[r] = at[r] + 1 /\ \A t \in Requests : t # r => at'[t] = at[t]
    BY DEF IInv, TypeOK
  <1>2. at[r] \in Nat /\ nextSeq[r] \in Nat
    BY DEF IInv, TypeOK
  <1>3. /\ Mapped(r) /\ Settled(r) /\ status[r] # "OK" /\ DOMAIN relayed = Requests
        /\ NextId(r) = push[r].ops[at[r] + 1]
    BY DEF AckInv, Settled, NextId
  <1>4. \A i \in 1..at'[r] : i \in 1..at[r] \/ i = at[r] + 1
    BY <1>1, <1>2
  <1>5. \A i \in 1..at[r] : i \in 1..at'[r]
    BY <1>1, <1>2
  <1>6. at[r] + 1 \in 1..at'[r]
    BY <1>1, <1>2
  <1>7. \A x \in known[r] : x.documentId = DocOf(r) => x.serverSeq <= nextSeq'[r]
    <2>1. \A x \in known[r] : x.serverSeq \in Nat
      BY DEF IInv, TypeOK, Row
    <2>2. QED
      BY <1>2, <1>3, <2>1 DEF Mapped, Mapping
  <1>8. \A i \in 1..at'[r] : \E x \in known[r] \cup rows'[r] : x.operationId = push[r].ops[i]
    <2>1. TAKE i \in 1..at'[r]
    <2>2. CASE i \in 1..at[r]
      BY <1>3, <2>2 DEF Mapped, Mapping, Found
    <2>3. CASE i = at[r] + 1
      BY <1>3, <2>3
    <2>4. QED
      BY <1>4, <2>2, <2>3
  <1>9. \A x \in rows'[r] : \E i \in 1..at'[r] : x.operationId = push[r].ops[i]
    <2>1. TAKE x \in rows'[r]
    <2>2. CASE x \in rows[r]
      BY <1>3, <1>5, <2>2 DEF Mapped, Mapping
    <2>3. CASE x \notin rows[r]
      BY <1>3, <1>6, <2>3
    <2>4. QED
      BY <2>2, <2>3
  <1>10. Mapped(r)'
    BY <1>3, <1>7, <1>8, <1>9 DEF Mapped, Found, BeforeInsert, Mapping, DocOf, BatchIds
  <1>11. Settled(r)'
    BY <1>3 DEF Settled
  <1>12. QED
    BY <1>1, <1>3, <1>10, <1>11, OwnStep

LEMMA MappingKeepsAcks ==
    ASSUME IInv, AckInv, NEW r \in Requests, SkipKnown(r) \/ InsertRow(r) \/ UpdateDocument(r)
    PROVE  AckInv'
  <1>1. CASE SkipKnown(r)
    <2>1. \E x \in known[r] \cup rows'[r] : x.operationId = NextId(r)
      BY <1>1 DEF SkipKnown, KnownIds
    <2>2. /\ pc[r] = "insert" /\ at[r] < Len(push[r].ops) /\ at' = [at EXCEPT ![r] = @ + 1]
          /\ UNCHANGED <<operations, push, status, relayed, pc, known, rows, nextSeq>>
      BY <1>1 DEF SkipKnown, dbVars
    <2>3. nextSeq[r] <= nextSeq'[r] /\ nextSeq'[r] \in Nat
      BY <2>2 DEF IInv, TypeOK
    <2>4. /\ rows[r] \subseteq rows'[r] /\ \A x \in rows'[r] \ rows[r] : x.operationId = NextId(r)
          /\ \A t \in Requests : t # r => rows'[t] = rows[t] /\ nextSeq'[t] = nextSeq[t]
      BY <2>2
    <2>5. QED
      BY <2>1, <2>2, <2>3, <2>4, TurnKept
  <1>2. CASE InsertRow(r)
    <2>1. /\ pc[r] = "insert" /\ at[r] < Len(push[r].ops) /\ at' = [at EXCEPT ![r] = @ + 1]
          /\ UNCHANGED <<operations, push, status, relayed, pc, known>>
      BY <1>2 DEF InsertRow, AtFresh, dbVars
    <2>2. /\ rows'[r] = rows[r] \cup {NextRow(r)} /\ nextSeq'[r] = nextSeq[r] + 1
          /\ \A t \in Requests : t # r => rows'[t] = rows[t] /\ nextSeq'[t] = nextSeq[t]
          /\ nextSeq[r] \in Nat
      BY <1>2 DEF InsertRow, IInv, TypeOK
    <2>3. NextRow(r).operationId = NextId(r)
      BY DEF NextRow
    <2>4. nextSeq[r] <= nextSeq'[r] /\ nextSeq'[r] \in Nat
      BY <2>2
    <2>5. QED
      BY <2>1, <2>2, <2>3, <2>4, TurnKept
  <1>3. CASE UpdateDocument(r)
    <2>1. /\ pc[r] = "insert" /\ at[r] = Len(push[r].ops) /\ pc'[r] = "commit"
          /\ \A t \in Requests : t # r => pc'[t] = pc[t]
          /\ UNCHANGED <<operations, push, status, relayed, known, at, nextSeq, rows>>
      BY <1>3 DEF UpdateDocument, Goto, dbVars, batchVars, IInv, TypeOK
    <2>2. Mapped(r) /\ Settled(r) /\ status[r] # "OK" /\ DOMAIN relayed = Requests
      BY <2>1 DEF AckInv, Settled
    <2>3. Mapped(r)'
      BY <2>1, <2>2 DEF Mapped, Found, BeforeInsert, Mapping, DocOf, BatchIds
    <2>4. Settled(r)'
      BY <2>1, <2>2 DEF Settled
    <2>5. QED
      BY <2>1, <2>2, <2>3, <2>4, OwnStep
  <1>4. QED
    BY <1>1, <1>2, <1>3

(***************************************************************************)
(* The commit: what it adds is of a document no other push is mapping.     *)
(***************************************************************************)
LEMMA CommitKeepsAcks ==
    ASSUME IInv, AckInv, NEW r \in Requests, Commit(r)
    PROVE  AckInv'
  <1>1. /\ pc[r] = "commit" /\ pc'[r] = "relay" /\ operations' = operations \cup rows[r]
        /\ \A t \in Requests : t # r => pc'[t] = pc[t]
        /\ UNCHANGED <<push, status, relayed, known, at, nextSeq, rows>>
    BY DEF Commit, Goto, batchVars, IInv, TypeOK
  <1>2. Mapped(r) /\ Settled(r) /\ status[r] # "OK" /\ at[r] = Len(push[r].ops)
    BY <1>1 DEF AckInv, Settled, Mapped
  <1>3. \A x \in rows[r] : x.documentId = DocOf(r) /\ x.serverSeq <= nextSeq[r]
    BY <1>1 DEF IInv, RowsContinueLog, CounterRead
  <1>4. Mapped(r)'
    BY <1>1, <1>2 DEF Mapped, BeforeInsert, Mapping, BatchIds
  <1>5. Settled(r)'
    <2>1. known[r] \cap rows[r] = {}
      BY <1>1, <1>2 DEF IInv, UncommittedKeysFree, InTransaction, SameKey, Mapped
    <2>2. \A x \in rows[r] : x.operationId \in BatchIds(r)
      BY <1>1, <1>2, BatchType DEF IInv, Mapped, Mapping, BatchIds
    <2>3. QED
      BY <1>1, <1>2, <1>3, <2>1, <2>2 DEF Settled, Mapped, Mapping, Found, DocOf, BatchIds
  <1>6. ASSUME NEW t \in Requests, t # r PROVE Mapped(t)' /\ Settled(t)'
    <2>1. Mapped(t) /\ Settled(t)
      BY DEF AckInv
    <2>2. \A x \in operations' \ operations : pc[t] = "insert" => x.documentId # DocOf(t)
      BY <1>1, <1>3, <1>6 DEF IInv, LockHeldByOpenTransaction, HoldsLock
    <2>3. operations \subseteq operations'
      BY <1>1
    <2>4. QED
      BY <1>1, <1>6, <2>1, <2>2, <2>3, BystanderKept
  <1>7. QED
    BY <1>1, <1>4, <1>5, <1>6 DEF AckInv

LEMMA AnsweredKeepsAcks ==
    ASSUME IInv, AckInv, NEW r \in Requests, Relay(r) \/ TouchSession(r)
    PROVE  AckInv'
  <1>1. CASE Relay(r)
    <2>1. /\ pc[r] = "relay" /\ pc'[r] = "touch" /\ status'[r] = "OK"
          /\ \A t \in Requests : t # r => pc'[t] = pc[t] /\ status'[t] = status[t]
          /\ relayed' = [relayed EXCEPT ![r] = ToBroadcast(r)]
          /\ UNCHANGED <<operations, push, known, at, nextSeq, rows>>
      BY <1>1 DEF Relay, Goto, dbVars, batchVars, IInv, TypeOK
    <2>2. Mapped(r) /\ Settled(r) /\ DOMAIN relayed = Requests
      BY DEF AckInv
    <2>3. /\ relayed'[r] = ToBroadcast(r) /\ DOMAIN relayed' = Requests
          /\ \A t \in Requests : t # r => relayed'[t] = relayed[t]
      BY <2>1, <2>2
    <2>4. Mapped(r)'
      BY <2>1, <2>2 DEF Mapped, BeforeInsert, Mapping, BatchIds
    <2>5. ToBroadcast(r)' = ToBroadcast(r)
      BY <2>1, ToBroadcastKept
    <2>6. Settled(r)'
      BY <2>1, <2>2, <2>3, <2>5 DEF Settled, Found, DocOf, BatchIds
    <2>7. QED
      BY <2>1, <2>3, <2>4, <2>6, OwnStep
  <1>2. CASE TouchSession(r)
    <2>1. /\ pc[r] = "touch" /\ pc'[r] = "done"
          /\ \A t \in Requests : t # r => pc'[t] = pc[t]
          /\ UNCHANGED <<operations, push, known, at, nextSeq, rows, status, relayed>>
      BY <1>2 DEF TouchSession, Goto, batchVars, IInv, TypeOK
    <2>2. Mapped(r) /\ Settled(r) /\ DOMAIN relayed = Requests
      BY DEF AckInv
    <2>3. Mapped(r)'
      BY <2>1, <2>2 DEF Mapped, BeforeInsert, Mapping, BatchIds
    <2>4. Settled(r)'
      BY <2>1, <2>2, ToBroadcastKept DEF Settled, Found, DocOf, BatchIds
    <2>5. QED
      BY <2>1, <2>2, <2>3, <2>4, OwnStep
  <1>3. QED
    BY <1>1, <1>2

LEMMA CrashKeepsAcks ==
    ASSUME IInv, AckInv, NEW i \in Instances, Crash(i)
    PROVE  AckInv'
  <1>1. ASSUME NEW t \in Requests PROVE Mapped(t)' /\ Settled(t)'
    <2>1. Mapped(t) /\ Settled(t)
      BY DEF AckInv
    <2>2. UNCHANGED <<operations, push, known, at, nextSeq, relayed>>
      BY DEF Crash, dbVars
    <2>3. \/ pc'[t] = pc[t] /\ status'[t] = status[t] /\ rows'[t] = rows[t]
          \/ /\ pc'[t] = "done" /\ pc[t] \notin {"new", "done"}
             /\ status'[t] = IF status[t] = "NONE" THEN "LOST" ELSE status[t]
             /\ ~InTransaction(t) => rows'[t] = rows[t]
      BY DEF Crash
    <2>4. CASE pc'[t] = pc[t] /\ status'[t] = status[t] /\ rows'[t] = rows[t]
      BY <2>1, <2>2, <2>4, BystanderKept
    <2>5. CASE pc'[t] = "done" /\ status'[t] # "OK"
      BY <2>1, <2>2, <2>5, EndKept
    <2>6. CASE pc'[t] = "done" /\ status[t] = "OK" /\ pc[t] # "done" /\ status'[t] = "OK"
               /\ (~InTransaction(t) => rows'[t] = rows[t])
      <3>1. pc[t] = "touch"
        BY <2>1, <2>6 DEF Settled
      <3>2. QED
        BY <2>1, <2>2, <2>6, <3>1, DoneKept DEF InTransaction
    <2>7. QED
      BY <2>3, <2>4, <2>5, <2>6
  <1>2. UNCHANGED relayed
    BY DEF Crash
  <1>3. QED
    BY <1>1, <1>2 DEF AckInv

LEMMA NextKeepsAcks == IInv /\ AckInv /\ [Next]_vars => AckInv'
  <1> SUFFICES ASSUME IInv, AckInv, [Next]_vars PROVE AckInv'
    OBVIOUS
  <1>0. {"VALIDATION_FAILED", "NOT_FOUND", "FORBIDDEN", "RATE_LIMITED", "INTERNAL"}
            \subseteq Statuses \ {"OK"}
    BY DEF Statuses
  <1>1. ASSUME NEW r \in Requests, NEW q \in BeforeInsert, pc[r] \in BeforeInsert, Goto(r, q),
               UNCHANGED <<dbVars, push, batchVars, status, relayed>>
        PROVE  AckInv'
    BY <1>1, EarlyStep DEF Goto, dbVars, batchVars
  <1>2. ASSUME NEW r \in Requests, Submit(r) \/ Authorize(r) \/ Consume(r) PROVE AckInv'
    <2>1. CASE \E s \in {"VALIDATION_FAILED", "NOT_FOUND", "FORBIDDEN", "RATE_LIMITED"} :
                  Answer(r, s)
      BY <1>0, <2>1, AnswerKeepsAcks
    <2>2. CASE \E q \in {"authorize", "consume", "begin"} :
                  Goto(r, q) /\ UNCHANGED <<dbVars, push, batchVars, status, relayed>>
                  /\ pc[r] \in {"new", "authorize", "consume"}
      BY <1>1, <2>2 DEF BeforeInsert
    <2>3. QED
      BY <1>2, <2>1, <2>2 DEF Submit, Authorize, Consume
  <1>3. ASSUME NEW r \in Requests, Begin(r) \/ AcquireLock(r) PROVE AckInv'
    <2>1. \E q \in {"lock", "read"} :
             Goto(r, q) /\ UNCHANGED <<dbVars, push, batchVars, status, relayed>>
             /\ pc[r] \in {"begin", "lock"}
      BY <1>3 DEF Begin, AcquireLock
    <2>2. QED
      BY <1>1, <2>1 DEF BeforeInsert
  <1>4. ASSUME NEW r \in Requests, ReadDocument(r) PROVE AckInv'
    <2>1. CASE Answer(r, "NOT_FOUND")
      BY <1>0, <2>1, AnswerKeepsAcks
    <2>2. CASE /\ nextSeq' = [nextSeq EXCEPT ![r] = serverSeq[DocOf(r)]]
               /\ Goto(r, "dedupe")
               /\ UNCHANGED <<dbVars, lock, push, known, at, rows, relayed, status>>
      <3>1. serverSeq[DocOf(r)] \in Nat
        BY BatchType DEF IInv, TypeOK, DocOf
      <3>2. pc[r] \in BeforeInsert /\ "dedupe" \in BeforeInsert
        BY <1>4 DEF ReadDocument, BeforeInsert
      <3>3. pc' = [pc EXCEPT ![r] = "dedupe"] /\ UNCHANGED <<known, at, rows, status, push, operations, relayed>>
        BY <2>2 DEF Goto, dbVars
      <3>4. \E n \in Nat : nextSeq' = [nextSeq EXCEPT ![r] = n]
        BY <2>2, <3>1
      <3>5. QED
        BY <3>2, <3>3, <3>4, EarlyStep
    <2>3. QED
      BY <1>4, <2>1, <2>2 DEF ReadDocument
  <1>5. ASSUME NEW r \in Requests, UniqueViolation(r) \/ TransactionFails(r) \/ CommitUnconfirmed(r)
        PROVE  AckInv'
    BY <1>0, <1>5, AnswerKeepsAcks DEF UniqueViolation, TransactionFails, CommitUnconfirmed
  <1>6. ASSUME NEW r \in Requests, Step(r) PROVE AckInv'
    BY <1>2, <1>3, <1>4, <1>5, <1>6, ReadCommittedKeepsAcks, MappingKeepsAcks, CommitKeepsAcks,
       AnsweredKeepsAcks DEF Step
  <1>7. ASSUME UNCHANGED <<push, operations, pc, known, at, nextSeq, rows, status, relayed>>
        PROVE  AckInv'
    <2>1. ASSUME NEW t \in Requests PROVE Mapped(t)' /\ Settled(t)'
      <3>1. Mapped(t) /\ Settled(t)
        BY DEF AckInv
      <3>2. QED
        BY <1>7, <3>1, BystanderKept
    <2>2. QED
      BY <1>7, <2>1 DEF AckInv
  <1>8. ASSUME NEW u \in Users, NEW d \in Docs, SoftDelete(u, d) \/ Restore(u, d) PROVE AckInv'
    BY <1>7, <1>8 DEF SoftDelete, Restore, batchVars
  <1>9. CASE UNCHANGED vars
    BY <1>7, <1>9 DEF vars, dbVars, batchVars
  <1>10. QED
    BY <1>2, <1>5, <1>6, <1>8, <1>9, CrashKeepsAcks DEF Next

LEMMA AckInductive == Spec => [](IInv /\ AckInv)
  <1>1. Init => AckInv
    BY DEF Init, AckInv, Mapped, Settled, BeforeInsert, Mapping
  <1>2. QED
    BY <1>1, NextKeepsAcks, Inductive, PTL DEF Spec

(***************************************************************************)
(* An answer acknowledges every operation of its batch, in the batch's     *)
(* order, with a row the log holds (operationRepository.commitBatch).      *)
(***************************************************************************)
THEOREM AcksAreStored == Spec => []AcksMatchLog
  <1>1. IInv /\ AckInv => AcksMatchLog
    <2> SUFFICES ASSUME IInv, AckInv, NEW r \in Requests, status[r] = "OK",
                        NEW i \in DOMAIN push[r].ops
                 PROVE  /\ Acknowledged(r)[i] \in operations
                        /\ Acknowledged(r)[i].operationId = push[r].ops[i]
                        /\ Acknowledged(r)[i].documentId = DocOf(r)
                              => Acknowledged(r)[i].serverSeq <= nextSeq[r]
      BY DEF AcksMatchLog
    <2>1. i \in 1..Len(push[r].ops)
      BY BatchType DEF IInv
    <2>2. /\ \E x \in Found(r) : x.operationId = push[r].ops[i]
          /\ \A x \in Found(r) : x.documentId = DocOf(r) => x.serverSeq <= nextSeq[r]
          /\ Found(r) \subseteq operations
      BY <2>1 DEF AckInv, Settled, Mapped, Found
    <2>3. Acknowledged(r)[i] \in Found(r) /\ Acknowledged(r)[i].operationId = push[r].ops[i]
      BY <2>2 DEF Acknowledged, Found
    <2>4. QED
      BY <2>2, <2>3
  <1>2. QED
    BY <1>1, AckInductive, PTL

(***************************************************************************)
(* "Those are not errors: they are the success path": the primary key only *)
(* refuses a batch that repeats an id or names another document's.         *)
(***************************************************************************)
THEOREM RetriesAreNotRefused == Spec => []RetryNeverConflicts
  <1>1. IInv /\ AckInv => RetryNeverConflicts
    <2> SUFFICES ASSUME IInv, AckInv, NEW r \in Requests, AtFresh(r), Duplicate(r),
                        Distinct(push[r].ops)
                 PROVE  \E x \in operations :
                            x.operationId = NextId(r) /\ x.documentId # DocOf(r)
      BY DEF RetryNeverConflicts
    <2>1. PICK x \in operations \cup rows[r] : SameKey(x, NextRow(r))
      BY DEF Duplicate
    <2>2. /\ pc[r] = "insert" /\ at[r] < Len(push[r].ops) /\ NextId(r) \notin KnownIds(r)
          /\ at[r] \in Nat /\ nextSeq[r] \in Nat /\ Len(push[r].ops) \in Nat
      BY BatchType DEF AtFresh, IInv, TypeOK
    <2>3. /\ NextRow(r).operationId = NextId(r) /\ NextRow(r).documentId = DocOf(r)
          /\ NextRow(r).serverSeq = nextSeq[r] + 1
      BY DEF NextRow
    <2>4. at[r] + 1 \in DOMAIN push[r].ops /\ NextId(r) = push[r].ops[at[r] + 1]
      <3>1. at[r] + 1 \in 1..Len(push[r].ops)
        BY <2>2
      <3>2. QED
        BY <3>1, BatchType DEF NextId, IInv
    <2>5. x \notin rows[r]
      <3> SUFFICES ASSUME x \in rows[r] PROVE FALSE
        OBVIOUS
      <3>1. x.documentId = DocOf(r) /\ x.serverSeq <= nextSeq[r] /\ x.serverSeq \in Nat
        BY <2>2 DEF IInv, RowsContinueLog, CounterRead, TypeOK, Row
      <3>2. x.operationId = NextId(r)
        BY <2>1, <2>2, <2>3, <3>1 DEF SameKey
      <3>3. PICK i \in 1..at[r] : x.operationId = push[r].ops[i]
        BY <2>2 DEF AckInv, Mapped, Mapping
      <3>4. i \in DOMAIN push[r].ops /\ i # at[r] + 1
        <4>1. i \in 1..Len(push[r].ops) /\ i # at[r] + 1
          BY <2>2
        <4>2. QED
          BY <4>1, BatchType DEF IInv
      <3>5. QED
        BY <2>4, <3>2, <3>3, <3>4 DEF Distinct
    <2>6. x \in operations /\ x.serverSeq \in Nat /\ x.documentId \in Docs
      BY <2>1, <2>5 DEF IInv, TypeOK, Row
    <2>7. x.documentId # DocOf(r)
      <3> SUFFICES ASSUME x.documentId = DocOf(r) PROVE FALSE
        OBVIOUS
      <3>1. x.serverSeq <= serverSeq[DocOf(r)] /\ serverSeq[DocOf(r)] <= nextSeq[r]
            /\ serverSeq[DocOf(r)] \in Nat
        BY <2>2, <2>6 DEF IInv, LogWellFormed, SlotsInRange, RowsContinueLog, CounterRead, TypeOK
      <3>2. x.operationId = NextId(r)
        BY <2>1, <2>2, <2>3, <2>6, <3>1 DEF SameKey
      <3>3. NextId(r) \in BatchIds(r)
        BY <2>4 DEF BatchIds
      <3>4. x \in known[r]
        BY <2>2, <2>6, <3>2, <3>3 DEF AckInv, Mapped
      <3>5. QED
        BY <2>2, <3>2, <3>4 DEF KnownIds
    <2>8. x.operationId = NextId(r)
      BY <2>1, <2>3, <2>7 DEF SameKey
    <2>9. QED
      BY <2>6, <2>7, <2>8
  <1>2. QED
    BY <1>1, AckInductive, PTL

(***************************************************************************)
(* What is relayed.  The operations known before the lookup are as many as *)
(* the rows it found; when they lead the batch, dropping that many from    *)
(* the front drops exactly them.                                           *)
(***************************************************************************)
\* A set of positions that is closed downwards is an initial segment.
LEMMA InitialSegment ==
    ASSUME NEW n \in Nat, NEW K \in SUBSET (1..n),
           \A i \in K : \A j \in 1..n : j < i => j \in K
    PROVE  IsFiniteSet(K) /\ Cardinality(K) \in 0..n /\ K = 1..Cardinality(K)
  <1> DEFINE c == Cardinality(K)
  <1>1. IsFiniteSet(1..n) /\ Cardinality(1..n) = n
    <2>1. 1 \in Int /\ n \in Int
      OBVIOUS
    <2>2. IsFiniteSet(1..n) /\ Cardinality(1..n) = IF 1 > n THEN 0 ELSE n - 1 + 1
      BY <2>1, FS_Interval
    <2>3. QED
      BY <2>2
  <1>2. IsFiniteSet(K) /\ c \in Nat /\ c <= n
    BY <1>1, FS_Subset, FS_CardinalityType
  <1>3. \A i \in K : i \in 1..c
    <2>1. TAKE i \in K
    <2>2. i \in Nat /\ i >= 1 /\ 1..i \in SUBSET K
      OBVIOUS
    <2>3. Cardinality(1..i) = i
      <3>1. 1 \in Int /\ i \in Int
        BY <2>2
      <3>2. Cardinality(1..i) = IF 1 > i THEN 0 ELSE i - 1 + 1
        BY <3>1, FS_Interval
      <3>3. QED
        BY <2>2, <3>2
    <2>4. Cardinality(1..i) <= c
      BY <1>2, <2>2, FS_Subset
    <2> HIDE DEF c
    <2>5. QED
      BY <1>2, <2>2, <2>3, <2>4
  <1>4. IsFiniteSet(1..c) /\ Cardinality(1..c) = c
    <2> HIDE DEF c
    <2>1. 1 \in Int /\ c \in Int
      BY <1>2
    <2>2. IsFiniteSet(1..c) /\ Cardinality(1..c) = IF 1 > c THEN 0 ELSE c - 1 + 1
      BY <2>1, FS_Interval
    <2>3. QED
      BY <1>2, <2>2
  <1>5. K \in SUBSET (1..c)
    BY <1>3
  <1>6. K = 1..c
    <2>1. Cardinality(1..c) = Cardinality(K)
      BY <1>4
    <2> HIDE DEF c
    <2>2. QED
      BY <1>4, <1>5, <2>1, FS_Subset
  <1>7. QED
    BY <1>2, <1>6

\* The positions of a batch that the lookup found.
Positions(r) == {i \in 1..Len(push[r].ops) : push[r].ops[i] \in KnownIds(r)}

\* A position found is one row, and a row found is one position.
LEMMA AsManyPositionsAsRows ==
    ASSUME IInv, AckInv, NEW r \in Requests, Distinct(push[r].ops)
    PROVE  Cardinality(Positions(r)) = Cardinality(known[r])
  <1> DEFINE P == Positions(r)
             K == known[r]
             row(i) == CHOOSE x \in K : x.operationId = push[r].ops[i]
             f == [i \in P |-> row(i)]
  <1>1. push[r].ops \in Seq(OpIds) /\ Len(push[r].ops) \in Nat
    BY BatchType DEF IInv
  <1>2. \A i \in P : row(i) \in K /\ row(i).operationId = push[r].ops[i]
    BY DEF Positions, KnownIds
  <1>3. f \in [P -> K]
    BY <1>2
  <1>4. \A i, j \in P : f[i] = f[j] => i = j
    <2>1. \A i \in P : i \in DOMAIN push[r].ops
      BY <1>1 DEF Positions
    <2>2. QED
      BY <1>2, <2>1 DEF Distinct
  <1>5. \A x \in K : \E i \in P : f[i] = x
    <2>1. TAKE x \in K
    <2>2. x \in operations /\ x.operationId \in BatchIds(r)
      BY DEF AckInv, Mapped
    <2>3. PICK i \in 1..Len(push[r].ops) : x.operationId = push[r].ops[i]
      BY <1>1, <2>2 DEF BatchIds
    <2>4. i \in P
      BY <2>3 DEF Positions, KnownIds
    <2>5. row(i) = x
      <3>1. row(i) \in operations /\ row(i).operationId = x.operationId
        BY <1>2, <2>3, <2>4 DEF AckInv, Mapped
      <3>2. QED
        BY <2>2, <3>1 DEF IInv, LogWellFormed, OneRowPerKey, SameKey
    <2>6. QED
      BY <2>4, <2>5
  <1>6. IsFiniteSet(P)
    <2>1. IsFiniteSet(1..Len(push[r].ops))
      <3>1. 1 \in Int /\ Len(push[r].ops) \in Int
        BY <1>1
      <3>2. QED
        BY <3>1, FS_Interval
    <2>2. P \in SUBSET (1..Len(push[r].ops))
      BY DEF Positions
    <2>3. QED
      BY <2>1, <2>2, FS_Subset
  <1>7. f \in Bijection(P, K)
    <2>1. DOMAIN f = P
      BY <1>3
    <2> HIDE DEF f, P, K
    <2>2. f \in Injection(P, K)
      BY <1>3, <1>4, <2>1 DEF Injection, IsInjective
    <2>3. f \in Surjection(P, K)
      BY <1>3, <1>5 DEF Surjection
    <2>4. QED
      BY <2>2, <2>3 DEF Bijection
  <1> HIDE DEF f, P, K
  <1>8. Cardinality(P) = Cardinality(K)
    BY <1>6, <1>7, FS_Bijection DEF ExistsBijection
  <1>9. QED
    BY <1>8 DEF P, K

(***************************************************************************)
(* A retry that carries newer edits behind the old ones relays exactly the *)
(* newer ones (sync.service push, slice(duplicateCount)).                  *)
(***************************************************************************)
THEOREM LeadingRetriesRelayNew == Spec => []RelayOfLeadingRetry
  <1>1. IInv /\ AckInv => RelayOfLeadingRetry
    <2> SUFFICES ASSUME IInv, AckInv, NEW r \in Requests, status[r] = "OK",
                        Distinct(push[r].ops), LeadingRetry(r)
                 PROVE  {relayed[r][i] : i \in DOMAIN relayed[r]} = rows[r]
      BY DEF RelayOfLeadingRetry
    <2> DEFINE ops == push[r].ops
               n == Len(push[r].ops)
               P == Positions(r)
               k == DuplicateCount(r)
               acks == Acknowledged(r)
    <2>1. ops \in Seq(OpIds) /\ n \in Nat /\ DOMAIN ops = 1..n
      BY BatchType DEF IInv
    <2>2. \A i \in P : \A j \in 1..n : j < i => j \in P
      <3> SUFFICES ASSUME NEW i \in P, NEW j \in 1..n, j < i, j \notin P PROVE FALSE
        OBVIOUS
      <3>1. i \in 1..n /\ ops[i] \in KnownIds(r) /\ ops[j] \notin KnownIds(r)
        BY DEF Positions
      <3>2. i < j
        BY <2>1, <3>1 DEF LeadingRetry
      <3>3. QED
        BY <2>1, <3>1, <3>2
    <2>3. P \in SUBSET (1..n)
      BY DEF Positions
    <2>4. Cardinality(P) \in 0..n /\ P = 1..Cardinality(P)
      BY <2>1, <2>2, <2>3, InitialSegment
    <2>5. k = Cardinality(P)
      BY AsManyPositionsAsRows DEF DuplicateCount
    <2>6. k \in Nat /\ k <= n /\ P = 1..k
      BY <2>1, <2>4, <2>5
    <2>7. /\ Found(r) \subseteq operations /\ known[r] \cap rows[r] = {}
          /\ \A i \in 1..n : \E x \in Found(r) : x.operationId = ops[i]
          /\ \A x \in rows[r] : x.operationId \in BatchIds(r)
          /\ relayed[r] = ToBroadcast(r)
      BY DEF AckInv, Mapped, Settled, Found
    <2>8. \A x, y \in Found(r) : x.operationId = y.operationId => x = y
      BY <2>7 DEF IInv, LogWellFormed, OneRowPerKey, SameKey
    <2>9. \A i \in 1..n : acks[i] \in Found(r) /\ acks[i].operationId = ops[i]
      BY <2>1, <2>7 DEF Acknowledged, Found
    <2>10. acks \in Seq(Row) /\ Len(acks) = n
      <3>1. Found(r) \subseteq Row
        BY <2>7 DEF IInv, TypeOK
      <3>2. acks \in [1..n -> Row]
        BY <2>1, <2>9, <3>1 DEF Acknowledged
      <3> HIDE DEF acks, n
      <3>3. QED
        BY <2>1, <3>2
    <2> HIDE DEF acks, k, n, P
    <2>11. relayed[r] = SubSeq(acks, k + 1, n)
      BY <2>7 DEF ToBroadcast, acks, k, n
    <2>12. /\ DOMAIN relayed[r] = 1..(n - k)
           /\ \A i \in 1..(n - k) : relayed[r][i] = acks[k + i]
      BY <2>1, <2>6, <2>10, <2>11
    <2>13. \A i \in 1..n : i > k <=> acks[i] \in rows[r]
      <3>1. TAKE i \in 1..n
      <3>2. i > k <=> i \notin P
        BY <2>1, <2>6
      <3>3. i \in P <=> \E x \in known[r] : x.operationId = ops[i]
        BY DEF P, n, Positions, KnownIds
      <3>4. i \in P <=> acks[i] \in known[r]
        BY <2>8, <2>9, <3>3 DEF Found
      <3>5. QED
        BY <2>7, <2>9, <3>2, <3>4 DEF Found
    <2>14. ASSUME NEW i \in 1..(n - k) PROVE relayed[r][i] \in rows[r]
      <3>1. k + i \in 1..n /\ k + i > k
        BY <2>1, <2>6
      <3>2. QED
        BY <2>12, <2>13, <3>1
    <2>15. ASSUME NEW x \in rows[r] PROVE \E i \in 1..(n - k) : relayed[r][i] = x
      <3>1. PICK j \in 1..n : x.operationId = ops[j]
        BY <2>1, <2>7 DEF BatchIds
      <3>2. acks[j] = x
        BY <2>8, <2>9, <3>1 DEF Found
      <3>3. j > k
        BY <2>13, <3>1, <3>2
      <3>4. j - k \in 1..(n - k) /\ k + (j - k) = j
        BY <2>1, <2>6, <3>1, <3>3
      <3>5. QED
        BY <2>12, <3>2, <3>4
    <2>16. QED
      BY <2>12, <2>14, <2>15
  <1>2. QED
    BY <1>1, AckInductive, PTL

------------------------------------------------------------------------------
(***************************************************************************)
(* The refinement of SyncLog.  Only a commit changes the logs; what it     *)
(* appends is in the batch's order because slots are handed out while the  *)
(* batch is mapped from its first operation to its last.                   *)
(***************************************************************************)
InOrder(r) ==
    pc[r] \in Mapping =>
        /\ \A x, y \in rows[r] : \A i, j \in 1..at[r] :
              x.operationId = push[r].ops[i] /\ y.operationId = push[r].ops[j]
                  => (x.serverSeq < y.serverSeq <=> i < j)
        /\ \A x \in rows[r] : nextSeq[r] < x.serverSeq + at[r]

OrderInv == \A r \in Requests : InOrder(r)

\* A step that maps no operation.
LEMMA OrderKept ==
    ASSUME OrderInv, push' = push,
           \A t \in Requests : pc'[t] \in Mapping =>
               /\ pc[t] \in Mapping \/ rows[t] = {}
               /\ rows'[t] = rows[t] /\ at'[t] = at[t] /\ nextSeq'[t] = nextSeq[t]
    PROVE  OrderInv'
  BY DEF OrderInv, InOrder

LEMMA InsertKeepsOrder ==
    ASSUME IInv, AckInv, OrderInv, TypeOK', NEW r \in Requests, InsertRow(r)
    PROVE  OrderInv'
  <1> DEFINE new == NextRow(r)
             ops == push[r].ops
  <1>1. /\ pc' = pc /\ push' = push
        /\ rows'[r] = rows[r] \cup {new}
        /\ nextSeq'[r] = nextSeq[r] + 1
        /\ at'[r] = at[r] + 1
        /\ \A t \in Requests : t # r =>
              rows'[t] = rows[t] /\ nextSeq'[t] = nextSeq[t] /\ at'[t] = at[t]
    BY DEF InsertRow, IInv, TypeOK
  <1>2. pc[r] = "insert" /\ NextId(r) \notin KnownIds(r)
    BY DEF InsertRow, AtFresh
  <1>3. /\ at[r] \in Nat /\ nextSeq[r] \in Nat
        /\ \A x \in rows[r] : x.serverSeq \in Nat
    BY DEF IInv, TypeOK, Row
  <1>4. new.operationId = ops[at[r] + 1] /\ new.serverSeq = nextSeq[r] + 1
    BY DEF NextRow, NextId
  <1>5. \A x \in rows[r] : x.operationId # new.operationId
    BY DEF InsertRow, Duplicate, SameKey
  <1>6. \A i \in 1..at[r] : ops[i] # new.operationId
    <2> SUFFICES ASSUME NEW i \in 1..at[r], ops[i] = new.operationId PROVE FALSE
      OBVIOUS
    <2>1. PICK x \in Found(r) : x.operationId = ops[i]
      BY <1>2 DEF AckInv, Mapped, Mapping
    <2>2. x \notin known[r]
      BY <2>1, <1>2, <1>4 DEF KnownIds, NextId
    <2> QED
      BY <2>1, <2>2, <1>5 DEF Found
  <1>7. \A x \in rows[r] : x.serverSeq <= nextSeq[r]
    BY <1>2 DEF IInv, RowsContinueLog, CounterRead
  <1>8. InOrder(r)'
    <2>1. \A x \in rows[r] : nextSeq[r] < x.serverSeq + at[r]
      BY <1>2 DEF OrderInv, InOrder, Mapping
    <2>2. \A x \in rows'[r] : nextSeq'[r] < x.serverSeq + at'[r]
      BY <1>1, <1>3, <1>4, <2>1
    <2>3. ASSUME NEW x \in rows'[r], NEW y \in rows'[r],
                 NEW i \in 1..at'[r], NEW j \in 1..at'[r],
                 x.operationId = ops[i], y.operationId = ops[j]
          PROVE  x.serverSeq < y.serverSeq <=> i < j
      <3>1. \A z \in rows'[r] : \A k \in 1..at'[r] :
                z.operationId = ops[k] => (z = new /\ k = at[r] + 1) \/ (z \in rows[r] /\ k \in 1..at[r])
        BY <1>1, <1>3, <1>4, <1>5, <1>6
      <3>2. CASE x \in rows[r] /\ i \in 1..at[r] /\ y \in rows[r] /\ j \in 1..at[r]
        BY <2>3, <3>2, <1>2 DEF OrderInv, InOrder, Mapping
      <3>3. CASE x = new /\ i = at[r] + 1
        BY <2>3, <3>1, <3>3, <1>3, <1>4, <1>7
      <3>4. CASE x \in rows[r] /\ i \in 1..at[r] /\ y = new /\ j = at[r] + 1
        BY <2>3, <3>4, <1>3, <1>4, <1>7
      <3> QED
        BY <2>3, <3>1, <3>2, <3>3, <3>4
    <2> QED
      BY <1>1, <2>2, <2>3 DEF InOrder
  <1>9. \A t \in Requests : t # r => InOrder(t)'
    BY <1>1 DEF OrderInv, InOrder
  <1> QED
    BY <1>8, <1>9 DEF OrderInv

LEMMA SkipKeepsOrder ==
    ASSUME IInv, AckInv, OrderInv, TypeOK', NEW r \in Requests, SkipKnown(r)
    PROVE  OrderInv'
  <1>1. /\ pc' = pc /\ push' = push /\ rows' = rows /\ nextSeq' = nextSeq
        /\ at'[r] = at[r] + 1
        /\ \A t \in Requests : t # r => at'[t] = at[t]
    BY DEF SkipKnown, IInv, TypeOK
  <1>2. pc[r] = "insert" /\ NextId(r) \in KnownIds(r)
    BY DEF SkipKnown
  <1>3. /\ at[r] \in Nat /\ nextSeq[r] \in Nat
        /\ \A x \in rows[r] : x.serverSeq \in Nat
    BY DEF IInv, TypeOK, Row
  <1>4. \A x \in rows[r] : x.operationId # push[r].ops[at[r] + 1]
    <2>1. known[r] \subseteq operations
      BY DEF AckInv, Mapped
    <2>2. \A x \in rows[r] : \A y \in operations : x.operationId # y.operationId
      BY <1>2 DEF IInv, UncommittedKeysFree, InTransaction, SameKey
    <2> QED
      BY <1>2, <2>1, <2>2 DEF KnownIds, NextId
  <1>5. InOrder(r)'
    <2>1. \A x \in rows[r] : \A i \in 1..at'[r] :
              x.operationId = push[r].ops[i] => i \in 1..at[r]
      BY <1>1, <1>3, <1>4
    <2> QED
      BY <1>1, <1>2, <1>3, <2>1 DEF OrderInv, InOrder, Mapping
  <1>6. \A t \in Requests : t # r => InOrder(t)'
    BY <1>1 DEF OrderInv, InOrder
  <1> QED
    BY <1>5, <1>6 DEF OrderInv

EndPhases == {"relay", "touch", "done"}

\* What the other steps leave alone.
QuietNext ==
    /\ UNCHANGED <<push, operations, serverSeq>>
    /\ \A t \in Requests :
          /\ pc[t] \in EndPhases => pc'[t] \in EndPhases
          /\ pc'[t] \in Mapping =>
                /\ pc[t] \in Mapping \/ rows[t] = {}
                /\ rows'[t] = rows[t] /\ at'[t] = at[t] /\ nextSeq'[t] = nextSeq[t]

LEMMA AnswerIsQuiet ==
    ASSUME IInv, NEW r \in Requests, NEW s, Answer(r, s)
    PROVE  QuietNext
  <1>1. /\ UNCHANGED <<push, operations, serverSeq, at, nextSeq>>
        /\ pc'[r] = "done"
        /\ \A t \in Requests : t # r => pc'[t] = pc[t] /\ rows'[t] = rows[t]
    BY DEF Answer, dbVars, IInv, TypeOK
  <1> QED
    BY <1>1 DEF QuietNext, EndPhases, Mapping

LEMMA MoveIsQuiet ==
    ASSUME IInv, NEW r \in Requests, NEW q, Goto(r, q),
           UNCHANGED <<push, operations, serverSeq, rows, at>>,
           pc[r] \in EndPhases => q \in EndPhases,
           q \in Mapping => (pc[r] \in Mapping \/ rows[r] = {}) /\ nextSeq'[r] = nextSeq[r],
           \A t \in Requests : t # r => nextSeq'[t] = nextSeq[t]
    PROVE  QuietNext
  <1>1. pc'[r] = q /\ \A t \in Requests : t # r => pc'[t] = pc[t]
    BY DEF Goto, IInv, TypeOK
  <1> QED
    BY <1>1 DEF QuietNext

LEMMA StepIsQuiet ==
    ASSUME IInv, NEW r \in Requests, Submit(r) \/ Step(r),
           ~InsertRow(r), ~SkipKnown(r), ~Commit(r)
    PROVE  QuietNext
  <1> USE DEF EndPhases, Mapping, dbVars, batchVars
  <1>1. CASE \E s \in Statuses : Answer(r, s)
    BY <1>1, AnswerIsQuiet
  <1>2. CASE Submit(r) \/ Authorize(r) \/ Consume(r) \/ Begin(r) \/ AcquireLock(r)
    <2>1. ASSUME NEW q \in {"authorize", "consume", "begin", "lock", "read"}, Goto(r, q),
                 pc[r] \in {"new", "authorize", "consume", "begin", "lock"},
                 UNCHANGED <<dbVars, push, batchVars>>
          PROVE  QuietNext
      BY <2>1, MoveIsQuiet
    <2> QED
      BY <1>1, <1>2, <2>1 DEF Submit, Authorize, Consume, Begin, AcquireLock, Statuses
  <1>3. CASE ReadDocument(r)
    <2>1. CASE Answer(r, "NOT_FOUND")
      BY <1>1, <2>1 DEF Statuses
    <2>2. CASE Goto(r, "dedupe") /\ nextSeq' = [nextSeq EXCEPT ![r] = serverSeq[DocOf(r)]]
               /\ UNCHANGED <<dbVars, push, at, rows>>
      <3>1. \A t \in Requests : t # r => nextSeq'[t] = nextSeq[t]
        BY <2>2 DEF IInv, TypeOK
      <3>2. pc[r] = "read"
        BY <1>3 DEF ReadDocument
      <3> QED
        BY <2>2, <3>1, <3>2, MoveIsQuiet
    <2> QED
      BY <1>3, <2>1, <2>2 DEF ReadDocument
  <1>4. CASE ReadCommitted(r)
    <2>1. rows[r] = {}
      BY <1>4 DEF ReadCommitted, IInv, RowsContinueLog, BeforeInsert
    <2>2. /\ pc[r] = "dedupe" /\ Goto(r, "insert")
          /\ UNCHANGED <<push, operations, serverSeq, rows, at, nextSeq>>
      BY <1>4 DEF ReadCommitted
    <2> QED
      BY <2>1, <2>2, MoveIsQuiet
  <1>5. CASE UpdateDocument(r)
    BY <1>5, MoveIsQuiet DEF UpdateDocument
  <1>6. CASE Relay(r)
    BY <1>6, MoveIsQuiet DEF Relay
  <1>7. CASE TouchSession(r)
    BY <1>7, MoveIsQuiet DEF TouchSession
  <1>8. CASE UniqueViolation(r)
    BY <1>1, <1>8 DEF UniqueViolation, Statuses
  <1> QED
    BY <1>2, <1>3, <1>4, <1>5, <1>6, <1>7, <1>8 DEF Step

LEMMA CrashIsQuiet ==
    ASSUME NEW i \in Instances, Crash(i)
    PROVE  QuietNext
  <1>1. /\ UNCHANGED <<push, operations, serverSeq, at, nextSeq>>
        /\ \A t \in Requests : pc'[t] = "done" \/ pc'[t] = pc[t]
    BY DEF Crash, dbVars
  <1>2. \A t \in Requests : pc'[t] \in Mapping => pc'[t] = pc[t] /\ rows'[t] = rows[t]
    BY DEF Crash, Mapping
  <1> QED
    BY <1>1, <1>2 DEF QuietNext, EndPhases

LEMMA NextIsQuiet ==
    ASSUME IInv, [Next]_vars,
           \A r \in Requests : ~InsertRow(r) /\ ~SkipKnown(r) /\ ~Commit(r)
    PROVE  QuietNext
  <1>1. ASSUME NEW r \in Requests, TransactionFails(r) \/ CommitUnconfirmed(r) PROVE QuietNext
    BY <1>1, AnswerIsQuiet DEF TransactionFails, CommitUnconfirmed
  <1>2. ASSUME UNCHANGED <<push, operations, serverSeq, pc, rows, at, nextSeq>> PROVE QuietNext
    BY <1>2 DEF QuietNext
  <1>3. ASSUME NEW u \in Users, NEW d \in Docs, SoftDelete(u, d) \/ Restore(u, d) PROVE QuietNext
    BY <1>2, <1>3 DEF SoftDelete, Restore, batchVars
  <1>4. CASE UNCHANGED vars
    BY <1>2, <1>4 DEF vars, dbVars, batchVars
  <1> QED
    BY <1>1, <1>3, <1>4, StepIsQuiet, CrashIsQuiet DEF Next

LEMMA NextKeepsOrder ==
    IInv /\ AckInv /\ OrderInv /\ TypeOK' /\ [Next]_vars => OrderInv'
  <1> SUFFICES ASSUME IInv, AckInv, OrderInv, TypeOK', [Next]_vars PROVE OrderInv'
    OBVIOUS
  <1>1. ASSUME NEW r \in Requests, Commit(r) PROVE OrderInv'
    <2>1. \A t \in Requests : pc'[t] \in Mapping => pc'[t] = pc[t]
      BY <1>1 DEF Commit, Goto, IInv, TypeOK, Mapping
    <2>2. UNCHANGED <<push, rows, at, nextSeq>>
      BY <1>1 DEF Commit, batchVars
    <2> QED
      BY <2>1, <2>2, OrderKept
  <1>2. CASE QuietNext
    BY <1>2, OrderKept DEF QuietNext
  <1> QED
    BY <1>1, <1>2, NextIsQuiet, InsertKeepsOrder, SkipKeepsOrder

LEMMA OrderInductive == Spec => [](IInv /\ AckInv /\ OrderInv)
  <1>1. Init => OrderInv
    BY DEF Init, OrderInv, InOrder, Mapping
  <1>2. IInv => TypeOK
    BY DEF IInv
  <1> QED
    BY <1>1, <1>2, NextKeepsOrder, AckInductive, PTL DEF Spec

------------------------------------------------------------------------------
(***************************************************************************)
(* The logs that the committed rows stand for.                             *)
(***************************************************************************)
\* A slot names its row.
LEMMA RowAtSlot ==
    ASSUME LogWellFormed, NEW x \in operations
    PROVE  RowAt(x.documentId, x.serverSeq) = x
  BY DEF LogWellFormed, OneRowPerKey, SameKey, RowAt

LEMMA SlotHasRow ==
    ASSUME LogWellFormed, NEW d \in Docs, NEW n \in 1..serverSeq[d]
    PROVE  /\ RowAt(d, n) \in operations
           /\ RowAt(d, n).documentId = d
           /\ RowAt(d, n).serverSeq = n
  BY DEF LogWellFormed, NoHole, RowAt

LEMMA OfLength ==
    ASSUME NEW S, NEW N \in Nat, NEW s, s = [n \in 1..N |-> s[n]], \A n \in 1..N : s[n] \in S
    PROVE  s \in Seq(S) /\ Len(s) = N
  <1>1. s \in [1..N -> S]
    OBVIOUS
  <1> QED
    BY <1>1

LEMMA LogType ==
    ASSUME TypeOK, LogWellFormed, NEW d \in Docs
    PROVE  LogOf(d) \in Seq(OpIds) /\ Len(LogOf(d)) = serverSeq[d]
  <1>1. serverSeq[d] \in Nat
    BY DEF TypeOK
  <1>2. \A n \in 1..serverSeq[d] : RowAt(d, n).operationId \in OpIds
    BY SlotHasRow DEF TypeOK, Row
  <1> QED
    BY <1>1, <1>2 DEF LogOf

\* What the abstract log stores is what the table does.
LEMMA StoredIds ==
    ASSUME TypeOK, LogWellFormed
    PROVE  Abstract!Stored = {x.operationId : x \in operations}
  <1>1. ASSUME NEW d \in Docs
        PROVE  Abstract!Range(LogOf(d)) = {RowAt(d, n).operationId : n \in 1..serverSeq[d]}
    BY DEF Abstract!Range, LogOf
  <1>2. Abstract!Stored = UNION {Abstract!Range(LogOf(d)) : d \in Docs}
    BY DEF Abstract!Stored, Logs
  <1>3. ASSUME NEW x \in operations
        PROVE  x.operationId \in Abstract!Stored
    <2>1. x.documentId \in Docs /\ x.serverSeq \in 1..serverSeq[x.documentId]
      BY DEF TypeOK, Row, LogWellFormed, SlotsInRange
    <2>2. RowAt(x.documentId, x.serverSeq).operationId = x.operationId
      BY RowAtSlot
    <2> QED
      BY <2>1, <2>2, <1>1, <1>2
  <1>4. ASSUME NEW d \in Docs, NEW n \in 1..serverSeq[d]
        PROVE  RowAt(d, n).operationId \in {x.operationId : x \in operations}
    BY SlotHasRow
  <1> QED
    BY <1>1, <1>2, <1>3, <1>4

\* A log is as long as its counter; only its rows tell what is in it.
LEMMA LogsKept ==
    ASSUME UNCHANGED <<operations, serverSeq>>
    PROVE  Logs' = Logs
  BY DEF Logs, LogOf, RowAt

LEMMA QuietIsAbstract ==
    ASSUME QuietNext
    PROVE  Abstract!Next
  <1> DEFINE R == Ended' \ Ended
  <1>1. R \in SUBSET Requests /\ R \cap Ended = {} /\ Ended' = Ended \cup R
    BY DEF QuietNext, Ended, EndPhases
  <1>2. push' = push /\ Logs' = Logs
    BY LogsKept DEF QuietNext
  <1>3. Abstract!Drop(R)
    BY <1>1, <1>2 DEF Abstract!Drop
  <1> QED
    BY <1>1, <1>3 DEF Abstract!Next

\* Mapping an operation changes nothing anyone else can see.
LEMMA TurnIsAbstract ==
    ASSUME NEW r \in Requests, InsertRow(r) \/ SkipKnown(r)
    PROVE  UNCHANGED Abstract!vars
  <1>1. UNCHANGED <<operations, serverSeq, push, pc>>
    BY DEF InsertRow, SkipKnown, dbVars
  <1>2. Logs' = Logs /\ Ended' = Ended
    BY <1>1, LogsKept DEF Ended
  <1> QED
    BY <1>1, <1>2 DEF Abstract!vars

(***************************************************************************)
(* The commit is the step that stores the batch.                           *)
(***************************************************************************)
\* A sequence is the concatenation of its halves.
LEMMA Halves ==
    ASSUME NEW S, NEW s \in Seq(S), NEW t \in Seq(S), NEW u \in Seq(S),
           Len(u) = Len(s) + Len(t),
           \A n \in 1..Len(s) : u[n] = s[n],
           \A n \in 1..Len(t) : u[Len(s) + n] = t[n]
    PROVE  u = s \o t
  <1>1. s \o t \in Seq(S) /\ Len(s \o t) = Len(u)
    OBVIOUS
  <1>2. ASSUME NEW n \in 1..Len(u) PROVE (s \o t)[n] = u[n]
    <2>1. CASE n <= Len(s)
      BY <2>1
    <2>2. CASE ~(n <= Len(s))
      <3>1. n - Len(s) \in 1..Len(t)
        BY <2>2
      <3>2. u[Len(s) + (n - Len(s))] = t[n - Len(s)]
        BY <3>1
      <3> QED
        BY <2>2, <3>1, <3>2
    <2> QED
      BY <2>1, <2>2
  <1> QED
    BY <1>1, <1>2

\* The ids a push has inserted, by slot.
Inserted(r) ==
    [n \in 1..(nextSeq[r] - serverSeq[DocOf(r)]) |->
        (CHOOSE x \in rows[r] : x.serverSeq = serverSeq[DocOf(r)] + n).operationId]

\* What is known of the rows at the commit, in one place.
LEMMA RowsAtCommit ==
    ASSUME IInv, AckInv, OrderInv, NEW r \in Requests, Commit(r)
    PROVE  LET d == DocOf(r) IN
           /\ d \in Docs /\ serverSeq[d] \in Nat /\ nextSeq[r] \in Nat
           /\ serverSeq[d] <= nextSeq[r]
           /\ \A x \in rows[r] :
                 /\ x.documentId = d
                 /\ x.serverSeq \in (serverSeq[d] + 1)..nextSeq[r]
                 /\ x.operationId \in OpIds
           /\ \A n \in (serverSeq[d] + 1)..nextSeq[r] : \E x \in rows[r] : x.serverSeq = n
           /\ \A x, y \in rows[r] : x.serverSeq = y.serverSeq => x = y
           /\ operations' = operations \cup rows[r]
           /\ serverSeq'[d] = nextSeq[r]
           /\ \A e \in Docs : e # d => serverSeq'[e] = serverSeq[e]
  <1> DEFINE d == DocOf(r)
  <1>1. d \in Docs /\ serverSeq[d] \in Nat /\ nextSeq[r] \in Nat
    BY BatchType DEF IInv, TypeOK, DocOf
  <1>2. pc[r] \in CounterRead
    BY DEF Commit, CounterRead
  <1>3. /\ serverSeq[d] <= nextSeq[r]
        /\ \A x \in rows[r] : x.documentId = d /\ serverSeq[d] < x.serverSeq /\ x.serverSeq <= nextSeq[r]
        /\ \A n \in (serverSeq[d] + 1)..nextSeq[r] : \E x \in rows[r] : x.serverSeq = n
        /\ \A x, y \in rows[r] : SameKey(x, y) => x = y
    BY <1>2 DEF IInv, RowsContinueLog
  <1>4. \A x \in rows[r] : x.serverSeq \in Nat /\ x.operationId \in OpIds
    BY DEF IInv, TypeOK, Row
  <1>5. /\ operations' = operations \cup rows[r]
        /\ \A e \in Docs : e # d => serverSeq'[e] = serverSeq[e]
    BY <1>1 DEF Commit, IInv, TypeOK
  <1>6. serverSeq'[d] = nextSeq[r]
    <2>1. CASE rows[r] = {}
      <3>1. serverSeq[d] = nextSeq[r]
        BY <2>1, <1>1, <1>3
      <3> QED
        BY <2>1, <3>1 DEF Commit
    <2>2. CASE rows[r] # {}
      BY <2>2, <1>1 DEF Commit, IInv, TypeOK
    <2> QED
      BY <2>1, <2>2
  <1>7. \A x \in rows[r] : x.serverSeq \in (serverSeq[d] + 1)..nextSeq[r]
    BY <1>1, <1>3, <1>4
  <1>8. \A x, y \in rows[r] : x.serverSeq = y.serverSeq => x = y
    BY <1>3 DEF SameKey
  <1> QED
    BY <1>1, <1>3, <1>4, <1>5, <1>6, <1>7, <1>8

LEMMA InsertedAt ==
    ASSUME IInv, AckInv, OrderInv, NEW r \in Requests, Commit(r),
           NEW n \in 1..(nextSeq[r] - serverSeq[DocOf(r)])
    PROVE  \E x \in rows[r] : /\ x.serverSeq = serverSeq[DocOf(r)] + n
                              /\ Inserted(r)[n] = x.operationId
  <1> DEFINE d == DocOf(r)
             row == CHOOSE x \in rows[r] : x.serverSeq = serverSeq[d] + n
  <1>1. serverSeq[d] + n \in (serverSeq[d] + 1)..nextSeq[r]
    BY RowsAtCommit
  <1>2. row \in rows[r] /\ row.serverSeq = serverSeq[d] + n
    BY <1>1, RowsAtCommit
  <1>3. Inserted(r)[n] = row.operationId
    BY DEF Inserted
  <1> QED
    BY <1>2, <1>3

LEMMA InsertedType ==
    ASSUME IInv, AckInv, OrderInv, NEW r \in Requests, Commit(r)
    PROVE  /\ Inserted(r) \in Seq(OpIds)
           /\ Len(Inserted(r)) = nextSeq[r] - serverSeq[DocOf(r)]
           /\ Abstract!Range(Inserted(r)) = {x.operationId : x \in rows[r]}
  <1> DEFINE d == DocOf(r)
             k == nextSeq[r] - serverSeq[d]
  <1>1. k \in Nat
    BY RowsAtCommit
  <1>2. \A n \in 1..k : Inserted(r)[n] \in {x.operationId : x \in rows[r]}
    BY InsertedAt
  <1>3. {x.operationId : x \in rows[r]} \subseteq OpIds
    BY RowsAtCommit
  <1>4. DOMAIN Inserted(r) = 1..k /\ Inserted(r) = [n \in 1..k |-> Inserted(r)[n]]
    BY DEF Inserted
  <1>5. ASSUME NEW x \in rows[r] PROVE \E n \in 1..k : Inserted(r)[n] = x.operationId
    <2>1. x.serverSeq - serverSeq[d] \in 1..k
      BY RowsAtCommit
    <2>2. PICK y \in rows[r] : /\ y.serverSeq = serverSeq[d] + (x.serverSeq - serverSeq[d])
                               /\ Inserted(r)[x.serverSeq - serverSeq[d]] = y.operationId
      BY <2>1, InsertedAt
    <2>3. y = x
      BY <2>2, RowsAtCommit
    <2> QED
      BY <2>1, <2>2, <2>3
  <1> HIDE DEF k
  <1>6. Inserted(r) \in Seq(OpIds) /\ Len(Inserted(r)) = k
    BY <1>1, <1>2, <1>3, <1>4
  <1>7. Abstract!Range(Inserted(r)) = {x.operationId : x \in rows[r]}
    BY <1>2, <1>4, <1>5 DEF Abstract!Range
  <1> QED
    BY <1>6, <1>7 DEF k

\* A commit leaves the rows below the counter where they are.
LEMMA RowsStay ==
    ASSUME IInv, IInv', AckInv, OrderInv, NEW r \in Requests, Commit(r),
           NEW e \in Docs, NEW n \in 1..serverSeq[e]
    PROVE  n \in 1..serverSeq'[e] /\ RowAt(e, n)' = RowAt(e, n)
  <1>1. /\ RowAt(e, n) \in operations' /\ RowAt(e, n).documentId = e /\ RowAt(e, n).serverSeq = n
    BY SlotHasRow, RowsAtCommit DEF IInv
  <1>2. \A x \in operations' : x.documentId = e /\ x.serverSeq = n => x = RowAt(e, n)
    BY <1>1 DEF IInv, LogWellFormed, OneRowPerKey, SameKey
  <1>3. serverSeq[e] \in Nat /\ serverSeq'[e] \in Nat
    BY DEF IInv, TypeOK
  <1>4. serverSeq[e] <= serverSeq'[e]
    <2>1. CASE e = DocOf(r)
      BY <2>1, RowsAtCommit
    <2>2. CASE e # DocOf(r)
      BY <1>3, <2>2, RowsAtCommit
    <2> QED
      BY <2>1, <2>2
  <1> QED
    BY <1>1, <1>2, <1>3, <1>4 DEF RowAt

LEMMA CommitAppends ==
    ASSUME IInv, IInv', AckInv, OrderInv, NEW r \in Requests, Commit(r)
    PROVE  Logs' = [Logs EXCEPT ![DocOf(r)] = @ \o Inserted(r)]
  <1> DEFINE d == DocOf(r)
  <1>1. \A e \in Docs : \A n \in 1..serverSeq[e] : RowAt(e, n)' = RowAt(e, n)
    BY RowsStay
  <1>2. ASSUME NEW e \in Docs, e # d PROVE LogOf(e)' = LogOf(e)
    BY <1>1, <1>2, RowsAtCommit DEF LogOf
  <1>3. ASSUME NEW e \in Docs, e = d PROVE LogOf(e)' = LogOf(e) \o Inserted(r)
    <2>1. /\ LogOf(e) \in Seq(OpIds) /\ Len(LogOf(e)) = serverSeq[e]
          /\ LogOf(e)' \in Seq(OpIds) /\ Len(LogOf(e)') = serverSeq'[e]
      <3>1. LogOf(e) \in Seq(OpIds) /\ Len(LogOf(e)) = serverSeq[e]
        BY LogType DEF IInv
      <3>2. serverSeq'[e] \in Nat
        BY DEF IInv, TypeOK
      <3>3. \A n \in 1..serverSeq'[e] : RowAt(e, n)'.operationId \in OpIds
        BY DEF IInv, LogWellFormed, NoHole, RowAt, TypeOK, Row
      <3>4. LogOf(e)' = [n \in 1..serverSeq'[e] |-> LogOf(e)'[n]]
        BY DEF LogOf
      <3>5. \A n \in 1..serverSeq'[e] : LogOf(e)'[n] = RowAt(e, n)'.operationId
        BY DEF LogOf
      <3>6. \A n \in 1..serverSeq'[e] : LogOf(e)'[n] \in OpIds
        BY <3>3, <3>5
      <3>7. LogOf(e)' \in Seq(OpIds) /\ Len(LogOf(e)') = serverSeq'[e]
        BY <3>2, <3>4, <3>6, OfLength
      <3> QED
        BY <3>1, <3>7
    <2>2. /\ Inserted(r) \in Seq(OpIds)
          /\ Len(LogOf(e)') = Len(LogOf(e)) + Len(Inserted(r))
      BY <1>3, <2>1, InsertedType, RowsAtCommit
    <2>3. \A n \in 1..Len(LogOf(e)) : LogOf(e)'[n] = LogOf(e)[n]
      <3>1. \A n \in 1..serverSeq[e] : n \in 1..serverSeq'[e]
        BY <1>3, RowsAtCommit
      <3>2. \A n \in 1..serverSeq[e] : LogOf(e)[n] = RowAt(e, n).operationId
        BY DEF LogOf
      <3>3. \A n \in 1..serverSeq'[e] : LogOf(e)'[n] = RowAt(e, n)'.operationId
        BY DEF LogOf
      <3> QED
        BY <1>1, <2>1, <3>1, <3>2, <3>3
    <2>4. ASSUME NEW n \in 1..Len(Inserted(r))
          PROVE  LogOf(e)'[Len(LogOf(e)) + n] = Inserted(r)[n]
      <3>1. n \in 1..(nextSeq[r] - serverSeq[d])
        BY InsertedType
      <3>2. PICK m \in 1..serverSeq'[e] : m = serverSeq[e] + n
        BY <1>3, <3>1, RowsAtCommit
      <3>3. PICK x \in rows[r] : x.serverSeq = m /\ Inserted(r)[n] = x.operationId
        BY <1>3, <3>1, <3>2, InsertedAt
      <3>4. x \in operations' /\ x.documentId = e
        BY <1>3, RowsAtCommit
      <3>5. \A y \in operations' : y.documentId = e /\ y.serverSeq = m => y = x
        BY <3>3, <3>4 DEF IInv, LogWellFormed, OneRowPerKey, SameKey
      <3>6. RowAt(e, m)' = x
        BY <3>3, <3>4, <3>5 DEF RowAt
      <3>7. LogOf(e)'[m] = RowAt(e, m)'.operationId
        BY DEF LogOf
      <3> QED
        BY <2>1, <3>2, <3>3, <3>6, <3>7
    <2> QED
      BY <2>1, <2>2, <2>3, <2>4, Halves
  <1>4. d' = d /\ d \in Docs
    BY RowsAtCommit DEF Commit, DocOf
  <1> QED
    BY <1>2, <1>3, <1>4 DEF Logs

\* The rows of a push that commits are the part of its batch that no
\* document stores: what the lookup found is stored, the rest was inserted.
LEMMA InsertedIds ==
    ASSUME IInv, AckInv, OrderInv, NEW r \in Requests, Commit(r)
    PROVE  {x.operationId : x \in rows[r]} = Abstract!NewIds(r)
  <1>1. /\ pc[r] = "commit" /\ Mapped(r)
        /\ push[r].ops \in Seq(OpIds)
    BY BatchType DEF Commit, AckInv, IInv
  <1>2. /\ at[r] = Len(push[r].ops)
        /\ \A i \in 1..Len(push[r].ops) : \E x \in Found(r) : x.operationId = push[r].ops[i]
        /\ \A x \in rows[r] : \E i \in 1..Len(push[r].ops) : x.operationId = push[r].ops[i]
    BY <1>1 DEF Mapped, Mapping
  <1>3. Abstract!NewIds(r) = {push[r].ops[i] : i \in DOMAIN push[r].ops} \ {x.operationId : x \in operations}
    BY StoredIds DEF Abstract!NewIds, Abstract!Range, IInv
  <1>4. ASSUME NEW x \in rows[r] PROVE x.operationId \in Abstract!NewIds(r)
    <2>1. \A y \in operations : y.operationId # x.operationId
      BY <1>1 DEF IInv, UncommittedKeysFree, InTransaction, SameKey
    <2> QED
      BY <1>1, <1>2, <1>3, <2>1
  <1>5. ASSUME NEW i \in DOMAIN push[r].ops,
               push[r].ops[i] \notin {x.operationId : x \in operations}
        PROVE  push[r].ops[i] \in {x.operationId : x \in rows[r]}
    <2>1. i \in 1..Len(push[r].ops)
      BY <1>1
    <2>2. PICK x \in Found(r) : x.operationId = push[r].ops[i]
      BY <1>2, <2>1
    <2>3. x \notin known[r]
      BY <1>1, <1>5, <2>2 DEF Mapped
    <2> QED
      BY <2>2, <2>3 DEF Found
  <1> QED
    BY <1>3, <1>4, <1>5

\* They are in the batch's order, and no more than the batch has operations.
LEMMA InsertedInOrder ==
    ASSUME IInv, AckInv, OrderInv, NEW r \in Requests, Commit(r)
    PROVE  /\ Abstract!InOrderOf(Inserted(r), push[r].ops)
           /\ Len(Inserted(r)) \in 0..Len(push[r].ops)
  <1> DEFINE d == DocOf(r)
             k == nextSeq[r] - serverSeq[d]
             ops == push[r].ops
  <1>1. pc[r] \in Mapping /\ ops \in Seq(OpIds) /\ at[r] = Len(ops)
    BY BatchType DEF Commit, AckInv, Mapped, Mapping, IInv, TypeOK
  <1>2. /\ \A x, y \in rows[r] : \A i, j \in 1..Len(ops) :
              x.operationId = ops[i] /\ y.operationId = ops[j]
                  => (x.serverSeq < y.serverSeq <=> i < j)
        /\ \A x \in rows[r] : nextSeq[r] < x.serverSeq + Len(ops)
    BY <1>1 DEF OrderInv, InOrder
  <1>3. k \in Nat /\ serverSeq[d] \in Nat /\ nextSeq[r] \in Nat /\ Len(Inserted(r)) = k
        /\ Len(ops) \in Nat
    BY <1>1, RowsAtCommit, InsertedType
  <1>4. Abstract!InOrderOf(Inserted(r), ops)
    <2> SUFFICES ASSUME NEW i \in DOMAIN Inserted(r), NEW j \in DOMAIN Inserted(r),
                        NEW m \in DOMAIN ops, NEW n \in DOMAIN ops,
                        Inserted(r)[i] = ops[m], Inserted(r)[j] = ops[n]
                 PROVE  i < j <=> m < n
      BY DEF Abstract!InOrderOf
    <2>1. i \in 1..k /\ j \in 1..k /\ m \in 1..Len(ops) /\ n \in 1..Len(ops)
      BY <1>1 DEF Inserted
    <2>2. PICK x \in rows[r] : x.serverSeq = serverSeq[d] + i /\ x.operationId = ops[m]
      BY <2>1, InsertedAt
    <2>3. PICK y \in rows[r] : y.serverSeq = serverSeq[d] + j /\ y.operationId = ops[n]
      BY <2>1, InsertedAt
    <2>4. x.serverSeq < y.serverSeq <=> m < n
      BY <1>2, <2>1, <2>2, <2>3
    <2> QED
      BY <1>3, <2>1, <2>2, <2>3, <2>4
  <1>5. k <= Len(ops)
    <2>1. CASE k = 0
      BY <1>3, <2>1
    <2>2. CASE k # 0
      <3>1. 1 \in 1..k
        BY <1>3, <2>2
      <3>2. PICK x \in rows[r] : x.serverSeq = serverSeq[d] + 1
        BY <3>1, InsertedAt
      <3>3. nextSeq[r] < serverSeq[d] + 1 + Len(ops)
        BY <1>2, <3>2
      <3> QED
        BY <1>3, <3>3
    <2> QED
      BY <2>1, <2>2
  <1> QED
    BY <1>3, <1>4, <1>5

LEMMA CommitIsAbstract ==
    ASSUME IInv, IInv', AckInv, OrderInv, NEW r \in Requests, Commit(r)
    PROVE  Abstract!Store(r)
  <1>1. Inserted(r) \in UNION {[1..n -> Abstract!NewIds(r)] : n \in 0..Len(push[r].ops)}
    <2> DEFINE s == Inserted(r)
    <2>1. s \in Seq(OpIds) /\ Len(s) \in 0..Len(push[r].ops)
      BY InsertedType, InsertedInOrder
    <2>2. \A n \in DOMAIN s : s[n] \in Abstract!NewIds(r)
      BY InsertedType, InsertedIds DEF Abstract!Range
    <2> HIDE DEF s
    <2>3. s \in [1..Len(s) -> Abstract!NewIds(r)]
      BY <2>1, <2>2
    <2> QED
      BY <2>1, <2>3 DEF s
  <1>2. Abstract!Range(Inserted(r)) = Abstract!NewIds(r)
    BY InsertedType, InsertedIds
  <1>3. Logs' = [Logs EXCEPT ![push[r].doc] = @ \o Inserted(r)]
    BY CommitAppends DEF DocOf
  <1>4. /\ r \notin Ended /\ Ended' = Ended \cup {r}
        /\ UNCHANGED push
    BY DEF Commit, Goto, Ended, IInv, TypeOK
  <1> QED
    BY <1>1, <1>2, <1>3, <1>4, InsertedInOrder DEF Abstract!Store

\* Before anything is committed every log is empty.
LEMMA InitIsAbstract == Init => Abstract!Init
  <1> SUFFICES ASSUME Init PROVE Abstract!Init
    OBVIOUS
  <1>1. \A d \in Docs : LogOf(d) = << >>
    BY DEF Init, LogOf
  <1>2. Ended = {}
    BY DEF Init, Ended
  <1> QED
    BY <1>1, <1>2 DEF Abstract!Init, Logs

LEMMA StepIsAbstract ==
    IInv /\ IInv' /\ AckInv /\ OrderInv /\ [Next]_vars => [Abstract!Next]_Abstract!vars
  <1> SUFFICES ASSUME IInv, IInv', AckInv, OrderInv, [Next]_vars
               PROVE  Abstract!Next \/ UNCHANGED Abstract!vars
    OBVIOUS
  <1>1. ASSUME NEW r \in Requests, Commit(r) PROVE Abstract!Next
    BY <1>1, CommitIsAbstract DEF Abstract!Next
  <1>2. ASSUME NEW r \in Requests, InsertRow(r) \/ SkipKnown(r) PROVE UNCHANGED Abstract!vars
    BY <1>2, TurnIsAbstract
  <1> QED
    BY <1>1, <1>2, NextIsQuiet, QuietIsAbstract

(***************************************************************************)
(* The commit pipeline - a lock, a lookup, an insert per operation, a      *)
(* counter update and a commit, interleaved with those of other pushes,    *)
(* failed and cut at any point - implements a log that each push appends   *)
(* to once and in one step: exactly those operations of its batch that no  *)
(* document stores, in the batch's order, or nothing at all                *)
(* (operation.repository.ts, commitBatch).                                 *)
(***************************************************************************)
THEOREM Implements == Spec => ImplementsSyncLog
  <1> QED
    BY InitIsAbstract, StepIsAbstract, OrderInductive, PTL
       DEF ImplementsSyncLog, Abstract!Spec, Spec

(***************************************************************************)
(* A slot that is filled keeps its row for ever: what a pull, a snapshot   *)
(* or a cursor has read of a document's log stays true of it               *)
(* (documents.serverSeq and the rows commitBatch inserts).                 *)
(***************************************************************************)
THEOREM SlotsStay == Spec => SlotsNeverRewritten
  <1>1. IInv /\ IInv' /\ AckInv /\ OrderInv /\ [Next]_vars =>
            [\A d \in Docs : \A n \in 1..serverSeq[d] :
                 n <= serverSeq'[d] /\ RowAt(d, n)' = RowAt(d, n)]_vars
    <2> SUFFICES ASSUME IInv, IInv', AckInv, OrderInv, [Next]_vars,
                        NEW d \in Docs, NEW n \in 1..serverSeq[d]
                 PROVE  n <= serverSeq'[d] /\ RowAt(d, n)' = RowAt(d, n)
      OBVIOUS
    <2>1. serverSeq[d] \in Nat /\ serverSeq'[d] \in Nat
      BY DEF IInv, TypeOK
    <2>2. ASSUME NEW r \in Requests, Commit(r)
          PROVE  n <= serverSeq'[d] /\ RowAt(d, n)' = RowAt(d, n)
      BY <2>1, <2>2, RowsStay
    <2>3. CASE UNCHANGED <<operations, serverSeq>>
      BY <2>1, <2>3 DEF RowAt
    <2>4. ASSUME NEW r \in Requests, InsertRow(r) \/ SkipKnown(r)
          PROVE  UNCHANGED <<operations, serverSeq>>
      BY <2>4 DEF InsertRow, SkipKnown, dbVars
    <2>5. QuietNext => UNCHANGED <<operations, serverSeq>>
      BY DEF QuietNext
    <2> QED
      BY <2>2, <2>3, <2>4, <2>5, NextIsQuiet
  <1> QED
    BY <1>1, OrderInductive, PTL DEF Spec, SlotsNeverRewritten

------------------------------------------------------------------------------
(***************************************************************************)
(* Sessions.  A session is touched with the counter of the author's own    *)
(* transaction, which is no longer the document's.                         *)
(***************************************************************************)
Touching == {"relay", "touch"}

SessionInv ==
    /\ SessionsNeverAhead
    /\ \A r \in Requests : pc[r] \in Touching => nextSeq[r] <= serverSeq[DocOf(r)]

\* No counter goes back, and a push reaches its session only by a commit.
LEMMA ForwardKeepsSessions ==
    ASSUME IInv, IInv', SessionInv, UNCHANGED <<push, lastPushedSeq>>,
           \A d \in Docs : serverSeq[d] <= serverSeq'[d],
           \A r \in Requests : pc'[r] \in Touching =>
               \/ pc[r] \in Touching /\ nextSeq'[r] = nextSeq[r]
               \/ nextSeq'[r] <= serverSeq'[DocOf(r)]
    PROVE  SessionInv'
  <1>1. \A d \in Docs : serverSeq[d] \in Nat /\ serverSeq'[d] \in Nat
    BY DEF IInv, TypeOK
  <1>2. \A d \in Docs, u \in Users : lastPushedSeq[d][u] \in Nat
    BY DEF IInv, TypeOK
  <1>3. \A r \in Requests : DocOf(r) \in Docs /\ DocOf(r)' = DocOf(r) /\ nextSeq[r] \in Nat
    BY BatchType DEF IInv, TypeOK, DocOf
  <1>4. SessionsNeverAhead'
    BY <1>1, <1>2 DEF SessionInv, SessionsNeverAhead
  <1>5. ASSUME NEW r \in Requests, pc'[r] \in Touching PROVE nextSeq'[r] <= serverSeq'[DocOf(r)]
    BY <1>1, <1>3, <1>5 DEF SessionInv
  <1> QED
    BY <1>3, <1>4, <1>5 DEF SessionInv

LEMMA TouchKeepsSessions ==
    ASSUME IInv, SessionInv, NEW r \in Requests, TouchSession(r)
    PROVE  SessionInv'
  <1> DEFINE e == DocOf(r)
             v == push[r].user
  <1>1. /\ nextSeq[r] <= serverSeq[e]
        /\ UNCHANGED <<serverSeq, push, nextSeq>>
        /\ \A t \in Requests : pc'[t] \in Touching => pc[t] \in Touching
    BY DEF TouchSession, Goto, batchVars, SessionInv, Touching, IInv, TypeOK
  <1>2. lastPushedSeq' \in {lastPushedSeq,
                            [lastPushedSeq EXCEPT ![e][v] = Greatest(@, nextSeq[r])]}
    BY DEF TouchSession
  <1>3. ASSUME NEW d \in Docs, NEW u \in Users
        PROVE  lastPushedSeq'[d][u] <= serverSeq[d]
    <2>1. lastPushedSeq \in [Docs -> [Users -> Nat]] /\ lastPushedSeq[d][u] <= serverSeq[d]
      BY DEF IInv, TypeOK, SessionInv, SessionsNeverAhead
    <2>2. CASE lastPushedSeq' = lastPushedSeq
      BY <2>1, <2>2
    <2>3. CASE lastPushedSeq' = [lastPushedSeq EXCEPT ![e][v] = Greatest(@, nextSeq[r])]
      <3>1. CASE d = e /\ u = v
        <4>1. lastPushedSeq'[d][u] = Greatest(lastPushedSeq[d][u], nextSeq[r])
          BY <2>1, <2>3, <3>1
        <4> QED
          BY <1>1, <2>1, <3>1, <4>1 DEF Greatest
      <3>2. CASE ~(d = e /\ u = v)
        <4>1. lastPushedSeq'[d][u] = lastPushedSeq[d][u]
          BY <2>1, <2>3, <3>2
        <4> QED
          BY <2>1, <4>1
      <3> QED
        BY <3>1, <3>2
    <2> QED
      BY <1>2, <2>2, <2>3
  <1>4. SessionsNeverAhead'
    BY <1>1, <1>3 DEF SessionsNeverAhead
  <1> QED
    BY <1>1, <1>4 DEF SessionInv, DocOf

LEMMA StepKeepsSessions ==
    ASSUME IInv, IInv', AckInv, OrderInv, SessionInv, NEW r \in Requests, Submit(r) \/ Step(r)
    PROVE  SessionInv'
  <1> USE DEF dbVars, batchVars
  <1>0. \A d \in Docs : serverSeq[d] \in Nat
    BY DEF IInv, TypeOK
  <1>1. ASSUME NEW s, Answer(r, s) PROVE SessionInv'
    <2>1. /\ UNCHANGED <<push, lastPushedSeq, serverSeq, nextSeq>>
          /\ \A t \in Requests : pc'[t] \in Touching => pc[t] \in Touching
      BY <1>1 DEF Answer, Touching, IInv, TypeOK
    <2> QED
      BY <1>0, <2>1, ForwardKeepsSessions
  <1>2. ASSUME NEW q, q \notin Touching \/ pc[r] = "relay", Goto(r, q),
               UNCHANGED <<push, lastPushedSeq, serverSeq>>,
               nextSeq' = nextSeq \/ q \notin Touching,
               \A t \in Requests : t # r => nextSeq'[t] = nextSeq[t]
        PROVE  SessionInv'
    <2>1. \A t \in Requests : pc'[t] \in Touching => pc[t] \in Touching /\ nextSeq'[t] = nextSeq[t]
      BY <1>2 DEF Goto, Touching, IInv, TypeOK
    <2> QED
      BY <1>0, <1>2, <2>1, ForwardKeepsSessions
  <1>3. CASE Submit(r)
    BY <1>1, <1>2, <1>3 DEF Submit, Touching
  <1>4. CASE Authorize(r)
    BY <1>1, <1>2, <1>4 DEF Authorize, Touching
  <1>5. CASE Consume(r)
    BY <1>1, <1>2, <1>5 DEF Consume, Touching
  <1>6. CASE Begin(r) \/ AcquireLock(r) \/ ReadCommitted(r) \/ UpdateDocument(r)
    BY <1>2, <1>6 DEF Begin, AcquireLock, ReadCommitted, UpdateDocument, Touching
  <1>7. CASE ReadDocument(r)
    <2>1. CASE Answer(r, "NOT_FOUND")
      BY <1>1, <2>1
    <2>2. CASE ~Answer(r, "NOT_FOUND")
      <3>1. /\ Goto(r, "dedupe") /\ UNCHANGED <<push, lastPushedSeq, serverSeq>>
            /\ nextSeq' = [nextSeq EXCEPT ![r] = serverSeq[DocOf(r)]]
        BY <1>7, <2>2 DEF ReadDocument
      <3>2. \A t \in Requests : t # r => nextSeq'[t] = nextSeq[t]
        BY <3>1 DEF IInv, TypeOK
      <3> QED
        BY <1>2, <3>1, <3>2 DEF Touching
    <2> QED
      BY <2>1, <2>2
  <1>8. CASE SkipKnown(r) \/ InsertRow(r)
    <2>1. /\ UNCHANGED <<push, lastPushedSeq, serverSeq, pc>>
          /\ pc[r] = "insert"
          /\ \A t \in Requests : t # r => nextSeq'[t] = nextSeq[t]
      BY <1>8 DEF SkipKnown, InsertRow, AtFresh, IInv, TypeOK
    <2> QED
      BY <1>0, <2>1, ForwardKeepsSessions DEF Touching
  <1>9. CASE UniqueViolation(r)
    BY <1>1, <1>9 DEF UniqueViolation
  <1>10. CASE Commit(r)
    <2>1. /\ UNCHANGED <<push, lastPushedSeq, nextSeq>>
          /\ \A t \in Requests : t # r => pc'[t] = pc[t]
      BY <1>10 DEF Commit, Goto, IInv, TypeOK
    <2>2. /\ nextSeq[r] \in Nat /\ nextSeq'[r] <= serverSeq'[DocOf(r)]
          /\ \A d \in Docs : serverSeq[d] <= serverSeq'[d]
      BY <1>0, <1>10, <2>1, RowsAtCommit
    <2> QED
      BY <2>1, <2>2, ForwardKeepsSessions
  <1>11. CASE Relay(r)
    BY <1>2, <1>11 DEF Relay, Touching
  <1>12. CASE TouchSession(r)
    BY <1>12, TouchKeepsSessions
  <1> QED
    BY <1>3, <1>4, <1>5, <1>6, <1>7, <1>8, <1>9, <1>10, <1>11, <1>12 DEF Step

(***************************************************************************)
(* The session update is started and not awaited, so those of concurrent   *)
(* pushes reach the row in any order, or never; whatever the order, a      *)
(* session never claims more than the document has committed               *)
(* (sync.service.ts, push; sync-session.repository.ts, touchPush).         *)
(***************************************************************************)
THEOREM SessionsFollow == Spec => []SessionsNeverAhead
  <1>1. Init => SessionInv
    BY DEF Init, SessionInv, SessionsNeverAhead, Touching
  <1>2. IInv /\ IInv' /\ AckInv /\ OrderInv /\ SessionInv /\ [Next]_vars => SessionInv'
    <2> SUFFICES ASSUME IInv, IInv', AckInv, OrderInv, SessionInv, [Next]_vars PROVE SessionInv'
      OBVIOUS
    <2>1. \A d \in Docs : serverSeq[d] \in Nat
      BY DEF IInv, TypeOK
    <2>2. ASSUME UNCHANGED <<push, lastPushedSeq, serverSeq, nextSeq>>,
                 \A t \in Requests : pc'[t] \in Touching => pc[t] \in Touching
          PROVE  SessionInv'
      BY <2>1, <2>2, ForwardKeepsSessions
    <2>3. ASSUME NEW r \in Requests, TransactionFails(r) \/ CommitUnconfirmed(r)
          PROVE  SessionInv'
      BY <2>2, <2>3 DEF TransactionFails, CommitUnconfirmed, Answer, Touching, dbVars, IInv, TypeOK
    <2>4. ASSUME NEW i \in Instances, Crash(i) PROVE SessionInv'
      BY <2>2, <2>4 DEF Crash, Touching, dbVars
    <2>5. ASSUME NEW u \in Users, NEW d \in Docs, SoftDelete(u, d) \/ Restore(u, d)
          PROVE  SessionInv'
      BY <2>2, <2>5 DEF SoftDelete, Restore, batchVars
    <2>6. CASE UNCHANGED vars
      BY <2>2, <2>6 DEF vars, dbVars, batchVars
    <2> QED
      BY <2>3, <2>4, <2>5, <2>6, StepKeepsSessions DEF Next
  <1>3. SessionInv => SessionsNeverAhead
    BY DEF SessionInv
  <1> QED
    BY <1>1, <1>2, <1>3, OrderInductive, PTL DEF Spec
=============================================================================
