------------------------------ MODULE CommitLog ------------------------------
(***************************************************************************)
(* The commit pipeline: a push travels through authorization, the          *)
(* operation budget and one Postgres transaction (advisory lock, read,     *)
(* dedupe, insert, counter update, commit), and is then relayed, answered  *)
(* and recorded in its replica's sync session.  Pushes interleave at every *)
(* await, with each other, with soft deletion and with process crashes.    *)
(*                                                                         *)
(* A transaction runs at READ COMMITTED: a statement sees the rows that    *)
(* were committed when it started, and a unique index makes an insert wait *)
(* for an uncommitted row with the same key.                               *)
(***************************************************************************)
EXTENDS Naturals, Sequences, FiniteSets

CONSTANTS
    Docs,           \* documents, all of them created
    Users,          \* users; each edits from one replica, so a user is also a clientId
    OpIds,          \* operation ids (the primary key of the operations table)
    Requests,       \* pushes; each carries one batch and runs once
    Instances,      \* server processes
    InstanceOf,     \* the process a request reaches
    Pushes,         \* the batches clients send
    RoleOf,         \* RoleOf[<<u, d>>]: u's role on d, "NONE" when not a collaborator
    PoolSize,       \* connections of one process's pool
    Nobody          \* the holder of a free advisory lock

Roles == {"OWNER", "EDITOR", "VIEWER", "NONE"}

ASSUME RequestsAssumption ==
    /\ Nobody \notin Requests
    /\ InstanceOf \in [Requests -> Instances]
    /\ PoolSize \in Nat \ {0}
    /\ RoleOf \in [Users \X Docs -> Roles]

ASSUME PushesAssumption ==
    \A p \in Pushes :
        /\ p \in [via : {"http", "ws"}, user : Users, doc : Docs, ops : Seq(OpIds)]
        /\ p.ops # << >>

Row == [operationId : OpIds, documentId : Docs, userId : Users, serverSeq : Nat \ {0}]

Statuses == {"NONE", "OK", "VALIDATION_FAILED", "NOT_FOUND", "FORBIDDEN",
             "RATE_LIMITED", "INTERNAL", "LOST"}

Phases == {"new", "authorize", "consume", "begin", "lock", "read", "dedupe",
           "insert", "commit", "relay", "touch", "done"}

VARIABLES
    \* the database
    serverSeq,      \* documents."serverSeq"
    deleted,        \* documents."deletedAt" is not null
    operations,     \* the committed rows of the operations table
    lastPushedSeq,  \* sync_sessions."lastPushedSeq", 0 where there is no row
    lock,           \* the transaction holding a document's advisory lock
    \* the pushes
    push,           \* the batch
    pc,             \* the await the handler is at
    known,          \* committedById: the rows found already committed
    at,             \* how many operations of the batch have been mapped
    nextSeq,        \* the local counter nextSeq
    rows,           \* the rows this transaction has inserted
    relayed,        \* the operations handed to the broadcaster
    status          \* how the push was answered

dbVars == <<serverSeq, deleted, operations, lastPushedSeq>>
batchVars == <<known, at, nextSeq, rows>>
vars == <<dbVars, lock, push, pc, batchVars, relayed, status>>

Init ==
    /\ serverSeq = [d \in Docs |-> 0]
    /\ deleted = [d \in Docs |-> FALSE]
    /\ operations = {}
    /\ lastPushedSeq = [d \in Docs |-> [u \in Users |-> 0]]
    /\ lock = [d \in Docs |-> Nobody]
    /\ push \in [Requests -> Pushes]
    /\ pc = [r \in Requests |-> "new"]
    /\ known = [r \in Requests |-> {}]
    /\ at = [r \in Requests |-> 0]
    /\ nextSeq = [r \in Requests |-> 0]
    /\ rows = [r \in Requests |-> {}]
    /\ relayed = [r \in Requests |-> << >>]
    /\ status = [r \in Requests |-> "NONE"]

------------------------------------------------------------------------------
(***************************************************************************)
(* Transactions and their locks                                            *)
(***************************************************************************)
DocOf(r) == push[r].doc

\* Holding a connection inside an open transaction.
InTransaction(r) == pc[r] \in {"lock", "read", "dedupe", "insert", "commit"}

\* Past pg_advisory_xact_lock.
HoldsLock(r) == pc[r] \in {"read", "dedupe", "insert", "commit"}

\* Has updated its documents row and not yet ended: the row lock is held.
HoldsRow(r) == pc[r] = "commit" /\ rows[r] # {}

RowFree(d) == \A r \in Requests : HoldsRow(r) => DocOf(r) # d

\* Mutant: a rollback that leaves the lock taken.
MutantNotFreed(r) == lock

Freed(r) == [d \in Docs |-> IF lock[d] = r THEN Nobody ELSE lock[d]]

SameKey(x, y) ==
    \/ x.operationId = y.operationId
    \/ x.documentId = y.documentId /\ x.serverSeq = y.serverSeq

Others(r) == {s \in Requests \ {r} : InTransaction(s)}

\* The row the handler builds for the next operation of the batch.
NextId(r) == push[r].ops[at[r] + 1]

NextRow(r) ==
    [operationId |-> NextId(r),
     documentId  |-> DocOf(r),
     userId      |-> push[r].user,
     serverSeq   |-> nextSeq[r] + 1]

KnownIds(r) == {x.operationId : x \in known[r]}

\* Mapping the batch has reached an operation to insert.
AtFresh(r) ==
    /\ pc[r] = "insert"
    /\ at[r] < Len(push[r].ops)
    /\ NextId(r) \notin KnownIds(r)

\* A committed row, or one of this very statement, has the key already.
Duplicate(r) == \E x \in operations \cup rows[r] : SameKey(x, NextRow(r))

\* An open transaction has inserted the key: wait for it to end.
Blocked(r) == \E s \in Others(r) : \E x \in rows[s] : SameKey(x, NextRow(r))

\* The push ends with an answer, and its transaction with it: whatever it
\* had inserted is rolled back and its lock released.
Answer(r, s) ==
    /\ pc' = [pc EXCEPT ![r] = "done"]
    /\ status' = [status EXCEPT ![r] = s]
    /\ rows' = [rows EXCEPT ![r] = {}]
    /\ lock' = Freed(r)
    /\ UNCHANGED <<dbVars, push, known, at, nextSeq, relayed>>

Goto(r, phase) == pc' = [pc EXCEPT ![r] = phase]

Connections(i) == {r \in Requests : InstanceOf[r] = i /\ InTransaction(r)}

\* A statement outside a transaction takes a connection too, for as long as
\* it runs.
HasConnection(r) == Cardinality(Connections(InstanceOf[r])) < PoolSize

------------------------------------------------------------------------------
(***************************************************************************)
(* The push handler, one action per await                                  *)
(***************************************************************************)
Distinct(ops) == \A i, j \in DOMAIN ops : ops[i] = ops[j] => i = j

\* Both transports parse the batch; only the HTTP schema refuses one that
\* names an operation twice.
Submit(r) ==
    /\ pc[r] = "new"
    /\ IF push[r].via = "http" /\ ~Distinct(push[r].ops)
       THEN Answer(r, "VALIDATION_FAILED")
       ELSE /\ Goto(r, "authorize")
            /\ UNCHANGED <<dbVars, lock, push, batchVars, relayed, status>>

Can(role, action) ==
    CASE action = "write"  -> role \in {"OWNER", "EDITOR"}
      [] action = "delete" -> role = "OWNER"

\* accessRepository.authorize: a deleted document and one the caller does not
\* collaborate on look alike.
Authorize(r) ==
    LET role == RoleOf[<<push[r].user, DocOf(r)>>] IN
    /\ pc[r] = "authorize"
    /\ HasConnection(r)
    /\ IF role = "NONE" \/ deleted[DocOf(r)] THEN Answer(r, "NOT_FOUND")
       ELSE IF ~Can(role, "write")           THEN Answer(r, "FORBIDDEN")
       ELSE /\ Goto(r, "consume")
            /\ UNCHANGED <<dbVars, lock, push, batchVars, relayed, status>>

\* The operation budget may refuse any push; the limiter is not modelled here.
Consume(r) ==
    /\ pc[r] = "consume"
    /\ HasConnection(r)
    /\ \/ Answer(r, "RATE_LIMITED")
       \/ /\ Goto(r, "begin")
          /\ UNCHANGED <<dbVars, lock, push, batchVars, relayed, status>>

Begin(r) ==
    /\ pc[r] = "begin"
    /\ HasConnection(r)
    /\ Goto(r, "lock")
    /\ UNCHANGED <<dbVars, lock, push, batchVars, relayed, status>>

\* Mutant: no advisory lock.
MutantAcquireLock(r) ==
    /\ pc[r] = "lock"
    /\ Goto(r, "read")
    /\ UNCHANGED <<dbVars, lock, push, batchVars, relayed, status>>

AcquireLock(r) ==
    /\ pc[r] = "lock"
    /\ lock[DocOf(r)] = Nobody
    /\ lock' = [lock EXCEPT ![DocOf(r)] = r]
    /\ Goto(r, "read")
    /\ UNCHANGED <<dbVars, push, batchVars, relayed, status>>

ReadDocument(r) ==
    /\ pc[r] = "read"
    /\ IF deleted[DocOf(r)] THEN Answer(r, "NOT_FOUND")
       ELSE /\ nextSeq' = [nextSeq EXCEPT ![r] = serverSeq[DocOf(r)]]
            /\ Goto(r, "dedupe")
            /\ UNCHANGED <<dbVars, lock, push, known, at, rows, relayed, status>>

BatchIds(r) == {push[r].ops[i] : i \in DOMAIN push[r].ops}

\* Mutant: the lookup only finds the caller's own operations.
MutantReadCommitted(r) ==
    /\ pc[r] = "dedupe"
    /\ known' = [known EXCEPT ![r] =
           {x \in operations : x.operationId \in BatchIds(r) /\ x.userId = push[r].user}]
    /\ Goto(r, "insert")
    /\ UNCHANGED <<dbVars, lock, push, at, nextSeq, rows, relayed, status>>

\* The lookup is by operation id alone: it also finds other documents' rows.
ReadCommitted(r) ==
    /\ pc[r] = "dedupe"
    /\ known' = [known EXCEPT ![r] = {x \in operations : x.operationId \in BatchIds(r)}]
    /\ Goto(r, "insert")
    /\ UNCHANGED <<dbVars, lock, push, at, nextSeq, rows, relayed, status>>

\* Mutant: skips two operations at once.
MutantSkipKnown(r) ==
    /\ pc[r] = "insert"
    /\ at[r] < Len(push[r].ops)
    /\ NextId(r) \in KnownIds(r)
    /\ at' = [at EXCEPT ![r] = @ + 2]
    /\ UNCHANGED <<dbVars, lock, push, pc, known, nextSeq, rows, relayed, status>>

\* One turn of the loop that maps the batch to rows, and the insert of that row.
SkipKnown(r) ==
    /\ pc[r] = "insert"
    /\ at[r] < Len(push[r].ops)
    /\ NextId(r) \in KnownIds(r)
    /\ at' = [at EXCEPT ![r] = @ + 1]
    /\ UNCHANGED <<dbVars, lock, push, pc, known, nextSeq, rows, relayed, status>>

InsertRow(r) ==
    /\ AtFresh(r)
    /\ ~Duplicate(r)
    /\ ~Blocked(r)
    /\ rows' = [rows EXCEPT ![r] = @ \cup {NextRow(r)}]
    /\ nextSeq' = [nextSeq EXCEPT ![r] = @ + 1]
    /\ at' = [at EXCEPT ![r] = @ + 1]
    /\ UNCHANGED <<dbVars, lock, push, pc, known, relayed, status>>

\* Mutant: inserts outside a transaction; those made before the refused one stay.
MutantUniqueViolation(r) ==
    /\ AtFresh(r)
    /\ Duplicate(r)
    /\ operations' = operations \cup rows[r]
    /\ serverSeq' = [serverSeq EXCEPT ![DocOf(r)] = nextSeq[r]]
    /\ pc' = [pc EXCEPT ![r] = "done"]
    /\ status' = [status EXCEPT ![r] = "INTERNAL"]
    /\ rows' = [rows EXCEPT ![r] = {}]
    /\ lock' = Freed(r)
    /\ UNCHANGED <<deleted, lastPushedSeq, push, known, at, nextSeq, relayed>>

\* The database refuses the statement and the whole batch is rolled back.
UniqueViolation(r) ==
    /\ AtFresh(r)
    /\ Duplicate(r)
    /\ Answer(r, "INTERNAL")

\* The counter update, skipped with the insert when nothing is fresh.
UpdateDocument(r) ==
    /\ pc[r] = "insert"
    /\ at[r] = Len(push[r].ops)
    /\ rows[r] = {} \/ RowFree(DocOf(r))
    /\ Goto(r, "commit")
    /\ UNCHANGED <<dbVars, lock, push, batchVars, relayed, status>>

\* Mutant: the counter is advanced by one whatever the size of the batch.
MutantCommit(r) ==
    /\ pc[r] = "commit"
    /\ operations' = operations \cup rows[r]
    /\ serverSeq' = IF rows[r] = {} THEN serverSeq
                    ELSE [serverSeq EXCEPT ![DocOf(r)] = @ + 1]
    /\ lock' = Freed(r)
    /\ Goto(r, "relay")
    /\ UNCHANGED <<deleted, lastPushedSeq, push, batchVars, relayed, status>>

Commit(r) ==
    /\ pc[r] = "commit"
    /\ operations' = operations \cup rows[r]
    /\ serverSeq' = IF rows[r] = {} THEN serverSeq
                    ELSE [serverSeq EXCEPT ![DocOf(r)] = nextSeq[r]]
    /\ lock' = Freed(r)
    /\ Goto(r, "relay")
    /\ UNCHANGED <<deleted, lastPushedSeq, push, batchVars, relayed, status>>

\* Every operation of the batch with the row that stores it, in batch order.
Acknowledged(r) ==
    [i \in DOMAIN push[r].ops |->
        CHOOSE x \in known[r] \cup rows[r] : x.operationId = push[r].ops[i]]

DuplicateCount(r) == Cardinality(known[r])

\* Mutant: the whole batch is relayed, retried operations included.
MutantToBroadcast(r) == Acknowledged(r)

\* slice(duplicateCount): right when the known operations lead the batch.
ToBroadcast(r) ==
    SubSeq(Acknowledged(r), DuplicateCount(r) + 1, Len(push[r].ops))

\* Mutant: answered and relayed before the commit.
MutantRelay(r) ==
    /\ pc[r] = "commit"
    /\ relayed' = [relayed EXCEPT ![r] = ToBroadcast(r)]
    /\ status' = [status EXCEPT ![r] = "OK"]
    /\ Goto(r, "touch")
    /\ UNCHANGED <<dbVars, lock, push, batchVars>>

\* Broadcast and answer; the session update is started and not awaited.
Relay(r) ==
    /\ pc[r] = "relay"
    /\ relayed' = [relayed EXCEPT ![r] = ToBroadcast(r)]
    /\ status' = [status EXCEPT ![r] = "OK"]
    /\ Goto(r, "touch")
    /\ UNCHANGED <<dbVars, lock, push, batchVars>>

Greatest(m, n) == IF m >= n THEN m ELSE n

\* The session's upsert; an error is logged and forgotten.
TouchSession(r) ==
    /\ pc[r] = "touch"
    /\ \/ /\ HasConnection(r)
          /\ lastPushedSeq' = [lastPushedSeq EXCEPT
                 ![DocOf(r)][push[r].user] = Greatest(@, nextSeq[r])]
       \/ UNCHANGED lastPushedSeq
    /\ Goto(r, "done")
    /\ UNCHANGED <<serverSeq, deleted, operations, lock, push, batchVars, relayed, status>>

------------------------------------------------------------------------------
(***************************************************************************)
(* Failures                                                                *)
(***************************************************************************)
BeforeTransaction(r) == pc[r] \in {"authorize", "consume", "begin"}

\* Mutant: nothing ends a transaction that waits on a unique index.
MutantTransactionFails(r) ==
    /\ BeforeTransaction(r) \/ (InTransaction(r) /\ pc[r] # "insert")
    /\ Answer(r, "INTERNAL")

\* No connection in time, a statement that fails, a transaction over its time
\* limit, a connection lost, or the victim of a deadlock: the database rolls
\* back what was open.
TransactionFails(r) ==
    /\ BeforeTransaction(r) \/ InTransaction(r)
    /\ Answer(r, "INTERNAL")

\* COMMIT took effect but its acknowledgement never reached the process.
CommitUnconfirmed(r) ==
    /\ pc[r] = "relay"
    /\ Answer(r, "INTERNAL")

\* The process dies: what it was serving is never answered, its open
\* transactions are rolled back and their locks released.
Crash(i) ==
    LET hit == {r \in Requests : InstanceOf[r] = i /\ pc[r] \notin {"new", "done"}}
        cut == {r \in hit : InTransaction(r)}
    IN
    /\ hit # {}
    /\ pc' = [r \in Requests |-> IF r \in hit THEN "done" ELSE pc[r]]
    /\ status' = [r \in Requests |->
                     IF r \in hit /\ status[r] = "NONE" THEN "LOST" ELSE status[r]]
    /\ rows' = [r \in Requests |-> IF r \in cut THEN {} ELSE rows[r]]
    /\ lock' = [d \in Docs |-> IF lock[d] \in cut THEN Nobody ELSE lock[d]]
    /\ UNCHANGED <<dbVars, push, known, at, nextSeq, relayed>>

------------------------------------------------------------------------------
(***************************************************************************)
(* Soft deletion, which takes no advisory lock: only the update of the     *)
(* documents row waits for a transaction that has updated the same row.    *)
(***************************************************************************)
SoftDelete(u, d) ==
    /\ Can(RoleOf[<<u, d>>], "delete")
    /\ ~deleted[d]
    /\ RowFree(d)
    /\ deleted' = [deleted EXCEPT ![d] = TRUE]
    /\ UNCHANGED <<serverSeq, operations, lastPushedSeq, lock, push, pc, batchVars,
                   relayed, status>>

\* ownerId, which the owner's collaborator row mirrors.
Restore(u, d) ==
    /\ RoleOf[<<u, d>>] = "OWNER"
    /\ deleted[d]
    /\ RowFree(d)
    /\ deleted' = [deleted EXCEPT ![d] = FALSE]
    /\ UNCHANGED <<serverSeq, operations, lastPushedSeq, lock, push, pc, batchVars,
                   relayed, status>>

------------------------------------------------------------------------------
Step(r) ==
    \/ Authorize(r) \/ Consume(r) \/ Begin(r) \/ AcquireLock(r) \/ ReadDocument(r)
    \/ ReadCommitted(r) \/ SkipKnown(r) \/ InsertRow(r) \/ UniqueViolation(r)
    \/ UpdateDocument(r) \/ Commit(r) \/ Relay(r) \/ TouchSession(r)

Next ==
    \/ \E r \in Requests :
          Submit(r) \/ Step(r) \/ TransactionFails(r) \/ CommitUnconfirmed(r)
    \/ \E i \in Instances : Crash(i)
    \/ \E u \in Users, d \in Docs : SoftDelete(u, d) \/ Restore(u, d)

Spec == Init /\ [][Next]_vars

\* The event loop and the database keep serving what has been started, and a
\* transaction that cannot proceed is eventually timed out.
Fairness ==
    \A r \in Requests : WF_vars(Step(r)) /\ WF_vars(TransactionFails(r))

FairSpec == Spec /\ Fairness

------------------------------------------------------------------------------
(***************************************************************************)
(* Properties                                                              *)
(***************************************************************************)
\* Every variable keeps its type; a batch under way stays within its bounds.
TypeOK ==
    /\ serverSeq \in [Docs -> Nat]
    /\ deleted \in [Docs -> BOOLEAN]
    /\ operations \subseteq Row
    /\ lastPushedSeq \in [Docs -> [Users -> Nat]]
    /\ lock \in [Docs -> Requests \cup {Nobody}]
    /\ push \in [Requests -> Pushes]
    /\ pc \in [Requests -> Phases]
    /\ known \in [Requests -> SUBSET Row]
    /\ at \in [Requests -> Nat]
    /\ nextSeq \in [Requests -> Nat]
    /\ rows \in [Requests -> SUBSET Row]
    /\ status \in [Requests -> Statuses]
    /\ \A r \in Requests : at[r] <= Len(push[r].ops)

\* The gapless log (schema: "Monotonic, gapless"): the committed rows of a
\* document occupy the slots 1..serverSeq, each exactly once, whatever was
\* rolled back, retried or cut by a crash.
SlotsInRange ==
    \A x \in operations : x.serverSeq <= serverSeq[x.documentId]

NoHole ==
    \A d \in Docs : \A n \in 1..serverSeq[d] :
        \E x \in operations : x.documentId = d /\ x.serverSeq = n

OneRowPerKey ==
    \A x, y \in operations : SameKey(x, y) => x = y

LogWellFormed == SlotsInRange /\ NoHole /\ OneRowPerKey

\* The advisory lock never leaks and is never shared: it is held exactly by
\* the open transaction that took it ("there is no path that leaks it").
LockHeldByOpenTransaction ==
    /\ \A d \in Docs : lock[d] # Nobody => HoldsLock(lock[d]) /\ DocOf(lock[d]) = d
    /\ \A r \in Requests : HoldsLock(r) => lock[DocOf(r)] = r

\* Concurrent pushes to a document never compete for a slot: the number read
\* from the counter is still the last one in use when it is handed out, so
\* no concurrent edit dies on the (documentId, serverSeq) constraint.
SlotNeverContended ==
    \A r \in Requests : AtFresh(r) =>
        \A x \in operations \cup UNION {rows[s] : s \in Others(r)} :
            x.documentId = DocOf(r) => x.serverSeq # nextSeq[r] + 1

\* "Those are not errors: they are the success path": a retry of operations
\* its document already stores is never refused by the primary key.  Only an
\* id another document stores, or one the batch repeats, can be.
RetryNeverConflicts ==
    \A r \in Requests : AtFresh(r) /\ Duplicate(r) =>
        \/ ~Distinct(push[r].ops)
        \/ \E x \in operations : x.operationId = NextId(r) /\ x.documentId # DocOf(r)

\* An answered push acknowledges every operation, in the batch's order, with
\* the row the log really stores for it; in this document none lies above
\* the documentSeq the answer carries.
AcksMatchLog ==
    \A r \in Requests : status[r] = "OK" =>
        \A i \in DOMAIN push[r].ops :
            /\ Acknowledged(r)[i] \in operations
            /\ Acknowledged(r)[i].operationId = push[r].ops[i]
            /\ Acknowledged(r)[i].documentId = DocOf(r)
                  => Acknowledged(r)[i].serverSeq <= nextSeq[r]

LeadingRetry(r) ==
    \A i, j \in DOMAIN push[r].ops :
        push[r].ops[i] \in KnownIds(r) /\ push[r].ops[j] \notin KnownIds(r) => i < j

\* When the operations already stored lead the batch, as in a retry that
\* carries newer edits behind the old ones, exactly the newly committed
\* operations are relayed.
RelayOfLeadingRetry ==
    \A r \in Requests : status[r] = "OK" /\ Distinct(push[r].ops) /\ LeadingRetry(r) =>
        {relayed[r][i] : i \in DOMAIN relayed[r]} = rows[r]

\* A session, updated after the answer by pushes that do not wait for each
\* other, never says that more was pushed than the document has.
SessionsNeverAhead ==
    \A d \in Docs, u \in Users : lastPushedSeq[d][u] <= serverSeq[d]

RowAt(d, n) == CHOOSE x \in operations : x.documentId = d /\ x.serverSeq = n

\* What a client has read at a slot stays true: no step gives back a slot or
\* puts another operation into one.
SlotsNeverRewritten ==
    [][\A d \in Docs : \A n \in 1..serverSeq[d] :
           n <= serverSeq'[d] /\ RowAt(d, n)' = RowAt(d, n)]_vars

\* Every push that reaches the server ends: answered, failed, or cut by a
\* crash.  Transactions that wait for each other on the primary key, and
\* pushes waiting for a connection or for the lock, are not stuck for ever.
EveryPushEnds ==
    \A r \in Requests : pc[r] # "new" ~> pc[r] = "done"

------------------------------------------------------------------------------
(***************************************************************************)
(* The refinement of SyncLog: a document's log is the ids of its committed *)
(* rows by slot, and a push is closed once its transaction has ended.      *)
(***************************************************************************)
LogOf(d) == [n \in 1..serverSeq[d] |-> RowAt(d, n).operationId]

Logs == [d \in Docs |-> LogOf(d)]

Ended == {r \in Requests : pc[r] \in {"relay", "touch", "done"}}

Abstract == INSTANCE SyncLog WITH log <- Logs, closed <- Ended

\* The pipeline implements SyncLog: each push appends, at most once and in
\* one step, exactly the operations of its batch that no document stores.
ImplementsSyncLog == Abstract!Spec
==============================================================================
