------------------------------ MODULE PushRoute ------------------------------
(***************************************************************************)
(* POST /sync/push over the commit pipeline: the lookup of the             *)
(* Idempotency-Key, the push, and the storing of its response, three       *)
(* awaits that several attempts with one key interleave at; the expiry of  *)
(* keys and their collection; responses lost to the network or a crash;     *)
(* and users who lose or regain the right to write meanwhile.              *)
(*                                                                         *)
(* The pipeline is one step here, as SyncLog promises: a batch is a set of *)
(* operations of one document, and those it does not store yet take the    *)
(* next slots, in an order this module leaves open.                        *)
(***************************************************************************)
EXTENDS Naturals, FiniteSets

CONSTANTS
    Attempts,   \* requests that reach the route; a client retries with a new one
    Users,
    Writers,    \* the users who may write to the document at first
    Keys,       \* Idempotency-Keys
    OpIds,      \* operation ids
    Unlucky,    \* attempts whose insert may fail although the key is free
    Sends,      \* what clients send: a key and a body, by some user
    NoRecord    \* the key has no row

\* body stands for the hash of the body as well: equal exactly when the hashes are.
Send == [user : Users, key : Keys, body : SUBSET OpIds]

\* What the handler answers: the slot of each operation of the batch (0 for any
\* other), how many were stored already, and the document's counter.
Response == [acknowledged : [OpIds -> Nat], duplicateCount : Nat, documentSeq : Nat]

Record == [user : Users, requestHash : SUBSET OpIds, response : Response, expired : BOOLEAN]

Statuses == {"NONE", "OK", "IDEMPOTENCY_MISMATCH", "FORBIDDEN", "FAILED", "LOST"}

Phases == {"find", "push", "commit", "store", "reply", "done"}

ASSUME SendsAssumption ==
    /\ Sends \subseteq Send
    /\ Writers \subseteq Users
    /\ Unlucky \subseteq Attempts
    /\ IsFiniteSet(OpIds)
    /\ NoRecord \notin Record

VARIABLES
    slotOf,     \* the slot the log stores each operation at, 0 when it does not
    serverSeq,  \* the document's counter
    records,    \* the idempotency table
    writers,    \* the users who may write to the document now
    sent,       \* what each attempt asks for
    pc,         \* the await the handler is at
    response,   \* the response the handler holds
    status,     \* how the attempt was answered
    authorized  \* history: the attempts whose own push passed authorize

vars == <<slotOf, serverSeq, records, writers, sent, pc, response, status, authorized>>

NoResponse == [acknowledged |-> [x \in OpIds |-> 0], duplicateCount |-> 0, documentSeq |-> 0]

Init ==
    /\ slotOf = [x \in OpIds |-> 0]
    /\ serverSeq = 0
    /\ records = [k \in Keys |-> NoRecord]
    /\ writers = Writers
    /\ sent \in [Attempts -> Sends]
    /\ pc = [a \in Attempts |-> "find"]
    /\ response = [a \in Attempts |-> NoResponse]
    /\ status = [a \in Attempts |-> "NONE"]
    /\ authorized = {}

------------------------------------------------------------------------------
KeyOf(a) == sent[a].key
Body(a) == sent[a].body

Goto(a, phase) == pc' = [pc EXCEPT ![a] = phase]

\* The attempt ends without a response of its own.
Refuse(a, s) ==
    /\ Goto(a, "done")
    /\ status' = [status EXCEPT ![a] = s]
    /\ UNCHANGED response

\* A row past its time is treated as absent.
Absent(row) == row = NoRecord \/ row.expired

\* Mutant: whoever sends the key is answered from the table.
MutantOwned(row, a) == row.requestHash = Body(a)

Owned(row, a) == row.user = sent[a].user /\ row.requestHash = Body(a)

\* Mutant: the body is not compared.
MutantFind(a) ==
    LET row == records[KeyOf(a)] IN
    /\ pc[a] = "find"
    /\ IF Absent(row)
       THEN Goto(a, "push") /\ UNCHANGED <<response, status>>
       ELSE /\ row.user = sent[a].user
            /\ response' = [response EXCEPT ![a] = row.response]
            /\ Goto(a, "reply")
            /\ UNCHANGED status
    /\ UNCHANGED <<slotOf, serverSeq, records, writers, sent, authorized>>

Find(a) ==
    LET row == records[KeyOf(a)] IN
    /\ pc[a] = "find"
    /\ IF Absent(row)
       THEN Goto(a, "push") /\ UNCHANGED <<response, status>>
       ELSE IF ~Owned(row, a)
       THEN Refuse(a, "IDEMPOTENCY_MISMATCH")
       ELSE /\ response' = [response EXCEPT ![a] = row.response]
            /\ Goto(a, "reply")
            /\ UNCHANGED status
    /\ UNCHANGED <<slotOf, serverSeq, records, writers, sent, authorized>>

Known(a) == {x \in Body(a) : slotOf[x] # 0}

Fresh(a) == Body(a) \ Known(a)

\* Mutant: numbering starts one slot late.
MutantNumberings(a) ==
    {f \in [Fresh(a) -> serverSeq + 2 .. serverSeq + 1 + Cardinality(Fresh(a))] :
        \A x, y \in Fresh(a) : f[x] = f[y] => x = y}

\* The ways to hand the next slots to the fresh operations, one each.
Numberings(a) ==
    {f \in [Fresh(a) -> serverSeq + 1 .. serverSeq + Cardinality(Fresh(a))] :
        \A x, y \in Fresh(a) : f[x] = f[y] => x = y}

\* Mutant: operations stored already take a new slot.
MutantCommitted(a, f) ==
    \E g \in [Body(a) -> serverSeq + 1 .. serverSeq + Cardinality(Body(a))] :
        /\ \A x, y \in Body(a) : g[x] = g[y] => x = y
        /\ slotOf' = [x \in OpIds |-> IF x \in Body(a) THEN g[x] ELSE slotOf[x]]
        /\ serverSeq' = serverSeq + Cardinality(Body(a))

\* The pipeline's commit.
Committed(a, f) ==
    /\ slotOf' = [x \in OpIds |-> IF x \in Fresh(a) THEN f[x] ELSE slotOf[x]]
    /\ serverSeq' = serverSeq + Cardinality(Fresh(a))

MayWrite(a) == sent[a].user \in writers

\* The role is looked up as the push begins, several awaits before its commit.
Authorize(a) ==
    /\ pc[a] = "push"
    /\ MayWrite(a)
    /\ authorized' = authorized \cup {a}
    /\ Goto(a, "commit")
    /\ UNCHANGED <<slotOf, serverSeq, records, writers, sent, response, status>>

Push(a) ==
    /\ pc[a] = "commit"
    /\ \E f \in Numberings(a) : Committed(a, f)
    /\ response' = [response EXCEPT ![a] =
           [acknowledged   |-> [x \in OpIds |-> IF x \in Body(a) THEN slotOf'[x] ELSE 0],
            duplicateCount |-> Cardinality(Known(a)),
            documentSeq    |-> serverSeq']]
    /\ Goto(a, "store")
    /\ UNCHANGED <<records, writers, sent, status, authorized>>

\* Refused by authorize or the rate limit, or rolled back.
PushFails(a) ==
    /\ pc[a] \in {"push", "commit"}
    /\ Refuse(a, IF pc[a] = "push" /\ ~MayWrite(a) THEN "FORBIDDEN" ELSE "FAILED")
    /\ UNCHANGED <<slotOf, serverSeq, records, writers, sent, authorized>>

\* Committed, but the process never learns it.
PushUnconfirmed(a) ==
    /\ pc[a] = "commit"
    /\ \E f \in Numberings(a) : Committed(a, f)
    /\ Refuse(a, "FAILED")
    /\ UNCHANGED <<records, writers, sent, authorized>>

NewRecord(a) ==
    [user |-> sent[a].user, requestHash |-> Body(a), response |-> response[a],
     expired |-> FALSE]

\* Mutant: an upsert.
MutantStore(a) ==
    /\ pc[a] = "store"
    /\ records' = [records EXCEPT ![KeyOf(a)] = NewRecord(a)]
    /\ Goto(a, "reply")
    /\ UNCHANGED <<slotOf, serverSeq, writers, sent, response, status, authorized>>

\* create, whose failure is swallowed: the key is taken, even by an expired row.
Store(a) ==
    /\ pc[a] = "store"
    /\ records' = IF records[KeyOf(a)] = NoRecord
                  THEN [records EXCEPT ![KeyOf(a)] = NewRecord(a)] ELSE records
    /\ Goto(a, "reply")
    /\ UNCHANGED <<slotOf, serverSeq, writers, sent, response, status, authorized>>

\* Any other failure of the insert is swallowed as well.
StoreFails(a) ==
    /\ pc[a] = "store"
    /\ a \in Unlucky
    /\ Goto(a, "reply")
    /\ UNCHANGED <<slotOf, serverSeq, records, writers, sent, response, status, authorized>>

Reply(a) ==
    /\ pc[a] = "reply"
    /\ Goto(a, "done")
    /\ status' = [status EXCEPT ![a] = "OK"]
    /\ UNCHANGED <<slotOf, serverSeq, records, writers, sent, response, authorized>>

\* The process dies, or the answer is lost on the way: the client knows nothing.
Lose(a) ==
    /\ pc[a] # "done"
    /\ Refuse(a, "LOST")
    /\ UNCHANGED <<slotOf, serverSeq, records, writers, sent, authorized>>

\* An owner demotes, removes, adds or promotes the user, or the document is
\* deleted or restored.
ChangeAccess(u) ==
    /\ writers' = IF u \in writers THEN writers \ {u} ELSE writers \cup {u}
    /\ UNCHANGED <<slotOf, serverSeq, records, sent, pc, response, status, authorized>>

\* Twenty-four hours pass.
Expire(k) ==
    /\ records[k] # NoRecord
    /\ ~records[k].expired
    /\ records' = [records EXCEPT ![k].expired = TRUE]
    /\ UNCHANGED <<slotOf, serverSeq, writers, sent, pc, response, status, authorized>>

CollectGarbage ==
    /\ \E k \in Keys : records[k] # NoRecord /\ records[k].expired
    /\ records' = [k \in Keys |-> IF Absent(records[k]) THEN NoRecord ELSE records[k]]
    /\ UNCHANGED <<slotOf, serverSeq, writers, sent, pc, response, status, authorized>>

------------------------------------------------------------------------------
Next ==
    \/ \E a \in Attempts :
          \/ Find(a) \/ Authorize(a) \/ Push(a) \/ PushFails(a) \/ PushUnconfirmed(a)
          \/ Store(a) \/ StoreFails(a) \/ Reply(a) \/ Lose(a)
    \/ \E u \in Users : ChangeAccess(u)
    \/ \E k \in Keys : Expire(k)
    \/ CollectGarbage

Spec == Init /\ [][Next]_vars

------------------------------------------------------------------------------
(***************************************************************************)
(* Properties                                                              *)
(***************************************************************************)
\* Every variable keeps its type, and no operation has a slot above the counter.
TypeOK ==
    /\ slotOf \in [OpIds -> Nat]
    /\ serverSeq \in Nat
    /\ records \in [Keys -> Record \cup {NoRecord}]
    /\ writers \subseteq Users
    /\ sent \in [Attempts -> Sends]
    /\ pc \in [Attempts -> Phases]
    /\ response \in [Attempts -> Response]
    /\ status \in [Attempts -> Statuses]
    /\ authorized \subseteq Attempts
    /\ \A x \in OpIds : slotOf[x] <= serverSeq

\* A response acknowledges exactly the operations of a body, each with the
\* slot the log stores it at, slots[x].
Acknowledges(slots, res, body) ==
    \A x \in OpIds :
        IF x \in body THEN slots[x] # 0 /\ res.acknowledged[x] = slots[x]
                      ELSE res.acknowledged[x] = 0

\* Whatever keys are raced, expired or reused, a client that is answered is
\* acknowledged exactly the operations it sent, at their durable slots: a
\* replayed answer is never another body's, and a stored one never goes stale.
AnswerMatchesBody ==
    /\ \A a \in Attempts : status[a] = "OK" => Acknowledges(slotOf, response[a], Body(a))
    /\ \A k \in Keys : records[k] # NoRecord =>
          Acknowledges(slotOf, records[k].response, records[k].requestHash)

\* The very push the attempt makes - user, key and body - passed authorize
\* once: for this attempt, or for one it retries.
OnceAuthorized(a) == \E b \in authorized : sent[b] = sent[a]

\* A replay is answered from the table, where nobody is authorized. Still an
\* acknowledgement goes only to a user who sent this batch under this key when
\* he was allowed to write: others' keys, expiry and races open no way around.
OnlyAuthorizedAnswered ==
    \A a \in Attempts : status[a] = "OK" => OnceAuthorized(a)

\* As documented (ARCHITECTURE.md:376), every push runs authorize: whoever is
\* answered from the table may write at that moment. Nothing asks, so a user
\* demoted since the answer was stored is acknowledged all the same.
ReplayedToWriters ==
    [][\A a \in Attempts : pc[a] = "find" /\ pc'[a] = "reply" => MayWrite(a)]_pc

\* "create, not upsert": until it expires, the response stored for a key is
\* never replaced or removed, whichever attempts race to store theirs.
StoredResponseStable ==
    [][\A k \in Keys : ~Absent(records[k]) =>
          /\ records'[k] # NoRecord
          /\ [records'[k] EXCEPT !.expired = FALSE] = records[k]]_records

\* Batch-level idempotency with no table at all: attempts that send one body,
\* under one key or several, before or after an expiry or a crash, are all
\* acknowledged with the same slots.
RetriesAgree ==
    \A a, b \in Attempts :
        status[a] = "OK" /\ status[b] = "OK" /\ Body(a) = Body(b) =>
            response[a].acknowledged = response[b].acknowledged

\* Whatever attempts commit, repeat, fail or are lost, the log has one
\* operation at every slot up to the counter: a client that pulls from slot to
\* slot waits for none that will never come.
LogGapless ==
    /\ \A n \in 1 .. serverSeq : \E x \in OpIds : slotOf[x] = n
    /\ \A x, y \in OpIds : slotOf[x] # 0 /\ slotOf[x] = slotOf[y] => x = y

\* The counter in an answer is documented as the client's next checkpoint
\* (operation.repository.ts:32): it is never short of what the answer
\* acknowledges and never ahead of the log, also when the answer is replayed.
Covers(res) ==
    /\ res.documentSeq <= serverSeq
    /\ \A x \in OpIds : res.acknowledged[x] <= res.documentSeq

CountersCover ==
    /\ \A a \in Attempts : Covers(response[a])
    /\ \A k \in Keys : records[k] # NoRecord => Covers(records[k].response)
==============================================================================
