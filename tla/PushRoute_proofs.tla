--------------------------- MODULE PushRoute_proofs ---------------------------
(***************************************************************************)
(* What the push route answers, for any number of attempts, keys, users    *)
(* and operations.                                                         *)
(***************************************************************************)
EXTENDS PushRoute, FiniteSetTheorems, TLAPS

\* What a handler past the pipeline holds is already a true answer.
HeldMatchesBody ==
    \A a \in Attempts :
        pc[a] \in {"store", "reply"} => Acknowledges(slotOf, response[a], Body(a))

\* A handler past authorize, or holding a stored response, makes a push that
\* was authorized; so was the push whose response a row stores.
HeldAuthorized ==
    \A a \in Attempts : pc[a] \in {"commit", "store", "reply"} => OnceAuthorized(a)

RecordsAuthorized ==
    \A k \in Keys : records[k] # NoRecord =>
        \E b \in authorized :
            /\ sent[b].user = records[k].user
            /\ sent[b].key = k
            /\ sent[b].body = records[k].requestHash

IInv ==
    /\ TypeOK
    /\ AnswerMatchesBody
    /\ OnlyAuthorizedAnswered
    /\ HeldMatchesBody
    /\ HeldAuthorized
    /\ RecordsAuthorized

USE SendsAssumption

------------------------------------------------------------------------------
\* A batch and what is fresh of it are finite, and the count of it a number.
LEMMA FreshFinite ==
    ASSUME TypeOK, NEW a \in Attempts
    PROVE  /\ Cardinality(Fresh(a)) \in Nat
           /\ Cardinality(Known(a)) \in Nat
           /\ Body(a) \subseteq OpIds
<1>1. Body(a) \subseteq OpIds
  BY DEF TypeOK, Body, Send
<1>2. IsFiniteSet(Fresh(a)) /\ IsFiniteSet(Known(a))
  BY <1>1, FS_Subset DEF Fresh, Known
<1> QED
  BY <1>1, <1>2, FS_CardinalityType

\* A commit leaves every stored operation where it is.
SlotsKept == \A x \in OpIds : slotOf[x] # 0 => slotOf'[x] = slotOf[x]

\* A commit moves no stored operation, gives the batch's others a slot within
\* the counter, and touches nothing else of the log.
LEMMA CommitStores ==
    ASSUME TypeOK, NEW a \in Attempts, NEW f \in Numberings(a), Committed(a, f)
    PROVE  /\ SlotsKept
           /\ slotOf' \in [OpIds -> Nat]
           /\ serverSeq' \in Nat
           /\ \A x \in OpIds : slotOf'[x] <= serverSeq'
           /\ \A x \in Body(a) : slotOf'[x] # 0
<1>1. Cardinality(Fresh(a)) \in Nat /\ Body(a) \subseteq OpIds
  BY FreshFinite
<1>2. serverSeq \in Nat /\ slotOf \in [OpIds -> Nat] /\ \A x \in OpIds : slotOf[x] <= serverSeq
  BY DEF TypeOK
<1>3. \A x \in Fresh(a) : f[x] \in serverSeq + 1 .. serverSeq + Cardinality(Fresh(a))
  BY DEF Numberings
<1>4. \A x \in Fresh(a) : f[x] \in Nat /\ f[x] # 0 /\ f[x] <= serverSeq'
  BY <1>1, <1>2, <1>3 DEF Committed
<1>5. serverSeq' \in Nat /\ serverSeq <= serverSeq'
  BY <1>1, <1>2 DEF Committed
<1>6. SlotsKept
  BY <1>2 DEF SlotsKept, Committed, Fresh, Known
<1>7. slotOf' \in [OpIds -> Nat]
  BY <1>2, <1>4 DEF Committed
<1>8. \A x \in OpIds : slotOf'[x] <= serverSeq'
  BY <1>2, <1>4, <1>5 DEF Committed
<1>9. \A x \in Body(a) : slotOf'[x] # 0
  BY <1>1, <1>2, <1>4 DEF Committed, Fresh, Known
<1> QED
  BY <1>5, <1>6, <1>7, <1>8, <1>9

\* A true answer stays true while stored operations stay where they are.
LEMMA AcknowledgesKept ==
    ASSUME SlotsKept, NEW res, NEW body, Acknowledges(slotOf, res, body)
    PROVE  Acknowledges(slotOf', res, body)
BY DEF SlotsKept, Acknowledges

------------------------------------------------------------------------------
LEMMA InitInductive == Init => IInv
<1> SUFFICES ASSUME Init PROVE IInv
  OBVIOUS
<1>1. TypeOK
  BY DEF Init, TypeOK, Phases, Statuses, Response, NoResponse
<1>2. AnswerMatchesBody /\ HeldMatchesBody
  BY DEF Init, AnswerMatchesBody, HeldMatchesBody
<1>3. OnlyAuthorizedAnswered /\ HeldAuthorized /\ RecordsAuthorized
  BY DEF Init, OnlyAuthorizedAnswered, HeldAuthorized, RecordsAuthorized
<1> QED
  BY <1>1, <1>2, <1>3 DEF IInv

\* A step of one attempt keeps the invariant, when it moves no stored
\* operation and what the attempt then holds or answers is true and authorized.
LEMMA MovesOneAttempt ==
    ASSUME IInv, NEW a \in Attempts,
           SlotsKept,
           slotOf' \in [OpIds -> Nat],
           serverSeq' \in Nat,
           \A x \in OpIds : slotOf'[x] <= serverSeq',
           UNCHANGED <<records, writers, sent>>,
           authorized' \in SUBSET Attempts, authorized \subseteq authorized',
           NEW phase \in Phases, NEW s \in Statuses, NEW res \in Response,
           pc' = [pc EXCEPT ![a] = phase],
           status' = [status EXCEPT ![a] = s],
           response' = [response EXCEPT ![a] = res],
           phase \in {"store", "reply"} \/ s = "OK" => Acknowledges(slotOf', res, Body(a)),
           phase \in {"commit", "store", "reply"} \/ s = "OK" => OnceAuthorized(a)'
    PROVE  IInv'
<1> USE DEF IInv
<1>1. TypeOK'
  BY DEF TypeOK
<1>2. \A b \in Attempts : Body(b)' = Body(b)
  BY DEF Body
<1>3. \A r, b : Acknowledges(slotOf, r, b) => Acknowledges(slotOf', r, b)
  BY AcknowledgesKept
<1>4. \A b \in Attempts :
        /\ b # a => pc'[b] = pc[b] /\ status'[b] = status[b] /\ response'[b] = response[b]
        /\ b = a => pc'[b] = phase /\ status'[b] = s /\ response'[b] = res
  BY DEF TypeOK
<1>5. ASSUME NEW b \in Attempts, status'[b] = "OK" \/ pc'[b] \in {"store", "reply"}
      PROVE  Acknowledges(slotOf', response'[b], Body(b))
  <2>1. CASE b = a
    BY <1>5, <2>1, <1>4
  <2>2. CASE b # a
    BY <1>5, <2>2, <1>3, <1>4 DEF AnswerMatchesBody, HeldMatchesBody
  <2> QED
    BY <2>1, <2>2
<1>6. ASSUME NEW b \in Attempts, status'[b] = "OK" \/ pc'[b] \in {"commit", "store", "reply"}
      PROVE  OnceAuthorized(b)'
  <2>1. CASE b = a
    BY <1>6, <2>1, <1>4
  <2>2. CASE b # a
    <3>1. OnceAuthorized(b)
      BY <1>6, <2>2, <1>4 DEF OnlyAuthorizedAnswered, HeldAuthorized
    <3> QED
      BY <3>1 DEF OnceAuthorized
  <2> QED
    BY <2>1, <2>2
<1>7. \A k \in Keys : records[k] # NoRecord =>
        Acknowledges(slotOf', records[k].response, records[k].requestHash)
  BY <1>3 DEF AnswerMatchesBody
<1>8. AnswerMatchesBody' /\ HeldMatchesBody'
  BY <1>2, <1>5, <1>7 DEF AnswerMatchesBody, HeldMatchesBody
<1>9. OnlyAuthorizedAnswered' /\ HeldAuthorized'
  BY <1>6 DEF OnlyAuthorizedAnswered, HeldAuthorized
<1>10. RecordsAuthorized'
  BY DEF RecordsAuthorized
<1> QED
  BY <1>1, <1>8, <1>9, <1>10

\* A step that authorizes nobody leaves every authorization standing.
LEMMA AuthorizedKept ==
    ASSUME TypeOK, UNCHANGED <<authorized, sent>>
    PROVE  /\ authorized' \in SUBSET Attempts
           /\ authorized \subseteq authorized'
           /\ \A a \in Attempts : OnceAuthorized(a) => OnceAuthorized(a)'
BY DEF TypeOK, OnceAuthorized

\* A step that leaves the log alone keeps what MovesOneAttempt asks of it.
LEMMA LogKept ==
    ASSUME TypeOK, UNCHANGED <<slotOf, serverSeq>>
    PROVE  /\ SlotsKept
           /\ slotOf' \in [OpIds -> Nat]
           /\ serverSeq' \in Nat
           /\ \A x \in OpIds : slotOf'[x] <= serverSeq'
BY DEF TypeOK, SlotsKept

\* A change of the table keeps the invariant, when each row is an old one, at
\* most grown older, or a true answer to an authorized push.
LEMMA ChangesTable ==
    ASSUME IInv,
           UNCHANGED <<slotOf, serverSeq, writers, sent, response, status, authorized>>,
           pc' \in [Attempts -> Phases],
           \A b \in Attempts : pc'[b] = pc[b] \/ (pc[b] = "store" /\ pc'[b] = "reply"),
           records' \in [Keys -> Record \cup {NoRecord}],
           \A k \in Keys : records'[k] # NoRecord =>
               Acknowledges(slotOf, records'[k].response, records'[k].requestHash),
           RecordsAuthorized'
    PROVE  IInv'
<1> USE DEF IInv
<1>1. TypeOK'
  BY DEF TypeOK
<1>2. \A b \in Attempts : /\ Body(b)' = Body(b)
                           /\ OnceAuthorized(b)' = OnceAuthorized(b)
  BY DEF Body, OnceAuthorized
<1>3. AnswerMatchesBody' /\ HeldMatchesBody'
  BY <1>2 DEF AnswerMatchesBody, HeldMatchesBody
<1>4. OnlyAuthorizedAnswered' /\ HeldAuthorized'
  BY <1>2 DEF OnlyAuthorizedAnswered, HeldAuthorized
<1> QED
  BY <1>1, <1>3, <1>4

------------------------------------------------------------------------------
\* A refusal, or a loss, answers nothing.
LEMMA RefuseInductive ==
    ASSUME IInv, NEW a \in Attempts, NEW s \in Statuses \ {"OK"}, Refuse(a, s),
           SlotsKept,
           slotOf' \in [OpIds -> Nat],
           serverSeq' \in Nat,
           \A x \in OpIds : slotOf'[x] <= serverSeq',
           UNCHANGED <<records, writers, sent, authorized>>
    PROVE  IInv'
<1>1. response' = [response EXCEPT ![a] = response[a]] /\ response[a] \in Response
  BY DEF Refuse, IInv, TypeOK
<1>2. "done" \in Phases /\ s \in Statuses
  BY DEF Phases
<1>3. authorized' \in SUBSET Attempts /\ authorized \subseteq authorized'
  BY AuthorizedKept DEF IInv
<1> QED
  BY <1>1, <1>2, <1>3, MovesOneAttempt DEF Refuse, Goto

\* The role is looked up once the table is found to hold nothing.
LEMMA AuthorizeInductive == ASSUME IInv, NEW a \in Attempts, Authorize(a) PROVE IInv'
<1>1. TypeOK
  BY DEF IInv
<1>2. /\ SlotsKept
      /\ slotOf' \in [OpIds -> Nat]
      /\ serverSeq' \in Nat
      /\ \A x \in OpIds : slotOf'[x] <= serverSeq'
  BY <1>1, LogKept DEF Authorize
<1>3. /\ pc' = [pc EXCEPT ![a] = "commit"] /\ "commit" \in Phases
      /\ response' = [response EXCEPT ![a] = response[a]] /\ response[a] \in Response
      /\ status' = [status EXCEPT ![a] = status[a]] /\ status[a] \in Statuses
      /\ authorized' \in SUBSET Attempts /\ authorized \subseteq authorized'
      /\ UNCHANGED <<slotOf, records, writers, sent>>
  BY <1>1 DEF Authorize, Goto, Phases, TypeOK
<1>4. OnceAuthorized(a)'
  BY DEF Authorize, OnceAuthorized
<1>5. status[a] = "OK" => Acknowledges(slotOf', response[a], Body(a))
  BY <1>3 DEF IInv, AnswerMatchesBody
<1> QED
  BY <1>2, <1>3, <1>4, <1>5, MovesOneAttempt

LEMMA FindInductive == ASSUME IInv, NEW a \in Attempts, Find(a) PROVE IInv'
<1> DEFINE row == records[KeyOf(a)]
<1>1. TypeOK
  BY DEF IInv
<1>2. KeyOf(a) \in Keys
  BY <1>1 DEF TypeOK, KeyOf, Send
<1>3. /\ SlotsKept
      /\ slotOf' \in [OpIds -> Nat]
      /\ serverSeq' \in Nat
      /\ \A x \in OpIds : slotOf'[x] <= serverSeq'
      /\ UNCHANGED <<slotOf, records, writers, sent, authorized>>
      /\ authorized' \in SUBSET Attempts
      /\ authorized \subseteq authorized'
      /\ OnceAuthorized(a) => OnceAuthorized(a)'
  BY <1>1, LogKept, AuthorizedKept DEF Find
<1>4. CASE Absent(row)
  <2>1. /\ pc' = [pc EXCEPT ![a] = "push"]
        /\ status' = [status EXCEPT ![a] = status[a]]
        /\ response' = [response EXCEPT ![a] = response[a]]
        /\ response[a] \in Response
        /\ status[a] \in Statuses
    BY <1>1, <1>4 DEF Find, Goto, TypeOK
  <2>2. /\ status[a] = "OK" => Acknowledges(slotOf', response[a], Body(a))
        /\ status[a] = "OK" => OnceAuthorized(a)'
    BY <1>3 DEF IInv, AnswerMatchesBody, OnlyAuthorizedAnswered
  <2> QED
    BY <2>1, <2>2, <1>3, MovesOneAttempt DEF Phases
<1>5. CASE ~Absent(row) /\ ~Owned(row, a)
  BY <1>3, <1>5, RefuseInductive DEF Find, Statuses
<1>6. CASE ~Absent(row) /\ Owned(row, a)
  <2>1. /\ pc' = [pc EXCEPT ![a] = "reply"]
        /\ response' = [response EXCEPT ![a] = row.response]
        /\ status' = status
    BY <1>6 DEF Find, Goto
  <2>2. row \in Record
    BY <1>1, <1>2, <1>6 DEF TypeOK, Absent
  <2>3. OnceAuthorized(a)'
    <3>1. PICK b \in authorized :
              /\ sent[b].user = row.user
              /\ sent[b].key = KeyOf(a)
              /\ sent[b].body = row.requestHash
      BY <1>2, <1>6 DEF IInv, RecordsAuthorized, Absent
    <3>2. sent[a] \in Send /\ sent[b] \in Send
      BY <1>1, <3>1 DEF TypeOK
    <3>3. sent[b] = sent[a]
      BY <1>6, <3>1, <3>2 DEF Owned, KeyOf, Body, Send
    <3> QED
      BY <1>3, <3>1, <3>3 DEF OnceAuthorized
  <2>4. Acknowledges(slotOf', row.response, Body(a))
    BY <1>2, <1>3, <1>6 DEF IInv, AnswerMatchesBody, Owned, Absent
  <2>5. status' = [status EXCEPT ![a] = status[a]] /\ status[a] \in Statuses
    BY <1>1, <2>1 DEF TypeOK
  <2> QED
    BY <1>3, <2>1, <2>2, <2>3, <2>4, <2>5, MovesOneAttempt DEF Phases, Record
<1> QED
  BY <1>4, <1>5, <1>6

LEMMA PushInductive == ASSUME IInv, NEW a \in Attempts, Push(a) PROVE IInv'
<1> DEFINE res == [acknowledged   |-> [x \in OpIds |-> IF x \in Body(a) THEN slotOf'[x] ELSE 0],
                   duplicateCount |-> Cardinality(Known(a)),
                   documentSeq    |-> serverSeq']
<1>1. TypeOK
  BY DEF IInv
<1>2. PICK f \in Numberings(a) : Committed(a, f)
  BY DEF Push
<1>3. /\ SlotsKept
      /\ slotOf' \in [OpIds -> Nat]
      /\ serverSeq' \in Nat
      /\ \A x \in OpIds : slotOf'[x] <= serverSeq'
      /\ \A x \in Body(a) : slotOf'[x] # 0
  BY <1>1, <1>2, CommitStores
<1>4. res \in Response
  BY <1>1, <1>3, FreshFinite DEF Response
<1>5. Acknowledges(slotOf', res, Body(a))
  BY <1>3 DEF Acknowledges
<1>6. status' = [status EXCEPT ![a] = status[a]] /\ status[a] \in Statuses
  BY <1>1 DEF Push, TypeOK
<1>7. /\ pc' = [pc EXCEPT ![a] = "store"] /\ "store" \in Phases
      /\ response' = [response EXCEPT ![a] = res]
      /\ UNCHANGED <<records, writers, sent, authorized>>
  BY DEF Push, Goto, Phases
<1>8. /\ authorized' \in SUBSET Attempts
      /\ authorized \subseteq authorized'
      /\ OnceAuthorized(a)'
  BY <1>1, <1>7, AuthorizedKept DEF Push, IInv, HeldAuthorized
<1> HIDE DEF res
<1> QED
  BY <1>3, <1>4, <1>5, <1>6, <1>7, <1>8, MovesOneAttempt

LEMMA StoreInductive ==
    ASSUME IInv, NEW a \in Attempts, Store(a) \/ StoreFails(a) PROVE IInv'
<1>1. TypeOK /\ KeyOf(a) \in Keys /\ Body(a) \subseteq OpIds /\ sent[a].user \in Users
  BY DEF IInv, TypeOK, KeyOf, Body, Send
<1>2. Acknowledges(slotOf, response[a], Body(a)) /\ OnceAuthorized(a)
  BY DEF Store, StoreFails, IInv, HeldMatchesBody, HeldAuthorized
<1>3. NewRecord(a) \in Record
  BY <1>1 DEF NewRecord, Record, TypeOK
<1>4. /\ UNCHANGED <<slotOf, serverSeq, writers, sent, response, status, authorized>>
      /\ pc' = [pc EXCEPT ![a] = "reply"]
      /\ pc[a] = "store"
  BY DEF Store, StoreFails, Goto
<1>5. /\ pc' \in [Attempts -> Phases]
      /\ \A b \in Attempts : pc'[b] = pc[b] \/ (pc[b] = "store" /\ pc'[b] = "reply")
  BY <1>1, <1>4 DEF TypeOK, Phases
<1>6. records' \in [Keys -> Record \cup {NoRecord}]
  BY <1>1, <1>3 DEF Store, StoreFails, TypeOK
<1>7. ASSUME NEW k \in Keys
      PROVE  records'[k] = records[k] \/ (k = KeyOf(a) /\ records'[k] = NewRecord(a))
  BY <1>1 DEF Store, StoreFails, TypeOK
<1>8. \A k \in Keys : records'[k] # NoRecord =>
        Acknowledges(slotOf, records'[k].response, records'[k].requestHash)
  BY <1>2, <1>7 DEF IInv, AnswerMatchesBody, NewRecord
<1>9. RecordsAuthorized'
  <2>1. \E b \in authorized : /\ sent[b].user = NewRecord(a).user
                              /\ sent[b].key = KeyOf(a)
                              /\ sent[b].body = NewRecord(a).requestHash
    BY <1>2 DEF OnceAuthorized, NewRecord, KeyOf, Body
  <2> QED
    BY <1>4, <1>7, <2>1 DEF IInv, RecordsAuthorized
<1> QED
  BY <1>4, <1>5, <1>6, <1>8, <1>9, ChangesTable

LEMMA ReplyInductive == ASSUME IInv, NEW a \in Attempts, Reply(a) PROVE IInv'
<1>1. TypeOK
  BY DEF IInv
<1>2. Acknowledges(slotOf, response[a], Body(a)) /\ OnceAuthorized(a)
  BY DEF Reply, IInv, HeldMatchesBody, HeldAuthorized
<1>3. response' = [response EXCEPT ![a] = response[a]] /\ response[a] \in Response
  BY <1>1 DEF Reply, TypeOK
<1>4. /\ SlotsKept
      /\ slotOf' \in [OpIds -> Nat]
      /\ serverSeq' \in Nat
      /\ \A x \in OpIds : slotOf'[x] <= serverSeq'
  BY <1>1, LogKept DEF Reply
<1>5. /\ authorized' \in SUBSET Attempts
      /\ authorized \subseteq authorized'
      /\ OnceAuthorized(a)'
  BY <1>1, <1>2, AuthorizedKept DEF Reply
<1>6. /\ pc' = [pc EXCEPT ![a] = "done"] /\ "done" \in Phases
      /\ status' = [status EXCEPT ![a] = "OK"] /\ "OK" \in Statuses
      /\ UNCHANGED <<slotOf, records, writers, sent>>
  BY DEF Reply, Goto, Phases, Statuses
<1> QED
  BY <1>2, <1>3, <1>4, <1>5, <1>6, MovesOneAttempt

\* Who may write now plays no part in what was answered or stored before.
LEMMA AccessInductive == ASSUME IInv, NEW u \in Users, ChangeAccess(u) PROVE IInv'
<1> USE DEF IInv, ChangeAccess
<1>1. TypeOK'
  BY DEF TypeOK
<1>2. AnswerMatchesBody' /\ HeldMatchesBody'
  BY DEF AnswerMatchesBody, HeldMatchesBody, Acknowledges, Body
<1>3. OnlyAuthorizedAnswered' /\ HeldAuthorized' /\ RecordsAuthorized'
  BY DEF OnlyAuthorizedAnswered, HeldAuthorized, RecordsAuthorized, OnceAuthorized
<1> QED
  BY <1>1, <1>2, <1>3

LEMMA AgeInductive ==
    ASSUME IInv, (\E k \in Keys : Expire(k)) \/ CollectGarbage PROVE IInv'
<1>1. TypeOK
  BY DEF IInv
<1>2. ASSUME NEW k \in Keys, records'[k] # NoRecord
      PROVE  /\ records[k] \in Record
             /\ records'[k] = [records[k] EXCEPT !.expired = TRUE] \/ records'[k] = records[k]
  BY <1>1, <1>2 DEF Expire, CollectGarbage, Absent, TypeOK
<1>3. ASSUME NEW k \in Keys, records'[k] # NoRecord
      PROVE  /\ records'[k] \in Record
             /\ records'[k].user = records[k].user
             /\ records'[k].response = records[k].response
             /\ records'[k].requestHash = records[k].requestHash
             /\ records[k] # NoRecord
  BY <1>2, <1>3 DEF Record
<1>4. records' \in [Keys -> Record \cup {NoRecord}]
  <2>1. records' = [k \in Keys |-> records'[k]]
    BY <1>1 DEF Expire, CollectGarbage, TypeOK
  <2> QED
    BY <2>1, <1>3
<1>5. \A k \in Keys : records'[k] # NoRecord =>
        Acknowledges(slotOf, records'[k].response, records'[k].requestHash)
  BY <1>3 DEF IInv, AnswerMatchesBody
<1>6. UNCHANGED <<slotOf, serverSeq, writers, sent, pc, response, status, authorized>>
  BY DEF Expire, CollectGarbage
<1>7. RecordsAuthorized'
  BY <1>3, <1>6 DEF IInv, RecordsAuthorized
<1> QED
  BY <1>1, <1>4, <1>5, <1>6, <1>7, ChangesTable DEF TypeOK

------------------------------------------------------------------------------
LEMMA NextInductive == IInv /\ [Next]_vars => IInv'
<1> SUFFICES ASSUME IInv, [Next]_vars PROVE IInv'
  OBVIOUS
<1>0. TypeOK
  BY DEF IInv
<1>1. ASSUME NEW a \in Attempts, Find(a) PROVE IInv'
  BY <1>1, FindInductive
<1>2. ASSUME NEW a \in Attempts, Push(a) PROVE IInv'
  BY <1>2, PushInductive
<1>3. ASSUME NEW a \in Attempts, PushFails(a) \/ Lose(a) PROVE IInv'
  BY <1>0, <1>3, LogKept, RefuseInductive DEF PushFails, Lose, Statuses
<1>4. ASSUME NEW a \in Attempts, PushUnconfirmed(a) PROVE IInv'
  BY <1>0, <1>4, CommitStores, RefuseInductive DEF PushUnconfirmed, Statuses
<1>5. ASSUME NEW a \in Attempts, Store(a) \/ StoreFails(a) PROVE IInv'
  BY <1>5, StoreInductive
<1>6. ASSUME NEW a \in Attempts, Reply(a) PROVE IInv'
  BY <1>6, ReplyInductive
<1>7. CASE (\E k \in Keys : Expire(k)) \/ CollectGarbage
  BY <1>7, AgeInductive
<1>8. ASSUME NEW a \in Attempts, Authorize(a) PROVE IInv'
  BY <1>8, AuthorizeInductive
<1>9. ASSUME NEW u \in Users, ChangeAccess(u) PROVE IInv'
  BY <1>9, AccessInductive
<1>10. CASE UNCHANGED vars
  BY <1>10 DEF vars, IInv, TypeOK, AnswerMatchesBody, OnlyAuthorizedAnswered, HeldMatchesBody,
     HeldAuthorized, RecordsAuthorized, OnceAuthorized, Acknowledges, Body
<1> QED
  BY <1>1, <1>2, <1>3, <1>4, <1>5, <1>6, <1>7, <1>8, <1>9, <1>10 DEF Next

\* The inductive invariant: answers, stored responses and those still held by
\* a handler are all true of the log, and all belong to authorized pushes.
THEOREM Inductive == Spec => []IInv
<1> QED
  BY InitInductive, NextInductive, PTL DEF Spec

\* Every state of the route is well typed.
THEOREM TypeCorrect == Spec => []TypeOK
<1>1. IInv => TypeOK
  BY DEF IInv
<1> QED
  BY <1>1, Inductive, PTL

\* No key, race, expiry or crash makes an answer name another body's
\* operations, or slots that are not the log's.
THEOREM AnswersMatch == Spec => []AnswerMatchesBody
<1>1. IInv => AnswerMatchesBody
  BY DEF IInv
<1> QED
  BY <1>1, Inductive, PTL

\* The shortcut through the table, where nobody is authorized, acknowledges a
\* push only to the user who made it, under the same key and with the same
\* body, when he was allowed to: whatever changes of access, races and expiries
\* lie between.
THEOREM OnlyAuthorized == Spec => []OnlyAuthorizedAnswered
<1>1. IInv => OnlyAuthorizedAnswered
  BY DEF IInv
<1> QED
  BY <1>1, Inductive, PTL

\* Two answers to one body name the same slots, whichever keys they came under.
THEOREM RetriesAlwaysAgree == Spec => []RetriesAgree
<1>1. ASSUME IInv, NEW a \in Attempts, NEW b \in Attempts,
             status[a] = "OK", status[b] = "OK", Body(a) = Body(b)
      PROVE  response[a].acknowledged = response[b].acknowledged
  <2>1. response[a].acknowledged \in [OpIds -> Nat] /\ response[b].acknowledged \in [OpIds -> Nat]
    BY <1>1 DEF IInv, TypeOK, Response
  <2>2. Acknowledges(slotOf, response[a], Body(a)) /\ Acknowledges(slotOf, response[b], Body(a))
    BY <1>1 DEF IInv, AnswerMatchesBody
  <2>3. \A x \in OpIds : response[a].acknowledged[x] = response[b].acknowledged[x]
    BY <2>2 DEF Acknowledges
  <2> QED
    BY <2>1, <2>3
<1>2. IInv => RetriesAgree
  BY <1>1 DEF RetriesAgree
<1> QED
  BY <1>2, Inductive, PTL

\* "create, not upsert": whichever attempts race to store a response under a
\* key, the one stored stays until it expires (idempotencyRepository.store).
THEOREM ResponsesStay == Spec => StoredResponseStable
<1> DEFINE Stable(k) == ~Absent(records[k]) =>
               /\ records'[k] # NoRecord
               /\ [records'[k] EXCEPT !.expired = FALSE] = records[k]
<1>1. ASSUME IInv, [Next]_vars, NEW k \in Keys PROVE Stable(k)
  <2> SUFFICES ASSUME ~Absent(records[k]) PROVE Stable(k)
    OBVIOUS
  <2>1. /\ records \in [Keys -> Record \cup {NoRecord}]
        /\ records[k] \in Record /\ records[k] # NoRecord /\ ~records[k].expired
    BY <1>1 DEF Absent, IInv, TypeOK
  <2>2. [records[k] EXCEPT !.expired = FALSE] = records[k]
    BY <2>1 DEF Record
  <2>3. CASE records'[k] = records[k]
    BY <2>1, <2>2, <2>3
  <2>4. ASSUME NEW a \in Attempts, Store(a) PROVE records'[k] = records[k]
    BY <2>1, <2>4 DEF Store
  <2>5. CASE \E key \in Keys : Expire(key)
    <3>1. PICK key \in Keys : Expire(key)
      BY <2>5
    <3>2. CASE key # k
      BY <2>1, <2>3, <3>1, <3>2 DEF Expire
    <3>3. CASE key = k
      <4>1. records'[k] = [records[k] EXCEPT !.expired = TRUE]
        BY <2>1, <3>1, <3>3 DEF Expire
      <4>2. records'[k] \in Record
        BY <2>1, <4>1 DEF Record
      <4>3. [records'[k] EXCEPT !.expired = FALSE] = records[k]
        BY <2>1, <4>1 DEF Record
      <4> QED
        BY <4>2, <4>3
    <3> QED
      BY <3>2, <3>3
  <2>6. CollectGarbage => records'[k] = records[k]
    BY <2>1 DEF CollectGarbage, Absent
  <2>7. ASSUME NEW a \in Attempts,
               \/ Find(a) \/ Authorize(a) \/ Push(a) \/ PushFails(a) \/ PushUnconfirmed(a)
               \/ StoreFails(a) \/ Reply(a) \/ Lose(a)
        PROVE  records' = records
    BY <2>7 DEF Find, Authorize, Push, PushFails, PushUnconfirmed, StoreFails, Reply, Lose
  <2>8. (\E u \in Users : ChangeAccess(u)) => records' = records
    BY DEF ChangeAccess
  <2>9. CASE UNCHANGED vars
    BY <2>3, <2>9 DEF vars
  <2> QED
    BY <1>1, <2>3, <2>4, <2>5, <2>6, <2>7, <2>8, <2>9 DEF Next
<1>2. IInv /\ [Next]_vars => [\A k \in Keys : Stable(k)]_records
  BY <1>1
<1>3. Spec => [][\A k \in Keys : Stable(k)]_records
  BY <1>2, Inductive, PTL DEF Spec
<1> QED
  BY <1>3 DEF StoredResponseStable

------------------------------------------------------------------------------
(***************************************************************************)
(* The log and the counter                                                 *)
(***************************************************************************)
LInv == IInv /\ LogGapless /\ CountersCover

\* As many slots as there are fresh operations, one each: none is left over.
LEMMA NumberingFills ==
    ASSUME TypeOK, NEW a \in Attempts, NEW f \in Numberings(a),
           NEW n \in serverSeq + 1 .. serverSeq + Cardinality(Fresh(a))
    PROVE  \E x \in Fresh(a) : f[x] = n
<1> DEFINE S == Fresh(a)
           k == Cardinality(S)
           T == serverSeq + 1 .. serverSeq + k
<1>1. IsFiniteSet(S) /\ k \in Nat
  <2>1. Body(a) \subseteq OpIds
    BY DEF TypeOK, Body, Send
  <2> QED
    BY <2>1, FreshFinite, FS_Subset DEF Fresh
<1>2. serverSeq \in Nat
  BY DEF TypeOK
<1>3. f \in [S -> T] /\ \A x, y \in S : f[x] = f[y] => x = y
  BY DEF Numberings
<1> HIDE DEF k
<1>4. IsFiniteSet(T) /\ Cardinality(T) = k
  <2>1. serverSeq + 1 \in Int /\ serverSeq + k \in Int
    BY <1>1, <1>2 DEF k
  <2>2. /\ IsFiniteSet(T)
        /\ Cardinality(T) = IF serverSeq + 1 > serverSeq + k THEN 0
                            ELSE (serverSeq + k) - (serverSeq + 1) + 1
    BY <2>1, FS_Interval
  <2>3. k \in Nat
    BY <1>1 DEF k
  <2> QED
    BY <1>2, <2>2, <2>3
<1>5. Cardinality(S) = Cardinality(T)
  BY <1>4 DEF k
<1> HIDE DEF S, T
<1>6. f \in Injection(S, T)
  BY <1>3 DEF Injection, IsInjective
<1>7. f \in Surjection(S, T)
  BY <1>4, <1>5, <1>6, FS_Injection
<1> QED
  BY <1>7 DEF Surjection, S, T, k

\* A commit puts one operation into each slot that it adds.
LEMMA CommitFills ==
    ASSUME TypeOK, LogGapless, NEW a \in Attempts, NEW f \in Numberings(a), Committed(a, f)
    PROVE  LogGapless'
<1> DEFINE k == Cardinality(Fresh(a))
<1>1. /\ serverSeq \in Nat /\ k \in Nat /\ Body(a) \subseteq OpIds
      /\ slotOf \in [OpIds -> Nat] /\ \A x \in OpIds : slotOf[x] <= serverSeq
  BY FreshFinite DEF TypeOK
<1>2. /\ serverSeq' = serverSeq + k
      /\ \A x \in OpIds : slotOf'[x] = IF x \in Fresh(a) THEN f[x] ELSE slotOf[x]
  BY DEF Committed
<1>3. /\ \A x \in Fresh(a) : f[x] \in serverSeq + 1 .. serverSeq + k
      /\ \A x, y \in Fresh(a) : f[x] = f[y] => x = y
  BY DEF Numberings
<1>4. Fresh(a) \subseteq OpIds /\ \A x \in Fresh(a) : slotOf[x] = 0
  BY <1>1 DEF Fresh, Known
<1> HIDE DEF k
<1>5. ASSUME NEW n \in 1 .. serverSeq' PROVE \E x \in OpIds : slotOf'[x] = n
  <2>1. CASE n <= serverSeq
    <3>1. PICK x \in OpIds : slotOf[x] = n
      BY <1>1, <2>1 DEF LogGapless
    <3>2. x \notin Fresh(a)
      BY <1>4, <3>1
    <3> QED
      BY <1>2, <3>1, <3>2
  <2>2. CASE ~(n <= serverSeq)
    <3>1. n \in serverSeq + 1 .. serverSeq + Cardinality(Fresh(a))
      BY <1>1, <1>2, <2>2 DEF k
    <3>2. PICK x \in Fresh(a) : f[x] = n
      BY <3>1, NumberingFills
    <3> QED
      BY <1>2, <1>4, <3>2
  <2> QED
    BY <2>1, <2>2
<1>6. ASSUME NEW x \in OpIds, NEW y \in OpIds, slotOf'[x] # 0, slotOf'[x] = slotOf'[y]
      PROVE  x = y
  <2>1. \A z \in Fresh(a) : f[z] > serverSeq /\ f[z] \in Nat
    BY <1>1, <1>3
  <2>2. CASE x \in Fresh(a) /\ y \in Fresh(a)
    BY <1>2, <1>3, <1>6, <2>2
  <2>3. CASE x \notin Fresh(a) /\ y \notin Fresh(a)
    BY <1>2, <1>6, <2>3 DEF LogGapless
  <2>4. CASE x \in Fresh(a) /\ y \notin Fresh(a)
    BY <1>1, <1>2, <1>6, <2>1, <2>4
  <2>5. CASE x \notin Fresh(a) /\ y \in Fresh(a)
    BY <1>1, <1>2, <1>6, <2>1, <2>5
  <2> QED
    BY <2>2, <2>3, <2>4, <2>5
<1> QED
  BY <1>5, <1>6 DEF LogGapless

\* Every response in a step is an old one or the pipeline's own.
LEMMA CoversStep ==
    ASSUME IInv, CountersCover, serverSeq' \in Nat, serverSeq <= serverSeq',
           NEW res \in Response, Covers(res)',
           \A a \in Attempts : response'[a] = res \/ (\E b \in Attempts : response'[a] = response[b])
                \/ \E k \in Keys : records[k] # NoRecord /\ response'[a] = records[k].response,
           \A k \in Keys : records'[k] # NoRecord =>
                \/ \E a \in Attempts : records'[k].response = response[a]
                \/ records[k] # NoRecord /\ records'[k].response = records[k].response
    PROVE  CountersCover'
<1>1. /\ serverSeq \in Nat
      /\ \A a \in Attempts : response[a] \in Response
      /\ \A k \in Keys : records[k] # NoRecord => records[k].response \in Response
  BY DEF IInv, TypeOK, Record
<1>2. ASSUME NEW old \in Response, Covers(old)
      PROVE  Covers(old)'
  <2>1. old.documentSeq \in Nat
    BY DEF Response
  <2>2. old.documentSeq <= serverSeq'
    BY <1>1, <1>2, <2>1 DEF Covers
  <2> QED
    BY <1>2, <2>2 DEF Covers
<1>3. ASSUME NEW a \in Attempts PROVE Covers(response[a])'
  <2>1. CASE response'[a] = res
    BY <2>1 DEF Covers
  <2>2. ASSUME NEW b \in Attempts, response'[a] = response[b] PROVE Covers(response[a])'
    <3>1. Covers(response[b]) /\ response[b] \in Response
      BY <1>1 DEF CountersCover
    <3>2. PICK old \in Response : old = response[b]
      BY <3>1
    <3>3. Covers(old)'
      BY <1>2, <3>1, <3>2
    <3> QED
      BY <2>2, <3>2, <3>3 DEF Covers
  <2>3. ASSUME NEW k \in Keys, records[k] # NoRecord, response'[a] = records[k].response
        PROVE  Covers(response[a])'
    <3>1. Covers(records[k].response) /\ records[k].response \in Response
      BY <1>1, <2>3 DEF CountersCover
    <3>2. PICK old \in Response : old = records[k].response
      BY <3>1
    <3>3. Covers(old)'
      BY <1>2, <3>1, <3>2
    <3> QED
      BY <2>3, <3>2, <3>3 DEF Covers
  <2> QED
    BY <2>1, <2>2, <2>3
<1>4. ASSUME NEW k \in Keys, records'[k] # NoRecord PROVE Covers(records[k].response)'
  <2>1. ASSUME NEW a \in Attempts, records'[k].response = response[a]
        PROVE  Covers(records[k].response)'
    <3>1. Covers(response[a]) /\ response[a] \in Response
      BY <1>1 DEF CountersCover
    <3>2. PICK old \in Response : old = response[a]
      BY <3>1
    <3>3. Covers(old)'
      BY <1>2, <3>1, <3>2
    <3> QED
      BY <2>1, <3>2, <3>3 DEF Covers
  <2>2. CASE records[k] # NoRecord /\ records'[k].response = records[k].response
    <3>1. Covers(records[k].response) /\ records[k].response \in Response
      BY <1>1, <2>2 DEF CountersCover
    <3>2. PICK old \in Response : old = records[k].response
      BY <3>1
    <3>3. Covers(old)'
      BY <1>2, <3>1, <3>2
    <3> QED
      BY <2>2, <3>2, <3>3 DEF Covers
  <2> QED
    BY <1>4, <2>1, <2>2
<1> QED
  BY <1>3, <1>4 DEF CountersCover

\* A handler's step other than the push's leaves the log alone and makes no
\* response of its own.
LEMMA QuietCovers ==
    ASSUME LInv, UNCHANGED <<slotOf, serverSeq>>,
           \A a \in Attempts : (\E b \in Attempts : response'[a] = response[b])
                \/ \E k \in Keys : records[k] # NoRecord /\ response'[a] = records[k].response,
           \A k \in Keys : records'[k] # NoRecord =>
                \/ \E a \in Attempts : records'[k].response = response[a]
                \/ records[k] # NoRecord /\ records'[k].response = records[k].response
    PROVE  LogGapless' /\ CountersCover'
<1>1. serverSeq \in Nat /\ serverSeq' \in Nat /\ serverSeq <= serverSeq'
  BY DEF LInv, IInv, TypeOK
<1>2. LogGapless'
  BY DEF LInv, LogGapless
<1>3. NoResponse \in Response /\ Covers(NoResponse)'
  BY <1>1 DEF NoResponse, Response, Covers
<1>4. IInv /\ CountersCover
  BY DEF LInv
<1> QED
  BY <1>1, <1>2, <1>3, <1>4, CoversStep

LEMMA LogStep == ASSUME LInv, [Next]_vars PROVE LogGapless' /\ CountersCover'
<1>0. IInv /\ TypeOK /\ LogGapless /\ CountersCover
  BY DEF LInv, IInv
<1>1. ASSUME NEW a \in Attempts, Push(a) PROVE LogGapless' /\ CountersCover'
  <2>1. PICK f \in Numberings(a) : Committed(a, f)
    BY <1>1 DEF Push
  <2>2. LogGapless'
    BY <1>0, <2>1, CommitFills
  <2>3. /\ slotOf' \in [OpIds -> Nat] /\ serverSeq' \in Nat
        /\ \A x \in OpIds : slotOf'[x] <= serverSeq'
    BY <1>0, <2>1, CommitStores
  <2>4. serverSeq <= serverSeq'
    BY <1>0, <2>1, <2>3, FreshFinite DEF Committed, TypeOK
  <2>5. PICK res \in Response :
          /\ res.documentSeq = serverSeq'
          /\ \A x \in OpIds : res.acknowledged[x] = IF x \in Body(a) THEN slotOf'[x] ELSE 0
          /\ response' = [response EXCEPT ![a] = res]
    <3> DEFINE made == [acknowledged   |-> [x \in OpIds |-> IF x \in Body(a) THEN slotOf'[x] ELSE 0],
                        duplicateCount |-> Cardinality(Known(a)),
                        documentSeq    |-> serverSeq']
    <3>1. made \in Response
      BY <1>0, <2>3, FreshFinite DEF Response
    <3>2. response' = [response EXCEPT ![a] = made]
      BY <1>1 DEF Push
    <3> QED
      BY <3>1, <3>2
  <2>6. Covers(res)'
    BY <2>3, <2>5 DEF Covers
  <2>7. \A b \in Attempts : response'[b] = res \/ response'[b] = response[b]
    BY <1>0, <2>5 DEF TypeOK
  <2>8. records' = records
    BY <1>1 DEF Push
  <2>9. CountersCover'
    BY <1>0, <2>3, <2>4, <2>6, <2>7, <2>8, CoversStep
  <2> QED
    BY <2>2, <2>9
<1>2. ASSUME NEW a \in Attempts, PushUnconfirmed(a) PROVE LogGapless' /\ CountersCover'
  <2>1. PICK f \in Numberings(a) : Committed(a, f)
    BY <1>2 DEF PushUnconfirmed
  <2>2. LogGapless'
    BY <1>0, <2>1, CommitFills
  <2>3. serverSeq' \in Nat /\ serverSeq <= serverSeq'
    BY <1>0, <2>1, FreshFinite DEF Committed, TypeOK
  <2>4. UNCHANGED <<response, records>>
    BY <1>2 DEF PushUnconfirmed, Refuse
  <2>5. NoResponse \in Response /\ Covers(NoResponse)'
    BY <2>3 DEF NoResponse, Response, Covers
  <2>6. CountersCover'
    BY <1>0, <2>3, <2>4, <2>5, CoversStep
  <2> QED
    BY <2>2, <2>6
<1>3. ASSUME NEW a \in Attempts, Find(a) PROVE LogGapless' /\ CountersCover'
  <2>1. UNCHANGED <<slotOf, serverSeq, records>>
    BY <1>3 DEF Find
  <2>2. KeyOf(a) \in Keys
    BY <1>0 DEF TypeOK, KeyOf, Send
  <2>3. \/ response' = response
        \/ /\ records[KeyOf(a)] # NoRecord
           /\ response' = [response EXCEPT ![a] = records[KeyOf(a)].response]
    BY <1>3 DEF Find, Refuse, Absent
  <2>4. \A b \in Attempts : \/ \E c \in Attempts : response'[b] = response[c]
                             \/ \E k \in Keys : /\ records[k] # NoRecord
                                                /\ response'[b] = records[k].response
    BY <1>0, <2>2, <2>3 DEF TypeOK
  <2> QED
    BY <2>1, <2>4, QuietCovers
<1>4. ASSUME NEW a \in Attempts, Store(a) PROVE LogGapless' /\ CountersCover'
  <2>1. UNCHANGED <<slotOf, serverSeq, response>>
    BY <1>4 DEF Store
  <2>2. ASSUME NEW k \in Keys, records'[k] # NoRecord
        PROVE  \/ records'[k].response = response[a]
               \/ records[k] # NoRecord /\ records'[k].response = records[k].response
    BY <1>0, <1>4, <2>2 DEF Store, NewRecord, TypeOK
  <2> QED
    BY <2>1, <2>2, QuietCovers
<1>5. ASSUME NEW a \in Attempts, Authorize(a) \/ PushFails(a) \/ StoreFails(a) \/ Reply(a) \/ Lose(a)
      PROVE  LogGapless' /\ CountersCover'
  <2>1. UNCHANGED <<slotOf, serverSeq, response, records>>
    BY <1>5 DEF Authorize, PushFails, StoreFails, Reply, Lose, Refuse
  <2> QED
    BY <2>1, QuietCovers
<1>6. CASE (\E k \in Keys : Expire(k)) \/ CollectGarbage
  <2>1. UNCHANGED <<slotOf, serverSeq, response>>
    BY <1>6 DEF Expire, CollectGarbage
  <2>2. ASSUME NEW k \in Keys, records'[k] # NoRecord
        PROVE  records[k] # NoRecord /\ records'[k].response = records[k].response
    <3>1. /\ records[k] \in Record
          /\ records'[k] = [records[k] EXCEPT !.expired = TRUE] \/ records'[k] = records[k]
      BY <1>0, <1>6, <2>2 DEF Expire, CollectGarbage, Absent, TypeOK
    <3> QED
      BY <3>1 DEF Record
  <2> QED
    BY <2>1, <2>2, QuietCovers
<1>7. CASE UNCHANGED vars
  BY <1>7, QuietCovers DEF vars
<1>8. ASSUME NEW u \in Users, ChangeAccess(u) PROVE LogGapless' /\ CountersCover'
  BY <1>8, QuietCovers DEF ChangeAccess
<1> QED
  BY <1>1, <1>2, <1>3, <1>4, <1>5, <1>6, <1>7, <1>8 DEF Next

LEMMA LogInductive == Spec => []LInv
<1>1. Init => LInv
  <2> SUFFICES ASSUME Init PROVE LogGapless /\ CountersCover
    BY InitInductive DEF LInv
  <2>1. LogGapless
    BY DEF Init, LogGapless
  <2>2. CountersCover
    BY DEF Init, CountersCover, Covers, NoResponse
  <2> QED
    BY <2>1, <2>2
<1>2. LInv /\ [Next]_vars => LInv'
  BY NextInductive, LogStep DEF LInv
<1> QED
  BY <1>1, <1>2, PTL DEF Spec

\* For any operations, batches and interleavings of attempts, every slot up to
\* the document's counter holds one operation (sync.service push, as the route
\* calls it).
THEOREM NoGaps == Spec => []LogGapless
BY LogInductive, PTL DEF LInv

\* The counter in an answer, fresh or replayed, covers what the answer
\* acknowledges and is one the log has reached (sync.routes push).
THEOREM CheckpointsSafe == Spec => []CountersCover
BY LogInductive, PTL DEF LInv
==============================================================================
