---------------------------- MODULE Replica_proofs ----------------------------
(***************************************************************************)
(* Proofs about Replica: types, no skipped operation, the snapshot behind  *)
(* the watermark, and the reach of a last page, for any replicas, calls,   *)
(* uploads, page size and length of the log.                               *)
(***************************************************************************)
EXTENDS Replica, FiniteSetTheorems, TLAPS

\* A body whose position is real holds every operation up to it, and none that
\* the log lacks.
Covers(b) ==
    /\ b.serverSeq <= MaxSeq => 1..b.serverSeq \subseteq b.content
    /\ \A n \in b.content : n <= serverSeq

\* A page runs from its cursor without a hole, and the last one to the end
\* that its document was read with.
Continues(k) ==
    \E last \in since[k]..serverSeq :
        /\ page[k] = since[k] + 1 .. last
        /\ ~hasMore[k] => documentSeq[k] <= last

Cursors == \A c \in Clients : cursor[c] <= serverSeq

Sound(k) ==
    /\ since[k] <= cursor[ClientOf[k]]
    /\ documentSeq[k] <= serverSeq
    /\ pc[k] = "answered" => Continues(k)
    /\ pc[k] # "answered" => page[k] = {}
    /\ snapshot[k].serverSeq <= serverSeq /\ Covers(snapshot[k])

Answers == \A k \in Calls : Sound(k)

Bodies ==
    /\ \A u \in Uploads :
          /\ Covers(upload[u].body)
          /\ upload[u].at = "write" => upload[u].body.serverSeq <= serverSeq
    /\ \A v \in versions : v.serverSeq <= serverSeq /\ Covers(v)

Watermark ==
    /\ snapshotSeq <= serverSeq
    /\ \A v \in versions : v.serverSeq <= snapshotSeq
    /\ snapshotSeq = 0 \/ \E v \in versions : v.serverSeq = snapshotSeq

IInv == TypeOK /\ NoSkippedOps /\ Cursors /\ Answers /\ Bodies /\ Watermark

------------------------------------------------------------------------------
(***************************************************************************)
(* Operators                                                               *)
(***************************************************************************)
LEMMA MaxIs ==
    ASSUME NEW S \in SUBSET Nat, NEW x \in S, \A y \in S : y <= x
    PROVE  Max(S) = x
<1>1. \A y \in S : y \in Nat /\ x \in Nat /\ x >= y
  OBVIOUS
<1> DEFINE m == CHOOSE y \in S : \A z \in S : y >= z
<1>2. m \in S /\ \A z \in S : m >= z
  BY <1>1
<1>3. Max(S) = m
  BY DEF Max
<1> HIDE DEF m
<1>4. m \in Nat /\ m >= x /\ x >= m
  BY <1>1, <1>2
<1> QED
  BY <1>1, <1>3, <1>4

LEMMA RowsAre ==
    ASSUME IInv, NEW k \in Calls
    PROVE  LET s == since[k]
               last == IF serverSeq < s + Take THEN serverSeq ELSE s + Take
           IN  /\ s \in Nat /\ Take \in Nat \ {0} /\ serverSeq \in Nat /\ s <= serverSeq
               /\ last \in s..serverSeq
               /\ PageOf(Rows(k)) = s + 1 .. last
               /\ Rows(k) = {} <=> s = serverSeq
               /\ Cardinality(Rows(k)) > Take <=> s + Take < serverSeq
<1> DEFINE s == since[k]
           last == IF serverSeq < s + Take THEN serverSeq ELSE s + Take
           end == IF serverSeq < s + Take + 1 THEN serverSeq ELSE s + Take + 1
<1>1. s \in Nat /\ Take \in Nat \ {0} /\ serverSeq \in Nat /\ s <= serverSeq
  BY ReplicaAssumption DEF IInv, TypeOK, Answers, Sound, Cursors
<1>2. last \in Nat /\ end \in Nat /\ s <= last /\ last <= end /\ end <= serverSeq
  BY <1>1
<1>3. Rows(k) = s + 1 .. end
  BY <1>1 DEF Rows, After
<1>4. Cardinality(Rows(k)) = end - s
  <2>1. s + 1 \in Int /\ end \in Int
    BY <1>1, <1>2
  <2>2. Cardinality(s + 1 .. end) = IF s + 1 > end THEN 0 ELSE end - (s + 1) + 1
    BY <2>1, FS_Interval
  <2> HIDE DEF end
  <2> QED
    BY <1>1, <1>2, <1>3, <2>2
<1>5. ASSUME NEW n \in Rows(k)
      PROVE  Cardinality({m \in Rows(k) : m < n}) = n - 1 - s
  <2>1. n \in Int /\ s + 1 <= n /\ n <= end /\ s + 1 \in Int /\ n - 1 \in Int
    BY <1>1, <1>2, <1>3
  <2> HIDE DEF end
  <2>2. {m \in Rows(k) : m < n} = s + 1 .. n - 1
    BY <1>1, <1>2, <1>3, <2>1
  <2>3. Cardinality(s + 1 .. n - 1) = IF s + 1 > n - 1 THEN 0 ELSE (n - 1) - (s + 1) + 1
    BY <2>1, FS_Interval
  <2>4. Cardinality(s + 1 .. n - 1) = n - 1 - s
    BY <1>1, <2>1, <2>3
  <2> QED
    BY <2>2, <2>4
<1>6. PageOf(Rows(k)) = {n \in Rows(k) : n - 1 - s < Take}
  BY <1>5 DEF PageOf
<1>7. PageOf(Rows(k)) = s + 1 .. last
  <2>1. ASSUME NEW n \in Int
        PROVE  (n \in s + 1 .. end /\ n - 1 - s < Take) <=> n \in s + 1 .. last
    BY <1>1, <1>2, <2>1
  <2> HIDE DEF end, last
  <2>2. s + 1 .. end \subseteq Int /\ s + 1 .. last \subseteq Int
    BY <1>1, <1>2
  <2> QED
    BY <1>3, <1>6, <2>1, <2>2
<1>8. Rows(k) = {} <=> s = serverSeq
  <2>1. CASE s = serverSeq
    BY <1>1, <1>3, <2>1
  <2>2. CASE s # serverSeq
    <3>1. s + 1 \in s + 1 .. end
      BY <1>1, <1>2, <2>2
    <3> QED
      BY <1>3, <2>2, <3>1
  <2> QED
    BY <2>1, <2>2
<1>9. Cardinality(Rows(k)) > Take <=> s + Take < serverSeq
  BY <1>1, <1>4
<1>10. last \in s..serverSeq
  BY <1>1
<1> QED
  BY <1>1, <1>7, <1>8, <1>9, <1>10

LEMMA InitInv == Init => IInv
<1> SUFFICES ASSUME Init PROVE IInv
  OBVIOUS
<1> USE ReplicaAssumption
<1>1. NoVersion \in Version /\ NoVersion.serverSeq = 0 /\ NoVersion.content = {}
  BY DEF NoVersion, Version, Ahead
<1>2. TypeOK
  BY <1>1 DEF Init, TypeOK, Idle
<1>3. NoSkippedOps /\ Cursors
  BY DEF Init, NoSkippedOps, Cursors
<1>4. Covers(NoVersion)
  BY <1>1 DEF Covers
<1>5. Answers
  BY <1>1, <1>4 DEF Init, Answers, Sound
<1>6. Bodies /\ Watermark
  BY <1>4 DEF Init, Bodies, Watermark, Idle
<1> QED
  BY <1>2, <1>3, <1>5, <1>6 DEF IInv

------------------------------------------------------------------------------
(***************************************************************************)
(* Pull                                                                    *)
(***************************************************************************)
\* A handler whose own part stands still stays sound while the log and the
\* cursors grow.
LEMMA CoverGrows ==
    ASSUME NEW b, b.content \subseteq Nat, serverSeq \in Nat, serverSeq' \in Nat,
           serverSeq <= serverSeq', Covers(b)
    PROVE  Covers(b)'
BY DEF Covers

LEMMA StaysSound ==
    ASSUME TypeOK, TypeOK', NEW j \in Calls, Sound(j),
           serverSeq <= serverSeq', cursor[ClientOf[j]] <= cursor'[ClientOf[j]],
           since'[j] = since[j], documentSeq'[j] = documentSeq[j], pc'[j] = pc[j],
           page'[j] = page[j], hasMore'[j] = hasMore[j], snapshot'[j] = snapshot[j]
    PROVE  Sound(j)'
<1>1. /\ since[j] \in Nat /\ documentSeq[j] \in Nat /\ serverSeq \in Nat /\ serverSeq' \in Nat
      /\ cursor[ClientOf[j]] \in Nat /\ cursor'[ClientOf[j]] \in Nat
      /\ snapshot[j] \in Version
  BY ReplicaAssumption DEF TypeOK
<1>2. snapshot[j].serverSeq \in Nat /\ snapshot[j].content \subseteq Nat
  BY <1>1, ReplicaAssumption DEF Version, Ahead, Slots
<1>3. Covers(snapshot[j])'
  <2> DEFINE b == snapshot[j]
  <2>1. Covers(b) /\ b.content \subseteq Nat
    BY <1>2 DEF Sound
  <2>2. \A n \in b.content : n <= serverSeq'
    BY <1>1, <2>1 DEF Covers
  <2> QED
    BY <2>1, <2>2 DEF Covers
<1>4. Continues(j) => Continues(j)'
  <2>1. since[j]..serverSeq \subseteq since[j]..serverSeq'
    BY <1>1
  <2> QED
    BY <2>1 DEF Continues
<1>5. /\ since[j] <= cursor'[ClientOf[j]] /\ documentSeq[j] <= serverSeq'
      /\ snapshot[j].serverSeq <= serverSeq'
  BY <1>1, <1>2 DEF Sound
<1> QED
  BY <1>3, <1>4, <1>5 DEF Sound

\* A step of one call that leaves the log, the versions and the clients alone.
LEMMA CallKept ==
    ASSUME IInv, NEW k \in Calls, TypeOK', Sound(k)',
           UNCHANGED <<serverSeq, snapshotSeq, versions, upload, clientVars>>,
           \A j \in Calls \ {k} :
               /\ since'[j] = since[j] /\ documentSeq'[j] = documentSeq[j] /\ pc'[j] = pc[j]
               /\ page'[j] = page[j] /\ hasMore'[j] = hasMore[j] /\ snapshot'[j] = snapshot[j]
    PROVE  IInv'
<1>1. NoSkippedOps' /\ Cursors' /\ Bodies' /\ Watermark'
  BY DEF IInv, NoSkippedOps, Cursors, Bodies, Watermark, Covers, clientVars
<1>2. ASSUME NEW j \in Calls, j # k PROVE Sound(j)'
  <2>1. /\ serverSeq <= serverSeq' /\ cursor[ClientOf[j]] <= cursor'[ClientOf[j]]
    BY ReplicaAssumption DEF IInv, TypeOK, clientVars
  <2> QED
    BY <1>2, <2>1, StaysSound DEF IInv, Answers
<1>3. Answers'
  BY <1>2 DEF Answers
<1> QED
  BY <1>1, <1>3 DEF IInv

LEMMA CursorTyped == ASSUME IInv, NEW k \in Calls PROVE cursor[ClientOf[k]] \in Nat
BY ReplicaAssumption DEF IInv, TypeOK

LEMMA PullKept == ASSUME IInv, NEW k \in Calls, Pull(k) PROVE IInv'
<1> USE DEF Pull, dbVars, Goto
<1>1. TypeOK'
  BY ReplicaAssumption DEF IInv, TypeOK, clientVars
<1>2. Sound(k)'
  <2>1. Sound(k) /\ page[k] = {} /\ pc'[k] = "document" /\ UNCHANGED serverSeq
    BY DEF IInv, TypeOK, Answers, Sound
  <2>2. since'[k] <= cursor'[ClientOf[k]]
    <3>1. cursor[ClientOf[k]] \in Nat
      BY CursorTyped
    <3>2. since'[k] = cursor[ClientOf[k]]
      BY DEF IInv, TypeOK
    <3> QED
      BY <3>1, <3>2 DEF clientVars
  <2>3. Covers(snapshot[k])'
    BY <2>1 DEF Sound, Covers
  <2> QED
    BY <2>1, <2>2, <2>3 DEF Sound
<1> QED
  BY <1>1, <1>2, CallKept DEF IInv, TypeOK

LEMMA ReadGoneKept == ASSUME IInv, NEW k \in Calls, ReadGone(k) PROVE IInv'
<1> USE DEF ReadGone, dbVars, Goto
<1>1. TypeOK'
  BY DEF IInv, TypeOK, clientVars
<1>2. Sound(k)'
  BY DEF IInv, TypeOK, Answers, Sound, Covers, clientVars
<1> QED
  BY <1>1, <1>2, CallKept DEF IInv, TypeOK

LEMMA ReadDocumentKept == ASSUME IInv, NEW k \in Calls, ReadDocument(k) PROVE IInv'
<1> USE DEF ReadDocument, dbVars, Goto
<1>1. TypeOK'
  BY DEF IInv, TypeOK, clientVars
<1>2. Sound(k)'
  BY ReplicaAssumption DEF IInv, TypeOK, Answers, Sound, Covers, clientVars
<1> QED
  BY <1>1, <1>2, CallKept DEF IInv, TypeOK

\* The page read continues its cursor, and unless there is more it ends where
\* the log does, which the document read earlier cannot be beyond.
LEMMA ReadPageKept == ASSUME IInv, NEW k \in Calls, ReadPage(k) PROVE IInv'
<1> DEFINE s == since[k]
           rows == Rows(k)
<1>1. PICK last \in s..serverSeq :
         /\ PageOf(rows) = s + 1 .. last
         /\ Cardinality(rows) > Take \/ last = serverSeq
         /\ rows # {} => last > s
         /\ s \in Nat /\ last \in Nat /\ serverSeq \in Nat /\ serverSeq <= MaxSeq /\ MaxSeq \in Nat
  <2>1. serverSeq <= MaxSeq /\ MaxSeq \in Nat
    BY ReplicaAssumption DEF IInv, TypeOK
  <2>2. serverSeq \in Nat /\ s \in Nat /\ Take \in Nat \ {0}
    BY RowsAre
  <2> DEFINE l == IF serverSeq < s + Take THEN serverSeq ELSE s + Take
  <2>3. l \in s..serverSeq /\ PageOf(rows) = s + 1 .. l
    BY RowsAre
  <2>4. Cardinality(rows) > Take \/ l = serverSeq
    BY <2>2, RowsAre
  <2>5. rows # {} => l > s
    BY <2>2, RowsAre
  <2>6. l \in Nat
    BY <2>2
  <2> HIDE DEF l, rows
  <2> QED
    BY <2>1, <2>2, <2>3, <2>4, <2>5, <2>6
<1>2. /\ page' = [page EXCEPT ![k] = PageOf(rows)]
      /\ hasMore' = [hasMore EXCEPT ![k] = Cardinality(rows) > Take]
      /\ pc[k] = "page" /\ pc' = [pc EXCEPT ![k] = "answered"]
      /\ UNCHANGED <<dbVars, since, documentSeq, snapshot, upload, clientVars>>
  BY DEF ReadPage, Goto
<1>3. PageOf(rows) \in SUBSET Slots
  BY <1>1 DEF Slots
<1>4. touches' \subseteq Clients \X Slots
  <2>1. ASSUME rows # {} PROVE Max(PageOf(rows)) \in Slots
    <3>1. PageOf(rows) \in SUBSET Nat /\ last \in PageOf(rows)
          /\ \A n \in PageOf(rows) : n <= last
      BY <1>1, <2>1
    <3>2. Max(PageOf(rows)) = last
      BY <3>1, MaxIs
    <3> QED
      BY <1>3, <3>1, <3>2
  <2>2. touches' = touches \cup
           {<<ClientOf[k], Max(PageOf(rows))>> : x \in {c \in Named : c = ClientOf[k] /\ rows # {}}}
    BY DEF ReadPage
  <2>3. touches \subseteq Clients \X Slots /\ ClientOf[k] \in Clients
    BY ReplicaAssumption DEF IInv, TypeOK
  <2> HIDE DEF rows
  <2>4. ASSUME NEW x \in {c \in Named : c = ClientOf[k] /\ rows # {}}
        PROVE  <<ClientOf[k], Max(PageOf(rows))>> \in Clients \X Slots
    BY <2>1, <2>3, <2>4
  <2> QED
    BY <2>2, <2>3, <2>4
<1>5. TypeOK'
  <2>1. (Cardinality(rows) > Take) \in BOOLEAN
    OBVIOUS
  <2>2. hasMore' \in [Calls -> BOOLEAN]
    BY <1>2, <2>1 DEF IInv, TypeOK
  <2>3. page' \in [Calls -> SUBSET Slots]
    BY <1>2, <1>3 DEF IInv, TypeOK
  <2> QED
    BY <1>2, <1>4, <2>2, <2>3 DEF IInv, TypeOK, dbVars, clientVars
<1>6. Sound(k)'
  <2>1. Sound(k) /\ pc'[k] = "answered" /\ page'[k] = s + 1 .. last
        /\ hasMore'[k] = (Cardinality(rows) > Take)
    BY <1>1, <1>2 DEF IInv, TypeOK, Answers
  <2>2. Continues(k)'
    <3>1. documentSeq[k] <= serverSeq
      BY <2>1 DEF Sound
    <3>2. ~hasMore'[k] => documentSeq[k] <= last
      BY <1>1, <2>1, <3>1
    <3>3. since'[k] = s /\ serverSeq' = serverSeq /\ documentSeq'[k] = documentSeq[k]
      BY <1>2 DEF dbVars
    <3> QED
      BY <1>1, <2>1, <3>2, <3>3 DEF Continues
  <2>3. since'[k] <= cursor'[ClientOf[k]] /\ documentSeq'[k] <= serverSeq'
        /\ snapshot'[k].serverSeq <= serverSeq' /\ Covers(snapshot[k])'
    BY <1>2, <2>1 DEF Sound, Covers, dbVars, clientVars
  <2> QED
    BY <2>1, <2>2, <2>3 DEF Sound
<1> QED
  BY <1>2, <1>5, <1>6, CallKept DEF IInv, TypeOK, dbVars

LEMMA ReadSnapshotKept == ASSUME IInv, NEW k \in Calls, ReadSnapshot(k) PROVE IInv'
<1>1. PICK v \in versions : snapshot' = [snapshot EXCEPT ![k] = v]
  BY DEF ReadSnapshot
<1>2. /\ v \in Version /\ v.serverSeq <= serverSeq /\ Covers(v)
      /\ pc[k] = "snapshot" /\ pc' = [pc EXCEPT ![k] = "bootstrap"]
      /\ UNCHANGED <<dbVars, since, documentSeq, page, hasMore, touches, upload, clientVars>>
  BY DEF ReadSnapshot, Goto, IInv, TypeOK, Bodies
<1>3. TypeOK'
  BY <1>1, <1>2 DEF IInv, TypeOK, dbVars, clientVars
<1>4. Sound(k)'
  <2>1. Sound(k) /\ pc'[k] = "bootstrap" /\ snapshot'[k] = v /\ serverSeq' = serverSeq
    BY <1>1, <1>2 DEF IInv, TypeOK, Answers, dbVars
  <2>2. Covers(snapshot[k])'
    BY <1>2, <2>1 DEF Covers
  <2> QED
    BY <1>2, <2>1, <2>2 DEF Sound, clientVars
<1> QED
  BY <1>1, <1>2, <1>3, <1>4, CallKept DEF IInv, TypeOK, dbVars

\* A call that ends holds nothing.
LEMMA EndedSound ==
    ASSUME TypeOK, TypeOK', NEW k \in Calls,
           since'[k] = 0, documentSeq'[k] = 0, page'[k] = {}, pc'[k] \in {"idle", "failed"},
           snapshot'[k] = NoVersion
    PROVE  Sound(k)'
<1>1. cursor'[ClientOf[k]] \in Nat /\ serverSeq' \in Nat
  BY ReplicaAssumption DEF TypeOK
<1>2. NoVersion.serverSeq = 0 /\ NoVersion.content = {}
  BY DEF NoVersion
<1>3. Covers(snapshot[k])'
  BY <1>2 DEF Covers
<1> QED
  BY <1>1, <1>2, <1>3 DEF Sound

LEMMA CallFailsKept == ASSUME IInv, NEW k \in Calls, CallFails(k) PROVE IInv'
<1> USE DEF CallFails, Done, Goto
<1>1. NoVersion \in Version
  BY ReplicaAssumption DEF NoVersion, Version, Ahead
<1>2. TypeOK'
  BY <1>1, ReplicaAssumption DEF IInv, TypeOK, dbVars, clientVars
<1>3. Sound(k)'
  BY <1>2, EndedSound DEF IInv, TypeOK
<1> QED
  BY <1>2, <1>3, CallKept DEF IInv, TypeOK, dbVars

\* The session's row is nothing that the replicas depend on.
LEMMA TouchSessionKept == ASSUME IInv, NEW t \in touches, TouchSession(t) PROVE IInv'
<1>1. UNCHANGED <<serverSeq, snapshotSeq, versions, callVars, upload, clientVars>>
      /\ touches' = touches \ {t}
  BY DEF TouchSession
<1>2. lastAckedSeq' \in [Clients -> 0..MaxSeq]
  <2>1. t[1] \in Clients /\ t[2] \in 0..MaxSeq
    BY ReplicaAssumption DEF IInv, TypeOK, Slots
  <2>2. \A n \in 0..MaxSeq : Greatest(n, t[2]) \in 0..MaxSeq
    BY <2>1 DEF Greatest
  <2>3. CASE UNCHANGED lastAckedSeq
    BY <2>3 DEF IInv, TypeOK
  <2>4. CASE lastAckedSeq' = [lastAckedSeq EXCEPT ![t[1]] = Greatest(@, t[2])]
    BY <2>1, <2>2, <2>4 DEF IInv, TypeOK
  <2> QED
    BY <2>3, <2>4 DEF TouchSession
<1>3. TypeOK'
  BY <1>1, <1>2 DEF IInv, TypeOK, callVars, clientVars
<1>4. NoSkippedOps' /\ Cursors' /\ Bodies' /\ Watermark'
  BY <1>1 DEF IInv, NoSkippedOps, Cursors, Bodies, Watermark, Covers, clientVars
<1>5. Answers'
  <2>1. ASSUME NEW j \in Calls PROVE Sound(j)'
    BY <1>1 DEF IInv, Answers, Sound, Continues, Covers, callVars, clientVars
  <2> QED
    BY <2>1 DEF Answers
<1> QED
  BY <1>3, <1>4, <1>5 DEF IInv

------------------------------------------------------------------------------
(***************************************************************************)
(* What a client receives                                                  *)
(***************************************************************************)
\* A client that is given slots of the log up to a new cursor, with nothing
\* missing, and whose call then ends.
LEMMA ReceiveKept ==
    ASSUME IInv, NEW k \in Calls, NEW S \in SUBSET Slots, NEW n \in 0..MaxSeq,
           Done(k, "idle"), UNCHANGED <<dbVars, touches, upload>>,
           have' = [have EXCEPT ![ClientOf[k]] = @ \cup S],
           cursor' = [cursor EXCEPT ![ClientOf[k]] = n],
           cursor[ClientOf[k]] <= n, n <= serverSeq,
           \A m \in S : m <= serverSeq,
           1..n \subseteq have[ClientOf[k]] \cup S
    PROVE  IInv'
<1> DEFINE c == ClientOf[k]
<1>1. c \in Clients /\ NoVersion \in Version
  BY ReplicaAssumption DEF NoVersion, Version, Ahead
<1>2. TypeOK'
  BY <1>1, ReplicaAssumption DEF IInv, TypeOK, Done, Goto, dbVars
<1>3. NoSkippedOps' /\ Cursors'
  BY <1>1 DEF IInv, TypeOK, NoSkippedOps, Cursors, dbVars
<1>4. Bodies' /\ Watermark'
  BY DEF IInv, Bodies, Watermark, Covers, dbVars
<1>5. ASSUME NEW j \in Calls PROVE Sound(j)'
  <2>1. CASE j = k
    BY <1>2, <2>1, EndedSound DEF Done, Goto, IInv, TypeOK
  <2>2. CASE j # k
    <3>1. /\ since'[j] = since[j] /\ documentSeq'[j] = documentSeq[j] /\ pc'[j] = pc[j]
          /\ page'[j] = page[j] /\ hasMore'[j] = hasMore[j] /\ snapshot'[j] = snapshot[j]
      BY <2>2 DEF Done, Goto, IInv, TypeOK
    <3>2. ClientOf[j] \in Clients /\ cursor[ClientOf[j]] \in Nat /\ serverSeq \in Nat
      BY ReplicaAssumption DEF IInv, TypeOK
    <3>3. cursor[ClientOf[j]] <= cursor'[ClientOf[j]]
      <4>1. CASE ClientOf[j] = ClientOf[k]
        BY <1>1, <4>1 DEF IInv, TypeOK
      <4>2. CASE ClientOf[j] # ClientOf[k]
        BY <3>2, <4>2 DEF IInv, TypeOK
      <4> QED
        BY <4>1, <4>2
    <3>4. serverSeq <= serverSeq'
      BY <3>2 DEF dbVars
    <3> QED
      BY <1>2, <3>1, <3>3, <3>4, StaysSound DEF IInv, Answers
  <2> QED
    BY <2>1, <2>2
<1>6. Answers'
  BY <1>5 DEF Answers
<1> QED
  BY <1>2, <1>3, <1>4, <1>6 DEF IInv

\* A page starts at a cursor the client had when it asked, and has passed since
\* if at all: together they leave no hole.
LEMMA ReceivePageKept == ASSUME IInv, NEW k \in Calls, ReceivePage(k) PROVE IInv'
<1> PICK c \in Clients : c = ClientOf[k]
  BY ReplicaAssumption
<1>1. Sound(k) /\ pc[k] = "answered" /\ Continues(k)
  BY DEF ReceivePage, IInv, Answers, Sound
<1>2. PICK last \in since[k]..serverSeq : page[k] = since[k] + 1 .. last
  BY <1>1 DEF Continues
<1>3. /\ since[k] \in Nat /\ last \in Nat /\ cursor[c] \in Nat /\ serverSeq \in Nat
      /\ since[k] <= cursor[c] /\ since[k] <= last /\ last <= serverSeq
      /\ cursor[c] <= serverSeq /\ serverSeq <= MaxSeq /\ MaxSeq \in Nat
      /\ page[k] \in SUBSET Slots /\ 1..cursor[c] \subseteq have[c]
  BY <1>1, ReplicaAssumption DEF IInv, TypeOK, Sound, Cursors, NoSkippedOps
<1> DEFINE n == IF last <= cursor[c] THEN cursor[c] ELSE last
<1>4. Max(page[k] \cup {cursor[c]}) = n
  <2> DEFINE S == page[k] \cup {cursor[c]}
  <2>1. S \in SUBSET Nat
    BY <1>2, <1>3
  <2>2. n \in S
    BY <1>2, <1>3
  <2>3. \A y \in S : y <= n
    BY <1>2, <1>3
  <2> HIDE DEF S, n
  <2>4. Max(S) = n
    BY <2>1, <2>2, <2>3, MaxIs
  <2> QED
    BY <2>4 DEF S
<1>5. n \in 0..MaxSeq /\ cursor[c] <= n /\ n <= serverSeq
  BY <1>3
<1>6. \A m \in page[k] : m <= serverSeq
  BY <1>2, <1>3
<1>7. 1..n \subseteq have[c] \cup page[k]
  <2>1. ASSUME NEW m \in 1..n PROVE m \in have[c] \cup page[k]
    <3>1. CASE m <= cursor[c]
      <4>1. m \in 1..cursor[c]
        BY <1>3, <3>1
      <4> QED
        BY <1>3, <4>1
    <3>2. CASE ~(m <= cursor[c])
      BY <1>2, <1>3, <3>2
    <3> QED
      BY <3>1, <3>2
  <2> HIDE DEF n
  <2> QED
    BY <2>1
<1>8. /\ Done(k, "idle") /\ UNCHANGED <<dbVars, touches, upload>>
      /\ have' = [have EXCEPT ![c] = @ \cup page[k]]
      /\ cursor' = [cursor EXCEPT ![c] = n]
  BY <1>4 DEF ReceivePage, IInv, TypeOK
<1> HIDE DEF n
<1> QED
  BY <1>3, <1>5, <1>6, <1>7, <1>8, ReceiveKept

LEMMA ReceiveSnapshotKept == ASSUME IInv, NEW k \in Calls, ReceiveSnapshot(k) PROVE IInv'
<1> PICK c \in Clients : c = ClientOf[k]
  BY ReplicaAssumption
<1> DEFINE v == snapshot[k]
           n == Greatest(cursor[c], v.serverSeq)
<1>1. /\ v \in Version /\ Covers(v) /\ v.serverSeq <= serverSeq
      /\ cursor[c] \in Nat /\ cursor[c] <= serverSeq /\ 1..cursor[c] \subseteq have[c]
      /\ serverSeq \in Nat /\ serverSeq <= MaxSeq /\ MaxSeq \in Nat
  BY ReplicaAssumption DEF IInv, TypeOK, Answers, Sound, Cursors, NoSkippedOps
<1>2. v.serverSeq \in Nat /\ v.content \in SUBSET Slots
  BY <1>1 DEF Version, Ahead
<1>3. 1..v.serverSeq \subseteq v.content /\ \A m \in v.content : m <= serverSeq
  BY <1>1, <1>2 DEF Covers
<1>4. n \in 0..MaxSeq /\ cursor[c] <= n /\ n <= serverSeq
  BY <1>1, <1>2 DEF Greatest
<1>5. 1..n \subseteq have[c] \cup v.content
  <2>1. CASE n = cursor[c]
    BY <1>1, <2>1
  <2>2. CASE n = v.serverSeq
    BY <1>3, <2>2
  <2> QED
    BY <2>1, <2>2 DEF Greatest
<1>6. /\ Done(k, "idle") /\ UNCHANGED <<dbVars, touches, upload>>
      /\ have' = [have EXCEPT ![c] = @ \cup v.content]
      /\ cursor' = [cursor EXCEPT ![c] = n]
  BY DEF ReceiveSnapshot, IInv, TypeOK
<1> HIDE DEF n
<1> QED
  BY <1>2, <1>3, <1>4, <1>5, <1>6, ReceiveKept

------------------------------------------------------------------------------
(***************************************************************************)
(* The log and the versions                                                *)
(***************************************************************************)
\* The log grows by a slot, which at most its author has.
LEMMA CommitKept == ASSUME IInv, NEW c \in Clients, Commit(c) PROVE IInv'
<1>1. /\ serverSeq < MaxSeq /\ serverSeq' = serverSeq + 1
      /\ UNCHANGED <<snapshotSeq, versions, lastAckedSeq, callVars, touches, upload, cursor>>
      /\ serverSeq \in Nat /\ MaxSeq \in Nat
  BY ReplicaAssumption DEF Commit, IInv, TypeOK
<1>2. ASSUME NEW d \in Clients
      PROVE  /\ have[d] \subseteq have'[d] /\ have'[d] \subseteq have[d] \cup {serverSeq + 1}
  BY DEF Commit, IInv, TypeOK
<1>3. serverSeq + 1 \in Slots
  BY <1>1 DEF Slots
<1>4. have' \in [Clients -> SUBSET Slots]
  BY <1>3 DEF Commit, IInv, TypeOK
<1>5. \A d \in Clients : \A n \in have'[d] : n <= serverSeq'
  <2>1. ASSUME NEW d \in Clients, NEW n \in have'[d] PROVE n <= serverSeq'
    <3>1. n \in Nat
      BY <1>4, <2>1 DEF Slots
    <3>2. n \in have[d] \/ n = serverSeq + 1
      BY <1>2, <2>1
    <3>3. n \in have[d] => n <= serverSeq
      BY DEF IInv, TypeOK
    <3> QED
      BY <1>1, <3>1, <3>2, <3>3
  <2> QED
    BY <2>1
<1>6. serverSeq' \in 0..MaxSeq /\ serverSeq <= serverSeq'
  BY <1>1
<1>7. TypeOK'
  BY <1>1, <1>4, <1>5, <1>6 DEF IInv, TypeOK, callVars
<1>8. NoSkippedOps'
  BY <1>1, <1>2 DEF IInv, NoSkippedOps
<1>9. Cursors'
  BY <1>1 DEF IInv, TypeOK, Cursors
<1>10. ASSUME NEW b \in Version, Covers(b)
       PROVE  /\ b.serverSeq <= MaxSeq => 1..b.serverSeq \subseteq b.content
              /\ \A n \in b.content : n <= serverSeq'
              /\ b.serverSeq <= serverSeq => b.serverSeq <= serverSeq'
  <2>1. b.serverSeq \in Nat /\ b.content \subseteq Nat
    BY <1>1 DEF Version, Ahead, Slots
  <2> QED
    BY <1>1, <1>10, <2>1 DEF Covers
<1>11. Bodies'
  <2>1. ASSUME NEW u \in Uploads
        PROVE  /\ Covers(upload[u].body)'
               /\ upload'[u].at = "write" => upload'[u].body.serverSeq <= serverSeq'
    <3>1. upload[u].body \in Version /\ Covers(upload[u].body)
      BY DEF IInv, TypeOK, Bodies
    <3>2. upload[u].at = "write" => upload[u].body.serverSeq <= serverSeq
      BY DEF IInv, Bodies
    <3> QED
      BY <1>1, <1>10, <3>1, <3>2 DEF Covers
  <2>2. ASSUME NEW v \in versions
        PROVE  v.serverSeq <= serverSeq' /\ Covers(v)'
    <3>1. v \in Version /\ Covers(v) /\ v.serverSeq <= serverSeq
      BY DEF IInv, TypeOK, Bodies
    <3> QED
      BY <1>10, <3>1 DEF Covers
  <2> QED
    BY <1>1, <2>1, <2>2 DEF Bodies
<1>12. Watermark'
  BY <1>1 DEF IInv, TypeOK, Watermark
<1>13. Answers'
  <2>1. ASSUME NEW j \in Calls PROVE Sound(j)'
    <3>1. cursor[ClientOf[j]] <= cursor'[ClientOf[j]]
      BY <1>1, CursorTyped
    <3>2. Sound(j) /\ TypeOK
      BY DEF IInv, Answers
    <3> QED
      BY <1>1, <1>6, <1>7, <3>1, <3>2, StaysSound DEF callVars
  <2> QED
    BY <2>1 DEF Answers
<1> QED
  BY <1>7, <1>8, <1>9, <1>11, <1>12, <1>13 DEF IInv

\* A step of one upload.
LEMMA UploadKept ==
    ASSUME IInv, NEW u \in Uploads, NEW r \in [at : {"idle", "check", "write"}, body : Version],
           upload' = [upload EXCEPT ![u] = r],
           Covers(r.body), r.at = "write" => r.body.serverSeq <= serverSeq,
           snapshotSeq' \in 0..MaxSeq, versions' \subseteq Version,
           \A v \in versions' : v.serverSeq <= serverSeq /\ Covers(v),
           Watermark',
           UNCHANGED <<serverSeq, lastAckedSeq, callVars, touches, clientVars>>
    PROVE  IInv'
<1>1. TypeOK'
  BY DEF IInv, TypeOK, callVars, clientVars
<1>2. NoSkippedOps' /\ Cursors'
  BY DEF IInv, NoSkippedOps, Cursors, clientVars
<1>3. Answers'
  <2>1. ASSUME NEW j \in Calls PROVE Sound(j)'
    BY DEF IInv, Answers, Sound, Continues, Covers, callVars, clientVars
  <2> QED
    BY <2>1 DEF Answers
<1>4. Bodies'
  <2>1. ASSUME NEW w \in Uploads
        PROVE  /\ Covers(upload[w].body)'
               /\ upload'[w].at = "write" => upload'[w].body.serverSeq <= serverSeq'
    BY DEF IInv, TypeOK, Bodies, Covers
  <2>2. ASSUME NEW v \in versions' PROVE v.serverSeq <= serverSeq' /\ Covers(v)'
    <3>1. v.serverSeq <= serverSeq /\ Covers(v)
      BY <2>2
    <3> QED
      BY <3>1 DEF Covers
  <2> QED
    BY <2>1, <2>2 DEF Bodies
<1> QED
  BY <1>1, <1>2, <1>3, <1>4 DEF IInv

\* One that writes no version.
LEMMA StageKept ==
    ASSUME IInv, NEW u \in Uploads, NEW r \in [at : {"idle", "check", "write"}, body : Version],
           upload' = [upload EXCEPT ![u] = r],
           Covers(r.body), r.at = "write" => r.body.serverSeq <= serverSeq,
           UNCHANGED <<dbVars, callVars, touches, clientVars>>
    PROVE  IInv'
<1>1. UNCHANGED <<serverSeq, snapshotSeq, versions, lastAckedSeq>>
  BY DEF dbVars
<1>2. Watermark' /\ snapshotSeq' \in 0..MaxSeq /\ versions' \subseteq Version
  BY <1>1 DEF IInv, TypeOK, Watermark
<1>3. \A v \in versions' : v.serverSeq <= serverSeq /\ Covers(v)
  BY <1>1 DEF IInv, Bodies
<1> QED
  BY <1>1, <1>2, <1>3, UploadKept

\* What a client has covers its cursor, and a claim beyond the log is never
\* reached by it.
LEMMA CreateVersionKept ==
    ASSUME IInv, NEW c \in Clients, NEW u \in Uploads, CreateVersion(c, u) PROVE IInv'
<1>1. PICK b \in {[serverSeq |-> cursor[c], content |-> have[c]],
                  [serverSeq |-> Ahead, content |-> {}]} :
         upload' = [upload EXCEPT ![u] = [at |-> "check", body |-> b]]
  BY DEF CreateVersion
<1> DEFINE r == [at |-> "check", body |-> b]
<1>2. /\ MaxSeq \in Nat /\ cursor[c] \in 0..MaxSeq /\ have[c] \subseteq Slots
      /\ 1..cursor[c] \subseteq have[c] /\ \A m \in have[c] : m <= serverSeq
  BY ReplicaAssumption DEF IInv, TypeOK, NoSkippedOps
<1>3. b \in Version /\ Covers(b)
  <2>1. CASE b = [serverSeq |-> cursor[c], content |-> have[c]]
    <3>1. cursor[c] \in 0..Ahead
      BY <1>2 DEF Ahead
    <3> QED
      BY <1>2, <2>1, <3>1 DEF Version, Covers
  <2>2. CASE b = [serverSeq |-> Ahead, content |-> {}]
    <3>1. Ahead \in 0..Ahead /\ ~(Ahead <= MaxSeq)
      BY <1>2 DEF Ahead
    <3> QED
      BY <2>2, <3>1 DEF Version, Covers
  <2> QED
    BY <1>1, <2>1, <2>2
<1>4. r \in [at : {"idle", "check", "write"}, body : Version] /\ r.body = b
  BY <1>3
<1>5. UNCHANGED <<dbVars, callVars, touches, clientVars>>
  BY DEF CreateVersion
<1> QED
  BY <1>1, <1>3, <1>4, <1>5, StageKept

LEMMA CheckVersionKept == ASSUME IInv, NEW u \in Uploads, CheckVersion(u) PROVE IInv'
<1> DEFINE r == [upload[u] EXCEPT !.at = "write"]
<1>1. /\ upload' = [upload EXCEPT ![u] = r] /\ upload[u].body.serverSeq <= serverSeq
      /\ UNCHANGED <<dbVars, callVars, touches, clientVars>>
  BY DEF CheckVersion, Stage
<1>2. r \in [at : {"idle", "check", "write"}, body : Version] /\ r.body = upload[u].body
  BY DEF IInv, TypeOK
<1>3. Covers(r.body)
  BY <1>2 DEF IInv, Bodies
<1> QED
  BY <1>1, <1>2, <1>3, StageKept

LEMMA IdleUpload ==
    /\ Idle \in [at : {"idle", "check", "write"}, body : Version]
    /\ Covers(Idle.body) /\ Idle.at # "write"
BY ReplicaAssumption DEF Idle, NoVersion, Version, Ahead, Covers

LEMMA VersionFailsKept == ASSUME IInv, NEW u \in Uploads, VersionFails(u) PROVE IInv'
BY IdleUpload, StageKept DEF VersionFails

LEMMA WriteVersionKept == ASSUME IInv, NEW u \in Uploads, WriteVersion(u) PROVE IInv'
<1> DEFINE b == upload[u].body
<1>1. /\ versions' = versions \cup {b} /\ snapshotSeq' = Greatest(snapshotSeq, b.serverSeq)
      /\ upload' = [upload EXCEPT ![u] = Idle]
      /\ UNCHANGED <<serverSeq, lastAckedSeq, callVars, touches, clientVars>>
      /\ b \in Version /\ b.serverSeq <= serverSeq /\ Covers(b)
  BY DEF WriteVersion, IInv, TypeOK, Bodies
<1>2. /\ b.serverSeq \in Nat /\ serverSeq \in 0..MaxSeq /\ MaxSeq \in Nat
      /\ snapshotSeq \in Nat /\ snapshotSeq <= serverSeq
  BY <1>1, ReplicaAssumption DEF Version, Ahead, IInv, TypeOK, Watermark
<1>3. /\ snapshotSeq' \in 0..MaxSeq /\ snapshotSeq' <= serverSeq
      /\ snapshotSeq <= snapshotSeq' /\ b.serverSeq <= snapshotSeq'
      /\ snapshotSeq' = snapshotSeq \/ snapshotSeq' = b.serverSeq
  BY <1>1, <1>2 DEF Greatest
<1>4. \A v \in versions' : v.serverSeq <= serverSeq /\ Covers(v)
  BY <1>1 DEF IInv, Bodies
<1>5. Watermark'
  <2>1. \A v \in versions' : v.serverSeq <= snapshotSeq'
    <3>1. \A v \in versions : v.serverSeq \in Nat /\ v.serverSeq <= snapshotSeq
      BY <1>2 DEF IInv, TypeOK, Version, Ahead, Watermark
    <3> QED
      BY <1>1, <1>2, <1>3, <3>1
  <2>2. snapshotSeq' = 0 \/ \E v \in versions' : v.serverSeq = snapshotSeq'
    BY <1>1, <1>3 DEF IInv, Watermark
  <2> QED
    BY <1>1, <1>3, <2>1, <2>2 DEF Watermark
<1>6. versions' \subseteq Version
  BY <1>1 DEF IInv, TypeOK
<1> QED
  BY <1>1, <1>3, <1>4, <1>5, <1>6, IdleUpload, UploadKept

------------------------------------------------------------------------------
LEMMA StepInv == IInv /\ [Next]_vars => IInv'
<1> SUFFICES ASSUME IInv, [Next]_vars PROVE IInv'
  OBVIOUS
<1>1. CASE \E k \in Calls : Pull(k) \/ Serve(k) \/ Receive(k) \/ CallFails(k)
  BY <1>1, PullKept, ReadGoneKept, ReadDocumentKept, ReadPageKept, ReadSnapshotKept,
     ReceivePageKept, ReceiveSnapshotKept, CallFailsKept DEF Serve, Receive
<1>2. CASE \E t \in touches : TouchSession(t)
  BY <1>2, TouchSessionKept
<1>3. CASE \E c \in Clients : Commit(c)
  BY <1>3, CommitKept
<1>4. CASE \E c \in Clients, u \in Uploads : CreateVersion(c, u)
  BY <1>4, CreateVersionKept
<1>5. CASE \E u \in Uploads : CheckVersion(u) \/ VersionFails(u) \/ WriteVersion(u)
  BY <1>5, CheckVersionKept, VersionFailsKept, WriteVersionKept
<1>6. CASE UNCHANGED vars
  <2> USE <1>6 DEF vars, dbVars, callVars, clientVars
  <2>1. TypeOK'
    BY DEF IInv, TypeOK
  <2>2. NoSkippedOps' /\ Cursors' /\ Bodies' /\ Watermark'
    BY DEF IInv, NoSkippedOps, Cursors, Bodies, Watermark, Covers
  <2>3. Answers'
    BY DEF IInv, Answers, Sound, Continues, Covers
  <2> QED
    BY <2>1, <2>2, <2>3 DEF IInv
<1> QED
  BY <1>1, <1>2, <1>3, <1>4, <1>5, <1>6 DEF Next

\* The inductive invariant, which the theorems below are parts of.
THEOREM Inductive == Spec => []IInv
<1>1. Init => IInv
  BY InitInv
<1>2. IInv /\ [Next]_vars => IInv'
  BY StepInv
<1> QED
  BY <1>1, <1>2, PTL DEF Spec

\* The database, the calls and the replicas have their types, and nobody holds
\* a slot the log lacks.
THEOREM TypeCorrect == Spec => []TypeOK
<1>1. IInv => TypeOK
  BY DEF IInv
<1> QED
  BY <1>1, Inductive, PTL

\* However pages, snapshots, commits and lost answers interleave, a replica has
\* every operation up to its cursor.
THEOREM NothingSkipped == Spec => []NoSkippedOps
<1>1. IInv => NoSkippedOps
  BY DEF IInv
<1> QED
  BY <1>1, Inductive, PTL

\* A last page reaches the documentSeq it is answered with.
THEOREM LastPageIsLast == Spec => []LastPageReachesDocumentSeq
<1>1. IInv => LastPageReachesDocumentSeq
  <2>1. ASSUME IInv, NEW k \in Calls, pc[k] = "answered", ~hasMore[k]
        PROVE  documentSeq[k] <= Max(page[k] \cup {since[k]})
    <3>1. Continues(k)
      BY <2>1 DEF IInv, Answers, Sound
    <3>2. PICK last \in since[k]..serverSeq :
              page[k] = since[k] + 1 .. last /\ documentSeq[k] <= last
      BY <2>1, <3>1 DEF Continues
    <3>3. since[k] \in Nat /\ last \in Nat /\ since[k] <= last
      BY <2>1 DEF IInv, TypeOK
    <3> DEFINE S == page[k] \cup {since[k]}
    <3>4. S \in SUBSET Nat /\ last \in S /\ \A n \in S : n <= last
      BY <3>2, <3>3
    <3> HIDE DEF S
    <3>5. Max(S) = last
      BY <3>4, MaxIs
    <3> QED
      BY <3>2, <3>5 DEF S
  <2> QED
    BY <2>1 DEF LastPageReachesDocumentSeq
<1> QED
  BY <1>1, Inductive, PTL

------------------------------------------------------------------------------
(***************************************************************************)
(* 410 and the snapshot that follows it                                    *)
(***************************************************************************)
\* A call is turned away for a version that it then finds, or a newer one.
TurnedAway ==
    /\ \A k \in Calls : pc[k] = "snapshot" => since[k] < snapshotSeq
    /\ \A k \in Calls : pc[k] = "bootstrap" => since[k] < snapshot[k].serverSeq

\* The watermark does not go back; no other call is turned away or answered.
LEMMA TurnedAwayKept ==
    ASSUME IInv, IInv', TurnedAway, snapshotSeq <= snapshotSeq',
           \A k \in Calls : pc'[k] \in {"snapshot", "bootstrap"} =>
               pc'[k] = pc[k] /\ since'[k] = since[k] /\ snapshot'[k] = snapshot[k]
    PROVE  TurnedAway'
<1>1. snapshotSeq \in Nat /\ snapshotSeq' \in Nat /\ \A k \in Calls : since[k] \in Nat
  BY DEF IInv, TypeOK
<1> QED
  BY <1>1 DEF TurnedAway

\* A step of one call that is neither turned away nor given a snapshot by it.
LEMMA CallTurn ==
    ASSUME IInv, IInv', TurnedAway, NEW k \in Calls, NEW place, Goto(k, place),
           place \notin {"snapshot", "bootstrap"}, UNCHANGED snapshotSeq,
           \A j \in Calls \ {k} : since'[j] = since[j] /\ snapshot'[j] = snapshot[j]
    PROVE  TurnedAway'
<1>1. snapshotSeq <= snapshotSeq'
  BY DEF IInv, TypeOK
<1>2. \A j \in Calls : pc'[j] = IF j = k THEN place ELSE pc[j]
  BY DEF Goto, IInv, TypeOK
<1> QED
  BY <1>1, <1>2, TurnedAwayKept

LEMMA GoneTurn ==
    ASSUME IInv, TurnedAway, NEW k \in Calls, ReadGone(k)
    PROVE  TurnedAway'
<1>1. \A j \in Calls : pc'[j] = IF j = k THEN "snapshot" ELSE pc[j]
  BY DEF ReadGone, Goto, IInv, TypeOK
<1>2. since[k] < snapshotSeq /\ UNCHANGED <<snapshotSeq, since, snapshot>>
  BY DEF ReadGone, FallenBehind, dbVars
<1> QED
  BY <1>1, <1>2 DEF TurnedAway

LEMMA SnapshotTurn ==
    ASSUME IInv, TurnedAway, NEW k \in Calls, ReadSnapshot(k)
    PROVE  TurnedAway'
<1>1. PICK v \in versions : Newest(v) /\ snapshot' = [snapshot EXCEPT ![k] = v]
  BY DEF ReadSnapshot
<1>2. /\ \A j \in Calls : pc'[j] = IF j = k THEN "bootstrap" ELSE pc[j]
      /\ \A j \in Calls : snapshot'[j] = IF j = k THEN v ELSE snapshot[j]
      /\ pc[k] = "snapshot" /\ UNCHANGED <<snapshotSeq, since>>
  BY <1>1 DEF ReadSnapshot, Goto, dbVars, IInv, TypeOK
<1>3. since[k] < v.serverSeq
  <2>1. since[k] < snapshotSeq /\ since[k] \in Nat /\ snapshotSeq \in Nat
    BY <1>2 DEF TurnedAway, IInv, TypeOK
  <2>2. PICK w \in versions : w.serverSeq = snapshotSeq
    BY <2>1 DEF IInv, Watermark
  <2>3. snapshotSeq <= v.serverSeq /\ v.serverSeq \in Nat
    BY <1>1, <2>2 DEF Newest, IInv, TypeOK, Version, Ahead
  <2> QED
    BY <2>1, <2>3
<1> QED
  BY <1>2, <1>3 DEF TurnedAway

LEMMA OtherTurn ==
    ASSUME IInv, IInv', TurnedAway, UNCHANGED callVars, snapshotSeq <= snapshotSeq'
    PROVE  TurnedAway'
BY TurnedAwayKept DEF callVars

LEMMA WriteTurn ==
    ASSUME IInv, IInv', TurnedAway, NEW u \in Uploads, WriteVersion(u)
    PROVE  TurnedAway'
<1>1. /\ snapshotSeq' = Greatest(snapshotSeq, upload[u].body.serverSeq)
      /\ UNCHANGED callVars
  BY DEF WriteVersion
<1>2. snapshotSeq \in Nat /\ upload[u].body.serverSeq \in Nat
  BY ReplicaAssumption DEF IInv, TypeOK, Version, Ahead
<1> QED
  BY <1>1, <1>2, OtherTurn DEF Greatest

LEMMA TurnedAwayInductive == Spec => [](IInv /\ TurnedAway)
<1>1. Init => TurnedAway
  BY DEF Init, TurnedAway
<1>2. IInv /\ IInv' /\ TurnedAway /\ [Next]_vars => TurnedAway'
  <2> SUFFICES ASSUME IInv, IInv', TurnedAway, [Next]_vars PROVE TurnedAway'
    OBVIOUS
  <2>0. snapshotSeq <= snapshotSeq
    BY DEF IInv, TypeOK
  <2>1. ASSUME NEW k \in Calls, Pull(k) PROVE TurnedAway'
    <3>1. \A j \in Calls \ {k} : since'[j] = since[j]
      BY <2>1 DEF Pull, IInv, TypeOK
    <3> QED
      BY <2>1, <3>1, CallTurn DEF Pull, dbVars
  <2>2. ASSUME NEW k \in Calls, ReadDocument(k) \/ ReadPage(k) PROVE TurnedAway'
    BY <2>2, CallTurn DEF ReadDocument, ReadPage, dbVars
  <2>3. ASSUME NEW k \in Calls, CallFails(k) \/ Receive(k) PROVE TurnedAway'
    <3>1. \E place \in {"idle", "failed"} : Done(k, place)
      BY <2>3 DEF CallFails, Receive, ReceivePage, ReceiveSnapshot
    <3>2. UNCHANGED snapshotSeq
      BY <2>3 DEF CallFails, Receive, ReceivePage, ReceiveSnapshot, dbVars
    <3>3. \A j \in Calls \ {k} : since'[j] = since[j] /\ snapshot'[j] = snapshot[j]
      BY <3>1 DEF Done, IInv, TypeOK
    <3> QED
      BY <3>1, <3>2, <3>3, CallTurn DEF Done
  <2>4. ASSUME NEW t \in touches, TouchSession(t) PROVE TurnedAway'
    BY <2>0, <2>4, OtherTurn DEF TouchSession
  <2>5. ASSUME NEW c \in Clients, Commit(c) PROVE TurnedAway'
    BY <2>0, <2>5, OtherTurn DEF Commit
  <2>6. ASSUME NEW c \in Clients, NEW u \in Uploads, CreateVersion(c, u) PROVE TurnedAway'
    BY <2>0, <2>6, OtherTurn DEF CreateVersion, dbVars
  <2>7. ASSUME NEW u \in Uploads, CheckVersion(u) \/ VersionFails(u) PROVE TurnedAway'
    BY <2>0, <2>7, OtherTurn DEF CheckVersion, VersionFails, dbVars
  <2>8. CASE UNCHANGED vars
    BY <2>0, <2>8, OtherTurn DEF vars, dbVars
  <2> QED
    BY <2>1, <2>2, <2>3, <2>4, <2>5, <2>6, <2>7, <2>8, GoneTurn, SnapshotTurn, WriteTurn
       DEF Next, Serve
<1> QED
  BY <1>1, <1>2, Inductive, PTL DEF Spec

\* The watermark that turns clients away is the position of the newest version,
\* which the log has reached; a client turned away finds a version beyond its
\* cursor, and the snapshot it is answered with is one.
THEOREM WatermarkStands == Spec => []WatermarkHasSnapshot
<1>1. IInv /\ TurnedAway => WatermarkHasSnapshot
  <2> SUFFICES ASSUME IInv, TurnedAway PROVE WatermarkHasSnapshot
    OBVIOUS
  <2> DEFINE S == {v.serverSeq : v \in versions} \cup {0}
  <2>1. S \in SUBSET Nat
    BY ReplicaAssumption DEF IInv, TypeOK, Version, Ahead
  <2>2. snapshotSeq \in S /\ snapshotSeq \in Nat /\ \A n \in S : n <= snapshotSeq
    BY DEF IInv, TypeOK, Watermark
  <2> HIDE DEF S
  <2>3. Max(S) = snapshotSeq
    BY <2>1, <2>2, MaxIs
  <2>4. ASSUME NEW k \in Calls, pc[k] = "snapshot"
        PROVE  \E v \in versions : v.serverSeq > since[k]
    <3>1. since[k] < snapshotSeq /\ since[k] \in Nat
      BY <2>4 DEF TurnedAway, IInv, TypeOK
    <3>2. PICK v \in versions : v.serverSeq = snapshotSeq
      BY <2>2, <3>1 DEF IInv, Watermark
    <3> QED
      BY <2>2, <3>1, <3>2
  <2>5. \A k \in Calls : pc[k] = "bootstrap" => snapshot[k].serverSeq > since[k]
    <3>1. \A k \in Calls : since[k] \in Nat /\ snapshot[k].serverSeq \in Nat
      BY ReplicaAssumption DEF IInv, TypeOK, Version, Ahead
    <3> QED
      BY <3>1 DEF TurnedAway
  <2> QED
    BY <2>3, <2>4, <2>5 DEF S, WatermarkHasSnapshot, IInv, Watermark
<1> QED
  BY <1>1, TurnedAwayInductive, PTL

------------------------------------------------------------------------------
(***************************************************************************)
(* Sessions                                                                *)
(***************************************************************************)
Sessions ==
    /\ SessionsNeverAhead
    /\ \A t \in touches : t[2] <= serverSeq

\* The log only grows.
LEMMA SessionsKept ==
    ASSUME IInv, IInv', Sessions, serverSeq <= serverSeq',
           UNCHANGED <<lastAckedSeq, touches>>
    PROVE  Sessions'
<1>1. serverSeq \in Nat /\ serverSeq' \in Nat
  BY DEF IInv, TypeOK
<1>2. \A c \in Clients : lastAckedSeq[c] \in Nat
  BY DEF IInv, TypeOK
<1>3. \A t \in touches : t[2] \in Nat
  BY DEF IInv, TypeOK, Slots
<1>4. SessionsNeverAhead'
  BY <1>1, <1>2 DEF Sessions, SessionsNeverAhead
<1>5. \A t \in touches' : t[2] <= serverSeq'
  BY <1>1, <1>3 DEF Sessions
<1> QED
  BY <1>4, <1>5 DEF Sessions

\* The page, and so the session update it starts, ends within the log.
LEMMA PageWithinLog ==
    ASSUME IInv, IInv', Sessions, NEW k \in Calls, ReadPage(k)
    PROVE  Sessions'
<1> DEFINE s == since[k]
           rows == Rows(k)
           last == IF serverSeq < s + Take THEN serverSeq ELSE s + Take
<1>1. /\ s \in Nat /\ Take \in Nat \ {0} /\ serverSeq \in Nat /\ s <= serverSeq
      /\ last \in s..serverSeq /\ PageOf(rows) = s + 1 .. last
      /\ rows = {} <=> s = serverSeq
  BY RowsAre
<1>2. touches' = touches \cup
          {<<ClientOf[k], Max(PageOf(rows))>> : x \in {c \in Named : c = ClientOf[k] /\ rows # {}}}
      /\ UNCHANGED <<serverSeq, lastAckedSeq>>
  BY DEF ReadPage, dbVars
<1>3. ASSUME rows # {} PROVE Max(PageOf(rows)) <= serverSeq
  <2>1. s < last
    BY <1>1, <1>3
  <2> HIDE DEF last
  <2>2. PageOf(rows) \in SUBSET Nat /\ last \in PageOf(rows) /\ \A n \in PageOf(rows) : n <= last
    BY <1>1, <2>1
  <2> HIDE DEF rows
  <2>3. Max(PageOf(rows)) = last
    BY <2>2, MaxIs
  <2> QED
    BY <1>1, <2>3
<1> HIDE DEF rows
<1>4. \A t \in touches' : t[2] <= serverSeq
  BY <1>2, <1>3 DEF Sessions
<1> QED
  BY <1>2, <1>4 DEF Sessions, SessionsNeverAhead

LEMMA TouchWithinLog ==
    ASSUME IInv, Sessions, NEW t \in touches, TouchSession(t)
    PROVE  Sessions'
<1>1. /\ touches' \subseteq touches /\ UNCHANGED serverSeq
      /\ \/ lastAckedSeq' = [lastAckedSeq EXCEPT ![t[1]] = Greatest(@, t[2])]
         \/ UNCHANGED lastAckedSeq
  BY DEF TouchSession
<1>2. t[1] \in Clients /\ t[2] \in Nat /\ t[2] <= serverSeq
  BY DEF IInv, TypeOK, Slots, Sessions
<1>3. ASSUME NEW c \in Clients PROVE lastAckedSeq'[c] <= serverSeq
  <2>1. lastAckedSeq[c] <= serverSeq
    BY DEF Sessions, SessionsNeverAhead
  <2> QED
    BY <1>1, <1>2, <2>1 DEF Greatest, IInv, TypeOK
<1> QED
  BY <1>1, <1>3 DEF Sessions, SessionsNeverAhead

\* Session updates are not awaited and may be applied in any order or fail;
\* none acknowledges an operation that the log does not have
\* (sync.service.ts, pull and its session update).
THEOREM SessionsFollow == Spec => []SessionsNeverAhead
<1>1. Init => Sessions
  BY DEF Init, Sessions, SessionsNeverAhead
<1>2. IInv /\ IInv' /\ Sessions /\ [Next]_vars => Sessions'
  <2> SUFFICES ASSUME IInv, IInv', Sessions, [Next]_vars PROVE Sessions'
    OBVIOUS
  <2>1. serverSeq \in Nat
    BY DEF IInv, TypeOK
  <2>2. ASSUME UNCHANGED <<serverSeq, lastAckedSeq, touches>> PROVE Sessions'
    BY <2>1, <2>2, SessionsKept
  <2>3. ASSUME NEW k \in Calls,
               Pull(k) \/ ReadGone(k) \/ ReadDocument(k) \/ ReadSnapshot(k) \/ CallFails(k)
        PROVE  Sessions'
    BY <2>2, <2>3 DEF Pull, ReadGone, ReadDocument, ReadSnapshot, CallFails, dbVars
  <2>4. ASSUME NEW k \in Calls, Receive(k) PROVE Sessions'
    BY <2>2, <2>4 DEF Receive, ReceivePage, ReceiveSnapshot, dbVars
  <2>5. ASSUME NEW c \in Clients, Commit(c) PROVE Sessions'
    BY <2>1, <2>5, SessionsKept DEF Commit
  <2>6. ASSUME NEW c \in Clients, NEW u \in Uploads, CreateVersion(c, u) PROVE Sessions'
    BY <2>2, <2>6 DEF CreateVersion, dbVars
  <2>7. ASSUME NEW u \in Uploads, CheckVersion(u) \/ VersionFails(u) \/ WriteVersion(u)
        PROVE  Sessions'
    BY <2>2, <2>7 DEF CheckVersion, VersionFails, WriteVersion, dbVars
  <2>8. CASE UNCHANGED vars
    BY <2>2, <2>8 DEF vars, dbVars
  <2> QED
    BY <2>3, <2>4, <2>5, <2>6, <2>7, <2>8, PageWithinLog, TouchWithinLog DEF Next, Serve
<1>3. Sessions => SessionsNeverAhead
  BY DEF Sessions
<1> QED
  BY <1>1, <1>2, <1>3, Inductive, PTL DEF Spec
==============================================================================
