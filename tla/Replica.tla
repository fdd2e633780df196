------------------------------- MODULE Replica -------------------------------
(***************************************************************************)
(* One document's log as its replicas see it: pull pages behind a cursor,  *)
(* the acknowledged watermark of a sync session, versions and the snapshot *)
(* watermark that answers a cursor with 410 Gone.                          *)
(*                                                                         *)
(* A slot stands for the operation in it; the log is 1..serverSeq (this    *)
(* is SyncLog's promise).  A pull reads the document and then the page, in *)
(* two statements that see different states.  The client is not in the     *)
(* repository: it keeps a cursor, moves it over what it receives, and      *)
(* uploads what it has as a version.                                       *)
(***************************************************************************)
EXTENDS Naturals, FiniteSetsExt

CONSTANTS
    Clients,        \* replicas of the document
    Calls,          \* requests of a client that may be under way together
    ClientOf,       \* whose call it is
    Named,          \* the clients that send x-client-id, and so have a session
    Take,           \* the page size, clamped
    Uploads,        \* bound: versions under way together
    MaxVersions,    \* bound: versions stored when another upload begins
    MaxSeq          \* bound: the length of the log

ASSUME ReplicaAssumption ==
    /\ ClientOf \in [Calls -> Clients]
    /\ Named \subseteq Clients
    /\ Take \in Nat \ {0}
    /\ MaxVersions \in Nat
    /\ MaxSeq \in Nat

\* A position beyond any the log reaches, which a mistaken client may claim.
Ahead == MaxSeq + 1

Slots == 1..MaxSeq

Version == [serverSeq : 0..Ahead, content : SUBSET Slots]

NoVersion == [serverSeq |-> 0, content |-> {}]

VARIABLES
    \* the database
    serverSeq,      \* documents."serverSeq"
    snapshotSeq,    \* documents."snapshotSeq"
    versions,       \* the versions table
    lastAckedSeq,   \* sync_sessions."lastAckedSeq", 0 where there is no row
    \* the handlers
    pc,             \* where a client's call is
    since,          \* the cursor it was made with
    documentSeq,    \* what its pull has read of the document
    page,           \* the slots in its answer
    hasMore,        \* the flag in its answer
    snapshot,       \* the version in its answer, where it asked for one
    touches,        \* session updates started and not awaited
    upload,         \* a version being created: its await and its body
    \* the clients
    cursor,         \* what pulls are made with
    have            \* the operations received

dbVars == <<serverSeq, snapshotSeq, versions, lastAckedSeq>>
callVars == <<pc, since, documentSeq, page, hasMore, snapshot>>
clientVars == <<cursor, have>>
vars == <<dbVars, callVars, touches, upload, clientVars>>

Idle == [at |-> "idle", body |-> NoVersion]

Init ==
    /\ serverSeq = 0
    /\ snapshotSeq = 0
    /\ versions = {}
    /\ lastAckedSeq = [c \in Clients |-> 0]
    /\ pc = [k \in Calls |-> "idle"]
    /\ since = [k \in Calls |-> 0]
    /\ documentSeq = [k \in Calls |-> 0]
    /\ page = [k \in Calls |-> {}]
    /\ hasMore = [k \in Calls |-> FALSE]
    /\ snapshot = [k \in Calls |-> NoVersion]
    /\ touches = {}
    /\ upload = [u \in Uploads |-> Idle]
    /\ cursor = [c \in Clients |-> 0]
    /\ have = [c \in Clients |-> {}]

Greatest(m, n) == IF m >= n THEN m ELSE n

Goto(k, place) == pc' = [pc EXCEPT ![k] = place]

\* What the call held is forgotten.
Done(k, place) ==
    /\ Goto(k, place)
    /\ since' = [since EXCEPT ![k] = 0]
    /\ documentSeq' = [documentSeq EXCEPT ![k] = 0]
    /\ page' = [page EXCEPT ![k] = {}]
    /\ hasMore' = [hasMore EXCEPT ![k] = FALSE]
    /\ snapshot' = [snapshot EXCEPT ![k] = NoVersion]

------------------------------------------------------------------------------
(***************************************************************************)
(* Pull                                                                    *)
(***************************************************************************)
Pull(k) ==
    /\ pc[k] \in {"idle", "failed"}
    /\ since' = [since EXCEPT ![k] = cursor[ClientOf[k]]]
    /\ Goto(k, "document")
    /\ UNCHANGED <<dbVars, documentSeq, page, hasMore, snapshot, touches, upload, clientVars>>

\* Mutant: the snapshot's own position is refused too.
MutantFallenBehind(k) == since[k] > 0 /\ since[k] <= snapshotSeq

\* A fresh client, at 0, is never behind.
FallenBehind(k) == since[k] > 0 /\ since[k] < snapshotSeq

\* 410: the client asks for the snapshot instead.
ReadGone(k) ==
    /\ pc[k] = "document"
    /\ FallenBehind(k)
    /\ Goto(k, "snapshot")
    /\ UNCHANGED <<dbVars, since, documentSeq, page, hasMore, snapshot, touches, upload, clientVars>>

ReadDocument(k) ==
    /\ pc[k] = "document"
    /\ ~FallenBehind(k)
    /\ documentSeq' = [documentSeq EXCEPT ![k] = serverSeq]
    /\ Goto(k, "page")
    /\ UNCHANGED <<dbVars, since, page, hasMore, snapshot, touches, upload, clientVars>>

After(n) == n + 1 .. serverSeq

\* Mutant: no extra row is fetched.
MutantRows(k) == {n \in After(since[k]) : n <= since[k] + Take}

\* The rows above the cursor, one more than a page.
Rows(k) == {n \in After(since[k]) : n <= since[k] + Take + 1}

\* Mutant: the newest rows, for want of an ascending order.
MutantPageOf(rows) == {n \in rows : Cardinality({m \in rows : m > n}) < Take}

PageOf(rows) == {n \in rows : Cardinality({m \in rows : m < n}) < Take}

\* The page is answered; a session update naming its newest operation starts.
ReadPage(k) ==
    LET rows == Rows(k) IN
    /\ pc[k] = "page"
    /\ page' = [page EXCEPT ![k] = PageOf(rows)]
    /\ hasMore' = [hasMore EXCEPT ![k] = Cardinality(rows) > Take]
    /\ touches' = touches \cup
           {<<ClientOf[k], Max(PageOf(rows))>> : x \in {c \in Named : c = ClientOf[k] /\ rows # {}}}
    /\ Goto(k, "answered")
    /\ UNCHANGED <<dbVars, since, documentSeq, snapshot, upload, clientVars>>

\* The session's upsert, in any order with others; an error is forgotten.
TouchSession(t) ==
    /\ t \in touches
    /\ touches' = touches \ {t}
    /\ \/ lastAckedSeq' = [lastAckedSeq EXCEPT ![t[1]] = Greatest(@, t[2])]
       \/ UNCHANGED lastAckedSeq
    /\ UNCHANGED <<serverSeq, snapshotSeq, versions, callVars, upload, clientVars>>

Newest(v) == \A w \in versions : w.serverSeq <= v.serverSeq

\* latestSnapshot.
ReadSnapshot(k) ==
    /\ pc[k] = "snapshot"
    /\ \E v \in versions :
          /\ Newest(v)
          /\ snapshot' = [snapshot EXCEPT ![k] = v]
    /\ Goto(k, "bootstrap")
    /\ UNCHANGED <<dbVars, since, documentSeq, page, hasMore, touches, upload, clientVars>>

\* The caller may not read, the document is deleted, a statement fails, or
\* the answer is lost.
CallFails(k) ==
    /\ pc[k] \notin {"idle", "failed"}
    /\ Done(k, "failed")
    /\ UNCHANGED <<dbVars, touches, upload, clientVars>>

\* The client appends a page that continues what it has.
ReceivePage(k) ==
    LET c == ClientOf[k] IN
    /\ pc[k] = "answered"
    /\ have' = [have EXCEPT ![c] = @ \cup page[k]]
    /\ cursor' = [cursor EXCEPT ![c] = Max(page[k] \cup {@})]
    /\ Done(k, "idle")
    /\ UNCHANGED <<dbVars, touches, upload>>

\* The client merges the snapshot into what it has.
ReceiveSnapshot(k) ==
    LET c == ClientOf[k] IN
    /\ pc[k] = "bootstrap"
    /\ have' = [have EXCEPT ![c] = @ \cup snapshot[k].content]
    /\ cursor' = [cursor EXCEPT ![c] = Greatest(@, snapshot[k].serverSeq)]
    /\ Done(k, "idle")
    /\ UNCHANGED <<dbVars, touches, upload>>

------------------------------------------------------------------------------
(***************************************************************************)
(* Push, as CommitLog has it: the author receives its own slot, or the     *)
(* answer is lost                                                          *)
(***************************************************************************)
Commit(c) ==
    /\ serverSeq < MaxSeq
    /\ serverSeq' = serverSeq + 1
    /\ have' \in {have, [have EXCEPT ![c] = @ \cup {serverSeq + 1}]}
    /\ UNCHANGED <<snapshotSeq, versions, lastAckedSeq, callVars, touches, upload, cursor>>

------------------------------------------------------------------------------
(***************************************************************************)
(* Versions                                                                *)
(***************************************************************************)
Stage(u, at) == upload' = [upload EXCEPT ![u].at = at]

\* A client materialises what it has, at its cursor; its request may be late.
\* A mistaken one claims a position the log has not reached.
CreateVersion(c, u) ==
    /\ upload[u] = Idle
    /\ Cardinality(versions) < MaxVersions
    /\ \E body \in {[serverSeq |-> cursor[c], content |-> have[c]],
                      [serverSeq |-> Ahead, content |-> {}]} :
          upload' = [upload EXCEPT ![u] = [at |-> "check", body |-> body]]
    /\ UNCHANGED <<dbVars, callVars, touches, clientVars>>

\* Mutant: the claim is not held against the log.
MutantCheckVersion(u) ==
    /\ upload[u].at = "check"
    /\ Stage(u, "write")
    /\ UNCHANGED <<dbVars, callVars, touches, clientVars>>

CheckVersion(u) ==
    /\ upload[u].at = "check"
    /\ upload[u].body.serverSeq <= serverSeq
    /\ Stage(u, "write")
    /\ UNCHANGED <<dbVars, callVars, touches, clientVars>>

\* Refused for its claim, or failed and rolled back.
VersionFails(u) ==
    /\ upload[u] # Idle
    /\ upload' = [upload EXCEPT ![u] = Idle]
    /\ UNCHANGED <<dbVars, callVars, touches, clientVars>>

\* Mutant: a late snapshot drags the watermark back.
MutantWriteVersion(u) ==
    /\ upload[u].at = "write"
    /\ versions' = versions \cup {upload[u].body}
    /\ snapshotSeq' = upload[u].body.serverSeq
    /\ upload' = [upload EXCEPT ![u] = Idle]
    /\ UNCHANGED <<serverSeq, lastAckedSeq, callVars, touches, clientVars>>

\* One transaction: the version and the watermark.
WriteVersion(u) ==
    /\ upload[u].at = "write"
    /\ versions' = versions \cup {upload[u].body}
    /\ snapshotSeq' = Greatest(snapshotSeq, upload[u].body.serverSeq)
    /\ upload' = [upload EXCEPT ![u] = Idle]
    /\ UNCHANGED <<serverSeq, lastAckedSeq, callVars, touches, clientVars>>

------------------------------------------------------------------------------
Serve(k) == ReadGone(k) \/ ReadDocument(k) \/ ReadPage(k) \/ ReadSnapshot(k)

Receive(k) == ReceivePage(k) \/ ReceiveSnapshot(k)

Next ==
    \/ \E k \in Calls : Pull(k) \/ Serve(k) \/ Receive(k) \/ CallFails(k)
    \/ \E t \in touches : TouchSession(t)
    \/ \E c \in Clients : Commit(c)
    \/ \E c \in Clients, u \in Uploads : CreateVersion(c, u)
    \/ \E u \in Uploads : CheckVersion(u) \/ VersionFails(u) \/ WriteVersion(u)

Spec == Init /\ [][Next]_vars

\* Clients keep polling, the server keeps serving (each of these steps moves
\* pc), and from some moment on calls succeed and their answers arrive.
Fairness ==
    /\ \A k \in Calls : WF_pc(Pull(k) \/ Serve(k) \/ Receive(k))
    /\ \A k \in Calls : <>[](pc[k] # "failed")

FairSpec == Spec /\ Fairness

------------------------------------------------------------------------------
(***************************************************************************)
(* Properties                                                              *)
(***************************************************************************)
\* Every variable keeps its type, and nobody holds a slot the log lacks.
TypeOK ==
    /\ serverSeq \in 0..MaxSeq
    /\ snapshotSeq \in 0..MaxSeq
    /\ versions \subseteq Version
    /\ lastAckedSeq \in [Clients -> 0..MaxSeq]
    /\ pc \in [Calls -> {"idle", "failed", "document", "page", "answered", "snapshot", "bootstrap"}]
    /\ since \in [Calls -> 0..MaxSeq]
    /\ documentSeq \in [Calls -> 0..MaxSeq]
    /\ page \in [Calls -> SUBSET Slots]
    /\ hasMore \in [Calls -> BOOLEAN]
    /\ snapshot \in [Calls -> Version]
    /\ touches \subseteq Clients \X Slots
    /\ upload \in [Uploads -> [at : {"idle", "check", "write"}, body : Version]]
    /\ cursor \in [Clients -> 0..MaxSeq]
    /\ have \in [Clients -> SUBSET Slots]
    /\ \A c \in Clients : \A n \in have[c] : n <= serverSeq

\* The point of the cursor: a replica has every operation up to it, however
\* pages, snapshots, commits and lost answers interleave ("not a silently
\* incomplete page").
NoSkippedOps == \A c \in Clients : 1..cursor[c] \subseteq have[c]

\* The document and the page are read at two moments: a last page
\* (hasMore = false) still reaches the documentSeq it is answered with.
LastPageReachesDocumentSeq ==
    \A k \in Calls :
        pc[k] = "answered" /\ ~hasMore[k] => documentSeq[k] <= Max(page[k] \cup {since[k]})

\* The watermark that turns clients away is the position of the newest
\* version; no version claims a position ahead of the log.  So a call that is
\* turned away, and races the upload of others, still gets a snapshot beyond
\* the cursor it was made with.
WatermarkHasSnapshot ==
    /\ snapshotSeq = Max({v.serverSeq : v \in versions} \cup {0})
    /\ snapshotSeq <= serverSeq
    /\ \A k \in Calls : pc[k] = "snapshot" => \E v \in versions : v.serverSeq > since[k]
    /\ \A k \in Calls : pc[k] = "bootstrap" => snapshot[k].serverSeq > since[k]

\* A session is updated after its page is answered, by calls that do not wait
\* for each other; it never acknowledges more than the log has.
SessionsNeverAhead == \A c \in Clients : lastAckedSeq[c] <= serverSeq

\* Once the edits stop, every polling replica ends up with the whole log.
EventuallyCaughtUp ==
    \A c \in {ClientOf[k] : k \in Calls} : <>[](cursor[c] = serverSeq)
==============================================================================
