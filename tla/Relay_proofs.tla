---------------------------- MODULE Relay_proofs ----------------------------
(***************************************************************************)
(* The relay's rooms, catch-up and heartbeat, for any number of            *)
(* connections, users and documents.                                       *)
(***************************************************************************)
EXTENDS Relay, TLAPS

USE RelayAssumption

PeerSet == Conns \X (Carets \cup {NoCaret})

------------------------------------------------------------------------------
(***************************************************************************)
(* Types                                                                   *)
(***************************************************************************)
LEMMA PresenceTyped ==
    ASSUME TypeOK, NEW D,
           room' \in [Docs -> SUBSET Conns],
           caret' \in [Conns -> [Docs -> Carets \cup {NoCaret}]],
           BroadcastPresence(D)
    PROVE  shown' \in [Conns -> [Docs -> SUBSET PeerSet]]
<1>1. \A d \in Docs : Peers(d)' \in SUBSET PeerSet
  BY DEF Peers, PeerSet
<1>2. \A c \in Conns, d \in Docs : shown[c][d] \in SUBSET PeerSet
  BY DEF TypeOK, PeerSet
<1> QED
  BY <1>1, <1>2 DEF BroadcastPresence

LEMMA RemoveTyped ==
    ASSUME TypeOK, NEW S \in SUBSET Conns, Remove(S)
    PROVE  /\ connections' \subseteq Conns
           /\ room' \in [Docs -> SUBSET Conns]
           /\ rooms' \in [Conns -> SUBSET Docs]
           /\ caret' \in [Conns -> [Docs -> Carets \cup {NoCaret}]]
           /\ shown' \in [Conns -> [Docs -> SUBSET PeerSet]]
<1>1. /\ connections' \subseteq Conns
      /\ room' \in [Docs -> SUBSET Conns]
      /\ rooms' \in [Conns -> SUBSET Docs]
      /\ caret' \in [Conns -> [Docs -> Carets \cup {NoCaret}]]
  BY DEF TypeOK, Remove, Forgets
<1> QED
  BY <1>1, PresenceTyped DEF Remove

LEMMA InitTyped == Init => TypeOK
BY DEF Init, TypeOK, Sockets, ForEach

\* Sockets and heartbeat.
LEMMA NetTyped ==
    ASSUME TypeOK, NEW c \in Conns,
           SocketStep(c)
    PROVE  TypeOK'
<1> USE DEF TypeOK, Sockets
<1>1. ASSUME Connect(c) PROVE TypeOK'
  BY <1>1 DEF Connect, logVars
<1>2. ASSUME CloseEvent(c) \/ ErrorEvent(c) PROVE TypeOK'
  <2>1. Remove({c})
    BY <1>2 DEF CloseEvent, ErrorEvent
  <2>2. /\ connections' \subseteq Conns
        /\ room' \in [Docs -> SUBSET Conns]
        /\ rooms' \in [Conns -> SUBSET Docs]
        /\ caret' \in [Conns -> [Docs -> Carets \cup {NoCaret}]]
        /\ shown' \in [Conns -> [Docs -> SUBSET PeerSet]]
    BY <2>1, RemoveTyped
  <2>3. /\ sock' \in [Conns -> Sockets]
        /\ UNCHANGED <<peerUp, wire, missed, alive, joining, saw, pushing, member, logVars,
                       answered, told, got>>
    BY <1>2 DEF CloseEvent, ErrorEvent
  <2> QED
    BY <2>2, <2>3 DEF logVars, PeerSet
<1>3. ASSUME PeerVanishes(c) PROVE TypeOK'
  BY <1>3 DEF PeerVanishes, hubVars, logVars
<1>4. ASSUME PeerAnswers(c) PROVE TypeOK'
  BY <1>4 DEF PeerAnswers, hubVars, logVars
<1>5. ASSUME Pong(c) PROVE TypeOK'
  BY <1>5 DEF Pong, hubVars, logVars
<1>6. ASSUME Flood(c) PROVE TypeOK'
  BY <1>6 DEF Flood, hubVars, logVars
<1> QED
  BY <1>1, <1>2, <1>3, <1>4, <1>5, <1>6 DEF SocketStep

LEMMA SweepTyped == ASSUME TypeOK, Sweep PROVE TypeOK'
<1>1. Unresponsive \subseteq Conns
  BY DEF TypeOK, Unresponsive
<1>2. /\ connections' \subseteq Conns
      /\ room' \in [Docs -> SUBSET Conns]
      /\ rooms' \in [Conns -> SUBSET Docs]
      /\ caret' \in [Conns -> [Docs -> Carets \cup {NoCaret}]]
      /\ shown' \in [Conns -> [Docs -> SUBSET PeerSet]]
  BY <1>1, RemoveTyped DEF Sweep
<1>3. /\ sock' \in [Conns -> Sockets]
      /\ alive' \in [Conns -> BOOLEAN]
      /\ wire' \in [Conns -> {"none", "ping", "pong"}]
      /\ missed' \in [Conns -> Nat]
  BY DEF Sweep, TypeOK, Sockets
<1> QED
  BY <1>2, <1>3 DEF Sweep, TypeOK, PeerSet, logVars

\* Joins.
LEMMA JoinTyped ==
    ASSUME TypeOK, NEW c \in Conns, NEW d \in Docs,
           JoinStep(c, d)
    PROVE  TypeOK'
<1> USE DEF TypeOK
<1>1. ASSUME Join(c, d) PROVE TypeOK'
  BY <1>1 DEF Join, netVars, hubVars, logVars
<1>2. ASSUME Authorized(c, d) PROVE TypeOK'
  BY <1>2 DEF Authorized, netVars, logVars
<1>3. ASSUME JoinRefused(c, d) \/ JoinFails(c, d) PROVE TypeOK'
  <2>1. /\ joining' \in [Conns -> [Docs -> {"idle", "authorize", "pull", "reply"}]]
        /\ UNCHANGED <<netVars, hubVars, alive, saw, pushing, member, logVars,
                       answered, told, got, shown>>
    <3>1. JoinEnds(c, d)
      BY <1>3 DEF JoinRefused, JoinFails
    <3>2. UNCHANGED <<netVars, hubVars, alive, saw, pushing, member, logVars,
                      answered, told, got, shown>>
      BY <1>3 DEF JoinRefused, JoinFails
    <3> QED
      BY <3>1, <3>2 DEF JoinEnds
  <2> QED
    BY <2>1 DEF netVars, hubVars, logVars
<1>4. ASSUME JoinPull(c, d) PROVE TypeOK'
  BY <1>4 DEF JoinPull, netVars, hubVars, logVars
<1>5. ASSUME JoinReply(c, d) PROVE TypeOK'
  <2>1. shown' \in [Conns -> [Docs -> SUBSET PeerSet]]
    BY <1>5, PresenceTyped DEF JoinReply, hubVars
  <2>2. /\ joining' \in [Conns -> [Docs -> {"idle", "authorize", "pull", "reply"}]]
        /\ answered' \in [Conns -> [Docs -> BOOLEAN]]
        /\ told' \in [Conns -> [Docs -> Nat]]
        /\ UNCHANGED <<netVars, hubVars, alive, saw, pushing, member, logVars, got>>
    BY <1>5 DEF JoinReply, JoinEnds
  <2> QED
    BY <2>1, <2>2 DEF netVars, hubVars, logVars, PeerSet
<1> QED
  BY <1>1, <1>2, <1>3, <1>4, <1>5 DEF JoinStep, Handle

\* Other frames.
LEMMA FrameTyped ==
    ASSUME TypeOK, NEW c \in Conns, NEW d \in Docs,
           FrameStep(c, d)
    PROVE  TypeOK'
<1> USE DEF TypeOK
<1>1. ASSUME Leave(c, d) PROVE TypeOK'
  <2>1. /\ room' \in [Docs -> SUBSET Conns]
        /\ caret' \in [Conns -> [Docs -> Carets \cup {NoCaret}]]
    BY <1>1 DEF Leave
  <2>2. shown' \in [Conns -> [Docs -> SUBSET PeerSet]]
    BY <1>1, <2>1, PresenceTyped DEF Leave
  <2> QED
    BY <1>1, <2>1, <2>2 DEF Leave, netVars, logVars, PeerSet
<1>2. ASSUME Ops(c, d) PROVE TypeOK'
  BY <1>2 DEF Ops, netVars, hubVars, logVars
<1>3. ASSUME NEW k \in Carets, Presence(c, d, k) PROVE TypeOK'
  <2>1. /\ room' \in [Docs -> SUBSET Conns]
        /\ caret' \in [Conns -> [Docs -> Carets \cup {NoCaret}]]
    BY <1>3 DEF Presence
  <2>2. shown' \in [Conns -> [Docs -> SUBSET PeerSet]]
    BY <1>3, <2>1, PresenceTyped DEF Presence
  <2> QED
    BY <1>3, <2>1, <2>2 DEF Presence, netVars, logVars, PeerSet
<1> QED
  BY <1>1, <1>2, <1>3 DEF FrameStep

\* Commits, broadcasts and membership.
LEMMA CommittedTyped ==
    ASSUME TypeOK, NEW d \in Docs, NEW author \in Conns \cup {Http}, Committed(d, author)
    PROVE  /\ serverSeq' \in [Docs -> Nat]
           /\ outbox' \subseteq [doc : Docs, seq : Nat, author : Conns \cup {Http}]
           /\ unrelayed' \in [Docs -> SUBSET Nat]
           /\ \A e \in Docs : serverSeq[e] <= serverSeq'[e]
<1>1. /\ serverSeq[d] \in Nat
      /\ serverSeq' \in [Docs -> Nat]
      /\ \A e \in Docs : serverSeq[e] <= serverSeq'[e]
  BY DEF TypeOK, Committed
<1>2. ASSUME NEW n \in Nat
      PROVE  Queued(d, n, author) \subseteq [doc : Docs, seq : Nat, author : Conns \cup {Http}]
  BY DEF TypeOK, Queued
<1>3. CASE Fresh(d, author)
  BY <1>1, <1>2, <1>3 DEF TypeOK, Fresh
<1>4. CASE Misplaced(d, author)
  BY <1>1, <1>2, <1>4 DEF TypeOK, Misplaced
<1> QED
  BY <1>1, <1>3, <1>4 DEF Committed

LEMMA PipelineTyped ==
    ASSUME TypeOK, NEW d \in Docs,
           CommitStep(d) \/ \E u \in Users : RemoveMember(u, d)
    PROVE  TypeOK'
<1>1. ASSUME serverSeq' \in [Docs -> Nat], \A e \in Docs : serverSeq[e] <= serverSeq'[e], got' = got
      PROVE  \A e \in Conns, x \in Docs : \A n \in got'[e][x] : n <= serverSeq'[x]
  <2> SUFFICES ASSUME NEW e \in Conns, NEW x \in Docs, NEW n \in got[e][x]
               PROVE  n <= serverSeq'[x]
    BY <1>1
  <2>1. n \in Nat /\ n <= serverSeq[x] /\ serverSeq[x] \in Nat
    BY DEF TypeOK
  <2> QED
    BY <2>1, <1>1
<1>2. ASSUME NEW c \in Conns, CommitPush(c, d) PROVE TypeOK'
  <2>1. /\ serverSeq' \in [Docs -> Nat]
        /\ outbox' \subseteq [doc : Docs, seq : Nat, author : Conns \cup {Http}]
        /\ unrelayed' \in [Docs -> SUBSET Nat]
        /\ \A e \in Docs : serverSeq[e] <= serverSeq'[e]
    BY <1>2, CommittedTyped DEF CommitPush
  <2>2. \A e \in Conns, x \in Docs : \A n \in got'[e][x] : n <= serverSeq'[x]
    BY <1>1, <1>2, <2>1 DEF CommitPush
  <2> QED
    BY <1>2, <2>1, <2>2 DEF CommitPush, TypeOK, netVars, hubVars
<1>3. ASSUME NEW c \in Conns, PushFails(c, d) PROVE TypeOK'
  BY <1>3 DEF PushFails, TypeOK, netVars, hubVars, logVars
<1>4. ASSUME CommitHttp(d) PROVE TypeOK'
  <2>1. /\ serverSeq' \in [Docs -> Nat]
        /\ outbox' \subseteq [doc : Docs, seq : Nat, author : Conns \cup {Http}]
        /\ unrelayed' \in [Docs -> SUBSET Nat]
        /\ \A e \in Docs : serverSeq[e] <= serverSeq'[e]
    BY <1>4, CommittedTyped DEF CommitHttp
  <2>2. \A e \in Conns, x \in Docs : \A n \in got'[e][x] : n <= serverSeq'[x]
    BY <1>1, <1>4, <2>1 DEF CommitHttp
  <2> QED
    BY <1>4, <2>1, <2>2 DEF CommitHttp, TypeOK, netVars, hubVars
<1>5. ASSUME CommitSilently(d) PROVE TypeOK'
  <2>1. /\ serverSeq' \in [Docs -> Nat]
        /\ unrelayed' \in [Docs -> SUBSET Nat]
        /\ \A e \in Docs : serverSeq[e] <= serverSeq'[e]
    BY <1>5 DEF CommitSilently, TypeOK
  <2>2. \A e \in Conns, x \in Docs : \A n \in got'[e][x] : n <= serverSeq'[x]
    BY <1>1, <1>5, <2>1 DEF CommitSilently
  <2> QED
    BY <1>5, <2>1, <2>2 DEF CommitSilently, TypeOK, netVars, hubVars
<1>6. ASSUME NEW u \in Users, RemoveMember(u, d) PROVE TypeOK'
  BY <1>6 DEF RemoveMember, TypeOK, netVars, hubVars, logVars
<1> QED
  BY <1>2, <1>3, <1>4, <1>5, <1>6 DEF CommitStep

\* A broadcast never carries a slot above the counter.
OutboxInLog == \A m \in outbox : m.seq <= serverSeq[m.doc]

LEMMA BroadcastTyped ==
    ASSUME TypeOK, OutboxInLog, NEW m \in outbox, Broadcast(m) PROVE TypeOK'
<1>1. m.doc \in Docs /\ m.seq \in Nat /\ m.seq <= serverSeq[m.doc]
  BY DEF TypeOK, OutboxInLog
<1>2. got' \in [Conns -> [Docs -> SUBSET Nat]]
  BY <1>1 DEF Broadcast, TypeOK
<1>3. \A c \in Conns, d \in Docs : \A n \in got'[c][d] : n <= serverSeq'[d]
  BY <1>1 DEF Broadcast, TypeOK
<1>4. outbox' \subseteq outbox
  BY DEF Broadcast
<1> QED
  BY <1>2, <1>3, <1>4 DEF Broadcast, TypeOK, netVars, hubVars

------------------------------------------------------------------------------
(***************************************************************************)
(* The rooms                                                               *)
(***************************************************************************)
LEMMA RemoveConsistent ==
    ASSUME TypeOK, RoomsConsistent, NEW S \in SUBSET Conns, Remove(S)
    PROVE  RoomsConsistent'
<1> SUFFICES ASSUME NEW c \in Conns, NEW d \in Docs
             PROVE  /\ c \in room'[d] <=> d \in rooms'[c]
                    /\ caret'[c][d] # NoCaret => c \in room'[d]
  BY DEF RoomsConsistent
<1>1. c \in room[d] <=> d \in rooms[c]
  BY DEF RoomsConsistent
<1>2. caret[c][d] # NoCaret => c \in room[d]
  BY DEF RoomsConsistent
<1>3. c \in room'[d] <=> c \in room[d] /\ ~(c \in S /\ d \in rooms[c])
  BY DEF Remove, TypeOK
<1>4. rooms'[c] = IF c \in S THEN {} ELSE rooms[c]
  BY DEF Remove
<1>5. caret'[c][d] = IF c \in S /\ d \in rooms[c] THEN NoCaret ELSE caret[c][d]
  BY DEF Remove, Forgets
<1> QED
  BY <1>1, <1>2, <1>3, <1>4, <1>5

LEMMA RoomsKept == ASSUME RoomsConsistent, UNCHANGED <<room, rooms, caret>> PROVE RoomsConsistent'
BY DEF RoomsConsistent

LEMMA SocketConsistent ==
    ASSUME TypeOK, RoomsConsistent, NEW c \in Conns, SocketStep(c) PROVE RoomsConsistent'
<1>1. CASE Connect(c) \/ PeerVanishes(c) \/ PeerAnswers(c) \/ Pong(c) \/ Flood(c)
  BY <1>1, RoomsKept DEF Connect, PeerVanishes, PeerAnswers, Pong, Flood, hubVars
<1>2. CASE CloseEvent(c) \/ ErrorEvent(c)
  <2>1. Remove({c})
    BY <1>2 DEF CloseEvent, ErrorEvent
  <2> QED
    BY <2>1, RemoveConsistent
<1> QED
  BY <1>1, <1>2 DEF SocketStep

LEMMA HandlerConsistent ==
    ASSUME TypeOK, RoomsConsistent, NEW c \in Conns, NEW d \in Docs,
           JoinStep(c, d) \/ FrameStep(c, d)
    PROVE  RoomsConsistent'
<1>1. CASE Join(c, d) \/ JoinRefused(c, d) \/ JoinFails(c, d)
  BY <1>1, RoomsKept DEF Join, JoinRefused, JoinFails, hubVars
<1>2. CASE JoinPull(c, d) \/ JoinReply(c, d) \/ Ops(c, d)
  BY <1>2, RoomsKept DEF JoinPull, JoinReply, Ops, hubVars
<1>3. CASE Authorized(c, d)
  BY <1>3 DEF Authorized, RoomsConsistent, TypeOK
<1>4. CASE Leave(c, d)
  BY <1>4 DEF Leave, RoomsConsistent, TypeOK
<1>5. ASSUME NEW k \in Carets, Presence(c, d, k) PROVE RoomsConsistent'
  BY <1>5 DEF Presence, RoomsConsistent, TypeOK
<1> QED
  BY <1>1, <1>2, <1>3, <1>4, <1>5 DEF JoinStep, Handle, FrameStep

LEMMA RoomsInductive == ASSUME TypeOK, RoomsConsistent, Next PROVE RoomsConsistent'
<1>1. ASSUME NEW c \in Conns, SocketStep(c) PROVE RoomsConsistent'
  BY <1>1, SocketConsistent
<1>2. ASSUME Sweep PROVE RoomsConsistent'
  <2>1. Unresponsive \in SUBSET Conns
    BY DEF TypeOK, Unresponsive
  <2> QED
    BY <1>2, <2>1, RemoveConsistent DEF Sweep
<1>3. ASSUME NEW c \in Conns, NEW d \in Docs, JoinStep(c, d) \/ FrameStep(c, d)
      PROVE  RoomsConsistent'
  BY <1>3, HandlerConsistent
<1>4. ASSUME NEW d \in Docs, CommitStep(d) PROVE RoomsConsistent'
  BY <1>4, RoomsKept DEF CommitStep, CommitPush, PushFails, CommitHttp, CommitSilently, hubVars
<1>5. ASSUME NEW m \in outbox, Broadcast(m) PROVE RoomsConsistent'
  BY <1>5, RoomsKept DEF Broadcast, hubVars
<1>6. ASSUME NEW u \in Users, NEW d \in Docs, RemoveMember(u, d) PROVE RoomsConsistent'
  BY <1>6, RoomsKept DEF RemoveMember, hubVars
<1> QED
  BY <1>1, <1>2, <1>3, <1>4, <1>5, <1>6 DEF Next

------------------------------------------------------------------------------
(***************************************************************************)
(* Catching up: what a join's answer will be owed from the moment its pull *)
(* has read the counter                                                    *)
(***************************************************************************)
Caught(c, d, from) == \A n \in from + 1 .. serverSeq[d] : Covered(c, d, n)

JoinInv ==
    \A c \in Conns, d \in Docs :
        /\ c \in room[d] /\ sock[c] = "open" /\ answered[c][d] => Caught(c, d, told[c][d])
        /\ c \in room[d] /\ sock[c] = "open" /\ joining[c][d] = "reply" => Caught(c, d, saw[c][d])
        /\ joining[c][d] # "idle" => ~answered[c][d]
        /\ sock[c] = "unborn" => joining[c][d] = "idle" /\ c \notin room[d]

\* A step that leaves the log and what was received alone.
LEMMA JoinGoal ==
    ASSUME UNCHANGED <<serverSeq, outbox, unrelayed, got>>,
           \A c \in Conns, d \in Docs :
               /\ c \in room'[d] /\ sock'[c] = "open" /\ answered'[c][d] => Caught(c, d, told'[c][d])
               /\ c \in room'[d] /\ sock'[c] = "open" /\ joining'[c][d] = "reply"
                     => Caught(c, d, saw'[c][d])
               /\ joining'[c][d] # "idle" => ~answered'[c][d]
               /\ sock'[c] = "unborn" => joining'[c][d] = "idle" /\ c \notin room'[d]
    PROVE  JoinInv'
BY DEF JoinInv, Caught, Covered, InOutbox

\* ... that moreover opens no socket, fills no room, starts no join and answers none.
LEMMA JoinKept ==
    ASSUME JoinInv,
           UNCHANGED <<serverSeq, outbox, unrelayed, got, told, saw>>,
           \A c \in Conns : sock'[c] \in {"open", "unborn"} => sock'[c] = sock[c],
           \A c \in Conns, d \in Docs :
               /\ c \in room'[d] => c \in room[d]
               /\ answered'[c][d] => answered[c][d]
               /\ joining'[c][d] \in {joining[c][d], "idle"}
    PROVE  JoinInv'
BY JoinGoal DEF JoinInv

LEMMA SocketJoin ==
    ASSUME TypeOK, JoinInv, NEW c \in Conns, SocketStep(c) \/ Sweep PROVE JoinInv'
<1>1. CASE Connect(c)
  <2>1. \A d \in Docs : c \notin room[d] /\ joining[c][d] = "idle"
    BY <1>1 DEF JoinInv, Connect
  <2>2. \A e \in Conns : e # c => sock'[e] = sock[e]
    BY <1>1 DEF Connect, TypeOK
  <2>3. sock'[c] = "open"
    BY <1>1 DEF Connect, TypeOK
  <2> QED
    BY <1>1, <2>1, <2>2, <2>3 DEF Connect, JoinInv, Caught, Covered, InOutbox, logVars
<1>2. CASE CloseEvent(c) \/ ErrorEvent(c)
  <2>1. /\ \A e \in Conns : sock'[e] \in {"open", "unborn"} => sock'[e] = sock[e]
        /\ \A d \in Docs : room'[d] \subseteq room[d]
    BY <1>2 DEF CloseEvent, ErrorEvent, Remove, TypeOK
  <2>2. UNCHANGED <<serverSeq, outbox, unrelayed, got, told, saw, answered, joining>>
    BY <1>2 DEF CloseEvent, ErrorEvent, logVars
  <2> QED
    BY <2>1, <2>2, JoinKept
<1>3. CASE PeerVanishes(c) \/ PeerAnswers(c) \/ Pong(c) \/ Flood(c)
  <2>1. /\ \A e \in Conns : sock'[e] \in {"open", "unborn"} => sock'[e] = sock[e]
        /\ UNCHANGED room
    BY <1>3 DEF PeerVanishes, PeerAnswers, Pong, Flood, TypeOK, hubVars
  <2>2. UNCHANGED <<serverSeq, outbox, unrelayed, got, told, saw, answered, joining>>
    BY <1>3 DEF PeerVanishes, PeerAnswers, Pong, Flood, logVars
  <2> QED
    BY <2>1, <2>2, JoinKept
<1>4. CASE Sweep
  <2>1. /\ \A e \in Conns : sock'[e] \in {"open", "unborn"} => sock'[e] = sock[e]
        /\ \A d \in Docs : room'[d] \subseteq room[d]
    BY <1>4 DEF Sweep, Remove, TypeOK
  <2>2. UNCHANGED <<serverSeq, outbox, unrelayed, got, told, saw, answered, joining>>
    BY <1>4 DEF Sweep, logVars
  <2> QED
    BY <2>1, <2>2, JoinKept
<1> QED
  BY <1>1, <1>2, <1>3, <1>4 DEF SocketStep

LEMMA FrameJoin ==
    ASSUME TypeOK, JoinInv, NEW c \in Conns, NEW d \in Docs, FrameStep(c, d) PROVE JoinInv'
<1>1. CASE Leave(c, d)
  <2>1. UNCHANGED <<serverSeq, outbox, unrelayed, got, told, saw, joining, sock>>
    BY <1>1 DEF Leave, logVars, netVars
  <2>2. \A x \in Docs : room'[x] \subseteq room[x]
    BY <1>1 DEF Leave, TypeOK
  <2>3. \A e \in Conns, x \in Docs : answered'[e][x] => answered[e][x]
    BY <1>1 DEF Leave, TypeOK
  <2> QED
    BY <2>1, <2>2, <2>3, JoinKept
<1>2. CASE Ops(c, d) \/ \E k \in Carets : Presence(c, d, k)
  <2>1. UNCHANGED <<serverSeq, outbox, unrelayed, got, told, saw, joining, sock, room, answered>>
    BY <1>2 DEF Ops, Presence, logVars, netVars, hubVars
  <2> QED
    BY <2>1, JoinKept
<1> QED
  BY <1>1, <1>2 DEF FrameStep

LEMMA JoinJoin ==
    ASSUME TypeOK, JoinInv, NEW c \in Conns, NEW d \in Docs, JoinStep(c, d) PROVE JoinInv'
<1>1. CASE JoinRefused(c, d) \/ JoinFails(c, d)
  <2>1. UNCHANGED <<serverSeq, outbox, unrelayed, got, told, saw, answered, sock, room>>
    BY <1>1 DEF JoinRefused, JoinFails, logVars, netVars, hubVars
  <2>2. JoinEnds(c, d)
    BY <1>1 DEF JoinRefused, JoinFails
  <2>3. \A e \in Conns, x \in Docs : joining'[e][x] \in {joining[e][x], "idle"}
    BY <2>2 DEF JoinEnds, TypeOK
  <2> QED
    BY <2>1, <2>3, JoinKept
<1>2. UNCHANGED <<serverSeq, outbox, unrelayed, got>>
  BY DEF JoinStep, Handle, Join, Authorized, JoinRefused, JoinPull, JoinReply, JoinFails, logVars
<1> DEFINE Goal(e, x) ==
        /\ e \in room'[x] /\ sock'[e] = "open" /\ answered'[e][x] => Caught(e, x, told'[e][x])
        /\ e \in room'[x] /\ sock'[e] = "open" /\ joining'[e][x] = "reply"
              => Caught(e, x, saw'[e][x])
        /\ joining'[e][x] # "idle" => ~answered'[e][x]
        /\ sock'[e] = "unborn" => joining'[e][x] = "idle" /\ e \notin room'[x]
<1>3. ASSUME \A e \in Conns, x \in Docs : Goal(e, x) PROVE JoinInv'
  BY <1>2, <1>3, JoinGoal
<1>4. CASE Join(c, d)
  <2>1. UNCHANGED <<sock, room, told, saw>> /\ sock[c] # "unborn"
    BY <1>4 DEF Join, Receives, netVars, hubVars
  <2>2. \A e \in Conns, x \in Docs :
            /\ answered'[e][x] => answered[e][x] /\ <<e, x>> # <<c, d>>
            /\ joining'[e][x] = IF <<e, x>> = <<c, d>> THEN "authorize" ELSE joining[e][x]
    BY <1>4 DEF Join, TypeOK
  <2>9. \A e \in Conns, x \in Docs : Goal(e, x)
    BY <2>1, <2>2 DEF JoinInv
  <2> QED
    BY <1>3, <2>9
<1>5. CASE Authorized(c, d)
  <2>1. UNCHANGED <<sock, told, saw, answered>> /\ sock[c] # "unborn" /\ ~answered[c][d]
    BY <1>5 DEF Authorized, netVars, JoinInv
  <2>2. \A e \in Conns, x \in Docs :
            /\ e \in room'[x] <=> e \in room[x] \/ <<e, x>> = <<c, d>>
            /\ joining'[e][x] = IF <<e, x>> = <<c, d>> THEN "pull" ELSE joining[e][x]
    BY <1>5 DEF Authorized, TypeOK
  <2>9. \A e \in Conns, x \in Docs : Goal(e, x)
    BY <2>1, <2>2 DEF JoinInv
  <2> QED
    BY <1>3, <2>9
<1>6. CASE JoinPull(c, d)
  <2>1. UNCHANGED <<sock, room, told, answered, serverSeq>> /\ sock[c] # "unborn" /\ ~answered[c][d]
    BY <1>6 DEF JoinPull, netVars, hubVars, logVars, JoinInv
  <2>2. \A e \in Conns, x \in Docs :
            /\ saw'[e][x] = IF <<e, x>> = <<c, d>> THEN serverSeq[d] ELSE saw[e][x]
            /\ joining'[e][x] = IF <<e, x>> = <<c, d>> THEN "reply" ELSE joining[e][x]
    BY <1>6 DEF JoinPull, TypeOK
  <2>3. Caught(c, d, serverSeq[d])
    BY DEF Caught, TypeOK
  <2>9. \A e \in Conns, x \in Docs : Goal(e, x)
    BY <2>1, <2>2, <2>3 DEF JoinInv
  <2> QED
    BY <1>3, <2>9
<1>7. CASE JoinReply(c, d)
  <2>1. UNCHANGED <<sock, room, saw>> /\ joining[c][d] = "reply"
    BY <1>7 DEF JoinReply, netVars, hubVars
  <2>2. \A e \in Conns, x \in Docs :
            /\ told'[e][x] = IF <<e, x>> = <<c, d>> THEN saw[c][d] ELSE told[e][x]
            /\ <<e, x>> # <<c, d>> => answered'[e][x] = answered[e][x]
            /\ joining'[e][x] = IF <<e, x>> = <<c, d>> THEN "idle" ELSE joining[e][x]
    BY <1>7 DEF JoinReply, JoinEnds, TypeOK
  <2>9. \A e \in Conns, x \in Docs : Goal(e, x)
    BY <2>1, <2>2 DEF JoinInv
  <2> QED
    BY <1>3, <2>9
<1> QED
  BY <1>1, <1>4, <1>5, <1>6, <1>7 DEF JoinStep, Handle

\* Commits and broadcasts: a new slot is in the outbox, or unrelayed, until
\* every open member has received it.
LEMMA LogJoin ==
    ASSUME TypeOK, JoinInv,
           UNCHANGED <<room, sock, told, saw, joining, answered>>,
           \A d \in Docs : serverSeq'[d] \in Nat,
           \A c \in Conns, d \in Docs, n \in Nat :
               /\ n <= serverSeq'[d]
               /\ c \in room[d] /\ sock[c] = "open"
               /\ n <= serverSeq[d] => Covered(c, d, n)
               => Covered(c, d, n)'
    PROVE  JoinInv'
<1> SUFFICES ASSUME NEW c \in Conns, NEW d \in Docs
             PROVE  /\ c \in room[d] /\ sock[c] = "open" /\ answered[c][d]
                          => Caught(c, d, told[c][d])'
                    /\ c \in room[d] /\ sock[c] = "open" /\ joining[c][d] = "reply"
                          => Caught(c, d, saw[c][d])'
  BY DEF JoinInv
<1>1. ASSUME NEW from \in Nat, c \in room[d], sock[c] = "open", Caught(c, d, from)
      PROVE  \A n \in from + 1 .. serverSeq'[d] : Covered(c, d, n)'
  <2> SUFFICES ASSUME NEW n \in from + 1 .. serverSeq'[d]
               PROVE  Covered(c, d, n)'
    OBVIOUS
  <2>1. n \in Nat /\ n <= serverSeq'[d] /\ n >= from + 1 /\ serverSeq[d] \in Nat
    BY DEF TypeOK
  <2>2. n <= serverSeq[d] => Covered(c, d, n)
    BY <1>1, <2>1 DEF Caught
  <2> QED
    BY <1>1, <2>1, <2>2
<1>2. told[c][d] \in Nat /\ saw[c][d] \in Nat
  BY DEF TypeOK
<1> QED
  BY <1>1, <1>2 DEF JoinInv, Caught

LEMMA CommittedJoin ==
    ASSUME TypeOK, JoinInv, NEW d \in Docs, NEW author, Committed(d, author),
           UNCHANGED <<room, sock, told, saw, joining, answered, got>>
    PROVE  JoinInv'
<1>1. \A x \in Docs : serverSeq'[x] = IF x = d THEN serverSeq[d] + 1 ELSE serverSeq[x]
  BY DEF Committed, TypeOK
<1>2. \A x \in Docs : InOutbox(x) \subseteq InOutbox(x)'
  <2>1. \A n : outbox \subseteq Queued(d, n, author)
    BY DEF Queued
  <2>2. outbox \subseteq outbox'
    BY <2>1 DEF Committed, Fresh, Misplaced
  <2> QED
    BY <2>2 DEF InOutbox
<1>3. serverSeq[d] + 1 \in InOutbox(d)' \cup unrelayed'[d]
  <2>1. CASE Fresh(d, author)
    <3> DEFINE new == [doc |-> d, seq |-> serverSeq[d] + 1, author |-> author]
    <3>1. new \in outbox' /\ new.doc = d /\ new.seq = serverSeq[d] + 1
      BY <2>1 DEF Fresh, Queued
    <3> QED
      BY <3>1 DEF InOutbox
  <2>2. CASE Misplaced(d, author)
    BY <2>2 DEF Misplaced, TypeOK
  <2> QED
    BY <2>1, <2>2 DEF Committed
<1>4. \A x \in Docs : unrelayed[x] \subseteq unrelayed'[x]
  <2>1. CASE Fresh(d, author)
    BY <2>1 DEF Fresh
  <2>2. CASE Misplaced(d, author)
    BY <2>2 DEF Misplaced, TypeOK
  <2> QED
    BY <2>1, <2>2 DEF Committed
<1>5. ASSUME NEW c \in Conns, NEW x \in Docs, NEW n \in Nat,
             n <= serverSeq'[x], n <= serverSeq[x] => Covered(c, x, n)
      PROVE  Covered(c, x, n)'
  <2>1. serverSeq[x] \in Nat
    BY DEF TypeOK
  <2>2. CASE n <= serverSeq[x]
    BY <1>2, <1>4, <1>5, <2>2 DEF Covered
  <2>3. CASE ~(n <= serverSeq[x])
    <3>1. x = d /\ n = serverSeq[d] + 1
      BY <1>1, <1>5, <2>1, <2>3
    <3> QED
      BY <1>3, <3>1 DEF Covered
  <2> QED
    BY <2>2, <2>3
<1>6. \A x \in Docs : serverSeq'[x] \in Nat
  <2>1. \A x \in Docs : serverSeq[x] \in Nat
    BY DEF TypeOK
  <2> QED
    BY <1>1, <2>1
<1> QED
  BY <1>5, <1>6, LogJoin

LEMMA PipelineJoin ==
    ASSUME TypeOK, JoinInv, NEW d \in Docs,
           CommitStep(d) \/ \E u \in Users : RemoveMember(u, d)
    PROVE  JoinInv'
<1>1. CASE \E c \in Conns : CommitPush(c, d)
  BY <1>1, CommittedJoin DEF CommitPush, netVars, hubVars
<1>2. CASE CommitHttp(d)
  BY <1>2, CommittedJoin DEF CommitHttp, netVars, hubVars
<1>3. CASE \/ \E c \in Conns : PushFails(c, d)
           \/ \E u \in Users : RemoveMember(u, d)
  <2>1. UNCHANGED <<serverSeq, outbox, unrelayed, got, told, saw, joining, sock, room, answered>>
    BY <1>3 DEF PushFails, RemoveMember, netVars, hubVars, logVars
  <2> QED
    BY <2>1, JoinKept
<1>4. CASE CommitSilently(d)
  <2>1. /\ \A x \in Docs : serverSeq'[x] = IF x = d THEN serverSeq[d] + 1 ELSE serverSeq[x]
        /\ \A x \in Docs : unrelayed[x] \subseteq unrelayed'[x]
        /\ serverSeq[d] + 1 \in unrelayed'[d]
    BY <1>4 DEF CommitSilently, TypeOK
  <2>2. UNCHANGED <<outbox, got, told, saw, joining, sock, room, answered>>
    BY <1>4 DEF CommitSilently, netVars, hubVars
  <2>3. ASSUME NEW c \in Conns, NEW x \in Docs, NEW n \in Nat,
               n <= serverSeq'[x], n <= serverSeq[x] => Covered(c, x, n)
        PROVE  Covered(c, x, n)'
    <3>1. serverSeq[x] \in Nat
      BY DEF TypeOK
    <3>2. CASE n <= serverSeq[x]
      BY <2>1, <2>2, <2>3, <3>2 DEF Covered, InOutbox
    <3>3. CASE ~(n <= serverSeq[x])
      <4>1. x = d /\ n = serverSeq[d] + 1
        BY <2>1, <2>3, <3>1, <3>3
      <4> QED
        BY <2>1, <4>1 DEF Covered
    <3> QED
      BY <3>2, <3>3
  <2>4. \A x \in Docs : serverSeq'[x] \in Nat
    <3>1. \A x \in Docs : serverSeq[x] \in Nat
      BY DEF TypeOK
    <3> QED
      BY <2>1, <3>1
  <2> QED
    BY <2>2, <2>3, <2>4, LogJoin
<1> QED
  BY <1>1, <1>2, <1>3, <1>4 DEF CommitStep

LEMMA BroadcastJoin ==
    ASSUME TypeOK, JoinInv, NEW m \in outbox, Broadcast(m) PROVE JoinInv'
<1>1. UNCHANGED <<serverSeq, unrelayed, told, saw, joining, sock, room, answered>>
  BY DEF Broadcast, netVars, hubVars
<1>2. ASSUME NEW c \in Conns, NEW d \in Docs, c \in room[d], sock[c] = "open",
             NEW n, Covered(c, d, n)
      PROVE  Covered(c, d, n)'
  <2>1. got[c][d] \subseteq got'[c][d]
    BY DEF Broadcast, TypeOK
  <2>2. CASE n \in InOutbox(d)
    <3>1. PICK x \in outbox : x.doc = d /\ x.seq = n
      BY <2>2 DEF InOutbox
    <3>2. CASE x = m
      <4>1. c \in Receivers(m)
        BY <1>2, <3>1, <3>2 DEF Receivers
      <4>2. n \in got'[c][d]
        BY <3>1, <3>2, <4>1 DEF Broadcast, TypeOK
      <4> QED
        BY <4>2 DEF Covered
    <3>3. CASE x # m
      <4>1. x \in outbox'
        BY <3>3 DEF Broadcast
      <4> QED
        BY <3>1, <4>1 DEF Covered, InOutbox
    <3> QED
      BY <3>2, <3>3
  <2>3. CASE n \notin InOutbox(d)
    BY <1>1, <1>2, <2>1, <2>3 DEF Covered
  <2> QED
    BY <2>2, <2>3
<1>3. \A d \in Docs : serverSeq'[d] \in Nat
  BY <1>1 DEF TypeOK
<1> QED
  BY <1>1, <1>2, <1>3, LogJoin

LEMMA JoinInductive == ASSUME TypeOK, JoinInv, Next PROVE JoinInv'
<1>1. ASSUME NEW c \in Conns, SocketStep(c) PROVE JoinInv'
  BY <1>1, SocketJoin
<1>2. ASSUME Sweep PROVE JoinInv'
  <2>1. CASE Conns = {}
    BY <2>1 DEF JoinInv
  <2>2. CASE Conns # {}
    BY <1>2, <2>2, SocketJoin
  <2> QED
    BY <2>1, <2>2
<1>3. ASSUME NEW c \in Conns, NEW d \in Docs, JoinStep(c, d) \/ FrameStep(c, d) PROVE JoinInv'
  BY <1>3, JoinJoin, FrameJoin
<1>4. ASSUME NEW d \in Docs, CommitStep(d) \/ \E u \in Users : RemoveMember(u, d) PROVE JoinInv'
  BY <1>4, PipelineJoin
<1>5. ASSUME NEW m \in outbox, Broadcast(m) PROVE JoinInv'
  BY <1>5, BroadcastJoin
<1> QED
  BY <1>1, <1>2, <1>3, <1>4, <1>5 DEF Next

------------------------------------------------------------------------------
(***************************************************************************)
(* The heartbeat: a frame under way means the ping is unanswered, and a    *)
(* vanished peer leaves none behind once it has been swept past            *)
(***************************************************************************)
PulseInv ==
    \A c \in Conns :
        /\ wire[c] # "none" => ~alive[c]
        /\ missed[c] > 0 => ~peerUp[c]
        /\ c \in connections => missed[c] = 0 \/ (missed[c] = 1 /\ ~alive[c] /\ wire[c] = "none")
        /\ sock[c] = "unborn" => missed[c] = 0 /\ c \notin connections

LEMMA PulseKept ==
    ASSUME PulseInv, UNCHANGED <<peerUp, wire, missed, alive>>, connections' \subseteq connections,
           \A c \in Conns : sock'[c] = "unborn" => sock[c] = "unborn"
    PROVE  PulseInv'
BY DEF PulseInv

LEMMA SocketPulse ==
    ASSUME TypeOK, PulseInv, NEW c \in Conns, SocketStep(c) PROVE PulseInv'
<1>1. CASE Connect(c)
  BY <1>1 DEF Connect, PulseInv, TypeOK
<1>2. CASE CloseEvent(c) \/ ErrorEvent(c)
  <2>1. /\ UNCHANGED <<peerUp, wire, missed, alive>>
        /\ connections' \subseteq connections
        /\ \A e \in Conns : sock'[e] = "unborn" => sock[e] = "unborn"
    BY <1>2 DEF CloseEvent, ErrorEvent, Remove, TypeOK
  <2> QED
    BY <2>1, PulseKept
<1>3. CASE PeerVanishes(c)
  BY <1>3 DEF PeerVanishes, PulseInv, TypeOK, hubVars
<1>4. CASE PeerAnswers(c)
  BY <1>4 DEF PeerAnswers, PulseInv, TypeOK, hubVars
<1>5. CASE Pong(c)
  BY <1>5 DEF Pong, PulseInv, TypeOK, hubVars
<1>6. CASE Flood(c)
  BY <1>6, PulseKept DEF Flood, TypeOK, hubVars
<1> QED
  BY <1>1, <1>2, <1>3, <1>4, <1>5, <1>6 DEF SocketStep

LEMMA SweepPulse == ASSUME TypeOK, PulseInv, Sweep PROVE PulseInv'
<1> SUFFICES ASSUME NEW c \in Conns
             PROVE  /\ wire'[c] # "none" => ~alive'[c]
                    /\ missed'[c] > 0 => ~peerUp'[c]
                    /\ c \in connections' =>
                          missed'[c] = 0 \/ (missed'[c] = 1 /\ ~alive'[c] /\ wire'[c] = "none")
                    /\ sock'[c] = "unborn" => missed'[c] = 0 /\ c \notin connections'
  BY DEF PulseInv
<1> DEFINE pinged == (connections \ Unresponsive) \cap Frail
<1>1. /\ sock'[c] = IF c \in Unresponsive /\ sock[c] # "closed" THEN "terminated" ELSE sock[c]
      /\ alive'[c] => alive[c] /\ c \notin pinged
      /\ wire'[c] = IF c \in pinged /\ sock[c] = "open" /\ peerUp[c] THEN "ping" ELSE wire[c]
      /\ missed'[c] = IF c \in pinged /\ ~peerUp[c] THEN missed[c] + 1 ELSE missed[c]
      /\ connections' = connections \ Unresponsive
      /\ peerUp' = peerUp
  BY DEF Sweep, Remove
<1>2. c \in connections /\ c \notin Unresponsive => alive[c]
  BY DEF Unresponsive
<1>3. missed[c] \in Nat /\ alive[c] \in BOOLEAN /\ peerUp[c] \in BOOLEAN
  BY DEF TypeOK
<1>4. /\ wire[c] # "none" => ~alive[c]
      /\ missed[c] > 0 => ~peerUp[c]
      /\ c \in connections => missed[c] = 0 \/ (missed[c] = 1 /\ ~alive[c] /\ wire[c] = "none")
      /\ sock[c] = "unborn" => missed[c] = 0 /\ c \notin connections
  BY DEF PulseInv
<1>5. CASE c \in pinged
  <2>1. alive[c] /\ missed[c] = 0 /\ wire[c] = "none" /\ sock[c] # "unborn" /\ ~alive'[c]
    BY <1>1, <1>2, <1>4, <1>5
  <2>2. CASE peerUp[c]
    BY <1>1, <1>4, <2>1, <2>2
  <2>3. CASE ~peerUp[c]
    BY <1>1, <1>5, <2>1, <2>3
  <2> QED
    BY <2>2, <2>3
<1>6. CASE c \notin pinged
  BY <1>1, <1>3, <1>4, <1>6
<1> QED
  BY <1>5, <1>6

LEMMA PulseInductive == ASSUME TypeOK, PulseInv, Next PROVE PulseInv'
<1>1. ASSUME NEW c \in Conns, SocketStep(c) PROVE PulseInv'
  BY <1>1, SocketPulse
<1>2. ASSUME NEW c \in Conns, NEW d \in Docs, JoinStep(c, d) \/ FrameStep(c, d) PROVE PulseInv'
  <2>1. UNCHANGED <<sock, peerUp, wire, missed, alive, connections>>
    BY <1>2 DEF JoinStep, Handle, Join, Authorized, JoinRefused, JoinPull, JoinReply, JoinFails,
                FrameStep, Leave, Ops, Presence, netVars, hubVars
  <2> QED
    BY <2>1, PulseKept
<1>3. ASSUME NEW d \in Docs, CommitStep(d) \/ \E u \in Users : RemoveMember(u, d) PROVE PulseInv'
  <2>1. UNCHANGED <<sock, peerUp, wire, missed, alive, connections>>
    BY <1>3 DEF CommitStep, CommitPush, PushFails, CommitHttp, CommitSilently, RemoveMember,
                netVars, hubVars
  <2> QED
    BY <2>1, PulseKept
<1>4. ASSUME NEW m \in outbox, Broadcast(m) PROVE PulseInv'
  BY <1>4, PulseKept DEF Broadcast, netVars, hubVars
<1> QED
  BY <1>1, <1>2, <1>3, <1>4, SweepPulse DEF Next

------------------------------------------------------------------------------
(***************************************************************************)
(* The theorems                                                            *)
(***************************************************************************)
LEMMA OutboxInductive == ASSUME TypeOK, OutboxInLog, Next PROVE OutboxInLog'
<1>1. \A d \in Docs : serverSeq[d] \in Nat
  BY DEF TypeOK
<1>2. \A m \in outbox : m.doc \in Docs /\ m.seq \in Nat
  BY DEF TypeOK
<1>3. ASSUME UNCHANGED serverSeq, outbox' \subseteq outbox PROVE OutboxInLog'
  BY <1>3 DEF OutboxInLog
<1>4. ASSUME NEW c \in Conns, SocketStep(c) \/ Sweep PROVE OutboxInLog'
  BY <1>3, <1>4 DEF SocketStep, Connect, CloseEvent, ErrorEvent, PeerVanishes, PeerAnswers, Pong,
                    Flood, Sweep, logVars
<1>5. ASSUME NEW c \in Conns, NEW d \in Docs, JoinStep(c, d) \/ FrameStep(c, d)
      PROVE  OutboxInLog'
  BY <1>3, <1>5 DEF JoinStep, Handle, Join, Authorized, JoinRefused, JoinPull, JoinReply,
                    JoinFails, FrameStep, Leave, Ops, Presence, logVars
<1>6. ASSUME NEW d \in Docs, NEW author, Committed(d, author) PROVE OutboxInLog'
  <2>1. \A x \in Docs : serverSeq'[x] = IF x = d THEN serverSeq[d] + 1 ELSE serverSeq[x]
    BY <1>6 DEF Committed, TypeOK
  <2>2. \A m \in outbox' : m \in outbox \/ (m.doc = d /\ m.seq \in 1 .. serverSeq[d] + 1)
    BY <1>1, <1>6 DEF Committed, Fresh, Misplaced, Queued
  <2> QED
    BY <1>1, <1>2, <2>1, <2>2 DEF OutboxInLog
<1>7. ASSUME NEW d \in Docs, CommitSilently(d) PROVE OutboxInLog'
  <2>1. \A x \in Docs : serverSeq'[x] = IF x = d THEN serverSeq[d] + 1 ELSE serverSeq[x]
    BY <1>7 DEF CommitSilently, TypeOK
  <2> QED
    BY <1>1, <1>2, <1>7, <2>1 DEF CommitSilently, OutboxInLog
<1>8. ASSUME NEW d \in Docs, CommitStep(d) \/ \E u \in Users : RemoveMember(u, d)
      PROVE  OutboxInLog'
  BY <1>3, <1>6, <1>7, <1>8 DEF CommitStep, CommitPush, PushFails, CommitHttp, RemoveMember, logVars
<1>9. ASSUME NEW m \in outbox, Broadcast(m) PROVE OutboxInLog'
  BY <1>3, <1>9 DEF Broadcast
<1>10. ASSUME Sweep PROVE OutboxInLog'
  BY <1>3, <1>10 DEF Sweep, logVars
<1> QED
  BY <1>4, <1>5, <1>8, <1>9, <1>10 DEF Next

IInv == TypeOK /\ OutboxInLog /\ RoomsConsistent /\ JoinInv /\ PulseInv

LEMMA TypeInductive == ASSUME TypeOK, OutboxInLog, Next PROVE TypeOK'
<1>1. ASSUME NEW d \in Docs, CommitStep(d) \/ \E u \in Users : RemoveMember(u, d) PROVE TypeOK'
  BY <1>1, PipelineTyped
<1> QED
  BY <1>1, NetTyped, SweepTyped, JoinTyped, FrameTyped, BroadcastTyped DEF Next

LEMMA InitInv == Init => IInv
<1> SUFFICES ASSUME Init PROVE IInv
  OBVIOUS
<1>1. OutboxInLog /\ RoomsConsistent /\ PulseInv
  BY DEF Init, OutboxInLog, RoomsConsistent, PulseInv, ForEach
<1>2. JoinInv
  BY DEF Init, JoinInv, ForEach
<1> QED
  BY <1>1, <1>2, InitTyped DEF IInv

\* The strengthened invariant holds in every reachable state.
THEOREM Inductive == Spec => []IInv
<1>1. IInv /\ [Next]_vars => IInv'
  <2> SUFFICES ASSUME IInv, [Next]_vars PROVE IInv'
    OBVIOUS
  <2>1. CASE Next
    BY <2>1, TypeInductive, OutboxInductive, RoomsInductive, JoinInductive, PulseInductive DEF IInv
  <2>2. CASE UNCHANGED vars
    BY <2>2 DEF IInv, TypeOK, OutboxInLog, RoomsConsistent, JoinInv, Caught, Covered, InOutbox,
                PulseInv, vars, netVars, hubVars, logVars
  <2> QED
    BY <2>1, <2>2
<1> QED
  BY InitInv, <1>1, PTL DEF Spec

\* Every variable keeps its type, and nobody is sent a slot the log lacks.
THEOREM TypeCorrect == Spec => []TypeOK
BY Inductive, PTL DEF IInv

\* The hub's rooms and the connections' own lists never disagree.
THEOREM RoomsAgree == Spec => []RoomsConsistent
BY Inductive, PTL DEF IInv

\* Subscribe, then catch up: a member whose join was answered misses no later
\* operation this process relays.
THEOREM NoGap == Spec => []NoGapAfterJoin
<1>1. IInv => NoGapAfterJoin
  BY DEF IInv, JoinInv, NoGapAfterJoin, Caught
<1> QED
  BY <1>1, Inductive, PTL

\* A peer that vanishes is off the hub's list by the second sweep after it.
THEOREM DeadAreSwept == Spec => []GoneByNextSweep
<1>1. IInv => GoneByNextSweep
  <2> SUFFICES ASSUME IInv, NEW c \in connections
               PROVE  missed[c] <= 1
    BY DEF GoneByNextSweep
  <2>1. c \in Conns
    BY DEF IInv, TypeOK
  <2>2. missed[c] = 0 \/ missed[c] = 1
    BY <2>1 DEF IInv, PulseInv
  <2> QED
    BY <2>2
<1> QED
  BY <1>1, Inductive, PTL

------------------------------------------------------------------------------
(***************************************************************************)
(* Presence: whatever changes who is in a room, or where, either is        *)
(* followed by a frame in the same step or leaves a join unanswered.       *)
(***************************************************************************)
ShownIn(d) ==
    \A c \in room[d] :
        sock[c] = "open" /\ (\A e \in room[d] : answered[e][d]) => shown[c][d] = Peers(d)

LEMMA FrameSent ==
    ASSUME NEW D, BroadcastPresence(D), NEW d \in Docs, d \in D, room'[d] \subseteq Conns
    PROVE  ShownIn(d)'
BY DEF BroadcastPresence, ShownIn

LEMMA NoFrameDue ==
    ASSUME NEW d \in Docs, ShownIn(d), room'[d] = room[d],
           \A c \in room[d] :
               /\ sock'[c] = "open" => sock[c] = "open"
               /\ answered'[c][d] => answered[c][d]
               /\ caret'[c][d] = caret[c][d]
               /\ shown'[c][d] = shown[c][d]
    PROVE  ShownIn(d)'
<1>1. Peers(d)' = Peers(d)
  BY DEF Peers
<1> QED
  BY <1>1 DEF ShownIn

\* A broadcast to some rooms is none to the others.
LEMMA OtherRooms ==
    ASSUME NEW D, BroadcastPresence(D), NEW d \in Docs, d \notin D
    PROVE  \A c \in Conns : shown'[c][d] = shown[c][d]
BY DEF BroadcastPresence

LEMMA RemoveShown ==
    ASSUME IInv, NEW S \in SUBSET Conns, Remove(S), UNCHANGED answered,
           \A c \in Conns : sock'[c] = "open" => sock[c] = "open",
           NEW d \in Docs, ShownIn(d)
    PROVE  ShownIn(d)'
<1> DEFINE D == UNION {rooms[c] : c \in S}
<1>1. BroadcastPresence(D)
  BY DEF Remove
<1>2. room[d] \subseteq Conns /\ room'[d] = room[d] \ {c \in S : d \in rooms[c]}
  BY DEF Remove, IInv, TypeOK
<1> HIDE DEF D
<1>3. CASE d \in D
  BY <1>1, <1>2, <1>3, FrameSent
<1>4. CASE d \notin D
  <2>1. \A c \in S : d \notin rooms[c]
    BY <1>4 DEF D
  <2>2. room'[d] = room[d] /\ \A c \in Conns : caret'[c][d] = caret[c][d]
    BY <1>2, <2>1 DEF Remove, Forgets
  <2>3. \A c \in Conns : shown'[c][d] = shown[c][d]
    BY <1>1, <1>4, OtherRooms
  <2> QED
    BY <1>2, <2>2, <2>3, NoFrameDue
<1> QED
  BY <1>3, <1>4

LEMMA SocketShown ==
    ASSUME IInv, NEW d \in Docs, ShownIn(d), Sweep \/ \E c \in Conns : SocketStep(c)
    PROVE  ShownIn(d)'
<1>1. room[d] \subseteq Conns
  BY DEF IInv, TypeOK
<1>2. ASSUME NEW c \in Conns, Connect(c) PROVE ShownIn(d)'
  <2>1. c \notin room[d]
    BY <1>2 DEF Connect, IInv, JoinInv
  <2>2. \A e \in room[d] : sock'[e] = sock[e]
    BY <1>1, <1>2, <2>1 DEF Connect, IInv, TypeOK
  <2> QED
    BY <1>2, <2>2, NoFrameDue DEF Connect
<1>3. ASSUME NEW c \in Conns, CloseEvent(c) \/ ErrorEvent(c) PROVE ShownIn(d)'
  <2>1. /\ Remove({c}) /\ UNCHANGED answered /\ {c} \in SUBSET Conns
        /\ \A e \in Conns : sock'[e] = "open" => sock[e] = "open"
    BY <1>3 DEF CloseEvent, ErrorEvent, IInv, TypeOK
  <2> QED
    BY <2>1, RemoveShown
<1>4. CASE Sweep
  <2>1. /\ Remove(Unresponsive) /\ UNCHANGED answered /\ Unresponsive \in SUBSET Conns
        /\ \A e \in Conns : sock'[e] = "open" => sock[e] = "open"
    BY <1>4 DEF Sweep, Unresponsive, IInv, TypeOK
  <2> QED
    BY <2>1, RemoveShown
<1>5. ASSUME NEW c \in Conns, PeerVanishes(c) \/ PeerAnswers(c) \/ Pong(c) \/ Flood(c)
      PROVE  ShownIn(d)'
  <2>1. /\ UNCHANGED <<room, caret, answered, shown>>
        /\ \A e \in Conns : sock'[e] = "open" => sock[e] = "open"
    BY <1>5 DEF PeerVanishes, PeerAnswers, Pong, Flood, hubVars, IInv, TypeOK
  <2> QED
    BY <1>1, <2>1, NoFrameDue
<1> QED
  BY <1>2, <1>3, <1>4, <1>5 DEF SocketStep

LEMMA HandlerShown ==
    ASSUME IInv, TypeOK', NEW d \in Docs, ShownIn(d),
           NEW c \in Conns, NEW e \in Docs, JoinStep(c, e) \/ FrameStep(c, e)
    PROVE  ShownIn(d)'
<1>1. room[d] \subseteq Conns /\ room'[d] \subseteq Conns
  BY DEF IInv, TypeOK
<1>2. CASE Join(c, e)
  <2>1. UNCHANGED <<sock, room, caret, shown>>
    BY <1>2 DEF Join, netVars, hubVars
  <2>2. \A f \in Conns : answered'[f][d] => answered[f][d]
    BY <1>2 DEF Join, IInv, TypeOK
  <2> QED
    BY <1>1, <2>1, <2>2, NoFrameDue
<1>3. CASE Authorized(c, e)
  <2>1. UNCHANGED <<sock, caret, shown, answered>> /\ joining[c][e] = "authorize"
    BY <1>3 DEF Authorized, netVars
  <2>2. CASE d = e
    <3>1. c \in room'[d]
      BY <1>3, <2>2 DEF Authorized, IInv, TypeOK
    <3>2. ~answered'[c][d]
      BY <2>1, <2>2 DEF IInv, JoinInv
    <3> QED
      BY <3>1, <3>2 DEF ShownIn
  <2>3. CASE d # e
    <3>1. room'[d] = room[d]
      BY <1>3, <2>3 DEF Authorized, IInv, TypeOK
    <3> QED
      BY <2>1, <3>1, NoFrameDue
  <2> QED
    BY <2>2, <2>3
<1>4. CASE JoinRefused(c, e) \/ JoinFails(c, e) \/ JoinPull(c, e) \/ Ops(c, e)
  <2>1. UNCHANGED <<sock, room, caret, shown, answered>>
    BY <1>4 DEF JoinRefused, JoinFails, JoinPull, Ops, netVars, hubVars
  <2> QED
    BY <2>1, NoFrameDue
<1>5. ASSUME BroadcastPresence({e}), UNCHANGED sock,
             d # e => /\ room'[d] = room[d]
                      /\ \A f \in Conns : /\ caret'[f][d] = caret[f][d]
                                          /\ answered'[f][d] = answered[f][d]
      PROVE  ShownIn(d)'
  <2>1. CASE d = e
    BY <1>1, <1>5, <2>1, FrameSent
  <2>2. CASE d # e
    <3>1. \A f \in Conns : shown'[f][d] = shown[f][d]
      BY <1>5, <2>2, OtherRooms
    <3> QED
      BY <1>1, <1>5, <2>2, <3>1, NoFrameDue
  <2> QED
    BY <2>1, <2>2
<1>6. CASE JoinReply(c, e)
  BY <1>5, <1>6 DEF JoinReply, netVars, hubVars, IInv, TypeOK
<1>7. CASE Leave(c, e)
  <2>1. BroadcastPresence({e}) /\ UNCHANGED sock
    BY <1>7 DEF Leave, netVars
  <2>2. d # e => room'[d] = room[d]
    BY <1>7 DEF Leave, IInv, TypeOK
  <2>3. ASSUME d # e, NEW f \in Conns PROVE caret'[f][d] = caret[f][d]
    BY <1>7, <2>3 DEF Leave, IInv, TypeOK
  <2>4. ASSUME d # e, NEW f \in Conns PROVE answered'[f][d] = answered[f][d]
    BY <1>7, <2>4 DEF Leave, IInv, TypeOK
  <2> QED
    BY <1>5, <2>1, <2>2, <2>3, <2>4
<1>8. ASSUME NEW k \in Carets, Presence(c, e, k) PROVE ShownIn(d)'
  BY <1>5, <1>8 DEF Presence, netVars, IInv, TypeOK
<1> QED
  BY <1>2, <1>3, <1>4, <1>6, <1>7, <1>8 DEF JoinStep, Handle, FrameStep

LEMMA PresenceInductive ==
    ASSUME IInv, TypeOK', [Next]_vars, NEW d \in Docs, ShownIn(d)
    PROVE  ShownIn(d)'
<1>1. ASSUME UNCHANGED <<sock, room, caret, shown, answered>> PROVE ShownIn(d)'
  BY <1>1, NoFrameDue
<1>2. ASSUME NEW e \in Docs, CommitStep(e) \/ \E u \in Users : RemoveMember(u, e)
      PROVE  ShownIn(d)'
  BY <1>1, <1>2 DEF CommitStep, CommitPush, PushFails, CommitHttp, CommitSilently, RemoveMember,
                    netVars, hubVars
<1>3. ASSUME NEW m \in outbox, Broadcast(m) PROVE ShownIn(d)'
  BY <1>1, <1>3 DEF Broadcast, netVars, hubVars
<1>4. CASE UNCHANGED vars
  BY <1>1, <1>4 DEF vars, netVars, hubVars
<1> QED
  BY <1>2, <1>3, <1>4, SocketShown, HandlerShown DEF Next

\* "Presence is state, not an event": once every member's join has been
\* answered, each has been shown exactly who is in the room, and where
\* (hub.ts broadcastPresence and its callers).
THEOREM PresenceIsCurrent == Spec => []PresenceShown
<1> DEFINE Inv == \A d \in Docs : ShownIn(d)
<1>1. Init => Inv
  BY DEF Init, ShownIn
<1>2. IInv /\ IInv' /\ Inv /\ [Next]_vars => Inv'
  BY PresenceInductive DEF IInv
<1>3. Inv => PresenceShown
  BY DEF ShownIn, PresenceShown
<1> QED
  BY <1>1, <1>2, <1>3, Inductive, PTL DEF Spec

==============================================================================
