-------------------------------- MODULE Relay --------------------------------
(***************************************************************************)
(* The realtime relay of one process: sockets, the hub's rooms, joins that *)
(* subscribe between two awaits, presence, the heartbeat, and the          *)
(* broadcast of what the commit pipeline has committed.                    *)
(*                                                                         *)
(* A commit is one step here, followed later, and in no fixed order, by    *)
(* its broadcast.  A batch's new operations are committed one at a time,   *)
(* and its known ones are of the same document.  Membership is what        *)
(* authorize("read") looks up; a deleted document is one with no members.  *)
(***************************************************************************)
EXTENDS Naturals, FiniteSets

CONSTANTS
    Conns,      \* connections; a client that reconnects is another one
    Docs,       \* documents
    Users,
    UserOf,     \* the user a connection's token names
    Carets,     \* caret positions
    NoCaret,    \* no caret in the document
    Frail,      \* bound: the connections that may fail or be late to answer a ping
    Http,       \* the author of a batch pushed over HTTP
    MaxSeq      \* bound: commits per document

ASSUME RelayAssumption ==
    /\ UserOf \in [Conns -> Users]
    /\ NoCaret \notin Carets
    /\ Frail \subseteq Conns
    /\ Http \notin Conns
    /\ MaxSeq \in Nat

Sockets == {"unborn", "open", "closing", "terminated", "closed"}

VARIABLES
    \* the network
    sock,           \* a socket's readyState; "terminated": its close event is due
    peerUp,         \* the peer is there to answer
    wire,           \* the heartbeat frame in flight
    missed,         \* auxiliary: sweeps since the peer vanished
    \* the hub
    connections,    \* #connections
    room,           \* #rooms
    \* the connection objects
    rooms,          \* connection.rooms
    caret,          \* connection.presence
    alive,          \* connection.alive
    \* the handlers
    joining,        \* the await a join is at
    saw,            \* the documentSeq its pull has read
    pushing,        \* accepted ops frames whose push is running
    \* the documents
    member,         \* who may read what
    serverSeq,      \* the log's length
    outbox,         \* committed operations not broadcast yet
    unrelayed,      \* those this process never will: see Misplaced, CommitSilently
    \* what the clients have been sent
    answered,       \* the latest join of the document has been answered
    told,           \* the serverSeq in that answer
    got,            \* the slots received
    shown           \* the peers in the last presence frame

netVars == <<sock, peerUp, wire, missed>>
hubVars == <<connections, room, rooms, caret>>
logVars == <<serverSeq, outbox, unrelayed>>
vars == <<netVars, hubVars, alive, joining, saw, pushing, member, logVars,
          answered, told, got, shown>>

ForEach(v) == [c \in Conns |-> [d \in Docs |-> v]]

Init ==
    /\ sock = [c \in Conns |-> "unborn"]
    /\ peerUp = [c \in Conns |-> TRUE]
    /\ wire = [c \in Conns |-> "none"]
    /\ missed = [c \in Conns |-> 0]
    /\ connections = {}
    /\ room = [d \in Docs |-> {}]
    /\ rooms = [c \in Conns |-> {}]
    /\ caret = ForEach(NoCaret)
    /\ alive = [c \in Conns |-> TRUE]
    /\ joining = ForEach("idle")
    /\ saw = ForEach(0)
    /\ pushing = {}
    /\ member = Users \X Docs
    /\ serverSeq = [d \in Docs |-> 0]
    /\ outbox = {}
    /\ unrelayed = [d \in Docs |-> {}]
    /\ answered = ForEach(FALSE)
    /\ told = ForEach(0)
    /\ got = ForEach({})
    /\ shown = ForEach({})

------------------------------------------------------------------------------
(***************************************************************************)
(* The hub                                                                 *)
(***************************************************************************)
Peers(d) == {<<c, caret[c][d]>> : c \in room[d]}

\* broadcastPresence, in the state the step leads to.
BroadcastPresence(D) ==
    shown' = [c \in Conns |-> [d \in Docs |->
        IF d \in D /\ c \in room'[d] /\ sock'[c] = "open" THEN Peers(d)' ELSE shown[c][d]]]

\* Mutant: the caret outlives the room.
MutantForgets(S) == caret

\* connection.presence.delete, for the rooms the connections are in.
Forgets(S) ==
    [c \in Conns |-> [d \in Docs |->
        IF c \in S /\ d \in rooms[c] THEN NoCaret ELSE caret[c][d]]]

\* hub.remove, for each connection of S.
Remove(S) ==
    /\ connections' = connections \ S
    /\ room' = [d \in Docs |-> room[d] \ {c \in S : d \in rooms[c]}]
    /\ rooms' = [c \in Conns |-> IF c \in S THEN {} ELSE rooms[c]]
    /\ caret' = Forgets(S)
    /\ BroadcastPresence(UNION {rooms[c] : c \in S})

------------------------------------------------------------------------------
(***************************************************************************)
(* Sockets and the heartbeat                                               *)
(***************************************************************************)
\* The upgrade succeeded; registerConnection.
Connect(c) ==
    /\ sock[c] = "unborn"
    /\ sock' = [sock EXCEPT ![c] = "open"]
    /\ connections' = connections \cup {c}
    /\ UNCHANGED <<peerUp, wire, missed, room, rooms, caret, alive, joining, saw, pushing,
                   member, logVars, answered, told, got, shown>>

\* The peer closes, or a close that the server began completes.
CloseEvent(c) ==
    /\ \/ sock[c] = "open" /\ peerUp[c]
       \/ sock[c] \in {"closing", "terminated"}
    /\ sock' = [sock EXCEPT ![c] = "closed"]
    /\ Remove({c})
    /\ UNCHANGED <<peerUp, wire, missed, alive, joining, saw, pushing, member, logVars,
                   answered, told, got>>

\* The socket fails: removed at once, and its close event follows.
ErrorEvent(c) ==
    /\ c \in Frail
    /\ sock[c] \in {"open", "closing"}
    /\ sock' = [sock EXCEPT ![c] = "terminated"]
    /\ Remove({c})
    /\ UNCHANGED <<peerUp, wire, missed, alive, joining, saw, pushing, member, logVars,
                   answered, told, got>>

\* The lid closes: no frame, no event.
PeerVanishes(c) ==
    /\ c \in Frail
    /\ sock[c] \in {"open", "closing"}
    /\ peerUp[c]
    /\ peerUp' = [peerUp EXCEPT ![c] = FALSE]
    /\ UNCHANGED <<sock, wire, missed, hubVars, alive, joining, saw, pushing, member, logVars,
                   answered, told, got, shown>>

\* Mutant: two missed pings are forgiven.
MutantUnresponsive == {c \in connections : ~alive[c] /\ missed[c] # 1}

Unresponsive == {c \in connections : ~alive[c]}

\* The interval: terminate who has not answered the last ping, ping the rest.
\* A connection that is not frail answers at once.
Sweep ==
    LET gone == Unresponsive
        pinged == (connections \ gone) \cap Frail
    IN
    /\ sock' = [c \in Conns |->
           IF c \in gone /\ sock[c] # "closed" THEN "terminated" ELSE sock[c]]
    /\ Remove(gone)
    /\ alive' = [c \in Conns |-> alive[c] /\ c \notin pinged]
    /\ wire' = [c \in Conns |->
           IF c \in pinged /\ sock[c] = "open" /\ peerUp[c] THEN "ping" ELSE wire[c]]
    /\ missed' = [c \in Conns |-> IF c \in pinged /\ ~peerUp[c] THEN missed[c] + 1 ELSE missed[c]]
    /\ UNCHANGED <<peerUp, joining, saw, pushing, member, logVars, answered, told, got>>

PeerAnswers(c) ==
    /\ wire[c] = "ping"
    /\ peerUp[c]
    /\ wire' = [wire EXCEPT ![c] = "pong"]
    /\ UNCHANGED <<sock, peerUp, missed, hubVars, alive, joining, saw, pushing, member,
                   logVars, answered, told, got, shown>>

\* A pong sent before the peer vanished still arrives, while the socket is read.
Pong(c) ==
    /\ wire[c] = "pong"
    /\ sock[c] \in {"open", "closing"}
    /\ wire' = [wire EXCEPT ![c] = "none"]
    /\ alive' = [alive EXCEPT ![c] = TRUE]
    /\ UNCHANGED <<sock, peerUp, missed, hubVars, joining, saw, pushing, member, logVars,
                   answered, told, got, shown>>

------------------------------------------------------------------------------
(***************************************************************************)
(* Frames: handled on a closing socket as on an open one                   *)
(***************************************************************************)
Receives(c) == sock[c] \in {"open", "closing"} /\ peerUp[c]

\* Over the message budget: an error frame and close(1008).
Flood(c) ==
    /\ sock[c] = "open"
    /\ peerUp[c]
    /\ sock' = [sock EXCEPT ![c] = "closing"]
    /\ UNCHANGED <<peerUp, wire, missed, hubVars, alive, joining, saw, pushing, member, logVars,
                   answered, told, got, shown>>

\* Bound: one join of a document in flight per connection.
Join(c, d) ==
    /\ Receives(c)
    /\ joining[c][d] = "idle"
    /\ joining' = [joining EXCEPT ![c][d] = "authorize"]
    /\ answered' = [answered EXCEPT ![c][d] = FALSE]
    /\ UNCHANGED <<netVars, hubVars, alive, saw, pushing, member, logVars, told, got, shown>>

MayRead(c, d) == <<UserOf[c], d>> \in member

JoinEnds(c, d) == joining' = [joining EXCEPT ![c][d] = "idle"]

\* authorize returns, and the handler subscribes the connection.
Authorized(c, d) ==
    /\ joining[c][d] = "authorize"
    /\ MayRead(c, d)
    /\ rooms' = [rooms EXCEPT ![c] = @ \cup {d}]
    /\ room' = [room EXCEPT ![d] = @ \cup {c}]
    /\ joining' = [joining EXCEPT ![c][d] = "pull"]
    /\ UNCHANGED <<netVars, connections, caret, alive, saw, pushing, member, logVars,
                   answered, told, got, shown>>

\* authorize throws, at the start of the join or again within its pull; the
\* second time the connection is in the room already, and stays.
JoinRefused(c, d) ==
    /\ joining[c][d] \in {"authorize", "pull"}
    /\ ~MayRead(c, d)
    /\ JoinEnds(c, d)
    /\ UNCHANGED <<netVars, hubVars, alive, saw, pushing, member, logVars,
                   answered, told, got, shown>>

\* Any await of a join can throw.
JoinFails(c, d) ==
    /\ joining[c][d] \in {"authorize", "pull", "reply"}
    /\ JoinEnds(c, d)
    /\ UNCHANGED <<netVars, hubVars, alive, saw, pushing, member, logVars,
                   answered, told, got, shown>>

\* The pull reads the document's counter.
JoinPull(c, d) ==
    /\ joining[c][d] = "pull"
    /\ MayRead(c, d)
    /\ saw' = [saw EXCEPT ![c][d] = serverSeq[d]]
    /\ joining' = [joining EXCEPT ![c][d] = "reply"]
    /\ UNCHANGED <<netVars, hubVars, alive, pushing, member, logVars,
                   answered, told, got, shown>>

\* The joined frame, lost unless the socket is open, and a presence frame.
JoinReply(c, d) ==
    /\ joining[c][d] = "reply"
    /\ JoinEnds(c, d)
    /\ answered' = [answered EXCEPT ![c][d] = sock[c] = "open"]
    /\ told' = [told EXCEPT ![c][d] = saw[c][d]]
    /\ UNCHANGED <<netVars, hubVars, alive, saw, pushing, member, logVars, got>>
    /\ BroadcastPresence({d})

\* Mutant: the others are not told.
MutantLeave(c, d) ==
    /\ Receives(c)
    /\ rooms' = [rooms EXCEPT ![c] = @ \ {d}]
    /\ room' = [room EXCEPT ![d] = @ \ {c}]
    /\ caret' = [caret EXCEPT ![c][d] = NoCaret]
    /\ answered' = [answered EXCEPT ![c][d] = FALSE]
    /\ UNCHANGED <<netVars, connections, alive, joining, saw, pushing, member, logVars,
                   told, got, shown>>

\* hub.leave, whether or not the connection is in the room.
Leave(c, d) ==
    /\ Receives(c)
    /\ rooms' = [rooms EXCEPT ![c] = @ \ {d}]
    /\ room' = [room EXCEPT ![d] = @ \ {c}]
    /\ caret' = [caret EXCEPT ![c][d] = NoCaret]
    /\ answered' = [answered EXCEPT ![c][d] = FALSE]
    /\ UNCHANGED <<netVars, connections, alive, joining, saw, pushing, member, logVars,
                   told, got>>
    /\ BroadcastPresence({d})

Presence(c, d, position) ==
    /\ Receives(c)
    /\ d \in rooms[c]
    /\ caret' = [caret EXCEPT ![c][d] = position]
    /\ UNCHANGED <<netVars, connections, room, rooms, alive, joining, saw, pushing, member,
                   logVars, answered, told, got>>
    /\ BroadcastPresence({d})

\* Refused outside the room; bound: one push in flight per connection and document.
Ops(c, d) ==
    /\ Receives(c)
    /\ d \in rooms[c]
    /\ pushing' = pushing \cup {<<c, d>>}
    /\ UNCHANGED <<netVars, hubVars, alive, joining, saw, member, logVars,
                   answered, told, got, shown>>

------------------------------------------------------------------------------
(***************************************************************************)
(* The pipeline: a commit, and later its broadcast                         *)
(***************************************************************************)
Queued(d, n, author) == outbox \cup {[doc |-> d, seq |-> n, author |-> author]}

\* Mutant: broadcast under the slot after its own.
MutantFresh(d, author) ==
    /\ outbox' = Queued(d, serverSeq[d] + 2, author)
    /\ UNCHANGED unrelayed

\* acknowledged.slice(duplicateCount) is the new operation, ...
Fresh(d, author) ==
    /\ outbox' = Queued(d, serverSeq[d] + 1, author)
    /\ UNCHANGED unrelayed

\* ... unless the batch has a known one after it: that one is broadcast again,
\* and the new one never is.
Misplaced(d, author) ==
    /\ \E known \in 1 .. serverSeq[d] : outbox' = Queued(d, known, author)
    /\ unrelayed' = [unrelayed EXCEPT ![d] = @ \cup {serverSeq[d] + 1}]

Committed(d, author) ==
    /\ serverSeq[d] < MaxSeq
    /\ serverSeq' = [serverSeq EXCEPT ![d] = @ + 1]
    /\ Fresh(d, author) \/ Misplaced(d, author)

CommitPush(c, d) ==
    /\ <<c, d>> \in pushing
    /\ pushing' = pushing \ {<<c, d>>}
    /\ Committed(d, c)
    /\ UNCHANGED <<netVars, hubVars, alive, joining, saw, member, answered, told, got, shown>>

\* The pipeline refuses the push or fails, or knew every operation already.
PushFails(c, d) ==
    /\ <<c, d>> \in pushing
    /\ pushing' = pushing \ {<<c, d>>}
    /\ UNCHANGED <<netVars, hubVars, alive, joining, saw, member, logVars,
                   answered, told, got, shown>>

CommitHttp(d) ==
    /\ Committed(d, Http)
    /\ UNCHANGED <<netVars, hubVars, alive, joining, saw, pushing, member,
                   answered, told, got, shown>>

\* Committed by another process, or without this one learning of it.
CommitSilently(d) ==
    /\ serverSeq[d] < MaxSeq
    /\ serverSeq' = [serverSeq EXCEPT ![d] = @ + 1]
    /\ unrelayed' = [unrelayed EXCEPT ![d] = @ \cup {serverSeq[d] + 1}]
    /\ UNCHANGED <<netVars, hubVars, alive, joining, saw, pushing, member, outbox,
                   answered, told, got, shown>>

\* Mutant: a connection still waiting for its join to be answered is skipped.
MutantReceivers(m) == {c \in room[m.doc] : sock[c] = "open" /\ answered[c][m.doc]}

Receivers(m) == {c \in room[m.doc] : sock[c] = "open"}

\* The injected broadcaster, which passes no connection to leave out.
Broadcast(m) ==
    /\ m \in outbox
    /\ outbox' = outbox \ {m}
    /\ got' = [c \in Conns |-> [d \in Docs |->
           IF d = m.doc /\ c \in Receivers(m) THEN got[c][d] \cup {m.seq} ELSE got[c][d]]]
    /\ UNCHANGED <<netVars, hubVars, alive, joining, saw, pushing, member, serverSeq, unrelayed,
                   answered, told, shown>>

\* A collaborator is removed, or a member of a deleted document loses it.
RemoveMember(u, d) ==
    /\ <<u, d>> \in member
    /\ member' = member \ {<<u, d>>}
    /\ UNCHANGED <<netVars, hubVars, alive, joining, saw, pushing, logVars,
                   answered, told, got, shown>>

------------------------------------------------------------------------------
SocketStep(c) ==
    \/ Connect(c) \/ CloseEvent(c) \/ ErrorEvent(c) \/ PeerVanishes(c)
    \/ PeerAnswers(c) \/ Pong(c) \/ Flood(c)

Handle(c, d) == Authorized(c, d) \/ JoinRefused(c, d) \/ JoinPull(c, d) \/ JoinReply(c, d)

JoinStep(c, d) == Join(c, d) \/ Handle(c, d) \/ JoinFails(c, d)

FrameStep(c, d) == Leave(c, d) \/ Ops(c, d) \/ \E k \in Carets : Presence(c, d, k)

CommitStep(d) ==
    \/ \E c \in Conns : CommitPush(c, d) \/ PushFails(c, d)
    \/ CommitHttp(d) \/ CommitSilently(d)

Next ==
    \/ \E c \in Conns : SocketStep(c)
    \/ Sweep
    \/ \E c \in Conns, d \in Docs : JoinStep(c, d) \/ FrameStep(c, d)
    \/ \E d \in Docs : CommitStep(d)
    \/ \E m \in outbox : Broadcast(m)
    \/ \E u \in Users, d \in Docs : RemoveMember(u, d)

Spec == Init /\ [][Next]_vars

\* The interval keeps firing, a close that has begun completes, and a handler
\* whose await has settled runs on.
Fairness ==
    /\ WF_vars(Sweep)
    /\ \A c \in Conns :
          /\ WF_vars(sock[c] \in {"closing", "terminated"} /\ CloseEvent(c))
          /\ \A d \in Docs : WF_vars(Handle(c, d))

FairSpec == Spec /\ Fairness

------------------------------------------------------------------------------
(***************************************************************************)
(* Properties                                                              *)
(***************************************************************************)
\* Every variable keeps its type, and nobody is sent a slot the log lacks.
TypeOK ==
    /\ sock \in [Conns -> Sockets]
    /\ peerUp \in [Conns -> BOOLEAN]
    /\ wire \in [Conns -> {"none", "ping", "pong"}]
    /\ missed \in [Conns -> Nat]
    /\ connections \subseteq Conns
    /\ room \in [Docs -> SUBSET Conns]
    /\ rooms \in [Conns -> SUBSET Docs]
    /\ caret \in [Conns -> [Docs -> Carets \cup {NoCaret}]]
    /\ alive \in [Conns -> BOOLEAN]
    /\ joining \in [Conns -> [Docs -> {"idle", "authorize", "pull", "reply"}]]
    /\ saw \in [Conns -> [Docs -> Nat]]
    /\ pushing \subseteq Conns \X Docs
    /\ member \subseteq Users \X Docs
    /\ serverSeq \in [Docs -> Nat]
    /\ outbox \subseteq [doc : Docs, seq : Nat, author : Conns \cup {Http}]
    /\ unrelayed \in [Docs -> SUBSET Nat]
    /\ answered \in [Conns -> [Docs -> BOOLEAN]]
    /\ told \in [Conns -> [Docs -> Nat]]
    /\ got \in [Conns -> [Docs -> SUBSET Nat]]
    /\ shown \in [Conns -> [Docs -> SUBSET (Conns \X (Carets \cup {NoCaret}))]]
    /\ \A c \in Conns, d \in Docs : \A n \in got[c][d] : n <= serverSeq[d]

\* The hub's rooms and the connections' own lists are two copies of one
\* relation, and a caret is only kept for a room one is in, through every
\* order of joins, leaves, closes, failures and sweeps.
RoomsConsistent ==
    \A c \in Conns, d \in Docs :
        /\ c \in room[d] <=> d \in rooms[c]
        /\ caret[c][d] # NoCaret => c \in room[d]

InOutbox(d) == {m.seq : m \in {x \in outbox : x.doc = d}}

Covered(c, d, n) == n \in got[c][d] \cup InOutbox(d) \cup unrelayed[d]

\* Subscribe, then catch up: a member whose join was answered with serverSeq
\* misses no later operation this process relays, however the join's awaits,
\* commits and broadcasts interleave.
NoGapAfterJoin ==
    \A c \in Conns, d \in Docs :
        c \in room[d] /\ answered[c][d] /\ sock[c] = "open" =>
            \A n \in told[c][d] + 1 .. serverSeq[d] : Covered(c, d, n)

\* "Presence is state, not an event": once every member's join has been
\* answered, the last frame each has been sent lists exactly who is in the
\* room and where their carets are.
PresenceShown ==
    \A c \in Conns, d \in Docs :
        /\ c \in room[d]
        /\ sock[c] = "open"
        /\ \A e \in room[d] : answered[e][d]
        => shown[c][d] = Peers(d)

\* limits.ts:73: a peer that vanishes is off the hub's list by the second
\* sweep after it, whatever pong was still under way.
GoneByNextSweep ==
    \A c \in connections : missed[c] <= 1

\* wsServer.ts:99-105: a peer that left the building is said not to keep its
\* memory and its presence entry.
GoneLeavesRooms ==
    \A c \in Conns : sock[c] = "closed" ~> \A d \in Docs : c \notin room[d]
==============================================================================
