---------------------------- MODULE Sharing_proofs ----------------------------
(***************************************************************************)
(* Proofs about Sharing: types, the one owner, roles that were offered,    *)
(* authorizations no older than their request, and who changes what, for   *)
(* any users, requests and bounds.                                         *)
(***************************************************************************)
EXTENDS Sharing, TLAPS

Granting == {"invite", "changeRole"}
Naming == Granting \cup {"remove", "leave", "revoke", "resend", "preview", "accept", "decline"}

\* A request as it can arrive; what it carries is never changed but by accept's read.
Sound(r) ==
    /\ r \in Call
    /\ r.op \in Naming => r.about \in Users
    /\ r.op = "leave" => r.about = r.by
    /\ r.op \in Granting => r.role \in Offers

\* A handler past its checks names another than the owner, and one about to
\* accept carries a role that was offered to its author.
Held(r) ==
    \/ r \in {Idle, Done}
    \/ /\ Sound(r)
       /\ r.op \in Granting \cup {"remove", "leave"} => r.at = "arrived" \/ r.about # owner
       /\ r.op \in {"accept", "decline"} /\ r.at = "found" =>
             /\ r.about = r.by
             /\ r.about # owner
             /\ r.role \in offered[r.by]
             /\ inv[r.by].status # "NONE"

Handlers == \A k \in Calls : Held(call[k])

\* Before the document there is nothing else.
Blank ==
    owner = Nobody =>
        /\ \A u \in Users : role[u] = "NONE" /\ inv[u].status = "NONE"
        /\ \A k \in Calls : call[k] = Idle

OwnerUninvited == \A u \in Users : u = owner => inv[u].status = "NONE"

OffersRecorded ==
    \A u \in Users : inv[u].status # "NONE" => inv[u].role \in offered[u]

Rows == OneOwner /\ OwnerUninvited /\ OffersRecorded /\ RoleWasOffered

\* What a request may do now it has been measured as able to do, and a handler
\* past its checks is one that could.
Past == {"allowed", "checked", "found", "done"}

Measured ==
    \A k \in Calls : Entitled(k) \/ call[k].at \in Past => could[k]

IInv == TypeOK /\ Handlers /\ Blank /\ Rows /\ Measured

------------------------------------------------------------------------------
LEMMA FreeCalls ==
    /\ Idle.at = "idle" /\ Done.at = "done" /\ Idle.op = "view" /\ Done.op = "view"
    /\ Idle \notin Call /\ Done \notin Call
BY DEF Idle, Done, Free, Call, Points

LEMMA InitInv == Init => IInv
<1> SUFFICES ASSUME Init PROVE IInv
  OBVIOUS
<1> USE SharingAssumption
<1>1. TypeOK
  BY DEF Init, TypeOK, Invitation, NoInvitation, Roles, Statuses
<1>2. Handlers /\ Blank
  BY DEF Init, Handlers, Held, Blank, NoInvitation
<1>3. Rows
  BY DEF Init, Rows, OneOwner, OwnerUninvited, OffersRecorded, RoleWasOffered, NoInvitation
<1>4. Measured
  BY FreeCalls DEF Init, Measured, Entitled, Past
<1> QED
  BY <1>1, <1>2, <1>3, <1>4 DEF IInv

\* Offers are never taken back, nor is an invitation's row.
Grows ==
    \A u \in Users :
        /\ offered[u] \subseteq offered'[u]
        /\ inv[u].status # "NONE" => inv'[u].status # "NONE"

\* Every step of a handler replaces one call.
LEMMA CallStep ==
    ASSUME NEW k \in Calls, NEW c, TypeOK, Handlers,
           call' = [call EXCEPT ![k] = c],
           owner' = owner,
           Grows,
           Held(c)'
    PROVE  Handlers' /\ call' \in [Calls -> Call \cup {Idle, Done}]
<1>1. ASSUME NEW j \in Calls PROVE Held(call[j])'
  <2>1. CASE j = k
    BY <2>1 DEF TypeOK
  <2>2. CASE j # k
    <3>1. call'[j] = call[j] /\ Held(call[j])
      BY <2>2 DEF TypeOK, Handlers
    <3>2. CASE call[j] \in {Idle, Done}
      BY <3>1, <3>2 DEF Held
    <3>3. CASE call[j] \notin {Idle, Done}
      <4>1. call[j].by \in Users
        BY <3>1, <3>3 DEF Held, Sound, Call
      <4> QED
        BY <3>1, <3>3, <4>1 DEF Held, Sound, Grows
    <3> QED
      BY <3>2, <3>3
  <2> QED
    BY <2>1, <2>2
<1>2. c \in Call \cup {Idle, Done}
  BY DEF Held, Sound
<1> QED
  BY <1>1, <1>2 DEF Handlers, TypeOK

\* A handler that ends holds nothing.
LEMMA EndsHeld == Held(Idle)' /\ Held(Done)'
BY DEF Held

\* The measure, for any step whose handlers advance only when they could.
LEMMA MeasureStep ==
    ASSUME IInv, Measure, Handlers',
           \A k \in Calls : call'[k].at \in Past => could[k]
    PROVE  Measured' /\ could' \in [Calls -> BOOLEAN]
<1>1. ASSUME NEW k \in Calls, Entitled(k)' \/ call'[k].at \in Past
      PROVE  could'[k]
  <2>1. ~(call'[k].at = "idle")
    <3>1. CASE call'[k].at \in Past
      BY <3>1 DEF Past
    <3>2. CASE Entitled(k)'
      <4>1. call'[k] \in Call
        BY <3>2 DEF Entitled, Handlers, Held, Sound
      <4> QED
        BY <4>1 DEF Call, Points
    <3> QED
      BY <1>1, <3>1, <3>2
  <2> QED
    BY <1>1, <2>1 DEF Measure, At
<1> QED
  BY <1>1 DEF Measured, Measure, At, Entitled, IInv, TypeOK

------------------------------------------------------------------------------
TablesTyped ==
    /\ owner \in Users \cup {Nobody}
    /\ deleted \in BOOLEAN
    /\ role \in [Users -> Roles]
    /\ inv \in [Users -> Invitation]
    /\ offered \in [Users -> SUBSET Offers]

\* What every action is shown to keep; the measure adds the rest.
Kept ==
    /\ (TablesTyped /\ Rows /\ Blank /\ Handlers)'
    /\ call' \in [Calls -> Call \cup {Idle, Done}]
    /\ \A k \in Calls : call'[k].at \in Past => could[k]

\* A request under way is past Blank: the document exists.
LEMMA Busy ==
    ASSUME IInv, NEW k \in Calls, call[k] # Idle
    PROVE  owner \in Users
BY DEF IInv, Blank, TypeOK

\* A handler's step that writes the tables, given what it does to the rows.
LEMMA WriteKept ==
    ASSUME IInv, NEW k \in Calls, NEW c,
           owner \in Users, owner' = owner,
           call' = [call EXCEPT ![k] = c],
           Held(c)', c.at \in Past => could[k],
           Grows,
           TablesTyped', Rows'
    PROVE  Kept
<1>1. Handlers' /\ call' \in [Calls -> Call \cup {Idle, Done}]
  BY CallStep DEF IInv
<1>2. Blank'
  BY SharingAssumption DEF Blank
<1>3. \A j \in Calls : call'[j].at \in Past => could[j]
  BY DEF IInv, Measured, TypeOK
<1> QED
  BY <1>1, <1>2, <1>3 DEF Kept

\* One that only reads them.
LEMMA ReadKept ==
    ASSUME IInv, NEW k \in Calls, NEW c,
           owner \in Users, UNCHANGED tables,
           call' = [call EXCEPT ![k] = c],
           Held(c), c.at \in Past => could[k]
    PROVE  Kept
<1>1. TablesTyped' /\ Rows'
  BY DEF IInv, TypeOK, TablesTyped, tables, Rows, OneOwner, OwnerUninvited, OffersRecorded,
         RoleWasOffered
<1>2. Held(c)'
  BY DEF Held, tables
<1> QED
  BY <1>1, <1>2, WriteKept DEF tables, Grows

LEMMA IncomingSound ==
    ASSUME TypeOK, NEW r \in Incoming
    PROVE  Sound(r) /\ r.at = "arrived"
<1> USE DEF Request, Sound, Call, Ops, Action, Points, Roles, Naming, Granting
<1>1. Named \subseteq Users
  BY SharingAssumption
<1>2. CASE r \in {Request(op, u, Nobody, 0, "NONE") :
                  op \in {"view", "push", "admin", "delete", "restore"}, u \in Users}
  BY <1>2
<1>3. CASE r \in {Request("leave", u, u, 0, "NONE") : u \in Users}
  BY <1>3
<1>4. CASE r \in {Request(op, u, v, 0, "NONE") :
                  op \in {"remove", "revoke", "resend"}, u \in Users, v \in Named}
  BY <1>1, <1>4
<1>5. CASE r \in {Request(op, u, v, 0, o) :
                  op \in {"invite", "changeRole"}, u \in Users, v \in Named, o \in Offers}
  BY <1>1, <1>5 DEF Offers
<1>6. CASE r \in UNION {{Request(op, u, v, t, "NONE") :
                  op \in {"preview", "accept", "decline"}, u \in Users,
                  t \in 1 .. inv[v].token} : v \in Named}
  <2>1. PICK v \in Named : r \in {Request(op, u, v, t, "NONE") :
                  op \in {"preview", "accept", "decline"}, u \in Users,
                  t \in 1 .. inv[v].token}
    BY <1>6
  <2>2. inv[v].token \in Nat
    BY <1>1 DEF TypeOK, Invitation
  <2> QED
    BY <1>1, <2>1, <2>2
<1> QED
  BY <1>2, <1>3, <1>4, <1>5, <1>6 DEF Incoming

LEMMA ArriveKept == ASSUME IInv, NEW k \in Calls, Arrive(k) PROVE Kept
<1>1. PICK r \in Incoming : call' = [call EXCEPT ![k] = r]
  BY DEF Arrive
<1>2. Sound(r) /\ r.at = "arrived"
  BY <1>1, IncomingSound DEF IInv
<1>3. Held(r) /\ r.at \notin Past
  BY <1>2 DEF Held, Past
<1>4. owner \in Users /\ UNCHANGED tables
  BY DEF Arrive, IInv, TypeOK
<1> QED
  BY <1>1, <1>3, <1>4, ReadKept

------------------------------------------------------------------------------
\* A handler under way carries a sound request, about a document that exists.
LEMMA Started ==
    ASSUME IInv, NEW k \in Calls, call[k].at \in Points
    PROVE  /\ Sound(call[k]) /\ Held(call[k]) /\ call[k] \notin {Idle, Done}
           /\ owner \in Users
<1>1. call[k] \notin {Idle, Done}
  BY FreeCalls DEF Points
<1>2. Held(call[k]) /\ Sound(call[k])
  BY <1>1 DEF IInv, Handlers, Held
<1> QED
  BY <1>1, <1>2, Busy

\* A handler under way that ends without writing.
LEMMA EndKept ==
    ASSUME IInv, NEW k \in Calls, owner \in Users, UNCHANGED tables,
           Refuse(k) \/ (Finish(k) /\ could[k])
    PROVE  Kept
<1>1. Held(Idle) /\ Held(Done) /\ Idle.at \notin Past
  BY FreeCalls DEF Held, Past
<1>2. CASE Refuse(k)
  BY <1>1, <1>2, ReadKept DEF Refuse
<1>3. CASE Finish(k) /\ could[k]
  BY <1>1, <1>3, ReadKept DEF Finish
<1> QED
  BY <1>2, <1>3

\* One that passes its check.
LEMMA MoveKept ==
    ASSUME IInv, NEW k \in Calls, NEW p \in Points, UNCHANGED tables,
           call[k].at \in Points, MoveTo(k, p), could[k],
           Held([call[k] EXCEPT !.at = p])
    PROVE  Kept
<1>1. call' = [call EXCEPT ![k] = [call[k] EXCEPT !.at = p]]
  BY DEF MoveTo
<1> QED
  BY <1>1, Started, ReadKept

\* What a request is entitled to it has been measured as able to do.
LEMMA Could ==
    ASSUME IInv, NEW k \in Calls, Entitled(k) \/ call[k].at \in Past
    PROVE  could[k]
BY DEF IInv, Measured

LEMMA AnswerKept == ASSUME IInv, NEW k \in Calls, Answer(k) PROVE Kept
<1>1. call[k] # Idle
  BY FreeCalls DEF Answer, At
<1> QED
  BY <1>1, Busy, EndKept DEF Answer, Refuse

LEMMA AuthorizeKept == ASSUME IInv, NEW k \in Calls, Authorize(k) PROVE Kept
<1> DEFINE ok == Can(call[k].by, Action[call[k].op]) /\ ~ProtectsOwner(k)
           c == [call[k] EXCEPT !.at = "allowed"]
<1>1. /\ Sound(call[k]) /\ call[k] \notin {Idle, Done} /\ owner \in Users
      /\ call[k].at = "arrived" /\ call[k].op \in DOMAIN Action /\ UNCHANGED tables
  BY Started DEF Authorize, At, Points
<1>2. CASE ~ok
  BY <1>1, <1>2, EndKept DEF Authorize, ProceedIf
<1>3. CASE ok
  <2>1. MoveTo(k, "allowed")
    BY <1>3 DEF Authorize, ProceedIf
  <2>2. could[k]
    BY <1>1, <1>3, Could DEF Entitled
  <2>3. Sound(c) /\ c.op = call[k].op /\ c.about = call[k].about
        /\ c.by = call[k].by /\ c.at = "allowed"
    BY <1>1 DEF Sound, Call, Points
  <2>4. call[k].op \in Granting \cup {"remove", "leave"} => call[k].about # owner
    <3>1. call[k].by \in Users /\ \A u \in Users : role[u] = "OWNER" <=> u = owner
      BY <1>1 DEF Sound, Call, IInv, Rows, OneOwner
    <3>2. CASE call[k].op = "invite"
      <4>1. role[call[k].by] = "OWNER"
        BY <1>3, <3>2 DEF Can, Action, Permissions
      <4> QED
        BY <1>3, <3>1, <3>2, <4>1 DEF ProtectsOwner
    <3>3. CASE call[k].op \in {"changeRole", "remove"}
      BY <1>3, <3>3 DEF ProtectsOwner
    <3>4. CASE call[k].op = "leave"
      BY <1>1, <1>3, <3>1, <3>4 DEF ProtectsOwner, Sound
    <3> QED
      BY <3>2, <3>3, <3>4 DEF Granting
  <2>5. Held(c)
    BY <2>3, <2>4 DEF Held
  <2> QED
    BY <1>1, <2>1, <2>2, <2>5, MoveKept DEF Points
<1> QED
  BY <1>2, <1>3

LEMMA ServeKept == ASSUME IInv, NEW k \in Calls, Serve(k) PROVE Kept
<1>1. call[k].at = "allowed" /\ Finish(k) /\ UNCHANGED tables
  BY DEF Serve, At
<1> QED
  BY <1>1, Started, Could, EndKept DEF Points, Past

LEMMA FindDeletedKept == ASSUME IInv, NEW k \in Calls, FindDeleted(k) PROVE Kept
<1> DEFINE ok == owner = call[k].by /\ deleted
           c == [call[k] EXCEPT !.at = "found"]
<1>1. /\ Sound(call[k]) /\ call[k] \notin {Idle, Done} /\ owner \in Users
      /\ call[k].at = "arrived" /\ call[k].op = "restore" /\ UNCHANGED tables
  BY Started DEF FindDeleted, Doing, At, Points
<1>2. CASE ~ok
  BY <1>1, <1>2, EndKept DEF FindDeleted, ProceedIf
<1>3. CASE ok
  <2>1. could[k]
    BY <1>1, <1>3, Could DEF Entitled
  <2>2. Sound(c) /\ c.op = "restore"
    BY <1>1 DEF Sound, Call, Points
  <2>3. Held(c)
    BY <2>2 DEF Held, Granting
  <2> QED
    BY <1>1, <1>3, <2>1, <2>3, MoveKept DEF FindDeleted, ProceedIf, Points
<1> QED
  BY <1>2, <1>3

LEMMA CheckInviteeKept == ASSUME IInv, NEW k \in Calls, CheckInvitee(k) PROVE Kept
<1> DEFINE ok == role[call[k].about] = "NONE"
           c == [call[k] EXCEPT !.at = "checked"]
<1>1. /\ Sound(call[k]) /\ Held(call[k]) /\ call[k] \notin {Idle, Done} /\ owner \in Users
      /\ call[k].at = "allowed" /\ call[k].op = "invite" /\ UNCHANGED tables
  BY Started DEF CheckInvitee, Doing, At, Points
<1>2. CASE ~ok
  BY <1>1, <1>2, EndKept DEF CheckInvitee, ProceedIf
<1>3. CASE ok
  <2>1. could[k]
    BY <1>1, Could DEF Past
  <2>2. Sound(c) /\ c.op = "invite" /\ c.about = call[k].about
    BY <1>1 DEF Sound, Call, Points
  <2>3. Held(c)
    BY <1>1, <2>2 DEF Held, Granting
  <2> QED
    BY <1>1, <1>3, <2>1, <2>3, MoveKept DEF CheckInvitee, ProceedIf, Points
<1> QED
  BY <1>2, <1>3

LEMMA FindPendingKept == ASSUME IInv, NEW k \in Calls, FindPending(k) PROVE Kept
<1> DEFINE ok == inv[call[k].about].status = "PENDING"
           c == [call[k] EXCEPT !.at = "found"]
<1>1. /\ Sound(call[k]) /\ call[k] \notin {Idle, Done} /\ owner \in Users
      /\ call[k].at = "allowed" /\ call[k].op = "resend" /\ UNCHANGED tables
  BY Started DEF FindPending, Doing, At, Points
<1>2. CASE ~ok
  BY <1>1, <1>2, EndKept DEF FindPending, ProceedIf
<1>3. CASE ok
  <2>1. could[k]
    BY <1>1, Could DEF Past
  <2>2. Sound(c) /\ c.op = "resend"
    BY <1>1 DEF Sound, Call, Points
  <2>3. Held(c)
    BY <2>2 DEF Held, Granting
  <2> QED
    BY <1>1, <1>3, <2>1, <2>3, MoveKept DEF FindPending, ProceedIf, Points
<1> QED
  BY <1>2, <1>3

LEMMA PreviewKept == ASSUME IInv, NEW k \in Calls, Preview(k) PROVE Kept
<1>1. /\ Sound(call[k]) /\ call[k] \notin {Idle, Done} /\ owner \in Users
      /\ call[k].op = "preview" /\ UNCHANGED tables
  BY Started DEF Preview, Doing, At, Points
<1>2. Presents(k) => could[k]
  BY <1>1, Could DEF Presents, Entitled
<1> QED
  BY <1>1, <1>2, EndKept DEF Preview, FinishIf

LEMMA FindInvitationKept == ASSUME IInv, NEW k \in Calls, FindInvitation(k) PROVE Kept
<1> DEFINE c == [call[k] EXCEPT !.at = "found", !.role = inv[call[k].about].role]
<1>1. /\ Sound(call[k]) /\ call[k] \notin {Idle, Done} /\ owner \in Users
      /\ call[k].op \in {"accept", "decline"} /\ UNCHANGED tables
  BY Started DEF FindInvitation, At, Points
<1>2. CASE ~MayResolve(k)
  BY <1>1, <1>2, EndKept DEF FindInvitation
<1>3. CASE MayResolve(k)
  <2>1. call' = [call EXCEPT ![k] = c]
    BY <1>3 DEF FindInvitation
  <2>2. call[k].about \in Users /\ call[k].about = call[k].by
        /\ inv[call[k].about].status = "PENDING"
    BY <1>1, <1>3 DEF MayResolve, Presents, Sound, Naming
  <2>3. could[k]
    BY <1>1, <1>3, <2>2, Could DEF MayResolve, Presents, Entitled
  <2>4. inv[call[k].about].role \in Roles
    BY <2>2 DEF IInv, TypeOK, Invitation
  <2>5. /\ Sound(c) /\ c.op = call[k].op /\ c.about = call[k].about /\ c.by = call[k].by
        /\ c.role = inv[call[k].about].role
    BY <1>1, <2>4 DEF Sound, Call, Points, Granting
  <2>6. call[k].about # owner /\ inv[call[k].about].role \in offered[call[k].about]
    BY <2>2 DEF IInv, Rows, OwnerUninvited, OffersRecorded
  <2>7. Held(c)
    BY <1>1, <2>2, <2>5, <2>6 DEF Held, Granting
  <2> QED
    BY <1>1, <2>1, <2>3, <2>7, ReadKept
<1> QED
  BY <1>2, <1>3

------------------------------------------------------------------------------
\* A handler that writes and then ends, given what it does to the tables.
LEMMA LastKept ==
    ASSUME IInv, NEW k \in Calls, owner \in Users, owner' = owner,
           Refuse(k) \/ (Finish(k) /\ could[k]),
           Grows,
           TablesTyped', Rows'
    PROVE  Kept
<1>1. Held(Idle)' /\ Held(Done)' /\ Idle.at \notin Past
  BY EndsHeld, FreeCalls DEF Past
<1>2. CASE Refuse(k)
  BY <1>1, <1>2, WriteKept DEF Refuse
<1>3. CASE Finish(k) /\ could[k]
  BY <1>1, <1>3, WriteKept DEF Finish
<1> QED
  BY <1>2, <1>3

LEMMA SoftDeleteKept == ASSUME IInv, NEW k \in Calls, SoftDelete(k) PROVE Kept
<1>1. /\ Sound(call[k]) /\ Held(call[k]) /\ owner \in Users /\ could[k]
      /\ call[k] \notin {Idle, Done}
      /\ call[k].at = "allowed" /\ call[k].op = "delete"
  BY Started, Could DEF SoftDelete, Doing, At, Points, Past
<1>2. TablesTyped' /\ Rows' /\ Grows /\ UNCHANGED owner
  BY
     DEF SoftDelete, Grows, IInv, TypeOK, TablesTyped, Rows, OneOwner, OwnerUninvited,
         OffersRecorded, RoleWasOffered
<1> QED
  BY <1>1, <1>2, LastKept DEF SoftDelete

LEMMA RestoreKept == ASSUME IInv, NEW k \in Calls, Restore(k) PROVE Kept
<1>1. /\ Sound(call[k]) /\ Held(call[k]) /\ owner \in Users /\ could[k]
      /\ call[k] \notin {Idle, Done}
      /\ call[k].at = "found" /\ call[k].op = "restore"
  BY Started, Could DEF Restore, Doing, At, Points, Past
<1>2. TablesTyped' /\ Rows' /\ Grows /\ UNCHANGED owner
  BY
     DEF Restore, Grows, IInv, TypeOK, TablesTyped, Rows, OneOwner, OwnerUninvited,
         OffersRecorded, RoleWasOffered
<1> QED
  BY <1>1, <1>2, LastKept DEF Restore

LEMMA ChangeRoleKept == ASSUME IInv, NEW k \in Calls, ChangeRole(k) PROVE Kept
<1>1. /\ Sound(call[k]) /\ Held(call[k]) /\ owner \in Users /\ could[k]
      /\ call[k] \notin {Idle, Done}
      /\ call[k].at = "allowed" /\ call[k].op = "changeRole"
  BY Started, Could DEF ChangeRole, Doing, At, Points, Past
<1> DEFINE u == call[k].about
           o == call[k].role
<1>2. u \in Users /\ u # owner /\ o \in Offers /\ o # "OWNER"
  BY <1>1 DEF Sound, Held, Naming, Granting, Offers
<1>3. CASE role[u] = "NONE"
  <2>1. TablesTyped' /\ Rows' /\ Grows /\ UNCHANGED owner /\ Refuse(k)
    BY <1>3
       DEF Grows, ChangeRole, IInv, TypeOK, TablesTyped, Rows, OneOwner, OwnerUninvited,
           OffersRecorded, RoleWasOffered
  <2> QED
    BY <1>1, <2>1, LastKept
<1>4. CASE role[u] # "NONE"
  <2>1. /\ role' = [role EXCEPT ![u] = o]
        /\ offered' = [offered EXCEPT ![u] = @ \cup {o}]
        /\ UNCHANGED <<owner, deleted, inv>> /\ Finish(k)
    BY <1>4 DEF ChangeRole
  <2>2. TablesTyped' /\ Grows
    BY <1>2, <2>1 DEF Grows, IInv, TypeOK, TablesTyped, Roles
  <2>3. Rows'
    BY <1>2, <2>1 DEF IInv, TypeOK, Rows, OneOwner, OwnerUninvited, OffersRecorded, RoleWasOffered
  <2> QED
    BY <1>1, <2>1, <2>2, <2>3, LastKept
<1> QED
  BY <1>3, <1>4

LEMMA RemoveKept == ASSUME IInv, NEW k \in Calls, Remove(k) PROVE Kept
<1>1. /\ Sound(call[k]) /\ Held(call[k]) /\ owner \in Users /\ could[k]
      /\ call[k] \notin {Idle, Done}
      /\ call[k].at = "allowed" /\ call[k].op \in {"remove", "leave"}
  BY Started, Could DEF Remove, Doing, At, Points, Past
<1> DEFINE u == call[k].about
<1>2. u \in Users /\ u # owner
  BY <1>1 DEF Sound, Held, Naming
<1>3. /\ role' = [role EXCEPT ![u] = "NONE"]
      /\ UNCHANGED <<owner, deleted, inv, offered>>
  BY DEF Remove
<1>4. TablesTyped' /\ Rows' /\ Grows
  BY <1>2, <1>3
     DEF Grows, IInv, TypeOK, TablesTyped, Roles, Rows, OneOwner, OwnerUninvited,
         OffersRecorded, RoleWasOffered
<1> QED
  BY <1>1, <1>3, <1>4, LastKept DEF Remove, FinishIf

LEMMA InviteKept == ASSUME IInv, NEW k \in Calls, Invite(k) PROVE Kept
<1>1. /\ Sound(call[k]) /\ Held(call[k]) /\ owner \in Users /\ could[k]
      /\ call[k] \notin {Idle, Done}
      /\ call[k].at = "checked" /\ call[k].op = "invite"
  BY Started, Could DEF Invite, Doing, At, Points, Past
<1> DEFINE u == call[k].about
           o == call[k].role
<1>2. u \in Users /\ u # owner /\ o \in Offers
  BY <1>1 DEF Sound, Held, Naming, Granting
<1>3. /\ inv' = [inv EXCEPT ![u] = [status |-> "PENDING", role |-> o,
                                    token |-> inv[u].token + 1, expired |-> FALSE]]
      /\ offered' = [offered EXCEPT ![u] = @ \cup {o}]
      /\ UNCHANGED <<owner, deleted, role>> /\ Finish(k)
  BY DEF Invite
<1>4. TablesTyped' /\ Grows
  BY <1>2, <1>3 DEF Grows, IInv, TypeOK, TablesTyped, Invitation, Statuses, Roles
<1>5. Rows'
  BY <1>2, <1>3 DEF IInv, TypeOK, Rows, OneOwner, OwnerUninvited, OffersRecorded, RoleWasOffered
<1> QED
  BY <1>1, <1>3, <1>4, <1>5, LastKept

LEMMA RevokeKept == ASSUME IInv, NEW k \in Calls, Revoke(k) PROVE Kept
<1>1. /\ Sound(call[k]) /\ Held(call[k]) /\ owner \in Users /\ could[k]
      /\ call[k] \notin {Idle, Done}
      /\ call[k].at = "allowed" /\ call[k].op = "revoke"
  BY Started, Could DEF Revoke, Doing, At, Points, Past
<1> DEFINE u == call[k].about
<1>2. u \in Users
  BY <1>1 DEF Sound, Naming
<1>3. CASE inv[u].status = "PENDING"
  <2>1. /\ inv' = [inv EXCEPT ![u].status = "REVOKED"]
        /\ UNCHANGED <<owner, deleted, role, offered>> /\ Finish(k)
    BY <1>3 DEF Revoke
  <2>2. TablesTyped' /\ Grows
    BY <1>2, <2>1 DEF Grows, IInv, TypeOK, TablesTyped, Invitation, Statuses
  <2>3. Rows'
    BY <1>2, <1>3, <2>1
       DEF IInv, TypeOK, Invitation, Rows, OneOwner, OwnerUninvited, OffersRecorded,
           RoleWasOffered
  <2> QED
    BY <1>1, <2>1, <2>2, <2>3, LastKept
<1>4. CASE inv[u].status # "PENDING"
  <2>1. UNCHANGED tables /\ Refuse(k)
    BY <1>4 DEF Revoke, tables
  <2> QED
    BY <1>1, <2>1, EndKept
<1> QED
  BY <1>3, <1>4

LEMMA ResendKept == ASSUME IInv, NEW k \in Calls, Resend(k) PROVE Kept
<1>1. /\ Sound(call[k]) /\ Held(call[k]) /\ owner \in Users /\ could[k]
      /\ call[k] \notin {Idle, Done}
      /\ call[k].at = "found" /\ call[k].op = "resend"
  BY Started, Could DEF Resend, Doing, At, Points, Past
<1> DEFINE u == call[k].about
<1>2. u \in Users
  BY <1>1 DEF Sound, Naming
<1>3. /\ inv' = [inv EXCEPT ![u].token = @ + 1, ![u].expired = FALSE]
      /\ UNCHANGED <<owner, deleted, role, offered>> /\ Finish(k)
  BY DEF Resend
<1>4. TablesTyped' /\ Rows' /\ Grows
  BY <1>2, <1>3
     DEF Grows, IInv, TypeOK, TablesTyped, Invitation, Rows, OneOwner, OwnerUninvited,
         OffersRecorded, RoleWasOffered
<1> QED
  BY <1>1, <1>3, <1>4, LastKept

LEMMA AcceptKept == ASSUME IInv, NEW k \in Calls, Accept(k) PROVE Kept
<1>1. /\ Sound(call[k]) /\ Held(call[k]) /\ owner \in Users /\ could[k]
      /\ call[k] \notin {Idle, Done}
      /\ call[k].at = "found" /\ call[k].op = "accept"
  BY Started, Could DEF Accept, Doing, At, Points, Past
<1> DEFINE u == call[k].by
           o == call[k].role
<1>2. u \in Users /\ u # owner /\ u = call[k].about /\ o \in offered[u] /\ inv[u].status # "NONE"
  BY <1>1 DEF Sound, Held, Call
<1>3. o \in Offers /\ o # "OWNER"
  BY <1>2 DEF IInv, TypeOK, Offers
<1>4. /\ role' = [role EXCEPT ![u] = o]
      /\ inv' = [inv EXCEPT ![u].status = "ACCEPTED"]
      /\ UNCHANGED <<owner, deleted, offered>> /\ Finish(k)
  BY <1>2 DEF Accept
<1>5. TablesTyped' /\ Grows
  BY <1>2, <1>3, <1>4 DEF Grows, IInv, TypeOK, TablesTyped, Invitation, Statuses, Roles
<1>6. Rows'
  BY <1>2, <1>3, <1>4
     DEF IInv, TypeOK, Invitation, Rows, OneOwner, OwnerUninvited, OffersRecorded,
         RoleWasOffered
<1> QED
  BY <1>1, <1>4, <1>5, <1>6, LastKept

LEMMA DeclineKept == ASSUME IInv, NEW k \in Calls, Decline(k) PROVE Kept
<1>1. /\ Sound(call[k]) /\ Held(call[k]) /\ owner \in Users /\ could[k]
      /\ call[k] \notin {Idle, Done}
      /\ call[k].at = "found" /\ call[k].op = "decline"
  BY Started, Could DEF Decline, Doing, At, Points, Past
<1> DEFINE u == call[k].about
<1>2. u \in Users /\ u # owner /\ inv[u].status # "NONE"
  BY <1>1 DEF Sound, Held, Call
<1>3. /\ inv' = [inv EXCEPT ![u].status = "DECLINED"]
      /\ UNCHANGED <<owner, deleted, role, offered>> /\ Finish(k)
  BY DEF Decline
<1>4. TablesTyped' /\ Grows
  BY <1>2, <1>3 DEF Grows, IInv, TypeOK, TablesTyped, Invitation, Statuses
<1>5. Rows'
  BY <1>2, <1>3
     DEF IInv, TypeOK, Invitation, Rows, OneOwner, OwnerUninvited, OffersRecorded,
         RoleWasOffered
<1> QED
  BY <1>1, <1>3, <1>4, <1>5, LastKept

------------------------------------------------------------------------------
\* The two steps of no handler: the document's creation, and time passing.
LEMMA CreateKept == ASSUME IInv, NEW u \in Users, CreateDocument(u) PROVE Kept
<1>1. /\ owner' = u /\ role' = [role EXCEPT ![u] = "OWNER"]
      /\ UNCHANGED <<deleted, inv, offered, call>>
  BY DEF CreateDocument
<1>2. \A v \in Users : role[v] = "NONE" /\ inv[v].status = "NONE"
  BY DEF CreateDocument, IInv, Blank
<1>3. \A k \in Calls : call[k] = Idle
  BY DEF CreateDocument, IInv, Blank
<1>4. TablesTyped'
  BY <1>1 DEF IInv, TypeOK, TablesTyped, Roles
<1>5. Rows'
  BY <1>1, <1>2 DEF IInv, TypeOK, Rows, OneOwner, OwnerUninvited, OffersRecorded, RoleWasOffered
<1>6. Blank'
  BY <1>1, SharingAssumption DEF Blank
<1>7. Handlers'
  <2>1. ASSUME NEW k \in Calls PROVE Held(call[k])'
    BY <1>1, <1>3 DEF Held
  <2> QED
    BY <2>1 DEF Handlers
<1>8. /\ call' \in [Calls -> Call \cup {Idle, Done}]
      /\ \A k \in Calls : call'[k].at \in Past => could[k]
  BY <1>1, Could DEF IInv, TypeOK
<1> QED
  BY <1>4, <1>5, <1>6, <1>7, <1>8 DEF Kept

LEMMA ExpireKept == ASSUME IInv, NEW u \in Users, Expire(u) PROVE Kept
<1>1. /\ inv[u].status = "PENDING" /\ inv' = [inv EXCEPT ![u].expired = TRUE]
      /\ UNCHANGED <<owner, deleted, role, offered, call>>
  BY DEF Expire
<1>2. TablesTyped' /\ \A v \in Users : inv'[v].status = inv[v].status
                                     /\ inv'[v].role = inv[v].role
  BY <1>1 DEF IInv, TypeOK, TablesTyped, Invitation
<1>3. Rows'
  BY <1>1, <1>2 DEF IInv, Rows, OneOwner, OwnerUninvited, OffersRecorded, RoleWasOffered
<1>4. Blank'
  BY <1>1, <1>2 DEF IInv, Blank
<1>5. Handlers'
  <2>1. ASSUME NEW k \in Calls PROVE Held(call[k])'
    <3>1. Held(call[k]) /\ call'[k] = call[k]
      BY <1>1 DEF IInv, Handlers
    <3>2. call[k] \in {Idle, Done} \/ call[k].by \in Users
      BY <3>1 DEF Held, Sound, Call
    <3> QED
      BY <1>1, <1>2, <3>1, <3>2 DEF Held, Sound
  <2> QED
    BY <2>1 DEF Handlers
<1>6. /\ call' \in [Calls -> Call \cup {Idle, Done}]
      /\ \A k \in Calls : call'[k].at \in Past => could[k]
  BY <1>1, Could DEF IInv, TypeOK
<1> QED
  BY <1>2, <1>3, <1>4, <1>5, <1>6 DEF Kept

------------------------------------------------------------------------------
LEMMA NextKept == ASSUME IInv, Next PROVE Kept
<1>1. CASE \E k \in Calls : Handle(k)
  BY <1>1, ArriveKept, AuthorizeKept, ServeKept, AnswerKept, SoftDeleteKept, FindDeletedKept,
     RestoreKept, ChangeRoleKept, RemoveKept, CheckInviteeKept, InviteKept, RevokeKept,
     FindPendingKept, ResendKept, PreviewKept, FindInvitationKept, AcceptKept, DeclineKept
     DEF Handle
<1>2. CASE \E u \in Users : CreateDocument(u) \/ Expire(u)
  BY <1>2, CreateKept, ExpireKept
<1> QED
  BY <1>1, <1>2 DEF Next

LEMMA StepInv == IInv /\ [Next]_vars => IInv'
<1>1. ASSUME IInv, Next PROVE IInv'
  <2>1. Kept
    BY <1>1, NextKept
  <2>2. Measured' /\ could' \in [Calls -> BOOLEAN]
    BY <1>1, <2>1, MeasureStep DEF Next, Kept
  <2> QED
    BY <2>1, <2>2 DEF IInv, Kept, TablesTyped, TypeOK
<1>2. ASSUME IInv, UNCHANGED vars PROVE IInv'
  BY <1>2 DEF IInv, TypeOK, Handlers, Held, Blank, Rows, OneOwner, OwnerUninvited,
              OffersRecorded, RoleWasOffered, Measured, Entitled, Can, vars
<1> QED
  BY <1>1, <1>2

\* The inductive invariant, which the theorems below are parts of.
THEOREM Inductive == Spec => []IInv
<1>1. Init => IInv
  BY InitInv
<1>2. IInv /\ [Next]_vars => IInv'
  BY StepInv
<1> QED
  BY <1>1, <1>2, PTL DEF Spec

\* The tables, the handlers and the measure have their types.
THEOREM TypeCorrect == Spec => []TypeOK
<1>1. IInv => TypeOK
  BY DEF IInv
<1> QED
  BY <1>1, Inductive, PTL

\* The owner of the document and the owner among its collaborators are one,
\* whatever invitations, role changes and removals are in flight.
THEOREM OneOwnerAlways == Spec => []OneOwner
<1>1. IInv => OneOwner
  BY DEF IInv, Rows
<1> QED
  BY <1>1, Inductive, PTL

\* Every collaborator's role was given to that very address by an owner.
THEOREM RolesOffered == Spec => []RoleWasOffered
<1>1. IInv => RoleWasOffered
  BY DEF IInv, Rows
<1> QED
  BY <1>1, Inductive, PTL

\* No handler does what its author could at no moment since the request came.
THEOREM NothingStaleDone == Spec => []DoneWasAllowed
<1>1. IInv => DoneWasAllowed
  BY DEF IInv, Measured, Past, DoneWasAllowed, At
<1> QED
  BY <1>1, Inductive, PTL

------------------------------------------------------------------------------
(***************************************************************************)
(* Whose request changes what                                              *)
(***************************************************************************)
OwnersOps == {"delete", "admin", "invite", "revoke", "resend", "changeRole", "remove", "restore"}
Waits == {"allowed", "checked", "found"}

\* A handler past the check of an owner's operation is the owner's.
Owned(r) == r.at \in Waits /\ r.op \in OwnersOps => r.by = owner

Authors == \A k \in Calls : Owned(call[k])

\* What one step may change.
Change ==
    /\ \A u \in Users :
          /\ role'[u] # role[u] =>
                \/ owner = Nobody /\ owner' = u
                \/ /\ u # owner
                   /\ \E k \in Calls : \/ Acts(k, {"accept", "leave"}, u)
                                       \/ Acts(k, {"changeRole", "remove"}, owner)
          /\ inv'[u].status # inv[u].status =>
                \E k \in Calls : \/ Acts(k, {"accept", "decline"}, u)
                                \/ Acts(k, {"invite", "revoke"}, owner)
    /\ deleted' # deleted => \E k \in Calls : Acts(k, {"delete", "restore"}, owner)

LEMMA OwnedStep ==
    ASSUME IInv, Authors, owner' = owner, NEW k \in Calls, NEW c,
           call' = [call EXCEPT ![k] = c], Owned(c)
    PROVE  Authors'
<1> SUFFICES ASSUME NEW j \in Calls, call'[j].at \in Waits, call'[j].op \in OwnersOps
             PROVE  call'[j].by = owner
  BY DEF Authors, Owned
<1>1. CASE j = k
  BY <1>1 DEF IInv, TypeOK, Owned
<1>2. CASE j # k
  BY <1>2 DEF IInv, TypeOK, Authors, Owned
<1> QED
  BY <1>1, <1>2

\* A handler that ends is nobody's.
LEMMA EndOwned ==
    ASSUME IInv, Authors, owner' = owner, NEW k \in Calls, Finish(k) \/ Refuse(k)
    PROVE  Authors'
<1>1. Owned(Idle) /\ Owned(Done)
  BY FreeCalls DEF Owned, Waits
<1> QED
  BY <1>1, OwnedStep DEF Finish, Refuse

LEMMA AuthorizeOwned ==
    ASSUME IInv, NEW k \in Calls, Authorize(k), MoveTo(k, "allowed"),
           Can(call[k].by, Action[call[k].op])
    PROVE  Owned([call[k] EXCEPT !.at = "allowed"])
<1> DEFINE r == call[k]
<1>1. Sound(r) /\ r.op \in DOMAIN Action
  BY Started DEF Authorize, At, Points
<1>2. r.by \in Users /\ \A u \in Users : role[u] = "OWNER" <=> u = owner
  BY <1>1 DEF Sound, Call, IInv, Rows, OneOwner
<1>3. ASSUME r.op \in OwnersOps PROVE r.by = owner
  <2>1. Action[r.op] \in {"manage", "delete"}
    BY <1>1, <1>3 DEF OwnersOps, Action
  <2>2. Action[r.op] \in Permissions(role[r.by])
    BY DEF Can
  <2>3. role[r.by] = "OWNER"
    BY <2>1, <2>2 DEF Permissions
  <2> QED
    BY <1>2, <2>3
<1>4. [r EXCEPT !.at = "allowed"].op = r.op /\ [r EXCEPT !.at = "allowed"].by = r.by
  BY <1>1 DEF Sound, Call
<1> QED
  BY <1>3, <1>4 DEF Owned

LEMMA HandleOwned == ASSUME IInv, Authors, NEW k \in Calls, Handle(k) PROVE Authors'
<1> DEFINE r == call[k]
<1>0. owner' = owner
  BY DEF Handle, Arrive, Authorize, Serve, Answer, SoftDelete, FindDeleted, Restore, ChangeRole,
         Remove, CheckInvitee, Invite, Revoke, FindPending, Resend, Preview, FindInvitation,
         Accept, Decline, tables
<1>1. CASE Arrive(k)
  <2>1. PICK c \in Incoming : call' = [call EXCEPT ![k] = c]
    BY <1>1 DEF Arrive
  <2>2. c.at = "arrived"
    BY <2>1, IncomingSound DEF IInv
  <2> QED
    BY <1>0, <2>1, <2>2, OwnedStep DEF Owned, Waits
<1>2. CASE Finish(k) \/ Refuse(k)
  BY <1>0, <1>2, EndOwned
<1>3. CASE Authorize(k)
  <2>1. CASE Can(r.by, Action[r.op]) /\ ~ProtectsOwner(k)
    <3>1. MoveTo(k, "allowed")
      BY <1>3, <2>1 DEF Authorize, ProceedIf
    <3>2. Owned([r EXCEPT !.at = "allowed"])
      BY <1>3, <2>1, <3>1, AuthorizeOwned
    <3> QED
      BY <1>0, <3>1, <3>2, OwnedStep DEF MoveTo
  <2>2. CASE ~(Can(r.by, Action[r.op]) /\ ~ProtectsOwner(k))
    BY <1>2, <1>3, <2>2 DEF Authorize, ProceedIf
  <2> QED
    BY <2>1, <2>2
<1>4. CASE FindDeleted(k)
  <2>1. r.at \in Points /\ ((MoveTo(k, "found") /\ owner = r.by) \/ Refuse(k))
    BY <1>4 DEF FindDeleted, Doing, At, ProceedIf, Points
  <2>2. Sound(r)
    BY <2>1, Started
  <2>3. owner = r.by => Owned([r EXCEPT !.at = "found"])
    BY <2>2 DEF Owned, Sound, Call
  <2> QED
    BY <1>0, <1>2, <2>1, <2>3, OwnedStep DEF MoveTo
<1>5. ASSUME NEW p \in Waits, MoveTo(k, p), r.at = "allowed" PROVE Authors'
  <2>1. Sound(r) /\ Owned(r)
    BY <1>5, Started DEF Points, Authors
  <2>2. Owned([r EXCEPT !.at = p])
    BY <1>5, <2>1 DEF Owned, Sound, Call, Waits
  <2> QED
    BY <1>0, <1>5, <2>2, OwnedStep DEF MoveTo
<1>6. CASE CheckInvitee(k) \/ FindPending(k)
  BY <1>2, <1>5, <1>6 DEF CheckInvitee, FindPending, Doing, At, ProceedIf, Waits
<1>7. CASE FindInvitation(k)
  <2>1. CASE Refuse(k)
    BY <1>2, <2>1
  <2>2. CASE ~Refuse(k)
    <3>1. /\ r.op \in {"accept", "decline"} /\ r.at \in Points
          /\ call' = [call EXCEPT ![k].at = "found", ![k].role = inv[r.about].role]
      BY <1>7, <2>2 DEF FindInvitation, At, Points
    <3>2. Sound(r)
      BY <3>1, Started
    <3>3. PICK c : c = [r EXCEPT !.at = "found", !.role = inv[r.about].role]
      OBVIOUS
    <3>4. c.op = r.op /\ call' = [call EXCEPT ![k] = c]
      BY <3>1, <3>2, <3>3 DEF Sound, Call, IInv, TypeOK
    <3>5. Owned(c)
      BY <3>1, <3>4 DEF Owned, OwnersOps
    <3> QED
      BY <1>0, <3>4, <3>5, OwnedStep
  <2> QED
    BY <2>1, <2>2
<1>8. CASE \/ Serve(k) \/ Answer(k) \/ SoftDelete(k) \/ Restore(k) \/ ChangeRole(k) \/ Remove(k)
           \/ Invite(k) \/ Revoke(k) \/ Resend(k) \/ Preview(k) \/ Accept(k) \/ Decline(k)
  <2>1. Finish(k) \/ Refuse(k)
    BY <1>8 DEF Serve, Answer, SoftDelete, Restore, ChangeRole, Remove, Invite, Revoke, Resend,
                Preview, Accept, Decline, FinishIf, Refuse
  <2> QED
    BY <1>2, <2>1
<1> QED
  BY <1>1, <1>3, <1>4, <1>6, <1>7, <1>8 DEF Handle

LEMMA AuthorsInductive == ASSUME IInv, Authors, [Next]_vars PROVE Authors'
<1>1. ASSUME NEW k \in Calls, Handle(k) PROVE Authors'
  BY <1>1, HandleOwned
<1>2. ASSUME NEW u \in Users, CreateDocument(u) PROVE Authors'
  <2>1. /\ owner = Nobody /\ UNCHANGED call
    BY <1>2 DEF CreateDocument
  <2>2. \A k \in Calls : call'[k] = Idle
    BY <2>1 DEF IInv, Blank
  <2> QED
    BY <2>2, FreeCalls DEF Authors, Owned, Waits
<1>3. ASSUME UNCHANGED <<owner, call>> PROVE Authors'
  BY <1>3 DEF Authors, Owned
<1> QED
  BY <1>1, <1>2, <1>3 DEF Next, Expire, vars

\* What is known of a handler that writes.
LEMMA Writing ==
    ASSUME IInv, Authors, NEW k \in Calls, call[k].at \in Waits
    PROVE  /\ Sound(call[k]) /\ Held(call[k]) /\ call[k] \notin {Idle, Done} /\ could[k]
           /\ call[k].op \in OwnersOps => call[k].by = owner
           /\ Finish(k) => call'[k] = Done
<1>1. call[k].at \in Points /\ call[k].at \in Past
  BY DEF Waits, Points, Past
<1>2. Finish(k) => call'[k] = Done
  BY DEF Finish, IInv, TypeOK
<1> QED
  BY <1>1, <1>2, Started, Could DEF Authors, Owned

LEMMA HandleChanges == ASSUME IInv, Authors, NEW k \in Calls, Handle(k) PROVE Change
<1> DEFINE r == call[k]
<1> USE DEF Waits, OwnersOps
<1>1. ASSUME UNCHANGED <<deleted, role>>, \A u \in Users : inv'[u].status = inv[u].status PROVE Change
  BY <1>1 DEF Change
<1>2. CASE \/ Arrive(k) \/ Authorize(k) \/ Serve(k) \/ Answer(k) \/ FindDeleted(k)
           \/ CheckInvitee(k) \/ FindPending(k) \/ Preview(k) \/ FindInvitation(k)
  <2>1. UNCHANGED tables
    BY <1>2 DEF Arrive, Authorize, Serve, Answer, FindDeleted, CheckInvitee, FindPending, Preview,
                FindInvitation
  <2> QED
    BY <1>1, <2>1 DEF tables
<1>3. CASE SoftDelete(k) \/ Restore(k)
  <2>1. r.op \in {"delete", "restore"} /\ r.at \in Waits /\ Finish(k) /\ UNCHANGED <<role, inv>>
    BY <1>3 DEF SoftDelete, Restore, Doing, At
  <2>2. Acts(k, {"delete", "restore"}, owner)
    BY <2>1, Writing DEF Acts
  <2> QED
    BY <2>1, <2>2 DEF Change
<1>4. CASE ChangeRole(k)
  <2>1. r.op = "changeRole" /\ r.at \in Waits /\ UNCHANGED <<deleted, inv>>
    BY <1>4 DEF ChangeRole, Doing, At
  <2>2. r.about # owner
    BY <2>1, Writing DEF Held, Granting
  <2>3. ASSUME NEW u \in Users, role'[u] # role[u]
        PROVE  u # owner /\ Acts(k, {"changeRole", "remove"}, owner)
    <3>1. u = r.about /\ Finish(k)
      BY <1>4, <2>3 DEF ChangeRole, IInv, TypeOK
    <3> QED
      BY <2>1, <2>2, <3>1, Writing DEF Acts
  <2> QED
    BY <2>1, <2>3 DEF Change
<1>5. CASE Remove(k)
  <2>1. r.op \in {"remove", "leave"} /\ r.at \in Waits /\ UNCHANGED <<deleted, inv>>
    BY <1>5 DEF Remove, At
  <2>2. r.about # owner /\ (r.op = "leave" => r.about = r.by)
    BY <2>1, Writing DEF Held, Sound
  <2>3. ASSUME NEW u \in Users, role'[u] # role[u]
        PROVE  /\ u # owner
               /\ Acts(k, {"accept", "leave"}, u) \/ Acts(k, {"changeRole", "remove"}, owner)
    <3>1. u = r.about /\ role[u] # "NONE"
      BY <1>5, <2>3 DEF Remove, IInv, TypeOK
    <3>2. Finish(k)
      BY <1>5, <3>1 DEF Remove, FinishIf
    <3> QED
      BY <2>1, <2>2, <3>1, <3>2, Writing DEF Acts
  <2> QED
    BY <2>1, <2>3 DEF Change
<1>6. CASE Invite(k) \/ Revoke(k)
  <2>1. /\ r.op \in {"invite", "revoke"} /\ r.at \in Waits
        /\ UNCHANGED <<deleted, role>>
    BY <1>6 DEF Invite, Revoke, Doing, At
  <2>2. ASSUME NEW u \in Users, inv'[u].status # inv[u].status
        PROVE  Acts(k, {"invite", "revoke"}, owner)
    <3>1. Finish(k)
      BY <1>6, <2>2 DEF Invite, Revoke
    <3> QED
      BY <2>1, <3>1, Writing DEF Acts
  <2> QED
    BY <2>1, <2>2 DEF Change
<1>7. CASE Resend(k)
  <2>1. UNCHANGED <<deleted, role>> /\ \A u \in Users : inv'[u].status = inv[u].status
    BY <1>7 DEF Resend, IInv, TypeOK, Invitation
  <2> QED
    BY <1>1, <2>1
<1>8. CASE Accept(k) \/ Decline(k)
  <2>1. /\ r.op \in {"accept", "decline"} /\ r.at = "found" /\ r.at \in Waits
        /\ Finish(k) /\ UNCHANGED deleted
    BY <1>8 DEF Accept, Decline, Doing, At
  <2>2. /\ r.about = r.by /\ r.about # owner /\ could[k] /\ call'[k] = Done
    BY <2>1, Writing DEF Held
  <2>3. ASSUME NEW u \in Users, role'[u] # role[u]
        PROVE  u # owner /\ Acts(k, {"accept", "leave"}, u)
    <3>1. u = r.by /\ r.op = "accept"
      BY <1>8, <2>3 DEF Accept, Decline, Doing, IInv, TypeOK
    <3> QED
      BY <2>2, <3>1 DEF Acts
  <2>4. ASSUME NEW u \in Users, inv'[u].status # inv[u].status
        PROVE  Acts(k, {"accept", "decline"}, u)
    <3>1. u = r.about
      BY <1>8, <2>4 DEF Accept, Decline, IInv, TypeOK
    <3> QED
      BY <2>1, <2>2, <3>1 DEF Acts
  <2> QED
    BY <2>1, <2>3, <2>4 DEF Change
<1> QED
  BY <1>2, <1>3, <1>4, <1>5, <1>6, <1>7, <1>8 DEF Handle

LEMMA NextChanges == ASSUME IInv, Authors, Next PROVE Change
<1>1. ASSUME NEW u \in Users, CreateDocument(u) PROVE Change
  <2>1. /\ owner = Nobody /\ owner' = u /\ UNCHANGED <<deleted, inv>>
        /\ \A v \in Users : role'[v] # role[v] => v = u
    BY <1>1 DEF CreateDocument, IInv, TypeOK
  <2> QED
    BY <2>1 DEF Change
<1>2. ASSUME NEW u \in Users, Expire(u) PROVE Change
  <2>1. UNCHANGED <<deleted, role>> /\ \A v \in Users : inv'[v].status = inv[v].status
    BY <1>2 DEF Expire, IInv, TypeOK, Invitation
  <2> QED
    BY <2>1 DEF Change
<1> QED
  BY <1>1, <1>2, HandleChanges DEF Next

\* For any users and any handlers in flight, nobody's role, invitation or
\* document is changed but by themselves or by its owner (collaborator and
\* invitation repositories, document.repository softDelete, restore).
THEOREM ChangesAuthored == Spec => ChangesHaveAuthors
<1>1. Init => Authors
  BY FreeCalls DEF Init, Authors, Owned, Waits
<1>2. IInv /\ Authors /\ [Next]_vars => Authors'
  BY AuthorsInductive
<1>3. IInv /\ Authors /\ [Next]_vars => [Change]_vars
  BY NextChanges
<1>4. Spec => []Authors
  BY <1>1, <1>2, Inductive, PTL DEF Spec
<1>5. Spec => [][Change]_vars
  BY <1>3, <1>4, Inductive, PTL DEF Spec
<1> QED
  BY <1>5 DEF ChangesHaveAuthors, Change
==============================================================================
