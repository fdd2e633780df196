------------------------------- MODULE Sharing -------------------------------
(***************************************************************************)
(* Who may do what with one document: its owner, its collaborators, its    *)
(* invitations, and the handlers that read them and act on them later.     *)
(* Each handler authorizes (or reads an invitation by its token), awaits,  *)
(* and then writes; handlers of any users interleave at every await.       *)
(*                                                                         *)
(* An email address is the user it belongs to.  An invitation's token is   *)
(* the number of times the address has been mailed one: only the latest    *)
(* finds the row.                                                          *)
(***************************************************************************)
EXTENDS Naturals

CONSTANTS
    Users,
    Nobody,     \* the owner of a document that does not exist yet, an absent argument
    Calls,      \* requests in flight
    Founders,   \* bound: the users who create the document
    Named,      \* bound: the users and addresses that requests name
    MaxTokens   \* bound: an address with so many tokens is not mailed another

ASSUME SharingAssumption ==
    /\ Nobody \notin Users
    /\ Founders \subseteq Users
    /\ Named \subseteq Users
    /\ MaxTokens \in Nat

Offers == {"EDITOR", "VIEWER"}
Roles == Offers \cup {"OWNER", "NONE"}
Statuses == {"NONE", "PENDING", "ACCEPTED", "DECLINED", "REVOKED"}

Permissions(r) ==
    CASE r = "OWNER"  -> {"read", "write", "restore", "manage", "delete"}
      [] r = "EDITOR" -> {"read", "write", "restore"}
      [] r = "VIEWER" -> {"read"}
      [] OTHER        -> {}

\* What authorize is asked for by each operation that calls it; "view" is any
\* read, "push" any edit, "admin" what only managers may do but touches none of
\* these tables (rename, listPending).
Action == [view |-> "read", push |-> "write", admin |-> "manage", delete |-> "delete",
           invite |-> "manage", revoke |-> "manage", resend |-> "manage",
           changeRole |-> "manage", remove |-> "manage", leave |-> "read"]

VARIABLES
    owner,      \* documents.ownerId
    deleted,    \* documents.deletedAt is set
    role,       \* the collaborator rows
    inv,        \* the invitation rows, one per address
    offered,    \* auxiliary: the roles an owner's request has given an address
    call,       \* the handlers
    could       \* auxiliary: since it arrived, the request has been one its author could make

tables == <<owner, deleted, role, inv, offered>>
vars == <<owner, deleted, role, inv, offered, call, could>>

Invitation == [status : Statuses, role : Roles, token : Nat, expired : BOOLEAN]
NoInvitation == [status |-> "NONE", role |-> "NONE", token |-> 0, expired |-> FALSE]

Ops == DOMAIN Action \cup {"restore", "preview", "accept", "decline"}
Points == {"arrived", "allowed", "checked", "found"}

\* about: the user or the address the request names; token, role: what it
\* carries, or has read.
Call == [op : Ops, by : Users, about : Users \cup {Nobody}, token : Nat, role : Roles,
         at : Points]

Request(op, u, about, token, r) ==
    [op |-> op, by |-> u, about |-> about, token |-> token, role |-> r, at |-> "arrived"]

Free(point) == [op |-> "view", by |-> Nobody, about |-> Nobody, token |-> 0, role |-> "NONE",
                at |-> point]
Idle == Free("idle")    \* no request, or one that was refused
Done == Free("done")    \* what was asked for has been done; the answer is due

Init ==
    /\ owner = Nobody
    /\ deleted = FALSE
    /\ role = [u \in Users |-> "NONE"]
    /\ inv = [u \in Users |-> NoInvitation]
    /\ offered = [u \in Users |-> {}]
    /\ call = [k \in Calls |-> Idle]
    /\ could = [k \in Calls |-> FALSE]

------------------------------------------------------------------------------
(***************************************************************************)
(* The steps of a handler                                                  *)
(***************************************************************************)
At(k, point) == call[k].at = point
Doing(k, op, point) == call[k].op = op /\ At(k, point)

MoveTo(k, point) == call' = [call EXCEPT ![k].at = point]
Finish(k) == call' = [call EXCEPT ![k] = Done]
Refuse(k) == call' = [call EXCEPT ![k] = Idle]
ProceedIf(k, ok, point) == IF ok THEN MoveTo(k, point) ELSE Refuse(k)
FinishIf(k, ok) == IF ok THEN Finish(k) ELSE Refuse(k)

\* access.repository find: a deleted document has no collaborators.
Can(u, action) ==
    /\ ~deleted
    /\ action \in Permissions(role[u])

\* What the user may do now: the measure of what a handler does later.
Entitled(k) ==
    LET r == call[k] IN
    /\ r \notin {Idle, Done}
    /\ \/ r.op = "restore" /\ owner = r.by /\ deleted
       \/ /\ r.op \in {"accept", "decline"}
          /\ inv[r.by].status = "PENDING"
          /\ inv[r.by].token = r.token
          /\ r.op = "accept" => ~inv[r.by].expired
       \/ r.op = "preview" /\ inv[r.by].token = r.token
       \/ r.op \in DOMAIN Action /\ Can(r.by, Action[r.op])

\* The requests that can arrive: each operation with what its route carries,
\* a link's token being one that was mailed.
Incoming ==
    {Request(op, u, Nobody, 0, "NONE") :
        op \in {"view", "push", "admin", "delete", "restore"}, u \in Users}
    \cup {Request("leave", u, u, 0, "NONE") : u \in Users}
    \cup {Request(op, u, v, 0, "NONE") :
        op \in {"remove", "revoke", "resend"}, u \in Users, v \in Named}
    \cup {Request(op, u, v, 0, o) :
        op \in {"invite", "changeRole"}, u \in Users, v \in Named, o \in Offers}
    \cup UNION {{Request(op, u, v, t, "NONE") :
        op \in {"preview", "accept", "decline"}, u \in Users, t \in 1 .. inv[v].token} :
            v \in Named}

Arrive(k) ==
    /\ At(k, "idle")
    /\ owner # Nobody
    /\ \E r \in Incoming :
          /\ r.op = "remove" => r.about # r.by
          /\ r.op \in {"invite", "resend"} => inv[r.about].token < MaxTokens
          /\ call' = [call EXCEPT ![k] = r]
    /\ UNCHANGED tables

\* The answer has been sent.
Answer(k) ==
    /\ At(k, "done")
    /\ call' = [call EXCEPT ![k] = Idle]
    /\ UNCHANGED tables

\* Mutant: changeRole and remove do not look at ownerId.
MutantProtectsOwner(k) ==
    \/ call[k].op = "invite" /\ call[k].about = call[k].by
    \/ call[k].op = "leave" /\ role[call[k].by] = "OWNER"

\* No invitation to oneself, no other role or removal for the owner, who
\* cannot leave either.  ownerId never changes, so the read is not a step.
ProtectsOwner(k) ==
    \/ call[k].op = "invite" /\ call[k].about = call[k].by
    \/ call[k].op \in {"changeRole", "remove"} /\ call[k].about = owner
    \/ call[k].op = "leave" /\ role[call[k].by] = "OWNER"

Authorize(k) ==
    /\ At(k, "arrived")
    /\ call[k].op \in DOMAIN Action
    /\ ProceedIf(k, Can(call[k].by, Action[call[k].op]) /\ ~ProtectsOwner(k), "allowed")
    /\ UNCHANGED tables

------------------------------------------------------------------------------
(***************************************************************************)
(* The document                                                            *)
(***************************************************************************)
CreateDocument(u) ==
    /\ owner = Nobody
    /\ u \in Founders
    /\ owner' = u
    /\ role' = [role EXCEPT ![u] = "OWNER"]
    /\ UNCHANGED <<deleted, inv, offered, call>>

\* Handlers whose work is none of these tables: reads, the title, operations.
Serve(k) ==
    /\ At(k, "allowed")
    /\ call[k].op \in {"view", "push", "admin"}
    /\ Finish(k)
    /\ UNCHANGED tables

SoftDelete(k) ==
    /\ Doing(k, "delete", "allowed")
    /\ deleted' = TRUE
    /\ Finish(k)
    /\ UNCHANGED <<owner, role, inv, offered>>

\* restore looks for the owner's deleted document itself, and then undeletes it.
FindDeleted(k) ==
    /\ Doing(k, "restore", "arrived")
    /\ ProceedIf(k, owner = call[k].by /\ deleted, "found")
    /\ UNCHANGED tables

Restore(k) ==
    /\ Doing(k, "restore", "found")
    /\ deleted' = FALSE
    /\ Finish(k)
    /\ UNCHANGED <<owner, role, inv, offered>>

------------------------------------------------------------------------------
(***************************************************************************)
(* Collaborators                                                           *)
(***************************************************************************)
ChangeRole(k) ==
    LET u == call[k].about IN
    /\ Doing(k, "changeRole", "allowed")
    /\ IF role[u] = "NONE"
       THEN /\ Refuse(k)
            /\ UNCHANGED <<role, offered>>
       ELSE /\ Finish(k)
            /\ role' = [role EXCEPT ![u] = call[k].role]
            /\ offered' = [offered EXCEPT ![u] = @ \cup {call[k].role}]
    /\ UNCHANGED <<owner, deleted, inv>>

Remove(k) ==
    LET u == call[k].about IN
    /\ call[k].op \in {"remove", "leave"}
    /\ At(k, "allowed")
    /\ FinishIf(k, role[u] # "NONE")
    /\ role' = [role EXCEPT ![u] = "NONE"]
    /\ UNCHANGED <<owner, deleted, inv, offered>>

------------------------------------------------------------------------------
(***************************************************************************)
(* Invitations                                                             *)
(***************************************************************************)
\* create: is the invitee a collaborator already?
CheckInvitee(k) ==
    /\ Doing(k, "invite", "allowed")
    /\ ProceedIf(k, role[call[k].about] = "NONE", "checked")
    /\ UNCHANGED tables

\* create: the upsert, a new token and PENDING whatever the row was.
Invite(k) ==
    LET u == call[k].about IN
    /\ Doing(k, "invite", "checked")
    /\ inv' = [inv EXCEPT ![u] = [status |-> "PENDING", role |-> call[k].role,
                                  token |-> @.token + 1, expired |-> FALSE]]
    /\ offered' = [offered EXCEPT ![u] = @ \cup {call[k].role}]
    /\ Finish(k)
    /\ UNCHANGED <<owner, deleted, role>>

Revoke(k) ==
    LET u == call[k].about IN
    /\ Doing(k, "revoke", "allowed")
    /\ IF inv[u].status = "PENDING"
       THEN /\ inv' = [inv EXCEPT ![u].status = "REVOKED"]
            /\ Finish(k)
       ELSE /\ Refuse(k)
            /\ UNCHANGED inv
    /\ UNCHANGED <<owner, deleted, role, offered>>

FindPending(k) ==
    /\ Doing(k, "resend", "allowed")
    /\ ProceedIf(k, inv[call[k].about].status = "PENDING", "found")
    /\ UNCHANGED tables

\* resend: a new token and expiry, whatever the status is by now.
Resend(k) ==
    LET u == call[k].about IN
    /\ Doing(k, "resend", "found")
    /\ inv' = [inv EXCEPT ![u].token = @ + 1, ![u].expired = FALSE]
    /\ Finish(k)
    /\ UNCHANGED <<owner, deleted, role, offered>>

\* The token finds the row, and the address it was sent to is the reader's.
Presents(k) ==
    LET r == call[k] IN inv[r.about].token = r.token /\ r.about = r.by

\* What the link offers; any other reader is told the address and the status.
Preview(k) ==
    /\ Doing(k, "preview", "arrived")
    /\ FinishIf(k, Presents(k))
    /\ UNCHANGED tables

\* Mutant: the address the link was sent to is not compared with the actor's.
MutantMayResolve(k) ==
    LET row == inv[call[k].about] IN
    /\ row.token = call[k].token
    /\ row.status = "PENDING"
    /\ call[k].op = "accept" => ~row.expired

\* Mutant: a link that was used, declined or revoked still works.
MutantStillPending(k) == Presents(k)

\* The guards of accept and decline, on the row as it was read.
MayResolve(k) ==
    /\ Presents(k)
    /\ inv[call[k].about].status = "PENDING"
    /\ call[k].op = "accept" => ~inv[call[k].about].expired

FindInvitation(k) ==
    /\ call[k].op \in {"accept", "decline"}
    /\ At(k, "arrived")
    /\ IF MayResolve(k)
       THEN call' = [call EXCEPT ![k].at = "found", ![k].role = inv[call[k].about].role]
       ELSE Refuse(k)
    /\ UNCHANGED tables

\* accept's transaction: the role that was read, and the row by its id.
Accept(k) ==
    LET r == call[k] IN
    /\ Doing(k, "accept", "found")
    /\ role' = [role EXCEPT ![r.by] = r.role]
    /\ inv' = [inv EXCEPT ![r.about].status = "ACCEPTED"]
    /\ Finish(k)
    /\ UNCHANGED <<owner, deleted, offered>>

Decline(k) ==
    /\ Doing(k, "decline", "found")
    /\ inv' = [inv EXCEPT ![call[k].about].status = "DECLINED"]
    /\ Finish(k)
    /\ UNCHANGED <<owner, deleted, role, offered>>

\* Mutant: the expiry is stored as the status preview shows.
MutantExpire(u) ==
    /\ inv[u].status = "PENDING" /\ ~inv[u].expired
    /\ inv' = [inv EXCEPT ![u].status = "EXPIRED", ![u].expired = TRUE]
    /\ UNCHANGED <<owner, deleted, role, offered, call>>

\* An invitation's expiresAt passes.
Expire(u) ==
    /\ inv[u].status = "PENDING" /\ ~inv[u].expired
    /\ inv' = [inv EXCEPT ![u].expired = TRUE]
    /\ UNCHANGED <<owner, deleted, role, offered, call>>

------------------------------------------------------------------------------
Handle(k) ==
    \/ Arrive(k) \/ Authorize(k) \/ Serve(k) \/ Answer(k)
    \/ SoftDelete(k) \/ FindDeleted(k) \/ Restore(k)
    \/ ChangeRole(k) \/ Remove(k)
    \/ CheckInvitee(k) \/ Invite(k) \/ Revoke(k) \/ FindPending(k) \/ Resend(k)
    \/ Preview(k) \/ FindInvitation(k) \/ Accept(k) \/ Decline(k)

\* The measure is taken in every state a request lives through.
Measure ==
    could' = [k \in Calls |-> ~At(k, "idle")' /\ (could[k] \/ Entitled(k)')]

Next ==
    /\ \/ \E k \in Calls : Handle(k)
       \/ \E u \in Users : CreateDocument(u) \/ Expire(u)
    /\ Measure

Spec == Init /\ [][Next]_vars

------------------------------------------------------------------------------
TypeOK ==
    /\ owner \in Users \cup {Nobody}
    /\ deleted \in BOOLEAN
    /\ role \in [Users -> Roles]
    /\ inv \in [Users -> Invitation]
    /\ offered \in [Users -> SUBSET Offers]
    /\ call \in [Calls -> Call \cup {Idle, Done}]
    /\ could \in [Calls -> BOOLEAN]

\* documents.ownerId and the collaborator table name the same, one owner: no
\* order of invitations, acceptances, role changes and removals demotes or
\* removes the owner or makes another (document.repository create,
\* collaborator.repository, invitation.repository).
OneOwner ==
    \A u \in Users : role[u] = "OWNER" <=> u = owner

\* A collaborator other than the owner was offered the role they have by an
\* owner's request naming them: no link, to whomever it is forwarded and
\* however late it is used, grants anything else (invitation accept).
RoleWasOffered ==
    \A u \in Users \ {owner} : role[u] = "NONE" \/ role[u] \in offered[u]

\* Whatever a handler read before its last await, what it then did is
\* something its author could do at some moment after the request arrived: an
\* authorization is never older than the request (access authorize, invitation
\* accept and decline, document restore).
DoneWasAllowed ==
    \A k \in Calls : At(k, "done") => could[k]

\* The step in which a request of u's for one of ops takes effect.
Acts(k, ops, u) ==
    /\ call[k].op \in ops /\ call[k].by = u /\ could[k]
    /\ call'[k] = Done

\* Whatever handlers are between their reads and their writes: a role or an
\* invitation is changed by the user it is about, with a link of their own or
\* by leaving, or by the owner, and the document is deleted and restored by
\* its owner, each by a request its author could make (collaborator and
\* invitation repositories, document.repository softDelete, restore).
ChangesHaveAuthors ==
    [][/\ \A u \in Users :
            /\ role'[u] # role[u] =>
                  \/ owner = Nobody /\ owner' = u
                  \/ /\ u # owner
                     /\ \E k \in Calls : \/ Acts(k, {"accept", "leave"}, u)
                                         \/ Acts(k, {"changeRole", "remove"}, owner)
            /\ inv'[u].status # inv[u].status =>
                  \E k \in Calls : \/ Acts(k, {"accept", "decline"}, u)
                                  \/ Acts(k, {"invite", "revoke"}, owner)
       /\ deleted' # deleted => \E k \in Calls : Acts(k, {"delete", "restore"}, owner)]_vars
==============================================================================
