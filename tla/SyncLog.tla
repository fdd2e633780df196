------------------------------- MODULE SyncLog -------------------------------
(***************************************************************************)
(* What the commit pipeline promises, with no database in sight: every     *)
(* document has an append-only log of operation identities, and a push     *)
(* changes the logs at most once, by appending, in the batch's own order,  *)
(* exactly those of its operations that no document stores yet.            *)
(* CommitLog is shown to implement this specification.                     *)
(***************************************************************************)
EXTENDS Naturals, Sequences, Functions

CONSTANTS
    Docs,       \* documents
    Requests    \* pushes

VARIABLES
    push,       \* push[r]: what request r asks for
    log,        \* log[d]: the identities of document d's operations, oldest first
    closed      \* the requests that can no longer change a log

vars == <<push, log, closed>>

Stored == UNION {Range(log[d]) : d \in Docs}

\* The operations of a batch that no document stores yet.
NewIds(r) == Range(push[r].ops) \ Stored

\* s follows the order of ops and, where they agree, neither names anything twice.
InOrderOf(s, ops) ==
    \A i, j \in DOMAIN s : \A m, n \in DOMAIN ops :
        s[i] = ops[m] /\ s[j] = ops[n] => (i < j <=> m < n)

Init ==
    /\ log = [d \in Docs |-> << >>]
    /\ closed = {}

(***************************************************************************)
(* The whole batch takes effect at once.  A batch that names a new         *)
(* operation twice never does: no sequence is in its order.                *)
(***************************************************************************)
Store(r) ==
    /\ r \notin closed
    /\ \E s \in UNION {[1..n -> NewIds(r)] : n \in 0..Len(push[r].ops)} :
          /\ Range(s) = NewIds(r)
          /\ InOrderOf(s, push[r].ops)
          /\ log' = [log EXCEPT ![push[r].doc] = @ \o s]
    /\ closed' = closed \cup {r}
    /\ UNCHANGED push

(***************************************************************************)
(* Pushes that are refused, that fail or that are lost leave no trace; a   *)
(* crash loses several at once.                                            *)
(***************************************************************************)
Drop(R) ==
    /\ R \cap closed = {}
    /\ closed' = closed \cup R
    /\ UNCHANGED <<push, log>>

Next ==
    \/ \E r \in Requests : Store(r)
    \/ \E R \in SUBSET Requests : Drop(R)

Spec == Init /\ [][Next]_vars

==============================================================================
