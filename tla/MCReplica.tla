------------------------------ MODULE MCReplica ------------------------------
(***************************************************************************)
(* A small instance of Replica.                                            *)
(***************************************************************************)
EXTENDS Replica

CONSTANTS c1, c2, k1, k2, u1

\* One call of each client; the first client's updates its session.
MCClientOf == [k \in Calls |-> IF k = k2 THEN c2 ELSE c1]
==============================================================================
