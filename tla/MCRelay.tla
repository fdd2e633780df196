------------------------------ MODULE MCRelay ------------------------------
(***************************************************************************)
(* Small instances of Relay.                                               *)
(***************************************************************************)
EXTENDS Relay, TLC

CONSTANTS c1, c2, d1, u1, k1

\* Every connection is the same user's.
MCUserOf == [c \in Conns |-> u1]

MCSymmetry == Permutations({c1, c2})
=============================================================================
