------------------------------ MODULE MCSharing ------------------------------
(***************************************************************************)
(* A small instance of Sharing.                                            *)
(***************************************************************************)
EXTENDS Sharing, TLC

CONSTANTS u1, u2, u3, k1, k2

MCSymmetry == Permutations({k1, k2})
==============================================================================
