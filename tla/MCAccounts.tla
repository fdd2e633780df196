------------------------------ MODULE MCAccounts ------------------------------
(***************************************************************************)
(* A small instance of Accounts.                                           *)
(***************************************************************************)
EXTENDS Accounts, TLC

CONSTANTS k1, k2, p1, p2

MCMaxCodes == [register |-> 1, send |-> 2, forgot |-> 1]

MCSymmetry == Permutations({k1, k2}) \cup Permutations({p1, p2})
==============================================================================
