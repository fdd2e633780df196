------------------------------- MODULE MCServer -------------------------------
(***************************************************************************)
(* A small instance of Server.                                             *)
(***************************************************************************)
EXTENDS Server

CONSTANTS r1, r2, s1
==============================================================================
