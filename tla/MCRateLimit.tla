----------------------------- MODULE MCRateLimit -----------------------------
(***************************************************************************)
(* Small instances of RateLimit.                                           *)
(***************************************************************************)
EXTENDS RateLimit, TLC

CONSTANTS req, ops, r1, r2

\* Windows of two ticks; requests have the looser budget.
MCLimit == [key \in Keys |-> IF key = req THEN 2 ELSE 1]
MCWindow == [key \in Keys |-> 2]

\* A budget that two operations fit, and no more.
MCOpsLimit == [key \in Keys |-> 2]

MCPaths == {<<req, ops>>}

MCSymmetry == Permutations({r1, r2})
==============================================================================
