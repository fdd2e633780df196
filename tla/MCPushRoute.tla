---------------------------- MODULE MCPushRoute ----------------------------
(***************************************************************************)
(* Small instances of PushRoute.                                           *)
(***************************************************************************)
EXTENDS PushRoute, TLC

CONSTANTS writer, reader, k1, k2, x, y, a1, a2, a3

From(u, k, b) == [user |-> u, key |-> k, body |-> b]

\* A writer who retries, under the same key or another, with the same body or
\* a longer one, and a reader who uses the writer's key.
MCSends ==
    {From(writer, k1, {x}), From(writer, k1, {x, y}), From(writer, k2, {x, y}),
     From(reader, k1, {x})}

MCSymmetry == Permutations(Attempts)
=============================================================================
