---------------------------- MODULE MCCommitLog ----------------------------
(***************************************************************************)
(* Small instances of CommitLog.                                           *)
(***************************************************************************)
EXTENDS CommitLog, TLC

CONSTANTS d1, d2, ed, vw, a, b, r1, r2, r3, i1, i2

Push(via, user, doc, ops) == [via |-> via, user |-> user, doc |-> doc, ops |-> ops]

\* ed owns both documents, vw may only read d1 and has nothing to do with d2.
MCRoleOf == [x \in Users \X Docs |->
    IF x[1] = ed THEN "OWNER" ELSE IF x[2] = d1 THEN "VIEWER" ELSE "NONE"]

\* Two owners of one document.
MCBothOwn == [x \in Users \X Docs |-> "OWNER"]

\* Both requests on one process, so that a crash takes both.
MCOneInstance == [r \in Requests |-> i1]

\* The first request on one process, the others sharing a second.
MCInstanceOf == [r \in Requests |-> IF r = r1 THEN i1 ELSE i2]

\* Two documents, the same ids in both orders in each, a batch that repeats
\* an id on both transports, and a user who may not write.
MCPushesTwoDocs ==
    {Push("http", ed, d, s) : d \in {d1, d2}, s \in {<<a, b>>, <<b, a>>}}
    \cup {Push("http", ed, d1, <<a>>)}
    \cup {Push(via, ed, d1, <<a, a>>) : via \in {"http", "ws"}}
    \cup {Push("ws", vw, d, <<b>>) : d \in {d1, d2}}

\* One document, two authors, batches that overlap in every way.
MCPushesOneDoc ==
    {Push("ws", ed, d1, <<a>>), Push("ws", ed, d1, <<a, b>>),
     Push("http", vw, d1, <<b, a>>)}

\* The second and third requests are served by one process and differ in
\* nothing else.
MCSymmetry == Permutations({r2, r3})
=============================================================================
