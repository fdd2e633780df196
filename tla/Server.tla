-------------------------------- MODULE Server --------------------------------
(***************************************************************************)
(* The life of one server process: HTTP requests pass the gates of the     *)
(* route plugins, the handlers of pushes and of AI streams run and fail at *)
(* their awaits, clients leave, sockets stay open, and a signal starts a   *)
(* drain that ends in a clean exit, in the force timer, or in a second     *)
(* signal.  What the handlers do to the database is in the other modules;  *)
(* here a push has taken effect or it has not.                             *)
(***************************************************************************)
EXTENDS Naturals

CONSTANTS
    Requests,   \* HTTP requests
    Sockets     \* WebSocket connections

Codes == {"BAD_REQUEST", "VALIDATION_FAILED", "PAYLOAD_TOO_LARGE", "UNAUTHENTICATED",
          "FORBIDDEN", "NOT_FOUND", "CONFLICT", "IDEMPOTENCY_MISMATCH", "GONE",
          "RATE_LIMITED", "INTERNAL"}

\* Mutant: a failure of the server is not worth a retry.
MutantRetryable == {"CONFLICT", "RATE_LIMITED"}

Retryable == {"CONFLICT", "RATE_LIMITED", "INTERNAL"}

VARIABLES
    phase,      \* of the process
    clean,      \* it exited with code 0
    req,        \* the requests
    sock        \* the sockets: upgrading while the token is verified, then open

vars == <<phase, clean, req, sock>>

Stages == {"none", "limiting", "parsing", "authenticating", "budgeting", "validating",
           "replaying", "authorizing", "committing", "recording",
           "checking", "generating", "answered"}

\* gone: the client has closed the connection; aborted: the handler was told.
\* effect: the batch is committed.  called: the model was asked; out: it has
\* produced text; terminal: the done and error chunks sent; log: the history row.
Request == [kind : {"push", "ai"}, stage : Stages, code : Codes \cup {"none", "OK", "UNAVAILABLE"},
            gone : BOOLEAN, aborted : BOOLEAN, effect : BOOLEAN,
            called : BOOLEAN, out : BOOLEAN, terminal : Nat,
            log : {"none", "pending", "written", "lost"}]

NoRequest == [kind |-> "push", stage |-> "none", code |-> "none", gone |-> FALSE,
              aborted |-> FALSE, effect |-> FALSE, called |-> FALSE, out |-> FALSE,
              terminal |-> 0, log |-> "none"]

Init ==
    /\ phase = "up"
    /\ clean = FALSE
    /\ req = [r \in Requests |-> NoRequest]
    /\ sock = [s \in Sockets |-> "closed"]

------------------------------------------------------------------------------
(***************************************************************************)
(* The gates every request passes                                          *)
(***************************************************************************)
Running == phase # "exited"
At(r, stage) == Running /\ req[r].stage = stage

Step(r, new) ==
    /\ req' = [req EXCEPT ![r] = new]
    /\ UNCHANGED <<phase, clean, sock>>

Goes(r, stage) == [req[r] EXCEPT !.stage = stage]

\* The error handler's answer, or a route's.
Answered(x, code) == [x EXCEPT !.stage = "answered", !.code = code]

\* A gate lets the request through or answers with one of its errors.
Gate(r, stage, codes, next) ==
    /\ At(r, stage)
    /\ \/ Step(r, Goes(r, next))
       \/ \E code \in codes : Step(r, Answered(req[r], code))

\* Once close() has been called no request is taken ...
Accept(r) ==
    /\ At(r, "none")
    /\ phase = "up"
    /\ \E kind \in {"push", "ai"} : Step(r, [NoRequest EXCEPT !.kind = kind, !.stage = "limiting"])

\* ... and one on a connection that was kept alive gets Fastify's own 503.
TurnAway(r) ==
    /\ At(r, "none")
    /\ phase = "draining"
    /\ Step(r, Answered(NoRequest, "UNAVAILABLE"))

\* onRequest: the address's budget.
IpRateLimit(r) == Gate(r, "limiting", {"RATE_LIMITED", "INTERNAL"}, "parsing")

\* Mutant: Fastify's codes reach the client as they are.
MutantParseBody(r) ==
    Gate(r, "parsing", {"PAYLOAD_TOO_LARGE", "FST_ERR_CTP_INVALID_MEDIA_TYPE"}, "authenticating")

\* The byte cap, and Fastify's own errors.
ParseBody(r) == Gate(r, "parsing", {"PAYLOAD_TOO_LARGE", "BAD_REQUEST"}, "authenticating")

RequireAuth(r) == Gate(r, "authenticating", {"UNAUTHENTICATED"}, "budgeting")

ActorRateLimit(r) == Gate(r, "budgeting", {"RATE_LIMITED", "INTERNAL"}, "validating")

\* The route's schema; a stream's headers are sent before its handler goes on.
Validate(r) ==
    Gate(r, "validating", {"VALIDATION_FAILED", "BAD_REQUEST"},
         IF req[r].kind = "push" THEN "replaying" ELSE "checking")

------------------------------------------------------------------------------
(***************************************************************************)
(* A push                                                                  *)
(***************************************************************************)
\* A stored response is sent again; a key used for another body is refused.
Replay(r) ==
    Gate(r, "replaying", {"OK", "IDEMPOTENCY_MISMATCH", "INTERNAL"}, "authorizing")

Authorize(r) ==
    Gate(r, "authorizing", {"NOT_FOUND", "FORBIDDEN", "RATE_LIMITED", "INTERNAL"}, "committing")

\* The transaction: refused, failed, committed, or committed and not confirmed.
Commit(r) ==
    LET done == [req[r] EXCEPT !.effect = TRUE] IN
    /\ At(r, "committing")
    /\ \/ Step(r, [done EXCEPT !.stage = "recording"])
       \/ Step(r, Answered(done, "INTERNAL"))
       \/ \E code \in {"NOT_FOUND", "INTERNAL"} : Step(r, Answered(req[r], code))

\* The response is stored under its key, or in silence is not.
Record(r) ==
    /\ At(r, "recording")
    /\ Step(r, Answered(req[r], "OK"))

------------------------------------------------------------------------------
(***************************************************************************)
(* An AI stream                                                            *)
(***************************************************************************)
\* A chunk that ends the stream; the loop of the route stops at an abort
\* before it sends it.
SendTerminal(x) == [x EXCEPT !.terminal = IF x.aborted THEN @ ELSE @ + 1]

\* The generator's finally: the history row is on its way, and not awaited.
Ends(x) == [Answered(x, "OK") EXCEPT !.log = "pending"]

\* What is wrong before the model is called is thrown, and reported in-stream.
CheckCall(r) ==
    /\ At(r, "checking")
    /\ \/ Step(r, [Goes(r, "generating") EXCEPT !.called = TRUE])
       \/ Step(r, [Answered(req[r], "OK") EXCEPT !.terminal = @ + 1])

Delta(r) ==
    /\ At(r, "generating")
    /\ Step(r, IF req[r].aborted THEN Ends([req[r] EXCEPT !.out = TRUE])
               ELSE [req[r] EXCEPT !.out = TRUE])

\* Mutant: an empty completion is reported, and then the stream goes on to "done".
MutantModelEnds(r) ==
    /\ At(r, "generating")
    /\ Step(r, Ends(IF req[r].out THEN SendTerminal(req[r])
                    ELSE SendTerminal(SendTerminal(req[r]))))

\* "done", or an error when the model failed or produced nothing.
ModelEnds(r) ==
    /\ At(r, "generating")
    /\ Step(r, Ends(SendTerminal(req[r])))

WriteHistory(r) ==
    /\ Running
    /\ req[r].log = "pending"
    /\ \E log \in {"written", "lost"} : Step(r, [req[r] EXCEPT !.log = log])

------------------------------------------------------------------------------
(***************************************************************************)
(* Clients                                                                 *)
(***************************************************************************)
Waiting(r) == req[r].stage \notin {"none", "answered"} /\ ~req[r].gone

\* A client leaves; whether the request's close event reaches the stream's
\* listener is up to the runtime.
Leave(r) ==
    /\ Running
    /\ Waiting(r)
    /\ \E told \in BOOLEAN :
          /\ told => req[r].stage \in {"checking", "generating"}
          /\ Step(r, [req[r] EXCEPT !.gone = TRUE, !.aborted = told])

\* The answer is read, the history row settled: the next request.
Forget(r) ==
    /\ At(r, "answered")
    /\ req[r].log # "pending"
    /\ Step(r, NoRequest)

\* The upgrade event: the token is verified, in a drain on a connection that
\* was kept alive as before it.
Upgrade(s) ==
    /\ phase \in {"up", "draining"} /\ sock[s] = "closed"
    /\ sock' = [sock EXCEPT ![s] = "upgrading"]
    /\ UNCHANGED <<phase, clean, req>>

\* Nothing asks whether a drain has begun meanwhile.
OpenSocket(s) ==
    /\ Running /\ sock[s] = "upgrading"
    /\ sock' = [sock EXCEPT ![s] = "open"]
    /\ UNCHANGED <<phase, clean, req>>

\* The client leaves, or the token is refused.
CloseSocket(s) ==
    /\ Running /\ sock[s] # "closed"
    /\ sock' = [sock EXCEPT ![s] = "closed"]
    /\ UNCHANGED <<phase, clean, req>>

------------------------------------------------------------------------------
(***************************************************************************)
(* Shutdown                                                                *)
(***************************************************************************)
Exit(zero) ==
    /\ phase' = "exited"
    /\ clean' = zero
    /\ UNCHANGED <<req, sock>>

\* SIGTERM, SIGINT, an unhandled rejection or an uncaught exception.
Shutdown ==
    \/ /\ phase = "up"
       /\ phase' = "draining"
       /\ UNCHANGED <<clean, req, sock>>
    \/ /\ phase \in {"draining", "disconnecting"}
       /\ Exit(FALSE)

\* What close() waits for: the server's connections, upgraded ones included.
Drained ==
    /\ \A r \in Requests : ~Waiting(r)
    /\ \A s \in Sockets : sock[s] = "closed"

\* Mutant: the drain waits for the sockets only.
MutantClose ==
    /\ phase = "draining"
    /\ \A s \in Sockets : sock[s] = "closed"
    /\ phase' = "disconnecting"
    /\ UNCHANGED <<clean, req, sock>>

Close ==
    /\ phase = "draining"
    /\ Drained
    /\ phase' = "disconnecting"
    /\ UNCHANGED <<clean, req, sock>>

\* The pool is closed and the process exits, with 1 if that failed.
Disconnect ==
    /\ phase = "disconnecting"
    /\ \E zero \in BOOLEAN : Exit(zero)

\* Mutant: the force timer is cleared once the drain has begun.
MutantForceExit ==
    /\ phase = "disconnecting"
    /\ Exit(FALSE)

\* The 15 seconds are over.
ForceExit ==
    /\ phase \in {"draining", "disconnecting"}
    /\ Exit(FALSE)

\* SIGKILL: by the process manager, or by the kernel.
Kill == Running /\ Exit(FALSE)

\* The process manager starts it again; what was in memory is gone.
Restart ==
    /\ phase = "exited"
    /\ phase' = "up"
    /\ clean' = FALSE
    /\ req' = [r \in Requests |-> NoRequest]
    /\ sock' = [s \in Sockets |-> "closed"]

------------------------------------------------------------------------------
Handle(r) ==
    \/ Accept(r) \/ TurnAway(r) \/ IpRateLimit(r) \/ ParseBody(r) \/ RequireAuth(r) \/ ActorRateLimit(r)
    \/ Validate(r)
    \/ Replay(r) \/ Authorize(r) \/ Commit(r) \/ Record(r)
    \/ CheckCall(r) \/ Delta(r) \/ ModelEnds(r) \/ WriteHistory(r)
    \/ Leave(r) \/ Forget(r)

Next ==
    \/ \E r \in Requests : Handle(r)
    \/ \E s \in Sockets : Upgrade(s) \/ OpenSocket(s) \/ CloseSocket(s)
    \/ Shutdown \/ Close \/ Disconnect \/ ForceExit \/ Kill \/ Restart

Spec == Init /\ [][Next]_vars

\* The timer is the process's own; nothing else of the drain is sure to happen.
FairSpec == Spec /\ WF_vars(ForceExit)

------------------------------------------------------------------------------
TypeOK ==
    /\ phase \in {"up", "draining", "disconnecting", "exited"}
    /\ clean \in BOOLEAN
    /\ req \in [Requests -> Request]
    /\ sock \in [Sockets -> {"upgrading", "open", "closed"}]

\* A process that exits with 0 leaves nobody behind: no client still connected
\* is waiting for an answer, and no socket is cut (main.ts: finish what was
\* accepted, then exit).
NobodyWaitsAtCleanExit ==
    phase = "exited" /\ clean => Drained

\* A client whose push took effect and was answered with an error is told to
\* retry it, never to put it with the dead letters (errors.ts,
\* error.middleware).
EffectIsNeverDeadLettered ==
    \A r \in Requests :
        req[r].effect /\ req[r].code \in Codes => req[r].code \in Retryable

\* However a stream ends, its reader gets exactly one closing chunk, unless it
\* was seen to leave, and exactly the calls of the model have a history row
\* under way (ai.service stream, ai.routes).
StreamAccounted ==
    \A r \in Requests : req[r].kind = "ai" /\ req[r].stage = "answered" /\ req[r].code = "OK" =>
        /\ req[r].terminal = 1 \/ (req[r].terminal = 0 /\ req[r].aborted)
        /\ req[r].called <=> req[r].log # "none"

\* A drain ends, even with sockets that stay open and handlers that hang
\* (main.ts: the forced-exit timer).
ShutdownEnds == phase = "draining" ~> phase = "exited"
==============================================================================
