---------------------------- MODULE Server_proofs ----------------------------
(***************************************************************************)
(* Proofs about Server: types, what a clean exit leaves behind, the codes  *)
(* of pushes that took effect and the accounts of AI streams, for any      *)
(* number of requests and sockets.                                         *)
(***************************************************************************)
EXTENDS Server, TLAPS

Gates == {"limiting", "parsing", "authenticating", "budgeting", "validating"}
PushStages == {"replaying", "authorizing", "committing", "recording"}

\* What is true of a request at each stage, whoever else is being served.
Sound(x) ==
    /\ x \in Request
    /\ x.kind = "ai" => x.stage \notin PushStages
    /\ x.effect =>
          \/ x.stage = "recording"
          \/ x.stage = "answered" /\ x.code \in {"OK", "INTERNAL"}
    /\ x.stage \notin {"generating", "answered"} => ~x.called /\ x.terminal = 0 /\ x.log = "none"
    /\ x.stage # "answered" => x.code = "none"
    /\ x.stage = "generating" => x.called /\ x.terminal = 0 /\ x.log = "none"
    /\ x.kind = "ai" /\ x.stage = "answered" /\ x.code = "OK" =>
          /\ x.terminal = 1 \/ (x.terminal = 0 /\ x.aborted)
          /\ x.called <=> x.log # "none"

Done(x) == x.stage \in {"none", "answered"} \/ x.gone

\* Once the drain is over nobody waits, and nobody comes any more.
Quiet == phase = "disconnecting" \/ (phase = "exited" /\ clean) => Drained

IInv ==
    /\ TypeOK
    /\ \A r \in Requests : Sound(req[r])
    /\ Quiet
    /\ clean => phase = "exited"

------------------------------------------------------------------------------
LEMMA Fresh == Sound(NoRequest) /\ NoRequest.stage = "none"
BY DEF NoRequest, Sound, Request, Stages, PushStages

LEMMA InitInv == Init => IInv
BY Fresh DEF Init, IInv, TypeOK, Sound, Quiet

\* A step of one request, given what it is afterwards.
LEMMA StepKept ==
    ASSUME IInv, NEW r \in Requests, NEW x, Running, Step(r, x), Sound(x),
           phase = "up" \/ (Done(req[r]) => Done(x))
    PROVE  IInv'
<1>1. /\ req' = [req EXCEPT ![r] = x] /\ UNCHANGED <<phase, clean, sock>>
      /\ phase # "exited"
  BY DEF Step, Running
<1>2. TypeOK' /\ (clean => phase = "exited")'
  BY <1>1 DEF IInv, TypeOK, Sound
<1>3. \A q \in Requests : Sound(req'[q])
  BY <1>1 DEF IInv, TypeOK
<1>4. Quiet'
  <2>1. CASE phase = "disconnecting"
    <3>1. \A q \in Requests : Done(req[q])
      BY <2>1 DEF IInv, Quiet, Drained, Waiting, Done
    <3>2. \A q \in Requests : Done(req'[q])
      BY <1>1, <2>1, <3>1 DEF IInv, TypeOK
    <3> QED
      BY <1>1, <2>1, <3>2 DEF IInv, Quiet, Drained, Waiting, Done
  <2>2. CASE phase # "disconnecting"
    BY <1>1, <2>2 DEF Quiet
  <2> QED
    BY <2>1, <2>2
<1> QED
  BY <1>2, <1>3, <1>4 DEF IInv

\* A gate: the next stage, or an error, and nothing else of the request.
LEMMA GateKept ==
    ASSUME IInv, NEW r \in Requests,
           NEW stage \in Gates \cup (PushStages \ {"recording"}),
           NEW codes \in SUBSET (Codes \cup {"OK"}), NEW next \in Stages,
           Gate(r, stage, codes, next),
           stage = "replaying" \/ "OK" \notin codes,
           next \notin {"none", "generating", "answered", "recording"},
           req[r].kind = "ai" => next \notin PushStages
    PROVE  IInv'
<1>1. Sound(req[r]) /\ Running /\ req[r].stage = stage /\ ~req[r].effect
  BY DEF IInv, Gate, At, Sound, Gates, PushStages
<1>2. CASE Step(r, Goes(r, next))
  <2>1. Sound(Goes(r, next))
    BY <1>1 DEF Goes, Sound, Request, Gates, PushStages
  <2>2. Done(req[r]) => Done(Goes(r, next))
    BY <1>1 DEF Goes, Done, Sound, Request, Gates, PushStages
  <2> QED
    BY <1>1, <1>2, <2>1, <2>2, StepKept
<1>3. CASE \E code \in codes : Step(r, Answered(req[r], code))
  <2>1. PICK code \in codes : Step(r, Answered(req[r], code))
    BY <1>3
  <2>2. Sound(Answered(req[r], code))
    BY <1>1 DEF Answered, Sound, Request, Stages, Gates, PushStages
  <2>3. Done(Answered(req[r], code))
    BY <1>1 DEF Answered, Done, Sound, Request
  <2> QED
    BY <1>1, <2>1, <2>2, <2>3, StepKept
<1> QED
  BY <1>2, <1>3 DEF Gate

LEMMA AcceptKept == ASSUME IInv, NEW r \in Requests, Accept(r) PROVE IInv'
<1>1. PICK kind \in {"push", "ai"} :
           Step(r, [NoRequest EXCEPT !.kind = kind, !.stage = "limiting"])
  BY DEF Accept
<1>2. Sound([NoRequest EXCEPT !.kind = kind, !.stage = "limiting"])
  BY DEF NoRequest, Sound, Request, Stages, PushStages
<1> QED
  BY <1>1, <1>2, StepKept DEF Accept, At

LEMMA TurnAwayKept == ASSUME IInv, NEW r \in Requests, TurnAway(r) PROVE IInv'
<1> DEFINE x == Answered(NoRequest, "UNAVAILABLE")
<1>1. Running /\ Step(r, x)
  BY DEF TurnAway, At
<1>2. Sound(x) /\ Done(x)
  BY DEF NoRequest, Answered, Sound, Done, Request, Stages, PushStages
<1> QED
  BY <1>1, <1>2, StepKept

LEMMA CommitKept == ASSUME IInv, NEW r \in Requests, Commit(r) PROVE IInv'
<1> DEFINE done == [req[r] EXCEPT !.effect = TRUE]
<1>1. Sound(req[r]) /\ Running /\ req[r].stage = "committing" /\ ~req[r].effect
  BY DEF IInv, Commit, At, Sound
<1>2. CASE Step(r, [done EXCEPT !.stage = "recording"])
  <2>1. Sound([done EXCEPT !.stage = "recording"])
    BY <1>1 DEF Sound, Request, Stages, PushStages
  <2>2. Done(req[r]) => Done([done EXCEPT !.stage = "recording"])
    BY <1>1 DEF Done, Sound, Request
  <2> QED
    BY <1>1, <1>2, <2>1, <2>2, StepKept
<1>3. CASE Step(r, Answered(done, "INTERNAL"))
  <2>1. Sound(Answered(done, "INTERNAL")) /\ Done(Answered(done, "INTERNAL"))
    BY <1>1 DEF Sound, Done, Answered, Request, Stages, Codes, PushStages
  <2> QED
    BY <1>1, <1>3, <2>1, StepKept
<1>4. CASE \E code \in {"NOT_FOUND", "INTERNAL"} : Step(r, Answered(req[r], code))
  <2>1. PICK code \in {"NOT_FOUND", "INTERNAL"} : Step(r, Answered(req[r], code))
    BY <1>4
  <2>2. Sound(Answered(req[r], code)) /\ Done(Answered(req[r], code))
    BY <1>1 DEF Sound, Done, Answered, Request, Stages, Codes, PushStages
  <2> QED
    BY <1>1, <2>1, <2>2, StepKept
<1> QED
  BY <1>2, <1>3, <1>4 DEF Commit

LEMMA RecordKept == ASSUME IInv, NEW r \in Requests, Record(r) PROVE IInv'
<1>1. Sound(req[r]) /\ Running /\ req[r].stage = "recording" /\ Step(r, Answered(req[r], "OK"))
  BY DEF IInv, Record, At
<1>2. Sound(Answered(req[r], "OK")) /\ Done(Answered(req[r], "OK"))
  BY <1>1 DEF Sound, Done, Answered, Request, Stages, PushStages
<1> QED
  BY <1>1, <1>2, StepKept

------------------------------------------------------------------------------
LEMMA CheckCallKept == ASSUME IInv, NEW r \in Requests, CheckCall(r) PROVE IInv'
<1>1. Sound(req[r]) /\ Running /\ req[r].stage = "checking"
  BY DEF IInv, CheckCall, At
<1>2. CASE Step(r, [Goes(r, "generating") EXCEPT !.called = TRUE])
  <2>1. Sound([Goes(r, "generating") EXCEPT !.called = TRUE])
    BY <1>1 DEF Sound, Goes, Request, Stages, PushStages
  <2>2. Done(req[r]) => Done([Goes(r, "generating") EXCEPT !.called = TRUE])
    BY <1>1 DEF Done, Goes, Sound, Request
  <2> QED
    BY <1>1, <1>2, <2>1, <2>2, StepKept
<1>3. CASE Step(r, [Answered(req[r], "OK") EXCEPT !.terminal = @ + 1])
  <2> DEFINE x == [req[r] EXCEPT !.stage = "answered", !.code = "OK", !.terminal = 1]
  <2>1. [Answered(req[r], "OK") EXCEPT !.terminal = @ + 1] = x
    <3>1. req[r] \in Request /\ req[r].terminal = 0
      BY <1>1 DEF Sound
    <3>2. Answered(req[r], "OK").terminal + 1 = 1
      BY <3>1 DEF Answered, Request
    <3> QED
      BY <3>1, <3>2 DEF Answered, Request
  <2>2. Sound(x) /\ Done(x)
    BY <1>1 DEF Sound, Done, Request, Stages, PushStages
  <2> QED
    BY <1>1, <1>3, <2>1, <2>2, StepKept
<1> QED
  BY <1>2, <1>3 DEF CheckCall

LEMMA DeltaKept == ASSUME IInv, NEW r \in Requests, Delta(r) PROVE IInv'
<1> DEFINE x == [req[r] EXCEPT !.out = TRUE]
<1>1. Sound(req[r]) /\ Running /\ req[r].stage = "generating"
  BY DEF IInv, Delta, At
<1>2. CASE req[r].aborted
  <2>1. Sound(Ends(x)) /\ Done(Ends(x))
    BY <1>1, <1>2 DEF Sound, Done, Ends, Answered, Request, Stages, PushStages
  <2> QED
    BY <1>1, <1>2, <2>1, StepKept DEF Delta
<1>3. CASE ~req[r].aborted
  <2>1. Sound(x) /\ (Done(req[r]) => Done(x))
    BY <1>1 DEF Sound, Done, Request
  <2> QED
    BY <1>1, <1>3, <2>1, StepKept DEF Delta
<1> QED
  BY <1>2, <1>3

LEMMA ModelEndsKept == ASSUME IInv, NEW r \in Requests, ModelEnds(r) PROVE IInv'
<1> DEFINE n == IF req[r].aborted THEN 0 ELSE 1
           x == [req[r] EXCEPT !.terminal = n, !.stage = "answered", !.code = "OK",
                               !.log = "pending"]
<1>1. /\ Sound(req[r]) /\ Running /\ req[r].stage = "generating"
      /\ Step(r, Ends(SendTerminal(req[r])))
  BY DEF IInv, ModelEnds, At
<1>2. req[r] \in Request /\ req[r].terminal = 0
  BY <1>1 DEF Sound
<1>3. SendTerminal(req[r]) = [req[r] EXCEPT !.terminal = n]
  BY <1>2 DEF SendTerminal, Request
<1>4. Step(r, x)
  BY <1>1, <1>2, <1>3 DEF Ends, Answered, Request
<1>5. Sound(x) /\ Done(x)
  BY <1>1 DEF Sound, Done, Request, Stages, PushStages
<1> QED
  BY <1>1, <1>4, <1>5, StepKept

LEMMA WriteHistoryKept == ASSUME IInv, NEW r \in Requests, WriteHistory(r) PROVE IInv'
<1>1. /\ Sound(req[r]) /\ Running /\ req[r].log = "pending"
      /\ \E log \in {"written", "lost"} : Step(r, [req[r] EXCEPT !.log = log])
  BY DEF IInv, WriteHistory
<1>2. PICK log \in {"written", "lost"} : Step(r, [req[r] EXCEPT !.log = log])
  BY <1>1
<1>3. /\ Sound([req[r] EXCEPT !.log = log])
      /\ Done(req[r]) => Done([req[r] EXCEPT !.log = log])
  BY <1>1 DEF Sound, Done, Request
<1> QED
  BY <1>1, <1>2, <1>3, StepKept

LEMMA LeaveKept == ASSUME IInv, NEW r \in Requests, Leave(r) PROVE IInv'
<1>1. /\ Sound(req[r]) /\ Running /\ req[r].stage # "answered"
      /\ \E told \in BOOLEAN : Step(r, [req[r] EXCEPT !.gone = TRUE, !.aborted = told])
  BY DEF IInv, Leave, Waiting
<1>2. PICK told \in BOOLEAN : Step(r, [req[r] EXCEPT !.gone = TRUE, !.aborted = told])
  BY <1>1
<1>3. /\ Sound([req[r] EXCEPT !.gone = TRUE, !.aborted = told])
      /\ Done([req[r] EXCEPT !.gone = TRUE, !.aborted = told])
  BY <1>1 DEF Sound, Done, Request
<1> QED
  BY <1>1, <1>2, <1>3, StepKept

LEMMA ForgetKept == ASSUME IInv, NEW r \in Requests, Forget(r) PROVE IInv'
BY Fresh, StepKept DEF Forget, At, Done

LEMMA HandleKept == ASSUME IInv, NEW r \in Requests, Handle(r) PROVE IInv'
<1> USE DEF Gates, PushStages, Stages, Codes
<1>1. CASE IpRateLimit(r) \/ ParseBody(r) \/ RequireAuth(r) \/ ActorRateLimit(r)
  BY <1>1, GateKept DEF IpRateLimit, ParseBody, RequireAuth, ActorRateLimit
<1>2. CASE Validate(r)
  <2>1. req[r].kind \in {"push", "ai"}
    BY DEF IInv, Sound, Request
  <2> QED
    BY <1>2, <2>1, GateKept DEF Validate
<1>3. CASE Replay(r) \/ Authorize(r)
  <2>1. req[r].kind # "ai"
    BY <1>3 DEF Replay, Authorize, Gate, At, IInv, Sound
  <2> QED
    BY <1>3, <2>1, GateKept DEF Replay, Authorize
<1> QED
  BY <1>1, <1>2, <1>3, AcceptKept, TurnAwayKept, CommitKept, RecordKept, CheckCallKept, DeltaKept,
     ModelEndsKept, WriteHistoryKept, LeaveKept, ForgetKept DEF Handle

------------------------------------------------------------------------------
\* The sockets and the process.
LEMMA SocketKept ==
    ASSUME IInv, NEW s \in Sockets, Upgrade(s) \/ OpenSocket(s) \/ CloseSocket(s)
    PROVE  IInv'
<1>1. CASE Upgrade(s) \/ OpenSocket(s)
  <2>1. phase # "disconnecting"
    BY <1>1 DEF Upgrade, OpenSocket, IInv, Quiet, Drained
  <2>2. phase # "exited" /\ TypeOK' /\ UNCHANGED <<phase, clean, req>>
    BY <1>1 DEF Upgrade, OpenSocket, Running, IInv, TypeOK
  <2> QED
    BY <2>1, <2>2 DEF IInv, Quiet
<1>2. CASE CloseSocket(s)
  <2>1. TypeOK' /\ UNCHANGED <<phase, clean, req>>
    BY <1>2 DEF CloseSocket, IInv, TypeOK
  <2>2. Quiet'
    BY <1>2 DEF CloseSocket, IInv, TypeOK, Quiet, Drained, Waiting
  <2> QED
    BY <2>1, <2>2 DEF IInv
<1> QED
  BY <1>1, <1>2

LEMMA ProcessKept ==
    ASSUME IInv, Shutdown \/ Close \/ Disconnect \/ ForceExit \/ Kill \/ Restart
    PROVE  IInv'
<1>1. CASE Shutdown \/ ForceExit \/ Kill
  <2>1. ASSUME Exit(FALSE) PROVE IInv'
    BY <2>1 DEF Exit, IInv, TypeOK, Quiet
  <2>2. ASSUME phase = "up", phase' = "draining", UNCHANGED <<clean, req, sock>> PROVE IInv'
    BY <2>2 DEF IInv, TypeOK, Quiet
  <2> QED
    BY <1>1, <2>1, <2>2 DEF Shutdown, ForceExit, Kill
<1>2. CASE Close
  BY <1>2 DEF Close, IInv, TypeOK, Quiet, Drained, Waiting
<1>3. CASE Disconnect
  BY <1>3 DEF Disconnect, Exit, IInv, TypeOK, Quiet, Drained, Waiting
<1>4. CASE Restart
  BY <1>4, Fresh DEF Restart, IInv, TypeOK, Quiet, Sound
<1> QED
  BY <1>1, <1>2, <1>3, <1>4

LEMMA StepInv == IInv /\ [Next]_vars => IInv'
<1>1. ASSUME IInv, Next PROVE IInv'
  BY <1>1, HandleKept, SocketKept, ProcessKept DEF Next
<1>2. ASSUME IInv, UNCHANGED vars PROVE IInv'
  BY <1>2 DEF IInv, TypeOK, Quiet, Drained, Waiting, vars
<1> QED
  BY <1>1, <1>2

\* The inductive invariant, which the theorems below are parts of.
THEOREM Inductive == Spec => []IInv
<1> QED
  BY InitInv, StepInv, PTL DEF Spec

\* Requests, sockets and the process have their types.
THEOREM TypeCorrect == Spec => []TypeOK
<1>1. IInv => TypeOK
  BY DEF IInv
<1> QED
  BY <1>1, Inductive, PTL

\* A clean exit leaves no client waiting and no socket cut.
THEOREM CleanExit == Spec => []NobodyWaitsAtCleanExit
<1>1. IInv => NobodyWaitsAtCleanExit
  BY DEF IInv, Quiet, NobodyWaitsAtCleanExit
<1> QED
  BY <1>1, Inductive, PTL

\* What took effect and was answered with an error is retried.
THEOREM EffectsRetried == Spec => []EffectIsNeverDeadLettered
<1>1. IInv => EffectIsNeverDeadLettered
  BY DEF IInv, Sound, EffectIsNeverDeadLettered, Codes, Retryable
<1> QED
  BY <1>1, Inductive, PTL

\* Every stream is closed once for its reader and accounted for once.
THEOREM StreamsAccounted == Spec => []StreamAccounted
<1>1. IInv => StreamAccounted
  BY DEF IInv, Sound, StreamAccounted
<1> QED
  BY <1>1, Inductive, PTL
==============================================================================
