------------------------------ MODULE RateLimit ------------------------------
(***************************************************************************)
(* The fixed-window limiter: one row of rate_limits for each key, counted  *)
(* and reset by a single upsert.  A request passes the limiters of its     *)
(* path in turn (the address, then the user, then a budget of its own);    *)
(* each reads its process's clock, awaits the database, and upserts the    *)
(* window the clock named, which by then may be over.                      *)
(***************************************************************************)
EXTENDS Integers, Sequences, FiniteSets

LOCAL INSTANCE FiniteSetsExt

CONSTANTS
    Keys,           \* "ip:", "req:", "ops:" and "ai:" keys
    Limit,          \* the budget of a key
    Window,         \* the length of a key's window, in ticks of the clock
    Retain,         \* the age at which garbage collection drops a window
    OpsKeys,        \* those whose budget is stated in operations
    Paths,          \* the keys a request is limited by, in order
    Sizes,          \* how many operations a request may carry
    Requests,       \* requests in flight
    MaxSkew,        \* bound: ticks a process's clock is behind the one furthest ahead
    MaxDelay,       \* bound: ticks between the time a clock showed and the upsert
    MaxTime,        \* bound: the clock
    MaxUpserts      \* bound: upserts of one key

ASSUME RateLimitAssumption ==
    /\ Limit \in [Keys -> Nat \ {0}]
    /\ Window \in [Keys -> Nat \ {0}]
    /\ Paths \subseteq Seq(Keys) \ {<< >>}
    /\ OpsKeys \subseteq Keys
    /\ Sizes \subseteq Nat \ {0}
    /\ MaxDelay \in Nat /\ MaxTime \in Nat /\ MaxUpserts \in Nat
    /\ MaxSkew \in 0 .. MaxDelay
    /\ \A key \in Keys : Retain \in Nat /\ Retain >= Window[key] + MaxDelay

Times == 0 .. MaxTime

VARIABLES
    now,        \* the clock furthest ahead, of all processes'
    row,        \* rate_limits
    request,    \* the requests
    counted,    \* auxiliary: a key's upserts, numbered by the time of their clock
    granted,    \* auxiliary: those that were within the budget
    late        \* auxiliary: the upserts that moved a row back to a window, or over it

history == <<counted, granted, late>>
vars == <<now, row, request, history>>

\* An insert of a row that is not there counts as one into an empty window 0.
NoRow == [start |-> 0, count |-> 0]

Idle == [path |-> << >>, size |-> 0, time |-> 0, at |-> "idle"]
Points == {"idle", "due", "stamped", "refused"}
Request == [path : Seq(Keys), size : Nat, time : Times, at : Points]

\* An upsert, told from the others of its time by their number.
Upsert == [time : Times, nth : Nat, size : Nat]

Init ==
    /\ now = 0
    /\ row = [key \in Keys |-> NoRow]
    /\ request = [r \in Requests |-> Idle]
    /\ counted = [key \in Keys |-> {}]
    /\ granted = [key \in Keys |-> {}]
    /\ late = [key \in Keys |-> [w \in Times |-> 0]]

------------------------------------------------------------------------------
At(r, point) == request[r].at = point
KeyOf(r) == Head(request[r].path)

\* Mutant: the window reaches back from now.
MutantWindowAt(key, t) == t - Window[key]

WindowAt(key, t) == (t \div Window[key]) * Window[key]

Arrive(r) ==
    /\ At(r, "idle")
    /\ \E p \in Paths, n \in Sizes :
          request' = [request EXCEPT ![r] = [path |-> p, size |-> n, time |-> 0, at |-> "due"]]
    /\ UNCHANGED <<now, row, history>>

\* The next limiter of the path reads the clock of the request's process.
Stamp(r) ==
    /\ At(r, "due")
    /\ \E t \in Times :
          /\ t <= now /\ now <= t + MaxSkew
          /\ request' = [request EXCEPT ![r].time = t, ![r].at = "stamped"]
    /\ UNCHANGED <<now, row, history>>

\* Mutant: the count of an older window is kept.
MutantUpserted(key, w) == [start |-> w, count |-> row[key].count + 1]

\* The row after the upsert: reset when its window is older than the
\* caller's, and the caller's window in any case.
Upserted(key, w) ==
    [start |-> w, count |-> IF row[key].start < w THEN 1 ELSE row[key].count + 1]

Allowed(key, count) == count <= Limit[key]

Used(key) == Cardinality(counted[key])

Numbered(key, t, n) ==
    [time |-> t, nth |-> Cardinality({u \in counted[key] : u.time = t}), size |-> n]

UpsertOf(r) == Numbered(KeyOf(r), request[r].time, request[r].size)

\* An upsert of window w moves a row that has gone on to a later window back.
MovedBack(key, w) ==
    [x \in Times |-> IF w < row[key].start /\ x \in w .. row[key].start
                     THEN late[key][x] + 1 ELSE late[key][x]]

\* The statement: one unit, whatever the request carries.
Count(r) ==
    LET key == KeyOf(r)
        new == Upserted(key, WindowAt(key, request[r].time)) IN
    /\ At(r, "stamped")
    /\ Used(key) < MaxUpserts
    /\ row' = [row EXCEPT ![key] = new]
    /\ counted' = [counted EXCEPT ![key] = @ \cup {UpsertOf(r)}]
    /\ late' = [late EXCEPT ![key] = MovedBack(key, new.start)]

\* The path without the limiter just passed; the last one serves the request.
Passed(r) ==
    IF Len(request[r].path) = 1 THEN Idle
    ELSE [request[r] EXCEPT !.path = Tail(request[r].path), !.time = 0, !.at = "due"]

\* consume: the upsert and its verdict.
Consume(r) ==
    LET key == KeyOf(r) IN
    /\ Count(r)
    /\ IF Allowed(key, Upserted(key, WindowAt(key, request[r].time)).count)
       THEN /\ granted' = [granted EXCEPT ![key] = @ \cup {UpsertOf(r)}]
            /\ request' = [request EXCEPT ![r] = Passed(r)]
       ELSE /\ request' = [request EXCEPT ![r].at = "refused"]
            /\ UNCHANGED granted
    /\ UNCHANGED now

\* The statement fails, and the request with it (INTERNAL).
ConsumeFails(r) ==
    /\ At(r, "stamped")
    /\ request' = [request EXCEPT ![r] = Idle]
    /\ UNCHANGED <<now, row, history>>

\* The statement is done, but its answer never comes.
ConsumeUnanswered(r) ==
    /\ Count(r)
    /\ request' = [request EXCEPT ![r] = Idle]
    /\ UNCHANGED <<now, granted>>

\* The 429 has been sent.
Answer(r) ==
    /\ At(r, "refused")
    /\ request' = [request EXCEPT ![r] = Idle]
    /\ UNCHANGED <<now, row, history>>

\* Mutant: collects the windows that are over.
MutantCollected(key, t) == row[key].start + Window[key] <= t

\* Old enough for the collector of a process whose clock is at t.
Collected(key, t) == row[key].start < t - Retain

CollectGarbage ==
    /\ \E t \in Times :
          /\ t <= now /\ now <= t + MaxSkew
          /\ \E key \in Keys : row[key] # NoRow /\ Collected(key, t)
          /\ row' = [key \in Keys |-> IF Collected(key, t) THEN NoRow ELSE row[key]]
    /\ UNCHANGED <<now, request, history>>

Tick ==
    /\ now < MaxTime
    /\ \A r \in Requests : At(r, "stamped") => now < request[r].time + MaxDelay
    /\ now' = now + 1
    /\ UNCHANGED <<row, request, history>>

Next ==
    \/ \E r \in Requests : Arrive(r) \/ Stamp(r) \/ Consume(r) \/ ConsumeFails(r)
                          \/ ConsumeUnanswered(r) \/ Answer(r)
    \/ CollectGarbage
    \/ Tick

Spec == Init /\ [][Next]_vars

------------------------------------------------------------------------------
TypeOK ==
    /\ now \in Times
    /\ row \in [Keys -> [start : Nat, count : Nat]]
    /\ request \in [Requests -> Request]
    /\ counted \in [Keys -> SUBSET Upsert]
    /\ granted \in [Keys -> SUBSET Upsert]
    /\ late \in [Keys -> [Times -> Nat]]

\* A request is refused only when its key's budget has been used up by
\* requests of its own window or of a later one: what an earlier window
\* counted is never held against it, however late the upserts arrive
\* (rateLimit.repository consume).
RefusedWasOverBudget ==
    \A r \in Requests :
        At(r, "refused") =>
            LET w == WindowAt(KeyOf(r), request[r].time) IN
            Cardinality({u \in counted[KeyOf(r)] : u.time >= w}) > Limit[KeyOf(r)]

\* What one window grants of a key.
Grants(key, w) == {u \in granted[key] : WindowAt(key, u.time) = w}

\* One window grants its limit of requests, and once more for each upsert that
\* came after a later window's and moved the row back to this window or over
\* it; those of other times, upserts whose answer is lost, and garbage
\* collection grant nothing (rateLimit.repository consume, collectGarbage). It
\* counts requests of any size, as consume does.
GrantsBounded ==
    \A key \in Keys : \A w \in Times :
        Cardinality(Grants(key, w)) <= Limit[key] * (1 + late[key][w])

\* As documented (sync.service.ts:61-63), the budget of pushes is denominated in
\* operations: what one window lets through of them is bounded, not only the
\* requests they come in. consume takes no cost and counts one per push.
OperationsBounded ==
    \A key \in OpsKeys : \A w \in Times :
        MapThenSumSet(LAMBDA u : u.size, Grants(key, w)) <= Limit[key] * (1 + late[key][w])

\* Only an upsert whose window is over, by the clock furthest ahead, when it
\* reaches the database moves a row back: while requests are counted in the
\* window they were made in, nothing is granted beyond the limit
\* (rateLimit.repository consume).
OverrunNeedsDelay ==
    [][\A key \in Keys : late'[key] # late[key] =>
           \E r \in Requests :
               /\ Count(r) /\ KeyOf(r) = key
               /\ WindowAt(key, request[r].time) + Window[key] <= now]_vars
==============================================================================
