--------------------------- MODULE RateLimit_proofs ---------------------------
(***************************************************************************)
(* Proofs about RateLimit: types, no refusal for what an earlier window    *)
(* counted, and the grants of a window, for any keys, limits, windows,     *)
(* delays and paths.                                                       *)
(***************************************************************************)
EXTENDS RateLimit, FiniteSetTheorems, TLAPS

\* A request under way has a limiter to pass, and one that has read the clock
\* did so no longer ago than an upsert may be late.
InTime ==
    \A r \in Requests :
        /\ ~At(r, "idle") => request[r].path # << >>
        /\ At(r, "stamped") =>
              request[r].time <= now /\ now <= request[r].time + MaxDelay

\* The history numbers the upserts of a time without a gap.
Numbers ==
    \A key \in Keys :
        /\ IsFiniteSet(counted[key])
        /\ granted[key] \subseteq counted[key]
        /\ \A u \in counted[key] :
              u.nth < Cardinality({v \in counted[key] : v.time = u.time})

\* What a row counts are upserts of its window or of later ones.
Since(key, w) == {u \in counted[key] : u.time >= w}

CountBacked == \A key \in Keys : row[key].count <= Cardinality(Since(key, row[key].start))

\* No upsert can come for this window any more.
Over(key, w) == w + Window[key] + MaxDelay <= now

\* What a window may have been granted so far: each upsert late for it pays for one
\* limit, the row's own window has what is counted, an earlier one is full, and
\* a later one has had nothing that is not paid for.
Paid(key, w) == Limit[key] * late[key][w]
Counted(key) == IF row[key].count <= Limit[key] THEN row[key].count ELSE Limit[key]

Room(key, w) ==
    IF Over(key, w) \/ row[key].start > w THEN Paid(key, w) + Limit[key]
    ELSE IF row[key].start = w THEN Paid(key, w) + Counted(key)
    ELSE Paid(key, w)

GrantsFit ==
    \A key \in Keys : \A w \in Times : Cardinality(Grants(key, w)) <= Room(key, w)

IInv == TypeOK /\ InTime /\ Numbers /\ CountBacked /\ RefusedWasOverBudget /\ GrantsFit

------------------------------------------------------------------------------
(***************************************************************************)
(* Arithmetic                                                              *)
(***************************************************************************)
LEMMA DivMod ==
    ASSUME NEW t \in Nat, NEW n \in Nat \ {0}
    PROVE  LET w == (t \div n) * n IN w \in Nat /\ w <= t /\ t < w + n
OBVIOUS

LEMMA WindowIs ==
    ASSUME NEW key \in Keys, NEW t \in Nat
    PROVE  /\ WindowAt(key, t) \in Nat /\ Window[key] \in Nat
           /\ WindowAt(key, t) <= t /\ t < WindowAt(key, t) + Window[key]
BY DivMod, RateLimitAssumption DEF WindowAt

LEMMA PaidIs ==
    ASSUME NEW l \in Nat, NEW n \in Nat
    PROVE  /\ l * n \in Nat
           /\ l * (n + 1) = l * n + l
           /\ l * (1 + n) = l * n + l
OBVIOUS

\* The counts are natural numbers.
LEMMA Typed ==
    ASSUME IInv, NEW key \in Keys
    PROVE  /\ Limit[key] \in Nat \ {0} /\ Window[key] \in Nat \ {0}
           /\ row[key] \in [start : Nat, count : Nat]
           /\ row[key].start \in Nat /\ row[key].count \in Nat
           /\ \A w \in Times : late[key][w] \in Nat /\ Paid(key, w) \in Nat
           /\ Counted(key) \in Nat /\ Counted(key) <= Limit[key]
           /\ now \in Nat /\ MaxDelay \in Nat /\ Retain \in Nat /\ MaxTime \in Nat
           /\ Retain >= Window[key] + MaxDelay
<1>1. /\ Limit[key] \in Nat \ {0} /\ Window[key] \in Nat \ {0}
      /\ MaxDelay \in Nat /\ Retain \in Nat /\ MaxTime \in Nat
      /\ Retain >= Window[key] + MaxDelay
  BY RateLimitAssumption
<1>2. row[key] \in [start : Nat, count : Nat] /\ late[key] \in [Times -> Nat] /\ now \in Nat
  BY <1>1 DEF IInv, TypeOK, Times
<1>3. row[key].start \in Nat /\ row[key].count \in Nat
  BY <1>2
<1>4. ASSUME NEW w \in Times PROVE late[key][w] \in Nat /\ Paid(key, w) \in Nat
  <2>1. late[key][w] \in Nat
    BY <1>2
  <2> QED
    BY <1>1, <2>1, PaidIs DEF Paid
<1>5. Counted(key) \in Nat /\ Counted(key) <= Limit[key]
  BY <1>1, <1>3 DEF Counted
<1> QED
  BY <1>1, <1>2, <1>3, <1>4, <1>5

LEMMA SinceFinite ==
    ASSUME Numbers, NEW key \in Keys, NEW w
    PROVE  /\ IsFiniteSet(Since(key, w)) /\ Cardinality(Since(key, w)) \in Nat
           /\ IsFiniteSet(Grants(key, w)) /\ Cardinality(Grants(key, w)) \in Nat
<1>1. IsFiniteSet(counted[key])
  BY DEF Numbers
<1>2. Since(key, w) \in SUBSET counted[key] /\ Grants(key, w) \in SUBSET counted[key]
  BY DEF Since, Grants, Numbers
<1> QED
  BY <1>1, <1>2, FS_Subset, FS_CardinalityType

LEMMA InitInv == Init => IInv
<1> SUFFICES ASSUME Init PROVE IInv
  OBVIOUS
<1>1. MaxTime \in Nat /\ 0 \in Times
  BY RateLimitAssumption DEF Times
<1>2. TypeOK
  BY <1>1 DEF Init, TypeOK, NoRow, Idle, Points, Request
<1>3. InTime
  BY DEF Init, InTime, Idle, At
<1>4. Numbers
  BY FS_EmptySet DEF Init, Numbers
<1>5. RefusedWasOverBudget
  BY DEF Init, RefusedWasOverBudget, Idle, At
<1>6. CountBacked
  <2>1. ASSUME NEW key \in Keys PROVE row[key].count <= Cardinality(Since(key, row[key].start))
    <3>1. Since(key, row[key].start) = {} /\ row[key].count = 0
      BY DEF Init, Since, NoRow
    <3> QED
      BY <3>1, FS_EmptySet
  <2> QED
    BY <2>1 DEF CountBacked
<1>7. GrantsFit
  <2>1. ASSUME NEW key \in Keys, NEW w \in Times
        PROVE  Cardinality(Grants(key, w)) <= Room(key, w)
    <3>1. Grants(key, w) = {}
      BY DEF Init, Grants
    <3>2. Limit[key] \in Nat /\ late[key][w] \in Nat /\ row[key].count \in Nat
      BY RateLimitAssumption DEF Init, NoRow
    <3>3. Paid(key, w) \in Nat /\ Counted(key) \in Nat
      BY <3>2, PaidIs DEF Paid, Counted
    <3>4. Room(key, w) \in Nat
      BY <3>2, <3>3 DEF Room
    <3> QED
      BY <3>1, <3>4, FS_EmptySet
  <2> QED
    BY <2>1 DEF GrantsFit
<1> QED
  BY <1>2, <1>3, <1>4, <1>5, <1>6, <1>7 DEF IInv

------------------------------------------------------------------------------
\* A step of a request that leaves the rows and the clock alone.
LEMMA QuietKept ==
    ASSUME IInv, UNCHANGED <<now, row, history>>,
           request' \in [Requests -> Request],
           InTime', RefusedWasOverBudget'
    PROVE  IInv'
<1>1. TypeOK'
  BY DEF IInv, TypeOK, history
<1>2. Numbers' /\ CountBacked'
  BY DEF IInv, Numbers, CountBacked, Since, history
<1>3. GrantsFit'
  BY DEF IInv, GrantsFit, Grants, Room, Paid, Counted, Over, history
<1> QED
  BY <1>1, <1>2, <1>3 DEF IInv

LEMMA ArriveKept == ASSUME IInv, NEW r \in Requests, Arrive(r) PROVE IInv'
<1>1. PICK p \in Paths, n \in Sizes :
        request' = [request EXCEPT ![r] = [path |-> p, size |-> n, time |-> 0, at |-> "due"]]
  BY DEF Arrive
<1>2. p \in Seq(Keys) /\ p # << >> /\ n \in Nat /\ 0 \in Times /\ "due" \in Points
  BY RateLimitAssumption DEF Times, Points
<1>3. request' \in [Requests -> Request]
  BY <1>1, <1>2 DEF IInv, TypeOK, Request
<1>4. UNCHANGED <<now, row, history>>
  BY DEF Arrive
<1>5. InTime'
  BY <1>1, <1>2, <1>4 DEF IInv, TypeOK, InTime, At
<1>6. RefusedWasOverBudget'
  BY <1>1, <1>4 DEF IInv, TypeOK, RefusedWasOverBudget, At, KeyOf, history
<1> QED
  BY <1>3, <1>4, <1>5, <1>6, QuietKept

LEMMA StampKept == ASSUME IInv, NEW r \in Requests, Stamp(r) PROVE IInv'
<1>1. PICK t \in Times :
        /\ request[r].at = "due" /\ UNCHANGED <<now, row, history>>
        /\ t <= now /\ now <= t + MaxSkew
        /\ request' = [request EXCEPT ![r].time = t, ![r].at = "stamped"]
  BY DEF Stamp, At
<1>2. /\ now \in Nat /\ t \in Nat /\ "stamped" \in Points
      /\ MaxDelay \in Nat /\ MaxSkew \in Nat /\ MaxSkew <= MaxDelay
  BY RateLimitAssumption DEF IInv, TypeOK, Times, Points
<1>3. request' \in [Requests -> Request]
  BY <1>1, <1>2 DEF IInv, TypeOK, Request
<1>4. InTime'
  <2>1. now <= t + MaxDelay
    BY <1>1, <1>2
  <2> QED
    BY <1>1, <1>2, <2>1 DEF IInv, TypeOK, InTime, At
<1>5. RefusedWasOverBudget'
  BY <1>1 DEF IInv, TypeOK, Request, RefusedWasOverBudget, At, KeyOf, history
<1> QED
  BY <1>1, <1>3, <1>4, <1>5, QuietKept

\* A request that is over, refused or failed, leaves the rows as they are.
LEMMA AnswerKept ==
    ASSUME IInv, NEW r \in Requests, Answer(r) \/ ConsumeFails(r) PROVE IInv'
<1>1. request' = [request EXCEPT ![r] = Idle] /\ UNCHANGED <<now, row, history>>
  BY DEF Answer, ConsumeFails
<1>2. Idle \in Request /\ Idle.at = "idle"
  BY RateLimitAssumption DEF Idle, Times, Points, Request
<1>3. request' \in [Requests -> Request]
  BY <1>1, <1>2 DEF IInv, TypeOK
<1>4. InTime'
  BY <1>1, <1>2 DEF IInv, TypeOK, InTime, At
<1>5. RefusedWasOverBudget'
  BY <1>1, <1>2 DEF IInv, TypeOK, RefusedWasOverBudget, At, KeyOf, history
<1> QED
  BY <1>1, <1>3, <1>4, <1>5, QuietKept

LEMMA TickKept == ASSUME IInv, Tick PROVE IInv'
<1>1. /\ now < MaxTime /\ now' = now + 1 /\ UNCHANGED <<row, request, history>>
      /\ \A r \in Requests : At(r, "stamped") => now < request[r].time + MaxDelay
  BY DEF Tick
<1>2. now \in Nat /\ MaxTime \in Nat /\ MaxDelay \in Nat /\ now' \in Times
  BY <1>1, RateLimitAssumption DEF IInv, TypeOK, Times
<1>3. TypeOK'
  BY <1>1, <1>2 DEF IInv, TypeOK, history
<1>4. InTime'
  <2>1. \A r \in Requests : request[r].time \in Nat
    BY DEF IInv, TypeOK, Times, Request
  <2> QED
    BY <1>1, <1>2, <2>1 DEF IInv, InTime, At
<1>5. Numbers' /\ CountBacked' /\ RefusedWasOverBudget'
  BY <1>1 DEF IInv, Numbers, CountBacked, Since, RefusedWasOverBudget, At, KeyOf, history
<1>6. GrantsFit'
  <2>1. ASSUME NEW key \in Keys, NEW w \in Times
        PROVE  Cardinality(Grants(key, w)') <= Room(key, w)'
    <3>0. w \in Nat
      BY <1>2 DEF Times
    <3>1. Grants(key, w)' = Grants(key, w) /\ Cardinality(Grants(key, w)) <= Room(key, w)
      BY <1>1 DEF IInv, GrantsFit, Grants, history
    <3>2. Paid(key, w)' = Paid(key, w) /\ Counted(key)' = Counted(key) /\ row'[key] = row[key]
      BY <1>1 DEF Paid, Counted, history
    <3>3. Over(key, w) => Over(key, w)'
      BY <1>1, <1>2, <3>0, Typed DEF Over
    <3>4. Room(key, w) <= Room(key, w)'
      BY <3>0, <3>2, <3>3, Typed DEF Room
    <3>5. Room(key, w) \in Nat /\ Room(key, w)' \in Nat /\ Cardinality(Grants(key, w)) \in Nat
      BY <3>0, <3>2, Typed, SinceFinite DEF Room, IInv
    <3> QED
      BY <3>1, <3>4, <3>5
  <2> QED
    BY <2>1 DEF GrantsFit
<1> QED
  BY <1>3, <1>4, <1>5, <1>6 DEF IInv

------------------------------------------------------------------------------
(***************************************************************************)
(* The upsert                                                              *)
(***************************************************************************)
\* What is known when a request upserts.
LEMMA Upserting ==
    ASSUME IInv, NEW r \in Requests, Count(r)
    PROVE  LET key == KeyOf(r)
               t == request[r].time
               w == WindowAt(key, t)
           IN  /\ request[r].path \in Seq(Keys) /\ request[r].path # << >>
               /\ key \in Keys /\ t \in Nat /\ t \in Times /\ w \in Nat /\ w <= t
               /\ ~Over(key, w)
               /\ UpsertOf(r) = Numbered(key, t, request[r].size)
               /\ UpsertOf(r) \in Upsert /\ UpsertOf(r) \notin counted[key]
<1> DEFINE key == KeyOf(r)
           t == request[r].time
           w == WindowAt(key, t)
           same == {v \in counted[key] : v.time = t}
<1>1. /\ request[r].path \in Seq(Keys) /\ request[r].path # << >>
      /\ t \in Times /\ t \in Nat /\ t <= now /\ now <= t + MaxDelay
  BY DEF Count, At, IInv, TypeOK, InTime, Times, Request
<1>2. key \in Keys
  BY <1>1 DEF KeyOf
<1>3. w \in Nat /\ w <= t /\ t < w + Window[key]
  BY <1>1, <1>2, WindowIs
<1>4. ~Over(key, w)
  <2>1. now \in Nat /\ MaxDelay \in Nat /\ Window[key] \in Nat
    BY <1>2, Typed
  <2> QED
    BY <1>1, <1>3, <2>1 DEF Over
<1>5. IsFiniteSet(counted[key]) /\ same \in SUBSET counted[key]
  BY <1>2 DEF IInv, Numbers
<1>6. Cardinality(same) \in Nat
  BY <1>5, FS_Subset, FS_CardinalityType
<1>7. /\ UpsertOf(r) = Numbered(key, t, request[r].size)
      /\ UpsertOf(r).time = t /\ UpsertOf(r).nth = Cardinality(same)
      /\ UpsertOf(r) \in Upsert
  <2>1. request[r].size \in Nat
    BY DEF IInv, TypeOK, Request
  <2> QED
    BY <1>1, <1>6, <2>1 DEF UpsertOf, Numbered, Upsert
<1>8. UpsertOf(r) \notin counted[key]
  <2>1. ASSUME UpsertOf(r) \in counted[key] PROVE FALSE
    <3>1. UpsertOf(r).nth < Cardinality({v \in counted[key] : v.time = UpsertOf(r).time})
      BY <1>2, <2>1 DEF IInv, Numbers
    <3> QED
      BY <1>6, <1>7, <3>1
  <2> QED
    BY <2>1
<1> QED
  BY <1>1, <1>2, <1>3, <1>4, <1>7, <1>8

\* A log with one upsert more.
LEMMA OneMore ==
    ASSUME Numbers, NEW key \in Keys, NEW t \in Nat, NEW n, NEW u,
           u = Numbered(key, t, n), u \notin counted[key], counted[key] \subseteq Upsert,
           counted'[key] = counted[key] \cup {u},
           granted'[key] \in {granted[key], granted[key] \cup {u}}
    PROVE  /\ IsFiniteSet(counted'[key])
           /\ granted'[key] \subseteq counted'[key]
           /\ \A v \in counted'[key] :
                 v.nth < Cardinality({x \in counted'[key] : x.time = v.time})
<1> DEFINE same(log, s) == {x \in log : x.time = s}
           nth == Cardinality(same(counted[key], t))
<1>1. IsFiniteSet(counted[key]) /\ granted[key] \subseteq counted[key]
  BY DEF Numbers
<1>2. IsFiniteSet(counted'[key]) /\ granted'[key] \subseteq counted'[key]
  BY <1>1, FS_AddElement
<1>3. same(counted[key], t) \in SUBSET counted[key]
  OBVIOUS
<1>4. IsFiniteSet(same(counted[key], t)) /\ nth \in Nat
  BY <1>1, <1>3, FS_Subset, FS_CardinalityType
<1>5. u.time = t /\ u.nth = nth
  BY DEF Numbered
<1>6. same(counted'[key], t) = same(counted[key], t) \cup {u} /\ u \notin same(counted[key], t)
  BY <1>5
<1>7. Cardinality(same(counted'[key], t)) = nth + 1
  <2> DEFINE S == same(counted[key], t)
  <2>1. IsFiniteSet(S) /\ u \notin S /\ nth = Cardinality(S)
    BY <1>4, <1>6
  <2> HIDE DEF S
  <2>2. Cardinality(S \cup {u}) = Cardinality(S) + 1
    BY <2>1, FS_AddElement
  <2>3. same(counted'[key], t) = S \cup {u}
    BY <1>6 DEF S
  <2> QED
    BY <2>1, <2>2, <2>3
<1>8. ASSUME NEW v \in counted'[key]
      PROVE  v.nth < Cardinality({x \in counted'[key] : x.time = v.time})
  <2>1. CASE v = u
    <3>1. Cardinality(same(counted'[key], v.time)) = nth + 1 /\ v.nth = nth
      BY <1>5, <1>7, <2>1
    <3> HIDE DEF nth
    <3>2. v.nth < nth + 1
      BY <1>4, <3>1
    <3> QED
      BY <3>1, <3>2
  <2>2. CASE v # u /\ v.time = t
    <3>1. v \in counted[key]
      BY <2>2
    <3>2. v.nth < nth
      BY <2>2, <3>1 DEF Numbers
    <3>3. v.nth \in Nat
      BY <3>1 DEF Upsert
    <3>4. Cardinality(same(counted'[key], v.time)) = nth + 1
      BY <1>7, <2>2
    <3> HIDE DEF nth
    <3>5. v.nth < nth + 1
      BY <1>4, <3>2, <3>3
    <3> QED
      BY <3>4, <3>5
  <2>3. CASE v # u /\ v.time # t
    <3>1. v \in counted[key]
      BY <2>3
    <3>2. same(counted'[key], v.time) = same(counted[key], v.time)
      BY <1>5, <2>3
    <3>3. v.nth < Cardinality(same(counted[key], v.time))
      BY <3>1 DEF Numbers
    <3> QED
      BY <3>2, <3>3
  <2> QED
    BY <2>1, <2>2, <2>3
<1> QED
  BY <1>2, <1>8

\* The row counts no more than the log has since its window.
LEMMA BackedStep ==
    ASSUME IInv, NEW key \in Keys, NEW t \in Nat, NEW w \in Nat, w <= t, NEW u,
           u.time = t, u \notin counted[key],
           counted'[key] = counted[key] \cup {u}
    PROVE  /\ Upserted(key, w).count <= Cardinality(Since(key, w)')
           /\ Cardinality(Since(key, w)') \in Nat
<1> DEFINE S == Since(key, w)
           start == row[key].start
<1>1. IsFiniteSet(S) /\ Cardinality(S) \in Nat
  BY SinceFinite DEF IInv
<1>2. Since(key, w)' = S \cup {u} /\ u \notin S
  BY DEF Since
<1>3. Cardinality(Since(key, w)') = Cardinality(S) + 1
  <2> HIDE DEF S
  <2> QED
    BY <1>1, <1>2, FS_AddElement
<1>4. CASE start < w
  BY <1>1, <1>3, <1>4 DEF Upserted
<1>5. CASE ~(start < w)
  <2>1. start \in Nat /\ row[key].count \in Nat
    BY Typed
  <2>2. \A v \in counted[key] : v.time \in Nat
    BY DEF IInv, TypeOK, Upsert, Times
  <2>3. Since(key, start) \subseteq S
    BY <1>5, <2>1, <2>2 DEF Since
  <2>4. Cardinality(Since(key, start)) <= Cardinality(S) /\ Cardinality(Since(key, start)) \in Nat
    BY <1>1, <2>3, SinceFinite, FS_Subset DEF IInv
  <2>5. row[key].count <= Cardinality(Since(key, start))
    BY DEF IInv, CountBacked
  <2>6. Upserted(key, w).count = row[key].count + 1
    BY <1>5 DEF Upserted
  <2> HIDE DEF S, start
  <2> QED
    BY <1>1, <1>3, <2>1, <2>4, <2>5, <2>6
<1> QED
  BY <1>3, <1>1, <1>4, <1>5

\* The room of every window after an upsert for one of them.
LEMMA RoomStep ==
    ASSUME IInv, NEW key \in Keys, NEW w \in Nat, ~Over(key, w), now' = now,
           row'[key] = Upserted(key, w),
           late'[key] = MovedBack(key, w),
           NEW x \in Times
    PROVE  /\ Room(key, x) \in Nat /\ Room(key, x)' \in Nat
           /\ Room(key, x) <= Room(key, x)'
           /\ x = w /\ row'[key].count <= Limit[key] => Room(key, x) + 1 <= Room(key, x)'
<1> DEFINE L == Limit[key]
           S == row[key].start
           C == row[key].count
           P == Paid(key, x)
           over == w < S /\ w <= x /\ x <= S
<1>1. /\ L \in Nat \ {0} /\ S \in Nat /\ C \in Nat /\ P \in Nat /\ late[key][x] \in Nat
      /\ Counted(key) \in Nat /\ Counted(key) <= L /\ x \in Nat
  BY Typed DEF Times
<1>2. Paid(key, x)' = IF over THEN P + L ELSE P
  <2>1. x \in w .. S <=> w <= x /\ x <= S
    BY <1>1
  <2>2. late'[key][x] = IF over THEN late[key][x] + 1 ELSE late[key][x]
    BY <2>1 DEF MovedBack
  <2> QED
    BY <1>1, <2>2, PaidIs DEF Paid
<1>3. row'[key].start = w /\ row'[key].count = IF S < w THEN 1 ELSE C + 1
  BY DEF Upserted
<1>4. Over(key, x)' <=> Over(key, x)
  BY DEF Over
<1>5. Counted(key)' = IF row'[key].count <= L THEN row'[key].count ELSE L
  BY DEF Counted
<1>6. Counted(key) = IF C <= L THEN C ELSE L
  BY DEF Counted
<1>7. /\ Room(key, x) = IF Over(key, x) \/ S > x THEN P + L
                        ELSE IF S = x THEN P + Counted(key) ELSE P
      /\ Room(key, x)' = IF Over(key, x) \/ w > x THEN Paid(key, x)' + L
                         ELSE IF w = x THEN Paid(key, x)' + Counted(key)' ELSE Paid(key, x)'
  BY <1>3, <1>4 DEF Room
<1> HIDE DEF L, S, C, P
<1>8. Counted(key)' \in Nat /\ Paid(key, x)' \in Nat /\ Counted(key)' <= L
  BY <1>1, <1>2, <1>3, <1>5
<1>9. Room(key, x) \in Nat /\ Room(key, x)' \in Nat
  BY <1>1, <1>7, <1>8
<1>10. CASE w < S
  BY <1>1, <1>2, <1>3, <1>5, <1>6, <1>7, <1>8, <1>9, <1>10 DEF L
<1>11. CASE w = S
  BY <1>1, <1>2, <1>3, <1>5, <1>6, <1>7, <1>8, <1>9, <1>11 DEF L
<1>12. CASE S < w
  BY <1>1, <1>2, <1>3, <1>5, <1>6, <1>7, <1>8, <1>9, <1>12 DEF L
<1> QED
  BY <1>1, <1>9, <1>10, <1>11, <1>12

\* A log that only grows loses no upsert.
LEMMA SinceGrows ==
    ASSUME Numbers, NEW key \in Keys, NEW u, NEW w,
           counted'[key] = counted[key] \/ counted'[key] = counted[key] \cup {u}
    PROVE  /\ Cardinality(Since(key, w)) <= Cardinality(Since(key, w)')
           /\ Cardinality(Since(key, w)) \in Nat /\ Cardinality(Since(key, w)') \in Nat
<1>1. IsFiniteSet(counted[key])
  BY DEF Numbers
<1>2. IsFiniteSet(counted'[key])
  BY <1>1, FS_AddElement
<1>3. Since(key, w)' \in SUBSET counted'[key] /\ Since(key, w) \in SUBSET Since(key, w)'
  BY DEF Since
<1>4. IsFiniteSet(Since(key, w)') /\ Cardinality(Since(key, w)') \in Nat
  BY <1>2, <1>3, FS_Subset, FS_CardinalityType
<1> QED
  BY <1>3, <1>4, FS_Subset, FS_CardinalityType

\* An upsert keeps the invariant, whether its request is let through, refused
\* or never told.
LEMMA CountKept ==
    ASSUME IInv, NEW r \in Requests, Count(r), UNCHANGED now,
           LET key == KeyOf(r)
               new == Upserted(key, WindowAt(key, request[r].time)) IN
           \/ /\ new.count <= Limit[key]
              /\ granted' = [granted EXCEPT ![key] = @ \cup {UpsertOf(r)}]
              /\ request' = [request EXCEPT ![r] = Passed(r)]
           \/ /\ ~(new.count <= Limit[key])
              /\ granted' = granted
              /\ request' = [request EXCEPT ![r].at = "refused"]
           \/ /\ granted' = granted
              /\ request' = [request EXCEPT ![r] = Idle]
    PROVE  IInv'
<1>0. PICK key, t, w, u, new, next :
        /\ key = KeyOf(r) /\ t = request[r].time /\ w = WindowAt(key, t)
        /\ u = UpsertOf(r) /\ new = Upserted(key, w)
        /\ next = Passed(r)
  OBVIOUS
<1>1. /\ request[r].path \in Seq(Keys) /\ request[r].path # << >>
      /\ key \in Keys /\ t \in Nat /\ t \in Times /\ w \in Nat /\ w <= t
      /\ ~Over(key, w) /\ u \in Upsert /\ u \notin counted[key]
      /\ u = Numbered(key, t, request[r].size)
  BY <1>0, Upserting
<1>2. u.time = t
  BY <1>1 DEF Numbered
<1>3. /\ row' = [row EXCEPT ![key] = new]
      /\ counted' = [counted EXCEPT ![key] = @ \cup {u}]
      /\ late' = [late EXCEPT ![key] = MovedBack(key, new.start)]
      /\ UNCHANGED now /\ request[r].at = "stamped"
  BY <1>0 DEF Count, At
<1>4. \/ /\ new.count <= Limit[key]
         /\ granted' = [granted EXCEPT ![key] = @ \cup {u}]
         /\ request' = [request EXCEPT ![r] = next]
      \/ /\ ~(new.count <= Limit[key])
         /\ granted' = granted
         /\ request' = [request EXCEPT ![r].at = "refused"]
      \/ granted' = granted /\ request' = [request EXCEPT ![r] = Idle]
  BY <1>0
<1>5. new \in [start : Nat, count : Nat] /\ new.start = w
  BY <1>0, <1>1, Typed DEF Upserted
<1>6. /\ next \in Request /\ Idle \in Request /\ Idle.at = "idle"
      /\ next.at \in {"idle", "due"} /\ (next.at = "due" => next.path # << >>)
  <2>1. 0 \in Times /\ request[r] \in Request
    BY RateLimitAssumption DEF Times, IInv, TypeOK
  <2>0. Idle \in Request /\ Idle.at = "idle"
    BY <2>1 DEF Idle, Points, Request
  <2>2. CASE Len(request[r].path) = 1
    BY <1>0, <2>0, <2>2 DEF Passed
  <2>3. CASE Len(request[r].path) # 1
    <3>1. Tail(request[r].path) \in Seq(Keys) /\ Tail(request[r].path) # << >>
      <4>1. Len(request[r].path) \in Nat /\ Len(request[r].path) # 0
        BY <1>1
      <4>2. /\ Tail(request[r].path) \in Seq(Keys)
            /\ Len(Tail(request[r].path)) = Len(request[r].path) - 1
        BY <1>1
      <4>3. Len(Tail(request[r].path)) # 0
        BY <2>3, <4>1, <4>2
      <4>4. Len(<< >>) = 0
        OBVIOUS
      <4>5. Tail(request[r].path) # << >>
        <5>1. ASSUME Tail(request[r].path) = << >> PROVE FALSE
          <6>1. Len(Tail(request[r].path)) = Len(<< >>)
            BY <5>1, Zenon
          <6> QED
            BY <4>3, <4>4, <6>1
        <5> QED
          BY <5>1
      <4> QED
        BY <4>2, <4>5
    <3>2. next = [request[r] EXCEPT !.path = Tail(request[r].path), !.time = 0, !.at = "due"]
      BY <1>0, <2>3 DEF Passed
    <3> QED
      BY <2>0, <2>1, <3>1, <3>2 DEF Points, Request
  <2> QED
    BY <2>2, <2>3
<1>7. TypeOK'
  <2>1. late' \in [Keys -> [Times -> Nat]]
    <3>1. \A x \in Times : late[key][x] \in Nat
      BY <1>1, Typed
    <3>2. MovedBack(key, new.start) \in [Times -> Nat]
      BY <3>1 DEF MovedBack
    <3> QED
      BY <1>3, <3>2 DEF IInv, TypeOK
  <2>2. /\ now' \in Times
        /\ row' \in [Keys -> [start : Nat, count : Nat]]
        /\ counted' \in [Keys -> SUBSET Upsert]
    BY <1>1, <1>3, <1>5 DEF IInv, TypeOK
  <2>3. granted' \in [Keys -> SUBSET Upsert]
    <3>1. granted \in [Keys -> SUBSET Upsert] /\ granted[key] \cup {u} \in SUBSET Upsert
      BY <1>1 DEF IInv, TypeOK
    <3>2. granted' = granted \/ granted' = [granted EXCEPT ![key] = granted[key] \cup {u}]
      BY <1>4
    <3> QED
      BY <3>1, <3>2
  <2>4. request' \in [Requests -> Request]
    <3>1. request \in [Requests -> Request]
      BY DEF IInv, TypeOK
    <3>2. CASE request' = [request EXCEPT ![r] = next]
      BY <1>6, <3>1, <3>2
    <3>3. CASE request' = [request EXCEPT ![r].at = "refused"]
      BY <3>1, <3>3 DEF Points, Request
    <3>4. CASE request' = [request EXCEPT ![r] = Idle]
      BY <1>6, <3>1, <3>4
    <3> QED
      BY <1>4, <3>2, <3>3, <3>4
  <2> QED
    BY <2>1, <2>2, <2>3, <2>4 DEF TypeOK
<1>8. InTime'
  <2>1. ASSUME NEW q \in Requests
        PROVE  /\ ~At(q, "idle")' => request'[q].path # << >>
               /\ At(q, "stamped")' =>
                     request'[q].time <= now' /\ now' <= request'[q].time + MaxDelay
    <3>1. CASE q # r
      <4>1. request'[q] = request[q]
        BY <1>4, <3>1 DEF IInv, TypeOK
      <4> QED
        BY <1>3, <4>1 DEF IInv, InTime, At
    <3>2. CASE q = r
      <4>1. \/ request'[r] = next
            \/ request'[r].at = "refused" /\ request'[r].path = request[r].path
            \/ request'[r] = Idle
        BY <1>4 DEF IInv, TypeOK, Request
      <4> QED
        BY <1>1, <1>6, <3>2, <4>1 DEF At
    <3> QED
      BY <3>1, <3>2
  <2> QED
    BY <2>1 DEF InTime, At
<1>9. ASSUME NEW k \in Keys, k # key
      PROVE  /\ row'[k] = row[k] /\ counted'[k] = counted[k]
             /\ granted'[k] = granted[k] /\ late'[k] = late[k]
  BY <1>3, <1>4, <1>9 DEF IInv, TypeOK
<1>10. /\ row'[key] = new /\ counted'[key] = counted[key] \cup {u}
       /\ late'[key] = MovedBack(key, w)
       /\ \/ granted'[key] = granted[key]
          \/ new.count <= Limit[key] /\ granted'[key] = granted[key] \cup {u}
  BY <1>1, <1>3, <1>4, <1>5 DEF IInv, TypeOK
<1>11. Numbers'
  <2>1. ASSUME NEW k \in Keys
        PROVE  /\ IsFiniteSet(counted'[k])
               /\ granted'[k] \subseteq counted'[k]
               /\ \A v \in counted'[k] :
                     v.nth < Cardinality({x \in counted'[k] : x.time = v.time})
    <3>1. CASE k # key
      BY <1>9, <3>1 DEF IInv, Numbers
    <3>2. CASE k = key
      <4>1. counted[key] \subseteq Upsert /\ Numbers
        BY <1>1 DEF IInv, TypeOK
      <4>2. granted'[key] \in {granted[key], granted[key] \cup {u}}
        BY <1>10
      <4> QED
        BY <1>1, <1>10, <3>2, <4>1, <4>2, <1>0, OneMore
    <3> QED
      BY <3>1, <3>2
  <2> QED
    BY <2>1 DEF Numbers
<1>12. /\ new.count <= Cardinality(Since(key, w)')
       /\ Cardinality(Since(key, w)') \in Nat
  BY <1>0, <1>1, <1>2, <1>10, BackedStep
<1>13. CountBacked'
  <2>1. ASSUME NEW k \in Keys
        PROVE  row'[k].count <= Cardinality({v \in counted'[k] : v.time >= row'[k].start})
    <3>1. CASE k # key
      BY <1>9, <3>1 DEF IInv, CountBacked, Since
    <3>2. CASE k = key
      BY <1>5, <1>10, <1>12, <3>2 DEF Since
    <3> QED
      BY <3>1, <3>2
  <2> QED
    BY <2>1 DEF CountBacked, Since
<1>14. RefusedWasOverBudget'
  <2> DEFINE since(k, x) == {v \in counted'[k] : v.time >= x}
  <2>1. ASSUME NEW q \in Requests, request'[q].at = "refused"
        PROVE  LET k == Head(request'[q].path) IN
               Cardinality(since(k, WindowAt(k, request'[q].time))) > Limit[k]
    <3>1. CASE q # r
      <4>0. PICK k, x : k = KeyOf(q) /\ x = WindowAt(k, request[q].time)
        OBVIOUS
      <4>1. request'[q] = request[q]
        BY <1>4, <3>1 DEF IInv, TypeOK
      <4>2. /\ At(q, "refused") /\ k = Head(request'[q].path)
            /\ request[q].path \in Seq(Keys) /\ request[q].path # << >>
        BY <2>1, <4>0, <4>1 DEF At, KeyOf, IInv, TypeOK, InTime, Request
      <4>3. k \in Keys
        BY <4>0, <4>2 DEF KeyOf
      <4>4. Cardinality(Since(k, x)) > Limit[k] /\ Limit[k] \in Nat
        BY <4>0, <4>2, <4>3, Typed DEF IInv, RefusedWasOverBudget, Since
      <4>5. counted'[k] = counted[k] \/ counted'[k] = counted[k] \cup {u}
        BY <1>9, <1>10, <4>3
      <4>6. /\ Cardinality(Since(k, x)) <= Cardinality(Since(k, x)')
            /\ Cardinality(Since(k, x)) \in Nat /\ Cardinality(Since(k, x)') \in Nat
        <5>1. Numbers
          BY DEF IInv
        <5> QED
          BY <4>3, <4>5, <5>1, SinceGrows
      <4>7. Cardinality(since(k, x)) > Limit[k]
        BY <4>4, <4>6 DEF Since
      <4> QED
        BY <4>0, <4>1, <4>2, <4>7
    <3>2. CASE q = r
      <4>1. /\ ~(new.count <= Limit[key])
            /\ request' = [request EXCEPT ![r].at = "refused"]
        BY <1>4, <1>6, <2>1, <3>2 DEF At, IInv, TypeOK, Request
      <4>2. Head(request'[r].path) = key /\ request'[r].time = t
        BY <1>0, <4>1 DEF KeyOf, IInv, TypeOK, Request
      <4>3. new.count \in Nat /\ Limit[key] \in Nat
        BY <1>1, <1>5, Typed
      <4>4. Cardinality(since(key, w)) > Limit[key]
        BY <1>12, <4>1, <4>3 DEF Since
      <4> QED
        BY <1>0, <3>2, <4>2, <4>4
    <3> QED
      BY <3>1, <3>2
  <2> QED
    BY <2>1 DEF RefusedWasOverBudget, KeyOf, At
<1>15. GrantsFit'
  <2>1. ASSUME NEW k \in Keys, NEW x \in Times
        PROVE  Cardinality(Grants(k, x)') <= Room(k, x)'
    <3>1. CASE k # key
      BY <1>3, <1>9, <3>1 DEF IInv, GrantsFit, Grants, Room, Paid, Counted, Over
    <3>2. CASE k = key
      <4> DEFINE G == Grants(key, x)
      <4>1. /\ Room(key, x) \in Nat /\ Room(key, x)' \in Nat
            /\ Room(key, x) <= Room(key, x)'
            /\ x = w /\ row'[key].count <= Limit[key] => Room(key, x) + 1 <= Room(key, x)'
        BY <1>0, <1>1, <1>3, <1>10, RoomStep
      <4>2. /\ IsFiniteSet(G) /\ Cardinality(G) \in Nat
            /\ Cardinality(G) <= Room(key, x) /\ u \notin G
        BY <1>1, SinceFinite DEF IInv, GrantsFit, Numbers, Grants
      <4>3. \/ Grants(key, x)' = G
            \/ new.count <= Limit[key] /\ x = w /\ Grants(key, x)' = G \cup {u}
        BY <1>0, <1>2, <1>10 DEF Grants
      <4>4. CASE new.count <= Limit[key] /\ x = w /\ Grants(key, x)' = G \cup {u}
        <5> HIDE DEF G
        <5>1. Cardinality(G \cup {u}) = Cardinality(G) + 1
          BY <4>2, FS_AddElement
        <5> QED
          BY <1>10, <3>2, <4>1, <4>2, <4>3, <4>4, <5>1
      <4>5. CASE Grants(key, x)' = G
        <5> HIDE DEF G
        <5> QED
          BY <3>2, <4>1, <4>2, <4>5
      <4> QED
        BY <4>3, <4>4, <4>5
    <3> QED
      BY <3>1, <3>2
  <2> QED
    BY <2>1 DEF GrantsFit
<1> QED
  BY <1>7, <1>8, <1>11, <1>13, <1>14, <1>15 DEF IInv

LEMMA ConsumeKept ==
    ASSUME IInv, NEW r \in Requests, Consume(r) \/ ConsumeUnanswered(r) PROVE IInv'
<1>1. CASE Consume(r)
  BY <1>1, CountKept DEF Consume, Allowed
<1>2. CASE ConsumeUnanswered(r)
  BY <1>2, CountKept DEF ConsumeUnanswered
<1> QED
  BY <1>1, <1>2

\* A row that is collected is one no upsert can come for any more.
LEMMA CollectGarbageKept == ASSUME IInv, CollectGarbage PROVE IInv'
<1>1. PICK t \in Times :
        /\ t <= now
        /\ row' = [key \in Keys |-> IF Collected(key, t) THEN NoRow ELSE row[key]]
        /\ UNCHANGED <<now, request, history>>
  BY DEF CollectGarbage
<1>2. TypeOK'
  BY <1>1 DEF IInv, TypeOK, NoRow, history
<1>3. InTime' /\ Numbers' /\ RefusedWasOverBudget'
  BY <1>1 DEF IInv, InTime, Numbers, RefusedWasOverBudget, At, KeyOf, history
<1>4. CountBacked'
  <2>1. ASSUME NEW key \in Keys PROVE row'[key].count <= Cardinality(Since(key, row'[key].start))
    <3>1. Cardinality(Since(key, row'[key].start)) \in Nat
      BY SinceFinite DEF IInv
    <3>2. CASE Collected(key, t)
      BY <1>1, <3>1, <3>2 DEF NoRow
    <3>3. CASE ~Collected(key, t)
      BY <1>1, <3>3 DEF IInv, CountBacked
    <3> QED
      BY <3>2, <3>3
  <2> QED
    BY <1>1, <2>1 DEF CountBacked, Since, history
<1>5. GrantsFit'
  <2>1. ASSUME NEW key \in Keys, NEW w \in Times PROVE Room(key, w)' = Room(key, w)
    <3>0. w \in Nat
      BY RateLimitAssumption DEF Times
    <3>1. /\ Paid(key, w)' = Paid(key, w) /\ (Over(key, w)' <=> Over(key, w))
          /\ row'[key] = IF Collected(key, t) THEN NoRow ELSE row[key]
      BY <1>1 DEF Paid, Over, history
    <3>2. CASE ~Collected(key, t)
      BY <3>1, <3>2 DEF Room, Counted
    <3>3. CASE Collected(key, t)
      <4>1. /\ row'[key].start = 0 /\ row'[key].count = 0
            /\ row[key].start + Retain < now
        <5>1. t \in Nat
          BY RateLimitAssumption DEF Times
        <5> QED
          BY <1>1, <3>1, <3>3, <5>1, Typed DEF NoRow, Collected
      <4>2. row[key].start >= w => Over(key, w)
        BY <3>0, <4>1, Typed DEF Over
      <4>3. CASE Over(key, w)
        BY <3>1, <4>3 DEF Room
      <4>4. CASE ~Over(key, w)
        <5>1. row[key].start \in Nat /\ row[key].start < w /\ Room(key, w) = Paid(key, w)
          BY <3>0, <4>2, <4>4, Typed DEF Room
        <5>2. Room(key, w)' = Paid(key, w)
          BY <3>0, <3>1, <4>1, <4>4, <5>1 DEF Room
        <5> QED
          BY <5>1, <5>2
      <4> QED
        BY <4>3, <4>4
    <3> QED
      BY <3>2, <3>3
  <2> QED
    BY <1>1, <2>1 DEF IInv, GrantsFit, Grants, history
<1> QED
  BY <1>2, <1>3, <1>4, <1>5 DEF IInv

------------------------------------------------------------------------------
LEMMA StepInv == IInv /\ [Next]_vars => IInv'
<1> SUFFICES ASSUME IInv, [Next]_vars PROVE IInv'
  OBVIOUS
<1>1. CASE UNCHANGED vars
  <2>1. UNCHANGED <<now, row, history>> /\ request' = request
    BY <1>1 DEF vars
  <2>2. /\ request' \in [Requests -> Request]
        /\ InTime' /\ RefusedWasOverBudget'
    BY <2>1 DEF IInv, TypeOK, InTime, RefusedWasOverBudget, At, KeyOf, history
  <2> QED
    BY <2>1, <2>2, QuietKept
<1>2. CASE Next
  BY <1>2, ArriveKept, StampKept, ConsumeKept, AnswerKept, CollectGarbageKept, TickKept DEF Next
<1> QED
  BY <1>1, <1>2

\* The invariant the properties follow from holds of every reachable state.
THEOREM Inductive == Spec => []IInv
BY InitInv, StepInv, PTL DEF Spec

\* The limiter's state keeps its types.
THEOREM TypeCorrect == Spec => []TypeOK
<1>1. IInv => TypeOK
  BY DEF IInv
<1> QED
  BY <1>1, Inductive, PTL

\* For any keys, limits, windows and delays, a request is refused only for
\* what its own window or a later one counted (rateLimit.repository consume).
THEOREM RefusalsAreEarned == Spec => []RefusedWasOverBudget
<1>1. IInv => RefusedWasOverBudget
  BY DEF IInv
<1> QED
  BY <1>1, Inductive, PTL

\* For any keys, limits, windows and delays, a window grants its limit and one
\* limit more for each upsert that moved the row back to it or over it, and
\* collecting rows adds nothing (rateLimit.repository consume, collectGarbage).
THEOREM GrantsLimited == Spec => []GrantsBounded
<1>1. IInv => GrantsBounded
  <2> SUFFICES ASSUME IInv, NEW key \in Keys, NEW w \in Times
               PROVE  Cardinality(Grants(key, w)) <= Limit[key] * (1 + late[key][w])
    BY DEF GrantsBounded, Grants
  <2>1. w \in Nat /\ Cardinality(Grants(key, w)) \in Nat
    BY RateLimitAssumption, SinceFinite DEF Times, IInv
  <2>2. Cardinality(Grants(key, w)) <= Room(key, w)
    BY <2>1 DEF IInv, GrantsFit
  <2>3. Room(key, w) \in Nat /\ Room(key, w) <= Paid(key, w) + Limit[key]
    BY <2>1, Typed DEF Room
  <2>4. /\ Limit[key] * (1 + late[key][w]) = Paid(key, w) + Limit[key]
        /\ Paid(key, w) \in Nat /\ Limit[key] \in Nat
    BY Typed, PaidIs DEF Paid
  <2> QED
    BY <2>1, <2>2, <2>3, <2>4
<1> QED
  BY <1>1, Inductive, PTL

------------------------------------------------------------------------------
(***************************************************************************)
(* Late upserts                                                            *)
(***************************************************************************)
\* No row is of a window that has yet to begin.
RowInTime == \A key \in Keys : row[key].start <= WindowAt(key, now)

OInv == IInv /\ RowInTime

\* A later time is of the same window or of a later one.
LEMMA WindowGrows ==
    ASSUME NEW key \in Keys, NEW t \in Nat, NEW u \in Nat, t <= u
    PROVE  WindowAt(key, t) <= WindowAt(key, u)
<1> DEFINE n == Window[key]
           a == t \div n
           b == u \div n
<1>1. n \in Nat \ {0}
  BY RateLimitAssumption
<1>2. a \in Nat /\ b \in Nat /\ a <= b
  BY <1>1
<1>3. a * n <= b * n
  <2> HIDE DEF a, b, n
  <2>1. PICK d \in Nat : b = a + d
    BY <1>2
  <2>2. b * n = a * n + d * n /\ a * n \in Nat /\ d * n \in Nat
    BY <1>1, <1>2, <2>1
  <2> QED
    BY <2>2
<1> QED
  BY <1>3 DEF WindowAt

\* A window before one that has begun is over.
LEMMA EarlierIsOver ==
    ASSUME NEW key \in Keys, NEW t \in Nat, NEW u \in Nat,
           WindowAt(key, t) < WindowAt(key, u)
    PROVE  WindowAt(key, t) + Window[key] <= u
<1> DEFINE n == Window[key]
           a == t \div n
           b == u \div n
<1>1. n \in Nat \ {0} /\ WindowAt(key, u) <= u
  BY RateLimitAssumption, WindowIs
<1>2. a \in Nat /\ b \in Nat /\ a * n < b * n
  BY <1>1 DEF WindowAt
<1>3. a * n + n <= b * n
  <2> HIDE DEF a, b, n
  <2>1. ~(b <= a)
    <3>1. ASSUME b <= a PROVE FALSE
      <4>1. PICK d \in Nat : a = b + d
        BY <1>2, <3>1
      <4>2. a * n = b * n + d * n /\ d * n \in Nat /\ b * n \in Nat
        BY <1>1, <1>2, <4>1
      <4> QED
        BY <1>2, <4>2
    <3> QED
      BY <3>1
  <2>2. PICK d \in Nat : b = a + 1 + d
    BY <1>2, <2>1
  <2>3. b * n = a * n + n + d * n /\ a * n \in Nat /\ d * n \in Nat
    BY <1>1, <1>2, <2>2
  <2> QED
    BY <1>1, <2>3
<1>4. a * n = WindowAt(key, t) /\ b * n = WindowAt(key, u)
  BY DEF WindowAt
<1> HIDE DEF a, b
<1>5. a * n \in Nat /\ b * n \in Nat /\ u \in Nat
  BY <1>1, <1>2
<1> QED
  BY <1>1, <1>3, <1>4, <1>5

LEMMA RowInTimeStep ==
    ASSUME OInv, [Next]_vars
    PROVE  RowInTime'
<1>0. IInv /\ RowInTime /\ now \in Nat
  BY RateLimitAssumption DEF OInv, IInv, TypeOK, Times
<1>1. now' \in Nat /\ now <= now'
  <2>1. now' = now \/ now' = now + 1
    BY DEF Next, Arrive, Stamp, Consume, ConsumeFails, ConsumeUnanswered, Count, Answer,
         CollectGarbage, Tick, vars
  <2> QED
    BY <1>0, <2>1
<1>2. ASSUME NEW key \in Keys PROVE row'[key].start <= WindowAt(key, now')
  <2>1. /\ row[key].start <= WindowAt(key, now) /\ row[key].start \in Nat
        /\ WindowAt(key, now) <= WindowAt(key, now')
        /\ WindowAt(key, now) \in Nat /\ WindowAt(key, now') \in Nat
    BY <1>0, <1>1, Typed, WindowGrows, WindowIs DEF RowInTime
  <2>2. CASE row' = row
    BY <2>1, <2>2
  <2>3. CASE CollectGarbage
    <3>1. row'[key] = NoRow \/ row'[key] = row[key]
      BY <2>3 DEF CollectGarbage
    <3> QED
      BY <2>1, <3>1 DEF NoRow
  <2>4. ASSUME NEW r \in Requests, Count(r)
        PROVE  row'[key].start <= WindowAt(key, now')
    <3>1. PICK k, t, w : k = KeyOf(r) /\ t = request[r].time /\ w = WindowAt(k, t)
      OBVIOUS
    <3>2. k \in Keys /\ t \in Nat /\ t <= now /\ w \in Nat
      <4>1. k \in Keys /\ t \in Nat /\ w \in Nat
        BY <1>0, <2>4, <3>1, Upserting
      <4>2. t <= now
        BY <1>0, <2>4, <3>1 DEF Count, IInv, InTime
      <4> QED
        BY <4>1, <4>2
    <3>3. row' = [row EXCEPT ![k] = Upserted(k, w)] /\ Upserted(k, w).start = w
      BY <2>4, <3>1 DEF Count, Upserted
    <3>4. CASE key = k
      <4>1. row'[key].start = w
        BY <1>0, <3>3, <3>4 DEF IInv, TypeOK
      <4>2. w <= WindowAt(key, now)
        BY <1>0, <3>1, <3>2, <3>4, WindowGrows
      <4> QED
        BY <2>1, <3>2, <4>1, <4>2
    <3>5. CASE key # k
      <4>1. row'[key] = row[key]
        BY <3>3, <3>5 DEF IInv, TypeOK
      <4> QED
        BY <2>1, <4>1
    <3> QED
      BY <3>4, <3>5
  <2>5. row' = row \/ CollectGarbage \/ \E r \in Requests : Count(r)
    BY DEF Next, Arrive, Stamp, Consume, ConsumeFails, ConsumeUnanswered, Answer, Tick, vars
  <2> QED
    BY <2>2, <2>3, <2>4, <2>5
<1> QED
  BY <1>2 DEF RowInTime

LEMMA OInductive == Spec => []OInv
<1>1. Init => OInv
  <2> SUFFICES ASSUME Init PROVE OInv
    OBVIOUS
  <2>1. ASSUME NEW key \in Keys PROVE row[key].start <= WindowAt(key, now)
    <3>1. row[key].start = 0 /\ now = 0
      BY DEF Init, NoRow
    <3>2. WindowAt(key, now) \in Nat
      BY <3>1, WindowIs
    <3> QED
      BY <3>1, <3>2
  <2> QED
    BY <2>1, InitInv DEF OInv, RowInTime
<1>2. OInv /\ [Next]_vars => OInv'
  BY StepInv, RowInTimeStep DEF OInv
<1> QED
  BY <1>1, <1>2, PTL DEF Spec

\* The step that moves a row back is an upsert for a window that is over.
LEMMA LateStep ==
    ASSUME OInv, [Next]_vars, NEW key \in Keys, late'[key] # late[key]
    PROVE  \E r \in Requests :
               /\ Count(r) /\ KeyOf(r) = key
               /\ WindowAt(key, request[r].time) + Window[key] <= now
<1>0. IInv /\ RowInTime /\ now \in Nat
  <2>1. IInv /\ RowInTime
    BY DEF OInv
  <2> QED
    BY <2>1, Typed
<1>1. PICK r \in Requests : Count(r)
  <2>1. late' # late
    <3>1. late' = late => late'[key] = late[key]
      OBVIOUS
    <3> QED
      BY <3>1
  <2>2. \A r \in Requests : ~(Arrive(r) \/ Stamp(r) \/ ConsumeFails(r) \/ Answer(r))
    BY <2>1 DEF Arrive, Stamp, ConsumeFails, Answer, history
  <2>3. ~(CollectGarbage \/ Tick \/ UNCHANGED vars)
    BY <2>1 DEF CollectGarbage, Tick, vars, history
  <2>4. PICK r \in Requests : Consume(r) \/ ConsumeUnanswered(r)
    BY <2>2, <2>3 DEF Next
  <2>5. Consume(r) => Count(r)
    BY DEF Consume
  <2>6. ConsumeUnanswered(r) => Count(r)
    BY DEF ConsumeUnanswered
  <2> QED
    BY <2>4, <2>5, <2>6
<1>2. PICK k, t, w : k = KeyOf(r) /\ t = request[r].time /\ w = WindowAt(k, t)
  OBVIOUS
<1>3. k \in Keys /\ t \in Nat /\ w \in Nat
  BY <1>0, <1>1, <1>2, Upserting
<1>4. late' = [late EXCEPT ![k] = MovedBack(k, w)]
  BY <1>1, <1>2 DEF Count, Upserted
<1>5. k = key
  BY <1>0, <1>4 DEF IInv, TypeOK
<1>6. late[key] \in [Times -> Nat] /\ late'[key] = MovedBack(key, w)
  BY <1>0, <1>4, <1>5 DEF IInv, TypeOK
<1>7. w < row[key].start
  <2>1. ASSUME ~(w < row[key].start) PROVE FALSE
    <3>1. MovedBack(key, w) = [x \in Times |-> late[key][x]]
      BY <2>1 DEF MovedBack
    <3> QED
      BY <1>6, <3>1
  <2> QED
    BY <2>1
<1>8. row[key].start <= WindowAt(key, now) /\ row[key].start \in Nat /\ WindowAt(key, now) \in Nat
  BY <1>0, Typed, WindowIs DEF RowInTime
<1>9. w < WindowAt(key, now)
  BY <1>3, <1>7, <1>8
<1>10. w + Window[key] <= now
  BY <1>0, <1>2, <1>3, <1>5, <1>9, EarlierIsOver
<1> QED
  BY <1>1, <1>2, <1>5, <1>10

\* For any keys, limits, windows and delays, a window's count is lost only to
\* an upsert whose own window is over (rateLimit.repository consume).
THEOREM OverrunsAreLate == Spec => OverrunNeedsDelay
<1>1. OInv /\ [Next]_vars =>
        [\A key \in Keys : late'[key] # late[key] =>
            \E r \in Requests :
                /\ Count(r) /\ KeyOf(r) = key
                /\ WindowAt(key, request[r].time) + Window[key] <= now]_vars
  <2> SUFFICES ASSUME OInv, [Next]_vars
               PROVE  \A key \in Keys : late'[key] # late[key] =>
                          \E r \in Requests :
                              /\ Count(r) /\ KeyOf(r) = key
                              /\ WindowAt(key, request[r].time) + Window[key] <= now
    OBVIOUS
  <2> QED
    BY LateStep
<1> QED
  BY <1>1, OInductive, PTL DEF Spec, OverrunNeedsDelay
==============================================================================
