---------------------------- MODULE Accounts_proofs ----------------------------
(***************************************************************************)
(* Proofs about Accounts: types, the bounds on attempts and on live codes, *)
(* that what is accepted was right since it arrived, and that the user row *)
(* changes for a reason, for any requests, passwords and cap.              *)
(***************************************************************************)
EXTENDS Accounts, FiniteSetTheorems, SequenceTheorems, WellFoundedInduction, TLAPS

\* Which operations reach which points.
Staged(r) ==
    /\ r.at \in {"creating", "attaching"} => r.op = "register"
    /\ r.at \in {"issuing", "dropping", "minting", "mailing"} => r.op \in Issuers
    /\ r.at \in {"wrong", "right", "proven"} => r.op \in {"confirm", "reset"}
    /\ r.at \in {"wrong", "right"} => r.token # NoCode

Handlers == \A k \in Calls : Staged(call[k])

\* A handler past the comparison is one that was entitled to pass it.
Past == {"right", "proven", "done"}

Measured ==
    \A k \in Calls : Entitled(k) \/ call[k].at \in Past => could[k]

IInv == TypeOK /\ Handlers /\ AttemptsBounded /\ FewLiveCodes /\ Measured

\* The two counts of the bounds.
Wrong(c) == {k \in Calls : call[k].at = "wrong" /\ call[k].token = c}
Minting(p) == {k \in Calls : call[k].at = "minting" /\ PurposeOf[call[k].op] = p}

------------------------------------------------------------------------------
LEMMA FreeCalls ==
    /\ Idle.at = "idle" /\ Done.at = "done"
    /\ Idle.token = NoCode /\ Done.token = NoCode
    /\ Staged(Idle) /\ Staged(Done)
    /\ Idle \notin Call /\ Done \notin Call
BY DEF Idle, Done, Free, Call, Points, Staged

LEMMA Finite ==
    ASSUME NEW c, NEW p
    PROVE  /\ IsFiniteSet(Wrong(c)) /\ Cardinality(Wrong(c)) \in Nat
           /\ Cardinality(Wrong(c)) <= Cardinality(Calls)
           /\ IsFiniteSet(Minting(p)) /\ Cardinality(Minting(p)) \in Nat
           /\ Cardinality(Minting(p)) <= Cardinality(Calls)
           /\ Cardinality(Calls) \in Nat
<1>1. Wrong(c) \in SUBSET Calls /\ Minting(p) \in SUBSET Calls
  BY DEF Wrong, Minting
<1> QED
  BY <1>1, FS_Subset, FS_CardinalityType, AccountsAssumption

LEMMA LiveFinite ==
    ASSUME NEW p, codes \in Seq(Code)
    PROVE  IsFiniteSet(Live(p)) /\ Cardinality(Live(p)) \in Nat
<1>1. Live(p) \in SUBSET (1..Len(codes)) /\ Len(codes) \in Nat
  BY DEF Live
<1>2. IsFiniteSet(1..Len(codes))
  BY <1>1, FS_Interval
<1> QED
  BY <1>1, <1>2, FS_Subset, FS_CardinalityType

LEMMA Smallest ==
    ASSUME NEW S \in SUBSET Nat, S # {}
    PROVE  \E m \in S : \A n \in S : m <= n
<1> DEFINE below == {ss \in Nat \X Nat : ss[1] < ss[2]}
<1>1. IsWellFoundedOn(below, Nat)
  BY NatLessThanWellFounded DEF OpToRel
<1>2. PICK m \in S : \A n \in S : ~(<<n, m>> \in below)
  <2> HIDE DEF below
  <2> QED
    BY <1>1, WFMin
<1>3. ASSUME NEW n \in S PROVE m <= n
  <2>1. n \in Nat /\ m \in Nat
    OBVIOUS
  <2>2. n < m => <<n, m>> \in below
    BY <2>1
  <2> HIDE DEF below
  <2>3. ~(n < m)
    BY <1>2, <2>2
  <2> QED
    BY <2>1, <2>3
<1> QED
  BY <1>3

\* The latest live code is one, when there is one.
LEMMA LatestLive ==
    ASSUME NEW p, codes \in Seq(Code), Latest(p) # NoCode
    PROVE  Latest(p) \in Live(p)
<1>1. Live(p) \subseteq 1..Len(codes) /\ Len(codes) \in Nat
  BY DEF Live
<1>2. Live(p) # {}
  BY DEF Latest
<1> DEFINE above == {m \in Nat : \E c \in Live(p) : m = Len(codes) - c}
<1>3. above # {} /\ above \subseteq Nat
  <2>1. PICK c \in Live(p) : TRUE
    BY <1>2
  <2>2. Len(codes) - c \in Nat
    BY <1>1, <2>1
  <2> QED
    BY <2>1, <2>2
<1>4. PICK m \in above : \A n \in above : m <= n
  <2> HIDE DEF above
  <2> QED
    BY <1>3, Smallest
<1>5. PICK c \in Live(p) : m = Len(codes) - c
  BY <1>4
<1>6. ASSUME NEW d \in Live(p) PROVE d <= c
  <2>1. Len(codes) - d \in above
    BY <1>1, <1>6
  <2>2. m <= Len(codes) - d
    BY <1>4, <2>1
  <2> QED
    BY <1>1, <1>5, <1>6, <2>2
<1> QED
  BY <1>2, <1>6 DEF Latest

LEMMA Counts ==
    /\ AttemptsBounded <=> \A c \in DOMAIN codes :
            codes[c].attempts + Cardinality(Wrong(c)) < MaxAttempts + Cardinality(Calls)
    /\ FewLiveCodes <=> \A p \in Purposes :
            Cardinality(Live(p)) + Cardinality(Minting(p)) <= Cardinality(Calls)
BY DEF AttemptsBounded, FewLiveCodes, Wrong, Minting, At

LEMMA InitInv == Init => IInv
<1> SUFFICES ASSUME Init PROVE IInv
  OBVIOUS
<1> USE AccountsAssumption
<1>1. \A k \in Calls : call[k] = Idle
  BY DEF Init
<1>2. TypeOK
  BY <1>1, FreeCalls DEF Init, TypeOK, User, Typed, NoCode
<1>3. Handlers
  BY <1>1, FreeCalls DEF Handlers
<1>4. AttemptsBounded
  BY DEF Init, AttemptsBounded
<1>5. FewLiveCodes
  <2>1. ASSUME NEW p \in Purposes
        PROVE  Cardinality(Live(p)) + Cardinality(Minting(p)) <= Cardinality(Calls)
    <3>1. Live(p) = {} /\ Minting(p) = {}
      BY <1>1, FreeCalls DEF Init, Live, Minting
    <3> QED
      BY <3>1, FS_EmptySet, Finite
  <2> QED
    BY <2>1, Counts
<1>6. Measured
  BY <1>1, FreeCalls DEF Init, Measured, Entitled, Past
<1> QED
  BY <1>2, <1>3, <1>4, <1>5, <1>6 DEF IInv

------------------------------------------------------------------------------
\* The attempts of a code stay bounded when they start below the cap, when
\* nothing is added to either count, or when one moves from one to the other.
LEMMA Counted ==
    ASSUME TypeOK, AttemptsBounded, NEW k \in Calls, NEW r, codes' \in Seq(Code),
           call' = [call EXCEPT ![k] = r],
           \A c \in DOMAIN codes' :
                \/ codes'[c].attempts < MaxAttempts
                \/ /\ c \in DOMAIN codes
                   /\ codes'[c].attempts = codes[c].attempts
                   /\ r.at # "wrong"
                \/ /\ c \in DOMAIN codes
                   /\ codes'[c].attempts = codes[c].attempts + 1
                   /\ k \in Wrong(c) /\ r.at # "wrong"
    PROVE  AttemptsBounded'
<1>1. ASSUME NEW c \in DOMAIN codes'
      PROVE  codes'[c].attempts + Cardinality(Wrong(c)') < MaxAttempts + Cardinality(Calls)
  <2>1. /\ codes'[c].attempts \in Nat /\ MaxAttempts \in Nat
        /\ c \in DOMAIN codes => codes[c].attempts \in Nat
    <3>1. codes'[c] \in Code /\ (c \in DOMAIN codes => codes[c] \in Code)
      BY DEF TypeOK
    <3> QED
      BY <3>1, AccountsAssumption DEF Code
  <2>2. /\ Cardinality(Wrong(c)) \in Nat /\ IsFiniteSet(Wrong(c)) /\ Cardinality(Calls) \in Nat
    BY Finite
  <2>3. Cardinality(Wrong(c)') \in Nat /\ Cardinality(Wrong(c)') <= Cardinality(Calls)
    <3>1. Wrong(c)' \in SUBSET Calls
      BY DEF Wrong
    <3> QED
      BY <3>1, FS_Subset, FS_CardinalityType, AccountsAssumption
  <2>4. c \in DOMAIN codes =>
           codes[c].attempts + Cardinality(Wrong(c)) < MaxAttempts + Cardinality(Calls)
    BY Counts
  <2>5. r.at # "wrong" => Wrong(c)' = Wrong(c) \ {k}
    BY DEF Wrong, TypeOK
  <2>6. r.at # "wrong" =>
           Cardinality(Wrong(c)') = IF k \in Wrong(c) THEN Cardinality(Wrong(c)) - 1
                                                      ELSE Cardinality(Wrong(c))
    BY <2>2, <2>5, FS_RemoveElement
  <2>7. CASE codes'[c].attempts < MaxAttempts
    BY <2>1, <2>2, <2>3, <2>7
  <2>8. CASE /\ c \in DOMAIN codes
             /\ codes'[c].attempts = codes[c].attempts
             /\ r.at # "wrong"
    <3>1. Cardinality(Wrong(c)') <= Cardinality(Wrong(c))
      BY <2>2, <2>6, <2>8
    <3> QED
      BY <2>1, <2>2, <2>3, <2>4, <2>8, <3>1
  <2>9. CASE /\ c \in DOMAIN codes
             /\ codes'[c].attempts = codes[c].attempts + 1
             /\ k \in Wrong(c) /\ r.at # "wrong"
    <3>1. Cardinality(Wrong(c)') = Cardinality(Wrong(c)) - 1
      BY <2>6, <2>9
    <3> QED
      BY <2>1, <2>2, <2>3, <2>4, <2>9, <3>1
  <2> QED
    BY <1>1, <2>7, <2>8, <2>9
<1> QED
  BY <1>1 DEF AttemptsBounded, Wrong, At

\* Live codes stay few when none are left, when nothing is added to either
\* count, or when one moves from one to the other.
LEMMA Limited ==
    ASSUME codes \in Seq(Code), FewLiveCodes, codes' \in Seq(Code),
           \A p \in Purposes :
                \/ Live(p)' = {}
                \/ Live(p)' \subseteq Live(p) /\ Minting(p)' \subseteq Minting(p)
                \/ \E k \in Minting(p), c \in Nat :
                        /\ Live(p)' = Live(p) \cup {c}
                        /\ Minting(p)' = Minting(p) \ {k}
    PROVE  FewLiveCodes'
<1>1. ASSUME NEW p \in Purposes
      PROVE  Cardinality(Live(p)') + Cardinality(Minting(p)') <= Cardinality(Calls)
  <2>1. Cardinality(Live(p)) + Cardinality(Minting(p)) <= Cardinality(Calls)
    BY Counts
  <2>2. /\ IsFiniteSet(Live(p)) /\ Cardinality(Live(p)) \in Nat
        /\ IsFiniteSet(Minting(p)) /\ Cardinality(Minting(p)) \in Nat
        /\ Cardinality(Calls) \in Nat
    BY Finite, LiveFinite
  <2>3. Minting(p)' \in SUBSET Calls
    BY DEF Minting
  <2>4. Cardinality(Minting(p)') \in Nat /\ Cardinality(Minting(p)') <= Cardinality(Calls)
    BY <2>3, FS_Subset, FS_CardinalityType, AccountsAssumption
  <2>5. CASE Live(p)' = {}
    BY <2>2, <2>4, <2>5, FS_EmptySet
  <2>6. CASE Live(p)' \subseteq Live(p) /\ Minting(p)' \subseteq Minting(p)
    <3>1. /\ Cardinality(Live(p)') <= Cardinality(Live(p))
          /\ Cardinality(Live(p)') \in Nat
      BY <2>2, <2>6, FS_Subset, FS_CardinalityType
    <3>2. Cardinality(Minting(p)') <= Cardinality(Minting(p))
      BY <2>2, <2>6, FS_Subset
    <3> QED
      BY <2>1, <2>2, <2>4, <3>1, <3>2
  <2>7. CASE \E k \in Minting(p), c \in Nat :
                /\ Live(p)' = Live(p) \cup {c}
                /\ Minting(p)' = Minting(p) \ {k}
    <3>1. PICK k \in Minting(p), c \in Nat :
                /\ Live(p)' = Live(p) \cup {c}
                /\ Minting(p)' = Minting(p) \ {k}
      BY <2>7
    <3>2. /\ Cardinality(Live(p)') <= Cardinality(Live(p)) + 1
          /\ Cardinality(Live(p)') \in Nat
      <4>1. /\ IsFiniteSet(Live(p)')
            /\ Cardinality(Live(p)') = IF c \in Live(p) THEN Cardinality(Live(p))
                                                      ELSE Cardinality(Live(p)) + 1
        <5> DEFINE L == Live(p)
        <5>1. /\ IsFiniteSet(L \cup {c})
              /\ Cardinality(L \cup {c}) = IF c \in L THEN Cardinality(L) ELSE Cardinality(L) + 1
          BY <2>2, FS_AddElement
        <5> QED
          BY <3>1, <5>1
      <4> QED
        BY <2>2, <4>1
    <3>3. Cardinality(Minting(p)') = Cardinality(Minting(p)) - 1
      BY <2>2, <3>1, FS_RemoveElement
    <3> QED
      BY <2>1, <2>2, <2>4, <3>2, <3>3
  <2> QED
    BY <1>1, <2>5, <2>6, <2>7
<1> QED
  BY <1>1 DEF FewLiveCodes, Minting, At

------------------------------------------------------------------------------
\* What every action is shown to keep; the measure adds the rest.
Kept ==
    /\ user' \in User /\ codes' \in Seq(Code)
    /\ call' \in [Calls -> Call \cup {Idle, Done}]
    /\ \A k \in Calls : call'[k].token \in Typed'
    /\ (Handlers /\ AttemptsBounded /\ FewLiveCodes)'
    /\ \A k \in Calls : call'[k].at \in Past => could[k]

\* A step of a handler that writes the codes, given what it does to the counts.
LEMMA WriteKept ==
    ASSUME IInv, NEW k \in Calls, NEW r \in Call \cup {Idle, Done},
           call' = [call EXCEPT ![k] = r],
           Staged(r), r.token \in Typed', r.at \in Past => could[k],
           user' \in User, codes' \in Seq(Code), Len(codes) <= Len(codes'),
           (AttemptsBounded /\ FewLiveCodes)'
    PROVE  Kept
<1>1. \A j \in Calls : call'[j] = IF j = k THEN r ELSE call[j]
  BY DEF IInv, TypeOK
<1>2. call' \in [Calls -> Call \cup {Idle, Done}]
  BY DEF IInv, TypeOK
<1>3. Typed \subseteq Typed'
  <2>1. Len(codes) \in Nat /\ Len(codes') \in Nat
    BY DEF IInv, TypeOK
  <2> QED
    BY <2>1 DEF Typed
<1>4. \A j \in Calls : call'[j].token \in Typed'
  BY <1>1, <1>3 DEF IInv, TypeOK
<1>5. Handlers'
  BY <1>1 DEF IInv, Handlers, Staged
<1>6. \A j \in Calls : call'[j].at \in Past => could[j]
  BY <1>1 DEF IInv, Measured
<1> QED
  BY <1>2, <1>4, <1>5, <1>6 DEF Kept

\* One that leaves the codes alone and neither has found a wrong code nor is
\* about to create one.
LEMMA PlainKept ==
    ASSUME IInv, NEW k \in Calls, NEW r \in Call \cup {Idle, Done},
           call' = [call EXCEPT ![k] = r],
           Staged(r), r.token \in Typed, r.at \in Past => could[k],
           r.at \notin {"wrong", "minting"},
           user' \in User, UNCHANGED codes
    PROVE  Kept
<1>1. codes' \in Seq(Code) /\ Typed' = Typed /\ Len(codes) <= Len(codes')
  BY DEF IInv, TypeOK, Typed
<1>2. AttemptsBounded'
  BY <1>1, Counted DEF IInv
<1>3. \A p \in Purposes : Live(p)' \subseteq Live(p) /\ Minting(p)' \subseteq Minting(p)
  BY DEF Live, Minting, IInv, TypeOK
<1>4. FewLiveCodes'
  BY <1>1, <1>3, Limited DEF IInv, TypeOK
<1> QED
  BY <1>1, <1>2, <1>4, WriteKept

\* A handler under way carries a request, and only the right points carry a code.
LEMMA Started ==
    ASSUME IInv, NEW k \in Calls, call[k].at \in Points
    PROVE  /\ call[k] \in Call /\ call[k] \notin {Idle, Done}
           /\ Staged(call[k]) /\ call[k].token \in Typed
<1>1. call[k] \notin {Idle, Done}
  BY FreeCalls DEF Points
<1> QED
  BY <1>1 DEF IInv, TypeOK, Handlers

\* A handler that ends, and one that moves on to a point of no count.
LEMMA EndKept ==
    ASSUME IInv, NEW k \in Calls, user' \in User, UNCHANGED codes,
           Refuse(k) \/ (Finish(k) /\ could[k])
    PROVE  Kept
<1>1. NoCode \in Typed
  BY DEF IInv, TypeOK, Typed, NoCode
<1>2. CASE Refuse(k)
  BY <1>1, <1>2, FreeCalls, PlainKept DEF Refuse, Past
<1>3. CASE Finish(k) /\ could[k]
  BY <1>1, <1>3, FreeCalls, PlainKept DEF Finish, Past
<1> QED
  BY <1>2, <1>3

LEMMA MoveKept ==
    ASSUME IInv, NEW k \in Calls, NEW p \in Points \ {"wrong", "minting"},
           user' \in User, UNCHANGED codes,
           call[k].at \in Points, MoveTo(k, p), p \in Past => could[k],
           Staged([call[k] EXCEPT !.at = p])
    PROVE  Kept
<1> DEFINE r == [call[k] EXCEPT !.at = p]
<1>1. call' = [call EXCEPT ![k] = r]
  BY DEF MoveTo
<1>2. r \in Call /\ r.at = p /\ r.token \in Typed
  BY Started DEF Call
<1> QED
  BY <1>1, <1>2, PlainKept

\* What a request is entitled to it has been measured as entitled to.
LEMMA Could ==
    ASSUME IInv, NEW k \in Calls, Entitled(k) \/ call[k].at \in Past
    PROVE  could[k]
BY DEF IInv, Measured

\* Requests without a secret are always entitled.
LEMMA OpenCould ==
    ASSUME IInv, NEW k \in Calls, call[k].at \in Points,
           call[k].op \notin {"login", "confirm", "reset"}
    PROVE  could[k]
BY Started, Could DEF Entitled

LEMMA UserKept == ASSUME IInv, UNCHANGED tables PROVE user' \in User /\ UNCHANGED codes
BY DEF IInv, TypeOK, tables

LEMMA ArriveKept == ASSUME IInv, NEW k \in Calls, Arrive(k) PROVE Kept
<1>1. PICK r \in Incoming : call' = [call EXCEPT ![k] = r]
  BY DEF Arrive
<1>2. r \in Call /\ r.at = "arrived" /\ r.token = NoCode
  <2> USE DEF Request, Call, Points, Ops, PurposeOf, NoCode
  <2>1. Typed \subseteq Nat
    BY DEF Typed
  <2>2. CASE r \in {Request(op, pw, NoCode) : op \in {"register", "login"}, pw \in Passwords}
    BY <2>2
  <2>3. CASE r \in {Request(op, NoPassword, NoCode) : op \in {"oauth", "send", "forgot"}}
    BY <2>3
  <2>4. CASE r \in {Request("confirm", NoPassword, c) : c \in Typed}
    BY <2>1, <2>4
  <2>5. CASE r \in {Request("reset", pw, c) : pw \in Passwords, c \in Typed}
    BY <2>1, <2>5
  <2> QED
    BY <2>2, <2>3, <2>4, <2>5 DEF Incoming
<1>3. Staged(r) /\ r.at \notin Past /\ r.token \in Typed
  BY <1>2 DEF Staged, Past, NoCode, Typed, IInv, TypeOK
<1>4. user' \in User /\ UNCHANGED codes
  BY UserKept DEF Arrive
<1> QED
  BY <1>1, <1>2, <1>3, <1>4, PlainKept

LEMMA AnswerKept == ASSUME IInv, NEW k \in Calls, Answer(k) PROVE Kept
BY UserKept, EndKept DEF Answer

------------------------------------------------------------------------------
LEMMA FindUserKept == ASSUME IInv, NEW k \in Calls, FindUser(k) PROVE Kept
<1>1. /\ call[k].at \in Points /\ call[k].op = "register"
      /\ user' \in User /\ UNCHANGED codes
  BY UserKept DEF FindUser, Doing, At, Points
<1>2. \A p \in {"creating", "attaching"} : Staged([call[k] EXCEPT !.at = p])
  BY <1>1, Started DEF Staged, Call
<1>3. CASE Refuse(k)
  BY <1>1, <1>3, EndKept
<1>4. ASSUME NEW p \in {"creating", "attaching"}, MoveTo(k, p) PROVE Kept
  BY <1>1, <1>2, <1>4, MoveKept DEF Points, Past
<1> QED
  BY <1>3, <1>4 DEF FindUser

LEMMA CreateUserKept == ASSUME IInv, NEW k \in Calls, CreateUser(k) PROVE Kept
<1>1. call[k].at = "creating" /\ call[k].at \in Points /\ UNCHANGED codes
  BY DEF CreateUser, At, Points
<1>2. call[k] \in Call /\ Staged(call[k])
  BY <1>1, Started
<1>3. CASE user.exists
  BY <1>1, <1>3, EndKept DEF CreateUser, IInv, TypeOK
<1>4. CASE ~user.exists
  <2>1. user' \in User
    <3>1. call[k].password \in Passwords \cup {NoPassword}
      BY <1>2 DEF Call
    <3>2. user' = [exists |-> TRUE, password |-> call[k].password, verified |-> FALSE]
      BY <1>4 DEF CreateUser
    <3> QED
      BY <3>1, <3>2 DEF User
  <2>2. MoveTo(k, "issuing")
    BY <1>4 DEF CreateUser
  <2>3. Staged([call[k] EXCEPT !.at = "issuing"])
    BY <1>1, <1>2 DEF Staged, Call, Issuers
  <2> QED
    BY <1>1, <2>1, <2>2, <2>3, MoveKept DEF Points, Past
<1> QED
  BY <1>3, <1>4

LEMMA AttachPasswordKept == ASSUME IInv, NEW k \in Calls, AttachPassword(k) PROVE Kept
<1>1. call[k].at \in Points /\ call[k].op = "register"
  <2>1. call[k].at = "attaching" /\ call[k].at \in Points
    BY DEF AttachPassword, At, Points
  <2> QED
    BY <2>1, Started DEF Staged
<1>2. user' \in User
  BY <1>1, Started DEF AttachPassword, IInv, TypeOK, User, Call
<1> QED
  BY <1>1, <1>2, OpenCould, EndKept DEF AttachPassword

LEMMA LoginKept == ASSUME IInv, NEW k \in Calls, Login(k) PROVE Kept
<1>1. /\ call[k].at \in Points /\ call[k].op = "login"
      /\ user' \in User /\ UNCHANGED codes
  BY UserKept DEF Login, Doing, At, Points
<1>2. CASE PasswordIs(call[k].password) /\ user.verified
  <2>1. could[k]
    BY <1>1, <1>2, Started, Could DEF Entitled
  <2> QED
    BY <1>1, <1>2, <2>1, EndKept DEF Login, FinishIf
<1>3. CASE ~(PasswordIs(call[k].password) /\ user.verified)
  BY <1>1, <1>3, EndKept DEF Login, FinishIf
<1> QED
  BY <1>2, <1>3

LEMMA OAuthKept == ASSUME IInv, NEW k \in Calls, OAuth(k) PROVE Kept
<1>1. call[k].at \in Points /\ call[k].op = "oauth"
  BY DEF OAuth, Doing, At, Points
<1>2. user' \in User
  BY DEF OAuth, IInv, TypeOK, User
<1> QED
  BY <1>1, <1>2, OpenCould, EndKept DEF OAuth

------------------------------------------------------------------------------
\* A request for a code, at its points.
LEMMA IssuerAt ==
    ASSUME IInv, NEW k \in Calls,
           call[k].at \in {"issuing", "dropping", "minting", "mailing"}
    PROVE  /\ call[k].op \in Issuers /\ call[k].at \in Points /\ call[k] \in Call
           /\ PurposeOf[call[k].op] \in Purposes
           /\ could[k]
<1>1. call[k].at \in Points
  BY DEF Points
<1>2. call[k].op \in Issuers
  BY <1>1, Started DEF Staged
<1>3. could[k]
  BY <1>1, <1>2, OpenCould DEF Issuers
<1> QED
  BY <1>1, <1>2, <1>3, Started DEF Issuers, PurposeOf, Purposes

LEMMA FindAccountKept == ASSUME IInv, NEW k \in Calls, FindAccount(k) PROVE Kept
<1>1. /\ call[k].op \in {"send", "forgot"} /\ call[k].at \in Points
      /\ user' \in User /\ UNCHANGED codes
  BY UserKept DEF FindAccount, At, Points
<1>2. CASE MoveTo(k, "issuing")
  <2>1. Staged([call[k] EXCEPT !.at = "issuing"])
    BY <1>1, Started DEF Staged, Call, Issuers
  <2> QED
    BY <1>1, <1>2, <2>1, MoveKept DEF Points, Past
<1>3. CASE Finish(k)
  BY <1>1, <1>3, OpenCould, EndKept
<1> QED
  BY <1>2, <1>3 DEF FindAccount

LEMMA UnsentKept ==
    ASSUME IInv, NEW k \in Calls, could[k], UNCHANGED tables, Unsent(k)
    PROVE  Kept
<1>1. Finish(k) \/ Refuse(k)
  BY DEF Unsent, FinishIf
<1> QED
  BY <1>1, UserKept, EndKept

LEMMA CheckCooldownKept == ASSUME IInv, NEW k \in Calls, CheckCooldown(k) PROVE Kept
<1>1. call[k].at = "issuing" /\ UNCHANGED tables
  BY DEF CheckCooldown, At
<1>2. call[k].op \in Issuers /\ call[k].at \in Points /\ call[k] \in Call /\ could[k]
  BY <1>1, IssuerAt
<1>3. CASE Unsent(k)
  BY <1>1, <1>2, <1>3, UnsentKept
<1>4. CASE MoveTo(k, "dropping")
  <2>1. Staged([call[k] EXCEPT !.at = "dropping"])
    BY <1>2 DEF Staged, Call, Issuers
  <2> QED
    BY <1>1, <1>2, <1>4, <2>1, UserKept, MoveKept DEF Points, Past
<1> QED
  BY <1>3, <1>4 DEF CheckCooldown

LEMMA MailKept == ASSUME IInv, NEW k \in Calls, Mail(k) PROVE Kept
<1>1. call[k].at = "mailing" /\ UNCHANGED tables
  BY DEF Mail, At
<1>2. could[k]
  BY <1>1, IssuerAt
<1> QED
  BY <1>1, <1>2, UserKept, EndKept, UnsentKept DEF Mail

\* Dropping leaves no live code of the purpose, so that there is room for one.
LEMMA DropCodesKept == ASSUME IInv, NEW k \in Calls, DropCodes(k) PROVE Kept
<1> DEFINE r == [call[k] EXCEPT !.at = "minting"]
<1>1. call[k].at = "dropping" /\ user' = user /\ call' = [call EXCEPT ![k] = r]
  BY DEF DropCodes, At, MoveTo
<1>2. /\ call[k].op \in Issuers /\ call[k].at \in Points /\ call[k] \in Call
      /\ PurposeOf[call[k].op] \in Purposes
  BY <1>1, IssuerAt
<1> PICK q \in Purposes : q = PurposeOf[call[k].op]
  BY <1>2
<1>3. r \in Call /\ r.at = "minting" /\ r.op = call[k].op /\ r.token = call[k].token
  BY <1>2 DEF Call, Points
<1>4. codes' = [c \in DOMAIN codes |-> IF c \in Live(q) THEN Deleted ELSE codes[c]]
  BY DEF DropCodes
<1>5. DOMAIN codes = 1..Len(codes) /\ Len(codes) \in Nat
  BY DEF IInv, TypeOK
<1>6. Deleted \in Code /\ Deleted.attempts = 0 /\ Deleted.state = "deleted"
  BY DEF Deleted, Code, Purposes
<1>7. \A c \in DOMAIN codes : codes[c] \in Code
  BY DEF IInv, TypeOK
<1>8. codes' \in Seq(Code) /\ Len(codes') = Len(codes) /\ Len(codes) <= Len(codes')
  BY <1>4, <1>5, <1>6, <1>7
<1>9. AttemptsBounded'
  <2>1. \A c \in DOMAIN codes' :
           \/ codes'[c].attempts < MaxAttempts
           \/ c \in DOMAIN codes /\ codes'[c].attempts = codes[c].attempts
    BY <1>4, <1>6, AccountsAssumption
  <2> QED
    BY <1>1, <1>3, <1>8, <2>1, Counted DEF IInv
<1>10. FewLiveCodes'
  <2>1. ASSUME NEW p \in Purposes
        PROVE  \/ Live(p)' = {}
               \/ Live(p)' \subseteq Live(p) /\ Minting(p)' \subseteq Minting(p)
    <3>1. Live(p)' \subseteq Live(p)
      BY <1>4, <1>6 DEF Live
    <3>2. CASE p = q
      <4>1. Live(q)' = {}
        BY <1>4, <1>6 DEF Live
      <4> QED
        BY <3>2, <4>1
    <3>3. CASE p # q
      <4>1. Minting(p)' \subseteq Minting(p)
        BY <1>1, <1>3, <3>3 DEF Minting, IInv, TypeOK
      <4> QED
        BY <3>1, <4>1
    <3> QED
      BY <3>2, <3>3
  <2> QED
    BY <1>8, <2>1, Limited DEF IInv, TypeOK
<1>11. Staged(r) /\ r.token \in Typed' /\ r.at \notin Past /\ user' \in User
  BY <1>1, <1>2, <1>3, <1>8, Started DEF Staged, Past, Typed, IInv, TypeOK
<1> QED
  BY <1>1, <1>3, <1>5, <1>8, <1>9, <1>10, <1>11, WriteKept

\* The code created takes the place of the request that was about to.
LEMMA MintCodeKept == ASSUME IInv, NEW k \in Calls, MintCode(k) PROVE Kept
<1> PICK q \in Purposes : q = PurposeOf[call[k].op]
  BY IssuerAt DEF MintCode, At
<1> DEFINE n == Len(codes) + 1
           e == [purpose |-> q, attempts |-> 0, age |-> "new", state |-> "live"]
           r == [call[k] EXCEPT !.at = "mailing", !.token = n]
<1>1. call[k].at = "minting" /\ user' = user /\ codes' = Append(codes, e)
  BY DEF MintCode, At
<1>2. /\ call[k].op \in Issuers /\ call[k] \in Call /\ could[k]
  BY <1>1, IssuerAt
<1>3. codes \in Seq(Code) /\ Len(codes) \in Nat /\ call \in [Calls -> Call \cup {Idle, Done}]
  BY DEF IInv, TypeOK
<1>4. call' = [call EXCEPT ![k] = r]
  BY <1>2, <1>3 DEF MintCode
<1>5. r \in Call /\ r.at = "mailing" /\ r.op = call[k].op /\ r.token = n
  <2>1. n \in Nat /\ "mailing" \in Points
    BY <1>3 DEF Points
  <2> HIDE DEF n
  <2> QED
    BY <1>2, <2>1 DEF Call
<1>6. e \in Code
  BY <1>2 DEF Code
<1>7. /\ codes' \in Seq(Code) /\ Len(codes') = n /\ codes'[n] = e
      /\ \A c \in 1..Len(codes) : codes'[c] = codes[c]
      /\ DOMAIN codes = 1..Len(codes) /\ DOMAIN codes' = 1..n
  BY <1>1, <1>3, <1>6, AppendProperties
<1>8. \A c \in DOMAIN codes' : c = n \/ c \in DOMAIN codes
  BY <1>3, <1>7
<1>9. AttemptsBounded'
  <2>1. \A c \in DOMAIN codes' :
           \/ codes'[c].attempts < MaxAttempts
           \/ c \in DOMAIN codes /\ codes'[c].attempts = codes[c].attempts
    BY <1>7, <1>8, AccountsAssumption
  <2> QED
    BY <1>4, <1>5, <1>7, <2>1, Counted DEF IInv
<1>10. FewLiveCodes'
  <2>1. ASSUME NEW p \in Purposes, p # q
        PROVE  Live(p)' \subseteq Live(p) /\ Minting(p)' \subseteq Minting(p)
    <3>1. Live(p)' \subseteq Live(p)
      BY <1>7, <1>8, <2>1 DEF Live
    <3>2. Minting(p)' \subseteq Minting(p)
      BY <1>3, <1>4, <1>5 DEF Minting
    <3> QED
      BY <3>1, <3>2
  <2>2. k \in Minting(q) /\ Minting(q)' = Minting(q) \ {k}
    BY <1>1, <1>3, <1>4, <1>5 DEF Minting
  <2>3. Live(q)' = Live(q) \cup {n} /\ n \in Nat
    <3>1. n \in Live(q)'
      BY <1>3, <1>7 DEF Live
    <3>2. \A c \in DOMAIN codes : c \in Live(q)' <=> c \in Live(q)
      BY <1>3, <1>7 DEF Live
    <3>3. Live(q)' \subseteq DOMAIN codes' /\ Live(q) \subseteq DOMAIN codes
      BY DEF Live
    <3> QED
      BY <1>3, <1>8, <3>1, <3>2, <3>3
  <2> QED
    <3>1. ASSUME NEW p \in Purposes
          PROVE \/ Live(p)' = {}
                \/ Live(p)' \subseteq Live(p) /\ Minting(p)' \subseteq Minting(p)
                \/ \E j \in Minting(p), c \in Nat :
                        /\ Live(p)' = Live(p) \cup {c}
                        /\ Minting(p)' = Minting(p) \ {j}
      <4> HIDE DEF n
      <4> QED
        BY <2>1, <2>2, <2>3
    <3> QED
      BY <1>3, <1>7, <3>1, Limited DEF IInv
<1>11. Staged(r) /\ r.token \in Typed' /\ user' \in User /\ Len(codes) <= Len(codes')
  BY <1>1, <1>2, <1>3, <1>5, <1>7 DEF Staged, Typed, IInv, TypeOK, Issuers
<1> QED
  BY <1>2, <1>4, <1>5, <1>7, <1>9, <1>10, <1>11, WriteKept

------------------------------------------------------------------------------
\* A code that was read is one that exists and was under the cap; the right
\* one was right to begin with.
LEMMA ReadCodeKept == ASSUME IInv, NEW k \in Calls, ReadCode(k) PROVE Kept
<1> PICK q \in Purposes : q = PurposeOf[call[k].op]
  BY DEF ReadCode, PurposeOf, Purposes
<1> DEFINE t == Latest(q)
           point == IF call[k].code = t THEN "right" ELSE "wrong"
           r == [call[k] EXCEPT !.token = t, !.at = point]
<1>1. /\ call[k].at = "arrived" /\ call[k].op \in {"confirm", "reset"} /\ UNCHANGED tables
      /\ call[k] \in Call /\ call[k] \notin {Idle, Done}
      /\ call \in [Calls -> Call \cup {Idle, Done}] /\ codes \in Seq(Code)
  BY Started DEF ReadCode, At, Points, IInv, TypeOK
<1>2. CASE ~(t # NoCode /\ Usable(t))
  BY <1>1, <1>2, UserKept, EndKept DEF ReadCode
<1>3. CASE t # NoCode /\ Usable(t)
  <2>1. call' = [call EXCEPT ![k] = r]
    BY <1>1, <1>3 DEF ReadCode
  <2>2. t \in DOMAIN codes /\ t \in Typed /\ t \in Nat
    BY <1>1, <1>3, LatestLive DEF Live, Typed
  <2>3. codes[t].attempts < MaxAttempts
    BY <1>3 DEF Usable
  <2>4. /\ r \in Call /\ r.token = t /\ r.op = call[k].op
        /\ r.at = point /\ point \in {"right", "wrong"}
    <3>1. point \in Points /\ point \in {"right", "wrong"}
      BY DEF Points
    <3> HIDE DEF t, point
    <3> QED
      BY <1>1, <2>2, <3>1 DEF Call
  <2>5. Staged(r)
    BY <1>1, <1>3, <2>4 DEF Staged
  <2>6. r.at \in Past => could[k]
    <3>1. CASE call[k].code = t
      BY <1>1, <1>3, <3>1, Could DEF Entitled
    <3>2. CASE call[k].code # t
      BY <2>4, <3>2 DEF Past
    <3> QED
      BY <3>1, <3>2
  <2>7. /\ codes' = codes /\ user' \in User /\ Typed' = Typed
        /\ codes' \in Seq(Code) /\ Len(codes) <= Len(codes')
    BY <1>1, UserKept DEF tables, Typed
  <2>8. AttemptsBounded'
    <3>1. ASSUME NEW c \in DOMAIN codes'
          PROVE  codes'[c].attempts + Cardinality(Wrong(c)') < MaxAttempts + Cardinality(Calls)
      <4>1. /\ Cardinality(Wrong(c)') \in Nat /\ Cardinality(Wrong(c)') <= Cardinality(Calls)
            /\ Cardinality(Calls) \in Nat
        <5>1. Wrong(c)' \in SUBSET Calls
          BY DEF Wrong
        <5> QED
          BY <5>1, FS_Subset, FS_CardinalityType, AccountsAssumption
      <4>2. codes'[c].attempts \in Nat /\ MaxAttempts \in Nat
        <5>1. codes'[c] \in Code
          BY <2>7, <3>1
        <5> QED
          BY <5>1, AccountsAssumption DEF Code
      <4>3. CASE c = t
        BY <2>3, <2>7, <4>1, <4>2, <4>3
      <4>4. CASE c # t
        <5>1. Wrong(c)' \subseteq Wrong(c)
          BY <1>1, <2>1, <2>4, <4>4 DEF Wrong
        <5>2. /\ Cardinality(Wrong(c)') <= Cardinality(Wrong(c))
              /\ Cardinality(Wrong(c)) \in Nat
          BY <5>1, Finite, FS_Subset
        <5>3. codes[c].attempts + Cardinality(Wrong(c)) < MaxAttempts + Cardinality(Calls)
          BY <2>7, <3>1, Counts DEF IInv
        <5> QED
          BY <2>7, <4>1, <4>2, <5>2, <5>3
      <4> QED
        BY <4>3, <4>4
    <3> QED
      BY <3>1 DEF AttemptsBounded, Wrong, At
  <2>9. FewLiveCodes'
    <3>1. \A p \in Purposes : Live(p)' \subseteq Live(p) /\ Minting(p)' \subseteq Minting(p)
      BY <1>1, <2>1, <2>4, <2>7 DEF Live, Minting
    <3> QED
      BY <2>7, <3>1, Limited DEF IInv
  <2>10. r \in Call /\ r.token \in Typed'
    BY <2>2, <2>4, <2>7
  <2> HIDE DEF r, t, point
  <2> QED
    BY <2>1, <2>5, <2>6, <2>7, <2>8, <2>9, <2>10, WriteKept
<1> QED
  BY <1>2, <1>3

\* A handler that read a code, and what writing to that code's row leaves.
LEMMA ReaderAt ==
    ASSUME IInv, NEW k \in Calls, call[k].at \in {"wrong", "right"}
    PROVE  /\ call[k] \in Call /\ call[k].at \in Points
           /\ call[k].op \in {"confirm", "reset"}
           /\ call[k].token \in DOMAIN codes
           /\ codes \in Seq(Code) /\ Len(codes) \in Nat /\ DOMAIN codes = 1..Len(codes)
           /\ call \in [Calls -> Call \cup {Idle, Done}]
<1>1. call[k].at \in Points
  BY DEF Points
<1>2. /\ call[k] \in Call /\ call[k].op \in {"confirm", "reset"}
      /\ call[k].token \in Typed /\ call[k].token # NoCode
  BY <1>1, Started DEF Staged
<1> QED
  BY <1>1, <1>2 DEF Typed, NoCode, IInv, TypeOK

LEMMA CountAttemptKept == ASSUME IInv, NEW k \in Calls, CountAttempt(k) PROVE Kept
<1> PICK t \in DOMAIN codes : t = call[k].token
  BY ReaderAt DEF CountAttempt, At
<1>1. /\ call[k].at = "wrong" /\ user' = user /\ call' = [call EXCEPT ![k] = Idle]
      /\ codes \in Seq(Code) /\ Len(codes) \in Nat /\ DOMAIN codes = 1..Len(codes)
      /\ call \in [Calls -> Call \cup {Idle, Done}] /\ user' \in User
  BY ReaderAt DEF CountAttempt, At, Refuse, IInv, TypeOK
<1>2. CASE codes' = codes
  BY <1>1, <1>2, EndKept DEF Refuse
<1>3. CASE codes' = [codes EXCEPT ![t].attempts = @ + 1]
  <2>1. \A c \in DOMAIN codes : codes[c] \in Code
    BY <1>1
  <2>2. [codes[t] EXCEPT !.attempts = @ + 1] \in Code
    BY <2>1 DEF Code
  <2>3. /\ codes' \in Seq(Code) /\ Len(codes') = Len(codes) /\ DOMAIN codes' = DOMAIN codes
        /\ Len(codes) <= Len(codes')
    BY <1>1, <1>3, <2>1, <2>2
  <2>4. \A c \in DOMAIN codes :
           /\ codes'[c].attempts = IF c = t THEN codes[c].attempts + 1 ELSE codes[c].attempts
           /\ codes'[c].state = codes[c].state /\ codes'[c].purpose = codes[c].purpose
    BY <1>1, <1>3, <2>1 DEF Code
  <2>5. k \in Wrong(t)
    BY <1>1 DEF Wrong
  <2>6. AttemptsBounded'
    BY <1>1, <2>3, <2>4, <2>5, FreeCalls, Counted DEF IInv
  <2>7. FewLiveCodes'
    <3>1. \A p \in Purposes : Live(p)' \subseteq Live(p) /\ Minting(p)' \subseteq Minting(p)
      BY <1>1, <2>3, <2>4, FreeCalls DEF Live, Minting
    <3> QED
      BY <1>1, <2>3, <3>1, Limited DEF IInv
  <2>8. Idle.token \in Typed' /\ Idle.at \notin Past
    BY <1>1, <2>3, FreeCalls DEF Typed, NoCode, Past
  <2> QED
    BY <1>1, <2>3, <2>6, <2>7, <2>8, FreeCalls, WriteKept
<1> QED
  BY <1>2, <1>3 DEF CountAttempt

LEMMA ConsumeCodeKept == ASSUME IInv, NEW k \in Calls, ConsumeCode(k) PROVE Kept
<1> PICK t \in DOMAIN codes : t = call[k].token
  BY ReaderAt DEF ConsumeCode, At
<1> DEFINE r == [call[k] EXCEPT !.at = "proven"]
<1>1. /\ call[k].at = "right" /\ user' = user /\ user' \in User
      /\ call[k] \in Call /\ call[k].op \in {"confirm", "reset"}
      /\ codes \in Seq(Code) /\ Len(codes) \in Nat /\ DOMAIN codes = 1..Len(codes)
      /\ call \in [Calls -> Call \cup {Idle, Done}]
  BY ReaderAt DEF ConsumeCode, At, IInv, TypeOK
<1>2. CASE codes[t].state = "deleted"
  BY <1>1, <1>2, EndKept DEF ConsumeCode
<1>3. CASE codes[t].state # "deleted"
  <2>1. codes' = [codes EXCEPT ![t].state = "consumed"] /\ call' = [call EXCEPT ![k] = r]
    BY <1>3 DEF ConsumeCode, MoveTo
  <2>2. r \in Call /\ r.at = "proven" /\ r.op = call[k].op /\ r.token = t
    BY <1>1 DEF Call, Points
  <2>3. \A c \in DOMAIN codes : codes[c] \in Code
    BY <1>1
  <2>4. [codes[t] EXCEPT !.state = "consumed"] \in Code
    BY <2>3 DEF Code
  <2>5. /\ codes' \in Seq(Code) /\ Len(codes') = Len(codes) /\ DOMAIN codes' = DOMAIN codes
        /\ Len(codes) <= Len(codes')
    BY <1>1, <2>1, <2>3, <2>4
  <2>6. \A c \in DOMAIN codes :
           /\ codes'[c].attempts = codes[c].attempts
           /\ codes'[c].purpose = codes[c].purpose
           /\ codes'[c].state = "live" => codes[c].state = "live"
    BY <1>1, <2>1, <2>3 DEF Code
  <2>7. AttemptsBounded'
    BY <2>1, <2>2, <2>5, <2>6, Counted DEF IInv
  <2>8. FewLiveCodes'
    <3>1. \A p \in Purposes : Live(p)' \subseteq Live(p) /\ Minting(p)' \subseteq Minting(p)
      BY <1>1, <2>1, <2>2, <2>5, <2>6 DEF Live, Minting
    <3> QED
      BY <1>1, <2>5, <3>1, Limited DEF IInv
  <2>9. could[k] /\ Staged(r) /\ r.token \in Typed'
    BY <1>1, <2>2, <2>5, Could DEF Past, Staged, Typed
  <2> QED
    BY <1>1, <2>1, <2>2, <2>5, <2>7, <2>8, <2>9, WriteKept
<1> QED
  BY <1>2, <1>3

LEMMA ConfirmEmailKept == ASSUME IInv, NEW k \in Calls, ConfirmEmail(k) PROVE Kept
<1>1. call[k].at = "proven" /\ could[k]
  BY Could DEF ConfirmEmail, Doing, At, Past
<1>2. user' \in User
  BY DEF ConfirmEmail, IInv, TypeOK, User
<1> QED
  BY <1>1, <1>2, EndKept DEF ConfirmEmail

LEMMA ResetPasswordKept == ASSUME IInv, NEW k \in Calls, ResetPassword(k) PROVE Kept
<1>1. call[k].at = "proven" /\ call[k].at \in Points /\ could[k]
  BY Could DEF ResetPassword, Doing, At, Past, Points
<1>2. call[k].password \in Passwords \cup {NoPassword}
  BY <1>1, Started DEF Call
<1>3. user' \in User
  BY <1>2 DEF ResetPassword, IInv, TypeOK, User
<1> QED
  BY <1>1, <1>3, EndKept DEF ResetPassword

------------------------------------------------------------------------------
\* Time passes for a code and for no handler: the counts stay.
LEMMA AgeKept == ASSUME IInv, NEW c \in DOMAIN codes, Age(c) PROVE Kept
<1> DEFINE age == IF codes[c].age = "new" THEN "settled" ELSE "expired"
<1>1. /\ codes' = [codes EXCEPT ![c].age = age] /\ UNCHANGED <<user, call>>
      /\ codes \in Seq(Code) /\ Len(codes) \in Nat /\ DOMAIN codes = 1..Len(codes)
  BY DEF Age, IInv, TypeOK
<1>2. \A d \in DOMAIN codes : codes[d] \in Code
  BY <1>1
<1>3. [codes[c] EXCEPT !.age = age] \in Code
  BY <1>2 DEF Code
<1>4. codes' \in Seq(Code) /\ Len(codes') = Len(codes) /\ DOMAIN codes' = DOMAIN codes
  BY <1>1, <1>2, <1>3
<1>5. \A d \in DOMAIN codes :
         /\ codes'[d].attempts = codes[d].attempts
         /\ codes'[d].purpose = codes[d].purpose
         /\ codes'[d].state = codes[d].state
  BY <1>1, <1>2 DEF Code
<1>6. AttemptsBounded'
  BY <1>1, <1>4, <1>5 DEF AttemptsBounded, At, IInv
<1>7. FewLiveCodes'
  <2>1. \A p \in Purposes : Live(p)' \subseteq Live(p) /\ Minting(p)' \subseteq Minting(p)
    BY <1>1, <1>4, <1>5 DEF Live, Minting
  <2> QED
    BY <1>1, <1>4, <2>1, Limited DEF IInv
<1>8. user' \in User /\ Handlers' /\ Typed' = Typed
  BY <1>1, <1>4 DEF IInv, TypeOK, Handlers, Typed
<1>9. \A k \in Calls : call'[k].at \in Past => could[k]
  BY <1>1, Could
<1> QED
  BY <1>1, <1>4, <1>6, <1>7, <1>8, <1>9 DEF Kept, IInv, TypeOK

------------------------------------------------------------------------------
\* The measure, for any step whose handlers advance only when entitled.
LEMMA MeasureStep ==
    ASSUME IInv, Measure, Kept
    PROVE  Measured' /\ could' \in [Calls -> BOOLEAN]
<1>1. ASSUME NEW k \in Calls, Entitled(k)' \/ call'[k].at \in Past
      PROVE  could'[k]
  <2>1. ~(call'[k].at = "idle")
    <3>1. CASE call'[k].at \in Past
      BY <3>1 DEF Past
    <3>2. CASE Entitled(k)'
      <4>1. call'[k] \in Call
        BY <3>2 DEF Entitled, Kept
      <4> QED
        BY <4>1 DEF Call, Points
    <3> QED
      BY <1>1, <3>1, <3>2
  <2>2. could[k] \/ Entitled(k)'
    BY <1>1 DEF Kept
  <2> QED
    BY <2>1, <2>2 DEF Measure, At
<1> QED
  BY <1>1 DEF Measured, Measure, At, Entitled, IInv, TypeOK

LEMMA NextKept == ASSUME IInv, Next PROVE Kept
<1>1. CASE \E k \in Calls : Handle(k)
  BY <1>1, ArriveKept, AnswerKept, FindUserKept, CreateUserKept, AttachPasswordKept, LoginKept,
     OAuthKept, FindAccountKept, CheckCooldownKept, DropCodesKept, MintCodeKept, MailKept,
     ReadCodeKept, CountAttemptKept, ConsumeCodeKept, ConfirmEmailKept, ResetPasswordKept
     DEF Handle
<1>2. CASE \E c \in DOMAIN codes : Age(c)
  BY <1>2, AgeKept
<1> QED
  BY <1>1, <1>2 DEF Next

LEMMA StepInv == IInv /\ [Next]_vars => IInv'
<1>1. ASSUME IInv, Next PROVE IInv'
  <2>1. Kept /\ Measured' /\ could' \in [Calls -> BOOLEAN]
    BY <1>1, NextKept, MeasureStep DEF Next
  <2> QED
    BY <2>1 DEF IInv, Kept, TypeOK
<1>2. ASSUME IInv, UNCHANGED vars PROVE IInv'
  <2>1. TypeOK' /\ Handlers'
    BY <1>2 DEF IInv, TypeOK, Handlers, Typed, vars
  <2>2. AttemptsBounded' /\ FewLiveCodes'
    BY <1>2 DEF IInv, AttemptsBounded, FewLiveCodes, Live, At, vars
  <2>3. Measured'
    BY <1>2 DEF IInv, Measured, Entitled, PasswordIs, Latest, Live, Usable, vars
  <2> QED
    BY <2>1, <2>2, <2>3 DEF IInv
<1> QED
  BY <1>1, <1>2

\* The inductive invariant, which the theorems below are parts of.
THEOREM Inductive == Spec => []IInv
<1>1. Init => IInv
  BY InitInv
<1>2. IInv /\ [Next]_vars => IInv'
  BY StepInv
<1> QED
  BY <1>1, <1>2, PTL DEF Spec

\* The user row, the codes and the handlers have their types, and handlers
\* hold codes that were created.
THEOREM TypeCorrect == Spec => []TypeOK
<1>1. IInv => TypeOK
  BY DEF IInv
<1> QED
  BY <1>1, Inductive, PTL

\* Whatever requests overlap, a code is tried no more often than the cap and
\* the requests in flight allow.
THEOREM TriesBounded == Spec => []AttemptsBounded
<1>1. IInv => AttemptsBounded
  BY DEF IInv
<1> QED
  BY <1>1, Inductive, PTL

\* Live codes of a purpose never outnumber the requests in flight; one request
\* at a time leaves one.
THEOREM CodesLimited == Spec => []FewLiveCodes
<1>1. IInv => FewLiveCodes
  BY DEF IInv
<1> QED
  BY <1>1, Inductive, PTL

\* What is accepted was right at some moment since the request arrived.
THEOREM NothingStaleAccepted == Spec => []AcceptedWasRight
<1>1. IInv => AcceptedWasRight
  BY DEF IInv, Measured, Past, AcceptedWasRight, At
<1> QED
  BY <1>1, Inductive, PTL

------------------------------------------------------------------------------
(***************************************************************************)
(* Why a user row changes.  The property is about the step that writes the *)
(* row, the reason is some steps older: what a handler has found out must  *)
(* still be so when it writes.                                             *)
(***************************************************************************)
\* What is so of a handler, for as long as it waits, of the user row u and the
\* codes cs.
Sought(r, u, cs) ==
    /\ r.op \in {"register", "reset"} => r.password \in Passwords
    /\ r.at = "attaching" => u.exists
    /\ r.at \in {"right", "proven"} => r.token # NoCode /\ r.code = r.token
    /\ r.at = "right" => \/ cs[r.token].state = "deleted"
                         \/ cs[r.token].purpose = PurposeOf[r.op]
    /\ r.at = "proven" => /\ cs[r.token].state = "consumed"
                          /\ cs[r.token].purpose = PurposeOf[r.op]

Blank == ~user.exists => ~user.verified /\ user.password = NoPassword

Reasons == Blank /\ \A k \in Calls : Sought(call[k], user, codes)

\* The step of the property.
Change ==
    /\ user.exists => user'.exists
    /\ user.verified => user'.verified
    /\ user'.verified # user.verified =>
          \E k \in Calls : Doing(k, "oauth", "arrived") \/ Consumed(k)
    /\ user'.password # user.password =>
          /\ user'.password # NoPassword
          /\ \E k \in Calls :
                /\ user'.password = call[k].password
                /\ \/ Doing(k, "register", "creating") /\ ~user.exists
                   \/ Doing(k, "register", "attaching") /\ user.exists
                   \/ call[k].op = "reset" /\ user.exists /\ Consumed(k)

\* What no step takes back: the account, a code's end and its purpose.
Lasts ==
    /\ user.exists => user'.exists
    /\ Blank'
    /\ \A c \in DOMAIN codes :
          /\ codes'[c].state = "deleted" \/ codes'[c].purpose = codes[c].purpose
          /\ codes[c].state = "deleted" => codes'[c].state = "deleted"
          /\ codes[c].state = "consumed" => codes'[c].state = "consumed"

LEMMA FreeSought ==
    ASSUME NEW u, NEW cs
    PROVE  Sought(Idle, u, cs) /\ Sought(Done, u, cs)
BY DEF Sought, Idle, Done, Free

LEMMA SoughtLasts ==
    ASSUME Lasts, NEW r, Sought(r, user, codes),
           r.at \in {"right", "proven"} => r.token \in DOMAIN codes
    PROVE  Sought(r, user', codes')
BY DEF Lasts, Sought

LEMMA TokenStored ==
    ASSUME IInv, Reasons, NEW k \in Calls, call[k].at \in {"right", "proven"}
    PROVE  call[k].token \in DOMAIN codes
<1>1. call[k].token # NoCode /\ call[k].token \in Typed
  BY DEF IInv, TypeOK, Reasons, Sought
<1>2. DOMAIN codes = 1..Len(codes) /\ Len(codes) \in Nat
  BY DEF IInv, TypeOK
<1> QED
  BY <1>1, <1>2 DEF Typed, NoCode

\* One handler moves; the others' reasons last.
LEMMA HandlerStep ==
    ASSUME IInv, Reasons, Lasts, NEW k \in Calls, NEW r,
           call' = [call EXCEPT ![k] = r], Sought(r, user', codes')
    PROVE  Reasons'
<1>1. ASSUME NEW j \in Calls PROVE Sought(call'[j], user', codes')
  <2>1. CASE j = k
    BY <2>1 DEF IInv, TypeOK
  <2>2. CASE j # k
    <3>1. call'[j] = call[j]
      BY <2>2 DEF IInv, TypeOK
    <3>2. Sought(call[j], user', codes')
      BY SoughtLasts, TokenStored DEF Reasons
    <3> QED
      BY <3>1, <3>2
  <2> QED
    BY <2>1, <2>2
<1> QED
  BY <1>1 DEF Reasons, Lasts

LEMMA TablesLast == ASSUME Reasons, UNCHANGED tables PROVE Lasts /\ Change
BY DEF Reasons, Lasts, Change, Blank, tables

\* A handler that reads, answers or moves on, and writes nothing.
LEMMA ReadStep ==
    ASSUME IInv, Reasons, UNCHANGED tables, NEW k \in Calls, NEW r,
           call' = [call EXCEPT ![k] = r], Sought(r, user, codes)
    PROVE  Reasons' /\ Change
<1>1. Sought(r, user', codes')
  BY DEF tables
<1> QED
  BY <1>1, TablesLast, HandlerStep

LEMMA EndStep ==
    ASSUME IInv, Reasons, Lasts, NEW k \in Calls, Refuse(k) \/ Finish(k)
    PROVE  Reasons'
BY FreeSought, HandlerStep DEF Refuse, Finish

\* A point whose handlers have found out nothing.
LEMMA MoveSought ==
    ASSUME IInv, Reasons, NEW k \in Calls, call[k] \in Call,
           NEW p \in {"creating", "issuing", "dropping", "minting"}, NEW u, NEW cs
    PROVE  Sought([call[k] EXCEPT !.at = p], u, cs)
BY DEF Reasons, Sought, Call

LEMMA ArriveReasons == ASSUME IInv, Reasons, NEW k \in Calls, Arrive(k) PROVE Reasons' /\ Change
<1>1. PICK r \in Incoming : call' = [call EXCEPT ![k] = r]
  BY DEF Arrive
<1>2. r.at = "arrived" /\ (r.op \in {"register", "reset"} => r.password \in Passwords)
  <2> USE DEF Request
  <2>1. CASE r \in {Request(op, pw, NoCode) : op \in {"register", "login"}, pw \in Passwords}
    BY <2>1
  <2>2. CASE r \in {Request(op, NoPassword, NoCode) : op \in {"oauth", "send", "forgot"}}
    BY <2>2
  <2>3. CASE r \in {Request("confirm", NoPassword, c) : c \in Typed}
    BY <2>3
  <2>4. CASE r \in {Request("reset", pw, c) : pw \in Passwords, c \in Typed}
    BY <2>4
  <2> QED
    BY <2>1, <2>2, <2>3, <2>4 DEF Incoming
<1>3. Sought(r, user, codes)
  BY <1>2 DEF Sought
<1> QED
  BY <1>1, <1>3, ReadStep DEF Arrive

\* The handlers that write nothing, but for the one that reads a code.
LEMMA QuietReasons ==
    ASSUME IInv, Reasons, NEW k \in Calls,
           \/ Answer(k) \/ FindUser(k) \/ Login(k)
           \/ FindAccount(k) \/ CheckCooldown(k) \/ Mail(k)
    PROVE  Reasons' /\ Change
<1>1. UNCHANGED tables
  BY DEF Answer, FindUser, Login, FindAccount, CheckCooldown, Mail
<1>2. CASE Refuse(k) \/ Finish(k)
  BY <1>1, <1>2, TablesLast, EndStep
<1>3. ASSUME MoveTo(k, "attaching"), user.exists, call[k] \in Call PROVE Reasons' /\ Change
  <2>1. Sought([call[k] EXCEPT !.at = "attaching"], user, codes)
    BY <1>3 DEF Reasons, Sought, Call
  <2> QED
    BY <1>1, <1>3, <2>1, ReadStep DEF MoveTo
<1>4. ASSUME NEW p \in {"creating", "issuing", "dropping"}, MoveTo(k, p), call[k] \in Call
      PROVE  Reasons' /\ Change
  <2>1. Sought([call[k] EXCEPT !.at = p], user, codes)
    BY <1>4, MoveSought
  <2> QED
    BY <1>1, <1>4, <2>1, ReadStep DEF MoveTo
<1>5. call[k].at \in Points => call[k] \in Call
  BY Started
<1>6. CASE FindUser(k)
  <2>1. call[k] \in Call
    BY <1>5, <1>6 DEF FindUser, Doing, At, Points
  <2> QED
    BY <1>2, <1>3, <1>4, <1>6, <2>1 DEF FindUser
<1>7. CASE FindAccount(k)
  <2>1. call[k] \in Call
    BY <1>5, <1>7 DEF FindAccount, At, Points
  <2> QED
    BY <1>2, <1>4, <1>7, <2>1 DEF FindAccount
<1>8. CASE CheckCooldown(k)
  <2>1. call[k] \in Call
    BY <1>5, <1>8 DEF CheckCooldown, At, Points
  <2> QED
    BY <1>2, <1>4, <1>8, <2>1 DEF CheckCooldown, Unsent, FinishIf
<1>9. CASE Answer(k) \/ Login(k) \/ Mail(k)
  BY <1>2, <1>9 DEF Answer, Login, Mail, Unsent, FinishIf
<1> QED
  BY <1>6, <1>7, <1>8, <1>9

LEMMA ReadCodeReasons == ASSUME IInv, Reasons, NEW k \in Calls, ReadCode(k) PROVE Reasons' /\ Change
<1> PICK q \in Purposes : q = PurposeOf[call[k].op]
  BY DEF ReadCode, PurposeOf, Purposes
<1> DEFINE t == Latest(q)
           r == [call[k] EXCEPT !.token = t,
                                !.at = IF call[k].code = t THEN "right" ELSE "wrong"]
<1>1. UNCHANGED tables /\ call[k] \in Call
  BY Started DEF ReadCode, At, Points
<1>2. CASE ~(t # NoCode /\ Usable(t))
  BY <1>1, <1>2, TablesLast, EndStep DEF ReadCode
<1>3. CASE t # NoCode /\ Usable(t)
  <2>1. call' = [call EXCEPT ![k] = r]
    BY <1>3 DEF ReadCode
  <2>2. codes[t].purpose = q
    BY <1>3, LatestLive DEF Live, IInv, TypeOK
  <2>3. /\ r.op = call[k].op /\ r.password = call[k].password /\ r.code = call[k].code
        /\ r.token = t /\ r.at = IF call[k].code = t THEN "right" ELSE "wrong"
    <3> HIDE DEF t
    <3> QED
      BY <1>1 DEF Call
  <2>4. Sought(r, user, codes)
    <3> HIDE DEF r, t
    <3> QED
      BY <1>3, <2>2, <2>3 DEF Reasons, Sought
  <2> QED
    BY <1>1, <2>1, <2>4, ReadStep
<1> QED
  BY <1>2, <1>3

------------------------------------------------------------------------------
\* The handlers that write the codes.
LEMMA DropCodesReasons ==
    ASSUME IInv, Reasons, NEW k \in Calls, DropCodes(k) PROVE Reasons' /\ Change
<1>1. call[k] \in Call /\ MoveTo(k, "minting") /\ UNCHANGED user
  BY Started DEF DropCodes, At, Points
<1>2. codes' = [c \in DOMAIN codes |->
                 IF c \in Live(PurposeOf[call[k].op]) THEN Deleted ELSE codes[c]]
  BY DEF DropCodes
<1>3. \A c \in DOMAIN codes :
         \/ codes'[c] = codes[c]
         \/ codes'[c] = Deleted /\ codes[c].state = "live"
  BY <1>2 DEF Live
<1>4. Lasts
  <2>1. Deleted.state = "deleted"
    BY DEF Deleted
  <2> QED
    BY <1>1, <1>3, <2>1 DEF Lasts, Blank, Reasons
<1>5. Sought([call[k] EXCEPT !.at = "minting"], user', codes')
  BY <1>1, MoveSought
<1> QED
  BY <1>1, <1>4, <1>5, HandlerStep DEF MoveTo, Change

LEMMA MintCodeReasons ==
    ASSUME IInv, Reasons, NEW k \in Calls, MintCode(k) PROVE Reasons' /\ Change
<1> DEFINE r == [call[k] EXCEPT !.at = "mailing", !.token = Len(codes) + 1]
           e == [purpose |-> PurposeOf[call[k].op], attempts |-> 0, age |-> "new", state |-> "live"]
<1>1. call[k] \in Call /\ call' = [call EXCEPT ![k] = r] /\ UNCHANGED user
  BY Started DEF MintCode, At, Points
<1>2. codes' = Append(codes, e)
  BY DEF MintCode
<1>3. \A c \in DOMAIN codes : codes'[c] = codes[c]
  <2> HIDE DEF e
  <2> QED
    BY <1>2 DEF IInv, TypeOK
<1>4. Lasts
  BY <1>1, <1>3 DEF Lasts, Blank, Reasons
<1>5. r.at = "mailing" /\ r.op = call[k].op /\ r.password = call[k].password
  BY <1>1 DEF Call
<1>6. Sought(r, user', codes')
  <2> HIDE DEF r
  <2> QED
    BY <1>5 DEF Reasons, Sought
<1> QED
  BY <1>1, <1>4, <1>6, HandlerStep DEF Change

\* A counted attempt and a consumed code are of a row that was created.
LEMMA CountAttemptReasons ==
    ASSUME IInv, Reasons, NEW k \in Calls, CountAttempt(k) PROVE Reasons' /\ Change
<1> DEFINE t == call[k].token
<1>1. Refuse(k) /\ UNCHANGED user
  BY DEF CountAttempt
<1>2. CASE codes[t].state = "deleted"
  BY <1>1, <1>2, TablesLast, EndStep DEF CountAttempt, tables
<1>3. CASE codes[t].state # "deleted"
  <2>1. codes' = [codes EXCEPT ![t].attempts = @ + 1]
    BY <1>3 DEF CountAttempt
  <2>2. \A c \in DOMAIN codes : codes[c] \in Code
    BY DEF IInv, TypeOK
  <2>3. \A c \in DOMAIN codes :
           codes'[c].state = codes[c].state /\ codes'[c].purpose = codes[c].purpose
    BY <2>1, <2>2 DEF Code
  <2>4. Lasts
    BY <1>1, <2>3 DEF Lasts, Blank, Reasons
  <2> QED
    BY <1>1, <2>4, EndStep DEF Change
<1> QED
  BY <1>2, <1>3

LEMMA ConsumeCodeReasons ==
    ASSUME IInv, Reasons, NEW k \in Calls, ConsumeCode(k) PROVE Reasons' /\ Change
<1> DEFINE t == call[k].token
           r == [call[k] EXCEPT !.at = "proven"]
<1>1. call[k].at = "right" /\ call[k] \in Call /\ UNCHANGED user
  BY Started DEF ConsumeCode, At, Points
<1>2. t \in DOMAIN codes
  BY <1>1, TokenStored
<1>3. CASE codes[t].state = "deleted"
  BY <1>1, <1>3, TablesLast, EndStep DEF ConsumeCode, tables
<1>4. CASE codes[t].state # "deleted"
  <2>1. codes' = [codes EXCEPT ![t].state = "consumed"] /\ call' = [call EXCEPT ![k] = r]
    BY <1>4 DEF ConsumeCode, MoveTo
  <2>2. \A c \in DOMAIN codes : codes[c] \in Code
    BY DEF IInv, TypeOK
  <2>3. \A c \in DOMAIN codes :
           /\ codes'[c].purpose = codes[c].purpose
           /\ codes'[c].state = IF c = t THEN "consumed" ELSE codes[c].state
    BY <2>1, <2>2 DEF Code
  <2>4. Lasts
    BY <1>1, <1>4, <2>3 DEF Lasts, Blank, Reasons
  <2>5. codes'[t].state = "consumed" /\ codes'[t].purpose = PurposeOf[call[k].op]
    BY <1>1, <1>2, <1>4, <2>3 DEF Reasons, Sought
  <2>6. /\ r.at = "proven" /\ r.op = call[k].op /\ r.token = t
        /\ r.password = call[k].password /\ r.code = call[k].code
    BY <1>1 DEF Call
  <2>7. Sought(r, user', codes')
    <3> HIDE DEF r
    <3> QED
      BY <1>1, <2>5, <2>6 DEF Reasons, Sought
  <2> QED
    BY <1>1, <2>1, <2>4, <2>7, HandlerStep DEF Change
<1> QED
  BY <1>3, <1>4

LEMMA AgeReasons ==
    ASSUME IInv, Reasons, NEW c \in DOMAIN codes, Age(c) PROVE Reasons' /\ Change
<1>1. UNCHANGED <<user, call>>
  BY DEF Age
<1>2. \A d \in DOMAIN codes : codes[d] \in Code
  BY DEF IInv, TypeOK
<1>3. \A d \in DOMAIN codes :
         codes'[d].state = codes[d].state /\ codes'[d].purpose = codes[d].purpose
  BY <1>2 DEF Age, Code
<1>4. Lasts
  BY <1>1, <1>3 DEF Lasts, Blank, Reasons
<1>5. \A k \in Calls : Sought(call[k], user', codes')
  BY <1>4, SoughtLasts, TokenStored DEF Reasons
<1> QED
  BY <1>1, <1>4, <1>5 DEF Reasons, Lasts, Change

------------------------------------------------------------------------------
\* The handlers that write the user row.
LEMMA CreateUserReasons ==
    ASSUME IInv, Reasons, NEW k \in Calls, CreateUser(k) PROVE Reasons' /\ Change
<1>1. call[k].at = "creating" /\ call[k] \in Call /\ call[k].op = "register"
  BY Started DEF CreateUser, At, Points, Staged
<1>2. UNCHANGED codes
  BY DEF CreateUser
<1>3. CASE user.exists
  BY <1>2, <1>3, TablesLast, EndStep DEF CreateUser, tables
<1>4. CASE ~user.exists
  <2>1. user' = [exists |-> TRUE, password |-> call[k].password, verified |-> FALSE]
    BY <1>4 DEF CreateUser
  <2>2. ~user.verified /\ call[k].password \in Passwords
    BY <1>1, <1>4 DEF Reasons, Blank, Sought
  <2>3. Lasts
    BY <1>2, <1>4, <2>1 DEF Lasts, Blank
  <2>4. MoveTo(k, "issuing")
    BY <1>4 DEF CreateUser
  <2>5. Reasons'
    BY <1>1, <2>3, <2>4, MoveSought, HandlerStep DEF MoveTo
  <2>6. user'.verified = user.verified
    <3>1. user.verified \in BOOLEAN
      BY DEF IInv, TypeOK, User
    <3> QED
      BY <2>1, <2>2, <3>1
  <2>7. /\ user'.password = call[k].password /\ user'.password # NoPassword
        /\ Doing(k, "register", "creating") /\ ~user.exists
    BY <1>1, <1>4, <2>1, <2>2, AccountsAssumption DEF Doing, At
  <2> QED
    BY <1>4, <2>5, <2>6, <2>7 DEF Change
<1> QED
  BY <1>3, <1>4

LEMMA AttachPasswordReasons ==
    ASSUME IInv, Reasons, NEW k \in Calls, AttachPassword(k) PROVE Reasons' /\ Change
<1>1. call[k].at = "attaching" /\ call[k].op = "register"
  BY Started DEF AttachPassword, At, Points, Staged
<1>2. user.exists /\ call[k].password \in Passwords
  BY <1>1 DEF Reasons, Sought
<1>3. user' = [user EXCEPT !.password = call[k].password] /\ UNCHANGED codes /\ Finish(k)
  BY DEF AttachPassword
<1>4. /\ user'.exists = user.exists /\ user'.verified = user.verified
      /\ user'.password = call[k].password
  BY <1>3 DEF IInv, TypeOK, User
<1>5. Lasts
  BY <1>2, <1>3, <1>4 DEF Lasts, Blank
<1>6. /\ user'.password # NoPassword /\ Doing(k, "register", "attaching")
  BY <1>1, <1>2, <1>4, AccountsAssumption DEF Doing, At
<1> QED
  BY <1>2, <1>3, <1>4, <1>5, <1>6, EndStep DEF Change

LEMMA OAuthReasons == ASSUME IInv, Reasons, NEW k \in Calls, OAuth(k) PROVE Reasons' /\ Change
<1>1. user' = [user EXCEPT !.exists = TRUE, !.verified = TRUE] /\ UNCHANGED codes /\ Finish(k)
  BY DEF OAuth
<1>2. user'.exists /\ user'.verified /\ user'.password = user.password
  BY <1>1 DEF IInv, TypeOK, User
<1>3. Lasts
  BY <1>1, <1>2 DEF Lasts, Blank
<1> QED
  BY <1>1, <1>2, <1>3, EndStep DEF Change, OAuth

\* A handler that has proven its code shows it.
LEMMA ProvenConsumed ==
    ASSUME Reasons, NEW k \in Calls, At(k, "proven") PROVE Consumed(k)
BY DEF Reasons, Sought, Consumed, At

LEMMA ConfirmEmailReasons ==
    ASSUME IInv, Reasons, NEW k \in Calls, ConfirmEmail(k) PROVE Reasons' /\ Change
<1>1. Consumed(k)
  BY ProvenConsumed DEF ConfirmEmail, Doing
<1>2. user' = [user EXCEPT !.verified = @ \/ user.exists] /\ UNCHANGED codes /\ Finish(k)
  BY DEF ConfirmEmail
<1>3. /\ user'.exists = user.exists /\ user'.password = user.password
      /\ user'.verified <=> user.verified \/ user.exists
  BY <1>2 DEF IInv, TypeOK, User
<1>4. Lasts
  BY <1>2, <1>3 DEF Lasts, Blank, Reasons
<1> QED
  BY <1>1, <1>2, <1>3, <1>4, EndStep DEF Change

LEMMA ResetPasswordReasons ==
    ASSUME IInv, Reasons, NEW k \in Calls, ResetPassword(k) PROVE Reasons' /\ Change
<1>1. Consumed(k) /\ call[k].op = "reset" /\ call[k].password \in Passwords
  BY ProvenConsumed DEF ResetPassword, Doing, Reasons, Sought
<1>2. CASE ~user.exists
  BY <1>2, TablesLast, EndStep DEF ResetPassword, tables
<1>3. CASE user.exists
  <2>1. /\ user' = [user EXCEPT !.password = call[k].password, !.verified = TRUE]
        /\ UNCHANGED codes /\ Finish(k)
    BY <1>3 DEF ResetPassword
  <2>2. user'.exists = user.exists /\ user'.verified /\ user'.password = call[k].password
    BY <2>1 DEF IInv, TypeOK, User
  <2>3. Lasts
    BY <1>3, <2>1, <2>2 DEF Lasts, Blank
  <2>4. user'.password # NoPassword
    BY <1>1, <2>2, AccountsAssumption
  <2> QED
    BY <1>1, <1>3, <2>1, <2>2, <2>3, <2>4, EndStep DEF Change
<1> QED
  BY <1>2, <1>3

LEMMA NextReasons == ASSUME IInv, Reasons, Next PROVE Reasons' /\ Change
<1>1. CASE \E k \in Calls : Handle(k)
  BY <1>1, ArriveReasons, QuietReasons, ReadCodeReasons, DropCodesReasons, MintCodeReasons,
     CountAttemptReasons, ConsumeCodeReasons, CreateUserReasons, AttachPasswordReasons,
     OAuthReasons, ConfirmEmailReasons, ResetPasswordReasons DEF Handle
<1>2. CASE \E c \in DOMAIN codes : Age(c)
  BY <1>2, AgeReasons
<1> QED
  BY <1>1, <1>2 DEF Next

\* For any requests, passwords and cap, an address becomes verified and its
\* password changes only for a reason that still stands (auth.routes register,
\* confirm, reset).
THEOREM ChangesReasoned == Spec => UserChangesHaveReasons
<1>1. Init => Reasons
  BY FreeSought DEF Init, Reasons, Blank
<1>2. IInv /\ Reasons /\ [Next]_vars => Reasons'
  <2>1. Reasons /\ UNCHANGED vars => Reasons'
    BY DEF Reasons, Blank, vars
  <2> QED
    BY <2>1, NextReasons
<1>3. IInv /\ Reasons /\ [Next]_vars => [Change]_vars
  BY NextReasons
<1>4. Spec => []Reasons
  BY <1>1, <1>2, Inductive, PTL DEF Spec
<1>5. Spec => [][Change]_vars
  BY <1>3, <1>4, Inductive, PTL DEF Spec
<1> QED
  BY <1>5 DEF UserChangesHaveReasons, Change
==============================================================================
