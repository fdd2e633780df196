------------------------------- MODULE Accounts -------------------------------
(***************************************************************************)
(* One email address: its user row, its one-time codes, and the handlers   *)
(* of auth.routes that create, check and change them.  Every await of a    *)
(* handler is a boundary between two of its steps: a code is read in one   *)
(* and counted or consumed in another; old codes are dropped in one and    *)
(* the new one created in another; the mail comes last and may fail.       *)
(*                                                                         *)
(* A code is its position in the order of creation.  The comparison of a   *)
(* presented code with a stored HMAC is equality of codes.  A client may   *)
(* type any code that was created, mailed to it or guessed, or NoCode,     *)
(* which no row has.  Users are never deleted by this program.             *)
(***************************************************************************)
EXTENDS Naturals, Sequences, FiniteSets

Issuers == {"register", "send", "forgot"}

CONSTANTS
    Calls,          \* requests in flight
    Passwords,
    NoPassword,     \* passwordHash is null
    MaxAttempts,    \* MAX_OTP_ATTEMPTS
    MaxCodes        \* bound: no such request arrives once so many codes were created

ASSUME AccountsAssumption ==
    /\ NoPassword \notin Passwords
    /\ MaxAttempts \in Nat \ {0}
    /\ MaxCodes \in [Issuers -> Nat]
    /\ IsFiniteSet(Calls)

Purposes == {"EMAIL_VERIFY", "PASSWORD_RESET"}
PurposeOf == [register |-> "EMAIL_VERIFY", send |-> "EMAIL_VERIFY", confirm |-> "EMAIL_VERIFY",
              forgot |-> "PASSWORD_RESET", reset |-> "PASSWORD_RESET"]

VARIABLES
    user,       \* the user row
    codes,      \* the verification tokens, in creation order
    call,       \* the handlers
    could       \* auxiliary: since it arrived, the request has been one to accept

tables == <<user, codes>>
vars == <<user, codes, call, could>>

User == [exists : BOOLEAN, password : Passwords \cup {NoPassword}, verified : BOOLEAN]

\* age "new" is inside the resend cooldown, which is shorter than the lifetime.
Code == [purpose : Purposes, attempts : Nat, age : {"new", "settled", "expired"},
         state : {"live", "consumed", "deleted"}]

Deleted == [purpose |-> "EMAIL_VERIFY", attempts |-> 0, age |-> "expired", state |-> "deleted"]

Ops == DOMAIN PurposeOf \cup {"login", "oauth"}
Points == {"arrived", "creating", "attaching", "issuing", "dropping", "minting", "mailing",
           "wrong", "right", "proven"}

\* code: the one the client types; token: the row the handler has read or made.
Call == [op : Ops, at : Points, password : Passwords \cup {NoPassword}, code : Nat, token : Nat]

NoCode == 0
Request(op, password, code) ==
    [op |-> op, at |-> "arrived", password |-> password, code |-> code, token |-> NoCode]

Free(point) == [op |-> "login", at |-> point, password |-> NoPassword, code |-> NoCode,
                token |-> NoCode]
Idle == Free("idle")    \* no request, or one that was refused
Done == Free("done")    \* the answer says that it was done

Init ==
    /\ user = [exists |-> FALSE, password |-> NoPassword, verified |-> FALSE]
    /\ codes = << >>
    /\ call = [k \in Calls |-> Idle]
    /\ could = [k \in Calls |-> FALSE]

------------------------------------------------------------------------------
At(k, point) == call[k].at = point
Doing(k, op, point) == call[k].op = op /\ At(k, point)

MoveTo(k, point) == call' = [call EXCEPT ![k].at = point]
Finish(k) == call' = [call EXCEPT ![k] = Done]
Refuse(k) == call' = [call EXCEPT ![k] = Idle]
FinishIf(k, ok) == IF ok THEN Finish(k) ELSE Refuse(k)

Live(p) == {c \in DOMAIN codes : codes[c].purpose = p /\ codes[c].state = "live"}

\* The findFirst of both issueOtp and consumeOtp; NoCode when there is none.
Latest(p) ==
    IF Live(p) = {} THEN NoCode ELSE CHOOSE c \in Live(p) : \A d \in Live(p) : d <= c

\* Mutant: the cap is not looked at.
MutantUsable(c) == codes[c].age # "expired"

Usable(c) == codes[c].age # "expired" /\ codes[c].attempts < MaxAttempts

PasswordIs(password) == user.exists /\ user.password = password

\* What would be accepted now, were it done in one step.
Entitled(k) ==
    LET r == call[k] IN
    /\ r \notin {Idle, Done}
    /\ r.op = "login" => PasswordIs(r.password) /\ user.verified
    /\ r.op \in {"confirm", "reset"} =>
          /\ r.code # NoCode
          /\ r.code = Latest(PurposeOf[r.op])
          /\ Usable(r.code)

Typed == 0..Len(codes)

Incoming ==
    {Request(op, pw, NoCode) : op \in {"register", "login"}, pw \in Passwords}
    \cup {Request(op, NoPassword, NoCode) : op \in {"oauth", "send", "forgot"}}
    \cup {Request("confirm", NoPassword, c) : c \in Typed}
    \cup {Request("reset", pw, c) : pw \in Passwords, c \in Typed}

Arrive(k) ==
    /\ At(k, "idle")
    /\ \E r \in Incoming :
          /\ r.op \in Issuers => Len(codes) < MaxCodes[r.op]
          /\ call' = [call EXCEPT ![k] = r]
    /\ UNCHANGED tables

Answer(k) ==
    /\ At(k, "done")
    /\ Refuse(k)
    /\ UNCHANGED tables

------------------------------------------------------------------------------
(***************************************************************************)
(* Registration, login, OAuth                                              *)
(***************************************************************************)
\* An account made by a provider gets its password; any other is a duplicate.
FindUser(k) ==
    /\ Doing(k, "register", "arrived")
    /\ IF ~user.exists THEN MoveTo(k, "creating")
       ELSE IF user.password = NoPassword THEN MoveTo(k, "attaching")
       ELSE Refuse(k)
    /\ UNCHANGED tables

\* After the hash: the unique email refuses a second row.
CreateUser(k) ==
    /\ At(k, "creating")
    /\ IF user.exists
       THEN Refuse(k) /\ UNCHANGED user
       ELSE /\ user' = [exists |-> TRUE, password |-> call[k].password, verified |-> FALSE]
            /\ MoveTo(k, "issuing")
    /\ UNCHANGED codes

AttachPassword(k) ==
    /\ At(k, "attaching")
    /\ user' = [user EXCEPT !.password = call[k].password]
    /\ Finish(k)
    /\ UNCHANGED codes

\* Mutant: the gate on emailVerified is gone.
MutantLogin(k) ==
    /\ Doing(k, "login", "arrived")
    /\ FinishIf(k, PasswordIs(call[k].password))
    /\ UNCHANGED tables

\* The row is read once; the hash of the password takes time and no state.
Login(k) ==
    /\ Doing(k, "login", "arrived")
    /\ FinishIf(k, PasswordIs(call[k].password) /\ user.verified)
    /\ UNCHANGED tables

OAuth(k) ==
    /\ Doing(k, "oauth", "arrived")
    /\ user' = [user EXCEPT !.exists = TRUE, !.verified = TRUE]
    /\ Finish(k)
    /\ UNCHANGED codes

------------------------------------------------------------------------------
(***************************************************************************)
(* issueOtp and the mail                                                   *)
(***************************************************************************)
\* Nothing is sent to an address that has no use for it, and nobody is told.
FindAccount(k) ==
    /\ call[k].op \in {"send", "forgot"}
    /\ At(k, "arrived")
    /\ IF user.exists /\ IF call[k].op = "send" THEN ~user.verified
                                                ELSE user.password # NoPassword
       THEN MoveTo(k, "issuing")
       ELSE Finish(k)
    /\ UNCHANGED tables

\* Only the resend route tells its caller that no mail went out.
Unsent(k) == FinishIf(k, call[k].op # "send")

CheckCooldown(k) ==
    LET last == Latest(PurposeOf[call[k].op]) IN
    /\ At(k, "issuing")
    /\ IF last # NoCode /\ codes[last].age = "new" THEN Unsent(k) ELSE MoveTo(k, "dropping")
    /\ UNCHANGED tables

\* Mutant: the old codes stay.
MutantDropCodes(k) ==
    /\ At(k, "dropping")
    /\ MoveTo(k, "minting")
    /\ UNCHANGED tables

DropCodes(k) ==
    /\ At(k, "dropping")
    /\ codes' = [c \in DOMAIN codes |->
            IF c \in Live(PurposeOf[call[k].op]) THEN Deleted ELSE codes[c]]
    /\ MoveTo(k, "minting")
    /\ UNCHANGED user

\* Mutant: the code is not stored.
MutantMintCode(k) ==
    /\ At(k, "minting")
    /\ call' = [call EXCEPT ![k].at = "mailing", ![k].token = Len(codes) + 1]
    /\ UNCHANGED tables

MintCode(k) ==
    /\ At(k, "minting")
    /\ codes' = Append(codes, [purpose |-> PurposeOf[call[k].op], attempts |-> 0,
                               age |-> "new", state |-> "live"])
    /\ call' = [call EXCEPT ![k].at = "mailing", ![k].token = Len(codes) + 1]
    /\ UNCHANGED user

Mail(k) ==
    /\ At(k, "mailing")
    /\ Finish(k) \/ Unsent(k)
    /\ UNCHANGED tables

------------------------------------------------------------------------------
(***************************************************************************)
(* consumeOtp and what a right code opens                                  *)
(***************************************************************************)
ReadCode(k) ==
    LET t == Latest(PurposeOf[call[k].op]) IN
    /\ call[k].op \in {"confirm", "reset"}
    /\ At(k, "arrived")
    /\ IF t # NoCode /\ Usable(t)
       THEN call' = [call EXCEPT ![k].token = t,
                                 ![k].at = IF call[k].code = t THEN "right" ELSE "wrong"]
       ELSE Refuse(k)
    /\ UNCHANGED tables

\* A row deleted since it was read makes the update throw, here and in ConsumeCode.
CountAttempt(k) ==
    LET t == call[k].token IN
    /\ At(k, "wrong")
    /\ IF codes[t].state = "deleted" THEN UNCHANGED codes
       ELSE codes' = [codes EXCEPT ![t].attempts = @ + 1]
    /\ Refuse(k)
    /\ UNCHANGED user

ConsumeCode(k) ==
    LET t == call[k].token IN
    /\ At(k, "right")
    /\ IF codes[t].state = "deleted"
       THEN Refuse(k) /\ UNCHANGED codes
       ELSE MoveTo(k, "proven") /\ codes' = [codes EXCEPT ![t].state = "consumed"]
    /\ UNCHANGED user

ConfirmEmail(k) ==
    /\ Doing(k, "confirm", "proven")
    /\ user' = [user EXCEPT !.verified = @ \/ user.exists]
    /\ Finish(k)
    /\ UNCHANGED codes

ResetPassword(k) ==
    /\ Doing(k, "reset", "proven")
    /\ IF user.exists
       THEN user' = [user EXCEPT !.password = call[k].password, !.verified = TRUE] /\ Finish(k)
       ELSE UNCHANGED user /\ Refuse(k)
    /\ UNCHANGED codes

\* Time passes for a code: its cooldown ends, then its lifetime.
Age(c) ==
    /\ codes[c].state = "live" /\ codes[c].age # "expired"
    /\ codes' = [codes EXCEPT ![c].age = IF @ = "new" THEN "settled" ELSE "expired"]
    /\ UNCHANGED <<user, call>>

------------------------------------------------------------------------------
Handle(k) ==
    \/ Arrive(k) \/ Answer(k)
    \/ FindUser(k) \/ CreateUser(k) \/ AttachPassword(k) \/ Login(k) \/ OAuth(k)
    \/ FindAccount(k) \/ CheckCooldown(k) \/ DropCodes(k) \/ MintCode(k) \/ Mail(k)
    \/ ReadCode(k) \/ CountAttempt(k) \/ ConsumeCode(k) \/ ConfirmEmail(k) \/ ResetPassword(k)

Measure ==
    could' = [k \in Calls |-> ~At(k, "idle")' /\ (could[k] \/ Entitled(k)')]

Next ==
    /\ \/ \E k \in Calls : Handle(k)
       \/ \E c \in DOMAIN codes : Age(c)
    /\ Measure

Spec == Init /\ [][Next]_vars

------------------------------------------------------------------------------
TypeOK ==
    /\ user \in User
    /\ codes \in Seq(Code)
    /\ call \in [Calls -> Call \cup {Idle, Done}]
    /\ \A k \in Calls : call[k].token \in Typed
    /\ could \in [Calls -> BOOLEAN]

\* A code that was consumed, replaced, expired or capped before a request
\* arrived opens nothing to it, and neither does a password that was not the
\* account's at any time since, or one of an address not verified
\* (auth.routes consumeOtp, verify).
AcceptedWasRight ==
    \A k \in Calls : At(k, "done") => could[k]

\* Wrong codes are counted after an await, so that several may pass the cap
\* together; a code is never tried more often than the cap and the requests in
\* flight allow (auth.routes consumeOtp, MAX_OTP_ATTEMPTS).
AttemptsBounded ==
    \A c \in DOMAIN codes :
        codes[c].attempts + Cardinality({k \in Calls : At(k, "wrong") /\ call[k].token = c})
            < MaxAttempts + Cardinality(Calls)

\* Old codes are dropped one await before the new one is created: two requests
\* may both leave one, but never do live codes outnumber the requests in
\* flight, and a request alone leaves one (auth.routes issueOtp).
FewLiveCodes ==
    \A p \in Purposes :
        Cardinality(Live(p))
          + Cardinality({k \in Calls : At(k, "minting") /\ PurposeOf[call[k].op] = p})
            <= Cardinality(Calls)

\* The code the request k typed is a row of its purpose that it has consumed.
Consumed(k) ==
    LET t == call[k].token IN
    /\ At(k, "proven")
    /\ t # NoCode
    /\ call[k].code = t
    /\ codes[t].purpose = PurposeOf[call[k].op]
    /\ codes[t].state = "consumed"

\* A user row is only changed for a reason, whatever was dropped, replaced or
\* changed since the handler last looked.  An address becomes verified by a
\* provider or by a code that was typed and consumed; its password is what a
\* request creating or completing the account, or a reset with such a code,
\* asked for.  Nothing undoes either (auth.routes register, confirm, reset).
UserChangesHaveReasons ==
    [][/\ user.exists => user'.exists
       /\ user.verified => user'.verified
       /\ user'.verified # user.verified =>
             \E k \in Calls : Doing(k, "oauth", "arrived") \/ Consumed(k)
       /\ user'.password # user.password =>
             /\ user'.password # NoPassword
             /\ \E k \in Calls :
                   /\ user'.password = call[k].password
                   /\ \/ Doing(k, "register", "creating") /\ ~user.exists
                      \/ Doing(k, "register", "attaching") /\ user.exists
                      \/ call[k].op = "reset" /\ user.exists /\ Consumed(k)]_vars
==============================================================================
