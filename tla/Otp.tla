--------------------------------- MODULE Otp --------------------------------
(***************************************************************************)
(* One-time codes of the phone log-in of api-service: requests for a code  *)
(* (challenge_service.py), the workers that text it (auth_delivery.py,     *)
(* delivery_service.py), codes that are entered (session_service.py), over *)
(* the table verification_challenges.                                      *)
(*                                                                         *)
(* A challenge is named by the idempotency key of the request that made    *)
(* it.  A transaction that locks what it reads is one step; a request for  *)
(* a phone without an account locks no user row and is two.  A worker is a *)
(* process: it claims a batch, works on it code by code, then recovers     *)
(* codes whose sending was started and never finished; it may die anywhere.*)
(* A batch of 20 is taken to hold everything there is to claim.            *)
(***************************************************************************)
EXTENDS Naturals

CONSTANTS
    Keys,         \* idempotency keys of requests
    Phones,
    Workers,      \* dispatcher processes
    InitialAccounts, \* what may be registered at first
    Nobody,       \* no worker, no key, no phone
    MaxAttempts,  \* MAX_ATTEMPTS
    MaxFaults     \* bound: deaths of workers, and leases that run out under a live one

ASSUME OtpConstants ==
    /\ Keys \subseteq Nat
    /\ Nobody \notin Workers \cup Keys \cup Phones
    /\ MaxAttempts \in Nat \ {0}
    /\ MaxFaults \in Nat
    /\ InitialAccounts \subseteq [Phones -> {"none", "active", "disabled"}]

VARIABLES
    account,  \* per phone: its user row, if any
    spent,    \* keys of which the request has ended
    looking,  \* requests that have read the codes of a phone without account
    ch,       \* verification_challenges
    made,     \* number of rows made so far: the clock that dates them
    job,      \* per worker: what it is doing
    texted,   \* the provider accepted the text message (external)
    sends,    \* history: calls of the provider's send
    faults    \* deaths of workers and leases lost so far

worker == <<job, texted, sends, faults>>
otpVars == <<account, spent, looking, ch, made, worker>>

Statuses == {"none", "pending_delivery", "dispatching", "delivered", "consumed",
             "locked", "delivery_failed", "superseded", "expired"}
Live == {"pending_delivery", "dispatching", "delivered"}
Accounts == {"none", "active", "disabled"}

\* A row.  age: 0 within the cooldown, 1 within the life time, 2 expired.  late: the
\* lease time has passed since the row was claimed, or its sending started.  born: when
\* it was made, 0 if it does not exist.
Row == [st : Statuses, kind : {"login", "register", "decoy"}, phone : Phones \cup {Nobody},
        born : Nat, age : 0..2, lease : Workers \cup {Nobody}, late : BOOLEAN,
        started : BOOLEAN, tries : 0..(MaxAttempts - 1)]

RowsOf(p) == {k \in Keys : ch[k].st # "none" /\ ch[k].phone = p}
Oldest(k, S) == k \in S /\ \A j \in S : ch[k].born <= ch[j].born

\* The end of a row.  Its age, its lease and its attempts are never read again.
Ended(row, st) ==
    [row EXCEPT !.st = st, !.age = 2, !.lease = Nobody, !.late = FALSE, !.tries = 0]

Change(k, row) == ch' = [ch EXCEPT ![k] = row]

\* What the partial unique index uq_vc_phone_ref_current lets stand beside the rows S.
Admits(p, S) == \A j \in RowsOf(p) \ S : ch[j].st \notin {"pending_delivery", "delivered"}

\* No request in flight has locked row k.
Free(k) == \A q \in looking : k \notin q.seen

----------------------------------------------------------------------------
(* Requests for a code.                                                    *)

\* Idempotency keys are fresh names; they are numbered, and used in this order.
Used(k) == k \in spent \/ \E q \in looking : q.key = k
Unused(k) == ~Used(k) /\ \A j \in Keys : j < k => Used(j)

\* The rate limiter refuses, or is down: the key keeps that answer.
Refuse(k) ==
    /\ Unused(k)
    /\ spent' = spent \cup {k}
    /\ UNCHANGED <<account, looking, ch, made, worker>>

KindFor(acc) ==
    CASE acc = "active" -> "login" [] acc = "none" -> "register" [] OTHER -> "decoy"

Pending(p, acc) ==
    [st |-> "pending_delivery", kind |-> KindFor(acc), phone |-> p, born |-> made + 1,
     age |-> 0, lease |-> Nobody, late |-> FALSE, started |-> FALSE, tries |-> 0]

Superseded(row) == [Ended(row, "superseded") EXCEPT !.started = FALSE]

\* The live codes that were seen are replaced, also one that is being sent.
\* Faulty form of Replaced: only those the index knows.
ReplacedIndexed(k, seen) == k \in seen /\ ch[k].st \in {"pending_delivery", "delivered"}
Replaced(k, seen) == k \in seen /\ ch[k].st \in Live

\* The newest code seen is live and younger than a minute: it is handed out again.
InCooldown(seen) ==
    \E k \in seen : /\ \A j \in seen : ch[j].born <= ch[k].born
                    /\ ch[k].st \in Live /\ ch[k].age = 0

\* A request ends in an old code, or in a new one that replaces every live code seen.
Answer(k, p, seen, acc) ==
    /\ spent' = spent \cup {k}
    /\ \/ InCooldown(seen) /\ UNCHANGED <<ch, made>>
       \/ /\ ~InCooldown(seen)
          /\ Admits(p, seen)
          /\ made' = made + 1
          /\ ch' = [j \in Keys |->
                      IF j = k THEN Pending(p, acc)
                      ELSE IF Replaced(j, seen) THEN Superseded(ch[j])
                      ELSE ch[j]]
    /\ UNCHANGED <<account, worker>>

\* With an account: its row is locked from the first read to the commit.
Request(k, p) ==
    /\ Unused(k)
    /\ account[p] # "none"
    /\ \A j \in RowsOf(p) : Free(j)
    /\ Answer(k, p, RowsOf(p), account[p])
    /\ UNCHANGED looking

\* Without: what was read is locked, but what another request inserts is not seen.
\* The first of the two reads, of indexed rows, waits for a request that locked them.
Look(k, p) ==
    /\ Unused(k)
    /\ account[p] = "none"
    /\ \A j \in RowsOf(p) : ch[j].st \in {"pending_delivery", "delivered"} => Free(j)
    /\ looking' = looking \cup {[key |-> k, phone |-> p, seen |-> RowsOf(p)]}
    /\ UNCHANGED <<account, spent, ch, made, worker>>

Place(q) ==
    /\ Answer(q.key, q.phone, q.seen, "none")
    /\ looking' = looking \ {q}

\* The index refuses the insert, or the request fails otherwise: rolled back.  (A retry
\* with the same idempotency key is a request with another one here.)
Abandon(q) ==
    /\ looking' = looking \ {q}
    /\ spent' = spent \cup {q.key}
    /\ UNCHANGED <<account, ch, made, worker>>

\* POST /auth/verification-challenges.
ChallengeCall ==
    \/ \E k \in Keys : Refuse(k) \/ \E p \in Phones : Request(k, p) \/ Look(k, p)
    \/ \E q \in looking : Place(q) \/ Abandon(q)

----------------------------------------------------------------------------
(* Workers.  A job: the code at hand, those still to do, and how far it is. *)
(* The loop claims and recovers in turn; here in any order, and a round    *)
(* that finds nothing to do is no step.                                    *)

Steps == {"poll", "load", "prepare", "send", "settle", "query", "void"}
Job == [at : Steps, duty : {"batch", "recovery"}, todo : SUBSET Keys,
        key : Keys \cup {Nobody}, accepted : BOOLEAN]

Idle == [at |-> "poll", duty |-> "batch", todo |-> {}, key |-> Nobody, accepted |-> FALSE]
At(w, step) == job[w].at = step
Step(w, step) == job' = [job EXCEPT ![w].at = step]

\* Take the oldest of S in hand, if any.
TakeNext(w, duty, S) ==
    \/ S = {} /\ job' = [job EXCEPT ![w] = Idle]
    \/ \E k \in S :
         /\ Oldest(k, S)
         /\ job' = [job EXCEPT ![w] =
                      [at |-> IF duty = "batch" THEN "load" ELSE "query", duty |-> duty,
                       todo |-> S \ {k}, key |-> k, accepted |-> FALSE]]
Done(w) == TakeNext(w, job[w].duty, job[w].todo)

Untouched == UNCHANGED <<account, spent, looking, made, faults>>
NoSend == UNCHANGED <<texted, sends>>

\* claim_pending_batch: unclaimed rows, and rows of which the lease has run out.
\* Faulty form of Claimable: a lease never runs out.
ClaimableOnce(k) ==
    /\ ch[k].st = "pending_delivery" /\ ~ch[k].started
    /\ ch[k].lease = Nobody
    /\ Free(k)
Claimable(k) ==
    /\ ch[k].st = "pending_delivery" /\ ~ch[k].started
    /\ ch[k].lease = Nobody \/ ch[k].late
    /\ Free(k)

Claim(w) ==
    LET S == {k \in Keys : Claimable(k)} IN
    /\ At(w, "poll") /\ S # {}
    /\ ch' = [k \in Keys |->
                IF k \in S THEN [ch[k] EXCEPT !.lease = w, !.late = FALSE] ELSE ch[k]]
    /\ TakeNext(w, "batch", S)
    /\ Untouched /\ NoSend

\* _process_one reads the row again: a code that was already sent is only asked about.
Load(w) ==
    /\ At(w, "load")
    /\ Step(w, IF ch[job[w].key].started THEN "query" ELSE "prepare")
    /\ UNCHANGED ch /\ Untouched /\ NoSend

Delivered(row) == [row EXCEPT !.st = "delivered", !.lease = Nobody, !.late = FALSE]
Failed(row) == Ended(row, "delivery_failed")

\* A decoy is delivered without a text message.
PrepareDecoy(w) ==
    LET k == job[w].key IN
    /\ At(w, "prepare") /\ ch[k].kind = "decoy" /\ Free(k)
    /\ Change(k, IF ch[k].st = "pending_delivery" THEN Delivered(ch[k]) ELSE ch[k])
    /\ Done(w)
    /\ Untouched /\ NoSend

\* The account was disabled meanwhile: failed, whatever state the row is in. (A row
\* whose telephone number is gone fails the same way; rows here keep theirs.)
Ineligible(k) == ch[k].kind = "login" /\ account[ch[k].phone] # "active"
PrepareFail(w) ==
    LET k == job[w].key IN
    /\ At(w, "prepare") /\ Ineligible(k) /\ Free(k)
    /\ Change(k, Failed(ch[k]))
    /\ Done(w)
    /\ Untouched /\ NoSend

\* mark_send_started: only for the holder of a lease that has not run out.
\* Faulty form of MayStart: asks for the lease time alone.
MayStartInTime(w, k) == ~ch[k].late
MayStart(w, k) ==
    /\ ch[k].st = "pending_delivery" /\ ch[k].lease = w
    /\ ~ch[k].started /\ ~ch[k].late

PrepareMark(w) ==
    LET k == job[w].key IN
    /\ At(w, "prepare") /\ ch[k].kind # "decoy" /\ ~Ineligible(k) /\ Free(k)
    /\ IF MayStart(w, k)
       THEN /\ Change(k, [ch[k] EXCEPT !.st = "dispatching", !.started = TRUE])
            /\ Step(w, "send")
       ELSE UNCHANGED ch /\ Done(w)
    /\ Untouched /\ NoSend

\* The provider is called; the answer may be lost on the way back (timeout, unknown).
Send(w) ==
    LET k == job[w].key IN
    /\ At(w, "send")
    /\ sends' = [sends EXCEPT ![k] = @ + 1]
    /\ \E ok, heard \in BOOLEAN :
         /\ texted' = [texted EXCEPT ![k] = @ \/ ok]
         /\ job' = [job EXCEPT ![w].at = "settle", ![w].accepted = ok /\ heard]
    /\ UNCHANGED ch /\ Untouched

\* Or this process lacks the key the code was made with: failed, in whatever state.
Unconfigured(w) ==
    LET k == job[w].key IN
    /\ At(w, "send") /\ Free(k)
    /\ Change(k, Failed(ch[k]))
    /\ Done(w)
    /\ Untouched /\ NoSend

\* finalize_result: records the answer, unless something else has ended the code.
Unsettled(k) == ch[k].st \in {"pending_delivery", "dispatching"}
\* Faulty form of Settle: the answer is recorded in any case.
SettleUnchecked(w) ==
    LET k == job[w].key IN
    /\ At(w, "settle") /\ Free(k)
    /\ Change(k, IF job[w].accepted THEN Delivered(ch[k]) ELSE Failed(ch[k]))
    /\ Done(w)
    /\ Untouched /\ NoSend
Settle(w) ==
    LET k == job[w].key
        ok == job[w].accepted IN
    /\ At(w, "settle") /\ Free(k)
    /\ (Unsettled(k) /\ ok) => Admits(ch[k].phone, {k})
    /\ Change(k, IF ~Unsettled(k) THEN ch[k]
                 ELSE IF ok THEN Delivered(ch[k]) ELSE Failed(ch[k]))
    /\ Done(w)
    /\ Untouched /\ NoSend

\* The index refuses the row: in a batch one code is lost, in recovery the whole round.
SettleRefused(w) ==
    LET k == job[w].key IN
    /\ At(w, "settle") /\ Free(k)
    /\ Unsettled(k) /\ job[w].accepted /\ ~Admits(ch[k].phone, {k})
    /\ IF job[w].duty = "batch" THEN Done(w) ELSE job' = [job EXCEPT ![w] = Idle]
    /\ UNCHANGED ch /\ Untouched /\ NoSend

\* list_stale_dispatching: sending started longer ago than a lease lasts.
List(w) ==
    LET S == {k \in Keys : /\ ch[k].st = "dispatching" /\ ch[k].started
                           /\ ch[k].late /\ Free(k)} IN
    /\ At(w, "poll") /\ S # {}
    /\ TakeNext(w, "recovery", S)
    /\ UNCHANGED ch /\ Untouched /\ NoSend

\* invalidate_after_send_started: ask the provider, which may not know ...
\* Faulty form of Query: a code whose sending was started counts as sent.
QueryTrusting(w) ==
    /\ At(w, "query")
    /\ job' = [job EXCEPT ![w].at = "settle", ![w].accepted = TRUE]
    /\ UNCHANGED ch /\ Untouched /\ NoSend
Query(w) ==
    /\ At(w, "query")
    /\ \E ok \in BOOLEAN :
         /\ ok => texted[job[w].key]
         /\ job' = [job EXCEPT ![w].at = IF ok THEN "settle" ELSE "void",
                               ![w].accepted = ok]
    /\ UNCHANGED ch /\ Untouched /\ NoSend

\* ... and then the code fails; it is never sent again.
Void(w) ==
    LET k == job[w].key IN
    /\ At(w, "void") /\ Free(k)
    /\ Change(k, IF ch[k].st = "dispatching" THEN Failed(ch[k]) ELSE ch[k])
    /\ Done(w)
    /\ Untouched /\ NoSend

Work(w) ==
    \/ Claim(w) \/ Load(w) \/ PrepareDecoy(w) \/ PrepareFail(w) \/ PrepareMark(w)
    \/ Send(w) \/ Unconfigured(w) \/ Settle(w) \/ SettleRefused(w)
    \/ List(w) \/ Query(w) \/ Void(w)

\* A worker dies and starts again: what it had in hand is forgotten.
Crash(w) ==
    /\ ~At(w, "poll")
    /\ faults < MaxFaults
    /\ faults' = faults + 1
    /\ job' = [job EXCEPT ![w] = Idle]
    /\ UNCHANGED <<account, spent, looking, ch, made>> /\ NoSend

----------------------------------------------------------------------------
(* Time.                                                                   *)

InHand(k) == \E w \in Workers : job[w].key = k \/ k \in job[w].todo

TimeOut(k) ==
    /\ \/ ch[k].st = "pending_delivery" /\ ch[k].lease # Nobody
       \/ ch[k].st = "dispatching"
    /\ ~ch[k].late
    /\ Change(k, [ch[k] EXCEPT !.late = TRUE])
    /\ UNCHANGED <<account, spent, looking, made, job>> /\ NoSend

\* Of a code nobody works on; and of one that a slow worker still has in hand.
LeaseEnds(k) == ~InHand(k) /\ TimeOut(k) /\ UNCHANGED faults
LeaseLost(k) == InHand(k) /\ TimeOut(k) /\ faults < MaxFaults /\ faults' = faults + 1

Grow(k) ==
    /\ ch[k].st \in Live /\ ch[k].age < 2
    /\ \A j \in Keys : ch[j].born \in 1..(ch[k].born - 1) => ch[j].age > ch[k].age
    /\ Change(k, [ch[k] EXCEPT !.age = @ + 1])
    /\ UNCHANGED <<account, spent, looking, made, worker>>

----------------------------------------------------------------------------
(* A code is entered.  The row is read again under its lock.               *)

Enter(k, row) ==
    /\ Free(k)
    /\ Change(k, row)
    /\ UNCHANGED <<spent, looking, made, worker>>

EnterExpired(k) ==
    /\ ch[k].st \in Live /\ ch[k].age = 2
    /\ Enter(k, [Ended(ch[k], "expired") EXCEPT !.started = FALSE])
    /\ UNCHANGED account

\* A wrong code, a decoy, or an account that was disabled: they look alike.
\* Faulty form of EnterWrong: any number of attempts.
EnterWrongForever(k) ==
    /\ ch[k].st = "delivered" /\ ch[k].age < 2
    /\ Enter(k, [ch[k] EXCEPT !.tries = @ + 1])
    /\ UNCHANGED account
EnterWrong(k) ==
    /\ ch[k].st = "delivered" /\ ch[k].age < 2
    /\ Enter(k, IF ch[k].tries + 1 >= MaxAttempts
                THEN [Ended(ch[k], "locked") EXCEPT !.started = FALSE]
                ELSE [ch[k] EXCEPT !.tries = @ + 1])
    /\ UNCHANGED account

EnterRight(k) ==
    /\ ch[k].st = "delivered" /\ ch[k].age < 2
    /\ ch[k].kind # "decoy" /\ ~Ineligible(k)
    /\ Enter(k, [Ended(ch[k], "consumed") EXCEPT !.started = FALSE])

----------------------------------------------------------------------------
\* Accounts are disabled outside of this service (external) ...
Disable(p) ==
    /\ account[p] = "active"
    /\ account' = [account EXCEPT ![p] = "disabled"]
    /\ UNCHANGED <<spent, looking, ch, made, worker>>

Codes ==
    \/ ChallengeCall
    \/ \E k \in Keys :
         \/ LeaseEnds(k) \/ LeaseLost(k) \/ Grow(k)
         \/ EnterExpired(k) \/ EnterWrong(k)
    \/ \E w \in Workers : Work(w) \/ Crash(w)
    \/ \E p \in Phones : Disable(p)

\* ... and made by whoever consumes the code of a registration (Login).
SignUp(p) ==
    /\ account[p] = "none"
    /\ account' = [account EXCEPT ![p] = "active"]
    /\ UNCHANGED <<spent, looking, ch, made, worker>>

Blank ==
    [st |-> "none", kind |-> "login", phone |-> Nobody, born |-> 0, age |-> 0,
     lease |-> Nobody, late |-> FALSE, started |-> FALSE, tries |-> 0]

OtpInit ==
    /\ account \in InitialAccounts
    /\ spent = {}
    /\ looking = {}
    /\ ch = [k \in Keys |-> Blank]
    /\ made = 0
    /\ job = [w \in Workers |-> Idle]
    /\ texted = [k \in Keys |-> FALSE]
    /\ sends = [k \in Keys |-> 0]
    /\ faults = 0

OtpNext ==
    \/ Codes
    \/ \E k \in Keys : EnterRight(k) /\ UNCHANGED account
    \/ \E p \in Phones : SignUp(p)

OtpSpec == OtpInit /\ [][OtpNext]_otpVars
=============================================================================
