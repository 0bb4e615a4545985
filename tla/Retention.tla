------------------------------ MODULE Retention -----------------------------
(***************************************************************************)
(* Retention of the log-in data of api-service: what a request for a code  *)
(* and a sign-up leave behind (authentication.py), and the hourly clean-up *)
(* of it (auth_cleanup.py).                                                *)
(*                                                                         *)
(* A request leaves its idempotency record and a challenge that refers to  *)
(* it; a sign-up leaves an intent that refers to the challenge.  Time is   *)
(* in units of five minutes.  Requests that are answered with an older     *)
(* code, which leave a record alone, are left out.                         *)
(***************************************************************************)
EXTENDS Naturals

CONSTANTS
    Keys,      \* requests
    Life,      \* CHALLENGE_TTL
    Buffer,    \* IDEMPOTENCY_DELETE_BUFFER and CHALLENGE_DELETE_BUFFER
    Every,     \* the clean-up is scheduled once in this time
    Deadline,  \* the hard bound of the data model
    MaxTime    \* bound: the clock stops here

VARIABLES
    now,
    made,      \* when a request was made, MaxTime + 1 before that
    record,    \* requests that have an idempotency record
    challenge, \* requests that have a challenge
    intent,    \* requests of which the code was used to sign up
    ran        \* the clean-up of this time has been run

vars == <<now, made, record, challenge, intent, ran>>

RecordDue(k) == made[k] + Buffer <= now
ChallengeDue(k) == made[k] + Life + Buffer <= now
Scheduled == now % Every = 0

Request(k) ==
    /\ made[k] > MaxTime
    /\ made' = [made EXCEPT ![k] = now]
    /\ record' = record \cup {k}
    /\ challenge' = challenge \cup {k}
    /\ UNCHANGED <<now, intent, ran>>

\* Nothing deletes an intent.
OpenIntent(k) ==
    /\ k \in challenge
    /\ now < made[k] + Life
    /\ intent' = intent \cup {k}
    /\ UNCHANGED <<now, made, record, challenge, ran>>

\* One transaction deletes challenges, then records; a foreign key that is still in use
\* aborts all of it, and the command with it.
Cleanup ==
    LET stale == {k \in challenge : ChallengeDue(k)}
        old == {k \in record : RecordDue(k)}
        refused == stale \cap intent # {} \/ old \cap (challenge \ stale) # {} IN
    /\ Scheduled /\ ~ran
    /\ ran' = TRUE
    /\ challenge' = IF refused THEN challenge ELSE challenge \ stale
    /\ record' = IF refused THEN record ELSE record \ old
    /\ UNCHANGED <<now, made, intent>>

\* No scheduled clean-up is left out.
Tick ==
    /\ now < MaxTime
    /\ Scheduled => ran
    /\ now' = now + 1
    /\ ran' = FALSE
    /\ UNCHANGED <<made, record, challenge, intent>>

Init ==
    /\ now = 0
    /\ made = [k \in Keys |-> MaxTime + 1]
    /\ record = {}
    /\ challenge = {}
    /\ intent = {}
    /\ ran = FALSE

Next ==
    \/ \E k \in Keys : Request(k) \/ OpenIntent(k)
    \/ Cleanup
    \/ Tick

Spec == Init /\ [][Next]_vars

----------------------------------------------------------------------------
\* Idempotency records are gone a day after the request, and challenges a day after the
\* code has expired, if no clean-up is left out.
HardBound ==
    /\ \A k \in record : now <= made[k] + Deadline
    /\ \A k \in challenge : now <= made[k] + Life + Deadline
=============================================================================
