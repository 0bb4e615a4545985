-------------------------------- MODULE Login -------------------------------
(***************************************************************************)
(* Sessions and sign-up of api-service (session_service.py,                *)
(* profile_service.py), composed with the one-time codes of Otp.           *)
(*                                                                         *)
(* A right code of an account opens a session and ends the others; a right *)
(* code of a phone without account opens an intent, which the profile form *)
(* turns into an account with its first session.  A session and an intent  *)
(* are named by the code they come from.  Every operation locks the rows   *)
(* it changes in one transaction, and is one step; where two of them lock  *)
(* rows in opposite order the database aborts one.  Expiry of a session,   *)
(* CSRF tokens and workspaces are left out: they only refuse calls.        *)
(***************************************************************************)
EXTENDS Otp

VARIABLES
    session,     \* auth_sessions: "none", "live" (not revoked) or "revoked"
    issued,      \* the generation each session was issued in
    generation,  \* users.session_generation
    intent,      \* profile_completion_intents: "none", "open", "used"
    signed       \* the code of which the intent made the account of a phone

loginVars == <<session, issued, generation, intent, signed>>
allVars == <<otpVars, loginVars>>

Phone(k) == ch[k].phone
SessionsOf(p) == {k \in Keys : session[k] # "none" /\ Phone(k) = p}
LiveSessions(p) == {k \in SessionsOf(p) : session[k] = "live"}

\* bump_session_generation and insert_session, after the sessions `over` are revoked.
\* The index uq_as_user_active admits one session that is not revoked.
OpenSession(k, p, over) ==
    /\ LiveSessions(p) \subseteq over
    /\ session' = [j \in Keys |->
                     IF j = k THEN "live" ELSE IF j \in over THEN "revoked" ELSE session[j]]
    /\ generation' = [generation EXCEPT ![p] = @ + 1]
    /\ issued' = [issued EXCEPT ![k] = generation[p] + 1]

\* create_session, for an account.
LogIn(k) ==
    /\ ch[k].kind = "login"
    /\ EnterRight(k)
    /\ OpenSession(k, Phone(k), LiveSessions(Phone(k)))
    /\ UNCHANGED <<account, intent, signed>>

\* create_session, for a phone without account: an older open intent is used up.
OpenIntent(k) ==
    /\ ch[k].kind = "register"
    /\ EnterRight(k)
    /\ intent' = [j \in Keys |->
                    IF j = k THEN "open"
                    ELSE IF intent[j] = "open" /\ Phone(j) = Phone(k) THEN "used"
                    ELSE intent[j]]
    /\ UNCHANGED <<account, session, issued, generation, signed>>

\* The profile form: the account and its first session are made together.
Complete(k) ==
    /\ intent[k] = "open"
    /\ SignUp(Phone(k))
    /\ intent' = [intent EXCEPT ![k] = "used"]
    /\ signed' = [signed EXCEPT ![Phone(k)] = k]
    /\ OpenSession(k, Phone(k), {})

\* The same form again with the idempotency key that made the account: register()
\* replays its answer, and a session is opened if there is none.
CompleteAgain(k) ==
    /\ intent[k] = "open"
    /\ signed[Phone(k)] # Nobody
    /\ intent' = [intent EXCEPT ![k] = "used"]
    /\ OpenSession(k, Phone(k), {})
    /\ UNCHANGED <<otpVars, signed>>

LogOut(k) ==
    /\ session[k] = "live"
    /\ session' = [session EXCEPT ![k] = "revoked"]
    /\ UNCHANGED <<otpVars, issued, generation, intent, signed>>

\* Faulty form of RevokeAll: leaves the sessions to the generation check.
RevokeAllByGeneration(k) ==
    /\ session[k] = "live"
    /\ generation' = [generation EXCEPT ![Phone(k)] = @ + 1]
    /\ UNCHANGED <<otpVars, session, issued, intent, signed>>
RevokeAll(k) ==
    /\ session[k] = "live"
    /\ generation' = [generation EXCEPT ![Phone(k)] = @ + 1]
    /\ session' = [j \in Keys |->
                     IF j \in LiveSessions(Phone(k)) THEN "revoked" ELSE session[j]]
    /\ UNCHANGED <<otpVars, issued, intent, signed>>

\* POST /auth/sessions and /auth/profile-completions; DELETE /auth/session and
\* POST /auth/session-revocations.
CreateSession(k) == LogIn(k) \/ OpenIntent(k)
CompleteProfile(k) == Complete(k) \/ CompleteAgain(k)
EndSession(k) == LogOut(k) \/ RevokeAll(k)

LoginInit ==
    /\ OtpInit
    /\ session = [k \in Keys |-> "none"]
    /\ issued = [k \in Keys |-> 0]
    /\ generation = [p \in Phones |-> 1]
    /\ intent = [k \in Keys |-> "none"]
    /\ signed = [p \in Phones |-> Nobody]

LoginNext ==
    \/ Codes /\ UNCHANGED loginVars
    \/ \E k \in Keys : CreateSession(k) \/ CompleteProfile(k) \/ EndSession(k)

LoginSpec == LoginInit /\ [][LoginNext]_allVars

\* The workers' loops run, leases run out and requests end: while any of that can
\* happen, some of it does.  (Weaker than fairness to each.)  Nobody enters a code.
Progress ==
    /\ \/ \E w \in Workers : Work(w)
       \/ \E k \in Keys : LeaseEnds(k)
       \/ \E q \in looking : Place(q) \/ Abandon(q)
    /\ UNCHANGED loginVars

FairLoginSpec == LoginSpec /\ WF_allVars(Progress)

----------------------------------------------------------------------------
(* Properties.                                                             *)

\* Every variable has its type.
LoginTypeOK ==
    /\ account \in [Phones -> Accounts]
    /\ spent \subseteq Keys
    /\ looking \subseteq [key : Keys, phone : Phones, seen : SUBSET Keys]
    /\ ch \in [Keys -> Row]
    /\ made \in Nat
    /\ job \in [Workers -> Job]
    /\ texted \in [Keys -> BOOLEAN]
    /\ sends \in [Keys -> Nat]
    /\ faults \in Nat
    /\ session \in [Keys -> {"none", "live", "revoked"}]
    /\ issued \in [Keys -> Nat]
    /\ generation \in [Phones -> Nat]
    /\ intent \in [Keys -> {"none", "open", "used"}]
    /\ signed \in [Phones -> Keys \cup {Nobody}]

\* A code is sent at most once, whoever loses a lease or dies while sending it.
SentOnce == \A k \in Keys : sends[k] <= 1

\* A code that can still be sent or entered is the newest log-in code of its account.
\* (Codes of a phone without account are made without a lock on it: two may be live.)
OnlyNewestCode ==
    \A j, k \in Keys :
        /\ ch[k].kind = "login" /\ ch[k].st \in Live
        /\ ch[j].kind = "login" /\ ch[j].phone = ch[k].phone
        => ch[j].born <= ch[k].born

\* Whatever can be entered, was entered or opened a session went to the phone before:
\* an answer that was lost and a query that finds nothing never count as delivered.
TextedBeforeUsed ==
    \A k \in Keys :
        /\ ch[k].kind # "decoy"
        /\ ch[k].st \in {"delivered", "consumed", "locked"} \/ session[k] # "none"
        => texted[k]

\* A code that was used, locked, replaced, failed or expired never becomes live again,
\* although workers that had it in hand still finish.
DeadStaysDead ==
    [][\A k \in Keys : ch[k].st \notin Live \cup {"none"} => ch'[k].st \notin Live]_allVars

\* One session of an account is valid, the one issued last; none after a revoke-all.
NewestSessionOnly ==
    \A k \in Keys : session[k] = "live" =>
        /\ issued[k] = generation[Phone(k)]
        /\ \A j \in SessionsOf(Phone(k)) : j # k => issued[j] < issued[k]

\* Every code keeps the contract of one-time codes, whoever else makes, sends, replaces
\* and enters codes at the same time.
Life(k) ==
    CASE ch[k].st = "none" -> "none"
      [] ch[k].st = "pending_delivery" -> "waiting"
      [] ch[k].st = "dispatching" -> "marked"
      [] ch[k].st = "delivered" -> "usable"
      [] OTHER -> "over"
Opened(k) == session[k] # "none" \/ intent[k] # "none"

CodeOf(k) == INSTANCE CodeContract WITH
    life <- Life(k), decoy <- ch[k].kind = "decoy",
    calls <- sends[k], told <- texted[k], opened <- Opened(k)

EachKeepsContract ==
    /\ \A k \in Keys : CodeOf(k)!KInit
    /\ [][\A k \in Keys : [CodeOf(k)!KNext]_(CodeOf(k)!kvars)]_allVars

\* Every code is eventually delivered or failed, whatever workers do not survive it,
\* unless a sign-up has two live codes, of which the index refuses to settle one.
Rivals == \E j, k \in Keys : j # k /\ ch[j].phone = ch[k].phone
                             /\ ch[j].st \in Live /\ ch[k].st = "dispatching"
EveryCodeSettles == \A k \in Keys : Unsettled(k) ~> ~Unsettled(k) \/ Rivals
=============================================================================
