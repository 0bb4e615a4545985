---------------------------- MODULE CodeContract ----------------------------
(***************************************************************************)
(* What is promised about one one-time code, however many requests,        *)
(* workers and lost answers there are.  It waits, is marked, is given to   *)
(* the provider once, can be entered only when the provider said so, and   *)
(* lets somebody in at most once.  A decoy looks the same from outside,    *)
(* but nothing is sent and nobody gets in.  What is over stays over.       *)
(***************************************************************************)
EXTENDS Naturals

VARIABLES
    life,    \* "none", "waiting", "marked", "usable" or "over"
    decoy,   \* made for an account that may not log in
    calls,   \* how often the provider was called
    told,    \* the provider accepted the message
    opened   \* the code opened a session or a sign-up

kvars == <<life, decoy, calls, told, opened>>

KInit == life = "none" /\ decoy \in BOOLEAN /\ calls = 0 /\ ~told /\ ~opened

Make ==
    /\ life = "none" /\ life' = "waiting" /\ decoy' \in BOOLEAN
    /\ UNCHANGED <<calls, told, opened>>

\* From here on the code is never given to the provider by anybody else.
Mark ==
    /\ life = "waiting" /\ ~decoy /\ life' = "marked"
    /\ UNCHANGED <<decoy, calls, told, opened>>

\* It may have been replaced since it was marked.
Call ==
    /\ life \notin {"none", "waiting"} /\ ~decoy /\ calls = 0
    /\ calls' = 1 /\ told' \in BOOLEAN
    /\ UNCHANGED <<life, decoy, opened>>

Arrive ==
    /\ IF decoy THEN life = "waiting" ELSE life = "marked" /\ told
    /\ life' = "usable"
    /\ UNCHANGED <<decoy, calls, told, opened>>

Use ==
    /\ life = "usable" /\ ~decoy
    /\ life' = "over" /\ opened'
    /\ UNCHANGED <<decoy, calls, told>>

\* Used up by wrong entries, replaced, failed or expired.
End ==
    /\ life \in {"waiting", "marked", "usable"} /\ life' = "over"
    /\ UNCHANGED <<decoy, calls, told, opened>>

KNext == Make \/ Mark \/ Call \/ Arrive \/ Use \/ End

KSpec == KInit /\ [][KNext]_kvars
=============================================================================
