--------------------------- MODULE EscrowContract ---------------------------
(***************************************************************************)
(* What the ledger promises about one request, whatever journal it keeps.  *)
(* A hold is taken once and returned once.  Unless the request is          *)
(* cancelled, closing it replaces the hold by a charge to the buyer, which *)
(* is at every moment exactly what is paid out to the seller and the       *)
(* platform.  A later correction may turn the charge into a credit.  A     *)
(* hold whose cost is unknown may only be charged, never given back.  A    *)
(* refunded buyer is left owing nothing.                                   *)
(***************************************************************************)
EXTENDS Integers

CONSTANT Requests

VARIABLES
    phase,   \* "new", "open", "unknown", "charged" or "closed"
    hold,    \* what is set aside from the buyer's quota
    charge,  \* what the buyer has paid, net of reversals
    payout   \* what seller and platform have received, net of reversals

cvars == <<phase, hold, charge, payout>>

CInit ==
    /\ phase = [r \in Requests |-> "new"]
    /\ hold = [r \in Requests |-> 0]
    /\ charge = [r \in Requests |-> 0]
    /\ payout = [r \in Requests |-> 0]

\* Quota is set aside, once.
Take(r) ==
    /\ phase[r] = "new"
    /\ phase' = [phase EXCEPT ![r] = "open"]
    /\ hold'[r] > 0
    /\ hold' = [hold EXCEPT ![r] = hold'[r]]
    /\ UNCHANGED <<charge, payout>>

\* The cost is not known: the hold stays.
Doubt(r) ==
    /\ phase[r] = "open"
    /\ phase' = [phase EXCEPT ![r] = "unknown"]
    /\ UNCHANGED <<hold, charge, payout>>

\* The charge of r moves, and the payout with it.
Pay(r) ==
    /\ charge' = [charge EXCEPT ![r] = charge'[r]]
    /\ payout' = [payout EXCEPT ![r] = charge'[r]]

\* The whole hold returns and the cost is charged and paid out.
Close(r) ==
    /\ phase[r] \in {"open", "unknown"}
    /\ phase' = [phase EXCEPT ![r] = "charged"]
    /\ hold' = [hold EXCEPT ![r] = 0]
    /\ charge'[r] >= 0
    /\ Pay(r)

\* A late, better amount replaces the charge; it may be negative.
Adjust(r) ==
    /\ phase[r] = "charged"
    /\ Pay(r)
    /\ UNCHANGED <<phase, hold>>

\* Nothing was spent: the hold returns.
Cancel(r) ==
    /\ phase[r] = "open"
    /\ phase' = [phase EXCEPT ![r] = "closed"]
    /\ hold' = [hold EXCEPT ![r] = 0]
    /\ UNCHANGED <<charge, payout>>

\* The charge is taken back, in full at least.
Refund(r) ==
    /\ phase[r] = "charged"
    /\ phase' = [phase EXCEPT ![r] = "closed"]
    /\ charge'[r] <= 0
    /\ Pay(r)
    /\ UNCHANGED hold

CNext ==
    \E r \in Requests :
        Take(r) \/ Doubt(r) \/ Close(r) \/ Adjust(r) \/ Cancel(r) \/ Refund(r)

CSpec == CInit /\ [][CNext]_cvars
=============================================================================
