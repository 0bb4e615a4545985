----------------------------- MODULE Quotation -----------------------------
(***************************************************************************)
(* The price arithmetic of billing-service                                 *)
(* (app/domain/pricing/quote.py).  A request is priced from one base       *)
(* amount: the provider's reported amount when there is one, the rated     *)
(* usage otherwise.  The buyer's debit and the seller's earning are each   *)
(* that base times a multiplier in basis points, each rounded half up on   *)
(* its own, and the platform keeps the difference.                         *)
(***************************************************************************)
EXTENDS Integers

\* The number of basis points in one.
BPS == 10000

\* Integer product of an amount and a multiplier, rounded half up.
MulBps(amount, bps) == (amount * bps + (BPS \div 2)) \div BPS

\* The (buyer, seller, spread) triple for a base amount under locked rates.
QuoteOf(base, buyerBps, sellerBps) ==
    [ buyer  |-> MulBps(base, buyerBps),
      seller |-> MulBps(base, sellerBps),
      spread |-> MulBps(base, buyerBps) - MulBps(base, sellerBps) ]

\* p is at most q on each of the three sides.
QuoteLeq(p, q) ==
    p.buyer <= q.buyer /\ p.seller <= q.seller /\ p.spread <= q.spread
=============================================================================
