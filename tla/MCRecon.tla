------------------------------ MODULE MCRecon -------------------------------
(***************************************************************************)
(* Instances of Recon for TLC.                                             *)
(***************************************************************************)
EXTENDS Recon, Quotation, TLC

CONSTANTS r1, r2, k1, k2

\* One quota that just covers a hold for each request: contention for quota is the
\* subject of MCLedger.
MCOwners == { [account |-> "a", project |-> "p", key |-> "x"] }
MCGrants == { [account |-> MaxGranted, project |-> MaxGranted, key |-> MaxGranted] }
MCAmounts == {3}

\* Two prices of a chain, and a cost below zero that continues it.
Low == QuoteOf(1, 15000, 8000)
High == QuoteOf(2, 15000, 8000)
Negative == [buyer |-> -2, seller |-> -1, spread |-> -1]
MCQuotes == {Low, High, Negative}

Doubt(i, r) == [id |-> i, kind |-> "async_pending", request |-> r, quote |-> NoQuote]
Usage(i, r, q) == [id |-> i, kind |-> "usage_rated", request |-> r, quote |-> q]
ReportedCost(i, r, q) == [id |-> i, kind |-> "reported_cost", request |-> r, quote |-> q]

\* The first request meets every kind of evidence, in any order.  The second has evidence
\* without an amount, or a negative cost: a settled request takes it as a credit, an open
\* one not at all, so that every tick that comes to its case fails on it.
MCEvents == { Doubt(1, r1), Doubt(2, r1), Usage(3, r1, Low), ReportedCost(4, r1, High),
              Doubt(5, r2), Usage(6, r2, NoQuote), ReportedCost(6, r2, Negative) }

ASSUME QuotesAreAChain
=============================================================================
