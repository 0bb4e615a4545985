------------------------------ MODULE MCLedger ------------------------------
(***************************************************************************)
(* Instances of Ledger for TLC.                                            *)
(***************************************************************************)
EXTENDS Ledger, Quotation, TLC

CONSTANTS r1, r2, r3, k1, k2, k3

MCRequests == {r1, r2, r3}
MCIdemKeys == {k1, k2, k3}
MCSymmetry == Permutations(MCRequests) \cup Permutations(MCIdemKeys)

\* Two keys of one project: they share two buckets and not the third.
MCOwners == { [account |-> "a", project |-> "p", key |-> "x"],
              [account |-> "a", project |-> "p", key |-> "y"] }

\* Seeded twice, for either key: after the first grant alone the account runs out first,
\* after the second alone the project, after both the key that was given the second.
\* The highest cost is above the hold.
MCGrants == { [account |-> 2, project |-> 4, key |-> 4],
              [account |-> 4, project |-> 2, key |-> 2] }
MCAmounts == {2}

\* The triples the price arithmetic gives for these base amounts.
Priced(bases, buyerBps, sellerBps) ==
    {QuoteOf(b, buyerBps, sellerBps) : b \in bases}

\* Multipliers on both sides of one: the quotes form a chain.  A cost reported as negative
\* continues it downwards; no price is one, and settle() refuses it.
Negative == [buyer |-> -2, seller |-> -1, spread |-> -1]
MCQuotes == Priced({0, 2}, 15000, 8000) \cup {Negative}

\* Both multipliers below one: from base 5 to base 6 the buyer's debit stays,
\* the seller's earning goes up and the spread goes down.
MCQuotesBelowOne == Priced({5, 6}, 9000, 8000)
MCAmountsBelowOne == {5}
MCGrantsBelowOne == { [account |-> 5, project |-> 5, key |-> 5] }

ASSUME QuotesAreAChain \/ Quotes = MCQuotesBelowOne
=============================================================================
