------------------------------- MODULE Ledger -------------------------------
(***************************************************************************)
(* The test-quota ledger of billing-service                                *)
(* (app/domain/ledger/service.py, LedgerService over the in-memory store). *)
(*                                                                         *)
(* The code keeps an append-only list of journal entries and computes      *)
(* every balance by summing them.  Here the entries of one request on one  *)
(* kind of account are kept as their six running sums, the very sums       *)
(* `rebuild` and `net_settled` compute.  The HTTP handlers are coroutines  *)
(* with no await in their body, so that each operation is one step.        *)
(*                                                                         *)
(* An operation that returns an earlier result or raises changes nothing   *)
(* and is a stuttering step.  Rate versions, seller identities and         *)
(* evidence digests are carried along by the code without being read.      *)
(***************************************************************************)
EXTENDS Integers, FiniteSetsExt

CONSTANTS
    Requests,   \* request ids
    IdemKeys,   \* idempotency keys
    Owners,     \* [account, project, key] triples requests are billed to
    Amounts,    \* amounts that may be reserved
    Quotes,     \* [buyer, seller, spread] costs that add up, of either sign
    Grants,     \* [account, project, key] amounts that may be seeded
    NoKey, NoOwner,
    MaxGranted, \* bound: seeding stops at this total
    MaxPosted   \* bound: corrections stop at this running sum

ASSUME LedgerConstants ==
    /\ NoKey \notin IdemKeys
    /\ NoOwner \notin Owners
    /\ Amounts \subseteq Nat \ {0}
    /\ Quotes \subseteq [buyer : Int, seller : Int, spread : Int]
    /\ \A q \in Quotes : q.buyer = q.seller + q.spread
    /\ Grants \subseteq [account : Nat, project : Nat, key : Nat]

VARIABLES
    granted,    \* quota seeded into each bucket
    status,     \* per request: "none" before it is reserved
    idem,       \* per request: the idempotency key it was reserved with
    owner,      \* per request: whose quota it uses
    amount,     \* per request: amount_minor, the size of the hold
    posted      \* per request and account kind: sums of its entries

vars == <<granted, status, idem, owner, amount, posted>>

BucketKinds == {"buyer_quota", "project_quota", "key_quota"}
Kinds == BucketKinds \cup {"seller_earning", "platform_spread"}

\* The quota buckets a request is checked against and charged to.
Buckets(o) == { <<"buyer_quota", o.account>>,
                <<"project_quota", o.project>>,
                <<"key_quota", o.key>> }
AllBuckets == UNION {Buckets(o) : o \in Owners}

Statuses == {"none", "held", "unresolved", "consumed", "released"}
Tallies == [ reserved : Nat, released : Nat,
             settled_debit : Nat, settled_credit : Nat,
             reversed_debit : Nat, reversed_credit : Nat ]
ZeroTally == [ reserved |-> 0, released |-> 0,
               settled_debit |-> 0, settled_credit |-> 0,
               reversed_debit |-> 0, reversed_credit |-> 0 ]

----------------------------------------------------------------------------
(* Balances, all of them derived from the entries.                         *)

Hold(t) == t.reserved - t.released
NetDebit(t) == t.settled_debit - t.reversed_credit
NetCredit(t) == t.settled_credit - t.reversed_debit

Contribution(t) == NetCredit(t) - NetDebit(t) - Hold(t)

\* What a bucket can still promise: its grants and everything posted to it.
Available(b) ==
    granted[b] + MapThenSumSet(
        LAMBDA r : Contribution(posted[r][b[1]]),
        {r \in Requests : status[r] # "none" /\ b \in Buckets(owner[r])})

Charge(r) == NetDebit(posted[r]["buyer_quota"])
Earning(r) == NetCredit(posted[r]["seller_earning"])
Spread(r) == NetCredit(posted[r]["platform_spread"])

----------------------------------------------------------------------------
(* What each operation posts, as a change to the sums of one request.      *)

HoldPosts(t, a) ==
    [k \in Kinds |-> IF k \in BucketKinds
                     THEN [t[k] EXCEPT !.reserved = @ + a]
                     ELSE t[k]]

\* Faulty form of ReleasePosts: only the account gets its quota back.
ReleasePostsAccountOnly(t, a) ==
    [t EXCEPT !["buyer_quota"].released = @ + a]

ReleasePosts(t, a) ==
    [k \in Kinds |-> IF k \in BucketKinds
                     THEN [t[k] EXCEPT !.released = @ + a]
                     ELSE t[k]]

\* The full hold comes back and the cost is posted on all sides.
SettlePosts(t, a, q) ==
    [k \in Kinds |->
        CASE k \in BucketKinds ->
                [t[k] EXCEPT !.released = @ + a, !.settled_debit = @ + q.buyer]
          [] k = "seller_earning" -> [t[k] EXCEPT !.settled_credit = @ + q.seller]
          [] k = "platform_spread" -> [t[k] EXCEPT !.settled_credit = @ + q.spread]]

\* A higher amount is charged on top; a side that went down is not touched.
RaisePosts(t, d) ==
    [k \in Kinds |->
        CASE k \in BucketKinds -> [t[k] EXCEPT !.settled_debit = @ + d.buyer]
          [] k = "seller_earning" /\ d.seller > 0 ->
                [t[k] EXCEPT !.settled_credit = @ + d.seller]
          [] k = "platform_spread" /\ d.spread > 0 ->
                [t[k] EXCEPT !.settled_credit = @ + d.spread]
          [] OTHER -> t[k]]

\* Faulty form of LowerPosts: the negative delta is posted as it is.
LowerPostsSigned(t, d) ==
    [k \in Kinds |-> IF k \in BucketKinds
                     THEN [t[k] EXCEPT !.reversed_credit = @ + d.buyer]
                     ELSE [t[k] EXCEPT !.reversed_debit =
                              @ + (IF k = "seller_earning" THEN d.seller ELSE d.spread)]]

\* A lower or equal amount is reversed; a side that went up is not touched.
LowerPosts(t, d) ==
    [k \in Kinds |->
        CASE k \in BucketKinds -> [t[k] EXCEPT !.reversed_credit = @ - d.buyer]
          [] k = "seller_earning" /\ d.seller < 0 ->
                [t[k] EXCEPT !.reversed_debit = @ - d.seller]
          [] k = "platform_spread" /\ d.spread < 0 ->
                [t[k] EXCEPT !.reversed_debit = @ - d.spread]
          [] OTHER -> t[k]]

\* The opposite of every settled entry, whatever was reversed before.
ReversePosts(t) ==
    [k \in Kinds |->
        [t[k] EXCEPT !.reversed_credit = @ + t[k].settled_debit,
                     !.reversed_debit = @ + t[k].settled_credit]]

----------------------------------------------------------------------------
(* Operations.                                                             *)

Open(r) == status[r] \in {"held", "unresolved"}

\* Corrections stop when a running sum would pass the bound.
WithinBound(t) ==
    \A k \in Kinds : t[k].settled_debit <= MaxPosted /\ t[k].settled_credit <= MaxPosted

SeedQuota(o, g) ==
    /\ granted' = [granted EXCEPT ![<<"buyer_quota", o.account>>] = @ + g.account,
                                  ![<<"project_quota", o.project>>] = @ + g.project,
                                  ![<<"key_quota", o.key>>] = @ + g.key]
    /\ \A b \in AllBuckets : granted'[b] <= MaxGranted
    /\ UNCHANGED <<status, idem, owner, amount, posted>>

\* Faulty form of Reserve: the quota of the key is not checked.
ReserveKeyUnchecked(r, k, o, a) ==
    /\ status[r] = "none"
    /\ \A s \in Requests : idem[s] # k
    /\ \A b \in Buckets(o) : b[1] # "key_quota" => Available(b) >= a
    /\ posted' = [posted EXCEPT ![r] = HoldPosts(@, a)]
    /\ status' = [status EXCEPT ![r] = "held"]
    /\ idem' = [idem EXCEPT ![r] = k]
    /\ owner' = [owner EXCEPT ![r] = o]
    /\ amount' = [amount EXCEPT ![r] = a]
    /\ UNCHANGED granted

Reserve(r, k, o, a) ==
    /\ status[r] = "none"
    /\ \A s \in Requests : idem[s] # k
    /\ \A b \in Buckets(o) : Available(b) >= a
    /\ posted' = [posted EXCEPT ![r] = HoldPosts(@, a)]
    /\ status' = [status EXCEPT ![r] = "held"]
    /\ idem' = [idem EXCEPT ![r] = k]
    /\ owner' = [owner EXCEPT ![r] = o]
    /\ amount' = [amount EXCEPT ![r] = a]
    /\ UNCHANGED granted

\* settle() takes no negative side; apply_delta() does not look.
NonNegative(q) == q.buyer >= 0 /\ q.seller >= 0 /\ q.spread >= 0

\* Faulty form of Settle: a retried settlement is posted again.
SettleAgain(r, q) ==
    /\ NonNegative(q)
    /\ status[r] \in {"held", "unresolved", "consumed"}
    /\ posted' = [posted EXCEPT ![r] = SettlePosts(@, amount[r], q)]
    /\ WithinBound(posted'[r])
    /\ status' = [status EXCEPT ![r] = "consumed"]
    /\ UNCHANGED <<granted, idem, owner, amount>>

\* settle() has an effect on an open reservation only: on a consumed one it
\* returns the first result, on a released one it raises.
Settle(r, q) ==
    /\ NonNegative(q)
    /\ status[r] \in {"held", "unresolved"}
    /\ posted' = [posted EXCEPT ![r] = SettlePosts(@, amount[r], q)]
    /\ status' = [status EXCEPT ![r] = "consumed"]
    /\ UNCHANGED <<granted, idem, owner, amount>>

\* Faulty form of Release: an unresolved hold is given back.
ReleaseUnresolved(r) ==
    /\ Open(r)
    /\ posted' = [posted EXCEPT ![r] = ReleasePosts(@, amount[r])]
    /\ status' = [status EXCEPT ![r] = "released"]
    /\ UNCHANGED <<granted, idem, owner, amount>>

Release(r) ==
    /\ status[r] = "held"
    /\ posted' = [posted EXCEPT ![r] = ReleasePosts(@, amount[r])]
    /\ status' = [status EXCEPT ![r] = "released"]
    /\ UNCHANGED <<granted, idem, owner, amount>>

MarkUnresolved(r) ==
    /\ status[r] = "held"
    /\ status' = [status EXCEPT ![r] = "unresolved"]
    /\ UNCHANGED <<granted, idem, owner, amount, posted>>

\* Faulty form of Delta: what was settled before is not taken off.
DeltaFromZero(r, q) == q

\* The change from what is settled now to quote q.
Delta(r, q) == [ buyer |-> q.buyer - Charge(r),
                 seller |-> q.seller - Earning(r),
                 spread |-> q.spread - Spread(r) ]

DeltaPosts(t, d) == IF d.buyer > 0 THEN RaisePosts(t, d) ELSE LowerPosts(t, d)

\* apply_delta() on a consumed reservation, with a cost of either sign; on any other
\* it is settle().
ApplyDelta(r, q) ==
    LET d == Delta(r, q) IN
    /\ status[r] = "consumed"
    /\ d.buyer # 0 \/ d.seller # 0 \/ d.spread # 0
    /\ d.buyer = d.seller + d.spread
    /\ WithinBound(DeltaPosts(posted[r], d))
    /\ posted' = [posted EXCEPT ![r] = DeltaPosts(@, d)]
    /\ UNCHANGED <<granted, status, idem, owner, amount>>

Reverse(r) ==
    /\ status[r] = "consumed"
    /\ posted' = [posted EXCEPT ![r] = ReversePosts(@)]
    /\ status' = [status EXCEPT ![r] = "released"]
    /\ UNCHANGED <<granted, idem, owner, amount>>

----------------------------------------------------------------------------
Init ==
    /\ granted = [b \in AllBuckets |-> 0]
    /\ status = [r \in Requests |-> "none"]
    /\ idem = [r \in Requests |-> NoKey]
    /\ owner = [r \in Requests |-> NoOwner]
    /\ amount = [r \in Requests |-> 0]
    /\ posted = [r \in Requests |-> [k \in Kinds |-> ZeroTally]]

Next ==
    \/ \E o \in Owners, g \in Grants : SeedQuota(o, g)
    \/ \E r \in Requests :
        \/ \E k \in IdemKeys, o \in Owners, a \in Amounts : Reserve(r, k, o, a)
        \/ \E q \in Quotes : Settle(r, q) \/ ApplyDelta(r, q)
        \/ Release(r)
        \/ MarkUnresolved(r)
        \/ Reverse(r)

Spec == Init /\ [][Next]_vars

----------------------------------------------------------------------------
(* Properties.                                                             *)

\* Every variable has its type.
TypeOK ==
    /\ granted \in [AllBuckets -> Nat]
    /\ status \in [Requests -> Statuses]
    /\ idem \in [Requests -> IdemKeys \cup {NoKey}]
    /\ owner \in [Requests -> Owners \cup {NoOwner}]
    /\ amount \in [Requests -> Nat]
    /\ posted \in [Requests -> [Kinds -> Tallies]]

\* A reservation holds its amount in each of its three buckets exactly while it
\* is open: no path through settle, release, unresolved, late deltas and reversal
\* returns a hold twice, in part, or in one bucket only, or leaves it behind.
HoldMatchesStatus ==
    \A r \in Requests, k \in BucketKinds :
        Hold(posted[r][k]) = IF Open(r) THEN amount[r] ELSE 0

\* However many late amounts were applied to a consumed reservation, what it nets
\* to on the buyer's buckets, the seller and the platform is one quote, never a
\* mixture of two or a sum of several.
OneBusinessEffect ==
    \A r \in Requests : status[r] = "consumed" =>
        /\ [buyer |-> Charge(r), seller |-> Earning(r), spread |-> Spread(r)] \in Quotes
        /\ \A k \in BucketKinds : NetDebit(posted[r][k]) = Charge(r)

\* The buckets of a request never disagree: each entry for one of them has a twin
\* for the two others, so that the project's and the key's quota move with the
\* account's.
BucketsAgree ==
    \A r \in Requests, k \in BucketKinds : posted[r][k] = posted[r]["buyer_quota"]

\* A bucket goes below zero, over all requests that share it, only when a request is
\* charged above its hold, or a late amount raises a settled cost: reserve() checks what is
\* available, and neither a settlement within its hold, nor a release, a falling late
\* amount or a reversal takes more than was held.
NoOverdraft ==
    [][(\E b \in AllBuckets : Available(b) >= 0 /\ Available(b)' < 0) =>
          \E r \in Requests :
             /\ Charge(r)' > Charge(r)
             /\ status[r] = "consumed" \/ Charge(r)' > amount[r]]_vars

\* What the buyer of a settled request pays is what seller and platform earn.
SettledBalanced ==
    \A r \in Requests : status[r] = "consumed" => Charge(r) = Earning(r) + Spread(r)

\* After a reversal, or a release, nothing is owed and nothing is left over.
ReversedNetsToZero ==
    \A r \in Requests : status[r] = "released" => Charge(r) = 0

\* The ledger implements the escrow contract.
Phase(r) == CASE status[r] = "none" -> "new"
              [] status[r] = "held" -> "open"
              [] status[r] = "unresolved" -> "unknown"
              [] status[r] = "consumed" -> "charged"
              [] status[r] = "released" -> "closed"

Escrow == INSTANCE EscrowContract WITH
    phase <- [r \in Requests |-> Phase(r)],
    hold <- [r \in Requests |-> Hold(posted[r]["buyer_quota"])],
    charge <- [r \in Requests |-> Charge(r)],
    payout <- [r \in Requests |-> Earning(r) + Spread(r)]

\* Every behaviour of the ledger is one the escrow contract allows.
ImplementsEscrow == Escrow!CSpec

----------------------------------------------------------------------------
(* The conditions on the quotes under which the properties hold.           *)

\* Of two quotes, one is at most the other on all three sides.
QuotesAreAChain ==
    \A p, q \in Quotes :
        \/ p.buyer <= q.buyer /\ p.seller <= q.seller /\ p.spread <= q.spread
        \/ q.buyer <= p.buyer /\ q.seller <= p.seller /\ q.spread <= p.spread
=============================================================================
