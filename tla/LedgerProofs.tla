---------------------------- MODULE LedgerProofs ----------------------------
(***************************************************************************)
(* What TLAPS proves about Ledger, for every set of requests, owners,      *)
(* amounts and quotes, and about Quotation, whose quotes form the chain    *)
(* that late corrections rely on.                                          *)
(***************************************************************************)
EXTENDS Ledger, Quotation, FiniteSetTheorems, TLAPS

\* Changing a sum, or two, of a tally to a natural number gives a tally.
LEMMA TallyUpdate ==
    ASSUME NEW t \in Tallies, NEW m \in Nat, NEW n \in Nat
    PROVE  /\ [t EXCEPT !.reserved = m] \in Tallies
           /\ [t EXCEPT !.released = m] \in Tallies
           /\ [t EXCEPT !.settled_debit = m] \in Tallies
           /\ [t EXCEPT !.settled_credit = m] \in Tallies
           /\ [t EXCEPT !.reversed_credit = m] \in Tallies
           /\ [t EXCEPT !.reversed_debit = m] \in Tallies
           /\ [t EXCEPT !.released = m, !.settled_debit = n] \in Tallies
           /\ [t EXCEPT !.reversed_credit = m, !.reversed_debit = n] \in Tallies
  BY DEF Tallies

\* The six sums of a tally are natural numbers.
LEMMA TallyFields ==
    ASSUME NEW t \in Tallies
    PROVE  /\ t.reserved \in Nat /\ t.released \in Nat
           /\ t.settled_debit \in Nat /\ t.settled_credit \in Nat
           /\ t.reversed_debit \in Nat /\ t.reversed_credit \in Nat
  BY DEF Tallies

\* Taking or returning a hold gives sums again.
LEMMA HoldTypes ==
    ASSUME NEW t \in [Kinds -> Tallies], NEW a \in Nat
    PROVE  /\ HoldPosts(t, a) \in [Kinds -> Tallies]
           /\ ReleasePosts(t, a) \in [Kinds -> Tallies]
  <1>1. ASSUME NEW k \in Kinds
        PROVE  /\ t[k] \in Tallies
               /\ [t[k] EXCEPT !.reserved = @ + a] \in Tallies
               /\ [t[k] EXCEPT !.released = @ + a] \in Tallies
    <2>1. t[k] \in Tallies
      OBVIOUS
    <2>2. t[k].reserved + a \in Nat /\ t[k].released + a \in Nat
      BY <2>1, TallyFields
    <2>3. QED
      BY <2>1, <2>2, TallyUpdate
  <1>2. QED
    BY <1>1 DEF HoldPosts, ReleasePosts

\* So does posting a cost.
LEMMA SettleType ==
    ASSUME NEW t \in [Kinds -> Tallies], NEW a \in Nat, NEW q \in Quotes, NonNegative(q)
    PROVE  SettlePosts(t, a, q) \in [Kinds -> Tallies]
  <1>1. q.buyer \in Nat /\ q.seller \in Nat /\ q.spread \in Nat
    BY LedgerConstants DEF NonNegative
  <1>2. ASSUME NEW k \in Kinds
        PROVE  /\ [t[k] EXCEPT !.released = @ + a, !.settled_debit = @ + q.buyer] \in Tallies
               /\ [t[k] EXCEPT !.settled_credit = @ + q.seller] \in Tallies
               /\ [t[k] EXCEPT !.settled_credit = @ + q.spread] \in Tallies
    <2>1. t[k] \in Tallies
      OBVIOUS
    <2>2. /\ t[k].released + a \in Nat /\ t[k].settled_debit + q.buyer \in Nat
          /\ t[k].settled_credit + q.seller \in Nat /\ t[k].settled_credit + q.spread \in Nat
      BY <1>1, <2>1, TallyFields
    <2>3. QED
      BY <2>1, <2>2, TallyUpdate
  <1>3. QED
    BY <1>2 DEF SettlePosts, Kinds

\* So does reversing every settled entry.
LEMMA ReverseType ==
    ASSUME NEW t \in [Kinds -> Tallies]
    PROVE  ReversePosts(t) \in [Kinds -> Tallies]
  <1>1. ASSUME NEW k \in Kinds
        PROVE  [t[k] EXCEPT !.reversed_credit = @ + t[k].settled_debit,
                            !.reversed_debit = @ + t[k].settled_credit] \in Tallies
    <2>1. t[k] \in Tallies
      OBVIOUS
    <2>2. /\ t[k].reversed_credit + t[k].settled_debit \in Nat
          /\ t[k].reversed_debit + t[k].settled_credit \in Nat
      BY <2>1, TallyFields
    <2>3. QED
      BY <2>1, <2>2, TallyUpdate
  <1>2. QED
    BY <1>1 DEF ReversePosts

\* A correction posts the positive part of a rise, or of a fall, on each side.
LEMMA DeltaPostsType ==
    ASSUME NEW t \in [Kinds -> Tallies],
           NEW d \in [buyer : Int, seller : Int, spread : Int]
    PROVE  DeltaPosts(t, d) \in [Kinds -> Tallies]
  <1>1. d.buyer \in Int /\ d.seller \in Int /\ d.spread \in Int
    OBVIOUS
  <1>2. ASSUME NEW k \in Kinds
        PROVE  /\ t[k] \in Tallies
               /\ d.buyer > 0 => [t[k] EXCEPT !.settled_debit = @ + d.buyer] \in Tallies
               /\ d.seller > 0 => [t[k] EXCEPT !.settled_credit = @ + d.seller] \in Tallies
               /\ d.spread > 0 => [t[k] EXCEPT !.settled_credit = @ + d.spread] \in Tallies
               /\ d.buyer <= 0 => [t[k] EXCEPT !.reversed_credit = @ - d.buyer] \in Tallies
               /\ d.seller < 0 => [t[k] EXCEPT !.reversed_debit = @ - d.seller] \in Tallies
               /\ d.spread < 0 => [t[k] EXCEPT !.reversed_debit = @ - d.spread] \in Tallies
    <2>1. t[k] \in Tallies
      OBVIOUS
    <2>2. /\ d.buyer > 0 => t[k].settled_debit + d.buyer \in Nat
          /\ d.seller > 0 => t[k].settled_credit + d.seller \in Nat
          /\ d.spread > 0 => t[k].settled_credit + d.spread \in Nat
          /\ d.buyer <= 0 => t[k].reversed_credit - d.buyer \in Nat
          /\ d.seller < 0 => t[k].reversed_debit - d.seller \in Nat
          /\ d.spread < 0 => t[k].reversed_debit - d.spread \in Nat
      BY <1>1, <2>1, TallyFields
    <2>3. QED
      BY <2>1, <2>2, TallyUpdate
  <1>3. CASE d.buyer > 0
    <2>1. RaisePosts(t, d) \in [Kinds -> Tallies]
      BY <1>2, <1>3 DEF RaisePosts
    <2>2. QED
      BY <1>3, <2>1 DEF DeltaPosts
  <1>4. CASE ~(d.buyer > 0)
    <2>1. d.buyer <= 0
      BY <1>1, <1>4
    <2>2. LowerPosts(t, d) \in [Kinds -> Tallies]
      BY <1>2, <2>1 DEF LowerPosts
    <2>3. QED
      BY <1>4, <2>2 DEF DeltaPosts
  <1>5. QED
    BY <1>3, <1>4

\* The change to a quote is made of integers.
LEMMA DeltaType ==
    ASSUME TypeOK, NEW r \in Requests, NEW q \in Quotes
    PROVE  Delta(r, q) \in [buyer : Int, seller : Int, spread : Int]
  <1>1. \A k \in Kinds : posted[r][k] \in Tallies
    BY DEF TypeOK
  <1>2. q.buyer \in Int /\ q.seller \in Int /\ q.spread \in Int
    BY LedgerConstants
  <1>3. Charge(r) \in Int /\ Earning(r) \in Int /\ Spread(r) \in Int
    BY <1>1 DEF Charge, Earning, Spread, NetDebit, NetCredit, Kinds, BucketKinds, Tallies
  <1>4. QED
    BY <1>2, <1>3 DEF Delta

\* Adding to one place of a function to the naturals.
LEMMA AddAt ==
    ASSUME NEW S, NEW f \in [S -> Nat], NEW x, NEW n \in Nat
    PROVE  [f EXCEPT ![x] = @ + n] \in [S -> Nat]
  <1>1. \A y \in S : f[y] \in Nat /\ f[y] + n \in Nat
    OBVIOUS
  <1>2. CASE x \in S
    BY <1>1, <1>2
  <1>3. CASE x \notin S
    BY <1>1, <1>3
  <1>4. QED
    BY <1>2, <1>3

\* The initial state has its types.
LEMMA InitTypeOK == Init => TypeOK
  BY DEF Init, TypeOK, Statuses, ZeroTally, Tallies

\* Every step keeps them.
LEMMA NextTypeOK == TypeOK /\ [Next]_vars => TypeOK'
  <1> SUFFICES ASSUME TypeOK, [Next]_vars PROVE TypeOK'
    OBVIOUS
  <1> USE DEF TypeOK, Statuses
  <1>1. ASSUME NEW o \in Owners, NEW g \in Grants, SeedQuota(o, g) PROVE TypeOK'
    <2>1. g.account \in Nat /\ g.project \in Nat /\ g.key \in Nat
      BY LedgerConstants
    <2> DEFINE One == [granted EXCEPT ![<<"buyer_quota", o.account>>] = @ + g.account]
               Two == [One EXCEPT ![<<"project_quota", o.project>>] = @ + g.project]
               All == [Two EXCEPT ![<<"key_quota", o.key>>] = @ + g.key]
    <2>2. One \in [AllBuckets -> Nat]
      BY <2>1, AddAt, Zenon
    <2> HIDE DEF One
    <2>3. Two \in [AllBuckets -> Nat]
      BY <2>1, <2>2, AddAt, Zenon
    <2> HIDE DEF Two
    <2>4. All \in [AllBuckets -> Nat]
      BY <2>1, <2>3, AddAt, Zenon
    <2>5. granted' = All
      BY <1>1, Zenon DEF SeedQuota, One, Two, All
    <2> HIDE DEF All
    <2>6. QED
      BY <1>1, <2>4, <2>5 DEF SeedQuota
  <1>2. ASSUME NEW r \in Requests, NEW k \in IdemKeys, NEW o \in Owners, NEW a \in Amounts,
               Reserve(r, k, o, a)
        PROVE  TypeOK'
    <2>1. a \in Nat
      BY LedgerConstants
    <2>2. HoldPosts(posted[r], a) \in [Kinds -> Tallies]
      BY <2>1, HoldTypes
    <2>3. QED
      BY <1>2, <2>1, <2>2 DEF Reserve
  <1>3. ASSUME NEW r \in Requests, NEW q \in Quotes, Settle(r, q) PROVE TypeOK'
    BY <1>3, SettleType DEF Settle
  <1>4. ASSUME NEW r \in Requests, NEW q \in Quotes, ApplyDelta(r, q) PROVE TypeOK'
    <2>1. DeltaPosts(posted[r], Delta(r, q)) \in [Kinds -> Tallies]
      BY DeltaType, DeltaPostsType
    <2>2. QED
      BY <1>4, <2>1 DEF ApplyDelta
  <1>5. ASSUME NEW r \in Requests, Release(r) PROVE TypeOK'
    BY <1>5, HoldTypes DEF Release
  <1>6. ASSUME NEW r \in Requests, MarkUnresolved(r) PROVE TypeOK'
    BY <1>6 DEF MarkUnresolved
  <1>7. ASSUME NEW r \in Requests, Reverse(r) PROVE TypeOK'
    BY <1>7, ReverseType DEF Reverse
  <1>8. CASE UNCHANGED vars
    BY <1>8 DEF vars
  <1>9. QED
    BY <1>1, <1>2, <1>3, <1>4, <1>5, <1>6, <1>7, <1>8 DEF Next

\* Type correctness of the ledger: no posting ever drives a sum of entries negative.
THEOREM LedgerTyped == Spec => []TypeOK
  BY InitTypeOK, NextTypeOK, PTL DEF Spec

----------------------------------------------------------------------------
(* The account of one request, as a property of its sums t, its status st  *)
(* and its hold a.  It is what Settle, ApplyDelta and Reverse rely on of   *)
(* each other: that the three buckets were posted alike, that settled and  *)
(* reversed legs each balance, and what the request nets to.               *)

NetsToAQuote(t) ==
    [ buyer |-> NetDebit(t["buyer_quota"]),
      seller |-> NetCredit(t["seller_earning"]),
      spread |-> NetCredit(t["platform_spread"]) ] \in Quotes

Legs(t) ==
    /\ t["buyer_quota"].settled_debit =
          t["seller_earning"].settled_credit + t["platform_spread"].settled_credit
    /\ t["buyer_quota"].reversed_credit =
          t["seller_earning"].reversed_debit + t["platform_spread"].reversed_debit

Account(t, st, a) ==
    /\ \A k \in BucketKinds : t[k] = t["buyer_quota"]
    /\ Hold(t["buyer_quota"]) = IF st \in {"held", "unresolved"} THEN a ELSE 0
    /\ Legs(t)
    /\ st \in {"none", "held", "unresolved"} =>
          /\ NetDebit(t["buyer_quota"]) = 0
          /\ NetCredit(t["seller_earning"]) = 0
          /\ NetCredit(t["platform_spread"]) = 0
    /\ st = "consumed" => NetsToAQuote(t)
    /\ st = "released" => NetDebit(t["buyer_quota"]) <= 0

\* The inductive invariant.
Accounts ==
    /\ TypeOK
    /\ \A r \in Requests : Account(posted[r], status[r], amount[r])

\* The account kinds are where they should be.
LEMMA KindsFacts ==
    /\ \A k \in BucketKinds : k \in Kinds /\ k # "seller_earning" /\ k # "platform_spread"
    /\ "buyer_quota" \in BucketKinds
    /\ "seller_earning" \in Kinds /\ "platform_spread" \in Kinds
    /\ "seller_earning" \notin BucketKinds /\ "platform_spread" \notin BucketKinds
  BY DEF Kinds, BucketKinds

\* A hold is taken on an untouched request.
LEMMA HoldAccount ==
    ASSUME NEW t \in [Kinds -> Tallies], NEW a \in Nat, NEW b, Account(t, "none", b)
    PROVE  Account(HoldPosts(t, a), "held", a)
  <1> DEFINE u == HoldPosts(t, a)
  <1>1. \A k \in BucketKinds : u[k] = [t["buyer_quota"] EXCEPT !.reserved = @ + a]
    BY KindsFacts DEF HoldPosts, Account
  <1>2. u["seller_earning"] = t["seller_earning"] /\ u["platform_spread"] = t["platform_spread"]
    BY KindsFacts DEF HoldPosts
  <1>3. t["buyer_quota"] \in Tallies
    BY KindsFacts
  <1> DEFINE v == u["buyer_quota"]
  <1>4. /\ v.reserved = t["buyer_quota"].reserved + a
        /\ v.released = t["buyer_quota"].released
        /\ v.settled_debit = t["buyer_quota"].settled_debit
        /\ v.reversed_credit = t["buyer_quota"].reversed_credit
    BY <1>1, <1>3, KindsFacts DEF Tallies
  <1> HIDE DEF u
  <1>5. \A k \in BucketKinds : u[k] = u["buyer_quota"]
    BY <1>1, KindsFacts
  <1>6. Hold(v) = a
    BY <1>3, <1>4, TallyFields DEF Account, Hold
  <1>7. Legs(u) /\ NetDebit(v) = 0
    BY <1>2, <1>4 DEF Account, Legs, NetDebit
  <1>8. QED
    BY <1>2, <1>5, <1>6, <1>7 DEF Account, u

\* A held request is given up.
LEMMA ReleaseAccount ==
    ASSUME NEW t \in [Kinds -> Tallies], NEW a \in Nat, Account(t, "held", a)
    PROVE  Account(ReleasePosts(t, a), "released", a)
  <1> DEFINE u == ReleasePosts(t, a)
  <1>1. \A k \in BucketKinds : u[k] = [t["buyer_quota"] EXCEPT !.released = @ + a]
    BY KindsFacts DEF ReleasePosts, Account
  <1>2. u["seller_earning"] = t["seller_earning"] /\ u["platform_spread"] = t["platform_spread"]
    BY KindsFacts DEF ReleasePosts
  <1>3. t["buyer_quota"] \in Tallies
    BY KindsFacts
  <1> DEFINE v == u["buyer_quota"]
  <1>4. /\ v.reserved = t["buyer_quota"].reserved
        /\ v.released = t["buyer_quota"].released + a
        /\ v.settled_debit = t["buyer_quota"].settled_debit
        /\ v.reversed_credit = t["buyer_quota"].reversed_credit
    BY <1>1, <1>3, KindsFacts DEF Tallies
  <1> HIDE DEF u
  <1>5. \A k \in BucketKinds : u[k] = u["buyer_quota"]
    BY <1>1, KindsFacts
  <1>6. Hold(v) = 0
    BY <1>3, <1>4, TallyFields DEF Account, Hold
  <1>7. Legs(u) /\ NetDebit(v) <= 0
    BY <1>2, <1>4 DEF Account, Legs, NetDebit
  <1>8. QED
    BY <1>2, <1>5, <1>6, <1>7 DEF Account, u

\* An open request, held or unresolved, is settled at a quote.
LEMMA SettleAccount ==
    ASSUME NEW t \in [Kinds -> Tallies], NEW a \in Nat, NEW q \in Quotes,
           NonNegative(q), NEW st \in {"held", "unresolved"}, Account(t, st, a)
    PROVE  Account(SettlePosts(t, a, q), "consumed", a)
  <1> DEFINE u == SettlePosts(t, a, q)
  <1>1. \A k \in BucketKinds :
            u[k] = [t["buyer_quota"] EXCEPT !.released = @ + a, !.settled_debit = @ + q.buyer]
    BY KindsFacts DEF SettlePosts, Account
  <1>2. /\ u["seller_earning"] = [t["seller_earning"] EXCEPT !.settled_credit = @ + q.seller]
        /\ u["platform_spread"] = [t["platform_spread"] EXCEPT !.settled_credit = @ + q.spread]
    BY KindsFacts DEF SettlePosts
  <1>3. /\ t["buyer_quota"] \in Tallies
        /\ t["seller_earning"] \in Tallies
        /\ t["platform_spread"] \in Tallies
    BY KindsFacts
  <1>4. /\ u["buyer_quota"].reserved = t["buyer_quota"].reserved
        /\ u["buyer_quota"].released = t["buyer_quota"].released + a
        /\ u["buyer_quota"].settled_debit = t["buyer_quota"].settled_debit + q.buyer
        /\ u["buyer_quota"].reversed_credit = t["buyer_quota"].reversed_credit
    BY <1>1, <1>3, KindsFacts DEF Tallies
  <1>5. /\ u["seller_earning"].settled_credit = t["seller_earning"].settled_credit + q.seller
        /\ u["seller_earning"].reversed_debit = t["seller_earning"].reversed_debit
        /\ u["platform_spread"].settled_credit = t["platform_spread"].settled_credit + q.spread
        /\ u["platform_spread"].reversed_debit = t["platform_spread"].reversed_debit
    BY <1>2, <1>3 DEF Tallies
  <1> HIDE DEF u
  <1>6. \A k \in BucketKinds : u[k] = u["buyer_quota"]
    BY <1>1, KindsFacts
  <1>7. /\ q.buyer \in Nat /\ q.seller \in Nat /\ q.spread \in Nat
        /\ q.buyer = q.seller + q.spread
        /\ q = [buyer |-> q.buyer, seller |-> q.seller, spread |-> q.spread]
    BY LedgerConstants DEF NonNegative
  <1>8. Hold(u["buyer_quota"]) = 0
    BY <1>3, <1>4, TallyFields DEF Account, Hold
  <1>9. /\ NetDebit(u["buyer_quota"]) = q.buyer
        /\ NetCredit(u["seller_earning"]) = q.seller
        /\ NetCredit(u["platform_spread"]) = q.spread
    BY <1>3, <1>4, <1>5, <1>7, TallyFields DEF Account, NetDebit, NetCredit
  <1>10. Legs(u)
    BY <1>3, <1>4, <1>5, <1>7, TallyFields DEF Account, Legs
  <1>11. NetsToAQuote(u)
    BY <1>7, <1>9 DEF NetsToAQuote
  <1>12. QED
    BY <1>6, <1>8, <1>10, <1>11 DEF Account, u

\* A settled request is reversed: it nets to what had been reversed before, taken
\* back a second time.
LEMMA ReverseAccount ==
    ASSUME NEW t \in [Kinds -> Tallies], NEW a \in Nat, Account(t, "consumed", a)
    PROVE  Account(ReversePosts(t), "released", a)
  <1> DEFINE u == ReversePosts(t)
  <1>1. \A k \in Kinds :
            u[k] = [t[k] EXCEPT !.reversed_credit = @ + t[k].settled_debit,
                                !.reversed_debit = @ + t[k].settled_credit]
    BY DEF ReversePosts
  <1>2. \A k \in Kinds : t[k] \in Tallies
    OBVIOUS
  <1>3. ASSUME NEW k \in Kinds
        PROVE  /\ u[k].reserved = t[k].reserved /\ u[k].released = t[k].released
               /\ u[k].settled_debit = t[k].settled_debit
               /\ u[k].settled_credit = t[k].settled_credit
               /\ u[k].reversed_credit = t[k].reversed_credit + t[k].settled_debit
               /\ u[k].reversed_debit = t[k].reversed_debit + t[k].settled_credit
    BY <1>1, <1>2 DEF Tallies
  <1> HIDE DEF u
  <1>4. \A k \in BucketKinds : u[k] = u["buyer_quota"]
    BY <1>1, KindsFacts DEF Account
  <1>5. Hold(u["buyer_quota"]) = 0
    BY <1>3, KindsFacts DEF Account, Hold
  <1>6. Legs(u)
    BY <1>2, <1>3, KindsFacts, TallyFields DEF Account, Legs
  <1>7. NetDebit(u["buyer_quota"]) <= 0
    BY <1>2, <1>3, KindsFacts, TallyFields DEF NetDebit
  <1>8. QED
    BY <1>4, <1>5, <1>6, <1>7 DEF Account, u

\* A correction that goes the same way on all three sides.
OneWay(d) ==
    \/ d.buyer > 0 /\ d.seller >= 0 /\ d.spread >= 0
    \/ d.buyer <= 0 /\ d.seller <= 0 /\ d.spread <= 0

\* Such a correction moves every side by its delta.
LEMMA DeltaReads ==
    ASSUME NEW t \in [Kinds -> Tallies],
           NEW d \in [buyer : Int, seller : Int, spread : Int],
           OneWay(d), d.buyer = d.seller + d.spread,
           \A k \in BucketKinds : t[k] = t["buyer_quota"], Legs(t)
    PROVE  LET u == DeltaPosts(t, d) IN
           /\ \A k \in BucketKinds : u[k] = u["buyer_quota"]
           /\ Hold(u["buyer_quota"]) = Hold(t["buyer_quota"])
           /\ NetDebit(u["buyer_quota"]) = NetDebit(t["buyer_quota"]) + d.buyer
           /\ NetCredit(u["seller_earning"]) = NetCredit(t["seller_earning"]) + d.seller
           /\ NetCredit(u["platform_spread"]) = NetCredit(t["platform_spread"]) + d.spread
           /\ Legs(u)
  <1> DEFINE b == t["buyer_quota"]
             s == t["seller_earning"]
             p == t["platform_spread"]
             u == DeltaPosts(t, d)
  <1>1. b \in Tallies /\ s \in Tallies /\ p \in Tallies
    BY KindsFacts
  <1>2. d.buyer \in Int /\ d.seller \in Int /\ d.spread \in Int
    OBVIOUS
  <1>3. CASE d.buyer > 0
    <2>1. \A k \in BucketKinds : u[k] = [b EXCEPT !.settled_debit = @ + d.buyer]
      BY <1>3, KindsFacts DEF DeltaPosts, RaisePosts
    <2>2. u["seller_earning"] =
            IF d.seller > 0 THEN [s EXCEPT !.settled_credit = @ + d.seller] ELSE s
      BY <1>3, KindsFacts DEF DeltaPosts, RaisePosts
    <2>3. u["platform_spread"] =
            IF d.spread > 0 THEN [p EXCEPT !.settled_credit = @ + d.spread] ELSE p
      BY <1>3, KindsFacts DEF DeltaPosts, RaisePosts
    <2> HIDE DEF u
    <2>4. /\ u["buyer_quota"].reserved = b.reserved /\ u["buyer_quota"].released = b.released
          /\ u["buyer_quota"].settled_debit = b.settled_debit + d.buyer
          /\ u["buyer_quota"].reversed_credit = b.reversed_credit
      BY <1>1, <2>1, KindsFacts DEF Tallies
    <2>5. /\ u["seller_earning"].settled_credit = s.settled_credit + d.seller
          /\ u["seller_earning"].reversed_debit = s.reversed_debit
      BY <1>1, <1>2, <1>3, <2>2 DEF Tallies, OneWay
    <2>6. /\ u["platform_spread"].settled_credit = p.settled_credit + d.spread
          /\ u["platform_spread"].reversed_debit = p.reversed_debit
      BY <1>1, <1>2, <1>3, <2>3 DEF Tallies, OneWay
    <2>7. \A k \in BucketKinds : u[k] = u["buyer_quota"]
      BY <2>1, KindsFacts
    <2>8. Legs(u)
      BY <1>1, <1>2, <2>4, <2>5, <2>6, TallyFields DEF Legs
    <2>9. QED
      BY <1>1, <1>2, <2>4, <2>5, <2>6, <2>7, <2>8, TallyFields
      DEF Hold, NetDebit, NetCredit, u
  <1>4. CASE ~(d.buyer > 0)
    <2>1. \A k \in BucketKinds : u[k] = [b EXCEPT !.reversed_credit = @ - d.buyer]
      BY <1>4, KindsFacts DEF DeltaPosts, LowerPosts
    <2>2. u["seller_earning"] =
            IF d.seller < 0 THEN [s EXCEPT !.reversed_debit = @ - d.seller] ELSE s
      BY <1>4, KindsFacts DEF DeltaPosts, LowerPosts
    <2>3. u["platform_spread"] =
            IF d.spread < 0 THEN [p EXCEPT !.reversed_debit = @ - d.spread] ELSE p
      BY <1>4, KindsFacts DEF DeltaPosts, LowerPosts
    <2> HIDE DEF u
    <2>4. /\ u["buyer_quota"].reserved = b.reserved /\ u["buyer_quota"].released = b.released
          /\ u["buyer_quota"].settled_debit = b.settled_debit
          /\ u["buyer_quota"].reversed_credit = b.reversed_credit - d.buyer
      BY <1>1, <2>1, KindsFacts DEF Tallies
    <2>5. /\ u["seller_earning"].settled_credit = s.settled_credit
          /\ u["seller_earning"].reversed_debit = s.reversed_debit - d.seller
      BY <1>1, <1>2, <1>4, <2>2 DEF Tallies, OneWay
    <2>6. /\ u["platform_spread"].settled_credit = p.settled_credit
          /\ u["platform_spread"].reversed_debit = p.reversed_debit - d.spread
      BY <1>1, <1>2, <1>4, <2>3 DEF Tallies, OneWay
    <2>7. \A k \in BucketKinds : u[k] = u["buyer_quota"]
      BY <2>1, KindsFacts
    <2>8. Legs(u)
      BY <1>1, <1>2, <2>4, <2>5, <2>6, TallyFields DEF Legs
    <2>9. QED
      BY <1>1, <1>2, <2>4, <2>5, <2>6, <2>7, <2>8, TallyFields
      DEF Hold, NetDebit, NetCredit, u
  <1>5. QED
    BY <1>3, <1>4

\* A settled request is corrected to another quote of a chain.
LEMMA DeltaAccount ==
    ASSUME QuotesAreAChain,
           NEW t \in [Kinds -> Tallies], NEW a \in Nat, NEW q \in Quotes,
           NEW d \in [buyer : Int, seller : Int, spread : Int],
           Account(t, "consumed", a),
           d.buyer = q.buyer - NetDebit(t["buyer_quota"]),
           d.seller = q.seller - NetCredit(t["seller_earning"]),
           d.spread = q.spread - NetCredit(t["platform_spread"])
    PROVE  Account(DeltaPosts(t, d), "consumed", a)
  <1> DEFINE p == [ buyer |-> NetDebit(t["buyer_quota"]),
                    seller |-> NetCredit(t["seller_earning"]),
                    spread |-> NetCredit(t["platform_spread"]) ]
             u == DeltaPosts(t, d)
  <1>1. p \in Quotes
    BY DEF Account, NetsToAQuote
  <1>2. /\ p.buyer \in Int /\ p.seller \in Int /\ p.spread \in Int
        /\ q.buyer \in Int /\ q.seller \in Int /\ q.spread \in Int
        /\ p.buyer = p.seller + p.spread /\ q.buyer = q.seller + q.spread
        /\ q = [buyer |-> q.buyer, seller |-> q.seller, spread |-> q.spread]
    BY <1>1, LedgerConstants
  <1>3. \/ p.buyer <= q.buyer /\ p.seller <= q.seller /\ p.spread <= q.spread
        \/ q.buyer <= p.buyer /\ q.seller <= p.seller /\ q.spread <= p.spread
    BY <1>1 DEF QuotesAreAChain
  <1>4. d.buyer = q.buyer - p.buyer /\ d.seller = q.seller - p.seller /\ d.spread = q.spread - p.spread
    OBVIOUS
  <1> HIDE DEF p
  <1>5. OneWay(d) /\ d.buyer = d.seller + d.spread
    BY <1>2, <1>3, <1>4 DEF OneWay
  <1>6. /\ \A k \in BucketKinds : u[k] = u["buyer_quota"]
        /\ Hold(u["buyer_quota"]) = Hold(t["buyer_quota"])
        /\ NetDebit(u["buyer_quota"]) = NetDebit(t["buyer_quota"]) + d.buyer
        /\ NetCredit(u["seller_earning"]) = NetCredit(t["seller_earning"]) + d.seller
        /\ NetCredit(u["platform_spread"]) = NetCredit(t["platform_spread"]) + d.spread
        /\ Legs(u)
    BY <1>5, DeltaReads DEF Account
  <1> HIDE DEF u
  <1>7. /\ NetDebit(u["buyer_quota"]) = q.buyer
        /\ NetCredit(u["seller_earning"]) = q.seller
        /\ NetCredit(u["platform_spread"]) = q.spread
    BY <1>2, <1>4, <1>6 DEF p
  <1>8. NetsToAQuote(u)
    BY <1>2, <1>7 DEF NetsToAQuote
  <1>9. QED
    BY <1>6, <1>8 DEF Account, u

----------------------------------------------------------------------------
\* An untouched request has a clean account.
LEMMA InitAccounts == Init => Accounts
  <1> SUFFICES ASSUME Init, NEW r \in Requests PROVE Account(posted[r], status[r], amount[r])
    BY InitTypeOK DEF Accounts
  <1>1. /\ status[r] = "none" /\ amount[r] = 0
        /\ posted[r] = [k \in Kinds |-> ZeroTally]
    BY DEF Init
  <1>2. \A k \in Kinds : posted[r][k] = ZeroTally
    BY <1>1
  <1>3. QED
    BY <1>1, <1>2, KindsFacts
    DEF Account, Hold, Legs, NetDebit, NetCredit, ZeroTally

\* A step leaves every request's account in order, if the quotes form a chain.
LEMMA NextAccounts ==
    ASSUME QuotesAreAChain, Accounts, [Next]_vars
    PROVE  Accounts'
  <1>1. TypeOK /\ TypeOK'
    BY NextTypeOK DEF Accounts
  <1> SUFFICES ASSUME NEW s \in Requests
               PROVE  Account(posted'[s], status'[s], amount'[s])
    BY <1>1 DEF Accounts
  <1>2. /\ Account(posted[s], status[s], amount[s])
        /\ posted[s] \in [Kinds -> Tallies] /\ amount[s] \in Nat
        /\ status[s] \in Statuses
    BY <1>1 DEF Accounts, TypeOK
  <1>3. ASSUME NEW r \in Requests, NEW k \in IdemKeys, NEW o \in Owners, NEW a \in Amounts,
               Reserve(r, k, o, a)
        PROVE  Account(posted'[s], status'[s], amount'[s])
    <2>1. CASE s = r
      <3>1. a \in Nat /\ status[r] = "none"
        BY <1>3, LedgerConstants DEF Reserve
      <3>2. /\ posted'[s] = HoldPosts(posted[s], a)
            /\ status'[s] = "held" /\ amount'[s] = a
        BY <1>1, <1>3, <2>1 DEF Reserve, TypeOK
      <3>3. QED
        BY <1>2, <2>1, <3>1, <3>2, HoldAccount
    <2>2. CASE s # r
      BY <1>1, <1>2, <1>3, <2>2 DEF Reserve, TypeOK
    <2>3. QED
      BY <2>1, <2>2
  <1>4. ASSUME NEW r \in Requests, NEW q \in Quotes, Settle(r, q)
        PROVE  Account(posted'[s], status'[s], amount'[s])
    <2>1. CASE s = r
      <3>1. /\ status[s] \in {"held", "unresolved"}
            /\ posted'[s] = SettlePosts(posted[s], amount[s], q)
            /\ status'[s] = "consumed" /\ amount'[s] = amount[s]
        BY <1>1, <1>4, <2>1 DEF Settle, TypeOK
      <3>2. NonNegative(q)
        BY <1>4 DEF Settle
      <3>3. QED
        BY <1>2, <3>1, <3>2, SettleAccount
    <2>2. CASE s # r
      BY <1>1, <1>2, <1>4, <2>2 DEF Settle, TypeOK
    <2>3. QED
      BY <2>1, <2>2
  <1>5. ASSUME NEW r \in Requests, NEW q \in Quotes, ApplyDelta(r, q)
        PROVE  Account(posted'[s], status'[s], amount'[s])
    <2>1. CASE s = r
      <3> DEFINE d == Delta(s, q)
      <3>1. /\ status[s] = "consumed"
            /\ posted'[s] = DeltaPosts(posted[s], d)
            /\ status'[s] = "consumed" /\ amount'[s] = amount[s]
        BY <1>1, <1>5, <2>1 DEF ApplyDelta, TypeOK
      <3>2. d \in [buyer : Int, seller : Int, spread : Int]
        BY <1>1, DeltaType
      <3>3. /\ d.buyer = q.buyer - NetDebit(posted[s]["buyer_quota"])
            /\ d.seller = q.seller - NetCredit(posted[s]["seller_earning"])
            /\ d.spread = q.spread - NetCredit(posted[s]["platform_spread"])
        BY DEF Delta, Charge, Earning, Spread
      <3> HIDE DEF d
      <3>4. QED
        BY <1>2, <3>1, <3>2, <3>3, DeltaAccount
    <2>2. CASE s # r
      BY <1>1, <1>2, <1>5, <2>2 DEF ApplyDelta, TypeOK
    <2>3. QED
      BY <2>1, <2>2
  <1>6. ASSUME NEW r \in Requests, Release(r)
        PROVE  Account(posted'[s], status'[s], amount'[s])
    <2>1. CASE s = r
      <3>1. /\ status[s] = "held"
            /\ posted'[s] = ReleasePosts(posted[s], amount[s])
            /\ status'[s] = "released" /\ amount'[s] = amount[s]
        BY <1>1, <1>6, <2>1 DEF Release, TypeOK
      <3>2. QED
        BY <1>2, <3>1, ReleaseAccount
    <2>2. CASE s # r
      BY <1>1, <1>2, <1>6, <2>2 DEF Release, TypeOK
    <2>3. QED
      BY <2>1, <2>2
  <1>7. ASSUME NEW r \in Requests, MarkUnresolved(r)
        PROVE  Account(posted'[s], status'[s], amount'[s])
    <2>1. CASE s = r
      BY <1>1, <1>2, <1>7, <2>1 DEF MarkUnresolved, TypeOK, Account
    <2>2. CASE s # r
      BY <1>1, <1>2, <1>7, <2>2 DEF MarkUnresolved, TypeOK
    <2>3. QED
      BY <2>1, <2>2
  <1>8. ASSUME NEW r \in Requests, Reverse(r)
        PROVE  Account(posted'[s], status'[s], amount'[s])
    <2>1. CASE s = r
      <3>1. /\ status[s] = "consumed"
            /\ posted'[s] = ReversePosts(posted[s])
            /\ status'[s] = "released" /\ amount'[s] = amount[s]
        BY <1>1, <1>8, <2>1 DEF Reverse, TypeOK
      <3>2. QED
        BY <1>2, <3>1, ReverseAccount
    <2>2. CASE s # r
      BY <1>1, <1>2, <1>8, <2>2 DEF Reverse, TypeOK
    <2>3. QED
      BY <2>1, <2>2
  <1>9. ASSUME NEW o \in Owners, NEW g \in Grants, SeedQuota(o, g)
        PROVE  Account(posted'[s], status'[s], amount'[s])
    BY <1>2, <1>9 DEF SeedQuota
  <1>10. CASE UNCHANGED vars
    BY <1>2, <1>10 DEF vars
  <1>11. QED
    BY <1>3, <1>4, <1>5, <1>6, <1>7, <1>8, <1>9, <1>10 DEF Next

\* Every account is in order in every reachable state.
LEMMA AlwaysAccounts ==
    ASSUME QuotesAreAChain
    PROVE  Spec => []Accounts
  <1>1. Accounts /\ [Next]_vars => Accounts'
    BY NextAccounts
  <1>2. QED
    BY <1>1, InitAccounts, PTL DEF Spec

\* What the account of a request says of the three checked invariants.
LEMMA AccountsImply == Accounts => HoldMatchesStatus /\ BucketsAgree /\ OneBusinessEffect
  <1> SUFFICES ASSUME Accounts PROVE HoldMatchesStatus /\ BucketsAgree /\ OneBusinessEffect
    OBVIOUS
  <1>1. \A r \in Requests : Account(posted[r], status[r], amount[r])
    BY DEF Accounts
  <1>2. BucketsAgree
    BY <1>1 DEF BucketsAgree, Account
  <1>3. HoldMatchesStatus
    BY <1>1, <1>2 DEF HoldMatchesStatus, BucketsAgree, Account, Open
  <1>4. OneBusinessEffect
    BY <1>1, <1>2
    DEF OneBusinessEffect, BucketsAgree, Account, NetsToAQuote, Charge, Earning, Spread
  <1>5. QED
    BY <1>2, <1>3, <1>4

\* What the buckets of a request t say of its hold, whatever the quotes are.
HoldOK(t, st, a) ==
    /\ \A k \in BucketKinds : t[k] = t["buyer_quota"]
    /\ Hold(t["buyer_quota"]) = IF st \in {"held", "unresolved"} THEN a ELSE 0

Holds == TypeOK /\ \A r \in Requests : HoldOK(posted[r], status[r], amount[r])

\* Every posting moves the three buckets alike; a correction and a reversal move no hold.
LEMMA PostsHold ==
    ASSUME NEW t \in [Kinds -> Tallies], NEW st, NEW a \in Nat, HoldOK(t, st, a)
    PROVE  /\ st = "none" => \A b \in Nat : HoldOK(HoldPosts(t, b), "held", b)
           /\ st = "held" => HoldOK(ReleasePosts(t, a), "released", a)
           /\ st \in {"held", "unresolved"} => \A q \in Quotes : HoldOK(SettlePosts(t, a, q), "consumed", a)
           /\ st = "consumed" => HoldOK(ReversePosts(t), "released", a)
           /\ st = "consumed" => \A d \in [buyer : Int, seller : Int, spread : Int] :
                                    HoldOK(DeltaPosts(t, d), "consumed", a)
  <1> DEFINE b == t["buyer_quota"]
  <1>1. b \in Tallies /\ \A k \in BucketKinds : t[k] = b
    BY KindsFacts DEF HoldOK
  <1>2. /\ \A n \in Nat : [b EXCEPT !.reserved = @ + n].reserved = b.reserved + n
        /\ \A n \in Nat : [b EXCEPT !.reserved = @ + n].released = b.released
        /\ \A n \in Nat : [b EXCEPT !.released = @ + n].released = b.released + n
        /\ \A n \in Nat : [b EXCEPT !.released = @ + n].reserved = b.reserved
        /\ b.reserved \in Nat /\ b.released \in Nat
    BY <1>1 DEF Tallies
  <1>3. ASSUME st = "none", NEW n \in Nat PROVE HoldOK(HoldPosts(t, n), "held", n)
    <2>1. \A k \in BucketKinds : HoldPosts(t, n)[k] = [b EXCEPT !.reserved = @ + n]
      BY <1>1, KindsFacts DEF HoldPosts
    <2>2. \A k \in BucketKinds : HoldPosts(t, n)[k] = HoldPosts(t, n)["buyer_quota"]
      BY <2>1, KindsFacts
    <2>3. /\ HoldPosts(t, n)["buyer_quota"].reserved = b.reserved + n
          /\ HoldPosts(t, n)["buyer_quota"].released = b.released
      BY <1>2, <2>1, KindsFacts
    <2>4. b.reserved - b.released = 0
      BY <1>3 DEF HoldOK, Hold
    <2>5. HoldPosts(t, n)["buyer_quota"].reserved - HoldPosts(t, n)["buyer_quota"].released = n
      BY <1>2, <2>3, <2>4
    <2>6. QED
      BY <2>2, <2>5 DEF HoldOK, Hold
  <1>4. ASSUME st = "held" PROVE HoldOK(ReleasePosts(t, a), "released", a)
    <2>1. \A k \in BucketKinds : ReleasePosts(t, a)[k] = [b EXCEPT !.released = @ + a]
      BY <1>1, KindsFacts DEF ReleasePosts
    <2>2. \A k \in BucketKinds : ReleasePosts(t, a)[k] = ReleasePosts(t, a)["buyer_quota"]
      BY <2>1, KindsFacts
    <2>3. /\ ReleasePosts(t, a)["buyer_quota"].reserved = b.reserved
          /\ ReleasePosts(t, a)["buyer_quota"].released = b.released + a
      BY <1>2, <2>1, KindsFacts
    <2>4. b.reserved - b.released = a
      BY <1>4 DEF HoldOK, Hold
    <2>5. ReleasePosts(t, a)["buyer_quota"].reserved - ReleasePosts(t, a)["buyer_quota"].released = 0
      BY <1>2, <2>3, <2>4
    <2>6. QED
      BY <2>2, <2>5 DEF HoldOK, Hold
  <1>5. ASSUME st \in {"held", "unresolved"}, NEW q \in Quotes PROVE HoldOK(SettlePosts(t, a, q), "consumed", a)
    <2>1. \A k \in BucketKinds : SettlePosts(t, a, q)[k] = [b EXCEPT !.released = @ + a, !.settled_debit = @ + q.buyer]
      BY <1>1, KindsFacts DEF SettlePosts
    <2>2. /\ [b EXCEPT !.released = @ + a, !.settled_debit = @ + q.buyer].reserved = b.reserved
          /\ [b EXCEPT !.released = @ + a, !.settled_debit = @ + q.buyer].released = b.released + a
      BY <1>1 DEF Tallies
    <2>3. \A k \in BucketKinds : SettlePosts(t, a, q)[k] = SettlePosts(t, a, q)["buyer_quota"]
      BY <2>1, KindsFacts
    <2>4. /\ SettlePosts(t, a, q)["buyer_quota"].reserved = b.reserved
          /\ SettlePosts(t, a, q)["buyer_quota"].released = b.released + a
      BY <2>1, <2>2, KindsFacts
    <2>5. b.reserved - b.released = a
      BY <1>5 DEF HoldOK, Hold
    <2>6. SettlePosts(t, a, q)["buyer_quota"].reserved - SettlePosts(t, a, q)["buyer_quota"].released = 0
      BY <1>2, <2>4, <2>5
    <2>7. QED
      BY <2>3, <2>6 DEF HoldOK, Hold
  <1>6. ASSUME st = "consumed" PROVE HoldOK(ReversePosts(t), "released", a)
    <2>1. \A k \in BucketKinds : ReversePosts(t)[k] = [b EXCEPT !.reversed_credit = @ + b.settled_debit,
                                                               !.reversed_debit = @ + b.settled_credit]
      BY <1>1, KindsFacts DEF ReversePosts
    <2>2. /\ ReversePosts(t)["buyer_quota"].reserved = b.reserved
          /\ ReversePosts(t)["buyer_quota"].released = b.released
      BY <1>1, <2>1, KindsFacts DEF Tallies
    <2>3. QED
      BY <1>2, <1>6, <2>1, <2>2, KindsFacts DEF HoldOK, Hold
  <1>7. ASSUME st = "consumed", NEW d \in [buyer : Int, seller : Int, spread : Int]
        PROVE  HoldOK(DeltaPosts(t, d), "consumed", a)
    <2>1. \A k \in BucketKinds : DeltaPosts(t, d)[k] = IF d.buyer > 0 THEN [b EXCEPT !.settled_debit = @ + d.buyer]
                                                       ELSE [b EXCEPT !.reversed_credit = @ - d.buyer]
      BY <1>1, KindsFacts DEF DeltaPosts, RaisePosts, LowerPosts
    <2>2. /\ DeltaPosts(t, d)["buyer_quota"].reserved = b.reserved
          /\ DeltaPosts(t, d)["buyer_quota"].released = b.released
      BY <1>1, <2>1, KindsFacts DEF Tallies
    <2>3. QED
      BY <1>2, <1>7, <2>1, <2>2, KindsFacts DEF HoldOK, Hold
  <1>8. QED
    BY <1>3, <1>4, <1>5, <1>6, <1>7

\* Nothing is held at the start.
LEMMA InitHolds == Init => Holds
  BY InitTypeOK, KindsFacts DEF Init, Holds, HoldOK, Hold, ZeroTally

\* The account of a request moves by what one operation posts to it.
LEMMA NextHolds ==
    ASSUME Holds, [Next]_vars PROVE Holds'
  <1>1. TypeOK /\ TypeOK'
    BY NextTypeOK DEF Holds
  <1> SUFFICES ASSUME NEW s \in Requests PROVE HoldOK(posted'[s], status'[s], amount'[s])
    BY <1>1 DEF Holds
  <1>2. /\ HoldOK(posted[s], status[s], amount[s])
        /\ posted[s] \in [Kinds -> Tallies] /\ amount[s] \in Nat
    BY <1>1 DEF Holds, TypeOK
  <1>3. ASSUME NEW r \in Requests, NEW k \in IdemKeys, NEW o \in Owners, NEW a \in Amounts, Reserve(r, k, o, a)
        PROVE  HoldOK(posted'[s], status'[s], amount'[s])
    <2>1. a \in Nat
      BY LedgerConstants
    <2>2. s # r => posted'[s] = posted[s] /\ status'[s] = status[s] /\ amount'[s] = amount[s]
      BY <1>1, <1>3 DEF Reserve, TypeOK
    <2>3. s = r => status[s] = "none" /\ posted'[s] = HoldPosts(posted[s], a) /\ status'[s] = "held" /\ amount'[s] = a
      BY <1>1, <1>3 DEF Reserve, TypeOK
    <2>4. QED
      BY <1>2, <2>1, <2>2, <2>3, PostsHold
  <1>4. ASSUME NEW r \in Requests, NEW q \in Quotes, Settle(r, q) PROVE HoldOK(posted'[s], status'[s], amount'[s])
    <2>1. s # r => posted'[s] = posted[s] /\ status'[s] = status[s] /\ amount'[s] = amount[s]
      BY <1>1, <1>4 DEF Settle, TypeOK
    <2>2. s = r => /\ status[s] \in {"held", "unresolved"} /\ posted'[s] = SettlePosts(posted[s], amount[s], q)
                   /\ status'[s] = "consumed" /\ amount'[s] = amount[s]
      BY <1>1, <1>4 DEF Settle, TypeOK
    <2>3. QED
      BY <1>2, <2>1, <2>2, PostsHold
  <1>5. ASSUME NEW r \in Requests, NEW q \in Quotes, ApplyDelta(r, q) PROVE HoldOK(posted'[s], status'[s], amount'[s])
    <2>1. s # r => posted'[s] = posted[s] /\ status'[s] = status[s] /\ amount'[s] = amount[s]
      BY <1>1, <1>5 DEF ApplyDelta, TypeOK
    <2>2. s = r => /\ status[s] = "consumed" /\ posted'[s] = DeltaPosts(posted[s], Delta(s, q))
                   /\ status'[s] = "consumed" /\ amount'[s] = amount[s]
      BY <1>1, <1>5 DEF ApplyDelta, TypeOK
    <2>3. Delta(s, q) \in [buyer : Int, seller : Int, spread : Int]
      BY <1>1, DeltaType
    <2>4. QED
      BY <1>2, <2>1, <2>2, <2>3, PostsHold
  <1>6. ASSUME NEW r \in Requests, Release(r) PROVE HoldOK(posted'[s], status'[s], amount'[s])
    <2>1. s # r => posted'[s] = posted[s] /\ status'[s] = status[s] /\ amount'[s] = amount[s]
      BY <1>1, <1>6 DEF Release, TypeOK
    <2>2. s = r => /\ status[s] = "held" /\ posted'[s] = ReleasePosts(posted[s], amount[s])
                   /\ status'[s] = "released" /\ amount'[s] = amount[s]
      BY <1>1, <1>6 DEF Release, TypeOK
    <2>3. QED
      BY <1>2, <2>1, <2>2, PostsHold
  <1>7. ASSUME NEW r \in Requests, MarkUnresolved(r) PROVE HoldOK(posted'[s], status'[s], amount'[s])
    BY <1>1, <1>2, <1>7 DEF MarkUnresolved, TypeOK, HoldOK
  <1>8. ASSUME NEW r \in Requests, Reverse(r) PROVE HoldOK(posted'[s], status'[s], amount'[s])
    <2>1. s # r => posted'[s] = posted[s] /\ status'[s] = status[s] /\ amount'[s] = amount[s]
      BY <1>1, <1>8 DEF Reverse, TypeOK
    <2>2. s = r => /\ status[s] = "consumed" /\ posted'[s] = ReversePosts(posted[s])
                   /\ status'[s] = "released" /\ amount'[s] = amount[s]
      BY <1>1, <1>8 DEF Reverse, TypeOK
    <2>3. QED
      BY <1>2, <2>1, <2>2, PostsHold
  <1>9. ASSUME NEW o \in Owners, NEW g \in Grants, SeedQuota(o, g) PROVE HoldOK(posted'[s], status'[s], amount'[s])
    BY <1>2, <1>9 DEF SeedQuota
  <1>10. CASE UNCHANGED vars
    BY <1>2, <1>10 DEF vars
  <1>11. QED
    BY <1>3, <1>4, <1>5, <1>6, <1>7, <1>8, <1>9, <1>10 DEF Next

\* What the buckets say of the two checked invariants.
LEMMA HoldsImply == Holds => HoldMatchesStatus /\ BucketsAgree
  BY DEF Holds, HoldOK, HoldMatchesStatus, BucketsAgree, Open

\* A hold is outstanding, in all three buckets, exactly while its reservation is open:
\* reserve, settle, release, unresolved, late amounts and reversal, in any order.
THEOREM HoldReturnedOnce == Spec => []HoldMatchesStatus
  BY InitHolds, NextHolds, HoldsImply, PTL DEF Spec

\* The account's, the project's and the key's quota are posted to alike by every operation.
THEOREM BucketsTogether == Spec => []BucketsAgree
  BY InitHolds, NextHolds, HoldsImply, PTL DEF Spec

\* A settled request nets to exactly one quote, whatever late amounts arrived.
THEOREM SettledAtOneQuote ==
    ASSUME QuotesAreAChain
    PROVE  Spec => []OneBusinessEffect
  <1>1. Accounts => OneBusinessEffect
    BY AccountsImply
  <1>2. QED
    BY <1>1, AlwaysAccounts, PTL

\* If the quotes form a chain, what the buyer of a settled request pays is what seller and
\* platform earn: apply_delta() then never raises one side while it lowers another, of which
\* it would post one and drop the other.
THEOREM SettledIsBalanced ==
    ASSUME QuotesAreAChain
    PROVE  Spec => []SettledBalanced
  <1>1. Accounts => SettledBalanced
    <2> SUFFICES ASSUME Accounts, NEW r \in Requests, status[r] = "consumed"
                 PROVE  Charge(r) = Earning(r) + Spread(r)
      BY DEF SettledBalanced
    <2> DEFINE q == [buyer |-> Charge(r), seller |-> Earning(r), spread |-> Spread(r)]
    <2>1. q \in Quotes
      BY AccountsImply DEF OneBusinessEffect
    <2>2. q.buyer = q.seller + q.spread
      BY <2>1, LedgerConstants
    <2>3. QED
      BY <2>2
  <1>2. QED
    BY <1>1, AlwaysAccounts, PTL

\* The half of ReversedNetsToZero that holds: a request that was released or reversed owes
\* nothing, although reverse() may give back more than was taken.
NothingOwed == \A r \in Requests : status[r] = "released" => Charge(r) <= 0

\* If the quotes form a chain, no request is charged for after its release or reversal,
\* whatever late amounts were applied to it before.
THEOREM NothingOwedAfterwards ==
    ASSUME QuotesAreAChain
    PROVE  Spec => []NothingOwed
  <1>1. Accounts => NothingOwed
    BY DEF Accounts, Account, NothingOwed, Charge
  <1>2. QED
    BY <1>1, AlwaysAccounts, PTL

----------------------------------------------------------------------------
(* The ledger implements the escrow contract.                              *)

\* The initial ledger is an initial escrow.
LEMMA InitEscrow == Init => Escrow!CInit
  <1> SUFFICES ASSUME Init PROVE Escrow!CInit
    OBVIOUS
  <1>1. \A r \in Requests : posted[r]["buyer_quota"] = ZeroTally
                          /\ posted[r]["seller_earning"] = ZeroTally
                          /\ posted[r]["platform_spread"] = ZeroTally
    BY KindsFacts DEF Init
  <1>2. \A r \in Requests : Hold(posted[r]["buyer_quota"]) = 0 /\ Charge(r) = 0
                          /\ Earning(r) + Spread(r) = 0 /\ Phase(r) = "new"
    BY <1>1 DEF Init, Hold, Charge, Earning, Spread, NetDebit, NetCredit, ZeroTally, Phase
  <1>3. QED
    BY <1>2 DEF Escrow!CInit

\* What a step of one request means to the escrow: every other request keeps its
\* phase, hold, charge and payout.
OthersKeep(r) ==
    \A s \in Requests \ {r} :
        /\ Phase(s)' = Phase(s)
        /\ Hold(posted[s]["buyer_quota"])' = Hold(posted[s]["buyer_quota"])
        /\ Charge(s)' = Charge(s)
        /\ (Earning(s) + Spread(s))' = Earning(s) + Spread(s)

\* Charge and payout agree in every state with its accounts in order.
LEMMA ChargeIsPayout ==
    ASSUME Accounts, NEW r \in Requests
    PROVE  Charge(r) = Earning(r) + Spread(r) /\ Charge(r) \in Int
  <1>1. /\ posted[r]["buyer_quota"] \in Tallies
        /\ posted[r]["seller_earning"] \in Tallies
        /\ posted[r]["platform_spread"] \in Tallies
        /\ Legs(posted[r])
    BY KindsFacts DEF Accounts, TypeOK, Account
  <1>2. QED
    BY <1>1, TallyFields DEF Legs, Charge, Earning, Spread, NetDebit, NetCredit

\* The values the contract sees, before and after a step that touches r only.
LEMMA OneRequestMoves ==
    ASSUME NEW r \in Requests, OthersKeep(r)
    PROVE  LET phase == [s \in Requests |-> Phase(s)]
               hold == [s \in Requests |-> Hold(posted[s]["buyer_quota"])]
               charge == [s \in Requests |-> Charge(s)]
               payout == [s \in Requests |-> Earning(s) + Spread(s)]
           IN  /\ phase' = [phase EXCEPT ![r] = phase'[r]]
               /\ hold' = [hold EXCEPT ![r] = hold'[r]]
               /\ charge' = [charge EXCEPT ![r] = charge'[r]]
               /\ payout' = [payout EXCEPT ![r] = payout'[r]]
  <1> DEFINE phase == [s \in Requests |-> Phase(s)]
             hold == [s \in Requests |-> Hold(posted[s]["buyer_quota"])]
             charge == [s \in Requests |-> Charge(s)]
             payout == [s \in Requests |-> Earning(s) + Spread(s)]
  <1>1. \A s \in Requests \ {r} : /\ phase'[s] = phase[s] /\ hold'[s] = hold[s]
                                  /\ charge'[s] = charge[s] /\ payout'[s] = payout[s]
    BY DEF OthersKeep
  <1>2. /\ phase = [s \in Requests |-> phase[s]] /\ phase' = [s \in Requests |-> phase'[s]]
        /\ hold = [s \in Requests |-> hold[s]] /\ hold' = [s \in Requests |-> hold'[s]]
        /\ charge = [s \in Requests |-> charge[s]] /\ charge' = [s \in Requests |-> charge'[s]]
        /\ payout = [s \in Requests |-> payout[s]] /\ payout' = [s \in Requests |-> payout'[s]]
    OBVIOUS
  <1> HIDE DEF phase, hold, charge, payout
  <1>3. /\ phase' = [phase EXCEPT ![r] = phase'[r]]
        /\ hold' = [hold EXCEPT ![r] = hold'[r]]
        /\ charge' = [charge EXCEPT ![r] = charge'[r]]
        /\ payout' = [payout EXCEPT ![r] = payout'[r]]
    BY <1>1, <1>2
  <1>4. QED
    BY <1>3 DEF phase, hold, charge, payout

\* A step of the ledger on one request.
OnRequest(r) ==
    \/ \E k \in IdemKeys, o \in Owners, a \in Amounts : Reserve(r, k, o, a)
    \/ \E q \in Quotes : Settle(r, q) \/ ApplyDelta(r, q)
    \/ Release(r)
    \/ MarkUnresolved(r)
    \/ Reverse(r)

\* It touches no other request.
LEMMA OthersUntouched ==
    ASSUME TypeOK, NEW r \in Requests, OnRequest(r)
    PROVE  OthersKeep(r)
  <1>1. \A s \in Requests \ {r} : posted'[s] = posted[s] /\ status'[s] = status[s]
    BY DEF OnRequest, Reserve, Settle, ApplyDelta, Release, MarkUnresolved, Reverse, TypeOK
  <1>2. QED
    BY <1>1 DEF OthersKeep, Phase, Charge, Earning, Spread

\* What a request in order owes and is owed, status by status.
Reads ==
    \A r \in Requests :
        /\ Hold(posted[r]["buyer_quota"]) = IF Open(r) THEN amount[r] ELSE 0
        /\ status[r] \in {"none", "held", "unresolved"} =>
              Charge(r) = 0 /\ Earning(r) + Spread(r) = 0
        /\ status[r] = "released" => Charge(r) <= 0
        /\ Charge(r) = Earning(r) + Spread(r)

\* It follows from its account.
LEMMA AccountReads == Accounts => Reads
  <1> SUFFICES ASSUME Accounts, NEW r \in Requests
               PROVE  /\ Hold(posted[r]["buyer_quota"]) = IF Open(r) THEN amount[r] ELSE 0
                      /\ status[r] \in {"none", "held", "unresolved"} =>
                            Charge(r) = 0 /\ Earning(r) + Spread(r) = 0
                      /\ status[r] = "released" => Charge(r) <= 0
                      /\ Charge(r) = Earning(r) + Spread(r)
    BY DEF Reads
  <1>1. Account(posted[r], status[r], amount[r])
    BY DEF Accounts
  <1>2. QED
    BY <1>1, ChargeIsPayout DEF Account, Open, Charge, Earning, Spread

\* So it does after a step that keeps the accounts in order.
LEMMA AccountReadsNext == Accounts' => Reads'
  BY AccountReads, PTL

\* Giving a hold up moves no charge.
LEMMA ReleaseCharges ==
    ASSUME TypeOK, NEW r \in Requests, Release(r)
    PROVE  Charge(r)' = Charge(r)
  <1>1. /\ posted[r]["buyer_quota"] \in Tallies
        /\ posted'[r]["buyer_quota"] =
              [posted[r]["buyer_quota"] EXCEPT !.released = @ + amount[r]]
    BY KindsFacts DEF TypeOK, Release, ReleasePosts
  <1>2. QED
    BY <1>1 DEF Charge, NetDebit, Tallies

\* Settling adds the buyer's side of the cost, which is not negative.
LEMMA SettleCharges ==
    ASSUME TypeOK, NEW r \in Requests, NEW q \in Quotes, NonNegative(q),
           posted'[r] = SettlePosts(posted[r], amount[r], q)
    PROVE  /\ Charge(r) \in Int /\ q.buyer \in Nat
           /\ Charge(r)' = Charge(r) + q.buyer
  <1>1. q.buyer \in Nat
    BY LedgerConstants DEF NonNegative
  <1>2. /\ posted[r]["buyer_quota"] \in Tallies
        /\ posted'[r]["buyer_quota"] =
              [posted[r]["buyer_quota"] EXCEPT !.released = @ + amount[r],
                                               !.settled_debit = @ + q.buyer]
    BY KindsFacts DEF TypeOK, SettlePosts
  <1>3. QED
    BY <1>1, <1>2 DEF Charge, NetDebit, Tallies

\* Writing what is there already changes nothing.
LEMMA SameAt ==
    ASSUME NEW S, NEW f, f = [s \in S |-> f[s]], NEW g, NEW r, g = [f EXCEPT ![r] = g[r]],
           g[r] = f[r]
    PROVE  g = f
  OBVIOUS

\* Each step of the ledger on a request is one step of the contract.
LEMMA StepEscrow ==
    ASSUME Accounts, Accounts', NEW r \in Requests, OnRequest(r)
    PROVE  Escrow!CNext
  <1> DEFINE phase == [s \in Requests |-> Phase(s)]
             hold == [s \in Requests |-> Hold(posted[s]["buyer_quota"])]
             charge == [s \in Requests |-> Charge(s)]
             payout == [s \in Requests |-> Earning(s) + Spread(s)]
  <1>1. TypeOK
    BY DEF Accounts
  <1>2. /\ phase' = [phase EXCEPT ![r] = phase'[r]]
        /\ hold' = [hold EXCEPT ![r] = hold'[r]]
        /\ charge' = [charge EXCEPT ![r] = charge'[r]]
        /\ payout' = [payout EXCEPT ![r] = payout'[r]]
    BY <1>1, OthersUntouched, OneRequestMoves
  <1>3. /\ phase[r] = Phase(r) /\ phase'[r] = Phase(r)'
        /\ hold[r] = Hold(posted[r]["buyer_quota"])
        /\ hold'[r] = Hold(posted[r]["buyer_quota"])'
        /\ charge[r] = Charge(r) /\ charge'[r] = Charge(r)'
        /\ payout[r] = Earning(r) + Spread(r) /\ payout'[r] = (Earning(r) + Spread(r))'
    OBVIOUS
  <1>4. /\ hold[r] = IF Open(r) THEN amount[r] ELSE 0
        /\ status[r] \in {"none", "held", "unresolved"} => charge[r] = 0 /\ payout[r] = 0
        /\ charge[r] = payout[r]
    BY <1>3, AccountReads DEF Reads
  <1>5. /\ hold'[r] = IF Open(r)' THEN amount'[r] ELSE 0
        /\ status'[r] \in {"none", "held", "unresolved"} => charge'[r] = 0 /\ payout'[r] = 0
        /\ status'[r] = "released" => charge'[r] <= 0
        /\ charge'[r] = payout'[r]
    BY <1>3, AccountReadsNext DEF Reads
  <1>6. amount[r] \in Nat
    BY <1>1 DEF TypeOK
  <1>a. phase = [s \in Requests |-> phase[s]] /\ hold = [s \in Requests |-> hold[s]]
    BY Zenon
  <1> HIDE DEF phase, hold, charge, payout
  <1> USE DEF Phase, Open
  <1>7. CASE \E k \in IdemKeys, o \in Owners, a \in Amounts : Reserve(r, k, o, a)
    <2>1. PICK k \in IdemKeys, o \in Owners, a \in Amounts : Reserve(r, k, o, a)
      BY <1>7
    <2>2. /\ status[r] = "none" /\ status'[r] = "held"
          /\ amount'[r] = a /\ a > 0
      BY <1>1, <2>1, LedgerConstants DEF Reserve, TypeOK
    <2>3. /\ phase[r] = "new" /\ phase'[r] = "open" /\ hold'[r] > 0
          /\ charge'[r] = charge[r] /\ payout'[r] = payout[r]
      BY <1>3, <1>4, <1>5, <2>2
    <2>4. charge' = charge /\ payout' = payout
      BY <1>2, <2>3 DEF charge, payout
    <2>5. Escrow!Take(r)
      BY <1>2, <2>3, <2>4 DEF Escrow!Take, phase, hold, charge, payout
    <2>6. QED
      BY <2>5 DEF Escrow!CNext
  <1>8. CASE \E q \in Quotes : Settle(r, q)
    <2>1. PICK q \in Quotes : Settle(r, q)
      BY <1>8
    <2>2. status[r] \in {"held", "unresolved"} /\ status'[r] = "consumed"
      BY <1>1, <2>1 DEF Settle, TypeOK
    <2>3. charge'[r] >= 0
      <3>1. Charge(r)' = Charge(r) + q.buyer /\ q.buyer \in Nat
        BY <1>1, <2>1, SettleCharges DEF Settle, TypeOK
      <3>2. charge[r] = 0 /\ charge[r] = Charge(r) /\ charge'[r] = Charge(r)'
        BY <1>3, <1>4, <2>2
      <3>3. QED
        BY <3>1, <3>2
    <2>4. /\ phase[r] \in {"open", "unknown"} /\ phase'[r] = "charged"
          /\ hold'[r] = 0 /\ charge'[r] = payout'[r]
      BY <1>3, <1>5, <2>2
    <2>5. Escrow!Close(r)
      BY <1>2, <2>3, <2>4 DEF Escrow!Close, Escrow!Pay, phase, hold, charge, payout
    <2>6. QED
      BY <2>5 DEF Escrow!CNext
  <1>9. CASE \E q \in Quotes : ApplyDelta(r, q)
    <2>1. PICK q \in Quotes : ApplyDelta(r, q)
      BY <1>9
    <2>2. status[r] = "consumed" /\ status'[r] = "consumed"
      BY <1>1, <2>1 DEF ApplyDelta, TypeOK
    <2>3. /\ phase[r] = "charged" /\ phase'[r] = phase[r]
          /\ hold'[r] = hold[r] /\ charge'[r] = payout'[r]
      BY <1>3, <1>4, <1>5, <2>2
    <2>4. phase' = phase /\ hold' = hold
      <3>2. phase' = [phase EXCEPT ![r] = phase'[r]] /\ phase'[r] = phase[r]
        BY <1>2, <2>3
      <3>3. hold' = [hold EXCEPT ![r] = hold'[r]] /\ hold'[r] = hold[r]
        BY <1>2, <2>3
      <3>4. phase' = phase
        BY <1>a, <3>2, SameAt, Zenon
      <3>5. hold' = hold
        BY <1>a, <3>3, SameAt, Zenon
      <3>6. QED
        BY <3>4, <3>5
    <2>5. Escrow!Adjust(r)
      BY <1>2, <2>3, <2>4 DEF Escrow!Adjust, Escrow!Pay, phase, hold, charge, payout
    <2>6. QED
      BY <2>5 DEF Escrow!CNext
  <1>10. CASE Release(r)
    <2>1. status[r] = "held" /\ status'[r] = "released"
      BY <1>1, <1>10 DEF Release, TypeOK
    <2>2. charge'[r] = charge[r]
      BY <1>1, <1>3, <1>10, ReleaseCharges
    <2>3. /\ phase[r] = "open" /\ phase'[r] = "closed" /\ hold'[r] = 0
          /\ payout'[r] = payout[r]
      BY <1>3, <1>4, <1>5, <2>1, <2>2
    <2>4. charge' = charge /\ payout' = payout
      BY <1>2, <2>2, <2>3 DEF charge, payout
    <2>5. Escrow!Cancel(r)
      BY <1>2, <2>3, <2>4 DEF Escrow!Cancel, phase, hold, charge, payout
    <2>6. QED
      BY <2>5 DEF Escrow!CNext
  <1>11. CASE MarkUnresolved(r)
    <2>1. status[r] = "held" /\ status'[r] = "unresolved" /\ amount' = amount
      BY <1>1, <1>11 DEF MarkUnresolved, TypeOK
    <2>2. /\ phase[r] = "open" /\ phase'[r] = "unknown" /\ hold'[r] = hold[r]
          /\ charge'[r] = charge[r] /\ payout'[r] = payout[r]
      BY <1>3, <1>4, <1>5, <2>1
    <2>3. hold' = hold /\ charge' = charge /\ payout' = payout
      BY <1>2, <2>2 DEF hold, charge, payout
    <2>4. Escrow!Doubt(r)
      BY <1>2, <2>2, <2>3 DEF Escrow!Doubt, phase, hold, charge, payout
    <2>5. QED
      BY <2>4 DEF Escrow!CNext
  <1>12. CASE Reverse(r)
    <2>1. status[r] = "consumed" /\ status'[r] = "released"
      BY <1>1, <1>12 DEF Reverse, TypeOK
    <2>2. /\ phase[r] = "charged" /\ phase'[r] = "closed" /\ hold'[r] = hold[r]
          /\ charge'[r] <= 0 /\ charge'[r] = payout'[r]
      BY <1>3, <1>4, <1>5, <2>1
    <2>3. hold' = hold
      BY <1>2, <2>2 DEF hold
    <2>4. Escrow!Refund(r)
      BY <1>2, <2>2, <2>3 DEF Escrow!Refund, Escrow!Pay, phase, hold, charge, payout
    <2>5. QED
      BY <2>4 DEF Escrow!CNext
  <1>13. QED
    BY <1>7, <1>8, <1>9, <1>10, <1>11, <1>12 DEF OnRequest

\* Seeding quota, and doing nothing, is a stutter of the contract.
LEMMA StutterEscrow ==
    ASSUME (\E o \in Owners, g \in Grants : SeedQuota(o, g)) \/ UNCHANGED vars
    PROVE  UNCHANGED Escrow!cvars
  <1>1. status' = status /\ posted' = posted
    BY DEF SeedQuota, vars
  <1>2. QED
    BY <1>1 DEF Escrow!cvars, Phase, Charge, Earning, Spread

\* Every behaviour of the ledger, seen request by request, is a behaviour of the
\* escrow contract: holds are taken and returned once, an unresolved hold is only ever
\* charged, and what the buyer pays is what is paid out.
THEOREM LedgerImplementsEscrow ==
    ASSUME QuotesAreAChain
    PROVE  Spec => ImplementsEscrow
  <1>1. Accounts /\ Accounts' /\ [Next]_vars => [Escrow!CNext]_(Escrow!cvars)
    <2> SUFFICES ASSUME Accounts, Accounts', [Next]_vars
                 PROVE  [Escrow!CNext]_(Escrow!cvars)
      OBVIOUS
    <2>1. CASE \E r \in Requests : OnRequest(r)
      BY <2>1, StepEscrow
    <2>2. CASE (\E o \in Owners, g \in Grants : SeedQuota(o, g)) \/ UNCHANGED vars
      BY <2>2, StutterEscrow
    <2>3. QED
      BY <2>1, <2>2 DEF Next, OnRequest
  <1>2. QED
    BY <1>1, InitEscrow, AlwaysAccounts, PTL DEF Spec, ImplementsEscrow, Escrow!CSpec

----------------------------------------------------------------------------
(* The quotes of the price arithmetic form a chain.                        *)

\* Division by BPS, and what adding whole multiples of BPS does to it.
LEMMA DivBPS ==
    ASSUME NEW x \in Nat, NEW y \in Nat
    PROVE  /\ x \div BPS \in Nat
           /\ x <= y => x \div BPS <= y \div BPS
           /\ (x + y * BPS) \div BPS = x \div BPS + y
  BY DEF BPS

\* Larger bases weigh more; a multiplier of at least one adds at least the increase
\* of the base, a multiplier of at most one adds at most that.
LEMMA MulBpsSlope ==
    ASSUME NEW b \in Nat, NEW n \in Nat, NEW bps \in Nat
    PROVE  /\ MulBps(b, bps) \in Nat
           /\ MulBps(b, bps) <= MulBps(b + n, bps)
           /\ bps >= BPS => MulBps(b, bps) + n <= MulBps(b + n, bps)
           /\ bps <= BPS => MulBps(b + n, bps) <= MulBps(b, bps) + n
  <1> DEFINE x == b * bps + (BPS \div 2)
             y == (b + n) * bps + (BPS \div 2)
  <1>1. b * bps \in Nat /\ n * bps \in Nat /\ (BPS \div 2) = 5000
    BY DEF BPS
  <1>2. (b + n) * bps = b * bps + n * bps
    OBVIOUS
  <1>3. x \in Nat /\ y \in Nat /\ y = x + n * bps
    BY <1>1, <1>2
  <1>4. MulBps(b, bps) = x \div BPS /\ MulBps(b + n, bps) = y \div BPS
    BY DEF MulBps
  <1> HIDE DEF x, y
  <1>5. MulBps(b, bps) \in Nat /\ MulBps(b, bps) <= MulBps(b + n, bps)
    BY <1>1, <1>3, <1>4, DivBPS
  <1>6. n * BPS \in Nat /\ x + n * BPS \in Nat /\ (x + n * BPS) \div BPS = x \div BPS + n
    BY <1>3, DivBPS DEF BPS
  <1>7. ASSUME bps >= BPS PROVE MulBps(b, bps) + n <= MulBps(b + n, bps)
    <2>1. n * BPS <= n * bps
      BY <1>7 DEF BPS
    <2>2. x + n * BPS <= y
      BY <1>1, <1>3, <1>6, <2>1
    <2>3. QED
      BY <1>3, <1>4, <1>6, <2>2, DivBPS
  <1>8. ASSUME bps <= BPS PROVE MulBps(b + n, bps) <= MulBps(b, bps) + n
    <2>1. n * bps <= n * BPS
      BY <1>8 DEF BPS
    <2>2. y <= x + n * BPS
      BY <1>1, <1>3, <1>6, <2>1
    <2>3. QED
      BY <1>3, <1>4, <1>6, <2>2, DivBPS
  <1>9. QED
    BY <1>5, <1>7, <1>8

\* With a buyer's multiplier of at least one and a seller's of at most one, a larger
\* base never lowers any side: no rounding takes from the spread what it gives to the
\* seller.  (With both below one, or both above, it can.)
THEOREM QuotesGrowTogether ==
    ASSUME NEW b \in Nat, NEW n \in Nat, NEW buyerBps \in Nat, NEW sellerBps \in Nat,
           buyerBps >= BPS, sellerBps <= BPS
    PROVE  QuoteLeq(QuoteOf(b, buyerBps, sellerBps), QuoteOf(b + n, buyerBps, sellerBps))
  <1>1. /\ MulBps(b, buyerBps) \in Nat /\ MulBps(b, sellerBps) \in Nat
        /\ MulBps(b + n, buyerBps) \in Nat /\ MulBps(b + n, sellerBps) \in Nat
    <2>1. b + n \in Nat /\ 0 \in Nat
      OBVIOUS
    <2>2. /\ MulBps(b, buyerBps) \in Nat /\ MulBps(b, sellerBps) \in Nat
      BY MulBpsSlope
    <2>3. /\ MulBps(b + n, buyerBps) \in Nat /\ MulBps(b + n, sellerBps) \in Nat
      BY <2>1, MulBpsSlope
    <2>4. QED
      BY <2>2, <2>3
  <1>2. MulBps(b, buyerBps) + n <= MulBps(b + n, buyerBps)
    BY MulBpsSlope
  <1>3. /\ MulBps(b, sellerBps) <= MulBps(b + n, sellerBps)
        /\ MulBps(b + n, sellerBps) <= MulBps(b, sellerBps) + n
    BY MulBpsSlope
  <1>4. QED
    BY <1>1, <1>2, <1>3 DEF QuoteLeq, QuoteOf

\* A multiplier that is at least as large gives an amount that is at least as large.
LEMMA MulBpsGrows ==
    ASSUME NEW b \in Nat, NEW low \in Nat, NEW high \in Nat, low <= high
    PROVE  MulBps(b, low) \in Nat /\ MulBps(b, high) \in Nat /\ MulBps(b, low) <= MulBps(b, high)
  <1> DEFINE x == b * low + (BPS \div 2)
             y == b * high + (BPS \div 2)
  <1>1. b * low \in Nat /\ b * high \in Nat /\ b * low <= b * high /\ (BPS \div 2) = 5000
    BY DEF BPS
  <1>2. x \in Nat /\ y \in Nat /\ x <= y
    BY <1>1
  <1>3. MulBps(b, low) = x \div BPS /\ MulBps(b, high) = y \div BPS
    BY DEF MulBps
  <1> HIDE DEF x, y
  <1>4. QED
    BY <1>2, <1>3, DivBPS

\* Under a seller's multiplier that is at most the buyer's, as in a version the registry
\* takes to be valid, a quote is one that settle() accepts: no side is negative, whatever
\* the rounding, and the debit is split without rest.
THEOREM QuoteSplitsTheDebit ==
    ASSUME NEW b \in Nat, NEW buyerBps \in Nat, NEW sellerBps \in Nat, sellerBps <= buyerBps
    PROVE  LET q == QuoteOf(b, buyerBps, sellerBps) IN
           q \in [buyer : Nat, seller : Nat, spread : Nat] /\ q.buyer = q.seller + q.spread
  <1> DEFINE debit == MulBps(b, buyerBps)
             earning == MulBps(b, sellerBps)
  <1>1. debit \in Nat /\ earning \in Nat /\ earning <= debit
    BY MulBpsGrows
  <1>2. QuoteOf(b, buyerBps, sellerBps) = [buyer |-> debit, seller |-> earning, spread |-> debit - earning]
    BY DEF QuoteOf
  <1> HIDE DEF debit, earning
  <1>3. debit - earning \in Nat /\ debit = earning + (debit - earning)
    BY <1>1
  <1>4. QED
    BY <1>1, <1>2, <1>3

\* The assumption of the theorems above, from the prices: whatever amounts the providers
\* report for a request, if its multipliers were locked on both sides of one, its possible
\* quotes form a chain.
THEOREM PricedQuotesChain ==
    ASSUME NEW Bases \in SUBSET Nat, NEW buyerBps \in Nat, NEW sellerBps \in Nat,
           buyerBps >= BPS, sellerBps <= BPS,
           Quotes = {QuoteOf(b, buyerBps, sellerBps) : b \in Bases}
    PROVE  QuotesAreAChain
  <1> DEFINE Q(b) == QuoteOf(b, buyerBps, sellerBps)
  <1>1. ASSUME NEW a \in Nat, NEW b \in Nat, a <= b PROVE QuoteLeq(Q(a), Q(b))
    <2>1. b - a \in Nat /\ a + (b - a) = b
      BY <1>1
    <2>2. QuoteLeq(Q(a), Q(a + (b - a)))
      BY <2>1, QuotesGrowTogether
    <2>3. QED
      BY <2>1, <2>2
  <1>2. SUFFICES ASSUME NEW p \in Quotes, NEW q \in Quotes PROVE QuoteLeq(p, q) \/ QuoteLeq(q, p)
    BY DEF QuotesAreAChain, QuoteLeq
  <1>3. PICK a \in Bases : p = Q(a)
    OBVIOUS
  <1>4. PICK b \in Bases : q = Q(b)
    OBVIOUS
  <1>5. a \in Nat /\ b \in Nat /\ (a <= b \/ b <= a)
    OBVIOUS
  <1> HIDE DEF Q
  <1>6. QED
    BY <1>1, <1>3, <1>4, <1>5

----------------------------------------------------------------------------
(* What is left of a bucket is a sum over the requests that share it.  The *)
(* fold the ledger uses is defined on every subset of a finite set; that   *)
(* such a definition exists, has one result and may start with any element *)
(* is shown with a smallest set that has it otherwise.                     *)

\* Among the subsets of a finite set that have a property, one has it and no smaller
\* part of it has.
LEMMA SmallestSet ==
    ASSUME NEW S, IsFiniteSet(S), NEW F \in SUBSET (SUBSET S), F # {}
    PROVE  \E m \in F : \A s \in SUBSET m : s \in F => s = m
  <1> DEFINE N == {Cardinality(s) : s \in F}
  <1>1. \A s \in F : IsFiniteSet(s) /\ Cardinality(s) \in Nat
    BY FS_Subset, FS_CardinalityType
  <1>2. N \subseteq Nat /\ N # {}
    BY <1>1
  <1> HIDE DEF N
  <1>3. PICK n \in N : \A i \in N : ~ (<<i, n>> \in OpToRel(<, Nat))
    BY <1>2, NatLessThanWellFounded, WFMin
  <1>4. \A i \in N : ~ (i < n)
    BY <1>2, <1>3 DEF OpToRel
  <1>5. PICK m \in F : n = Cardinality(m)
    BY DEF N
  <1>6. ASSUME NEW s \in SUBSET m, s \in F PROVE s = m
    <2>1. Cardinality(s) <= Cardinality(m) /\ (Cardinality(m) = Cardinality(s) => m = s)
      BY <1>1, <1>5, FS_Subset
    <2>2. Cardinality(s) \in N
      BY <1>6 DEF N
    <2>3. QED
      BY <1>1, <1>4, <1>5, <1>6, <2>1, <2>2
  <1>7. QED
    BY <1>5, <1>6

Pick(s) == CHOOSE x \in s : TRUE

SumsTo(c, g, T) ==
    g = [s \in SUBSET T |-> IF s = {} THEN 0 ELSE c[Pick(s)] + g[s \ {Pick(s)}]]

Total(c, T) == (CHOOSE g : SumsTo(c, g, T))[T]

\* The element picked from a set that is not empty is one of its elements.
LEMMA PickIn == ASSUME NEW s, s # {} PROVE Pick(s) \in s
  BY DEF Pick

\* What a table of sums says of one set.
LEMMA SumsEntry ==
    ASSUME NEW c, NEW g, NEW T, SumsTo(c, g, T), NEW s \in SUBSET T
    PROVE  g[s] = IF s = {} THEN 0 ELSE c[Pick(s)] + g[s \ {Pick(s)}]
  BY Zenon DEF SumsTo

\* Two tables of the same summands agree on the finite sets both have.
LEMMA SameSums ==
    ASSUME NEW c, NEW g, NEW h, NEW T, NEW U, SumsTo(c, g, T), SumsTo(c, h, U),
           NEW S \in SUBSET T, S \in SUBSET U, IsFiniteSet(S)
    PROVE  g[S] = h[S]
  <1> DEFINE F == {s \in SUBSET S : g[s] # h[s]}
  <1> SUFFICES ASSUME F # {} PROVE FALSE
    OBVIOUS
  <1>1. \E m \in F : \A s \in SUBSET m : s \in F => s = m
    <2>1. F \in SUBSET (SUBSET S)
      OBVIOUS
    <2> HIDE DEF F
    <2>2. QED
      BY <2>1, SmallestSet
  <1>2. PICK m \in F : \A s \in SUBSET m : s \in F => s = m
    BY <1>1
  <1>3. m \in SUBSET T /\ m \in SUBSET U
    OBVIOUS
  <1>4. /\ g[m] = IF m = {} THEN 0 ELSE c[Pick(m)] + g[m \ {Pick(m)}]
        /\ h[m] = IF m = {} THEN 0 ELSE c[Pick(m)] + h[m \ {Pick(m)}]
    <2> HIDE DEF F
    <2>1. g[m] = IF m = {} THEN 0 ELSE c[Pick(m)] + g[m \ {Pick(m)}]
      BY <1>3, SumsEntry
    <2>2. h[m] = IF m = {} THEN 0 ELSE c[Pick(m)] + h[m \ {Pick(m)}]
      BY <1>3, SumsEntry
    <2>3. QED
      BY <2>1, <2>2
  <1>5. m # {}
    BY <1>4
  <1>6. Pick(m) \in m
    BY <1>5, PickIn
  <1>7. g[m \ {Pick(m)}] = h[m \ {Pick(m)}]
    BY <1>2, <1>6
  <1>8. QED
    BY <1>4, <1>5, <1>7

\* A finite set has a table of sums.
LEMMA SumsExist ==
    ASSUME NEW c, NEW T, IsFiniteSet(T)
    PROVE  \E g : SumsTo(c, g, T)
  <1> DEFINE F == {s \in SUBSET T : ~ \E g : SumsTo(c, g, s)}
  <1> SUFFICES ASSUME F # {} PROVE FALSE
    OBVIOUS
  <1>1. \A s \in SUBSET T : IsFiniteSet(s)
    BY FS_Subset
  <1>2. \E m \in F : \A s \in SUBSET m : s \in F => s = m
    <2>1. F \in SUBSET (SUBSET T)
      OBVIOUS
    <2> HIDE DEF F
    <2>2. QED
      BY <2>1, SmallestSet
  <1>3. PICK m \in F : \A s \in SUBSET m : s \in F => s = m
    BY <1>2
  <1> DEFINE g == [s \in SUBSET m |->
                      IF s = {} THEN 0 ELSE c[Pick(s)] + Total(c, s \ {Pick(s)})]
  <1>4. \A s \in SUBSET m : s # m => \E h : SumsTo(c, h, s)
    BY <1>3
  <1>5. ASSUME NEW s \in SUBSET m, s # m
        PROVE  Total(c, s) = IF s = {} THEN 0 ELSE c[Pick(s)] + Total(c, s \ {Pick(s)})
    <2>1. PICK h : SumsTo(c, h, s)
      BY <1>4, <1>5
    <2>2. SumsTo(c, CHOOSE f : SumsTo(c, f, s), s)
      BY <2>1
    <2>3. Total(c, s) = h[s]
      BY <1>1, <2>1, <2>2, SameSums DEF Total
    <2>4. h[s] = IF s = {} THEN 0 ELSE c[Pick(s)] + h[s \ {Pick(s)}]
      BY <2>1, SumsEntry
    <2>5. CASE s # {}
      <3> DEFINE u == s \ {Pick(s)}
      <3>1. u \in SUBSET s /\ u \in SUBSET m /\ u # m
        BY <2>5, PickIn
      <3>2. PICK f : SumsTo(c, f, u)
        BY <1>4, <3>1
      <3>3. SumsTo(c, CHOOSE e : SumsTo(c, e, u), u)
        BY <3>2
      <3>4. Total(c, u) = h[u]
        BY <1>1, <2>1, <3>1, <3>3, SameSums DEF Total
      <3>5. QED
        BY <2>3, <2>4, <2>5, <3>4
    <2>6. QED
      BY <2>3, <2>4, <2>5
  <1>6. ASSUME NEW s \in SUBSET m, s # {} PROVE g[s \ {Pick(s)}] = Total(c, s \ {Pick(s)})
    <2> DEFINE u == s \ {Pick(s)}
    <2>1. u \in SUBSET m /\ u # m
      BY <1>6, PickIn
    <2>2. g[u] = IF u = {} THEN 0 ELSE c[Pick(u)] + Total(c, u \ {Pick(u)})
      BY <2>1
    <2>3. QED
      BY <1>5, <2>1, <2>2
  <1>7. SumsTo(c, g, m)
    <2>1. g = [s \in SUBSET m |-> IF s = {} THEN 0 ELSE c[Pick(s)] + g[s \ {Pick(s)}]]
      BY <1>6
    <2>2. QED
      BY <2>1 DEF SumsTo
  <1>8. QED
    BY <1>7

\* The sum over no element is zero; over more, one of them comes first.
LEMMA TotalStep ==
    ASSUME NEW c, NEW T, IsFiniteSet(T)
    PROVE  Total(c, T) = IF T = {} THEN 0 ELSE c[Pick(T)] + Total(c, T \ {Pick(T)})
  <1> DEFINE h == CHOOSE f : SumsTo(c, f, T)
             u == T \ {Pick(T)}
             k == CHOOSE f : SumsTo(c, f, u)
  <1>1. IsFiniteSet(u)
    BY FS_Subset
  <1>2. SumsTo(c, h, T) /\ SumsTo(c, k, u)
    BY <1>1, SumsExist
  <1> HIDE DEF h, k
  <1>3. h[T] = IF T = {} THEN 0 ELSE c[Pick(T)] + h[u]
    <2>1. T \in SUBSET T
      OBVIOUS
    <2>2. QED
      BY <1>2, <2>1, SumsEntry
  <1>4. h[u] = k[u]
    BY <1>1, <1>2, SameSums
  <1>5. QED
    BY <1>3, <1>4 DEF Total, h, k

\* The sum of integers is an integer.
LEMMA TotalType ==
    ASSUME NEW R, NEW c \in [R -> Int], NEW T \in SUBSET R, IsFiniteSet(T)
    PROVE  Total(c, T) \in Int
  <1> DEFINE F == {s \in SUBSET T : Total(c, s) \notin Int}
  <1> SUFFICES ASSUME F # {} PROVE FALSE
    OBVIOUS
  <1>1. \E m \in F : \A s \in SUBSET m : s \in F => s = m
    <2>1. F \in SUBSET (SUBSET T)
      OBVIOUS
    <2> HIDE DEF F
    <2>2. QED
      BY <2>1, SmallestSet
  <1>2. PICK m \in F : \A s \in SUBSET m : s \in F => s = m
    BY <1>1
  <1>3. Total(c, m) = IF m = {} THEN 0 ELSE c[Pick(m)] + Total(c, m \ {Pick(m)})
    BY FS_Subset, TotalStep
  <1>4. m # {}
    BY <1>3
  <1>5. Pick(m) \in m
    BY <1>4, PickIn
  <1>6. c[Pick(m)] \in Int /\ Total(c, m \ {Pick(m)}) \in Int
    BY <1>2, <1>5
  <1>7. QED
    BY <1>3, <1>4, <1>6

\* Any element may come first.
LEMMA TotalSplit ==
    ASSUME NEW R, NEW c \in [R -> Int], NEW T \in SUBSET R, IsFiniteSet(T), NEW y \in T
    PROVE  Total(c, T) = c[y] + Total(c, T \ {y})
  <1> DEFINE F == {s \in SUBSET T : \E z \in s : Total(c, s) # c[z] + Total(c, s \ {z})}
  <1> SUFFICES ASSUME F # {} PROVE FALSE
    OBVIOUS
  <1>1. \E m \in F : \A s \in SUBSET m : s \in F => s = m
    <2>1. F \in SUBSET (SUBSET T)
      OBVIOUS
    <2> HIDE DEF F
    <2>2. QED
      BY <2>1, SmallestSet
  <1>2. PICK m \in F : \A s \in SUBSET m : s \in F => s = m
    BY <1>1
  <1>3. PICK z \in m : Total(c, m) # c[z] + Total(c, m \ {z})
    OBVIOUS
  <1> DEFINE x == Pick(m)
             b == m \ {z}
  <1>4. \A s \in SUBSET T : IsFiniteSet(s) /\ Total(c, s) \in Int
    BY FS_Subset, TotalType
  <1>5. x \in m /\ Total(c, m) = c[x] + Total(c, m \ {x})
    BY <1>4, PickIn, TotalStep
  <1> HIDE DEF x
  <1>6. x # z
    BY <1>3, <1>5
  <1>7. Total(c, m \ {x}) = c[z] + Total(c, (m \ {x}) \ {z})
    <2>1. m \ {x} \in SUBSET m /\ m \ {x} \in SUBSET T /\ m \ {x} # m /\ z \in m \ {x}
      BY <1>5, <1>6
    <2>2. m \ {x} \notin F
      BY <1>2, <2>1
    <2>3. QED
      BY <2>1, <2>2
  <1>8. Total(c, b) = c[x] + Total(c, b \ {x})
    <2>1. b \in SUBSET m /\ b \in SUBSET T /\ b # m /\ x \in b
      BY <1>5, <1>6
    <2>2. b \notin F
      BY <1>2, <2>1
    <2>3. QED
      BY <2>1, <2>2
  <1>9. b \ {x} = (m \ {x}) \ {z}
    OBVIOUS
  <1>10. c[x] \in Int /\ c[z] \in Int /\ Total(c, b \ {x}) \in Int
    BY <1>4, <1>5
  <1>11. Total(c, m) = c[x] + (c[z] + Total(c, b \ {x})) /\ Total(c, b) = c[x] + Total(c, b \ {x})
    BY <1>5, <1>7, <1>8, <1>9
  <1>12. Total(c, m) = c[z] + Total(c, b)
    BY <1>10, <1>11
  <1>13. QED
    BY <1>3, <1>12

\* The sum reads its own elements only.
LEMMA TotalAgree ==
    ASSUME NEW c, NEW d, NEW T, IsFiniteSet(T), \A r \in T : c[r] = d[r]
    PROVE  Total(c, T) = Total(d, T)
  <1> DEFINE F == {s \in SUBSET T : Total(c, s) # Total(d, s)}
  <1> SUFFICES ASSUME F # {} PROVE FALSE
    OBVIOUS
  <1>1. \E m \in F : \A s \in SUBSET m : s \in F => s = m
    <2>1. F \in SUBSET (SUBSET T)
      OBVIOUS
    <2> HIDE DEF F
    <2>2. QED
      BY <2>1, SmallestSet
  <1>2. PICK m \in F : \A s \in SUBSET m : s \in F => s = m
    BY <1>1
  <1>3. /\ Total(c, m) = IF m = {} THEN 0 ELSE c[Pick(m)] + Total(c, m \ {Pick(m)})
        /\ Total(d, m) = IF m = {} THEN 0 ELSE d[Pick(m)] + Total(d, m \ {Pick(m)})
    BY FS_Subset, TotalStep
  <1>4. m # {}
    BY <1>3
  <1>5. Pick(m) \in m
    BY <1>4, PickIn
  <1>6. Total(c, m \ {Pick(m)}) = Total(d, m \ {Pick(m)}) /\ c[Pick(m)] = d[Pick(m)]
    BY <1>2, <1>5
  <1>7. QED
    BY <1>3, <1>4, <1>6

\* What the requests S take from, or give back to, the buckets of kind k.
Contributions(k) == [r \in Requests |-> Contribution(posted[r][k])]

\* The fold that Available uses is that sum.
LEMMA FoldIsTotal ==
    ASSUME NEW k, NEW S \in SUBSET Requests, IsFiniteSet(S)
    PROVE  MapThenSumSet(LAMBDA r : Contribution(posted[r][k]), S)
              = Total(Contributions(k), S)
  <1> DEFINE c == Contributions(k)
             IsIter(g) == g = [s \in SUBSET S |->
                                 IF s = {} THEN 0
                                 ELSE LET x == CHOOSE x \in s : TRUE
                                      IN  Contribution(posted[x][k]) + g[s \ {x}]]
  <1>1. ASSUME NEW g PROVE IsIter(g) <=> SumsTo(c, g, S)
    <2>1. \A s \in SUBSET S : s # {} =>
             c[Pick(s)] = Contribution(posted[CHOOSE x \in s : TRUE][k])
      BY PickIn DEF Contributions, Pick
    <2>2. QED
      BY <2>1 DEF SumsTo, Pick
  <1>2. PICK h : SumsTo(c, h, S)
    BY SumsExist
  <1> DEFINE i == CHOOSE g : IsIter(g)
  <1>3. IsIter(h)
    BY <1>1, <1>2
  <1>4. IsIter(i)
    <2> HIDE DEF IsIter
    <2>1. QED
      BY <1>3
  <1>5. SumsTo(c, i, S)
    <2> HIDE DEF IsIter, i
    <2>1. QED
      BY <1>1, <1>4
  <1>6. (CHOOSE g : IsIter(g))[S] = h[S]
    <2> HIDE DEF IsIter
    <2>1. QED
      BY <1>5, <1>2, SameSums DEF i
  <1>7. SumsTo(c, CHOOSE g : SumsTo(c, g, S), S)
    BY <1>2
  <1>8. Total(c, S) = h[S]
    BY <1>2, <1>7, SameSums DEF Total
  <1>9. MapThenSumSet(LAMBDA r : Contribution(posted[r][k]), S) = (CHOOSE g : IsIter(g))[S]
    BY DEF MapThenSumSet, MapThenFoldSet
  <1>10. QED
    BY <1>6, <1>8, <1>9

\* A request that was not reserved has posted nothing, an open one has paid nothing,
\* and a bucket earns nothing; finitely many requests were reserved.
Ledgered(t, st) ==
    /\ \A k \in BucketKinds : t[k].settled_credit = 0
    /\ st = "none" => \A k \in Kinds : t[k] = ZeroTally
    /\ st \in {"held", "unresolved"} =>
          t["buyer_quota"].settled_debit = 0 /\ t["buyer_quota"].reversed_credit = 0

Reserved == {r \in Requests : status[r] # "none"}

Postings ==
    /\ TypeOK
    /\ IsFiniteSet(Reserved)
    /\ \A r \in Requests : /\ Ledgered(posted[r], status[r])
                           /\ status[r] # "none" => amount[r] \in Amounts

\* The requests a bucket is shared by.
Sharing(b) == {r \in Requests : status[r] # "none" /\ b \in Buckets(owner[r])}

\* What a bucket still has, as a sum that can be taken apart.
LEMMA AvailableIsTotal ==
    ASSUME IsFiniteSet(Reserved), NEW b
    PROVE  /\ Available(b) = granted[b] + Total(Contributions(b[1]), Sharing(b))
           /\ IsFiniteSet(Sharing(b))
  <1>1. Sharing(b) \in SUBSET Requests /\ IsFiniteSet(Sharing(b))
    BY FS_Subset DEF Sharing, Reserved
  <1>2. MapThenSumSet(LAMBDA r : Contribution(posted[r][b[1]]), Sharing(b))
           = Total(Contributions(b[1]), Sharing(b))
    BY <1>1, FoldIsTotal
  <1>3. QED
    BY <1>1, <1>2 DEF Available, Sharing

LEMMA AvailableIsTotalNext ==
    ASSUME IsFiniteSet(Reserved'), NEW b
    PROVE  /\ Available(b)' = granted'[b] + Total(Contributions(b[1])', Sharing(b)')
           /\ IsFiniteSet(Sharing(b)')
  <1>1. (IsFiniteSet(Reserved) =>
           /\ Available(b) = granted[b] + Total(Contributions(b[1]), Sharing(b))
           /\ IsFiniteSet(Sharing(b)))'
    BY AvailableIsTotal, PTL
  <1>2. QED
    BY <1>1

\* The kind of a bucket.
LEMMA BucketKind ==
    ASSUME NEW b \in AllBuckets
    PROVE  b[1] \in BucketKinds /\ b[1] \in Kinds
  BY DEF AllBuckets, Buckets, BucketKinds, Kinds

\* What holds, releases and reversals do to what is left of a bucket.
LEMMA HoldEffects ==
    ASSUME NEW t \in [Kinds -> Tallies], NEW k \in BucketKinds, NEW a \in Nat
    PROVE  /\ Contribution(t[k]) \in Int
           /\ Contribution(HoldPosts(t, a)[k]) = Contribution(t[k]) - a
           /\ Contribution(ReleasePosts(t, a)[k]) = Contribution(t[k]) + a
           /\ Contribution(ReversePosts(t)[k]) =
                 Contribution(t[k]) + t[k].settled_debit - t[k].settled_credit
           /\ HoldPosts(t, a)[k].settled_credit = t[k].settled_credit
           /\ ReleasePosts(t, a)[k].settled_credit = t[k].settled_credit
           /\ ReversePosts(t)[k].settled_credit = t[k].settled_credit
           /\ HoldPosts(t, a)[k].settled_debit = t[k].settled_debit
           /\ HoldPosts(t, a)[k].reversed_credit = t[k].reversed_credit
  <1>1. k \in Kinds /\ t[k] \in Tallies
    BY DEF Kinds
  <1>2. /\ HoldPosts(t, a)[k] = [t[k] EXCEPT !.reserved = @ + a]
        /\ ReleasePosts(t, a)[k] = [t[k] EXCEPT !.released = @ + a]
        /\ ReversePosts(t)[k] =
              [t[k] EXCEPT !.reversed_credit = @ + t[k].settled_debit,
                           !.reversed_debit = @ + t[k].settled_credit]
    BY <1>1, KindsFacts DEF HoldPosts, ReleasePosts, ReversePosts
  <1>3. QED
    BY <1>1, <1>2, TallyFields DEF Contribution, NetDebit, NetCredit, Hold, Tallies

\* What a settlement does to it.
LEMMA SettleEffects ==
    ASSUME NEW t \in [Kinds -> Tallies], NEW k \in BucketKinds, NEW a \in Nat,
           NEW q \in Quotes
    PROVE  /\ Contribution(SettlePosts(t, a, q)[k]) = Contribution(t[k]) + a - q.buyer
           /\ SettlePosts(t, a, q)[k].settled_credit = t[k].settled_credit
           /\ NetDebit(SettlePosts(t, a, q)[k]) = NetDebit(t[k]) + q.buyer
  <1>1. k \in Kinds /\ t[k] \in Tallies /\ q.buyer \in Int
    BY LedgerConstants DEF Kinds
  <1>2. SettlePosts(t, a, q)[k] =
           [t[k] EXCEPT !.released = @ + a, !.settled_debit = @ + q.buyer]
    BY <1>1, KindsFacts DEF SettlePosts
  <1>3. QED
    BY <1>1, <1>2, TallyFields DEF Contribution, NetDebit, NetCredit, Hold, Tallies

\* What a late amount does to it.
LEMMA DeltaEffects ==
    ASSUME NEW t \in [Kinds -> Tallies], NEW k \in BucketKinds,
           NEW d \in [buyer : Int, seller : Int, spread : Int]
    PROVE  /\ Contribution(DeltaPosts(t, d)[k]) = Contribution(t[k]) - d.buyer
           /\ DeltaPosts(t, d)[k].settled_credit = t[k].settled_credit
           /\ NetDebit(DeltaPosts(t, d)[k]) = NetDebit(t[k]) + d.buyer
  <1>1. k \in Kinds /\ t[k] \in Tallies /\ d.buyer \in Int
    BY DEF Kinds
  <1>2. DeltaPosts(t, d)[k] = IF d.buyer > 0
                              THEN [t[k] EXCEPT !.settled_debit = @ + d.buyer]
                              ELSE [t[k] EXCEPT !.reversed_credit = @ - d.buyer]
    BY <1>1, KindsFacts DEF DeltaPosts, RaisePosts, LowerPosts
  <1>3. QED
    BY <1>1, <1>2, TallyFields DEF Contribution, NetDebit, NetCredit, Hold, Tallies

LEMMA InitPostings == Init => Postings
  <1> SUFFICES ASSUME Init PROVE Postings
    OBVIOUS
  <1>1. Reserved = {}
    BY DEF Init, Reserved
  <1>2. ASSUME NEW r \in Requests PROVE Ledgered(posted[r], status[r]) /\ status[r] = "none"
    <2>1. status[r] = "none" /\ \A k \in Kinds : posted[r][k] = ZeroTally
      BY DEF Init
    <2>2. QED
      BY <2>1, KindsFacts DEF Ledgered, ZeroTally
  <1>3. QED
    BY <1>1, <1>2, InitTypeOK, FS_EmptySet DEF Postings

\* At most one request is reserved in a step.
LEMMA NextReserved ==
    ASSUME TypeOK, IsFiniteSet(Reserved), [Next]_vars
    PROVE  IsFiniteSet(Reserved')
  <1>1. ASSUME NEW r \in Requests, Reserved' \subseteq Reserved \cup {r}
        PROVE  IsFiniteSet(Reserved')
    BY <1>1, FS_AddElement, FS_Subset
  <1>2. ASSUME NEW r \in Requests, \A s \in Requests \ {r} : status'[s] = status[s]
        PROVE  IsFiniteSet(Reserved')
    BY <1>1, <1>2 DEF Reserved
  <1>3. ASSUME NEW r \in Requests, NEW k \in IdemKeys, NEW o \in Owners, NEW a \in Amounts,
               Reserve(r, k, o, a)
        PROVE  IsFiniteSet(Reserved')
    BY <1>2, <1>3 DEF Reserve, TypeOK
  <1>4. ASSUME NEW r \in Requests, NEW q \in Quotes, Settle(r, q) PROVE IsFiniteSet(Reserved')
    BY <1>2, <1>4 DEF Settle, TypeOK
  <1>5. ASSUME NEW r \in Requests, NEW q \in Quotes, ApplyDelta(r, q) PROVE IsFiniteSet(Reserved')
    BY <1>5 DEF ApplyDelta, Reserved
  <1>6. ASSUME NEW r \in Requests, Release(r) PROVE IsFiniteSet(Reserved')
    BY <1>2, <1>6 DEF Release, TypeOK
  <1>7. ASSUME NEW r \in Requests, MarkUnresolved(r) PROVE IsFiniteSet(Reserved')
    BY <1>2, <1>7 DEF MarkUnresolved, TypeOK
  <1>8. ASSUME NEW r \in Requests, Reverse(r) PROVE IsFiniteSet(Reserved')
    BY <1>2, <1>8 DEF Reverse, TypeOK
  <1>9. ASSUME NEW o \in Owners, NEW g \in Grants, SeedQuota(o, g) PROVE IsFiniteSet(Reserved')
    BY <1>9 DEF SeedQuota, Reserved
  <1>10. CASE UNCHANGED vars
    BY <1>10 DEF vars, Reserved
  <1>11. QED
    BY <1>3, <1>4, <1>5, <1>6, <1>7, <1>8, <1>9, <1>10 DEF Next

\* Every operation leaves the postings of its request in order.
LEMMA NextPostings == Postings /\ [Next]_vars => Postings'
  <1> SUFFICES ASSUME Postings, [Next]_vars PROVE Postings'
    OBVIOUS
  <1>1. TypeOK /\ TypeOK' /\ IsFiniteSet(Reserved')
    BY NextTypeOK, NextReserved DEF Postings
  <1> SUFFICES ASSUME NEW s \in Requests
               PROVE  /\ Ledgered(posted'[s], status'[s])
                      /\ status'[s] # "none" => amount'[s] \in Amounts
    BY <1>1 DEF Postings
  <1> DEFINE Kept == /\ Ledgered(posted'[s], status'[s])
                     /\ status'[s] # "none" => amount'[s] \in Amounts
  <1>2. /\ Ledgered(posted[s], status[s])
        /\ status[s] # "none" => amount[s] \in Amounts
        /\ posted[s] \in [Kinds -> Tallies] /\ amount[s] \in Nat
    BY <1>1 DEF Postings, TypeOK
  <1>3. ASSUME NEW r \in Requests, NEW k \in IdemKeys, NEW o \in Owners, NEW a \in Amounts,
               Reserve(r, k, o, a)
        PROVE  Kept
    <2>1. s # r => posted'[s] = posted[s] /\ status'[s] = status[s] /\ amount'[s] = amount[s]
      BY <1>1, <1>3 DEF Reserve, TypeOK
    <2>2. s = r => /\ status[s] = "none" /\ posted'[s] = HoldPosts(posted[s], a)
                   /\ status'[s] = "held" /\ amount'[s] = a
      BY <1>1, <1>3 DEF Reserve, TypeOK
    <2>3. a \in Nat
      BY LedgerConstants
    <2>4. s = r => Ledgered(HoldPosts(posted[s], a), "held")
      <3>1. Ledgered(posted[s], "none") => Ledgered(HoldPosts(posted[s], a), "held")
        BY <1>2, <2>3, KindsFacts, HoldEffects DEF Ledgered, ZeroTally
      <3>2. QED
        BY <1>2, <2>2, <3>1
    <2>5. QED
      BY <1>2, <2>1, <2>2, <2>4
  <1>4. ASSUME NEW r \in Requests, NEW q \in Quotes, Settle(r, q) PROVE Kept
    <2>1. s # r => posted'[s] = posted[s] /\ status'[s] = status[s] /\ amount'[s] = amount[s]
      BY <1>1, <1>4 DEF Settle, TypeOK
    <2>2. s = r => /\ status[s] # "none" /\ posted'[s] = SettlePosts(posted[s], amount[s], q)
                   /\ status'[s] = "consumed" /\ amount'[s] = amount[s]
      BY <1>1, <1>4 DEF Settle, TypeOK
    <2>3. Ledgered(SettlePosts(posted[s], amount[s], q), "consumed")
      BY <1>2, SettleEffects DEF Ledgered
    <2>4. QED
      BY <1>2, <2>1, <2>2, <2>3
  <1>5. ASSUME NEW r \in Requests, NEW q \in Quotes, ApplyDelta(r, q) PROVE Kept
    <2>1. /\ status'[s] = status[s] /\ amount'[s] = amount[s]
          /\ s # r => posted'[s] = posted[s]
      BY <1>1, <1>5 DEF ApplyDelta, TypeOK
    <2>2. s = r => status[s] = "consumed" /\ posted'[s] = DeltaPosts(posted[s], Delta(s, q))
      BY <1>1, <1>5 DEF ApplyDelta, TypeOK
    <2>3. Ledgered(DeltaPosts(posted[s], Delta(s, q)), "consumed")
      BY <1>1, <1>2, DeltaType, DeltaEffects DEF Ledgered
    <2>4. QED
      BY <1>2, <2>1, <2>2, <2>3
  <1>6. ASSUME NEW r \in Requests, Release(r) PROVE Kept
    <2>1. s # r => posted'[s] = posted[s] /\ status'[s] = status[s] /\ amount'[s] = amount[s]
      BY <1>1, <1>6 DEF Release, TypeOK
    <2>2. s = r => /\ status[s] # "none" /\ posted'[s] = ReleasePosts(posted[s], amount[s])
                   /\ status'[s] = "released" /\ amount'[s] = amount[s]
      BY <1>1, <1>6 DEF Release, TypeOK
    <2>3. Ledgered(ReleasePosts(posted[s], amount[s]), "released")
      BY <1>2, HoldEffects DEF Ledgered
    <2>4. QED
      BY <1>2, <2>1, <2>2, <2>3
  <1>7. ASSUME NEW r \in Requests, MarkUnresolved(r) PROVE Kept
    <2>1. posted'[s] = posted[s] /\ amount'[s] = amount[s]
      BY <1>7 DEF MarkUnresolved
    <2>2. /\ s # r => status'[s] = status[s]
          /\ s = r => status[s] = "held" /\ status'[s] = "unresolved"
      BY <1>1, <1>7 DEF MarkUnresolved, TypeOK
    <2>3. QED
      BY <1>2, <2>1, <2>2 DEF Ledgered
  <1>8. ASSUME NEW r \in Requests, Reverse(r) PROVE Kept
    <2>1. s # r => posted'[s] = posted[s] /\ status'[s] = status[s] /\ amount'[s] = amount[s]
      BY <1>1, <1>8 DEF Reverse, TypeOK
    <2>2. s = r => /\ status[s] # "none" /\ posted'[s] = ReversePosts(posted[s])
                   /\ status'[s] = "released" /\ amount'[s] = amount[s]
      BY <1>1, <1>8 DEF Reverse, TypeOK
    <2>3. Ledgered(ReversePosts(posted[s]), "released")
      BY <1>2, HoldEffects DEF Ledgered
    <2>4. QED
      BY <1>2, <2>1, <2>2, <2>3
  <1>9. ASSUME NEW o \in Owners, NEW g \in Grants, SeedQuota(o, g) PROVE Kept
    BY <1>2, <1>9 DEF SeedQuota
  <1>10. CASE UNCHANGED vars
    BY <1>2, <1>10 DEF vars
  <1>11. QED
    BY <1>3, <1>4, <1>5, <1>6, <1>7, <1>8, <1>9, <1>10 DEF Next

\* What each request takes is an integer.
LEMMA ContributionsType ==
    ASSUME TypeOK, NEW k \in BucketKinds
    PROVE  Contributions(k) \in [Requests -> Int]
  <1>1. \A r \in Requests : posted[r] \in [Kinds -> Tallies]
    BY DEF TypeOK
  <1>2. \A r \in Requests : Contribution(posted[r][k]) \in Int
    BY <1>1, HoldEffects
  <1>3. QED
    BY <1>2 DEF Contributions

LEMMA ContributionsTypeNext ==
    ASSUME TypeOK', NEW k \in BucketKinds
    PROVE  Contributions(k)' \in [Requests -> Int]
  <1>1. (TypeOK => Contributions(k) \in [Requests -> Int])'
    BY ContributionsType, PTL
  <1>2. QED
    BY <1>1

\* A step that posts to one reserved request moves a bucket by what it posts there, if
\* the request shares the bucket, and leaves it alone otherwise.
LEMMA OnePosts ==
    ASSUME Postings, Postings', granted' = granted, owner' = owner,
           NEW r \in Requests, status[r] # "none", status'[r] # "none",
           \A s \in Requests \ {r} : status'[s] = status[s] /\ posted'[s] = posted[s],
           NEW b \in AllBuckets
    PROVE  /\ Available(b) \in Int
           /\ Available(b)' =
                 Available(b) + (IF r \in Sharing(b)
                                 THEN Contribution(posted'[r][b[1]]) - Contribution(posted[r][b[1]])
                                 ELSE 0)
  <1> DEFINE k == b[1]
             S == Sharing(b)
             c == Contributions(k)
             e == Contributions(k)'
  <1>1. k \in BucketKinds
    BY BucketKind
  <1>2. c \in [Requests -> Int] /\ e \in [Requests -> Int]
    BY <1>1, ContributionsType, ContributionsTypeNext DEF Postings
  <1>3. /\ Available(b) = granted[b] + Total(c, S)
        /\ Available(b)' = granted[b] + Total(e, S')
        /\ IsFiniteSet(S)
    BY AvailableIsTotal, AvailableIsTotalNext DEF Postings
  <1>4. S' = S /\ S \in SUBSET Requests
    BY DEF Sharing
  <1>5. granted[b] \in Int
    BY DEF Postings, TypeOK
  <1>6. /\ \A s \in Requests : c[s] = Contribution(posted[s][k]) /\ e[s] = Contribution(posted'[s][k])
        /\ \A s \in Requests \ {r} : e[s] = c[s]
    BY DEF Contributions
  <1> HIDE DEF c, e, S, k
  <1>7. CASE r \notin S
    <2>1. Total(e, S) = Total(c, S)
      BY <1>3, <1>4, <1>6, <1>7, TotalAgree
    <2>2. Total(c, S) \in Int
      BY <1>2, <1>3, <1>4, TotalType
    <2>3. QED
      BY <1>3, <1>4, <1>5, <1>7, <2>1, <2>2 DEF S
  <1>8. CASE r \in S
    <2> DEFINE U == S \ {r}
    <2>1. Total(c, S) = c[r] + Total(c, U) /\ Total(e, S) = e[r] + Total(e, U)
      BY <1>2, <1>3, <1>4, <1>8, TotalSplit
    <2>2. IsFiniteSet(U) /\ U \in SUBSET Requests
      BY <1>3, <1>4, FS_Subset
    <2>3. Total(e, U) = Total(c, U)
      BY <1>4, <1>6, <2>2, TotalAgree
    <2>4. Total(c, U) \in Int /\ c[r] \in Int /\ e[r] \in Int
      BY <1>2, <2>2, TotalType
    <2>5. c[r] = Contribution(posted[r][k]) /\ e[r] = Contribution(posted'[r][k])
      BY <1>6
    <2> HIDE DEF U
    <2>6. Available(b)' = Available(b) + (e[r] - c[r])
      BY <1>3, <1>4, <1>5, <2>1, <2>3, <2>4
    <2>7. Available(b) \in Int
      BY <1>3, <1>5, <2>1, <2>4
    <2>8. QED
      BY <1>8, <2>5, <2>6, <2>7 DEF S, k
  <1>9. QED
    BY <1>7, <1>8

\* The reservation of an untouched request takes its hold from the buckets of its owner
\* and leaves the others alone.
LEMMA OneReserves ==
    ASSUME Postings, Postings', NEW b \in AllBuckets,
           NEW r \in Requests, NEW j \in IdemKeys, NEW o \in Owners, NEW a \in Amounts,
           Reserve(r, j, o, a)
    PROVE  Available(b) >= 0 => Available(b)' >= 0
  <1> DEFINE k == b[1]
             S == Sharing(b)
             c == Contributions(k)
             e == Contributions(k)'
  <1>1. k \in BucketKinds /\ k \in Kinds
    BY BucketKind
  <1>2. c \in [Requests -> Int] /\ e \in [Requests -> Int]
    BY <1>1, ContributionsType, ContributionsTypeNext DEF Postings
  <1>3. /\ Available(b) = granted[b] + Total(c, S)
        /\ Available(b)' = granted[b] + Total(e, S')
        /\ IsFiniteSet(S) /\ IsFiniteSet(S')
    BY AvailableIsTotal, AvailableIsTotalNext DEF Postings, Reserve
  <1>4. /\ S \in SUBSET Requests /\ r \notin S
        /\ S' = IF b \in Buckets(o) THEN S \cup {r} ELSE S
    BY DEF Sharing, Postings, TypeOK, Reserve
  <1>5. granted[b] \in Int /\ Total(c, S) \in Int
    BY <1>2, <1>3, <1>4, TotalType DEF Postings, TypeOK
  <1>6. \A s \in Requests \ {r} : e[s] = c[s]
    BY DEF Contributions, Reserve, Postings, TypeOK
  <1>7. e[r] = 0 - a /\ a \in Nat
    <2>1. posted'[r] = HoldPosts(posted[r], a) /\ status[r] = "none"
      BY DEF Reserve, Postings, TypeOK
    <2>2. posted[r][k] = ZeroTally /\ posted[r] \in [Kinds -> Tallies]
      BY <1>1, <2>1 DEF Postings, Ledgered, TypeOK
    <2>3. Contribution(ZeroTally) = 0
      BY DEF Contribution, NetCredit, NetDebit, Hold, ZeroTally
    <2>4. a \in Nat
      BY LedgerConstants
    <2>5. Contribution(posted'[r][k]) = 0 - a
      BY <1>1, <2>1, <2>2, <2>3, <2>4, HoldEffects
    <2>6. QED
      BY <2>4, <2>5 DEF Contributions
  <1> HIDE DEF c, e, S, k
  <1>8. Total(e, S) = Total(c, S)
    BY <1>3, <1>4, <1>6, TotalAgree
  <1>9. CASE b \in Buckets(o)
    <2>1. Available(b) >= a
      BY <1>9 DEF Reserve
    <2>2. S' \in SUBSET Requests /\ r \in S' /\ S' \ {r} = S
      BY <1>4, <1>9
    <2>3. Total(e, S') = e[r] + Total(e, S)
      BY <1>2, <1>3, <2>2, TotalSplit
    <2>4. QED
      BY <1>3, <1>5, <1>7, <1>8, <2>1, <2>3
  <1>10. CASE b \notin Buckets(o)
    BY <1>3, <1>4, <1>8, <1>10
  <1>11. QED
    BY <1>9, <1>10

\* Raising one number of a function lowers none.
LEMMA AddAtGrows ==
    ASSUME NEW S, NEW f \in [S -> Nat], NEW x, NEW n \in Nat, NEW y \in S
    PROVE  [f EXCEPT ![x] = @ + n][y] >= f[y]
  <1>1. f[y] \in Nat /\ f[y] + n \in Nat /\ f[y] + n >= f[y] /\ f[y] >= f[y]
    OBVIOUS
  <1>2. CASE x = y
    BY <1>1, <1>2
  <1>3. CASE x # y
    BY <1>1, <1>3
  <1>4. QED
    BY <1>2, <1>3

\* A step that posts nothing and reserves nothing leaves a bucket no poorer than its grants.
LEMMA NonePosts ==
    ASSUME Postings, Postings', NEW b \in AllBuckets, granted'[b] >= granted[b],
           owner' = owner, posted' = posted,
           \A s \in Requests : status[s] # "none" <=> status'[s] # "none"
    PROVE  Available(b) >= 0 => Available(b)' >= 0
  <1>1. Contributions(b[1])' = Contributions(b[1]) /\ Sharing(b)' = Sharing(b)
    BY DEF Contributions, Sharing
  <1>2. Sharing(b) \in SUBSET Requests
    BY DEF Sharing
  <1>3. /\ Available(b) = granted[b] + Total(Contributions(b[1]), Sharing(b))
        /\ Available(b)' = granted'[b] + Total(Contributions(b[1]), Sharing(b))
        /\ IsFiniteSet(Sharing(b))
    BY <1>1, AvailableIsTotal, AvailableIsTotalNext DEF Postings
  <1>4. Total(Contributions(b[1]), Sharing(b)) \in Int
    BY <1>2, <1>3, BucketKind, ContributionsType, TotalType DEF Postings
  <1>5. granted[b] \in Int /\ granted'[b] \in Int
    BY DEF Postings, TypeOK
  <1>6. QED
    BY <1>3, <1>4, <1>5

\* A step that takes a bucket below zero either raises a settled cost or settles a
\* request above its hold.
LEMMA StepOverdraws ==
    ASSUME Postings, Postings', [Next]_vars, NEW b \in AllBuckets,
           Available(b) >= 0, Available(b)' < 0
    PROVE  \E r \in Requests :
              /\ Charge(r)' > Charge(r)
              /\ status[r] = "consumed" \/ Charge(r)' > amount[r]
  <1> DEFINE k == b[1]
             Cause == \E r \in Requests :
              /\ Charge(r)' > Charge(r)
              /\ status[r] = "consumed" \/ Charge(r)' > amount[r]
  <1>1. /\ k \in BucketKinds /\ "buyer_quota" \in BucketKinds
        /\ \A s \in Requests : posted[s] \in [Kinds -> Tallies] /\ amount[s] \in Nat
        /\ \A s \in Requests : Contribution(posted[s][k]) \in Int
    <2>1. \A s \in Requests : posted[s] \in [Kinds -> Tallies] /\ amount[s] \in Nat
      BY DEF Postings, TypeOK
    <2>2. QED
      BY <2>1, BucketKind, KindsFacts, HoldEffects
  <1>2. ~ (Available(b)' >= 0)
    <2>1. Available(b)' \in Int
      <3>1. /\ Contributions(k)' \in [Requests -> Int]
            /\ Available(b)' = granted'[b] + Total(Contributions(k)', Sharing(b)')
            /\ IsFiniteSet(Sharing(b)')
        BY <1>1, ContributionsTypeNext, AvailableIsTotalNext DEF Postings
      <3>2. Sharing(b)' \in SUBSET Requests
        BY DEF Sharing
      <3>3. granted'[b] \in Int
        BY DEF Postings, TypeOK
      <3>4. QED
        BY <3>1, <3>2, <3>3, TotalType
    <2>2. QED
      BY <2>1
  <1>3. ASSUME NEW r \in Requests, status[r] # "none", status'[r] # "none",
               granted' = granted, owner' = owner,
               \A s \in Requests \ {r} : status'[s] = status[s] /\ posted'[s] = posted[s],
               NEW n \in Nat,
               Contribution(posted'[r][k]) = Contribution(posted[r][k]) + n
        PROVE  FALSE
    <2>1. /\ Available(b) \in Int
          /\ Available(b)' = Available(b) +
               (IF r \in Sharing(b)
                THEN Contribution(posted'[r][k]) - Contribution(posted[r][k]) ELSE 0)
      BY <1>3, OnePosts
    <2>2. Available(b)' = Available(b) + (IF r \in Sharing(b) THEN n ELSE 0)
      BY <1>1, <1>3, <2>1
    <2>3. QED
      BY <1>2, <2>1, <2>2
  <1>4. ASSUME NEW r \in Requests, NEW j \in IdemKeys, NEW o \in Owners, NEW a \in Amounts,
               Reserve(r, j, o, a)
        PROVE  Cause
    BY <1>2, <1>4, OneReserves
  <1>5. ASSUME NEW r \in Requests, NEW q \in Quotes, Settle(r, q) PROVE Cause
    <2>1. /\ status[r] \in {"held", "unresolved"} /\ status'[r] = "consumed"
          /\ granted' = granted /\ owner' = owner
          /\ \A s \in Requests \ {r} : status'[s] = status[s] /\ posted'[s] = posted[s]
          /\ posted'[r] = SettlePosts(posted[r], amount[r], q)
      BY <1>5 DEF Settle, Postings, TypeOK
    <2>2. Contribution(posted'[r][k]) = Contribution(posted[r][k]) + amount[r] - q.buyer
      BY <1>1, <2>1, SettleEffects
    <2>3. q.buyer \in Nat /\ amount[r] \in Amounts
      BY <1>5, <2>1, LedgerConstants DEF Postings, Settle, NonNegative
    <2>4. q.buyer > amount[r]
      <3> SUFFICES ASSUME ~ (q.buyer > amount[r]) PROVE FALSE
        OBVIOUS
      <3> DEFINE n == amount[r] - q.buyer
      <3>1. n \in Nat
        BY <1>1, <2>3
      <3>2. Contribution(posted'[r][k]) = Contribution(posted[r][k]) + n
        BY <1>1, <2>2, <2>3
      <3> HIDE DEF n
      <3>3. QED
        BY <1>3, <2>1, <3>1, <3>2
    <2>5. Charge(r) = 0 /\ Charge(r)' = q.buyer
      <3>1. NetDebit(posted[r]["buyer_quota"]) = 0
        BY <2>1 DEF Postings, Ledgered, NetDebit
      <3>2. NetDebit(posted'[r]["buyer_quota"]) = q.buyer
        BY <1>1, <2>1, <2>3, <3>1, SettleEffects
      <3>3. QED
        BY <3>1, <3>2 DEF Charge
    <2>6. QED
      BY <1>1, <2>3, <2>4, <2>5
  <1>6. ASSUME NEW r \in Requests, NEW q \in Quotes, ApplyDelta(r, q) PROVE Cause
    <2> DEFINE d == Delta(r, q)
    <2>1. /\ status[r] = "consumed" /\ status' = status
          /\ granted' = granted /\ owner' = owner
          /\ \A s \in Requests \ {r} : posted'[s] = posted[s]
          /\ posted'[r] = DeltaPosts(posted[r], d)
      BY <1>6 DEF ApplyDelta, Postings, TypeOK
    <2>2. d \in [buyer : Int, seller : Int, spread : Int]
      BY DeltaType DEF Postings
    <2> HIDE DEF d
    <2>3. /\ Contribution(posted'[r][k]) = Contribution(posted[r][k]) - d.buyer
          /\ NetDebit(posted'[r]["buyer_quota"]) = NetDebit(posted[r]["buyer_quota"]) + d.buyer
      BY <1>1, <2>1, <2>2, DeltaEffects
    <2>4. d.buyer \in Int
      BY <2>2
    <2>5. d.buyer > 0
      <3> SUFFICES ASSUME ~ (d.buyer > 0) PROVE FALSE
        OBVIOUS
      <3> DEFINE n == 0 - d.buyer
      <3>1. n \in Nat
        BY <2>4
      <3>2. Contribution(posted'[r][k]) = Contribution(posted[r][k]) + n
        BY <1>1, <2>3, <2>4
      <3> HIDE DEF n
      <3>3. QED
        BY <1>3, <2>1, <3>1, <3>2
    <2>6. NetDebit(posted[r]["buyer_quota"]) \in Int
      BY <1>1, KindsFacts, TallyFields DEF NetDebit
    <2>7. Charge(r)' > Charge(r)
      BY <2>3, <2>4, <2>5, <2>6 DEF Charge
    <2>8. QED
      BY <2>1, <2>7
  <1>7. ASSUME NEW r \in Requests, Release(r) PROVE Cause
    <2>1. /\ status[r] = "held" /\ status'[r] = "released"
          /\ granted' = granted /\ owner' = owner
          /\ \A s \in Requests \ {r} : status'[s] = status[s] /\ posted'[s] = posted[s]
          /\ posted'[r] = ReleasePosts(posted[r], amount[r])
      BY <1>7 DEF Release, Postings, TypeOK
    <2>2. Contribution(posted'[r][k]) = Contribution(posted[r][k]) + amount[r]
      BY <1>1, <2>1, HoldEffects
    <2>3. QED
      BY <1>1, <1>3, <2>1, <2>2
  <1>8. ASSUME NEW r \in Requests, MarkUnresolved(r) PROVE Cause
    <2>1. /\ granted' = granted /\ owner' = owner /\ posted' = posted
          /\ \A s \in Requests : status[s] # "none" <=> status'[s] # "none"
          /\ granted'[b] >= granted[b]
      BY <1>8 DEF MarkUnresolved, Postings, TypeOK
    <2>2. QED
      BY <1>2, <2>1, NonePosts
  <1>9. ASSUME NEW r \in Requests, Reverse(r) PROVE Cause
    <2>1. /\ status[r] = "consumed" /\ status'[r] = "released"
          /\ granted' = granted /\ owner' = owner
          /\ \A s \in Requests \ {r} : status'[s] = status[s] /\ posted'[s] = posted[s]
          /\ posted'[r] = ReversePosts(posted[r])
      BY <1>9 DEF Reverse, Postings, TypeOK
    <2>2. /\ posted[r][k].settled_credit = 0
          /\ posted[r][k].settled_debit \in Nat
      BY <1>1, BucketKind, TallyFields DEF Postings, Ledgered
    <2>3. Contribution(posted'[r][k]) = Contribution(posted[r][k]) + posted[r][k].settled_debit
      BY <1>1, <2>1, <2>2, HoldEffects
    <2>4. QED
      BY <1>3, <2>1, <2>2, <2>3
  <1>10. ASSUME NEW o \in Owners, NEW g \in Grants, SeedQuota(o, g) PROVE Cause
    <2>1. /\ g.account \in Nat /\ g.project \in Nat /\ g.key \in Nat
          /\ granted \in [AllBuckets -> Nat]
      BY LedgerConstants DEF Postings, TypeOK
    <2>a. \A f \in [AllBuckets -> Nat], n \in Nat : \A x :
             /\ [f EXCEPT ![x] = @ + n] \in [AllBuckets -> Nat]
             /\ [f EXCEPT ![x] = @ + n][b] >= f[b]
      BY AddAt, AddAtGrows
    <2> DEFINE One == [granted EXCEPT ![<<"buyer_quota", o.account>>] = @ + g.account]
               Two == [One EXCEPT ![<<"project_quota", o.project>>] = @ + g.project]
               All == [Two EXCEPT ![<<"key_quota", o.key>>] = @ + g.key]
    <2>2. granted' = All
      BY <1>10, Zenon DEF SeedQuota, One, Two, All
    <2>3. One \in [AllBuckets -> Nat] /\ One[b] >= granted[b]
      BY <2>1, <2>a, Zenon
    <2> HIDE DEF One
    <2>4. Two \in [AllBuckets -> Nat] /\ Two[b] >= One[b]
      BY <2>1, <2>3, <2>a, Zenon
    <2> HIDE DEF Two
    <2>5. All \in [AllBuckets -> Nat] /\ All[b] >= Two[b]
      BY <2>1, <2>4, <2>a, Zenon
    <2> HIDE DEF All
    <2>6. granted'[b] >= granted[b]
      <3>1. granted[b] \in Nat /\ One[b] \in Nat /\ Two[b] \in Nat /\ All[b] \in Nat
        BY <2>1, <2>3, <2>4, <2>5
      <3>2. QED
        BY <2>2, <2>3, <2>4, <2>5, <3>1
    <2>7. QED
      BY <1>2, <1>10, <2>6, NonePosts DEF SeedQuota
  <1>11. CASE UNCHANGED vars
    <2>1. /\ granted' = granted /\ owner' = owner /\ posted' = posted /\ status' = status
          /\ granted'[b] >= granted[b]
      BY <1>11 DEF vars, Postings, TypeOK
    <2>2. QED
      BY <1>2, <2>1, NonePosts
  <1>12. QED
    BY <1>4, <1>5, <1>6, <1>7, <1>8, <1>9, <1>10, <1>11 DEF Next

\* Whatever is held, settled, corrected and reversed, by any number of requests that share
\* buckets, only a charge above the hold or a late amount that rises overdraws one.
THEOREM NeverOverdrawn == Spec => NoOverdraft
  <1> DEFINE Overdrawn == \E b \in AllBuckets : Available(b) >= 0 /\ Available(b)' < 0
             Charged == \E r \in Requests :
                           /\ Charge(r)' > Charge(r)
                           /\ status[r] = "consumed" \/ Charge(r)' > amount[r]
  <1>1. Postings /\ Postings' /\ [Next]_vars => (Overdrawn => Charged)
    <2> SUFFICES ASSUME Postings, Postings', [Next]_vars, Overdrawn PROVE Charged
      OBVIOUS
    <2>1. QED
      BY StepOverdraws
  <1>2. QED
    BY <1>1, InitPostings, NextPostings, PTL DEF Spec, NoOverdraft
=============================================================================
