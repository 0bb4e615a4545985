---------------------------- MODULE ReconProofs ----------------------------
(***************************************************************************)
(* Proofs about Recon: types, that no hold drops out of sight, and that a  *)
(* reported cost stands.                                                   *)
(*                                                                         *)
(* What the service does to the ledger is a ledger step, save for a tick,  *)
(* which settles several requests at once (LedgerOrTick).  So the ledger's *)
(* invariants carry over, with the case of a tick added.                   *)
(***************************************************************************)
EXTENDS Recon, LedgerProofs

----------------------------------------------------------------------------
(* The ledger under reconciliation.                                        *)

\* An amount the ledger accepts is a quote.
LEMMA EvidenceQuote ==
    ASSUME NEW e \in Events, e.quote # NoQuote, AddsUp(e.quote)
    PROVE  e.quote \in Quotes
  BY ReconConstants DEF AddsUp

\* Evidence either leaves the ledger alone or is one of its operations.
LEMMA EvidenceSteps ==
    ASSUME NEW e \in Events
    PROVE  /\ IngestDoubt(e) => [Next]_vars
           /\ IngestCost(e) => [Next]_vars
  <1>1. e.request \in Requests
    BY ReconConstants
  <1>2. ASSUME IngestDoubt(e) PROVE [Next]_vars
    BY <1>1, <1>2 DEF IngestDoubt, Next
  <1>3. ASSUME IngestCost(e) PROVE [Next]_vars
    <2>1. CASE Takes(e)
      <3>1. e.quote \in Quotes
        BY <1>3, <2>1, EvidenceQuote DEF IngestCost, Takes
      <3>2. QED
        BY <1>1, <2>1, <3>1 DEF Takes, Next
    <2>2. CASE TakesNot(e)
      BY <2>2 DEF TakesNot
    <2>3. QED
      BY <1>3, <2>1, <2>2 DEF IngestCost
  <1>4. QED
    BY <1>2, <1>3

\* Every step but a tick is a step of the ledger, or none.
LEMMA LedgerOrTick ==
    ASSUME [ReconNext]_allVars PROVE [Next]_vars \/ Tick
  <1>1. LedgerCall => Next
    BY DEF LedgerCall, Next
  <1>2. ASSUME NEW e \in Events, IngestRefused(e) \/ IngestDoubt(e) \/ IngestEmpty(e) \/ IngestCost(e)
        PROVE  [Next]_vars
    BY <1>2, EvidenceSteps DEF IngestRefused, IngestEmpty
  <1>3. ASSUME NEW r \in Requests, PreviewReverse(r) \/ ApplyReverse(r) PROVE [Next]_vars
    BY <1>3 DEF PreviewReverse, ApplyReverse, Next
  <1>4. Advance \/ UNCHANGED allVars => UNCHANGED vars
    BY DEF Advance, allVars
  <1>5. QED
    BY <1>1, <1>2, <1>3, <1>4 DEF ReconNext

\* A tick settles open requests only, each at a quote, and touches no other.
LEMMA TickOnLedger ==
    ASSUME ReconTypeOK, Tick, NEW r \in Requests
    PROVE  \/ /\ Open(r) /\ amounts[r] \in Quotes /\ NonNegative(amounts[r])
              /\ posted'[r] = SettlePosts(posted[r], amount[r], amounts[r])
              /\ status'[r] = "consumed" /\ amount'[r] = amount[r]
           \/ posted'[r] = posted[r] /\ status'[r] = status[r] /\ amount'[r] = amount[r]
  <1>1. CASE r \in TickSettles
    <2>1. Due(r) /\ Costed(r) /\ Open(r) /\ r \in HandledCases
      BY <1>1 DEF TickSettles
    <2>2. PICK i \in DOMAIN order : Handled(i) /\ order[i] = r
      BY <2>1 DEF HandledCases
    <2>3. order \in Seq(Requests) /\ i \in 1..Len(order)
      BY DEF ReconTypeOK
    <2>4. i \in 1..i
      BY <2>3
    <2>5. ~Fails(r)
      BY <2>2, <2>4 DEF Handled
    <2>6. AddsUp(amounts[r]) /\ NonNegative(amounts[r]) /\ amounts[r] # NoQuote
      BY <2>1, <2>5 DEF Fails, Costed, Settleable
    <2>7. amounts[r] \in Quotes
      <3>1. amounts[r] \in Quotes \cup {e.quote : e \in Events}
        BY <2>6 DEF ReconTypeOK, Quoted
      <3>2. ASSUME NEW e \in Events, amounts[r] = e.quote PROVE e.quote \in Quotes
        BY <2>6, <3>2, ReconConstants DEF AddsUp
      <3>3. QED
        BY <3>1, <3>2
    <2>8. QED
      BY <1>1, <2>1, <2>6, <2>7 DEF Tick
  <1>2. CASE r \notin TickSettles
    BY <1>2 DEF Tick
  <1>3. QED
    BY <1>1, <1>2

\* The types of the ledger last over a tick.
LEMMA TickTypes ==
    ASSUME ReconTypeOK, Tick PROVE TypeOK'
  <1>1. TypeOK
    BY DEF ReconTypeOK
  <1>2. ASSUME NEW r \in Requests
        PROVE  posted'[r] \in [Kinds -> Tallies] /\ status'[r] \in Statuses
    <2>1. posted[r] \in [Kinds -> Tallies] /\ status[r] \in Statuses /\ amount[r] \in Nat
      BY <1>1 DEF TypeOK
    <2>2. "consumed" \in Statuses
      BY DEF Statuses
    <2>3. QED
      BY <2>1, <2>2, TickOnLedger, SettleType
  <1>3. /\ posted' = [r \in Requests |-> posted'[r]]
        /\ status' = [r \in Requests |-> status'[r]]
    BY DEF Tick
  <1>4. posted' \in [Requests -> [Kinds -> Tallies]] /\ status' \in [Requests -> Statuses]
    BY <1>2, <1>3
  <1>5. QED
    BY <1>1, <1>4 DEF TypeOK, Tick

\* The types of the ledger, and the hold of every request, last.
LEMMA LedgerStays ==
    ASSUME ReconTypeOK, Holds, [ReconNext]_allVars
    PROVE  TypeOK' /\ Holds'
  <1>1. CASE [Next]_vars
    BY <1>1, NextHolds DEF Holds
  <1>2. CASE Tick
    <2>1. TypeOK'
      BY <1>2, TickTypes
    <2>2. ASSUME NEW r \in Requests PROVE HoldOK(posted'[r], status'[r], amount'[r])
      <3>1. /\ HoldOK(posted[r], status[r], amount[r])
            /\ posted[r] \in [Kinds -> Tallies] /\ amount[r] \in Nat
        BY DEF Holds, TypeOK
      <3>2. CASE /\ Open(r) /\ amounts[r] \in Quotes /\ NonNegative(amounts[r])
                 /\ posted'[r] = SettlePosts(posted[r], amount[r], amounts[r])
                 /\ status'[r] = "consumed" /\ amount'[r] = amount[r]
        <4>1. status[r] \in {"held", "unresolved"}
          BY <3>2 DEF Open
        <4>2. QED
          BY <3>1, <3>2, <4>1, PostsHold
      <3>3. QED
        BY <1>2, <3>1, <3>2, TickOnLedger
    <2>3. QED
      BY <2>1, <2>2 DEF Holds
  <1>3. QED
    BY <1>1, <1>2, LedgerOrTick

----------------------------------------------------------------------------
(* Cases.                                                                  *)

Recs == [st : CaseStates, retry : Nat, sla : Nat]

\* The list that a tick follows names every case once.
Listed(o, c) ==
    /\ o \in Seq(Requests)
    /\ \A i, j \in DOMAIN o : o[i] = o[j] => i = j
    /\ {o[i] : i \in DOMAIN o} = {r \in Requests : c[r].st # "absent"}

\* A case keeps its request in doubt, and closes with it.
Cased(c, st) ==
    /\ c # "absent" => st \notin {"none", "held"}
    /\ c = "recovered" => st \notin {"held", "unresolved"}

CasesFit == \A r \in Requests : Cased(cases[r].st, status[r])

\* What evidence of doubt does to the cases: one is opened.
LEMMA Opened ==
    ASSUME ReconTypeOK, NEW e \in Events, IngestDoubt(e)
    PROVE  LET r == e.request IN
           /\ cases' \in [Requests -> Recs] /\ r \in Requests
           /\ cases'[r].st = "open" /\ status'[r] = "unresolved"
           /\ \A s \in Requests \ {r} : cases'[s] = cases[s]
  <1> DEFINE r == e.request
  <1>1. r \in Requests /\ cases \in [Requests -> Recs]
    BY ReconConstants DEF ReconTypeOK, Recs
  <1>2. now + RetryFirst \in Nat /\ now + Sla \in Nat
    BY ReconConstants DEF ReconTypeOK
  <1>3. cases' = [cases EXCEPT ![r] = [st |-> "open", retry |-> now + RetryFirst, sla |-> now + Sla]]
    BY DEF IngestDoubt, NewCase
  <1>4. [st |-> "open", retry |-> now + RetryFirst, sla |-> now + Sla] \in Recs
    BY <1>2 DEF Recs, CaseStates
  <1>5. status'[r] = "unresolved"
    BY <1>1 DEF IngestDoubt, MarkUnresolved, ReconTypeOK, TypeOK, vars
  <1>6. QED
    BY <1>1, <1>3, <1>4, <1>5

\* A cost the ledger took closes the case of its request.
LEMMA Closed ==
    ASSUME ReconTypeOK, NEW e \in Events, IngestCost(e)
    PROVE  LET r == e.request IN
           /\ cases' \in [Requests -> Recs] /\ r \in Requests
           /\ \A s \in Requests \ {r} : cases'[s] = cases[s]
           /\ \/ cases'[r] = cases[r]
              \/ cases[r].st # "absent" /\ cases'[r].st = "recovered" /\ status'[r] = "consumed"
  <1> DEFINE r == e.request
  <1>1. r \in Requests /\ cases \in [Requests -> Recs]
    BY ReconConstants DEF ReconTypeOK, Recs
  <1>2. [cases[r] EXCEPT !.st = "recovered"] \in Recs
    BY <1>1 DEF Recs, CaseStates
  <1>3. Close(r) = cases \/ (cases[r].st # "absent" /\ Close(r) = [cases EXCEPT ![r] = [cases[r] EXCEPT !.st = "recovered"]])
    BY <1>1 DEF Close, InCase
  <1>4. CASE cases' = cases
    BY <1>1, <1>4
  <1>5. CASE Takes(e) /\ cases' = Close(r) /\ cases' # cases
    <2>1. status'[r] = "consumed"
      BY <1>1, <1>5 DEF Takes, Settle, ApplyDelta, ReconTypeOK, TypeOK, vars
    <2>2. cases[r].st # "absent" /\ cases' = [cases EXCEPT ![r] = [cases[r] EXCEPT !.st = "recovered"]]
      BY <1>3, <1>5
    <2>3. cases' \in [Requests -> Recs] /\ \A s \in Requests \ {r} : cases'[s] = cases[s]
      BY <1>1, <1>2, <2>2
    <2>4. cases'[r] = [cases[r] EXCEPT !.st = "recovered"]
      BY <1>1, <2>2
    <2>5. cases'[r].st = "recovered"
      BY <1>1, <2>4 DEF Recs
    <2>6. QED
      BY <1>1, <2>1, <2>2, <2>3, <2>5
  <1>6. QED
    BY <1>4, <1>5 DEF IngestCost

\* A tick puts off, hands over or closes an open case; it closes one only when its
\* request is settled.
LEMMA Ticked ==
    ASSUME ReconTypeOK, CasesFit, Tick
    PROVE  /\ cases' \in [Requests -> Recs]
           /\ \A r \in Requests :
                 \/ cases'[r].st = cases[r].st
                 \/ cases[r].st = "open" /\ cases'[r].st = "manual"
                 \/ cases[r].st = "open" /\ cases'[r].st = "recovered" /\ ~Open(r)'
  <1>1. cases \in [Requests -> Recs] /\ now + RetryAgain \in Nat
    BY ReconConstants DEF ReconTypeOK, Recs
  <1>2. ASSUME NEW r \in Requests
        PROVE  /\ cases'[r] \in Recs
               /\ \/ cases'[r].st = cases[r].st
                  \/ cases[r].st = "open" /\ cases'[r].st = "manual"
                  \/ cases[r].st = "open" /\ cases'[r].st = "recovered" /\ ~Open(r)'
    <2>1. cases[r] \in Recs
      BY <1>1
    <2>2. CASE r \in HandledCases /\ Expired(r)
      <3>4. ~Due(r)
        BY <1>1, <2>1, <2>2 DEF Due, Expired, Recs, ReconTypeOK
      <3>1. cases'[r] = [cases[r] EXCEPT !.st = "manual"]
        BY <2>2, <3>4 DEF Tick
      <3>2. cases[r].st = "open"
        BY <2>2 DEF Expired, InCase
      <3>3. QED
        BY <2>1, <3>1, <3>2 DEF Recs, CaseStates
    <2>3. CASE r \in HandledCases /\ Due(r) /\ Costed(r) /\ ~Expired(r)
      <3>1. cases'[r] = [cases[r] EXCEPT !.st = "recovered"]
        BY <2>3 DEF Tick
      <3>5. cases[r].st = "open"
        BY <2>3 DEF Due, InCase
      <3>2. Open(r) => r \in TickSettles
        BY <2>3 DEF TickSettles
      <3>3. ~Open(r)'
        BY <3>2 DEF Tick, Open
      <3>4. QED
        BY <2>1, <3>1, <3>3, <3>5 DEF Recs, CaseStates
    <2>4. CASE r \in HandledCases /\ Due(r) /\ ~Costed(r) /\ ~Expired(r)
      <3>1. cases'[r] = [cases[r] EXCEPT !.retry = now + RetryAgain]
        BY <2>4 DEF Tick
      <3>2. QED
        BY <1>1, <2>1, <3>1 DEF Recs
    <2>5. CASE ~(r \in HandledCases /\ (Expired(r) \/ Due(r)))
      <3>1. cases'[r] = cases[r]
        BY <2>5 DEF Tick
      <3>2. QED
        BY <2>1, <3>1
    <2>6. QED
      BY <2>2, <2>3, <2>4, <2>5
  <1>3. cases' = [r \in Requests |-> cases'[r]]
    BY DEF Tick
  <1>4. QED
    BY <1>2, <1>3

\* No ledger step takes a request in doubt, or past it, back to a plain hold.
LEMMA NoWayBack ==
    ASSUME ReconTypeOK, [Next]_vars \/ Tick, NEW r \in Requests
    PROVE  /\ status[r] \notin {"none", "held"} => status'[r] \notin {"none", "held"}
           /\ status[r] \in {"consumed", "released"} => status'[r] \in {"consumed", "released"}
  <1>1. TypeOK
    BY DEF ReconTypeOK
  <1>2. CASE [Next]_vars
    BY <1>1, <1>2
    DEF Next, SeedQuota, Reserve, Settle, ApplyDelta, Release, MarkUnresolved, Reverse, TypeOK, vars
  <1>3. CASE Tick
    BY <1>3, TickOnLedger
  <1>4. QED
    BY <1>2, <1>3

----------------------------------------------------------------------------
(* The inductive invariant.                                                *)

RInv == ReconTypeOK /\ Holds /\ CasesFit

\* The parts of ReconTypeOK that a step of the service can disturb.
LEMMA TypeParts ==
    ReconTypeOK <=>
        /\ TypeOK
        /\ seen \subseteq {e.id : e \in Events} /\ previews \subseteq Requests /\ now \in 0..MaxNow
        /\ amounts \in [Requests -> Quoted] /\ reported \in [Requests -> Quoted]
        /\ cases \in [Requests -> Recs] /\ Listed(order, cases)
  BY DEF ReconTypeOK, Recs, Listed, InCase

\* A case that is opened anew joins the list once.
LEMMA JoinsOnce ==
    ASSUME NEW o, NEW c, NEW d, NEW r \in Requests, Listed(o, c), d[r].st # "absent",
           \A s \in Requests \ {r} : d[s] = c[s]
    PROVE  Listed(IF c[r].st = "absent" THEN Append(o, r) ELSE o, d)
  <1>1. /\ o \in Seq(Requests) /\ \A i, j \in DOMAIN o : o[i] = o[j] => i = j
        /\ {o[i] : i \in DOMAIN o} = {s \in Requests : c[s].st # "absent"}
    BY DEF Listed
  <1>2. CASE c[r].st # "absent"
    <2>1. {s \in Requests : d[s].st # "absent"} = {s \in Requests : c[s].st # "absent"}
      BY <1>2
    <2>2. QED
      BY <1>1, <1>2, <2>1 DEF Listed
  <1>3. CASE c[r].st = "absent"
    <2> DEFINE p == Append(o, r)
    <2>1. /\ p \in Seq(Requests) /\ DOMAIN o = 1..Len(o) /\ DOMAIN p = 1..(Len(o) + 1)
          /\ Len(o) \in Nat /\ p[Len(o) + 1] = r /\ \A i \in DOMAIN o : p[i] = o[i]
      BY <1>1
    <2> HIDE DEF p
    <2>2. \A i \in DOMAIN o : o[i] # r
      BY <1>1, <1>3
    <2>3. \A i, j \in DOMAIN p : p[i] = p[j] => i = j
      BY <1>1, <2>1, <2>2
    <2>4. {s \in Requests : d[s].st # "absent"} = {s \in Requests : c[s].st # "absent"} \cup {r}
      BY <1>3
    <2>5. {p[i] : i \in DOMAIN p} = {o[i] : i \in DOMAIN o} \cup {r}
      <3>1. \A i \in DOMAIN p : i \in DOMAIN o \/ i = Len(o) + 1
        BY <2>1
      <3>2. \A i \in DOMAIN o : i \in DOMAIN p
        BY <2>1
      <3>3. Len(o) + 1 \in DOMAIN p
        BY <2>1
      <3>4. QED
        BY <2>1, <3>1, <3>2, <3>3
    <2>6. Listed(p, d)
      BY <1>1, <2>1, <2>3, <2>4, <2>5 DEF Listed
    <2>7. QED
      BY <1>3, <2>6 DEF p
  <1>4. QED
    BY <1>2, <1>3

\* Cases that change without being opened stay on the list.
LEMMA StaysListed ==
    ASSUME NEW o, NEW c, NEW d, Listed(o, c),
           \A s \in Requests : c[s].st = "absent" <=> d[s].st = "absent"
    PROVE  Listed(o, d)
  <1>1. {s \in Requests : d[s].st # "absent"} = {s \in Requests : c[s].st # "absent"}
    OBVIOUS
  <1>2. QED
    BY <1>1 DEF Listed

\* The invariant holds at the start.
LEMMA InitRInv == ReconInit => RInv
  <1> SUFFICES ASSUME ReconInit PROVE RInv
    OBVIOUS
  <1>1. TypeOK /\ Holds
    BY InitTypeOK, InitHolds DEF ReconInit
  <1>2. cases \in [Requests -> Recs] /\ \A r \in Requests : cases[r].st = "absent"
    BY DEF ReconInit, NoCase, Recs, CaseStates
  <1>3. Listed(order, cases)
    <2>1. order = << >> /\ order \in Seq(Requests) /\ DOMAIN order = {}
      BY DEF ReconInit
    <2>2. QED
      BY <1>2, <2>1 DEF Listed
  <1>4. /\ amounts \in [Requests -> Quoted] /\ reported \in [Requests -> Quoted]
        /\ seen = {} /\ previews = {} /\ now \in 0..MaxNow
    BY ReconConstants DEF ReconInit, Quoted
  <1>5. CasesFit
    BY <1>2 DEF CasesFit, Cased
  <1>6. QED
    BY <1>1, <1>2, <1>3, <1>4, <1>5, TypeParts DEF RInv

\* A step keeps what the service itself remembers in order.
LEMMA NextReconType ==
    ASSUME RInv, [ReconNext]_allVars PROVE ReconTypeOK'
  <1>1. TypeOK'
    BY LedgerStays DEF RInv
  <1>2. /\ seen \subseteq {e.id : e \in Events} /\ previews \subseteq Requests /\ now \in 0..MaxNow
        /\ amounts \in [Requests -> Quoted] /\ reported \in [Requests -> Quoted]
        /\ cases \in [Requests -> Recs] /\ Listed(order, cases)
    BY TypeParts DEF RInv
  <1> DEFINE Kept == UNCHANGED <<cases, order>>
             Small == /\ seen' \subseteq {e.id : e \in Events} /\ previews' \subseteq Requests
                      /\ now' \in 0..MaxNow
                      /\ amounts' \in [Requests -> Quoted] /\ reported' \in [Requests -> Quoted]
             Big == cases' \in [Requests -> Recs] /\ Listed(order', cases')
  <1>3. Kept => Big
    BY <1>2
  <1>4. ASSUME LedgerCall PROVE Small /\ Kept
    BY <1>2, <1>4 DEF LedgerCall, reconVars
  <1>5. ASSUME NEW e \in Events, IngestRefused(e) \/ IngestEmpty(e) PROVE Small /\ Kept
    BY <1>2, <1>5 DEF IngestRefused, IngestEmpty, Remember
  <1>6. ASSUME NEW e \in Events, IngestDoubt(e) PROVE Small /\ Big
    <2>1. Small
      BY <1>2, <1>6 DEF IngestDoubt, Remember
    <2>2. /\ cases' \in [Requests -> Recs] /\ e.request \in Requests
          /\ cases'[e.request].st = "open"
          /\ \A s \in Requests \ {e.request} : cases'[s] = cases[s]
      BY <1>6, Opened DEF RInv
    <2>3. order' = IF cases[e.request].st = "absent" THEN Append(order, e.request) ELSE order
      BY <1>6 DEF IngestDoubt, InCase
    <2>4. Listed(IF cases[e.request].st = "absent" THEN Append(order, e.request) ELSE order, cases')
      BY <1>2, <2>2, JoinsOnce
    <2>5. QED
      BY <2>1, <2>2, <2>3, <2>4
  <1>7. ASSUME NEW e \in Events, IngestCost(e) PROVE Small /\ Big
    <2>1. /\ cases' \in [Requests -> Recs] /\ e.request \in Requests
          /\ \A s \in Requests \ {e.request} : cases'[s] = cases[s]
          /\ \/ cases'[e.request] = cases[e.request]
             \/ cases[e.request].st # "absent" /\ cases'[e.request].st = "recovered"
      BY <1>7, Closed DEF RInv
    <2>2. \A s \in Requests : cases[s].st = "absent" <=> cases'[s].st = "absent"
      BY <2>1
    <2>3. Listed(order', cases')
      <3>1. order' = order
        BY <1>7 DEF IngestCost
      <3>2. Listed(order, cases')
        BY <1>2, <2>2, StaysListed
      <3>3. QED
        BY <3>1, <3>2
    <2>4. e.quote \in Quoted
      BY DEF Quoted
    <2>5. Small
      BY <1>2, <1>7, <2>4 DEF IngestCost, Remember
    <2>6. QED
      BY <2>1, <2>3, <2>5
  <1>8. ASSUME Tick PROVE Small /\ Big
    <2>1. cases' \in [Requests -> Recs]
      BY <1>8, Ticked DEF RInv
    <2>2. \A s \in Requests : cases[s].st = "absent" <=> cases'[s].st = "absent"
      BY <1>8, Ticked DEF RInv
    <2>3. order' = order /\ Small
      BY <1>2, <1>8 DEF Tick
    <2>4. Listed(order, cases')
      BY <1>2, <2>2, StaysListed
    <2>5. QED
      BY <2>1, <2>3, <2>4
  <1>9. ASSUME NEW r \in Requests, PreviewReverse(r) \/ ApplyReverse(r) PROVE Small /\ Kept
    BY <1>2, <1>9 DEF PreviewReverse, ApplyReverse, reconVars
  <1>10. ASSUME Advance \/ UNCHANGED allVars PROVE Small /\ Kept
    BY <1>2, <1>10, ReconConstants DEF Advance, allVars, reconVars
  <1>11. Small /\ Big
    BY <1>3, <1>4, <1>5, <1>6, <1>7, <1>8, <1>9, <1>10 DEF ReconNext
  <1>12. QED
    BY <1>1, <1>11 DEF ReconTypeOK, Recs, Listed, InCase

\* A step keeps every case and its request together.
LEMMA NextCasesFit ==
    ASSUME RInv, [ReconNext]_allVars PROVE CasesFit'
  <1>1. ReconTypeOK /\ CasesFit /\ ([Next]_vars \/ Tick)
    BY LedgerOrTick DEF RInv
  <1> SUFFICES ASSUME NEW r \in Requests PROVE Cased(cases'[r].st, status'[r])
    BY DEF CasesFit
  <1>2. Cased(cases[r].st, status[r]) /\ status[r] \in Statuses /\ status'[r] \in Statuses
    BY <1>1, LedgerStays DEF CasesFit, RInv, ReconTypeOK, TypeOK
  <1>3. /\ status[r] \notin {"none", "held"} => status'[r] \notin {"none", "held"}
        /\ status[r] \in {"consumed", "released"} => status'[r] \in {"consumed", "released"}
    BY <1>1, NoWayBack
  <1>4. ASSUME cases'[r].st = cases[r].st PROVE Cased(cases'[r].st, status'[r])
    BY <1>2, <1>3, <1>4 DEF Cased, Statuses
  <1>5. ASSUME NEW e \in Events, IngestDoubt(e) PROVE Cased(cases'[r].st, status'[r])
    <2>1. CASE r = e.request
      BY <1>1, <1>5, <2>1, Opened DEF Cased
    <2>2. CASE r # e.request
      BY <1>1, <1>4, <1>5, <2>2, Opened
    <2>3. QED
      BY <2>1, <2>2
  <1>6. ASSUME NEW e \in Events, IngestCost(e) PROVE Cased(cases'[r].st, status'[r])
    <2>1. CASE cases'[r] = cases[r]
      BY <1>4, <2>1
    <2>2. CASE cases'[r] # cases[r]
      BY <1>1, <1>6, <2>2, Closed DEF Cased
    <2>3. QED
      BY <2>1, <2>2
  <1>7. ASSUME Tick PROVE Cased(cases'[r].st, status'[r])
    BY <1>1, <1>2, <1>3, <1>4, <1>7, Ticked DEF Cased, Open
  <1>8. CASE cases' = cases
    BY <1>4, <1>8
  <1>9. QED
    BY <1>5, <1>6, <1>7, <1>8
    DEF ReconNext, LedgerCall, IngestRefused, IngestEmpty, PreviewReverse, ApplyReverse, Advance,
        allVars, reconVars

\* Every step keeps it.
LEMMA NextRInv == RInv /\ [ReconNext]_allVars => RInv'
  BY NextReconType, NextCasesFit, LedgerStays DEF RInv

\* It holds in every reachable state.
LEMMA AlwaysRInv == ReconSpec => []RInv
  BY InitRInv, NextRInv, PTL DEF ReconSpec

\* Types, and that the pass of a tick meets every case once.
THEOREM ReconTyped == ReconSpec => []ReconTypeOK
  BY AlwaysRInv, PTL DEF RInv

\* A request with a case is never plainly held, from where it could be released.
THEOREM DoubtIsKept == ReconSpec => []CaseKeepsDoubt
  <1>1. RInv => CaseKeepsDoubt
    BY DEF RInv, CasesFit, Cased, CaseKeepsDoubt, InCase
  <1>2. QED
    BY <1>1, AlwaysRInv, PTL

\* Every open hold is looked after by a case, or listed by the daily report.
THEOREM NoHoldForgotten == ReconSpec => []NothingForgotten
  <1>1. RInv => NothingForgotten
    <2> SUFFICES ASSUME RInv, NEW r \in Requests, Open(r)
                 PROVE  Orphan(r) \/ InCase(r, "open") \/ InCase(r, "manual")
      BY DEF NothingForgotten
    <2>1. cases[r].st \in CaseStates
      BY DEF RInv, ReconTypeOK
    <2>2. cases[r].st # "recovered"
      BY DEF RInv, CasesFit, Cased, Open
    <2>3. QED
      BY <2>1, <2>2 DEF CaseStates, Orphan, InCase
  <1>2. QED
    BY <1>1, AlwaysRInv, PTL

\* Reconciliation returns no hold twice either: not in a pass over many cases, not when
\* evidence, a tick and the gateway settle the same request.
THEOREM ReconHoldsOnce == ReconSpec => []HoldMatchesStatus
  <1>1. RInv => HoldMatchesStatus
    BY HoldsImply DEF RInv
  <1>2. QED
    BY <1>1, AlwaysRInv, PTL

----------------------------------------------------------------------------
(* What the provider reported.                                             *)

Nets(r) == [buyer |-> Charge(r), seller |-> Earning(r), spread |-> Spread(r)]

\* A request whose cost was reported is settled at that cost, or was reversed since.
Reports ==
    \A r \in Requests : reported[r] # NoQuote =>
        /\ reported[r] \in Quotes /\ status[r] \in {"consumed", "released"}
        /\ status[r] = "consumed" => Nets(r) = reported[r]

PInv == RInv /\ Accounts /\ Reports

\* The ledger's accounts last, over a tick as well.
LEMMA AccountsStay ==
    ASSUME QuotesAreAChain, PInv, [ReconNext]_allVars
    PROVE  Accounts'
  <1>1. CASE [Next]_vars
    BY <1>1, NextAccounts DEF PInv
  <1>2. CASE Tick
    <2>1. TypeOK' /\ ReconTypeOK
      BY <1>2, TickTypes DEF PInv, RInv
    <2>2. ASSUME NEW r \in Requests PROVE Account(posted'[r], status'[r], amount'[r])
      <3>1. /\ Account(posted[r], status[r], amount[r])
            /\ posted[r] \in [Kinds -> Tallies] /\ amount[r] \in Nat
        BY DEF PInv, Accounts, TypeOK
      <3>2. CASE /\ Open(r) /\ amounts[r] \in Quotes /\ NonNegative(amounts[r])
                 /\ posted'[r] = SettlePosts(posted[r], amount[r], amounts[r])
                 /\ status'[r] = "consumed" /\ amount'[r] = amount[r]
        <4>1. status[r] \in {"held", "unresolved"}
          BY <3>2 DEF Open
        <4>2. QED
          BY <3>1, <3>2, <4>1, SettleAccount
      <3>3. QED
        BY <1>2, <2>1, <3>1, <3>2, TickOnLedger
    <2>3. QED
      BY <2>1, <2>2 DEF Accounts
  <1>3. QED
    BY <1>1, <1>2, LedgerOrTick

\* Settling an open request leaves it at the quote.
LEMMA SettledAt ==
    ASSUME Accounts, NEW r \in Requests, NEW q \in Quotes, Settle(r, q)
    PROVE  Nets(r)' = q
  <1> DEFINE t == posted[r]
             b == t["buyer_quota"]
             s == t["seller_earning"]
             p == t["platform_spread"]
             u == posted'[r]
  <1>1. /\ status[r] \in {"held", "unresolved"} /\ t \in [Kinds -> Tallies] /\ amount[r] \in Nat
        /\ Account(t, status[r], amount[r])
    BY DEF Accounts, TypeOK, Settle
  <1>2. b \in Tallies /\ s \in Tallies /\ p \in Tallies
    BY <1>1, KindsFacts
  <1>3. /\ q.buyer \in Int /\ q.seller \in Int /\ q.spread \in Int
        /\ q = [buyer |-> q.buyer, seller |-> q.seller, spread |-> q.spread]
    BY LedgerConstants
  <1>4. u = SettlePosts(t, amount[r], q)
    BY DEF Settle, Accounts, TypeOK
  <1>5. /\ u["buyer_quota"] = [b EXCEPT !.released = @ + amount[r], !.settled_debit = @ + q.buyer]
        /\ u["seller_earning"] = [s EXCEPT !.settled_credit = @ + q.seller]
        /\ u["platform_spread"] = [p EXCEPT !.settled_credit = @ + q.spread]
    BY <1>4, KindsFacts DEF SettlePosts
  <1> HIDE DEF u
  <1>6. /\ u["buyer_quota"].settled_debit = b.settled_debit + q.buyer
        /\ u["buyer_quota"].reversed_credit = b.reversed_credit
        /\ u["seller_earning"].settled_credit = s.settled_credit + q.seller
        /\ u["seller_earning"].reversed_debit = s.reversed_debit
        /\ u["platform_spread"].settled_credit = p.settled_credit + q.spread
        /\ u["platform_spread"].reversed_debit = p.reversed_debit
    BY <1>2, <1>5 DEF Tallies
  <1>7. NetDebit(b) = 0 /\ NetCredit(s) = 0 /\ NetCredit(p) = 0
    BY <1>1 DEF Account
  <1>8. /\ NetDebit(u["buyer_quota"]) = q.buyer
        /\ NetCredit(u["seller_earning"]) = q.seller
        /\ NetCredit(u["platform_spread"]) = q.spread
    BY <1>2, <1>3, <1>6, <1>7, TallyFields DEF NetDebit, NetCredit
  <1>9. QED
    BY <1>3, <1>8 DEF Nets, Charge, Earning, Spread, u

\* Correcting a settled request moves it to the new quote.
LEMMA CorrectedTo ==
    ASSUME QuotesAreAChain, Accounts, NEW r \in Requests, NEW q \in Quotes, ApplyDelta(r, q)
    PROVE  Nets(r)' = q
  <1> DEFINE t == posted[r]
             d == Delta(r, q)
             u == posted'[r]
             c == Nets(r)
  <1>1. /\ status[r] = "consumed" /\ t \in [Kinds -> Tallies]
        /\ Account(t, "consumed", amount[r]) /\ d.buyer = d.seller + d.spread
        /\ d \in [buyer : Int, seller : Int, spread : Int]
    BY DeltaType DEF Accounts, TypeOK, ApplyDelta
  <1>2. c \in Quotes
    BY <1>1 DEF Account, NetsToAQuote, Nets, Charge, Earning, Spread
  <1>3. /\ c.buyer = Charge(r) /\ c.seller = Earning(r) /\ c.spread = Spread(r)
        /\ d.buyer = q.buyer - Charge(r) /\ d.seller = q.seller - Earning(r) /\ d.spread = q.spread - Spread(r)
    BY DEF Nets, Delta
  <1>4. /\ q.buyer \in Int /\ q.seller \in Int /\ q.spread \in Int
        /\ c.buyer \in Int /\ c.seller \in Int /\ c.spread \in Int
        /\ q = [buyer |-> q.buyer, seller |-> q.seller, spread |-> q.spread]
    BY <1>2, LedgerConstants
  <1>5. \/ c.buyer <= q.buyer /\ c.seller <= q.seller /\ c.spread <= q.spread
        \/ q.buyer <= c.buyer /\ q.seller <= c.seller /\ q.spread <= c.spread
    BY <1>2 DEF QuotesAreAChain
  <1>6. u = DeltaPosts(t, d)
    BY DEF ApplyDelta, Accounts, TypeOK
  <1> HIDE DEF c, d, u
  <1>7. q.spread = q.buyer - q.seller /\ c.spread = c.buyer - c.seller
    BY <1>2, <1>4, LedgerConstants
  <1>8. OneWay(d)
    BY <1>3, <1>4, <1>5, <1>7 DEF OneWay
  <1>9. /\ NetDebit(u["buyer_quota"]) = Charge(r) + d.buyer
        /\ NetCredit(u["seller_earning"]) = Earning(r) + d.seller
        /\ NetCredit(u["platform_spread"]) = Spread(r) + d.spread
    BY <1>1, <1>6, <1>8, DeltaReads DEF Account, Charge, Earning, Spread
  <1>10. /\ NetDebit(u["buyer_quota"]) = q.buyer
         /\ NetCredit(u["seller_earning"]) = q.seller
         /\ NetCredit(u["platform_spread"]) = q.spread
    BY <1>3, <1>4, <1>9
  <1>11. QED
    BY <1>4, <1>10 DEF Nets, Charge, Earning, Spread, u

\* Nothing but evidence and a reversal touches a settled request.
LEMMA SettledStays ==
    ASSUME ReconTypeOK, NEW r \in Requests, status[r] \in {"consumed", "released"},
           \/ LedgerCall \/ Tick \/ UNCHANGED vars
           \/ \E s \in Requests : ApplyReverse(s)
           \/ \E s \in Requests \ {r} : MarkUnresolved(s) \/ \E q \in Quotes : Settle(s, q) \/ ApplyDelta(s, q)
    PROVE  \/ posted'[r] = posted[r] /\ status'[r] = status[r]
           \/ status'[r] = "released"
  <1>1. TypeOK
    BY DEF ReconTypeOK
  <1>2. CASE LedgerCall
    BY <1>1, <1>2 DEF LedgerCall, SeedQuota, Reserve, Settle, Release, MarkUnresolved, TypeOK
  <1>3. CASE Tick
    BY <1>3, TickOnLedger DEF Open
  <1>4. CASE \E s \in Requests : ApplyReverse(s)
    BY <1>1, <1>4 DEF ApplyReverse, Reverse, TypeOK
  <1>5. CASE \E s \in Requests \ {r} : MarkUnresolved(s) \/ \E q \in Quotes : Settle(s, q) \/ ApplyDelta(s, q)
    BY <1>1, <1>5 DEF MarkUnresolved, Settle, ApplyDelta, TypeOK
  <1>6. CASE UNCHANGED vars
    BY <1>6 DEF vars
  <1>7. QED
    BY <1>2, <1>3, <1>4, <1>5, <1>6

\* No step moves a request away from what was reported, short of a reversal.
LEMMA NextReports ==
    ASSUME QuotesAreAChain, PInv, [ReconNext]_allVars
    PROVE  Reports'
  <1>1. ReconTypeOK /\ Accounts /\ Reports
    BY DEF PInv, RInv
  <1> SUFFICES ASSUME NEW r \in Requests, reported'[r] # NoQuote
               PROVE  /\ reported'[r] \in Quotes /\ status'[r] \in {"consumed", "released"}
                      /\ status'[r] = "consumed" => Nets(r)' = reported'[r]
    BY DEF Reports
  <1> DEFINE Goal == /\ reported'[r] \in Quotes /\ status'[r] \in {"consumed", "released"}
                     /\ status'[r] = "consumed" => Nets(r)' = reported'[r]
  <1>2. ASSUME reported'[r] = reported[r],
               \/ posted'[r] = posted[r] /\ status'[r] = status[r]
               \/ status'[r] = "released"
        PROVE  Goal
    <2>1. /\ reported[r] \in Quotes /\ status[r] \in {"consumed", "released"}
          /\ status[r] = "consumed" => Nets(r) = reported[r]
      BY <1>1, <1>2 DEF Reports
    <2>2. posted'[r] = posted[r] => Nets(r)' = Nets(r)
      BY DEF Nets, Charge, Earning, Spread
    <2>3. QED
      BY <1>2, <2>1, <2>2
  <1>3. reported[r] # NoQuote => status[r] \in {"consumed", "released"}
    BY <1>1 DEF Reports
  <1>4. ASSUME reported' = reported,
               \/ LedgerCall \/ Tick \/ UNCHANGED vars
               \/ \E s \in Requests : ApplyReverse(s)
               \/ \E s \in Requests \ {r} : MarkUnresolved(s)
        PROVE  Goal
    BY <1>1, <1>2, <1>3, <1>4, SettledStays
  <1>5. ASSUME NEW e \in Events, IngestDoubt(e) PROVE Goal
    <2>1. reported' = reported /\ e.request \in Requests /\ (MarkUnresolved(e.request) \/ UNCHANGED vars)
      BY <1>5, ReconConstants DEF IngestDoubt
    <2>2. MarkUnresolved(r) => FALSE
      BY <1>3, <2>1 DEF MarkUnresolved
    <2>3. QED
      BY <1>4, <2>1, <2>2
  <1>6. ASSUME NEW e \in Events, IngestCost(e) PROVE Goal
    <2>1. e.request \in Requests /\ e.quote # NoQuote /\ reported \in [Requests -> Quoted]
      BY <1>1, <1>6, ReconConstants DEF IngestCost, ReconTypeOK
    <2>2. CASE TakesNot(e) /\ reported' = reported
      BY <1>4, <2>2 DEF TakesNot
    <2>3. CASE /\ Takes(e)
               /\ reported' = IF e.kind = "reported_cost" THEN [reported EXCEPT ![e.request] = e.quote] ELSE reported
      <3>1. e.quote \in Quotes
        BY <2>1, <2>3, EvidenceQuote DEF Takes
      <3>2. CASE r # e.request
        <4>1. reported'[r] = reported[r]
          BY <2>1, <2>3, <3>2
        <4>2. UNCHANGED vars \/ \E s \in Requests \ {r} : \E q \in Quotes : Settle(s, q) \/ ApplyDelta(s, q)
          BY <2>1, <2>3, <3>1, <3>2 DEF Takes
        <4>3. \/ posted'[r] = posted[r] /\ status'[r] = status[r]
              \/ status'[r] = "released"
          BY <1>1, <1>3, <4>1, <4>2, SettledStays
        <4>4. QED
          BY <1>2, <4>1, <4>3
      <3>3. CASE r = e.request /\ e.kind = "reported_cost"
        <4>1. reported'[r] = e.quote
          BY <2>1, <2>3, <3>3
        <4>2. status'[r] = "consumed"
          BY <1>1, <2>3, <3>3 DEF Takes, Settle, ApplyDelta, Accounts, TypeOK, vars
        <4>3. CASE Settle(r, e.quote)
          BY <1>1, <3>1, <4>1, <4>2, <4>3, SettledAt
        <4>4. CASE ApplyDelta(r, e.quote)
          BY <1>1, <3>1, <4>1, <4>2, <4>4, CorrectedTo
        <4>5. CASE /\ Delta(r, e.quote) = [buyer |-> 0, seller |-> 0, spread |-> 0]
                   /\ UNCHANGED vars
          <5>1. /\ e.quote.buyer - Charge(r) = 0 /\ e.quote.seller - Earning(r) = 0
                /\ e.quote.spread - Spread(r) = 0
            BY <4>5 DEF Delta
          <5>2. Charge(r) \in Int /\ Earning(r) \in Int /\ Spread(r) \in Int
            <6>1. /\ posted[r]["buyer_quota"] \in Tallies /\ posted[r]["seller_earning"] \in Tallies
                  /\ posted[r]["platform_spread"] \in Tallies
              BY <1>1, KindsFacts DEF Accounts, TypeOK
            <6>2. QED
              BY <6>1, TallyFields DEF Charge, Earning, Spread, NetDebit, NetCredit
          <5>3. /\ e.quote.buyer \in Int /\ e.quote.seller \in Int /\ e.quote.spread \in Int
                /\ e.quote = [buyer |-> e.quote.buyer, seller |-> e.quote.seller, spread |-> e.quote.spread]
            BY <3>1, LedgerConstants
          <5>4. /\ Charge(r) = e.quote.buyer /\ Earning(r) = e.quote.seller /\ Spread(r) = e.quote.spread
            BY <5>1, <5>2, <5>3
          <5>5. Nets(r) = e.quote
            BY <5>3, <5>4 DEF Nets
          <5>6. Nets(r)' = Nets(r)
            BY <4>5 DEF Nets, Charge, Earning, Spread, vars
          <5>7. QED
            BY <3>1, <4>1, <4>2, <5>5, <5>6
        <4>6. QED
          BY <2>3, <3>3, <4>3, <4>4, <4>5 DEF Takes
      <3>4. CASE r = e.request /\ e.kind # "reported_cost"
        <4>1. reported'[r] = reported[r]
          BY <2>3, <3>4
        <4>2. Settle(r, e.quote)
          BY <2>3, <3>4 DEF Takes
        <4>3. FALSE
          BY <1>3, <4>1, <4>2 DEF Settle
        <4>4. QED
          BY <4>3
      <3>5. QED
        BY <3>2, <3>3, <3>4
    <2>4. QED
      BY <1>6, <2>2, <2>3 DEF IngestCost
  <1>7. QED
    BY <1>4, <1>5, <1>6
    DEF ReconNext, LedgerCall, IngestRefused, IngestEmpty, PreviewReverse, ApplyReverse, Advance, Tick,
        allVars, reconVars

\* The accounts of the ledger and the reported costs are in order in every state.
LEMMA AlwaysPInv ==
    ASSUME QuotesAreAChain
    PROVE  ReconSpec => []PInv
  <1>1. ReconInit => PInv
    <2>1. ReconInit => Accounts
      BY InitAccounts DEF ReconInit
    <2>2. ReconInit => Reports
      BY DEF ReconInit, Reports
    <2>3. QED
      BY <2>1, <2>2, InitRInv DEF PInv
  <1>2. PInv /\ [ReconNext]_allVars => PInv'
    BY NextRInv, AccountsStay, NextReports DEF PInv
  <1>3. QED
    BY <1>1, <1>2, PTL DEF ReconSpec

\* A cost the provider reported stands until it is reversed: rated usage before or after
\* it, a settlement by the gateway and the ticks in between leave the request at it.
THEOREM ReportedCostStands ==
    ASSUME QuotesAreAChain
    PROVE  ReconSpec => []ReportedWins
  <1>1. PInv => ReportedWins
    BY DEF PInv, Reports, Nets, ReportedWins
  <1>2. QED
    BY <1>1, AlwaysPInv, PTL

----------------------------------------------------------------------------
(* The escrow contract, request by request.                                *)

\* How far one step takes a request, as the ledger sees it.
Stays(r) == posted'[r] = posted[r] /\ status'[r] = status[r]
Goes(r, from, to) == status[r] \in from /\ status'[r] = to

Moves(r) ==
    \/ Stays(r)
    \/ Goes(r, {"none"}, "held") /\ amount'[r] > 0
    \/ Goes(r, {"held"}, "unresolved") /\ amount'[r] = amount[r]
    \/ Goes(r, {"held", "unresolved"}, "consumed") /\ Charge(r) \in Int /\ Charge(r)' >= Charge(r)
    \/ Goes(r, {"consumed"}, "consumed")
    \/ Goes(r, {"held"}, "released") /\ Charge(r)' = Charge(r)
    \/ Goes(r, {"consumed"}, "released")

\* A request that moves so moves as its contract says.
LEMMA MoveKeepsEscrow ==
    ASSUME Accounts, Accounts', NEW r \in Requests, Moves(r)
    PROVE  [EscrowOf(r)!CNext]_(EscrowOf(r)!cvars)
  <1> DEFINE phase == [s \in {r} |-> Phase(s)]
             hold == [s \in {r} |-> Hold(posted[s]["buyer_quota"])]
             charge == [s \in {r} |-> Charge(s)]
             payout == [s \in {r} |-> Earning(s) + Spread(s)]
  <1>1. /\ phase[r] = Phase(r) /\ phase'[r] = Phase(r)'
        /\ hold[r] = Hold(posted[r]["buyer_quota"])
        /\ hold'[r] = Hold(posted[r]["buyer_quota"])'
        /\ charge[r] = Charge(r) /\ charge'[r] = Charge(r)'
        /\ payout[r] = Earning(r) + Spread(r) /\ payout'[r] = (Earning(r) + Spread(r))'
    OBVIOUS
  <1>2. /\ phase' = [phase EXCEPT ![r] = phase'[r]]
        /\ hold' = [hold EXCEPT ![r] = hold'[r]]
        /\ charge' = [charge EXCEPT ![r] = charge'[r]]
        /\ payout' = [payout EXCEPT ![r] = payout'[r]]
    OBVIOUS
  <1>3. /\ phase'[r] = phase[r] => phase' = phase
        /\ hold'[r] = hold[r] => hold' = hold
        /\ charge'[r] = charge[r] => charge' = charge
        /\ payout'[r] = payout[r] => payout' = payout
    OBVIOUS
  <1>4. /\ hold[r] = IF Open(r) THEN amount[r] ELSE 0
        /\ status[r] \in {"none", "held", "unresolved"} => charge[r] = 0 /\ payout[r] = 0
        /\ charge[r] = payout[r]
    BY <1>1, AccountReads DEF Reads
  <1>5. /\ hold'[r] = IF Open(r)' THEN amount'[r] ELSE 0
        /\ status'[r] \in {"none", "held", "unresolved"} => charge'[r] = 0 /\ payout'[r] = 0
        /\ status'[r] = "released" => charge'[r] <= 0
        /\ charge'[r] = payout'[r]
    BY <1>1, AccountReadsNext DEF Reads
  <1> HIDE DEF phase, hold, charge, payout
  <1> USE DEF Phase, Open, Goes
  <1>6. CASE Stays(r)
    <2>1. Phase(r)' = Phase(r) /\ Charge(r)' = Charge(r) /\ Earning(r)' = Earning(r)
          /\ Spread(r)' = Spread(r) /\ posted'[r] = posted[r]
      BY <1>6 DEF Stays, Charge, Earning, Spread
    <2>2. phase' = phase /\ hold' = hold /\ charge' = charge /\ payout' = payout
      BY <1>1, <1>3, <2>1
    <2>3. QED
      BY <2>2 DEF EscrowOf!cvars, phase, hold, charge, payout
  <1>7. CASE Goes(r, {"none"}, "held") /\ amount'[r] > 0
    <2>1. /\ phase[r] = "new" /\ phase'[r] = "open" /\ hold'[r] > 0
          /\ charge'[r] = charge[r] /\ payout'[r] = payout[r]
      BY <1>1, <1>4, <1>5, <1>7
    <2>2. EscrowOf(r)!Take(r)
      BY <1>2, <1>3, <2>1 DEF EscrowOf!Take, phase, hold, charge, payout
    <2>3. QED
      BY <2>2 DEF EscrowOf!CNext
  <1>8. CASE Goes(r, {"held"}, "unresolved") /\ amount'[r] = amount[r]
    <2>1. /\ phase[r] = "open" /\ phase'[r] = "unknown" /\ hold'[r] = hold[r]
          /\ charge'[r] = charge[r] /\ payout'[r] = payout[r]
      BY <1>1, <1>4, <1>5, <1>8
    <2>2. EscrowOf(r)!Doubt(r)
      BY <1>2, <1>3, <2>1 DEF EscrowOf!Doubt, phase, hold, charge, payout
    <2>3. QED
      BY <2>2 DEF EscrowOf!CNext
  <1>9. CASE Goes(r, {"held", "unresolved"}, "consumed") /\ Charge(r)' >= Charge(r)
    <2>1. /\ phase[r] \in {"open", "unknown"} /\ phase'[r] = "charged"
          /\ hold'[r] = 0 /\ charge'[r] >= 0 /\ charge'[r] = payout'[r]
      BY <1>1, <1>4, <1>5, <1>9
    <2>2. EscrowOf(r)!Close(r)
      BY <1>2, <2>1 DEF EscrowOf!Close, EscrowOf!Pay, phase, hold, charge, payout
    <2>3. QED
      BY <2>2 DEF EscrowOf!CNext
  <1>10. CASE Goes(r, {"consumed"}, "consumed")
    <2>1. /\ phase[r] = "charged" /\ phase'[r] = phase[r] /\ hold'[r] = hold[r]
          /\ charge'[r] = payout'[r]
      BY <1>1, <1>4, <1>5, <1>10
    <2>2. EscrowOf(r)!Adjust(r)
      BY <1>2, <1>3, <2>1 DEF EscrowOf!Adjust, EscrowOf!Pay, phase, hold, charge, payout
    <2>3. QED
      BY <2>2 DEF EscrowOf!CNext
  <1>11. CASE Goes(r, {"held"}, "released") /\ Charge(r)' = Charge(r)
    <2>1. /\ phase[r] = "open" /\ phase'[r] = "closed" /\ hold'[r] = 0
          /\ charge'[r] = charge[r] /\ payout'[r] = payout[r]
      BY <1>1, <1>4, <1>5, <1>11
    <2>2. EscrowOf(r)!Cancel(r)
      BY <1>2, <1>3, <2>1 DEF EscrowOf!Cancel, phase, hold, charge, payout
    <2>3. QED
      BY <2>2 DEF EscrowOf!CNext
  <1>12. CASE Goes(r, {"consumed"}, "released")
    <2>1. /\ phase[r] = "charged" /\ phase'[r] = "closed" /\ hold'[r] = hold[r]
          /\ charge'[r] <= 0 /\ charge'[r] = payout'[r]
      BY <1>1, <1>4, <1>5, <1>12
    <2>2. EscrowOf(r)!Refund(r)
      BY <1>2, <1>3, <2>1 DEF EscrowOf!Refund, EscrowOf!Pay, phase, hold, charge, payout
    <2>3. QED
      BY <2>2 DEF EscrowOf!CNext
  <1>13. QED
    BY <1>6, <1>7, <1>8, <1>9, <1>10, <1>11, <1>12 DEF Moves

\* Every request so moves, or stays, in every step of the service: of its own accord in
\* a call of the ledger, together with others in a tick.
LEMMA EachMoves ==
    ASSUME ReconTypeOK, [ReconNext]_allVars, NEW r \in Requests
    PROVE  Moves(r)
  <1>1. TypeOK
    BY DEF ReconTypeOK
  <1>2. CASE \E s \in Requests \ {r} : OnRequest(s)
    <2>1. posted'[r] = posted[r] /\ status'[r] = status[r]
      BY <1>1, <1>2
      DEF OnRequest, Reserve, Settle, ApplyDelta, Release, MarkUnresolved, Reverse, TypeOK
    <2>2. QED
      BY <2>1 DEF Moves, Stays
  <1>3. CASE (\E o \in Owners, g \in Grants : SeedQuota(o, g)) \/ UNCHANGED vars
    BY <1>3 DEF SeedQuota, vars, Moves, Stays
  <1>4. CASE \E k \in IdemKeys, o \in Owners, a \in Amounts : Reserve(r, k, o, a)
    BY <1>1, <1>4, LedgerConstants DEF Reserve, TypeOK, Moves, Goes
  <1>5. CASE \E q \in Quotes : Settle(r, q) \/ ApplyDelta(r, q)
    <2>1. ASSUME NEW q \in Quotes, Settle(r, q) PROVE Moves(r)
      <3>1. NonNegative(q) /\ posted'[r] = SettlePosts(posted[r], amount[r], q)
        BY <1>1, <2>1 DEF Settle, TypeOK
      <3>2. Charge(r) \in Int /\ Charge(r)' >= Charge(r)
        BY <1>1, <3>1, SettleCharges
      <3>3. Goes(r, {"held", "unresolved"}, "consumed")
        BY <1>1, <2>1 DEF Settle, TypeOK, Goes
      <3>4. QED
        BY <3>2, <3>3 DEF Moves
    <2>2. ASSUME NEW q \in Quotes, ApplyDelta(r, q) PROVE Moves(r)
      BY <1>1, <2>2 DEF ApplyDelta, TypeOK, Moves, Goes
    <2>3. QED
      BY <1>5, <2>1, <2>2
  <1>6. CASE Release(r)
    <2>1. Goes(r, {"held"}, "released")
      BY <1>1, <1>6 DEF Release, TypeOK, Goes
    <2>2. QED
      BY <1>1, <1>6, <2>1, ReleaseCharges DEF Moves
  <1>7. CASE MarkUnresolved(r)
    BY <1>1, <1>7 DEF MarkUnresolved, TypeOK, Moves, Goes
  <1>8. CASE Reverse(r)
    BY <1>1, <1>8 DEF Reverse, TypeOK, Moves, Goes
  <1>9. CASE Tick
    <2>1. CASE /\ Open(r) /\ amounts[r] \in Quotes /\ NonNegative(amounts[r])
               /\ posted'[r] = SettlePosts(posted[r], amount[r], amounts[r])
               /\ status'[r] = "consumed"
      <3>1. Charge(r) \in Int /\ Charge(r)' >= Charge(r)
        BY <1>1, <2>1, SettleCharges
      <3>2. QED
        BY <2>1, <3>1 DEF Open, Moves, Goes
    <2>2. CASE Stays(r)
      BY <2>2 DEF Moves
    <2>3. QED
      BY <1>9, <2>1, <2>2, TickOnLedger DEF Stays
  <1>10. CASE Next
    BY <1>2, <1>3, <1>4, <1>5, <1>6, <1>7, <1>8, <1>10 DEF Next, OnRequest
  <1>11. QED
    BY <1>3, <1>9, <1>10, LedgerOrTick

\* Each request, alone, keeps the escrow contract while evidence, ticks over many
\* requests and the gateway's calls drive the ledger.
THEOREM ReconKeepsEscrow ==
    ASSUME QuotesAreAChain
    PROVE  ReconSpec => EachKeepsEscrow
  <1> DEFINE Kept == \A r \in Requests : [EscrowOf(r)!CNext]_(EscrowOf(r)!cvars)
             Begun == \A r \in Requests : EscrowOf(r)!CInit
  <1>1. ReconInit => Begun
    <2> SUFFICES ASSUME ReconInit, NEW r \in Requests PROVE EscrowOf(r)!CInit
      OBVIOUS
    <2>1. Accounts /\ status[r] = "none"
      BY InitAccounts DEF ReconInit, Init
    <2>2. /\ Phase(r) = "new" /\ Hold(posted[r]["buyer_quota"]) = 0
          /\ Charge(r) = 0 /\ Earning(r) + Spread(r) = 0
      BY <2>1, AccountReads DEF Reads, Phase, Open
    <2>3. QED
      BY <2>2 DEF EscrowOf!CInit
  <1>2. PInv /\ PInv' /\ [ReconNext]_allVars => Kept
    BY EachMoves, MoveKeepsEscrow DEF PInv, RInv
  <1>3. PInv /\ PInv' /\ [ReconNext]_allVars => [Kept]_allVars
    BY <1>2
  <1> HIDE DEF Kept, Begun
  <1>4. ReconSpec => Begun /\ [][Kept]_allVars
    BY <1>1, <1>3, AlwaysPInv, PTL DEF ReconSpec
  <1>5. QED
    BY <1>4 DEF Kept, Begun, EachKeepsEscrow

----------------------------------------------------------------------------
(* Quota under reconciliation.                                             *)

\* The larger the summands, the larger the sum.
LEMMA TotalGrows ==
    ASSUME NEW R, NEW c \in [R -> Int], NEW d \in [R -> Int], NEW T \in SUBSET R,
           IsFiniteSet(T), \A r \in T : c[r] <= d[r]
    PROVE  Total(c, T) <= Total(d, T)
  <1> DEFINE F == {s \in SUBSET T : ~ (Total(c, s) <= Total(d, s))}
  <1> SUFFICES ASSUME F # {} PROVE FALSE
    OBVIOUS
  <1>1. \E m \in F : \A s \in SUBSET m : s \in F => s = m
    <2>1. F \in SUBSET (SUBSET T)
      OBVIOUS
    <2> HIDE DEF F
    <2>2. QED
      BY <2>1, SmallestSet
  <1>2. PICK m \in F : \A s \in SUBSET m : s \in F => s = m
    BY <1>1
  <1>3. m \in SUBSET T /\ IsFiniteSet(m) /\ ~ (Total(c, m) <= Total(d, m))
    BY FS_Subset
  <1>4. Total(c, m) = IF m = {} THEN 0 ELSE c[Pick(m)] + Total(c, m \ {Pick(m)})
    BY <1>3, TotalStep
  <1>5. Total(d, m) = IF m = {} THEN 0 ELSE d[Pick(m)] + Total(d, m \ {Pick(m)})
    BY <1>3, TotalStep
  <1>6. m # {}
    BY <1>3, <1>4, <1>5
  <1> DEFINE x == Pick(m)
             u == m \ {x}
  <1>7. x \in m
    BY <1>6, PickIn
  <1>8. u \in SUBSET m /\ u \in SUBSET T /\ u # m /\ IsFiniteSet(u)
    BY <1>3, <1>7, FS_Subset
  <1>9. Total(c, u) <= Total(d, u)
    BY <1>2, <1>8
  <1>10. c[x] <= d[x] /\ c[x] \in Int /\ d[x] \in Int
    BY <1>3, <1>7
  <1>11. Total(c, u) \in Int /\ Total(d, u) \in Int
    <2>1. u \in SUBSET R
      BY <1>8
    <2> HIDE DEF u
    <2>2. QED
      BY <1>8, <2>1, TotalType
  <1>12. Total(c, m) = c[x] + Total(c, u) /\ Total(d, m) = d[x] + Total(d, u)
    BY <1>4, <1>5, <1>6
  <1> HIDE DEF F, x, u
  <1>13. Total(c, m) <= Total(d, m)
    BY <1>9, <1>10, <1>11, <1>12
  <1>14. QED
    BY <1>3, <1>13

\* What the ledger's entries say of a request lasts over a tick.
LEMMA TickPostings ==
    ASSUME ReconTypeOK, Postings, Tick
    PROVE  Postings'
  <1>1. TypeOK /\ TypeOK'
    BY TickTypes DEF ReconTypeOK
  <1>2. ASSUME NEW r \in Requests
        PROVE  /\ status'[r] # "none" <=> status[r] # "none"
               /\ amount'[r] = amount[r]
               /\ Ledgered(posted'[r], status'[r])
    <2>1. /\ Ledgered(posted[r], status[r])
          /\ posted[r] \in [Kinds -> Tallies] /\ amount[r] \in Nat
      BY <1>1 DEF Postings, TypeOK
    <2>2. CASE /\ Open(r) /\ amounts[r] \in Quotes
               /\ posted'[r] = SettlePosts(posted[r], amount[r], amounts[r])
               /\ status'[r] = "consumed" /\ amount'[r] = amount[r]
      <3>1. status[r] # "none"
        BY <2>2 DEF Open
      <3>2. Ledgered(SettlePosts(posted[r], amount[r], amounts[r]), "consumed")
        BY <2>1, <2>2, <3>1, SettleEffects DEF Ledgered
      <3>3. QED
        BY <2>2, <3>1, <3>2
    <2>3. CASE posted'[r] = posted[r] /\ status'[r] = status[r] /\ amount'[r] = amount[r]
      BY <2>1, <2>3
    <2>4. QED
      BY <2>2, <2>3, TickOnLedger
  <1>3. Reserved' = Reserved
    BY <1>2 DEF Reserved
  <1>4. \A r \in Requests : status'[r] # "none" => amount'[r] \in Amounts
    BY <1>2 DEF Postings
  <1>5. IsFiniteSet(Reserved')
    BY <1>3 DEF Postings
  <1>6. QED
    BY <1>1, <1>2, <1>4, <1>5 DEF Postings

\* A tick that charges no request above its hold takes nothing out of any bucket,
\* however many requests it settles.
LEMMA TickTakes ==
    ASSUME ReconTypeOK, Postings, Tick, NEW k \in BucketKinds, NEW r \in Requests,
           ~ (Charge(r)' > Charge(r) /\ Charge(r)' > amount[r])
    PROVE  Contribution(posted[r][k]) <= Contribution(posted'[r][k])
  <1>1. /\ posted[r] \in [Kinds -> Tallies] /\ amount[r] \in Nat
        /\ "buyer_quota" \in BucketKinds /\ Ledgered(posted[r], status[r])
    BY KindsFacts DEF ReconTypeOK, TypeOK, Postings
  <1>2. Contribution(posted[r][k]) \in Int
    BY <1>1, HoldEffects
  <1>3. CASE posted'[r] = posted[r]
    BY <1>2, <1>3
  <1>4. CASE /\ Open(r) /\ amounts[r] \in Quotes /\ NonNegative(amounts[r])
             /\ posted'[r] = SettlePosts(posted[r], amount[r], amounts[r])
    <2> DEFINE q == amounts[r]
    <2>1. q.buyer \in Nat /\ q \in Quotes
      BY <1>4, LedgerConstants DEF NonNegative
    <2>2. Charge(r) = 0
      BY <1>1, <1>4 DEF Ledgered, Open, Charge, NetDebit
    <2>3. NetDebit(posted'[r]["buyer_quota"]) = NetDebit(posted[r]["buyer_quota"]) + q.buyer
      BY <1>1, <1>4, <2>1, SettleEffects
    <2>4. Charge(r)' = q.buyer
      BY <2>1, <2>2, <2>3 DEF Charge
    <2>5. Contribution(posted'[r][k]) = Contribution(posted[r][k]) + amount[r] - q.buyer
      BY <1>1, <1>4, <2>1, SettleEffects
    <2> HIDE DEF q
    <2>6. q.buyer <= amount[r]
      BY <1>1, <2>1, <2>2, <2>4
    <2>7. QED
      BY <1>1, <1>2, <2>1, <2>5, <2>6
  <1>5. QED
    BY <1>3, <1>4, TickOnLedger

\* A tick that overdraws a bucket has charged a request above its hold.
LEMMA TickOverdraws ==
    ASSUME ReconTypeOK, Postings, Postings', Tick, NEW b \in AllBuckets,
           Available(b) >= 0, Available(b)' < 0
    PROVE  \E r \in Requests : Charge(r)' > Charge(r) /\ Charge(r)' > amount[r]
  <1> SUFFICES ASSUME ~ \E r \in Requests : Charge(r)' > Charge(r) /\ Charge(r)' > amount[r]
               PROVE  FALSE
    OBVIOUS
  <1> DEFINE k == b[1]
             S == Sharing(b)
             c == Contributions(k)
             e == Contributions(k)'
  <1>1. k \in BucketKinds
    BY BucketKind
  <1>2. c \in [Requests -> Int] /\ e \in [Requests -> Int]
    BY <1>1, ContributionsType, ContributionsTypeNext DEF Postings
  <1>3. granted' = granted /\ owner' = owner
    BY DEF Tick
  <1>4. \A r \in Requests : status'[r] # "none" <=> status[r] # "none"
    BY TickOnLedger DEF Open
  <1>5. S' = S /\ S \in SUBSET Requests
    BY <1>3, <1>4 DEF Sharing
  <1>6. /\ Available(b) = granted[b] + Total(c, S)
        /\ Available(b)' = granted[b] + Total(e, S)
        /\ IsFiniteSet(S)
    BY <1>3, <1>5, AvailableIsTotal, AvailableIsTotalNext DEF Postings
  <1>7. \A r \in Requests : c[r] <= e[r]
    <2> SUFFICES ASSUME NEW r \in Requests PROVE c[r] <= e[r]
      OBVIOUS
    <2>1. c[r] = Contribution(posted[r][k]) /\ e[r] = Contribution(posted'[r][k])
      BY DEF Contributions
    <2>2. Contribution(posted[r][k]) <= Contribution(posted'[r][k])
      BY <1>1, TickTakes
    <2>3. QED
      BY <2>1, <2>2
  <1>8. granted[b] \in Int
    BY DEF Postings, TypeOK
  <1> HIDE DEF c, e, S, k
  <1>9. Total(c, S) <= Total(e, S)
    BY <1>2, <1>5, <1>6, <1>7, TotalGrows
  <1>10. Total(c, S) \in Int /\ Total(e, S) \in Int
    BY <1>2, <1>5, <1>6, TotalType
  <1>11. QED
    BY <1>6, <1>8, <1>9, <1>10

\* Reconciliation overdraws no bucket either, save by a charge above the hold or a late
\* amount that rises: not by the sum of what a tick settles at once.
THEOREM ReconNeverOverdrawn == ReconSpec => NoOverdraft
  <1> DEFINE Overdrawn == \E b \in AllBuckets : Available(b) >= 0 /\ Available(b)' < 0
             Charged == \E r \in Requests :
                           /\ Charge(r)' > Charge(r)
                           /\ status[r] = "consumed" \/ Charge(r)' > amount[r]
  <1>1. ReconInit => Postings
    BY InitPostings DEF ReconInit
  <1>2. RInv /\ Postings /\ [ReconNext]_allVars => Postings'
    BY LedgerOrTick, NextPostings, TickPostings DEF RInv
  <1>3. RInv /\ Postings /\ Postings' /\ [ReconNext]_allVars => [Overdrawn => Charged]_vars
    <2> SUFFICES ASSUME RInv, Postings, Postings', [ReconNext]_allVars, Overdrawn PROVE Charged
      OBVIOUS
    <2>1. PICK b \in AllBuckets : Available(b) >= 0 /\ Available(b)' < 0
      OBVIOUS
    <2>2. CASE [Next]_vars
      BY <2>1, <2>2, StepOverdraws
    <2>3. CASE Tick
      BY <2>1, <2>3, TickOverdraws DEF RInv
    <2>4. QED
      BY <2>2, <2>3, LedgerOrTick
  <1> HIDE DEF Overdrawn, Charged
  <1>4. ReconSpec => [][Overdrawn => Charged]_vars
    BY <1>1, <1>2, <1>3, AlwaysRInv, PTL DEF ReconSpec
  <1>5. QED
    BY <1>4 DEF NoOverdraft, Overdrawn, Charged

\* Under reconciliation too, a settled request nets to one quote on all sides.
THEOREM ReconSettlesAtOneQuote ==
    ASSUME QuotesAreAChain
    PROVE  ReconSpec => []OneBusinessEffect
  <1>1. PInv => OneBusinessEffect
    BY AccountsImply DEF PInv
  <1>2. QED
    BY <1>1, AlwaysPInv, PTL
=============================================================================
