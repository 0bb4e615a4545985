------------------------------- MODULE Recon --------------------------------
(***************************************************************************)
(* Asynchronous reconciliation in billing-service                          *)
(* (app/domain/recon/service.py), composed with the ledger it drives.      *)
(*                                                                         *)
(* Evidence about what a request cost arrives late, twice and out of       *)
(* order.  Evidence that the cost is unknown opens a case with a retry     *)
(* time and an SLA; evidence of the cost settles the reservation or        *)
(* corrects it; a periodic tick retries or escalates open cases; finance   *)
(* may reverse a settled request after a preview.  The gateway calls the   *)
(* ledger meanwhile.  Handlers are coroutines with no await: one step.     *)
(*                                                                         *)
(* The lists of tickets and of audits are left out: nothing reads them.    *)
(***************************************************************************)
EXTENDS Ledger, Sequences, FiniteSets

CONSTANTS
    Events,      \* evidence: [id, kind, request, quote]
    NoQuote,     \* an amount the evidence does not carry
    MaxPerTick,  \* max_per_tick
    RetryFirst, RetryAgain, Sla,  \* delays, in clock units
    MaxNow       \* bound: the clock stops here

DoubtKinds == {"missing_amount", "missing_usage", "parse_failed", "async_pending"}
CostKinds == {"reported_cost", "usage_rated"}

ASSUME ReconConstants ==
    /\ \A e \in Events :
        /\ e.request \in Requests
        /\ e.kind \in DoubtKinds \cup CostKinds
        \* An amount that is no quote does not add up: no handler looks further at it.
        /\ e.quote # NoQuote =>
              e.quote \in Quotes \/ e.quote.buyer # e.quote.seller + e.quote.spread
    /\ {RetryFirst, RetryAgain, Sla, MaxNow} \subseteq Nat
    /\ MaxPerTick \in Nat \ {0}

VARIABLES
    seen,     \* _seen: ids of the events accepted so far
    cases,    \* _cases: per request, its unresolved case
    order,    \* the order in which _cases was filled, which tick follows
    amounts,  \* _amounts: per request, the last cost the evidence gave
    previews, \* _previews: the requests a reversal was previewed for
    now,      \* the service's clock
    reported  \* history: per request, the last reported cost that was applied

reconVars == <<seen, cases, order, amounts, previews, now, reported>>
allVars == <<vars, reconVars>>

NoCase == [st |-> "absent", retry |-> 0, sla |-> 0]
CaseStates == {"absent", "open", "recovered", "manual"}
InCase(r, st) == cases[r].st = st

\* settle() and apply_delta() accept an amount only if it adds up; settle() also wants
\* no side of it negative.
AddsUp(q) == q.buyer = q.seller + q.spread
Settleable(q) == AddsUp(q) /\ NonNegative(q)

----------------------------------------------------------------------------
(* ingest: an event is remembered before anything is done about it.        *)

Remember(e) == e.id \notin seen /\ seen' = seen \cup {e.id}

\* The request is unknown, or no longer in doubt: the handler raises.
IngestRefused(e) ==
    /\ Remember(e)
    /\ \/ status[e.request] = "none"
       \/ e.kind \in DoubtKinds /\ status[e.request] \in {"consumed", "released"}
    /\ UNCHANGED <<vars, cases, order, amounts, previews, now, reported>>

NewCase(r) == [cases EXCEPT ![r] =
                  [st |-> "open", retry |-> now + RetryFirst, sla |-> now + Sla]]

\* Faulty form of IngestDoubt: the ledger is not told.
IngestDoubtUnmarked(e) ==
    LET r == e.request IN
    /\ Remember(e)
    /\ e.kind \in DoubtKinds
    /\ now + Sla <= MaxNow
    /\ status[r] \in {"held", "unresolved"}
    /\ cases' = NewCase(r)
    /\ order' = IF InCase(r, "absent") THEN Append(order, r) ELSE order
    /\ UNCHANGED <<vars, amounts, previews, now, reported>>

\* Faulty form of IngestDoubt: a case that is opened again is queued again.
IngestDoubtAgain(e) ==
    LET r == e.request IN
    /\ Remember(e)
    /\ e.kind \in DoubtKinds
    /\ now + Sla <= MaxNow
    /\ \/ MarkUnresolved(r)
       \/ status[r] = "unresolved" /\ UNCHANGED vars
    /\ cases' = NewCase(r)
    /\ order' = Append(order, r)
    /\ UNCHANGED <<amounts, previews, now, reported>>

\* The cost is unknown: the reservation becomes unresolved and a case is opened,
\* or opened again.
IngestDoubt(e) ==
    LET r == e.request IN
    /\ Remember(e)
    /\ e.kind \in DoubtKinds
    /\ now + Sla <= MaxNow     \* bound: the clock reaches every deadline
    /\ \/ MarkUnresolved(r)
       \/ status[r] = "unresolved" /\ UNCHANGED vars
    /\ cases' = NewCase(r)
    /\ order' = IF InCase(r, "absent") THEN Append(order, r) ELSE order
    /\ UNCHANGED <<amounts, previews, now, reported>>

\* Evidence of the kind that carries a cost, without one.
IngestEmpty(e) ==
    /\ Remember(e)
    /\ e.kind \in CostKinds
    /\ status[e.request] # "none"
    /\ e.quote = NoQuote
    /\ UNCHANGED <<vars, cases, order, amounts, previews, now, reported>>

Close(r) == IF InCase(r, "absent") THEN cases
            ELSE [cases EXCEPT ![r].st = "recovered"]

\* Faulty form of Takes: rated usage corrects a settled request too.
TakesUsage(e) ==
    LET r == e.request IN
    /\ AddsUp(e.quote)
    /\ \/ Settle(r, e.quote)
       \/ ApplyDelta(r, e.quote)

\* The ledger takes the cost: it settles an open reservation, and corrects a settled
\* one, to a credit if need be, if the provider itself reported the cost.
Takes(e) ==
    LET r == e.request IN
    /\ AddsUp(e.quote)
    /\ \/ Settle(r, e.quote)
       \/ e.kind = "reported_cost" /\ ApplyDelta(r, e.quote)
       \/ /\ e.kind = "reported_cost"
          /\ status[r] = "consumed"
          /\ Delta(r, e.quote) = [buyer |-> 0, seller |-> 0, spread |-> 0]
          /\ UNCHANGED vars

\* The ledger raises, or a rated usage finds the request settled already.
TakesNot(e) ==
    LET r == e.request IN
    /\ \/ status[r] = "released"
       \/ status[r] = "consumed" /\ e.kind = "usage_rated"
       \/ ~AddsUp(e.quote)
       \/ Open(r) /\ ~NonNegative(e.quote)
       \/ status[r] = "consumed" /\ ~AddsUp(Delta(r, e.quote))
    /\ UNCHANGED vars

\* Faulty form of IngestCost: the case is closed before the ledger is asked.
IngestCostCloseFirst(e) ==
    LET r == e.request IN
    /\ Remember(e)
    /\ e.kind \in CostKinds
    /\ status[r] # "none"
    /\ e.quote # NoQuote
    /\ amounts' = [amounts EXCEPT ![r] = e.quote]
    /\ cases' = Close(r)
    /\ Takes(e) \/ TakesNot(e)
    /\ UNCHANGED <<order, previews, now, reported>>

IngestCost(e) ==
    LET r == e.request IN
    /\ Remember(e)
    /\ e.kind \in CostKinds
    /\ status[r] # "none"
    /\ e.quote # NoQuote
    /\ amounts' = [amounts EXCEPT ![r] = e.quote]
    /\ \/ /\ Takes(e)
          /\ cases' = Close(r)
          /\ reported' = IF e.kind = "reported_cost"
                         THEN [reported EXCEPT ![r] = e.quote] ELSE reported
       \/ TakesNot(e) /\ UNCHANGED <<cases, reported>>
    /\ UNCHANGED <<order, previews, now>>

----------------------------------------------------------------------------
(* tick: one pass over the cases in the order they were opened.            *)

\* Faulty form of Expired: a case without a known cost waits for ever.
ExpiredCosted(r) == InCase(r, "open") /\ now >= cases[r].sla /\ amounts[r] # NoQuote

Expired(r) == InCase(r, "open") /\ now >= cases[r].sla
Due(r) == InCase(r, "open") /\ now < cases[r].sla /\ now >= cases[r].retry
Costed(r) == amounts[r] # NoQuote

\* settle() raises, and the exception ends the pass.
Fails(r) == Due(r) /\ Costed(r) /\ (~Settleable(amounts[r]) \/ status[r] = "released")

\* The pass ends at the first failure or after MaxPerTick cases that were due.
Handled(i) ==
    /\ \A j \in 1..i : ~Fails(order[j])
    /\ Cardinality({j \in 1..(i - 1) : Due(order[j])}) < MaxPerTick

HandledCases == {order[i] : i \in {j \in DOMAIN order : Handled(j)}}

\* The requests a tick settles; settle() returns early for a consumed one.
TickSettles == {r \in HandledCases : Due(r) /\ Costed(r) /\ Open(r)}

Tick ==
    /\ cases' = [r \in Requests |->
          CASE r \in HandledCases /\ Expired(r) -> [cases[r] EXCEPT !.st = "manual"]
            [] r \in HandledCases /\ Due(r) /\ Costed(r) -> [cases[r] EXCEPT !.st = "recovered"]
            [] r \in HandledCases /\ Due(r) /\ ~Costed(r) ->
                  [cases[r] EXCEPT !.retry = now + RetryAgain]
            [] OTHER -> cases[r]]
    /\ posted' = [r \in Requests |->
          IF r \in TickSettles THEN SettlePosts(posted[r], amount[r], amounts[r])
          ELSE posted[r]]
    /\ status' = [r \in Requests |-> IF r \in TickSettles THEN "consumed" ELSE status[r]]
    /\ UNCHANGED <<granted, idem, owner, amount>>
    /\ UNCHANGED <<seen, order, amounts, previews, now, reported>>

----------------------------------------------------------------------------
(* Manual reversal and the daily report, which changes nothing it reads.   *)

PreviewReverse(r) ==
    /\ status[r] = "consumed"
    /\ previews' = previews \cup {r}
    /\ UNCHANGED <<vars, seen, cases, order, amounts, now, reported>>

\* With a privileged role, a step-up, a reason and any preview of the request.
ApplyReverse(r) ==
    /\ r \in previews
    /\ Reverse(r)
    /\ UNCHANGED reconVars

\* What the daily report calls a reservation with neither an end nor a case.
Orphan(r) == Open(r) /\ InCase(r, "absent")

Advance ==
    /\ now < MaxNow
    /\ now' = now + 1
    /\ UNCHANGED <<vars, seen, cases, order, amounts, previews, reported>>

\* What the gateway asks of the ledger through its own endpoints.
LedgerCall ==
    /\ \/ \E o \in Owners, g \in Grants : SeedQuota(o, g)
       \/ \E r \in Requests :
            \/ \E k \in IdemKeys, o \in Owners, a \in Amounts : Reserve(r, k, o, a)
            \/ \E q \in Quotes : Settle(r, q)
            \/ Release(r)
            \/ MarkUnresolved(r)
    /\ UNCHANGED reconVars

----------------------------------------------------------------------------
ReconInit ==
    /\ Init
    /\ seen = {}
    /\ cases = [r \in Requests |-> NoCase]
    /\ order = <<>>
    /\ amounts = [r \in Requests |-> NoQuote]
    /\ previews = {}
    /\ now = 0
    /\ reported = [r \in Requests |-> NoQuote]

ReconNext ==
    \/ LedgerCall
    \/ \E e \in Events :
         IngestRefused(e) \/ IngestDoubt(e) \/ IngestEmpty(e) \/ IngestCost(e)
    \/ Tick
    \/ \E r \in Requests : PreviewReverse(r) \/ ApplyReverse(r)
    \/ Advance

ReconSpec == ReconInit /\ [][ReconNext]_allVars

\* The tick endpoint is called again and again, and time passes.
FairReconSpec == ReconSpec /\ WF_allVars(Tick) /\ WF_allVars(Advance)

----------------------------------------------------------------------------
(* Properties.                                                             *)

Quoted == Quotes \cup {e.quote : e \in Events} \cup {NoQuote}

\* Every variable has its type, and the pass of a tick meets every case once.
ReconTypeOK ==
    /\ TypeOK
    /\ seen \subseteq {e.id : e \in Events}
    /\ cases \in [Requests -> [st : CaseStates, retry : Nat, sla : Nat]]
    /\ order \in Seq(Requests)
    /\ \A i, j \in DOMAIN order : order[i] = order[j] => i = j
    /\ {order[i] : i \in DOMAIN order} = {r \in Requests : ~InCase(r, "absent")}
    /\ amounts \in [Requests -> Quoted]
    /\ previews \subseteq Requests
    /\ now \in 0..MaxNow
    /\ reported \in [Requests -> Quoted]

\* A cost the provider reported stands: rated usage that arrives before or after it,
\* a settlement retried by the gateway and the ticks in between leave the request at
\* exactly what was reported last, until it is reversed.
ReportedWins ==
    \A r \in Requests : status[r] = "consumed" /\ reported[r] # NoQuote =>
        [buyer |-> Charge(r), seller |-> Earning(r), spread |-> Spread(r)] = reported[r]

\* No hold is forgotten: an open reservation has a case that a tick or a person still
\* looks after, or the daily report lists it as an orphan.  A case that is closed too
\* early would hide its hold from both.
NothingForgotten ==
    \A r \in Requests : Open(r) =>
        Orphan(r) \/ InCase(r, "open") \/ InCase(r, "manual")

\* A reservation with a case is never plainly held, from where it could be released
\* without its cost ever being known.
CaseKeepsDoubt ==
    \A r \in Requests : ~InCase(r, "absent") => status[r] \notin {"none", "held"}

\* What the ledger promises about one request holds of each of them under
\* reconciliation: whatever evidence arrives and however many requests a tick settles at
\* once, every request goes through the escrow contract alone, one step at a time.
EscrowOf(r) == INSTANCE EscrowContract WITH
    Requests <- {r},
    phase <- [s \in {r} |-> Phase(s)],
    hold <- [s \in {r} |-> Hold(posted[s]["buyer_quota"])],
    charge <- [s \in {r} |-> Charge(s)],
    payout <- [s \in {r} |-> Earning(s) + Spread(s)]

EachKeepsEscrow ==
    /\ \A r \in Requests : EscrowOf(r)!CInit
    /\ [][\A r \in Requests : [EscrowOf(r)!CNext]_(EscrowOf(r)!cvars)]_allVars

\* Every open case is eventually recovered or handed to a person, even behind a case
\* on which every tick fails and beyond MaxPerTick.
CasesClose == \A r \in Requests : InCase(r, "open") ~> ~InCase(r, "open")
=============================================================================
