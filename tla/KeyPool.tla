------------------------------ MODULE KeyPool -------------------------------
(***************************************************************************)
(* A seller's provider key from its row in api-service (service.py,        *)
(* lifecycle.py, sellerkeys.py) to the pool of the gateway that leases it  *)
(* to requests (pool.go), with the two loops that run beside the requests: *)
(* the refresh of the pool from the rows that can be routed (main.go,      *)
(* internal.py) and the probe of the keys in the pool (scheduler.go,       *)
(* pool_store.go).                                                         *)
(*                                                                         *)
(* One event loop of api-service runs pause, revoke and the internal       *)
(* calls; a resume asks the provider from a thread and comes back later.   *)
(* Times are left out: a cooling key or a muted probe ends at any moment,  *)
(* and the order of the listing, which SQL leaves open, is open here.      *)
(***************************************************************************)
EXTENDS Integers, FiniteSets

CONSTANTS
    SKeys,     \* provider keys
    SReqs,     \* requests to the gateway
    KeyLimit,  \* requests at once on one key
    BadAnswers,  \* what the provider may say of a key it has withdrawn, see HealthOf
    FailsToDown, \* transient failures in a row that put a key down, 3 in the code
    OwnKeys,   \* <<request, key>>: the buyer of the request is the seller of the key
    PoolRestarts \* bound: restarts of the gateway

ASSUME PoolAssumption ==
    /\ KeyLimit \in Nat /\ FailsToDown \in Nat /\ PoolRestarts \in Nat /\ IsFiniteSet(SReqs)
    /\ "none" \notin SKeys  \* NoSKey
    /\ BadAnswers \subseteq {"success", "invalid", "zero_quota", "rate_limited", "temporary", "other"}

VARIABLES
    keyRow,     \* the row of a key: administrative state, health, ciphertext
    resuming,   \* a resume in its thread: "no", "running", or "stale" once the row has moved on
    good,       \* the provider still accepts the key
    poolKeys,   \* health of a key in the pool, "absent" if it is not there
    listed,     \* a refresh that has listed and not yet replaced
    inflight,   \* the pool's count of requests on a key
    leaseOf,    \* the key a request runs on
    cooling,    \* keys put aside after a 429
    probing,    \* the probe's tick: keys left, and the health they had when it began
    probeFails, \* transient failures of a key in a row
    muted,      \* keys the probe leaves alone
    patching,   \* a health that is in the pool and not yet in the row
    poolBoots   \* restarts of the gateway so far

poolVars == <<keyRow, resuming, good, poolKeys, listed, inflight, leaseOf, cooling,
              probing, probeFails, muted, patching, poolBoots>>

NoSKey == "none"
Healths == {"healthy", "unknown", "invalid", "expired", "rate_limited", "down"}
KeyStates == {"absent", "active", "paused", "revoked"}
NotListed == {"idle"}
NoPatch == <<>>

\* One model and one group are asked for: the listing's filters by them are left out.
RoutableRow(k) == keyRow[k].admin = "active" /\ keyRow[k].health = "healthy" /\ keyRow[k].cipher

\* Faulty form of HealthOf: the category is stored as the provider's answer was classified.
HealthUnmapped(cat) == cat

\* MapValidateCategory.
HealthOf(cat) ==
    CASE cat = "success" -> "healthy"
      [] cat = "invalid" -> "invalid"
      [] cat = "zero_quota" -> "expired"
      [] cat = "rate_limited" -> "rate_limited"
      [] cat = "temporary" -> "down"
      [] cat = "other" -> "unknown"

GoodAnswers == {"success", "rate_limited", "temporary"}
AnswersFor(k) == IF good[k] THEN GoodAnswers ELSE BadAnswers

PoolTypeOK ==
    /\ keyRow \in [SKeys -> [admin : KeyStates, health : Healths, cipher : BOOLEAN]]
    /\ resuming \in [SKeys -> {"no", "running", "stale"}]
    /\ good \in [SKeys -> BOOLEAN]
    /\ poolKeys \in [SKeys -> Healths \cup {"absent"}]
    /\ listed \in (SUBSET SKeys) \cup {NotListed}
    /\ inflight \in [SKeys -> Nat]
    /\ leaseOf \in [SReqs -> SKeys \cup {NoSKey}]
    /\ cooling \subseteq SKeys
    /\ probing \in [left : SUBSET SKeys, seen : [SKeys -> Healths \cup {"absent"}]]
    /\ probeFails \in [SKeys -> 0 .. FailsToDown]
    /\ muted \subseteq SKeys
    /\ patching \in {NoPatch} \cup SKeys \X Healths
    /\ poolBoots \in 0 .. PoolRestarts

PoolInit ==
    /\ keyRow = [k \in SKeys |-> [admin |-> "absent", health |-> "unknown", cipher |-> FALSE]]
    /\ resuming = [k \in SKeys |-> "no"]
    /\ good = [k \in SKeys |-> TRUE]
    /\ poolKeys = [k \in SKeys |-> "absent"]
    /\ listed = NotListed
    /\ inflight = [k \in SKeys |-> 0]
    /\ leaseOf = [r \in SReqs |-> NoSKey]
    /\ cooling = {}
    /\ probing = [left |-> {}, seen |-> [k \in SKeys |-> "absent"]]
    /\ probeFails = [k \in SKeys |-> 0]
    /\ muted = {}
    /\ patching = NoPatch
    /\ poolBoots = 0

----------------------------------------------------------------------------
(* api-service *)

gatewaySide == <<poolKeys, listed, inflight, leaseOf, cooling, probing, probeFails, muted, patching, poolBoots>>

MovedOn(k) == [resuming EXCEPT ![k] = IF @ = "running" THEN "stale" ELSE @]

\* The unique fingerprint admits one row of a key; a quota that cannot be read is accepted.
OnboardKey(k) ==
    /\ keyRow[k].admin = "absent" /\ good[k]
    /\ \E h \in {"healthy", "unknown"} :
         keyRow' = [keyRow EXCEPT ![k] = [admin |-> "active", health |-> h, cipher |-> TRUE]]
    /\ UNCHANGED <<resuming, good, gatewaySide>>

PauseKey(k) ==
    /\ keyRow[k].admin = "active"
    /\ keyRow' = [keyRow EXCEPT ![k].admin = "paused"]
    /\ resuming' = MovedOn(k)
    /\ UNCHANGED <<good, gatewaySide>>

\* A revocation also forgets the ciphertext.
RevokeKey(k) ==
    /\ keyRow[k].admin \in {"active", "paused"}
    /\ keyRow' = [keyRow EXCEPT ![k].admin = "revoked", ![k].cipher = FALSE]
    /\ resuming' = MovedOn(k)
    /\ UNCHANGED <<good, gatewaySide>>

\* The provider accepts the key at this moment; the row is written later.
ResumeKey(k) ==
    /\ keyRow[k].admin = "paused" /\ keyRow[k].cipher /\ good[k] /\ resuming[k] = "no"
    /\ resuming' = [resuming EXCEPT ![k] = "running"]
    /\ UNCHANGED <<keyRow, good, gatewaySide>>

\* Faulty form of Unmodified: the row is saved without a look at its version.
SaveAnyway(k) == TRUE

\* save_if_unmodified: the version read before the provider was asked still stands.
Unmodified(k) == resuming[k] = "running" /\ keyRow[k].admin # "revoked"

ResumeKeyDone(k) ==
    /\ resuming[k] # "no"
    /\ resuming' = [resuming EXCEPT ![k] = "no"]
    /\ keyRow' = IF Unmodified(k)
                 THEN [keyRow EXCEPT ![k] = [admin |-> "active", health |-> "healthy", cipher |-> TRUE]]
                 ELSE keyRow
    /\ UNCHANGED <<good, gatewaySide>>

\* The provider withdraws a key for good.
Withdraw(k) ==
    /\ good[k]
    /\ good' = [good EXCEPT ![k] = FALSE]
    /\ UNCHANGED <<keyRow, resuming, gatewaySide>>

----------------------------------------------------------------------------
(* The gateway *)

sellerSide == <<keyRow, resuming, good>>

\* Refresh lists outside of the lock and replaces under it; the counts stay.
RefreshList ==
    /\ listed = NotListed
    /\ listed' = {k \in SKeys : RoutableRow(k)}
    /\ UNCHANGED <<sellerSide, poolKeys, inflight, leaseOf, cooling, probing, probeFails, muted, patching, poolBoots>>

\* Faulty form of RefreshReplace: the new pool starts its counts anew.
RefreshForgetsCounts ==
    /\ listed # NotListed
    /\ poolKeys' = [k \in SKeys |-> IF k \in listed THEN "healthy" ELSE "absent"]
    /\ inflight' = [k \in SKeys |-> 0]
    /\ listed' = NotListed
    /\ UNCHANGED <<sellerSide, leaseOf, cooling, probing, probeFails, muted, patching, poolBoots>>

RefreshReplace ==
    /\ listed # NotListed
    /\ poolKeys' = [k \in SKeys |-> IF k \in listed THEN "healthy" ELSE "absent"]
    /\ listed' = NotListed
    /\ UNCHANGED <<sellerSide, inflight, leaseOf, cooling, probing, probeFails, muted, patching, poolBoots>>

Pickable(k) == poolKeys[k] = "healthy" /\ k \notin cooling /\ inflight[k] < KeyLimit

PickKey(r, k) ==
    /\ leaseOf[r] = NoSKey
    /\ Pickable(k) /\ <<r, k>> \notin OwnKeys
    /\ leaseOf' = [leaseOf EXCEPT ![r] = k]
    /\ inflight' = [inflight EXCEPT ![k] = @ + 1]
    /\ UNCHANGED <<sellerSide, poolKeys, listed, cooling, probing, probeFails, muted, patching, poolBoots>>

\* The deferred release, after a 429 of the provider has set the key aside.
ReleaseKey(r) ==
    LET k == leaseOf[r] IN
    /\ k # NoSKey
    /\ cooling' \in {cooling, cooling \cup {k}}
    /\ inflight' = [inflight EXCEPT ![k] = IF @ > 0 THEN @ - 1 ELSE @]
    /\ leaseOf' = [leaseOf EXCEPT ![r] = NoSKey]
    /\ UNCHANGED <<sellerSide, poolKeys, listed, probing, probeFails, muted, patching, poolBoots>>

CooledDown(k) ==
    /\ k \in cooling
    /\ cooling' = cooling \ {k}
    /\ UNCHANGED <<sellerSide, poolKeys, listed, inflight, leaseOf, probing, probeFails, muted, patching, poolBoots>>

\* Tick begins with a copy of the pool.
ProbeTick ==
    /\ probing.left = {}
    /\ \E k \in SKeys : poolKeys[k] # "absent"
    /\ probing' = [left |-> {k \in SKeys : poolKeys[k] # "absent"}, seen |-> poolKeys]
    /\ UNCHANGED <<sellerSide, poolKeys, listed, inflight, leaseOf, cooling, probeFails, muted, patching, poolBoots>>

Probed(k) == [probing EXCEPT !.left = @ \ {k}, !.seen[k] = "absent"]

ProbeSkip(k) ==
    /\ k \in probing.left /\ k \in muted
    /\ probing' = Probed(k)
    /\ UNCHANGED <<sellerSide, poolKeys, listed, inflight, leaseOf, cooling, probeFails, muted, patching, poolBoots>>

\* Only the last of FailsToDown transient failures counts; an invalid key changes only to healthy; a health
\* that is news is written to the pool at once, if the key is still there.
ProbeKey(k) ==
    \E cat \in AnswersFor(k) :
        LET h == HealthOf(cat)
            fails == IF cat = "success" THEN 0
                     ELSE IF cat = "temporary" THEN IF probeFails[k] = FailsToDown THEN FailsToDown ELSE probeFails[k] + 1
                     ELSE probeFails[k]
            news == /\ cat = "temporary" => fails = FailsToDown
                    /\ h # probing.seen[k]
                    /\ probing.seen[k] = "invalid" => h = "healthy" IN
        /\ k \in probing.left /\ k \notin muted /\ patching = NoPatch
        /\ probeFails' = [probeFails EXCEPT ![k] = fails]
        /\ muted' = IF cat = "rate_limited" THEN muted \cup {k} ELSE muted
        /\ probing' = Probed(k)
        /\ poolKeys' = IF news /\ poolKeys[k] # "absent" THEN [poolKeys EXCEPT ![k] = h] ELSE poolKeys
        /\ patching' = IF news THEN <<k, h>> ELSE NoPatch
        /\ UNCHANGED <<sellerSide, listed, inflight, leaseOf, cooling, poolBoots>>

\* Faulty form of PatchHealth: the report of a probe is always lost.
PatchNeverArrives ==
    /\ patching # NoPatch
    /\ patching' = NoPatch
    /\ UNCHANGED <<sellerSide, poolKeys, listed, inflight, leaseOf, cooling, probing, probeFails, muted, poolBoots>>

\* The health reaches the row, whatever its administrative state.
PatchHealth ==
    /\ patching # NoPatch
    /\ keyRow' = [keyRow EXCEPT ![patching[1]].health = patching[2]]
    /\ patching' = NoPatch
    /\ UNCHANGED <<resuming, good, poolKeys, listed, inflight, leaseOf, cooling, probing, probeFails, muted, poolBoots>>

\* The error of a call that failed is dropped.
PatchLost ==
    /\ patching # NoPatch
    /\ patching' = NoPatch
    /\ UNCHANGED <<sellerSide, poolKeys, listed, inflight, leaseOf, cooling, probing, probeFails, muted, poolBoots>>

Unmute(k) ==
    /\ k \in muted
    /\ muted' = muted \ {k}
    /\ UNCHANGED <<sellerSide, poolKeys, listed, inflight, leaseOf, cooling, probing, probeFails, patching, poolBoots>>

GatewayRestart ==
    /\ poolBoots < PoolRestarts
    /\ poolBoots' = poolBoots + 1
    /\ poolKeys' = [k \in SKeys |-> "absent"]
    /\ listed' = NotListed
    /\ inflight' = [k \in SKeys |-> 0]
    /\ leaseOf' = [r \in SReqs |-> NoSKey]
    /\ cooling' = {}
    /\ probing' = [left |-> {}, seen |-> [k \in SKeys |-> "absent"]]
    /\ probeFails' = [k \in SKeys |-> 0]
    /\ muted' = {}
    /\ patching' = NoPatch
    /\ UNCHANGED sellerSide

PoolNext ==
    \/ \E k \in SKeys : OnboardKey(k) \/ PauseKey(k) \/ RevokeKey(k) \/ ResumeKey(k) \/ ResumeKeyDone(k)
                        \/ Withdraw(k) \/ CooledDown(k) \/ ProbeSkip(k) \/ ProbeKey(k) \/ Unmute(k)
    \/ RefreshList \/ RefreshReplace \/ ProbeTick \/ PatchHealth \/ PatchLost
    \/ \E r \in SReqs : (\E k \in SKeys : PickKey(r, k)) \/ ReleaseKey(r)
    \/ GatewayRestart

----------------------------------------------------------------------------
\* The count of a key is the number of requests that run on it, and no more than its limit,
\* while refreshes replace the pool under the requests and the probe edits it (pool.go:90,105,160).
KeyLeases ==
    \A k \in SKeys : /\ inflight[k] = Cardinality({r \in SReqs : leaseOf[r] = k})
                     /\ inflight[k] <= KeyLimit

\* A revoked key stays revoked and its ciphertext stays forgotten, though a resume that read
\* the row before may come back after (lifecycle.py:135-156).
RevokedStays ==
    [][\A k \in SKeys : keyRow[k].admin = "revoked" => /\ keyRow'[k].admin = "revoked"
                                                       /\ ~keyRow'[k].cipher]_poolVars

\* A key the provider has withdrawn is at last out of reach of the requests for good, though
\* a refresh may bring back what a probe has just put down and the report of a probe may be
\* lost (scheduler.go:80, pool_store.go:32).
WithdrawnLeaves == \A k \in SKeys : []<>~good[k] => <>[](poolKeys[k] # "healthy")
=============================================================================
