----------------------------- MODULE ProxyAuth ------------------------------
(***************************************************************************)
(* Authentication of a buyer's proxy key in the gateway: the two caches    *)
(* and the lookup slots of the admission limiter (admission.go) around the *)
(* lookup of the hash in api-service (auth.go, client.go, internal.py),    *)
(* while the buyer issues, rotates, disables and revokes keys (ProxyKeys). *)
(*                                                                         *)
(* The row is read at one moment and the answer used at a later one; a     *)
(* lookup may come to nothing.  An entry of a cache expires or is evicted  *)
(* at any moment, and the bucket of lookups may be empty at any moment.    *)
(***************************************************************************)
EXTENDS ProxyKeys

CONSTANTS
    AReqs,      \* requests to the gateway
    MaxLookups  \* lookups in flight at once

ASSUME AuthAssumption == IsFiniteSet(AReqs) /\ MaxLookups \in Nat

VARIABLES
    posCache,   \* secrets that were found
    negCache,   \* secrets that were not found
    lookups,    \* the limiter's count of lookups in flight
    areq        \* a request: its step, its secret, what its lookup has read, and whether a row
                \* with the secret was active at some moment since the request arrived

authVars == <<keyVars, posCache, negCache, lookups, areq>>

NewReq == [pc |-> "new", secret |-> NoSecret, read |-> "none", seen |-> FALSE]

AuthTypeOK ==
    /\ KeysTypeOK
    /\ posCache \subseteq Secrets /\ negCache \subseteq Secrets
    /\ lookups \in Nat
    /\ areq \in [AReqs -> [pc : {"new", "recheck", "lookup", "ok"},
                           secret : Secrets \cup {NoSecret},
                           read : {"none", "hit", "miss", "unavailable"}, seen : BOOLEAN]]

AuthInit ==
    /\ KeysInit
    /\ posCache = {} /\ negCache = {}
    /\ lookups = 0
    /\ areq = [r \in AReqs |-> NewReq]

----------------------------------------------------------------------------
\* A step of api-service; under an idempotency key an issue does the same to the rows.
KeysStep ==
    /\ \E k \in PKeys : \/ Disable(k) \/ Enable(k) \/ Revoke(k)
                        \/ \E s \in Secrets : IssueNew(NoIdem, k, s) \/ Rotate(k, s)
    /\ LET active == {s \in Secrets : ActiveRow(s)}' IN
       areq' = [r \in AReqs |-> [areq[r] EXCEPT !.seen = @ \/ areq[r].secret \in active]]
    /\ UNCHANGED <<posCache, negCache, lookups>>

\* lookup_runtime.
RuntimeLookup(s) == IF ActiveRow(s) THEN "hit" ELSE "miss"

----------------------------------------------------------------------------
RememberMiss(s) == negCache' = negCache \cup {s} /\ posCache' = posCache \ {s}
RememberHit(s) == posCache' = posCache \cup {s} /\ negCache' = negCache \ {s}

AllowLookup == lookups < MaxLookups

\* A secret that was found is looked up again without a slot; one that was not is refused at
\* once; any other takes a slot and a token, or is turned away.
Authenticate(r, s) ==
    /\ areq[r].pc = "new" /\ s \in spent /\ s \notin negCache
    /\ s \in posCache \/ AllowLookup
    /\ areq' = [areq EXCEPT ![r] = [pc |-> IF s \in posCache THEN "recheck" ELSE "lookup",
                                    secret |-> s, read |-> "none", seen |-> ActiveRow(s)]]
    /\ lookups' = IF s \in posCache THEN lookups ELSE lookups + 1
    /\ UNCHANGED <<keyVars, posCache, negCache>>

\* LookupResult: the row is read, or the call fails.
ReadRow(r) ==
    /\ areq[r].pc \in {"recheck", "lookup"} /\ areq[r].read = "none"
    /\ \E v \in {RuntimeLookup(areq[r].secret), "unavailable"} : areq' = [areq EXCEPT ![r].read = v]
    /\ UNCHANGED <<keyVars, posCache, negCache, lookups>>

Ends(r, found) == areq' = [areq EXCEPT ![r] = IF found THEN [@ EXCEPT !.pc = "ok"] ELSE NewReq]

\* Faulty form of Rechecked: a cached secret passes without the answer of api-service.
CachedPasses(r) ==
    /\ areq[r].pc = "recheck" /\ areq[r].read # "none"
    /\ Ends(r, TRUE)
    /\ UNCHANGED <<posCache, negCache, keyVars, lookups>>

\* A cached secret that is not found again is a miss, even when api-service did not answer.
Rechecked(r) ==
    LET found == areq[r].read = "hit" IN
    /\ areq[r].pc = "recheck" /\ areq[r].read # "none"
    /\ Ends(r, found)
    /\ IF found THEN UNCHANGED <<posCache, negCache>> ELSE RememberMiss(areq[r].secret)
    /\ UNCHANGED <<keyVars, lookups>>

LookedUp(r) ==
    LET v == areq[r].read IN
    /\ areq[r].pc = "lookup" /\ v # "none"
    /\ Ends(r, v = "hit")
    /\ CASE v = "hit" -> RememberHit(areq[r].secret)
         [] v = "miss" -> RememberMiss(areq[r].secret)
         [] v = "unavailable" -> UNCHANGED <<posCache, negCache>>
    /\ lookups' = IF lookups > 0 THEN lookups - 1 ELSE lookups
    /\ UNCHANGED keyVars

\* The lifetime of an entry ends, or the oldest gives way.
Expire(s) ==
    /\ s \in posCache \cup negCache
    /\ posCache' = posCache \ {s} /\ negCache' = negCache \ {s}
    /\ UNCHANGED <<keyVars, lookups, areq>>

\* The client sends the next request.
NextRequest(r) ==
    /\ areq[r].pc = "ok"
    /\ areq' = [areq EXCEPT ![r] = NewReq]
    /\ UNCHANGED <<keyVars, posCache, negCache, lookups>>

AuthNext ==
    \/ KeysStep
    \/ \E s \in Secrets : Expire(s)
    \/ \E r \in AReqs : (\E s \in Secrets : Authenticate(r, s)) \/ ReadRow(r) \/ Rechecked(r)
                        \/ LookedUp(r) \/ NextRequest(r)

----------------------------------------------------------------------------
\* No request passes with a secret no active row had at any moment since the request arrived,
\* whatever the caches hold and however late an old answer is put into them; and the slots
\* taken are those of the lookups under way, at most MaxLookups (auth.go:92,100, admission.go:166).
RevokedRefused ==
    /\ \A r \in AReqs : areq[r].pc = "ok" => areq[r].seen
    /\ lookups = Cardinality({r \in AReqs : areq[r].pc = "lookup"})
    /\ lookups <= MaxLookups
=============================================================================
