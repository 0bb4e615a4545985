-------------------------- MODULE ProxyAuthProofs ---------------------------
(***************************************************************************)
(* What TLAPS proves about ProxyKeys and ProxyAuth, for any rows, secrets, *)
(* idempotency keys, requests and limits.                                  *)
(***************************************************************************)
EXTENDS ProxyAuth, FiniteSetTheorems, TLAPS

KeysSpec == KeysInit /\ [][KeysNext]_keyVars
AuthSpec == AuthInit /\ [][AuthNext]_authVars

----------------------------------------------------------------------------
(* Idempotency.  What the buyer was told of is what is on record.          *)

ToldOnRecord ==
    /\ idem \in [IdemKeys -> PKeys \cup {NoKey}]
    /\ \A i \in IdemKeys : \A k \in PKeys : <<i, k>> \in answered => idem[i] = k

LEMMA ToldStep ==
    ASSUME ToldOnRecord, [KeysNext]_keyVars
    PROVE  ToldOnRecord'
<1> USE DEF ToldOnRecord
<1>1. CASE UNCHANGED <<idem, answered>>
      BY <1>1
<1>2. ASSUME NEW k \in PKeys, NEW s \in Secrets, NEW i \in IdemKeys \cup {NoIdem}, IssueNew(i, k, s)
      PROVE  ToldOnRecord'
  <2>1. CASE UNCHANGED <<idem, answered>>
        BY <2>1
  <2>2. CASE ~UNCHANGED <<idem, answered>>
    <3>1. /\ i # NoIdem /\ i \in IdemKeys /\ idem[i] = NoKey
          /\ idem' = [idem EXCEPT ![i] = k]
          /\ answered' \in {answered, answered \cup {<<i, k>>}}
          BY <1>2, <2>2 DEF IssueNew
    <3>2. \A l \in PKeys : <<i, l>> \notin answered
          BY <3>1, KeysAssumption DEF NoKey
    <3> QED BY <3>1, <3>2
  <2> QED BY <2>1, <2>2
<1>3. ASSUME NEW i \in IdemKeys, IssueAgain(i) PROVE ToldOnRecord'
      BY <1>3 DEF IssueAgain
<1>4. ASSUME NEW k \in PKeys, Disable(k) \/ Enable(k) \/ Revoke(k) \/ (\E s \in Secrets : Rotate(k, s))
      PROVE  UNCHANGED <<idem, answered>>
      BY <1>4 DEF Disable, Enable, Revoke, SaveStatus, Rotate
<1>5. CASE UNCHANGED keyVars
      BY <1>1, <1>5 DEF keyVars
<1> QED BY <1>1, <1>2, <1>3, <1>4, <1>5 DEF KeysNext

\* However requests are retried and wherever the process ended, a buyer is told of one key
\* under one idempotency key, the one on record (proxykeys/service.py:230,263).
THEOREM OneKeyTold == KeysSpec => []OneKeyAnswered
<1>1. KeysInit => ToldOnRecord
      BY DEF KeysInit, ToldOnRecord
<1>2. ToldOnRecord /\ [KeysNext]_keyVars => ToldOnRecord'
      BY ToldStep
<1>3. ToldOnRecord => OneKeyAnswered
      BY DEF ToldOnRecord, OneKeyAnswered
<1> QED BY <1>1, <1>2, <1>3, PTL DEF KeysSpec

----------------------------------------------------------------------------
(* Authentication.  A row that was read active was active since the        *)
(* request arrived; a request that passed had read one.                    *)

ReqSound(q) ==
    /\ q.read = "hit" \/ q.pc = "ok" => q.seen
    /\ q.pc = "new" => q.read = "none"
    /\ q.pc # "new" => q.secret \in Secrets

\* A request is marked as soon as its secret is active.
SeenNow(q) == q.pc # "new" /\ ActiveRow(q.secret) => q.seen

AReqs0 == [pc : {"new", "recheck", "lookup", "ok"}, secret : Secrets \cup {NoSecret},
           read : {"none", "hit", "miss", "unavailable"}, seen : BOOLEAN]

LookingUp == {r \in AReqs : areq[r].pc = "lookup"}

AInv ==
    /\ areq \in [AReqs -> AReqs0]
    /\ \A r \in AReqs : ReqSound(areq[r]) /\ SeenNow(areq[r])
    /\ lookups = Cardinality(LookingUp) /\ lookups <= MaxLookups

LEMMA NewReqSound == NewReq \in AReqs0 /\ NewReq.pc = "new" /\ ReqSound(NewReq) /\ SeenNow(NewReq)
BY DEF NewReq, AReqs0, ReqSound, SeenNow

LEMMA LookingUpFinite == IsFiniteSet(LookingUp) /\ Cardinality(LookingUp) \in Nat
BY AuthAssumption, FS_Subset, FS_CardinalityType DEF LookingUp

LEMMA AuthInitial == AuthInit => AInv
<1> SUFFICES ASSUME AuthInit PROVE AInv OBVIOUS
<1>1. areq = [r \in AReqs |-> NewReq] /\ lookups = 0
      BY DEF AuthInit
<1>2. LookingUp = {}
      BY <1>1 DEF LookingUp, NewReq
<1>3. areq \in [AReqs -> AReqs0] /\ \A r \in AReqs : ReqSound(areq[r]) /\ SeenNow(areq[r])
      BY <1>1 DEF NewReq, AReqs0, ReqSound, SeenNow
<1> QED BY <1>1, <1>2, <1>3, FS_EmptySet, AuthAssumption DEF AInv

\* A change of a row marks the requests whose secret it activates, and moves none of them on.
LEMMA KeysStepSound == ASSUME AInv, KeysStep PROVE AInv'
<1> DEFINE active == {s \in Secrets : ActiveRow(s)'}
<1>1. areq' = [r \in AReqs |-> [areq[r] EXCEPT !.seen = @ \/ areq[r].secret \in active]] /\ lookups' = lookups
      BY DEF KeysStep
<1>2. ASSUME NEW r \in AReqs
      PROVE  /\ areq'[r].pc = areq[r].pc /\ areq'[r].secret = areq[r].secret /\ areq'[r].read = areq[r].read
             /\ areq'[r].seen = (areq[r].seen \/ areq[r].secret \in active) /\ areq'[r] \in AReqs0
      BY <1>1 DEF AInv, AReqs0
<1>3. areq' \in [AReqs -> AReqs0]
      BY <1>1, <1>2
<1>4. LookingUp' = LookingUp
      BY <1>2 DEF LookingUp
<1>5. ASSUME NEW r \in AReqs PROVE ReqSound(areq[r])' /\ SeenNow(areq[r])'
  <2>1. ReqSound(areq[r])
        BY DEF AInv
  <2>2. ReqSound(areq[r])'
        BY <1>2, <2>1 DEF ReqSound
  <2>3. ASSUME areq'[r].pc # "new", ActiveRow(areq[r].secret)' PROVE areq'[r].seen
        BY <1>2, <2>1, <2>3 DEF ReqSound, ActiveRow
  <2> QED BY <2>2, <2>3 DEF SeenNow
<1> QED BY <1>1, <1>3, <1>4, <1>5 DEF AInv

\* The gateway does not touch the rows, and touches one request at a time.
Alone(r, q) == areq' = [areq EXCEPT ![r] = q] /\ UNCHANGED keyOf

LEMMA AloneSound ==
    ASSUME AInv, NEW r \in AReqs, NEW q \in AReqs0, Alone(r, q), ReqSound(q), SeenNow(q)
    PROVE  /\ areq' \in [AReqs -> AReqs0]
           /\ \A p \in AReqs : (ReqSound(areq[p]) /\ SeenNow(areq[p]))'
           /\ LookingUp' = IF q.pc = "lookup" THEN LookingUp \cup {r} ELSE LookingUp \ {r}
           /\ (areq[r].pc = "lookup" <=> r \in LookingUp)
<1>1. areq' \in [AReqs -> AReqs0] /\ areq'[r] = q /\ \A p \in AReqs \ {r} : areq'[p] = areq[p]
      BY DEF Alone, AInv
<1>2. ASSUME NEW p \in AReqs PROVE (ReqSound(areq[p]) /\ SeenNow(areq[p]))'
  <2>1. CASE p = r
        BY <1>1, <2>1 DEF Alone, ReqSound, SeenNow, ActiveRow
  <2>2. CASE p # r
        BY <1>1, <2>2 DEF Alone, AInv, ReqSound, SeenNow, ActiveRow
  <2> QED BY <2>1, <2>2
<1> QED BY <1>1, <1>2 DEF LookingUp

LEMMA GatewayStepSound ==
    ASSUME AInv, NEW r \in AReqs,
           (\E s \in Secrets : Authenticate(r, s)) \/ ReadRow(r) \/ Rechecked(r) \/ LookedUp(r) \/ NextRequest(r)
    PROVE  AInv'
<1>0. areq[r] \in AReqs0 /\ ReqSound(areq[r]) /\ SeenNow(areq[r])
      BY DEF AInv
<1>1. ASSUME NEW s \in Secrets, Authenticate(r, s) PROVE AInv'
  <2> DEFINE q == [pc |-> IF s \in posCache THEN "recheck" ELSE "lookup", secret |-> s, read |-> "none", seen |-> ActiveRow(s)]
  <2>0. PICK p \in AReqs0 : p = q
    <3>1. ActiveRow(s) \in BOOLEAN
          BY DEF ActiveRow
    <3>2. q \in AReqs0
          BY <3>1 DEF AReqs0
    <3> QED BY <3>2
  <2>1. Alone(r, p) /\ ReqSound(p) /\ SeenNow(p)
        BY <1>1, <2>0 DEF Authenticate, Alone, ReqSound, SeenNow, keyVars
  <2>2. areq[r].pc = "new" /\ r \notin LookingUp
        BY <1>1 DEF Authenticate, LookingUp
  <2>3. CASE s \in posCache
    <3>1. p.pc # "lookup" /\ lookups' = lookups
          BY <1>1, <2>0, <2>3 DEF Authenticate
    <3>2. LookingUp' = LookingUp
          BY <2>1, <2>2, <3>1, AloneSound
    <3> QED BY <2>1, <3>1, <3>2, AloneSound DEF AInv
  <2>4. CASE s \notin posCache
    <3>1. p.pc = "lookup" /\ lookups' = lookups + 1 /\ lookups < MaxLookups
          BY <1>1, <2>0, <2>4 DEF Authenticate, AllowLookup
    <3>2. LookingUp' = LookingUp \cup {r}
          BY <2>1, <3>1, AloneSound
    <3>3. Cardinality(LookingUp') = Cardinality(LookingUp) + 1
          BY <2>2, <3>2, LookingUpFinite, FS_AddElement
    <3>4. lookups' <= MaxLookups
          BY <3>1, AuthAssumption, LookingUpFinite DEF AInv
    <3> QED BY <2>1, <3>1, <3>3, <3>4, AloneSound DEF AInv
  <2> QED BY <2>3, <2>4
<1>2. ASSUME ReadRow(r) PROVE AInv'
  <2>1. PICK v \in {RuntimeLookup(areq[r].secret), "unavailable"} : areq' = [areq EXCEPT ![r].read = v]
        BY <1>2 DEF ReadRow
  <2>2. PICK q \in AReqs0 : q = [areq[r] EXCEPT !.read = v]
        BY <1>0, <2>1 DEF AReqs0, RuntimeLookup
  <2>3. Alone(r, q)
        BY <1>2, <2>1, <2>2 DEF Alone, ReadRow, AInv, keyVars
  <2>4. v = "hit" => areq[r].seen
        BY <1>0, <1>2, <2>1 DEF RuntimeLookup, SeenNow, ReadRow
  <2>5. ReqSound(q) /\ SeenNow(q)
        BY <1>0, <1>2, <2>2, <2>4 DEF ReqSound, SeenNow, ReadRow, AReqs0
  <2>6. q.pc = areq[r].pc
        BY <1>0, <2>2 DEF AReqs0
  <2>7. LookingUp' = LookingUp /\ lookups' = lookups
        BY <1>2, <2>3, <2>5, <2>6, AloneSound DEF ReadRow
  <2> QED BY <2>3, <2>5, <2>7, AloneSound DEF AInv
<1>3. ASSUME Rechecked(r) \/ NextRequest(r) PROVE AInv'
  <2>1. PICK q \in AReqs0 : /\ Alone(r, q) /\ q.pc \in {"ok", "new"}
                            /\ ReqSound(q) /\ SeenNow(q)
    <3>1. CASE Rechecked(r) /\ areq[r].read = "hit"
      <4>1. PICK q \in AReqs0 : q = [areq[r] EXCEPT !.pc = "ok"]
            BY <1>0 DEF AReqs0
      <4>2. Alone(r, q)
            BY <3>1, <4>1 DEF Rechecked, Ends, Alone, keyVars
      <4> QED BY <1>0, <3>1, <4>1, <4>2 DEF ReqSound, SeenNow, AReqs0, Rechecked
    <3>2. CASE (Rechecked(r) /\ areq[r].read # "hit") \/ NextRequest(r)
      <4>1. Alone(r, NewReq)
            BY <3>2 DEF Rechecked, NextRequest, Ends, Alone, keyVars
      <4> QED BY <4>1, NewReqSound
    <3> QED BY <1>3, <3>1, <3>2
  <2>2. areq[r].pc # "lookup" /\ lookups' = lookups
        BY <1>3 DEF Rechecked, NextRequest
  <2>3. LookingUp' = LookingUp
        BY <2>1, <2>2, AloneSound
  <2> QED BY <2>1, <2>2, <2>3, AloneSound DEF AInv
<1>4. ASSUME LookedUp(r) PROVE AInv'
  <2>1. PICK q \in AReqs0 : /\ Alone(r, q) /\ q.pc \in {"ok", "new"}
                            /\ ReqSound(q) /\ SeenNow(q)
    <3>1. CASE areq[r].read = "hit"
      <4>1. PICK q \in AReqs0 : q = [areq[r] EXCEPT !.pc = "ok"]
            BY <1>0 DEF AReqs0
      <4>2. Alone(r, q)
            BY <1>4, <3>1, <4>1 DEF LookedUp, Ends, Alone, keyVars
      <4> QED BY <1>0, <1>4, <3>1, <4>1, <4>2 DEF ReqSound, SeenNow, AReqs0, LookedUp
    <3>2. CASE areq[r].read # "hit"
      <4>1. Alone(r, NewReq)
            BY <1>4, <3>2 DEF LookedUp, Ends, Alone, keyVars
      <4> QED BY <4>1, NewReqSound
    <3> QED BY <3>1, <3>2
  <2>2. r \in LookingUp /\ LookingUp' = LookingUp \ {r}
    <3>1. areq[r].pc = "lookup"
          BY <1>4 DEF LookedUp
    <3> QED BY <2>1, <3>1, AloneSound
  <2>3. /\ Cardinality(LookingUp') = Cardinality(LookingUp) - 1
        /\ Cardinality(LookingUp') \in Nat /\ Cardinality(LookingUp) \in Nat
        BY <2>2, LookingUpFinite, FS_RemoveElement, FS_CardinalityType
  <2>4. lookups' = lookups - 1
        BY <1>4, <2>3 DEF LookedUp, AInv
  <2>5. lookups' = Cardinality(LookingUp') /\ lookups' <= MaxLookups
        BY <2>3, <2>4, AuthAssumption DEF AInv
  <2> QED BY <2>1, <2>5, AloneSound DEF AInv
<1> QED BY <1>1, <1>2, <1>3, <1>4

LEMMA AuthStep == AInv /\ [AuthNext]_authVars => AInv'
<1> SUFFICES ASSUME AInv, [AuthNext]_authVars PROVE AInv' OBVIOUS
<1>1. CASE UNCHANGED <<keyOf, lookups, areq>>
      BY <1>1 DEF AInv, ReqSound, SeenNow, ActiveRow, LookingUp
<1>2. ASSUME NEW s \in Secrets, Expire(s) PROVE UNCHANGED <<keyOf, lookups, areq>>
      BY <1>2 DEF Expire, keyVars
<1>3. CASE UNCHANGED authVars
      BY <1>1, <1>3 DEF authVars, keyVars
<1> QED BY <1>1, <1>2, <1>3, KeysStepSound, GatewayStepSound DEF AuthNext

\* Whatever the caches hold and however late an answer is, no request passes with a secret
\* that no row had active since the request arrived, and the slots are those of the lookups
\* under way (auth.go:92,100, admission.go:166).
THEOREM NoPassAfterRevoke == AuthSpec => []RevokedRefused
<1>1. AInv => RevokedRefused
      BY DEF AInv, ReqSound, RevokedRefused, LookingUp
<1> QED BY <1>1, AuthInitial, AuthStep, PTL DEF AuthSpec
=============================================================================
