--------------------------- MODULE KeyPoolProofs ----------------------------
(***************************************************************************)
(* What TLAPS proves about KeyPool, for any keys, requests and limits.     *)
(***************************************************************************)
EXTENDS KeyPool, FiniteSetTheorems, TLAPS

KeyPoolSpec == PoolInit /\ [][PoolNext]_poolVars

----------------------------------------------------------------------------
(* Leases.  The steps but three leave the counts and the leases alone.     *)

LeasesTyped ==
    /\ leaseOf \in [SReqs -> SKeys \cup {NoSKey}]
    /\ inflight \in [SKeys -> Nat]

RunsOn(k) == {r \in SReqs : leaseOf[r] = k}

LInv == LeasesTyped /\ KeyLeases

LEMMA RunsOnFinite == \A k : IsFiniteSet(RunsOn(k)) /\ Cardinality(RunsOn(k)) \in Nat
BY PoolAssumption, FS_Subset, FS_CardinalityType DEF RunsOn

LEMMA LeasesInit == PoolInit => LInv
<1> SUFFICES ASSUME PoolInit PROVE LInv OBVIOUS
<1>1. LeasesTyped
      BY DEF PoolInit, LeasesTyped
<1>2. ASSUME NEW k \in SKeys PROVE {r \in SReqs : leaseOf[r] = k} = {}
      BY PoolAssumption DEF PoolInit, NoSKey
<1>3. ASSUME NEW k \in SKeys PROVE inflight[k] = 0
      BY DEF PoolInit
<1> QED BY <1>1, <1>2, <1>3, FS_EmptySet, PoolAssumption DEF LInv, KeyLeases

\* One request more on a key.
LEMMA PickCounted ==
    ASSUME LInv, NEW r \in SReqs, NEW k \in SKeys, PickKey(r, k) PROVE LInv'
<1>1. LeasesTyped'
      BY DEF LInv, LeasesTyped, PickKey
<1>2. RunsOn(k)' = RunsOn(k) \cup {r} /\ r \notin RunsOn(k)
      BY PoolAssumption DEF LInv, LeasesTyped, PickKey, RunsOn, NoSKey
<1>3. \A l \in SKeys \ {k} : RunsOn(l)' = RunsOn(l)
      BY PoolAssumption DEF LInv, LeasesTyped, PickKey, RunsOn, NoSKey
<1>4. Cardinality(RunsOn(k) \cup {r}) = Cardinality(RunsOn(k)) + 1
      BY <1>2, RunsOnFinite, FS_AddElement
<1>5. inflight'[k] = inflight[k] + 1 /\ inflight'[k] <= KeyLimit
      BY PoolAssumption DEF LInv, LeasesTyped, PickKey, Pickable
<1>6. \A l \in SKeys \ {k} : inflight'[l] = inflight[l]
      BY DEF LInv, LeasesTyped, PickKey
<1>7. \A l \in SKeys : inflight[l] = Cardinality(RunsOn(l)) /\ inflight[l] <= KeyLimit
      BY DEF LInv, KeyLeases, RunsOn
<1>8. \A l \in SKeys : inflight'[l] = Cardinality(RunsOn(l)') /\ inflight'[l] <= KeyLimit
      BY <1>2, <1>3, <1>4, <1>5, <1>6, <1>7
<1> QED BY <1>1, <1>8 DEF LInv, KeyLeases, RunsOn

\* One request fewer on its key, whose count is not zero.
LEMMA ReleaseCounted ==
    ASSUME LInv, NEW r \in SReqs, ReleaseKey(r) PROVE LInv'
<1>0. LeasesTyped'
      BY DEF LInv, LeasesTyped, ReleaseKey
<1>1. PICK k \in SKeys : k = leaseOf[r]
      BY DEF LInv, LeasesTyped, ReleaseKey
<1>2. RunsOn(k)' = RunsOn(k) \ {r} /\ r \in RunsOn(k)
      BY <1>1, PoolAssumption DEF LInv, LeasesTyped, ReleaseKey, RunsOn, NoSKey
<1>3. \A l \in SKeys \ {k} : RunsOn(l)' = RunsOn(l)
      BY <1>1, PoolAssumption DEF LInv, LeasesTyped, ReleaseKey, RunsOn, NoSKey
<1>4. /\ Cardinality(RunsOn(k) \ {r}) = Cardinality(RunsOn(k)) - 1
      /\ Cardinality(RunsOn(k) \ {r}) \in Nat /\ Cardinality(RunsOn(k)) \in Nat
      BY <1>2, RunsOnFinite, FS_RemoveElement, FS_CardinalityType
<1>5. \A l \in SKeys : inflight[l] = Cardinality(RunsOn(l)) /\ inflight[l] <= KeyLimit
      BY DEF LInv, KeyLeases, RunsOn
<1>6. inflight'[k] = inflight[k] - 1
  <2>1. inflight[k] > 0 /\ inflight[k] \in Nat
        BY <1>1, <1>4, <1>5
  <2> QED BY <1>1, <2>1 DEF LInv, LeasesTyped, ReleaseKey
<1>7. \A l \in SKeys \ {k} : inflight'[l] = inflight[l]
      BY <1>1 DEF LInv, LeasesTyped, ReleaseKey
<1>8. inflight'[k] <= KeyLimit
      BY <1>1, <1>4, <1>5, <1>6, PoolAssumption
<1>9. \A l \in SKeys : inflight'[l] = Cardinality(RunsOn(l)') /\ inflight'[l] <= KeyLimit
      BY <1>1, <1>2, <1>3, <1>4, <1>5, <1>6, <1>7, <1>8
<1> QED BY <1>0, <1>9 DEF LInv, KeyLeases, RunsOn

\* A restart ends the requests and their counts.
LEMMA RestartCounted == ASSUME GatewayRestart PROVE LInv'
<1>1. leaseOf' = [r \in SReqs |-> NoSKey] /\ inflight' = [k \in SKeys |-> 0]
      BY DEF GatewayRestart
<1>2. LeasesTyped' /\ \A k \in SKeys : inflight'[k] = 0
      BY <1>1 DEF LeasesTyped
<1>3. ASSUME NEW k \in SKeys PROVE {r \in SReqs : leaseOf'[r] = k} = {}
      BY <1>1, PoolAssumption DEF NoSKey
<1> QED BY <1>2, <1>3, FS_EmptySet, PoolAssumption DEF LInv, KeyLeases

LEMMA LeasesStep == LInv /\ [PoolNext]_poolVars => LInv'
<1> SUFFICES ASSUME LInv, [PoolNext]_poolVars PROVE LInv' OBVIOUS
<1>1. CASE UNCHANGED <<inflight, leaseOf>>
      BY <1>1 DEF LInv, LeasesTyped, KeyLeases
<1>2. CASE \E r \in SReqs, k \in SKeys : PickKey(r, k)
      BY <1>2, PickCounted
<1>3. CASE \E r \in SReqs : ReleaseKey(r)
      BY <1>3, ReleaseCounted
<1>4. CASE GatewayRestart
      BY <1>4, RestartCounted
<1>5. ASSUME NEW k \in SKeys,
             OnboardKey(k) \/ PauseKey(k) \/ RevokeKey(k) \/ ResumeKey(k) \/ ResumeKeyDone(k) \/ Withdraw(k)
      PROVE  UNCHANGED <<inflight, leaseOf>>
      BY <1>5 DEF OnboardKey, PauseKey, RevokeKey, ResumeKey, ResumeKeyDone, Withdraw, gatewaySide
<1>6. ASSUME NEW k \in SKeys, CooledDown(k) \/ ProbeSkip(k) \/ ProbeKey(k) \/ Unmute(k)
      PROVE  UNCHANGED <<inflight, leaseOf>>
      BY <1>6 DEF CooledDown, ProbeSkip, ProbeKey, Unmute
<1>7. ASSUME RefreshList \/ RefreshReplace \/ ProbeTick \/ PatchHealth \/ PatchLost
      PROVE  UNCHANGED <<inflight, leaseOf>>
      BY <1>7 DEF RefreshList, RefreshReplace, ProbeTick, PatchHealth, PatchLost
<1>8. CASE UNCHANGED poolVars
      BY <1>1, <1>8 DEF poolVars, gatewaySide
<1> QED BY <1>1, <1>2, <1>3, <1>4, <1>5, <1>6, <1>7, <1>8 DEF PoolNext

\* For any number of keys and requests, through every refresh, probe and restart, the count of
\* a key is the number of its requests, within its limit (pool.go:90,105,160).
THEOREM LeasesCounted == KeyPoolSpec => []KeyLeases
<1>1. LInv => KeyLeases
      BY DEF LInv
<1> QED BY <1>1, LeasesInit, LeasesStep, PTL DEF KeyPoolSpec

----------------------------------------------------------------------------
(* Revocation.                                                             *)

Wiped ==
    /\ keyRow \in [SKeys -> [admin : KeyStates, health : Healths, cipher : BOOLEAN]]
    /\ patching \in {NoPatch} \cup SKeys \X Healths
    /\ \A k \in SKeys : keyRow[k].admin = "revoked" => ~keyRow[k].cipher

\* What the steps do to the rows: a revoked one stays so, and one that becomes so is wiped.
RowsKept ==
    \A k \in SKeys :
        /\ keyRow[k].admin = "revoked" => keyRow'[k].admin = "revoked" /\ keyRow'[k].cipher = keyRow[k].cipher
        /\ keyRow[k].admin # "revoked" => (keyRow'[k].admin = "revoked" => ~keyRow'[k].cipher)

LEMMA RowsStep ==
    ASSUME Wiped, [PoolNext]_poolVars
    PROVE  Wiped' /\ RowsKept
<1> USE DEF Wiped
<1>1. CASE UNCHANGED <<keyRow, patching>>
      BY <1>1 DEF RowsKept
<1>2. ASSUME NEW k \in SKeys, OnboardKey(k) PROVE Wiped' /\ RowsKept
  <2>1. PICK h \in Healths : keyRow' = [keyRow EXCEPT ![k] = [admin |-> "active", health |-> h, cipher |-> TRUE]]
        BY <1>2 DEF OnboardKey, Healths
  <2>2. patching' = patching /\ keyRow[k].admin # "revoked"
        BY <1>2 DEF OnboardKey, gatewaySide
  <2> QED BY <2>1, <2>2 DEF RowsKept, KeyStates
<1>3. ASSUME NEW k \in SKeys, PauseKey(k) PROVE Wiped' /\ RowsKept
      BY <1>3 DEF PauseKey, gatewaySide, RowsKept, KeyStates
<1>4. ASSUME NEW k \in SKeys, RevokeKey(k) PROVE Wiped' /\ RowsKept
      BY <1>4 DEF RevokeKey, gatewaySide, RowsKept, KeyStates
<1>5. ASSUME NEW k \in SKeys, ResumeKeyDone(k) PROVE Wiped' /\ RowsKept
  <2>1. CASE Unmodified(k)
        BY <1>5, <2>1 DEF ResumeKeyDone, Unmodified, gatewaySide, RowsKept, KeyStates, Healths
  <2>2. CASE ~Unmodified(k)
        BY <1>5, <2>2 DEF ResumeKeyDone, gatewaySide, RowsKept
  <2> QED BY <2>1, <2>2
<1>6. CASE PatchHealth
  <2>1. PICK k \in SKeys, h \in Healths : patching = <<k, h>>
        BY <1>6 DEF PatchHealth
  <2>2. keyRow' = [keyRow EXCEPT ![k].health = h] /\ patching' = NoPatch
        BY <1>6, <2>1 DEF PatchHealth
  <2> QED BY <2>2 DEF RowsKept
<1>7. ASSUME NEW k \in SKeys, ProbeKey(k) PROVE Wiped' /\ RowsKept
  <2>1. PICK cat \in AnswersFor(k) : patching' \in {NoPatch, <<k, HealthOf(cat)>>}
        BY <1>7 DEF ProbeKey
  <2>2. HealthOf(cat) \in Healths
        BY <2>1, PoolAssumption DEF AnswersFor, GoodAnswers, HealthOf, Healths
  <2>3. keyRow' = keyRow
        BY <1>7 DEF ProbeKey, sellerSide
  <2> QED BY <2>1, <2>2, <2>3 DEF RowsKept
<1>8. CASE GatewayRestart
      BY <1>8 DEF GatewayRestart, sellerSide, RowsKept
<1>9. CASE PatchLost
      BY <1>9 DEF PatchLost, sellerSide, RowsKept
<1>10. ASSUME NEW k \in SKeys, ResumeKey(k) \/ Withdraw(k) \/ CooledDown(k) \/ ProbeSkip(k) \/ Unmute(k)
       PROVE  UNCHANGED <<keyRow, patching>>
       BY <1>10 DEF ResumeKey, Withdraw, CooledDown, ProbeSkip, Unmute, gatewaySide, sellerSide
<1>11. ASSUME RefreshList \/ RefreshReplace \/ ProbeTick PROVE UNCHANGED <<keyRow, patching>>
       BY <1>11 DEF RefreshList, RefreshReplace, ProbeTick, sellerSide
<1>12. ASSUME NEW r \in SReqs, (\E k \in SKeys : PickKey(r, k)) \/ ReleaseKey(r)
       PROVE  UNCHANGED <<keyRow, patching>>
       BY <1>12 DEF PickKey, ReleaseKey, sellerSide
<1>13. CASE UNCHANGED poolVars
       BY <1>1, <1>13 DEF poolVars
<1> QED BY <1>1, <1>2, <1>3, <1>4, <1>5, <1>6, <1>7, <1>8, <1>9, <1>10, <1>11, <1>12, <1>13 DEF PoolNext

\* No resume, however old, and no probe brings a revoked key or its ciphertext back, for any
\* number of keys (lifecycle.py:135).
THEOREM RevokedForGood == KeyPoolSpec => RevokedStays
<1>1. PoolInit => Wiped
      BY DEF PoolInit, Wiped, KeyStates, Healths, NoPatch
<1>2. Wiped /\ [PoolNext]_poolVars => Wiped'
      BY RowsStep
<1>3. Wiped /\ [PoolNext]_poolVars
        => [\A k \in SKeys : keyRow[k].admin = "revoked" => /\ keyRow'[k].admin = "revoked"
                                                            /\ ~keyRow'[k].cipher]_poolVars
      BY RowsStep DEF Wiped, RowsKept
<1> QED BY <1>1, <1>2, <1>3, PTL DEF KeyPoolSpec, RevokedStays
=============================================================================
