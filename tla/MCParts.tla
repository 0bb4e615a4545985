------------------------------ MODULE MCParts -------------------------------
(***************************************************************************)
(* The parts that share no state with one another, checked in one run: the *)
(* behaviours of each are those in which "focus" names it, and the others  *)
(* keep their initial state.  Only the keys of a buyer appear twice, alone *)
(* (ProxyKeys) and under the caches of the gateway (ProxyAuth).            *)
(***************************************************************************)
EXTENDS KeyPool, UsageDelivery, ProxyAuth, Authorization, Projects, Admin, Deploy, LocalEnv,
    RateRegistry

VARIABLE focus

vars == <<focus, poolVars, usageVars, authVars, authzVars, projectVars, adminVars, deployVars, envVars, rateVars>>

\* The buyer of r3 is the seller of k1.
MCOwnKeys == {<<"r3", "k1">>}
MCAccountOf == [u \in {"dual", "gone"} |->
    IF u = "dual" THEN [status |-> "active", role |-> "both"] ELSE [status |-> "suspended", role |-> "buyer"]]
MCOperators == [price |-> [role |-> "pricing", readonly |-> FALSE],
                audit |-> [role |-> "security_audit", readonly |-> FALSE]]
MCRunOf == [j \in Jobs |-> "run"]
\* One approval of a release manifest and one without.
MCApprovals ==
    { [nonce |-> "n", images |-> "x", commit |-> "c", run |-> "run",
       manifest |-> [commit |-> "c", signed |-> TRUE], valid |-> TRUE],
      [nonce |-> "m", images |-> "y", commit |-> "c", run |-> "run", manifest |-> NoManifest, valid |-> TRUE] }

\* Sound terms, wide and narrow; a spread that may be negative; bounds that cross.
MCTerms == { [buyer |-> 12, lo |-> 8, hi |-> 12], [buyer |-> 10, lo |-> 8, hi |-> 8],
             [buyer |-> 10, lo |-> 8, hi |-> 12], [buyer |-> 10, lo |-> 12, hi |-> 8] }

Parts == {"pool", "usage", "keys", "auth", "authz", "projects", "admin", "deploy", "env", "rates"}

Init ==
    /\ focus \in Parts
    /\ PoolInit /\ UsageInit /\ AuthInit /\ AuthzInit
    /\ ProjectsInit /\ AdminInit /\ DeployInit /\ EnvInit /\ RateInit
    \* the checkout may be edited; a part that is not looked at begins in one state
    /\ focus # "usage" => walDir
    /\ focus # "authz" => ownership = [x \in ZResources |-> Unowned]
    /\ checkout = [commit |-> "c", images |-> "x"]

Next ==
    \/ focus = "pool" /\ PoolNext /\ UNCHANGED <<focus, usageVars, authVars, authzVars, projectVars, adminVars, deployVars, envVars, rateVars>>
    \/ focus = "usage" /\ UsageNext /\ UNCHANGED <<focus, poolVars, authVars, authzVars, projectVars, adminVars, deployVars, envVars, rateVars>>
    \/ focus = "keys" /\ KeysNext /\ UNCHANGED <<focus, poolVars, usageVars, authzVars, projectVars, adminVars, deployVars, envVars, posCache, negCache, lookups, areq, rateVars>>
    \/ focus = "auth" /\ AuthNext /\ UNCHANGED <<focus, poolVars, usageVars, authzVars, projectVars, adminVars, deployVars, envVars, rateVars>>
    \/ focus = "authz" /\ AuthzNext /\ UNCHANGED <<focus, poolVars, usageVars, authVars, projectVars, adminVars, deployVars, envVars, rateVars>>
    \/ focus = "projects" /\ ProjectsNext /\ UNCHANGED <<focus, poolVars, usageVars, authVars, authzVars, adminVars, deployVars, envVars, rateVars>>
    \/ focus = "admin" /\ AdminNext /\ UNCHANGED <<focus, poolVars, usageVars, authVars, authzVars, projectVars, deployVars, envVars, rateVars>>
    \/ focus = "deploy" /\ DeployNext /\ UNCHANGED <<focus, poolVars, usageVars, authVars, authzVars, projectVars, adminVars, envVars, rateVars>>
    \/ focus = "env" /\ EnvNext /\ UNCHANGED <<focus, poolVars, usageVars, authVars, authzVars, projectVars, adminVars, deployVars, rateVars>>
    \/ focus = "rates" /\ RateNext /\ UNCHANGED <<focus, poolVars, usageVars, authVars, authzVars, projectVars, adminVars, deployVars, envVars>>

On(part, A) == focus = part /\ A

\* The loops of the gateway go on, and a call to api-service that is made again and again is
\* answered at last (main.go, durable.go RunReplay).
PoolFairness ==
    /\ WF_poolVars(On("pool", RefreshList)) /\ WF_poolVars(On("pool", RefreshReplace))
    /\ WF_poolVars(On("pool", ProbeTick)) /\ SF_poolVars(On("pool", PatchHealth))
    /\ \A k \in SKeys : /\ WF_poolVars(On("pool", ProbeSkip(k))) /\ WF_poolVars(On("pool", ProbeKey(k)))
                        /\ WF_poolVars(On("pool", Unmute(k)))

UsageFairness ==
    /\ WF_usageVars(On("usage", ReplayList)) /\ WF_usageVars(On("usage", ReplayFails))
    /\ WF_usageVars(On("usage", ReplayRemove))
    /\ \A q \in UReqs : /\ WF_usageVars(On("usage", ReplayRead(q))) /\ WF_usageVars(On("usage", SendUsage(q)))
                        /\ WF_usageVars(On("usage", RemoveLog(q)))
                        /\ SF_usageVars(On("usage", replaying.id = q /\ ReplayConfirmed))

Spec == Init /\ [][Next]_vars /\ PoolFairness /\ UsageFairness

\* The type invariant of every part (one representation per state, and the enumerations its
\* code stores: for a key's health those of MapValidateCategory, health.go:6).
TypeOK ==
    /\ PoolTypeOK /\ UsageTypeOK /\ AuthTypeOK /\ AuthzTypeOK
    /\ ProjectsTypeOK /\ AdminTypeOK /\ DeployTypeOK /\ EnvTypeOK /\ RateTypeOK
=============================================================================
