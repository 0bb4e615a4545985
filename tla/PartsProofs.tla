---------------------------- MODULE PartsProofs -----------------------------
(***************************************************************************)
(* What TLAPS proves about the parts that MCParts puts side by side, for   *)
(* any numbers of processes and objects: the projects of a buyer, the      *)
(* wizards of admin-service, the approvals of a deployment, the events of  *)
(* authorization, the starts and stops of the local environment and the    *)
(* rates; then the types of every part, and all of it together of the      *)
(* specification that is model-checked.                                    *)
(***************************************************************************)
EXTENDS MCParts, KeyPoolProofs, UsageProofs, ProxyAuthProofs, TLAPS

----------------------------------------------------------------------------
(* Wizards                                                                 *)

AdminSpec == AdminInit /\ [][AdminNext]_adminVars

WizardRows == {NoWizard} \cup [kind : DOMAIN WizardAction, status : {"pending", "confirmed", "cancelled", "expired"}]

WInv == wizards \in [Wizards -> WizardRows] /\ executed \in [Wizards -> Nat] /\ WizardExecutesOnce

LEMMA WizardsInitial == wizards = [z \in Wizards |-> NoWizard] /\ executed = [z \in Wizards |-> 0] => WInv
BY DEF WInv, WizardRows, WizardExecutesOnce, NoWizard

LEMMA WizardStep == ASSUME WInv, [AdminNext]_adminVars PROVE WInv'
<1>1. CASE UNCHANGED <<wizards, executed>>
      BY <1>1 DEF WInv, WizardExecutesOnce
<1>2. CASE AdminRestart
  <2>1. (wizards = [z \in Wizards |-> NoWizard] /\ executed = [z \in Wizards |-> 0])'
        BY <1>2 DEF AdminRestart
  <2>2. (wizards = [z \in Wizards |-> NoWizard] /\ executed = [z \in Wizards |-> 0])' => WInv'
        BY DEF WInv, WizardRows, WizardExecutesOnce, NoWizard
  <2> QED BY <2>1, <2>2
<1>3. ASSUME NEW a \in ADMINS, NEW z \in Wizards, NEW kind \in DOMAIN WizardAction, StartWizard(a, z, kind) PROVE WInv'
      BY <1>3 DEF StartWizard, WInv, WizardRows, WizardExecutesOnce, NoWizard
<1>4. ASSUME NEW z \in Wizards, ExpireWizard(z) PROVE WInv'
      BY <1>4 DEF ExpireWizard, WInv, WizardRows, WizardExecutesOnce, NoWizard
<1>5. ASSUME NEW a \in ADMINS, NEW z \in Wizards, ConfirmWizard(a, z) PROVE WInv'
      BY <1>5 DEF ConfirmWizard, Confirmable, WInv, WizardRows, WizardExecutesOnce, NoWizard
<1>6. ASSUME NEW a \in ADMINS, NEW z \in Wizards, CancelWizard(a, z) PROVE WInv'
      BY <1>6 DEF CancelWizard, WInv, WizardRows, WizardExecutesOnce, NoWizard
<1>7. ASSUME NEW a \in ADMINS, LogIn(a) \/ LogOut(a) \/ StepUp(a) \/ StepUpExpires(a) \/ OpenBreakGlass(a)
      PROVE  UNCHANGED <<wizards, executed>>
      BY <1>7 DEF LogIn, LogOut, StepUp, StepUpExpires, OpenBreakGlass, SetSession
<1>8. ASSUME NEW a \in ADMINS, NEW case \in ADMINS, CloseBreakGlass(a, case) PROVE UNCHANGED <<wizards, executed>>
      BY <1>8 DEF CloseBreakGlass
<1>9. ASSUME NEW a \in ADMINS, NEW f \in Drafts,
             Simulate(a, f) \/ Approve(a, f) \/ Publish(a, f)
             \/ \E kind \in Kinds, payload \in Payloads : CreateDraft(a, f, kind, payload)
      PROVE  UNCHANGED <<wizards, executed>>
      BY <1>9 DEF Simulate, Approve, Publish, CreateDraft
<1>10. ASSUME NEW a \in ADMINS, NEW kind \in Kinds, NEW to \in 1 .. MaxActive, Rollback(a, kind, to)
       PROVE  UNCHANGED <<wizards, executed>>
       BY <1>10 DEF Rollback
<1>11. CASE UNCHANGED adminVars
       BY <1>1, <1>11 DEF adminVars
<1> QED BY <1>1, <1>2, <1>3, <1>4, <1>5, <1>6, <1>7, <1>8, <1>9, <1>10, <1>11 DEF AdminNext

\* For any number of operators and wizards, the action of a wizard is carried out once if it is
\* confirmed and never otherwise (wizard.py confirm, cancel).
THEOREM WizardOnce == AdminSpec => []WizardExecutesOnce
<1>1. AdminInit => WInv
      BY WizardsInitial DEF AdminInit
<1>2. WInv /\ [AdminNext]_adminVars => WInv'
      BY WizardStep
<1>3. WInv => WizardExecutesOnce
      BY DEF WInv
<1> QED BY <1>1, <1>2, <1>3, PTL DEF AdminSpec

----------------------------------------------------------------------------
(* Deployments.  A production process past the approval holds one that is  *)
(* spent, that no other process holds, and that no deployment ran under.   *)

Past(q) == q.mode = "prod" /\ q.phase \in {"approved", "gated", "docker", "ready"}

\* An approval fits what was read before.
Fits(a, images, head, j) ==
    /\ a \in Approvals /\ a.nonce \in nonces
    /\ a.valid /\ a.images = images /\ a.commit = head /\ a.run = RunOf[j]

JobRows == [phase : {"idle", "clean", "loaded", "bound", "approved", "gated", "docker", "ready"},
            mode : {"test", "prod"}, head : Commits \cup {"none"}, images : ImageSets \cup {"none"},
            manifest : Manifests, approval : Approvals \cup {NoApproval}]

DInv ==
    /\ job \in [Jobs -> JobRows]
    /\ \A j \in Jobs : Past(job[j]) => Fits(job[j].approval, job[j].images, job[j].head, j)
    /\ \A j, k \in Jobs : Past(job[j]) /\ Past(job[k]) /\ job[j].approval = job[k].approval => j = k
    /\ \A j \in Jobs : job[j].phase = "bound" => job[j].mode = "prod"
    /\ \A u \in ups : Fits(u.approval, u.images, u.head, u.job)
    /\ \A j \in Jobs : Past(job[j]) /\ job[j].phase # "ready" => \A u \in ups : u.approval # job[j].approval
    /\ \A u, v \in ups : u.approval = v.approval => u = v

\* One process moves to a row that holds no approval past the gate, or keeps the one it had.
LEMMA JobMoves ==
    ASSUME DInv, NEW j \in Jobs, NEW q \in JobRows, job' = [job EXCEPT ![j] = q], UNCHANGED <<nonces, ups>>,
           q.phase = "bound" => q.mode = "prod",
           Past(q) => /\ Past(job[j]) /\ q.approval = job[j].approval
                      /\ q.images = job[j].images /\ q.head = job[j].head
                      /\ job[j].phase = "ready" => q.phase = "ready"
    PROVE  DInv'
<1>1. job' \in [Jobs -> JobRows] /\ job'[j] = q /\ \A k \in Jobs \ {j} : job'[k] = job[k]
      BY DEF DInv
<1>2. \A k \in Jobs : Past(job'[k]) => /\ Past(job[k]) /\ job'[k].approval = job[k].approval
                                       /\ job'[k].images = job[k].images /\ job'[k].head = job[k].head
                                       /\ job'[k].phase # "ready" => job[k].phase # "ready"
      BY <1>1
<1>3. \A k \in Jobs : job'[k].phase = "bound" => job'[k].mode = "prod"
      BY <1>1 DEF DInv
<1> QED BY <1>1, <1>2, <1>3 DEF DInv, Fits, Past

LEMMA IdleJobOK == IdleJob \in JobRows /\ ~Past(IdleJob) /\ IdleJob.phase = "idle" /\ IdleJob.mode = "test"
BY DEF IdleJob, JobRows, Past, Manifests

LEMMA ExitsSound == ASSUME DInv, NEW j \in Jobs, Exits(j), UNCHANGED <<nonces, ups>> PROVE DInv'
BY IdleJobOK, JobMoves DEF Exits

\* A process that has nothing past the gate takes an approval nobody has spent.
LEMMA ApproveSound == ASSUME DInv, NEW j \in Jobs, NEW a \in Approvals, ApproveDeploy(j, a) PROVE DInv'
<1>1. CASE Exits(j) /\ UNCHANGED nonces
      BY <1>1, ExitsSound DEF ApproveDeploy
<1>2. CASE ApprovalBinds(a, j) /\ a.nonce \notin nonces
  <2>1. /\ nonces' = nonces \cup {a.nonce} /\ ups' = ups
        /\ job' = [job EXCEPT ![j].phase = "approved", ![j].approval = a]
        /\ job[j].phase = "bound" /\ job[j].mode = "prod" /\ job[j] \in JobRows
        BY <1>2 DEF ApproveDeploy, Unspent, DInv
  <2>2. /\ job'[j] \in JobRows /\ job'[j].phase = "approved" /\ job'[j].approval = a
        /\ job'[j].images = job[j].images /\ job'[j].head = job[j].head
        /\ \A k \in Jobs \ {j} : job'[k] = job[k]
        BY <2>1 DEF DInv, JobRows
  <2>3. job' \in [Jobs -> JobRows]
        BY <2>1, <2>2 DEF DInv
  <2>4. Fits(a, job[j].images, job[j].head, j)'
        BY <1>2, <2>1, <2>2 DEF Fits, ApprovalBinds
  <2>5. ASSUME NEW k \in Jobs \ {j}, Past(job[k])
        PROVE  job[k].approval # a /\ Fits(job[k].approval, job[k].images, job[k].head, k)'
        BY <1>2, <2>1, <2>2, <2>5 DEF DInv, Fits
  <2>6. ASSUME NEW u \in ups PROVE u.approval # a /\ Fits(u.approval, u.images, u.head, u.job)'
        BY <1>2, <2>1 DEF DInv, Fits
  <2>7. \A k \in Jobs : Past(job'[k]) => Fits(job[k].approval, job[k].images, job[k].head, k)'
        BY <2>2, <2>4, <2>5 DEF Fits
  <2>8. \A k, l \in Jobs : Past(job'[k]) /\ Past(job'[l]) /\ job'[k].approval = job'[l].approval => k = l
        BY <2>2, <2>5 DEF DInv
  <2>9. \A k \in Jobs : Past(job'[k]) /\ job'[k].phase # "ready" => \A u \in ups : u.approval # job'[k].approval
        BY <2>2, <2>6 DEF DInv
  <2> QED BY <2>1, <2>2, <2>3, <2>6, <2>7, <2>8, <2>9 DEF DInv
<1> QED BY <1>1, <1>2 DEF ApproveDeploy, Unspent

\* A deployment comes up under the approval its process holds.
LEMMA ComposeSound == ASSUME DInv, NEW j \in Jobs, ComposeUp(j) PROVE DInv'
<1>1. /\ job[j] \in JobRows /\ job[j].phase = "docker" /\ nonces' = nonces
      /\ job' = [job EXCEPT ![j].phase = "ready"]
      BY DEF ComposeUp, Step, DInv
<1>2. CASE job[j].mode = "test"
  <2>1. PICK q \in JobRows : q = [job[j] EXCEPT !.phase = "ready"]
        BY <1>1 DEF JobRows
  <2>2. job' = [job EXCEPT ![j] = q] /\ ~Past(q) /\ q.phase = "ready" /\ ups' = ups
        BY <1>1, <1>2, <2>1 DEF Past, JobRows, ComposeUp, DInv
  <2> QED BY <1>1, <2>2, JobMoves
<1>3. CASE job[j].mode = "prod"
  <2> DEFINE u0 == [job |-> j, approval |-> job[j].approval, images |-> job[j].images, head |-> job[j].head]
  <2>1. Past(job[j]) /\ ups' = ups \cup {u0}
        BY <1>1, <1>3 DEF Past, ComposeUp
  <2>2. /\ job'[j] \in JobRows /\ job'[j].phase = "ready" /\ job'[j].mode = "prod" /\ job'[j].approval = job[j].approval
        /\ job'[j].images = job[j].images /\ job'[j].head = job[j].head
        /\ \A k \in Jobs \ {j} : job'[k] = job[k]
        BY <1>1, <1>3 DEF DInv, JobRows
  <2>3. job' \in [Jobs -> JobRows] /\ Past(job'[j])
        BY <1>1, <2>2 DEF DInv, Past
  <2>4. Fits(job[j].approval, job[j].images, job[j].head, j) /\ \A u \in ups : u.approval # job[j].approval
        BY <1>1, <2>1 DEF DInv
  <2>5. \A k \in Jobs \ {j} : Past(job[k]) => job[k].approval # job[j].approval
        BY <2>1 DEF DInv
  <2>6. \A k \in Jobs : Past(job'[k]) => Fits(job'[k].approval, job'[k].images, job'[k].head, k)
        BY <2>2, <2>4 DEF DInv
  <2>7. \A u \in ups' : Fits(u.approval, u.images, u.head, u.job)
        BY <2>1, <2>4 DEF DInv
  <2>8. \A k, l \in Jobs : Past(job'[k]) /\ Past(job'[l]) /\ job'[k].approval = job'[l].approval => k = l
        BY <2>2, <2>5 DEF DInv
  <2>9. \A k \in Jobs : Past(job'[k]) /\ job'[k].phase # "ready" => \A u \in ups' : u.approval # job'[k].approval
        BY <2>1, <2>2, <2>5 DEF DInv
  <2>10. \A u, v \in ups' : u.approval = v.approval => u = v
        BY <2>1, <2>4 DEF DInv
  <2>11. \A k \in Jobs : job'[k].phase = "bound" => job'[k].mode = "prod"
        BY <2>2 DEF DInv
  <2> QED BY <1>1, <2>3, <2>6, <2>7, <2>8, <2>9, <2>10, <2>11 DEF DInv, Fits
<1> QED BY <1>1, <1>2, <1>3 DEF JobRows

CheckoutTyped == checkout \in [commit : Commits, images : ImageSets]

\* The steps before and after the gate.
LEMMA RefusalSound ==
    ASSUME DInv, NEW j \in Jobs, DeployConfigRefused(j) \/ NotActivated(j) \/ EndDeploy(j)
    PROVE  DInv'
BY ExitsSound DEF DeployConfigRefused, NotActivated, EndDeploy

LEMMA ProgressSound ==
    ASSUME DInv, CheckoutTyped, NEW j \in Jobs,
           \/ \E m \in {"test", "prod"}, clean \in BOOLEAN : BeginDeploy(j, m, clean)
           \/ LoadDeployConfig(j) \/ (\E m \in Manifests : BindManifest(j, m))
           \/ VerifyDigests(j) \/ EnsureDocker(j)
    PROVE  DInv'
<1>0. job[j] \in JobRows
      BY DEF DInv
<1>1. ASSUME NEW m \in {"test", "prod"}, NEW clean \in BOOLEAN, BeginDeploy(j, m, clean) PROVE DInv'
  <2>1. PICK q \in JobRows : q = [IdleJob EXCEPT !.phase = "clean", !.mode = m, !.head = checkout.commit]
        BY DEF IdleJob, JobRows, Manifests, CheckoutTyped
  <2>2. q.phase = "clean" /\ ~Past(q)
        BY <2>1 DEF IdleJob, Past
  <2> QED BY <1>1, <2>1, <2>2, JobMoves DEF BeginDeploy
<1>2. ASSUME LoadDeployConfig(j) PROVE DInv'
  <2>1. PICK q \in JobRows : q = [job[j] EXCEPT !.phase = "loaded", !.images = checkout.images]
        BY <1>0 DEF JobRows, CheckoutTyped
  <2>2. job' = [job EXCEPT ![j] = q] /\ q.phase = "loaded" /\ ~Past(q)
        BY <1>0, <1>2, <2>1 DEF LoadDeployConfig, Past, JobRows
  <2> QED BY <1>2, <2>2, JobMoves DEF LoadDeployConfig
<1>3. ASSUME NEW m \in Manifests, BindManifest(j, m) PROVE DInv'
  <2>1. CASE Exits(j)
        BY <1>3, <2>1, ExitsSound DEF BindManifest
  <2>2. CASE job' = [job EXCEPT ![j].phase = IF @ = "loaded" THEN "bound" ELSE "gated", ![j].manifest = m]
    <3>1. PICK q \in JobRows : q = [job[j] EXCEPT !.phase = IF @ = "loaded" THEN "bound" ELSE "gated", !.manifest = m]
          BY <1>0 DEF JobRows
    <3>2. job' = [job EXCEPT ![j] = q]
          BY <1>0, <2>2, <3>1 DEF JobRows
    <3>3. (q.phase = "bound" => q.mode = "prod") /\ ~Past(q)
          BY <1>0, <1>3, <3>1 DEF BindManifest, Past, JobRows
    <3> QED BY <1>3, <3>2, <3>3, JobMoves DEF BindManifest
  <2> QED BY <1>3, <2>1, <2>2 DEF BindManifest
<1>4. ASSUME VerifyDigests(j) PROVE DInv'
  <2>1. CASE Exits(j)
        BY <1>4, <2>1, ExitsSound DEF VerifyDigests
  <2>2. CASE Step(j, "approved", "gated")
    <3>1. PICK q \in JobRows : q = [job[j] EXCEPT !.phase = "gated"]
          BY <1>0 DEF JobRows
    <3>2. /\ job' = [job EXCEPT ![j] = q] /\ q.phase = "gated" /\ q.mode = job[j].mode
          /\ q.approval = job[j].approval /\ q.images = job[j].images /\ q.head = job[j].head
          /\ job[j].phase = "approved"
          BY <1>0, <2>2, <3>1 DEF Step, JobRows
    <3> QED BY <1>4, <3>2, JobMoves DEF VerifyDigests, Past
  <2> QED BY <1>4, <2>1, <2>2 DEF VerifyDigests
<1>5. ASSUME EnsureDocker(j) PROVE DInv'
  <2>1. CASE Exits(j)
        BY <1>5, <2>1, ExitsSound DEF EnsureDocker
  <2>2. CASE ~Exits(j)
    <3>1. PICK q \in JobRows : q = [job[j] EXCEPT !.phase = "docker", !.images = IF @ = "none" THEN checkout.images ELSE @]
          BY <1>0 DEF JobRows, CheckoutTyped
    <3>a. job[j] \in JobRows
          BY <1>0
    <3>b. /\ q.phase = "docker" /\ q.mode = job[j].mode
          /\ q.approval = job[j].approval /\ q.head = job[j].head
          /\ job[j].images # "none" => q.images = job[j].images
          BY <3>a, <3>1 DEF JobRows
    <3>c. job' = [job EXCEPT ![j] = q] /\ job[j].phase = "gated"
          BY <1>5, <2>2, <3>1, Zenon DEF EnsureDocker
    <3>2. /\ job' = [job EXCEPT ![j] = q] /\ q.phase = "docker" /\ q.mode = job[j].mode
          /\ q.approval = job[j].approval /\ q.head = job[j].head
          /\ job[j].images # "none" => q.images = job[j].images
          /\ job[j].phase = "gated"
          BY <3>b, <3>c
    <3>3. Past(job[j]) => job[j].images # "none"
          BY DeployAssumption DEF DInv, Fits
    <3> QED BY <1>5, <3>2, <3>3, JobMoves DEF EnsureDocker, Past
  <2> QED BY <2>1, <2>2
<1> QED BY <1>1, <1>2, <1>3, <1>4, <1>5

LEMMA DeployStep ==
    ASSUME DInv, CheckoutTyped, [DeployNext]_deployVars
    PROVE  DInv' /\ CheckoutTyped'
<1>1. CASE UNCHANGED <<nonces, job, ups>> /\ CheckoutTyped'
      BY <1>1 DEF DInv, Fits
<1>2. CASE EditCheckout \/ DeployDown \/ UNCHANGED deployVars
      BY <1>1, <1>2 DEF EditCheckout, DeployDown, deployVars, CheckoutTyped
<1>3. ASSUME NEW j \in Jobs,
             \/ \E m \in {"test", "prod"}, clean \in BOOLEAN : BeginDeploy(j, m, clean)
             \/ DeployConfigRefused(j) \/ LoadDeployConfig(j) \/ NotActivated(j)
             \/ \E m \in Manifests : BindManifest(j, m)
             \/ \E a \in Approvals : ApproveDeploy(j, a)
             \/ VerifyDigests(j) \/ EnsureDocker(j) \/ ComposeUp(j) \/ EndDeploy(j)
      PROVE  DInv' /\ CheckoutTyped'
  <2>1. checkout' = checkout
        BY <1>3 DEF BeginDeploy, DeployConfigRefused, LoadDeployConfig, NotActivated, BindManifest, ApproveDeploy,
           VerifyDigests, EnsureDocker, ComposeUp, EndDeploy
  <2>2. DInv'
        BY <1>3, RefusalSound, ProgressSound, ApproveSound, ComposeSound
  <2> QED BY <2>1, <2>2 DEF CheckoutTyped
<1> QED BY <1>2, <1>3 DEF DeployNext

\* For any number of deployments and edits, production comes up under an approval for exactly
\* its images, commit and run, and one approval brings up one deployment
\* (prod_approval.py:285, lifecycle.py:743).
THEOREM ApprovalsSpentOnce == DeploySpec => []ApprovedOnce
<1>1. DeployInit => DInv /\ CheckoutTyped
  <2> SUFFICES ASSUME DeployInit PROVE DInv /\ CheckoutTyped OBVIOUS
  <2>1. job = [j \in Jobs |-> IdleJob] /\ ups = {} /\ CheckoutTyped
        BY DEF DeployInit, CheckoutTyped
  <2> QED BY <2>1, IdleJobOK DEF DInv
<1>2. DInv /\ CheckoutTyped /\ [DeployNext]_deployVars => DInv' /\ CheckoutTyped'
      BY DeployStep
<1>3. DInv => ApprovedOnce
      BY DEF DInv, Fits, ApprovedOnce
<1> QED BY <1>1, <1>2, <1>3, PTL DEF DeploySpec

----------------------------------------------------------------------------
(* Authorization.  A request that is about to change a row still has the   *)
(* owner it has read, and no other request is about to change that row.    *)

AuthzSpec == AuthzInit /\ [][AuthzNext]_authzVars

OwnRows == [owner : ZUsers \cup {Nobody}, life : Lifecycles \cup {"none"}, version : Nat]

ZCodes == {"none", "OK", "SERVICE_UNAVAILABLE", "ACCOUNT_UNAVAILABLE", "FORBIDDEN_ROLE", "RESOURCE_NOT_FOUND",
           "NO_ROUTE_CANDIDATE"}

ZRows == [pc : {"new", "read", "route", "write", "finalize", "deny", "end"}, user : ZUsers \cup {Nobody},
          action : ZActions \cup {"none"}, x : ZResources \cup {"none"}, mutate : BOOLEAN,
          life : Lifecycles \cup {"none"}, row : OwnRows, code : ZCodes, changed : BOOLEAN, todo : SUBSET ZResources]

Changing(q) == q.pc = "finalize" /\ q.changed

\* What holds of a request r with the row q.
Audited(r, q) ==
    /\ q.pc # "new" => q.user \in ZUsers /\ q.x \in ZResources
    /\ q.changed => q.pc \in {"finalize", "end"}
    /\ q.pc = "write" \/ Changing(q) => (q.action \notin CreateActions => ownership[q.x].owner = q.user)
    /\ Changing(q) /\ q.action \in CreateActions => ownership[q.x] = Unowned
    /\ q.pc # "end" => \A e \in events : e.req # r
    /\ q.pc = "end" /\ q.code \notin {"OK", "SERVICE_UNAVAILABLE"} => \E e \in events : e.req = r /\ e.outcome = "denied"

ZInv ==
    /\ ownership \in [ZResources -> OwnRows]
    /\ zreq \in [ZReqs -> ZRows]
    /\ \A r \in ZReqs : Audited(r, zreq[r])
    /\ \A r, o \in ZReqs : Changing(zreq[r]) /\ Changing(zreq[o]) /\ zreq[r].x = zreq[o].x => r = o

\* One request goes on and nothing is stored.
LEMMA RequestMoves ==
    ASSUME ZInv, NEW r \in ZReqs, NEW q \in ZRows, zreq' = [zreq EXCEPT ![r] = q], UNCHANGED <<ownership, events>>,
           Audited(r, q), Changing(q) => ~Locked(r, q.x)
    PROVE  ZInv'
<1>1. zreq' \in [ZReqs -> ZRows] /\ zreq'[r] = q /\ \A o \in ZReqs \ {r} : zreq'[o] = zreq[o]
      BY DEF ZInv
<1>2. ASSUME NEW o \in ZReqs PROVE Audited(o, zreq[o])'
      BY <1>1 DEF ZInv, Audited
<1>3. ASSUME NEW o \in ZReqs \ {r}, Changing(q), Changing(zreq[o]) PROVE zreq[o].x # q.x
      BY <1>3 DEF Locked, Changing
<1> QED BY <1>1, <1>2, <1>3 DEF ZInv

LEMMA Refused ==
    ASSUME ZInv, NEW r \in ZReqs, zreq[r].pc # "end", zreq[r].pc # "new", Unavailable(r) PROVE ZInv'
<1>0. zreq[r] \in ZRows
      BY DEF ZInv
<1>a. "SERVICE_UNAVAILABLE" \in ZCodes
      BY DEF ZCodes
<1>1. PICK q \in ZRows : q = [zreq[r] EXCEPT !.pc = "end", !.code = "SERVICE_UNAVAILABLE", !.todo = {}]
      BY <1>0, <1>a DEF ZRows
<1>2. zreq' = [zreq EXCEPT ![r] = q] /\ UNCHANGED <<ownership, events>>
      BY <1>1 DEF Unavailable, Answer, ZInv, ZRows
<1>3. /\ q.pc = "end" /\ q.code = "SERVICE_UNAVAILABLE" /\ q.user = zreq[r].user /\ q.x = zreq[r].x
      BY <1>1 DEF ZInv, ZRows
<1>4. Audited(r, zreq[r])
      BY DEF ZInv
<1>5. Audited(r, q) /\ ~Changing(q)
      BY <1>3, <1>4 DEF Audited, Changing
<1> QED BY <1>2, <1>5, RequestMoves

LEMMA Begun ==
    ASSUME ZInv, NEW r \in ZReqs, NEW user \in ZUsers, NEW action \in ZActions, NEW x \in ZResources,
           NEW workspace, NEW mutate \in BOOLEAN, NEW life \in Lifecycles \cup {"none"},
           BeginAuthorize(r, user, action, x, workspace, mutate, life)
    PROVE  ZInv'
<1> DEFINE code == AccountCode(user, action, workspace)
           next == CASE code # "none" -> "deny"
                     [] code = "none" /\ action = "route_candidate_exclude_self" -> "route"
                     [] code = "none" /\ action \in CreateActions -> IF mutate THEN "write" ELSE "finalize"
                     [] OTHER -> "read"
           todo == IF next = "route" THEN ZResources ELSE {}
<1>1. code \in ZCodes
      BY DEF AccountCode, ZCodes
<1>2. next \in {"deny", "route", "write", "finalize", "read"} /\ (next = "write" => action \in CreateActions)
      BY Zenon
<1>3. PICK q \in ZRows : q = [NewZ EXCEPT !.pc = next, !.user = user, !.action = action, !.x = x, !.mutate = mutate,
                                          !.life = life, !.code = code, !.todo = todo]
                        /\ q.pc = next /\ q.user = user /\ q.x = x /\ q.action = action /\ ~q.changed
  <2>1. NewZ \in ZRows /\ ~NewZ.changed
        BY DEF NewZ, ZRows, OwnRows, Unowned, ZCodes
  <2>2. todo \in SUBSET ZResources
        OBVIOUS
  <2> HIDE DEF code, next, todo
  <2>3. PICK half \in ZRows : half = [NewZ EXCEPT !.pc = next, !.user = user, !.action = action, !.x = x]
        BY <1>1, <1>2, <2>1 DEF ZRows
  <2>4. PICK q \in ZRows : q = [half EXCEPT !.mutate = mutate, !.life = life, !.code = code, !.todo = todo]
        BY <1>1, <2>2 DEF ZRows
  <2>5. half.pc = next /\ half.user = user /\ half.action = action /\ half.x = x /\ half.changed = NewZ.changed
        BY <2>1, <2>3 DEF ZRows
  <2>6. /\ q.pc = half.pc /\ q.user = half.user /\ q.action = half.action /\ q.x = half.x
        /\ q.changed = half.changed
        BY <2>4 DEF ZRows
  <2> QED BY <2>1, <2>3, <2>4, <2>5, <2>6
<1>4. zreq' = [zreq EXCEPT ![r] = q] /\ UNCHANGED <<ownership, events>> /\ zreq[r].pc = "new"
      BY <1>3 DEF BeginAuthorize
<1>5. q.pc = next /\ q.user = user /\ q.x = x /\ q.action = action /\ ~q.changed
      BY <1>3
<1>6. Audited(r, zreq[r])
      BY DEF ZInv
<1>7. Audited(r, q) /\ ~Changing(q)
  <2> HIDE DEF next
  <2> QED BY <1>2, <1>4, <1>5, <1>6 DEF Audited, Changing
<1> QED BY <1>4, <1>7, RequestMoves

LEMMA Looked ==
    ASSUME ZInv, NEW r \in ZReqs,
           ReadOwnership(r) \/ NoCandidate(r) \/ \E x \in ZResources : ReadCandidate(r, x)
    PROVE  ZInv'
<1>0. zreq[r] \in ZRows /\ Audited(r, zreq[r])
      BY DEF ZInv
<1>1. CASE ReadOwnership(r)
  <2> DEFINE row == ownership[zreq[r].x]
             code == OwnershipCode(row, zreq[r].user, zreq[r].action)
             next == CASE code # "none" -> "deny" [] code = "none" /\ Mutates(zreq[r]) -> "write" [] OTHER -> "finalize"
  <2>1. row \in OwnRows /\ code \in ZCodes /\ (code = "none" => row.owner = zreq[r].user)
        BY <1>0, <1>1 DEF ZInv, Audited, ReadOwnership, OwnershipCode, ZCodes
  <2>2. next \in {"deny", "write", "finalize"} /\ (next = "write" => code = "none")
        BY Zenon
  <2> HIDE DEF code, next
  <2>3. PICK q \in ZRows : q = [zreq[r] EXCEPT !.pc = next, !.row = row, !.code = code]
        BY <1>0, <2>1, <2>2 DEF ZRows
  <2>4. zreq' = [zreq EXCEPT ![r] = q] /\ UNCHANGED <<ownership, events>> /\ zreq[r].pc = "read"
    <3>1. zreq' = [zreq EXCEPT ![r].pc = next, ![r].row = row, ![r].code = code]
          BY <1>1 DEF ReadOwnership, code, next
    <3> QED BY <1>1, <2>3, <3>1 DEF ReadOwnership, ZInv
  <2>5. /\ q.pc = next /\ q.user = zreq[r].user /\ q.x = zreq[r].x /\ q.changed = zreq[r].changed /\ q.action = zreq[r].action
        BY <1>0, <2>3 DEF ZRows
  <2>6. ~zreq[r].changed
        BY <2>4, <1>0 DEF Audited
  <2>7. Audited(r, q) /\ ~Changing(q)
        BY <1>0, <2>1, <2>2, <2>4, <2>5, <2>6 DEF Audited, Changing
  <2> QED BY <2>4, <2>7, RequestMoves
<1>2. CASE NoCandidate(r)
  <2>1. PICK q \in ZRows : q = [zreq[r] EXCEPT !.pc = "deny", !.code = "NO_ROUTE_CANDIDATE"]
        BY <1>0 DEF ZRows, ZCodes
  <2>2. zreq' = [zreq EXCEPT ![r] = q] /\ UNCHANGED <<ownership, events>> /\ zreq[r].pc = "route"
        BY <1>2, <2>1 DEF NoCandidate, ZInv
  <2>3. q.pc = "deny" /\ q.user = zreq[r].user /\ q.x = zreq[r].x /\ q.changed = zreq[r].changed
        BY <1>0, <2>1 DEF ZRows
  <2>4. Audited(r, q) /\ ~Changing(q)
        BY <1>0, <2>2, <2>3 DEF Audited, Changing
  <2> QED BY <2>2, <2>4, RequestMoves
<1>3. ASSUME NEW x \in ZResources, ReadCandidate(r, x) PROVE ZInv'
  <2> DEFINE stays == ownership[x].owner # zreq[r].user /\ ownership[x].life = "active"
  <2>1. PICK q \in ZRows : q = [zreq[r] EXCEPT !.todo = IF stays THEN {} ELSE @ \ {x},
                                               !.pc = IF stays THEN "finalize" ELSE @]
        BY <1>0 DEF ZRows
  <2>2. zreq' = [zreq EXCEPT ![r] = q] /\ UNCHANGED <<ownership, events>> /\ zreq[r].pc = "route"
        BY <1>3, <2>1 DEF ReadCandidate, ZInv
  <2>3. q.pc \in {"finalize", "route"} /\ q.user = zreq[r].user /\ q.x = zreq[r].x /\ q.changed = zreq[r].changed
        BY <1>0, <2>1, <2>2 DEF ZRows
  <2>4. Audited(r, q) /\ ~Changing(q)
        BY <1>0, <2>2, <2>3 DEF Audited, Changing
  <2> QED BY <2>2, <2>4, RequestMoves
<1> QED BY <1>1, <1>2, <1>3

LEMMA Flushed ==
    ASSUME ZInv, NEW r \in ZReqs, Flush(r) PROVE ZInv'
<1>0. zreq[r] \in ZRows /\ Audited(r, zreq[r]) /\ zreq[r].pc = "write"
      BY DEF ZInv, Flush
<1>1. PICK q \in ZRows : q = [zreq[r] EXCEPT !.pc = "finalize", !.changed = TRUE]
      BY <1>0 DEF ZRows
<1>2. zreq' = [zreq EXCEPT ![r] = q] /\ UNCHANGED <<ownership, events>>
      BY <1>0, <1>1 DEF Flush, ZInv
<1>3. q.pc = "finalize" /\ q.user = zreq[r].user /\ q.x = zreq[r].x /\ q.action = zreq[r].action
      BY <1>0, <1>1 DEF ZRows
<1>4. Audited(r, q) /\ ~Locked(r, q.x)
      BY <1>0, <1>3 DEF Audited, Changing, Flush
<1> QED BY <1>2, <1>4, RequestMoves

\* The row that is written is one of the owner who asks for the change.
LEMMA WrittenByOwner ==
    ASSUME ZInv, NEW r \in ZReqs, Changing(zreq[r])
    PROVE  LET q == zreq[r] w == Written(q, ownership[q.x]) IN
           /\ q.x \in ZResources /\ q.user \in ZUsers /\ w \in OwnRows /\ w.owner = q.user
           /\ ownership[q.x].owner \in {Nobody, q.user}
           /\ ownership[q.x].owner = Nobody => q.action \in CreateActions
<1> DEFINE q == zreq[r]
           now == ownership[q.x]
<1>0. q \in ZRows /\ Audited(r, q) /\ q.x \in ZResources /\ q.user \in ZUsers /\ now \in OwnRows
      BY DEF ZInv, Audited, Changing
<1>1. NewLife(q) \in Lifecycles \cup {"none"}
      BY <1>0 DEF NewLife, ZRows, OwnRows, Lifecycles
<1>2. CASE q.action \in CreateActions
      BY <1>0, <1>2 DEF Written, OwnRows, Audited, Lifecycles, Unowned
<1>3. CASE q.action \notin CreateActions
  <2>1. now.owner = q.user /\ q.user # Nobody
        BY <1>0, <1>3, AuthzAssumption DEF Audited, ZUsers, Nobody
  <2>2. q.row.version + 1 \in Nat
        BY <1>0 DEF ZRows, OwnRows
  <2>3. Written(q, now) \in OwnRows /\ Written(q, now).owner = now.owner
    <3> HIDE DEF q, now
    <3> QED BY <1>0, <1>1, <1>3, <2>2 DEF Written, OwnRows
  <2> QED BY <1>0, <1>3, <2>1, <2>3
<1> QED BY <1>2, <1>3

LEMMA Answered ==
    ASSUME ZInv, NEW r \in ZReqs, zreq[r].pc \notin {"new", "end"}, NEW code \in ZCodes, Answer(r, code)
    PROVE  /\ zreq' \in [ZReqs -> ZRows] /\ \A o \in ZReqs \ {r} : zreq'[o] = zreq[o]
           /\ zreq'[r].pc = "end" /\ zreq'[r].code = code
           /\ zreq'[r].user \in ZUsers /\ zreq'[r].x \in ZResources
<1>0. zreq[r] \in ZRows /\ Audited(r, zreq[r])
      BY DEF ZInv
<1>1. PICK q \in ZRows : q = [zreq[r] EXCEPT !.pc = "end", !.code = code, !.todo = {}]
      BY <1>0 DEF ZRows
<1>2. zreq' = [zreq EXCEPT ![r] = q]
      BY <1>0, <1>1 DEF Answer, ZInv
<1>3. q.pc = "end" /\ q.code = code /\ q.user = zreq[r].user /\ q.x = zreq[r].x
      BY <1>0, <1>1 DEF ZRows
<1> QED BY <1>0, <1>2, <1>3 DEF ZInv, Audited

LEMMA Allowed ==
    ASSUME ZInv, NEW r \in ZReqs, NEW stored \in BOOLEAN, CommitAllowed(r, stored)
    PROVE  /\ ZInv'
           /\ \A x \in ZResources : ownership'[x] # ownership[x] =>
                 \E e \in events' \ events : /\ e.x = x /\ e.outcome = "allowed_state_change"
                                             /\ e.actor = ownership'[x].owner
                                             /\ ownership[x].owner \in {Nobody, e.actor}
<1> DEFINE q == zreq[r]
           w == Written(q, ownership[q.x])
           event == Event(r, "allowed_state_change")
<1>0. q \in ZRows /\ Audited(r, q) /\ q.pc = "finalize"
      BY DEF ZInv, CommitAllowed
<1>1. PICK code \in {"OK", "SERVICE_UNAVAILABLE"} : Answer(r, code)
      BY DEF CommitAllowed
<1>2. /\ zreq' \in [ZReqs -> ZRows] /\ \A o \in ZReqs \ {r} : zreq'[o] = zreq[o]
      /\ zreq'[r].pc = "end" /\ zreq'[r].code = code
      /\ zreq'[r].user \in ZUsers /\ zreq'[r].x \in ZResources
      BY <1>0, <1>1, Answered DEF ZCodes
<1>3. events \subseteq events' /\ events' \subseteq events \cup {event} /\ (q.changed => event \in events')
      BY DEF CommitAllowed, NeedsAudit
<1>4. event.req = r /\ event.actor = q.user /\ event.x = q.x /\ event.outcome = "allowed_state_change"
      BY DEF Event
<1>5. event \notin events
      BY <1>0, <1>4 DEF Audited
<1>6. q.changed => /\ q.x \in ZResources /\ q.user \in ZUsers /\ w \in OwnRows /\ w.owner = q.user
                   /\ ownership[q.x].owner \in {Nobody, q.user}
                   /\ (ownership[q.x].owner = Nobody => q.action \in CreateActions)
      BY <1>0, WrittenByOwner DEF Changing
<1> HIDE DEF event
<1>7. ownership' = IF q.changed THEN [ownership EXCEPT ![q.x] = w] ELSE ownership
      BY DEF CommitAllowed
<1> HIDE DEF w
<1>8. ownership' \in [ZResources -> OwnRows]
      BY <1>6, <1>7 DEF ZInv
<1>9. ASSUME NEW x \in ZResources, ownership'[x] # ownership[x] PROVE q.changed /\ x = q.x /\ ownership'[x] = w
      BY <1>7, <1>9 DEF ZInv
<1>10. Audited(r, zreq[r])'
      BY <1>2 DEF Audited, Changing
<1>11. ASSUME NEW o \in ZReqs \ {r} PROVE Audited(o, zreq[o])'
  <2>1. Audited(o, zreq[o]) /\ zreq'[o] = zreq[o] /\ zreq[o] \in ZRows
        BY <1>2 DEF ZInv
  <2>2. zreq[o].pc # "end" => \A e \in events' : e.req # o
        BY <1>3, <1>4, <2>1 DEF Audited
  <2>3. zreq[o].pc = "write" \/ Changing(zreq[o]) =>
           (zreq[o].action \notin CreateActions => ownership'[zreq[o].x].owner = zreq[o].user)
    <3>1. SUFFICES ASSUME zreq[o].pc = "write" \/ Changing(zreq[o]), zreq[o].action \notin CreateActions
                   PROVE  ownership'[zreq[o].x].owner = zreq[o].user
          OBVIOUS
    <3>2. ownership[zreq[o].x].owner = zreq[o].user /\ zreq[o].x \in ZResources /\ zreq[o].user \in ZUsers
          BY <2>1, <3>1 DEF Audited, Changing
    <3>3. zreq[o].user # Nobody
          BY <3>2, AuthzAssumption DEF ZUsers, Nobody
    <3> QED BY <1>6, <1>9, <3>2, <3>3
  <2>4. Changing(zreq[o]) /\ zreq[o].action \in CreateActions => ownership'[zreq[o].x] = Unowned
    <3>1. SUFFICES ASSUME Changing(zreq[o]), zreq[o].action \in CreateActions
                   PROVE  ownership'[zreq[o].x] = Unowned
          OBVIOUS
    <3>2. ownership[zreq[o].x] = Unowned /\ zreq[o].x \in ZResources
          BY <2>1, <3>1 DEF Audited, Changing
    <3>3. q.changed => q.x # zreq[o].x
          BY <1>0, <3>1 DEF ZInv, Changing
    <3> QED BY <1>9, <3>2, <3>3
  <2> QED BY <2>1, <2>2, <2>3, <2>4, <1>3 DEF Audited
<1>12. ASSUME NEW o \in ZReqs, NEW p \in ZReqs, Changing(zreq[o])', Changing(zreq[p])', zreq'[o].x = zreq'[p].x
       PROVE  o = p
  <2>1. o # r /\ p # r
        BY <1>2, <1>12 DEF Changing
  <2> QED BY <1>2, <1>12, <2>1 DEF ZInv, Changing
<1>13. ZInv'
      BY <1>2, <1>8, <1>10, <1>11, <1>12 DEF ZInv
<1>14. ASSUME NEW x \in ZResources, ownership'[x] # ownership[x]
       PROVE  \E e \in events' \ events : /\ e.x = x /\ e.outcome = "allowed_state_change"
                                           /\ e.actor = ownership'[x].owner
                                           /\ ownership[x].owner \in {Nobody, e.actor}
  <2>1. q.changed /\ x = q.x /\ ownership'[x] = w
        BY <1>9, <1>14
  <2>2. event \in events' \ events
        BY <1>3, <1>5, <2>1
  <2> QED BY <1>4, <1>6, <2>1, <2>2
<1> QED BY <1>13, <1>14

LEMMA DeniedStored ==
    ASSUME ZInv, NEW r \in ZReqs, CommitDenied(r) PROVE ZInv'
<1>0. zreq[r] \in ZRows /\ Audited(r, zreq[r]) /\ zreq[r].pc = "deny"
      BY DEF ZInv, CommitDenied
<1>1. PICK code \in {zreq[r].code, "SERVICE_UNAVAILABLE"} : Answer(r, code)
      BY DEF CommitDenied
<1>2. code \in ZCodes
      BY <1>0 DEF ZRows, ZCodes
<1>3. /\ zreq' \in [ZReqs -> ZRows] /\ \A o \in ZReqs \ {r} : zreq'[o] = zreq[o]
      /\ zreq'[r].pc = "end" /\ zreq'[r].code = code
      /\ zreq'[r].user \in ZUsers /\ zreq'[r].x \in ZResources
      BY <1>0, <1>1, <1>2, Answered
<1>4. /\ ownership' = ownership /\ events' = events \cup {Event(r, "denied")}
      /\ Event(r, "denied").req = r /\ Event(r, "denied").outcome = "denied"
      BY DEF CommitDenied, Event
<1>5. Audited(r, zreq[r])'
      BY <1>3, <1>4 DEF Audited, Changing
<1>6. ASSUME NEW o \in ZReqs \ {r} PROVE Audited(o, zreq[o])'
      BY <1>3, <1>4 DEF ZInv, Audited, Changing
<1>7. ASSUME NEW o \in ZReqs, NEW p \in ZReqs, Changing(zreq[o])', Changing(zreq[p])', zreq'[o].x = zreq'[p].x
      PROVE  o = p
  <2>1. o # r /\ p # r
        BY <1>3, <1>7 DEF Changing
  <2> QED BY <1>3, <1>7, <2>1 DEF ZInv, Changing
<1> QED BY <1>3, <1>4, <1>5, <1>6, <1>7 DEF ZInv

\* One action at a time.
LEMMA AuthzStep ==
    ASSUME ZInv, AuthzNext
    PROVE  /\ ZInv'
           /\ \A x \in ZResources : ownership'[x] # ownership[x] =>
                 \E e \in events' \ events : /\ e.x = x /\ e.outcome = "allowed_state_change"
                                             /\ e.actor = ownership'[x].owner
                                             /\ ownership[x].owner \in {Nobody, e.actor}
<1>1. PICK r \in ZReqs :
       \/ \E user \in ZUsers, action \in ZActions, x \in ZResources,
             workspace \in {"none", "buyer", "seller"}, mutate \in BOOLEAN,
             life \in Lifecycles \cup {"none"} :
             BeginAuthorize(r, user, action, x, workspace, mutate, life)
       \/ LoadFails(r) \/ ReadOwnership(r) \/ NoCandidate(r)
       \/ \E x \in ZResources : ReadCandidate(r, x)
       \/ Flush(r) \/ FlushFails(r) \/ EndFails(r)
       \/ \E stored \in BOOLEAN : CommitAllowed(r, stored)
       \/ CommitDenied(r)
      BY DEF AuthzNext
<1>2. CASE \E user \in ZUsers, action \in ZActions, x \in ZResources,
             workspace \in {"none", "buyer", "seller"}, mutate \in BOOLEAN,
             life \in Lifecycles \cup {"none"} :
             BeginAuthorize(r, user, action, x, workspace, mutate, life)
  <2>1. UNCHANGED ownership
        BY <1>2 DEF BeginAuthorize
  <2> QED BY <1>2, <2>1, Begun
<1>3. CASE LoadFails(r) \/ FlushFails(r) \/ EndFails(r)
  <2>1. zreq[r].pc # "end" /\ zreq[r].pc # "new" /\ Unavailable(r) /\ UNCHANGED ownership
        BY <1>3 DEF LoadFails, FlushFails, EndFails, Unavailable
  <2> QED BY <2>1, Refused
<1>4. CASE ReadOwnership(r) \/ NoCandidate(r) \/ \E x \in ZResources : ReadCandidate(r, x)
  <2>1. UNCHANGED ownership
        BY <1>4 DEF ReadOwnership, NoCandidate, ReadCandidate
  <2> QED BY <1>4, <2>1, Looked
<1>5. CASE Flush(r)
  <2>1. UNCHANGED ownership
        BY <1>5 DEF Flush
  <2> QED BY <1>5, <2>1, Flushed
<1>6. CASE \E stored \in BOOLEAN : CommitAllowed(r, stored)
      BY <1>6, Allowed
<1>7. CASE CommitDenied(r)
  <2>1. UNCHANGED ownership
        BY <1>7 DEF CommitDenied
  <2> QED BY <1>7, <2>1, DeniedStored
<1> QED BY <1>1, <1>2, <1>3, <1>4, <1>5, <1>6, <1>7

LEMMA AuthzInitial == AuthzInit => ZInv
<1> SUFFICES ASSUME AuthzInit PROVE ZInv
    OBVIOUS
<1>1. NewZ \in ZRows /\ NewZ.pc = "new" /\ ~NewZ.changed
      BY DEF NewZ, ZRows, OwnRows, Unowned, ZCodes
<1>2. {Unowned} \cup [owner : ZUsers, life : {"active"}, version : {1}] \subseteq OwnRows
      BY DEF Unowned, OwnRows, Lifecycles
<1>3. ownership \in [ZResources -> OwnRows] /\ events = {} /\ zreq = [r \in ZReqs |-> NewZ]
      BY <1>2 DEF AuthzInit
<1> HIDE DEF NewZ
<1> QED BY <1>1, <1>3 DEF ZInv, Audited, Changing

LEMMA AuthzMoves == ZInv /\ [AuthzNext]_authzVars => ZInv'
<1> SUFFICES ASSUME ZInv, [AuthzNext]_authzVars PROVE ZInv'
    OBVIOUS
<1>1. CASE AuthzNext
      BY <1>1, AuthzStep
<1>2. CASE UNCHANGED authzVars
      BY <1>2 DEF authzVars, ZInv, Audited, Changing
<1> QED BY <1>1, <1>2

\* A row of an owner only changes with the event that tells of it, and a refusal that is told
\* is stored (_finalize_allowed, _denied).
THEOREM ChangesTold == AuthzSpec => ChangeAudited
<1>1. ZInv /\ ZInv' /\ [AuthzNext]_authzVars =>
        [/\ \A x \in ZResources : ownership'[x] # ownership[x] =>
              \E e \in events' \ events : /\ e.x = x /\ e.outcome = "allowed_state_change"
                                          /\ e.actor = ownership'[x].owner
                                          /\ ownership[x].owner \in {Nobody, e.actor}
         /\ \A r \in ZReqs : zreq'[r].pc = "end" /\ zreq'[r].code \notin {"OK", "SERVICE_UNAVAILABLE"} =>
              \E e \in events' : e.req = r /\ e.outcome = "denied"]_authzVars
  <2>1. ASSUME ZInv' PROVE \A r \in ZReqs : zreq'[r].pc = "end" /\ zreq'[r].code \notin {"OK", "SERVICE_UNAVAILABLE"} =>
              \E e \in events' : e.req = r /\ e.outcome = "denied"
        BY <2>1 DEF ZInv, Audited
  <2> QED BY <2>1, AuthzStep
<1> QED BY <1>1, AuthzInitial, AuthzMoves, PTL DEF AuthzSpec, ChangeAudited

----------------------------------------------------------------------------
(* The local environment.  The holder of the lock that found no child at   *)
(* work is the only one that can change a container, so what it has seen   *)
(* of them stays true until it reports.                                    *)

EnvRows == [action : {"dev", "dev-down"}, ws : EWorkspaces, phase : EnvPhases, status : OperationStatuses,
            alone : BOOLEAN, left : SUBSET EDeps, ready : SUBSET EDeps]

Children == {"none", "up", "down"}
StartPhases == {"revalidate", "images", "reconcile", "inspect", "probe"}
StopPhases == {"discover", "fallback", "verify"}
LockedPhases == StartPhases \cup StopPhases \cup {"wait"}

\* What holds of an operation o with the row q.
Exclusive(o, q) ==
    /\ q.phase \in LockedPhases <=> holder = o
    /\ q.phase \notin {"wait", "final"} => child[o] = "none"
    /\ q.phase = "wait" => child[o] = IF q.action = "dev" THEN "up" ELSE "down"
    /\ q.phase \in StartPhases => q.action = "dev"
    /\ q.phase \in StopPhases => q.action = "dev-down"
    /\ q.alone /\ holder = o =>
          /\ \A p \in EOps \ {o} : child[p] = "none"
          /\ q.phase \notin {"revalidate", "discover"} => Owned(q.ws)
          /\ q.phase \in {"inspect", "probe"} => \A d \in EDeps : up[d] = q.ws

EInv ==
    /\ op \in [EOps -> EnvRows] /\ child \in [EOps -> Children] /\ DOMAIN up = EDeps
    /\ holder \in EOps \cup {"none"}
    /\ \A o \in EOps : Exclusive(o, op[o])

\* One operation moves and no container changes.
LEMMA OperationMoves ==
    ASSUME EInv, NEW o \in EOps, NEW q \in EnvRows, NEW c \in Children,
           op' = [op EXCEPT ![o] = q], child' = [child EXCEPT ![o] = c], up' = up,
           c \in {child[o], "none"} \/ holder = o,
           holder' = holder \/ (holder = o /\ holder' = "none") \/ (holder = "none" /\ holder' = o),
           Exclusive(o, q)'
    PROVE  EInv'
<1>1. /\ op' \in [EOps -> EnvRows] /\ op'[o] = q /\ \A p \in EOps \ {o} : op'[p] = op[p]
      /\ child' \in [EOps -> Children] /\ child'[o] = c /\ \A p \in EOps \ {o} : child'[p] = child[p]
      BY DEF EInv
<1>2. ASSUME NEW p \in EOps \ {o} PROVE Exclusive(p, op[p])'
  <2>1. Exclusive(p, op[p]) /\ op'[p] = op[p] /\ child'[p] = child[p]
        BY <1>1 DEF EInv
  <2>2. holder' = p <=> holder = p
        BY EnvAssumption
  <2>3. holder = p => (child[o] = "none" => c = "none")
        BY <2>2
  <2> QED BY <1>1, <2>1, <2>2, <2>3 DEF Exclusive, Owned
<1>3. holder' \in EOps \cup {"none"} /\ DOMAIN up' = EDeps
      BY DEF EInv
<1> QED BY <1>1, <1>2, <1>3 DEF EInv

\* An operation reports, and its child, if there is one, stays or ends.
LEMMA Reported ==
    ASSUME EInv, NEW o \in EOps, NEW status \in OperationStatuses, Reports(o, status), up' = up,
           NEW c \in {child[o], "none"}, child' = [child EXCEPT ![o] = c]
    PROVE  EInv'
<1>0. op[o] \in EnvRows /\ "final" \in EnvPhases
      BY DEF EInv, EnvPhases
<1>1. PICK q \in EnvRows : q = [op[o] EXCEPT !.phase = "final", !.status = status, !.left = {}, !.ready = {}]
      BY <1>0 DEF EnvRows
<1>2. op' = [op EXCEPT ![o] = q]
      BY <1>1 DEF Reports, EInv, EnvRows
<1>3. q.phase = "final" /\ holder' # o /\ (holder' = holder \/ (holder = o /\ holder' = "none"))
      BY <1>1, EnvAssumption DEF EInv, EnvRows, Reports, Released
<1>4. Exclusive(o, q)'
      BY <1>3 DEF Exclusive, LockedPhases, StartPhases, StopPhases
<1>5. c \in Children
      BY DEF EInv, Children
<1> QED BY <1>2, <1>3, <1>4, <1>5, OperationMoves

LEMMA Failed ==
    ASSUME EInv, NEW o \in EOps, NEW status \in OperationStatuses, Fails(o, status) PROVE EInv' /\ up' = up
<1>1. child' = [child EXCEPT ![o] = child[o]] /\ up' = up /\ Reports(o, status)
      BY DEF Fails, EInv
<1> QED BY <1>1, Reported

\* An operation goes to another phase of those it has the lock for, or before the lock.
LEMMA PhaseMoves ==
    ASSUME EInv, NEW o \in EOps, NEW q \in EnvRows, NEW c \in Children,
           op' = [op EXCEPT ![o] = q], child' = [child EXCEPT ![o] = c], UNCHANGED <<up, holder>>,
           c \in {child[o], "none"} \/ holder = o,
           q.ws = op[o].ws, q.action = op[o].action, q.alone = op[o].alone,
           q.phase \in LockedPhases <=> op[o].phase \in LockedPhases,
           q.phase \notin {"wait", "final"} => c = "none",
           q.phase = "wait" => c = IF q.action = "dev" THEN "up" ELSE "down",
           q.phase \in StartPhases => q.action = "dev",
           q.phase \in StopPhases => q.action = "dev-down",
           q.phase \in LockedPhases \ {"revalidate", "discover"} =>
              op[o].phase \notin {"revalidate", "discover"} \/ Owned(q.ws),
           q.phase \in {"inspect", "probe"} =>
              op[o].phase \in {"inspect", "probe"} \/ \A d \in EDeps : up[d] = q.ws
    PROVE  EInv'
<1>1. Exclusive(o, op[o])
      BY DEF EInv
<1>2. child'[o] = c /\ \A p \in EOps \ {o} : child'[p] = child[p]
      BY DEF EInv
<1>3. holder = o <=> op[o].phase \in LockedPhases
      BY <1>1 DEF Exclusive
<1>4. Exclusive(o, q)'
      BY <1>1, <1>2, <1>3 DEF Exclusive, Owned
<1> QED BY <1>4, OperationMoves

USE DEF StartPhases, StopPhases, LockedPhases

LEMMA EnvBegins ==
    ASSUME EInv, NEW o \in EOps, NEW a \in {"dev", "dev-down"}, NEW w \in EWorkspaces, BeginOperation(o, a, w)
    PROVE  EInv'
<1> DEFINE phase == IF a = "dev" THEN "preflight" ELSE "lock"
<1>1. NoOperation \in EnvRows /\ ~NoOperation.alone
      BY EnvAssumption DEF NoOperation, EnvRows, EnvPhases, OperationStatuses
<1>2. PICK q \in EnvRows : q = [NoOperation EXCEPT !.action = a, !.ws = w, !.status = "REQUESTED", !.phase = phase]
      BY <1>1 DEF EnvRows, EnvPhases, OperationStatuses
<1>3. q.phase \in {"preflight", "lock"} /\ ~q.alone
      BY <1>1, <1>2 DEF EnvRows
<1>4. /\ op' = [op EXCEPT ![o] = q] /\ child' = [child EXCEPT ![o] = child[o]] /\ UNCHANGED <<holder, up>>
      /\ child[o] = "none" /\ op[o].phase = "final"
      BY <1>2 DEF BeginOperation, EInv, At
<1>5. holder # o
      BY <1>4 DEF EInv, Exclusive
<1>6. Exclusive(o, q)'
      BY <1>3, <1>4, <1>5 DEF Exclusive
<1>7. child[o] \in Children
      BY DEF EInv
<1> QED BY <1>4, <1>6, <1>7, OperationMoves

LEMMA EnvAcquires ==
    ASSUME EInv, NEW o \in EOps, AcquireLock(o) PROVE EInv' /\ up' = up
<1>1. CASE LockFree
  <2>0. /\ op[o] \in EnvRows
        /\ LET phase == IF op[o].action = "dev" THEN "revalidate" ELSE "discover"
               status == IF op[o].action = "dev" THEN op[o].status ELSE "RUNNING"
               none == \A p \in EOps : child[p] = "none"
           IN op' = [op EXCEPT ![o] = [op[o] EXCEPT !.phase = phase, !.status = status, !.alone = none]]
        BY <1>1 DEF AcquireLock, EInv
  <2> DEFINE none == \A p \in EOps : child[p] = "none"
             phase == IF op[o].action = "dev" THEN "revalidate" ELSE "discover"
             status == IF op[o].action = "dev" THEN op[o].status ELSE "RUNNING"
  <2>01. phase \in EnvPhases /\ status \in OperationStatuses /\ none \in BOOLEAN
        BY <2>0 DEF EnvRows, EnvPhases, OperationStatuses
  <2>02. op' = [op EXCEPT ![o] = [op[o] EXCEPT !.phase = phase, !.status = status, !.alone = none]]
        BY <2>0
  <2> HIDE DEF phase, status, none
  <2>1. PICK q \in EnvRows : q = [op[o] EXCEPT !.phase = phase, !.status = status, !.alone = none]
        BY <2>0, <2>01 DEF EnvRows
  <2>2. /\ q.phase = phase /\ q.action = op[o].action /\ q.alone = none
        BY <2>0, <2>1 DEF EnvRows
  <2>3. op' = [op EXCEPT ![o] = q] /\ child' = [child EXCEPT ![o] = child[o]] /\ up' = up /\ holder' = o /\ holder = "none"
        BY <1>1, <2>02, <2>1 DEF AcquireLock, LockFree, EInv
  <2>4. child[o] = "none" /\ op[o].action \in {"dev", "dev-down"} /\ child[o] \in Children
        BY DEF EInv, Exclusive, AcquireLock, At, EnvRows
  <2>5. child' = child
        BY <2>3 DEF EInv
  <2>6. Exclusive(o, q)'
        BY <2>2, <2>3, <2>4, <2>5 DEF Exclusive, phase, none
  <2> QED BY <2>3, <2>4, <2>6, OperationMoves
<1>2. CASE ~LockFree
      BY <1>2, Failed DEF AcquireLock, OperationStatuses
<1> QED BY <1>1, <1>2

\* The steps of the holder that leave the containers alone.
LEMMA Going ==
    ASSUME EInv, NEW o \in EOps, NEW phase \in EnvPhases, Goes(o, phase), phase \notin {"wait", "final"},
           op[o].phase \notin {"wait", "final"},
           phase \in LockedPhases <=> op[o].phase \in LockedPhases,
           phase \in StartPhases => op[o].action = "dev", phase \in StopPhases => op[o].action = "dev-down",
           phase \in LockedPhases \ {"revalidate", "discover"} =>
              op[o].phase \notin {"revalidate", "discover"} \/ Owned(op[o].ws),
           phase \notin {"inspect", "probe"}
    PROVE  EInv' /\ up' = up
<1>0. op[o] \in EnvRows
      BY DEF EInv
<1>1. PICK q \in EnvRows : q = [op[o] EXCEPT !.phase = phase]
      BY <1>0 DEF EnvRows
<1>2. q.phase = phase /\ q.ws = op[o].ws /\ q.action = op[o].action /\ q.alone = op[o].alone
      BY <1>1 DEF EInv, EnvRows
<1>3. op' = [op EXCEPT ![o] = q] /\ child' = [child EXCEPT ![o] = child[o]] /\ UNCHANGED <<up, holder>>
      BY <1>1 DEF Goes, EInv, EnvRows
<1>4. child[o] = "none" /\ child[o] \in Children
      BY DEF EInv, Exclusive
<1> QED BY <1>2, <1>3, <1>4, PhaseMoves

LEMMA Quiet ==
    ASSUME EInv, NEW o \in EOps,
           \/ Preflight(o) \/ Revalidate(o) \/ EnsureImages(o) \/ ReconcileUp(o) \/ InspectUp(o)
           \/ \E d \in EDeps, responds \in BOOLEAN : ProbeDependency(o, d, responds)
           \/ Discover(o) \/ FallbackList(o) \/ FallbackDone(o)
    PROVE  EInv' /\ up' = up
<1>0. op[o] \in EnvRows /\ Exclusive(o, op[o]) /\ child[o] \in Children
      BY DEF EInv
<1>00. {"FAILED", "REJECTED"} \subseteq OperationStatuses /\ {"lock", "reconcile", "verify"} \subseteq EnvPhases
      BY DEF OperationStatuses, EnvPhases
<1>1. CASE \E status \in {"FAILED", "REJECTED"} : Fails(o, status)
      BY <1>1, <1>00, Failed
<1>2. CASE Goes(o, "lock") /\ At(o, "preflight")
      BY <1>2, <1>00, Going DEF At
<1>3. CASE Goes(o, "reconcile") /\ At(o, "images")
      BY <1>0, <1>3, <1>00, Going DEF At, Exclusive
<1>4. CASE Goes(o, "verify") /\ ((At(o, "discover") /\ Owned(op[o].ws)) \/ At(o, "fallback"))
      BY <1>0, <1>4, <1>00, Going DEF At, Exclusive
<1>5. CASE Revalidate(o) /\ ~Fails(o, "FAILED")
  <2>1. PICK q \in EnvRows : q = [op[o] EXCEPT !.phase = "images", !.status = "RUNNING"]
        BY <1>0 DEF EnvRows, EnvPhases, OperationStatuses
  <2>2. q.phase = "images" /\ q.ws = op[o].ws /\ q.action = op[o].action /\ q.alone = op[o].alone
        BY <1>0, <2>1 DEF EnvRows
  <2>3. op' = [op EXCEPT ![o] = q] /\ child' = [child EXCEPT ![o] = child[o]] /\ UNCHANGED <<up, holder>>
        BY <1>5, <2>1, <1>0 DEF Revalidate, EInv, EnvRows
  <2>4. op[o].phase = "revalidate" /\ Owned(op[o].ws) /\ child[o] = "none" /\ op[o].action = "dev"
        BY <1>0, <1>5 DEF Revalidate, At, Exclusive
  <2> QED BY <1>0, <2>2, <2>3, <2>4, PhaseMoves
<1>6. CASE ReconcileUp(o) /\ ~Fails(o, "FAILED")
  <2>1. PICK q \in EnvRows : q = [op[o] EXCEPT !.phase = "wait"]
        BY <1>0 DEF EnvRows, EnvPhases
  <2>2. q.phase = "wait" /\ q.ws = op[o].ws /\ q.action = op[o].action /\ q.alone = op[o].alone
        BY <1>0, <2>1 DEF EnvRows
  <2>3. op' = [op EXCEPT ![o] = q] /\ child' = [child EXCEPT ![o] = "up"] /\ UNCHANGED <<up, holder>>
        BY <1>6, <2>1, <1>0 DEF ReconcileUp, EInv, EnvRows
  <2>4. op[o].phase = "reconcile" /\ op[o].action = "dev" /\ holder = o /\ "up" \in Children
        BY <1>0, <1>6 DEF ReconcileUp, At, Exclusive, Children
  <2> QED BY <1>0, <2>2, <2>3, <2>4, PhaseMoves
<1>7. CASE InspectUp(o) /\ ~Fails(o, "FAILED")
  <2>1. PICK q \in EnvRows : q = [op[o] EXCEPT !.phase = "probe", !.left = EDeps]
        BY <1>0 DEF EnvRows, EnvPhases
  <2>2. q.phase = "probe" /\ q.ws = op[o].ws /\ q.action = op[o].action /\ q.alone = op[o].alone
        BY <1>0, <2>1 DEF EnvRows
  <2>3. op' = [op EXCEPT ![o] = q] /\ child' = [child EXCEPT ![o] = child[o]] /\ UNCHANGED <<up, holder>>
        BY <1>7, <2>1, <1>0 DEF InspectUp, EInv, EnvRows
  <2>4. op[o].phase = "inspect" /\ op[o].action = "dev" /\ child[o] = "none"
        BY <1>0, <1>7 DEF InspectUp, At, Exclusive
  <2> QED BY <1>0, <2>2, <2>3, <2>4, PhaseMoves
<1>8. ASSUME NEW d \in EDeps, NEW responds \in BOOLEAN, ProbeDependency(o, d, responds) PROVE EInv' /\ up' = up
  <2>1. PICK q \in EnvRows : q = [op[o] EXCEPT !.left = @ \ {d}, !.ready = IF responds THEN @ \cup {d} ELSE @]
        BY <1>0 DEF EnvRows
  <2>2. q.phase = op[o].phase /\ q.ws = op[o].ws /\ q.action = op[o].action /\ q.alone = op[o].alone
        BY <1>0, <2>1 DEF EnvRows
  <2>3. op' = [op EXCEPT ![o] = q] /\ child' = [child EXCEPT ![o] = child[o]] /\ UNCHANGED <<up, holder>>
        BY <1>8, <2>1, <1>0 DEF ProbeDependency, EInv, EnvRows
  <2>4. op[o].phase = "probe" /\ op[o].action = "dev" /\ child[o] = "none"
        BY <1>0, <1>8 DEF ProbeDependency, At, Exclusive
  <2> QED BY <1>0, <2>2, <2>3, <2>4, PhaseMoves
<1>9. CASE Discover(o) /\ child' = [child EXCEPT ![o] = "down"] /\ ~Fails(o, "FAILED") /\ ~Goes(o, "verify")
  <2>1. PICK q \in EnvRows : q = [op[o] EXCEPT !.phase = "wait"]
        BY <1>0 DEF EnvRows, EnvPhases
  <2>2. q.phase = "wait" /\ q.ws = op[o].ws /\ q.action = op[o].action /\ q.alone = op[o].alone
        BY <1>0, <2>1 DEF EnvRows
  <2>3. op' = [op EXCEPT ![o] = q] /\ child' = [child EXCEPT ![o] = "down"] /\ UNCHANGED <<up, holder>>
        BY <1>9, <2>1, <1>0 DEF Discover, EInv, EnvRows
  <2>4. op[o].phase = "discover" /\ op[o].action = "dev-down" /\ holder = o /\ "down" \in Children /\ Owned(op[o].ws)
        BY <1>0, <1>9 DEF Discover, At, Exclusive, Children
  <2> QED BY <1>0, <2>2, <2>3, <2>4, PhaseMoves
<1>10. CASE FallbackList(o) /\ Owned(op[o].ws)
  <2> DEFINE left == {d \in EDeps : up[d] # "none"}
  <2>1. PICK q \in EnvRows : q = [op[o] EXCEPT !.phase = "fallback", !.left = left]
        BY <1>0 DEF EnvRows, EnvPhases
  <2>2. q.phase = "fallback" /\ q.ws = op[o].ws /\ q.action = op[o].action /\ q.alone = op[o].alone
        BY <1>0, <2>1 DEF EnvRows
  <2>3. op' = [op EXCEPT ![o] = q] /\ child' = [child EXCEPT ![o] = "none"] /\ UNCHANGED <<up, holder>>
        BY <1>10, <2>1, <1>0 DEF FallbackList, EInv, EnvRows
  <2>4. op[o].phase = "wait" /\ op[o].action = "dev-down" /\ "none" \in Children
        BY <1>0, <1>10 DEF FallbackList, At, Children
  <2> QED BY <1>0, <2>2, <2>3, <2>4, PhaseMoves
<1>11. CASE FallbackList(o) /\ ~Owned(op[o].ws)
  <2>1. Reports(o, "FAILED") /\ up' = up /\ child' = [child EXCEPT ![o] = "none"]
        BY <1>11 DEF FallbackList
  <2> QED BY <2>1, <1>00, Reported
<1>12. CASE Preflight(o)
      BY <1>1, <1>2, <1>12 DEF Preflight
<1>13. CASE EnsureImages(o)
      BY <1>1, <1>3, <1>13 DEF EnsureImages
<1>14. CASE Discover(o)
      BY <1>1, <1>4, <1>9, <1>14 DEF Discover
<1>15. CASE FallbackDone(o)
      BY <1>4, <1>15 DEF FallbackDone
<1>16. CASE Revalidate(o) \/ ReconcileUp(o) \/ InspectUp(o)
      BY <1>1, <1>5, <1>6, <1>7, <1>16
<1> QED BY <1>8, <1>10, <1>11, <1>12, <1>13, <1>14, <1>15, <1>16

\* A container changes: the child of an operation is at work, or its exact removal.
LEMMA ContainerMoves ==
    ASSUME EInv, NEW o \in EOps, NEW d \in EDeps, RemoveExact(o, d) \/ ComposeStep(o, d)
    PROVE  /\ EInv'
           /\ \A e \in EDeps : up[e] # "none" /\ up'[e] # up[e] =>
                 /\ child[o] # "none" \/ At(o, "fallback")
                 /\ op[o].ws = up[e] \/ ~op[o].alone \/ holder # o
<1>0. op[o] \in EnvRows /\ Exclusive(o, op[o]) /\ child[o] \in Children
      BY DEF EInv
<1>1. CASE RemoveExact(o, d) /\ Fails(o, "FAILED")
      BY <1>1, Failed DEF OperationStatuses
<1>2. CASE RemoveExact(o, d) /\ ~Fails(o, "FAILED")
  <2>1. PICK q \in EnvRows : q = [op[o] EXCEPT !.left = @ \ {d}]
        BY <1>0 DEF EnvRows
  <2>2. q.phase = op[o].phase /\ q.ws = op[o].ws /\ q.action = op[o].action /\ q.alone = op[o].alone
        BY <1>0, <2>1 DEF EnvRows
  <2>3. /\ op' = [op EXCEPT ![o] = q] /\ up' = [up EXCEPT ![d] = "none"] /\ up[d] = op[o].ws
        /\ UNCHANGED <<holder, child>> /\ op[o].phase = "fallback"
        BY <1>2, <1>0, <2>1 DEF RemoveExact, At, EInv, EnvRows
  <2>4. DOMAIN up' = EDeps /\ \A e \in EDeps : up'[e] = IF e = d THEN "none" ELSE up[e]
        BY <2>3 DEF EInv
  <2>5. holder = o
        BY <1>0, <2>3 DEF Exclusive
  <2>6. Exclusive(o, q)'
        BY <1>0, <2>2, <2>3, <2>4, <2>5 DEF Exclusive, Owned
  <2>7. op'[o] = q /\ op' \in [EOps -> EnvRows] /\ \A p \in EOps \ {o} : op'[p] = op[p]
        BY <2>3 DEF EInv
  <2>8. ASSUME NEW p \in EOps \ {o} PROVE Exclusive(p, op[p])'
        BY <2>3, <2>5, <2>7 DEF EInv, Exclusive
  <2>9. EInv'
        BY <2>3, <2>4, <2>6, <2>7, <2>8 DEF EInv
  <2> QED BY <2>3, <2>4, <2>9 DEF At
<1>3. CASE ComposeStep(o, d)
  <2>1. /\ up' = [up EXCEPT ![d] = Wanted(o)] /\ UNCHANGED <<holder, op, child>> /\ child[o] # "none"
        BY <1>3 DEF ComposeStep
  <2>2. DOMAIN up' = EDeps /\ \A e \in EDeps : up'[e] = IF e = d THEN Wanted(o) ELSE up[e]
        BY <2>1 DEF EInv
  <2>3. Wanted(o) \in {"none", op[o].ws} /\ (holder = o => op[o].phase = "wait")
        BY <1>0, <2>1 DEF Wanted, Exclusive
  <2>4. ASSUME NEW p \in EOps PROVE Exclusive(p, op[p])'
    <3>1. Exclusive(p, op[p]) /\ op'[p] = op[p]
          BY <2>1 DEF EInv
    <3>2. CASE p = o
          BY <2>1, <2>2, <2>3, <3>1, <3>2 DEF Exclusive, Owned
    <3>3. CASE p # o
          BY <2>1, <3>1, <3>3 DEF Exclusive
    <3> QED BY <3>2, <3>3
  <2>5. EInv'
        BY <2>1, <2>2, <2>4 DEF EInv
  <2>6. ASSUME NEW e \in EDeps, up[e] # "none", op[o].alone, holder = o PROVE op[o].ws = up[e]
        BY <1>0, <2>3, <2>6 DEF Exclusive, Owned
  <2> QED BY <2>1, <2>5, <2>6
<1> QED BY <1>1, <1>2, <1>3

LEMMA ChildEnds ==
    ASSUME EInv, NEW o \in EOps, ComposeEnds(o) \/ ComposeFails(o) PROVE EInv' /\ up' = up
<1>0. op[o] \in EnvRows /\ Exclusive(o, op[o]) /\ child[o] \in Children /\ "none" \in Children /\ "FAILED" \in OperationStatuses
      BY DEF EInv, Children, OperationStatuses
<1>1. child' = [child EXCEPT ![o] = "none"] /\ up' = up /\ child[o] # "none"
      BY DEF ComposeEnds, ComposeFails
<1>2. CASE ~At(o, "wait")
  <2>1. UNCHANGED <<holder, op>> /\ op' = [op EXCEPT ![o] = op[o]]
        BY <1>2 DEF ComposeEnds, ComposeFails, EInv
  <2>2. op[o].phase = "final"
        BY <1>0, <1>1, <1>2 DEF Exclusive, At
  <2> QED BY <1>0, <1>1, <2>1, <2>2, PhaseMoves
<1>3. CASE At(o, "wait") /\ ComposeFails(o)
  <2>1. Reports(o, "FAILED")
        BY <1>3 DEF ComposeFails
  <2> QED BY <1>0, <1>1, <2>1, Reported
<1>4. CASE At(o, "wait") /\ ComposeEnds(o)
  <2> DEFINE phase == IF child[o] = "up" THEN "inspect" ELSE "verify"
  <2>1. PICK q \in EnvRows : q = [op[o] EXCEPT !.phase = phase]
        BY <1>0 DEF EnvRows, EnvPhases
  <2>2. q.phase = phase /\ q.ws = op[o].ws /\ q.action = op[o].action /\ q.alone = op[o].alone
        BY <1>0, <2>1 DEF EnvRows
  <2>3. op' = [op EXCEPT ![o] = q] /\ UNCHANGED holder
        BY <1>4, <1>0, <2>1 DEF ComposeEnds, EInv, EnvRows
  <2>4. /\ op[o].phase = "wait" /\ (phase = "inspect" => op[o].action = "dev")
        /\ (phase = "verify" => op[o].action = "dev-down") /\ phase \in {"inspect", "verify"}
        /\ (phase = "inspect" => \A d \in EDeps : up[d] = op[o].ws)
        BY <1>0, <1>4 DEF At, Exclusive, ComposeEnds, Wanted, EnvRows
  <2> HIDE DEF phase
  <2> QED BY <1>0, <1>1, <2>2, <2>3, <2>4, PhaseMoves
<1> QED BY <1>2, <1>3, <1>4

\* What is reported as done is done.
LEMMA ReportsTrue ==
    ASSUME EInv, NEW o \in EOps, Aggregate(o) \/ VerifyDown(o)
    PROVE  /\ EInv' /\ up' = up
           /\ \A p \in EOps : HadToItself(p) =>
                 IF op[p].action = "dev" THEN \A d \in EDeps : up[d] = op[p].ws
                 ELSE \A d \in EDeps : up[d] = "none"
<1>0. op[o] \in EnvRows /\ Exclusive(o, op[o]) /\ {"SUCCEEDED", "FAILED"} \subseteq OperationStatuses
      BY DEF EInv, OperationStatuses
<1>1. PICK status \in {"SUCCEEDED", "FAILED"} : Fails(o, status)
      BY DEF Aggregate, VerifyDown
<1>2. ASSUME NEW p \in EOps, HadToItself(p) PROVE p = o
      BY <1>1, <1>2 DEF HadToItself, Fails, Reports, EInv
<1>3. CASE Aggregate(o)
  <2>1. op[o].alone => op[o].action = "dev" /\ \A d \in EDeps : up[d] = op[o].ws
        BY <1>0, <1>3 DEF Aggregate, At, Exclusive
  <2> QED BY <1>0, <1>1, <1>2, <2>1, Failed DEF HadToItself
<1>4. CASE VerifyDown(o)
  <2>1. op[o].action = "dev-down" /\ op[o].phase # "final"
        BY <1>0, <1>4 DEF VerifyDown, At, Exclusive
  <2>2. Fails(o, "FAILED") => ~HadToItself(o)
        BY <1>0 DEF HadToItself, Fails, Reports, EInv, EnvRows
  <2>3. HadToItself(o) => \A d \in EDeps : up[d] = "none"
        BY <1>4, <2>2 DEF VerifyDown
  <2> QED BY <1>0, <1>1, <1>2, <2>1, <2>3, Failed
<1> QED BY <1>3, <1>4

\* No other action reports success.
LEMMA NotReported ==
    ASSUME EInv, NEW o \in EOps,
           \/ \E a \in {"dev", "dev-down"}, w \in EWorkspaces : BeginOperation(o, a, w)
           \/ ConfigRefused(o) \/ Preflight(o) \/ AcquireLock(o) \/ LockUnsafe(o)
           \/ Revalidate(o) \/ EnsureImages(o) \/ ReconcileUp(o) \/ InspectUp(o)
           \/ \E d \in EDeps, responds \in BOOLEAN : ProbeDependency(o, d, responds)
           \/ Discover(o) \/ FallbackList(o) \/ FallbackDone(o)
           \/ \E d \in EDeps : RemoveExact(o, d) \/ ComposeStep(o, d)
           \/ ComposeEnds(o) \/ ComposeFails(o) \/ Interrupt(o)
    PROVE  \A p \in EOps : ~HadToItself(p)
<1> SUFFICES ASSUME NEW p \in EOps PROVE op'[p].status = op[p].status \/ op'[p].status # "SUCCEEDED"
      BY DEF HadToItself
<1>0. op \in [EOps -> EnvRows]
      BY DEF EInv
<1>1. ASSUME NEW phase, Goes(o, phase) PROVE op'[p].status = op[p].status
      BY <1>0, <1>1 DEF Goes, EnvRows
<1>2. ASSUME NEW status \in {"FAILED", "REJECTED", "INTERRUPTED"}, Reports(o, status)
      PROVE  op'[p].status = op[p].status \/ op'[p].status # "SUCCEEDED"
      BY <1>0, <1>2 DEF Reports, EnvRows
<1>3. ASSUME NEW a \in {"dev", "dev-down"}, NEW w \in EWorkspaces, BeginOperation(o, a, w)
      PROVE  op'[p].status = op[p].status \/ op'[p].status # "SUCCEEDED"
      BY <1>0, <1>3 DEF BeginOperation, EnvRows, NoOperation
<1>4. CASE ConfigRefused(o) \/ Preflight(o) \/ LockUnsafe(o) \/ Interrupt(o) \/ EnsureImages(o)
      BY <1>1, <1>2, <1>4 DEF ConfigRefused, Preflight, LockUnsafe, Interrupt, Fails, EnsureImages
<1>5. CASE AcquireLock(o)
      BY <1>0, <1>2, <1>5 DEF AcquireLock, Fails, EnvRows
<1>6. CASE Revalidate(o) \/ ReconcileUp(o) \/ InspectUp(o)
      BY <1>0, <1>2, <1>6 DEF Revalidate, ReconcileUp, InspectUp, Fails, EnvRows
<1>7. CASE \E d \in EDeps, responds \in BOOLEAN : ProbeDependency(o, d, responds)
  <2>1. PICK d \in EDeps, responds \in BOOLEAN : ProbeDependency(o, d, responds)
        BY <1>7
  <2>2. PICK ready : ready = IF responds THEN op[o].ready \cup {d} ELSE op[o].ready
        OBVIOUS
  <2>3. op' = [op EXCEPT ![o].left = op[o].left \ {d}, ![o].ready = ready]
        BY <2>1, <2>2 DEF ProbeDependency
  <2> QED BY <1>0, <2>3 DEF EnvRows
<1>8. CASE Discover(o) \/ FallbackList(o) \/ FallbackDone(o)
      BY <1>0, <1>1, <1>2, <1>8 DEF Discover, FallbackList, FallbackDone, Fails, EnvRows
<1>9. CASE \E d \in EDeps : RemoveExact(o, d) \/ ComposeStep(o, d)
      BY <1>0, <1>2, <1>9 DEF RemoveExact, ComposeStep, Fails, EnvRows
<1>10. CASE ComposeEnds(o) \/ ComposeFails(o)
      BY <1>0, <1>2, <1>10 DEF ComposeEnds, ComposeFails, EnvRows
<1> QED BY <1>3, <1>4, <1>5, <1>6, <1>7, <1>8, <1>9, <1>10

LEMMA EnvStep ==
    ASSUME EInv, EnvNext
    PROVE  /\ EInv'
           /\ \A d \in EDeps : up[d] # "none" /\ up'[d] # up[d] =>
                 \E o \in EOps :
                    /\ child[o] # "none" \/ At(o, "fallback")
                    /\ op[o].ws = up[d] \/ ~op[o].alone \/ holder # o
           /\ \A o \in EOps : HadToItself(o) =>
                 IF op[o].action = "dev" THEN \A d \in EDeps : up[d] = op[o].ws
                 ELSE \A d \in EDeps : up[d] = "none"
<1>1. PICK o \in EOps :
       \/ \E a \in {"dev", "dev-down"}, w \in EWorkspaces : BeginOperation(o, a, w)
       \/ ConfigRefused(o) \/ Preflight(o) \/ AcquireLock(o) \/ LockUnsafe(o)
       \/ Revalidate(o) \/ EnsureImages(o) \/ ReconcileUp(o) \/ InspectUp(o)
       \/ \E d \in EDeps, responds \in BOOLEAN : ProbeDependency(o, d, responds)
       \/ Aggregate(o)
       \/ Discover(o) \/ FallbackList(o) \/ FallbackDone(o) \/ VerifyDown(o)
       \/ \E d \in EDeps : RemoveExact(o, d) \/ ComposeStep(o, d)
       \/ ComposeEnds(o) \/ ComposeFails(o) \/ Interrupt(o)
      BY DEF EnvNext
<1>2. CASE \E a \in {"dev", "dev-down"}, w \in EWorkspaces : BeginOperation(o, a, w)
  <2>1. up' = up
        BY <1>2 DEF BeginOperation
  <2> QED BY <1>2, <2>1, EnvBegins, NotReported
<1>3. CASE ConfigRefused(o) \/ LockUnsafe(o) \/ Interrupt(o)
  <2>1. \E status \in OperationStatuses : Fails(o, status)
        BY <1>3 DEF ConfigRefused, LockUnsafe, Interrupt, OperationStatuses
  <2>2. EInv' /\ up' = up
        BY <2>1, Failed
  <2> QED BY <1>3, <2>2, NotReported
<1>4. CASE AcquireLock(o)
  <2>1. EInv' /\ up' = up
        BY <1>4, EnvAcquires
  <2> QED BY <1>4, <2>1, NotReported
<1>5. CASE \/ Preflight(o) \/ Revalidate(o) \/ EnsureImages(o) \/ ReconcileUp(o) \/ InspectUp(o)
           \/ \E d \in EDeps, responds \in BOOLEAN : ProbeDependency(o, d, responds)
           \/ Discover(o) \/ FallbackList(o) \/ FallbackDone(o)
  <2>1. EInv' /\ up' = up
        BY <1>5, Quiet
  <2>2. \A p \in EOps : ~HadToItself(p)
        BY <1>5, NotReported
  <2> QED BY <2>1, <2>2
<1>6. CASE \E d \in EDeps : RemoveExact(o, d) \/ ComposeStep(o, d)
  <2>1. \A p \in EOps : ~HadToItself(p)
        BY <1>6, NotReported
  <2> QED BY <1>6, <2>1, ContainerMoves
<1>7. CASE ComposeEnds(o) \/ ComposeFails(o)
  <2>1. EInv' /\ up' = up
        BY <1>7, ChildEnds
  <2> QED BY <1>7, <2>1, NotReported
<1>8. CASE Aggregate(o) \/ VerifyDown(o)
      BY <1>8, ReportsTrue
<1> QED BY <1>1, <1>2, <1>3, <1>4, <1>5, <1>6, <1>7, <1>8

LEMMA EnvInitial == EnvInit => EInv
<1> SUFFICES ASSUME EnvInit PROVE EInv
    OBVIOUS
<1>1. NoOperation \in EnvRows /\ NoOperation.phase = "final"
      BY EnvAssumption DEF NoOperation, EnvRows, EnvPhases, OperationStatuses
<1> HIDE DEF NoOperation
<1> QED BY <1>1, EnvAssumption DEF EnvInit, EInv, Exclusive, Children

LEMMA EnvMoves == EInv /\ [EnvNext]_envVars => EInv'
<1> SUFFICES ASSUME EInv, [EnvNext]_envVars PROVE EInv'
    OBVIOUS
<1>1. CASE EnvNext
      BY <1>1, EnvStep
<1>2. CASE UNCHANGED envVars
      BY <1>2 DEF envVars, EInv, Exclusive, Owned
<1> QED BY <1>1, <1>2

\* For any terminals, workspaces and dependencies: the holder of the lock that found no child at
\* work leaves the containers of others alone, and what it reports is so (identity.py:418,
\* compose.py:223).
THEOREM LockExcludes == EnvSpec => LockedLifecycle
<1>1. EInv /\ [EnvNext]_envVars =>
        [/\ \A d \in EDeps : up[d] # "none" /\ up'[d] # up[d] =>
              \E o \in EOps :
                 /\ child[o] # "none" \/ At(o, "fallback")
                 /\ op[o].ws = up[d] \/ ~op[o].alone \/ holder # o
         /\ \A o \in EOps : HadToItself(o) =>
              IF op[o].action = "dev" THEN \A d \in EDeps : up[d] = op[o].ws
              ELSE \A d \in EDeps : up[d] = "none"]_envVars
      BY EnvStep
<1> QED BY <1>1, EnvInitial, EnvMoves, PTL DEF EnvSpec, LockedLifecycle

----------------------------------------------------------------------------
(* Rates.  Published and superseded versions are immutable and were valid  *)
(* when they were published.                                               *)

\* The row of a version that there is.
LEMMA RateRow ==
    ASSUME RateTypeOK, NEW v \in RVersions, version[v] # NoRates
    PROVE  /\ version[v] \in RateRows
           /\ version[v].status \in RateStatuses /\ version[v].terms \in Terms
           /\ version[v].terms.buyer \in Nat /\ version[v].terms.lo \in Nat
           /\ version[v].terms.hi \in Nat
  <1>1. version[v] \in RateRows
    BY DEF RateTypeOK
  <1>2. version[v].status \in RateStatuses /\ version[v].terms \in Terms
    BY <1>1 DEF RateRows
  <1>3. QED
    BY <1>1, <1>2, RateConstants

\* A version that has a status is there.
LEMMA RateThere ==
    ASSUME NEW v \in RVersions, version[v].status # "none"
    PROVE  version[v] # NoRates
  BY DEF NoRates

\* What changing the status makes of a row.
LEMMA RateUpdate ==
    ASSUME NEW row \in RateRows, NEW st \in RateStatuses
    PROVE  /\ [row EXCEPT !.status = st] \in RateRows
           /\ [row EXCEPT !.status = st].status = st
           /\ [row EXCEPT !.status = st].terms = row.terms
           /\ [row EXCEPT !.status = st].clash = row.clash
  BY DEF RateRows

\* What noting a conflict makes of it.
LEMMA RateClash ==
    ASSUME NEW row \in RateRows, NEW conflicts \in BOOLEAN
    PROVE  /\ [row EXCEPT !.clash = @ \/ conflicts] \in RateRows
           /\ [row EXCEPT !.clash = @ \/ conflicts].status = row.status
           /\ [row EXCEPT !.clash = @ \/ conflicts].terms = row.terms
  BY DEF RateRows

Fixed == {"published", "superseded"}

\* What a step makes of a version that there is, other than deleting it: its terms stay;
\* from when it is published on its rows stay too, and it is published only if valid.
RowStep(v) ==
    /\ version'[v] \in RateRows
    /\ version'[v].terms = version[v].terms
    /\ version[v].status \in Fixed =>
          version'[v].status \in Fixed /\ version'[v].clash = version[v].clash
    /\ version'[v].status \in Fixed => version[v].status \in Fixed \/ Valid(version'[v])

\* An unchanged row.
LEMMA RowStays ==
    ASSUME RateTypeOK, NEW v \in RVersions, version[v] # NoRates, version'[v] = version[v]
    PROVE  RowStep(v)
  BY RateRow DEF RowStep

\* What a published version's rows are does not depend on how it got there.
LEMMA PublishStep ==
    ASSUME RateTypeOK, RatesSound, NEW p \in RVersions, PublishVersion(p)
    PROVE  /\ \A v \in RVersions : version[v] = NoRates => version'[v] = NoRates
           /\ \A v \in RVersions : version[v] # NoRates => RowStep(v)
           /\ \A v \in RVersions : version'[v].status = "published" <=> v = p
  <1>1. version[p] # NoRates /\ Valid(version[p])
    BY DEF PublishVersion, Publishes, NoRates
  <1>2. version[p] \in RateRows
    BY <1>1, RateRow
  <1>3. version'[p] = [version[p] EXCEPT !.status = "published"]
    BY DEF PublishVersion
  <1>4. /\ version'[p].status = "published" /\ version'[p] \in RateRows
        /\ version'[p].terms = version[p].terms /\ version'[p].clash = version[p].clash
    <2>1. "published" \in RateStatuses
      BY DEF RateStatuses
    <2>2. QED
      BY <1>2, <1>3, <2>1, RateUpdate
  <1>5. Valid(version'[p])
    BY <1>1, <1>4 DEF Valid
  <1>6. RowStep(p)
    BY <1>4, <1>5 DEF RowStep, Fixed
  <1>7. ASSUME NEW v \in RVersions, v # p, v = published
        PROVE  /\ version[v] # NoRates /\ RowStep(v)
               /\ version'[v].status = "superseded"
    <2>1. version[v].status = "published"
      BY <1>7 DEF RatesSound
    <2>2. version[v] # NoRates /\ version[v] \in RateRows
      BY <2>1, RateThere, RateRow
    <2>3. version'[v] = [version[v] EXCEPT !.status = "superseded"]
      BY <1>7 DEF PublishVersion
    <2>4. /\ version'[v].status = "superseded" /\ version'[v] \in RateRows
          /\ version'[v].terms = version[v].terms /\ version'[v].clash = version[v].clash
      <3>1. "superseded" \in RateStatuses
        BY DEF RateStatuses
      <3>2. QED
        BY <2>2, <2>3, <3>1, RateUpdate
    <2>5. QED
      BY <2>1, <2>2, <2>4 DEF RowStep, Fixed
  <1>8. ASSUME NEW v \in RVersions, v # p, v # published
        PROVE  version'[v] = version[v] /\ version[v].status # "published"
    BY <1>8 DEF PublishVersion, RatesSound
  <1>9. ASSUME NEW v \in RVersions, version[v] = NoRates
        PROVE  version'[v] = NoRates
    BY <1>1, <1>7, <1>8, <1>9
  <1>10. ASSUME NEW v \in RVersions, version[v] # NoRates
         PROVE  RowStep(v)
    BY <1>6, <1>7, <1>8, <1>10, RowStays
  <1>11. ASSUME NEW v \in RVersions
         PROVE  version'[v].status = "published" <=> v = p
    BY <1>4, <1>7, <1>8
  <1>12. QED
    BY <1>9, <1>10, <1>11

\* Setting one row that is not fixed, to one that is not either.
LEMMA RowWritten ==
    ASSUME RateTypeOK, NEW v \in RVersions, NEW row \in RateRows, row.status \notin Fixed,
           version[v].status \notin Fixed,
           version[v] # NoRates => row.terms = version[v].terms,
           version' = [version EXCEPT ![v] = row]
    PROVE  /\ \A w \in RVersions : w # v => version'[w] = version[w]
           /\ version'[v] = row
           /\ version[v] # NoRates => RowStep(v)
  <1>1. version'[v] = row /\ \A w \in RVersions : w # v => version'[w] = version[w]
    BY DEF RateTypeOK
  <1>2. QED
    BY <1>1 DEF RowStep

FixedValid == \A v \in RVersions : version[v].status \in Fixed => Valid(version[v])

RateInv == RateTypeOK /\ RatesSound /\ FixedValid

\* Quotes and locks alone: a version that keeps its terms keeps what was said of it.
LEMMA VersionsStep ==
    ASSUME RateInv, UNCHANGED <<quotes, locks>>,
           published' \in RVersions \cup {"none"},
           \A v \in RVersions : version'[v].status = "published" <=> v = published',
           \A v \in RVersions : version[v] # NoRates => RowStep(v),
           version' \in [RVersions -> RateRows \cup {NoRates}],
           \A v \in RVersions : version[v] = NoRates => version'[v].status \notin Fixed
    PROVE  RateInv'
  <1>1. ASSUME NEW v \in RVersions, version'[v].status \in Fixed
        PROVE  Valid(version'[v])
    <2>1. version[v] # NoRates
      BY <1>1
    <2>2. RowStep(v)
      BY <2>1
    <2>3. CASE version[v].status \in Fixed
      BY <2>2, <2>3 DEF RowStep, RateInv, FixedValid, Valid
    <2>4. QED
      BY <1>1, <2>2, <2>3 DEF RowStep
  <1>2. FixedValid'
    BY <1>1 DEF FixedValid, Valid
  <1>4. RateTypeOK'
    BY DEF RateInv, RateTypeOK
  <1>5. RatesSound'
    BY <1>1 DEF RatesSound, RateInv, Fixed, Valid
  <1>6. QED
    BY <1>2, <1>4, <1>5 DEF RateInv

\* Every call keeps the invariant.
LEMMA RateStep == ASSUME RateInv, [RateNext]_rateVars PROVE RateInv'
  <1> USE DEF RateInv
  <1>1. CASE UNCHANGED rateVars
    BY <1>1 DEF rateVars, RateTypeOK, RatesSound, FixedValid, Valid
  <1>2. ASSUME NEW v \in RVersions, NEW row \in RateRows, row.status \notin Fixed,
               version[v].status \notin Fixed,
               version[v] # NoRates => row.terms = version[v].terms,
               version' = [version EXCEPT ![v] = row],
               UNCHANGED <<quotes, published, locks>>
        PROVE  RateInv'
    <2>1. /\ \A w \in RVersions : w # v => version'[w] = version[w]
          /\ version'[v] = row
          /\ version[v] # NoRates => RowStep(v)
      BY <1>2, RowWritten
    <2>2. \A w \in RVersions : version[w] # NoRates => RowStep(w)
      BY <2>1, RowStays
    <2>3. version' \in [RVersions -> RateRows \cup {NoRates}]
      BY <1>2 DEF RateTypeOK
    <2>4. \A w \in RVersions : version'[w].status = "published" <=> w = published'
      BY <1>2, <2>1 DEF RatesSound, Fixed
    <2>5. \A w \in RVersions : version[w] = NoRates => version'[w].status \notin Fixed
      BY <1>2, <2>1 DEF NoRates, Fixed
    <2>6. published' \in RVersions \cup {"none"} /\ UNCHANGED <<quotes, locks>>
      BY <1>2 DEF RateTypeOK
    <2>7. QED
      BY <2>2, <2>3, <2>4, <2>5, <2>6, VersionsStep
  <1>3. ASSUME NEW v \in RVersions, NEW t \in Terms, NEW clash \in BOOLEAN,
               CreateVersion(v, t, clash)
        PROVE  RateInv'
    <2> DEFINE row == [status |-> "draft", terms |-> t, clash |-> clash]
    <2>1. row \in RateRows /\ row.status \notin Fixed /\ version[v].status \notin Fixed
      BY <1>3 DEF RateRows, RateStatuses, Fixed, CreateVersion, NoRates
    <2> HIDE DEF row
    <2>2. QED
      BY <1>2, <1>3, <2>1 DEF CreateVersion, row
  <1>4. ASSUME NEW v \in RVersions, NEW conflicts \in BOOLEAN, AddRow(v, conflicts)
        PROVE  RateInv'
    <2> DEFINE row == [version[v] EXCEPT !.clash = @ \/ conflicts]
    <2>1. version[v] # NoRates /\ version[v].status \notin Fixed
      BY <1>4 DEF AddRow, Mutable, Fixed, NoRates
    <2>2. version[v] \in RateRows
      BY <2>1, RateRow
    <2>3. row \in RateRows /\ row.status = version[v].status /\ row.terms = version[v].terms
      BY <2>2, RateClash
    <2>4. version' = [version EXCEPT ![v] = row]
      BY <1>4 DEF AddRow
    <2> HIDE DEF row
    <2>5. QED
      BY <1>2, <1>4, <2>1, <2>3, <2>4 DEF AddRow
  <1>5. ASSUME NEW v \in RVersions, PreviewVersion(v) \/ ApproveVersion(v)
        PROVE  RateInv'
    <2>1. PICK st \in {"previewed", "approved"} :
              version' = [version EXCEPT ![v].status = st]
      BY <1>5 DEF PreviewVersion, ApproveVersion, Becomes
    <2> DEFINE row == [version[v] EXCEPT !.status = st]
    <2>2. version[v] # NoRates /\ version[v].status \notin Fixed
      BY <1>5 DEF PreviewVersion, ApproveVersion, Mutable, Fixed, NoRates
    <2>3. version[v] \in RateRows
      BY <2>2, RateRow
    <2>4. row \in RateRows /\ row.status = st /\ row.terms = version[v].terms
      <3>1. st \in RateStatuses
        BY DEF RateStatuses
      <3>2. QED
        BY <2>3, <3>1, RateUpdate
    <2>5. version' = [version EXCEPT ![v] = row]
      BY <2>1
    <2> HIDE DEF row
    <2>6. QED
      BY <1>2, <1>5, <2>2, <2>4, <2>5 DEF PreviewVersion, ApproveVersion, Fixed
  <1>6. ASSUME NEW v \in RVersions, PublishVersion(v)
        PROVE  RateInv'
    <2>1. /\ \A w \in RVersions : version[w] = NoRates => version'[w] = NoRates
          /\ \A w \in RVersions : version[w] # NoRates => RowStep(w)
          /\ \A w \in RVersions : version'[w].status = "published" <=> w = v
      BY <1>6, PublishStep
    <2>2. version' \in [RVersions -> RateRows \cup {NoRates}]
      <3>1. \A w \in RVersions : version'[w] \in RateRows \cup {NoRates}
        BY <2>1 DEF RowStep
      <3>2. version' = [w \in RVersions |-> version'[w]]
        BY <1>6 DEF PublishVersion
      <3>3. QED
        BY <3>1, <3>2
    <2>3. published' = v /\ UNCHANGED <<quotes, locks>>
      BY <1>6 DEF PublishVersion
    <2>4. \A w \in RVersions : version[w] = NoRates => version'[w].status \notin Fixed
      BY <2>1 DEF NoRates, Fixed
    <2>5. QED
      BY <2>1, <2>2, <2>3, <2>4, VersionsStep
  <1>7. ASSUME NEW v \in RVersions, DeleteVersion(v)
        PROVE  RateInv'
    <2>1. /\ version' = [version EXCEPT ![v] = NoRates]
          /\ UNCHANGED <<quotes, published, locks>>
          /\ version[v].status \notin Fixed
      BY <1>7 DEF DeleteVersion, Mutable, Fixed
    <2>2. version'[v] = NoRates /\ \A w \in RVersions : w # v => version'[w] = version[w]
      BY <2>1 DEF RateTypeOK
    <2>3. version'[v].status \notin Fixed
      BY <2>2 DEF NoRates, Fixed
    <2>4. RateTypeOK'
      BY <2>1 DEF RateTypeOK
    <2>5. FixedValid'
      BY <2>2, <2>3 DEF FixedValid, Valid
    <2>7. RatesSound'
      BY <2>1, <2>2, <2>3 DEF RatesSound, Valid, Fixed
    <2>8. QED
      BY <2>4, <2>5, <2>7
  <1>8. ASSUME NEW v \in RVersions, NEW s \in RSellers, NEW m \in Multipliers, SetQuote(s, v, m)
        PROVE  RateInv'
    <2>1. RateTypeOK'
      BY <1>8 DEF SetQuote, RateTypeOK
    <2>2. FixedValid' /\ RatesSound'
      BY <1>8 DEF SetQuote, FixedValid, RatesSound, Valid
    <2>3. QED
      BY <2>1, <2>2
  <1>9. ASSUME NEW r \in RRequests, NEW s \in RSellers, LockPrice(r, s)
        PROVE  RateInv'
    <2> DEFINE lock == [version |-> published, buyer |-> version[published].terms.buyer,
                        seller |-> quotes[<<s, published>>]]
    <2>1. /\ locks' = [locks EXCEPT ![r] = lock]
          /\ UNCHANGED <<version, quotes, published>>
          /\ published # "none" /\ quotes[<<s, published>>] # NoQuote
      BY <1>9 DEF LockPrice
    <2>2. published \in RVersions /\ version[published].status = "published"
      BY <2>1 DEF RateTypeOK, RatesSound
    <2>3. version[published] # NoRates /\ Valid(version[published])
      BY <2>2, RateThere DEF RatesSound
    <2>4. /\ version[published].terms.buyer \in Nat /\ version[published].terms.hi \in Nat
          /\ quotes[<<s, published>>] \in Multipliers /\ Multipliers \subseteq Nat
      BY <2>1, <2>2, <2>3, RateRow, RateConstants DEF RateTypeOK
    <2>5. lock \in [version : RVersions, buyer : Nat, seller : Multipliers]
      BY <2>2, <2>4
    <2> HIDE DEF lock
    <2>9. RateTypeOK'
      BY <2>1, <2>5 DEF RateTypeOK
    <2>10. FixedValid' /\ RatesSound'
      BY <2>1 DEF FixedValid, RatesSound, Valid
    <2>12. QED
      BY <2>9, <2>10
  <1>10. QED
    BY <1>1, <1>3, <1>4, <1>5, <1>6, <1>7, <1>8, <1>9 DEF RateNext

LEMMA RatesInitially == RateInit => RateInv
BY RateConstants
   DEF RateInit, RateInv, RateTypeOK, RatesSound, FixedValid, NoRates, Fixed

\* For any versions, terms, sellers and requests: a version is published if and only if it is
\* the one that is named, and then its rows do not conflict and its bounds leave a spread,
\* whatever was added after its approval and whichever version is rolled back to.
THEOREM RatesAreSound == RateSpec => [](RateTypeOK /\ RatesSound)
<1>1. RateInv /\ [RateNext]_rateVars => RateInv'
      BY RateStep
<1>2. RateInv => RateTypeOK /\ RatesSound
      BY DEF RateInv
<1> QED BY <1>1, <1>2, RatesInitially, PTL DEF RateSpec

----------------------------------------------------------------------------
(* Types.  The invariant of each part together with what its proof above   *)
(* keeps of it, and the run of all parts, of which one moves.              *)

\* The keys of the pool.
PoolInv == PoolTypeOK /\ Wiped

LEMMA PoolTypedInitially == PoolInit => PoolInv
<1> SUFFICES ASSUME PoolInit PROVE PoolInv OBVIOUS
<1>1. Wiped
      BY DEF PoolInit, Wiped, KeyStates, Healths, NoPatch
<1>2. leaseOf \in [SReqs -> SKeys \cup {NoSKey}] /\ inflight \in [SKeys -> Nat]
      BY DEF PoolInit
<1>3. probing \in [left : SUBSET SKeys, seen : [SKeys -> Healths \cup {"absent"}]]
      BY DEF PoolInit
<1>4. probeFails \in [SKeys -> 0 .. FailsToDown] /\ poolBoots \in 0 .. PoolRestarts
      BY PoolAssumption DEF PoolInit
<1> QED BY <1>1, <1>2, <1>3, <1>4 DEF PoolInit, PoolInv, PoolTypeOK, Wiped

\* What the probe leaves of its tick.
LEMMA ProbedTyped ==
    ASSUME PoolTypeOK, NEW k \in SKeys
    PROVE  Probed(k) \in [left : SUBSET SKeys, seen : [SKeys -> Healths \cup {"absent"}]]
<1>1. probing \in [left : SUBSET SKeys, seen : [SKeys -> Healths \cup {"absent"}]]
      BY DEF PoolTypeOK
<1>2. [probing.seen EXCEPT ![k] = "absent"] \in [SKeys -> Healths \cup {"absent"}] /\ probing.left \ {k} \in SUBSET SKeys
      BY <1>1
<1>3. Probed(k) = [probing EXCEPT !.left = @ \ {k}, !.seen = [probing.seen EXCEPT ![k] = "absent"]]
      BY <1>1 DEF Probed
<1> QED BY <1>1, <1>2, <1>3

\* The counter of failures stays within its bound, and the health is one that is stored.
LEMMA ProbeKeyTyped ==
    ASSUME PoolTypeOK, NEW k \in SKeys, ProbeKey(k)
    PROVE  /\ poolKeys' \in [SKeys -> Healths \cup {"absent"}]
           /\ probing' \in [left : SUBSET SKeys, seen : [SKeys -> Healths \cup {"absent"}]]
           /\ probeFails' \in [SKeys -> 0 .. FailsToDown]
           /\ muted' \subseteq SKeys
<1>1. PICK cat \in AnswersFor(k) :
        \E fails \in {0, probeFails[k], probeFails[k] + 1, FailsToDown} :
           /\ fails = IF cat = "success" THEN 0
                      ELSE IF cat = "temporary" THEN IF probeFails[k] = FailsToDown THEN FailsToDown ELSE probeFails[k] + 1
                      ELSE probeFails[k]
           /\ probeFails' = [probeFails EXCEPT ![k] = fails]
           /\ muted' \in {muted, muted \cup {k}}
           /\ probing' = Probed(k)
           /\ poolKeys' \in {poolKeys, [poolKeys EXCEPT ![k] = HealthOf(cat)]}
      BY DEF ProbeKey
<1>2. HealthOf(cat) \in Healths
      BY PoolAssumption DEF AnswersFor, GoodAnswers, HealthOf, Healths
<1>3. probeFails[k] \in 0 .. FailsToDown
      BY DEF PoolTypeOK
<1>4. probeFails' \in [SKeys -> 0 .. FailsToDown]
  <2>1. PICK fails : /\ probeFails' = [probeFails EXCEPT ![k] = fails]
                     /\ fails = IF cat = "success" THEN 0
                           ELSE IF cat = "temporary" THEN IF probeFails[k] = FailsToDown THEN FailsToDown ELSE probeFails[k] + 1
                           ELSE probeFails[k]
        BY <1>1
  <2>2. /\ 0 \in 0 .. FailsToDown /\ FailsToDown \in 0 .. FailsToDown
        /\ probeFails[k] # FailsToDown => probeFails[k] + 1 \in 0 .. FailsToDown
        BY <1>3, PoolAssumption
  <2>3. fails \in 0 .. FailsToDown
    <3>1. CASE cat = "temporary" /\ probeFails[k] # FailsToDown
          BY <2>1, <2>2, <3>1
    <3>2. CASE ~(cat = "temporary" /\ probeFails[k] # FailsToDown)
          BY <2>1, <2>2, <1>3, <3>2
    <3> QED BY <3>1, <3>2
  <2> QED BY <2>1, <2>3 DEF PoolTypeOK
<1>5. probing' \in [left : SUBSET SKeys, seen : [SKeys -> Healths \cup {"absent"}]]
      BY <1>1, ProbedTyped
<1>6. poolKeys' \in [SKeys -> Healths \cup {"absent"}] /\ muted' \subseteq SKeys
      BY <1>1, <1>2 DEF PoolTypeOK
<1> QED BY <1>4, <1>5, <1>6

LEMMA PoolTypedStep == ASSUME PoolInv, [PoolNext]_poolVars PROVE PoolInv'
<1> USE DEF PoolInv
<1>0. Wiped'
      BY RowsStep
<1>1. keyRow' \in [SKeys -> [admin : KeyStates, health : Healths, cipher : BOOLEAN]] /\ patching' \in {NoPatch} \cup SKeys \X Healths
      BY <1>0 DEF Wiped
<1> DEFINE Seller == resuming' \in [SKeys -> {"no", "running", "stale"}] /\ good' \in [SKeys -> BOOLEAN]
           Leases == leaseOf' \in [SReqs -> SKeys \cup {NoSKey}] /\ inflight' \in [SKeys -> Nat]
           Pool == poolKeys' \in [SKeys -> Healths \cup {"absent"}] /\ listed' \in (SUBSET SKeys) \cup {NotListed} /\ cooling' \subseteq SKeys
           Probe == /\ probing' \in [left : SUBSET SKeys, seen : [SKeys -> Healths \cup {"absent"}]]
                    /\ probeFails' \in [SKeys -> 0 .. FailsToDown] /\ muted' \subseteq SKeys
           Boots == poolBoots' \in 0 .. PoolRestarts
<1>2. Seller /\ Leases /\ Pool /\ Probe /\ Boots => PoolInv'
      BY <1>0, <1>1 DEF PoolTypeOK
<1>3. ASSUME UNCHANGED sellerSide PROVE Seller
      BY <1>3 DEF sellerSide, PoolTypeOK
<1>4. ASSUME UNCHANGED <<leaseOf, inflight>> PROVE Leases
      BY <1>4 DEF PoolTypeOK
<1>5. ASSUME UNCHANGED <<poolKeys, listed, cooling>> PROVE Pool
      BY <1>5 DEF PoolTypeOK
<1>6. ASSUME UNCHANGED <<probing, probeFails, muted>> PROVE Probe
      BY <1>6 DEF PoolTypeOK
<1>7. ASSUME UNCHANGED poolBoots PROVE Boots
      BY <1>7 DEF PoolTypeOK
<1>8. ASSUME NEW k \in SKeys,
             OnboardKey(k) \/ PauseKey(k) \/ RevokeKey(k) \/ ResumeKey(k) \/ ResumeKeyDone(k) \/ Withdraw(k)
      PROVE  PoolInv'
  <2>0. resuming \in [SKeys -> {"no", "running", "stale"}] /\ good \in [SKeys -> BOOLEAN]
        BY DEF PoolTypeOK
  <2>1. Seller
    <3>1. MovedOn(k) \in [SKeys -> {"no", "running", "stale"}]
          BY <2>0 DEF MovedOn
    <3>2. CASE OnboardKey(k) \/ PauseKey(k) \/ RevokeKey(k)
          BY <2>0, <3>1, <3>2 DEF OnboardKey, PauseKey, RevokeKey
    <3>3. CASE ResumeKey(k) \/ ResumeKeyDone(k)
      <4>1. \E s \in {"no", "running"} : resuming' = [resuming EXCEPT ![k] = s]
            BY <3>3 DEF ResumeKey, ResumeKeyDone
      <4>2. good' = good
            BY <3>3 DEF ResumeKey, ResumeKeyDone
      <4> QED BY <2>0, <4>1, <4>2
    <3>4. CASE Withdraw(k)
      <4>1. good' = [good EXCEPT ![k] = FALSE] /\ resuming' = resuming
            BY <3>4 DEF Withdraw
      <4> QED BY <2>0, <4>1
    <3> QED BY <1>8, <3>2, <3>3, <3>4
  <2>2. UNCHANGED gatewaySide
        BY <1>8 DEF OnboardKey, PauseKey, RevokeKey, ResumeKey, ResumeKeyDone, Withdraw
  <2>3. Leases /\ Pool /\ Probe /\ Boots
        BY <2>2, <1>4, <1>5, <1>6, <1>7 DEF gatewaySide
  <2> QED BY <1>2, <2>1, <2>3
<1>9. CASE RefreshList
  <2>1. Pool
        BY <1>9 DEF RefreshList, PoolTypeOK
  <2>2. Seller /\ Leases /\ Probe /\ Boots
        BY <1>9, <1>3, <1>4, <1>6, <1>7 DEF RefreshList
  <2> QED BY <1>2, <2>1, <2>2
<1>10. CASE RefreshReplace
  <2>1. Pool
        BY <1>10 DEF RefreshReplace, PoolTypeOK, Healths
  <2>2. Seller /\ Leases /\ Probe /\ Boots
        BY <1>10, <1>3, <1>4, <1>6, <1>7 DEF RefreshReplace
  <2> QED BY <1>2, <2>1, <2>2
<1>11. ASSUME NEW r \in SReqs, NEW k \in SKeys, PickKey(r, k) PROVE PoolInv'
  <2>1. Leases
        BY <1>11 DEF PickKey, PoolTypeOK
  <2>2. Seller /\ Pool /\ Probe /\ Boots
        BY <1>11, <1>3, <1>5, <1>6, <1>7 DEF PickKey
  <2> QED BY <1>2, <2>1, <2>2
<1>12. ASSUME NEW r \in SReqs, ReleaseKey(r) PROVE PoolInv'
  <2>1. leaseOf[r] \in SKeys
        BY <1>12 DEF ReleaseKey, PoolTypeOK
  <2>2. Leases
        BY <1>12, <2>1 DEF ReleaseKey, PoolTypeOK
  <2>3. Pool
        BY <1>12, <2>1 DEF ReleaseKey, PoolTypeOK
  <2>4. Seller /\ Probe /\ Boots
        BY <1>12, <1>3, <1>6, <1>7 DEF ReleaseKey
  <2> QED BY <1>2, <2>2, <2>3, <2>4
<1>13. ASSUME NEW k \in SKeys, CooledDown(k) \/ Unmute(k) \/ ProbeSkip(k) PROVE PoolInv'
  <2>1. Pool
        BY <1>13 DEF CooledDown, Unmute, ProbeSkip, PoolTypeOK
  <2>2. Probe
    <3>1. CASE ProbeSkip(k)
      <4>1. probing' \in [left : SUBSET SKeys, seen : [SKeys -> Healths \cup {"absent"}]]
            BY <3>1, ProbedTyped DEF ProbeSkip
      <4> QED BY <3>1, <4>1 DEF ProbeSkip, PoolTypeOK
    <3>2. CASE CooledDown(k) \/ Unmute(k)
          BY <3>2 DEF CooledDown, Unmute, PoolTypeOK
    <3> QED BY <1>13, <3>1, <3>2
  <2>3. Seller /\ Leases /\ Boots
        BY <1>13, <1>3, <1>4, <1>7 DEF CooledDown, Unmute, ProbeSkip
  <2> QED BY <1>2, <2>1, <2>2, <2>3
<1>14. CASE ProbeTick
  <2>1. Probe
        BY <1>14 DEF ProbeTick, PoolTypeOK
  <2>2. Seller /\ Leases /\ Pool /\ Boots
        BY <1>14, <1>3, <1>4, <1>5, <1>7 DEF ProbeTick
  <2> QED BY <1>2, <2>1, <2>2
<1>15. ASSUME NEW k \in SKeys, ProbeKey(k) PROVE PoolInv'
  <2>1. Probe /\ poolKeys' \in [SKeys -> Healths \cup {"absent"}]
        BY <1>15, ProbeKeyTyped
  <2>2. UNCHANGED <<sellerSide, listed, inflight, leaseOf, cooling, poolBoots>>
        BY <1>15 DEF ProbeKey
  <2>3. Pool
        BY <2>1, <2>2 DEF PoolTypeOK
  <2>4. Seller /\ Leases /\ Boots
        BY <2>2, <1>3, <1>4, <1>7
  <2> QED BY <1>2, <2>1, <2>3, <2>4
<1>16. CASE PatchHealth \/ PatchLost
  <2>1. Seller /\ Leases /\ Pool /\ Probe /\ Boots
        BY <1>16, <1>3, <1>4, <1>5, <1>6, <1>7 DEF PatchHealth, PatchLost, sellerSide, PoolTypeOK
  <2> QED BY <1>2, <2>1
<1>17. CASE GatewayRestart
  <2>1. Leases /\ Pool
        BY <1>17 DEF GatewayRestart
  <2>2. Probe
        BY <1>17, PoolAssumption DEF GatewayRestart
  <2>4. Boots
        BY <1>17, PoolAssumption DEF GatewayRestart, PoolTypeOK
  <2>3. Seller
        BY <1>17, <1>3 DEF GatewayRestart
  <2> QED BY <1>2, <2>1, <2>2, <2>3, <2>4
<1>18. CASE UNCHANGED poolVars
  <2>1. Seller /\ Leases /\ Pool /\ Probe /\ Boots
        BY <1>18, <1>3, <1>4, <1>5, <1>6, <1>7 DEF poolVars, sellerSide
  <2> QED BY <1>2, <2>1
<1> QED BY <1>8, <1>9, <1>10, <1>11, <1>12, <1>13, <1>14, <1>15, <1>16, <1>17, <1>18 DEF PoolNext

\* The keys of a buyer and the caches of the gateway.
CachesTyped == posCache \subseteq Secrets /\ negCache \subseteq Secrets

LEMMA KeysTypedStep == ASSUME KeysTypeOK, [KeysNext]_keyVars PROVE KeysTypeOK'
<1> USE DEF KeysTypeOK
<1>1. ASSUME NEW k \in PKeys, NEW s \in Secrets, NEW i \in IdemKeys \cup {NoIdem}, IssueNew(i, k, s) PROVE KeysTypeOK'
  <2>1. /\ keyOf' = [keyOf EXCEPT ![k] = [status |-> "active", secret |-> s]] /\ spent' = spent \cup {s}
        BY <1>1 DEF IssueNew, Insert, Generate
  <2>2. CASE UNCHANGED <<idem, answered>>
        BY <2>1, <2>2
  <2>3. CASE i \in IdemKeys /\ idem' = [idem EXCEPT ![i] = k] /\ answered' \in {answered, answered \cup {<<i, k>>}}
        BY <2>1, <2>3
  <2> QED BY <1>1, <2>2, <2>3 DEF IssueNew
<1>2. ASSUME NEW k \in PKeys, NEW s \in Secrets, Rotate(k, s) PROVE KeysTypeOK'
      BY <1>2 DEF Rotate, Generate
<1>3. ASSUME NEW k \in PKeys, Disable(k) \/ Enable(k) \/ Revoke(k) PROVE KeysTypeOK'
      BY <1>3 DEF Disable, Enable, Revoke, SaveStatus
<1>4. ASSUME NEW i \in IdemKeys, IssueAgain(i) PROVE KeysTypeOK'
      BY <1>4, KeysAssumption DEF IssueAgain, NoKey
<1>5. CASE UNCHANGED keyVars
      BY <1>5 DEF keyVars
<1> QED BY <1>1, <1>2, <1>3, <1>4, <1>5 DEF KeysNext

LEMMA CachesTypedStep ==
    ASSUME AInv, KeysTypeOK, CachesTyped, [AuthNext]_authVars
    PROVE  KeysTypeOK' /\ CachesTyped'
<1> USE DEF CachesTyped
<1>1. ASSUME KeysStep PROVE KeysTypeOK' /\ CachesTyped'
  <2>1. \E k \in PKeys : \/ Disable(k) \/ Enable(k) \/ Revoke(k)
                         \/ \E s \in Secrets : IssueNew(NoIdem, k, s) \/ Rotate(k, s)
        BY <1>1 DEF KeysStep
  <2>2. KeysNext
        BY <2>1 DEF KeysNext
  <2> QED BY <1>1, <2>2, KeysTypedStep DEF KeysStep
<1>2. ASSUME UNCHANGED keyVars PROVE KeysTypeOK'
      BY <1>2, KeysTypedStep
<1>3. ASSUME NEW s \in Secrets, Expire(s) PROVE KeysTypeOK' /\ CachesTyped'
      BY <1>2, <1>3 DEF Expire
<1>4. ASSUME NEW r \in AReqs,
             (\E s \in Secrets : Authenticate(r, s)) \/ ReadRow(r) \/ Rechecked(r) \/ LookedUp(r) \/ NextRequest(r)
      PROVE  KeysTypeOK' /\ CachesTyped'
  <2>1. UNCHANGED keyVars
        BY <1>4 DEF Authenticate, ReadRow, Rechecked, LookedUp, NextRequest
  <2>2. CASE (\E s \in Secrets : Authenticate(r, s)) \/ ReadRow(r) \/ NextRequest(r)
        BY <1>2, <2>1, <2>2 DEF Authenticate, ReadRow, NextRequest
  <2>3. ASSUME areq[r].pc \in {"recheck", "lookup"} PROVE areq[r].secret \in Secrets
        BY <2>3 DEF AInv, ReqSound
  <2>4. CASE Rechecked(r)
        BY <1>2, <2>1, <2>3, <2>4 DEF Rechecked, RememberMiss
  <2>5. CASE LookedUp(r)
    <3>1. areq[r].secret \in Secrets /\ areq[r].read \in {"hit", "miss", "unavailable"}
          BY <2>3, <2>5 DEF LookedUp, AInv, AReqs0
    <3>2. \/ RememberHit(areq[r].secret) \/ RememberMiss(areq[r].secret) \/ UNCHANGED <<posCache, negCache>>
          BY <2>5, <3>1 DEF LookedUp
    <3> QED BY <1>2, <2>1, <3>1, <3>2 DEF RememberHit, RememberMiss
  <2> QED BY <1>4, <2>2, <2>4, <2>5
<1>5. CASE UNCHANGED authVars
      BY <1>2, <1>5 DEF authVars
<1> QED BY <1>1, <1>3, <1>4, <1>5 DEF AuthNext

LEMMA AuthTyped == AInv /\ KeysTypeOK /\ CachesTyped => AuthTypeOK
BY LookingUpFinite DEF AInv, CachesTyped, AuthTypeOK, AReqs0

----------------------------------------------------------------------------
\* The projects: a handler that will write has a record that is a row.
WorkRows == [at : {"idle", "insert", "key", "save"}, id : DProjects \cup {NoId},
             rec : ProjectRows \cup {NoProject}, key : DKeys \cup {"none"}]

Writing(q) == /\ q.at # "idle" => q.rec \in ProjectRows /\ q.id \in DProjects
              /\ q.at = "key" => q.key \in DKeys

ProjectsInv == ProjectsTypeOK /\ \A w \in DWorkers : Writing(work[w])

LEMMA NoWorkTyped == NoWork \in WorkRows /\ Writing(NoWork)
BY DEF NoWork, WorkRows, Writing

LEMMA ProjectsTypedInitially == ProjectsInit => ProjectsInv
BY NoWorkTyped, ProjectsAssumption DEF ProjectsInit, ProjectsInv, ProjectsTypeOK, WorkRows

\* The protocols of a row, of one that is not there as well.
LEMMA ProtocolsTyped ==
    ASSUME ProjectsTypeOK, NEW d \in DProjects
    PROVE  projects[d].protocols \in [DProtocols -> {"none", "on", "off"}]
BY DEF ProjectsTypeOK, ProjectRows, NoProject

\* A record that is merged into a row is a row, with every protocol row there was.
LEMMA MergedTyped ==
    ASSUME ProjectsTypeOK, NEW rec \in ProjectRows, NEW d \in DProjects
    PROVE  /\ Merged(rec, projects[d]) \in ProjectRows
           /\ \A p \in DProtocols : projects[d].protocols[p] # "none" =>
                 Merged(rec, projects[d]).protocols[p] # "none"
<1> DEFINE kept == [p \in DProtocols |-> IF rec.protocols[p] = "none"
                        THEN projects[d].protocols[p] ELSE rec.protocols[p]]
<1>1. projects[d].protocols \in [DProtocols -> {"none", "on", "off"}]
      BY ProtocolsTyped
<1>2. rec.protocols \in [DProtocols -> {"none", "on", "off"}]
      BY DEF ProjectRows
<1>3. /\ kept \in [DProtocols -> {"none", "on", "off"}]
      /\ \A p \in DProtocols : projects[d].protocols[p] # "none" => kept[p] # "none"
      BY <1>1, <1>2
<1>4. Merged(rec, projects[d]) = [rec EXCEPT !.protocols = kept]
      BY DEF Merged
<1> HIDE DEF kept
<1>5. [rec EXCEPT !.protocols = kept] \in ProjectRows /\ [rec EXCEPT !.protocols = kept].protocols = kept
      BY <1>3 DEF ProjectRows
<1> QED BY <1>3, <1>4, <1>5

LEMMA OneWorks ==
    ASSUME ProjectsInv, NEW w \in DWorkers, NEW q \in WorkRows, Writing(q), work' = [work EXCEPT ![w] = q]
    PROVE  work' \in [DWorkers -> WorkRows] /\ \A v \in DWorkers : Writing(work'[v])
BY DEF ProjectsInv, ProjectsTypeOK, WorkRows

LEMMA ChangeTyped ==
    ASSUME ProjectsInv, NEW w \in DWorkers, NEW d \in DProjects, NEW rec \in ProjectRows, Change(w, d, rec)
    PROVE  ProjectsInv'
<1>1. PICK q \in WorkRows : q = [NoWork EXCEPT !.at = "save", !.id = d, !.rec = rec]
      BY NoWorkTyped DEF WorkRows
<1>2. q.at = "save" /\ q.id = d /\ q.rec = rec
      BY <1>1 DEF NoWork
<1>3. work' \in [DWorkers -> WorkRows] /\ \A v \in DWorkers : Writing(work'[v])
      BY <1>1, <1>2, OneWorks DEF Change, Writing
<1>4. calls' \in 0 .. DCalls
      BY ProjectsAssumption DEF Change, Starts, ProjectsInv, ProjectsTypeOK
<1> QED BY <1>3, <1>4 DEF Change, ProjectsInv, ProjectsTypeOK, WorkRows

LEMMA ChangesTyped ==
    ASSUME ProjectsInv, NEW w \in DWorkers, NEW d \in DProjects,
           \/ \E name \in DNames : Rename(w, d, name)
           \/ \E to \in ProjectStatuses : TransitionProject(w, d, to)
           \/ \E p \in DProtocols : EnableProtocol(w, d, p) \/ DisableProtocol(w, d, p)
           \/ SetPreview(w, d) \/ DeleteProject(w, d)
    PROVE  ProjectsInv'
<1>1. PICK rec : Change(w, d, rec)
      BY DEF Rename, TransitionProject, EnableProtocol, DisableProtocol, SetPreview, DeleteProject
<1>2. projects[d] \in ProjectRows
      BY <1>1 DEF Change, Live, ProjectsInv, ProjectsTypeOK
<1>3. PICK row \in ProjectRows : row = projects[d]
      BY <1>2
<1>4. ASSUME NEW name \in DNames, Rename(w, d, name) PROVE ProjectsInv'
  <2>1. [row EXCEPT !.name = name] \in ProjectRows
        BY DEF ProjectRows
  <2> QED BY <1>3, <1>4, <2>1, ChangeTyped DEF Rename
<1>5. ASSUME NEW to \in ProjectStatuses, TransitionProject(w, d, to) PROVE ProjectsInv'
  <2>1. [row EXCEPT !.status = to] \in ProjectRows
        BY DEF ProjectRows
  <2> QED BY <1>3, <1>5, <2>1, ChangeTyped DEF TransitionProject
<1>6. ASSUME NEW p \in DProtocols, EnableProtocol(w, d, p) \/ DisableProtocol(w, d, p) PROVE ProjectsInv'
  <2>1. \A on \in {"on", "off"} : [row EXCEPT !.protocols[p] = on] \in ProjectRows
    <3>1. ASSUME NEW on \in {"on", "off"} PROVE [row EXCEPT !.protocols[p] = on] \in ProjectRows
      <4>1. [row.protocols EXCEPT ![p] = on] \in [DProtocols -> {"none", "on", "off"}]
            BY DEF ProjectRows
      <4> QED BY <4>1 DEF ProjectRows
    <3> QED BY <3>1
  <2>2. Change(w, d, [row EXCEPT !.protocols[p] = "on"]) \/ Change(w, d, [row EXCEPT !.protocols[p] = "off"])
        BY <1>3, <1>6 DEF EnableProtocol, DisableProtocol
  <2> QED BY <2>1, <2>2, ChangeTyped
<1>7. CASE SetPreview(w, d) \/ DeleteProject(w, d)
  <2>1. [row EXCEPT !.deleted = TRUE] \in ProjectRows
        BY DEF ProjectRows
  <2> QED BY <1>3, <1>7, <2>1, ChangeTyped DEF SetPreview, DeleteProject
<1> QED BY <1>4, <1>5, <1>6, <1>7

LEMMA CreateTyped ==
    ASSUME ProjectsInv, NEW w \in DWorkers, NEW d \in DProjects, NEW name \in DNames, NEW protocols \in SUBSET DProtocols,
           NEW key \in DKeys \cup {"none"}, BeginCreate(w, d, name, protocols, key)
    PROVE  ProjectsInv'
<1> DEFINE rec == [name |-> name, status |-> "draft", deleted |-> FALSE,
                   protocols |-> [p \in DProtocols |-> IF p \in protocols THEN "on" ELSE "none"]]
           q == [at |-> "insert", id |-> d, key |-> key, rec |-> rec]
<1>1. rec \in ProjectRows
      BY DEF ProjectRows, ProjectStatuses
<1>2. work' = [work EXCEPT ![w] = q] /\ UNCHANGED <<projects, idempotency>> /\ Starts(w)
      BY DEF BeginCreate
<1> HIDE DEF rec
<1>3. q \in WorkRows /\ Writing(q)
      BY <1>1 DEF WorkRows, Writing
<1>4. work' \in [DWorkers -> WorkRows] /\ \A v \in DWorkers : Writing(work'[v])
      BY <1>2, <1>3, OneWorks
<1>5. calls' \in 0 .. DCalls
      BY <1>2, ProjectsAssumption DEF Starts, ProjectsInv, ProjectsTypeOK
<1> QED BY <1>2, <1>4, <1>5 DEF ProjectsInv, ProjectsTypeOK, WorkRows

LEMMA WriteTyped ==
    ASSUME ProjectsInv, NEW w \in DWorkers, InsertProject(w) \/ PutKey(w) \/ SaveProject(w) \/ ProcessEnds(w)
    PROVE  ProjectsInv'
<1>0. work[w] \in WorkRows /\ Writing(work[w]) /\ calls' = calls
      BY DEF ProjectsInv, ProjectsTypeOK, WorkRows, InsertProject, PutKey, SaveProject, ProcessEnds
<1>1. PICK q \in WorkRows : Writing(q) /\ work' = [work EXCEPT ![w] = q]
  <2>1. CASE InsertProject(w) /\ work' = [work EXCEPT ![w] = [work[w] EXCEPT !.at = "key"]] /\ work[w].key # "none"
    <3>1. PICK q \in WorkRows : q = [work[w] EXCEPT !.at = "key"]
          BY <1>0 DEF WorkRows
    <3>2. q.rec = work[w].rec /\ q.id = work[w].id /\ q.key = work[w].key
          BY <1>0, <3>1 DEF WorkRows
    <3>3. q.key \in DKeys
          BY <2>1, <3>2 DEF WorkRows
    <3>4. Writing(q)
          BY <1>0, <2>1, <3>2, <3>3 DEF Writing, InsertProject
    <3> QED BY <2>1, <3>1, <3>4
  <2>2. CASE work' = [work EXCEPT ![w] = NoWork]
        BY <2>2, NoWorkTyped
  <2> QED BY <2>1, <2>2 DEF InsertProject, PutKey, SaveProject, ProcessEnds
<1>2. work' \in [DWorkers -> WorkRows] /\ \A v \in DWorkers : Writing(work'[v])
      BY <1>1, OneWorks
<1>3. projects' \in [DProjects -> ProjectRows \cup {NoProject}]
  <2>1. CASE InsertProject(w)
        BY <1>0, <2>1 DEF InsertProject, Writing, ProjectsInv, ProjectsTypeOK
  <2>2. CASE SaveProject(w)
    <3> DEFINE h == work[w]
               row == Merged(h.rec, projects[h.id])
    <3>1. h.rec \in ProjectRows /\ h.id \in DProjects
          BY <1>0, <2>2 DEF SaveProject, Writing
    <3>2. projects' \in {projects, [projects EXCEPT ![h.id] = row]}
          BY <2>2 DEF SaveProject
    <3>3. row \in ProjectRows
          BY <3>1, MergedTyped DEF ProjectsInv
    <3> QED BY <3>1, <3>2, <3>3 DEF ProjectsInv, ProjectsTypeOK
  <2>3. CASE PutKey(w) \/ ProcessEnds(w)
        BY <2>3 DEF PutKey, ProcessEnds, ProjectsInv, ProjectsTypeOK
  <2> QED BY <2>1, <2>2, <2>3
<1>4. idempotency' \in [DKeys -> [name : DNames \cup {NoName}, id : DProjects \cup {NoId}]]
  <2>1. CASE PutKey(w)
    <3>1. work[w].rec.name \in DNames /\ work[w].id \in DProjects
          BY <1>0, <2>1 DEF PutKey, Writing, ProjectRows
    <3> QED BY <2>1, <3>1 DEF PutKey, ProjectsInv, ProjectsTypeOK
  <2>2. CASE UNCHANGED idempotency
        BY <2>2 DEF ProjectsInv, ProjectsTypeOK
  <2> QED BY <2>1, <2>2 DEF InsertProject, SaveProject, ProcessEnds
<1> QED BY <1>0, <1>2, <1>3, <1>4 DEF ProjectsInv, ProjectsTypeOK, WorkRows

LEMMA ProjectsTypedStep == ASSUME ProjectsInv, [ProjectsNext]_projectVars PROVE ProjectsInv'
<1>1. CASE UNCHANGED projectVars
      BY <1>1 DEF projectVars, ProjectsInv, ProjectsTypeOK, Writing
<1> QED BY <1>1, ChangesTyped, CreateTyped, WriteTyped DEF ProjectsNext

\* A project that is about to be inserted is not there, and no other handler is about it; one
\* whose key is about to be stored is.
Fresh(w) == work[w].at = "insert" =>
    /\ projects[work[w].id] = NoProject
    /\ \A v \in DWorkers \ {w} : work[v].at # "idle" => work[v].id # work[w].id
Inserted(w) == work[w].at = "key" => projects[work[w].id] # NoProject

KeyedInv == KeyLeadsToProject /\ \A w \in DWorkers : Fresh(w) /\ Inserted(w)

\* What no step takes away.
Grown ==
    \A d \in DProjects : projects[d] # NoProject =>
        /\ projects'[d] # NoProject
        /\ \A p \in DProtocols : projects[d].protocols[p] # "none" => projects'[d].protocols[p] # "none"

\* A row is not the mark of a project that is not there.
LEMMA RowIsThere == ASSUME NEW row \in ProjectRows PROVE row # NoProject
BY DEF ProjectRows, ProjectStatuses, NoProject

\* One handler moves on, and writes no project but its own.
LEMMA WorkMoves ==
    ASSUME ProjectsInv, KeyedInv, Grown, NEW w \in DWorkers, NEW q, work' = [work EXCEPT ![w] = q],
           \A d \in DProjects : projects'[d] # projects[d] => work[w].at # "idle" /\ d = work[w].id,
           KeyLeadsToProject',
           q.at = "insert" => /\ q.id \in DProjects /\ projects'[q.id] = NoProject
                              /\ \A v \in DWorkers : work[v].id # q.id,
           q.at = "key" => work[w].at # "idle" /\ q.id = work[w].id /\ projects'[q.id] # NoProject,
           q.at = "save" => q.id \in DProjects /\ projects[q.id] # NoProject,
           q.at \in {"idle", "insert", "key", "save"}
    PROVE  KeyedInv'
<1>1. work'[w] = q /\ \A v \in DWorkers \ {w} : work'[v] = work[v]
      BY DEF ProjectsInv, ProjectsTypeOK
<1>2. \A v \in DWorkers : work[v].at # "idle" => work[v].id \in DProjects
      BY DEF ProjectsInv, Writing
<1>3. Fresh(w)' /\ Inserted(w)'
      BY <1>1 DEF Fresh, Inserted
<1>4. ASSUME NEW v \in DWorkers \ {w} PROVE Inserted(v)'
      BY <1>1, <1>2, <1>4 DEF Inserted, Grown, KeyedInv
<1>5. ASSUME NEW v \in DWorkers \ {w} PROVE Fresh(v)'
  <2>1. SUFFICES ASSUME work[v].at = "insert"
                 PROVE  /\ projects'[work[v].id] = NoProject
                        /\ \A u \in DWorkers \ {v} : work'[u].at # "idle" => work'[u].id # work[v].id
        BY <1>1 DEF Fresh
  <2>2. /\ work[v].id \in DProjects /\ projects[work[v].id] = NoProject
        /\ \A u \in DWorkers \ {v} : work[u].at # "idle" => work[u].id # work[v].id
        BY <1>2, <2>1 DEF KeyedInv, Fresh
  <2>3. projects'[work[v].id] = projects[work[v].id]
        BY <1>5, <2>2
  <2>4. q.at # "idle" => q.id # work[v].id
        BY <1>5, <2>2
  <2> QED BY <1>1, <2>2, <2>3, <2>4
<1> QED BY <1>3, <1>4, <1>5 DEF KeyedInv

\* Where no project is written, and no key, only the handler moves.
LEMMA NothingWritten ==
    ASSUME ProjectsInv, KeyedInv, UNCHANGED projects
    PROVE  Grown /\ (UNCHANGED idempotency => KeyLeadsToProject')
BY DEF Grown, KeyedInv, KeyLeadsToProject

LEMMA ProjectsStep == ASSUME ProjectsInv, KeyedInv, [ProjectsNext]_projectVars PROVE Grown /\ KeyedInv'
<1>1. CASE UNCHANGED projectVars
      BY <1>1, NothingWritten DEF projectVars, KeyedInv, Fresh, Inserted, KeyLeadsToProject
<1>2. ASSUME NEW w \in DWorkers, NEW d \in DProjects, NEW rec, Change(w, d, rec) PROVE Grown /\ KeyedInv'
  <2> DEFINE q == [NoWork EXCEPT !.at = "save", !.id = d, !.rec = rec]
  <2>1. q.at = "save" /\ q.id = d /\ projects[d] # NoProject
        BY <1>2 DEF NoWork, Change, Live
  <2>2. work' = [work EXCEPT ![w] = q] /\ UNCHANGED <<projects, idempotency>>
        BY <1>2 DEF Change
  <2> HIDE DEF q
  <2> QED BY <2>1, <2>2, NothingWritten, WorkMoves
<1>3. ASSUME NEW w \in DWorkers, NEW d \in DProjects, NEW name, NEW protocols, NEW key,
             BeginCreate(w, d, name, protocols, key)
      PROVE  Grown /\ KeyedInv'
  <2>1. /\ UNCHANGED <<projects, idempotency>>
        /\ projects[d] = NoProject /\ \A v \in DWorkers : work[v].id # d
        BY <1>3 DEF BeginCreate
  <2>2. PICK rec : work' = [work EXCEPT ![w] = [at |-> "insert", id |-> d, key |-> key, rec |-> rec]]
        BY <1>3 DEF BeginCreate
  <2>3. PICK q : q = [at |-> "insert", id |-> d, key |-> key, rec |-> rec]
        OBVIOUS
  <2>4. work' = [work EXCEPT ![w] = q] /\ q.at = "insert" /\ q.id = d
        BY <2>2, <2>3
  <2> QED BY <2>1, <2>4, NothingWritten, WorkMoves
<1>4. ASSUME NEW w \in DWorkers, InsertProject(w) PROVE Grown /\ KeyedInv'
  <2>1. /\ work[w].at = "insert" /\ work[w].id \in DProjects /\ work[w].rec \in ProjectRows
        /\ projects[work[w].id] = NoProject /\ UNCHANGED idempotency
        BY <1>4 DEF InsertProject, ProjectsInv, Writing, KeyedInv, Fresh
  <2>2. CASE projects' = [projects EXCEPT ![work[w].id] = work[w].rec]
    <3>1. projects'[work[w].id] # NoProject /\ \A d \in DProjects \ {work[w].id} : projects'[d] = projects[d]
          BY <2>1, <2>2, RowIsThere DEF ProjectsInv, ProjectsTypeOK
    <3>2. Grown /\ KeyLeadsToProject'
          BY <2>1, <3>1 DEF Grown, KeyedInv, KeyLeadsToProject
    <3>3. CASE work' = [work EXCEPT ![w] = NoWork]
      <4>1. NoWork.at = "idle"
            BY DEF NoWork
      <4> QED BY <2>1, <3>1, <3>2, <3>3, <4>1, WorkMoves
    <3>4. CASE work' = [work EXCEPT ![w] = [work[w] EXCEPT !.at = "key"]]
      <4>1. PICK q : q = [work[w] EXCEPT !.at = "key"]
            OBVIOUS
      <4>2. q.at = "key" /\ q.id = work[w].id
            BY <4>1 DEF ProjectsInv, ProjectsTypeOK
      <4> QED BY <2>1, <3>1, <3>2, <3>4, <4>1, <4>2, WorkMoves
    <3> QED BY <1>4, <2>2, <3>3, <3>4 DEF InsertProject
  <2>3. CASE UNCHANGED projects /\ work' = [work EXCEPT ![w] = NoWork]
    <3>1. NoWork.at = "idle"
          BY DEF NoWork
    <3> QED BY <2>1, <2>3, <3>1, NothingWritten, WorkMoves
  <2> QED BY <1>4, <2>2, <2>3 DEF InsertProject
<1>5. ASSUME NEW w \in DWorkers, PutKey(w) PROVE Grown /\ KeyedInv'
  <2>1. /\ work[w].id \in DProjects /\ projects[work[w].id] # NoProject
        /\ UNCHANGED projects /\ work' = [work EXCEPT ![w] = NoWork]
        /\ idempotency' = [idempotency EXCEPT ![work[w].key] = [name |-> work[w].rec.name, id |-> work[w].id]]
        BY <1>5 DEF PutKey, ProjectsInv, Writing, KeyedInv, Inserted
  <2>2. KeyLeadsToProject'
        BY <2>1 DEF KeyLeadsToProject, KeyedInv, ProjectsInv, ProjectsTypeOK
  <2>3. NoWork.at = "idle"
        BY DEF NoWork
  <2> QED BY <2>1, <2>2, <2>3, NothingWritten, WorkMoves
<1>6. ASSUME NEW w \in DWorkers, SaveProject(w) PROVE Grown /\ KeyedInv'
  <2> DEFINE h == work[w]
             row == Merged(h.rec, projects[h.id])
  <2>1. /\ h.rec \in ProjectRows /\ h.id \in DProjects /\ h.at = "save"
        /\ work' = [work EXCEPT ![w] = NoWork] /\ UNCHANGED idempotency
        /\ projects' \in {projects, [projects EXCEPT ![h.id] = row]}
        BY <1>6 DEF SaveProject, ProjectsInv, Writing
  <2>2. row # NoProject /\ \A p \in DProtocols :
            projects[h.id].protocols[p] # "none" => row.protocols[p] # "none"
        BY <2>1, MergedTyped, RowIsThere DEF ProjectsInv
  <2>3. \A d \in DProjects : projects'[d] # projects[d] => d = h.id /\ projects'[d] = row
        BY <2>1 DEF ProjectsInv, ProjectsTypeOK
  <2> HIDE DEF row
  <2>4. Grown /\ KeyLeadsToProject'
        BY <2>1, <2>2, <2>3 DEF Grown, KeyedInv, KeyLeadsToProject
  <2>5. NoWork.at = "idle"
        BY DEF NoWork
  <2> QED BY <2>1, <2>3, <2>4, <2>5, WorkMoves
<1>7. ASSUME NEW w \in DWorkers, ProcessEnds(w) PROVE Grown /\ KeyedInv'
  <2>1. NoWork.at = "idle" /\ work' = [work EXCEPT ![w] = NoWork] /\ UNCHANGED <<projects, idempotency>>
        BY <1>7 DEF ProcessEnds, NoWork
  <2> QED BY <2>1, NothingWritten, WorkMoves
<1> QED BY <1>1, <1>2, <1>3, <1>4, <1>5, <1>6, <1>7
        DEF ProjectsNext, Rename, SetPreview, TransitionProject, EnableProtocol, DisableProtocol, DeleteProject

ProjectsSpec == ProjectsInit /\ [][ProjectsNext]_projectVars

LEMMA KeysInitially == ProjectsInit => KeyedInv
BY DEF ProjectsInit, KeyedInv, KeyLeadsToProject, Fresh, Inserted, NoWork

\* However handlers of any number of processes overlap and end half way, a key that is stored
\* leads to a project (service.py create).
THEOREM KeysLead == ProjectsSpec => []KeyLeadsToProject
<1>1. ProjectsInv /\ KeyedInv /\ [ProjectsNext]_projectVars => (ProjectsInv /\ KeyedInv)'
      BY ProjectsStep, ProjectsTypedStep
<1>2. KeyedInv => KeyLeadsToProject
      BY DEF KeyedInv
<1> QED BY <1>1, <1>2, ProjectsTypedInitially, KeysInitially, PTL DEF ProjectsSpec

\* However old the record that a process writes back, no row of a protocol is lost
\* (SQLProjectStore.save).
THEOREM ProtocolsKept == ProjectsSpec => ProtocolRowsStay
<1>1. ProjectsInv /\ KeyedInv /\ [ProjectsNext]_projectVars => (ProjectsInv /\ KeyedInv)'
      BY ProjectsStep, ProjectsTypedStep
<1>2. ProjectsInv /\ KeyedInv /\ [ProjectsNext]_projectVars =>
          [\A d \in DProjects, p \in DProtocols :
              projects[d].protocols[p] # "none" => projects'[d].protocols[p] # "none"]_projectVars
  <2>1. SUFFICES ASSUME ProjectsInv, KeyedInv, [ProjectsNext]_projectVars, NEW d \in DProjects, NEW p \in DProtocols,
                        projects[d].protocols[p] # "none"
                 PROVE  projects'[d].protocols[p] # "none"
        OBVIOUS
  <2>2. projects[d] # NoProject
        BY <2>1 DEF NoProject
  <2> QED BY <2>1, <2>2, ProjectsStep DEF Grown
<1> QED BY <1>1, <1>2, ProjectsTypedInitially, KeysInitially, PTL DEF ProjectsSpec, ProtocolRowsStay

----------------------------------------------------------------------------
\* The wizards and the pipeline of admin-service.
DraftRows == [kind : Kinds, payload : Payloads, simOk : BOOLEAN,
              status : {"draft", "simulated", "failed", "approved", "published"}]

AdminInv == WInv /\ AdminTypeOK

LEMMA InitialTyped ==
    /\ Initial \in [version : 1 .. MaxActive, payload : Payloads]
    /\ InitialHistory \in [1 .. MaxActive -> Payloads \cup {"none"}]
BY AdminAssumption DEF Initial, InitialHistory

LEMMA AdminTypedInitially == AdminInit => AdminInv
<1> SUFFICES ASSUME AdminInit PROVE AdminInv OBVIOUS
<1>1. WInv
      BY WizardsInitial DEF AdminInit
<1> QED BY <1>1, InitialTyped DEF AdminInit, AdminInv, AdminTypeOK, WInv, WizardRows

LEMMA AdminTypedStep == ASSUME AdminInv, [AdminNext]_adminVars PROVE AdminInv'
<1> DEFINE Users == sessions' \in [ADMINS -> {"none", "plain", "stepped"}] /\ breakGlass' \in [ADMINS -> {"none", "open", "closed"}]
           Pipe == drafts' \in [Drafts -> {NoDraft} \cup DraftRows]
           InForce == /\ active' \in [Kinds -> [version : 1 .. MaxActive, payload : Payloads]]
                    /\ history' \in [Kinds -> [1 .. MaxActive -> Payloads \cup {"none"}]]
<1>0. WInv'
      BY WizardStep DEF AdminInv
<1>1. Users /\ Pipe /\ InForce => AdminInv'
      BY <1>0 DEF AdminInv, AdminTypeOK, WInv, WizardRows, DraftRows
<1>2. /\ sessions \in [ADMINS -> {"none", "plain", "stepped"}] /\ breakGlass \in [ADMINS -> {"none", "open", "closed"}]
      /\ drafts \in [Drafts -> {NoDraft} \cup DraftRows]
      /\ active \in [Kinds -> [version : 1 .. MaxActive, payload : Payloads]]
      /\ history \in [Kinds -> [1 .. MaxActive -> Payloads \cup {"none"}]]
      BY DEF AdminInv, AdminTypeOK, DraftRows
<1>3. ASSUME UNCHANGED <<sessions, breakGlass>> PROVE Users
      BY <1>2, <1>3
<1>4. ASSUME UNCHANGED drafts PROVE Pipe
      BY <1>2, <1>4
<1>5. ASSUME UNCHANGED <<active, history>> PROVE InForce
      BY <1>2, <1>5
<1>6. ASSUME NEW f \in Drafts, drafts[f] # NoDraft PROVE drafts[f] \in DraftRows
      BY <1>2, <1>6
<1> HIDE DEF Users, Pipe, InForce
<1>7. ASSUME NEW a \in ADMINS,
             \/ LogIn(a) \/ LogOut(a) \/ StepUp(a) \/ StepUpExpires(a) \/ OpenBreakGlass(a)
             \/ \E case \in ADMINS : CloseBreakGlass(a, case)
      PROVE  AdminInv'
  <2>1. Users
        BY <1>2, <1>7 DEF LogIn, LogOut, StepUp, StepUpExpires, OpenBreakGlass, CloseBreakGlass, SetSession, Users
  <2>2. UNCHANGED <<drafts, active, history>>
        BY <1>7 DEF LogIn, LogOut, StepUp, StepUpExpires, OpenBreakGlass, CloseBreakGlass, SetSession
  <2> QED BY <2>1, <2>2, <1>1, <1>4, <1>5
<1>8. ASSUME \/ \E z \in Wizards : ExpireWizard(z)
             \/ \E a \in ADMINS, z \in Wizards : \/ \E kind \in DOMAIN WizardAction : StartWizard(a, z, kind)
                                                 \/ ConfirmWizard(a, z) \/ CancelWizard(a, z)
      PROVE  AdminInv'
  <2>1. UNCHANGED <<sessions, breakGlass, drafts, active, history>>
        BY <1>8 DEF ExpireWizard, StartWizard, ConfirmWizard, CancelWizard
  <2> QED BY <2>1, <1>1, <1>3, <1>4, <1>5
<1>9. ASSUME NEW a \in ADMINS, NEW f \in Drafts, NEW kind \in Kinds, NEW payload \in Payloads, CreateDraft(a, f, kind, payload)
      PROVE  AdminInv'
  <2>1. Pipe
        BY <1>2, <1>9 DEF CreateDraft, DraftRows, Pipe
  <2> QED BY <2>1, <1>1, <1>3, <1>5, <1>9 DEF CreateDraft
<1>10. ASSUME NEW a \in ADMINS, NEW f \in Drafts, Simulate(a, f) PROVE AdminInv'
  <2>1. drafts[f] \in DraftRows
        BY <1>6, <1>10 DEF Simulate
  <2>2. PICK ok \in BOOLEAN : drafts' = [drafts EXCEPT ![f].simOk = ok, ![f].status = IF ok THEN "simulated" ELSE "failed"]
        BY <1>10 DEF Simulate, SimulateOk
  <2>3. PICK row \in DraftRows : row = [drafts[f] EXCEPT !.simOk = ok, !.status = IF ok THEN "simulated" ELSE "failed"]
        BY <2>1 DEF DraftRows
  <2>4. drafts' = [drafts EXCEPT ![f] = row]
        BY <1>2, <2>1, <2>2, <2>3 DEF DraftRows
  <2>5. Pipe
        BY <1>2, <2>4 DEF Pipe
  <2> QED BY <2>5, <1>1, <1>3, <1>5, <1>10 DEF Simulate
<1>11. ASSUME NEW f \in Drafts, drafts[f].simOk PROVE drafts[f] \in DraftRows
      BY <1>6, <1>11 DEF NoDraft
<1>12. ASSUME NEW f \in Drafts, NEW st \in {"approved", "published"}, drafts[f].simOk, drafts' = [drafts EXCEPT ![f].status = st]
       PROVE  Pipe
  <2>1. PICK row \in DraftRows : row = [drafts[f] EXCEPT !.status = st]
        BY <1>11, <1>12 DEF DraftRows
  <2> QED BY <1>2, <1>12, <2>1 DEF Pipe
<1>13. ASSUME NEW a \in ADMINS, NEW f \in Drafts, Approve(a, f) PROVE AdminInv'
      BY <1>1, <1>3, <1>5, <1>12, <1>13 DEF Approve
<1>14. ASSUME NEW a \in ADMINS, MayExpire(a), UNCHANGED breakGlass PROVE Users
      BY <1>2, <1>14 DEF MayExpire, Users
<1>15. ASSUME NEW a \in ADMINS, NEW f \in Drafts, Publish(a, f) PROVE AdminInv'
  <2>1. Publishable(f) /\ drafts' = [drafts EXCEPT ![f].status = "published"]
        BY <1>15 DEF Publish
  <2>2. Pipe /\ drafts[f] \in DraftRows
        BY <2>1, <1>11, <1>12 DEF Publishable
  <2>3. PICK kind \in Kinds, payload \in Payloads : kind = drafts[f].kind /\ payload = drafts[f].payload
        BY <2>2 DEF DraftRows
  <2>4. PICK v : v = active[kind].version + 1
        OBVIOUS
  <2>5. v \in 1 .. MaxActive
        BY <1>2, <1>15, <2>3, <2>4, AdminAssumption DEF Publish
  <2>6. /\ active' = [active EXCEPT ![kind] = [version |-> v, payload |-> payload]]
        /\ history' = [history EXCEPT ![kind][v] = IF @ = "none" THEN payload ELSE @]
        BY <1>15, <2>3, <2>4 DEF Publish
  <2>7. active' \in [Kinds -> [version : 1 .. MaxActive, payload : Payloads]]
        BY <1>2, <2>5, <2>6
  <2>8. PICK h \in [1 .. MaxActive -> Payloads \cup {"none"}] :
          h = [history[kind] EXCEPT ![v] = IF @ = "none" THEN payload ELSE @]
        BY <1>2, <2>5
  <2>9. history' = [history EXCEPT ![kind] = h]
        BY <1>2, <2>6, <2>8
  <2>10. InForce
        BY <1>2, <2>7, <2>9 DEF InForce
  <2>11. Users
        BY <1>14, <1>15 DEF Publish
  <2> QED BY <1>1, <2>2, <2>10, <2>11
<1>16. ASSUME NEW a \in ADMINS, NEW kind \in Kinds, NEW to \in 1 .. MaxActive, Rollback(a, kind, to) PROVE AdminInv'
  <2>1. history[kind][to] \in Payloads
    <3>1. history[kind] \in [1 .. MaxActive -> Payloads \cup {"none"}]
          BY <1>2
    <3>2. history[kind][to] \in Payloads \cup {"none"}
          BY <3>1
    <3> QED BY <1>16, <3>2 DEF Rollback
  <2>2. InForce
        BY <1>2, <1>16, <2>1 DEF Rollback, InForce
  <2>3. Users
        BY <1>14, <1>16 DEF Rollback
  <2> QED BY <1>1, <1>4, <1>16, <2>2, <2>3 DEF Rollback
<1>17. CASE AdminRestart
  <2>1. Users /\ Pipe
        BY <1>17 DEF AdminRestart, Users, Pipe
  <2>2. InForce
        BY <1>17, InitialTyped DEF AdminRestart, InForce
  <2> QED BY <1>1, <2>1, <2>2
<1>18. CASE UNCHANGED adminVars
      BY <1>1, <1>3, <1>4, <1>5, <1>18 DEF adminVars
<1> QED BY <1>7, <1>8, <1>9, <1>10, <1>13, <1>15, <1>16, <1>17, <1>18 DEF AdminNext

----------------------------------------------------------------------------
\* The deployments.
DeployInv == DInv /\ DeployTypeOK

LEMMA DeployTypedInitially == DeployInit => DeployInv
<1> SUFFICES ASSUME DeployInit PROVE DeployInv OBVIOUS
<1>1. job = [j \in Jobs |-> IdleJob] /\ ups = {}
      BY DEF DeployInit
<1>2. DInv
      BY <1>1, IdleJobOK DEF DInv
<1>3. edits \in 0 .. MaxEdits
      BY DeployAssumption DEF DeployInit
<1> QED BY <1>1, <1>2, <1>3 DEF DeployInv, DInv, JobRows, DeployTypeOK, DeployInit

LEMMA DeployTypedStep == ASSUME DeployInv, [DeployNext]_deployVars PROVE DeployInv'
<1>0. DInv' /\ checkout' \in [commit : Commits, images : ImageSets]
      BY DeployStep DEF DeployInv, DeployTypeOK, CheckoutTyped
<1> DEFINE Spent == edits' \in 0 .. MaxEdits /\ nonces' \subseteq {a.nonce : a \in Approvals}
           Up == /\ stacks' \in [{"test", "prod"} -> ImageSets \cup {"none"}]
                 /\ ups' \subseteq [job : Jobs, approval : Approvals, images : ImageSets, head : Commits]
<1>1. Spent /\ Up => DeployInv'
      BY <1>0 DEF DeployInv, DeployTypeOK, DInv, JobRows
<1>2. /\ edits \in 0 .. MaxEdits /\ nonces \subseteq {a.nonce : a \in Approvals}
      /\ stacks \in [{"test", "prod"} -> ImageSets \cup {"none"}]
      /\ ups \subseteq [job : Jobs, approval : Approvals, images : ImageSets, head : Commits]
      BY DEF DeployInv, DeployTypeOK
<1>3. ASSUME UNCHANGED <<edits, nonces>> PROVE Spent
      BY <1>2, <1>3
<1>4. ASSUME UNCHANGED <<stacks, ups>> PROVE Up
      BY <1>2, <1>4
<1> HIDE DEF Spent, Up
<1>5. CASE EditCheckout
  <2>1. Spent
        BY <1>2, <1>5, DeployAssumption DEF EditCheckout, Spent
  <2> QED BY <1>1, <1>4, <1>5, <2>1 DEF EditCheckout
<1>6. CASE DeployDown
  <2>1. Up
        BY <1>2, <1>6 DEF DeployDown, Up
  <2> QED BY <1>1, <1>3, <1>6, <2>1 DEF DeployDown
<1>7. ASSUME NEW j \in Jobs,
             \/ \E m \in {"test", "prod"}, clean \in BOOLEAN : BeginDeploy(j, m, clean)
             \/ DeployConfigRefused(j) \/ LoadDeployConfig(j) \/ NotActivated(j)
             \/ \E m \in Manifests : BindManifest(j, m)
             \/ VerifyDigests(j) \/ EnsureDocker(j) \/ EndDeploy(j)
      PROVE  DeployInv'
  <2>1. UNCHANGED <<edits, nonces, stacks, ups>>
        BY <1>7 DEF BeginDeploy, DeployConfigRefused, LoadDeployConfig, NotActivated, BindManifest, VerifyDigests,
           EnsureDocker, EndDeploy
  <2> QED BY <1>1, <1>3, <1>4, <2>1
<1>8. ASSUME NEW j \in Jobs, NEW a \in Approvals, ApproveDeploy(j, a) PROVE DeployInv'
  <2>1. nonces' \in {nonces, nonces \cup {a.nonce}} /\ UNCHANGED <<edits, stacks, ups>>
        BY <1>8 DEF ApproveDeploy
  <2>2. Spent
        BY <1>2, <2>1 DEF Spent
  <2> QED BY <1>1, <1>4, <2>1, <2>2
<1>9. ASSUME NEW j \in Jobs, ComposeUp(j) PROVE DeployInv'
  <2>1. job[j] \in JobRows /\ (Past(job[j]) => Fits(job[j].approval, job[j].images, job[j].head, j))
        BY DEF DeployInv, DInv
  <2>2. stacks' = [stacks EXCEPT ![job[j].mode] = job[j].images] /\ UNCHANGED <<edits, nonces>> /\ job[j].phase = "docker"
        BY <1>9 DEF ComposeUp, Step
  <2>3. stacks' \in [{"test", "prod"} -> ImageSets \cup {"none"}]
        BY <1>2, <2>1, <2>2 DEF JobRows
  <2>4. ups' \subseteq [job : Jobs, approval : Approvals, images : ImageSets, head : Commits]
    <3>1. CASE job[j].mode = "prod"
      <4>1. Fits(job[j].approval, job[j].images, job[j].head, j)
            BY <2>1, <2>2, <3>1 DEF Past
      <4>2. job[j].approval \in Approvals /\ job[j].images \in ImageSets /\ job[j].head \in Commits
            BY <4>1, DeployAssumption DEF Fits
      <4>3. ups' = ups \cup {[job |-> j, approval |-> job[j].approval, images |-> job[j].images, head |-> job[j].head]}
            BY <1>9, <3>1 DEF ComposeUp
      <4> QED BY <1>2, <4>2, <4>3
    <3>2. CASE job[j].mode # "prod"
          BY <1>2, <1>9, <3>2 DEF ComposeUp
    <3> QED BY <3>1, <3>2
  <2>5. Up
        BY <2>3, <2>4 DEF Up
  <2> QED BY <1>1, <1>3, <2>2, <2>5
<1>10. CASE UNCHANGED deployVars
      BY <1>1, <1>3, <1>4, <1>10 DEF deployVars
<1> QED BY <1>5, <1>6, <1>7, <1>8, <1>9, <1>10 DEF DeployNext

----------------------------------------------------------------------------
\* The local environment: the labels, and the holder, which is at work.
LabelsTyped == up \in [EDeps -> EWorkspaces \cup {"none"}]

LEMMA LabelsStep == ASSUME EInv, LabelsTyped, [EnvNext]_envVars PROVE LabelsTyped'
<1> USE DEF LabelsTyped
<1>1. ASSUME NEW o \in EOps, NEW d \in EDeps, RemoveExact(o, d) \/ ComposeStep(o, d) PROVE LabelsTyped'
  <2>1. op[o].ws \in EWorkspaces
        BY DEF EInv, EnvRows
  <2>2. \E w \in EWorkspaces \cup {"none"} : up' \in {up, [up EXCEPT ![d] = w]}
        BY <1>1, <2>1 DEF RemoveExact, ComposeStep, Wanted, Fails
  <2> QED BY <2>2
<1>2. ASSUME NEW o \in EOps,
             \/ \E a \in {"dev", "dev-down"}, w \in EWorkspaces : BeginOperation(o, a, w)
             \/ ConfigRefused(o) \/ Preflight(o) \/ AcquireLock(o) \/ LockUnsafe(o)
             \/ Revalidate(o) \/ EnsureImages(o) \/ ReconcileUp(o) \/ InspectUp(o)
             \/ \E d \in EDeps, responds \in BOOLEAN : ProbeDependency(o, d, responds)
      PROVE  up' = up
      BY <1>2 DEF BeginOperation, ConfigRefused, Preflight, AcquireLock, LockUnsafe, Revalidate, EnsureImages,
         ReconcileUp, InspectUp, ProbeDependency, Goes, Fails
<1>3. ASSUME NEW o \in EOps,
             \/ Aggregate(o) \/ Discover(o) \/ FallbackList(o) \/ FallbackDone(o) \/ VerifyDown(o)
             \/ ComposeEnds(o) \/ ComposeFails(o) \/ Interrupt(o)
      PROVE  up' = up
      BY <1>3 DEF Aggregate, Discover, FallbackList, FallbackDone, VerifyDown, ComposeEnds, ComposeFails, Interrupt,
         Goes, Fails
<1>4. CASE UNCHANGED envVars
      BY <1>4 DEF envVars
<1> QED BY <1>1, <1>2, <1>3, <1>4 DEF EnvNext

LEMMA EnvTyped == EInv /\ LabelsTyped => EnvTypeOK
BY DEF EInv, LabelsTyped, EnvTypeOK, EnvRows, Children, Exclusive, LockedPhases, StartPhases, StopPhases

----------------------------------------------------------------------------
\* The events of authorization.
EventsTyped ==
    \A e \in events : e.req \in ZReqs /\ e.actor \in ZUsers /\ e.outcome \in {"denied", "allowed_state_change"}

LEMMA EventsStep == ASSUME ZInv, EventsTyped, [AuthzNext]_authzVars PROVE EventsTyped'
<1> USE DEF EventsTyped
<1>1. ASSUME NEW r \in ZReqs, NEW outcome \in {"denied", "allowed_state_change"}, zreq[r].pc # "new",
             events' \in {events, events \cup {Event(r, outcome)}}
      PROVE  EventsTyped'
  <2>1. zreq[r].user \in ZUsers
        BY <1>1 DEF ZInv, Audited
  <2>2. Event(r, outcome).req = r /\ Event(r, outcome).actor = zreq[r].user /\ Event(r, outcome).outcome = outcome
        BY DEF Event
  <2> QED BY <1>1, <2>1, <2>2
<1>2. ASSUME NEW r \in ZReqs, NEW stored \in BOOLEAN, CommitAllowed(r, stored) PROVE EventsTyped'
  <2>1. zreq[r].pc # "new" /\ events' \in {events, events \cup {Event(r, "allowed_state_change")}}
        BY <1>2 DEF CommitAllowed
  <2> QED BY <1>1, <2>1
<1>3. ASSUME NEW r \in ZReqs, CommitDenied(r) PROVE EventsTyped'
  <2>1. zreq[r].pc # "new" /\ events' \in {events, events \cup {Event(r, "denied")}}
        BY <1>3 DEF CommitDenied
  <2> QED BY <1>1, <2>1
<1>4. ASSUME NEW r \in ZReqs, NEW user, NEW action, NEW x, NEW workspace, NEW mutate, NEW life,
             BeginAuthorize(r, user, action, x, workspace, mutate, life)
      PROVE  events' = events
      BY <1>4 DEF BeginAuthorize
<1>5. ASSUME NEW r \in ZReqs, ReadOwnership(r) PROVE events' = events
      BY <1>5 DEF ReadOwnership
<1>6. ASSUME NEW r \in ZReqs,
             \/ LoadFails(r) \/ NoCandidate(r) \/ (\E x \in ZResources : ReadCandidate(r, x))
             \/ Flush(r) \/ FlushFails(r) \/ EndFails(r)
      PROVE  events' = events
      BY <1>6 DEF LoadFails, NoCandidate, ReadCandidate, Flush, FlushFails, EndFails, Unavailable
<1>7. CASE UNCHANGED authzVars
      BY <1>7 DEF authzVars
<1> QED BY <1>2, <1>3, <1>4, <1>5, <1>6, <1>7 DEF AuthzNext

LEMMA AuthzTyped == ZInv /\ EventsTyped => AuthzTypeOK
BY DEF ZInv, EventsTyped, AuthzTypeOK, OwnRows, ZRows

----------------------------------------------------------------------------
(* The run of all parts.  One of them moves, and its invariant holds on;   *)
(* where the keys of a buyer are looked at alone, the gateway is idle.     *)

GatewayIdle == areq = [r \in AReqs |-> NewReq] /\ lookups = 0

KeysInv ==
    /\ KeysTypeOK /\ CachesTyped /\ ToldOnRecord
    /\ focus # "keys" => AInv
    /\ focus = "keys" => GatewayIdle

PartsInv ==
    /\ PoolInv /\ LInv /\ UInv /\ KeysInv
    /\ ZInv /\ EventsTyped
    /\ ProjectsInv /\ KeyedInv
    /\ AdminInv /\ DeployInv
    /\ EInv /\ LabelsTyped
    /\ RateInv

LEMMA KeysTypedInitially == AuthInit => KeysInv
<1> SUFFICES ASSUME AuthInit PROVE KeysInv OBVIOUS
<1>1. KeysTypeOK /\ ToldOnRecord
      BY DEF AuthInit, KeysInit, KeysTypeOK, ToldOnRecord, NoKey, NoSecret
<1>2. CachesTyped /\ GatewayIdle
      BY DEF AuthInit, CachesTyped, GatewayIdle
<1> QED BY <1>1, <1>2, AuthInitial DEF KeysInv

LEMMA PartsInitial == Init => PartsInv
<1> SUFFICES ASSUME Init PROVE PartsInv OBVIOUS
<1>1. /\ PoolInit /\ UsageInit /\ AuthInit /\ AuthzInit
      /\ ProjectsInit /\ AdminInit /\ DeployInit /\ EnvInit /\ RateInit
      BY DEF Init
<1>2. PoolInv /\ LInv /\ UInv /\ KeysInv
      BY <1>1, PoolTypedInitially, LeasesInit, UsageInitial, KeysTypedInitially
<1>3. ZInv
      BY <1>1, AuthzInitial
<1>4. EventsTyped
      BY <1>1 DEF AuthzInit, EventsTyped
<1>5. ProjectsInv /\ KeyedInv
      BY <1>1, ProjectsTypedInitially, KeysInitially
<1>6. AdminInv /\ DeployInv /\ EInv /\ RateInv
      BY <1>1, AdminTypedInitially, DeployTypedInitially, EnvInitial, RatesInitially
<1>7. LabelsTyped
      BY <1>1 DEF EnvInit, LabelsTyped
<1> QED BY <1>2, <1>3, <1>4, <1>5, <1>6, <1>7 DEF PartsInv

\* A step of the run is a step or a stutter of every part.
LEMMA OneMoves ==
    ASSUME [Next]_vars
    PROVE  /\ [PoolNext]_poolVars /\ [UsageNext]_usageVars /\ [AuthzNext]_authzVars
           /\ [ProjectsNext]_projectVars /\ [AdminNext]_adminVars /\ [DeployNext]_deployVars /\ [EnvNext]_envVars
           /\ [RateNext]_rateVars /\ focus' = focus
           /\ \/ [AuthNext]_authVars /\ (focus = "keys" => UNCHANGED authVars)
              \/ KeysNext /\ focus = "keys" /\ UNCHANGED <<posCache, negCache, lookups, areq>>
<1>1. ASSUME UNCHANGED vars
      PROVE  UNCHANGED <<focus, poolVars, usageVars, authVars, authzVars, projectVars, adminVars, deployVars,
                         envVars, rateVars>>
      BY <1>1 DEF vars
<1> QED BY <1>1 DEF Next

LEMMA KeysInvStep == ASSUME KeysInv, [Next]_vars PROVE KeysInv'
<1>1. /\ focus' = focus
      /\ \/ [AuthNext]_authVars /\ (focus = "keys" => UNCHANGED authVars)
         \/ KeysNext /\ focus = "keys" /\ UNCHANGED <<posCache, negCache, lookups, areq>>
      BY OneMoves
<1>2. CASE focus = "keys" /\ KeysNext /\ UNCHANGED <<posCache, negCache, lookups, areq>>
  <2>1. KeysTypeOK' /\ ToldOnRecord'
        BY <1>2, KeysTypedStep, ToldStep DEF KeysInv
  <2> QED BY <1>1, <1>2, <2>1 DEF KeysInv, CachesTyped, GatewayIdle
<1>3. CASE focus = "keys" /\ UNCHANGED authVars
  <2>1. UNCHANGED <<keyVars, posCache, negCache, lookups, areq>>
        BY <1>3 DEF authVars
  <2>2. KeysTypeOK' /\ ToldOnRecord'
        BY <2>1, KeysTypedStep, ToldStep DEF KeysInv
  <2> QED BY <1>1, <1>3, <2>1, <2>2 DEF KeysInv, CachesTyped, GatewayIdle
<1>4. CASE focus # "keys" /\ [AuthNext]_authVars
  <2>1. AInv' /\ KeysTypeOK' /\ CachesTyped'
        BY <1>4, AuthStep, CachesTypedStep DEF KeysInv
  <2>2. [KeysNext]_keyVars
    <3>1. ASSUME KeysStep PROVE KeysNext
          BY <3>1 DEF KeysStep, KeysNext
    <3>2. ASSUME NEW s, Expire(s) PROVE UNCHANGED keyVars
          BY <3>2 DEF Expire
    <3>3. ASSUME NEW r, (\E s \in Secrets : Authenticate(r, s)) \/ ReadRow(r) \/ Rechecked(r) \/ LookedUp(r) \/ NextRequest(r)
          PROVE  UNCHANGED keyVars
          BY <3>3 DEF Authenticate, ReadRow, Rechecked, LookedUp, NextRequest
    <3>4. ASSUME UNCHANGED authVars PROVE UNCHANGED keyVars
          BY <3>4 DEF authVars
    <3> QED BY <1>4, <3>1, <3>2, <3>3, <3>4 DEF AuthNext
  <2>3. ToldOnRecord'
        BY <2>2, ToldStep DEF KeysInv
  <2> QED BY <1>1, <1>4, <2>1, <2>3 DEF KeysInv
<1> QED BY <1>1, <1>2, <1>3, <1>4

LEMMA PartsStep == ASSUME PartsInv, [Next]_vars PROVE PartsInv'
<1>1. /\ [PoolNext]_poolVars /\ [UsageNext]_usageVars /\ [AuthzNext]_authzVars
      /\ [ProjectsNext]_projectVars /\ [AdminNext]_adminVars /\ [DeployNext]_deployVars /\ [EnvNext]_envVars
      /\ [RateNext]_rateVars
      BY OneMoves
<1>2. PoolInv' /\ LInv' /\ UInv' /\ KeysInv'
      BY <1>1, PoolTypedStep, LeasesStep, UsageStep, KeysInvStep DEF PartsInv
<1>3. ZInv' /\ EventsTyped'
      BY <1>1, AuthzMoves, EventsStep DEF PartsInv
<1>4. ProjectsInv' /\ KeyedInv' /\ AdminInv' /\ DeployInv'
      BY <1>1, ProjectsTypedStep, ProjectsStep, AdminTypedStep, DeployTypedStep DEF PartsInv
<1>5. EInv' /\ LabelsTyped' /\ RateInv'
      BY <1>1, EnvMoves, LabelsStep, RateStep DEF PartsInv
<1> QED BY <1>2, <1>3, <1>4, <1>5 DEF PartsInv

\* The type invariant of every part, for any values of the constants: among them, a probe
\* stores only healths the column admits (health.go:6), the failures it counts stay within
\* their bound, and the process that holds the lock of a local environment is at work.
THEOREM PartsTyped == Spec => []TypeOK
<1>1. PartsInv => TypeOK
  <2> SUFFICES ASSUME PartsInv PROVE TypeOK OBVIOUS
  <2>1. AuthTypeOK
    <3>1. CASE focus # "keys"
          BY <3>1, AuthTyped DEF PartsInv, KeysInv
    <3>2. CASE focus = "keys"
      <4>1. areq \in [AReqs -> AReqs0] /\ lookups \in Nat
            BY <3>2, NewReqSound DEF PartsInv, KeysInv, GatewayIdle
      <4> QED BY <4>1 DEF PartsInv, KeysInv, CachesTyped, AuthTypeOK, AReqs0
    <3> QED BY <3>1, <3>2
  <2>2. PoolTypeOK /\ UsageTypeOK /\ AuthzTypeOK
        BY AuthzTyped DEF PartsInv, PoolInv, UInv
  <2>3. ProjectsTypeOK /\ AdminTypeOK /\ DeployTypeOK /\ EnvTypeOK /\ RateTypeOK
        BY EnvTyped DEF PartsInv, ProjectsInv, AdminInv, DeployInv, RateInv
  <2> QED BY <2>1, <2>2, <2>3 DEF TypeOK
<1>2. PartsInv /\ [Next]_vars => PartsInv'
      BY PartsStep
<1> QED BY <1>1, <1>2, PartsInitial, PTL DEF Spec

\* The invariants of the parts hold together, of the very specification that is model-checked:
\* whichever part is looked at, the others keep theirs.
THEOREM PartsSafe ==
    Spec => [](/\ KeyLeases /\ UsageCounted /\ RevokedRefused /\ OneKeyAnswered
               /\ KeyLeadsToProject /\ WizardExecutesOnce /\ ApprovedOnce /\ RatesSound)
<1>1. PartsInv => RevokedRefused
  <2> SUFFICES ASSUME PartsInv PROVE RevokedRefused OBVIOUS
  <2>1. CASE focus # "keys"
        BY <2>1 DEF PartsInv, KeysInv, AInv, ReqSound, RevokedRefused, LookingUp
  <2>2. CASE focus = "keys"
    <3>1. areq = [r \in AReqs |-> NewReq] /\ lookups = 0
          BY <2>2 DEF PartsInv, KeysInv, GatewayIdle
    <3>2. {r \in AReqs : areq[r].pc = "lookup"} = {} /\ \A r \in AReqs : areq[r].pc # "ok"
          BY <3>1 DEF NewReq
    <3> QED BY <3>1, <3>2, FS_EmptySet, AuthAssumption DEF RevokedRefused
  <2> QED BY <2>1, <2>2
<1>2. PartsInv => KeyLeases /\ UsageCounted /\ OneKeyAnswered
      BY DEF PartsInv, LInv, UInv, QInv, CountedOnce, AnswerCovered, UsageCounted, KeysInv, ToldOnRecord, OneKeyAnswered
<1>3. PartsInv => KeyLeadsToProject /\ WizardExecutesOnce /\ RatesSound
      BY DEF PartsInv, KeyedInv, AdminInv, WInv, RateInv
<1>4. PartsInv => ApprovedOnce
      BY DEF PartsInv, DeployInv, DInv, Fits, ApprovedOnce
<1>5. PartsInv /\ [Next]_vars => PartsInv'
      BY PartsStep
<1> QED BY <1>1, <1>2, <1>3, <1>4, <1>5, PartsInitial, PTL DEF Spec
=============================================================================
