------------------------------- MODULE Deploy -------------------------------
(***************************************************************************)
(* `make deploy` of tools/workflow: several deploy processes share one     *)
(* checkout, one Docker daemon and one directory of spent nonces, while    *)
(* the checkout and its .env files may be edited.  A production deploy     *)
(* reads the checkout and the configuration once, wants an approval signed *)
(* for exactly those images, commit, run and release manifest, spends the  *)
(* approval's nonce and only then touches Docker; a test deploy wants no   *)
(* approval.  An image set stands for the five pinned references.          *)
(***************************************************************************)
EXTENDS Naturals, FiniteSets

CONSTANTS
    Jobs,        \* deploy processes that may run at once
    RunOf,       \* the run identifier in each process's environment
    ImageSets,   \* the image sets an .env file may name
    Commits,     \* the commits the checkout may be at
    MaxEdits,    \* bound on the edits of the checkout
    Approvals    \* the signed approvals: [nonce, images, commit, run, manifest, valid]

ASSUME DeployAssumption ==
    /\ \A a, b \in Approvals : a.nonce = b.nonce => a = b
    /\ \A a \in Approvals : a.images \in ImageSets /\ a.commit \in Commits
    /\ "none" \notin ImageSets /\ MaxEdits \in Nat

VARIABLES
    checkout,    \* the worktree: its commit, and the images its .env file names
    edits,       \* edits of the worktree so far
    nonces,      \* the spent nonces: files created with O_EXCL
    job,         \* the deploy processes
    stacks,      \* the images each Compose project was last brought up with
    ups          \* every production compose up, with the approval it ran under

deployVars == <<checkout, edits, nonces, job, stacks, ups>>

NoManifest  == [commit |-> "none", signed |-> FALSE]
NoApproval  == [nonce |-> "none"]
IdleJob     == [phase |-> "idle", mode |-> "test", head |-> "none", images |-> "none",
                manifest |-> NoManifest, approval |-> NoApproval]

Manifests == [commit : Commits, signed : BOOLEAN] \cup {NoManifest}

DeployTypeOK ==
    /\ checkout \in [commit : Commits, images : ImageSets]
    /\ edits \in 0..MaxEdits
    /\ nonces \subseteq {a.nonce : a \in Approvals}
    /\ job \in [Jobs -> [phase : {"idle", "clean", "loaded", "bound", "approved", "gated",
                                  "docker", "ready"},
                         mode : {"test", "prod"}, head : Commits \cup {"none"},
                         images : ImageSets \cup {"none"}, manifest : Manifests,
                         approval : Approvals \cup {NoApproval}]]
    /\ stacks \in [{"test", "prod"} -> ImageSets \cup {"none"}]
    /\ ups \subseteq [job : Jobs, approval : Approvals, images : ImageSets, head : Commits]

DeployInit ==
    /\ checkout \in [commit : Commits, images : ImageSets]
    /\ edits = 0
    /\ nonces = {}
    /\ job = [j \in Jobs |-> IdleJob]
    /\ stacks = [m \in {"test", "prod"} |-> "none"]
    /\ ups = {}

(* A process refused or failed: it exits, whatever it has spent.           *)
Exits(j) == job' = [job EXCEPT ![j] = IdleJob]

Step(j, from, to) ==
    /\ job[j].phase = from
    /\ job' = [job EXCEPT ![j].phase = to]

-----------------------------------------------------------------------------
(* A commit is checked out or an .env file edited, at any time.            *)
EditCheckout ==
    /\ edits < MaxEdits
    /\ edits' = edits + 1
    /\ checkout' \in [commit : Commits, images : ImageSets]
    /\ UNCHANGED <<nonces, job, stacks, ups>>

-----------------------------------------------------------------------------
(* deploy_up.  The tree must be clean for production; a test deploy looks  *)
(* at neither the tree nor an approval.                                    *)
BeginDeploy(j, m, clean) ==
    /\ job[j].phase = "idle"
    /\ m = "prod" => clean
    /\ job' = [job EXCEPT ![j] = [IdleJob EXCEPT !.phase = "clean", !.mode = m,
                                                 !.head = checkout.commit]]
    /\ UNCHANGED <<checkout, edits, nonces, stacks, ups>>

(* A value is missing, a placeholder, or an image is not pinned.           *)
DeployConfigRefused(j) ==
    /\ job[j].phase = "clean" /\ job[j].mode = "prod"
    /\ Exits(j)
    /\ UNCHANGED <<checkout, edits, nonces, stacks, ups>>

LoadDeployConfig(j) ==
    /\ job[j].phase = "clean" /\ job[j].mode = "prod"
    /\ job' = [job EXCEPT ![j].phase = "loaded", ![j].images = checkout.images]
    /\ UNCHANGED <<checkout, edits, nonces, stacks, ups>>

(* The release manifest, where one is named: signed, and of the commit the *)
(* process read.                                                           *)
ManifestAccepted(j, m) ==
    /\ m.signed
    /\ job[j].mode = "prod" => m.commit = job[j].head

(* The manifest does not say that TLS, SMS, proxy, keys, dispatcher and    *)
(* cleanup are ready.                                                      *)
NotActivated(j) ==
    /\ job[j].phase = IF job[j].mode = "prod" THEN "loaded" ELSE "clean"
    /\ Exits(j)
    /\ UNCHANGED <<checkout, edits, nonces, stacks, ups>>

BindManifest(j, m) ==
    /\ job[j].phase = IF job[j].mode = "prod" THEN "loaded" ELSE "clean"
    /\ IF m = NoManifest \/ ManifestAccepted(j, m)
       THEN job' = [job EXCEPT ![j].phase = IF @ = "loaded" THEN "bound" ELSE "gated",
                               ![j].manifest = m]
       ELSE Exits(j)
    /\ UNCHANGED <<checkout, edits, nonces, stacks, ups>>

(* verify_approval: signature, issuer, subject and expiry are .valid.      *)
ApprovalBinds(a, j) ==
    /\ a.valid
    /\ a.images = job[j].images
    /\ a.commit = job[j].head
    /\ a.run = RunOf[j]
    /\ job[j].manifest # NoManifest => a.manifest = job[j].manifest

(* Faulty form of Unspent: the nonce file is opened without O_EXCL.        *)
UnspentAlways(nonce) == TRUE

(* consume_nonce_durable: open with O_CREAT | O_EXCL.                      *)
Unspent(nonce) == nonce \notin nonces

ApproveDeploy(j, a) ==
    /\ job[j].phase = "bound"
    /\ IF ApprovalBinds(a, j) /\ Unspent(a.nonce)
       THEN /\ nonces' = nonces \cup {a.nonce}
            /\ job' = [job EXCEPT ![j].phase = "approved", ![j].approval = a]
       ELSE Exits(j) /\ UNCHANGED nonces
    /\ UNCHANGED <<checkout, edits, stacks, ups>>

(* verify_approved_digests runs after the nonce is spent: a tag that has   *)
(* moved burns the approval.                                               *)
VerifyDigests(j) ==
    /\ job[j].phase = "approved"
    /\ Step(j, "approved", "gated") \/ Exits(j)
    /\ UNCHANGED <<checkout, edits, nonces, stacks, ups>>

(* Docker is there and so is every image; a test deploy reads its          *)
(* configuration here.                                                     *)
EnsureDocker(j) ==
    /\ job[j].phase = "gated"
    /\ \/ Exits(j)
       \/ job' = [job EXCEPT ![j].phase = "docker",
                             ![j].images = IF @ = "none" THEN checkout.images ELSE @]
    /\ UNCHANGED <<checkout, edits, nonces, stacks, ups>>

(* compose up with the environment built from the configuration; the       *)
(* compose file is read from the worktree as it is now.                    *)
ComposeUp(j) ==
    /\ Step(j, "docker", "ready")
    /\ stacks' = [stacks EXCEPT ![job[j].mode] = job[j].images]
    /\ ups' = IF job[j].mode = "prod"
              THEN ups \cup {[job |-> j, approval |-> job[j].approval,
                              images |-> job[j].images, head |-> job[j].head]}
              ELSE ups
    /\ UNCHANGED <<checkout, edits, nonces>>

(* compose up failed, the stack was ready, or it was not within 90 s; or   *)
(* the process was killed.  What is up stays up.                           *)
EndDeploy(j) ==
    /\ job[j].phase # "idle"
    /\ Exits(j)
    /\ UNCHANGED <<checkout, edits, nonces, stacks, ups>>

(* deploy_down.  For production it asks for an approval and passes none,   *)
(* so it is always refused.                                                *)
DeployDown ==
    /\ stacks["test"] # "none"
    /\ stacks' = [stacks EXCEPT !["test"] = "none"]
    /\ UNCHANGED <<checkout, edits, nonces, job, ups>>

DeployNext ==
    \/ EditCheckout \/ DeployDown
    \/ \E j \in Jobs :
          \/ \E m \in {"test", "prod"}, clean \in BOOLEAN : BeginDeploy(j, m, clean)
          \/ DeployConfigRefused(j) \/ LoadDeployConfig(j) \/ NotActivated(j)
          \/ \E m \in Manifests : BindManifest(j, m)
          \/ \E a \in Approvals : ApproveDeploy(j, a)
          \/ VerifyDigests(j) \/ EnsureDocker(j) \/ ComposeUp(j) \/ EndDeploy(j)

DeploySpec == DeployInit /\ [][DeployNext]_deployVars

-----------------------------------------------------------------------------
(* Every production deployment that reached Docker ran under an approval   *)
(* for exactly its images, commit and run, and an approval brings a stack  *)
(* up once: not again by a process with the same run identifier, nor by    *)
(* one that read the checkout after it was edited.                         *)
ApprovedOnce ==
    /\ \A u \in ups :
          /\ u.approval.valid /\ u.approval.images = u.images
          /\ u.approval.commit = u.head /\ u.approval.run = RunOf[u.job]
    /\ \A u, v \in ups : u.approval = v.approval => u = v
=============================================================================
