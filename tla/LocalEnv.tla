------------------------------ MODULE LocalEnv ------------------------------
(***************************************************************************)
(* `make dev` and `make dev-down` of tools/workflow: start and stop        *)
(* operations, from several terminals, on one Compose project.  Two        *)
(* workspaces may share the project: its id is a 12-digit prefix of the    *)
(* hash of the path, and only the full fingerprint on the labels tells     *)
(* them apart.  A start inspects the project, takes the non-blocking       *)
(* project lock, inspects again, and holds the lock over images, `compose  *)
(* up`, probes and report; a stop takes the lock first.  Compose runs as a *)
(* child in a session of its own: an interrupt ends the operation and      *)
(* frees the lock, and the child works on.                                 *)
(***************************************************************************)
EXTENDS FiniteSets

CONSTANTS
    EOps,         \* terminals
    EWorkspaces,  \* workspaces whose project ids collide
    EDeps         \* the dependencies of the manifest

ASSUME EnvAssumption == EWorkspaces # {} /\ "none" \notin EWorkspaces \cup EOps

VARIABLES
    holder,     \* the operation that holds the project lock, or "none"
    up,         \* the workspace on the labels of each dependency's container, or "none"
    op,         \* the operations
    child       \* the Compose child of each operation: "none", "up" or "down"

envVars == <<holder, up, op, child>>

EnvPhases == {"preflight", "lock", "revalidate", "images", "reconcile", "wait", "inspect",
              "probe", "discover", "fallback", "verify", "final"}
OperationStatuses  == {"REQUESTED", "RUNNING", "SUCCEEDED", "FAILED", "INTERRUPTED", "REJECTED"}

NoOperation == [action |-> "dev", ws |-> CHOOSE w \in EWorkspaces : TRUE, phase |-> "final",
                status |-> "REJECTED", alone |-> FALSE, left |-> {}, ready |-> {}]

EnvTypeOK ==
    /\ holder \in EOps \cup {"none"}
    /\ up \in [EDeps -> EWorkspaces \cup {"none"}]
    /\ op \in [EOps -> [action : {"dev", "dev-down"}, ws : EWorkspaces, phase : EnvPhases,
                        status : OperationStatuses, alone : BOOLEAN,
                        left : SUBSET EDeps, ready : SUBSET EDeps]]
    /\ child \in [EOps -> {"none", "up", "down"}]
    /\ holder # "none" => op[holder].phase # "final"

EnvInit ==
    /\ holder = "none"
    /\ up = [d \in EDeps |-> "none"]
    /\ op = [o \in EOps |-> NoOperation]
    /\ child = [o \in EOps |-> "none"]

(* assert_exact_ownership, authorize_label_mutation.                       *)
Owned(w) == \A d \in EDeps : up[d] \in {"none", w}

Released(o) == IF holder = o THEN "none" ELSE holder

At(o, phase) == op[o].phase = phase

Goes(o, phase) ==
    /\ op' = [op EXCEPT ![o].phase = phase]
    /\ UNCHANGED <<holder, up, child>>

(* The operation reports its outcome and the lock is released.             *)
Reports(o, status) ==
    /\ op' = [op EXCEPT ![o].phase = "final", ![o].status = status,
                        ![o].left = {}, ![o].ready = {}]
    /\ holder' = Released(o)

Fails(o, status) == Reports(o, status) /\ UNCHANGED <<up, child>>

-----------------------------------------------------------------------------
BeginOperation(o, action, w) ==
    /\ At(o, "final") /\ child[o] = "none"
    /\ op' = [op EXCEPT ![o] = [NoOperation EXCEPT
                 !.action = action, !.ws = w, !.status = "REQUESTED",
                 !.phase = IF action = "dev" THEN "preflight" ELSE "lock"]]
    /\ UNCHANGED <<holder, up, child>>

(* A start whose .env.local is not there, not complete or not local.       *)
ConfigRefused(o) == At(o, "preflight") /\ Fails(o, "REJECTED")

(* A start's read-only preflight: runtime, ownership, publishers and ports. *)
Preflight(o) ==
    /\ At(o, "preflight")
    /\ \/ Owned(op[o].ws) /\ Goes(o, "lock")
       \/ Fails(o, "REJECTED")

(* Faulty form of LockFree: the lock file is opened and never locked.      *)
LockIgnored == TRUE

\* The lock lies in the runtime directory of one user, whose terminals these are.
LockFree == holder = "none"

(* acquire_project_lock; flock(LOCK_EX | LOCK_NB).                         *)
AcquireLock(o) ==
    /\ At(o, "lock")
    /\ IF LockFree
       THEN /\ holder' = o
            /\ op' = [op EXCEPT
                  ![o].phase = IF op[o].action = "dev" THEN "revalidate" ELSE "discover",
                  ![o].status = IF op[o].action = "dev" THEN @ ELSE "RUNNING",
                  ![o].alone = \A p \in EOps : child[p] = "none"]
            /\ UNCHANGED <<up, child>>
       ELSE Fails(o, "REJECTED")

(* The runtime directory or the lock file is not safe to use.              *)
LockUnsafe(o) == At(o, "lock") /\ Fails(o, "FAILED")

-----------------------------------------------------------------------------
(* A start inside the lock.                                                *)
Revalidate(o) ==
    /\ At(o, "revalidate")
    /\ \/ /\ Owned(op[o].ws)
          /\ op' = [op EXCEPT ![o].phase = "images", ![o].status = "RUNNING"]
          /\ UNCHANGED <<holder, up, child>>
       \/ Fails(o, "FAILED")

(* Missing images are pulled; every image must have its reviewed digest.   *)
EnsureImages(o) ==
    /\ At(o, "images")
    /\ Goes(o, "reconcile") \/ Fails(o, "FAILED")

(* The readiness deadline starts; nothing is created once it is exhausted. *)
ReconcileUp(o) ==
    /\ At(o, "reconcile")
    /\ \/ /\ child' = [child EXCEPT ![o] = "up"]
          /\ op' = [op EXCEPT ![o].phase = "wait"]
          /\ UNCHANGED <<holder, up>>
       \/ Fails(o, "FAILED")

(* Fresh state after the reconcile, then the probes, all concurrent.       *)
InspectUp(o) ==
    /\ At(o, "inspect")
    /\ \/ /\ Owned(op[o].ws)
          /\ op' = [op EXCEPT ![o].phase = "probe", ![o].left = EDeps]
          /\ UNCHANGED <<holder, up, child>>
       \/ Fails(o, "FAILED")

(* A probe speaks to whatever listens on the port: the labels are not its  *)
(* business.                                                               *)
Reachable(d) == up[d] # "none"

(* A probe answers before the deadline, or does not.                       *)
ProbeDependency(o, d, answered) ==
    /\ At(o, "probe") /\ d \in op[o].left
    /\ answered => Reachable(d)
    /\ op' = [op EXCEPT ![o].left = @ \ {d}, ![o].ready = IF answered THEN @ \cup {d} ELSE @]
    /\ UNCHANGED <<holder, up, child>>

Aggregate(o) ==
    /\ At(o, "probe") /\ op[o].left = {}
    /\ Fails(o, IF op[o].ready = EDeps THEN "SUCCEEDED" ELSE "FAILED")

-----------------------------------------------------------------------------
(* A stop inside the lock: discover, then `compose down`.                  *)
Discover(o) ==
    /\ At(o, "discover")
    /\ \/ /\ Owned(op[o].ws)
          /\ IF \A d \in EDeps : up[d] = "none"
             THEN Goes(o, "verify")
             ELSE /\ child' = [child EXCEPT ![o] = "down"]
                  /\ op' = [op EXCEPT ![o].phase = "wait"]
                  /\ UNCHANGED <<holder, up>>
       \/ Fails(o, "FAILED")

(* Compose could not parse the model: the containers listed now, all owned, *)
(* are stopped and removed one by one; another of the name is another id.  *)
FallbackList(o) ==
    /\ At(o, "wait") /\ op[o].action = "dev-down" /\ child[o] = "down"
    /\ child' = [child EXCEPT ![o] = "none"]
    /\ IF Owned(op[o].ws)
       THEN /\ op' = [op EXCEPT ![o].phase = "fallback",
                                ![o].left = {d \in EDeps : up[d] # "none"}]
            /\ UNCHANGED <<holder, up>>
       ELSE Reports(o, "FAILED") /\ UNCHANGED up

RemoveExact(o, d) ==
    /\ At(o, "fallback") /\ d \in op[o].left
    /\ \/ /\ up[d] = op[o].ws
          /\ up' = [up EXCEPT ![d] = "none"]
          /\ op' = [op EXCEPT ![o].left = @ \ {d}]
          /\ UNCHANGED <<holder, child>>
       \/ Fails(o, "FAILED")

FallbackDone(o) == At(o, "fallback") /\ op[o].left = {} /\ Goes(o, "verify")

(* Containers gone, volumes kept, no foreign labels.                       *)
VerifyDown(o) ==
    /\ At(o, "verify")
    /\ \/ (\A d \in EDeps : up[d] = "none") /\ Fails(o, "SUCCEEDED")
       \/ Fails(o, "FAILED")

-----------------------------------------------------------------------------
(* The Compose child at work, whether or not its operation still waits: up *)
(* recreates what is not of its workspace, down removes what the project   *)
(* has.                                                                    *)
Wanted(o) == IF child[o] = "up" THEN op[o].ws ELSE "none"

ComposeStep(o, d) ==
    /\ child[o] # "none" /\ up[d] # Wanted(o)
    /\ up' = [up EXCEPT ![d] = Wanted(o)]
    /\ UNCHANGED <<holder, op, child>>

ComposeEnds(o) ==
    /\ child[o] # "none"
    /\ \A d \in EDeps : up[d] = Wanted(o)
    /\ child' = [child EXCEPT ![o] = "none"]
    /\ op' = IF At(o, "wait")
             THEN [op EXCEPT ![o].phase = IF child[o] = "up" THEN "inspect" ELSE "verify"]
             ELSE op
    /\ UNCHANGED <<holder, up>>

(* It fails, or runs out of its time and its process group is killed.      *)
ComposeFails(o) ==
    /\ child[o] # "none"
    /\ child' = [child EXCEPT ![o] = "none"]
    /\ IF At(o, "wait") THEN Reports(o, "FAILED") ELSE UNCHANGED <<holder, op>>
    /\ UNCHANGED up

(* Ctrl-C, or the process is killed: the kernel drops the lock too.        *)
Interrupt(o) == ~At(o, "final") /\ Fails(o, "INTERRUPTED")

EnvNext ==
    \E o \in EOps :
       \/ \E a \in {"dev", "dev-down"}, w \in EWorkspaces : BeginOperation(o, a, w)
       \/ ConfigRefused(o) \/ Preflight(o) \/ AcquireLock(o) \/ LockUnsafe(o)
       \/ Revalidate(o) \/ EnsureImages(o) \/ ReconcileUp(o) \/ InspectUp(o)
       \/ \E d \in EDeps, answered \in BOOLEAN : ProbeDependency(o, d, answered)
       \/ Aggregate(o)
       \/ Discover(o) \/ FallbackList(o) \/ FallbackDone(o) \/ VerifyDown(o)
       \/ \E d \in EDeps : RemoveExact(o, d) \/ ComposeStep(o, d)
       \/ ComposeEnds(o) \/ ComposeFails(o) \/ Interrupt(o)

EnvSpec == EnvInit /\ [][EnvNext]_envVars

-----------------------------------------------------------------------------
(* An operation that found no Compose child at work when it took the lock  *)
(* has the project to itself: it changes no container of another           *)
(* workspace, and what it reports is so at that moment, every dependency   *)
(* up under its own labels after a start that passed, none up after a stop *)
(* that passed.  A child that outlives an interrupt is the exception the   *)
(* code leaves.                                                            *)
HadToItself(o) == op[o].alone /\ op'[o].status # op[o].status /\ op'[o].status = "SUCCEEDED"

LockedLifecycle ==
    [][/\ \A d \in EDeps : up[d] # "none" /\ up'[d] # up[d] =>
             \E o \in EOps :
                /\ child[o] # "none" \/ At(o, "fallback")
                /\ op[o].ws = up[d] \/ ~op[o].alone \/ holder # o
       /\ \A o \in EOps : HadToItself(o) =>
             IF op[o].action = "dev" THEN \A d \in EDeps : up[d] = op[o].ws
             ELSE \A d \in EDeps : up[d] = "none"]_envVars
=============================================================================
