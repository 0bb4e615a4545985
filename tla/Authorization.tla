--------------------------- MODULE Authorization ----------------------------
(***************************************************************************)
(* Authorization in api-service (app/domain/authorization/service.py over  *)
(* app/repositories/authorization.py): the account, the role matrix, the   *)
(* owner of the resource, the change a fixture route asks for, and the     *)
(* security event that is stored with the change or before a refusal.      *)
(*                                                                         *)
(* Every await is a point at which other requests go on.  A request is one *)
(* transaction; its statements see what is committed (READ COMMITTED), and *)
(* a flushed row stays locked until the end.  Every statement may fail,    *)
(* and a commit whose answer is lost may have happened.                    *)
(*                                                                         *)
(* An account and its role do not change here, and a resource stands for a *)
(* type and an id.                                                         *)
(***************************************************************************)
EXTENDS Naturals

CONSTANTS
    ZReqs,       \* requests
    ZResources,  \* resources
    AccountOf,   \* per user, the account: its status and role
    ZActions     \* the actions that are asked for

ASSUME AuthzAssumption == "nobody" \notin DOMAIN AccountOf

VARIABLES
    ownership,  \* resource_ownerships
    events,     \* authorization_security_events
    zreq        \* a request: its step and what it has read

authzVars == <<ownership, events, zreq>>

ZUsers == DOMAIN AccountOf
Nobody == "nobody"
Lifecycles == {"active", "disabled", "soft_deleted"}
Unowned == [owner |-> Nobody, life |-> "none", version |-> 0]
NewZ == [pc |-> "new", user |-> Nobody, action |-> "none", x |-> "none", mutate |-> FALSE,
         life |-> "none", row |-> Unowned, code |-> "none", changed |-> FALSE, todo |-> {}]

----------------------------------------------------------------------------
(* The matrix *)

BuyerActions == {"proxy_key.create", "proxy_key.revoke", "proxy_key.use",
    "route_candidate_exclude_self", "project.create", "project.read", "project.update",
    "project.archive", "project.delete", "project.enable_protocol", "binding.create",
    "binding.read", "binding.publish", "binding.deactivate"}
SellerActions == {"seller_key.register", "seller_key.read", "seller_key.update",
    "seller_key.disable", "connection.create", "connection.read", "connection.update",
    "connection.delete"}
Matrix == [buyer |-> BuyerActions, seller |-> SellerActions, both |-> BuyerActions \cup SellerActions]

CreateActions == {"proxy_key.create", "seller_key.register", "connection.create"}
UpdateActions == {"proxy_key.revoke", "seller_key.disable", "seller_key.update"}
\* What the fixture routes admit; connection.create is only evaluated.
FixtureActions == UpdateActions \cup {"proxy_key.create", "seller_key.register"}

\* The workspace is a lens on the role and never more than it.
EffectiveRole(role, workspace) ==
    CASE workspace = "none" -> role
      [] workspace # "none" /\ role = "both" -> workspace
      [] OTHER -> IF role = workspace THEN role ELSE "none"

AccountCode(user, action, workspace) ==
    LET a == AccountOf[user]
        lens == EffectiveRole(a.role, workspace)
    IN CASE a.status # "active" -> "ACCOUNT_UNAVAILABLE"
         [] a.status = "active" /\ (lens = "none" \/ action \notin Matrix[lens]) -> "FORBIDDEN_ROLE"
         [] OTHER -> "none"

\* A resource of another and one that is deleted are answered like one that is not there.
OwnershipCode(row, user, action) ==
    IF \/ row.owner # user \/ row.life = "soft_deleted"
       \/ action = "proxy_key.use" /\ row.life # "active"
    THEN "RESOURCE_NOT_FOUND" ELSE "none"

----------------------------------------------------------------------------
AuthzTypeOK ==
    /\ ownership \in [ZResources -> [owner : ZUsers \cup {Nobody}, life : Lifecycles \cup {"none"},
                                     version : Nat]]
    /\ \A e \in events : /\ e.req \in ZReqs /\ e.actor \in ZUsers
                         /\ e.outcome \in {"denied", "allowed_state_change"}
    /\ \A r \in ZReqs : zreq[r].pc \in {"new", "read", "route", "write", "finalize", "deny", "end"}

AuthzInit ==
    \* a row may be older than the events that are still kept
    /\ ownership \in [ZResources -> {Unowned} \cup [owner : ZUsers, life : {"active"}, version : {1}]]
    /\ events = {}
    /\ zreq = [r \in ZReqs |-> NewZ]

Answer(r, code) == zreq' = [zreq EXCEPT ![r].pc = "end", ![r].code = code, ![r].todo = {}]

\* The request ends with 503: what it has flushed is rolled back and nothing is stored.
Unavailable(r) == Answer(r, "SERVICE_UNAVAILABLE") /\ UNCHANGED <<ownership, events>>

\* Another transaction has flushed a change of the row and not ended.
Locked(r, x) == \E o \in ZReqs \ {r} : zreq[o].pc = "finalize" /\ zreq[o].changed /\ zreq[o].x = x

Mutates(q) == q.mutate /\ q.action \in UpdateActions

\* authorize up to the first read of an ownership.
BeginAuthorize(r, user, action, x, workspace, mutate, life) ==
    LET code == AccountCode(user, action, workspace)
        next == CASE code # "none" -> "deny"
                  [] code = "none" /\ action = "route_candidate_exclude_self" -> "route"
                  [] code = "none" /\ action \in CreateActions -> IF mutate THEN "write" ELSE "finalize"
                  [] OTHER -> "read"
    IN /\ zreq[r].pc = "new"
       /\ mutate => action \in FixtureActions
       /\ life # "none" => mutate /\ action \in UpdateActions
       /\ zreq' = [zreq EXCEPT ![r] = [NewZ EXCEPT !.pc = next, !.user = user, !.action = action,
                      !.x = x, !.mutate = mutate, !.life = life, !.code = code,
                      !.todo = IF next = "route" THEN ZResources ELSE {}]]
       /\ UNCHANGED <<ownership, events>>

\* The user or the ownership cannot be loaded.
LoadFails(r) == zreq[r].pc \in {"read", "route"} /\ Unavailable(r)

ReadOwnership(r) ==
    LET q == zreq[r]
        row == ownership[q.x]
        code == OwnershipCode(row, q.user, q.action)
        next == CASE code # "none" -> "deny" [] code = "none" /\ Mutates(q) -> "write" [] OTHER -> "finalize"
    IN /\ q.pc = "read"
       /\ zreq' = [zreq EXCEPT ![r].pc = next, ![r].row = row, ![r].code = code]
       /\ UNCHANGED <<ownership, events>>

\* Candidates are looked up one by one; the first that stays is enough to answer 200.
ReadCandidate(r, x) ==
    LET q == zreq[r]
        stays == ownership[x].owner # q.user /\ ownership[x].life = "active"
    IN /\ q.pc = "route" /\ x \in q.todo
       /\ zreq' = [zreq EXCEPT ![r].todo = IF stays THEN {} ELSE @ \ {x},
                               ![r].pc = IF stays THEN "finalize" ELSE @]
       /\ UNCHANGED <<ownership, events>>

NoCandidate(r) ==
    /\ zreq[r].pc = "route" /\ zreq[r].todo = {}
    /\ zreq' = [zreq EXCEPT ![r].pc = "deny", ![r].code = "NO_ROUTE_CANDIDATE"]
    /\ UNCHANGED <<ownership, events>>

\* The status a row gets; a column that is set to the value it was read with is not written.
NewLife(q) ==
    CASE q.action = "proxy_key.revoke" -> "disabled"
      [] q.action = "seller_key.disable" -> IF q.life = "none" THEN "disabled" ELSE q.life
      [] OTHER -> IF q.life = "none" THEN q.row.life ELSE q.life

Written(q, now) ==
    IF q.action \in CreateActions THEN [owner |-> q.user, life |-> "active", version |-> 1]
    ELSE [now EXCEPT !.life = IF NewLife(q) = q.row.life THEN @ ELSE NewLife(q),
                     !.version = q.row.version + 1]

\* create_ownership or update_ownership_status; a second row of a resource is refused.
Flush(r) ==
    LET q == zreq[r] IN
    /\ q.pc = "write"
    /\ ~Locked(r, q.x)
    /\ q.action \in CreateActions => ownership[q.x] = Unowned
    /\ zreq' = [zreq EXCEPT ![r].pc = "finalize", ![r].changed = TRUE]
    /\ UNCHANGED <<ownership, events>>

FlushFails(r) == zreq[r].pc = "write" /\ Unavailable(r)

----------------------------------------------------------------------------
Event(r, outcome) ==
    [req |-> r, actor |-> zreq[r].user, action |-> zreq[r].action, x |-> zreq[r].x, outcome |-> outcome]

\* requires_per_request_audit: a change and a refusal are audited, other permissions are not.
NeedsAudit(q) == q.changed \/ q.code # "none"

\* Faulty form of CommitAllowed: a change is committed whether or not its event was stored.
CommitAllowedUnaudited(r, stored) ==
    LET q == zreq[r] IN
    /\ q.pc = "finalize"
    /\ events' = IF NeedsAudit(q) /\ stored THEN events \cup {Event(r, "allowed_state_change")} ELSE events
    /\ ownership' = IF q.changed THEN [ownership EXCEPT ![q.x] = Written(q, @)] ELSE ownership
    /\ \E code \in {"OK", "SERVICE_UNAVAILABLE"} : Answer(r, code)

\* _finalize_allowed: the event is stored, then change and event are committed together.
CommitAllowed(r, stored) ==
    LET q == zreq[r] IN
    /\ q.pc = "finalize"
    /\ NeedsAudit(q) => stored
    /\ events' = IF NeedsAudit(q) THEN events \cup {Event(r, "allowed_state_change")} ELSE events
    /\ ownership' = IF q.changed THEN [ownership EXCEPT ![q.x] = Written(q, @)] ELSE ownership
    /\ \E code \in {"OK", "SERVICE_UNAVAILABLE"} : Answer(r, code)

\* _denied: the event is committed before the refusal is told.
CommitDenied(r) ==
    /\ zreq[r].pc = "deny"
    /\ events' = events \cup {Event(r, "denied")}
    /\ \E code \in {zreq[r].code, "SERVICE_UNAVAILABLE"} : Answer(r, code)
    /\ UNCHANGED ownership

\* The event is not stored or the commit fails.
EndFails(r) == zreq[r].pc \in {"finalize", "deny"} /\ Unavailable(r)

AuthzNext ==
    \E r \in ZReqs :
       \/ \E user \in ZUsers, action \in ZActions, x \in ZResources,
             workspace \in {"none", "buyer", "seller"}, mutate \in BOOLEAN,
             life \in Lifecycles \cup {"none"} :
             BeginAuthorize(r, user, action, x, workspace, mutate, life)
       \/ LoadFails(r) \/ ReadOwnership(r) \/ NoCandidate(r)
       \/ \E x \in ZResources : ReadCandidate(r, x)
       \/ Flush(r) \/ FlushFails(r) \/ EndFails(r)
       \/ \E stored \in BOOLEAN : CommitAllowed(r, stored)
       \/ CommitDenied(r)

----------------------------------------------------------------------------
\* A row is only ever changed together with the event that tells of it, by the owner the row
\* has and keeps, and no refusal is told whose event is not stored (_finalize_allowed,
\* _denied): the requests, their failures and their locks may fall in any order.
ChangeAudited ==
    [][/\ \A x \in ZResources : ownership'[x] # ownership[x] =>
             \E e \in events' \ events : /\ e.x = x /\ e.outcome = "allowed_state_change"
                                         /\ e.actor = ownership'[x].owner
                                         /\ ownership[x].owner \in {Nobody, e.actor}
       /\ \A r \in ZReqs : zreq'[r].pc = "end" /\ zreq'[r].code \notin {"OK", "SERVICE_UNAVAILABLE"} =>
             \E e \in events' : e.req = r /\ e.outcome = "denied"]_authzVars
=============================================================================
