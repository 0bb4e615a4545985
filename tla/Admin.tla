------------------------------- MODULE Admin --------------------------------
(***************************************************************************)
(* admin-service: operators, their sessions and the step-up before risky   *)
(* actions (domain/admin/service.py), the wizards that carry such actions  *)
(* out (domain/ops/wizard.py) and the pipeline that publishes prices and   *)
(* routes (domain/ops/pipeline.py), behind api/admin.py and api/ops.py.    *)
(*                                                                         *)
(* Everything is in the memory of one process and is lost with it, and a   *)
(* handler does not let go of the process.  The clock does not stop,       *)
(* though: a step-up and a wizard may run out at any moment, also between  *)
(* the two looks a handler takes at the clock.                             *)
(*                                                                         *)
(* Passwords and codes are taken as right; reasons are given.              *)
(***************************************************************************)
EXTENDS Integers

CONSTANTS
    Operators,   \* per operator [role, readonly]: the seeded accounts
    Wizards,     \* wizard ids
    Drafts,      \* draft ids
    Payloads,    \* contents of a price or route configuration
    MaxActive    \* bound: versions stop here

ASSUME AdminAssumption == "default" \in Payloads /\ MaxActive \in Nat \ {0}

VARIABLES
    sessions,    \* per operator, its session and whether it has stepped up of late
    wizards,     \* per id, its kind and status
    executed,    \* per wizard, how often its action was carried out and audited
    drafts,      \* per id, its kind, payload, status and whether its simulation passed
    active,      \* per kind, version and payload in force
    history,     \* per kind and version, the payload a rollback to it finds: the first there was
    breakGlass   \* the break-glass cases: "none", "open" or "closed" per operator

adminVars == <<sessions, wizards, executed, drafts, active, history, breakGlass>>

ADMINS == DOMAIN Operators
Kinds == {"price", "route"}
WizardAction == [replace_dedicated |-> "connection.replace_dedicated", reverse |-> "ledger.reverse",
                 force_logout |-> "user.force_logout"]
WriteAction == [price |-> "price.publish", route |-> "route.rollback"]
HIGH_RISK == {"price.publish", "route.rollback", "connection.replace_dedicated",
              "user.force_logout", "ledger.reverse", "break_glass"}

\* What a role may change; the rest of the matrix is reading.
Writes == [support |-> {"user.force_logout"}, supply_ops |-> {"connection.replace_dedicated"},
           pricing |-> {"price.publish", "route.rollback"}, ledger |-> {"ledger.reverse"},
           security_audit |-> {"user.force_logout", "break_glass"}]

\* evaluate: readonly accounts change nothing.
Evaluate(a, action) == ~Operators[a].readonly /\ action \in Writes[Operators[a].role]

NoWizard == [kind |-> "none", status |-> "none"]
NoDraft == [kind |-> "none", payload |-> "none", status |-> "none", simOk |-> FALSE]

\* _simulate_ok: it depends on the payload alone.
SimulateOk(payload) == payload # "invalid"

AdminTypeOK ==
    /\ sessions \in [ADMINS -> {"none", "plain", "stepped"}]
    /\ wizards \in [Wizards -> {NoWizard} \cup [kind : DOMAIN WizardAction,
                       status : {"pending", "confirmed", "cancelled", "expired"}]]
    /\ executed \in [Wizards -> Nat]
    /\ drafts \in [Drafts -> {NoDraft} \cup [kind : Kinds, payload : Payloads, simOk : BOOLEAN,
                      status : {"draft", "simulated", "failed", "approved", "published"}]]
    /\ active \in [Kinds -> [version : 1 .. MaxActive, payload : Payloads]]
    /\ history \in [Kinds -> [1 .. MaxActive -> Payloads \cup {"none"}]]
    /\ breakGlass \in [ADMINS -> {"none", "open", "closed"}]

\* The configuration a process starts with.
Initial == [version |-> 1, payload |-> "default"]
InitialHistory == [v \in 1 .. MaxActive |-> IF v = 1 THEN "default" ELSE "none"]

AdminInit ==
    /\ sessions = [a \in ADMINS |-> "none"]
    /\ wizards = [z \in Wizards |-> NoWizard]
    /\ executed = [z \in Wizards |-> 0]
    /\ drafts = [f \in Drafts |-> NoDraft]
    /\ active = [k \in Kinds |-> Initial]
    /\ history = [k \in Kinds |-> InitialHistory]
    /\ breakGlass = [a \in ADMINS |-> "none"]

----------------------------------------------------------------------------
(* Sessions *)

SetSession(a, state) ==
    /\ sessions' = [sessions EXCEPT ![a] = state]
    /\ UNCHANGED <<wizards, executed, drafts, active, history, breakGlass>>

\* Of the sessions an operator may have, the newest one.
LogIn(a) == SetSession(a, "plain")
LogOut(a) == SetSession(a, "none")
StepUp(a) == sessions[a] # "none" /\ SetSession(a, "stepped")
StepUpExpires(a) == sessions[a] = "stepped" /\ SetSession(a, "plain")

\* _require and ensure_action: a session, the role, and for risky actions the step-up.
Require(a, action) == sessions[a] # "none" /\ Evaluate(a, action)
EnsureAction(a, action) == Require(a, action) /\ (action \in HIGH_RISK => sessions[a] = "stepped")

----------------------------------------------------------------------------
(* Actions and break-glass *)

\* execute("break_glass"): audit row, case and alert; a case may be open already.
OpenBreakGlass(a) ==
    /\ EnsureAction(a, "break_glass")
    /\ breakGlass' = [breakGlass EXCEPT ![a] = "open"]
    /\ UNCHANGED <<sessions, wizards, executed, drafts, active, history>>

\* By any operator of the audit role, without a step-up.
CloseBreakGlass(a, case) ==
    /\ sessions[a] # "none" /\ Operators[a].role = "security_audit" /\ ~Operators[a].readonly
    /\ breakGlass[case] # "none"
    /\ breakGlass' = [breakGlass EXCEPT ![case] = "closed"]
    /\ UNCHANGED <<sessions, wizards, executed, drafts, active, history>>

----------------------------------------------------------------------------
(* Wizards *)

StartWizard(a, z, kind) ==
    /\ wizards[z] = NoWizard
    /\ Require(a, WizardAction[kind])
    /\ wizards' = [wizards EXCEPT ![z] = [kind |-> kind, status |-> "pending"]]
    /\ UNCHANGED <<sessions, executed, drafts, active, history, breakGlass>>

\* Time runs out; that it has is written down when the wizard is looked at next.
ExpireWizard(z) ==
    /\ wizards[z].status = "pending"
    /\ wizards' = [wizards EXCEPT ![z].status = "expired"]
    /\ UNCHANGED <<sessions, executed, drafts, active, history, breakGlass>>

\* Faulty form of Confirmable: only a wizard that was cancelled or has expired is refused.
ConfirmableAgain(z) == wizards[z].status \notin {"none", "cancelled", "expired"}

Confirmable(z) == wizards[z].status = "pending"

\* The action is checked and audited before the wizard is marked: a refusal leaves it pending.
ConfirmWizard(a, z) ==
    /\ Confirmable(z)
    /\ EnsureAction(a, WizardAction[wizards[z].kind])
    /\ executed' = [executed EXCEPT ![z] = @ + 1]
    /\ wizards' = [wizards EXCEPT ![z].status = "confirmed"]
    /\ UNCHANGED <<sessions, drafts, active, history, breakGlass>>

CancelWizard(a, z) ==
    /\ wizards[z].status \notin {"none", "confirmed"}
    /\ Require(a, WizardAction[wizards[z].kind])
    /\ wizards' = [wizards EXCEPT ![z].status = "cancelled"]
    /\ UNCHANGED <<sessions, executed, drafts, active, history, breakGlass>>

----------------------------------------------------------------------------
(* The pipeline *)

CreateDraft(a, f, kind, payload) ==
    /\ drafts[f] = NoDraft
    /\ Require(a, WriteAction[kind])
    /\ drafts' = [drafts EXCEPT ![f] = [kind |-> kind, payload |-> payload, status |-> "draft", simOk |-> FALSE]]
    /\ UNCHANGED <<sessions, wizards, executed, active, history, breakGlass>>

\* A draft in any state may be simulated again, one that is published too.
Simulate(a, f) ==
    LET ok == SimulateOk(drafts[f].payload) IN
    /\ drafts[f] # NoDraft /\ Require(a, WriteAction[drafts[f].kind])
    /\ drafts' = [drafts EXCEPT ![f].simOk = ok, ![f].status = IF ok THEN "simulated" ELSE "failed"]
    /\ UNCHANGED <<sessions, wizards, executed, active, history, breakGlass>>

Approve(a, f) ==
    /\ drafts[f].simOk /\ drafts[f].status \in {"simulated", "approved"}
    /\ Require(a, WriteAction[drafts[f].kind])
    /\ drafts' = [drafts EXCEPT ![f].status = "approved"]
    /\ UNCHANGED <<sessions, wizards, executed, active, history, breakGlass>>

\* Between the check and the second look at the clock, in execute, the step-up may run out:
\* what was changed stays, and the answer is 401.
MayExpire(a) == sessions' \in {sessions, [sessions EXCEPT ![a] = "plain"]}

Publishable(f) == drafts[f].simOk /\ drafts[f].status = "approved"

\* The version counts on from the active one, which a rollback may have put back.
Publish(a, f) ==
    LET kind == drafts[f].kind
        next == [version |-> active[kind].version + 1, payload |-> drafts[f].payload]
    IN /\ Publishable(f)
       /\ EnsureAction(a, WriteAction[kind])
       /\ active[kind].version < MaxActive
       /\ active' = [active EXCEPT ![kind] = next]
       /\ history' = [history EXCEPT ![kind][next.version] = IF @ = "none" THEN next.payload ELSE @]
       /\ drafts' = [drafts EXCEPT ![f].status = "published"]
       /\ MayExpire(a)
       /\ UNCHANGED <<wizards, executed, breakGlass>>

\* Two publications may have had the version: the earlier one is restored.
Rollback(a, kind, to) ==
    /\ EnsureAction(a, WriteAction[kind])
    /\ history[kind][to] # "none"
    /\ active' = [active EXCEPT ![kind] = [version |-> to, payload |-> history[kind][to]]]
    /\ MayExpire(a)
    /\ UNCHANGED <<wizards, executed, drafts, history, breakGlass>>

----------------------------------------------------------------------------
\* Everything is lost.
AdminRestart ==
    /\ sessions' = [a \in ADMINS |-> "none"]
    /\ wizards' = [z \in Wizards |-> NoWizard]
    /\ executed' = [z \in Wizards |-> 0]
    /\ drafts' = [f \in Drafts |-> NoDraft]
    /\ active' = [k \in Kinds |-> Initial]
    /\ history' = [k \in Kinds |-> InitialHistory]
    /\ breakGlass' = [a \in ADMINS |-> "none"]

AdminNext ==
    \/ AdminRestart
    \/ \E z \in Wizards : ExpireWizard(z)
    \/ \E a \in ADMINS :
          \/ LogIn(a) \/ LogOut(a) \/ StepUp(a) \/ StepUpExpires(a) \/ OpenBreakGlass(a)
          \/ \E case \in ADMINS : CloseBreakGlass(a, case)
          \/ \E z \in Wizards : \/ \E kind \in DOMAIN WizardAction : StartWizard(a, z, kind)
                                \/ ConfirmWizard(a, z) \/ CancelWizard(a, z)
          \/ \E f \in Drafts : \/ \E kind \in Kinds, payload \in Payloads : CreateDraft(a, f, kind, payload)
                               \/ Simulate(a, f) \/ Approve(a, f) \/ Publish(a, f)
          \/ \E kind \in Kinds, to \in 1 .. MaxActive : Rollback(a, kind, to)

----------------------------------------------------------------------------
\* The action of a wizard is carried out once when it is confirmed, and never when it was
\* cancelled or ran out, before or after (wizard.py confirm, cancel): each of them may be
\* asked for by several operators in any order.
WizardExecutesOnce ==
    \A z \in Wizards : executed[z] = IF wizards[z].status = "confirmed" THEN 1 ELSE 0
=============================================================================
