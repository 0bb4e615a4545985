----------------------------- MODULE ProxyKeys ------------------------------
(***************************************************************************)
(* The proxy keys of a buyer in api-service (proxykeys/service.py and its  *)
(* repository): issue under an idempotency key, rotate, disable, enable    *)
(* and revoke.  A row holds the hash of one secret at a time.              *)
(*                                                                         *)
(* The handlers run in one event loop without an await, so nothing comes   *)
(* between two of their transactions but the end of the process; the       *)
(* answer may be lost after any of them.  Role, scope and form of the      *)
(* arguments only refuse.  One idempotency key is used with one content.   *)
(***************************************************************************)
EXTENDS Naturals, FiniteSets

CONSTANTS
    PKeys,    \* rows
    Secrets,  \* secrets
    IdemKeys  \* idempotency keys; NoIdem stands for a request without one

ASSUME KeysAssumption == "none" \notin PKeys \cup Secrets \cup IdemKeys

VARIABLES
    keyOf,    \* a row: status and secret
    spent,    \* secrets generated so far
    idem,     \* the row an idempotency key answers with
    answered  \* <<idempotency key, row>> the buyer has been told of, with the secret or again

keyVars == <<keyOf, spent, idem, answered>>

NoIdem == "none"
NoKey == "none"
NoSecret == "none"

KeysTypeOK ==
    /\ keyOf \in [PKeys -> [status : {"absent", "active", "disabled", "revoked"}, secret : Secrets \cup {NoSecret}]]
    /\ spent \subseteq Secrets
    /\ idem \in [IdemKeys -> PKeys \cup {NoKey}]
    /\ answered \subseteq IdemKeys \X PKeys

KeysInit ==
    /\ keyOf = [k \in PKeys |-> [status |-> "absent", secret |-> NoSecret]]
    /\ spent = {}
    /\ idem = [i \in IdemKeys |-> NoKey]
    /\ answered = {}

\* generate_proxy_secret: a secret that was never seen.
Generate(s) == s \notin spent /\ spent' = spent \cup {s}

\* get_by_hash for the gateway: at most one row has a hash.
ActiveRow(s) == \E k \in PKeys : keyOf[k] = [status |-> "active", secret |-> s]

Insert(k, s) ==
    /\ keyOf[k].status = "absent" /\ Generate(s)
    /\ keyOf' = [keyOf EXCEPT ![k] = [status |-> "active", secret |-> s]]

\* Faulty form of IssueNew: the idempotency key is not looked up before the row is made.
IssueUnchecked(i, k, s) ==
    /\ Insert(k, s)
    /\ IF i = NoIdem THEN UNCHANGED <<idem, answered>>
       ELSE /\ idem' = [idem EXCEPT ![i] = k]
            /\ answered' \in {answered, answered \cup {<<i, k>>}}

\* The row and the idempotency key are two transactions: the process may end between them,
\* or before the answer.
IssueNew(i, k, s) ==
    /\ i # NoIdem => idem[i] = NoKey
    /\ Insert(k, s)
    /\ IF i = NoIdem THEN UNCHANGED <<idem, answered>>
       ELSE \/ UNCHANGED <<idem, answered>>
            \/ /\ idem' = [idem EXCEPT ![i] = k]
               /\ answered' \in {answered, answered \cup {<<i, k>>}}

\* A retry is told of the same row, without the secret.
IssueAgain(i) ==
    /\ idem[i] # NoKey
    /\ answered' = answered \cup {<<i, idem[i]>>}
    /\ UNCHANGED <<keyOf, spent, idem>>

\* A rotated key is active, whatever it was.
Rotate(k, s) ==
    /\ keyOf[k].status \in {"active", "disabled"} /\ Generate(s)
    /\ keyOf' = [keyOf EXCEPT ![k] = [status |-> "active", secret |-> s]]
    /\ UNCHANGED <<idem, answered>>

SaveStatus(k, from, to) ==
    /\ keyOf[k].status \in from
    /\ keyOf' = [keyOf EXCEPT ![k].status = to]
    /\ UNCHANGED <<spent, idem, answered>>

Disable(k) == SaveStatus(k, {"active"}, "disabled")
Enable(k) == SaveStatus(k, {"disabled"}, "active")
Revoke(k) == SaveStatus(k, {"active", "disabled"}, "revoked")

KeysNext ==
    \/ \E k \in PKeys : \/ Disable(k) \/ Enable(k) \/ Revoke(k)
                        \/ \E s \in Secrets : Rotate(k, s) \/ \E i \in IdemKeys \cup {NoIdem} : IssueNew(i, k, s)
    \/ \E i \in IdemKeys : IssueAgain(i)

----------------------------------------------------------------------------
\* However often a request is retried and wherever the process ended in between, a buyer is
\* told of one key under one idempotency key, and that one is the key on record
\* (proxykeys/service.py:230,263).
OneKeyAnswered ==
    \A i \in IdemKeys : \A k, l \in PKeys :
        <<i, k>> \in answered /\ <<i, l>> \in answered => k = l /\ idem[i] = k
=============================================================================
