------------------------------- MODULE Supply -------------------------------
(***************************************************************************)
(* Provider connections and the bindings that use them, in api-service     *)
(* (app/domain/connections/lifecycle.py, app/domain/connections/service.py *)
(* and app/domain/bindings/service.py over the SQL stores).                *)
(*                                                                         *)
(* A seller takes a connection from draft to retired; a buyer binds        *)
(* projects to connections.  Every store call is a transaction of its own, *)
(* so that a handler is several steps: it reads, decides on what it read,  *)
(* writes, and goes on with the other table.  Handlers of one process do   *)
(* not interleave (no await between their store calls), those of several   *)
(* processes do.  Reads that follow each other are one step.  A read and   *)
(* the conditional write right after it are one step where nothing else    *)
(* that is written can have changed meanwhile: the write fails otherwise.  *)
(*                                                                         *)
(* Credentials are abstracted, and health to "fit": healthy with at least  *)
(* one capability snapshot.  Roles and ownership are checked beforehand.   *)
(***************************************************************************)
EXTENDS Integers, FiniteSetsExt

CONSTANTS
    Workers,    \* processes of api-service
    Conns,      \* connection ids
    Bindings,   \* binding ids
    Slots,      \* project and protocol pairs
    Dedicated,  \* the slots of projects whose mode is dedicated
    NoConn, NoSlot,
    MayAbort,   \* whether a handler may end between two store calls
    MaxVersion  \* bound: versions stop here

ASSUME SupplyConstants ==
    /\ NoConn \notin Conns
    /\ NoSlot \notin Slots
    /\ Dedicated \subseteq Slots
    /\ MayAbort \in BOOLEAN
    /\ MaxVersion \in Nat

VARIABLES
    conn,     \* provider_connections: per id, its row
    binding,  \* provider_bindings: per id, its row
    job       \* per process, the handler it is in and what that has read

vars == <<conn, binding, job>>

Modes == {"shared", "dedicated"}
Lives == {"draft", "verified", "listed", "bound", "paused", "draining", "retired"}
LIVE == {"listed", "bound"}
MODE_OPEN == {"draft", "verified"}
IDLE_LIFECYCLES == {"listed", "verified"}
PUBLISHED == {"active", "inactive", "degraded"}
Serving == {"active", "degraded"}

ALLOWED == { <<"draft", "verified">>, <<"draft", "retired">>,
             <<"verified", "listed">>, <<"verified", "retired">>,
             <<"listed", "bound">>, <<"listed", "paused">>, <<"listed", "draining">>,
             <<"bound", "paused">>, <<"bound", "draining">>, <<"bound", "listed">>,
             <<"paused", "listed">>, <<"paused", "bound">>, <<"paused", "draining">>,
             <<"paused", "retired">>, <<"draining", "retired">> }

NoConnRow == [life |-> "none", mode |-> "shared", gone |-> FALSE, fit |-> FALSE]
NoBindingRow == [status |-> "none", slot |-> NoSlot, version |-> 0, conn |-> NoConn]
ConnRows == [life : Lives, mode : Modes, gone : BOOLEAN, fit : BOOLEAN]
BindingRows == [status : {"draft", "validated"} \cup PUBLISHED, slot : Slots,
                version : 0..MaxVersion, conn : Conns \cup {NoConn}]

----------------------------------------------------------------------------
(* What the services look up.                                              *)

\* transition() lets a state stay what it is.
Transition(from, to) == from = to \/ <<from, to>> \in ALLOWED

\* The seller's own connection, not deleted.
Owned(c) == conn[c].life # "none" /\ ~conn[c].gone

\* get_fact(): only a connection that is not deleted gives a fact.
UsableDedicated(c) == Owned(c) /\ conn[c].mode = "dedicated"

IsDedicated(row) == row.slot \in Dedicated

\* BindingDependencies: the bindings that keep a connection from retiring.
Blockers(c) == {b \in Bindings : binding[b].conn = c /\ binding[b].status \in Serving}

\* list_routable(): what new requests of a mode may be sent to.
AdmitsNew(c) == Owned(c) /\ conn[c].life \in LIVE /\ conn[c].fit
Routable(mode) == {c \in Conns : AdmitsNew(c) /\ conn[c].mode = mode}

InSlot(s) == {b \in Bindings : binding[b].slot = s}

\* active(): the serving binding of the highest version.
Latest(s) == {b \in InSlot(s) : /\ binding[b].status \in Serving
                                /\ \A o \in InSlot(s) : binding[o].status \in Serving
                                      => binding[o].version <= binding[b].version}

\* Rows that the two partial unique indexes on provider_bindings keep apart.
SameSlot(x, y) == x.slot = y.slot /\ {x.status, y.status} = {"active"}
SameConn(x, y) == x.conn = y.conn /\ IsDedicated(x) /\ IsDedicated(y)

\* Faulty form of Admissible: a connection whose binding is degraded counts as free.
AdmissibleUnlessActive(rows) ==
    \A b, o \in Bindings : b # o =>
        /\ ~SameSlot(rows[b], rows[o])
        /\ ~(SameConn(rows[b], rows[o]) /\ {rows[b].status, rows[o].status} = {"active"})

Admissible(rows) ==
    \A b, o \in Bindings : b # o =>
        /\ ~SameSlot(rows[b], rows[o])
        /\ ~(SameConn(rows[b], rows[o]) /\ {rows[b].status, rows[o].status} \subseteq Serving)

----------------------------------------------------------------------------
(* Handlers.  A process that is in no handler may start one.               *)

Idle == [at |-> "idle"]

Begin(w, j) == job[w] = Idle /\ job' = [job EXCEPT ![w] = j]
Goto(w, j) == job' = [job EXCEPT ![w] = j]
Finish(w) == Goto(w, Idle)

\* A lifecycle write that is decided but not made: mode and state as they were read.
Cas(c, from, to, mode) == [at |-> "cas", c |-> c, from |-> from, to |-> to, mode |-> mode]

\* Faulty form of SaveLifecycle: the state is not compared.
SaveLifecycleBlind(c, from, to, mode) ==
    conn' = [conn EXCEPT ![c].life = to, ![c].mode = mode]

\* save_lifecycle(): has an effect only on the state that was expected, and writes
\* the mode along.
SaveLifecycle(c, from, to, mode) ==
    conn' = [conn EXCEPT ![c].life = IF @ = from THEN to ELSE @,
                         ![c].mode = IF conn[c].life = from THEN mode ELSE @]

WriteLifecycle(w) ==
    LET j == job[w] IN
    /\ j.at = "cas"
    /\ SaveLifecycle(j.c, j.from, j.to, j.mode)
    /\ Finish(w)
    /\ UNCHANGED binding

CreateConnection(c, mode) ==
    /\ conn[c].life = "none"
    /\ conn' = [conn EXCEPT ![c] = [life |-> "draft", mode |-> mode,
                                    gone |-> FALSE, fit |-> FALSE]]
    /\ UNCHANGED <<binding, job>>

\* verify(): reads the connection and asks the provider.
Verify(w, c) ==
    /\ Owned(c)
    /\ Begin(w, [at |-> "probe", c |-> c, from |-> conn[c].life, mode |-> conn[c].mode,
                 fit |-> conn[c].fit])
    /\ UNCHANGED <<conn, binding>>

\* The answer: health is saved, and a draft that was answered well goes on.  An answer
\* that is not good need not change the health that was read.
Probed(w, ok) ==
    LET j == job[w] IN
    /\ j.at = "probe"
    /\ \E fit \in IF ok THEN {TRUE} ELSE {FALSE, j.fit} :
          conn' = [conn EXCEPT ![j.c].fit = fit]
    /\ IF ok /\ j.from = "draft"
       THEN Goto(w, Cas(j.c, "draft", "verified", j.mode)) ELSE Finish(w)
    /\ UNCHANGED binding

\* Faulty form of SetMode: a listed connection may change its mode.
SetModeListed(w, c, mode) ==
    /\ Owned(c)
    /\ conn[c].life \in MODE_OPEN \cup {"listed"}
    /\ Begin(w, Cas(c, conn[c].life, conn[c].life, mode))
    /\ UNCHANGED <<conn, binding>>

SetMode(w, c, mode) ==
    /\ Owned(c)
    /\ conn[c].life \in MODE_OPEN
    /\ Begin(w, Cas(c, conn[c].life, conn[c].life, mode))
    /\ UNCHANGED <<conn, binding>>

ListSupply(w, c) ==
    /\ Owned(c)
    /\ conn[c].life = "verified" /\ conn[c].fit
    /\ Begin(w, Cas(c, "verified", "listed", conn[c].mode))
    /\ UNCHANGED <<conn, binding>>

\* pause(), drain(): nothing they write but the state can have changed since the read.
Move(w, c, to) ==
    /\ job[w] = Idle
    /\ Owned(c)
    /\ conn[c].life # to /\ Transition(conn[c].life, to)
    /\ conn' = [conn EXCEPT ![c].life = to]
    /\ UNCHANGED <<binding, job>>

Pause(w, c) == Move(w, c, "paused")
Drain(w, c) == Move(w, c, "draining")

\* resume(), retire(): the bindings are read between the two.
Resume(w, c) ==
    /\ Owned(c)
    /\ Begin(w, [at |-> "resume", c |-> c, from |-> conn[c].life, mode |-> conn[c].mode])
    /\ UNCHANGED <<conn, binding>>

Retire(w, c) ==
    /\ Owned(c)
    /\ Begin(w, [at |-> "retire", c |-> c, from |-> conn[c].life, mode |-> conn[c].mode])
    /\ UNCHANGED <<conn, binding>>

ReadBlockers(w) ==
    LET j == job[w]
        to == CASE j.at = "retire" -> "retired"
                [] j.mode = "dedicated" /\ Blockers(j.c) # {} -> "bound"
                [] OTHER -> "listed"
    IN
    /\ j.at \in {"resume", "retire"}
    /\ IF (j.at = "retire" => Blockers(j.c) = {}) /\ Transition(j.from, to)
       THEN Goto(w, Cas(j.c, j.from, to, j.mode)) ELSE Finish(w)
    /\ UNCHANGED <<conn, binding>>

\* Faulty form of DeleteConnection: the bindings are not degraded.
DeleteConnectionOnly(w, c) ==
    /\ job[w] = Idle
    /\ Owned(c)
    /\ conn[c].life \notin LIVE \cup {"paused", "draining"}
    /\ conn' = [conn EXCEPT ![c].gone = TRUE]
    /\ UNCHANGED <<binding, job>>

\* ensure_deletable() refuses a connection in service, bindings or not; delete() then
\* has the bindings degraded.
DeleteConnection(w, c) ==
    /\ Owned(c)
    /\ conn[c].life \notin LIVE \cup {"paused", "draining"}
    /\ conn' = [conn EXCEPT ![c].gone = TRUE]
    /\ Begin(w, [at |-> "degrade", c |-> c])
    /\ UNCHANGED binding

\* degrade_for_connection(): the rows are listed once and then saved one by one.
Degrade(w, c) ==
    /\ Begin(w, [at |-> "degrade", c |-> c])
    /\ UNCHANGED <<conn, binding>>

ListForDegrade(w) ==
    LET j == job[w]
        todo == {b \in Bindings : /\ binding[b].conn = j.c
                                  /\ binding[b].status = "active"
                                  /\ IsDedicated(binding[b])}
    IN
    /\ j.at = "degrade"
    /\ IF todo = {} THEN Finish(w)
       ELSE Goto(w, [at |-> "degrading", rows |-> [b \in todo |-> binding[b]]])
    /\ UNCHANGED <<conn, binding>>

SaveDegraded(w, b) ==
    LET j == job[w]
        rest == DOMAIN j.rows \ {b}
    IN
    /\ j.at = "degrading"
    /\ b \in DOMAIN j.rows
    /\ LET rows == [binding EXCEPT ![b] = [j.rows[b] EXCEPT !.status = "degraded"]] IN
       \/ /\ Admissible(rows)
          /\ binding' = rows
          /\ IF rest = {} THEN Finish(w)
             ELSE Goto(w, [j EXCEPT !.rows = [o \in rest |-> j.rows[o]]])
       \/ ~Admissible(rows) /\ Finish(w) /\ UNCHANGED binding
    /\ UNCHANGED conn

----------------------------------------------------------------------------
(* Bindings.  A row is saved as it was read, with the changes of the call. *)

\* Faulty form of CreateBinding: a shared binding keeps the connection it was given.
CreateBindingKeepsConn(b, s, c) ==
    /\ binding[b].status = "none"
    /\ s \in Dedicated => c # NoConn /\ UsableDedicated(c)
    /\ binding' = [binding EXCEPT ![b] = [status |-> "draft", slot |-> s,
                                          version |-> 0, conn |-> c]]
    /\ UNCHANGED <<conn, job>>

CreateBinding(b, s, c) ==
    /\ binding[b].status = "none"
    /\ IF s \in Dedicated THEN c # NoConn /\ UsableDedicated(c) ELSE c = NoConn
    /\ binding' = [binding EXCEPT ![b] = [status |-> "draft", slot |-> s,
                                          version |-> 0, conn |-> c]]
    /\ UNCHANGED <<conn, job>>

\* _assert_publishable(), prices being available.
Publishable(row) == IsDedicated(row) => UsableDedicated(row.conn)

\* Faulty form of Validate: a published binding may be validated again.
ValidateAny(w, b) ==
    /\ binding[b].status # "none"
    /\ Publishable(binding[b])
    /\ Begin(w, [at |-> "validate", b |-> b, row |-> binding[b]])
    /\ UNCHANGED <<conn, binding>>

Validate(w, b) ==
    /\ binding[b].status \in {"draft", "validated"}
    /\ Publishable(binding[b])
    /\ Begin(w, [at |-> "validate", b |-> b, row |-> binding[b]])
    /\ UNCHANGED <<conn, binding>>

SaveValidated(w) ==
    LET j == job[w] IN
    /\ j.at = "validate"
    /\ binding' = [binding EXCEPT ![j.b] = [j.row EXCEPT !.status = "validated"]]
    /\ Finish(w)
    /\ UNCHANGED conn

MaxVersionOf(s) == Max({0} \cup {binding[b].version : b \in InSlot(s)})

\* Faulty form of NextVersion: versions are counted per binding.
NextVersionOwn(b) == binding[b].version + 1

NextVersion(b) == MaxVersionOf(binding[b].slot) + 1

Publish(w, b) ==
    /\ binding[b].status \in {"draft", "validated"}
    /\ Publishable(binding[b])
    /\ NextVersion(b) \in 1..MaxVersion
    /\ Begin(w, [at |-> "publish", b |-> b,
                 row |-> [binding[b] EXCEPT !.status = "active", !.version = NextVersion(b)]])
    /\ UNCHANGED <<conn, binding>>

\* publish_atomic(): whatever is active in the slot makes room.
SavePublished(w) ==
    LET j == job[w]
        rows == [b \in Bindings |->
                   CASE b = j.b -> j.row
                     [] b # j.b /\ binding[b].slot = j.row.slot /\ binding[b].status = "active" ->
                          [binding[b] EXCEPT !.status = "inactive"]
                     [] OTHER -> binding[b]]
    IN
    /\ j.at = "publish"
    /\ \/ /\ Admissible(rows)
          /\ binding' = rows
          /\ IF IsDedicated(j.row) THEN Goto(w, [at |-> "bind", c |-> j.row.conn])
             ELSE Finish(w)
       \/ ~Admissible(rows) /\ Finish(w) /\ UNCHANGED binding
    /\ UNCHANGED conn

\* mark_bound().
Bind(w) ==
    LET c == job[w].c IN
    /\ job[w].at = "bind"
    /\ conn' = IF conn[c].mode = "dedicated" /\ conn[c].life = "listed"
               THEN [conn EXCEPT ![c].life = "bound"] ELSE conn
    /\ Finish(w)
    /\ UNCHANGED binding

Deactivate(w, b) ==
    /\ binding[b].status \in Serving
    /\ Begin(w, [at |-> "deactivate", b |-> b, row |-> binding[b]])
    /\ UNCHANGED <<conn, binding>>

SaveInactive(w) ==
    LET j == job[w] IN
    /\ j.at = "deactivate"
    /\ binding' = [binding EXCEPT ![j.b] = [j.row EXCEPT !.status = "inactive"]]
    /\ IF IsDedicated(j.row) THEN Goto(w, [at |-> "unbind", c |-> j.row.conn])
       ELSE Finish(w)
    /\ UNCHANGED conn

\* mark_unbound().
Unbind(w) ==
    LET c == job[w].c IN
    /\ job[w].at = "unbind"
    /\ conn' = IF conn[c].life = "bound" THEN [conn EXCEPT ![c].life = "listed"] ELSE conn
    /\ Finish(w)
    /\ UNCHANGED binding

\* replace(), confirmed by the buyer: the new connection must be idle.
Replace(w, b, c) ==
    /\ binding[b].status \in Serving
    /\ IsDedicated(binding[b])
    /\ binding[b].conn # c
    /\ UsableDedicated(c) /\ conn[c].life \in IDLE_LIFECYCLES
    /\ binding[b].version < MaxVersion
    /\ Begin(w, [at |-> "replace", b |-> b, old |-> binding[b].conn,
                 row |-> [binding[b] EXCEPT !.conn = c, !.status = "active",
                                            !.version = @ + 1]])
    /\ UNCHANGED <<conn, binding>>

SaveReplaced(w) ==
    LET j == job[w]
        rows == [binding EXCEPT ![j.b] = j.row]
    IN
    /\ j.at = "replace"
    /\ \/ /\ Admissible(rows)
          /\ binding' = rows
          /\ Goto(w, [at |-> "drain", c |-> j.old, new |-> j.row.conn])
       \/ ~Admissible(rows) /\ Finish(w) /\ UNCHANGED binding
    /\ UNCHANGED conn

\* mark_draining(), then mark_bound() of the new connection.
DrainOld(w) ==
    LET j == job[w] IN
    /\ j.at = "drain"
    /\ conn' = IF conn[j.c].life \in LIVE \cup {"paused"}
               THEN [conn EXCEPT ![j.c].life = "draining"] ELSE conn
    /\ Goto(w, [at |-> "bind", c |-> j.new])
    /\ UNCHANGED binding

\* The process dies, or the database refuses a call: the rest is not done.
Abort(w) ==
    /\ MayAbort
    /\ job[w] # Idle
    /\ Finish(w)
    /\ UNCHANGED <<conn, binding>>

----------------------------------------------------------------------------
Init ==
    /\ conn = [c \in Conns |-> NoConnRow]
    /\ binding = [b \in Bindings |-> NoBindingRow]
    /\ job = [w \in Workers |-> Idle]

ConnectionCall(w) ==
    \E c \in Conns :
        \/ Verify(w, c) \/ ListSupply(w, c) \/ Pause(w, c) \/ Drain(w, c)
        \/ Resume(w, c) \/ Retire(w, c) \/ DeleteConnection(w, c) \/ Degrade(w, c)
        \/ \E mode \in Modes : SetMode(w, c, mode)

BindingCall(w) ==
    \E b \in Bindings :
        \/ Validate(w, b) \/ Publish(w, b) \/ Deactivate(w, b)
        \/ \E c \in Conns : Replace(w, b, c)

Continue(w) ==
    \/ WriteLifecycle(w) \/ ReadBlockers(w) \/ ListForDegrade(w)
    \/ \E ok \in BOOLEAN : Probed(w, ok)
    \/ \E b \in Bindings : SaveDegraded(w, b)
    \/ SaveValidated(w) \/ SavePublished(w) \/ SaveInactive(w) \/ SaveReplaced(w)
    \/ Bind(w) \/ Unbind(w) \/ DrainOld(w)

Next ==
    \/ \E c \in Conns, mode \in Modes : CreateConnection(c, mode)
    \/ \E b \in Bindings, s \in Slots, c \in Conns \cup {NoConn} : CreateBinding(b, s, c)
    \/ \E w \in Workers : ConnectionCall(w) \/ BindingCall(w) \/ Continue(w) \/ Abort(w)

Spec == Init /\ [][Next]_vars

----------------------------------------------------------------------------
(* Properties.                                                             *)

JobOK(j) ==
    \/ j = Idle
    \/ j \in [at : {"cas"}, c : Conns, from : Lives, to : Lives, mode : Modes]
    \/ j \in [at : {"probe"}, c : Conns, from : Lives, mode : Modes, fit : BOOLEAN]
    \/ j \in [at : {"resume", "retire"}, c : Conns, from : Lives, mode : Modes]
    \/ j \in [at : {"degrade", "bind", "unbind"}, c : Conns]
    \/ j \in [at : {"drain"}, c : Conns, new : Conns]
    \/ j \in [at : {"validate", "publish", "deactivate"}, b : Bindings, row : BindingRows]
    \/ j \in [at : {"replace"}, b : Bindings, old : Conns, row : BindingRows]
    \/ \E todo \in SUBSET Bindings :
          j \in [at : {"degrading"}, rows : [todo -> BindingRows]]

\* Every variable has its type; a dedicated binding has a connection and a shared
\* one has none, whatever row was saved over it.
TypeOK ==
    /\ conn \in [Conns -> ConnRows \cup {NoConnRow}]
    /\ binding \in [Bindings -> BindingRows \cup {NoBindingRow}]
    /\ \A b \in Bindings : binding[b].status # "none" =>
          (binding[b].conn # NoConn <=> IsDedicated(binding[b]))
    /\ DOMAIN job = Workers
    /\ \A w \in Workers : JobOK(job[w])

\* The state of a connection moves only along ALLOWED, however many processes act on
\* what they read earlier.
LifecycleFollowsMatrix ==
    [][\A c \in Conns : conn[c].life # "none" =>
          Transition(conn[c].life, conn'[c].life)]_vars

\* Once listed, a connection never changes its mode again: not by a call that read it
\* before it was listed, and not after it was paused, drained or retired.
ModeLocked ==
    [][\A c \in Conns : conn[c].life \notin MODE_OPEN \cup {"none"} =>
          conn'[c].mode = conn[c].mode]_vars

\* A dedicated connection serves one binding at most, degraded ones included, and a
\* slot has one active binding at most, under concurrent publishing and replacing.
ExclusiveDedicated ==
    \A b, o \in Bindings :
        b # o /\ binding[b].status \in Serving /\ binding[o].status \in Serving =>
            /\ IsDedicated(binding[b]) => binding[b].conn # binding[o].conn
            /\ binding[b].status = "active" /\ binding[o].status = "active" =>
                  binding[b].slot # binding[o].slot

\* What is published is what active() finds from then on: its version is above that of
\* every serving binding of the slot, degraded ones included (one process).
ReadOncePublished ==
    \A b \in Bindings : binding[b].status \in {"draft", "validated"} /\ binding'[b].status = "active" =>
        Latest(binding[b].slot)' = {b}
PublishedIsRead == [][ReadOncePublished]_vars

\* Where a slot has an active binding, that is the one active() finds, so that new
\* requests meet the connection it was published with or replaced by
\* (specs/045-dedicated-binding-fail-closed/spec.md:51).
ActiveWins ==
    \A b \in Bindings : binding[b].status = "active" => Latest(binding[b].slot) = {b}

\* Outside of handlers, no active binding refers to a deleted connection: admission
\* fails closed.
DeletedFailsClosed ==
    (\A w \in Workers : job[w] = Idle) =>
        \A b \in Bindings : binding[b].status = "active" /\ IsDedicated(binding[b]) =>
            ~conn[binding[b].conn].gone

\* A published binding is not taken back to an editable one.
StaysPublished ==
    \A b \in Bindings : binding[b].status \in PUBLISHED => binding'[b].status \in PUBLISHED
PublishedStays == [][StaysPublished]_vars

\* The pool for shared requests has no connection that serves a dedicated binding.
PoolsApart ==
    \A b \in Bindings : binding[b].status \in Serving /\ IsDedicated(binding[b]) =>
        binding[b].conn \notin Routable("shared")
=============================================================================
