--------------------------- MODULE UsageDelivery ----------------------------
(***************************************************************************)
(* The usage of a chat request on its way from the proxy handler of the    *)
(* gateway (proxy.go) through its log of files (durable.go), the slots in  *)
(* memory (observe.go) and the call of api-service (client.go) to the      *)
(* usage log (internal.py, usage/service.py, usage_cleanup.py).            *)
(*                                                                         *)
(* A request leaves an observation: "official" with the tokens of the      *)
(* provider, or "absent" when it gave none that add up.  A success waits   *)
(* for either to be taken before it is answered; an error is answered      *)
(* first.  A stream whose last write fails leaves a second observation,    *)
(* under the same id.  The log of files is there only when a directory is  *)
(* configured for it.  The gateway may die between any two steps; files    *)
(* survive, memory does not.                                               *)
(***************************************************************************)
EXTENDS Naturals, FiniteSets

CONSTANTS
    UReqs,        \* requests, each with an event id of its own
    MaxWal,       \* files the log admits
    UsageCrashes  \* bound: crashes of the gateway

ASSUME UsageAssumption ==
    /\ "none" \notin UReqs
    /\ UsageCrashes \in Nat

VARIABLES
    walDir,    \* whether the log has a directory
    upc,       \* the step of the handler of a request
    ucur,      \* the observation it has in hand
    wal,       \* the file of a request
    slot,      \* its slot in memory
    replaying, \* the replay: the files it has still to read, the one it has read, and whether
               \* that one has been confirmed
    usageRow,  \* its row in the usage log
    inserted,  \* history: how often a row was inserted for it, by observation
    told,      \* what the client was told: "ok", "failed"
    ucrashes

usageVars == <<walDir, upc, ucur, wal, slot, replaying, usageRow, inserted, told, ucrashes>>

Obs == {"official", "absent"}
NoObs == "none"
Reading(todo) == [todo |-> todo, id |-> "none", obs |-> NoObs, confirmed |-> FALSE]
IdleReplay == Reading({})

UsageTypeOK ==
    /\ walDir \in BOOLEAN
    /\ upc \in [UReqs -> {"new", "admit", "write", "send", "remove", "answer", "end"}]
    /\ ucur \in [UReqs -> Obs \cup {NoObs}]
    /\ wal \in [UReqs -> Obs \cup {NoObs}]
    /\ slot \in [UReqs -> Obs \cup {NoObs}]
    /\ replaying \in [todo : SUBSET UReqs, id : UReqs \cup {"none"}, obs : Obs \cup {NoObs}, confirmed : BOOLEAN]
    /\ usageRow \in [UReqs -> Obs \cup {NoObs}]
    /\ inserted \in [UReqs -> [Obs -> Nat]]
    /\ told \in [UReqs -> {"none", "ok", "failed"}]
    /\ ucrashes \in 0 .. UsageCrashes

UsageInit ==
    /\ walDir \in BOOLEAN
    /\ upc = [q \in UReqs |-> "new"]
    /\ ucur = [q \in UReqs |-> NoObs]
    /\ wal = [q \in UReqs |-> NoObs]
    /\ slot = [q \in UReqs |-> NoObs]
    /\ replaying = IdleReplay
    /\ usageRow = [q \in UReqs |-> NoObs]
    /\ inserted = [q \in UReqs |-> [o \in Obs |-> 0]]
    /\ told = [q \in UReqs |-> "none"]
    /\ ucrashes = 0

Goto(q, step) == upc' = [upc EXCEPT ![q] = step]

----------------------------------------------------------------------------
\* The provider has answered, and the handler has the observation to make: of a success
\* that the client still waits for, or of an error that it was told of already.
Served(q) ==
    /\ upc[q] = "new"
    /\ \/ \E o \in Obs : ucur' = [ucur EXCEPT ![q] = o] /\ UNCHANGED told
       \/ ucur' = [ucur EXCEPT ![q] = "absent"] /\ told' = [told EXCEPT ![q] = "failed"]
    /\ Goto(q, "admit")
    /\ UNCHANGED <<wal, slot, replaying, usageRow, inserted, ucrashes, walDir>>

WalFiles == {q \in UReqs : wal[q] # NoObs}

\* observe() fails: a client that waits for a success is told so, with or without usage.
Refuse(q) ==
    /\ Goto(q, "end")
    /\ told' = IF told[q] = "none" THEN [told EXCEPT ![q] = "failed"] ELSE told

\* The quota is read before the file is written, and not held.
AdmitLog(q) ==
    /\ upc[q] = "admit"
    /\ \/ ~walDir /\ Goto(q, "send") /\ UNCHANGED told
       \/ walDir /\ Cardinality(WalFiles) < MaxWal /\ Goto(q, "write") /\ UNCHANGED told
       \/ walDir /\ Cardinality(WalFiles) >= MaxWal /\ Refuse(q)
    /\ UNCHANGED <<ucur, wal, slot, replaying, usageRow, inserted, ucrashes, walDir>>

\* A file of this id is overwritten; the rename makes it whole or not at all.
WriteLog(q) ==
    /\ upc[q] = "write"
    /\ \/ wal' = [wal EXCEPT ![q] = ucur[q]] /\ Goto(q, "send") /\ UNCHANGED told
       \/ Refuse(q) /\ UNCHANGED wal
    /\ UNCHANGED <<ucur, slot, replaying, usageRow, inserted, ucrashes, walDir>>

Inserts(q, o) ==
    /\ usageRow' = [usageRow EXCEPT ![q] = o]
    /\ inserted' = [inserted EXCEPT ![q][o] = @ + 1]

\* Faulty form of Records: a retry under the same id makes a row of its own.
RecordsAgain(q, o) == Inserts(q, o)

\* UsageRecorder.record: the first row is kept, a different one is refused.
Records(q, o) ==
    \/ usageRow[q] = NoObs /\ Inserts(q, o)
    \/ usageRow[q] # NoObs /\ UNCHANGED <<usageRow, inserted>>

Agrees(q, o) == usageRow[q] \in {NoObs, o}

\* FanoutSink: the slot in memory, then the call.  It comes to nothing, it is carried out, or
\* it is carried out and its answer is lost.
DeliverOk(q, o) ==
    /\ slot[q] \in {NoObs, o} /\ Agrees(q, o)
    /\ slot' = [slot EXCEPT ![q] = o]
    /\ Records(q, o)

DeliverFails(q, o) ==
    \/ slot[q] \notin {NoObs, o} /\ UNCHANGED <<slot, usageRow, inserted>>
    \/ /\ slot[q] \in {NoObs, o}
       /\ slot' = [slot EXCEPT ![q] = o]
       /\ Records(q, o) \/ UNCHANGED <<usageRow, inserted>>

SendUsage(q) ==
    /\ upc[q] = "send"
    /\ \/ DeliverOk(q, ucur[q]) /\ Goto(q, "remove") /\ UNCHANGED told
       \/ DeliverFails(q, ucur[q]) /\ Refuse(q)
    /\ UNCHANGED <<ucur, wal, replaying, ucrashes, walDir>>

RemoveLog(q) ==
    /\ upc[q] = "remove"
    /\ wal' = [wal EXCEPT ![q] = NoObs]
    /\ Goto(q, IF told[q] = "none" THEN "answer" ELSE "end")
    /\ UNCHANGED <<ucur, slot, replaying, usageRow, inserted, told, ucrashes, walDir>>

\* The completion, or the last event of the stream.
AnswerClient(q) ==
    /\ upc[q] = "answer"
    /\ told' = [told EXCEPT ![q] = "ok"]
    /\ Goto(q, "end")
    /\ UNCHANGED <<ucur, wal, slot, replaying, usageRow, inserted, ucrashes, walDir>>

\* failWrite: the last event cannot be written, and another observation is made.
AnswerFails(q) ==
    /\ upc[q] = "answer"
    /\ told' = [told EXCEPT ![q] = "failed"]
    /\ ucur' = [ucur EXCEPT ![q] = "absent"]
    /\ Goto(q, "admit")
    /\ UNCHANGED <<wal, slot, replaying, usageRow, inserted, ucrashes, walDir>>

----------------------------------------------------------------------------
\* A pass goes through the files of one listing of the directory.
ReplayList ==
    /\ replaying = IdleReplay /\ WalFiles # {}
    /\ replaying' = Reading(WalFiles)
    /\ UNCHANGED <<upc, ucur, wal, slot, usageRow, inserted, told, ucrashes, walDir>>

\* A file that has gone is passed over.
ReplayRead(q) ==
    /\ replaying.id = "none" /\ q \in replaying.todo
    /\ replaying' = IF wal[q] = NoObs THEN Reading(replaying.todo \ {q})
                    ELSE [todo |-> replaying.todo \ {q}, id |-> q, obs |-> wal[q], confirmed |-> FALSE]
    /\ UNCHANGED <<upc, ucur, wal, slot, usageRow, inserted, told, ucrashes, walDir>>

ReplayConfirmed ==
    LET q == replaying.id IN
    /\ q # "none" /\ ~replaying.confirmed
    /\ DeliverOk(q, replaying.obs)
    /\ replaying' = [replaying EXCEPT !.confirmed = TRUE]
    /\ UNCHANGED <<upc, ucur, wal, told, ucrashes, walDir>>

\* Faulty form of ReplayFails: the file goes although the call has failed.
ReplayFailsRemoves ==
    LET q == replaying.id IN
    /\ q # "none" /\ ~replaying.confirmed
    /\ DeliverFails(q, replaying.obs)
    /\ replaying' = Reading(replaying.todo)
    /\ wal' = [wal EXCEPT ![q] = NoObs]
    /\ UNCHANGED <<upc, ucur, told, ucrashes, walDir>>

ReplayFails ==
    LET q == replaying.id IN
    /\ q # "none" /\ ~replaying.confirmed
    /\ DeliverFails(q, replaying.obs)
    /\ replaying' = Reading(replaying.todo)
    /\ UNCHANGED <<upc, ucur, wal, told, ucrashes, walDir>>

\* The file is removed by its name, whatever it holds by now.
ReplayRemove ==
    /\ replaying.id # "none" /\ replaying.confirmed
    /\ wal' = [wal EXCEPT ![replaying.id] = NoObs]
    /\ replaying' = Reading(replaying.todo)
    /\ UNCHANGED <<upc, ucur, slot, usageRow, inserted, told, ucrashes, walDir>>

\* After thirty days; a file that agrees with its row has been confirmed long before.
PurgeUsage(q) ==
    /\ usageRow[q] # NoObs
    /\ upc[q] \in {"new", "end"}
    /\ wal[q] # usageRow[q] /\ replaying.id # q
    /\ usageRow' = [usageRow EXCEPT ![q] = NoObs]
    /\ UNCHANGED <<upc, ucur, wal, slot, replaying, inserted, told, ucrashes, walDir>>

GatewayDies ==
    /\ ucrashes < UsageCrashes
    /\ ucrashes' = ucrashes + 1
    /\ upc' = [q \in UReqs |-> IF upc[q] = "new" THEN "new" ELSE "end"]
    /\ slot' = [q \in UReqs |-> NoObs]
    /\ replaying' = IdleReplay
    /\ UNCHANGED <<ucur, wal, usageRow, inserted, told, walDir>>

UsageNext ==
    \/ \E q \in UReqs : Served(q) \/ AdmitLog(q) \/ WriteLog(q) \/ SendUsage(q) \/ RemoveLog(q)
                        \/ AnswerClient(q) \/ AnswerFails(q) \/ ReplayRead(q) \/ PurgeUsage(q)
    \/ ReplayList \/ ReplayConfirmed \/ ReplayFails \/ ReplayRemove
    \/ GatewayDies

----------------------------------------------------------------------------
\* No retry, crash, lost answer or purge counts an observation twice; and no client is told
\* of a success before what is known of its usage, the tokens of the provider or that there
\* are none, is in the usage log, whether or not there is a log of files
\* (proxy.go:169,283, durable.go:94,138, usage/service.py:73).
UsageCounted ==
    \A q \in UReqs : /\ \A o \in Obs : inserted[q][o] <= 1
                     /\ told[q] = "ok" => inserted[q][ucur[q]] = 1

\* Usage that is in the log of files is in the usage log at last, across crashes of the
\* gateway (durable.go:138).
UsageDelivered == \A q \in UReqs : wal[q] = "official" ~> inserted[q]["official"] = 1
=============================================================================
