---------------------------- MODULE UsageProofs -----------------------------
(***************************************************************************)
(* What TLAPS proves about UsageDelivery, for any requests, sizes of the   *)
(* log and numbers of crashes.                                             *)
(***************************************************************************)
EXTENDS UsageDelivery, TLAPS

UsageSpec == UsageInit /\ [][UsageNext]_usageVars

(***************************************************************************)
(* The inductive invariant.  A row may be purged, so that it does not tell *)
(* by itself what was counted; but by then nothing is left that could      *)
(* count official usage again.                                             *)
(***************************************************************************)

\* Somewhere observation o of q waits to be delivered.
Source(q, o) ==
    \/ upc[q] \in {"admit", "write", "send"} /\ ucur[q] = o
    \/ wal[q] = o
    \/ replaying.id = q /\ replaying.obs = o

Blank(q) ==
    /\ wal[q] = NoObs /\ usageRow[q] = NoObs /\ inserted[q] = [o \in Obs |-> 0] /\ told[q] = "none"
    /\ replaying.id # q

\* An observation was not inserted yet; or once, and then it is the row or it has no source.
CountedOnce(q) ==
    \A o \in Obs :
        /\ inserted[q][o] \in {0, 1}
        /\ usageRow[q] = o => inserted[q][o] = 1
        /\ inserted[q][o] = 1 => usageRow[q] = o \/ ~Source(q, o)

\* The handler knows that what it delivered is the row.
AnswerCovered(q) ==
    /\ upc[q] \in {"remove", "answer"} => usageRow[q] = ucur[q]
    /\ told[q] = "ok" => upc[q] = "end" /\ ucur[q] \in Obs /\ inserted[q][ucur[q]] = 1

\* A second, absent observation is made only after the first one was given up.
OneAtFirst(q) ==
    ucur[q] = "official" => inserted[q]["absent"] = 0 /\ ~Source(q, "absent")

\* An observation is in hand where one is delivered.
InHand(q) ==
    /\ upc[q] \notin {"new", "end"} => ucur[q] # NoObs
    /\ replaying.id = q => replaying.obs # NoObs

QInv(q) ==
    CountedOnce(q) /\ AnswerCovered(q) /\ OneAtFirst(q) /\ InHand(q) /\ (upc[q] = "new" => Blank(q))

UInv == UsageTypeOK /\ \A q \in UReqs : QInv(q)

LEMMA UsageInitial == UsageInit => UInv
BY UsageAssumption DEF UsageInit, UInv, UsageTypeOK, QInv, CountedOnce, AnswerCovered, OneAtFirst, InHand, Blank, Source, Obs, NoObs, IdleReplay, Reading

----------------------------------------------------------------------------
\* What a record does to the row and the counts of its request, and to no other.
Recording(q, o) ==
    /\ usageRow' \in [UReqs -> Obs \cup {NoObs}] /\ inserted' \in [UReqs -> [Obs -> Nat]]
    /\ \A p \in UReqs \ {q} : usageRow'[p] = usageRow[p] /\ inserted'[p] = inserted[p]
    /\ usageRow'[q] = IF usageRow[q] = NoObs THEN o ELSE usageRow[q]
    /\ \A x \in Obs : inserted'[q][x] = IF x = o /\ usageRow[q] = NoObs THEN 1 ELSE inserted[q][x]

LEMMA Recorded ==
    ASSUME UInv, NEW q \in UReqs, NEW o \in Obs, Records(q, o), Source(q, o)
    PROVE  Recording(q, o)
<1>1. /\ usageRow \in [UReqs -> Obs \cup {NoObs}] /\ inserted \in [UReqs -> [Obs -> Nat]]
      /\ usageRow[q] = NoObs => inserted[q][o] = 0
      BY DEF UInv, UsageTypeOK, QInv, CountedOnce, Obs, NoObs
<1>2. CASE usageRow[q] = NoObs /\ Inserts(q, o)
      BY <1>1, <1>2 DEF Inserts, Recording, Obs, NoObs
<1>3. CASE usageRow[q] # NoObs /\ UNCHANGED <<usageRow, inserted>>
      BY <1>1, <1>3 DEF Recording
<1> QED BY <1>2, <1>3 DEF Records

\* A request that a step leaves alone keeps its invariant; a replay may let go of it.
LEMMA Untouched ==
    ASSUME NEW q \in UReqs, QInv(q),
           upc'[q] = upc[q], ucur'[q] = ucur[q], wal'[q] = wal[q],
           usageRow'[q] = usageRow[q], inserted'[q] = inserted[q], told'[q] = told[q],
           replaying'.id = q => replaying.id = q /\ replaying'.obs = replaying.obs
    PROVE  QInv(q)'
BY DEF QInv, CountedOnce, AnswerCovered, OneAtFirst, InHand, Blank, Source, Obs, NoObs

LEMMA RefuseTyped ==
    ASSUME UsageTypeOK, NEW q \in UReqs, Refuse(q)
    PROVE  /\ upc' \in [UReqs -> {"new", "admit", "write", "send", "remove", "answer", "end"}]
           /\ told' \in [UReqs -> {"none", "ok", "failed"}]
BY DEF UsageTypeOK, Refuse, Goto

\* The handler of a request.
LEMMA HandlerStep ==
    ASSUME UInv, NEW q \in UReqs,
           Served(q) \/ AdmitLog(q) \/ WriteLog(q) \/ RemoveLog(q) \/ AnswerClient(q) \/ AnswerFails(q)
    PROVE  UInv'
<1>1. UsageTypeOK /\ QInv(q)
      BY DEF UInv
<1>2. UsageTypeOK'
  <2> USE <1>1 DEF UsageTypeOK, Goto, Obs, NoObs
  <2>1. CASE Served(q)
    <3>1. PICK o \in Obs : ucur' = [ucur EXCEPT ![q] = o]
          BY <2>1 DEF Served
    <3>2. told' = told \/ told' = [told EXCEPT ![q] = "failed"]
          BY <2>1 DEF Served
    <3>3. ucur' \in [UReqs -> Obs \cup {NoObs}] /\ told' \in [UReqs -> {"none", "ok", "failed"}]
          BY <3>1, <3>2
    <3>4. upc' \in [UReqs -> {"new", "admit", "write", "send", "remove", "answer", "end"}]
          BY <2>1 DEF Served
    <3> QED BY <2>1, <3>3, <3>4 DEF Served
  <2>5. CASE RemoveLog(q)
        BY <2>5 DEF RemoveLog
  <2>2. CASE AdmitLog(q)
    <3>1. /\ upc' \in [UReqs -> {"new", "admit", "write", "send", "remove", "answer", "end"}]
          /\ told' \in [UReqs -> {"none", "ok", "failed"}]
          BY <2>2, RefuseTyped DEF AdmitLog
    <3> QED BY <2>2, <3>1 DEF AdmitLog
  <2>3. CASE WriteLog(q)
    <3>1. /\ upc' \in [UReqs -> {"new", "admit", "write", "send", "remove", "answer", "end"}]
          /\ told' \in [UReqs -> {"none", "ok", "failed"}]
          BY <2>3, RefuseTyped DEF WriteLog
    <3>2. wal' \in [UReqs -> Obs \cup {NoObs}]
          BY <2>3 DEF WriteLog
    <3> QED BY <2>3, <3>1, <3>2 DEF WriteLog
  <2>4. CASE AnswerClient(q)
        BY <2>4 DEF AnswerClient
  <2>6. CASE AnswerFails(q)
    <3>1. ucur' \in [UReqs -> Obs \cup {NoObs}] /\ told' \in [UReqs -> {"none", "ok", "failed"}]
          BY <2>6 DEF AnswerFails
    <3>2. upc' \in [UReqs -> {"new", "admit", "write", "send", "remove", "answer", "end"}]
          BY <2>6 DEF AnswerFails
    <3> QED BY <2>6, <3>1, <3>2 DEF AnswerFails
  <2> QED BY <2>1, <2>2, <2>3, <2>4, <2>5, <2>6
<1>3. ASSUME NEW p \in UReqs \ {q} PROVE QInv(p)'
  <2>1. QInv(p) /\ UNCHANGED <<usageRow, inserted, replaying>>
        BY DEF UInv, Served, AdmitLog, WriteLog, RemoveLog, AnswerClient, AnswerFails
  <2>2. upc'[p] = upc[p] /\ ucur'[p] = ucur[p] /\ wal'[p] = wal[p] /\ told'[p] = told[p]
        BY <1>1 DEF UsageTypeOK, Served, AdmitLog, WriteLog, RemoveLog, AnswerClient, AnswerFails, Refuse, Goto
  <2> QED BY <2>1, <2>2, Untouched
<1>4. QInv(q)'
  <2> USE <1>1 DEF UsageTypeOK, QInv, CountedOnce, AnswerCovered, OneAtFirst, InHand, Blank, Source, Obs, NoObs, Goto
  <2>1. CASE Served(q)
        BY <2>1 DEF Served
  <2>2. CASE AdmitLog(q)
    <3>1. /\ upc[q] = "admit" /\ upc'[q] \in {"send", "write", "end"}
          /\ told'[q] = told[q] \/ told'[q] = "failed"
          /\ UNCHANGED <<ucur, wal, replaying, usageRow, inserted>>
          BY <2>2 DEF AdmitLog, Refuse
    <3> QED BY <3>1
  <2>3. CASE WriteLog(q)
    <3>1. /\ upc[q] = "write" /\ upc'[q] \in {"send", "end"}
          /\ told'[q] = told[q] \/ told'[q] = "failed"
          /\ wal'[q] = wal[q] \/ wal'[q] = ucur[q]
          /\ UNCHANGED <<ucur, replaying, usageRow, inserted>>
          BY <2>3 DEF WriteLog, Refuse
    <3> QED BY <3>1
  <2>4. CASE RemoveLog(q)
        BY <2>4 DEF RemoveLog
  <2>5. CASE AnswerClient(q)
        BY <2>5 DEF AnswerClient
  <2>6. CASE AnswerFails(q)
        BY <2>6 DEF AnswerFails
  <2> QED BY <2>1, <2>2, <2>3, <2>4, <2>5, <2>6
<1> QED BY <1>2, <1>3, <1>4 DEF UInv

\* The delivery of an observation, confirmed or not.
LEMMA Delivered ==
    ASSUME UInv, NEW q \in UReqs, NEW o \in Obs, Source(q, o),
           DeliverOk(q, o) \/ DeliverFails(q, o)
    PROVE  /\ slot' \in [UReqs -> Obs \cup {NoObs}]
           /\ Records(q, o) \/ UNCHANGED <<usageRow, inserted>>
           /\ DeliverOk(q, o) => Records(q, o) /\ usageRow[q] \in {NoObs, o}
BY DEF DeliverOk, DeliverFails, UInv, UsageTypeOK, Agrees, Obs, NoObs

LEMMA SendStep == ASSUME UInv, NEW q \in UReqs, SendUsage(q) PROVE UInv'
<1>1. PICK o \in Obs : o = ucur[q] /\ (Source(q, o))
      BY DEF SendUsage, UInv, UsageTypeOK, QInv, InHand, Source, Obs, NoObs
<1>2. DeliverOk(q, o) \/ DeliverFails(q, o)
      BY <1>1 DEF SendUsage
<1>3. /\ slot' \in [UReqs -> Obs \cup {NoObs}]
      /\ Records(q, o) \/ UNCHANGED <<usageRow, inserted>>
      /\ DeliverOk(q, o) => Records(q, o) /\ usageRow[q] \in {NoObs, o}
      BY <1>1, <1>2, Delivered
<1>4. /\ upc[q] = "send" /\ UNCHANGED <<ucur, wal, replaying, ucrashes, walDir>>
      /\ \/ DeliverOk(q, o) /\ Goto(q, "remove") /\ UNCHANGED told
         \/ Refuse(q)
      BY <1>1 DEF SendUsage
<1>5. /\ UsageTypeOK /\ QInv(q) /\ ucur[q] = o
      /\ upc'[q] \in {"remove", "end"}
      /\ upc'[q] = "remove" => told'[q] = told[q] /\ Records(q, o) /\ usageRow[q] \in {NoObs, o}
      /\ told'[q] = told[q] \/ told'[q] = "failed"
      BY <1>1, <1>3, <1>4 DEF UInv, UsageTypeOK, Goto, Refuse
<1>6. /\ Recording(q, o) \/ UNCHANGED <<usageRow, inserted>>
      /\ Records(q, o) => Recording(q, o)
      BY <1>1, <1>3, Recorded
<1>7. UsageTypeOK'
  <2>1. /\ usageRow' \in [UReqs -> Obs \cup {NoObs}] /\ inserted' \in [UReqs -> [Obs -> Nat]]
        BY <1>5, <1>6 DEF Recording, UsageTypeOK
  <2>2. /\ upc' \in [UReqs -> {"new", "admit", "write", "send", "remove", "answer", "end"}]
        /\ told' \in [UReqs -> {"none", "ok", "failed"}]
    <3>1. CASE Goto(q, "remove") /\ UNCHANGED told
          BY <1>5, <3>1 DEF UsageTypeOK, Goto
    <3> QED BY <1>4, <1>5, <3>1, RefuseTyped
  <2> QED BY <1>3, <1>4, <1>5, <2>1, <2>2 DEF UsageTypeOK
<1>8. ASSUME NEW p \in UReqs \ {q} PROVE QInv(p)'
  <2>1. QInv(p) /\ UNCHANGED <<ucur, wal, replaying>>
        BY <1>4 DEF UInv
  <2>2. upc'[p] = upc[p] /\ told'[p] = told[p] /\ usageRow'[p] = usageRow[p] /\ inserted'[p] = inserted[p]
        BY <1>4, <1>5, <1>6 DEF UsageTypeOK, Recording, Goto, Refuse
  <2> QED BY <2>1, <2>2, Untouched
<1>9. QInv(q)'
  <2> USE <1>4, <1>5 DEF QInv, Recording, CountedOnce, AnswerCovered, OneAtFirst, InHand, Blank, Source, Obs, NoObs
  <2>1. CASE Recording(q, o)
    <3>1. CountedOnce(q)'
          BY <2>1
    <3>2. AnswerCovered(q)'
          BY <2>1
    <3>3. OneAtFirst(q)'
          BY <2>1
    <3> QED BY <2>1, <3>1, <3>2, <3>3
  <2>2. CASE UNCHANGED <<usageRow, inserted>> /\ ~Recording(q, o)
        BY <1>6, <2>2
  <2> QED BY <1>6, <2>1, <2>2
<1> QED BY <1>7, <1>8, <1>9 DEF UInv

----------------------------------------------------------------------------
\* The replay.
LEMMA ReplayDelivers == ASSUME UInv, ReplayConfirmed \/ ReplayFails PROVE UInv'
<1>1. PICK q \in UReqs, o \in Obs : replaying.id = q /\ replaying.obs = o /\ (Source(q, o))
      BY DEF ReplayConfirmed, ReplayFails, UInv, UsageTypeOK, QInv, InHand, Source, Obs, NoObs
<1>2. DeliverOk(q, o) \/ DeliverFails(q, o)
      BY <1>1 DEF ReplayConfirmed, ReplayFails
<1>3. /\ slot' \in [UReqs -> Obs \cup {NoObs}]
      /\ Records(q, o) \/ UNCHANGED <<usageRow, inserted>>
      BY <1>1, <1>2, Delivered
<1>4. /\ UNCHANGED <<upc, ucur, wal, told, ucrashes, walDir>>
      /\ replaying' \in {[replaying EXCEPT !.confirmed = TRUE], Reading(replaying.todo)}
      BY DEF ReplayConfirmed, ReplayFails
<1>5. /\ replaying' \in [todo : SUBSET UReqs, id : UReqs \cup {"none"}, obs : Obs \cup {NoObs}, confirmed : BOOLEAN]
      /\ \/ replaying'.id = "none"
         \/ replaying'.id = q /\ replaying'.obs = o
  <2>1. CASE replaying' = [replaying EXCEPT !.confirmed = TRUE]
        BY <1>1, <2>1 DEF UInv, UsageTypeOK
  <2>2. CASE replaying' = Reading(replaying.todo)
        BY <2>2 DEF UInv, UsageTypeOK, Reading
  <2> QED BY <1>4, <2>1, <2>2
<1>6. Recording(q, o) \/ UNCHANGED <<usageRow, inserted>>
      BY <1>1, <1>3, Recorded
<1>7. UsageTypeOK /\ QInv(q)
      BY DEF UInv
<1>8. UsageTypeOK'
  <2>1. /\ usageRow' \in [UReqs -> Obs \cup {NoObs}] /\ inserted' \in [UReqs -> [Obs -> Nat]]
        BY <1>6, <1>7 DEF Recording, UsageTypeOK
  <2> QED BY <1>3, <1>4, <1>5, <1>7, <2>1 DEF UsageTypeOK
<1>9. ASSUME NEW p \in UReqs \ {q} PROVE QInv(p)'
  <2>1. QInv(p) /\ UNCHANGED <<upc, ucur, wal, told>> /\ replaying'.id # p
        BY <1>4, <1>5, UsageAssumption DEF UInv
  <2>2. usageRow'[p] = usageRow[p] /\ inserted'[p] = inserted[p]
        BY <1>6 DEF Recording
  <2> QED BY <2>1, <2>2, Untouched
<1>10. QInv(q)'
  <2> USE UsageAssumption, <1>1, <1>4, <1>5, <1>7
      DEF QInv, Recording, CountedOnce, AnswerCovered, OneAtFirst, InHand, Blank, Source, Obs, NoObs
  <2>1. CASE Recording(q, o)
    <3>1. CountedOnce(q)'
          BY <2>1
    <3>2. AnswerCovered(q)'
          BY <2>1
    <3>3. OneAtFirst(q)'
          BY <2>1
    <3> QED BY <2>1, <3>1, <3>2, <3>3
  <2>2. CASE UNCHANGED <<usageRow, inserted>>
        BY <2>2
  <2> QED BY <1>6, <2>1, <2>2
<1> QED BY <1>8, <1>9, <1>10 DEF UInv

LEMMA ReplayStep ==
    ASSUME UInv, ReplayList \/ (\E q \in UReqs : ReplayRead(q)) \/ ReplayRemove
    PROVE  UInv'
<1> USE UsageAssumption DEF UInv, UsageTypeOK, QInv, CountedOnce, AnswerCovered, OneAtFirst, InHand, Blank, Source, Obs, NoObs, Reading
<1>1. CASE ReplayList
      BY <1>1 DEF ReplayList, WalFiles
<1>2. ASSUME NEW q \in UReqs, ReplayRead(q) PROVE UInv'
      BY <1>2 DEF ReplayRead
<1>3. CASE ReplayRemove
      BY <1>3 DEF ReplayRemove
<1> QED BY <1>1, <1>2, <1>3

LEMMA UsageStep == UInv /\ [UsageNext]_usageVars => UInv'
<1> SUFFICES ASSUME UInv, [UsageNext]_usageVars PROVE UInv' OBVIOUS
<1>1. ASSUME NEW q \in UReqs, PurgeUsage(q) PROVE UInv'
      BY <1>1 DEF PurgeUsage, UInv, UsageTypeOK, QInv, CountedOnce, AnswerCovered, OneAtFirst, InHand, Blank, Source, Obs, NoObs
<1>2. CASE GatewayDies
      BY <1>2, UsageAssumption DEF GatewayDies, UInv, UsageTypeOK, QInv, CountedOnce, AnswerCovered, OneAtFirst, InHand, Blank, Source, Obs,
         NoObs, IdleReplay, Reading
<1>3. CASE UNCHANGED usageVars
      BY <1>3 DEF usageVars, UInv, UsageTypeOK, QInv, CountedOnce, AnswerCovered, OneAtFirst, InHand, Blank, Source
<1> QED BY <1>1, <1>2, <1>3, HandlerStep, SendStep, ReplayDelivers, ReplayStep DEF UsageNext

\* Across any crashes, retries and purges, for any number of requests and with or without a
\* log of files, an observation is counted once at most, and a client is told of a success
\* only when the one observation made of it is in the usage log (proxy.go:169,283,
\* durable.go:94,138, usage/service.py:73).
THEOREM OfficialOnce == UsageSpec => []UsageCounted
<1>1. UInv => UsageCounted
      BY DEF UInv, QInv, CountedOnce, AnswerCovered, UsageCounted
<1> QED BY <1>1, UsageInitial, UsageStep, PTL DEF UsageSpec
=============================================================================
