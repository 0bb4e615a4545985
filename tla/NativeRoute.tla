---------------------------- MODULE NativeRoute -----------------------------
(***************************************************************************)
(* The way of an authenticated native request through the gateway          *)
(* (native.go, kernel.go) beside the connections and bindings of Supply:   *)
(* the snapshot of its project, fetched from api-service once and held for *)
(* the life of the process (snapshot.go, main.go, internal.py), the        *)
(* catalogue (admit.go) and the dedicated connection (dedicated_selector). *)
(*                                                                         *)
(* The kernel is as main.go wires it: it has no table of affinities, so    *)
(* that a request for a resource by its id is refused, and nothing pins.   *)
(* A project of one protocol is a slot of Supply.  Credentials are left    *)
(* out: a request is forwarded with or without one.                        *)
(***************************************************************************)
EXTENDS Supply

CONSTANTS
    NReqs,       \* requests to the gateway
    NativeBoots  \* bound: restarts of the gateway

VARIABLES
    snapshots,  \* the snapshot the gateway holds of a project
    nreq,       \* a request: its step, its project, the snapshot it was given and the connection
    nboots

nativeVars == <<snapshots, nreq, nboots>>

NotHeld == [conn |-> NoConn, healthy |-> FALSE, held |-> FALSE]
NewNative == [pc |-> "new", slot |-> NoSlot, snap |-> NotHeld, conn |-> NoConn]

NativeInit ==
    /\ Init
    /\ snapshots = [s \in Slots |-> NotHeld]
    /\ nreq = [r \in NReqs |-> NewNative]
    /\ nboots = 0

\* project_route_snapshot lists the rows of the project whatever their status, in an order
\* SQL leaves open, with the health of the connection and not its life cycle (healthy is all
\* of "fit" but the capabilities).  routeSnapshotFromAPI takes the last dedicated one as
\* active; a shared row has no connection.
RouteSnapshots(s) ==
    LET rows == {b \in InSlot(s) : binding[b].conn # NoConn} IN
    IF rows = {} THEN {[NotHeld EXCEPT !.held = TRUE]}
    ELSE {[conn |-> binding[b].conn, healthy |-> h, held |-> TRUE] :
             b \in rows, h \in BOOLEAN}

\* A snapshot that is held is used; another is fetched and held until the process ends.
LookupSnapshot(s, snap) ==
    \/ snapshots[s].held /\ snap = snapshots[s] /\ UNCHANGED snapshots
    \/ /\ ~snapshots[s].held /\ snap \in RouteSnapshots(s)
       /\ snap.conn # NoConn /\ conn[snap.conn].fit => snap.healthy
       /\ snapshots' = [snapshots EXCEPT ![s] = snap]

NativeArrives(r, s) ==
    /\ nreq[r].pc = "new"
    /\ \E snap \in RouteSnapshots(s) \cup {snapshots[s]} :
         /\ LookupSnapshot(s, snap)
         /\ nreq' = [nreq EXCEPT ![r] = [pc |-> "arrived", slot |-> s, snap |-> snap, conn |-> NoConn]]
    /\ UNCHANGED nboots

\* A fetch that fails ends the request.
SnapshotFails(r, s) ==
    /\ nreq[r].pc = "new" /\ ~snapshots[s].held
    /\ nreq' = [nreq EXCEPT ![r].pc = "end"]
    /\ UNCHANGED <<snapshots, nboots>>

\* The catalogue has no such endpoint, none that is open to the project, or one that names a
\* resource, which has no affinity.
AdmitRefuses(r) ==
    /\ nreq[r].pc = "arrived"
    /\ nreq' = [nreq EXCEPT ![r].pc = "end"]
    /\ UNCHANGED <<snapshots, nboots>>

\* RoutingSelector: a dedicated project goes by its snapshot alone; of a shared one no
\* candidate qualifies.
SelectUpstream(r) ==
    LET q == nreq[r]
        found == q.slot \in Dedicated /\ q.snap.conn # NoConn /\ q.snap.healthy
    IN /\ q.pc = "arrived"
       /\ nreq' = [nreq EXCEPT ![r].pc = IF found THEN "sent" ELSE "end",
                               ![r].conn = IF found THEN q.snap.conn ELSE NoConn]
       /\ UNCHANGED <<snapshots, nboots>>

\* The answer, or the error, ends; the client makes its next request.
NextNative(r) ==
    /\ nreq[r].pc \in {"sent", "end"}
    /\ nreq' = [nreq EXCEPT ![r] = NewNative]
    /\ UNCHANGED <<snapshots, nboots>>

\* The snapshots are gone, and so are the requests.
NativeRestart ==
    /\ nboots < NativeBoots
    /\ nboots' = nboots + 1
    /\ snapshots' = [s \in Slots |-> NotHeld]
    /\ nreq' = [r \in NReqs |-> NewNative]

NativeNext ==
    \/ Next /\ UNCHANGED nativeVars
    \/ /\ \/ \E r \in NReqs : \/ \E s \in Slots : NativeArrives(r, s) \/ SnapshotFails(r, s)
                              \/ AdmitRefuses(r) \/ SelectUpstream(r) \/ NextNative(r)
          \/ NativeRestart
       /\ UNCHANGED vars

NativeSpec == NativeInit /\ [][NativeNext]_<<vars, nativeVars>>

----------------------------------------------------------------------------
\* A paused connection is sent no new request (specs/034-supply-mode-lifecycle/spec.md:101:
\* pause stops new requests at once; :116: within a second).
PauseStops ==
    [][\A r \in NReqs : nreq[r].pc # "sent" /\ nreq'[r].pc = "sent" =>
          conn[nreq'[r].conn].life # "paused"]_<<vars, nativeVars>>
=============================================================================
