--------------------------- MODULE MCDeployments ----------------------------
(***************************************************************************)
(* Supply for TLC in the two deployments the code allows: api-service in   *)
(* several processes, each of which may end in the middle of a handler,    *)
(* and in one process that does not.  What holds in one process only is    *)
(* checked there; what the indexes and the compare-and-set must keep, in   *)
(* both.                                                                   *)
(***************************************************************************)
EXTENDS Supply, TLC

CONSTANTS
    w1, w2, c1, c2, b1, b2, s1, s2, s3,
    ReplicatedVersions  \* bound: versions stop here where there are several processes

VARIABLE deployment

MCSymmetry == Permutations(Workers) \cup Permutations(Conns) \cup Permutations(Bindings)

MCInit == Init /\ deployment \in {"alone", "replicas"}

\* Bounds: two processes share one connection and two dedicated slots, and make few versions;
\* one process has two connections, one dedicated slot and one shared.
Replicated ==
    /\ Cardinality({c \in Conns : conn[c].life # "none"}) <= 1
    /\ InSlot(s2) = {}
    /\ \A w \in Workers : job[w].at \in {"publish", "replace"} =>
          job[w].row.version <= ReplicatedVersions

\* Handlers of one process follow each other; which of the workers carries one is all the same.
OneAtATime == Cardinality({w \in Workers : job[w] # Idle}) <= 1

Create ==
    \/ \E c \in Conns, mode \in Modes : CreateConnection(c, mode)
    \/ \E b \in Bindings, s \in Slots, c \in Conns \cup {NoConn} : CreateBinding(b, s, c)

MCNext ==
    /\ UNCHANGED deployment
    /\ \/ deployment = "replicas" /\ Next /\ Replicated'
       \/ /\ deployment = "alone"
          /\ Create \/ \E w \in Workers : ConnectionCall(w) \/ BindingCall(w) \/ Continue(w)
          /\ OneAtATime' /\ InSlot(s3)' = {}

MCSpec == MCInit /\ [][MCNext]_<<vars, deployment>>

-----------------------------------------------------------------------------
\* One process that does not end in a handler leaves no active binding of a deleted
\* connection (connections/service.py:268).
AloneFailsClosed == deployment = "alone" => DeletedFailsClosed

\* In one process, what is published is what admission reads from then on
\* (bindings/service.py:259,366).
AloneReadsPublished == [][deployment = "alone" => ReadOncePublished]_vars

\* In one process, a published binding is not taken back to an editable one
\* (bindings/service.py:237).
AloneStaysPublished == [][deployment = "alone" => StaysPublished]_vars
=============================================================================
