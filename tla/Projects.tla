------------------------------ MODULE Projects ------------------------------
(***************************************************************************)
(* A buyer's projects in api-service (app/domain/projects/service.py over  *)
(* app/repositories/projects.py).                                          *)
(*                                                                         *)
(* Every store call is a transaction of its own.  A change reads the whole *)
(* record and later writes the whole record back, so that processes may    *)
(* overwrite each other; handlers of one process do not interleave.  A     *)
(* process may end between two store calls.  The partial unique index over *)
(* owner and name of the projects not deleted is checked at every write.   *)
(*                                                                         *)
(* One owner: projects of several do not meet.  Role checks are made       *)
(* beforehand, and the mode of a project, which no write may change, is    *)
(* left out with the audit rows, which nothing reads.                      *)
(***************************************************************************)
EXTENDS Naturals

CONSTANTS
    DWorkers,    \* processes of api-service
    DProjects,   \* project ids
    DNames,      \* normalized names
    DProtocols,  \* PROTOCOLS
    DKeys,       \* idempotency keys
    DCalls       \* bound: handlers that start

ASSUME ProjectsAssumption == DCalls \in Nat

VARIABLES
    projects,     \* projects and project_protocols: per id, its rows
    idempotency,  \* project_idempotency: per key, the name it was used for and the project
    work,         \* per process, the handler it is in: what it has read and will write
    calls

projectVars == <<projects, idempotency, work, calls>>

ProjectStatuses == {"draft", "active", "suspended", "archived"}
NoName == "no name"
NoId == "no project"
NoProject == [name |-> NoName, status |-> "none", deleted |-> FALSE,
              protocols |-> [p \in DProtocols |-> "none"]]
ProjectRows == [name : DNames, status : ProjectStatuses, deleted : BOOLEAN,
                protocols : [DProtocols -> {"none", "on", "off"}]]
NoWork == [at |-> "idle", id |-> NoId, rec |-> NoProject, key |-> "none"]

ProjectsTypeOK ==
    /\ projects \in [DProjects -> ProjectRows \cup {NoProject}]
    /\ idempotency \in [DKeys -> [name : DNames \cup {NoName}, id : DProjects \cup {NoId}]]
    /\ work \in [DWorkers -> [at : {"idle", "insert", "key", "save"}, id : DProjects \cup {NoId},
                              rec : ProjectRows \cup {NoProject}, key : DKeys \cup {"none"}]]
    /\ calls \in 0 .. DCalls

ProjectsInit ==
    /\ projects = [d \in DProjects |-> NoProject]
    /\ idempotency = [k \in DKeys |-> [name |-> NoName, id |-> NoId]]
    /\ work = [w \in DWorkers |-> NoWork]
    /\ calls = 0

----------------------------------------------------------------------------
Live(rows, d) == rows[d] # NoProject /\ ~rows[d].deleted

\* uq_projects_owner_name_live.
UniqueNames(rows) ==
    \A d, e \in DProjects : d # e /\ Live(rows, d) /\ Live(rows, e) => rows[d].name # rows[e].name

\* What next_status allows: per action the states it starts from, and where it leads.
ProjectTransitions == { <<"draft", "active">>, <<"draft", "archived">>, <<"active", "suspended">>,
    <<"active", "archived">>, <<"suspended", "active">>, <<"suspended", "archived">> }

\* A handler starts in a process that is in none.
Starts(w) == work[w] = NoWork /\ calls < DCalls /\ calls' = calls + 1

----------------------------------------------------------------------------
(* create *)

\* The key is looked up: a project it has led to is answered again, deleted or not; a key
\* used for another request is refused.
BeginCreate(w, d, name, protocols, key) ==
    /\ Starts(w)
    /\ projects[d] = NoProject /\ \A v \in DWorkers : work[v].id # d  \* a new id
    /\ key # "none" => idempotency[key] = [name |-> NoName, id |-> NoId]
    /\ work' = [work EXCEPT ![w] = [at |-> "insert", id |-> d, key |-> key,
          rec |-> [name |-> name, status |-> "draft", deleted |-> FALSE,
                   protocols |-> [p \in DProtocols |-> IF p \in protocols THEN "on" ELSE "none"]]]]
    /\ UNCHANGED <<projects, idempotency>>

\* Faulty form of InsertProject: a name that is taken is passed over.
InsertProjectAnyway(w) ==
    LET q == work[w]
        rows == [projects EXCEPT ![q.id] = q.rec]
    IN /\ q.at = "insert"
       /\ projects' = IF UniqueNames(rows) THEN rows ELSE projects
       /\ work' = [work EXCEPT ![w] = IF q.key = "none" THEN NoWork ELSE [q EXCEPT !.at = "key"]]
       /\ UNCHANGED <<idempotency, calls>>

\* The name may be taken.
InsertProject(w) ==
    LET q == work[w]
        rows == [projects EXCEPT ![q.id] = q.rec]
    IN /\ q.at = "insert"
       /\ IF UniqueNames(rows)
          THEN projects' = rows /\ work' = [work EXCEPT ![w] = IF q.key = "none" THEN NoWork
                                                               ELSE [q EXCEPT !.at = "key"]]
          ELSE UNCHANGED projects /\ work' = [work EXCEPT ![w] = NoWork]
       /\ UNCHANGED <<idempotency, calls>>

\* put_idempotency: the last of two under one key wins.  (Where both insert its row at once,
\* one is refused and ends as in ProcessEnds.)
PutKey(w) ==
    LET q == work[w] IN
    /\ q.at = "key"
    /\ idempotency' = [idempotency EXCEPT ![q.key] = [name |-> q.rec.name, id |-> q.id]]
    /\ work' = [work EXCEPT ![w] = NoWork]
    /\ UNCHANGED <<projects, calls>>

----------------------------------------------------------------------------
(* Changes: a record that is the owner's and not deleted is read, and rec is what of it is *)
(* to be saved.                                                                            *)

Change(w, d, rec) ==
    /\ Starts(w)
    /\ Live(projects, d)
    /\ work' = [work EXCEPT ![w] = [NoWork EXCEPT !.at = "save", !.id = d, !.rec = rec]]
    /\ UNCHANGED <<projects, idempotency>>

Rename(w, d, name) == Change(w, d, [projects[d] EXCEPT !.name = name])

\* The preview flag is left out: the record is written as it was read.
SetPreview(w, d) == Change(w, d, projects[d])

TransitionProject(w, d, to) ==
    /\ <<projects[d].status, to>> \in ProjectTransitions
    /\ Change(w, d, [projects[d] EXCEPT !.status = to])

\* A project that is not archived, and a binding for the protocol.
EnableProtocol(w, d, p) ==
    /\ projects[d].status # "archived"
    /\ projects[d].protocols[p] # "on"
    /\ Change(w, d, [projects[d] EXCEPT !.protocols[p] = "on"])

DisableProtocol(w, d, p) ==
    /\ projects[d].protocols[p] = "on"
    /\ Change(w, d, [projects[d] EXCEPT !.protocols[p] = "off"])

\* Nothing in the service writes the rows that block a deletion.
DeleteProject(w, d) == Change(w, d, [projects[d] EXCEPT !.deleted = TRUE])

\* Faulty form of Merged: the protocol rows of the project are replaced by the record's.
MergedRecord(rec, row) == rec

\* What a save makes of a row: every column as it was read or set, protocol rows only where
\* the record has one.
Merged(rec, row) ==
    [rec EXCEPT !.protocols = [p \in DProtocols |->
        IF rec.protocols[p] = "none" THEN row.protocols[p] ELSE rec.protocols[p]]]

SaveProject(w) ==
    LET q == work[w]
        rows == [projects EXCEPT ![q.id] = Merged(q.rec, projects[q.id])]
    IN /\ q.at = "save"
       /\ projects' = IF UniqueNames(rows) THEN rows ELSE projects
       /\ work' = [work EXCEPT ![w] = NoWork]
       /\ UNCHANGED <<idempotency, calls>>

\* The process ends in a handler.
ProcessEnds(w) ==
    /\ work[w] # NoWork
    /\ work' = [work EXCEPT ![w] = NoWork]
    /\ UNCHANGED <<projects, idempotency, calls>>

ProjectsNext ==
    \E w \in DWorkers :
       \/ InsertProject(w) \/ PutKey(w) \/ SaveProject(w) \/ ProcessEnds(w)
       \/ \E d \in DProjects :
             \/ \E name \in DNames : Rename(w, d, name)
             \/ \E name \in DNames, protocols \in (SUBSET DProtocols) \ {{}},
                   key \in DKeys \cup {"none"} : BeginCreate(w, d, name, protocols, key)
             \/ \E to \in ProjectStatuses : TransitionProject(w, d, to)
             \/ \E p \in DProtocols : EnableProtocol(w, d, p) \/ DisableProtocol(w, d, p)
             \/ SetPreview(w, d) \/ DeleteProject(w, d)

----------------------------------------------------------------------------
\* A key that answers a retried create leads to a project that there is: create() writes the
\* project and the key in two transactions, the first of which may be refused, and a handler of
\* the same key may be under way in another process (service.py:126-160).
KeyLeadsToProject ==
    \A k \in DKeys : idempotency[k].id # NoId =>
        idempotency[k].id \in DProjects /\ projects[idempotency[k].id] # NoProject

\* The row of a protocol, which says when it was enabled and disabled, is never lost, although
\* a process writes back a record it read before the protocol was enabled in another
\* (SQLProjectStore.save).  The other columns are overwritten, a deletion included.
ProtocolRowsStay ==
    [][\A d \in DProjects, p \in DProtocols :
          projects[d].protocols[p] # "none" => projects'[d].protocols[p] # "none"]_projectVars
=============================================================================
