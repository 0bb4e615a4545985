---------------------------- MODULE SupplyProofs ----------------------------
(***************************************************************************)
(* What TLAPS proves about Supply, for every set of connections and        *)
(* bindings.  Up to "One process" for every set of processes, and whether  *)
(* or not handlers may end half way.                                       *)
(***************************************************************************)
EXTENDS Supply, WellFoundedInduction, TLAPS

(***************************************************************************)
(* The inductive invariant.  What a process has read may be stale when it  *)
(* is written, so that the invariant says what stays true of it.           *)
(***************************************************************************)

\* A row refers to a connection just if its project is dedicated.
RowOK(row) == row.conn # NoConn <=> IsDedicated(row)

\* The rows a process is about to save.
RowsOK(j) ==
    /\ j.at \in {"validate", "publish", "deactivate", "replace"} => RowOK(j.row)
    /\ j.at = "replace" => IsDedicated(j.row)
    /\ j.at = "degrading" => \A b \in DOMAIN j.rows : RowOK(j.rows[b])

ConnTyped == conn \in [Conns -> ConnRows \cup {NoConnRow}]

BindingTyped ==
    /\ binding \in [Bindings -> BindingRows \cup {NoBindingRow}]
    /\ \A b \in Bindings : binding[b].status # "none" => RowOK(binding[b])

JobTyped == /\ DOMAIN job = Workers
            /\ \A w \in Workers : JobOK(job[w]) /\ RowsOK(job[w])

TypeInv == ConnTyped /\ BindingTyped /\ JobTyped

\* A lifecycle write that was decided follows the matrix.
Decided(j) == j.at = "cas" => Transition(j.from, j.to)

Holds(j) == j.at \in {"cas", "probe", "resume", "retire"}

\* A connection that was read is still there, and if its mode could no longer change
\* when it was read, it is still the mode.
ModeKnown(j) ==
    Holds(j) =>
        /\ conn[j.c].life # "none"
        /\ j.from \notin MODE_OPEN => /\ conn[j.c].life \notin MODE_OPEN
                                       /\ conn[j.c].mode = j.mode

JobsSound == \A w \in Workers : Decided(job[w]) /\ ModeKnown(job[w])

Inv == TypeInv /\ JobsSound /\ Admissible(binding)

----------------------------------------------------------------------------
(* Rows and jobs.                                                          *)

\* A row with another status is a row, of the same slot and in the same pool.
LEMMA RowUpdate ==
    ASSUME NEW row \in BindingRows
    PROVE  /\ row.status # "none" /\ row.slot \in Slots /\ row.version \in 0..MaxVersion
           /\ row.conn \in Conns \cup {NoConn}
           /\ \A st \in {"draft", "validated"} \cup PUBLISHED :
                 /\ [row EXCEPT !.status = st] \in BindingRows
                 /\ RowOK(row) => RowOK([row EXCEPT !.status = st])
                 /\ IsDedicated([row EXCEPT !.status = st]) <=> IsDedicated(row)
  BY DEF BindingRows, PUBLISHED, RowOK, IsDedicated

\* The row of a binding that was created.
LEMMA CreatedRow ==
    ASSUME BindingTyped, NEW b \in Bindings, binding[b].status # "none"
    PROVE  binding[b] \in BindingRows /\ RowOK(binding[b])
  BY DEF BindingTyped, NoBindingRow

\* Saving a good row over any binding leaves the table good.
LEMMA RowSaved ==
    ASSUME BindingTyped, NEW b \in Bindings, NEW row \in BindingRows, RowOK(row),
           binding' = [binding EXCEPT ![b] = row]
    PROVE  BindingTyped'
  BY DEF BindingTyped, RowOK, IsDedicated

\* What a process holds is told by the place it is at.
LEMMA JobKinds ==
    ASSUME NEW j, JobOK(j)
    PROVE  /\ j.at = "cas" =>
                 j \in [at : {"cas"}, c : Conns, from : Lives, to : Lives, mode : Modes]
           /\ j.at = "probe" =>
                 j \in [at : {"probe"}, c : Conns, from : Lives, mode : Modes, fit : BOOLEAN]
           /\ j.at \in {"resume", "retire"} =>
                 j \in [at : {"resume", "retire"}, c : Conns, from : Lives, mode : Modes]
           /\ j.at \in {"degrade", "bind", "unbind"} =>
                 j \in [at : {"degrade", "bind", "unbind"}, c : Conns]
           /\ j.at = "drain" => j \in [at : {"drain"}, c : Conns, new : Conns]
           /\ j.at \in {"validate", "publish", "deactivate"} =>
                 j \in [at : {"validate", "publish", "deactivate"}, b : Bindings,
                        row : BindingRows]
           /\ j.at = "replace" =>
                 j \in [at : {"replace"}, b : Bindings, old : Conns, row : BindingRows]
           /\ j.at = "degrading" =>
                 \E todo \in SUBSET Bindings :
                     j \in [at : {"degrading"}, rows : [todo -> BindingRows]]
  BY DEF JobOK, Idle

\* A process that takes on a well-formed job leaves the others as they were.
LEMMA JobStep ==
    ASSUME JobTyped, NEW w \in Workers, NEW j, JobOK(j), RowsOK(j),
           job' = [job EXCEPT ![w] = j]
    PROVE  /\ JobTyped'
           /\ job'[w] = j
           /\ \A v \in Workers : v # w => job'[v] = job[v]
  <1>1. DOMAIN job' = Workers /\ job'[w] = j /\ \A v \in Workers : v # w => job'[v] = job[v]
    BY DEF JobTyped
  <1>2. QED
    BY <1>1 DEF JobTyped

\* A process without a handler knows nothing that could be stale.
LEMMA IdleJob == JobOK(Idle) /\ RowsOK(Idle) /\ Idle.at = "idle"
  BY DEF JobOK, RowsOK, Idle

\* A process that is done.
LEMMA FinishTyped ==
    ASSUME JobTyped, NEW w \in Workers, Finish(w)
    PROVE  JobTyped'
  BY IdleJob, JobStep DEF Finish, Goto

\* The job of a handler that is about to compare and set.
LEMMA CasJob ==
    ASSUME NEW c \in Conns, NEW from \in Lives, NEW to \in Lives, NEW mode \in Modes
    PROVE  /\ JobOK(Cas(c, from, to, mode))
           /\ RowsOK(Cas(c, from, to, mode))
  BY DEF JobOK, RowsOK, Cas

\* The row of a connection that is there.
LEMMA OwnedRow ==
    ASSUME ConnTyped, NEW c \in Conns, Owned(c)
    PROVE  /\ conn[c] \in ConnRows
           /\ conn[c].life \in Lives /\ conn[c].mode \in Modes /\ conn[c].fit \in BOOLEAN
  BY DEF ConnTyped, Owned, NoConnRow, ConnRows

\* Any column of a connection that is there may be changed.
LEMMA ConnUpdate ==
    ASSUME ConnTyped, NEW c \in Conns, conn[c].life # "none",
           NEW life \in Lives, NEW mode \in Modes, NEW fit \in BOOLEAN
    PROVE  /\ [conn EXCEPT ![c].life = life] \in [Conns -> ConnRows \cup {NoConnRow}]
           /\ [conn EXCEPT ![c].life = life, ![c].mode = mode]
                 \in [Conns -> ConnRows \cup {NoConnRow}]
           /\ [conn EXCEPT ![c].gone = TRUE] \in [Conns -> ConnRows \cup {NoConnRow}]
           /\ [conn EXCEPT ![c].fit = fit] \in [Conns -> ConnRows \cup {NoConnRow}]
  <1>1. conn[c] \in ConnRows
    BY DEF ConnTyped, NoConnRow
  <1>2. /\ [conn[c] EXCEPT !.life = life] \in ConnRows
        /\ [[conn[c] EXCEPT !.life = life] EXCEPT !.mode = mode] \in ConnRows
        /\ [conn[c] EXCEPT !.gone = TRUE] \in ConnRows
        /\ [conn[c] EXCEPT !.fit = fit] \in ConnRows
    BY <1>1 DEF ConnRows
  <1>3. QED
    BY <1>2 DEF ConnTyped

\* The jobs that keep a row: a good row makes a good job.
LEMMA RowJob ==
    ASSUME NEW at \in {"validate", "publish", "deactivate"}, NEW b \in Bindings,
           NEW row \in BindingRows, RowOK(row)
    PROVE  LET j == [at |-> at, b |-> b, row |-> row] IN JobOK(j) /\ RowsOK(j)
  BY DEF JobOK, RowsOK

\* The jobs that keep a connection only.
LEMMA ConnJob ==
    ASSUME NEW at \in {"degrade", "bind", "unbind"}, NEW c \in Conns
    PROVE  LET j == [at |-> at, c |-> c] IN JobOK(j) /\ RowsOK(j)
  BY DEF JobOK, RowsOK

\* What a dedicated row refers to is a connection.
LEMMA DedicatedConn ==
    ASSUME NEW row \in BindingRows, RowOK(row), IsDedicated(row)
    PROVE  row.conn \in Conns
  BY DEF BindingRows, RowOK

----------------------------------------------------------------------------
(* Types.                                                                  *)

\* Calls on connections keep the types.
LEMMA ConnectionCallTyped ==
    ASSUME TypeInv, NEW w \in Workers, ConnectionCall(w)
    PROVE  TypeInv'
  <1> USE DEF TypeInv
  <1>0. PICK c \in Conns :
            \/ Verify(w, c) \/ ListSupply(w, c) \/ Pause(w, c) \/ Drain(w, c)
            \/ Resume(w, c) \/ Retire(w, c) \/ DeleteConnection(w, c) \/ Degrade(w, c)
            \/ \E mode \in Modes : SetMode(w, c, mode)
    BY DEF ConnectionCall
  <1>1. CASE Verify(w, c)
    <2> DEFINE j == [at |-> "probe", c |-> c, from |-> conn[c].life, mode |-> conn[c].mode,
                     fit |-> conn[c].fit]
    <2>1. JobOK(j) /\ RowsOK(j)
      BY <1>1, OwnedRow DEF Verify, JobOK, RowsOK
    <2>2. job' = [job EXCEPT ![w] = j] /\ UNCHANGED <<conn, binding>>
      BY <1>1 DEF Verify, Begin
    <2> HIDE DEF j
    <2>3. QED
      BY <2>1, <2>2, JobStep DEF ConnTyped, BindingTyped
  <1>2. CASE ListSupply(w, c)
    <2>1. job' = [job EXCEPT ![w] = Cas(c, "verified", "listed", conn[c].mode)]
          /\ UNCHANGED <<conn, binding>>
      BY <1>2 DEF ListSupply, Begin
    <2>2. conn[c].mode \in Modes /\ "verified" \in Lives /\ "listed" \in Lives
      BY <1>2, OwnedRow DEF ListSupply, Lives
    <2>3. QED
      BY <2>1, <2>2, CasJob, JobStep DEF ConnTyped, BindingTyped
  <1>3. ASSUME NEW to \in {"paused", "draining"}, Move(w, c, to)
        PROVE  TypeInv'
    <2>1. to \in Lives /\ conn[c].mode \in Modes /\ conn[c].life # "none"
      BY <1>3, OwnedRow DEF Move, Lives, Owned
    <2>2. ConnTyped'
      BY <1>3, <2>1, ConnUpdate DEF Move, ConnTyped
    <2>3. QED
      BY <1>3, <2>2 DEF Move, BindingTyped, JobTyped
  <1>4. CASE Resume(w, c) \/ Retire(w, c)
    <2>1. PICK at \in {"resume", "retire"} :
            /\ job' = [job EXCEPT ![w] = [at |-> at, c |-> c, from |-> conn[c].life,
                                          mode |-> conn[c].mode]]
            /\ UNCHANGED <<conn, binding>>
      BY <1>4 DEF Resume, Retire, Begin
    <2> DEFINE j == [at |-> at, c |-> c, from |-> conn[c].life, mode |-> conn[c].mode]
    <2>2. JobOK(j) /\ RowsOK(j)
      BY <1>4, OwnedRow DEF Resume, Retire, JobOK, RowsOK
    <2>3. job' = [job EXCEPT ![w] = j] /\ UNCHANGED <<conn, binding>>
      BY <2>1
    <2> HIDE DEF j
    <2>4. QED
      BY <2>2, <2>3, JobStep DEF ConnTyped, BindingTyped
  <1>5. CASE DeleteConnection(w, c)
    <2>1. conn[c].life # "none" /\ conn[c].life \in Lives /\ conn[c].mode \in Modes
          /\ conn[c].fit \in BOOLEAN
      BY <1>5, OwnedRow DEF DeleteConnection, Owned
    <2>2. ConnTyped'
      BY <1>5, <2>1, ConnUpdate DEF DeleteConnection, ConnTyped
    <2>3. JobTyped'
      BY <1>5, ConnJob, JobStep DEF DeleteConnection, Begin
    <2>4. QED
      BY <1>5, <2>2, <2>3 DEF DeleteConnection, BindingTyped
  <1>6. CASE Degrade(w, c)
    <2>1. JobTyped'
      BY <1>6, ConnJob, JobStep DEF Degrade, Begin
    <2>2. QED
      BY <1>6, <2>1 DEF Degrade, BindingTyped, ConnTyped
  <1>7. ASSUME NEW mode \in Modes, SetMode(w, c, mode)
        PROVE  TypeInv'
    <2>1. conn[c].life \in Lives
      BY <1>7, OwnedRow DEF SetMode
    <2>2. JobTyped'
      BY <1>7, <2>1, CasJob, JobStep DEF SetMode, Begin
    <2>3. QED
      BY <1>7, <2>2 DEF SetMode, BindingTyped, ConnTyped
  <1>8. QED
    BY <1>0, <1>1, <1>2, <1>3, <1>4, <1>5, <1>6, <1>7 DEF Pause, Drain

\* Calls on bindings keep the types.
LEMMA BindingCallTyped ==
    ASSUME TypeInv, NEW w \in Workers, BindingCall(w)
    PROVE  TypeInv'
  <1> USE DEF TypeInv
  <1>0. PICK b \in Bindings :
            \/ Validate(w, b) \/ Publish(w, b) \/ Deactivate(w, b)
            \/ \E c \in Conns : Replace(w, b, c)
    BY DEF BindingCall
  <1>1. CASE Validate(w, b)
    <2>1. binding[b] \in BindingRows /\ RowOK(binding[b])
      BY <1>1, CreatedRow DEF Validate
    <2>2. JobTyped'
      BY <1>1, <2>1, RowJob, JobStep DEF Validate, Begin
    <2>3. QED
      BY <1>1, <2>2 DEF Validate, ConnTyped, BindingTyped
  <1>2. CASE Publish(w, b)
    <2> DEFINE row == [binding[b] EXCEPT !.status = "active", !.version = NextVersion(b)]
    <2>1. binding[b] \in BindingRows /\ RowOK(binding[b])
      BY <1>2, CreatedRow DEF Publish
    <2>2. NextVersion(b) \in 0..MaxVersion
      BY <1>2, SupplyConstants DEF Publish
    <2>3. row \in BindingRows /\ RowOK(row)
      BY <2>1, <2>2 DEF BindingRows, RowOK, IsDedicated, PUBLISHED
    <2>4. job' = [job EXCEPT ![w] = [at |-> "publish", b |-> b, row |-> row]]
          /\ UNCHANGED <<conn, binding>>
      BY <1>2 DEF Publish, Begin
    <2> HIDE DEF row
    <2>5. JobTyped'
      BY <2>3, <2>4, RowJob, JobStep
    <2>6. QED
      BY <2>4, <2>5 DEF ConnTyped, BindingTyped
  <1>3. CASE Deactivate(w, b)
    <2>1. binding[b] \in BindingRows /\ RowOK(binding[b])
      BY <1>3, CreatedRow DEF Deactivate, Serving
    <2>2. JobTyped'
      BY <1>3, <2>1, RowJob, JobStep DEF Deactivate, Begin
    <2>3. QED
      BY <1>3, <2>2 DEF Deactivate, ConnTyped, BindingTyped
  <1>4. ASSUME NEW c \in Conns, Replace(w, b, c)
        PROVE  TypeInv'
    <2> DEFINE row == [binding[b] EXCEPT !.conn = c, !.status = "active", !.version = @ + 1]
               j == [at |-> "replace", b |-> b, old |-> binding[b].conn, row |-> row]
    <2>1. /\ binding[b] \in BindingRows /\ RowOK(binding[b])
          /\ IsDedicated(binding[b]) /\ binding[b].version < MaxVersion
      BY <1>4, CreatedRow DEF Replace, Serving
    <2>2. binding[b].conn \in Conns
      BY <2>1, DedicatedConn
    <2>3. binding[b].version + 1 \in 0..MaxVersion
      BY <2>1, SupplyConstants DEF BindingRows
    <2>4. row \in BindingRows /\ RowOK(row) /\ IsDedicated(row)
      BY <2>1, <2>3, SupplyConstants DEF BindingRows, RowOK, IsDedicated, PUBLISHED
    <2>5. job' = [job EXCEPT ![w] = j] /\ UNCHANGED <<conn, binding>>
      BY <1>4 DEF Replace, Begin
    <2> HIDE DEF row
    <2>6. JobOK(j) /\ RowsOK(j)
      BY <2>2, <2>4 DEF JobOK, RowsOK
    <2> HIDE DEF j
    <2>7. QED
      BY <2>5, <2>6, JobStep DEF ConnTyped, BindingTyped
  <1>5. QED
    BY <1>0, <1>1, <1>2, <1>3, <1>4

\* What a call that is under way does next keeps the types.
LEMMA LifecycleTyped ==
    ASSUME TypeInv, JobsSound, NEW w \in Workers,
           \/ WriteLifecycle(w) \/ ReadBlockers(w) \/ \E ok \in BOOLEAN : Probed(w, ok)
           \/ Bind(w) \/ Unbind(w) \/ DrainOld(w)
    PROVE  TypeInv'
  <1> USE DEF TypeInv
  <1> DEFINE j == job[w]
             life(c) == conn[c].life
  <1>0. JobOK(j) /\ RowsOK(j)
    BY DEF JobTyped
  <1>1. CASE WriteLifecycle(w)
    <2>1. j \in [at : {"cas"}, c : Conns, from : Lives, to : Lives, mode : Modes]
      BY <1>0, <1>1, JobKinds DEF WriteLifecycle
    <2>2. conn' = IF conn[j.c].life = j.from
                  THEN [conn EXCEPT ![j.c].life = j.to, ![j.c].mode = j.mode]
                  ELSE conn
      BY <1>1, <2>1 DEF WriteLifecycle, SaveLifecycle, ConnTyped, ConnRows, NoConnRow
    <2>3. ConnTyped'
      <3>1. CASE conn[j.c].life = j.from
        <4>1. conn[j.c].life # "none"
          BY <2>1, <3>1 DEF Lives
        <4>2. QED
          BY <2>1, <2>2, <3>1, <4>1, ConnUpdate DEF ConnTyped
      <3>2. CASE conn[j.c].life # j.from
        BY <2>2, <3>2 DEF ConnTyped
      <3>3. QED
        BY <3>1, <3>2
    <2>4. JobTyped'
      BY <1>1, FinishTyped DEF WriteLifecycle
    <2>5. QED
      BY <1>1, <2>3, <2>4 DEF WriteLifecycle, BindingTyped
  <1>2. CASE ReadBlockers(w)
    <2>1. j \in [at : {"resume", "retire"}, c : Conns, from : Lives, mode : Modes]
      BY <1>0, <1>2, JobKinds DEF ReadBlockers
    <2>2. \/ Finish(w)
          \/ \E to \in {"retired", "bound", "listed"} : Goto(w, Cas(j.c, j.from, to, j.mode))
      BY <1>2 DEF ReadBlockers
    <2>3. ASSUME NEW to \in {"retired", "bound", "listed"}, Goto(w, Cas(j.c, j.from, to, j.mode))
          PROVE  JobTyped'
      <3>1. to \in Lives
        BY DEF Lives
      <3>2. QED
        BY <2>1, <2>3, <3>1, CasJob, JobStep DEF Goto
    <2>4. JobTyped'
      BY <2>2, <2>3, FinishTyped
    <2>5. QED
      BY <1>2, <2>4 DEF ReadBlockers, ConnTyped, BindingTyped
  <1>3. ASSUME NEW ok \in BOOLEAN, Probed(w, ok)
        PROVE  TypeInv'
    <2>1. j \in [at : {"probe"}, c : Conns, from : Lives, mode : Modes, fit : BOOLEAN]
      BY <1>0, <1>3, JobKinds DEF Probed
    <2>2. ConnTyped'
      <3>1. conn[j.c].life # "none"
        BY <1>3 DEF Probed, JobsSound, ModeKnown, Holds
      <3>2. conn[j.c] \in ConnRows
        BY <2>1, <3>1 DEF ConnTyped, NoConnRow
      <3>3. PICK fit \in BOOLEAN : conn' = [conn EXCEPT ![j.c].fit = fit]
        BY <1>3, <2>1 DEF Probed
      <3>4. [conn[j.c] EXCEPT !.fit = fit] \in ConnRows
        BY <3>2 DEF ConnRows
      <3>5. QED
        BY <2>1, <3>3, <3>4 DEF ConnTyped
    <2>3. JobTyped'
      <3>1. CASE Finish(w)
        BY <3>1, FinishTyped
      <3>2. CASE Goto(w, Cas(j.c, "draft", "verified", j.mode))
        <4>1. "draft" \in Lives /\ "verified" \in Lives
          BY DEF Lives
        <4>2. QED
          BY <2>1, <3>2, <4>1, CasJob, JobStep DEF Goto
      <3>3. QED
        BY <1>3, <3>1, <3>2 DEF Probed
    <2>4. QED
      BY <1>3, <2>2, <2>3 DEF Probed, BindingTyped
  <1>4. CASE Bind(w) \/ Unbind(w)
    <2>1. j \in [at : {"degrade", "bind", "unbind"}, c : Conns]
      BY <1>0, <1>4, JobKinds DEF Bind, Unbind
    <2>2. \/ conn' = conn
          \/ /\ conn[j.c].life # "none"
             /\ \E to \in {"bound", "listed"} : conn' = [conn EXCEPT ![j.c].life = to]
      BY <1>4 DEF Bind, Unbind
    <2>3. conn[j.c].life # "none" => conn[j.c] \in ConnRows
      BY <2>1 DEF ConnTyped, NoConnRow
    <2>4. ConnTyped'
      BY <2>1, <2>2, <2>3 DEF ConnTyped, ConnRows, Lives
    <2>5. QED
      BY <1>4, <2>4, FinishTyped DEF Bind, Unbind, BindingTyped
  <1>5. CASE DrainOld(w)
    <2>1. j \in [at : {"drain"}, c : Conns, new : Conns]
      BY <1>0, <1>5, JobKinds DEF DrainOld
    <2>2. \/ conn' = conn
          \/ conn[j.c].life # "none" /\ conn' = [conn EXCEPT ![j.c].life = "draining"]
      BY <1>5 DEF DrainOld, LIVE
    <2>3. conn[j.c].life # "none" => conn[j.c] \in ConnRows
      BY <2>1 DEF ConnTyped, NoConnRow
    <2>4. ConnTyped'
      BY <2>1, <2>2, <2>3 DEF ConnTyped, ConnRows, Lives
    <2>5. JobTyped'
      BY <1>5, <2>1, ConnJob, JobStep DEF DrainOld, Goto
    <2>6. QED
      BY <1>5, <2>4, <2>5 DEF DrainOld, BindingTyped
  <1>6. QED
    BY <1>1, <1>2, <1>3, <1>4, <1>5

\* Every save keeps the types of rows and jobs.
LEMMA SavesTyped ==
    ASSUME TypeInv, NEW w \in Workers,
           \/ ListForDegrade(w) \/ \E b \in Bindings : SaveDegraded(w, b)
           \/ SaveValidated(w) \/ SavePublished(w) \/ SaveInactive(w) \/ SaveReplaced(w)
    PROVE  TypeInv'
  <1> USE DEF TypeInv
  <1> DEFINE j == job[w]
  <1>0. JobOK(j) /\ RowsOK(j)
    BY DEF JobTyped
  <1>1. CASE ListForDegrade(w)
    <2> DEFINE todo == {b \in Bindings : /\ binding[b].conn = j.c
                                         /\ binding[b].status = "active"
                                         /\ IsDedicated(binding[b])}
               rows == [b \in todo |-> binding[b]]
               next == [at |-> "degrading", rows |-> rows]
    <2>1. \A b \in todo : binding[b] \in BindingRows /\ RowOK(binding[b])
      BY CreatedRow
    <2>2. rows \in [todo -> BindingRows] /\ todo \in SUBSET Bindings
          /\ \A b \in DOMAIN rows : RowOK(rows[b])
      BY <2>1
    <2>3. Finish(w) \/ Goto(w, next)
      BY <1>1 DEF ListForDegrade
    <2> HIDE DEF rows, todo
    <2>4. JobOK(next) /\ RowsOK(next)
      BY <2>2 DEF JobOK, RowsOK
    <2> HIDE DEF next
    <2>5. JobTyped'
      BY <2>3, <2>4, FinishTyped, JobStep DEF Goto
    <2>6. QED
      BY <1>1, <2>5 DEF ListForDegrade, ConnTyped, BindingTyped
  <1>2. ASSUME NEW b \in Bindings, SaveDegraded(w, b)
        PROVE  TypeInv'
    <2> DEFINE row == [j.rows[b] EXCEPT !.status = "degraded"]
               rest == DOMAIN j.rows \ {b}
               left == [o \in rest |-> j.rows[o]]
               next == [j EXCEPT !.rows = left]
    <2>1. PICK todo \in SUBSET Bindings :
              j \in [at : {"degrading"}, rows : [todo -> BindingRows]]
      BY <1>0, <1>2, JobKinds DEF SaveDegraded
    <2>2. \A o \in todo : j.rows[o] \in BindingRows /\ RowOK(j.rows[o])
      BY <1>0, <2>1 DEF RowsOK
    <2>3. row \in BindingRows /\ RowOK(row)
      BY <1>2, <2>1, <2>2, RowUpdate DEF SaveDegraded, PUBLISHED
    <2>4. /\ binding' = [binding EXCEPT ![b] = row] \/ binding' = binding
          /\ Finish(w) \/ Goto(w, next)
          /\ conn' = conn
      BY <1>2 DEF SaveDegraded
    <2>5. rest \in SUBSET Bindings /\ left \in [rest -> BindingRows]
          /\ \A o \in DOMAIN left : RowOK(left[o])
      BY <2>1, <2>2
    <2>6. next = [at |-> "degrading", rows |-> left]
      BY <2>1
    <2> HIDE DEF row, rest, left, next
    <2>7. JobOK(next) /\ RowsOK(next)
      BY <2>5, <2>6 DEF JobOK, RowsOK
    <2>8. JobTyped'
      BY <2>4, <2>7, FinishTyped, JobStep DEF Goto
    <2>9. BindingTyped'
      <3>1. CASE binding' = binding
        BY <3>1 DEF BindingTyped
      <3>2. QED
        BY <2>3, <2>4, <3>1, RowSaved
    <2>10. QED
      BY <2>4, <2>8, <2>9 DEF ConnTyped
  <1>3. CASE SaveValidated(w) \/ SaveInactive(w)
    <2>1. j \in [at : {"validate", "publish", "deactivate"}, b : Bindings, row : BindingRows]
          /\ RowOK(j.row)
      BY <1>0, <1>3, JobKinds DEF SaveValidated, SaveInactive, RowsOK
    <2>2. PICK st \in {"validated", "inactive"} :
              binding' = [binding EXCEPT ![j.b] = [j.row EXCEPT !.status = st]]
      BY <1>3 DEF SaveValidated, SaveInactive
    <2> DEFINE row == [j.row EXCEPT !.status = st]
    <2>3. row \in BindingRows /\ RowOK(row)
      BY <2>1, <2>2, RowUpdate DEF PUBLISHED
    <2>4. BindingTyped'
      <3>1. binding' = [binding EXCEPT ![j.b] = row]
        BY <2>2
      <3> HIDE DEF row
      <3>2. QED
        BY <2>1, <2>3, <3>1, RowSaved
    <2>5. Finish(w) \/ (IsDedicated(j.row) /\ Goto(w, [at |-> "unbind", c |-> j.row.conn]))
      BY <1>3 DEF SaveValidated, SaveInactive
    <2>6. JobTyped'
      BY <2>1, <2>5, FinishTyped, ConnJob, DedicatedConn, JobStep DEF Goto
    <2>7. QED
      BY <1>3, <2>4, <2>6 DEF SaveValidated, SaveInactive, ConnTyped
  <1>4. CASE SavePublished(w)
    <2>1. j \in [at : {"validate", "publish", "deactivate"}, b : Bindings, row : BindingRows]
          /\ RowOK(j.row)
      BY <1>0, <1>4, JobKinds DEF SavePublished, RowsOK
    <2>2. BindingTyped'
      <3>1. CASE binding' = binding
        BY <3>1 DEF BindingTyped
      <3>2. CASE binding' # binding
        <4>1. \A b \in Bindings :
                 \/ b = j.b /\ binding'[b] = j.row
                 \/ binding[b].status = "active"
                    /\ binding'[b] = [binding[b] EXCEPT !.status = "inactive"]
                 \/ binding'[b] = binding[b]
          BY <1>4, <3>2 DEF SavePublished
        <4>2. \A b \in Bindings :
                 \/ binding'[b] \in BindingRows /\ RowOK(binding'[b])
                 \/ binding'[b] = binding[b]
          <5>1. SUFFICES ASSUME NEW b \in Bindings, binding[b].status = "active",
                                binding'[b] = [binding[b] EXCEPT !.status = "inactive"]
                         PROVE  binding'[b] \in BindingRows /\ RowOK(binding'[b])
            BY <2>1, <4>1
          <5>2. binding[b] \in BindingRows /\ RowOK(binding[b])
            BY <5>1, CreatedRow
          <5>3. QED
            BY <5>1, <5>2 DEF BindingRows, RowOK, IsDedicated, PUBLISHED
        <4>3. binding' = [b \in Bindings |-> binding'[b]]
          BY <1>4, <3>2 DEF SavePublished
        <4>4. QED
          BY <4>2, <4>3 DEF BindingTyped, RowOK, IsDedicated
      <3>3. QED
        BY <3>1, <3>2
    <2>3. Finish(w) \/ (IsDedicated(j.row) /\ Goto(w, [at |-> "bind", c |-> j.row.conn]))
      BY <1>4 DEF SavePublished
    <2>4. JobTyped'
      BY <2>1, <2>3, FinishTyped, ConnJob, DedicatedConn, JobStep DEF Goto
    <2>5. QED
      BY <1>4, <2>2, <2>4 DEF SavePublished, ConnTyped
  <1>5. CASE SaveReplaced(w)
    <2> DEFINE next == [at |-> "drain", c |-> j.old, new |-> j.row.conn]
    <2>1. j \in [at : {"replace"}, b : Bindings, old : Conns, row : BindingRows]
          /\ RowOK(j.row) /\ IsDedicated(j.row)
      BY <1>0, <1>5, JobKinds DEF SaveReplaced, RowsOK
    <2>2. BindingTyped'
      <3>1. CASE binding' = binding
        BY <3>1 DEF BindingTyped
      <3>2. CASE binding' = [binding EXCEPT ![j.b] = j.row]
        BY <2>1, <3>2, RowSaved
      <3>3. QED
        BY <1>5, <3>1, <3>2 DEF SaveReplaced
    <2>3. JobOK(next) /\ RowsOK(next)
      BY <2>1, DedicatedConn DEF JobOK, RowsOK
    <2>4. Finish(w) \/ Goto(w, next)
      BY <1>5 DEF SaveReplaced
    <2> HIDE DEF next
    <2>5. JobTyped'
      BY <2>3, <2>4, FinishTyped, JobStep DEF Goto
    <2>6. QED
      BY <1>5, <2>2, <2>5 DEF SaveReplaced, ConnTyped
  <1>6. QED
    BY <1>1, <1>2, <1>3, <1>4, <1>5

\* Types are kept by every step.
LEMMA TypeStep == TypeInv /\ JobsSound /\ [Next]_vars => TypeInv'
  <1> SUFFICES ASSUME TypeInv, JobsSound, [Next]_vars PROVE TypeInv'
    OBVIOUS
  <1>1. CASE UNCHANGED vars
    BY <1>1 DEF TypeInv, ConnTyped, BindingTyped, JobTyped, vars
  <1>2. ASSUME NEW c \in Conns, NEW mode \in Modes, CreateConnection(c, mode)
        PROVE  TypeInv'
    BY <1>2 DEF CreateConnection, TypeInv, ConnTyped, ConnRows, Lives, BindingTyped, JobTyped
  <1>3. ASSUME NEW b \in Bindings, NEW s \in Slots, NEW c \in Conns \cup {NoConn},
               CreateBinding(b, s, c)
        PROVE  TypeInv'
    <2> DEFINE row == [status |-> "draft", slot |-> s, version |-> 0, conn |-> c]
    <2>1. row \in BindingRows /\ RowOK(row)
      BY <1>3, SupplyConstants DEF CreateBinding, BindingRows, RowOK, IsDedicated
    <2>2. binding' = [binding EXCEPT ![b] = row] /\ UNCHANGED <<conn, job>>
      BY <1>3 DEF CreateBinding
    <2> HIDE DEF row
    <2>3. QED
      BY <2>1, <2>2, RowSaved DEF TypeInv, ConnTyped, JobTyped
  <1>4. ASSUME NEW w \in Workers, Abort(w)
        PROVE  TypeInv'
    BY <1>4, FinishTyped DEF Abort, TypeInv, ConnTyped, BindingTyped
  <1>5. ASSUME NEW w \in Workers, Continue(w)
        PROVE  TypeInv'
    BY <1>5, LifecycleTyped, SavesTyped DEF Continue
  <1>6. QED
    BY <1>1, <1>2, <1>3, <1>4, <1>5, ConnectionCallTyped, BindingCallTyped DEF Next

----------------------------------------------------------------------------
(* Life cycle and mode.                                                    *)

\* The matrix leads nowhere back to an open mode, and out of nowhere.
LEMMA MatrixCloses ==
    ASSUME NEW from, NEW to, Transition(from, to), from # "none"
    PROVE  /\ to # "none"
           /\ from \notin MODE_OPEN => to \notin MODE_OPEN
  BY DEF Transition, ALLOWED, MODE_OPEN

\* What a step does to a connection that is there: it moves along the matrix, and
\* keeps its mode once that is no longer open.
Kept(c) == conn[c].life # "none" =>
               /\ Transition(conn[c].life, conn'[c].life)
               /\ conn[c].life \notin MODE_OPEN => conn'[c].mode = conn[c].mode

\* A step that writes no connection moves none.
LEMMA KeptIfUnchanged ==
    ASSUME UNCHANGED conn, NEW c \in Conns
    PROVE  Kept(c)
  BY DEF Kept, Transition

\* Setting the state alone of connection d, along the matrix.
LEMMA KeptIfMoved ==
    ASSUME ConnTyped, NEW c \in Conns, NEW d \in Conns, NEW to \in Lives,
           Transition(conn[d].life, to), conn' = [conn EXCEPT ![d].life = to]
    PROVE  Kept(c)
  <1>1. conn[c] \in ConnRows \cup {NoConnRow} /\ conn[d] \in ConnRows \cup {NoConnRow}
    BY DEF ConnTyped
  <1>2. conn'[c] = IF c = d THEN [conn[d] EXCEPT !.life = to] ELSE conn[c]
    BY DEF ConnTyped
  <1>3. QED
    BY <1>1, <1>2 DEF Kept, Transition, ConnRows, NoConnRow

\* Setting another column of connection d.
LEMMA KeptIfOther ==
    ASSUME ConnTyped, NEW c \in Conns, NEW d \in Conns, NEW x,
           \/ conn' = [conn EXCEPT ![d].gone = x]
           \/ conn' = [conn EXCEPT ![d].fit = x]
    PROVE  Kept(c)
  <1>1. conn[c] \in ConnRows \cup {NoConnRow} /\ conn[d] \in ConnRows \cup {NoConnRow}
    BY DEF ConnTyped
  <1>2. \/ conn'[c] = conn[c]
        \/ conn'[c] = [conn[c] EXCEPT !.gone = x]
        \/ conn'[c] = [conn[c] EXCEPT !.fit = x]
    BY DEF ConnTyped
  <1>3. conn'[c].life = conn[c].life /\ conn'[c].mode = conn[c].mode
    BY <1>1, <1>2 DEF ConnRows, NoConnRow
  <1>4. QED
    BY <1>3 DEF Kept, Transition

\* A compare-and-set moves a connection along the matrix, or not at all.
LEMMA WriteLifecycleKeeps ==
    ASSUME TypeInv, JobsSound, NEW w \in Workers, WriteLifecycle(w), NEW c \in Conns
    PROVE  Kept(c)
  <1> DEFINE j == job[w]
  <1>1. /\ JobOK(j) /\ Decided(j) /\ ModeKnown(j)
        /\ j.at = "cas"
    BY DEF TypeInv, JobTyped, JobsSound, WriteLifecycle
  <1>2. j \in [at : {"cas"}, c : Conns, from : Lives, to : Lives, mode : Modes]
    BY <1>1, JobKinds
  <1>3. Transition(j.from, j.to)
    BY <1>1 DEF Decided
  <1>4. conn' = IF conn[j.c].life = j.from
                THEN [conn EXCEPT ![j.c].life = j.to, ![j.c].mode = j.mode]
                ELSE conn
    BY <1>2 DEF WriteLifecycle, SaveLifecycle, TypeInv, ConnTyped, ConnRows, NoConnRow
  <1>5. CASE conn[j.c].life = j.from /\ c = j.c
    <2>1. conn[c] \in ConnRows
      BY <1>2, <1>5 DEF TypeInv, ConnTyped, NoConnRow, Lives
    <2>2. conn'[c] = [[conn[c] EXCEPT !.life = j.to] EXCEPT !.mode = j.mode]
      BY <1>2, <1>4, <1>5 DEF TypeInv, ConnTyped
    <2>3. conn'[c].life = j.to /\ conn'[c].mode = j.mode
      BY <2>1, <2>2 DEF ConnRows
    <2>4. QED
      BY <1>1, <1>3, <1>5, <2>3 DEF Kept, ModeKnown, Holds
  <1>6. CASE ~(conn[j.c].life = j.from /\ c = j.c)
    <2>1. conn'[c] = conn[c]
      BY <1>2, <1>4, <1>6 DEF TypeInv, ConnTyped
    <2>2. QED
      BY <2>1 DEF Kept, Transition
  <1>7. QED
    BY <1>5, <1>6

\* Every step moves a connection along the matrix, or not at all.
LEMMA StepKeeps ==
    ASSUME TypeInv, JobsSound, [Next]_vars, NEW c \in Conns
    PROVE  Kept(c)
  <1> USE DEF TypeInv
  <1>1. CASE UNCHANGED conn
    BY <1>1, KeptIfUnchanged
  <1>2. ASSUME NEW d \in Conns, NEW mode \in Modes, CreateConnection(d, mode)
        PROVE  Kept(c)
    BY <1>2 DEF CreateConnection, Kept, Transition, ConnTyped
  <1>3. ASSUME NEW w \in Workers, NEW d \in Conns, NEW to \in {"paused", "draining"},
               Move(w, d, to)
        PROVE  Kept(c)
    BY <1>3, KeptIfMoved DEF Move, Lives
  <1>4. ASSUME NEW w \in Workers, NEW d \in Conns, DeleteConnection(w, d)
        PROVE  Kept(c)
    BY <1>4, KeptIfOther DEF DeleteConnection
  <1>5. ASSUME NEW w \in Workers, WriteLifecycle(w)
        PROVE  Kept(c)
    BY <1>5, WriteLifecycleKeeps
  <1>6. ASSUME NEW w \in Workers, NEW ok \in BOOLEAN, Probed(w, ok)
        PROVE  Kept(c)
    <2>1. job[w].c \in Conns
      BY <1>6, JobKinds DEF Probed, JobTyped
    <2>2. PICK fit : conn' = [conn EXCEPT ![job[w].c].fit = fit]
      BY <1>6 DEF Probed
    <2>3. QED
      BY <2>1, <2>2, KeptIfOther
  <1>7. ASSUME NEW w \in Workers, Bind(w) \/ Unbind(w)
        PROVE  Kept(c)
    <2>1. job[w].c \in Conns
      BY <1>7, JobKinds DEF Bind, Unbind, JobTyped
    <2>2. \/ UNCHANGED conn
          \/ \E to \in {"listed", "bound"} : /\ Transition(conn[job[w].c].life, to)
                                             /\ conn' = [conn EXCEPT ![job[w].c].life = to]
      BY <1>7 DEF Bind, Unbind, Transition, ALLOWED
    <2>3. QED
      BY <2>1, <2>2, KeptIfMoved, KeptIfUnchanged DEF Lives
  <1>8. ASSUME NEW w \in Workers, DrainOld(w)
        PROVE  Kept(c)
    <2>1. job[w].c \in Conns
      BY <1>8, JobKinds DEF DrainOld, JobTyped
    <2>2. \/ UNCHANGED conn
          \/ /\ Transition(conn[job[w].c].life, "draining")
             /\ conn' = [conn EXCEPT ![job[w].c].life = "draining"]
      BY <1>8 DEF DrainOld, Transition, ALLOWED, LIVE
    <2>3. QED
      BY <2>1, <2>2, KeptIfMoved, KeptIfUnchanged DEF Lives
  <1>9. ASSUME NEW w \in Workers,
               ConnectionCall(w) \/ BindingCall(w) \/ Continue(w) \/ Abort(w)
        PROVE  Kept(c)
    <2>1. CASE ConnectionCall(w)
      BY <1>1, <1>3, <1>4, <2>1
         DEF ConnectionCall, Verify, ListSupply, Pause, Drain, Resume, Retire, Degrade, SetMode
    <2>2. CASE BindingCall(w) \/ Abort(w)
      BY <1>1, <2>2 DEF BindingCall, Validate, Publish, Deactivate, Replace, Abort
    <2>3. CASE Continue(w)
      BY <1>1, <1>5, <1>6, <1>7, <1>8, <2>3
         DEF Continue, ReadBlockers, ListForDegrade, SaveDegraded, SaveValidated,
             SavePublished, SaveInactive, SaveReplaced
    <2>4. QED
      BY <1>9, <2>1, <2>2, <2>3
  <1>10. QED
    BY <1>1, <1>2, <1>9 DEF Next, CreateBinding, vars

\* Whatever a process takes on is sound.
LEMMA JobsSoundStep == TypeInv /\ JobsSound /\ [Next]_vars => JobsSound'
  <1> SUFFICES ASSUME TypeInv, JobsSound, [Next]_vars PROVE JobsSound'
    OBVIOUS
  <1>1. ASSUME NEW v \in Workers, job'[v] = job[v]
        PROVE  Decided(job'[v]) /\ ModeKnown(job[v])'
    <2>1. Decided(job[v]) /\ ModeKnown(job[v]) /\ JobOK(job[v])
      BY DEF JobsSound, TypeInv, JobTyped
    <2>2. Holds(job[v]) => job[v].c \in Conns
      BY <2>1, JobKinds DEF Holds
    <2>3. Holds(job[v]) => Kept(job[v].c)
      BY <2>2, StepKeeps
    <2>4. QED
      BY <1>1, <2>1, <2>3, MatrixCloses DEF Kept, ModeKnown, Holds
  <1>2. ASSUME NEW w \in Workers, NEW n, job' = [job EXCEPT ![w] = n],
               Decided(n), Holds(n) => /\ conn'[n.c].life # "none"
                                       /\ n.from \notin MODE_OPEN =>
                                             /\ conn'[n.c].life \notin MODE_OPEN
                                             /\ conn'[n.c].mode = n.mode
        PROVE  JobsSound'
    <2>1. job'[w] = n /\ \A v \in Workers : v # w => job'[v] = job[v]
      BY <1>2 DEF TypeInv, JobTyped
    <2>2. Decided(job'[w]) /\ ModeKnown(job[w])'
      BY <1>2, <2>1 DEF ModeKnown, Holds
    <2>3. QED
      BY <1>1, <2>1, <2>2 DEF JobsSound
  <1>3. ASSUME NEW w \in Workers, NEW n, job' = [job EXCEPT ![w] = n], ~Holds(n)
        PROVE  JobsSound'
    BY <1>2, <1>3 DEF Holds, Decided
  <1>4. CASE UNCHANGED job
    BY <1>1, <1>4 DEF JobsSound
  <1>5. ASSUME NEW w \in Workers, ConnectionCall(w)
        PROVE  JobsSound'
    <2>0. PICK c \in Conns :
              \/ Verify(w, c) \/ ListSupply(w, c) \/ Pause(w, c) \/ Drain(w, c)
              \/ Resume(w, c) \/ Retire(w, c) \/ DeleteConnection(w, c) \/ Degrade(w, c)
              \/ \E mode \in Modes : SetMode(w, c, mode)
      BY <1>5 DEF ConnectionCall
    <2>1. CASE Verify(w, c)
      BY <2>1, <1>2 DEF Verify, Begin, Owned, Decided
    <2>2. CASE ListSupply(w, c)
      BY <2>2, <1>2 DEF ListSupply, Begin, Owned, Decided, Cas, Transition, ALLOWED, MODE_OPEN
    <2>3. CASE Pause(w, c) \/ Drain(w, c)
      BY <2>3, <1>4 DEF Pause, Drain, Move
    <2>4. CASE Resume(w, c) \/ Retire(w, c)
      BY <2>4, <1>2 DEF Resume, Retire, Begin, Owned, Decided
    <2>5. CASE DeleteConnection(w, c) \/ Degrade(w, c)
      BY <2>5, <1>3 DEF DeleteConnection, Degrade, Begin, Holds
    <2>6. ASSUME NEW mode \in Modes, SetMode(w, c, mode)
          PROVE  JobsSound'
      BY <2>6, <1>2 DEF SetMode, Begin, Owned, Decided, Cas, Transition
    <2>7. QED
      BY <2>0, <2>1, <2>2, <2>3, <2>4, <2>5, <2>6
  <1>6. ASSUME NEW w \in Workers, BindingCall(w) \/ Abort(w)
        PROVE  JobsSound'
    BY <1>6, <1>3, IdleJob
       DEF BindingCall, Abort, Validate, Publish, Deactivate, Replace, Begin, Finish, Goto, Holds
  <1>7. ASSUME NEW w \in Workers, Finish(w)
        PROVE  JobsSound'
    BY <1>7, <1>3, IdleJob DEF Finish, Goto, Holds
  <1>8. ASSUME NEW w \in Workers, ReadBlockers(w)
        PROVE  JobsSound'
    <2> DEFINE j == job[w]
               to == CASE j.at = "retire" -> "retired"
                       [] j.mode = "dedicated" /\ Blockers(j.c) # {} -> "bound"
                       [] OTHER -> "listed"
    <2>1. \/ Finish(w)
          \/ Transition(j.from, to) /\ Goto(w, Cas(j.c, j.from, to, j.mode))
      BY <1>8 DEF ReadBlockers
    <2>2. ModeKnown(j) /\ Holds(j) /\ conn' = conn
      BY <1>8 DEF JobsSound, ReadBlockers, Holds
    <2> HIDE DEF to
    <2>3. ASSUME Transition(j.from, to), Goto(w, Cas(j.c, j.from, to, j.mode))
          PROVE  JobsSound'
      BY <2>2, <2>3, <1>2 DEF Goto, Cas, Decided, ModeKnown, Holds
    <2>4. QED
      BY <2>1, <2>3, <1>7
  <1>9. ASSUME NEW w \in Workers, NEW ok \in BOOLEAN, Probed(w, ok)
        PROVE  JobsSound'
    <2>1. CASE Goto(w, Cas(job[w].c, "draft", "verified", job[w].mode))
      <3>1. conn[job[w].c].life # "none" /\ job[w].c \in Conns
        BY <1>9, JobKinds DEF Probed, JobsSound, ModeKnown, Holds, TypeInv, JobTyped
      <3>2. conn'[job[w].c].life # "none"
        BY <3>1, StepKeeps, MatrixCloses DEF Kept
      <3>3. QED
        BY <2>1, <3>2, <1>2 DEF Goto, Cas, Decided, Transition, ALLOWED, MODE_OPEN
    <2>2. QED
      BY <1>7, <1>9, <2>1 DEF Probed
  <1>10. ASSUME NEW w \in Workers, Continue(w)
         PROVE  JobsSound'
    <2>1. CASE WriteLifecycle(w) \/ SaveValidated(w) \/ Bind(w) \/ Unbind(w)
      BY <2>1, <1>7 DEF WriteLifecycle, SaveValidated, Bind, Unbind
    <2>2. CASE ListForDegrade(w) \/ SavePublished(w) \/ SaveInactive(w) \/ SaveReplaced(w)
               \/ DrainOld(w)
      BY <2>2, <1>3, <1>7
         DEF ListForDegrade, SavePublished, SaveInactive, SaveReplaced, DrainOld, Goto, Holds
    <2>3. ASSUME NEW b \in Bindings, SaveDegraded(w, b)
          PROVE  JobsSound'
      <3> DEFINE n == [job[w] EXCEPT !.rows = [o \in DOMAIN job[w].rows \ {b} |-> job[w].rows[o]]]
      <3>1. JobOK(job[w]) /\ job[w].at = "degrading"
        BY <2>3 DEF SaveDegraded, TypeInv, JobTyped
      <3>2. n.at = "degrading"
        BY <3>1, JobKinds
      <3>3. Finish(w) \/ Goto(w, n)
        BY <2>3 DEF SaveDegraded
      <3> HIDE DEF n
      <3>4. QED
        BY <3>2, <3>3, <1>3, <1>7 DEF Goto, Holds
    <2>4. QED
      BY <1>8, <1>9, <1>10, <2>1, <2>2, <2>3 DEF Continue
  <1>11. QED
    BY <1>4, <1>5, <1>6, <1>10 DEF Next, CreateConnection, CreateBinding, vars

----------------------------------------------------------------------------
(* Exclusive use.                                                          *)

\* Saving a row that does not serve keeps the table admissible.
LEMMA IdleRowAdmissible ==
    ASSUME BindingTyped, Admissible(binding), NEW b \in Bindings, NEW row,
           row.status \notin Serving, binding' = [binding EXCEPT ![b] = row]
    PROVE  Admissible(binding')
  <1>1. /\ binding'[b].status \notin Serving
        /\ \A o \in Bindings : o # b => binding'[o] = binding[o]
    BY DEF BindingTyped
  <1> DEFINE Apart(x, y) == /\ ~SameSlot(x, y)
                            /\ ~(SameConn(x, y) /\ {x.status, y.status} \subseteq Serving)
  <1>2. ASSUME NEW x, NEW y, x.status \notin Serving \/ y.status \notin Serving
        PROVE  Apart(x, y)
    <2>1. x.status \in {x.status, y.status} /\ y.status \in {x.status, y.status}
          /\ {"active"} \subseteq Serving
      BY DEF Serving
    <2>2. QED
      BY <1>2, <2>1 DEF SameSlot
  <1>3. ASSUME NEW x \in Bindings, NEW o \in Bindings, x # o
        PROVE  Apart(binding'[x], binding'[o])
    <2>1. CASE x = b \/ o = b
      BY <1>1, <1>2, <2>1
    <2>2. CASE x # b /\ o # b
      BY <1>1, <1>3, <2>2 DEF Admissible
    <2>3. QED
      BY <2>1, <2>2
  <1>4. QED
    BY <1>3 DEF Admissible

\* No step lets two rows stand that the indexes refuse.
LEMMA AdmissibleStep == TypeInv /\ Admissible(binding) /\ [Next]_vars => Admissible(binding)'
  <1> SUFFICES ASSUME TypeInv, Admissible(binding), [Next]_vars PROVE Admissible(binding')
    BY DEF Admissible, SameSlot, SameConn, IsDedicated
  <1> USE DEF TypeInv
  <1>1. CASE UNCHANGED binding
    BY <1>1
  <1>2. ASSUME NEW b \in Bindings, NEW s \in Slots, NEW c \in Conns \cup {NoConn},
               CreateBinding(b, s, c)
        PROVE  Admissible(binding')
    BY <1>2, IdleRowAdmissible DEF CreateBinding, Serving
  <1>3. ASSUME NEW w \in Workers, SaveValidated(w) \/ SaveInactive(w)
        PROVE  Admissible(binding')
    <2>1. /\ job[w].b \in Bindings /\ job[w].row \in BindingRows
      BY <1>3, JobKinds DEF SaveValidated, SaveInactive, JobTyped
    <2>2. PICK st \in {"validated", "inactive"} :
              binding' = [binding EXCEPT ![job[w].b] = [job[w].row EXCEPT !.status = st]]
      BY <1>3 DEF SaveValidated, SaveInactive
    <2>3. [job[w].row EXCEPT !.status = st].status = st
      BY <2>1 DEF BindingRows
    <2>4. QED
      BY <2>1, <2>2, <2>3, IdleRowAdmissible DEF Serving
  <1>4. ASSUME NEW w \in Workers,
               \/ SavePublished(w) \/ SaveReplaced(w) \/ \E b \in Bindings : SaveDegraded(w, b)
        PROVE  Admissible(binding')
    BY <1>4 DEF SavePublished, SaveReplaced, SaveDegraded
  <1>5. ASSUME NEW w \in Workers, Continue(w)
        PROVE  Admissible(binding')
    BY <1>1, <1>3, <1>4, <1>5
       DEF Continue, WriteLifecycle, ReadBlockers, ListForDegrade, Probed, Bind, Unbind, DrainOld
  <1>6. ASSUME NEW w \in Workers, ConnectionCall(w) \/ BindingCall(w) \/ Abort(w)
        PROVE  Admissible(binding')
    BY <1>1, <1>6
       DEF ConnectionCall, Verify, ListSupply, Pause, Drain, Move, Resume, Retire,
           DeleteConnection, Degrade, SetMode, BindingCall, Validate, Publish, Deactivate,
           Replace, Abort
  <1>7. QED
    BY <1>1, <1>2, <1>5, <1>6 DEF Next, CreateConnection, vars

----------------------------------------------------------------------------
(* The theorems.                                                           *)

\* The invariant holds at first.
LEMMA InitInv == Init => Inv
  <1> SUFFICES ASSUME Init PROVE Inv
    OBVIOUS
  <1>1. TypeInv
    BY IdleJob DEF Init, TypeInv, ConnTyped, BindingTyped, JobTyped, NoBindingRow
  <1>2. JobsSound
    BY IdleJob DEF Init, JobsSound, Decided, ModeKnown, Holds
  <1>3. Admissible(binding)
    BY DEF Init, Admissible, SameSlot, SameConn, NoBindingRow, Serving
  <1>4. QED
    BY <1>1, <1>2, <1>3 DEF Inv

\* The invariant is kept by every step.
LEMMA StepInv == Inv /\ [Next]_vars => Inv'
  BY TypeStep, JobsSoundStep, AdmissibleStep DEF Inv

\* The invariant holds always.
LEMMA Invariance == Spec => []Inv
  BY InitInv, StepInv, PTL DEF Spec

\* The invariant implies the type invariant and the exclusive use of connections.
LEMMA InvImplies == Inv => TypeOK /\ ExclusiveDedicated
  <1> SUFFICES ASSUME Inv PROVE TypeOK /\ ExclusiveDedicated
    OBVIOUS
  <1>1. TypeOK
    BY DEF Inv, TypeInv, ConnTyped, BindingTyped, JobTyped, TypeOK, RowOK
  <1>2. ASSUME NEW b \in Bindings, NEW o \in Bindings, b # o,
               binding[b].status \in Serving, binding[o].status \in Serving
        PROVE  /\ IsDedicated(binding[b]) => binding[b].conn # binding[o].conn
               /\ binding[b].status = "active" /\ binding[o].status = "active" =>
                     binding[b].slot # binding[o].slot
    <2>1. ~SameSlot(binding[b], binding[o])
          /\ ~(SameConn(binding[b], binding[o])
               /\ {binding[b].status, binding[o].status} \subseteq Serving)
      BY <1>2 DEF Inv, Admissible
    <2>2. RowOK(binding[b]) /\ RowOK(binding[o])
      BY <1>2 DEF Inv, TypeInv, BindingTyped, Serving
    <2>3. QED
      BY <1>2, <2>1, <2>2 DEF SameSlot, SameConn, RowOK
  <1>3. QED
    BY <1>1, <1>2 DEF ExclusiveDedicated

\* Types are preserved, among them that a binding has a connection just if its project
\* is dedicated, although rows are saved as they were read.
THEOREM SupplyTyped == Spec => []TypeOK
  BY Invariance, InvImplies, PTL

\* Any number of processes that publish, replace, degrade and deactivate never leave two
\* serving bindings on one dedicated connection, or two active ones in one slot.
THEOREM DedicatedIsExclusive == Spec => []ExclusiveDedicated
  BY Invariance, InvImplies, PTL

\* The compare-and-set of the state alone makes every process follow the matrix.
THEOREM MatrixFollowed == Spec => LifecycleFollowsMatrix
  <1>1. Inv /\ [Next]_vars =>
            [\A c \in Conns : conn[c].life # "none" =>
                Transition(conn[c].life, conn'[c].life)]_vars
    BY StepKeeps DEF Inv, Kept
  <1>2. QED
    BY <1>1, Invariance, PTL DEF Spec, LifecycleFollowsMatrix

\* It also protects the mode, which is written along without being compared.
THEOREM ModeStaysLocked == Spec => ModeLocked
  <1>1. Inv /\ [Next]_vars =>
            [\A c \in Conns : conn[c].life \notin MODE_OPEN \cup {"none"} =>
                conn'[c].mode = conn[c].mode]_vars
    BY StepKeeps DEF Inv, Kept
  <1>2. QED
    BY <1>1, Invariance, PTL DEF Spec, ModeLocked

----------------------------------------------------------------------------
(* Which bindings admission finds, with any number of processes.           *)

\* Only dedicated bindings are ever degraded, and what is about to be published is active.
DegradedIsDedicated ==
    \A b \in Bindings : binding[b].status = "degraded" => IsDedicated(binding[b])

RowsKnown(j) ==
    /\ j.at \in {"publish", "replace"} => j.row.status = "active"
    /\ j.at = "degrading" => \A b \in DOMAIN j.rows : IsDedicated(j.rows[b])

Degradation == DegradedIsDedicated /\ \A w \in Workers : RowsKnown(job[w])

\* No row is degraded but by the handler that degrades.
LEMMA DegradedStep ==
    ASSUME TypeInv, Degradation, [Next]_vars
    PROVE  DegradedIsDedicated'
  <1> SUFFICES ASSUME NEW b \in Bindings, binding'[b].status = "degraded"
               PROVE  IsDedicated(binding'[b])
    BY DEF DegradedIsDedicated, IsDedicated
  <1> USE DEF TypeInv
  <1>1. CASE binding'[b] = binding[b]
    BY <1>1 DEF Degradation, DegradedIsDedicated
  <1>2. ASSUME NEW x \in Bindings, NEW s \in Slots, NEW c \in Conns \cup {NoConn},
               CreateBinding(x, s, c)
        PROVE  IsDedicated(binding'[b])
    BY <1>1, <1>2 DEF CreateBinding, BindingTyped
  <1>3. ASSUME NEW w \in Workers, SaveValidated(w) \/ SaveInactive(w)
        PROVE  IsDedicated(binding'[b])
    <2>1. job[w].b \in Bindings /\ job[w].row \in BindingRows
      BY <1>3, JobKinds DEF SaveValidated, SaveInactive, JobTyped
    <2>2. PICK st \in {"validated", "inactive"} :
              binding' = [binding EXCEPT ![job[w].b] = [job[w].row EXCEPT !.status = st]]
      BY <1>3 DEF SaveValidated, SaveInactive
    <2>3. [job[w].row EXCEPT !.status = st].status = st
      BY <2>1 DEF BindingRows
    <2>4. QED
      BY <1>1, <2>1, <2>2, <2>3 DEF BindingTyped
  <1>4. ASSUME NEW w \in Workers, SavePublished(w) \/ SaveReplaced(w)
        PROVE  IsDedicated(binding'[b])
    <2>1. job[w].row.status = "active"
      BY <1>4 DEF Degradation, RowsKnown, SavePublished, SaveReplaced
    <2>2. \/ binding'[b] = binding[b] \/ binding'[b] = job[w].row
          \/ binding[b].status = "active"
             /\ binding'[b] = [binding[b] EXCEPT !.status = "inactive"]
      BY <1>4 DEF SavePublished, SaveReplaced, BindingTyped
    <2>3. QED
      BY <1>1, <2>1, <2>2, CreatedRow DEF BindingRows
  <1>5. ASSUME NEW w \in Workers, NEW x \in Bindings, SaveDegraded(w, x)
        PROVE  IsDedicated(binding'[b])
    <2>1. PICK todo \in SUBSET Bindings :
              job[w] \in [at : {"degrading"}, rows : [todo -> BindingRows]]
      BY <1>5, JobKinds DEF SaveDegraded, JobTyped
    <2>2. job[w].rows[x] \in BindingRows /\ IsDedicated(job[w].rows[x])
      BY <1>5, <2>1 DEF SaveDegraded, Degradation, RowsKnown
    <2>3. IsDedicated([job[w].rows[x] EXCEPT !.status = "degraded"])
      BY <2>2 DEF IsDedicated, BindingRows
    <2>4. \/ binding'[b] = binding[b]
          \/ binding'[b] = [job[w].rows[x] EXCEPT !.status = "degraded"]
      BY <1>5 DEF SaveDegraded, BindingTyped
    <2>5. QED
      BY <1>1, <2>3, <2>4
  <1>6. ASSUME NEW w \in Workers, Continue(w)
        PROVE  IsDedicated(binding'[b])
    BY <1>1, <1>3, <1>4, <1>5, <1>6
       DEF Continue, WriteLifecycle, ReadBlockers, ListForDegrade, Probed, Bind, Unbind, DrainOld
  <1>7. ASSUME NEW w \in Workers, ConnectionCall(w) \/ BindingCall(w) \/ Abort(w)
        PROVE  IsDedicated(binding'[b])
    BY <1>1, <1>7
       DEF ConnectionCall, Verify, ListSupply, Pause, Drain, Move, Resume, Retire,
           DeleteConnection, Degrade, SetMode, BindingCall, Validate, Publish, Deactivate,
           Replace, Abort
  <1>8. QED
    BY <1>1, <1>2, <1>6, <1>7 DEF Next, CreateConnection, vars

\* What a process takes on is known as well.
LEMMA RowsKnownStep ==
    ASSUME TypeInv, Degradation, [Next]_vars, NEW v \in Workers
    PROVE  RowsKnown(job'[v])
  <1> USE DEF TypeInv
  <1>0. RowsKnown(job[v]) /\ DOMAIN job = Workers
    BY DEF Degradation, JobTyped
  <1>1. CASE job'[v] = job[v]
    BY <1>0, <1>1
  <1>2. CASE job'[v].at \notin {"publish", "replace", "degrading"}
    BY <1>2 DEF RowsKnown
  <1>3. ASSUME NEW w \in Workers, NEW b \in Bindings, Publish(w, b)
        PROVE  RowsKnown(job'[v])
    <2>1. binding[b] \in BindingRows
      BY <1>3, CreatedRow DEF Publish
    <2>2. [binding[b] EXCEPT !.status = "active", !.version = NextVersion(b)].status = "active"
      BY <2>1 DEF BindingRows
    <2>3. QED
      BY <1>0, <1>1, <1>3, <2>2 DEF Publish, Begin, RowsKnown
  <1>4. ASSUME NEW w \in Workers, NEW b \in Bindings, NEW c \in Conns, Replace(w, b, c)
        PROVE  RowsKnown(job'[v])
    <2>1. binding[b] \in BindingRows
      BY <1>4, CreatedRow DEF Replace, Serving
    <2>2. [binding[b] EXCEPT !.conn = c, !.status = "active", !.version = @ + 1].status = "active"
      BY <2>1 DEF BindingRows
    <2>3. QED
      BY <1>0, <1>1, <1>4, <2>2 DEF Replace, Begin, RowsKnown
  <1>5. ASSUME NEW w \in Workers, ListForDegrade(w)
        PROVE  RowsKnown(job'[v])
    BY <1>0, <1>1, <1>2, <1>5 DEF ListForDegrade, Goto, Finish, Idle, RowsKnown
  <1>6. ASSUME NEW w \in Workers, NEW b \in Bindings, SaveDegraded(w, b)
        PROVE  RowsKnown(job'[v])
    <2> DEFINE j == job[w]
               left == [o \in DOMAIN j.rows \ {b} |-> j.rows[o]]
    <2>1. PICK todo \in SUBSET Bindings :
              j \in [at : {"degrading"}, rows : [todo -> BindingRows]]
      BY <1>6, JobKinds DEF SaveDegraded, JobTyped
    <2>2. [j EXCEPT !.rows = left] = [at |-> "degrading", rows |-> left]
      BY <2>1
    <2>3. \A o \in DOMAIN left : IsDedicated(left[o])
      BY <1>6 DEF SaveDegraded, Degradation, RowsKnown
    <2>4. Finish(w) \/ Goto(w, [at |-> "degrading", rows |-> left])
      BY <1>6, <2>2 DEF SaveDegraded
    <2> HIDE DEF left
    <2>5. QED
      BY <1>0, <1>1, <1>2, <2>3, <2>4 DEF Goto, Finish, Idle, RowsKnown
  <1>7. ASSUME NEW w \in Workers, ConnectionCall(w) \/ BindingCall(w) \/ Continue(w) \/ Abort(w)
        PROVE  RowsKnown(job'[v])
    <2>1. CASE ConnectionCall(w)
      BY <1>0, <1>1, <1>2, <2>1
         DEF ConnectionCall, Verify, ListSupply, Pause, Drain, Move, Resume, Retire,
             DeleteConnection, Degrade, SetMode, Begin, Cas
    <2>2. CASE BindingCall(w)
      <3>1. ASSUME NEW b \in Bindings, Validate(w, b) \/ Deactivate(w, b)
            PROVE  RowsKnown(job'[v])
        BY <1>0, <1>1, <1>2, <3>1 DEF Validate, Deactivate, Begin
      <3>2. QED
        BY <1>3, <1>4, <2>2, <3>1 DEF BindingCall
    <2>3. CASE Abort(w)
      BY <1>0, <1>1, <1>2, <2>3 DEF Abort, Goto, Finish, Idle
    <2>4. CASE \/ WriteLifecycle(w) \/ ReadBlockers(w) \/ \E ok \in BOOLEAN : Probed(w, ok)
               \/ SaveValidated(w) \/ SavePublished(w) \/ SaveInactive(w) \/ SaveReplaced(w)
               \/ Bind(w) \/ Unbind(w) \/ DrainOld(w)
      <3>1. Finish(w) \/ \E n : n.at \notin {"publish", "replace", "degrading"} /\ Goto(w, n)
        BY <2>4
           DEF WriteLifecycle, ReadBlockers, Probed, SaveValidated, SavePublished,
               SaveInactive, SaveReplaced, Bind, Unbind, DrainOld, Cas
      <3>2. QED
        BY <1>0, <1>1, <1>2, <3>1 DEF Goto, Finish, Idle
    <2>5. QED
      BY <1>5, <1>6, <1>7, <2>1, <2>2, <2>3, <2>4 DEF Continue
  <1>8. QED
    BY <1>1, <1>7 DEF Next, CreateConnection, CreateBinding, vars

\* Where a slot that is not dedicated has an active binding, that is the one active() finds.
SharedActiveWins ==
    \A b \in Bindings : binding[b].status = "active" /\ ~IsDedicated(binding[b]) =>
        Latest(binding[b].slot) = {b}

\* In a slot without degraded bindings the indexes leave one that serves.
LEMMA SharedIsAlone ==
    ASSUME Inv, DegradedIsDedicated
    PROVE  SharedActiveWins
  <1> SUFFICES ASSUME NEW b \in Bindings, binding[b].status = "active",
                      ~IsDedicated(binding[b])
               PROVE  Latest(binding[b].slot) = {b}
    BY DEF SharedActiveWins
  <1>1. ASSUME NEW o \in Bindings, binding[o].slot = binding[b].slot,
               binding[o].status \in Serving
        PROVE  o = b
    <2>1. binding[o].status = "active"
      BY <1>1 DEF Serving, DegradedIsDedicated, IsDedicated
    <2>2. QED
      BY <1>1, <2>1 DEF Inv, Admissible, SameSlot
  <1>2. binding[b].version <= binding[b].version
    BY SupplyConstants DEF Inv, TypeInv, BindingTyped, BindingRows, NoBindingRow
  <1>3. QED
    BY <1>1, <1>2 DEF Latest, InSlot, Serving

\* Any number of processes, whether or not they end half way: in a project that shares
\* its connections the active binding is what admission finds.  (In a dedicated project it
\* need not be: see the finding about replace().)
THEOREM SharedActiveIsFound == Spec => []SharedActiveWins
  <1>1. Init => Degradation
    BY DEF Init, Degradation, DegradedIsDedicated, RowsKnown, NoBindingRow, Idle
  <1>2. Inv /\ Degradation /\ [Next]_vars => Degradation'
    <2>1. SUFFICES ASSUME Inv, Degradation, [Next]_vars PROVE Degradation'
      OBVIOUS
    <2>2. TypeInv
      BY <2>1 DEF Inv
    <2>3. \A v \in Workers : RowsKnown(job[v])'
      BY <2>1, <2>2, RowsKnownStep
    <2>4. QED
      BY <2>1, <2>2, <2>3, DegradedStep DEF Degradation
  <1>3. Inv /\ Degradation => SharedActiveWins
    BY SharedIsAlone DEF Degradation
  <1>4. QED
    BY <1>1, <1>2, <1>3, Invariance, PTL DEF Spec

----------------------------------------------------------------------------
(* One process.  Nothing can come between what a handler reads and what it *)
(* writes but the creation of a binding, so that its reads stay true.      *)

\* The largest of a set of naturals that are bounded.
LEMMA MaxOfNats ==
    ASSUME NEW S, S \subseteq Nat, S # {}, NEW m \in Nat, \A x \in S : x <= m
    PROVE  Max(S) \in S /\ \A x \in S : x <= Max(S)
  <1> DEFINE T == {m - x : x \in S}
  <1>1. T \subseteq Nat /\ T # {}
    <2>1. \A x \in S : m - x \in Nat
      OBVIOUS
    <2>2. QED
      BY <2>1
  <1> HIDE DEF T
  <1>2. PICK t \in T : \A u \in T : ~ (<<u, t>> \in OpToRel(<, Nat))
    BY <1>1, NatLessThanWellFounded, WFMin
  <1>3. \A u \in T : ~(u < t)
    BY <1>1, <1>2 DEF OpToRel
  <1>4. PICK x \in S : t = m - x
    BY DEF T
  <1>5. \A y \in S : x >= y
    <2>1. SUFFICES ASSUME NEW y \in S PROVE x >= y
      OBVIOUS
    <2>2. m - y \in T
      BY DEF T
    <2>3. QED
      BY <1>3, <1>4, <2>2
  <1>6. \E z \in S : \A y \in S : z >= y
    BY <1>5
  <1>7. Max(S) \in S /\ \A y \in S : Max(S) >= y
    BY <1>6 DEF Max
  <1>8. QED
    BY <1>7

\* The next version of a slot is above every version in it.
LEMMA VersionsBelow ==
    ASSUME BindingTyped, NEW b \in Bindings
    PROVE  /\ NextVersion(b) \in Nat
           /\ \A o \in InSlot(binding[b].slot) :
                  binding[o].version \in Nat /\ binding[o].version < NextVersion(b)
  <1> DEFINE V == {0} \cup {binding[o].version : o \in InSlot(binding[b].slot)}
  <1>1. \A o \in Bindings : binding[o].version \in 0..MaxVersion
    BY SupplyConstants DEF BindingTyped, BindingRows, NoBindingRow
  <1>2. V \subseteq Nat /\ V # {} /\ \A x \in V : x <= MaxVersion
    BY <1>1, SupplyConstants DEF InSlot
  <1> HIDE DEF V
  <1>3. Max(V) \in V /\ \A x \in V : x <= Max(V)
    BY <1>2, SupplyConstants, MaxOfNats
  <1>4. NextVersion(b) = Max(V) + 1
    BY DEF NextVersion, MaxVersionOf, V
  <1>5. \A o \in InSlot(binding[b].slot) : binding[o].version \in V
    BY DEF V
  <1>6. Max(V) \in Nat
    BY <1>2, <1>3
  <1>7. ASSUME NEW o \in InSlot(binding[b].slot)
        PROVE  binding[o].version \in Nat /\ binding[o].version <= Max(V)
    BY <1>2, <1>3, <1>5
  <1>8. QED
    BY <1>4, <1>6, <1>7

Editable == {"draft", "validated"}

\* What the only process has read of the binding it is about to save is still so, and
\* the version it is about to publish is still the highest of the slot.
Fresh(j) ==
    /\ j.at = "validate" => binding[j.b].status \in Editable
    /\ j.at = "publish" =>
          /\ binding[j.b].status \in Editable
          /\ binding[j.b].slot = j.row.slot
          /\ \A o \in InSlot(j.row.slot) : binding[o].version < j.row.version
    /\ j.at \in {"deactivate", "replace"} => binding[j.b].status \in Serving
    /\ j.at \in {"publish", "replace"} => j.row.status = "active"
    /\ j.at = "degrading" =>
          \A b \in DOMAIN j.rows : binding[b] = j.rows[b] /\ binding[b].status = "active"

\* The places at which a process holds rows that it has read.
Saving == {"validate", "publish", "deactivate", "replace", "degrading"}

\* Elsewhere it holds none.
LEMMA FreshElsewhere ==
    ASSUME NEW p \in Workers, job'[p].at \notin Saving
    PROVE  Fresh(job[p])'
  BY DEF Fresh, Saving

\* A process that is done holds none.
LEMMA FreshDone ==
    ASSUME JobTyped, NEW p \in Workers, Finish(p)
    PROVE  Fresh(job[p])'
  <1>1. job'[p] = Idle
    BY DEF Finish, Goto, JobTyped
  <1>2. QED
    BY <1>1, FreshElsewhere DEF Idle, Saving

\* The row that a binding has does not matter to a process that is not saving it.
LEMMA FreshCreated ==
    ASSUME Inv, NEW p \in Workers, Fresh(job[p]), NEW b \in Bindings, NEW s \in Slots,
           NEW c \in Conns \cup {NoConn}, CreateBinding(b, s, c)
    PROVE  Fresh(job[p])'
  <1> DEFINE j == job[p]
  <1>1. /\ JobOK(j) /\ BindingTyped
        /\ job' = job
        /\ binding[b].status = "none"
        /\ binding'[b].version = 0
        /\ \A o \in Bindings : o # b => binding'[o] = binding[o]
    BY DEF Inv, TypeInv, JobTyped, BindingTyped, CreateBinding
  <1>2. CASE j.at \in {"validate", "publish", "deactivate", "replace"}
    <2>1. j.b \in Bindings /\ j.row \in BindingRows
      BY <1>1, <1>2, JobKinds
    <2>2. j.b # b
      BY <1>1, <1>2 DEF Fresh, Editable, Serving
    <2>3. binding'[j.b] = binding[j.b]
      BY <1>1, <2>1, <2>2
    <2>4. ASSUME j.at = "publish"
          PROVE  \A o \in InSlot(j.row.slot)' : binding'[o].version < j.row.version
      <3>1. j.b \in InSlot(j.row.slot)
        BY <2>1, <2>4 DEF Fresh, InSlot
      <3>2. /\ binding[j.b].version \in Nat /\ j.row.version \in Nat
            /\ binding[j.b].version < j.row.version
        BY <1>1, <2>1, <2>4, <3>1, SupplyConstants
           DEF Fresh, BindingTyped, BindingRows, NoBindingRow
      <3>3. 0 < j.row.version
        BY <3>2
      <3>4. \A o \in InSlot(j.row.slot)' : o # b => o \in InSlot(j.row.slot)
        BY <1>1 DEF InSlot
      <3>5. QED
        BY <1>1, <2>4, <3>3, <3>4 DEF Fresh, InSlot
    <2>5. QED
      BY <1>1, <1>2, <2>3, <2>4 DEF Fresh
  <1>3. CASE j.at = "degrading"
    <2>1. \A o \in DOMAIN j.rows : o \in Bindings /\ o # b
      BY <1>1, <1>3, JobKinds DEF Fresh
    <2>2. QED
      BY <1>1, <1>3, <2>1 DEF Fresh
  <1>4. CASE j.at \notin Saving
    BY <1>1, <1>4 DEF Fresh, Saving
  <1>5. QED
    BY <1>2, <1>3, <1>4 DEF Saving

\* What a call on bindings has just read is so.
LEMMA FreshBegun ==
    ASSUME Inv, NEW p \in Workers, BindingCall(p)
    PROVE  Fresh(job[p])'
  <1>0. PICK b \in Bindings :
            \/ Validate(p, b) \/ Publish(p, b) \/ Deactivate(p, b)
            \/ \E c \in Conns : Replace(p, b, c)
    BY DEF BindingCall
  <1>1. DOMAIN job = Workers /\ BindingTyped
    BY DEF Inv, TypeInv, JobTyped
  <1>2. CASE Validate(p, b)
    <2>1. job'[p] = [at |-> "validate", b |-> b, row |-> binding[b]] /\ binding' = binding
      BY <1>1, <1>2 DEF Validate, Begin
    <2>2. QED
      BY <1>2, <2>1 DEF Validate, Fresh, Editable
  <1>3. CASE Publish(p, b)
    <2> DEFINE row == [binding[b] EXCEPT !.status = "active", !.version = NextVersion(b)]
    <2>1. job'[p] = [at |-> "publish", b |-> b, row |-> row] /\ binding' = binding
      BY <1>1, <1>3 DEF Publish, Begin
    <2>2. binding[b] \in BindingRows
      BY <1>1, <1>3, CreatedRow DEF Publish
    <2>3. /\ row.status = "active" /\ row.slot = binding[b].slot
          /\ row.version = NextVersion(b)
      BY <2>2 DEF BindingRows
    <2>4. \A o \in InSlot(row.slot) : binding[o].version < row.version
      BY <1>1, <2>3, VersionsBelow
    <2> HIDE DEF row
    <2>5. binding[b].status \in Editable
      BY <1>3 DEF Publish, Editable
    <2>6. InSlot(row.slot)' = InSlot(row.slot)
      BY <2>1 DEF InSlot, row
    <2>7. QED
      BY <2>1, <2>3, <2>4, <2>5 DEF Fresh, InSlot
  <1>4. CASE Deactivate(p, b)
    <2>1. job'[p] = [at |-> "deactivate", b |-> b, row |-> binding[b]] /\ binding' = binding
      BY <1>1, <1>4 DEF Deactivate, Begin
    <2>2. QED
      BY <1>4, <2>1 DEF Deactivate, Fresh
  <1>5. ASSUME NEW c \in Conns, Replace(p, b, c)
        PROVE  Fresh(job[p])'
    <2> DEFINE row == [binding[b] EXCEPT !.conn = c, !.status = "active", !.version = @ + 1]
    <2>1. /\ job'[p] = [at |-> "replace", b |-> b, old |-> binding[b].conn, row |-> row]
          /\ binding' = binding
      BY <1>1, <1>5 DEF Replace, Begin
    <2>2. binding[b] \in BindingRows
      BY <1>1, <1>5, CreatedRow DEF Replace, Serving
    <2>3. row.status = "active"
      BY <2>2 DEF BindingRows
    <2> HIDE DEF row
    <2>4. QED
      BY <1>5, <2>1, <2>3 DEF Replace, Fresh
  <1>6. QED
    BY <1>0, <1>2, <1>3, <1>4, <1>5

\* A call on connections holds no binding.
LEMMA FreshConnection ==
    ASSUME Inv, NEW p \in Workers, Fresh(job[p]), ConnectionCall(p)
    PROVE  Fresh(job[p])'
  <1>1. DOMAIN job = Workers
    BY DEF Inv, TypeInv, JobTyped
  <1>2. \/ job' = job /\ binding' = binding
        \/ job'[p].at \in {"probe", "cas", "resume", "retire", "degrade"}
    BY <1>1 DEF ConnectionCall, Verify, ListSupply, Pause, Drain, Move, Resume, Retire,
                DeleteConnection, Degrade, SetMode, Begin, Cas
  <1>3. QED
    BY <1>2, FreshElsewhere DEF Saving, Fresh, InSlot

\* What a handler goes on with is so.
LEMMA FreshContinued ==
    ASSUME Inv, NEW p \in Workers, Fresh(job[p]), Continue(p)
    PROVE  Fresh(job[p])'
  <1> DEFINE j == job[p]
  <1>1. JobTyped /\ BindingTyped /\ JobOK(j) /\ DOMAIN job = Workers
    BY DEF Inv, TypeInv, JobTyped
  <1>2. ASSUME NEW n, n.at \notin Saving, Goto(p, n)
        PROVE  Fresh(job[p])'
    BY <1>1, <1>2, FreshElsewhere DEF Goto
  <1>3. CASE ListForDegrade(p)
    <2> DEFINE todo == {b \in Bindings : /\ binding[b].conn = j.c
                                         /\ binding[b].status = "active"
                                         /\ IsDedicated(binding[b])}
               rows == [b \in todo |-> binding[b]]
    <2>1. \/ Finish(p)
          \/ /\ job'[p] = [at |-> "degrading", rows |-> rows]
             /\ binding' = binding
      BY <1>1, <1>3 DEF ListForDegrade, Goto
    <2>2. DOMAIN rows = todo /\ \A b \in todo : binding[b] = rows[b] /\ binding[b].status = "active"
      OBVIOUS
    <2> HIDE DEF rows, todo
    <2>3. QED
      BY <1>1, <2>1, <2>2, FreshDone DEF Fresh
  <1>4. ASSUME NEW b \in Bindings, SaveDegraded(p, b)
        PROVE  Fresh(job[p])'
    <2> DEFINE rest == DOMAIN j.rows \ {b}
               left == [o \in rest |-> j.rows[o]]
    <2>1. PICK todo \in SUBSET Bindings :
              j \in [at : {"degrading"}, rows : [todo -> BindingRows]]
      BY <1>1, <1>4, JobKinds DEF SaveDegraded
    <2>2. [j EXCEPT !.rows = left] = [at |-> "degrading", rows |-> left]
      BY <2>1
    <2>3. \/ Finish(p)
          \/ /\ job'[p] = [at |-> "degrading", rows |-> left]
             /\ \A o \in Bindings : o # b => binding'[o] = binding[o]
      BY <1>1, <1>4, <2>2 DEF SaveDegraded, Goto, BindingTyped
    <2>4. \A o \in rest : /\ o \in Bindings /\ o # b
                          /\ binding[o] = j.rows[o] /\ binding[o].status = "active"
      BY <1>4, <2>1 DEF SaveDegraded, Fresh
    <2>5. DOMAIN left = rest /\ \A o \in rest : left[o] = j.rows[o]
      OBVIOUS
    <2> HIDE DEF left, rest
    <2>6. QED
      BY <1>1, <2>3, <2>4, <2>5, FreshDone DEF Fresh
  <1>5. CASE \/ WriteLifecycle(p) \/ ReadBlockers(p) \/ \E ok \in BOOLEAN : Probed(p, ok)
             \/ SaveValidated(p) \/ Bind(p) \/ Unbind(p)
    BY <1>1, <1>2, <1>5, FreshDone
       DEF WriteLifecycle, ReadBlockers, Probed, SaveValidated, Bind, Unbind, Cas, Saving
  <1>6. CASE SavePublished(p) \/ SaveInactive(p) \/ SaveReplaced(p) \/ DrainOld(p)
    BY <1>1, <1>2, <1>6, FreshDone
       DEF SavePublished, SaveInactive, SaveReplaced, DrainOld, Saving
  <1>7. QED
    BY <1>3, <1>4, <1>5, <1>6 DEF Continue

\* With one process, what it has read stays so until it is done.
LEMMA FreshStep ==
    ASSUME NEW p, Workers = {p}, Inv, Fresh(job[p]), [Next]_vars
    PROVE  Fresh(job[p])'
  <1>1. p \in Workers /\ JobTyped
    BY DEF Inv, TypeInv
  <1>2. CASE UNCHANGED <<binding, job>>
    BY <1>2 DEF Fresh, InSlot
  <1>3. CASE Abort(p)
    BY <1>1, <1>3, FreshDone DEF Abort
  <1>4. ASSUME NEW w \in Workers,
               ConnectionCall(w) \/ BindingCall(w) \/ Continue(w) \/ Abort(w)
        PROVE  Fresh(job[p])'
    BY <1>1, <1>3, <1>4, FreshConnection, FreshBegun, FreshContinued
  <1>5. QED
    BY <1>1, <1>2, <1>4, FreshCreated DEF Next, CreateConnection, vars

\* Setting a column other than the deletion mark.
LEMMA GoneIfOther ==
    ASSUME ConnTyped, NEW c \in Conns, NEW d \in Conns, NEW x, NEW y,
           \/ conn' = [conn EXCEPT ![d].life = x]
           \/ conn' = [conn EXCEPT ![d].life = x, ![d].mode = y]
           \/ conn' = [conn EXCEPT ![d].fit = x]
    PROVE  conn'[c].gone = conn[c].gone
  <1>1. conn[c] \in ConnRows \cup {NoConnRow} /\ conn[d] \in ConnRows \cup {NoConnRow}
    BY DEF ConnTyped
  <1>2. \/ conn'[c] = conn[c]
        \/ conn'[c] = [conn[c] EXCEPT !.life = x]
        \/ conn'[c] = [[conn[c] EXCEPT !.life = x] EXCEPT !.mode = y]
        \/ conn'[c] = [conn[c] EXCEPT !.fit = x]
    BY DEF ConnTyped
  <1>3. QED
    BY <1>1, <1>2 DEF ConnRows, NoConnRow

\* What a handler goes on with deletes no connection.
LEMMA ContinueKeepsGone ==
    ASSUME TypeInv, NEW w \in Workers, Continue(w), NEW c \in Conns
    PROVE  conn'[c].gone = conn[c].gone
  <1> USE DEF TypeInv
  <1> DEFINE j == job[w]
  <1>0. JobOK(j)
    BY DEF JobTyped
  <1>1. CASE WriteLifecycle(w)
    <2>1. /\ j \in [at : {"cas"}, c : Conns, from : Lives, to : Lives, mode : Modes]
      BY <1>0, <1>1, JobKinds DEF WriteLifecycle
    <2>2. PICK x, y : conn' = [conn EXCEPT ![j.c].life = x, ![j.c].mode = y]
      BY <1>1 DEF WriteLifecycle, SaveLifecycle
    <2>3. QED
      BY <2>1, <2>2, GoneIfOther
  <1>2. ASSUME NEW ok \in BOOLEAN, Probed(w, ok)
        PROVE  conn'[c].gone = conn[c].gone
    <2>1. j.c \in Conns
      BY <1>0, <1>2, JobKinds DEF Probed
    <2>2. \E x : conn' = [conn EXCEPT ![j.c].fit = x]
      BY <1>2 DEF Probed
    <2>3. QED
      BY <2>1, <2>2, GoneIfOther
  <1>3. CASE Bind(w) \/ Unbind(w) \/ DrainOld(w)
    <2>1. j.c \in Conns
      BY <1>0, <1>3, JobKinds DEF Bind, Unbind, DrainOld
    <2>2. conn' = conn \/ \E x : conn' = [conn EXCEPT ![j.c].life = x]
      BY <1>3 DEF Bind, Unbind, DrainOld
    <2>3. QED
      BY <2>1, <2>2, GoneIfOther
  <1>4. CASE \/ ReadBlockers(w) \/ ListForDegrade(w) \/ \E b \in Bindings : SaveDegraded(w, b)
             \/ SaveValidated(w) \/ SavePublished(w) \/ SaveInactive(w) \/ SaveReplaced(w)
    BY <1>4 DEF ReadBlockers, ListForDegrade, SaveDegraded, SaveValidated, SavePublished,
                SaveInactive, SaveReplaced
  <1>5. QED
    BY <1>1, <1>2, <1>3, <1>4 DEF Continue

\* A fresh row that only its status tells from the row that is there is saved: nothing
\* else of the two indexes changes.
LEMMA DegradedIsAdmissible ==
    ASSUME BindingTyped, Admissible(binding), NEW b \in Bindings, binding[b].status = "active"
    PROVE  Admissible([binding EXCEPT ![b] = [binding[b] EXCEPT !.status = "degraded"]])
  <1> DEFINE row == [binding[b] EXCEPT !.status = "degraded"]
             rows == [binding EXCEPT ![b] = row]
  <1>1. binding[b] \in BindingRows
    BY CreatedRow
  <1>2. row.status = "degraded" /\ row.slot = binding[b].slot /\ row.conn = binding[b].conn
    BY <1>1 DEF BindingRows
  <1> HIDE DEF row
  <1>3. rows[b] = row /\ \A o \in Bindings : o # b => rows[o] = binding[o]
    BY DEF BindingTyped
  <1> HIDE DEF rows
  <1>4. ASSUME NEW x \in Bindings, NEW o \in Bindings, x # o
        PROVE  /\ ~SameSlot(rows[x], rows[o])
               /\ ~(SameConn(rows[x], rows[o])
                    /\ {rows[x].status, rows[o].status} \subseteq Serving)
    <2>1. /\ ~SameSlot(binding[x], binding[o])
          /\ ~(SameConn(binding[x], binding[o])
               /\ {binding[x].status, binding[o].status} \subseteq Serving)
      BY <1>4 DEF Admissible
    <2>2. ~SameSlot(rows[x], rows[o])
      BY <1>2, <1>3, <2>1 DEF SameSlot
    <2>3. CASE x = b
      BY <1>2, <1>3, <1>4, <2>1, <2>2, <2>3 DEF SameConn, IsDedicated, Serving
    <2>4. CASE o = b
      BY <1>2, <1>3, <1>4, <2>1, <2>2, <2>4 DEF SameConn, IsDedicated, Serving
    <2>5. QED
      BY <1>3, <2>1, <2>3, <2>4
  <1>5. QED
    BY <1>4 DEF Admissible, rows, row

\* An active binding of a connection that was deleted.
Lost(b) == binding[b].status = "active" /\ IsDedicated(binding[b]) /\ conn[binding[b].conn].gone

\* Deletion is not finished before it has got to each of them.
Swept(j) == \A b \in Bindings : Lost(b) =>
                \/ j.at = "degrade" /\ j.c = binding[b].conn
                \/ j.at = "degrading" /\ b \in DOMAIN j.rows

\* The connection that a binding is about to be published with has not been deleted.
NotGone(j) == j.at \in {"publish", "replace"} /\ IsDedicated(j.row) => ~conn[j.row.conn].gone

\* A process at another place than the two saves need not know.
LEMMA NotGoneElsewhere ==
    ASSUME NEW p \in Workers, job'[p].at \notin {"publish", "replace"}
    PROVE  NotGone(job[p])'
  BY DEF NotGone

\* A step that has no active binding lose its connection loses none.
LEMMA SweptIfNoneLost ==
    ASSUME NEW p \in Workers, \A b \in Bindings : ~Lost(b)'
    PROVE  Swept(job[p])'
  BY DEF Swept, Lost

\* Nothing is lost when no handler degrades.
LEMMA NoneLost ==
    ASSUME NEW j, Swept(j), j.at \notin {"degrade", "degrading"}
    PROVE  \A b \in Bindings : ~Lost(b)
  BY DEF Swept

\* Calls on bindings leave the rows alone, and read that the connection is there.
LEMMA SweptBegun ==
    ASSUME Inv, NEW p \in Workers, Swept(job[p]), BindingCall(p)
    PROVE  Swept(job[p])' /\ NotGone(job[p])'
  <1>0. PICK b \in Bindings :
            \/ Validate(p, b) \/ Publish(p, b) \/ Deactivate(p, b)
            \/ \E c \in Conns : Replace(p, b, c)
    BY DEF BindingCall
  <1>1. DOMAIN job = Workers /\ BindingTyped
    BY DEF Inv, TypeInv, JobTyped
  <1>2. UNCHANGED <<conn, binding>> /\ job[p].at = "idle"
    <2>1. UNCHANGED <<conn, binding>> /\ \E j : Begin(p, j)
      BY <1>0 DEF Validate, Publish, Deactivate, Replace
    <2>2. QED
      BY <2>1 DEF Begin, Idle
  <1>3. Swept(job[p])'
    BY <1>2, NoneLost, SweptIfNoneLost DEF Lost, IsDedicated
  <1>4. CASE Publish(p, b)
    <2> DEFINE row == [binding[b] EXCEPT !.status = "active", !.version = NextVersion(b)]
    <2>1. job'[p] = [at |-> "publish", b |-> b, row |-> row]
      BY <1>1, <1>4 DEF Publish, Begin
    <2>2. binding[b] \in BindingRows
      BY <1>1, <1>4, CreatedRow DEF Publish
    <2>3. row.slot = binding[b].slot /\ row.conn = binding[b].conn
      BY <2>2 DEF BindingRows
    <2> HIDE DEF row
    <2>4. QED
      BY <1>2, <1>3, <1>4, <2>1, <2>3
         DEF Publish, Publishable, UsableDedicated, Owned, NotGone, IsDedicated
  <1>5. ASSUME NEW c \in Conns, Replace(p, b, c)
        PROVE  NotGone(job[p])'
    <2> DEFINE row == [binding[b] EXCEPT !.conn = c, !.status = "active", !.version = @ + 1]
    <2>1. job'[p] = [at |-> "replace", b |-> b, old |-> binding[b].conn, row |-> row]
      BY <1>1, <1>5 DEF Replace, Begin
    <2>2. binding[b] \in BindingRows
      BY <1>1, <1>5, CreatedRow DEF Replace, Serving
    <2>3. row.conn = c
      BY <2>2 DEF BindingRows
    <2> HIDE DEF row
    <2>4. QED
      BY <1>2, <1>5, <2>1, <2>3 DEF Replace, UsableDedicated, Owned, NotGone
  <1>6. CASE Validate(p, b) \/ Deactivate(p, b)
    <2>1. job'[p].at \in {"validate", "deactivate"}
      BY <1>1, <1>6 DEF Validate, Deactivate, Begin
    <2>2. QED
      BY <1>3, <2>1, NotGoneElsewhere
  <1>7. QED
    BY <1>0, <1>3, <1>4, <1>5, <1>6

\* Of the calls on connections only deletion loses any, and it goes on to degrade.
LEMMA SweptConnection ==
    ASSUME Inv, NEW p \in Workers, Swept(job[p]), NotGone(job[p]), ConnectionCall(p)
    PROVE  Swept(job[p])' /\ NotGone(job[p])'
  <1>1. DOMAIN job = Workers /\ ConnTyped /\ BindingTyped
    BY DEF Inv, TypeInv, JobTyped
  <1>2. job[p].at = "idle" /\ UNCHANGED binding
    BY DEF ConnectionCall, Verify, ListSupply, Pause, Drain, Move, Resume, Retire,
           DeleteConnection, Degrade, SetMode, Begin, Idle
  <1>3. \A b \in Bindings : ~Lost(b)
    BY <1>2, NoneLost
  <1>4. NotGone(job[p])'
    <2>1. job'[p] = job[p] \/ job'[p].at \in {"probe", "cas", "resume", "retire", "degrade"}
      BY <1>1 DEF ConnectionCall, Verify, ListSupply, Pause, Drain, Move, Resume, Retire,
                  DeleteConnection, Degrade, SetMode, Begin, Cas
    <2>2. QED
      BY <1>2, <2>1, NotGoneElsewhere
  <1>5. ASSUME NEW c \in Conns, DeleteConnection(p, c)
        PROVE  Swept(job[p])'
    <2>1. job'[p] = [at |-> "degrade", c |-> c]
      BY <1>1, <1>5 DEF DeleteConnection, Begin
    <2>2. \A d \in Conns : d # c => conn'[d] = conn[d]
      BY <1>1, <1>5 DEF DeleteConnection, ConnTyped
    <2>3. ASSUME NEW b \in Bindings, Lost(b)', binding[b].conn # c
          PROVE  FALSE
      <3>1. binding[b].status = "active" /\ IsDedicated(binding[b])
        BY <1>2, <2>3 DEF Lost, IsDedicated
      <3>2. binding[b].conn \in Conns
        BY <1>1, <3>1, CreatedRow, DedicatedConn
      <3>3. conn'[binding[b].conn].gone
        BY <1>2, <2>3 DEF Lost
      <3>4. QED
        BY <1>3, <2>2, <2>3, <3>1, <3>2, <3>3 DEF Lost
    <2>4. QED
      BY <1>2, <2>1, <2>3 DEF Swept
  <1>6. ASSUME \A c \in Conns : conn'[c].gone = conn[c].gone
        PROVE  Swept(job[p])'
    <2>1. ASSUME NEW b \in Bindings, Lost(b)'
          PROVE  FALSE
      <3>1. binding[b].status = "active" /\ IsDedicated(binding[b])
        BY <1>2, <2>1 DEF Lost, IsDedicated
      <3>2. binding[b].conn \in Conns
        BY <1>1, <3>1, CreatedRow, DedicatedConn
      <3>3. conn'[binding[b].conn].gone
        BY <1>2, <2>1 DEF Lost
      <3>4. QED
        BY <1>3, <1>6, <3>1, <3>2, <3>3 DEF Lost
    <2>2. QED
      BY <2>1, SweptIfNoneLost
  <1>7. ASSUME NEW c \in Conns, NEW to, Move(p, c, to)
        PROVE  Swept(job[p])'
    BY <1>1, <1>6, <1>7, GoneIfOther DEF Move
  <1>8. \/ UNCHANGED conn
        \/ \E c \in Conns : DeleteConnection(p, c) \/ \E to : Move(p, c, to)
    BY DEF ConnectionCall, Verify, ListSupply, Pause, Drain, Resume, Retire, Degrade, SetMode
  <1>9. QED
    BY <1>4, <1>5, <1>6, <1>7, <1>8

\* What a handler goes on with loses none; where it degrades, it gets on.
LEMMA SweptContinued ==
    ASSUME Inv, NEW p \in Workers, Fresh(job[p]), Swept(job[p]), NotGone(job[p]), Continue(p)
    PROVE  Swept(job[p])' /\ NotGone(job[p])'
  <1> DEFINE j == job[p]
  <1>1. JobTyped /\ BindingTyped /\ JobOK(j) /\ DOMAIN job = Workers /\ Admissible(binding)
    BY DEF Inv, TypeInv, JobTyped
  <1>2. \A c \in Conns : conn'[c].gone = conn[c].gone
    BY ContinueKeepsGone DEF Inv
  <1>3. ASSUME NEW b \in Bindings, binding'[b] = binding[b], Lost(b)'
        PROVE  Lost(b)
    <2>1. binding[b].status = "active" /\ IsDedicated(binding[b])
      BY <1>3 DEF Lost, IsDedicated
    <2>2. binding[b].conn \in Conns
      BY <1>1, <2>1, CreatedRow, DedicatedConn
    <2>3. QED
      BY <1>2, <1>3, <2>1, <2>2 DEF Lost
  <1>4. NotGone(job[p])'
    <2>1. \/ Finish(p)
          \/ \E n : n.at \notin {"publish", "replace"} /\ Goto(p, n)
          \/ \E b \in Bindings : SaveDegraded(p, b)
      BY DEF Continue, WriteLifecycle, ReadBlockers, ListForDegrade, Probed, SaveValidated,
             SavePublished, SaveInactive, SaveReplaced, Bind, Unbind, DrainOld, Cas
    <2>2. ASSUME NEW b \in Bindings, SaveDegraded(p, b)
          PROVE  NotGone(job[p])'
      <3> DEFINE n == [j EXCEPT !.rows = [o \in DOMAIN j.rows \ {b} |-> j.rows[o]]]
      <3>1. n.at = "degrading"
        BY <1>1, <2>2, JobKinds DEF SaveDegraded
      <3>2. Finish(p) \/ Goto(p, n)
        BY <2>2 DEF SaveDegraded
      <3> HIDE DEF n
      <3>3. QED
        BY <1>1, <3>1, <3>2, NotGoneElsewhere DEF Finish, Goto, Idle
    <2>3. QED
      BY <1>1, <2>1, <2>2, NotGoneElsewhere DEF Finish, Goto, Idle
  <1>5. CASE ListForDegrade(p)
    <2> DEFINE todo == {b \in Bindings : /\ binding[b].conn = j.c
                                         /\ binding[b].status = "active"
                                         /\ IsDedicated(binding[b])}
               rows == [b \in todo |-> binding[b]]
    <2>1. binding' = binding /\ \A b \in Bindings : Lost(b)' => b \in todo
      BY <1>3, <1>5 DEF ListForDegrade, Swept, Lost
    <2>2. \/ todo = {}
          \/ job'[p] = [at |-> "degrading", rows |-> rows]
      BY <1>1, <1>5 DEF ListForDegrade, Goto
    <2>3. DOMAIN rows = todo
      OBVIOUS
    <2> HIDE DEF todo, rows
    <2>4. QED
      BY <1>4, <2>1, <2>2, <2>3, SweptIfNoneLost DEF Swept
  <1>6. ASSUME NEW b \in Bindings, SaveDegraded(p, b)
        PROVE  Swept(job[p])'
    <2> DEFINE rest == DOMAIN j.rows \ {b}
               left == [o \in rest |-> j.rows[o]]
               row == [binding[b] EXCEPT !.status = "degraded"]
    <2>1. PICK todo \in SUBSET Bindings :
              j \in [at : {"degrading"}, rows : [todo -> BindingRows]]
      BY <1>1, <1>6, JobKinds DEF SaveDegraded
    <2>2. [j EXCEPT !.rows = left] = [at |-> "degrading", rows |-> left]
      BY <2>1
    <2>3. b \in DOMAIN j.rows /\ j.rows[b] = binding[b] /\ binding[b].status = "active"
      BY <1>6 DEF SaveDegraded, Fresh
    <2>4. Admissible([binding EXCEPT ![b] = row])
      BY <1>1, <2>3, DegradedIsAdmissible
    <2>5. /\ binding' = [binding EXCEPT ![b] = row]
          /\ rest = {} \/ job'[p] = [at |-> "degrading", rows |-> left]
      BY <1>1, <1>6, <2>2, <2>3, <2>4 DEF SaveDegraded, Goto
    <2>6. row.status = "degraded"
      BY <1>1, <2>3, CreatedRow DEF BindingRows
    <2>7. ~Lost(b)' /\ \A o \in Bindings : o # b => binding'[o] = binding[o]
      BY <1>1, <2>5, <2>6 DEF Lost, BindingTyped
    <2>8. \A o \in Bindings : Lost(o)' => o \in rest
      BY <1>3, <1>6, <2>7 DEF SaveDegraded, Swept
    <2>9. DOMAIN left = rest
      OBVIOUS
    <2> HIDE DEF left, rest, row
    <2>10. QED
      BY <2>5, <2>8, <2>9, SweptIfNoneLost DEF Swept
  <1>7. CASE /\ j.at \notin {"degrade", "degrading"}
             /\ \A b \in Bindings :
                   binding'[b].status = "active" => binding'[b] = binding[b]
    <2>1. \A b \in Bindings : ~Lost(b)
      BY <1>7, NoneLost
    <2>2. \A b \in Bindings : ~Lost(b)'
      BY <1>3, <1>7, <2>1 DEF Lost
    <2>3. QED
      BY <1>4, <2>2, SweptIfNoneLost
  <1>8. CASE SaveValidated(p) \/ SaveInactive(p)
    <2>1. j.b \in Bindings /\ j.row \in BindingRows
      BY <1>1, <1>8, JobKinds DEF SaveValidated, SaveInactive
    <2>2. PICK st \in {"validated", "inactive"} :
              binding' = [binding EXCEPT ![j.b] = [j.row EXCEPT !.status = st]]
      BY <1>8 DEF SaveValidated, SaveInactive
    <2>3. [j.row EXCEPT !.status = st].status = st
      BY <2>1 DEF BindingRows
    <2>4. /\ binding'[j.b].status = st
          /\ \A b \in Bindings : b # j.b => binding'[b] = binding[b]
      BY <1>1, <2>1, <2>2, <2>3 DEF BindingTyped
    <2>5. QED
      BY <1>7, <1>8, <2>4 DEF SaveValidated, SaveInactive
  <1>9. CASE SavePublished(p) \/ SaveReplaced(p)
    <2>1. /\ j.at \in {"publish", "replace"} /\ j.b \in Bindings /\ j.row \in BindingRows
          /\ RowsOK(j)
      BY <1>1, <1>9, JobKinds DEF SavePublished, SaveReplaced, JobTyped
    <2>2. CASE binding' = binding
      BY <1>7, <2>1, <2>2
    <2>3. CASE binding' # binding
      <3>1. binding'[j.b] = j.row
        BY <1>1, <1>9, <2>1, <2>3 DEF SavePublished, SaveReplaced, BindingTyped
      <3>2. ASSUME NEW b \in Bindings, b # j.b, binding'[b].status = "active"
            PROVE  binding'[b] = binding[b]
        <4>1. CASE SaveReplaced(p)
          BY <1>1, <2>3, <3>2, <4>1 DEF SaveReplaced, BindingTyped
        <4>2. CASE SavePublished(p)
          <5>1. CASE binding[b].slot = j.row.slot /\ binding[b].status = "active"
            <6>1. binding'[b] = [binding[b] EXCEPT !.status = "inactive"]
              BY <2>3, <3>2, <4>2, <5>1 DEF SavePublished
            <6>2. binding'[b].status = "inactive"
              BY <1>1, <5>1, <6>1, CreatedRow DEF BindingRows
            <6>3. QED
              BY <3>2, <6>2
          <5>2. CASE ~(binding[b].slot = j.row.slot /\ binding[b].status = "active")
            BY <2>3, <3>2, <4>2, <5>2 DEF SavePublished
          <5>3. QED
            BY <5>1, <5>2
        <4>3. QED
          BY <1>9, <4>1, <4>2
      <3>3. \A b \in Bindings : ~Lost(b)
        BY <2>1, NoneLost
      <3>0. PICK x \in Bindings : x = j.b
        BY <2>1
      <3>4. ~Lost(x)'
        <4>1. SUFFICES ASSUME IsDedicated(j.row) PROVE ~conn'[j.row.conn].gone
          BY <3>0, <3>1 DEF Lost, IsDedicated
        <4>2. j.row.conn \in Conns /\ ~conn[j.row.conn].gone
          BY <2>1, <4>1, DedicatedConn DEF RowsOK, NotGone
        <4>3. QED
          BY <1>2, <4>2
      <3>5. \A b \in Bindings : b # x => ~Lost(b)'
        BY <1>3, <3>0, <3>2, <3>3 DEF Lost
      <3>6. QED
        BY <1>4, <3>4, <3>5, SweptIfNoneLost
    <2>4. QED
      BY <2>2, <2>3
  <1>10. CASE \/ WriteLifecycle(p) \/ ReadBlockers(p) \/ \E ok \in BOOLEAN : Probed(p, ok)
              \/ Bind(p) \/ Unbind(p) \/ DrainOld(p)
    BY <1>7, <1>10 DEF WriteLifecycle, ReadBlockers, Probed, Bind, Unbind, DrainOld
  <1>11. QED
    BY <1>4, <1>5, <1>6, <1>8, <1>9, <1>10 DEF Continue

\* The creation of a connection or of a binding loses none.
LEMMA SweptCreated ==
    ASSUME Inv, NEW p \in Workers, Swept(job[p]), NotGone(job[p]),
           \/ \E c \in Conns, mode \in Modes : CreateConnection(c, mode)
           \/ \E b \in Bindings, s \in Slots, c \in Conns \cup {NoConn} : CreateBinding(b, s, c)
    PROVE  Swept(job[p])' /\ NotGone(job[p])'
  <1> DEFINE j == job[p]
  <1>1. /\ JobOK(j) /\ RowsOK(j) /\ ConnTyped /\ BindingTyped
        /\ job' = job
    BY DEF Inv, TypeInv, JobTyped, CreateConnection, CreateBinding
  <1>2. ASSUME NEW c \in Conns, ~conn[c].gone
        PROVE  ~conn'[c].gone
    BY <1>1, <1>2 DEF ConnTyped, CreateConnection, CreateBinding
  <1>3. NotGone(job[p])'
    <2>1. SUFFICES ASSUME j.at \in {"publish", "replace"}, IsDedicated(j.row)
                   PROVE  ~conn'[j.row.conn].gone
      BY <1>1 DEF NotGone, IsDedicated
    <2>2. j.row.conn \in Conns
      BY <1>1, <2>1, JobKinds, DedicatedConn DEF RowsOK
    <2>3. QED
      BY <1>2, <2>1, <2>2 DEF NotGone
  <1>4. ASSUME NEW b \in Bindings, Lost(b)'
        PROVE  Lost(b) /\ binding'[b] = binding[b]
    <2>1. binding'[b] = binding[b]
      <3>1. CASE binding' = binding
        BY <3>1
      <3>2. ASSUME NEW x \in Bindings, NEW s \in Slots, NEW c \in Conns \cup {NoConn},
                   CreateBinding(x, s, c)
            PROVE  binding'[b] = binding[b]
        BY <1>1, <1>4, <3>2 DEF CreateBinding, Lost, BindingTyped
      <3>3. QED
        BY <3>1, <3>2 DEF CreateConnection
    <2>2. binding[b].status = "active" /\ IsDedicated(binding[b])
      BY <1>4, <2>1 DEF Lost, IsDedicated
    <2>3. binding[b].conn \in Conns
      BY <1>1, <2>2, CreatedRow, DedicatedConn
    <2>4. QED
      BY <1>2, <1>4, <2>1, <2>2, <2>3 DEF Lost
  <1>5. QED
    BY <1>1, <1>3, <1>4 DEF Swept

\* A step of the only process that does not end half way.
LEMMA SweptStep ==
    ASSUME NEW p, Workers = {p}, ~MayAbort, Inv, Fresh(job[p]), Swept(job[p]),
           NotGone(job[p]), [Next]_vars
    PROVE  Swept(job[p])' /\ NotGone(job[p])'
  <1>1. CASE UNCHANGED vars
    BY <1>1 DEF vars, Swept, NotGone, Lost, IsDedicated
  <1>2. ASSUME NEW w \in Workers,
               ConnectionCall(w) \/ BindingCall(w) \/ Continue(w) \/ Abort(w)
        PROVE  Swept(job[p])' /\ NotGone(job[p])'
    BY <1>2, SweptConnection, SweptBegun, SweptContinued DEF Abort
  <1>3. QED
    BY <1>1, <1>2, SweptCreated DEF Next

\* A binding that does not change is published as it was, and is not published now.
LEMMA SavesOneBinding ==
    ASSUME Inv, NEW p \in Workers, Fresh(job[p]), Continue(p) \/ Abort(p), NEW b \in Bindings,
           binding'[b] # binding[b]
    PROVE  \/ binding[b].status \in Editable /\ binding'[b].status \in Editable
           \/ binding[b].status \in PUBLISHED /\ binding'[b].status \in PUBLISHED
           \/ /\ job[p].at = "publish" /\ b = job[p].b
              /\ binding'[b] = job[p].row /\ binding'[b].status = "active"
  <1> DEFINE j == job[p]
  <1>1. JobOK(j) /\ BindingTyped
    BY DEF Inv, TypeInv, JobTyped
  <1>2. ASSUME NEW x \in Bindings, SaveDegraded(p, x)
        PROVE  binding[b].status \in PUBLISHED /\ binding'[b].status \in PUBLISHED
    <2>1. PICK todo \in SUBSET Bindings :
              j \in [at : {"degrading"}, rows : [todo -> BindingRows]]
      BY <1>1, <1>2, JobKinds DEF SaveDegraded
    <2>2. j.rows[x] = binding[x] /\ binding[x].status = "active"
      BY <1>2 DEF SaveDegraded, Fresh
    <2>3. [binding[x] EXCEPT !.status = "degraded"].status = "degraded"
      BY <1>1, <2>2, CreatedRow DEF BindingRows
    <2>4. binding' = [binding EXCEPT ![x] = [binding[x] EXCEPT !.status = "degraded"]]
      BY <1>2, <2>2 DEF SaveDegraded
    <2>5. x = b
      BY <1>1, <2>4 DEF BindingTyped
    <2>6. QED
      BY <1>1, <2>2, <2>3, <2>4, <2>5 DEF BindingTyped, PUBLISHED
  <1>3. CASE SaveValidated(p) \/ SaveInactive(p)
    <2>1. j.b \in Bindings /\ j.row \in BindingRows
      BY <1>1, <1>3, JobKinds DEF SaveValidated, SaveInactive
    <2>2. /\ [j.row EXCEPT !.status = "validated"].status = "validated"
          /\ [j.row EXCEPT !.status = "inactive"].status = "inactive"
      BY <2>1 DEF BindingRows
    <2>3. j.b = b
      BY <1>1, <1>3, <2>1 DEF SaveValidated, SaveInactive, BindingTyped
    <2>4. QED
      BY <1>1, <1>3, <2>2, <2>3
         DEF SaveValidated, SaveInactive, BindingTyped, Fresh, Editable, PUBLISHED, Serving
  <1>4. CASE SaveReplaced(p)
    <2>1. j.b \in Bindings /\ j.row.status = "active" /\ binding[j.b].status \in Serving
      BY <1>1, <1>4, JobKinds DEF SaveReplaced, Fresh
    <2>2. binding' = [binding EXCEPT ![j.b] = j.row]
      BY <1>4 DEF SaveReplaced
    <2>3. QED
      BY <1>1, <2>1, <2>2 DEF BindingTyped, PUBLISHED, Serving
  <1>5. CASE SavePublished(p)
    <2>1. j.b \in Bindings /\ j.row.status = "active"
      BY <1>1, <1>5, JobKinds DEF SavePublished, Fresh
    <2>2. binding' # binding
      OBVIOUS
    <2>3. CASE b = j.b
      BY <1>5, <2>1, <2>2, <2>3 DEF SavePublished
    <2>4. CASE b # j.b
      <3>1. /\ binding[b].status = "active"
            /\ binding'[b] = [binding[b] EXCEPT !.status = "inactive"]
        BY <1>5, <2>2, <2>4 DEF SavePublished
      <3>2. binding'[b].status = "inactive"
        BY <1>1, <3>1, CreatedRow DEF BindingRows
      <3>3. QED
        BY <3>1, <3>2 DEF PUBLISHED
    <2>5. QED
      BY <2>3, <2>4
  <1>6. CASE UNCHANGED binding
    BY <1>6
  <1>7. QED
    BY <1>2, <1>3, <1>4, <1>5, <1>6
       DEF Continue, WriteLifecycle, ReadBlockers, ListForDegrade, Probed, Bind, Unbind,
           DrainOld, Abort

\* What a step of the only process does to a binding that there is.
LEMMA StepSaves ==
    ASSUME NEW p, Workers = {p}, Inv, Fresh(job[p]), [Next]_vars, NEW b \in Bindings,
           binding[b].status # "none", binding'[b] # binding[b]
    PROVE  \/ binding[b].status \in Editable /\ binding'[b].status \in Editable
           \/ binding[b].status \in PUBLISHED /\ binding'[b].status \in PUBLISHED
           \/ /\ SavePublished(p) /\ b = job[p].b /\ binding'[b] = job[p].row
              /\ binding'[b].status = "active"
  <1>1. ASSUME NEW x \in Bindings, NEW s \in Slots, NEW c \in Conns \cup {NoConn},
               CreateBinding(x, s, c)
        PROVE  FALSE
    BY <1>1 DEF CreateBinding, Inv, TypeInv, BindingTyped
  <1>2. ASSUME NEW w \in Workers, ConnectionCall(w) \/ BindingCall(w)
        PROVE  FALSE
    BY <1>2
       DEF ConnectionCall, Verify, ListSupply, Pause, Drain, Move, Resume, Retire,
           DeleteConnection, Degrade, SetMode, BindingCall, Validate, Publish, Deactivate,
           Replace
  <1>3. Continue(p) \/ Abort(p)
    BY <1>1, <1>2 DEF Next, CreateConnection, vars
  <1>4. ASSUME job[p].at = "publish"
        PROVE  SavePublished(p)
    BY <1>3, <1>4
       DEF Continue, WriteLifecycle, ReadBlockers, ListForDegrade, Probed, SaveDegraded,
           SaveValidated, SaveInactive, SaveReplaced, Bind, Unbind, DrainOld, Abort
  <1>5. QED
    BY <1>3, <1>4, SavesOneBinding

\* A binding that is published is what active() finds.
LEMMA PublishedIsLatest ==
    ASSUME Inv, NEW p \in Workers, Fresh(job[p]), SavePublished(p), binding' # binding,
           NEW x \in Bindings, x = job[p].b
    PROVE  Latest(binding[x].slot)' = {x}
  <1> DEFINE j == job[p]
  <1>1. JobOK(j) /\ BindingTyped
    BY DEF Inv, TypeInv, JobTyped
  <1>2. PICK s \in Slots, v \in 0..MaxVersion : s = j.row.slot /\ v = j.row.version
    BY <1>1, JobKinds DEF SavePublished, BindingRows
  <1>3. binding'[x] = j.row /\ j.row.status = "active" /\ binding[x].slot = s
    BY <1>2 DEF SavePublished, Fresh
  <1>4. \A o \in Bindings : o # x =>
            binding'[o] = binding[o] \/ binding'[o] = [binding[o] EXCEPT !.status = "inactive"]
    BY <1>2 DEF SavePublished
  <1>5. ASSUME NEW o \in Bindings, o # x, binding'[o].slot = s
        PROVE  /\ binding'[o].version \in Nat
               /\ binding'[o].version < v
    <2>1. binding'[o].slot = binding[o].slot /\ binding'[o].version = binding[o].version
      <3>1. binding[o] \in BindingRows \cup {NoBindingRow}
        BY <1>1 DEF BindingTyped
      <3>2. QED
        BY <1>4, <1>5, <3>1 DEF BindingRows, NoBindingRow
    <2>2. binding[o].version \in Nat
      BY <1>1, SupplyConstants DEF BindingTyped, BindingRows, NoBindingRow
    <2>3. QED
      BY <1>2, <1>5, <2>1, <2>2 DEF SavePublished, Fresh, InSlot
  <1>6. v \in Nat
    BY SupplyConstants
  <1>7. {o \in {q \in Bindings : binding'[q].slot = s} :
            /\ binding'[o].status \in Serving
            /\ \A q \in {q \in Bindings : binding'[q].slot = s} :
                  binding'[q].status \in Serving => binding'[q].version <= binding'[o].version}
        = {x}
    <2>1. binding'[x].slot = s /\ binding'[x].version = v /\ binding'[x].status \in Serving
      BY <1>2, <1>3 DEF Serving
    <2>2. ASSUME NEW q \in Bindings, binding'[q].slot = s
          PROVE  binding'[q].version <= v /\ (q # x => ~(v <= binding'[q].version))
      BY <1>5, <1>6, <2>1, <2>2
    <2>3. QED
      BY <2>1, <2>2
  <1>8. binding'[x].slot = s
    BY <1>2, <1>3
  <1>9. QED
    BY <1>7, <1>8 DEF Latest, InSlot

\* One process serves the calls.
OneProcess == \E p : Workers = {p}

\* Where one process serves the calls, what it has read is so.
LEMMA FreshAlways == ASSUME NEW p, Workers = {p} PROVE Spec => []Fresh(job[p])
  <1>1. Init => Fresh(job[p])
    BY DEF Init, Fresh, Idle
  <1>2. Inv /\ Fresh(job[p]) /\ [Next]_vars => Fresh(job[p])'
    BY FreshStep
  <1>3. QED
    BY <1>1, <1>2, Invariance, PTL DEF Spec

\* Where one process serves the calls, a published binding is never taken back to an
\* editable one, also when handlers end half way.  (With two it is: see the finding.)
THEOREM PublishedIsKept == OneProcess => (Spec => PublishedStays)
  <1> SUFFICES ASSUME NEW p, Workers = {p} PROVE Spec => PublishedStays
    BY DEF OneProcess
  <1>1. Inv /\ Fresh(job[p]) /\ [Next]_vars =>
            [StaysPublished]_vars
    <2>1. SUFFICES ASSUME Inv, Fresh(job[p]), [Next]_vars, NEW b \in Bindings,
                          binding[b].status \in PUBLISHED
                   PROVE  binding'[b].status \in PUBLISHED
      BY DEF StaysPublished
    <2>2. CASE binding'[b] = binding[b]
      BY <2>1, <2>2
    <2>3. CASE binding'[b] # binding[b]
      BY <2>1, <2>3, StepSaves DEF PUBLISHED, Editable
    <2>4. QED
      BY <2>2, <2>3
  <1>2. QED
    BY <1>1, Invariance, FreshAlways, PTL DEF Spec, PublishedStays

\* Where one process serves the calls, the version of a binding that is published is
\* above that of every other of the slot, degraded ones included, so that admission
\* finds it.
THEOREM PublishedIsFound == OneProcess => (Spec => PublishedIsRead)
  <1> SUFFICES ASSUME NEW p, Workers = {p} PROVE Spec => PublishedIsRead
    BY DEF OneProcess
  <1>1. Inv /\ Fresh(job[p]) /\ [Next]_vars =>
            [ReadOncePublished]_vars
    <2>1. SUFFICES ASSUME Inv, Fresh(job[p]), [Next]_vars, NEW b \in Bindings,
                          binding[b].status \in {"draft", "validated"},
                          binding'[b].status = "active"
                   PROVE  Latest(binding[b].slot)' = {b}
      BY DEF ReadOncePublished
    <2>2. SavePublished(p) /\ b = job[p].b
      BY <2>1, StepSaves DEF PUBLISHED, Editable
    <2>3. QED
      BY <2>1, <2>2, PublishedIsLatest
  <1>2. QED
    BY <1>1, Invariance, FreshAlways, PTL DEF Spec, PublishedIsRead

\* Where one process serves the calls and no handler ends half way, admission has no
\* active binding of a deleted connection to offer outside of handlers.
THEOREM DeletedIsClosed == OneProcess /\ ~MayAbort => (Spec => []DeletedFailsClosed)
  <1> SUFFICES ASSUME NEW p, Workers = {p}, ~MayAbort PROVE Spec => []DeletedFailsClosed
    BY DEF OneProcess
  <1>1. Init => Swept(job[p]) /\ NotGone(job[p])
    BY DEF Init, Swept, NotGone, Lost, Idle, NoBindingRow
  <1>2. Inv /\ Fresh(job[p]) /\ Swept(job[p]) /\ NotGone(job[p]) /\ [Next]_vars =>
            Swept(job[p])' /\ NotGone(job[p])'
    BY SweptStep
  <1>3. Swept(job[p]) => DeletedFailsClosed
    BY DEF Swept, Lost, DeletedFailsClosed, Idle
  <1>4. QED
    BY <1>1, <1>2, <1>3, Invariance, FreshAlways, PTL DEF Spec
=============================================================================
