----------------------------- MODULE LoginProofs ----------------------------
(***************************************************************************)
(* What TLAPS proves about Otp and Login, for every set of keys, phones    *)
(* and workers and any number of faults.                                   *)
(***************************************************************************)
EXTENDS Login, TLAPS

----------------------------------------------------------------------------
(* The inductive invariant.                                                *)

\* Rows belong to a request that has ended.
RowsOK ==
    \A k \in Keys :
        /\ ch[k].born <= made
        /\ ch[k].st # "none" => k \in spent /\ ch[k].phone \in Phones

\* A key has one request at a time.
RequestsOK ==
    \A q \in looking :
        q.key \notin spent /\ \A r \in looking : r.key = q.key => r = q

\* A worker's codes exist, and an answer it heard says that the code went out.
HandOK(w) ==
    /\ job[w].at # "poll" => job[w].key \in Keys /\ ch[job[w].key].st # "none"
    /\ \A k \in job[w].todo : ch[k].st # "none"
    /\ job[w].accepted => job[w].key \in Keys /\ texted[job[w].key]
HandsOK == \A w \in Workers : HandOK(w)

\* Only a worker that marked the code itself is about to send it.
Early == {"none", "pending_delivery"}
SendingOK ==
    /\ \A k \in Keys : ch[k].st \in Early => sends[k] = 0
    /\ \A w \in Workers : job[w].at = "send" =>
         /\ sends[job[w].key] = 0
         /\ ch[job[w].key].st \notin Early
         /\ \A v \in Workers : job[v].at = "send" /\ job[v].key = job[w].key => v = w

\* Intents and sessions come from a code that reached its phone, and a session is no
\* newer than the generation of its account.
OpenedOK ==
    \A k \in Keys :
        /\ intent[k] # "none" \/ session[k] # "none" => ch[k].st # "none" /\ texted[k]
        /\ session[k] # "none" => issued[k] <= generation[Phone(k)]

IInv ==
    /\ LoginTypeOK
    /\ RowsOK /\ RequestsOK /\ HandsOK /\ SendingOK /\ OpenedOK
    /\ SentOnce /\ OnlyNewestCode /\ TextedBeforeUsed /\ NewestSessionOnly

\* A row of which nothing but the state changes: not back to an early one, to life only
\* from life, and to one that counts as received only after that is known.
Shown == {"delivered", "consumed", "locked"}
Same(k) == /\ ch'[k].phone = ch[k].phone /\ ch'[k].kind = ch[k].kind
           /\ ch'[k].born = ch[k].born
Moves(k, st) ==
    /\ ch[k].st # "none" /\ st \notin Early
    /\ st = "dispatching" => ch[k].st = "pending_delivery" /\ ch[k].kind # "decoy"
    /\ st \in Live => ch[k].st \in Live
    /\ st \in Shown => ch[k].st \in Shown \/ ch[k].kind = "decoy" \/ texted[k]
Kept(k) == Same(k) /\ (ch'[k].st = ch[k].st \/ Moves(k, ch'[k].st))

\* Or a row that is made, for a request that ends with it.
Born(k) ==
    /\ ch[k].st = "none" /\ k \notin spent /\ k \in spent'
    /\ ch'[k].st = "pending_delivery" /\ ch'[k].phone \in Phones
    /\ ch'[k].born = made + 1 /\ made' = made + 1
Fate(k) == Kept(k) \/ Born(k)
Fates == \A k \in Keys : Fate(k)

----------------------------------------------------------------------------
(* What each part of the invariant needs of a step.                        *)

\* Row states again: a row that is no longer early stays so, and none disappears.
LEMMA FateStates ==
    ASSUME NEW k \in Keys, Fate(k)
    PROVE  /\ ch'[k].st \in Early => ch[k].st \in Early
           /\ ch[k].st # "none" => ch'[k].st # "none" /\ Same(k)
           /\ ch'[k].st # "none" => ch[k].st # "none" \/ Born(k)
           /\ ch[k].st \notin Live \cup {"none"} => ch'[k].st \notin Live
           /\ ch'[k].st \in Shown =>
                ch[k].st \in Shown \/ ch[k].kind = "decoy" \/ texted[k]
           /\ ch'[k].st \in Shown => Same(k)
  BY DEF Fate, Kept, Born, Moves, Early, Live, Shown

\* Rows keep belonging to an ended request and a phone.
LEMMA RowsStep ==
    ASSUME LoginTypeOK, RowsOK, Fates, spent \subseteq spent',
           made' \in {made, made + 1}
    PROVE  RowsOK'
  <1>1. made \in Nat /\ ch \in [Keys -> Row]
    BY DEF LoginTypeOK
  <1>2. SUFFICES ASSUME NEW k \in Keys
                 PROVE  /\ ch'[k].born <= made'
                        /\ ch'[k].st # "none" => k \in spent' /\ ch'[k].phone \in Phones
    BY DEF RowsOK
  <1>3. CASE Born(k)
    BY <1>1, <1>3 DEF Born
  <1>4. CASE ~Born(k)
    <2>1. Same(k) /\ (ch'[k].st # "none" => ch[k].st # "none")
      BY <1>4, FateStates DEF Fates, Fate, Kept
    <2>2. ch[k].born <= made /\ (ch[k].st # "none" => k \in spent /\ ch[k].phone \in Phones)
      BY DEF RowsOK
    <2>3. ch[k].born \in Nat
      BY <1>1 DEF Row
    <2>4. QED
      BY <1>1, <2>1, <2>2, <2>3 DEF Same
  <1>5. QED
    BY <1>3, <1>4

\* What a worker has in hand stays there, unless it takes other codes that exist.
LEMMA HandStep ==
    ASSUME NEW w \in Workers, LoginTypeOK, HandsOK, Fates, job'[w] = job[w],
           \A k \in Keys : texted[k] => texted'[k]
    PROVE  HandOK(w)'
  <1>1. HandOK(w) /\ job[w] \in Job
    BY DEF HandsOK, LoginTypeOK
  <1>2. job[w].todo \subseteq Keys
    BY <1>1 DEF Job
  <1>3. QED
    BY <1>1, <1>2, FateStates DEF Fates, HandOK

\* A step that neither sends nor marks a code keeps what is known of sending.
LEMMA SendingStep ==
    ASSUME LoginTypeOK, HandsOK, SendingOK, Fates, sends' = sends,
           \A w \in Workers : job'[w].at = "send" => job'[w] = job[w]
    PROVE  SendingOK'
  <1>1. \A k \in Keys : ch'[k].st \in Early => sends'[k] = 0
    BY FateStates DEF Fates, SendingOK
  <1>2. SUFFICES ASSUME NEW w \in Workers, job'[w].at = "send"
                 PROVE  /\ sends'[job'[w].key] = 0
                        /\ ch'[job'[w].key].st \notin Early
                        /\ \A v \in Workers :
                             job'[v].at = "send" /\ job'[v].key = job'[w].key => v = w
    BY <1>1 DEF SendingOK
  <1>3. job'[w] = job[w] /\ job[w].at = "send" /\ job[w].key \in Keys
    BY <1>2 DEF HandsOK, HandOK
  <1>4. ch'[job[w].key].st \notin Early
    BY <1>3, FateStates DEF Fates, SendingOK
  <1>5. QED
    BY <1>3, <1>4 DEF SendingOK

\* A step that leaves sessions and intents alone: what can be entered was texted.
LEMMA ShownStep ==
    ASSUME LoginTypeOK, TextedBeforeUsed, OpenedOK, Fates, UNCHANGED loginVars,
           \A k \in Keys : texted[k] => texted'[k]
    PROVE  TextedBeforeUsed' /\ OpenedOK'
  <1>1. session' = session /\ intent' = intent /\ issued' = issued /\ generation' = generation
    BY DEF loginVars
  <1>2. ASSUME NEW k \in Keys, ch'[k].kind # "decoy", ch'[k].st \in Shown
        PROVE  texted'[k]
    <2>1. Same(k) /\ (ch[k].st \in Shown \/ ch[k].kind = "decoy" \/ texted[k])
      BY <1>2, FateStates DEF Fates
    <2>2. QED
      BY <1>2, <2>1 DEF Same, TextedBeforeUsed, Shown
  <1>3. ASSUME NEW k \in Keys, intent[k] # "none" \/ session[k] # "none"
        PROVE  ch[k].st # "none" /\ texted[k] /\ ch'[k].st # "none" /\ Same(k) /\ texted'[k]
    BY <1>3, FateStates DEF Fates, OpenedOK
  <1>4. TextedBeforeUsed'
    BY <1>1, <1>2, <1>3 DEF TextedBeforeUsed, Shown
  <1>5. OpenedOK'
    BY <1>1, <1>3 DEF OpenedOK, Phone, Same
  <1>6. QED
    BY <1>4, <1>5

\* A step that leaves the sessions alone keeps one session per account.
LEMMA SessionsStep ==
    ASSUME LoginTypeOK, OpenedOK, NewestSessionOnly, Fates, UNCHANGED loginVars
    PROVE  NewestSessionOnly'
  <1>1. session' = session /\ issued' = issued /\ generation' = generation
    BY DEF loginVars
  <1>2. \A k \in Keys : session[k] # "none" => Phone(k)' = Phone(k)
    BY FateStates DEF Fates, OpenedOK, Phone, Same
  <1>3. SUFFICES ASSUME NEW k \in Keys, session[k] = "live"
                 PROVE  /\ issued[k] = generation[Phone(k)']
                        /\ \A j \in SessionsOf(Phone(k))' : j # k => issued[j] < issued[k]
    BY <1>1 DEF NewestSessionOnly
  <1>4. SessionsOf(Phone(k))' = SessionsOf(Phone(k))
    BY <1>1, <1>2, <1>3 DEF SessionsOf
  <1>5. QED
    BY <1>2, <1>3, <1>4 DEF NewestSessionOnly

\* No row is made: the live log-in code of an account is still its newest.
LEMMA NewestStep ==
    ASSUME OnlyNewestCode, \A k \in Keys : Kept(k)
    PROVE  OnlyNewestCode'
  BY DEF OnlyNewestCode, Kept, Same, Moves

\* All of it, for a step that makes no row, sends nothing and opens no session.
LEMMA QuietStep ==
    ASSUME IInv, LoginTypeOK', RequestsOK', \A k \in Keys : Kept(k),
           spent \subseteq spent', made' = made, UNCHANGED <<sends, texted, loginVars>>,
           \A w \in Workers : job'[w] = job[w] \/ (job'[w].at # "send" /\ HandOK(w)')
    PROVE  IInv' /\ Fates
  <1>1. Fates
    BY DEF Fates, Fate
  <1>2. RowsOK'
    BY <1>1, RowsStep DEF IInv
  <1>3. HandsOK'
    BY <1>1, HandStep DEF IInv, HandsOK
  <1>4. SendingOK'
    BY <1>1, SendingStep DEF IInv
  <1>5. SentOnce'
    BY DEF IInv, SentOnce
  <1>6. TextedBeforeUsed' /\ OpenedOK'
    BY <1>1, ShownStep DEF IInv
  <1>7. NewestSessionOnly' /\ OnlyNewestCode'
    BY <1>1, SessionsStep, NewestStep DEF IInv
  <1>8. QED
    BY <1>1, <1>2, <1>3, <1>4, <1>5, <1>6, <1>7 DEF IInv

----------------------------------------------------------------------------
(* Rows and jobs.                                                          *)

\* What the handlers make of a row is a row, with what Same compares unchanged.
LEMMA RowTypes ==
    ASSUME NEW row \in Row
    PROVE  /\ \A st \in Statuses : Ended(row, st) \in Row /\ Ended(row, st).st = st
           /\ \A st \in Statuses : [Ended(row, st) EXCEPT !.started = FALSE] \in Row
           /\ Delivered(row) \in Row
           /\ \A w \in Workers : [row EXCEPT !.lease = w, !.late = FALSE] \in Row
           /\ [row EXCEPT !.st = "dispatching", !.started = TRUE] \in Row
           /\ [row EXCEPT !.late = TRUE] \in Row
           /\ row.age < 2 => [row EXCEPT !.age = @ + 1] \in Row
           /\ row.tries + 1 < MaxAttempts => [row EXCEPT !.tries = @ + 1] \in Row
  <1>1. MaxAttempts \in Nat \ {0}
    BY OtpConstants
  <1>2. row.age \in 0..2 /\ row.tries \in 0..(MaxAttempts - 1) /\ 0 \in 0..(MaxAttempts - 1)
    BY <1>1 DEF Row
  <1>3. ASSUME NEW st \in Statuses
        PROVE  Ended(row, st) \in Row /\ Ended(row, st).st = st
    <2>1. [row EXCEPT !.st = st] \in Row /\ [row EXCEPT !.st = st].st = st
      BY DEF Row
    <2>2. ASSUME NEW r \in Row
          PROVE  [r EXCEPT !.age = 2, !.lease = Nobody, !.late = FALSE, !.tries = 0] \in Row
      <3>1. [r EXCEPT !.age = 2] \in Row
        BY DEF Row
      <3>2. \A x \in Row : [x EXCEPT !.lease = Nobody, !.late = FALSE] \in Row
        BY DEF Row
      <3>3. \A x \in Row : [x EXCEPT !.tries = 0] \in Row
        BY <1>1 DEF Row
      <3>4. [r EXCEPT !.age = 2, !.lease = Nobody, !.late = FALSE, !.tries = 0] =
              [[[r EXCEPT !.age = 2] EXCEPT !.lease = Nobody, !.late = FALSE] EXCEPT !.tries = 0]
        OBVIOUS
      <3>5. QED
        BY <3>1, <3>2, <3>3, <3>4
    <2>3. Ended(row, st) = [[row EXCEPT !.st = st] EXCEPT !.age = 2, !.lease = Nobody,
                                                          !.late = FALSE, !.tries = 0]
      BY DEF Ended
    <2>4. Ended(row, st).st = st
      BY DEF Ended, Row
    <2>5. QED
      BY <2>1, <2>2, <2>3, <2>4
  <1>4. \A st \in Statuses : [Ended(row, st) EXCEPT !.started = FALSE] \in Row
    BY <1>3 DEF Row
  <1>5. Delivered(row) \in Row
    BY DEF Row, Delivered, Statuses
  <1>6. /\ \A w \in Workers : [row EXCEPT !.lease = w, !.late = FALSE] \in Row
        /\ [row EXCEPT !.st = "dispatching", !.started = TRUE] \in Row
        /\ [row EXCEPT !.late = TRUE] \in Row
    BY DEF Row, Statuses
  <1>7. row.age < 2 => row.age + 1 \in 0..2
    BY <1>2
  <1>8. row.tries + 1 < MaxAttempts => row.tries + 1 \in 0..(MaxAttempts - 1)
    BY <1>1, <1>2
  <1>9. row.age < 2 => [row EXCEPT !.age = @ + 1] \in Row
    BY <1>7 DEF Row
  <1>10. row.tries + 1 < MaxAttempts => [row EXCEPT !.tries = @ + 1] \in Row
    BY <1>8 DEF Row
  <1>11. QED
    BY <1>3, <1>4, <1>5, <1>6, <1>9, <1>10

\* A change of one row gives every row a fate.
LEMMA ChangeRow ==
    ASSUME ch \in [Keys -> Row], NEW k \in Keys, NEW row \in Row, Change(k, row),
           row.phone = ch[k].phone, row.kind = ch[k].kind, row.born = ch[k].born,
           row.st = ch[k].st \/ Moves(k, row.st)
    PROVE  ch' \in [Keys -> Row] /\ \A j \in Keys : Kept(j)
  BY DEF Change, Kept, Same

\* A worker that takes its next code is not about to send it.
LEMMA NextJob ==
    ASSUME NEW w \in Workers, job \in [Workers -> Job], NEW S \in SUBSET Keys,
           NEW duty \in {"batch", "recovery"}, TakeNext(w, duty, S),
           \A k \in S : ch'[k].st # "none"
    PROVE  /\ job' \in [Workers -> Job]
           /\ \A v \in Workers : job'[v] = job[v] \/ (job'[v].at # "send" /\ HandOK(v)')
  <1>1. CASE S = {} /\ job' = [job EXCEPT ![w] = Idle]
    <2>1. Idle \in Job
      BY DEF Idle, Job, Steps
    <2>2. job'[w] = Idle /\ \A v \in Workers \ {w} : job'[v] = job[v]
      BY <1>1
    <2>3. HandOK(w)' /\ job'[w].at # "send"
      BY <2>2 DEF HandOK, Idle
    <2>4. QED
      BY <1>1, <2>1, <2>2, <2>3
  <1>2. CASE \E k \in S :
               /\ Oldest(k, S)
               /\ job' = [job EXCEPT ![w] =
                            [at |-> IF duty = "batch" THEN "load" ELSE "query",
                             duty |-> duty, todo |-> S \ {k}, key |-> k, accepted |-> FALSE]]
    <2>1. PICK k \in S :
             job' = [job EXCEPT ![w] =
                       [at |-> IF duty = "batch" THEN "load" ELSE "query",
                        duty |-> duty, todo |-> S \ {k}, key |-> k, accepted |-> FALSE]]
      BY <1>2
    <2>2. [at |-> IF duty = "batch" THEN "load" ELSE "query", duty |-> duty,
           todo |-> S \ {k}, key |-> k, accepted |-> FALSE] \in Job
      BY DEF Job, Steps
    <2>3. /\ job'[w].at \in {"load", "query"} /\ job'[w].todo \subseteq S
          /\ job'[w].key = k /\ job'[w].accepted = FALSE
          /\ \A v \in Workers \ {w} : job'[v] = job[v]
      BY <2>1
    <2>4. HandOK(w)' /\ job'[w].at # "send"
      BY <2>3 DEF HandOK
    <2>5. QED
      BY <2>1, <2>2, <2>3, <2>4
  <1>3. QED
    BY <1>1, <1>2 DEF TakeNext

\* In particular when it is done with the one in hand.
LEMMA DoneJob ==
    ASSUME NEW w \in Workers, job \in [Workers -> Job], HandsOK, Done(w),
           \A k \in Keys : Kept(k)
    PROVE  /\ job' \in [Workers -> Job]
           /\ \A v \in Workers : job'[v] = job[v] \/ (job'[v].at # "send" /\ HandOK(v)')
  <1>1. job[w].todo \in SUBSET Keys /\ job[w].duty \in {"batch", "recovery"}
    BY DEF Job
  <1>2. \A k \in job[w].todo : ch'[k].st # "none"
    BY <1>1 DEF HandsOK, HandOK, Kept, Moves, Early
  <1>3. QED
    BY <1>1, <1>2, NextJob DEF Done

\* A step of a worker on the code in hand.
LEMMA InHandRow ==
    ASSUME IInv, NEW w \in Workers, ~At(w, "poll")
    PROVE  /\ job[w].key \in Keys /\ ch[job[w].key] \in Row
           /\ ch[job[w].key].st # "none"
           /\ ch \in [Keys -> Row] /\ job \in [Workers -> Job]
  BY DEF IInv, LoginTypeOK, HandsOK, HandOK, At

----------------------------------------------------------------------------
(* The workers.                                                            *)

\* Rows that do not change have a fate.
LEMMA KeptAll ==
    ASSUME ch' = ch
    PROVE  \A k \in Keys : Kept(k)
  BY DEF Kept, Same

\* A step of a worker that sends nothing keeps the whole invariant.
LEMMA QuietWork ==
    ASSUME IInv, UNCHANGED loginVars, Untouched, NoSend,
           ch' \in [Keys -> Row], \A k \in Keys : Kept(k), job' \in [Workers -> Job],
           \A w \in Workers : job'[w] = job[w] \/ (job'[w].at # "send" /\ HandOK(w)')
    PROVE  IInv' /\ Fates
  <1>1. LoginTypeOK'
    BY DEF IInv, LoginTypeOK, Untouched, NoSend, loginVars
  <1>2. RequestsOK' /\ spent \subseteq spent' /\ made' = made
    BY DEF IInv, RequestsOK, Untouched
  <1>3. UNCHANGED <<sends, texted, loginVars>>
    BY DEF NoSend
  <1>4. QED
    BY <1>1, <1>2, <1>3, QuietStep

\* A worker that changes the row in hand and takes the next code.
LEMMA DoneWork ==
    ASSUME IInv, UNCHANGED loginVars, Untouched, NoSend, NEW w \in Workers,
           Done(w), ch' \in [Keys -> Row], \A k \in Keys : Kept(k)
    PROVE  IInv' /\ Fates
  <1>1. /\ job' \in [Workers -> Job]
        /\ \A v \in Workers : job'[v] = job[v] \/ (job'[v].at # "send" /\ HandOK(v)')
    BY DoneJob DEF IInv, LoginTypeOK
  <1>2. QED
    BY <1>1, QuietWork

\* Hand g is hand j elsewhere, having heard whether the code was accepted.
Moved(j, g, at, ok) == g = [j EXCEPT !.at = at, !.accepted = ok]

LEMMA JobMoves ==
    ASSUME NEW j \in Job, NEW at \in Steps, NEW ok \in BOOLEAN, NEW g, Moved(j, g, at, ok)
    PROVE  g \in Job /\ g.at = at /\ g.key = j.key /\ g.todo = j.todo /\ g.accepted = ok
  BY DEF Job, Moved

\* A worker that changes nothing but how far it is.
LEMMA StepWork ==
    ASSUME IInv, UNCHANGED loginVars, Untouched, NoSend, UNCHANGED ch,
           NEW w \in Workers, ~At(w, "poll"), NEW at \in Steps \ {"poll", "send"},
           NEW ok \in BOOLEAN, ok => texted[job[w].key],
           job' = [job EXCEPT ![w].at = at, ![w].accepted = ok]
    PROVE  IInv' /\ Fates
  <1>1. job[w].key \in Keys /\ ch[job[w].key].st # "none" /\ job \in [Workers -> Job]
    BY InHandRow
  <1>2. /\ job'[w].at = at /\ job'[w].key = job[w].key /\ job'[w].todo = job[w].todo
        /\ job'[w].accepted = ok /\ \A v \in Workers \ {w} : job'[v] = job[v]
    <2>1. job[w] \in Job /\ Moved(job[w], job'[w], at, ok)
      BY <1>1 DEF Moved
    <2>2. \A v \in Workers \ {w} : job'[v] = job[v]
      BY <1>1
    <2>3. at \in Steps
      OBVIOUS
    <2>4. /\ job'[w].at = at /\ job'[w].key = job[w].key
          /\ job'[w].todo = job[w].todo /\ job'[w].accepted = ok
      BY <2>1, <2>3, JobMoves
    <2>5. QED
      BY <2>2, <2>4
  <1>3. job' \in [Workers -> Job]
    <2>1. Moved(job[w], [job[w] EXCEPT !.at = at, !.accepted = ok], at, ok)
      BY DEF Moved
    <2>2. [job[w] EXCEPT !.at = at, !.accepted = ok] \in Job
      BY <1>1, <2>1, JobMoves
    <2>3. job' = [job EXCEPT ![w] = [job[w] EXCEPT !.at = at, !.accepted = ok]]
      OBVIOUS
    <2>4. QED
      BY <1>1, <2>2, <2>3
  <1>4. texted' = texted
    BY DEF NoSend
  <1>5. HandOK(w)
    BY DEF IInv, HandsOK
  <1>6. HandOK(w)'
    BY <1>1, <1>2, <1>4, <1>5 DEF HandOK
  <1>7. ch' \in [Keys -> Row] /\ \A k \in Keys : Kept(k)
    BY KeptAll DEF IInv, LoginTypeOK
  <1>8. QED
    BY <1>2, <1>3, <1>6, <1>7, QuietWork

\* A claim sets leases and takes codes in hand.
LEMMA ClaimStep ==
    ASSUME IInv, UNCHANGED loginVars, NEW w \in Workers, Claim(w)
    PROVE  IInv' /\ Fates
  <1> DEFINE S == {k \in Keys : Claimable(k)}
  <1>1. ch \in [Keys -> Row] /\ job \in [Workers -> Job]
    BY DEF IInv, LoginTypeOK
  <1>2. ch' = [k \in Keys |->
                 IF k \in S THEN [ch[k] EXCEPT !.lease = w, !.late = FALSE] ELSE ch[k]]
    BY DEF Claim
  <1>3. ch' \in [Keys -> Row]
    BY <1>1, <1>2, RowTypes
  <1>4. \A k \in Keys : Kept(k)
    BY <1>1, <1>2 DEF Kept, Same, Row
  <1>5. \A k \in S : ch'[k].st # "none"
    BY <1>1, <1>2 DEF Claimable, Row
  <1>6. TakeNext(w, "batch", S) /\ S \in SUBSET Keys
    BY DEF Claim
  <1>7. /\ job' \in [Workers -> Job]
        /\ \A v \in Workers : job'[v] = job[v] \/ (job'[v].at # "send" /\ HandOK(v)')
    BY <1>1, <1>5, <1>6, NextJob
  <1>8. Untouched /\ NoSend
    BY DEF Claim
  <1>9. QED
    BY <1>3, <1>4, <1>7, <1>8, QuietWork

\* A recovery takes codes in hand whose sending was started.
LEMMA ListStep ==
    ASSUME IInv, UNCHANGED loginVars, NEW w \in Workers, List(w)
    PROVE  IInv' /\ Fates
  <1> DEFINE S == {k \in Keys : /\ ch[k].st = "dispatching" /\ ch[k].started
                                /\ ch[k].late /\ Free(k)}
  <1>1. /\ TakeNext(w, "recovery", S) /\ S \in SUBSET Keys
        /\ UNCHANGED ch /\ Untouched /\ NoSend
    BY DEF List
  <1>2. \A k \in S : ch'[k].st # "none"
    BY <1>1
  <1>3. job \in [Workers -> Job] /\ ch' \in [Keys -> Row] /\ \A k \in Keys : Kept(k)
    BY <1>1, KeptAll DEF IInv, LoginTypeOK
  <1>4. /\ job' \in [Workers -> Job]
        /\ \A v \in Workers : job'[v] = job[v] \/ (job'[v].at # "send" /\ HandOK(v)')
    BY <1>1, <1>2, <1>3, NextJob
  <1>5. QED
    BY <1>1, <1>3, <1>4, QuietWork

\* A worker reads the row of its code again, or asks the provider about it.
LEMMA LoadStep ==
    ASSUME IInv, UNCHANGED loginVars, NEW w \in Workers, Load(w) \/ Query(w)
    PROVE  IInv' /\ Fates
  <1>1. CASE Load(w)
    <2>1. job[w] \in Job /\ job \in [Workers -> Job] /\ ~At(w, "poll")
      BY <1>1 DEF IInv, LoginTypeOK, Load, At
    <2>2. job[w].accepted \in BOOLEAN /\ (job[w].accepted => texted[job[w].key])
      BY <2>1 DEF Job, IInv, HandsOK, HandOK
    <2>3. PICK at \in {"query", "prepare"} : job' = [job EXCEPT ![w].at = at]
      BY <1>1 DEF Load, Step
    <2>4. job' = [job EXCEPT ![w].at = at, ![w].accepted = job[w].accepted]
      BY <2>1, <2>3 DEF Job
    <2>5. UNCHANGED ch /\ Untouched /\ NoSend
      BY <1>1 DEF Load
    <2>6. QED
      BY <2>1, <2>2, <2>4, <2>5, StepWork DEF Steps
  <1>2. CASE Query(w)
    <2>1. PICK ok \in BOOLEAN :
            /\ ok => texted[job[w].key]
            /\ job' = [job EXCEPT ![w].at = IF ok THEN "settle" ELSE "void",
                                  ![w].accepted = ok]
      BY <1>2 DEF Query
    <2>2. ~At(w, "poll") /\ UNCHANGED ch /\ Untouched /\ NoSend
      BY <1>2 DEF Query, At
    <2>3. (IF ok THEN "settle" ELSE "void") \in Steps \ {"poll", "send"}
      BY DEF Steps
    <2>4. QED
      BY <2>1, <2>2, <2>3, StepWork
  <1>3. QED
    BY <1>1, <1>2

\* The rows a worker leaves behind.
LEMMA WorkRows ==
    ASSUME NEW k \in Keys, ch[k] \in Row, ch[k].st # "none"
    PROVE  /\ Failed(ch[k]) \in Row /\ Delivered(ch[k]) \in Row
           /\ \A row \in {Failed(ch[k]), Delivered(ch[k])} :
                row.phone = ch[k].phone /\ row.kind = ch[k].kind /\ row.born = ch[k].born
           /\ Moves(k, Failed(ch[k]).st)
           /\ (ch[k].st \in Live /\ (ch[k].kind = "decoy" \/ texted[k])) =>
                Moves(k, Delivered(ch[k]).st)
  <1>1. "delivery_failed" \in Statuses
    BY DEF Statuses
  <1>2. Failed(ch[k]) \in Row /\ Delivered(ch[k]) \in Row /\ Failed(ch[k]).st = "delivery_failed"
    BY <1>1, RowTypes DEF Failed
  <1>3. Delivered(ch[k]).st = "delivered"
    BY DEF Delivered, Row
  <1>4. \A row \in {Failed(ch[k]), Delivered(ch[k])} :
          row.phone = ch[k].phone /\ row.kind = ch[k].kind /\ row.born = ch[k].born
    BY DEF Failed, Ended, Delivered, Row
  <1>5. QED
    BY <1>2, <1>3, <1>4 DEF Moves, Early, Live, Shown

\* A code that is a decoy, or of a disabled account, ends without a text.
LEMMA PrepareStep ==
    ASSUME IInv, UNCHANGED loginVars, NEW w \in Workers,
           PrepareDecoy(w) \/ PrepareFail(w)
    PROVE  IInv' /\ Fates
  <1> DEFINE k == job[w].key
  <1>1. ~At(w, "poll") /\ Done(w) /\ Untouched /\ NoSend
    BY DEF PrepareDecoy, PrepareFail, At
  <1>2. k \in Keys /\ ch[k] \in Row /\ ch[k].st # "none" /\ ch \in [Keys -> Row]
    BY <1>1, InHandRow
  <1>3. PICK row \in {ch[k], Failed(ch[k]), Delivered(ch[k])} :
          /\ Change(k, row)
          /\ row = Delivered(ch[k]) =>
               \/ ch[k].st = "pending_delivery" /\ ch[k].kind = "decoy"
               \/ row \in {ch[k], Failed(ch[k])}
    BY DEF PrepareDecoy, PrepareFail
  <1>4. row \in Row /\ row.phone = ch[k].phone /\ row.kind = ch[k].kind /\ row.born = ch[k].born
    BY <1>2, <1>3, WorkRows
  <1>5. row.st = ch[k].st \/ Moves(k, row.st)
    BY <1>2, <1>3, WorkRows DEF Live
  <1>6. ch' \in [Keys -> Row] /\ \A j \in Keys : Kept(j)
    BY <1>2, <1>3, <1>4, <1>5, ChangeRow
  <1>7. QED
    BY <1>1, <1>6, DoneWork

\* The answer about a code is recorded, or the code fails for want of one.
LEMMA SettleStep ==
    ASSUME IInv, UNCHANGED loginVars, NEW w \in Workers,
           Unconfigured(w) \/ Settle(w) \/ Void(w)
    PROVE  IInv' /\ Fates
  <1> DEFINE k == job[w].key
  <1>1. ~At(w, "poll") /\ Done(w) /\ Untouched /\ NoSend
    BY DEF Unconfigured, Settle, Void, At
  <1>2. k \in Keys /\ ch[k] \in Row /\ ch[k].st # "none" /\ ch \in [Keys -> Row]
    BY <1>1, InHandRow
  <1>3. job[w].accepted => texted[k]
    BY DEF IInv, HandsOK, HandOK
  <1>4. PICK row \in {ch[k], Failed(ch[k]), Delivered(ch[k])} :
          /\ Change(k, row)
          /\ \/ row \in {ch[k], Failed(ch[k])}
             \/ row = Delivered(ch[k]) /\ Unsettled(k) /\ job[w].accepted
    BY DEF Unconfigured, Settle, Void
  <1>5. row \in Row /\ row.phone = ch[k].phone /\ row.kind = ch[k].kind /\ row.born = ch[k].born
    BY <1>2, <1>4, WorkRows
  <1>6. row.st = ch[k].st \/ Moves(k, row.st)
    BY <1>2, <1>3, <1>4, WorkRows DEF Live, Unsettled
  <1>7. ch' \in [Keys -> Row] /\ \A j \in Keys : Kept(j)
    BY <1>2, <1>4, <1>5, <1>6, ChangeRow
  <1>8. QED
    BY <1>1, <1>7, DoneWork

\* A worker that gives up what it has in hand: refused in recovery, or dead.
LEMMA GiveUpStep ==
    ASSUME IInv, UNCHANGED loginVars, NEW w \in Workers, SettleRefused(w) \/ Crash(w)
    PROVE  IInv' /\ Fates
  <1>1. ch' = ch /\ \A k \in Keys : Kept(k)
    BY KeptAll DEF SettleRefused, Crash
  <1>2. /\ UNCHANGED <<account, spent, looking, made>> /\ NoSend
        /\ faults' \in Nat
    BY DEF SettleRefused, Crash, Untouched, IInv, LoginTypeOK
  <1>3. ch' \in [Keys -> Row] /\ job \in [Workers -> Job]
    BY <1>1 DEF IInv, LoginTypeOK
  <1>4. CASE Done(w) /\ SettleRefused(w)
    BY <1>1, <1>3, <1>4, DoneWork DEF SettleRefused
  <1>5. CASE job' = [job EXCEPT ![w] = Idle]
    <2>1. Idle \in Job
      BY DEF Idle, Job, Steps
    <2>2. job' \in [Workers -> Job] /\ job'[w] = Idle /\ \A v \in Workers \ {w} : job'[v] = job[v]
      BY <1>3, <1>5, <2>1
    <2>3. HandOK(w)' /\ job'[w].at # "send"
      BY <2>2 DEF HandOK, Idle
    <2>4. LoginTypeOK'
      BY <1>2, <1>3, <2>2 DEF IInv, LoginTypeOK, NoSend, loginVars
    <2>5. RequestsOK' /\ spent \subseteq spent' /\ made' = made
      BY <1>2 DEF IInv, RequestsOK
    <2>6. UNCHANGED <<sends, texted, loginVars>>
      BY <1>2 DEF NoSend
    <2>7. QED
      BY <1>1, <2>2, <2>3, <2>4, <2>5, <2>6, QuietStep
  <1>6. QED
    BY <1>4, <1>5 DEF SettleRefused, Crash

\* Marking the code: from now on this worker, and no other, may send it.
LEMMA MarkStep ==
    ASSUME IInv, UNCHANGED loginVars, NEW w \in Workers, PrepareMark(w)
    PROVE  IInv' /\ Fates
  <1> DEFINE k == job[w].key
  <1>1. ~At(w, "poll") /\ Untouched /\ NoSend
    BY DEF PrepareMark, At
  <1>2. /\ k \in Keys /\ ch[k] \in Row /\ ch[k].st # "none"
        /\ ch \in [Keys -> Row] /\ job \in [Workers -> Job]
    BY <1>1, InHandRow
  <1>3. CASE ~MayStart(w, k)
    <2>1. UNCHANGED ch /\ Done(w)
      BY <1>3 DEF PrepareMark
    <2>2. QED
      BY <1>1, <1>2, <2>1, KeptAll, DoneWork
  <1>4. CASE MayStart(w, k)
    <2> DEFINE row == [ch[k] EXCEPT !.st = "dispatching", !.started = TRUE]
    <2>1. Change(k, row) /\ job' = [job EXCEPT ![w].at = "send"]
      BY <1>4 DEF PrepareMark, Step
    <2>2. /\ row \in Row /\ row.phone = ch[k].phone /\ row.kind = ch[k].kind
          /\ row.born = ch[k].born /\ row.st = "dispatching"
      <3>1. ch[k] \in Row
        BY <1>2
      <3>2. "dispatching" \in Statuses
        BY DEF Statuses
      <3> HIDE DEF k
      <3>3. QED
        BY <3>1, <3>2 DEF Row
    <2>3. ch[k].st = "pending_delivery" /\ ch[k].kind # "decoy"
      BY <1>4 DEF MayStart, PrepareMark
    <2>4. Moves(k, row.st)
      BY <2>2, <2>3 DEF Moves, Early, Live, Shown
    <2>5. ch' \in [Keys -> Row] /\ (\A j \in Keys : Kept(j)) /\ ch'[k].st = "dispatching"
      BY <1>2, <2>1, <2>2, <2>4, ChangeRow DEF Change
    <2>6. /\ job'[w].at = "send" /\ job'[w].key = k /\ job'[w].todo = job[w].todo
          /\ job'[w].accepted = job[w].accepted /\ \A v \in Workers \ {w} : job'[v] = job[v]
          /\ job' \in [Workers -> Job]
      BY <1>2, <2>1 DEF Job, Steps
    <2>7. Fates
      BY <2>5 DEF Fates, Fate
    <2>8. LoginTypeOK'
      BY <1>1, <2>5, <2>6 DEF IInv, LoginTypeOK, Untouched, NoSend, loginVars
    <2>9. RowsOK' /\ RequestsOK' /\ SentOnce'
      <3>1. spent' = spent /\ made' = made /\ looking' = looking /\ sends' = sends
        BY <1>1 DEF Untouched, NoSend
      <3>2. RowsOK'
        BY <2>7, <3>1, RowsStep DEF IInv
      <3>3. QED
        BY <3>1, <3>2 DEF IInv, RequestsOK, SentOnce
    <2>10. \A j \in Keys : texted[j] => texted'[j]
      BY <1>1 DEF NoSend
    <2>11. HandsOK'
      <3>1. \A v \in Workers \ {w} : HandOK(v)'
        BY <2>6, <2>7, <2>10, HandStep DEF IInv
      <3>2. HandOK(w) /\ job[w].todo \subseteq Keys
        BY <1>2 DEF IInv, HandsOK, Job
      <3>3. texted' = texted
        BY <1>1 DEF NoSend
      <3>4. HandOK(w)'
        BY <1>1, <1>2, <2>5, <2>6, <2>7, <3>2, <3>3, FateStates DEF HandOK, Fates, At
      <3>5. QED
        BY <3>1, <3>4 DEF HandsOK
    <2>12. SendingOK'
      <3>1. sends' = sends /\ sends[k] = 0
        BY <1>1, <1>2, <2>3 DEF NoSend, IInv, SendingOK, Early
      <3>2. \A j \in Keys : ch'[j].st \in Early => sends'[j] = 0
        BY <2>7, <3>1, FateStates DEF Fates, IInv, SendingOK
      <3>3. \A v \in Workers \ {w} : job[v].at = "send" => job[v].key \in Keys /\ job[v].key # k
        BY <2>3 DEF IInv, SendingOK, HandsOK, HandOK, Early
      <3>4. \A v \in Workers \ {w} : job[v].at = "send" =>
              sends[job[v].key] = 0 /\ ch'[job[v].key].st \notin Early
        BY <2>7, <3>3, FateStates DEF Fates, IInv, SendingOK
      <3>5. \A u, v \in Workers : job'[u].at = "send" /\ job'[v].at = "send"
                                  /\ job'[v].key = job'[u].key => v = u
        BY <2>6, <3>3 DEF IInv, SendingOK
      <3>6. QED
        BY <2>5, <2>6, <3>1, <3>2, <3>4, <3>5 DEF SendingOK, Early
    <2>13. TextedBeforeUsed' /\ OpenedOK'
      BY <2>7, <2>10, ShownStep DEF IInv
    <2>14. NewestSessionOnly' /\ OnlyNewestCode'
      BY <2>5, <2>7, SessionsStep, NewestStep DEF IInv
    <2>15. QED
      BY <2>7, <2>8, <2>9, <2>11, <2>12, <2>13, <2>14 DEF IInv
  <1>5. QED
    BY <1>3, <1>4

\* Sending it, which happens this once.
LEMMA SendStep ==
    ASSUME IInv, UNCHANGED loginVars, NEW w \in Workers, Send(w)
    PROVE  IInv' /\ Fates
  <1> DEFINE k == job[w].key
  <1>1. At(w, "send") /\ ~At(w, "poll") /\ UNCHANGED ch /\ Untouched
    BY DEF Send, At
  <1>2. /\ k \in Keys /\ ch[k] \in Row /\ ch[k].st # "none"
        /\ ch \in [Keys -> Row] /\ job \in [Workers -> Job]
    BY <1>1, InHandRow
  <1>3. sends \in [Keys -> Nat] /\ texted \in [Keys -> BOOLEAN]
    BY DEF IInv, LoginTypeOK
  <1>4. \E ok \in BOOLEAN, acc \in BOOLEAN :
          /\ acc => ok
          /\ texted' = [texted EXCEPT ![k] = texted[k] \/ ok]
          /\ job' = [job EXCEPT ![w].at = "settle", ![w].accepted = acc]
    <2>1. PICK ok \in BOOLEAN, heard \in BOOLEAN :
            /\ texted' = [texted EXCEPT ![k] = texted[k] \/ ok]
            /\ job' = [job EXCEPT ![w].at = "settle", ![w].accepted = ok /\ heard]
      BY DEF Send
    <2>2. (ok /\ heard) \in BOOLEAN /\ ((ok /\ heard) => ok)
      OBVIOUS
    <2>3. QED
      BY <2>1, <2>2
  <1>pick. PICK ok \in BOOLEAN, acc \in BOOLEAN :
          /\ acc => ok
          /\ texted' = [texted EXCEPT ![k] = texted[k] \/ ok]
          /\ job' = [job EXCEPT ![w].at = "settle", ![w].accepted = acc]
    BY <1>4
  <1>5. sends' = [sends EXCEPT ![k] = 1] /\ sends[k] = 0 /\ ch[k].st \notin Early
    <2>1. sends[k] = 0 /\ ch[k].st \notin Early
      BY <1>1 DEF IInv, SendingOK, At
    <2>2. sends' = [sends EXCEPT ![k] = sends[k] + 1]
      BY DEF Send
    <2>3. QED
      BY <2>1, <2>2
  <1>6. /\ job'[w].at = "settle" /\ job'[w].key = k /\ job'[w].todo = job[w].todo
        /\ job'[w].accepted = acc /\ \A v \in Workers \ {w} : job'[v] = job[v]
        /\ job' \in [Workers -> Job]
    <2>1. job' \in [Workers -> Job]
      <3>1. job[w] \in Job /\ "settle" \in Steps
        BY <1>2 DEF Steps
      <3>2. [job[w] EXCEPT !.at = "settle", !.accepted = acc] \in Job
        BY <3>1 DEF Job
      <3>3. job' = [job EXCEPT ![w] = [job[w] EXCEPT !.at = "settle", !.accepted = acc]]
        BY <1>pick
      <3>4. QED
        BY <1>2, <3>2, <3>3
    <2>2. /\ job'[w].at = "settle" /\ job'[w].key = job[w].key
          /\ job'[w].todo = job[w].todo /\ job'[w].accepted = acc
          /\ \A v \in Workers \ {w} : job'[v] = job[v]
      BY <1>2, <1>pick DEF Job
    <2>3. QED
      BY <2>1, <2>2
  <1>7. /\ texted' \in [Keys -> BOOLEAN]
        /\ \A j \in Keys : texted[j] => texted'[j]
        /\ ok => texted'[k]
    BY <1>2, <1>3, <1>pick
  <1>8. Fates /\ \A j \in Keys : Kept(j)
    BY <1>1, KeptAll DEF Fates, Fate
  <1>9. LoginTypeOK'
    BY <1>1, <1>2, <1>3, <1>5, <1>6, <1>7 DEF IInv, LoginTypeOK, Untouched, loginVars
  <1>10. RowsOK' /\ RequestsOK'
    BY <1>1 DEF IInv, RowsOK, RequestsOK, Untouched
  <1>11. HandsOK'
    <2>1. \A v \in Workers \ {w} : HandOK(v)'
      BY <1>6, <1>7, <1>8, HandStep DEF IInv
    <2>2. HandOK(w)
      BY DEF IInv, HandsOK
    <2>3. HandOK(w)'
      BY <1>1, <1>2, <1>pick, <1>6, <1>7, <2>2 DEF HandOK
    <2>4. QED
      BY <2>1, <2>3 DEF HandsOK
  <1>12. SendingOK'
    <2>1. \A v \in Workers \ {w} : job[v].at = "send" => job[v].key # k /\ job[v].key \in Keys
      BY <1>1 DEF IInv, SendingOK, HandsOK, HandOK, At
    <2>2. \A j \in Keys \ {k} : sends'[j] = sends[j]
      BY <1>3, <1>5
    <2>3. QED
      BY <1>1, <1>5, <1>6, <2>1, <2>2 DEF IInv, SendingOK
  <1>13. SentOnce'
    BY <1>3, <1>5 DEF IInv, SentOnce
  <1>14. TextedBeforeUsed' /\ OpenedOK'
    BY <1>7, <1>8, ShownStep DEF IInv
  <1>15. NewestSessionOnly' /\ OnlyNewestCode'
    BY <1>8, SessionsStep, NewestStep DEF IInv
  <1>16. QED
    BY <1>8, <1>9, <1>10, <1>11, <1>12, <1>13, <1>14, <1>15 DEF IInv

----------------------------------------------------------------------------
(* Time, and codes that are entered.                                       *)

\* The parts of the invariant that are about codes, when no worker moves.
LEMMA CodesPart ==
    ASSUME IInv, \A k \in Keys : Kept(k),
           UNCHANGED <<spent, looking, made, job, sends, texted>>
    PROVE  /\ Fates /\ RowsOK' /\ RequestsOK' /\ HandsOK' /\ SendingOK'
           /\ SentOnce' /\ OnlyNewestCode'
  <1>1. Fates
    BY DEF Fates, Fate
  <1>2. RowsOK'
    BY <1>1, RowsStep DEF IInv
  <1>3. HandsOK'
    BY <1>1, HandStep DEF IInv, HandsOK
  <1>4. SendingOK'
    BY <1>1, SendingStep DEF IInv
  <1>5. SentOnce' /\ RequestsOK' /\ OnlyNewestCode'
    BY NewestStep DEF IInv, SentOnce, RequestsOK
  <1>6. QED
    BY <1>1, <1>2, <1>3, <1>4, <1>5

\* A row changes under nobody's hand.
LEMMA RowStep ==
    ASSUME IInv, UNCHANGED loginVars, UNCHANGED <<spent, looking, made, job, sends, texted>>,
           account' \in [Phones -> Accounts], faults' \in Nat,
           ch' \in [Keys -> Row], \A k \in Keys : Kept(k)
    PROVE  IInv' /\ Fates
  <1>1. LoginTypeOK'
    BY DEF IInv, LoginTypeOK, loginVars
  <1>2. RequestsOK'
    BY DEF IInv, RequestsOK
  <1>3. QED
    BY <1>1, <1>2, QuietStep

\* Leases run out and codes grow old.
LEMMA TimeStep ==
    ASSUME IInv, UNCHANGED loginVars, NEW k \in Keys,
           LeaseEnds(k) \/ LeaseLost(k) \/ Grow(k)
    PROVE  IInv' /\ Fates
  <1>1. ch \in [Keys -> Row] /\ ch[k] \in Row /\ account \in [Phones -> Accounts] /\ faults \in Nat
    BY DEF IInv, LoginTypeOK
  <1>2. UNCHANGED <<account, spent, looking, made, job, sends, texted>> /\ faults' \in Nat
    BY <1>1 DEF LeaseEnds, LeaseLost, TimeOut, NoSend, Grow, worker
  <1>3. PICK row \in {[ch[k] EXCEPT !.late = TRUE], [ch[k] EXCEPT !.age = ch[k].age + 1]} :
          /\ Change(k, row)
          /\ row = [ch[k] EXCEPT !.late = TRUE] \/ ch[k].age < 2
    BY DEF LeaseEnds, LeaseLost, TimeOut, Grow
  <1>4. row \in Row
    BY <1>1, <1>3, RowTypes
  <1>5. row.phone = ch[k].phone /\ row.kind = ch[k].kind /\ row.born = ch[k].born
        /\ row.st = ch[k].st
    BY <1>1, <1>3 DEF Row
  <1>6. ch' \in [Keys -> Row] /\ \A j \in Keys : Kept(j)
    BY <1>1, <1>3, <1>4, <1>5, ChangeRow
  <1>7. QED
    BY <1>1, <1>2, <1>6, RowStep

\* A code is expired, locked or consumed, or one more attempt is counted.
LEMMA EnterRows ==
    ASSUME IInv, NEW k \in Keys,
           EnterExpired(k) \/ EnterWrong(k) \/ EnterRight(k)
    PROVE  /\ ch' \in [Keys -> Row] /\ \A j \in Keys : Kept(j)
           /\ UNCHANGED <<spent, looking, made, job, texted, sends, faults>>
  <1>1. ch \in [Keys -> Row] /\ ch[k] \in Row
    BY DEF IInv, LoginTypeOK
  <1>2. UNCHANGED <<spent, looking, made, job, texted, sends, faults>>
    BY DEF EnterExpired, EnterWrong, EnterRight, Enter, worker
  <1>3. ASSUME NEW st \in {"expired", "locked", "consumed"},
               Change(k, [Ended(ch[k], st) EXCEPT !.started = FALSE]),
               ch[k].st \in Live, st # "expired" => ch[k].st = "delivered"
        PROVE  ch' \in [Keys -> Row] /\ \A j \in Keys : Kept(j)
    <2> DEFINE row == [Ended(ch[k], st) EXCEPT !.started = FALSE]
    <2>1. st \in Statuses
      BY DEF Statuses
    <2>2. row \in Row /\ Ended(ch[k], st) \in Row /\ Ended(ch[k], st).st = st
      BY <1>1, <2>1, RowTypes
    <2>3. row.st = st
      BY <2>2 DEF Row
    <2>4. row.phone = ch[k].phone /\ row.kind = ch[k].kind /\ row.born = ch[k].born
      BY <1>1 DEF Ended, Row
    <2>5. Moves(k, row.st)
      BY <1>3, <2>3 DEF Moves, Early, Live, Shown
    <2>6. QED
      BY <1>1, <1>3, <2>2, <2>4, <2>5, ChangeRow
  <1>4. ASSUME Change(k, [ch[k] EXCEPT !.tries = @ + 1]), ch[k].tries + 1 < MaxAttempts
        PROVE  ch' \in [Keys -> Row] /\ \A j \in Keys : Kept(j)
    <2> DEFINE row == [ch[k] EXCEPT !.tries = ch[k].tries + 1]
    <2>1. row \in Row
      BY <1>1, <1>4, RowTypes
    <2>2. row.phone = ch[k].phone /\ row.kind = ch[k].kind /\ row.born = ch[k].born
          /\ row.st = ch[k].st
      BY <1>1 DEF Row
    <2>3. QED
      BY <1>1, <1>4, <2>1, <2>2, ChangeRow
  <1>5. CASE EnterExpired(k)
    BY <1>2, <1>3, <1>5 DEF EnterExpired, Enter
  <1>6. CASE EnterRight(k)
    <2>1. ch[k].st = "delivered" /\ ch[k].st \in Live
      BY <1>6 DEF EnterRight, Live
    <2>2. QED
      BY <1>2, <1>3, <1>6, <2>1 DEF EnterRight, Enter
  <1>7. CASE EnterWrong(k)
    <2>1. ch[k].st = "delivered" /\ ch[k].st \in Live
      BY <1>7 DEF EnterWrong, Live
    <2>2. CASE ch[k].tries + 1 >= MaxAttempts
      BY <1>2, <1>3, <1>7, <2>1, <2>2 DEF EnterWrong, Enter
    <2>3. CASE ~(ch[k].tries + 1 >= MaxAttempts)
      <3>1. ch[k].tries + 1 < MaxAttempts
        BY <1>1, <2>3, OtpConstants DEF Row
      <3>2. Change(k, [ch[k] EXCEPT !.tries = @ + 1])
        BY <1>7, <2>3 DEF EnterWrong, Enter
      <3>3. QED
        BY <1>2, <1>4, <3>1, <3>2
    <2>4. QED
      BY <2>2, <2>3
  <1>8. QED
    BY <1>5, <1>6, <1>7

\* A wrong or a late code is entered.
LEMMA WrongStep ==
    ASSUME IInv, UNCHANGED loginVars, NEW k \in Keys, EnterExpired(k) \/ EnterWrong(k)
    PROVE  IInv' /\ Fates
  <1>1. /\ ch' \in [Keys -> Row] /\ \A j \in Keys : Kept(j)
        /\ UNCHANGED <<spent, looking, made, job, texted, sends, faults>>
    BY EnterRows
  <1>2. account' \in [Phones -> Accounts] /\ faults' \in Nat
    BY <1>1 DEF EnterExpired, EnterWrong, IInv, LoginTypeOK
  <1>3. QED
    BY <1>1, <1>2, RowStep

----------------------------------------------------------------------------
(* Requests.                                                               *)

\* A request that ends without a code, or has only read; and a disabled account.
LEMMA LookStep ==
    ASSUME IInv, UNCHANGED loginVars,
           \/ \E k \in Keys : Refuse(k) \/ \E p \in Phones : Look(k, p)
           \/ \E q \in looking : Abandon(q)
           \/ \E p \in Phones : Disable(p)
    PROVE  IInv' /\ Fates
  <1>1. LoginTypeOK
    BY DEF IInv
  <1>2. UNCHANGED <<ch, made, worker>> /\ spent \subseteq spent' /\ spent' \subseteq Keys
    BY <1>1 DEF Refuse, Look, Abandon, Disable, LoginTypeOK
  <1>3. looking' \subseteq [key : Keys, phone : Phones, seen : SUBSET Keys] /\ RequestsOK'
    <2>1. CASE \E k \in Keys : Refuse(k)
      BY <1>1, <2>1 DEF Refuse, Unused, Used, IInv, RequestsOK, LoginTypeOK
    <2>2. CASE \E k \in Keys, p \in Phones : Look(k, p)
      <3>1. PICK k \in Keys, p \in Phones : Look(k, p)
        BY <2>2
      <3>2. /\ looking' = looking \cup {[key |-> k, phone |-> p, seen |-> RowsOf(p)]}
            /\ spent' = spent /\ k \notin spent /\ \A q \in looking : q.key # k
        BY <3>1 DEF Look, Unused, Used
      <3>3. RowsOf(p) \in SUBSET Keys
        BY DEF RowsOf
      <3>4. QED
        BY <1>1, <3>2, <3>3 DEF IInv, RequestsOK, LoginTypeOK
    <2>3. CASE \E q \in looking : Abandon(q)
      BY <1>1, <2>3 DEF Abandon, IInv, RequestsOK, LoginTypeOK
    <2>4. CASE \E p \in Phones : Disable(p)
      BY <1>1, <2>4 DEF Disable, IInv, RequestsOK, LoginTypeOK
    <2>5. QED
      BY <2>1, <2>2, <2>3, <2>4
  <1>4. account' \in [Phones -> Accounts]
    BY <1>1 DEF Refuse, Look, Abandon, Disable, LoginTypeOK, Accounts
  <1>5. LoginTypeOK'
    BY <1>1, <1>2, <1>3, <1>4 DEF LoginTypeOK, worker, loginVars
  <1>6. \A k \in Keys : Kept(k)
    BY <1>2, KeptAll
  <1>7. QED
    BY <1>2, <1>3, <1>5, <1>6, QuietStep DEF worker

\* The rows of a request: one is made, and the live ones that were seen are replaced.
\* With an account everything there is was seen.
LEMMA AnswerRows ==
    ASSUME IInv, NEW k \in Keys, NEW p \in Phones, NEW seen \in SUBSET Keys,
           NEW acc \in Accounts, k \notin spent, Answer(k, p, seen, acc),
           acc = "none" \/ seen = RowsOf(p)
    PROVE  /\ ch' \in [Keys -> Row] /\ Fates /\ OnlyNewestCode'
           /\ made' \in {made, made + 1}
  <1>1. ch \in [Keys -> Row] /\ made \in Nat
    BY DEF IInv, LoginTypeOK
  <1>2. CASE UNCHANGED <<ch, made>>
    <2>1. ch' = ch /\ \A j \in Keys : Kept(j)
      BY <1>2, KeptAll
    <2>2. QED
      BY <1>1, <1>2, <2>1, NewestStep DEF IInv, Fates, Fate
  <1>3. CASE ~UNCHANGED <<ch, made>>
    <2>1. /\ made' = made + 1 /\ spent' = spent \cup {k}
          /\ ch' = [j \in Keys |->
                      IF j = k THEN Pending(p, acc)
                      ELSE IF Replaced(j, seen) THEN Superseded(ch[j])
                      ELSE ch[j]]
      BY <1>3 DEF Answer
    <2>2. ch[k].st = "none"
      BY DEF IInv, RowsOK
    <2>3. KindFor(acc) \in {"login", "register", "decoy"}
      BY DEF KindFor, Accounts
    <2>4. Pending(p, acc) \in Row
      <3>1. 0 \in 0..(MaxAttempts - 1) /\ made + 1 \in Nat
        BY <1>1, OtpConstants
      <3>2. QED
        BY <2>3, <3>1, OtpConstants DEF Pending, Row, Statuses
    <2>5. ASSUME NEW j \in Keys
          PROVE  /\ Superseded(ch[j]) \in Row /\ Superseded(ch[j]).st = "superseded"
                 /\ Superseded(ch[j]).phone = ch[j].phone
                 /\ Superseded(ch[j]).kind = ch[j].kind
                 /\ Superseded(ch[j]).born = ch[j].born
      <3>1. ch[j] \in Row /\ "superseded" \in Statuses
        BY <1>1 DEF Statuses
      <3>2. Superseded(ch[j]) \in Row /\ Ended(ch[j], "superseded") \in Row
            /\ Ended(ch[j], "superseded").st = "superseded"
        BY <3>1, RowTypes DEF Superseded
      <3>3. QED
        BY <3>1, <3>2 DEF Superseded, Ended, Row
    <2>6. ch' \in [Keys -> Row]
      BY <1>1, <2>1, <2>4, <2>5
    <2>7. ASSUME NEW j \in Keys, j # k
          PROVE  Kept(j) /\ (Replaced(j, seen) => ch'[j].st \notin Live)
      <3>1. CASE Replaced(j, seen)
        <4>1. ch'[j] = Superseded(ch[j])
          BY <2>1, <2>7, <3>1
        <4>2. Moves(j, "superseded")
          BY <3>1 DEF Replaced, Moves, Live, Early, Shown
        <4>3. QED
          BY <2>5, <4>1, <4>2 DEF Kept, Same, Live
      <3>2. CASE ~Replaced(j, seen)
        BY <2>1, <2>7, <3>2 DEF Kept, Same
      <3>3. QED
        BY <3>1, <3>2
    <2>8. /\ ch'[k].st = "pending_delivery" /\ ch'[k].phone = p
          /\ ch'[k].born = made + 1 /\ ch'[k].kind = KindFor(acc)
      BY <2>1 DEF Pending
    <2>9. Fates
      BY <2>1, <2>2, <2>7, <2>8 DEF Fates, Fate, Born
    <2>10. OnlyNewestCode'
      <3>1. SUFFICES ASSUME NEW i \in Keys, NEW j \in Keys,
                            ch'[i].kind = "login", ch'[i].st \in Live,
                            ch'[j].kind = "login", ch'[j].phone = ch'[i].phone
                     PROVE  ch'[j].born <= ch'[i].born
        BY DEF OnlyNewestCode
      <3>2. \A x \in Keys : ch[x].born \in Nat /\ ch[x].born <= made
        BY <1>1 DEF IInv, RowsOK, Row
      <3>3. \A x \in Keys \ {k} : Same(x) /\ (ch'[x].st \in Live => ch[x].st \in Live)
        BY <2>7 DEF Kept, Moves
      <3>4. CASE i = k
        <4>1. CASE j = k
          BY <1>1, <2>8, <3>4, <4>1
        <4>2. CASE j # k
          BY <1>1, <2>8, <3>2, <3>3, <3>4, <4>2 DEF Same
        <4>3. QED
          BY <4>1, <4>2
      <3>5. CASE i # k
        <4>1. Same(i) /\ ch[i].st \in Live /\ ch[i].kind = "login"
          BY <3>1, <3>3, <3>5 DEF Same
        <4>2. CASE j = k
          <5>1. acc = "active" /\ ch[i].phone = p
            BY <2>8, <3>1, <4>1, <4>2 DEF KindFor, Accounts, Same
          <5>2. i \in seen
            BY <4>1, <5>1 DEF RowsOf, Live
          <5>3. QED
            BY <2>7, <3>1, <3>5, <4>1, <5>2 DEF Replaced
        <4>3. CASE j # k
          <5>1. Same(j)
            BY <3>3, <4>3
          <5>2. QED
            BY <3>1, <4>1, <5>1 DEF IInv, OnlyNewestCode, Same
        <4>4. QED
          BY <4>2, <4>3
      <3>6. QED
        BY <3>4, <3>5
    <2>11. QED
      BY <2>1, <2>6, <2>9, <2>10
  <1>4. QED
    BY <1>2, <1>3

\* A request ends in an old code or a new one that replaces those it saw.
LEMMA AnswerStep ==
    ASSUME IInv, UNCHANGED loginVars, NEW k \in Keys, NEW p \in Phones,
           NEW seen \in SUBSET Keys, NEW acc \in Accounts, k \notin spent,
           Answer(k, p, seen, acc), acc = "none" \/ seen = RowsOf(p),
           looking' \subseteq looking, \A q \in looking' : q.key # k
    PROVE  IInv' /\ Fates
  <1>1. /\ ch' \in [Keys -> Row] /\ Fates /\ OnlyNewestCode'
        /\ made' \in {made, made + 1}
    BY AnswerRows
  <1>2. spent' = spent \cup {k} /\ UNCHANGED <<account, job, texted, sends, faults>>
    BY DEF Answer, worker
  <1>3. LoginTypeOK'
    BY <1>1, <1>2 DEF IInv, LoginTypeOK, loginVars
  <1>4. RowsOK' /\ RequestsOK' /\ SentOnce'
    <2>1. RowsOK'
      BY <1>1, <1>2, RowsStep DEF IInv
    <2>2. QED
      BY <1>2, <2>1 DEF IInv, RequestsOK, SentOnce
  <1>5. HandsOK' /\ SendingOK'
    BY <1>1, <1>2, HandStep, SendingStep DEF IInv, HandsOK
  <1>6. TextedBeforeUsed' /\ OpenedOK' /\ NewestSessionOnly'
    BY <1>1, <1>2, ShownStep, SessionsStep DEF IInv
  <1>7. QED
    BY <1>1, <1>3, <1>4, <1>5, <1>6 DEF IInv

\* The request of a phone with an account, and the second part of one without.
LEMMA RequestStep ==
    ASSUME IInv, UNCHANGED loginVars,
           \/ \E k \in Keys, p \in Phones : Request(k, p)
           \/ \E q \in looking : Place(q)
    PROVE  IInv' /\ Fates
  <1>1. CASE \E k \in Keys, p \in Phones : Request(k, p)
    <2>1. PICK k \in Keys, p \in Phones : Request(k, p)
      BY <1>1
    <2>2. /\ k \notin spent /\ \A q \in looking : q.key # k
          /\ Answer(k, p, RowsOf(p), account[p]) /\ looking' = looking
      BY <2>1 DEF Request, Unused, Used
    <2>3. account[p] \in Accounts /\ RowsOf(p) \in SUBSET Keys
      BY DEF IInv, LoginTypeOK, RowsOf
    <2>4. QED
      BY <2>2, <2>3, AnswerStep
  <1>2. CASE \E q \in looking : Place(q)
    <2>1. PICK q \in looking : Place(q)
      BY <1>2
    <2>2. q.key \in Keys /\ q.phone \in Phones /\ q.seen \in SUBSET Keys
      BY DEF IInv, LoginTypeOK
    <2>3. q.key \notin spent /\ \A r \in looking \ {q} : r.key # q.key
      BY DEF IInv, RequestsOK
    <2>4. Answer(q.key, q.phone, q.seen, "none") /\ looking' = looking \ {q}
      BY <2>1 DEF Place
    <2>5. "none" \in Accounts
      BY DEF Accounts
    <2>6. QED
      BY <2>2, <2>3, <2>4, <2>5, AnswerStep
  <1>3. QED
    BY <1>1, <1>2

----------------------------------------------------------------------------
(* Sessions.                                                               *)

\* A session that is opened, in a generation of its own, after those of the same
\* account were ended.
LEMMA OpenStep ==
    ASSUME IInv, Fates, \A j \in Keys : Kept(j), texted' = texted,
           NEW k \in Keys, NEW over \in SUBSET LiveSessions(Phone(k)),
           Phone(k) \in Phones, ch[k].st # "none", texted[k],
           OpenSession(k, Phone(k), over),
           \A j \in Keys : intent'[j] # "none" => intent[j] # "none" \/ j = k
    PROVE  TextedBeforeUsed' /\ OpenedOK' /\ NewestSessionOnly'
  <1> DEFINE p == Phone(k)
  <1>1. /\ session \in [Keys -> {"none", "live", "revoked"}] /\ issued \in [Keys -> Nat]
        /\ generation \in [Phones -> Nat]
    BY DEF IInv, LoginTypeOK
  <1>2. /\ LiveSessions(p) \subseteq over
        /\ session'[k] = "live" /\ issued'[k] = generation[p] + 1
        /\ generation'[p] = generation[p] + 1
        /\ \A j \in Keys \ {k} :
             /\ issued'[j] = issued[j]
             /\ session'[j] # "none" => session[j] # "none"
             /\ session'[j] = "live" => session[j] = "live" /\ j \notin over
        /\ \A x \in Phones \ {p} : generation'[x] = generation[x]
    <2>1. \A j \in over : session[j] = "live"
      BY DEF LiveSessions, SessionsOf
    <2>2. /\ LiveSessions(p) \subseteq over
          /\ session' = [j \in Keys |->
                           IF j = k THEN "live"
                           ELSE IF j \in over THEN "revoked" ELSE session[j]]
          /\ generation' = [generation EXCEPT ![p] = generation[p] + 1]
          /\ issued' = [issued EXCEPT ![k] = generation[p] + 1]
      BY DEF OpenSession
    <2>3. /\ session'[k] = "live"
          /\ \A j \in Keys \ {k} :
               /\ session'[j] # "none" => session[j] # "none"
               /\ session'[j] = "live" => session[j] = "live" /\ j \notin over
      BY <2>1, <2>2
    <2>4. QED
      BY <1>1, <2>2, <2>3
  <1>3. ASSUME NEW j \in Keys, session[j] # "none" \/ j = k \/ intent[j] # "none"
        PROVE  /\ Phone(j)' = Phone(j) /\ ch[j].st # "none" /\ ch'[j].st # "none"
               /\ texted'[j] /\ Phone(j) \in Phones
    BY <1>3, FateStates DEF Fates, IInv, OpenedOK, RowsOK, Phone, Same
  <1>4. ASSUME NEW j \in Keys, session[j] # "none"
        PROVE  issued[j] \in Nat /\ generation[Phone(j)] \in Nat
               /\ issued[j] <= generation[Phone(j)]
    BY <1>1, <1>3, <1>4 DEF IInv, OpenedOK
  <1>5. generation[p] \in Nat
    BY <1>1
  <1>6. TextedBeforeUsed'
    <2>1. SUFFICES ASSUME NEW j \in Keys, ch'[j].kind # "decoy",
                          ch'[j].st \in Shown \/ session'[j] # "none"
                   PROVE  texted'[j]
      BY DEF TextedBeforeUsed, Shown
    <2>2. CASE session'[j] # "none"
      BY <1>2, <1>3, <2>2
    <2>3. CASE ch'[j].st \in Shown
      BY <2>1, <2>3, FateStates DEF Fates, Same, IInv, TextedBeforeUsed, Shown
    <2>4. QED
      BY <2>1, <2>2, <2>3
  <1>7. OpenedOK'
    <2>1. SUFFICES ASSUME NEW j \in Keys
                   PROVE  /\ intent'[j] # "none" \/ session'[j] # "none" =>
                               ch'[j].st # "none" /\ texted'[j]
                          /\ session'[j] # "none" => issued'[j] <= generation'[Phone(j)']
      BY DEF OpenedOK
    <2>2. intent'[j] # "none" \/ session'[j] # "none" => ch'[j].st # "none" /\ texted'[j]
      BY <1>2, <1>3
    <2>3. CASE j = k
      BY <1>2, <1>3, <1>5, <2>2, <2>3
    <2>4. CASE j # k /\ session'[j] # "none"
      <3>1. session[j] # "none" /\ issued'[j] = issued[j]
        BY <1>2, <2>4
      <3>2. generation'[Phone(j)] \in {generation[Phone(j)], generation[Phone(j)] + 1}
        BY <1>2, <1>3, <3>1
      <3>3. issued'[j] <= generation'[Phone(j)]
        BY <1>4, <3>1, <3>2
      <3>4. QED
        BY <1>3, <2>2, <3>1, <3>3
    <2>5. QED
      BY <2>2, <2>3, <2>4
  <1>8. NewestSessionOnly'
    <2>1. SUFFICES ASSUME NEW j \in Keys, session'[j] = "live"
                   PROVE  /\ issued'[j] = generation'[Phone(j)']
                          /\ \A i \in SessionsOf(Phone(j))' : i # j => issued'[i] < issued'[j]
      BY DEF NewestSessionOnly
    <2>2. ASSUME NEW i \in SessionsOf(Phone(j))', i # k
          PROVE  i \in SessionsOf(Phone(j)) /\ issued'[i] = issued[i]
      <3>1. i \in Keys /\ session'[i] # "none" /\ Phone(i)' = Phone(j)'
        BY DEF SessionsOf
      <3>2. session[i] # "none"
        BY <1>2, <2>2, <3>1
      <3>3. Phone(j)' = Phone(j)
        BY <1>2, <1>3, <2>1
      <3>4. Phone(i) = Phone(j)
        BY <1>3, <3>1, <3>2, <3>3
      <3>5. QED
        BY <1>2, <2>2, <3>1, <3>2, <3>4 DEF SessionsOf
    <2>3. CASE j = k
      <3>1. \A i \in SessionsOf(p) : issued[i] \in Nat /\ issued[i] <= generation[p]
        BY <1>4 DEF SessionsOf
      <3>2. ASSUME NEW i \in SessionsOf(Phone(j))', i # j
            PROVE  issued'[i] < issued'[j]
        BY <1>2, <1>5, <2>2, <2>3, <3>1, <3>2
      <3>3. QED
        BY <1>2, <1>3, <2>3, <3>2
    <2>4. CASE j # k
      <3>1. session[j] = "live" /\ j \notin over /\ issued'[j] = issued[j]
        BY <1>2, <2>1, <2>4
      <3>2. Phone(j) # p
        BY <1>2, <3>1 DEF LiveSessions, SessionsOf
      <3>3. Phone(j)' = Phone(j) /\ Phone(j) \in Phones /\ Phone(k)' = p
        BY <1>3, <3>1
      <3>4. k \notin SessionsOf(Phone(j))'
        BY <3>2, <3>3 DEF SessionsOf
      <3>5. issued[j] = generation[Phone(j)]
            /\ \A i \in SessionsOf(Phone(j)) : i # j => issued[i] < issued[j]
        BY <3>1 DEF IInv, NewestSessionOnly
      <3>6. \A i \in SessionsOf(Phone(j))' : i # j => issued'[i] < issued'[j]
        BY <2>2, <3>1, <3>4, <3>5
      <3>7. QED
        BY <1>2, <3>1, <3>2, <3>3, <3>5, <3>6
    <2>5. QED
      BY <2>3, <2>4
  <1>9. QED
    BY <1>6, <1>7, <1>8

\* A session that is opened has the types.
LEMMA SessionTypes ==
    ASSUME LoginTypeOK, NEW k \in Keys, NEW p \in Phones, NEW over \in SUBSET Keys,
           OpenSession(k, p, over)
    PROVE  /\ session' \in [Keys -> {"none", "live", "revoked"}]
           /\ issued' \in [Keys -> Nat] /\ generation' \in [Phones -> Nat]
  <1>1. generation[p] + 1 \in Nat
    BY DEF LoginTypeOK
  <1>2. QED
    BY <1>1 DEF LoginTypeOK, OpenSession

\* A right code of an account: the other sessions of it end.
LEMMA LogInStep ==
    ASSUME IInv, NEW k \in Keys, LogIn(k)
    PROVE  IInv' /\ Fates
  <1> DEFINE over == LiveSessions(Phone(k))
  <1>1. EnterRight(k) /\ OpenSession(k, Phone(k), over) /\ UNCHANGED <<account, intent, signed>>
    BY DEF LogIn
  <1>2. /\ ch' \in [Keys -> Row] /\ \A j \in Keys : Kept(j)
        /\ UNCHANGED <<spent, looking, made, job, texted, sends, faults>>
    BY <1>1, EnterRows
  <1>3. /\ Fates /\ RowsOK' /\ RequestsOK' /\ HandsOK' /\ SendingOK'
        /\ SentOnce' /\ OnlyNewestCode'
    BY <1>2, CodesPart
  <1>4. ch[k].st = "delivered" /\ ch[k].kind # "decoy"
    BY <1>1 DEF EnterRight
  <1>5. ch[k].st # "none" /\ texted[k] /\ Phone(k) \in Phones
    BY <1>4 DEF IInv, TextedBeforeUsed, RowsOK, Phone
  <1>6. over \in SUBSET LiveSessions(Phone(k)) /\ over \in SUBSET Keys
    BY DEF LiveSessions, SessionsOf
  <1>7. TextedBeforeUsed' /\ OpenedOK' /\ NewestSessionOnly'
    BY <1>1, <1>2, <1>3, <1>5, <1>6, OpenStep
  <1>8. LoginTypeOK'
    BY <1>1, <1>2, <1>5, <1>6, SessionTypes DEF IInv, LoginTypeOK
  <1>9. QED
    BY <1>3, <1>7, <1>8 DEF IInv

\* A right code of a phone without account.
LEMMA OpenIntentStep ==
    ASSUME IInv, NEW k \in Keys, OpenIntent(k)
    PROVE  IInv' /\ Fates
  <1>1. EnterRight(k) /\ UNCHANGED <<account, session, issued, generation, signed>>
    BY DEF OpenIntent
  <1>2. /\ ch' \in [Keys -> Row] /\ \A j \in Keys : Kept(j)
        /\ UNCHANGED <<spent, looking, made, job, texted, sends, faults>>
    BY <1>1, EnterRows
  <1>3. /\ Fates /\ RowsOK' /\ RequestsOK' /\ HandsOK' /\ SendingOK'
        /\ SentOnce' /\ OnlyNewestCode'
    BY <1>2, CodesPart
  <1>4. ch[k].st # "none" /\ texted[k]
    BY <1>1 DEF EnterRight, IInv, TextedBeforeUsed
  <1>5. /\ intent' \in [Keys -> {"none", "open", "used"}]
        /\ \A j \in Keys : intent'[j] # "none" => intent[j] # "none" \/ j = k
    BY DEF OpenIntent, IInv, LoginTypeOK
  <1>6. LoginTypeOK'
    BY <1>1, <1>2, <1>5 DEF IInv, LoginTypeOK
  <1>7. \A j \in Keys : session[j] # "none" => Phone(j)' = Phone(j)
    BY <1>3, FateStates DEF Fates, IInv, OpenedOK, Phone, Same
  <1>8. OpenedOK'
    <2>1. \A j \in Keys : intent'[j] # "none" \/ session'[j] # "none" =>
            ch'[j].st # "none" /\ texted'[j]
      BY <1>1, <1>2, <1>3, <1>4, <1>5, FateStates DEF Fates, IInv, OpenedOK
    <2>2. \A j \in Keys : session'[j] # "none" => issued'[j] <= generation'[Phone(j)']
      BY <1>1, <1>7 DEF IInv, OpenedOK
    <2>3. QED
      BY <2>1, <2>2 DEF OpenedOK
  <1>9. TextedBeforeUsed'
    <2>1. \A j \in Keys : ch'[j].kind # "decoy" /\ ch'[j].st \in Shown => texted'[j]
      BY <1>2, <1>3, FateStates DEF Fates, Same, IInv, TextedBeforeUsed, Shown
    <2>2. QED
      BY <1>8, <2>1 DEF OpenedOK, TextedBeforeUsed, Shown
  <1>10. NewestSessionOnly'
    <2>1. ASSUME NEW j \in Keys, session[j] = "live"
          PROVE  Phone(j)' = Phone(j) /\ SessionsOf(Phone(j))' = SessionsOf(Phone(j))
      BY <1>1, <1>7, <2>1 DEF SessionsOf
    <2>2. QED
      BY <1>1, <2>1 DEF IInv, NewestSessionOnly
  <1>11. QED
    BY <1>3, <1>6, <1>8, <1>9, <1>10 DEF IInv

\* The profile form makes an account and its first session, or a later one.
LEMMA CompleteStep ==
    ASSUME IInv, NEW k \in Keys, Complete(k) \/ CompleteAgain(k)
    PROVE  IInv' /\ Fates
  <1>1. /\ intent[k] = "open" /\ OpenSession(k, Phone(k), {})
        /\ intent' = [intent EXCEPT ![k] = "used"]
        /\ UNCHANGED <<spent, looking, ch, made, worker>>
    BY DEF Complete, CompleteAgain, SignUp, otpVars
  <1>2. ch[k].st # "none" /\ texted[k] /\ Phone(k) \in Phones
    BY <1>1 DEF IInv, OpenedOK, RowsOK, Phone
  <1>3. UNCHANGED <<job, texted, sends, faults>> /\ \A j \in Keys : Kept(j)
    BY <1>1, KeptAll DEF worker
  <1>4. /\ Fates /\ RowsOK' /\ RequestsOK' /\ HandsOK' /\ SendingOK'
        /\ SentOnce' /\ OnlyNewestCode'
    BY <1>1, <1>3, CodesPart
  <1>5. {} \in SUBSET LiveSessions(Phone(k)) /\ {} \in SUBSET Keys
    OBVIOUS
  <1>6. intent \in [Keys -> {"none", "open", "used"}]
    BY DEF IInv, LoginTypeOK
  <1>7. /\ \A j \in Keys : intent'[j] # "none" => intent[j] # "none" \/ j = k
        /\ intent' \in [Keys -> {"none", "open", "used"}]
    BY <1>1, <1>6
  <1>8. TextedBeforeUsed' /\ OpenedOK' /\ NewestSessionOnly'
    BY <1>1, <1>2, <1>3, <1>4, <1>5, <1>7, OpenStep
  <1>9. account' \in [Phones -> Accounts] /\ signed' \in [Phones -> Keys \cup {Nobody}]
    BY DEF Complete, CompleteAgain, SignUp, otpVars, IInv, LoginTypeOK, Accounts
  <1>10. LoginTypeOK'
    BY <1>1, <1>2, <1>3, <1>5, <1>7, <1>9, SessionTypes DEF IInv, LoginTypeOK
  <1>11. QED
    BY <1>4, <1>8, <1>10 DEF IInv

\* Sessions are revoked, one or all.
LEMMA LogOutStep ==
    ASSUME IInv, NEW k \in Keys, LogOut(k) \/ RevokeAll(k)
    PROVE  IInv' /\ Fates
  <1>1. UNCHANGED <<otpVars, issued, intent, signed>> /\ session[k] = "live"
    BY DEF LogOut, RevokeAll
  <1>2. UNCHANGED <<account, spent, looking, ch, made, job, texted, sends, faults>>
    BY <1>1 DEF otpVars, worker
  <1>3. \A j \in Keys : Kept(j)
    BY <1>2, KeptAll
  <1>4. /\ Fates /\ RowsOK' /\ RequestsOK' /\ HandsOK' /\ SendingOK'
        /\ SentOnce' /\ OnlyNewestCode'
    BY <1>2, <1>3, CodesPart
  <1>5. /\ session \in [Keys -> {"none", "live", "revoked"}]
        /\ generation \in [Phones -> Nat] /\ issued \in [Keys -> Nat]
    BY DEF IInv, LoginTypeOK
  <1>6. \A j \in Keys : session[j] # "none" =>
          /\ ch[j].st # "none" /\ texted[j] /\ Phone(j) \in Phones
          /\ issued[j] <= generation[Phone(j)] /\ Phone(j)' = Phone(j)
    BY <1>2 DEF IInv, OpenedOK, RowsOK, Phone
  <1>7. /\ session' \in [Keys -> {"none", "live", "revoked"}]
        /\ \A j \in Keys : session'[j] # "none" <=> session[j] # "none"
        /\ \A j \in Keys : session'[j] = "live" => session[j] = "live"
    BY <1>1, <1>5 DEF LogOut, RevokeAll, LiveSessions, SessionsOf
  <1>8. /\ generation' \in [Phones -> Nat]
        /\ \A x \in Phones : generation'[x] \in {generation[x], generation[x] + 1}
        /\ \A j \in Keys : session'[j] = "live" =>
             generation'[Phone(j)] = generation[Phone(j)]
    <2>1. CASE LogOut(k)
      BY <1>5, <2>1 DEF LogOut
    <2>2. CASE RevokeAll(k)
      <3>1. Phone(k) \in Phones /\ generation' = [generation EXCEPT ![Phone(k)] = @ + 1]
        BY <1>1, <1>6, <2>2 DEF RevokeAll
      <3>2. \A j \in Keys : session'[j] = "live" => Phone(j) # Phone(k)
        BY <1>5, <2>2 DEF RevokeAll, LiveSessions, SessionsOf
      <3>3. QED
        BY <1>5, <3>1, <3>2
    <2>3. QED
      BY <2>1, <2>2
  <1>9. LoginTypeOK'
    BY <1>1, <1>2, <1>7, <1>8 DEF IInv, LoginTypeOK
  <1>10. TextedBeforeUsed'
    BY <1>2, <1>7 DEF IInv, TextedBeforeUsed
  <1>11. OpenedOK'
    <2>1. ASSUME NEW j \in Keys, session[j] # "none"
          PROVE  issued'[j] <= generation'[Phone(j)']
      BY <1>1, <1>5, <1>6, <1>8, <2>1
    <2>2. QED
      BY <1>1, <1>2, <1>7, <2>1 DEF IInv, OpenedOK
  <1>12. NewestSessionOnly'
    <2>1. ASSUME NEW j \in Keys, session'[j] = "live"
          PROVE  /\ session[j] = "live" /\ Phone(j)' = Phone(j)
                 /\ SessionsOf(Phone(j))' = SessionsOf(Phone(j))
                 /\ generation'[Phone(j)] = generation[Phone(j)]
      <3>1. session[j] = "live" /\ Phone(j)' = Phone(j)
        BY <1>6, <1>7, <2>1
      <3>2. SessionsOf(Phone(j))' = SessionsOf(Phone(j))
        BY <1>2, <1>7, <3>1 DEF SessionsOf, Phone
      <3>3. QED
        BY <1>8, <2>1, <3>1, <3>2
    <2>2. QED
      BY <1>1, <2>1 DEF IInv, NewestSessionOnly
  <1>13. QED
    BY <1>4, <1>9, <1>10, <1>11, <1>12 DEF IInv

----------------------------------------------------------------------------
(* Every step, and the theorems.                                           *)

\* Every step of a worker.
LEMMA WorkStep ==
    ASSUME IInv, UNCHANGED loginVars, NEW w \in Workers, Work(w) \/ Crash(w)
    PROVE  IInv' /\ Fates
  BY ClaimStep, LoadStep, PrepareStep, MarkStep, SendStep, SettleStep, GiveUpStep, ListStep
     DEF Work

\* Every step of the system.
LEMMA NextStep ==
    ASSUME IInv, LoginNext
    PROVE  IInv' /\ Fates
  <1>1. CASE Codes /\ UNCHANGED loginVars
    <2>1. CASE \E k \in Keys : LeaseEnds(k) \/ LeaseLost(k) \/ Grow(k)
      BY <1>1, <2>1, TimeStep
    <2>2. CASE \E k \in Keys : EnterExpired(k) \/ EnterWrong(k)
      BY <1>1, <2>2, WrongStep
    <2>3. CASE \/ \E k \in Keys : Refuse(k) \/ \E p \in Phones : Look(k, p)
               \/ \E q \in looking : Abandon(q)
               \/ \E p \in Phones : Disable(p)
      BY <1>1, <2>3, LookStep
    <2>4. CASE \/ \E k \in Keys, p \in Phones : Request(k, p)
               \/ \E q \in looking : Place(q)
      BY <1>1, <2>4, RequestStep
    <2>5. CASE \E w \in Workers : Work(w) \/ Crash(w)
      BY <1>1, <2>5, WorkStep
    <2>6. QED
      BY <1>1, <2>1, <2>2, <2>3, <2>4, <2>5 DEF Codes, ChallengeCall
  <1>2. CASE \E k \in Keys : \/ LogIn(k) \/ OpenIntent(k) \/ Complete(k)
                             \/ CompleteAgain(k) \/ LogOut(k) \/ RevokeAll(k)
    BY <1>2, LogInStep, OpenIntentStep, CompleteStep, LogOutStep
  <1>3. QED
    BY <1>1, <1>2 DEF LoginNext, CreateSession, CompleteProfile, EndSession

\* A step in which nothing happens.
LEMMA IdleStep ==
    ASSUME IInv, UNCHANGED allVars
    PROVE  IInv'
  BY DEF IInv, allVars, otpVars, loginVars, worker, LoginTypeOK, RowsOK, RequestsOK,
         HandsOK, HandOK, SendingOK, OpenedOK, SentOnce, OnlyNewestCode,
         TextedBeforeUsed, NewestSessionOnly, SessionsOf, Phone

\* Nothing has been requested at first.
LEMMA InitInv == LoginInit => IInv
  <1> SUFFICES ASSUME LoginInit
               PROVE  IInv
    OBVIOUS
  <1> USE DEF LoginInit, OtpInit
  <1>1. Blank \in Row /\ Blank.st = "none" /\ Blank.born = 0
    <2>1. 0 \in 0..(MaxAttempts - 1)
      BY OtpConstants
    <2>2. QED
      BY <2>1 DEF Blank, Row, Statuses
  <1>2. Idle \in Job /\ Idle.at = "poll" /\ Idle.todo = {} /\ Idle.accepted = FALSE
    BY DEF Idle, Job, Steps
  <1>3. account \in [Phones -> Accounts]
    BY OtpConstants DEF Accounts
  <1>4. LoginTypeOK
    BY <1>1, <1>2, <1>3 DEF LoginTypeOK
  <1>5. RowsOK /\ RequestsOK /\ HandsOK /\ SendingOK /\ OpenedOK
    BY <1>1, <1>2 DEF RowsOK, RequestsOK, HandsOK, HandOK, SendingOK, OpenedOK
  <1>6. SentOnce /\ OnlyNewestCode /\ TextedBeforeUsed /\ NewestSessionOnly
    BY <1>1 DEF SentOnce, OnlyNewestCode, TextedBeforeUsed, NewestSessionOnly, Live
  <1>7. QED
    BY <1>4, <1>5, <1>6 DEF IInv

\* The inductive invariant holds in every state.
THEOREM LoginInvariant == LoginSpec => []IInv
  <1>1. IInv /\ [LoginNext]_allVars => IInv'
    BY NextStep, IdleStep
  <1>2. QED
    BY <1>1, InitInv, PTL DEF LoginSpec

\* Every variable has its type: rows, jobs of workers, sessions and intents.
THEOREM LoginTypeCorrect == LoginSpec => []LoginTypeOK
  <1>1. IInv => LoginTypeOK
    BY DEF IInv
  <1>2. QED
    BY <1>1, LoginInvariant, PTL

\* However many workers run, die or lose their leases while they send, the provider is
\* called at most once for a code.
THEOREM CodeSentOnce == LoginSpec => []SentOnce
  <1>1. IInv => SentOnce
    BY DEF IInv
  <1>2. QED
    BY <1>1, LoginInvariant, PTL

\* A live log-in code is the newest of its account, whatever requests run at once.
THEOREM NewestCodeOnly == LoginSpec => []OnlyNewestCode
  <1>1. IInv => OnlyNewestCode
    BY DEF IInv
  <1>2. QED
    BY <1>1, LoginInvariant, PTL

\* What can be entered, and what a session came from, had reached the phone.
THEOREM CodesReachPhones == LoginSpec => []TextedBeforeUsed
  <1>1. IInv => TextedBeforeUsed
    BY DEF IInv
  <1>2. QED
    BY <1>1, LoginInvariant, PTL

\* One session of an account is valid: the newest, of the current generation.
THEOREM OneSession == LoginSpec => []NewestSessionOnly
  <1>1. IInv => NewestSessionOnly
    BY DEF IInv
  <1>2. QED
    BY <1>1, LoginInvariant, PTL

\* A code that ended never becomes live again, whoever still has it in hand.
THEOREM CodesStayDead == LoginSpec => DeadStaysDead
  <1> DEFINE A == \A k \in Keys : ch[k].st \notin Live \cup {"none"} => ch'[k].st \notin Live
  <1>1. IInv /\ LoginNext => A
    BY NextStep, FateStates DEF Fates
  <1>2. UNCHANGED allVars => A
    BY DEF allVars, otpVars
  <1>3. IInv /\ [LoginNext]_allVars => [A]_allVars
    BY <1>1, <1>2
  <1>4. QED
    BY <1>3, LoginInvariant, PTL DEF LoginSpec, DeadStaysDead

----------------------------------------------------------------------------
(* The contract of one-time codes.                                         *)

\* What the invariant leaves open: only what was given to the provider was accepted, and
\* a decoy is never marked or given to it.
Called ==
    /\ \A k \in Keys : texted[k] => sends[k] # 0
    /\ \A k \in Keys : ch[k].st = "dispatching" => ch[k].kind # "decoy"
    /\ \A w \in Workers : job[w].at = "send" => ch[job[w].key].kind # "decoy"

\* A step that gives nothing to the provider: whoever is about to do so was before, or
\* has just marked a code that is no decoy.
Hush ==
    /\ UNCHANGED <<sends, texted>>
    /\ \A w \in Workers : job'[w].at = "send" =>
         job'[w] = job[w] \/ (job'[w].key = job[w].key /\ ch[job[w].key].kind # "decoy"
                              /\ ch[job[w].key].st # "none" /\ job[w].key \in Keys)

\* A worker that takes the next code in hand is not about to send it.
LEMMA TakesElsewhere ==
    ASSUME job \in [Workers -> Job], NEW w \in Workers, NEW duty, NEW S, TakeNext(w, duty, S)
    PROVE  \A v \in Workers : job'[v] = job[v] \/ job'[v].at # "send"
  <1>1. Idle.at # "send"
    BY DEF Idle
  <1>2. CASE job' = [job EXCEPT ![w] = Idle]
    BY <1>1, <1>2
  <1>3. CASE \E k \in S : job' = [job EXCEPT ![w] =
                 [at |-> IF duty = "batch" THEN "load" ELSE "query", duty |-> duty,
                  todo |-> S \ {k}, key |-> k, accepted |-> FALSE]]
    <2>1. PICK k \in S : job' = [job EXCEPT ![w] =
                 [at |-> IF duty = "batch" THEN "load" ELSE "query", duty |-> duty,
                  todo |-> S \ {k}, key |-> k, accepted |-> FALSE]]
      BY <1>3
    <2>2. job'[w].at # "send" /\ \A v \in Workers \ {w} : job'[v] = job[v]
      BY <2>1
    <2>3. QED
      BY <2>2
  <1>4. QED
    BY <1>2, <1>3 DEF TakeNext

\* Nobody but a worker that calls the provider gives it a code.
LEMMA HushWork ==
    ASSUME IInv, NEW w \in Workers, Work(w) \/ Crash(w), ~Send(w)
    PROVE  Hush
  <1>1. job \in [Workers -> Job]
    BY DEF IInv, LoginTypeOK
  <1>2. ASSUME NEW duty, NEW S, TakeNext(w, duty, S), NoSend PROVE Hush
    BY <1>1, <1>2, TakesElsewhere DEF Hush, NoSend
  <1>3. ASSUME NEW at, at # "send", job[w] \in Job, NoSend,
               \/ job' = [job EXCEPT ![w].at = at]
               \/ \E ok \in BOOLEAN : job' = [job EXCEPT ![w].at = at, ![w].accepted = ok]
        PROVE  Hush
    <2>1. job'[w].at = at /\ \A v \in Workers \ {w} : job'[v] = job[v]
      BY <1>1, <1>3 DEF Job
    <2>2. QED
      BY <1>3, <2>1 DEF Hush, NoSend
  <1>4. job[w] \in Job
    BY <1>1
  <1>5. CASE Claim(w) \/ List(w)
    BY <1>2, <1>5 DEF Claim, List
  <1>6. CASE Done(w) /\ NoSend
    BY <1>2, <1>6 DEF Done
  <1>7. CASE PrepareDecoy(w) \/ PrepareFail(w) \/ Unconfigured(w) \/ Settle(w) \/ Void(w)
    BY <1>6, <1>7 DEF PrepareDecoy, PrepareFail, Unconfigured, Settle, Void
  <1>8. CASE Load(w)
    <2>1. NoSend /\ \E at \in {"query", "prepare"} : job' = [job EXCEPT ![w].at = at]
      BY <1>8 DEF Load, Step
    <2>2. QED
      BY <1>3, <1>4, <2>1
  <1>9. CASE Query(w)
    <2>1. NoSend /\ \E at \in {"settle", "void"}, ok \in BOOLEAN :
                      job' = [job EXCEPT ![w].at = at, ![w].accepted = ok]
      BY <1>9 DEF Query
    <2>2. QED
      BY <1>3, <1>4, <2>1
  <1>10. CASE job' = [job EXCEPT ![w] = Idle] /\ NoSend
    <2>1. job'[w].at # "send" /\ \A v \in Workers \ {w} : job'[v] = job[v]
      BY <1>1, <1>10 DEF Idle
    <2>2. QED
      BY <1>10, <2>1 DEF Hush, NoSend
  <1>11. CASE SettleRefused(w) \/ Crash(w)
    BY <1>6, <1>10, <1>11 DEF SettleRefused, Crash
  <1>12. CASE PrepareMark(w)
    <2>1. NoSend /\ ch[job[w].key].kind # "decoy" /\ At(w, "prepare")
      BY <1>12 DEF PrepareMark
    <2>2. job[w].key \in Keys /\ ch[job[w].key].st # "none"
      BY <2>1, InHandRow DEF At
    <2>3. CASE Step(w, "send")
      <3>1. job'[w].key = job[w].key
        BY <1>1, <1>4, <2>3 DEF Step, Job
      <3>2. \A v \in Workers \ {w} : job'[v] = job[v]
        BY <1>1, <2>3 DEF Step
      <3>3. QED
        BY <2>1, <2>2, <3>1, <3>2 DEF Hush, NoSend
    <2>4. QED
      BY <1>6, <1>12, <2>1, <2>3 DEF PrepareMark
  <1>13. QED
    BY <1>5, <1>7, <1>8, <1>9, <1>11, <1>12 DEF Work

\* So it is with every step.
LEMMA HushOrSend ==
    ASSUME IInv, LoginNext
    PROVE  Hush \/ \E w \in Workers : Send(w) /\ UNCHANGED loginVars
  <1>1. CASE UNCHANGED <<job, sends, texted>>
    BY <1>1 DEF Hush
  <1>2. CASE Codes /\ UNCHANGED loginVars
    <2>1. ChallengeCall => UNCHANGED <<job, sends, texted>>
      BY DEF ChallengeCall, Refuse, Request, Answer, Look, Place, Abandon, worker
    <2>2. ASSUME NEW k \in Keys,
                 LeaseEnds(k) \/ LeaseLost(k) \/ Grow(k) \/ EnterExpired(k) \/ EnterWrong(k)
          PROVE  UNCHANGED <<job, sends, texted>>
      BY <2>2
      DEF LeaseEnds, LeaseLost, TimeOut, Grow, EnterExpired, EnterWrong, Enter, worker, NoSend
    <2>3. ASSUME NEW p \in Phones, Disable(p) PROVE UNCHANGED <<job, sends, texted>>
      BY <2>3 DEF Disable, worker
    <2>4. QED
      BY <1>1, <1>2, <2>1, <2>2, <2>3, HushWork DEF Codes
  <1>3. ASSUME NEW k \in Keys, CreateSession(k) \/ CompleteProfile(k) \/ EndSession(k)
        PROVE  UNCHANGED <<job, sends, texted>>
    BY <1>3
    DEF CreateSession, LogIn, OpenIntent, EnterRight, Enter, CompleteProfile, Complete,
        CompleteAgain, SignUp, EndSession, LogOut, RevokeAll, otpVars, worker
  <1>4. QED
    BY <1>1, <1>2, <1>3 DEF LoginNext

\* Nothing has been given to the provider at first, and then only by Send.
LEMMA NextCalled ==
    ASSUME IInv, Called, [LoginNext]_allVars
    PROVE  Called'
  <1>1. CASE UNCHANGED allVars
    BY <1>1 DEF Called, allVars, otpVars, worker
  <1>2. CASE LoginNext /\ Hush
    <2>1. Fates
      BY <1>2, NextStep
    <2>2. UNCHANGED <<sends, texted>>
      BY <1>2 DEF Hush
    <2>3. ASSUME NEW k \in Keys, ch'[k].st = "dispatching" PROVE ch'[k].kind # "decoy"
      <3>1. Kept(k)
        BY <2>1, <2>3 DEF Fates, Fate, Born
      <3>2. QED
        BY <2>3, <3>1 DEF Kept, Same, Moves, Called
    <2>4. ASSUME NEW w \in Workers, job'[w].at = "send" PROVE ch'[job'[w].key].kind # "decoy"
      <3>1. /\ job'[w].key = job[w].key /\ job[w].key \in Keys
            /\ ch[job[w].key].kind # "decoy" /\ ch[job[w].key].st # "none"
        BY <1>2, <2>4 DEF Hush, Called, IInv, HandsOK, HandOK
      <3>2. Same(job[w].key)
        BY <2>1, <3>1, FateStates DEF Fates
      <3>3. QED
        BY <3>1, <3>2 DEF Same
    <2>5. QED
      BY <2>2, <2>3, <2>4 DEF Called
  <1>3. ASSUME NEW w \in Workers, Send(w) PROVE Called'
    <2> DEFINE k == job[w].key
    <2>1. /\ job \in [Workers -> Job] /\ sends \in [Keys -> Nat] /\ texted \in [Keys -> BOOLEAN]
      BY DEF IInv, LoginTypeOK
    <2>2. ch' = ch /\ k \in Keys
      BY <1>3 DEF Send, At, IInv, HandsOK, HandOK
    <2>3. sends' = [sends EXCEPT ![k] = sends[k] + 1]
      BY <1>3 DEF Send
    <2>4. PICK ok \in BOOLEAN, heard \in BOOLEAN :
            /\ texted' = [texted EXCEPT ![k] = texted[k] \/ ok]
            /\ job' = [job EXCEPT ![w].at = "settle", ![w].accepted = ok /\ heard]
      BY <1>3 DEF Send
    <2>5. \A j \in Keys : texted'[j] => sends'[j] # 0
      <3>1. sends'[k] # 0
        BY <2>1, <2>2, <2>3
      <3>2. \A j \in Keys \ {k} : sends'[j] = sends[j] /\ texted'[j] = texted[j]
        BY <2>1, <2>3, <2>4
      <3>3. QED
        BY <3>1, <3>2 DEF Called
    <2>6. job'[w].at = "settle" /\ \A v \in Workers \ {w} : job'[v] = job[v]
      <3>1. job[w] \in Job
        BY <2>1
      <3> HIDE DEF k
      <3>2. QED
        BY <2>1, <2>4, <3>1 DEF Job
    <2>7. QED
      BY <2>2, <2>5, <2>6 DEF Called
  <1>4. QED
    BY <1>1, <1>2, <1>3, HushOrSend

\* A code that is not given to the provider and lets nobody in keeps its contract.
LEMMA QuietCode ==
    ASSUME IInv, IInv', Called, NEW k \in Keys, Fate(k),
           sends'[k] = sends[k], texted'[k] = texted[k], Opened(k)' = Opened(k)
    PROVE  [CodeOf(k)!KNext]_(CodeOf(k)!kvars)
  <1>1. ch[k].st \in Statuses /\ ch'[k].st \in Statuses
    BY DEF IInv, LoginTypeOK, Row
  <1>2. CASE Born(k)
    <2>1. Life(k) = "none" /\ Life(k)' = "waiting"
      BY <1>2 DEF Born, Life
    <2>2. CodeOf(k)!Make
      BY <2>1 DEF CodeOf!Make
    <2>3. QED
      BY <2>2 DEF CodeOf!KNext
  <1>3. CASE Same(k) /\ Life(k)' = Life(k)
    BY <1>3 DEF Same, CodeOf!kvars
  <1>4. CASE Same(k) /\ Moves(k, ch'[k].st)
    <2>1. CASE ch'[k].st = "dispatching"
      <3>1. Life(k) = "waiting" /\ Life(k)' = "marked" /\ ch[k].kind # "decoy"
        BY <1>4, <2>1 DEF Moves, Life
      <3>2. CodeOf(k)!Mark
        BY <1>4, <3>1 DEF CodeOf!Mark, Same
      <3>3. QED
        BY <3>2 DEF CodeOf!KNext
    <2>2. CASE ch'[k].st = "delivered" /\ ch[k].st # "delivered"
      <3>1. ch[k].st \in {"pending_delivery", "dispatching"}
        BY <1>4, <2>2 DEF Moves, Live
      <3>2. ch[k].kind = "decoy" \/ texted[k]
        BY <1>4, <2>2, <3>1 DEF Moves, Shown
      <3>3. IF ch[k].kind = "decoy" THEN Life(k) = "waiting"
            ELSE Life(k) = "marked" /\ texted[k]
        BY <3>1, <3>2 DEF Called, IInv, SendingOK, Early, Life
      <3>4. Life(k)' = "usable"
        BY <2>2 DEF Life
      <3>5. CodeOf(k)!Arrive
        BY <1>4, <3>3, <3>4 DEF CodeOf!Arrive, Same
      <3>6. QED
        BY <3>5 DEF CodeOf!KNext
    <2>3. CASE ch'[k].st = "delivered" /\ ch[k].st = "delivered"
      BY <1>3, <1>4, <2>3 DEF Life
    <2>4. CASE ch'[k].st \notin {"dispatching", "delivered"}
      <3>1. Life(k)' = "over" /\ Life(k) \in {"waiting", "marked", "usable", "over"}
        BY <1>1, <1>4, <2>4 DEF Moves, Early, Life
      <3>2. CASE Life(k) = "over"
        BY <1>3, <1>4, <3>1, <3>2
      <3>3. CASE Life(k) # "over"
        <4>1. CodeOf(k)!End
          BY <1>4, <3>1, <3>3 DEF CodeOf!End, Same
        <4>2. QED
          BY <4>1 DEF CodeOf!KNext
      <3>4. QED
        BY <3>2, <3>3
    <2>5. QED
      BY <2>1, <2>2, <2>3, <2>4
  <1>5. QED
    BY <1>2, <1>3, <1>4 DEF Fate, Kept, Life

\* A call of the provider is the only one for its code.
LEMMA SendCode ==
    ASSUME IInv, IInv', Called, NEW w \in Workers, Send(w), UNCHANGED loginVars, NEW k \in Keys
    PROVE  [CodeOf(k)!KNext]_(CodeOf(k)!kvars)
  <1>1. /\ ch' = ch /\ Opened(k)' = Opened(k) /\ job[w].at = "send"
        /\ sends \in [Keys -> Nat] /\ texted \in [Keys -> BOOLEAN] /\ texted' \in [Keys -> BOOLEAN]
    BY DEF Send, At, Opened, loginVars, IInv, LoginTypeOK
  <1>2. CASE k = job[w].key
    <2>1. sends[k] = 0 /\ ch[k].st \notin Early /\ ch[k].kind # "decoy"
      BY <1>1, <1>2 DEF IInv, SendingOK, Called
    <2>2. sends' = [sends EXCEPT ![k] = sends[k] + 1]
      BY <1>2 DEF Send
    <2>3. sends'[k] = 1 /\ texted'[k] \in BOOLEAN
      BY <1>1, <2>1, <2>2
    <2>4. Life(k) \notin {"none", "waiting"}
      BY <2>1 DEF Life, Early
    <2>5. Life(k)' = Life(k)
      BY <1>1 DEF Life
    <2>6. CodeOf(k)!Call
      BY <1>1, <2>1, <2>3, <2>4, <2>5 DEF CodeOf!Call
    <2>7. QED
      BY <2>6 DEF CodeOf!KNext
  <1>3. CASE k # job[w].key
    <2>1. sends'[k] = sends[k] /\ texted'[k] = texted[k]
      BY <1>1, <1>3 DEF Send
    <2>2. Life(k)' = Life(k) /\ ch'[k].kind = ch[k].kind
      BY <1>1 DEF Life
    <2>3. QED
      BY <1>1, <2>1, <2>2 DEF CodeOf!kvars
  <1>4. QED
    BY <1>2, <1>3

\* Only the right code lets somebody in; the profile form, a log-out and the end of all
\* sessions let nobody in who was not.
LEMMA OpensOnlyThat ==
    ASSUME IInv, NEW k \in Keys, CreateSession(k) \/ CompleteProfile(k) \/ EndSession(k),
           NEW j \in Keys
    PROVE  Opened(j)' = Opened(j) \/ (j = k /\ CreateSession(k) /\ Opened(j)')
  <1>1. /\ session \in [Keys -> {"none", "live", "revoked"}]
        /\ intent \in [Keys -> {"none", "open", "used"}]
    BY DEF IInv, LoginTypeOK
  <1>2. CASE LogIn(k)
    BY <1>1, <1>2 DEF LogIn, OpenSession, LiveSessions, SessionsOf, CreateSession, Opened
  <1>3. CASE OpenIntent(k)
    BY <1>1, <1>3 DEF OpenIntent, CreateSession, Opened
  <1>4. CASE CompleteProfile(k)
    BY <1>1, <1>4 DEF CompleteProfile, Complete, CompleteAgain, OpenSession, Opened
  <1>5. CASE LogOut(k)
    BY <1>1, <1>5 DEF LogOut, Opened
  <1>6. CASE RevokeAll(k)
    BY <1>1, <1>6 DEF RevokeAll, LiveSessions, SessionsOf, Opened
  <1>7. QED
    BY <1>2, <1>3, <1>4, <1>5, <1>6 DEF CreateSession, EndSession

\* Every step keeps the contract of every code.
LEMMA StepKeepsContract ==
    ASSUME IInv, IInv', Called, [LoginNext]_allVars, NEW k \in Keys
    PROVE  [CodeOf(k)!KNext]_(CodeOf(k)!kvars)
  <1>1. CASE UNCHANGED allVars
    <2>1. ch' = ch /\ sends' = sends /\ texted' = texted /\ session' = session /\ intent' = intent
      BY <1>1 DEF allVars, otpVars, worker, loginVars
    <2>2. Life(k)' = Life(k) /\ Opened(k)' = Opened(k)
      BY <2>1 DEF Life, Opened
    <2>3. QED
      BY <2>1, <2>2 DEF CodeOf!kvars
  <1>2. CASE \E w \in Workers : Send(w) /\ UNCHANGED loginVars
    BY <1>2, SendCode
  <1>3. CASE LoginNext /\ Hush
    <2>1. Fate(k) /\ sends'[k] = sends[k] /\ texted'[k] = texted[k]
      BY <1>3, NextStep DEF Fates, Hush
    <2>2. CASE UNCHANGED loginVars
      BY <2>1, <2>2, QuietCode DEF loginVars, Opened
    <2>3. CASE \E i \in Keys : CreateSession(i) \/ CompleteProfile(i) \/ EndSession(i)
      <3>1. PICK i \in Keys : CreateSession(i) \/ CompleteProfile(i) \/ EndSession(i)
        BY <2>3
      <3>2. CASE Opened(k)' = Opened(k)
        BY <2>1, <3>2, QuietCode
      <3>3. CASE k = i /\ CreateSession(k) /\ Opened(k)'
        <4>1. EnterRight(k)
          BY <3>3 DEF CreateSession, LogIn, OpenIntent
        <4>2. ch[k].st = "delivered" /\ ch[k].kind # "decoy"
          BY <4>1 DEF EnterRight
        <4>3. ch' = [ch EXCEPT ![k] = [Ended(ch[k], "consumed") EXCEPT !.started = FALSE]]
          BY <4>1 DEF EnterRight, Enter, Change
        <4>4. ch'[k].st = "consumed" /\ Same(k)
          <5>1. ch \in [Keys -> Row]
            BY DEF IInv, LoginTypeOK
          <5>2. ch[k] \in Row /\ ch'[k] = [Ended(ch[k], "consumed") EXCEPT !.started = FALSE]
            BY <4>3, <5>1
          <5>3. ch'[k].st = "consumed"
            BY <5>2 DEF Ended, Row
          <5>4. Same(k)
            BY <2>1, <4>2, FateStates
          <5>5. QED
            BY <5>3, <5>4
        <4>5. Life(k) = "usable" /\ Life(k)' = "over"
          BY <4>2, <4>4 DEF Life
        <4>6. CodeOf(k)!Use
          BY <2>1, <3>3, <4>2, <4>4, <4>5 DEF CodeOf!Use, Same
        <4>7. QED
          BY <4>6 DEF CodeOf!KNext
      <3>4. QED
        BY <3>1, <3>2, <3>3, OpensOnlyThat
    <2>4. QED
      BY <1>3, <2>2, <2>3 DEF LoginNext
  <1>4. QED
    BY <1>1, <1>2, <1>3, HushOrSend

\* Every one-time code keeps its contract, among any number of others: it is given to the
\* provider once, arrives only if accepted, lets in once, and stays over.
THEOREM CodesKeepContract == LoginSpec => EachKeepsContract
  <1> DEFINE Kept1 == \A k \in Keys : [CodeOf(k)!KNext]_(CodeOf(k)!kvars)
             Begun == \A k \in Keys : CodeOf(k)!KInit
  <1>1. LoginInit => Begun /\ Called
    BY DEF LoginInit, OtpInit, Blank, Idle, Called, Life, Opened, CodeOf!KInit
  <1>2. IInv /\ Called /\ [LoginNext]_allVars => Called'
    BY NextCalled
  <1>3. IInv /\ IInv' /\ Called /\ [LoginNext]_allVars => [Kept1]_allVars
    BY StepKeepsContract
  <1> HIDE DEF Kept1, Begun
  <1>4. LoginSpec => Begun /\ [][Kept1]_allVars
    BY <1>1, <1>2, <1>3, LoginInvariant, PTL DEF LoginSpec
  <1>5. QED
    BY <1>4 DEF Kept1, Begun, EachKeepsContract
=============================================================================
