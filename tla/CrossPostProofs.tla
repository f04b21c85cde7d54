--------------------------- MODULE CrossPostProofs ---------------------------
(***************************************************************************)
(* Theorems about CrossPost for every set of requests, users, keys, bodies *)
(* and connections, every length of target list and number of faults: its  *)
(* types, its keys and tasks, what is posted, what is filed and answered,  *)
(* what a finished job says of its targets and its channel tells, and that *)
(* CrossPost implements JobLedger.                                         *)
(***************************************************************************)
EXTENDS CrossPostInductive, FiniteSetTheorems, SequenceTheorems, TLAPS

LEMMA ShapeInit == Init => Shape
<1> SUFFICES ASSUME Init PROVE Shape
  OBVIOUS
<1>1. TypeOK
  BY CrossPostAssumption
  DEF Init, TypeOK, Worker, Task, Stopped, JobStatus, RowStatus, Slots, MaxAttempts
<1>2. HandlerShape /\ JobShape /\ WorkerShape
  BY DEF Init, HandlerShape, JobShape, WorkerShape, Task, InTx, Committed, Working,
         Targeting, Attempting
<1>3. QED
  BY <1>1, <1>2 DEF Shape

\* A body that has arrived is a list of at most MaxTargets targets.
LEMMA BodyType ==
  ASSUME NEW r \in Requests, body[r] \in Bodies
  PROVE  /\ Asked(r) \in Seq(Target)
         /\ Len(Asked(r)) \in 0..MaxTargets
         /\ \A i \in 1..Len(Asked(r)) : Asked(r)[i] \in Target
BY CrossPostAssumption DEF Asked, Body

LEMMA TaskType ==
  ASSUME NEW label \in Stopped \cup Working, NEW j \in Requests \cup {NoJob}
  PROVE  Task(label, j) \in Worker
BY CrossPostAssumption DEF Task, Worker, MaxAttempts

LEMMA ShapeReceive ==
  ASSUME Shape, NEW r \in Requests, NEW b \in Bodies, Receive(r, b)
  PROVE  Shape'
<1> USE DEF Shape, Receive, database, memory, provider
<1>1. TypeOK'
  BY DEF TypeOK, InFlight, Answered
<1>2. HandlerShape'
  BY DEF TypeOK, HandlerShape, InTx, Asked
<1>3. JobShape' /\ WorkerShape'
  BY DEF TypeOK, JobShape, WorkerShape, Committed, Asked
<1>4. QED
  BY <1>1, <1>2, <1>3

\* The steps before the commit change nothing but the handler's own state.
LEMMA ShapeBeforeCommit ==
  ASSUME Shape, NEW r \in Requests,
         Replay(r) \/ Miss(r) \/ InsertJob(r) \/ CheckConnection(r) \/ InsertTarget(r)
  PROVE  Shape'
<1> DEFINE Label == {"replied", "inserting", "refused", "checking", "filing"}
<1>1. /\ pc[r] \in {"looking", "inserting", "checking", "filing"}
      /\ pc' \in [Requests -> {"idle", "dropped"} \cup InFlight \cup Answered]
      /\ \A q \in Requests \ {r} : pc'[q] = pc[q]
      /\ pc'[r] \in Label
  BY DEF Shape, TypeOK, Replay, Miss, InsertJob, CheckConnection, InsertTarget, InFlight,
         Answered
<1>2. UNCHANGED <<body, database, memory, provider, faults>>
  BY DEF Replay, Miss, InsertJob, CheckConnection, InsertTarget
<1>3. reply' \in [Requests -> Requests \cup {NoJob}]
  BY DEF Shape, TypeOK, Replay, Miss, InsertJob, CheckConnection, InsertTarget, Existing
<1>4. body[r] \in Bodies /\ Len(Asked(r)) \in 0..MaxTargets
  BY <1>1, BodyType DEF Shape, HandlerShape
<1>5. /\ staged' \in [Requests -> 0..MaxTargets]
      /\ \A q \in Requests \ {r} : staged'[q] = staged[q]
      /\ pc'[r] = "inserting" => staged'[r] = 0
      /\ pc'[r] \in {"checking", "filing"} => staged'[r] <= Len(Asked(r))
      /\ pc'[r] = "filing" => staged'[r] < Len(Asked(r))
  <2>1. CASE InsertTarget(r)
    <3>1. staged[r] + 1 \in 0..MaxTargets /\ staged[r] + 1 <= Len(Asked(r))
      BY <1>4, <2>1, CrossPostAssumption DEF Shape, TypeOK, HandlerShape, InsertTarget
    <3>2. QED
      BY <2>1, <3>1 DEF Shape, TypeOK, HandlerShape, InsertTarget
  <2>2. CASE Replay(r) \/ Miss(r) \/ InsertJob(r) \/ CheckConnection(r)
    BY <1>4, <2>2 DEF Shape, TypeOK, HandlerShape, Replay, Miss, InsertJob, CheckConnection
  <2>3. QED
    BY <2>1, <2>2
<1>6. TypeOK'
  BY <1>1, <1>2, <1>3, <1>5 DEF Shape, TypeOK, database, memory, provider
<1>7. HandlerShape'
  BY <1>1, <1>2, <1>4, <1>5 DEF Shape, HandlerShape, InTx, Asked
<1>8. JobShape' /\ WorkerShape'
  BY <1>1, <1>2 DEF Shape, JobShape, WorkerShape, Committed, Asked, database, memory
<1>9. QED
  BY <1>6, <1>7, <1>8 DEF Shape

LEMMA ShapeCommit ==
  ASSUME Shape, NEW r \in Requests, Commit(r)
  PROVE  Shape'
<1> USE DEF Shape, Commit, memory, provider
<1>1. TypeOK'
  BY DEF TypeOK, JobStatus, InFlight
<1>2. HandlerShape'
  BY DEF TypeOK, HandlerShape, InTx, Asked
<1>3. JobShape'
  BY DEF TypeOK, JobShape, WorkerShape, Committed, Asked
<1>4. WorkerShape'
  BY DEF TypeOK, WorkerShape, Working, Targeting, Attempting
<1>5. QED
  BY <1>1, <1>2, <1>3, <1>4

LEMMA ShapeSpawn ==
  ASSUME Shape, NEW r \in Requests, Spawn(r)
  PROVE  Shape'
<1> USE DEF Shape, Spawn, database, provider
<1> DEFINE New == Task("claim", r)
<1>1. New \in Worker /\ New.pc = "claim" /\ New.job = r /\ New.todo = {}
  BY TaskType DEF Task, Working
<1>2. worker' = [worker EXCEPT ![r] = New]
  BY DEF Spawned
<1> HIDE DEF New
<1>3. TypeOK'
  BY <1>1, <1>2 DEF TypeOK, Answered
<1>4. HandlerShape'
  BY DEF TypeOK, HandlerShape, InTx, Asked
<1>5. JobShape'
  BY <1>2 DEF TypeOK, JobShape, Committed, Asked
<1>6. WorkerShape'
  BY <1>1, <1>2 DEF TypeOK, WorkerShape, Working, Targeting, Attempting
<1>7. QED
  BY <1>3, <1>4, <1>5, <1>6

-----------------------------------------------------------------------------
\* What a task may hold, given the job's rows and status, to be well shaped.
TaskShape(v, n, s) ==
  /\ v.pc \in Working => v.todo \subseteq 1..n
  /\ v.pc \in Targeting => v.target \in 1..n
  /\ v.pc \in Attempting => v.attempt \in 1..MaxAttempts
  /\ v.pc = "backoff" => v.attempt < MaxAttempts
  /\ v.pc \in {"completing", "announce"} => v.outcome \in Final
  /\ v.pc = "finished" => s \in Final

RowsOK ==
  /\ status \in [Requests -> [Slots -> RowStatus]]
  /\ attempt \in [Requests -> [Slots -> 0..MaxAttempts]]
  /\ updates \in [Requests -> Seq(Update)]
  /\ calls \in [Requests -> [Slots -> Nat]]
  /\ posts \in [Requests -> [Slots -> Nat]]
  /\ faults \in 0..MaxFaults

\* A task's step: it keeps its own record well shaped and touches no other.
LEMMA ShapeTask ==
  ASSUME Shape, NEW w \in Requests, worker[w].pc # "none",
         NEW v \in Worker, v.pc # "none", v.job = w,
         worker' = [worker EXCEPT ![w] = v],
         NEW s \in JobStatus \ {"absent"}, jobStatus' = [jobStatus EXCEPT ![w] = s],
         TaskShape(v, rows[w], s),
         UNCHANGED <<pc, body, reply, staged, rows, connections>>,
         RowsOK'
  PROVE  Shape'
<1>1. TypeOK'
  BY DEF Shape, TypeOK, RowsOK
<1>2. HandlerShape'
  BY DEF Shape, HandlerShape, InTx, Asked
<1>3. pc[w] = "accepted" /\ Committed(w)
  BY DEF Shape, WorkerShape, JobShape
<1>4. JobShape'
  BY <1>3 DEF Shape, TypeOK, JobShape, Committed, Asked
<1>5. WorkerShape'
  BY <1>3 DEF Shape, TypeOK, WorkerShape, TaskShape
<1>6. QED
  BY <1>1, <1>2, <1>4, <1>5 DEF Shape

\* The same, of a step that leaves the job row alone.
LEMMA ShapeTaskOnly ==
  ASSUME Shape, NEW w \in Requests, worker[w].pc # "none",
         NEW v \in Worker, v.pc # "none", v.job = w,
         worker' = [worker EXCEPT ![w] = v],
         TaskShape(v, rows[w], jobStatus[w]),
         UNCHANGED <<pc, body, reply, staged, jobStatus, rows, connections>>,
         RowsOK'
  PROVE  Shape'
<1>1. jobStatus[w] \in JobStatus \ {"absent"}
  BY DEF Shape, TypeOK, WorkerShape, JobShape, Committed
<1>2. jobStatus' = [jobStatus EXCEPT ![w] = jobStatus[w]]
  BY DEF Shape, TypeOK
<1>3. QED
  BY <1>1, <1>2, ShapeTask

\* Of a task that is working: it is at its own job, whose body and rows agree.
LEMMA TaskFacts ==
  ASSUME Shape, NEW w \in Requests, worker[w].pc \in Working
  PROVE  /\ worker[w] \in Worker
         /\ worker[w].pc # "none"
         /\ worker[w].job = w
         /\ TaskShape(worker[w], rows[w], jobStatus[w])
         /\ rows[w] = Len(Asked(w))
         /\ rows[w] \in 0..MaxTargets
         /\ 1..rows[w] \subseteq Slots
         /\ \A i \in 1..rows[w] : Asked(w)[i].provider \in Providers
         /\ RowsOK
<1>1. worker[w] \in Worker /\ worker[w].pc # "none" /\ RowsOK /\ rows[w] \in 0..MaxTargets
  BY DEF Shape, TypeOK, Working, RowsOK
<1>2. worker[w].job = w /\ TaskShape(worker[w], rows[w], jobStatus[w])
  BY <1>1 DEF Shape, WorkerShape, TaskShape
<1>3. Committed(w) /\ rows[w] = Len(Asked(w)) /\ body[w] \in Bodies
  BY <1>1 DEF Shape, WorkerShape, JobShape, HandlerShape
<1>4. \A i \in 1..rows[w] : Asked(w)[i].provider \in Providers
  BY <1>3, BodyType DEF Target
<1>5. 1..rows[w] \subseteq Slots
  BY <1>1, CrossPostAssumption DEF Slots
<1>6. QED
  BY <1>1, <1>2, <1>3, <1>4, <1>5

LEMMA EmitType ==
  ASSUME Shape, NEW w \in Requests, NEW p \in Providers \cup {NoProvider},
         NEW s \in {"running", "retrying"} \cup Final, NEW n \in 0..MaxAttempts,
         Emit(w, p, s, n)
  PROVE  updates' \in [Requests -> Seq(Update)]
<1>1. [provider |-> p, status |-> s, attempt |-> n] \in Update
  BY DEF Update
<1>2. updates \in [Requests -> Seq(Update)]
  BY DEF Shape, TypeOK
<1>3. QED
  BY <1>1, <1>2 DEF Emit

\* Relabelling a task keeps it a task.
LEMMA GotoType ==
  ASSUME Shape, NEW w \in Requests, worker[w].pc \in Working,
         NEW label \in Working, Goto(w, label)
  PROVE  \E v \in Worker :
           /\ worker' = [worker EXCEPT ![w] = v]
           /\ v.pc = label /\ v.job = w /\ v.todo = worker[w].todo
           /\ v.target = worker[w].target /\ v.attempt = worker[w].attempt
           /\ v.outcome = worker[w].outcome
<1> DEFINE v == [worker[w] EXCEPT !.pc = label]
<1>1. worker[w] \in Worker /\ worker[w].job = w
  BY TaskFacts
<1>2. v \in Worker
  BY <1>1 DEF Worker
<1>3. worker' = [worker EXCEPT ![w] = v]
  BY DEF Goto
<1>4. /\ v.pc = label /\ v.job = w /\ v.todo = worker[w].todo
      /\ v.target = worker[w].target /\ v.attempt = worker[w].attempt
      /\ v.outcome = worker[w].outcome
  BY <1>1 DEF Worker
<1>5. QED
  BY <1>2, <1>3, <1>4

LEMMA ShapeClaim ==
  ASSUME Shape, NEW w \in Requests, Claim(w)
  PROVE  Shape'
<1>1. worker[w].pc \in Working
  BY DEF Claim, At, Working
<1> DEFINE v == [worker[w] EXCEPT !.pc = "start", !.todo = 1..rows[w]]
<1>2. worker[w] \in Worker /\ worker[w].job = w /\ 1..rows[w] \subseteq Slots /\ RowsOK
      /\ worker[w].pc # "none"
  BY <1>1, TaskFacts
<1>3. v \in Worker /\ v.pc = "start" /\ v.job = w /\ v.todo = 1..rows[w]
  BY <1>2 DEF Worker, Working
<1>4. worker' = [worker EXCEPT ![w] = v] /\ jobStatus' = [jobStatus EXCEPT ![w] = "running"]
  BY <1>2 DEF Claim
<1>5. RowsOK' /\ UNCHANGED <<pc, body, reply, staged, rows, connections>>
  BY <1>2 DEF Claim, RowsOK, handlers, provider
<1>6. TaskShape(v, rows[w], "running")
  BY <1>3 DEF TaskShape, Targeting, Attempting
<1> HIDE DEF v
<1>7. v.pc # "none" /\ "running" \in JobStatus \ {"absent"}
  BY <1>3 DEF JobStatus
<1>8. QED
  BY <1>2, <1>3, <1>4, <1>5, <1>6, <1>7, ShapeTask

LEMMA ShapePickTarget ==
  ASSUME Shape, NEW w \in Requests, NEW i \in Slots, NEW ok \in BOOLEAN,
         PickTarget(w, i, ok), faults' \in 0..MaxFaults
  PROVE  Shape'
<1>1. worker[w].pc \in Working /\ i \in worker[w].todo
  BY DEF PickTarget, At, Working
<1> DEFINE v == [worker[w] EXCEPT !.todo = @ \ {i}, !.target = i,
                                  !.pc = IF ok THEN "begin" ELSE "failing",
                                  !.attempt = IF ok THEN 1 ELSE 0]
<1>2. worker[w] \in Worker /\ worker[w].job = w /\ RowsOK /\ worker[w].pc # "none"
  BY <1>1, TaskFacts
<1>3. i \in 1..rows[w] /\ worker[w].todo \subseteq 1..rows[w] /\ i \in 0..MaxTargets
  BY <1>1, TaskFacts DEF TaskShape, Slots
<1>4. /\ v \in Worker /\ v.job = w /\ v.target = i
      /\ v.todo = worker[w].todo \ {i}
      /\ v.pc = (IF ok THEN "begin" ELSE "failing")
      /\ v.attempt = (IF ok THEN 1 ELSE 0)
  <2>1. 0 \in 0..MaxAttempts /\ 1 \in 0..MaxAttempts
    BY DEF MaxAttempts
  <2>2. worker[w].todo \ {i} \in SUBSET Slots
    BY <1>2 DEF Worker
  <2>3. CASE ok
    BY <1>2, <1>3, <2>1, <2>2, <2>3 DEF Worker, Working
  <2>4. CASE ~ok
    BY <1>2, <1>3, <2>1, <2>2, <2>4 DEF Worker, Working
  <2>5. QED
    BY <2>3, <2>4
<1>5. worker' = [worker EXCEPT ![w] = v]
  BY DEF PickTarget
<1>6. RowsOK' /\ UNCHANGED <<pc, body, reply, staged, jobStatus, rows, connections>>
  BY <1>2 DEF PickTarget, RowsOK, handlers, database, provider
<1> HIDE DEF v
<1>7. TaskShape(v, rows[w], jobStatus[w]) /\ v.pc # "none"
  BY <1>3, <1>4 DEF TaskShape, Attempting, Targeting, MaxAttempts
<1>8. QED
  BY <1>2, <1>4, <1>5, <1>6, <1>7, ShapeTaskOnly

\* Steps that relabel the task and write no job row.
LEMMA ShapeGoto ==
  ASSUME Shape, NEW w \in Requests, worker[w].pc \in Working,
         NEW label \in Working, Goto(w, label),
         label \in Targeting => worker[w].pc \in Targeting,
         label \in Attempting => worker[w].pc \in Attempting,
         label = "backoff" => worker[w].attempt < MaxAttempts,
         label \notin {"finished", "completing"},
         label = "announce" => worker[w].pc = "completing",
         RowsOK',
         UNCHANGED <<pc, body, reply, staged, jobStatus, rows, connections>>
  PROVE  Shape'
<1>1. PICK v \in Worker :
           /\ worker' = [worker EXCEPT ![w] = v]
           /\ v.pc = label /\ v.job = w /\ v.todo = worker[w].todo
           /\ v.target = worker[w].target /\ v.attempt = worker[w].attempt
           /\ v.outcome = worker[w].outcome
  BY GotoType
<1>2. TaskShape(worker[w], rows[w], jobStatus[w]) /\ worker[w].pc # "none"
  BY TaskFacts
<1>3. TaskShape(v, rows[w], jobStatus[w]) /\ v.pc # "none"
  BY <1>1, <1>2 DEF TaskShape, Working
<1>4. QED
  BY <1>1, <1>2, <1>3, ShapeTaskOnly

LEMMA ShapeRelabel ==
  ASSUME Shape, NEW w \in Requests,
         Start(w) \/ BeginAttempt(w) \/ Call(w) \/ ProviderPosts(w) \/ FailRetryable(w)
           \/ FailFinally(w) \/ Complete(w)
  PROVE  Shape'
<1>1. worker[w].pc \in Working
  BY DEF Start, BeginAttempt, Call, ProviderPosts, FailRetryable, FailFinally, Complete, At,
         Working
<1>2. /\ worker[w] \in Worker /\ worker[w].job = w /\ RowsOK
      /\ TaskShape(worker[w], rows[w], jobStatus[w])
      /\ 1..rows[w] \subseteq Slots
      /\ \A i \in 1..rows[w] : Asked(w)[i].provider \in Providers
  BY <1>1, TaskFacts
<1>3. UNCHANGED <<pc, body, reply, staged, jobStatus, rows, connections>>
  BY DEF Start, BeginAttempt, Call, ProviderPosts, FailRetryable, FailFinally, Complete,
         handlers, database
<1>4. CASE Start(w)
  <2>1. Emit(w, NoProvider, "running", 0) /\ Goto(w, "pick")
    BY <1>2, <1>4 DEF Start
  <2>2. updates' \in [Requests -> Seq(Update)]
    BY <2>1, EmitType DEF MaxAttempts
  <2>3. RowsOK'
    BY <1>2, <1>4, <2>2 DEF Start, RowsOK, database, provider
  <2>4. QED
    BY <1>1, <1>3, <2>1, <2>3, ShapeGoto DEF Working, Targeting, Attempting
<1>5. CASE BeginAttempt(w)
  <2>1. worker[w].target \in Slots /\ worker[w].attempt \in 0..MaxAttempts
    BY <1>2, <1>5 DEF BeginAttempt, At, TaskShape, Targeting, Worker
  <2>2. RowsOK'
    BY <1>2, <1>5, <2>1 DEF BeginAttempt, RowsOK, RowStatus, provider
  <2>3. QED
    BY <1>1, <1>3, <1>5, <2>2, ShapeGoto
    DEF BeginAttempt, At, Working, Targeting, Attempting
<1>6. CASE Call(w)
  <2>1. /\ worker[w].target \in 1..rows[w] /\ worker[w].target \in Slots
        /\ worker[w].attempt \in 0..MaxAttempts
    BY <1>2, <1>6 DEF Call, At, TaskShape, Targeting, Worker
  <2>2. ProviderOf(w) \in Providers
    BY <1>2, <2>1 DEF ProviderOf
  <2>3. updates' \in [Requests -> Seq(Update)]
    BY <1>2, <1>6, <2>1, <2>2, EmitType DEF Call
  <2>4. calls' \in [Requests -> [Slots -> Nat]]
    BY <1>2, <1>6, <2>1 DEF Call, RowsOK
  <2>5. UNCHANGED <<status, attempt, posts, faults>>
    BY <1>6 DEF Call, database
  <2>6. RowsOK'
    BY <1>2, <2>3, <2>4, <2>5 DEF RowsOK
  <2>7. QED
    BY <1>1, <1>3, <1>6, <2>6, ShapeGoto DEF Call, At, Working, Targeting, Attempting
<1>7. CASE ProviderPosts(w)
  <2>1. worker[w].target \in Slots
    BY <1>2, <1>7 DEF ProviderPosts, At, TaskShape, Targeting
  <2>2. RowsOK'
    BY <1>2, <1>7, <2>1 DEF ProviderPosts, RowsOK, database
  <2>3. QED
    BY <1>1, <1>3, <1>7, <2>2, ShapeGoto
    DEF ProviderPosts, At, Working, Targeting, Attempting
<1>8. CASE FailRetryable(w)
  <2>1. worker[w].target \in 1..rows[w] /\ worker[w].attempt \in 0..MaxAttempts
    BY <1>2, <1>8 DEF FailRetryable, At, TaskShape, Targeting, Worker
  <2>2. ProviderOf(w) \in Providers
    BY <1>2, <2>1 DEF ProviderOf
  <2>3. updates' \in [Requests -> Seq(Update)]
    BY <1>2, <1>8, <2>1, <2>2, EmitType DEF FailRetryable
  <2>4. RowsOK'
    BY <1>2, <1>8, <2>3 DEF FailRetryable, RowsOK, database, provider
  <2>5. QED
    BY <1>1, <1>3, <1>8, <2>4, ShapeGoto
    DEF FailRetryable, At, CanRetry, Working, Targeting, Attempting
<1>9. CASE FailFinally(w)
  <2>1. RowsOK'
    BY <1>2, <1>9 DEF FailFinally, RowsOK, database, provider
  <2>2. QED
    BY <1>1, <1>3, <1>9, <2>1, ShapeGoto DEF FailFinally, At, Working, Targeting, Attempting
<1>10. CASE Complete(w)
  <2>1. worker[w].target \in Slots /\ worker[w].outcome \in RowStatus
    BY <1>2, <1>10 DEF Complete, At, TaskShape, Targeting, RowStatus
  <2>2. RowsOK'
    BY <1>2, <1>10, <2>1 DEF Complete, RowsOK, provider
  <2>3. QED
    BY <1>1, <1>3, <1>10, <2>2, ShapeGoto DEF Complete, At, Working, Targeting, Attempting
<1>11. QED
  BY <1>4, <1>5, <1>6, <1>7, <1>8, <1>9, <1>10

LEMMA ShapeRewrite ==
  ASSUME Shape, NEW w \in Requests,
         Succeed(w) \/ Backoff(w) \/ RecordFailure(w) \/ Announce(w)
  PROVE  Shape'
<1>1. worker[w].pc \in Working /\ worker[w].pc \in Targeting
  BY DEF Succeed, Backoff, RecordFailure, Announce, At, Working, Targeting
<1>2. /\ worker[w] \in Worker /\ worker[w].job = w /\ worker[w].pc # "none" /\ RowsOK
      /\ TaskShape(worker[w], rows[w], jobStatus[w])
      /\ worker[w].target \in 1..rows[w] /\ worker[w].target \in Slots
      /\ worker[w].todo \subseteq 1..rows[w]
      /\ worker[w].attempt \in 0..MaxAttempts
      /\ \A i \in 1..rows[w] : Asked(w)[i].provider \in Providers
  BY <1>1, TaskFacts DEF TaskShape, Worker
<1>3. UNCHANGED <<pc, body, reply, staged, jobStatus, rows, connections>>
  BY DEF Succeed, Backoff, RecordFailure, Announce, handlers, database
<1>4. CASE Succeed(w)
  <2> DEFINE v == [worker[w] EXCEPT !.pc = "completing", !.outcome = Receipt(w)]
  <2>1. Receipt(w) \in Final
    BY DEF Receipt, Final
  <2>2. v \in Worker /\ v.pc = "completing" /\ v.job = w /\ v.target = worker[w].target
        /\ v.todo = worker[w].todo /\ v.outcome \in Final
    BY <1>2, <2>1 DEF Worker, Working
  <2>3. worker' = [worker EXCEPT ![w] = v]
    BY <1>4 DEF Succeed
  <2>4. RowsOK'
    BY <1>2, <1>4 DEF Succeed, RowsOK, database, provider
  <2> HIDE DEF v
  <2>5. TaskShape(v, rows[w], jobStatus[w]) /\ v.pc # "none"
    BY <1>2, <2>2 DEF TaskShape, Attempting
  <2>6. QED
    BY <1>2, <1>3, <2>2, <2>3, <2>4, <2>5, ShapeTaskOnly
<1>5. CASE Backoff(w)
  <2> DEFINE v == [worker[w] EXCEPT !.pc = "begin", !.attempt = @ + 1]
  <2>1. worker[w].attempt + 1 \in 1..MaxAttempts /\ worker[w].attempt + 1 \in 0..MaxAttempts
    BY <1>2, <1>5 DEF Backoff, At, TaskShape, MaxAttempts
  <2>2. v \in Worker /\ v.pc = "begin" /\ v.job = w /\ v.target = worker[w].target
        /\ v.todo = worker[w].todo /\ v.attempt \in 1..MaxAttempts
    BY <1>2, <2>1 DEF Worker, Working
  <2>3. worker' = [worker EXCEPT ![w] = v]
    BY <1>5 DEF Backoff
  <2>4. RowsOK'
    BY <1>2, <1>5 DEF Backoff, RowsOK, database, provider
  <2> HIDE DEF v
  <2>5. TaskShape(v, rows[w], jobStatus[w]) /\ v.pc # "none"
    BY <1>2, <2>2 DEF TaskShape, Attempting
  <2>6. QED
    BY <1>2, <1>3, <2>2, <2>3, <2>4, <2>5, ShapeTaskOnly
<1>6. CASE RecordFailure(w)
  <2> DEFINE v == [worker[w] EXCEPT !.pc = "announce", !.outcome = "failed"]
  <2>1. v \in Worker /\ v.pc = "announce" /\ v.job = w /\ v.target = worker[w].target
        /\ v.todo = worker[w].todo /\ v.outcome = "failed"
    BY <1>2 DEF Worker, Working, Final
  <2>2. worker' = [worker EXCEPT ![w] = v]
    BY <1>6 DEF RecordFailure
  <2>3. RowsOK'
    BY <1>2, <1>6 DEF RecordFailure, RowsOK, RowStatus, Final, provider
  <2> HIDE DEF v
  <2>4. TaskShape(v, rows[w], jobStatus[w]) /\ v.pc # "none"
    BY <1>2, <2>1 DEF TaskShape, Attempting, Final
  <2>5. QED
    BY <1>2, <1>3, <2>1, <2>2, <2>3, <2>4, ShapeTaskOnly
<1>7. CASE Announce(w)
  <2> DEFINE v == [worker[w] EXCEPT !.pc = "pick", !.outcome = "none", !.target = 0,
                                    !.attempt = 0]
  <2>1. 0 \in 0..MaxTargets /\ 0 \in 0..MaxAttempts
    BY CrossPostAssumption DEF MaxAttempts
  <2>2. v \in Worker /\ v.pc = "pick" /\ v.job = w /\ v.todo = worker[w].todo
    BY <1>2, <2>1 DEF Worker, Working
  <2>3. worker' = [worker EXCEPT ![w] = v]
    BY <1>7 DEF Announce
  <2>4. ProviderOf(w) \in Providers /\ worker[w].outcome \in Final
    BY <1>2, <1>7 DEF ProviderOf, Announce, At, TaskShape
  <2>5. updates' \in [Requests -> Seq(Update)]
    BY <1>2, <1>7, <2>4, EmitType DEF Announce
  <2>6. RowsOK'
    BY <1>2, <1>7, <2>5 DEF Announce, RowsOK, database, provider
  <2> HIDE DEF v
  <2>7. TaskShape(v, rows[w], jobStatus[w]) /\ v.pc # "none"
    BY <1>2, <2>2 DEF TaskShape, Targeting, Attempting
  <2>8. QED
    BY <1>2, <1>3, <2>2, <2>3, <2>6, <2>7, ShapeTaskOnly
<1>8. QED
  BY <1>4, <1>5, <1>6, <1>7

LEMMA ShapeFinish ==
  ASSUME Shape, NEW w \in Requests, Finish(w)
  PROVE  Shape'
<1>1. worker[w].pc \in Working
  BY DEF Finish, At, Working
<1>2. /\ worker[w].job = w /\ worker[w].pc # "none" /\ RowsOK
      /\ TaskShape(worker[w], rows[w], jobStatus[w])
  BY <1>1, TaskFacts
<1>3. PICK v \in Worker :
           /\ worker' = [worker EXCEPT ![w] = v]
           /\ v.pc = "finished" /\ v.job = w /\ v.todo = worker[w].todo
  BY <1>1, GotoType DEF Finish, Working
<1>4. Rollup(w) \in Final
  BY DEF Rollup, Final
<1>5. jobStatus' = [jobStatus EXCEPT ![w] = Rollup(w)] /\ Rollup(w) \in JobStatus \ {"absent"}
  BY <1>2, <1>4 DEF Finish, JobStatus, Final
<1>6. RowsOK' /\ UNCHANGED <<pc, body, reply, staged, rows, connections>>
  BY <1>2 DEF Finish, RowsOK, handlers, provider
<1>7. TaskShape(v, rows[w], Rollup(w)) /\ v.pc # "none"
  BY <1>1, <1>2, <1>3, <1>4 DEF TaskShape, Targeting, Attempting
<1>8. QED
  BY <1>2, <1>3, <1>5, <1>6, <1>7, ShapeTask

\* The steps that end a task.
LEMMA ShapeEnd ==
  ASSUME Shape, NEW w \in Requests, AnnounceFinish(w) \/ Abort(w)
  PROVE  Shape'
<1>1. worker[w].pc \in Working
  BY DEF AnnounceFinish, Abort, AwaitsDatabase, At, Working
<1>2. /\ worker[w].job = w /\ worker[w].pc # "none" /\ RowsOK
      /\ TaskShape(worker[w], rows[w], jobStatus[w])
  BY <1>1, TaskFacts
<1>3. \A label \in {"done", "dead"} :
        /\ Task(label, w) \in Worker
        /\ Task(label, w).pc # "none" /\ Task(label, w).job = w
        /\ TaskShape(Task(label, w), rows[w], jobStatus[w])
  BY TaskType DEF Stopped, Task, TaskShape, Working, Targeting, Attempting
<1>4. UNCHANGED <<pc, body, reply, staged, jobStatus, rows, connections>>
  BY DEF AnnounceFinish, Abort, handlers, database
<1>5. CASE AnnounceFinish(w)
  <2>1. jobStatus[w] \in Final
    BY <1>2, <1>5 DEF AnnounceFinish, At, TaskShape
  <2>2. updates' \in [Requests -> Seq(Update)]
    <3>1. Emit(w, NoProvider, jobStatus[w], 0)
      BY <1>2, <1>5 DEF AnnounceFinish
    <3>2. 0 \in 0..MaxAttempts
      BY DEF MaxAttempts
    <3>3. QED
      BY <2>1, <3>1, <3>2, EmitType
  <2>3. RowsOK'
    BY <1>2, <1>5, <2>2 DEF AnnounceFinish, RowsOK, database, provider
  <2>4. worker' = [worker EXCEPT ![w] = Task("done", w)]
    BY <1>2, <1>5 DEF AnnounceFinish
  <2>5. QED
    BY <1>2, <1>3, <1>4, <2>3, <2>4, ShapeTaskOnly
<1>6. CASE Abort(w)
  <2>1. RowsOK'
    BY <1>2, <1>6, CrossPostAssumption DEF Abort, RowsOK, database, provider
  <2>2. worker' = [worker EXCEPT ![w] = Task("dead", w)]
    BY <1>2, <1>6 DEF Abort
  <2>3. QED
    BY <1>2, <1>3, <1>4, <2>1, <2>2, ShapeTaskOnly
<1>7. QED
  BY <1>5, <1>6

LEMMA ShapeDrop ==
  ASSUME Shape, NEW r \in Requests, Drop(r)
  PROVE  Shape'
<1> USE DEF Shape, Drop, database, memory, provider
<1>1. TypeOK'
  BY CrossPostAssumption DEF TypeOK
<1>2. HandlerShape'
  BY DEF TypeOK, HandlerShape, InFlight, InTx, Asked
<1>3. JobShape' /\ WorkerShape'
  BY DEF TypeOK, JobShape, WorkerShape, InFlight, Committed, Asked
<1>4. QED
  BY <1>1, <1>2, <1>3

LEMMA ShapeCrash ==
  ASSUME Shape, Crash
  PROVE  Shape'
<1> USE DEF Shape, Crash, database, provider
<1>1. \A w \in Requests : worker[w].pc \in Working =>
        /\ worker[w].job = w
        /\ Task("dead", w) \in Worker
        /\ Task("dead", w).pc = "dead" /\ Task("dead", w).job = w
  BY TaskFacts, TaskType DEF Stopped, Task
<1>2. \A w \in Requests : worker'[w] = worker[w] \/ worker'[w] = Task("dead", w)
  BY <1>1
<1>3. /\ worker' \in [Requests -> Worker]
      /\ \A w \in Requests : worker[w].pc = "none" => worker'[w] = worker[w]
      /\ \A w \in Requests : worker'[w].pc \notin Working
      /\ \A w \in Requests : worker'[w].pc # "none" => worker[w].pc # "none" /\ worker'[w].job = w
  <2>1. DOMAIN worker' = Requests /\ worker' = [w \in Requests |-> worker'[w]]
    BY DEF TypeOK
  <2>2. \A w \in Requests : worker'[w] \in Worker
    BY <1>1, <1>2 DEF TypeOK, Working, Task
  <2>3. \A w \in Requests : worker[w].pc = "none" => worker'[w] = worker[w]
    BY <1>1, <1>2 DEF Working
  <2>4. \A w \in Requests : worker'[w].pc \notin Working
    BY <1>1, <1>2 DEF Working
  <2>5. \A w \in Requests : worker'[w].pc # "none" => worker[w].pc # "none" /\ worker'[w].job = w
    BY <1>1, <1>2 DEF WorkerShape, Working
  <2>6. QED
    BY <2>1, <2>2, <2>3, <2>4, <2>5
<1>4. TypeOK'
  BY <1>3, CrossPostAssumption DEF TypeOK, InFlight, Answered
<1>5. HandlerShape'
  BY DEF TypeOK, HandlerShape, InFlight, InTx, Asked
<1>6. JobShape'
  BY <1>3 DEF TypeOK, JobShape, InFlight, Committed, Asked
<1>7. WorkerShape'
  BY <1>3 DEF TypeOK, WorkerShape, InFlight, Working, Targeting, Attempting
<1>8. QED
  BY <1>4, <1>5, <1>6, <1>7

LEMMA ShapeDelete ==
  ASSUME Shape, NEW c \in Connections, DeleteConnection(c)
  PROVE  Shape'
BY DEF Shape, DeleteConnection, handlers, memory, provider, TypeOK, HandlerShape, JobShape,
       WorkerShape, InTx, Committed, Asked

LEMMA ShapeStutter ==
  ASSUME Shape, UNCHANGED vars
  PROVE  Shape'
BY DEF Shape, vars, handlers, database, memory, provider, TypeOK, HandlerShape, JobShape,
       WorkerShape, InTx, Committed, Asked

LEMMA ShapeStep == Shape /\ [Next]_vars => Shape'
<1> SUFFICES ASSUME Shape, [Next]_vars PROVE Shape'
  OBVIOUS
<1>1. ASSUME NEW r \in Requests, NEW b \in Bodies, Receive(r, b) PROVE Shape'
  BY <1>1, ShapeReceive
<1>2. ASSUME NEW r \in Requests, HandlerStep(r) PROVE Shape'
  BY <1>2, ShapeBeforeCommit, ShapeCommit, ShapeSpawn DEF HandlerStep
<1>3. ASSUME NEW r \in Requests, Drop(r) PROVE Shape'
  BY <1>3, ShapeDrop
<1>4. ASSUME NEW w \in Requests, WorkerStep(w) \/ ProviderPosts(w) PROVE Shape'
  <2>1. ASSUME NEW i \in Slots, Pick(w, i) PROVE Shape'
    <3>1. faults' \in 0..MaxFaults /\ Usable(worker[w].job, i) \in BOOLEAN
      BY <2>1 DEF Pick, Usable, Shape, TypeOK
    <3>2. QED
      BY <2>1, <3>1, ShapePickTarget DEF Pick
  <2>2. QED
    BY <1>4, <2>1, ShapeClaim, ShapeRelabel, ShapeRewrite, ShapeFinish, ShapeEnd
    DEF WorkerStep
<1>5. ASSUME NEW w \in Requests, Abort(w) PROVE Shape'
  BY <1>5, ShapeEnd
<1>6. ASSUME NEW w \in Requests, NEW i \in Slots, PickUnlucky(w, i) PROVE Shape'
  <2>1. faults' \in 0..MaxFaults
    BY <1>6, CrossPostAssumption DEF PickUnlucky, Shape, TypeOK
  <2>2. QED
    BY <1>6, <2>1, ShapePickTarget DEF PickUnlucky
<1>7. ASSUME NEW c \in Connections, DeleteConnection(c) PROVE Shape'
  BY <1>7, ShapeDelete
<1>8. CASE Crash
  BY <1>8, ShapeCrash
<1>9. CASE UNCHANGED vars
  BY <1>9, ShapeStutter
<1>10. QED
  BY <1>1, <1>2, <1>3, <1>4, <1>5, <1>6, <1>7, <1>8, <1>9 DEF Next

LEMMA ShapeInvariant == Spec => []Shape
BY ShapeInit, ShapeStep, PTL DEF Spec

\* Types are kept by every handler, task and fault.
THEOREM TypeCorrect == Spec => []TypeOK
<1>1. Shape => TypeOK
  BY DEF Shape
<1>2. QED
  BY <1>1, ShapeInvariant, PTL

\* However handlers, replays, crashes and restarts interleave, no two tasks
\* are ever given the same job: a task is spawned by the handler that filed
\* its job, and works on no other.
THEOREM OneDriver == Spec => []SingleDriver
<1>1. Shape => SingleDriver
  BY DEF Shape, WorkerShape, SingleDriver
<1>2. QED
  BY <1>1, ShapeInvariant, PTL

-----------------------------------------------------------------------------
LEMMA KeyInit == Init => KeyInv
BY DEF Init, KeyInv, OneJobPerKey, InTx, Committed

\* Steps by which no transaction begins or commits keep the keys apart.
LEMMA KeyQuiet ==
  ASSUME KeyInv,
         \A r \in Requests : /\ InTx(r)' => InTx(r)
                             /\ Committed(r)' => Committed(r)
                             /\ InTx(r) \/ Committed(r) => body'[r] = body[r]
  PROVE  KeyInv'
BY DEF KeyInv, OneJobPerKey, KeyOf

LEMMA KeyHandler ==
  ASSUME Shape, KeyInv, NEW r \in Requests, HandlerStep(r)
  PROVE  KeyInv'
<1>1. CASE InsertJob(r)
  <2>1. /\ ~KeyHeld(r)
        /\ UNCHANGED <<body, jobStatus>>
        /\ \A q \in Requests \ {r} : pc'[q] = pc[q]
    BY <1>1 DEF InsertJob, Shape, TypeOK, database
  <2>2. CASE KeyTaken(r)
    <3>1. pc'[r] = "refused"
      BY <1>1, <2>2 DEF InsertJob, Shape, TypeOK
    <3>2. QED
      BY <2>1, <3>1, KeyQuiet DEF InTx, Committed
  <2>3. CASE ~KeyTaken(r)
    BY <2>1, <2>3 DEF KeyInv, OneJobPerKey, KeyHeld, KeyTaken, KeyOf, InTx, Committed
  <2>4. QED
    BY <2>2, <2>3
<1>2. CASE Commit(r)
  <2>1. /\ InTx(r)
        /\ body' = body
        /\ \A q \in Requests : q # r => pc'[q] = pc[q] /\ jobStatus'[q] = jobStatus[q]
        /\ pc'[r] = "committed"
    BY <1>2 DEF Commit, InTx, Shape, TypeOK
  <2>2. \A q \in Requests : /\ InTx(q)' => InTx(q) /\ q # r
                            /\ Committed(q)' => Committed(q) \/ q = r
    BY <2>1 DEF InTx, Committed
  <2>3. QED
    BY <2>1, <2>2 DEF KeyInv, OneJobPerKey, KeyOf
<1>3. CASE Replay(r) \/ Miss(r) \/ CheckConnection(r) \/ InsertTarget(r) \/ Spawn(r)
  <2>1. \A q \in Requests : /\ InTx(q)' => InTx(q)
                            /\ Committed(q)' => Committed(q)
                            /\ body'[q] = body[q]
    BY <1>3 DEF Replay, Miss, CheckConnection, InsertTarget, Spawn, Shape, TypeOK, InTx,
                Committed, database
  <2>2. QED
    BY <2>1, KeyQuiet
<1>4. QED
  BY <1>1, <1>2, <1>3 DEF HandlerStep

\* A task files nothing: the job it writes to is committed already.
LEMMA TaskFilesNothing ==
  ASSUME Shape, NEW w \in Requests,
         \/ WorkerStep(w) \/ ProviderPosts(w) \/ Abort(w)
         \/ \E i \in Slots : PickUnlucky(w, i)
  PROVE  /\ UNCHANGED <<pc, body>>
         /\ \A r \in Requests : Committed(r)' => Committed(r)
<1>1. CASE Claim(w) \/ Finish(w)
  <2>1. worker[w].job = w /\ Committed(w)
    BY <1>1, TaskFacts DEF Claim, Finish, At, Working, Shape, WorkerShape, JobShape
  <2>2. \A r \in Requests : r # w => jobStatus'[r] = jobStatus[r]
    BY <1>1, <2>1 DEF Claim, Finish, Shape, TypeOK
  <2>3. QED
    BY <1>1, <2>1, <2>2 DEF Claim, Finish, handlers, Committed
<1>2. CASE \/ Start(w) \/ (\E i \in Slots : Pick(w, i) \/ PickUnlucky(w, i))
           \/ BeginAttempt(w) \/ Call(w) \/ Succeed(w) \/ FailRetryable(w) \/ FailFinally(w)
           \/ Backoff(w) \/ Complete(w) \/ RecordFailure(w) \/ Announce(w)
           \/ AnnounceFinish(w) \/ ProviderPosts(w) \/ Abort(w)
  BY <1>2 DEF Start, Pick, PickUnlucky, PickTarget, BeginAttempt, Call, Succeed, FailRetryable,
              FailFinally, Backoff, Complete, RecordFailure, Announce, AnnounceFinish,
              ProviderPosts, Abort, handlers, database, Committed
<1>3. QED
  BY <1>1, <1>2 DEF WorkerStep

LEMMA KeyStep == Shape /\ KeyInv /\ [Next]_vars => KeyInv'
<1> SUFFICES ASSUME Shape, KeyInv, [Next]_vars PROVE KeyInv'
  OBVIOUS
<1>1. ASSUME NEW r \in Requests, NEW b \in Bodies, Receive(r, b) PROVE KeyInv'
  <2>1. ~InTx(r) /\ ~Committed(r)
    BY <1>1 DEF Receive, InTx, Shape, JobShape
  <2>2. \A q \in Requests : /\ InTx(q)' => InTx(q)
                            /\ Committed(q)' => Committed(q)
                            /\ q # r => body'[q] = body[q]
    BY <1>1 DEF Receive, InTx, Committed, Shape, TypeOK, database
  <2>3. QED
    BY <2>1, <2>2, KeyQuiet
<1>2. ASSUME NEW r \in Requests, HandlerStep(r) PROVE KeyInv'
  BY <1>2, KeyHandler
<1>3. ASSUME NEW r \in Requests, Drop(r) PROVE KeyInv'
  <2>1. \A q \in Requests : /\ InTx(q)' => InTx(q)
                            /\ Committed(q)' => Committed(q)
                            /\ body'[q] = body[q]
    BY <1>3 DEF Drop, InTx, Committed, Shape, TypeOK, database
  <2>2. QED
    BY <2>1, KeyQuiet
<1>4. ASSUME NEW w \in Requests,
             \/ WorkerStep(w) \/ ProviderPosts(w) \/ Abort(w)
             \/ \E i \in Slots : PickUnlucky(w, i)
      PROVE KeyInv'
  BY <1>4, TaskFilesNothing, KeyQuiet DEF InTx
<1>5. CASE Crash
  <2>1. \A q \in Requests : /\ InTx(q)' => InTx(q)
                            /\ Committed(q)' => Committed(q)
                            /\ body'[q] = body[q]
    BY <1>5 DEF Crash, InTx, Committed, Shape, TypeOK, database
  <2>2. QED
    BY <2>1, KeyQuiet
<1>6. CASE UNCHANGED vars \/ \E c \in Connections : DeleteConnection(c)
  <2>1. UNCHANGED <<pc, body, jobStatus>>
    BY <1>6 DEF vars, handlers, database, DeleteConnection
  <2>2. QED
    BY <2>1, KeyQuiet DEF InTx, Committed
<1>7. QED
  BY <1>1, <1>2, <1>3, <1>4, <1>5, <1>6 DEF Next

\* However many requests race for a user's Idempotency-Key, and whatever is
\* dropped or crashes between the SELECT, the INSERT and the commit, at most
\* one job is ever filed under it.
THEOREM UniqueJob == Spec => []OneJobPerKey
<1>1. Spec => []KeyInv
  BY ShapeInvariant, KeyInit, KeyStep, PTL DEF Spec
<1>2. KeyInv => OneJobPerKey
  BY DEF KeyInv
<1>3. QED
  BY <1>1, <1>2, PTL

-----------------------------------------------------------------------------
(* Attempts: a target is sent to its provider no more often than its row   *)
(* says, and three times at most.                                          *)

LEMMA AttemptInit == Init => AttemptInv
BY DEF Init, AttemptInv, AttemptOK, Task, Targeting

\* What a task's invariant speaks of.
Own(w) == <<worker[w], attempt[w], calls[w], posts[w]>>

LEMMA AttemptQuiet ==
  ASSUME NEW w \in Requests, AttemptOK(w), UNCHANGED Own(w)
  PROVE  AttemptOK(w)'
BY DEF AttemptOK, Own

\* A task's step leaves what belongs to the others alone.
LEMMA OthersKept ==
  ASSUME Shape, NEW w \in Requests,
         \/ WorkerStep(w) \/ ProviderPosts(w) \/ Abort(w)
         \/ \E i \in Slots : PickUnlucky(w, i)
  PROVE  \A q \in Requests \ {w} : UNCHANGED Own(q)
<1>1. worker[w].pc \in Working
  BY DEF WorkerStep, Claim, Start, Pick, PickUnlucky, PickTarget, BeginAttempt, Call, Succeed,
         FailRetryable, FailFinally, Backoff, Complete, RecordFailure, Announce, Finish,
         AnnounceFinish, ProviderPosts, Abort, AwaitsDatabase, At, Working
<1>2. worker[w].job = w
  BY <1>1, TaskFacts
<1>3. \A q \in Requests \ {w} : worker'[q] = worker[q]
  BY DEF WorkerStep, Claim, Start, Pick, PickUnlucky, PickTarget, BeginAttempt, Call, Succeed,
         FailRetryable, FailFinally, Backoff, Complete, RecordFailure, Announce, Finish,
         AnnounceFinish, ProviderPosts, Abort, Goto, Shape, TypeOK
<1>4. CASE BeginAttempt(w) \/ RecordFailure(w) \/ Call(w) \/ ProviderPosts(w)
  BY <1>2, <1>3, <1>4 DEF BeginAttempt, RecordFailure, Call, ProviderPosts, database, provider,
                          Shape, TypeOK, Own
<1>5. CASE ~(BeginAttempt(w) \/ RecordFailure(w) \/ Call(w) \/ ProviderPosts(w))
  <2>1. UNCHANGED <<attempt, calls, posts>>
    BY <1>5 DEF WorkerStep, Claim, Start, Pick, PickUnlucky, PickTarget, Succeed, FailRetryable,
                FailFinally, Backoff, Complete, Announce, Finish, AnnounceFinish, Abort,
                database, provider
  <2>2. QED
    BY <1>3, <2>1 DEF Own
<1>6. QED
  BY <1>4, <1>5

\* What is known of a working task before its step.
LEMMA AttemptFacts ==
  ASSUME Shape, AttemptInv, NEW w \in Requests, worker[w].pc \in Working
  PROVE  /\ worker[w].job = w
         /\ worker[w].attempt \in 0..MaxAttempts
         /\ worker[w].todo \subseteq Slots
         /\ attempt[w] \in [Slots -> 0..MaxAttempts]
         /\ calls[w] \in [Slots -> Nat] /\ posts[w] \in [Slots -> Nat]
         /\ worker[w].pc \in Targeting => worker[w].target \in Slots
         /\ AttemptOK(w)
BY TaskFacts DEF Shape, TypeOK, Worker, TaskShape, AttemptInv

LEMMA AttemptClaim ==
  ASSUME Shape, AttemptInv, NEW w \in Requests, Claim(w)
  PROVE  AttemptOK(w)'
<1>1. worker[w].pc = "claim" /\ worker[w].pc \in Working
  BY DEF Claim, At, Working
<1>2. 1..rows[w] \subseteq Slots /\ AttemptOK(w) /\ worker[w].job = w
  BY <1>1, AttemptFacts, TaskFacts
<1>3. worker'[w].pc = "start" /\ worker'[w].todo = 1..rows[w]
  BY <1>1, <1>2 DEF Claim, Shape, TypeOK, Worker
<1>4. UNCHANGED <<attempt, calls, posts>>
  BY DEF Claim, provider
<1>5. QED
  BY <1>1, <1>2, <1>3, <1>4 DEF AttemptOK, Targeting

LEMMA AttemptPick ==
  ASSUME Shape, AttemptInv, NEW w \in Requests, NEW i \in Slots, NEW ok \in BOOLEAN,
         PickTarget(w, i, ok)
  PROVE  AttemptOK(w)'
<1>1. worker[w].pc \in Working /\ i \in worker[w].todo
  BY DEF PickTarget, At, Working
<1>2. /\ worker'[w].todo = worker[w].todo \ {i} /\ worker'[w].target = i
      /\ worker'[w].pc \in {"begin", "failing"}
      /\ worker'[w].pc = "begin" => worker'[w].attempt = 1
      /\ worker'[w].pc = "failing" => worker'[w].attempt = 0
  BY DEF PickTarget, Shape, TypeOK, Worker
<1>3. UNCHANGED <<attempt, calls, posts>>
  BY DEF PickTarget, database, provider
<1>4. AttemptOK(w) /\ attempt[w][i] = 0
  BY <1>1, AttemptFacts DEF AttemptOK
<1>5. QED
  BY <1>2, <1>3, <1>4 DEF AttemptOK

LEMMA AttemptGoto ==
  ASSUME Shape, NEW w \in Requests, worker[w].pc \in Working, NEW label \in Working,
         Goto(w, label)
  PROVE  /\ worker'[w].pc = label
         /\ worker'[w].todo = worker[w].todo
         /\ worker'[w].target = worker[w].target
         /\ worker'[w].attempt = worker[w].attempt
BY GotoType DEF Shape, TypeOK

\* Steps that write nothing the invariant speaks of but the label.
LEMMA AttemptRelabel ==
  ASSUME Shape, AttemptInv, NEW w \in Requests,
         \/ Start(w) \/ FailRetryable(w) \/ FailFinally(w) \/ Complete(w) \/ Finish(w)
  PROVE  AttemptOK(w)'
<1>1. worker[w].pc \in {"start", "pick", "waiting", "posted", "completing"}
  BY DEF Start, FailRetryable, FailFinally, Complete, Finish, At
<1>2. worker[w].pc \in Working /\ (worker[w].pc \in Targeting \/ Start(w) \/ Finish(w))
  BY <1>1 DEF Start, FailRetryable, FailFinally, Complete, Finish, At, Working, Targeting
<1>3. PICK label \in {"pick", "backoff", "failing", "announce", "finished"} :
        /\ Goto(w, label)
        /\ label \in Targeting => worker[w].pc \in Targeting
  BY <1>2 DEF Start, FailRetryable, FailFinally, Complete, Finish, Targeting
<1>4. /\ worker'[w].pc = label
      /\ worker'[w].todo = worker[w].todo
      /\ worker'[w].target = worker[w].target
      /\ worker'[w].attempt = worker[w].attempt
  BY <1>2, <1>3, AttemptGoto DEF Working
<1>5. UNCHANGED <<attempt, calls, posts>>
  BY DEF Start, FailRetryable, FailFinally, Complete, Finish, database, provider
<1>6. AttemptOK(w)
  BY DEF AttemptInv
<1>7. QED
  BY <1>3, <1>4, <1>5, <1>6 DEF AttemptOK

LEMMA AttemptBegin ==
  ASSUME Shape, AttemptInv, NEW w \in Requests, BeginAttempt(w)
  PROVE  AttemptOK(w)'
<1>1. worker[w].pc = "begin" /\ worker[w].pc \in Working /\ worker[w].pc \in Targeting
  BY DEF BeginAttempt, At, Working, Targeting
<1> DEFINE i == worker[w].target
<1>2. /\ worker[w].job = w /\ i \in Slots /\ worker[w].attempt \in 0..MaxAttempts
      /\ attempt[w] \in [Slots -> 0..MaxAttempts]
      /\ calls[w] \in [Slots -> Nat] /\ posts[w] \in [Slots -> Nat]
      /\ AttemptOK(w)
  BY <1>1, AttemptFacts
<1>3. /\ worker'[w].pc = "call" /\ worker'[w].todo = worker[w].todo
      /\ worker'[w].target = i /\ worker'[w].attempt = worker[w].attempt
  BY <1>1, AttemptGoto DEF BeginAttempt, Working
<1>4. /\ attempt'[w] = [attempt[w] EXCEPT ![i] = worker[w].attempt]
      /\ UNCHANGED <<calls, posts>>
  BY <1>2 DEF BeginAttempt, provider, Shape, TypeOK
<1>5. attempt[w][i] < worker[w].attempt /\ i \notin worker[w].todo
  BY <1>1, <1>2 DEF AttemptOK
<1>6. /\ attempt'[w][i] = worker[w].attempt
      /\ \A k \in Slots : k # i => attempt'[w][k] = attempt[w][k]
  BY <1>2, <1>4
<1>7. \A k \in Slots : calls[w][k] <= attempt[w][k] /\ posts[w][k] <= calls[w][k]
  BY <1>2 DEF AttemptOK
<1>8. \A k \in Slots : calls[w][k] <= attempt'[w][k]
  BY <1>2, <1>5, <1>6, <1>7
<1>9. calls[w][i] < attempt'[w][i]
  BY <1>2, <1>5, <1>6, <1>7
<1>10. \A k \in worker[w].todo : attempt'[w][k] = 0
  BY <1>1, <1>2, <1>5, <1>6, AttemptFacts DEF AttemptOK
<1>11. QED
  BY <1>2, <1>3, <1>4, <1>5, <1>6, <1>7, <1>8, <1>9, <1>10 DEF AttemptOK

LEMMA AttemptCall ==
  ASSUME Shape, AttemptInv, NEW w \in Requests, Call(w)
  PROVE  AttemptOK(w)'
<1>1. worker[w].pc = "call" /\ worker[w].pc \in Working /\ worker[w].pc \in Targeting
  BY DEF Call, At, Working, Targeting
<1> DEFINE i == worker[w].target
<1>2. /\ worker[w].job = w /\ i \in Slots
      /\ attempt[w] \in [Slots -> 0..MaxAttempts]
      /\ calls[w] \in [Slots -> Nat] /\ posts[w] \in [Slots -> Nat]
      /\ AttemptOK(w)
  BY <1>1, AttemptFacts
<1>3. /\ worker'[w].pc = "waiting" /\ worker'[w].todo = worker[w].todo
      /\ worker'[w].target = i /\ worker'[w].attempt = worker[w].attempt
  BY <1>1, AttemptGoto DEF Call, Working
<1>4. calls'[w] = [calls[w] EXCEPT ![i] = @ + 1] /\ UNCHANGED <<attempt, posts>>
  BY <1>2 DEF Call, database, Shape, TypeOK
<1>5. /\ calls'[w][i] = calls[w][i] + 1
      /\ \A k \in Slots : k # i => calls'[w][k] = calls[w][k]
  BY <1>2, <1>4
<1>6. calls[w][i] < attempt[w][i]
  BY <1>1, <1>2 DEF AttemptOK
<1>7. \A k \in Slots : calls[w][k] <= attempt[w][k] /\ posts[w][k] <= calls[w][k]
  BY <1>2 DEF AttemptOK
<1>8. \A k \in Slots : calls'[w][k] <= attempt[w][k] /\ posts[w][k] <= calls'[w][k]
  BY <1>2, <1>5, <1>6, <1>7
<1>9. posts[w][i] < calls'[w][i]
  BY <1>2, <1>5, <1>7
<1>10. QED
  BY <1>1, <1>2, <1>3, <1>4, <1>8, <1>9 DEF AttemptOK

LEMMA AttemptPost ==
  ASSUME Shape, AttemptInv, NEW w \in Requests, ProviderPosts(w)
  PROVE  AttemptOK(w)'
<1>1. worker[w].pc = "waiting" /\ worker[w].pc \in Working /\ worker[w].pc \in Targeting
  BY DEF ProviderPosts, At, Working, Targeting
<1> DEFINE i == worker[w].target
<1>2. /\ worker[w].job = w /\ i \in Slots
      /\ calls[w] \in [Slots -> Nat] /\ posts[w] \in [Slots -> Nat]
      /\ AttemptOK(w)
  BY <1>1, AttemptFacts
<1>3. /\ worker'[w].pc = "posted" /\ worker'[w].todo = worker[w].todo
      /\ worker'[w].target = i /\ worker'[w].attempt = worker[w].attempt
  BY <1>1, AttemptGoto DEF ProviderPosts, Working
<1>4. posts'[w] = [posts[w] EXCEPT ![i] = @ + 1] /\ UNCHANGED <<attempt, calls>>
  BY <1>2 DEF ProviderPosts, database, Shape, TypeOK
<1>5. /\ posts'[w][i] = posts[w][i] + 1
      /\ \A k \in Slots : k # i => posts'[w][k] = posts[w][k]
  BY <1>2, <1>4
<1>6. posts[w][i] < calls[w][i]
  BY <1>1, <1>2 DEF AttemptOK
<1>7. \A k \in Slots : posts'[w][k] <= calls[w][k]
  BY <1>2, <1>5, <1>6 DEF AttemptOK
<1>8. QED
  BY <1>1, <1>2, <1>3, <1>4, <1>7 DEF AttemptOK

LEMMA AttemptRewrite ==
  ASSUME Shape, AttemptInv, NEW w \in Requests, Succeed(w) \/ Backoff(w) \/ Announce(w)
  PROVE  AttemptOK(w)'
<1>1. worker[w].pc \in {"waiting", "posted", "backoff", "announce"}
  BY DEF Succeed, Backoff, Announce, At
<1>2. /\ AttemptOK(w) /\ worker[w].attempt \in 0..MaxAttempts
      /\ attempt[w] \in [Slots -> 0..MaxAttempts]
      /\ worker[w].target \in Slots
  BY <1>1, AttemptFacts DEF Working, Targeting
<1>3. UNCHANGED <<attempt, calls, posts>>
  BY DEF Succeed, Backoff, Announce, database, provider
<1>4. worker'[w].todo = worker[w].todo
  BY DEF Succeed, Backoff, Announce, Shape, TypeOK, Worker
<1>5. CASE Announce(w)
  <2>1. worker'[w].pc = "pick"
    BY <1>5 DEF Announce, Shape, TypeOK, Worker
  <2>2. QED
    BY <1>2, <1>3, <1>4, <2>1 DEF AttemptOK, Targeting
<1>6. CASE Succeed(w)
  <2>1. /\ worker'[w].pc = "completing" /\ worker'[w].target = worker[w].target
        /\ worker'[w].attempt = worker[w].attempt
    BY <1>6 DEF Succeed, Shape, TypeOK, Worker
  <2>2. QED
    BY <1>1, <1>2, <1>3, <1>4, <2>1 DEF AttemptOK, Targeting
<1>7. CASE Backoff(w)
  <2>1. /\ worker'[w].pc = "begin" /\ worker'[w].target = worker[w].target
        /\ worker'[w].attempt = worker[w].attempt + 1
    BY <1>7 DEF Backoff, Shape, TypeOK, Worker
  <2>2. attempt[w][worker[w].target] <= worker[w].attempt
        /\ worker[w].target \notin worker[w].todo
    BY <1>1, <1>2 DEF AttemptOK, Targeting
  <2>3. attempt[w][worker[w].target] < worker[w].attempt + 1
    BY <1>2, <2>2
  <2>4. attempt[w][worker[w].target] <= worker[w].attempt + 1
    BY <1>2, <2>2
  <2>5. QED
    BY <1>2, <1>3, <1>4, <2>1, <2>2, <2>3, <2>4 DEF AttemptOK
<1>8. QED
  BY <1>5, <1>6, <1>7

LEMMA AttemptRecordFailure ==
  ASSUME Shape, AttemptInv, NEW w \in Requests, RecordFailure(w)
  PROVE  AttemptOK(w)'
<1>1. worker[w].pc = "failing" /\ worker[w].pc \in Working /\ worker[w].pc \in Targeting
  BY DEF RecordFailure, At, Working, Targeting
<1> DEFINE i == worker[w].target
<1>2. /\ worker[w].job = w /\ i \in Slots /\ worker[w].attempt \in 0..MaxAttempts
      /\ worker[w].todo \subseteq Slots
      /\ attempt[w] \in [Slots -> 0..MaxAttempts]
      /\ calls[w] \in [Slots -> Nat] /\ posts[w] \in [Slots -> Nat]
      /\ AttemptOK(w)
  BY <1>1, AttemptFacts
<1>3. /\ worker'[w].pc = "announce" /\ worker'[w].todo = worker[w].todo
      /\ worker'[w].target = i /\ worker'[w].attempt = worker[w].attempt
  BY DEF RecordFailure, Shape, TypeOK, Worker
<1>4. /\ attempt'[w] = [attempt[w] EXCEPT ![i] = worker[w].attempt]
      /\ UNCHANGED <<calls, posts>>
  BY <1>2 DEF RecordFailure, provider, Shape, TypeOK
<1>5. attempt[w][i] <= worker[w].attempt /\ i \notin worker[w].todo
  BY <1>1, <1>2 DEF AttemptOK
<1>6. /\ attempt'[w][i] = worker[w].attempt
      /\ \A k \in Slots : k # i => attempt'[w][k] = attempt[w][k]
  BY <1>2, <1>4
<1>7. \A k \in Slots : calls[w][k] <= attempt[w][k] /\ posts[w][k] <= calls[w][k]
  BY <1>2 DEF AttemptOK
<1>8. \A k \in Slots : calls[w][k] <= attempt'[w][k]
  BY <1>2, <1>5, <1>6, <1>7
<1>9. \A k \in worker[w].todo : attempt'[w][k] = 0
  BY <1>2, <1>5, <1>6 DEF AttemptOK
<1>10. attempt'[w][i] <= worker[w].attempt
  BY <1>2, <1>6
<1>11. QED
  BY <1>3, <1>4, <1>5, <1>7, <1>8, <1>9, <1>10 DEF AttemptOK

\* A task that has ended is at no target and has none left.
LEMMA AttemptEnd ==
  ASSUME AttemptInv, NEW w \in Requests, NEW label \in {"done", "dead"}, NEW j,
         worker'[w] = Task(label, j), UNCHANGED <<attempt, calls, posts>>
  PROVE  AttemptOK(w)'
BY DEF AttemptInv, AttemptOK, Task, Targeting

LEMMA AttemptTask ==
  ASSUME Shape, AttemptInv, NEW w \in Requests,
         \/ WorkerStep(w) \/ ProviderPosts(w) \/ Abort(w)
         \/ \E i \in Slots : PickUnlucky(w, i)
  PROVE  AttemptOK(w)'
<1>1. CASE AnnounceFinish(w) \/ Abort(w)
  <2>1. \E label \in {"done", "dead"} : worker'[w] = Task(label, worker[w].job)
    BY <1>1 DEF AnnounceFinish, Abort, Shape, TypeOK
  <2>2. UNCHANGED <<attempt, calls, posts>>
    BY <1>1 DEF AnnounceFinish, Abort, database, provider
  <2>3. QED
    BY <2>1, <2>2, AttemptEnd
<1>2. CASE \E i \in Slots : Pick(w, i) \/ PickUnlucky(w, i)
  <2>1. PICK i \in Slots : Pick(w, i) \/ PickUnlucky(w, i)
    BY <1>2
  <2>2. Usable(worker[w].job, i) \in BOOLEAN
    BY DEF Usable
  <2>3. QED
    BY <2>1, <2>2, AttemptPick DEF Pick, PickUnlucky
<1>3. QED
  BY <1>1, <1>2, AttemptClaim, AttemptRelabel, AttemptBegin, AttemptCall, AttemptPost,
     AttemptRewrite, AttemptRecordFailure DEF WorkerStep

LEMMA AttemptSpawn ==
  ASSUME Shape, AttemptInv, NEW r \in Requests, Spawn(r)
  PROVE  AttemptInv'
<1>1. UNCHANGED <<attempt, calls, posts>> /\ \A q \in Requests \ {r} : worker'[q] = worker[q]
  BY DEF Spawn, Spawned, database, provider, Shape, TypeOK
<1>2. worker[r].pc = "none" /\ worker'[r] = Task("claim", r)
  BY DEF Spawn, Spawned, Shape, TypeOK, JobShape
<1>3. AttemptOK(r)'
  BY <1>1, <1>2 DEF AttemptInv, AttemptOK, Task, Targeting
<1>4. \A q \in Requests \ {r} : AttemptOK(q)'
  BY <1>1, AttemptQuiet DEF AttemptInv, Own
<1>5. QED
  BY <1>3, <1>4 DEF AttemptInv

LEMMA AttemptStep == Shape /\ AttemptInv /\ [Next]_vars => AttemptInv'
<1> SUFFICES ASSUME Shape, AttemptInv, [Next]_vars PROVE AttemptInv'
  OBVIOUS
<1>1. ASSUME UNCHANGED <<worker, attempt, calls, posts>> PROVE AttemptInv'
  BY <1>1, AttemptQuiet DEF AttemptInv, Own
<1>2. ASSUME NEW r \in Requests, HandlerStep(r) PROVE AttemptInv'
  <2>1. CASE Spawn(r)
    BY <2>1, AttemptSpawn
  <2>2. CASE ~Spawn(r)
    <3>1. UNCHANGED <<worker, attempt, calls, posts>>
      BY <1>2, <2>2 DEF HandlerStep, Replay, Miss, InsertJob, CheckConnection, InsertTarget,
                        Commit, database, memory, provider
    <3>2. QED
      BY <3>1, <1>1
  <2>3. QED
    BY <2>1, <2>2
<1>3. ASSUME NEW w \in Requests,
             \/ WorkerStep(w) \/ ProviderPosts(w) \/ Abort(w)
             \/ \E i \in Slots : PickUnlucky(w, i)
      PROVE AttemptInv'
  <2>1. \A q \in Requests \ {w} : AttemptOK(q)'
    BY <1>3, OthersKept, AttemptQuiet DEF AttemptInv
  <2>2. QED
    BY <1>3, <2>1, AttemptTask DEF AttemptInv
<1>4. CASE Crash
  <2>1. \A w \in Requests : worker'[w] = worker[w] \/ worker'[w] = Task("dead", worker[w].job)
    BY <1>4 DEF Crash
  <2>2. UNCHANGED <<attempt, calls, posts>>
    BY <1>4 DEF Crash, database, provider
  <2>3. QED
    BY <2>1, <2>2, AttemptEnd, AttemptQuiet DEF AttemptInv, Own
<1>5. CASE \/ UNCHANGED vars
           \/ \E c \in Connections : DeleteConnection(c)
           \/ \E r \in Requests, b \in Bodies : Receive(r, b)
           \/ \E r \in Requests : Drop(r)
  <2>1. UNCHANGED <<worker, attempt, calls, posts>>
    BY <1>5 DEF vars, DeleteConnection, Receive, Drop, database, memory, provider
  <2>2. QED
    BY <2>1, <1>1
<1>6. QED
  BY <1>2, <1>3, <1>4, <1>5 DEF Next

\* The attempt a row records bounds the requests its provider was sent, and
\* those the posts it made: three at most, even if the task dies at any point,
\* because target_running is written before each request goes out.
THEOREM AttemptsBound == Spec => []CallsOnRecord
<1>1. Spec => []AttemptInv
  BY ShapeInvariant, AttemptInit, AttemptStep, PTL DEF Spec
<1>2. Shape /\ AttemptInv => CallsOnRecord
  BY DEF Shape, TypeOK, AttemptInv, AttemptOK, CallsOnRecord
<1>3. QED
  BY <1>1, <1>2, ShapeInvariant, PTL

-----------------------------------------------------------------------------
(* What every step keeps.                                                  *)

TaskMoves(w) ==
  \/ WorkerStep(w) \/ ProviderPosts(w) \/ Abort(w)
  \/ \E i \in Slots : PickUnlucky(w, i)

\* What belongs to one job: its task, its rows, its channel, what was sent for it.
Belongings(j) ==
  <<worker[j], jobStatus[j], status[j], attempt[j], updates[j], calls[j], posts[j]>>

\* A task writes to its own job only, which is filed already.
LEMMA TaskKeeps ==
  ASSUME Shape, NEW w \in Requests, TaskMoves(w)
  PROVE  /\ worker[w].pc \in Working /\ worker[w].job = w
         /\ pc[w] = "accepted" /\ Committed(w) /\ Committed(w)'
         /\ UNCHANGED <<pc, body, reply, staged, rows, connections>>
         /\ \A q \in Requests \ {w} : UNCHANGED Belongings(q)
<1>1. worker[w].pc \in Working
  BY DEF TaskMoves, WorkerStep, Claim, Start, Pick, PickUnlucky, PickTarget, BeginAttempt, Call,
         Succeed, FailRetryable, FailFinally, Backoff, Complete, RecordFailure, Announce, Finish,
         AnnounceFinish, ProviderPosts, Abort, AwaitsDatabase, At, Working
<1>2. worker[w].job = w /\ pc[w] = "accepted" /\ Committed(w)
  BY <1>1, TaskFacts DEF Shape, WorkerShape, JobShape
<1>3. UNCHANGED <<pc, body, reply, staged, rows, connections>>
  BY DEF TaskMoves, WorkerStep, Claim, Start, Pick, PickUnlucky, PickTarget, BeginAttempt, Call,
         Succeed, FailRetryable, FailFinally, Backoff, Complete, RecordFailure, Announce, Finish,
         AnnounceFinish, ProviderPosts, Abort, handlers, database
<1>4. \A q \in Requests \ {w} : worker'[q] = worker[q]
  BY DEF TaskMoves, WorkerStep, Claim, Start, Pick, PickUnlucky, PickTarget, BeginAttempt, Call,
         Succeed, FailRetryable, FailFinally, Backoff, Complete, RecordFailure, Announce, Finish,
         AnnounceFinish, ProviderPosts, Abort, Goto, Shape, TypeOK
<1>5. \A q \in Requests \ {w} : UNCHANGED <<jobStatus[q], status[q], attempt[q]>>
  BY <1>2 DEF TaskMoves, WorkerStep, Claim, Start, Pick, PickUnlucky, PickTarget, BeginAttempt,
         Call, Succeed, FailRetryable, FailFinally, Backoff, Complete, RecordFailure, Announce,
         Finish, AnnounceFinish, ProviderPosts, Abort, database, Shape, TypeOK
<1>6. \A q \in Requests \ {w} : UNCHANGED <<updates[q], calls[q], posts[q]>>
  BY <1>2 DEF TaskMoves, WorkerStep, Claim, Start, Pick, PickUnlucky, PickTarget, BeginAttempt,
         Call, Succeed, FailRetryable, FailFinally, Backoff, Complete, RecordFailure, Announce,
         Finish, AnnounceFinish, ProviderPosts, Abort, provider, Emit, Shape, TypeOK
<1>7. Committed(w)'
  <2>1. CASE Claim(w) \/ Finish(w)
    <3>1. Rollup(w) # "absent"
      BY DEF Rollup
    <3>2. QED
      BY <1>2, <2>1, <3>1 DEF Claim, Finish, Committed, Shape, TypeOK
  <2>2. CASE ~(Claim(w) \/ Finish(w))
    <3>1. jobStatus' = jobStatus
      BY <2>2 DEF TaskMoves, WorkerStep, Start, Pick, PickUnlucky, PickTarget, BeginAttempt,
         Call, Succeed, FailRetryable, FailFinally, Backoff, Complete, RecordFailure, Announce,
         AnnounceFinish, ProviderPosts, Abort, database
    <3>2. QED
      BY <1>2, <3>1 DEF Committed
  <2>3. QED
    BY <2>1, <2>2
<1>8. QED
  BY <1>1, <1>2, <1>3, <1>4, <1>5, <1>6, <1>7 DEF Belongings

\* The steps of a handler up to the commit touch no job.
EarlyStep(r) ==
  Replay(r) \/ Miss(r) \/ InsertJob(r) \/ CheckConnection(r) \/ InsertTarget(r)

LEMMA EarlyKeeps ==
  ASSUME Shape, NEW r \in Requests, EarlyStep(r)
  PROVE  /\ UNCHANGED <<body, database, memory, provider, faults>>
         /\ pc[r] \in {"looking", "inserting", "checking", "filing"}
         /\ pc'[r] \in {"replied", "inserting", "refused", "checking", "filing"}
         /\ \A q \in Requests \ {r} : UNCHANGED <<pc[q], staged[q], reply[q]>>
         /\ ~ Committed(r)
<1>1. pc[r] \in {"looking", "inserting", "checking", "filing"}
  BY DEF EarlyStep, Replay, Miss, InsertJob, CheckConnection, InsertTarget
<1>2. QED
  BY <1>1 DEF EarlyStep, Replay, Miss, InsertJob, CheckConnection, InsertTarget, Shape, TypeOK,
         JobShape

\* Every step is one of these.
LEMMA Steps ==
  [Next]_vars =>
    \/ \E r \in Requests, b \in Bodies : Receive(r, b)
    \/ \E r \in Requests : EarlyStep(r) \/ Commit(r) \/ Spawn(r) \/ Drop(r)
    \/ \E w \in Requests : TaskMoves(w)
    \/ \E c \in Connections : DeleteConnection(c)
    \/ Crash
    \/ UNCHANGED vars
BY DEF Next, HandlerStep, EarlyStep, TaskMoves

\* Bodies, jobs and their rows stay; connections go; faults are counted.
LEMMA Lasting ==
  ASSUME Shape, [Next]_vars
  PROVE  /\ \A r \in Requests : /\ pc[r] # "idle" => pc'[r] # "idle" /\ body'[r] = body[r]
                                /\ Committed(r) => /\ Committed(r)' /\ pc[r] # "idle"
                                                   /\ rows'[r] = rows[r]
         /\ connections' \subseteq connections
         /\ faults \in Nat /\ faults' \in Nat /\ faults <= faults'
<1>1. \A r \in Requests : Committed(r) => pc[r] # "idle"
  BY DEF Shape, JobShape
<1>2. faults \in Nat
  BY CrossPostAssumption DEF Shape, TypeOK
<1> DEFINE Kept ==
      /\ \A r \in Requests : /\ pc[r] # "idle" => pc'[r] # "idle" /\ body'[r] = body[r]
                             /\ Committed(r) => Committed(r)' /\ rows'[r] = rows[r]
      /\ connections' \subseteq connections
<1>3. Kept
  <2>1. ASSUME NEW r \in Requests, NEW b \in Bodies, Receive(r, b) PROVE Kept
    BY <2>1 DEF Receive, database, Committed, Shape, TypeOK
  <2>2. ASSUME NEW r \in Requests, EarlyStep(r) PROVE Kept
    BY <2>2, EarlyKeeps DEF database, Committed
  <2>3. ASSUME NEW r \in Requests, Commit(r) PROVE Kept
    <3>1. ~ Committed(r)
      BY <2>3 DEF Commit, Shape, JobShape
    <3>2. QED
      BY <2>3, <3>1 DEF Commit, Committed, Shape, TypeOK
  <2>4. ASSUME NEW r \in Requests, Spawn(r) \/ Drop(r) PROVE Kept
    BY <2>4 DEF Spawn, Drop, database, Committed, Shape, TypeOK
  <2>5. ASSUME NEW w \in Requests, TaskMoves(w) PROVE Kept
    BY <2>5, TaskKeeps DEF Belongings, Committed
  <2>6. ASSUME NEW c \in Connections, DeleteConnection(c) PROVE Kept
    BY <2>6 DEF DeleteConnection, handlers, Committed
  <2>7. CASE Crash
    BY <2>7 DEF Crash, database, Committed, Shape, TypeOK
  <2>8. CASE UNCHANGED vars
    BY <2>8 DEF vars, handlers, database, Committed
  <2>9. QED
    BY <2>1, <2>2, <2>3, <2>4, <2>5, <2>6, <2>7, <2>8, Steps
<1>4. faults' = faults \/ faults' = faults + 1
  <2>1. ASSUME NEW w \in Requests, TaskMoves(w) PROVE faults' = faults \/ faults' = faults + 1
    BY <2>1 DEF TaskMoves, WorkerStep, Claim, Start, Pick, PickUnlucky, BeginAttempt, Call, Succeed,
         FailRetryable, FailFinally, Backoff, Complete, RecordFailure, Announce, Finish,
         AnnounceFinish, ProviderPosts, Abort
  <2>2. ASSUME NEW r \in Requests, NEW b \in Bodies, Receive(r, b) PROVE faults' = faults
    BY <2>2 DEF Receive
  <2>3. ASSUME NEW r \in Requests, EarlyStep(r) \/ Commit(r) \/ Spawn(r) PROVE faults' = faults
    BY <2>3, EarlyKeeps DEF Commit, Spawn
  <2>4. QED
    BY <2>1, <2>2, <2>3, Steps DEF Drop, DeleteConnection, Crash, vars
<1>5. QED
  BY <1>1, <1>2, <1>3, <1>4

-----------------------------------------------------------------------------
(* Filing.                                                                 *)

LEMMA FilingInit == Init => FilingInv
BY DEF Init, FilingInv, FilingOK, InTx, Committed

\* A step that neither begins nor commits a transaction, nor files a target.
LEMMA FilingQuiet ==
  ASSUME NEW r \in Requests, FilingOK(r), connections' = connections,
         InTx(r)' => InTx(r), pc'[r] = "filing" => pc[r] = "filing",
         Committed(r)' => Committed(r) /\ rows'[r] = rows[r],
         InTx(r) => staged'[r] = staged[r],
         InTx(r) \/ Committed(r) => body'[r] = body[r]
  PROVE  FilingOK(r)'
BY DEF FilingOK, InTx, Filed, Fits, Asked

LEMMA FilingStep == Shape /\ FilingInv /\ [Next]_vars => FilingInv'
<1> SUFFICES ASSUME Shape, FilingInv, [Next]_vars, NEW q \in Requests PROVE FilingOK(q)'
  BY DEF FilingInv
<1>0. FilingOK(q)
  BY DEF FilingInv
<1>1. ASSUME NEW r \in Requests, NEW b \in Bodies, Receive(r, b) PROVE FilingOK(q)'
  <2>1. pc[r] = "idle" /\ ~ Committed(r) /\ ~ InTx(r)
    BY <1>1 DEF Receive, Shape, JobShape, InTx
  <2>2. QED
    BY <1>0, <1>1, <2>1, FilingQuiet DEF Receive, database, InTx, Committed, Shape, TypeOK
<1>2. ASSUME NEW r \in Requests, EarlyStep(r) PROVE FilingOK(q)'
  <2>1. /\ UNCHANGED <<body, jobStatus, rows, connections>> /\ ~ Committed(r)
        /\ \A p \in Requests \ {r} : UNCHANGED <<pc[p], staged[p]>>
    BY <1>2, EarlyKeeps DEF database
  <2>2. CASE q # r
    BY <1>0, <2>1, <2>2, FilingQuiet DEF InTx, Committed
  <2>3. CASE q = r /\ (Replay(r) \/ Miss(r))
    <3>1. ~ InTx(r)'
      BY <2>3 DEF Replay, Miss, InTx, Shape, TypeOK
    <3>2. QED
      BY <2>1, <2>3, <3>1 DEF FilingOK, Committed, InTx
  <2>4. CASE q = r /\ InsertJob(r)
    <3>1. staged'[r] = 0 /\ pc'[r] # "filing"
      BY <2>4 DEF InsertJob, Shape, HandlerShape, TypeOK
    <3>2. QED
      BY <2>1, <2>4, <3>1 DEF FilingOK, Committed, Filed
  <2>5. CASE q = r /\ CheckConnection(r)
    <3>1. /\ InTx(r) /\ staged' = staged
          /\ pc'[r] = "filing" => ConnectionMatches(r)
      BY <2>5 DEF CheckConnection, InTx, Shape, TypeOK
    <3>2. Filed(r, staged[r])
      BY <1>0, <2>5, <3>1 DEF FilingOK
    <3>3. QED
      BY <2>1, <2>5, <3>1, <3>2
      DEF FilingOK, Committed, Filed, Fits, Asked, ConnectionMatches, TargetOf
  <2>6. CASE q = r /\ InsertTarget(r)
    <3>1. pc[r] = "filing" /\ InTx(r) /\ staged[r] \in Nat
      BY <2>6, CrossPostAssumption DEF InsertTarget, InTx, Shape, TypeOK
    <3>2. Filed(r, staged[r]) /\ Fits(r, staged[r] + 1)
      BY <1>0, <2>6, <3>1 DEF FilingOK
    <3>3. CASE TargetOf(r).connection \in connections
      <4>1. staged'[r] = staged[r] + 1 /\ pc'[r] = "checking"
        BY <2>6, <3>3 DEF InsertTarget, Shape, TypeOK
      <4>2. Filed(r, staged[r] + 1)
        BY <3>1, <3>2, <3>3 DEF Filed, TargetOf
      <4>3. QED
        BY <2>1, <2>6, <4>1, <4>2 DEF FilingOK, Committed, Filed, Fits, Asked
    <3>4. CASE TargetOf(r).connection \notin connections
      <4>1. pc'[r] = "refused"
        BY <2>6, <3>4 DEF InsertTarget, Shape, TypeOK
      <4>2. QED
        BY <2>1, <2>6, <4>1 DEF FilingOK, Committed, InTx
    <3>5. QED
      BY <3>3, <3>4
  <2>7. QED
    BY <1>2, <2>2, <2>3, <2>4, <2>5, <2>6 DEF EarlyStep
<1>3. ASSUME NEW r \in Requests, Commit(r) PROVE FilingOK(q)'
  <2>1. CASE q # r
    BY <1>0, <1>3, <2>1, FilingQuiet DEF Commit, InTx, Committed, Shape, TypeOK
  <2>2. CASE q = r
    <3>1. InTx(r) /\ pc'[r] = "committed" /\ rows'[r] = staged[r]
          /\ UNCHANGED <<body, connections>>
      BY <1>3 DEF Commit, InTx, Shape, TypeOK
    <3>2. Filed(r, staged[r])
      BY <1>0, <2>2, <3>1 DEF FilingOK
    <3>3. QED
      BY <2>2, <3>1, <3>2 DEF FilingOK, InTx, Filed, Fits, Asked
  <2>3. QED
    BY <2>1, <2>2
<1>4. ASSUME NEW r \in Requests, Spawn(r) \/ Drop(r) PROVE FilingOK(q)'
  BY <1>0, <1>4, FilingQuiet DEF Spawn, Drop, database, InTx, Committed, Shape, TypeOK
<1>5. ASSUME NEW w \in Requests, TaskMoves(w) PROVE FilingOK(q)'
  BY <1>0, <1>5, TaskKeeps, FilingQuiet DEF Belongings, InTx, Committed
<1>6. ASSUME NEW c \in Connections, DeleteConnection(c) PROVE FilingOK(q)'
  <2>1. /\ connections' = connections \ {c} /\ ~ Locked(c) /\ ~ Referenced(c)
        /\ UNCHANGED <<pc, body, staged, jobStatus, rows>>
    BY <1>6 DEF DeleteConnection, handlers
  <2>2. InTx(q) => \A i \in 1..staged[q] : Asked(q)[i].connection # c
    BY <2>1 DEF Locked
  <2>3. Committed(q) => \A i \in 1..rows[q] : Asked(q)[i].connection # c
    BY <2>1 DEF Referenced
  <2>4. QED
    BY <1>0, <2>1, <2>2, <2>3 DEF FilingOK, InTx, Committed, Filed, Fits, Asked
<1>7. CASE Crash
  BY <1>0, <1>7, FilingQuiet DEF Crash, database, InTx, Committed, Shape, TypeOK
<1>8. CASE UNCHANGED vars
  BY <1>0, <1>8, FilingQuiet DEF vars, handlers, database, InTx, Committed
<1>9. QED
  BY <1>1, <1>2, <1>3, <1>4, <1>5, <1>6, <1>7, <1>8, Steps

\* A job is in the database with all the targets asked for or not at all, and
\* every target's connection exists, is the job owner's and of its provider:
\* the connection's row is locked from the insert of its first target on, and
\* referenced from the commit on (store.rs enqueue_job, delete_connection).
THEOREM FiledWhole == Spec => []JobIsWhole
<1>1. Spec => []FilingInv
  BY ShapeInvariant, FilingInit, FilingStep, PTL DEF Spec
<1>2. Shape /\ FilingInv => JobIsWhole
  BY DEF Shape, JobShape, FilingInv, FilingOK, Filed, Fits, JobIsWhole
<1>3. QED
  BY <1>1, <1>2, ShapeInvariant, PTL

-----------------------------------------------------------------------------
(* Answers.                                                                *)

LEMMA ReplyStep == Shape /\ ReplyInv /\ [Next]_vars => ReplyInv'
<1> SUFFICES ASSUME Shape, ReplyInv, [Next]_vars, NEW q \in Requests,
                    NEW j, reply'[q] = j, j # NoJob
             PROVE  /\ Committed(j)' /\ KeyOf(j)' = KeyOf(q)'
                    /\ pc'[q] \in {"replied", "accepted"}
  BY DEF ReplyInv, ReplyIsOwn, Committed, KeyOf
<1>1. \A i \in Requests : Committed(i) => Committed(i)' /\ KeyOf(i)' = KeyOf(i)
  BY Lasting DEF KeyOf
<1>2. \A r \in Requests : pc[r] # "idle" => KeyOf(r)' = KeyOf(r)
  BY Lasting DEF KeyOf
<1>3. CASE reply'[q] = reply[q] /\ pc'[q] = pc[q]
  <2>1. j \in Requests /\ Committed(j) /\ KeyOf(j) = KeyOf(q) /\ pc[q] \in {"replied", "accepted"}
    BY <1>3 DEF ReplyInv, ReplyIsOwn, Shape, TypeOK
  <2>2. QED
    BY <1>1, <1>2, <1>3, <2>1
<1>4. CASE Replay(q)
  <2>1. PICK i \in Requests : /\ Committed(i) /\ KeyOf(i) = KeyOf(q)
                              /\ reply'[q] = i /\ pc'[q] = "replied" /\ pc[q] = "looking"
    BY <1>4 DEF Replay, Existing, Shape, TypeOK
  <2>2. QED
    BY <1>1, <1>2, <2>1
<1>5. CASE Spawn(q)
  <2>1. j = q /\ pc'[q] = "accepted" /\ pc[q] = "committed" /\ Committed(q)
    BY <1>5 DEF Spawn, Shape, TypeOK, JobShape
  <2>2. QED
    BY <1>1, <2>1
<1>6. \/ reply'[q] = reply[q] /\ pc'[q] = pc[q]
      \/ reply'[q] = NoJob
      \/ Replay(q) \/ Spawn(q)
  <2>0. pc[q] \notin {"replied", "accepted"} => reply[q] = NoJob
    BY DEF ReplyInv
  <2>1. ASSUME NEW r \in Requests, NEW b \in Bodies, Receive(r, b)
        PROVE  reply'[q] = reply[q] /\ (pc'[q] = pc[q] \/ reply[q] = NoJob)
    BY <2>0, <2>1 DEF Receive, Shape, TypeOK
  <2>2. ASSUME NEW r \in Requests, EarlyStep(r)
        PROVE  \/ reply'[q] = reply[q] /\ (pc'[q] = pc[q] \/ reply[q] = NoJob)
               \/ Replay(q)
    BY <2>0, <2>2, EarlyKeeps DEF EarlyStep, Miss, InsertJob, CheckConnection, InsertTarget
  <2>3. ASSUME NEW r \in Requests, Commit(r) \/ Drop(r)
        PROVE  reply'[q] = reply[q] /\ (pc'[q] = pc[q] \/ reply[q] = NoJob)
    BY <2>0, <2>3 DEF Commit, Drop, InFlight, Shape, TypeOK
  <2>4. ASSUME NEW r \in Requests, Spawn(r)
        PROVE  Spawn(q) \/ (reply'[q] = reply[q] /\ pc'[q] = pc[q])
    BY <2>4 DEF Spawn, Shape, TypeOK
  <2>5. ASSUME NEW w \in Requests, TaskMoves(w) PROVE reply'[q] = reply[q] /\ pc'[q] = pc[q]
    BY <2>5, TaskKeeps
  <2>6. CASE Crash
    BY <2>0, <2>6 DEF Crash, InFlight, Shape, TypeOK
  <2>7. CASE UNCHANGED vars \/ \E c \in Connections : DeleteConnection(c)
    BY <2>7 DEF vars, handlers, DeleteConnection
  <2>8. QED
    BY <2>1, <2>2, <2>3, <2>4, <2>5, <2>6, <2>7, Steps
<1>7. QED
  BY <1>3, <1>4, <1>5, <1>6

\* Whoever is answered with a job gets one of his own user and key, be it his
\* own request's or, replayed, an earlier one's (events.rs cross_post).
THEOREM AnsweredWithOwn == Spec => []ReplyIsOwn
<1>1. Init => ReplyInv
  BY DEF Init, ReplyInv, ReplyIsOwn
<1>2. Spec => []ReplyInv
  BY <1>1, ReplyStep, ShapeInvariant, PTL DEF Spec
<1>3. ReplyInv => ReplyIsOwn
  BY DEF ReplyInv
<1>4. QED
  BY <1>2, <1>3, PTL

-----------------------------------------------------------------------------
(* Who works on a job.                                                     *)

\* A task works on until it is aborted or has announced the job's end.
LEMMA TaskGoesOn ==
  ASSUME Shape, NEW w \in Requests, TaskMoves(w), ~ Abort(w), ~ AnnounceFinish(w)
  PROVE  worker'[w].pc \in Working
<1> USE DEF Working
<1>1. worker \in [Requests -> Worker] /\ worker[w] \in Worker
  BY DEF Shape, TypeOK
<1>2. CASE \/ Start(w) \/ BeginAttempt(w) \/ Call(w) \/ ProviderPosts(w) \/ FailRetryable(w)
           \/ FailFinally(w) \/ Complete(w) \/ Finish(w)
  BY <1>1, <1>2 DEF Start, BeginAttempt, Call, ProviderPosts, FailRetryable, FailFinally, Complete,
                    Finish, Goto, Worker
<1>3. CASE \E i \in Slots : Pick(w, i) \/ PickUnlucky(w, i)
  <2>1. PICK i, ok : PickTarget(w, i, ok)
    BY <1>3 DEF Pick, PickUnlucky
  <2>2. worker'[w].pc = IF ok THEN "begin" ELSE "failing"
    BY <1>1, <2>1 DEF PickTarget, Worker
  <2>3. QED
    BY <2>2
<1>4. CASE Claim(w) \/ Succeed(w) \/ Backoff(w) \/ RecordFailure(w) \/ Announce(w)
  BY <1>1, <1>4 DEF Claim, Succeed, Backoff, RecordFailure, Announce, Worker
<1>5. QED
  BY <1>2, <1>3, <1>4 DEF TaskMoves, WorkerStep

LEMMA DriverStep == Shape /\ DriverInv /\ [Next]_vars => DriverInv'
<1> DEFINE DriverOK(r) ==
      /\ faults = 0 => pc[r] # "dropped" /\ worker[r].pc # "dead"
      /\ pc[r] = "accepted" => worker[r].pc # "none"
      /\ worker[r].pc = "done" => jobStatus[r] \in Final
<1> SUFFICES ASSUME Shape, DriverInv, [Next]_vars, NEW q \in Requests PROVE DriverOK(q)'
  BY DEF DriverInv
<1>1. DriverOK(q) /\ faults \in Nat
  BY Lasting DEF DriverInv
<1>2. ASSUME NEW r \in Requests, NEW b \in Bodies, Receive(r, b) PROVE DriverOK(q)'
  BY <1>1, <1>2 DEF Receive, database, memory, Shape, TypeOK
<1>3. ASSUME NEW r \in Requests, EarlyStep(r) PROVE DriverOK(q)'
  BY <1>1, <1>3, EarlyKeeps DEF database, memory
<1>4. ASSUME NEW r \in Requests, Commit(r) PROVE DriverOK(q)'
  <2>1. worker[r].pc = "none"
    BY <1>4 DEF Commit, Shape, WorkerShape
  <2>2. QED
    BY <1>1, <1>4, <2>1 DEF Commit, memory, Shape, TypeOK
<1>5. ASSUME NEW r \in Requests, Spawn(r) PROVE DriverOK(q)'
  BY <1>1, <1>5 DEF Spawn, Spawned, Task, database, Shape, TypeOK
<1>6. ASSUME NEW r \in Requests, Drop(r) PROVE DriverOK(q)'
  BY <1>1, <1>6 DEF Drop, database, memory, Shape, TypeOK
<1>7. ASSUME NEW w \in Requests, TaskMoves(w) PROVE DriverOK(q)'
  <2>1. /\ worker[w].pc \in Working /\ worker[w].job = w
        /\ UNCHANGED <<pc, body, reply, staged, rows, connections>>
        /\ faults <= faults' /\ faults' \in Nat
        /\ \A p \in Requests \ {w} : UNCHANGED Belongings(p)
    BY <1>7, TaskKeeps, Lasting
  <2>2. CASE q # w
    BY <1>1, <2>1, <2>2 DEF Belongings
  <2>3. CASE q = w /\ Abort(w)
    BY <1>1, <2>1, <2>3 DEF Abort, Task, Shape, TypeOK
  <2>4. CASE q = w /\ AnnounceFinish(w)
    <3>1. jobStatus[w] \in Final /\ jobStatus' = jobStatus /\ worker'[w] = Task("done", w)
      BY <2>1, <2>4 DEF AnnounceFinish, At, database, Shape, WorkerShape, TypeOK
    <3>2. QED
      BY <1>1, <2>1, <2>4, <3>1 DEF Task
  <2>5. CASE q = w /\ ~ Abort(w) /\ ~ AnnounceFinish(w)
    <3>1. worker'[w].pc \in Working
      BY <1>7, <2>5, TaskGoesOn
    <3>2. QED
      BY <1>1, <2>1, <2>5, <3>1 DEF Working
  <2>6. QED
    BY <2>2, <2>3, <2>4, <2>5
<1>8. CASE Crash
  BY <1>1, <1>8 DEF Crash, Task, database, Working, Shape, TypeOK
<1>9. CASE UNCHANGED vars \/ \E c \in Connections : DeleteConnection(c)
  BY <1>1, <1>9 DEF vars, handlers, database, memory, DeleteConnection
<1>10. QED
  BY <1>2, <1>3, <1>4, <1>5, <1>6, <1>7, <1>8, <1>9, Steps

\* As long as nothing fails, a filed job has its task until it is finished: no
\* order of handlers and tasks loses one (events.rs cross_post, worker.rs spawn).
THEOREM OnlyFaultsStrand == Spec => []NotStrandedUnlessFault
<1>1. Init => DriverInv
  BY DEF Init, DriverInv, Task
<1>2. Spec => []DriverInv
  BY <1>1, DriverStep, ShapeInvariant, PTL DEF Spec
<1>3. Shape /\ DriverInv => NotStrandedUnlessFault
  <2> SUFFICES ASSUME Shape, DriverInv, faults = 0, NEW j \in Requests, Committed(j),
                      jobStatus[j] \notin Final, pc[j] # "committed"
               PROVE  Live(j)
    BY DEF NotStrandedUnlessFault, Stranded
  <2>1. pc[j] = "accepted"
    BY DEF Shape, JobShape, DriverInv
  <2>2. worker[j].pc \notin {"none", "done", "dead"}
    BY <2>1 DEF DriverInv
  <2>3. worker[j].pc \in Working /\ worker[j].job = j
    BY <2>2 DEF Shape, TypeOK, Worker, Stopped, WorkerShape
  <2>4. QED
    BY <2>3 DEF Live
<1>4. QED
  BY <1>2, <1>3, ShapeInvariant, PTL

\* A stranded job has neither a handler nor a task that could still step for it.
LEMMA StrandedFacts ==
  ASSUME Shape, NEW j \in Requests, Stranded(j)
  PROVE  Committed(j) /\ worker[j].pc \notin Working /\ pc[j] \in {"accepted", "dropped"}
BY DEF Shape, JobShape, WorkerShape, Stranded, Live, Working

LEMMA StrandedStep ==
  ASSUME Shape, [Next]_vars, NEW j \in Requests, Stranded(j)
  PROVE  /\ UNCHANGED <<pc[j], jobStatus[j], status[j], attempt[j], calls[j], posts[j]>>
         /\ worker'[j].pc \notin Working
<1>1. worker[j].pc \notin Working /\ pc[j] \in {"accepted", "dropped"}
  BY StrandedFacts
<1>2. ASSUME NEW r \in Requests, NEW b \in Bodies, Receive(r, b)
      PROVE  UNCHANGED pc[j] /\ UNCHANGED Belongings(j)
  BY <1>1, <1>2 DEF Receive, database, memory, provider, Belongings, Shape, TypeOK
<1>3. ASSUME NEW r \in Requests, EarlyStep(r) PROVE UNCHANGED pc[j] /\ UNCHANGED Belongings(j)
  BY <1>1, <1>3, EarlyKeeps DEF database, memory, provider, Belongings
<1>4. ASSUME NEW r \in Requests, Commit(r) \/ Spawn(r) \/ Drop(r)
      PROVE  UNCHANGED pc[j] /\ UNCHANGED Belongings(j)
  <2>1. r # j /\ pc'[j] = pc[j]
    BY <1>1, <1>4 DEF Commit, Spawn, Drop, InFlight, Shape, TypeOK
  <2>2. QED
    BY <1>4, <2>1 DEF Commit, Spawn, Spawned, Drop, database, memory, provider, Belongings,
                      Shape, TypeOK
<1>5. ASSUME NEW w \in Requests, TaskMoves(w) PROVE UNCHANGED pc[j] /\ UNCHANGED Belongings(j)
  <2>1. j # w /\ pc' = pc
    BY <1>1, <1>5, TaskKeeps
  <2>2. UNCHANGED Belongings(j)
    BY <1>5, <2>1, TaskKeeps
  <2>3. QED
    BY <2>1, <2>2
<1>6. CASE UNCHANGED vars \/ \E c \in Connections : DeleteConnection(c)
  BY <1>1, <1>6 DEF vars, handlers, database, memory, provider, DeleteConnection, Belongings
<1>7. CASE Crash
  BY <1>1, <1>7 DEF Crash, InFlight, database, provider, Shape, TypeOK
<1>8. QED
  BY <1>1, <1>2, <1>3, <1>4, <1>5, <1>6, <1>7, Steps DEF Belongings

\* A job whose task died stays as it is: neither a replay of its key nor a
\* restart resumes it, and nothing of it is sent again (worker.rs run,
\* main.rs: nothing looks for unfinished jobs).
THEOREM StrandedForGood == Spec => StrandedIsInert
<1>1. ASSUME Shape, [Next]_vars, NEW j \in Requests, Stranded(j)
      PROVE  /\ Stranded(j)' /\ jobStatus'[j] = jobStatus[j]
             /\ status'[j] = status[j] /\ calls'[j] = calls[j]
  <2>1. /\ UNCHANGED <<pc[j], jobStatus[j], status[j], attempt[j], calls[j], posts[j]>>
        /\ worker'[j].pc \notin Working
    BY <1>1, StrandedStep
  <2>2. ~ Live(j)'
    <3>1. \A w \in Requests : worker'[w].pc \in Working => worker'[w].job = w
      BY <1>1, ShapeStep DEF Shape, WorkerShape, Working
    <3>2. QED
      BY <2>1, <3>1 DEF Live
  <2>3. QED
    BY <1>1, <2>1, <2>2 DEF Stranded, Committed
<1>2. Shape /\ [Next]_vars =>
        [\A j \in Requests : Stranded(j) =>
           /\ Stranded(j)'
           /\ jobStatus'[j] = jobStatus[j]
           /\ status'[j] = status[j] /\ calls'[j] = calls[j]]_vars
  BY <1>1
<1>3. QED
  BY ShapeInvariant, <1>2, PTL DEF Spec, StrandedIsInert

-----------------------------------------------------------------------------
(* What a task's step does to its own job, action by action.               *)

KeepsHands(w) == UNCHANGED <<worker[w].todo, worker[w].target, worker[w].outcome>>
KeepsRows(w)  == UNCHANGED <<status[w], attempt[w]>>
KeepsSent(w)  == UNCHANGED <<calls[w], posts[w]>>
Moves(w, from, to) == worker[w].pc = from /\ worker'[w].pc = to
Tells(w, p, s) == \E n \in 0..MaxAttempts :
  updates'[w] = Append(updates[w], [provider |-> p, status |-> s, attempt |-> n])

\* A row is written, and of the job's rows only that one.
Writes(w, i, s) ==
  /\ status'[w][i] = s
  /\ \A k \in Slots \ {i} : status'[w][k] = status[w][k] /\ attempt'[w][k] = attempt[w][k]

Claims(w) ==
  /\ Moves(w, "claim", "start") /\ worker'[w].todo = 1..rows[w]
  /\ UNCHANGED <<worker[w].target, worker[w].outcome>>
  /\ jobStatus'[w] = "running"
  /\ KeepsRows(w) /\ KeepsSent(w) /\ UNCHANGED updates[w]

Starts(w) ==
  /\ Moves(w, "start", "pick") /\ KeepsHands(w)
  /\ KeepsRows(w) /\ KeepsSent(w) /\ UNCHANGED jobStatus[w]
  /\ Tells(w, NoProvider, "running")

Picks(w) == \E i \in worker[w].todo :
  /\ worker[w].pc = "pick" /\ worker'[w].pc \in {"begin", "failing"}
  /\ worker'[w].todo = worker[w].todo \ {i} /\ worker'[w].target = i
  /\ UNCHANGED worker[w].outcome
  /\ worker'[w].pc = "failing" => ~ Usable(w, i) \/ faults' > 0
  /\ KeepsRows(w) /\ KeepsSent(w) /\ UNCHANGED jobStatus[w] /\ UNCHANGED updates[w]

Begins(w) ==
  /\ Moves(w, "begin", "call") /\ KeepsHands(w)
  /\ Writes(w, worker[w].target, "running")
  /\ KeepsSent(w) /\ UNCHANGED jobStatus[w] /\ UNCHANGED updates[w]

Calls(w) ==
  /\ Moves(w, "call", "waiting") /\ KeepsHands(w)
  /\ calls'[w] = [calls[w] EXCEPT ![worker[w].target] = @ + 1]
  /\ KeepsRows(w) /\ UNCHANGED posts[w] /\ UNCHANGED jobStatus[w]
  /\ \E p \in Providers : Tells(w, p, "running")

IsPosted(w) ==
  /\ Moves(w, "waiting", "posted") /\ KeepsHands(w)
  /\ posts'[w] = [posts[w] EXCEPT ![worker[w].target] = @ + 1]
  /\ KeepsRows(w) /\ UNCHANGED calls[w] /\ UNCHANGED jobStatus[w] /\ UNCHANGED updates[w]

Succeeds(w) ==
  /\ worker[w].pc \in {"waiting", "posted"} /\ worker'[w].pc = "completing"
  /\ UNCHANGED <<worker[w].todo, worker[w].target>>
  /\ worker'[w].outcome = IF worker[w].pc = "posted" THEN "published" ELSE "action_required"
  /\ KeepsRows(w) /\ KeepsSent(w) /\ UNCHANGED jobStatus[w] /\ UNCHANGED updates[w]

Fails(w) ==
  /\ worker[w].pc \in {"waiting", "posted"} /\ worker'[w].pc \in {"backoff", "failing"}
  /\ KeepsHands(w)
  /\ KeepsRows(w) /\ KeepsSent(w) /\ UNCHANGED jobStatus[w]
  /\ UNCHANGED updates[w] \/ \E p \in Providers : Tells(w, p, "retrying")

BacksOff(w) ==
  /\ Moves(w, "backoff", "begin") /\ KeepsHands(w)
  /\ KeepsRows(w) /\ KeepsSent(w) /\ UNCHANGED jobStatus[w] /\ UNCHANGED updates[w]

Records(w) ==
  /\ worker[w].pc \in {"completing", "failing"} /\ worker'[w].pc = "announce"
  /\ UNCHANGED <<worker[w].todo, worker[w].target>>
  /\ worker'[w].outcome = IF worker[w].pc = "completing" THEN worker[w].outcome ELSE "failed"
  /\ Writes(w, worker[w].target, worker'[w].outcome)
  /\ KeepsSent(w) /\ UNCHANGED jobStatus[w] /\ UNCHANGED updates[w]

Announces(w) ==
  /\ Moves(w, "announce", "pick") /\ worker'[w].outcome = "none"
  /\ UNCHANGED worker[w].todo
  /\ KeepsRows(w) /\ KeepsSent(w) /\ UNCHANGED jobStatus[w]
  /\ \E p \in Providers : /\ p = Asked(w)[worker[w].target].provider
                          /\ Tells(w, p, worker[w].outcome)

Finishes(w) ==
  /\ Moves(w, "pick", "finished") /\ KeepsHands(w) /\ worker[w].todo = {}
  /\ jobStatus'[w] = Rollup(w)
  /\ KeepsRows(w) /\ KeepsSent(w) /\ UNCHANGED updates[w]

Ends(w) ==
  /\ \/ /\ worker[w].pc = "finished" /\ worker'[w] = Task("done", w)
        /\ Tells(w, NoProvider, jobStatus[w])
     \/ worker'[w] = Task("dead", w) /\ UNCHANGED updates[w]
  /\ KeepsRows(w) /\ KeepsSent(w) /\ UNCHANGED jobStatus[w]

LEMMA TaskEffects ==
  ASSUME Shape, NEW w \in Requests, TaskMoves(w)
  PROVE  \/ Claims(w) \/ Starts(w) \/ Picks(w) \/ Begins(w) \/ Calls(w) \/ IsPosted(w)
         \/ Succeeds(w) \/ Fails(w) \/ BacksOff(w) \/ Records(w) \/ Announces(w)
         \/ Finishes(w) \/ Ends(w)
<1>0. /\ worker[w].pc \in Working /\ worker[w].job = w /\ worker[w] \in Worker
      /\ worker \in [Requests -> Worker]
      /\ jobStatus \in [Requests -> JobStatus] /\ RowsOK
      /\ worker[w].attempt \in 0..MaxAttempts
      /\ worker[w].pc \in Targeting => worker[w].target \in 1..rows[w] /\ worker[w].target \in Slots
      /\ worker[w].pc \in Targeting => ProviderOf(w) \in Providers
  BY TaskKeeps, TaskFacts DEF TaskShape, ProviderOf, Shape, TypeOK, Worker
<1>1. ASSUME NEW label, Goto(w, label) PROVE worker'[w].pc = label /\ KeepsHands(w)
  BY <1>0, <1>1 DEF Goto, KeepsHands, Worker
<1>2. ASSUME NEW p, NEW s, NEW n \in 0..MaxAttempts, Emit(w, p, s, n) PROVE Tells(w, p, s)
  BY <1>0, <1>2 DEF Emit, Tells, RowsOK
<1> USE DEF KeepsRows, KeepsSent, Moves
<1>3. CASE Claim(w)
  BY <1>0, <1>3 DEF Claim, At, Claims, provider, Worker
<1>4. CASE Start(w)
  BY <1>0, <1>1, <1>2, <1>4 DEF Start, At, Starts, database, provider, MaxAttempts
<1>5. CASE \E i \in Slots : Pick(w, i) \/ PickUnlucky(w, i)
  <2>1. PICK i \in Slots, ok \in BOOLEAN :
          PickTarget(w, i, ok) /\ (~ ok => ~ Usable(w, i) \/ faults' > 0)
    <3>1. CASE \E i \in Slots : Pick(w, i)
      BY <1>0, <3>1 DEF Pick, Usable
    <3>2. CASE \E i \in Slots : PickUnlucky(w, i)
      <4>1. faults + 1 > 0
        BY CrossPostAssumption DEF Shape, TypeOK
      <4>2. QED
        BY <3>2, <4>1 DEF PickUnlucky
    <3>3. QED
      BY <1>5, <3>1, <3>2
  <2>2. /\ worker[w].pc = "pick" /\ i \in worker[w].todo
        /\ worker'[w].pc = (IF ok THEN "begin" ELSE "failing")
        /\ worker'[w].todo = worker[w].todo \ {i} /\ worker'[w].target = i
        /\ worker'[w].outcome = worker[w].outcome
        /\ UNCHANGED <<jobStatus, status, attempt, updates, calls, posts>>
    BY <1>0, <2>1 DEF PickTarget, At, database, provider, Worker
  <2>3. QED
    BY <2>1, <2>2 DEF Picks
<1>6. CASE BeginAttempt(w)
  <2>1. worker[w].target \in Slots /\ worker[w].pc = "begin"
    BY <1>0, <1>6 DEF BeginAttempt, At, Targeting
  <2>2. Writes(w, worker[w].target, "running")
    BY <1>0, <1>6, <2>1 DEF BeginAttempt, Writes, RowsOK
  <2>3. QED
    BY <1>0, <1>1, <1>6, <2>1, <2>2 DEF BeginAttempt, Begins, provider
<1>7. CASE Call(w)
  <2>1. worker[w].target \in Slots /\ worker[w].pc = "call" /\ ProviderOf(w) \in Providers
    BY <1>0, <1>7 DEF Call, At, Targeting
  <2>2. calls'[w] = [calls[w] EXCEPT ![worker[w].target] = @ + 1]
    BY <1>0, <1>7 DEF Call, RowsOK
  <2>3. Tells(w, ProviderOf(w), "running")
    BY <1>0, <1>2, <1>7 DEF Call
  <2>4. QED
    BY <1>0, <1>1, <1>7, <2>1, <2>2, <2>3 DEF Call, Calls, database
<1>8. CASE ProviderPosts(w)
  <2>1. posts'[w] = [posts[w] EXCEPT ![worker[w].target] = @ + 1]
    BY <1>0, <1>8 DEF ProviderPosts, RowsOK
  <2>2. QED
    BY <1>0, <1>1, <1>8, <2>1 DEF ProviderPosts, At, IsPosted, database
<1>9. CASE Succeed(w)
  BY <1>0, <1>9 DEF Succeed, At, Receipt, Succeeds, database, provider, Worker
<1>10. CASE FailRetryable(w)
  <2>1. ProviderOf(w) \in Providers
    BY <1>0, <1>10 DEF FailRetryable, At, Targeting
  <2>2. QED
    BY <1>0, <1>1, <1>2, <1>10, <2>1 DEF FailRetryable, At, Fails, database, provider
<1>11. CASE FailFinally(w)
  BY <1>0, <1>1, <1>11 DEF FailFinally, At, Fails, database, provider
<1>12. CASE Backoff(w)
  BY <1>0, <1>12 DEF Backoff, At, BacksOff, KeepsHands, database, provider, Worker
<1>13. CASE Complete(w)
  <2>1. worker[w].target \in Slots /\ worker[w].pc = "completing"
    BY <1>0, <1>13 DEF Complete, At, Targeting
  <2>2. worker'[w].pc = "announce" /\ KeepsHands(w)
    BY <1>1, <1>13 DEF Complete
  <2>3. Writes(w, worker[w].target, worker[w].outcome)
    BY <1>0, <1>13, <2>1 DEF Complete, Writes, RowsOK
  <2>4. QED
    BY <1>0, <1>13, <2>1, <2>2, <2>3 DEF Complete, Records, KeepsHands, provider
<1>14. CASE RecordFailure(w)
  <2>1. worker[w].target \in Slots /\ worker[w].pc = "failing"
    BY <1>0, <1>14 DEF RecordFailure, At, Targeting
  <2>2. Writes(w, worker[w].target, "failed")
    BY <1>0, <1>14, <2>1 DEF RecordFailure, Writes, RowsOK
  <2>3. QED
    BY <1>0, <1>14, <2>1, <2>2 DEF RecordFailure, Records, provider, Worker
<1>15. CASE Announce(w)
  <2>1. /\ ProviderOf(w) \in Providers /\ ProviderOf(w) = Asked(w)[worker[w].target].provider
        /\ Tells(w, ProviderOf(w), worker[w].outcome)
    BY <1>0, <1>2, <1>15 DEF Announce, At, Targeting, ProviderOf
  <2>2. QED
    BY <1>0, <1>15, <2>1 DEF Announce, At, Announces, database, provider, Worker
<1>16. CASE Finish(w)
  BY <1>0, <1>1, <1>16 DEF Finish, At, Finishes, provider
<1>17. CASE AnnounceFinish(w)
  <2>1. Tells(w, NoProvider, jobStatus[w])
    BY <1>0, <1>2, <1>17 DEF AnnounceFinish, MaxAttempts
  <2>2. QED
    BY <1>0, <1>17, <2>1 DEF AnnounceFinish, At, Ends, database, provider
<1>18. CASE Abort(w)
  BY <1>0, <1>18 DEF Abort, Ends, database, provider
<1>19. QED
  BY <1>3, <1>4, <1>5, <1>6, <1>7, <1>8, <1>9, <1>10, <1>11, <1>12, <1>13, <1>14, <1>15, <1>16,
     <1>17, <1>18 DEF TaskMoves, WorkerStep

\* A crash takes the task and the channel, and leaves the rows.
Crashes(j) ==
  /\ worker'[j] = IF worker[j].pc \in Working THEN Task("dead", j) ELSE worker[j]
  /\ updates'[j] = <<>>
  /\ KeepsRows(j) /\ KeepsSent(j) /\ UNCHANGED jobStatus[j]

Commits(j) ==
  /\ worker[j].pc = "none" /\ ~ Committed(j) /\ jobStatus'[j] = "queued"
  /\ UNCHANGED <<worker[j], updates[j]>> /\ KeepsRows(j) /\ KeepsSent(j)

Spawns(j) ==
  /\ worker[j].pc = "none" /\ worker'[j] = Task("claim", j) /\ Committed(j)
  /\ UNCHANGED <<jobStatus[j], updates[j]>> /\ KeepsRows(j) /\ KeepsSent(j)

\* Of one job, every step is one of these.
LEMMA JobSteps ==
  ASSUME Shape, [Next]_vars, NEW j \in Requests
  PROVE  UNCHANGED Belongings(j) \/ Commits(j) \/ Spawns(j) \/ Crashes(j) \/ TaskMoves(j)
<1> USE DEF KeepsRows, KeepsSent
<1>1. ASSUME NEW r \in Requests, NEW b \in Bodies, Receive(r, b) PROVE UNCHANGED Belongings(j)
  BY <1>1 DEF Receive, database, memory, provider, Belongings
<1>2. ASSUME NEW r \in Requests, EarlyStep(r) \/ Drop(r) PROVE UNCHANGED Belongings(j)
  BY <1>2, EarlyKeeps DEF Drop, database, memory, provider, Belongings
<1>3. ASSUME NEW r \in Requests, Commit(r) PROVE UNCHANGED Belongings(j) \/ Commits(j)
  <2>1. worker[r].pc = "none" /\ ~ Committed(r)
    BY <1>3 DEF Commit, Shape, WorkerShape, JobShape
  <2>2. /\ UNCHANGED <<status, attempt, worker, updates, calls, posts>>
        /\ jobStatus' = [jobStatus EXCEPT ![r] = "queued"]
    BY <1>3 DEF Commit, memory, provider
  <2>3. QED
    BY <2>1, <2>2 DEF Commits, Belongings, Shape, TypeOK
<1>4. ASSUME NEW r \in Requests, Spawn(r) PROVE UNCHANGED Belongings(j) \/ Spawns(j)
  <2>1. worker[r].pc = "none" /\ Committed(r)
    BY <1>4 DEF Spawn, Shape, JobShape
  <2>2. QED
    BY <1>4, <2>1 DEF Spawn, Spawned, Spawns, Belongings, database, provider, Shape, TypeOK
<1>5. ASSUME NEW w \in Requests, TaskMoves(w) PROVE UNCHANGED Belongings(j) \/ TaskMoves(j)
  BY <1>5, TaskKeeps
<1>6. CASE UNCHANGED vars \/ \E c \in Connections : DeleteConnection(c)
  BY <1>6 DEF vars, database, memory, provider, DeleteConnection, Belongings
<1>7. CASE Crash
  <2>1. worker[j].pc \in Working => worker[j].job = j
    BY TaskFacts
  <2>2. QED
    BY <1>7, <2>1 DEF Crash, Crashes, database, provider
<1>8. QED
  BY <1>1, <1>2, <1>3, <1>4, <1>5, <1>6, <1>7, Steps

-----------------------------------------------------------------------------
(* Outcomes.                                                               *)

LEMMA OutcomeInit == Init => OutcomeInv
BY DEF Init, OutcomeInv, OutcomeOK, Task, Working, Targeting, Final

\* What was tried of a filed job stays so: its connections only go.
LEMMA TriedKept ==
  ASSUME Shape, [Next]_vars, NEW j \in Requests, Committed(j), NEW i, Tried(j, i),
         calls[j][i] > 0 => calls'[j][i] > 0
  PROVE  Tried(j, i)'
<1>1. body'[j] = body[j] /\ connections' \subseteq connections /\ faults <= faults'
      /\ faults \in Nat /\ faults' \in Nat
  BY Lasting
<1>2. Usable(j, i)' => Usable(j, i)
  BY <1>1 DEF Usable, Asked
<1>3. QED
  BY <1>1, <1>2 DEF Tried

\* Of a task at work: where it stands among its rows.
LEMMA PendingFacts ==
  ASSUME Shape, AttemptInv, NEW w \in Requests, worker[w].pc \in Working
  PROVE  /\ Pending(w) \subseteq 1..rows[w] /\ 1..rows[w] \subseteq Slots
         /\ worker[w].pc \in Targeting =>
              worker[w].target \in 1..rows[w] /\ worker[w].target \notin worker[w].todo
         /\ calls[w] \in [Slots -> Nat] /\ posts[w] \in [Slots -> Nat]
         /\ Committed(w)
BY TaskFacts DEF TaskShape, Pending, AttemptInv, AttemptOK, RowsOK, Shape, WorkerShape, JobShape

LEMMA OutcomeTask ==
  ASSUME Shape, AttemptInv, OutcomeInv, [Next]_vars, NEW w \in Requests, TaskMoves(w)
  PROVE  OutcomeOK(w)'
<1>1. /\ worker[w].pc \in Working /\ worker[w].job = w /\ Committed(w)
      /\ rows'[w] = rows[w] /\ OutcomeOK(w) /\ TaskShape(worker[w], rows[w], jobStatus[w])
      /\ faults' \in Nat
  BY TaskKeeps, TaskFacts, Lasting DEF OutcomeInv
<1>2. /\ Pending(w) \subseteq 1..rows[w] /\ 1..rows[w] \subseteq Slots
      /\ worker[w].pc \in Targeting =>
           worker[w].target \in 1..rows[w] /\ worker[w].target \notin worker[w].todo
      /\ calls[w] \in [Slots -> Nat] /\ posts[w] \in [Slots -> Nat]
  BY <1>1, PendingFacts
<1>3. \A i : Tried(w, i) /\ (calls[w][i] > 0 => calls'[w][i] > 0) => Tried(w, i)'
  BY <1>1, TriedKept
\* A task that goes on: its job runs, and its rows are as the invariant says.
<1>4. ASSUME worker'[w].pc \in Working \ {"claim", "finished"}, jobStatus'[w] = "running",
             \A i \in Pending(w)' : status'[w][i] \notin Final,
             \A i \in (1..rows[w]) \ Pending(w)' : status'[w][i] \in Final,
             \A i \in (1..rows[w]) \ Untried(w)' : Tried(w, i)'
      PROVE  OutcomeOK(w)'
  BY <1>1, <1>4 DEF OutcomeOK, Final, Working
<1>5. ASSUME worker[w].pc \in Working \ {"claim", "finished"}
      PROVE  /\ jobStatus[w] = "running"
             /\ \A i \in Pending(w) : status[w][i] \notin Final
             /\ \A i \in (1..rows[w]) \ Pending(w) : status[w][i] \in Final
             /\ \A i \in (1..rows[w]) \ Untried(w) : Tried(w, i)
  BY <1>1, <1>5 DEF OutcomeOK
<1> USE DEF Moves, KeepsHands, KeepsRows, KeepsSent
<1>6. CASE Claims(w)
  <2>1. worker'[w].pc = "start" /\ jobStatus'[w] = "running" /\ worker'[w].todo = 1..rows[w]
        /\ status'[w] = status[w]
    BY <1>6 DEF Claims
  <2>2. Pending(w)' = 1..rows[w] /\ Untried(w)' = 1..rows[w]
    BY <2>1 DEF Pending, Untried, Targeting
  <2>3. \A i \in Slots : status[w][i] \notin Final
    BY <1>1, <1>6 DEF Claims, OutcomeOK, Final
  <2>4. QED
    BY <1>2, <1>4, <2>1, <2>2, <2>3 DEF Working
\* Steps that write no row.
<1>7. ASSUME worker[w].pc \in Working \ {"claim", "finished"},
             worker'[w].pc \in Working \ {"claim", "finished"},
             jobStatus'[w] = jobStatus[w], status'[w] = status[w],
             \A i \in 1..rows[w] : calls[w][i] > 0 => calls'[w][i] > 0,
             Pending(w)' = Pending(w),
             \A i \in (1..rows[w]) \ Untried(w)' : i \in Untried(w) => Tried(w, i)'
      PROVE  OutcomeOK(w)'
  BY <1>3, <1>4, <1>5, <1>7
<1>8. CASE Starts(w)
  BY <1>7, <1>8 DEF Starts, Pending, Untried, Targeting, Working
<1>9. CASE Picks(w)
  <2>1. PICK i \in worker[w].todo :
          /\ worker[w].pc = "pick" /\ worker'[w].pc \in {"begin", "failing"}
          /\ worker'[w].todo = worker[w].todo \ {i} /\ worker'[w].target = i
          /\ worker'[w].pc = "failing" => ~ Usable(w, i) \/ faults' > 0
          /\ UNCHANGED <<status[w], calls[w], jobStatus[w]>>
    BY <1>9 DEF Picks
  <2>2. Pending(w)' = Pending(w)
    BY <2>1 DEF Pending, Targeting
  <2>3. Untried(w)' = IF worker'[w].pc = "begin" THEN Untried(w) ELSE Untried(w) \ {i}
    BY <2>1 DEF Untried
  <2>4. worker'[w].pc = "failing" => Tried(w, i)'
    <3>1. ~ Usable(w, i) => ~ Usable(w, i)'
      BY <1>1, Lasting DEF Usable, Asked
    <3>2. QED
      BY <2>1, <3>1 DEF Tried
  <2>5. QED
    BY <1>7, <2>1, <2>2, <2>3, <2>4 DEF Working
<1>10. CASE Begins(w)
  <2>1. /\ worker[w].pc = "begin" /\ worker'[w].pc = "call" /\ jobStatus'[w] = jobStatus[w]
        /\ worker'[w].todo = worker[w].todo /\ worker'[w].target = worker[w].target
        /\ calls'[w] = calls[w] /\ Writes(w, worker[w].target, "running")
    BY <1>10 DEF Begins
  <2>2. /\ Pending(w)' = Pending(w) /\ worker[w].target \in Pending(w)
        /\ Untried(w)' = Untried(w)
    BY <2>1 DEF Pending, Untried, Targeting
  <2>3. \A i \in 1..rows[w] : \/ status'[w][i] = status[w][i]
                              \/ i = worker[w].target /\ status'[w][i] = "running"
    BY <1>2, <2>1 DEF Writes
  <2>4. QED
    BY <1>2, <1>3, <1>4, <1>5, <2>1, <2>2, <2>3 DEF Working, Final
<1>11. CASE Calls(w)
  <2>1. /\ worker[w].pc = "call" /\ worker'[w].pc = "waiting" /\ jobStatus'[w] = jobStatus[w]
        /\ worker'[w].todo = worker[w].todo /\ worker'[w].target = worker[w].target
        /\ status'[w] = status[w] /\ calls'[w] = [calls[w] EXCEPT ![worker[w].target] = @ + 1]
    BY <1>11 DEF Calls
  <2>2. Pending(w)' = Pending(w) /\ Untried(w) = Untried(w)' \cup {worker[w].target}
    BY <2>1 DEF Pending, Untried, Targeting
  <2>3. worker[w].target \in Slots
    BY <1>2, <2>1 DEF Targeting
  <2>4. /\ \A i \in Slots : calls[w][i] > 0 => calls'[w][i] > 0
        /\ calls'[w][worker[w].target] > 0
    BY <1>2, <2>1, <2>3
  <2>5. \A i \in (1..rows[w]) \ Untried(w)' : i \in Untried(w) => Tried(w, i)'
    BY <2>2, <2>4 DEF Tried
  <2>6. QED
    BY <1>2, <1>7, <2>1, <2>2, <2>4, <2>5 DEF Working
<1>12. CASE IsPosted(w) \/ Succeeds(w) \/ Fails(w) \/ BacksOff(w)
  <2>1. /\ worker[w].pc \in {"waiting", "posted", "backoff"}
        /\ worker'[w].pc \in {"posted", "completing", "backoff", "failing", "begin"}
        /\ worker'[w].todo = worker[w].todo /\ worker'[w].target = worker[w].target
        /\ UNCHANGED <<jobStatus[w], status[w], calls[w]>>
    BY <1>12 DEF IsPosted, Succeeds, Fails, BacksOff
  <2>2. Pending(w)' = Pending(w) /\ Untried(w) \subseteq Untried(w)'
    BY <2>1 DEF Pending, Untried, Targeting
  <2>3. QED
    BY <1>7, <2>1, <2>2 DEF Working
<1>13. CASE Records(w)
  <2> DEFINE i == worker[w].target
  <2>1. /\ worker[w].pc \in {"completing", "failing"} /\ worker'[w].pc = "announce"
        /\ jobStatus'[w] = jobStatus[w] /\ calls'[w] = calls[w]
        /\ worker'[w].todo = worker[w].todo
        /\ status'[w][i] = worker'[w].outcome
        /\ \A k \in Slots \ {i} : status'[w][k] = status[w][k]
    BY <1>13 DEF Records, Writes
  <2>2. worker'[w].outcome \in Final
    BY <1>1, <1>13 DEF Records, TaskShape, Final
  <2>3. i \in 1..rows[w] /\ i \notin worker[w].todo
    BY <1>2, <2>1 DEF Targeting
  <2>4. /\ Pending(w) = worker[w].todo \cup {i} /\ Pending(w)' = worker[w].todo
        /\ Untried(w)' = Untried(w)
    BY <2>1 DEF Pending, Untried, Targeting
  <2>5. \A k \in 1..rows[w] : k = i \/ status'[w][k] = status[w][k]
    BY <1>2, <2>1
  <2>6. /\ jobStatus[w] = "running"
        /\ \A k \in worker[w].todo : status[w][k] \notin Final
        /\ \A k \in (1..rows[w]) \ (worker[w].todo \cup {i}) : status[w][k] \in Final
        /\ \A k \in (1..rows[w]) \ Untried(w) : Tried(w, k)'
    BY <1>3, <1>5, <2>1, <2>4 DEF Working
  <2>7. \A k \in worker[w].todo : k \in 1..rows[w]
    BY <1>2, <2>4
  <2>8. worker'[w].pc \in Working \ {"claim", "finished"}
    BY <2>1 DEF Working
  <2> HIDE DEF i
  <2>9. QED
    BY <1>4, <2>1, <2>2, <2>3, <2>4, <2>5, <2>6, <2>7, <2>8
<1>14. CASE Announces(w)
  BY <1>7, <1>14 DEF Announces, Pending, Untried, Targeting, Working
<1>15. CASE Finishes(w)
  <2>1. /\ worker[w].pc = "pick" /\ worker'[w].pc = "finished" /\ worker[w].todo = {}
        /\ jobStatus'[w] = Rollup(w) /\ calls'[w] = calls[w] /\ status'[w] = status[w]
    BY <1>15 DEF Finishes
  <2>2. Pending(w) = {} /\ Untried(w) = {} /\ Rollup(w)' = Rollup(w)
    BY <1>1, <2>1 DEF Pending, Untried, Targeting, Rollup, Some
  <2>3. \A i \in 1..rows[w] : status'[w][i] \in Final /\ Tried(w, i)'
    BY <1>3, <1>5, <2>1, <2>2 DEF Working
  <2>4. QED
    BY <1>1, <2>1, <2>2, <2>3 DEF OutcomeOK
<1>16. CASE Ends(w)
  <2>1. /\ worker'[w].pc \in {"done", "dead"}
        /\ jobStatus'[w] = jobStatus[w] /\ calls'[w] = calls[w] /\ status'[w] = status[w]
    BY <1>16 DEF Ends, Task
  <2>2. Rollup(w)' = Rollup(w)
    BY <1>1, <2>1 DEF Rollup, Some
  <2>3. jobStatus[w] \in Final =>
          jobStatus[w] = Rollup(w) /\ \A i \in 1..rows[w] : status[w][i] \in Final /\ Tried(w, i)'
    BY <1>1, <1>3, <2>1 DEF OutcomeOK
  <2>4. QED
    BY <1>1, <2>1, <2>2, <2>3 DEF OutcomeOK, Working
<1>17. QED
  BY <1>6, <1>8, <1>9, <1>10, <1>11, <1>12, <1>13, <1>14, <1>15, <1>16, TaskEffects

LEMMA OutcomeStep == Shape /\ AttemptInv /\ OutcomeInv /\ [Next]_vars => OutcomeInv'
<1> SUFFICES ASSUME Shape, AttemptInv, OutcomeInv, [Next]_vars, NEW w \in Requests
             PROVE  OutcomeOK(w)'
  BY DEF OutcomeInv
<1>1. OutcomeOK(w)
  BY DEF OutcomeInv
<1>2. worker[w].pc # "none" \/ jobStatus[w] \in Final => Committed(w)
  BY DEF Shape, WorkerShape, JobShape, Committed, Final
<1>3. Committed(w) => rows'[w] = rows[w]
  BY Lasting
<1>4. \A i : Committed(w) /\ Tried(w, i) /\ calls'[w] = calls[w] => Tried(w, i)'
  BY TriedKept
\* What is said of a finished job needs its rows only.
<1>5. ASSUME jobStatus[w] \in Final, KeepsRows(w), KeepsSent(w)
      PROVE  /\ jobStatus[w] = Rollup(w)'
             /\ \A i \in 1..rows'[w] : status'[w][i] \in Final /\ Tried(w, i)'
  <2>1. Rollup(w)' = Rollup(w)
    BY <1>2, <1>3, <1>5 DEF KeepsRows, Rollup, Some
  <2>2. QED
    BY <1>1, <1>2, <1>3, <1>4, <1>5, <2>1 DEF OutcomeOK, KeepsRows, KeepsSent
<1>6. CASE UNCHANGED Belongings(w)
  <2>1. /\ worker'[w] = worker[w] /\ jobStatus'[w] = jobStatus[w]
        /\ status'[w] = status[w] /\ calls'[w] = calls[w] /\ KeepsRows(w) /\ KeepsSent(w)
    BY <1>6 DEF Belongings, KeepsRows, KeepsSent
  <2>2. Pending(w)' = Pending(w) /\ Untried(w)' = Untried(w)
    BY <2>1 DEF Pending, Untried
  <2>3. QED
    BY <1>1, <1>2, <1>3, <1>4, <1>5, <2>1, <2>2 DEF OutcomeOK, Working
<1>7. CASE Commits(w) \/ Spawns(w)
  <2>1. /\ worker[w].pc = "none" /\ worker'[w].pc \in {"none", "claim"}
        /\ jobStatus'[w] = jobStatus[w] \/ jobStatus'[w] = "queued"
        /\ status'[w] = status[w]
    BY <1>7 DEF Commits, Spawns, Task, KeepsRows
  <2>2. QED
    BY <1>1, <2>1 DEF OutcomeOK, Working, Final
<1>8. CASE Crashes(w)
  <2>1. /\ \/ worker'[w].pc = "dead"
           \/ worker'[w] = worker[w] /\ worker[w].pc \notin Working
        /\ jobStatus'[w] = jobStatus[w] /\ status'[w] = status[w]
    BY <1>8 DEF Crashes, Task, KeepsRows
  <2>2. jobStatus[w] \in Final =>
          /\ jobStatus[w] = Rollup(w)'
          /\ \A i \in 1..rows'[w] : status'[w][i] \in Final /\ Tried(w, i)'
    BY <1>5, <1>8 DEF Crashes
  <2>3. QED
    BY <1>1, <2>1, <2>2 DEF OutcomeOK, Working
<1>9. CASE TaskMoves(w)
  BY <1>9, OutcomeTask
<1>10. QED
  BY <1>6, <1>7, <1>8, <1>9, JobSteps

LEMMA OutcomeInvariant == Spec => [](Shape /\ AttemptInv /\ OutcomeInv)
<1>1. Spec => []AttemptInv
  BY ShapeInvariant, AttemptInit, AttemptStep, PTL DEF Spec
<1>2. QED
  BY <1>1, ShapeInvariant, OutcomeInit, OutcomeStep, PTL DEF Spec

LEMMA RollupTold == OutcomeInv => RollupIsFaithful
<1> SUFFICES ASSUME OutcomeInv, NEW j \in Requests, jobStatus[j] \in Final
             PROVE  LET outcomes == {status[j][i] : i \in 1..rows[j]} IN
                    /\ outcomes \subseteq Final
                    /\ jobStatus[j] = "failed" <=> "failed" \in outcomes
                    /\ jobStatus[j] = "published" <=> outcomes \subseteq {"published"}
  BY DEF RollupIsFaithful
<1>1. jobStatus[j] = Rollup(j) /\ \A i \in 1..rows[j] : status[j][i] \in Final
  BY DEF OutcomeInv, OutcomeOK
<1>2. jobStatus[j] = "failed" <=> Some(j, "failed")
  BY <1>1 DEF Rollup
<1>3. jobStatus[j] = "published" <=> ~ Some(j, "failed") /\ ~ Some(j, "action_required")
  BY <1>1 DEF Rollup
<1>4. QED
  BY <1>1, <1>2, <1>3 DEF Some, Final

\* A finished job has only finished targets, it failed iff one of them did, and
\* it is published iff all of them are (worker.rs run, store.rs finish_job).
THEOREM FinishedJobTellsTruth == Spec => []RollupIsFaithful
BY OutcomeInvariant, RollupTold, PTL

\* A finished job called every provider it could, whatever became of the
\* targets before, unless reading the connection failed (worker.rs run).
THEOREM EveryTargetTried == Spec => []UntriedOnlyIfUnusable
<1>1. OutcomeInv => UntriedOnlyIfUnusable
  BY DEF OutcomeInv, OutcomeOK, Tried, UntriedOnlyIfUnusable
<1>2. QED
  BY <1>1, OutcomeInvariant, PTL

\* What is final of a job is kept.
Stays(j) ==
  /\ \A i \in Slots : status[j][i] \in Final =>
       status'[j][i] = status[j][i] /\ attempt'[j][i] = attempt[j][i]
  /\ jobStatus[j] \in Final =>
       jobStatus'[j] = jobStatus[j] /\ calls'[j] = calls[j] /\ posts'[j] = posts[j]

LEMMA FinalStays ==
  ASSUME Shape, AttemptInv, OutcomeInv, [Next]_vars, NEW j \in Requests
  PROVE  Stays(j)
<1> USE DEF Stays
<1>1. CASE UNCHANGED Belongings(j) \/ Spawns(j) \/ Crashes(j)
  BY <1>1 DEF Belongings, Spawns, Crashes, KeepsRows, KeepsSent
<1>2. CASE Commits(j)
  BY <1>2 DEF Commits, KeepsRows, KeepsSent, Committed, Final
<1>3. CASE TaskMoves(j)
  <2>1. worker[j].pc \in Working /\ OutcomeOK(j)
    BY <1>3, TaskKeeps DEF OutcomeInv
  <2>2. jobStatus[j] \in Final => worker[j].pc = "finished"
    BY <2>1 DEF OutcomeOK, Working
  <2>3. jobStatus[j] \in Final =>
          jobStatus'[j] = jobStatus[j] /\ calls'[j] = calls[j] /\ posts'[j] = posts[j]
    BY <1>3, <2>2, TaskEffects
       DEF Moves, Claims, Starts, Picks, Begins, Calls, IsPosted, Succeeds, Fails, BacksOff,
           Records, Announces, Finishes, Ends, KeepsSent
  <2>4. CASE Begins(j) \/ Records(j)
    <3>1. /\ worker[j].pc \in {"begin", "completing", "failing"}
          /\ \A k \in Slots \ {worker[j].target} :
               status'[j][k] = status[j][k] /\ attempt'[j][k] = attempt[j][k]
      BY <2>4 DEF Begins, Records, Writes, Moves
    <3>2. worker[j].target \in Pending(j) /\ status[j][worker[j].target] \notin Final
      BY <2>1, <3>1 DEF OutcomeOK, Pending, Targeting, Working
    <3>3. QED
      BY <2>3, <3>1, <3>2
  <2>5. CASE ~ (Begins(j) \/ Records(j))
    <3>1. KeepsRows(j)
      BY <1>3, <2>5, TaskEffects
         DEF Claims, Starts, Picks, Calls, IsPosted, Succeeds, Fails, BacksOff,
             Announces, Finishes, Ends
    <3>2. QED
      BY <2>3, <3>1 DEF KeepsRows
  <2>6. QED
    BY <2>4, <2>5
<1>4. QED
  BY <1>1, <1>2, <1>3, JobSteps

\* Finished is final: no step changes a finished target's row or a finished
\* job, and a finished job is not posted again (store.rs target_running,
\* target_complete, target_failed are unconditional UPDATEs).
THEOREM FinishedStays == Spec => SettledStays
<1>1. Shape /\ AttemptInv /\ OutcomeInv /\ [Next]_vars => [\A j \in Requests : Stays(j)]_vars
  BY FinalStays
<1>2. QED
  BY <1>1, OutcomeInvariant, PTL DEF Spec, SettledStays, Stays

-----------------------------------------------------------------------------
(* Posts.                                                                  *)

LEMMA PostedInit == Init => PostedInv
BY DEF Init, PostedInv, PostedOK, Task

LEMMA PostedTask ==
  ASSUME Shape, PostedInv, NEW w \in Requests, TaskMoves(w)
  PROVE  PostedOK(w)'
<1>1. /\ worker[w].pc \in Working /\ PostedOK(w) /\ posts[w] \in [Slots -> Nat]
      /\ TaskShape(worker[w], rows[w], jobStatus[w])
      /\ worker[w].pc \in Targeting => worker[w].target \in Slots
  BY TaskKeeps, TaskFacts DEF PostedInv, RowsOK, TaskShape
<1> USE DEF Moves, KeepsHands, KeepsRows, KeepsSent
<1>2. CASE Claims(w) \/ Starts(w) \/ Fails(w) \/ BacksOff(w) \/ Finishes(w) \/ Calls(w)
  BY <1>1, <1>2 DEF Claims, Starts, Fails, BacksOff, Finishes, Calls, PostedOK
<1>3. CASE Picks(w)
  BY <1>1, <1>3 DEF Picks, PostedOK
<1>4. CASE Begins(w)
  <2>1. \A k \in Slots : status'[w][k] = "published" => status[w][k] = "published"
    BY <1>4 DEF Begins, Writes
  <2>2. QED
    BY <1>1, <1>4, <2>1 DEF Begins, PostedOK
<1>5. CASE IsPosted(w)
  <2>1. worker[w].target \in Slots
    BY <1>1, <1>5 DEF IsPosted, Targeting
  <2>2. /\ \A k \in Slots : posts[w][k] > 0 => posts'[w][k] > 0
        /\ posts'[w][worker[w].target] > 0
    BY <1>1, <1>5, <2>1 DEF IsPosted
  <2>3. QED
    BY <1>1, <1>5, <2>2 DEF IsPosted, PostedOK
<1>6. CASE Succeeds(w)
  BY <1>1, <1>6 DEF Succeeds, PostedOK
<1>7. CASE Records(w)
  <2>1. worker[w].target \in Slots
    BY <1>1, <1>7 DEF Records, Targeting
  <2>2. worker'[w].outcome = "published" => posts[w][worker[w].target] > 0
    BY <1>1, <1>7 DEF Records, PostedOK
  <2>3. \A k \in Slots : status'[w][k] = "published" => posts[w][k] > 0
    BY <1>1, <1>7, <2>1, <2>2 DEF Records, Writes, PostedOK
  <2>4. QED
    BY <1>7, <2>2, <2>3 DEF Records, PostedOK
<1>8. CASE Announces(w)
  BY <1>1, <1>8 DEF Announces, PostedOK
<1>9. CASE Ends(w)
  BY <1>1, <1>9 DEF Ends, Task, PostedOK
<1>10. QED
  BY <1>2, <1>3, <1>4, <1>5, <1>6, <1>7, <1>8, <1>9, TaskEffects

LEMMA PostedStep == Shape /\ PostedInv /\ [Next]_vars => PostedInv'
<1> SUFFICES ASSUME Shape, PostedInv, [Next]_vars, NEW w \in Requests PROVE PostedOK(w)'
  BY DEF PostedInv
<1>1. PostedOK(w)
  BY DEF PostedInv
<1>2. CASE UNCHANGED Belongings(w)
  BY <1>1, <1>2 DEF Belongings, PostedOK
<1>3. CASE Commits(w) \/ Spawns(w) \/ Crashes(w)
  BY <1>1, <1>3 DEF Commits, Spawns, Crashes, KeepsRows, KeepsSent, Task, PostedOK
<1>4. CASE TaskMoves(w)
  BY <1>4, PostedTask
<1>5. QED
  BY <1>2, <1>3, <1>4, JobSteps

-----------------------------------------------------------------------------
(* Channels.                                                               *)

\* The places of the targets' outcomes in a list of messages.
OutcomesIn(u) == {n \in DOMAIN u : Outcome(u[n]) /\ ~ OfJob(u[n])}

LEMMA OneMore ==
  ASSUME NEW u \in Seq(Update), NEW m \in Update
  PROVE  /\ Len(u) \in Nat /\ Append(u, m) \in Seq(Update)
         /\ Len(Append(u, m)) = Len(u) + 1
         /\ DOMAIN u = 1..Len(u) /\ DOMAIN Append(u, m) = 1..(Len(u) + 1)
         /\ \A n \in DOMAIN u : Append(u, m)[n] = u[n]
         /\ Append(u, m)[Len(u) + 1] = m
         /\ OutcomesIn(Append(u, m)) =
              OutcomesIn(u) \cup (IF Outcome(m) /\ ~ OfJob(m) THEN {Len(u) + 1} ELSE {})
<1> DEFINE v == Append(u, m)
<1>1. /\ Len(u) \in Nat /\ v \in Seq(Update) /\ Len(v) = Len(u) + 1
      /\ \A n \in 1..Len(u) : v[n] = u[n]
      /\ v[Len(u) + 1] = m
  BY AppendProperties
<1>2. DOMAIN u = 1..Len(u) /\ DOMAIN v = 1..(Len(u) + 1)
  BY <1>1, LenProperties
<1> HIDE DEF v
<1>3. OutcomesIn(v) = OutcomesIn(u) \cup (IF Outcome(m) /\ ~ OfJob(m) THEN {Len(u) + 1} ELSE {})
  BY <1>1, <1>2 DEF OutcomesIn
<1>4. QED
  BY <1>1, <1>2, <1>3 DEF v

LEMMA OutcomesFinite ==
  ASSUME NEW u \in Seq(Update)
  PROVE  IsFiniteSet(OutcomesIn(u)) /\ Cardinality(OutcomesIn(u)) \in Nat
<1>1. Len(u) \in Nat /\ DOMAIN u = 1..Len(u)
  BY LenProperties
<1>2. IsFiniteSet(1..Len(u))
  BY <1>1, FS_Interval
<1>3. QED
  BY <1>1, <1>2, FS_Subset, FS_CardinalityType DEF OutcomesIn

LEMMA PastFinite ==
  ASSUME Shape, NEW w \in Requests
  PROVE  /\ IsFiniteSet(Past(w)) /\ Cardinality(Past(w)) \in Nat
         /\ rows[w] \in Nat /\ Cardinality(1..rows[w]) = rows[w]
<1>1. rows[w] \in Nat
  BY CrossPostAssumption DEF Shape, TypeOK
<1>2. IsFiniteSet(1..rows[w]) /\ Cardinality(1..rows[w]) = rows[w]
  BY <1>1, FS_Interval
<1>3. QED
  BY <1>1, <1>2, FS_Subset, FS_CardinalityType DEF Past

LEMMA ChannelInit == Init => ChannelInv
BY DEF Init, ChannelInv, ChannelOK, Task, Working

\* A message that tells no outcome.
LEMMA QuietMessage ==
  ASSUME Shape, NEW w \in Requests, NEW p \in Providers \cup {NoProvider},
         NEW s \in {"running", "retrying"}, Tells(w, p, s),
         \A n \in DOMAIN updates[w] : ~ Finishing(updates[w][n])
  PROVE  /\ \A n \in DOMAIN updates'[w] : ~ Finishing(updates'[w][n])
         /\ Outcomes(w)' = Outcomes(w)
<1>1. PICK n \in 0..MaxAttempts :
        updates'[w] = Append(updates[w], [provider |-> p, status |-> s, attempt |-> n])
  BY DEF Tells
<1> DEFINE m == [provider |-> p, status |-> s, attempt |-> n]
<1>2. m \in Update /\ ~ Outcome(m)
  BY DEF Update, Outcome, Final
<1> HIDE DEF m
<1>3. updates[w] \in Seq(Update) /\ updates'[w] = Append(updates[w], m)
  BY <1>1 DEF Shape, TypeOK, m
<1>4. OutcomesIn(updates'[w]) = OutcomesIn(updates[w])
  <2>1. OutcomesIn(updates'[w]) =
          OutcomesIn(updates[w]) \cup (IF Outcome(m) /\ ~ OfJob(m) THEN {Len(updates[w]) + 1} ELSE {})
    BY <1>2, <1>3, OneMore
  <2>2. QED
    BY <1>2, <2>1
<1>5. \A k \in DOMAIN updates'[w] : ~ Finishing(updates'[w][k])
  BY <1>2, <1>3, OneMore DEF Finishing
<1>6. QED
  BY <1>4, <1>5 DEF Outcomes, OutcomesIn

LEMMA ChannelTask ==
  ASSUME Shape, AttemptInv, ChannelInv, [Next]_vars, NEW w \in Requests, TaskMoves(w)
  PROVE  ChannelOK(w)'
<1>1. /\ worker[w].pc \in Working /\ ChannelOK(w) /\ rows'[w] = rows[w]
      /\ updates[w] \in Seq(Update)
      /\ TaskShape(worker[w], rows[w], jobStatus[w])
      /\ \A n \in DOMAIN updates[w] : ~ Finishing(updates[w][n])
      /\ worker[w].pc # "claim" => Cardinality(Outcomes(w)) = Cardinality(Past(w))
      /\ worker[w].pc \in Targeting =>
           worker[w].target \in 1..rows[w] /\ worker[w].target \notin worker[w].todo
  BY TaskKeeps, TaskFacts, PendingFacts DEF ChannelInv, ChannelOK, Shape, TypeOK
<1> USE DEF Moves, KeepsHands
\* Steps that finish no target and end no job.
<1>2. ASSUME worker'[w].pc \in Working \ {"claim", "start", "finished"},
             worker[w].pc # "claim", Past(w)' = Past(w),
             \/ UNCHANGED updates[w]
             \/ \E p \in Providers \cup {NoProvider}, s \in {"running", "retrying"} : Tells(w, p, s)
      PROVE  ChannelOK(w)'
  <2>1. /\ \A n \in DOMAIN updates'[w] : ~ Finishing(updates'[w][n])
        /\ Outcomes(w)' = Outcomes(w)
    <3>1. CASE UNCHANGED updates[w]
      BY <1>1, <3>1 DEF Outcomes
    <3>2. CASE \E p \in Providers \cup {NoProvider}, s \in {"running", "retrying"} : Tells(w, p, s)
      BY <1>1, <3>2, QuietMessage
    <3>3. QED
      BY <1>2, <3>1, <3>2
  <2>2. QED
    BY <1>1, <1>2, <2>1 DEF ChannelOK, Working
<1>3. CASE Claims(w)
  <2>1. updates[w] = <<>> /\ updates'[w] = <<>> /\ worker'[w].pc = "start"
        /\ worker'[w].todo = 1..rows[w]
    BY <1>1, <1>3 DEF Claims, ChannelOK
  <2>2. Past(w)' = {} /\ Outcomes(w)' = {}
    BY <1>1, <2>1 DEF Past, Outcomes
  <2>3. QED
    BY <2>1, <2>2 DEF ChannelOK
<1>4. CASE Starts(w)
  BY <1>1, <1>2, <1>4 DEF Starts, Past, Targeting, Working
<1>5. CASE Picks(w)
  BY <1>1, <1>2, <1>5 DEF Picks, Past, Targeting, Working
<1>6. CASE Begins(w) \/ IsPosted(w) \/ Succeeds(w) \/ BacksOff(w) \/ Records(w)
  BY <1>1, <1>2, <1>6 DEF Begins, IsPosted, Succeeds, BacksOff, Records, Past, Targeting, Working
<1>7. CASE Calls(w) \/ Fails(w)
  BY <1>1, <1>2, <1>7 DEF Calls, Fails, Past, Targeting, Working
<1>8. CASE Announces(w)
  <2>1. PICK p \in Providers : Tells(w, p, worker[w].outcome)
    BY <1>8 DEF Announces
  <2>2. PICK k \in 0..MaxAttempts : updates'[w] =
          Append(updates[w], [provider |-> p, status |-> worker[w].outcome, attempt |-> k])
    BY <2>1 DEF Tells
  <2> DEFINE m == [provider |-> p, status |-> worker[w].outcome, attempt |-> k]
             i == worker[w].target
  <2>3. m \in Update /\ Outcome(m) /\ ~ OfJob(m)
    BY <1>1, <1>8, CrossPostAssumption DEF Announces, TaskShape, Update, Outcome, OfJob
  <2> HIDE DEF m
  <2>4. /\ updates'[w] = Append(updates[w], m) /\ Len(updates[w]) \in Nat
        /\ OutcomesIn(updates'[w]) = OutcomesIn(updates[w]) \cup {Len(updates[w]) + 1}
        /\ \A n \in DOMAIN updates'[w] : ~ Finishing(updates'[w][n])
    BY <1>1, <2>2, <2>3, OneMore DEF m, Finishing
  <2>5. Len(updates[w]) + 1 \notin OutcomesIn(updates[w])
    BY <1>1, <2>3, OneMore DEF OutcomesIn
  <2>6. Cardinality(Outcomes(w)') = Cardinality(Outcomes(w)) + 1
    BY <1>1, <2>4, <2>5, OutcomesFinite, FS_AddElement DEF Outcomes, OutcomesIn
  <2>7. Past(w)' = Past(w) \cup {i} /\ i \notin Past(w)
    BY <1>1, <1>8 DEF Announces, Past, Targeting
  <2>8. Cardinality(Past(w)') = Cardinality(Past(w)) + 1
    BY <2>7, PastFinite, FS_AddElement
  <2>9. QED
    BY <1>1, <1>8, <2>4, <2>6, <2>8 DEF Announces, ChannelOK
<1>9. CASE Finishes(w)
  <2>1. /\ worker[w].pc = "pick" /\ worker'[w].pc = "finished" /\ worker'[w].todo = {}
        /\ worker[w].todo = {} /\ updates'[w] = updates[w]
    BY <1>9 DEF Finishes
  <2>2. Past(w)' = Past(w) /\ Outcomes(w)' = Outcomes(w)
    BY <1>1, <2>1 DEF Past, Outcomes, Targeting
  <2>3. QED
    BY <1>1, <2>1, <2>2 DEF ChannelOK
<1>10. CASE worker[w].pc = "finished" /\ worker'[w] = Task("done", w)
            /\ Tells(w, NoProvider, jobStatus[w])
  <2>1. PICK k \in 0..MaxAttempts : updates'[w] =
          Append(updates[w], [provider |-> NoProvider, status |-> jobStatus[w], attempt |-> k])
    BY <1>10 DEF Tells
  <2> DEFINE m == [provider |-> NoProvider, status |-> jobStatus[w], attempt |-> k]
  <2>2. m \in Update /\ OfJob(m) /\ updates'[w] = Append(updates[w], m)
    BY <1>1, <1>10, <2>1 DEF TaskShape, Update, OfJob
  <2> HIDE DEF m
  <2>3. /\ Len(updates[w]) \in Nat
        /\ Len(updates'[w]) = Len(updates[w]) + 1
        /\ OutcomesIn(updates'[w]) = OutcomesIn(updates[w])
        /\ \A n \in DOMAIN updates'[w] :
             Finishing(updates'[w][n]) => n = Len(updates'[w])
    <3>1. OutcomesIn(updates'[w]) =
            OutcomesIn(updates[w]) \cup
              (IF Outcome(m) /\ ~ OfJob(m) THEN {Len(updates[w]) + 1} ELSE {})
      BY <1>1, <2>2, OneMore
    <3>2. OutcomesIn(updates'[w]) = OutcomesIn(updates[w])
      BY <2>2, <3>1
    <3>3. /\ Len(updates[w]) \in Nat /\ Len(updates'[w]) = Len(updates[w]) + 1
          /\ \A n \in DOMAIN updates'[w] :
               \/ n \in DOMAIN updates[w] /\ updates'[w][n] = updates[w][n]
               \/ n = Len(updates[w]) + 1
      BY <1>1, <2>2, OneMore
    <3>4. QED
      BY <1>1, <3>2, <3>3
  <2>4. Past(w) = 1..rows[w]
    BY <1>1, <1>10 DEF ChannelOK, Past, Targeting
  <2>5. Cardinality(Outcomes(w)') = rows'[w]
    <3>1. Outcomes(w)' = Outcomes(w)
      BY <2>3 DEF Outcomes, OutcomesIn
    <3>2. QED
      BY <1>1, <1>10, <2>4, <3>1, PastFinite
  <2>6. QED
    BY <1>10, <2>3, <2>5 DEF ChannelOK, Task, Working
<1>11. CASE worker'[w] = Task("dead", w) /\ UNCHANGED updates[w]
  BY <1>1, <1>11 DEF ChannelOK, Task, Working
<1>12. QED
  BY <1>3, <1>4, <1>5, <1>6, <1>7, <1>8, <1>9, <1>10, <1>11, TaskEffects DEF Ends

LEMMA ChannelStep == Shape /\ AttemptInv /\ ChannelInv /\ [Next]_vars => ChannelInv'
<1> SUFFICES ASSUME Shape, AttemptInv, ChannelInv, [Next]_vars, NEW w \in Requests
             PROVE  ChannelOK(w)'
  BY DEF ChannelInv
<1>1. ChannelOK(w)
  BY DEF ChannelInv
<1>2. worker[w].pc # "none" => rows'[w] = rows[w]
  BY Lasting DEF Shape, WorkerShape, JobShape
<1>3. CASE UNCHANGED Belongings(w)
  <2>1. worker'[w] = worker[w] /\ updates'[w] = updates[w]
    BY <1>3 DEF Belongings
  <2>2. Outcomes(w)' = Outcomes(w)
    BY <2>1 DEF Outcomes
  <2>3. worker[w].pc # "none" => Past(w)' = Past(w)
    BY <1>2, <2>1 DEF Past
  <2>4. QED
    BY <1>1, <1>2, <2>1, <2>2, <2>3 DEF ChannelOK, Working
<1>4. CASE Commits(w) \/ Spawns(w) \/ Crashes(w)
  <2>1. updates'[w] = <<>>
    BY <1>1, <1>4 DEF Commits, Spawns, Crashes, ChannelOK
  <2>2. worker'[w].pc \in Working => worker'[w].pc = "claim"
    BY <1>4 DEF Commits, Spawns, Crashes, Task, Working
  <2>3. QED
    BY <2>1, <2>2 DEF ChannelOK
<1>5. CASE TaskMoves(w)
  BY <1>5, ChannelTask
<1>6. QED
  BY <1>3, <1>4, <1>5, JobSteps

\* "Job finished" is the last message of its channel, and the outcome of every
\* target has come before it (worker.rs run).
THEOREM FinishComesLast == Spec => []FinishedIsLast
<1>1. Spec => []ChannelInv
  BY OutcomeInvariant, ChannelInit, ChannelStep, PTL DEF Spec
<1>2. ChannelInv => FinishedIsLast
  BY DEF ChannelInv, ChannelOK, Finishing, FinishedIsLast
<1>3. QED
  BY <1>1, <1>2, PTL

-----------------------------------------------------------------------------
(* The ledger.                                                             *)

LedgerInv == Shape /\ KeyInv /\ AttemptInv /\ OutcomeInv /\ PostedInv

LEMMA LedgerInvariant == Spec => []LedgerInv
<1>1. Spec => []KeyInv
  BY ShapeInvariant, KeyInit, KeyStep, PTL DEF Spec
<1>2. Spec => []PostedInv
  BY ShapeInvariant, PostedInit, PostedStep, PTL DEF Spec
<1>3. QED
  BY <1>1, <1>2, OutcomeInvariant, PTL DEF LedgerInv

NoPosts == [i \in Slots |-> 0]

\* What the ledger shows of a key: nothing, or its one job; the same as long
\* as the job does not change.
LEMMA ShowsNothing ==
  ASSUME NEW k \in Ids, Under(k) = {}
  PROVE  /\ Of(k, jobStatus, "none") = "none" /\ Of(k, rows, 0) = 0
         /\ Of(k, posts, NoPosts) = NoPosts
BY DEF Of

LEMMA ShowsJob ==
  ASSUME NEW k \in Ids, NEW r \in Requests, Under(k) = {r}
  PROVE  /\ Of(k, jobStatus, "none") = jobStatus[r] /\ Of(k, rows, 0) = rows[r]
         /\ Of(k, posts, NoPosts) = posts[r]
<1>1. JobOf(k) = r
  BY DEF JobOf
<1>2. QED
  BY <1>1 DEF Of

LEMMA ShowsJobNext ==
  ASSUME NEW k \in Ids, NEW r \in Requests, Under(k)' = {r}
  PROVE  /\ Of(k, jobStatus, "none")' = jobStatus'[r] /\ Of(k, rows, 0)' = rows'[r]
         /\ Of(k, posts, NoPosts)' = posts'[r]
<1>1. JobOf(k)' = r
  BY DEF JobOf
<1>2. QED
  BY <1>1 DEF Of

LEMMA ShowsSame ==
  ASSUME NEW k \in Ids, Under(k)' = Under(k),
         \A j \in Under(k) : jobStatus'[j] = jobStatus[j] /\ rows'[j] = rows[j] /\ posts'[j] = posts[j]
  PROVE  /\ Of(k, jobStatus, "none")' = Of(k, jobStatus, "none")
         /\ Of(k, rows, 0)' = Of(k, rows, 0)
         /\ Of(k, posts, NoPosts)' = Of(k, posts, NoPosts)
<1>1. JobOf(k)' = JobOf(k) /\ (Under(k) # {} => JobOf(k) \in Under(k))
  BY DEF JobOf
<1>2. Of(k, jobStatus, "none")' = Of(k, jobStatus, "none")
  BY <1>1 DEF Of
<1>3. Of(k, rows, 0)' = Of(k, rows, 0)
  BY <1>1 DEF Of
<1>4. Of(k, posts, NoPosts)' = Of(k, posts, NoPosts)
  BY <1>1 DEF Of
<1>5. QED
  BY <1>2, <1>3, <1>4

LEMMA KeyIsId ==
  ASSUME Shape, NEW r \in Requests, InTx(r) \/ Committed(r)
  PROVE  KeyOf(r) \in Ids
<1>1. body[r] \in Bodies
  BY DEF Shape, HandlerShape, JobShape, InTx
<1>2. QED
  BY <1>1, CrossPostAssumption DEF KeyOf, Ids, Body

LEMMA UnderKept ==
  ASSUME Shape, [Next]_vars, NEW k \in Ids, \A j \in Requests : Committed(j)' => Committed(j)
  PROVE  Under(k)' = Under(k)
BY Lasting DEF Under, KeyOf

\* A commit files the key's job.
LEMMA LedgerFile ==
  ASSUME LedgerInv, [Next]_vars, NEW r \in Requests, Commit(r)
  PROVE  Ledger!Next
<1>1. Shape /\ InTx(r) /\ ~ Committed(r) /\ AttemptOK(r) /\ worker[r].pc = "none"
  BY DEF LedgerInv, Commit, InTx, Shape, JobShape, WorkerShape, AttemptInv
<1>2. PICK k \in Ids : k = KeyOf(r)
  BY <1>1, KeyIsId
<1>3. PICK n \in 0..MaxTargets : n = staged[r]
  BY <1>1 DEF Shape, TypeOK
<1>4. /\ jobStatus' = [jobStatus EXCEPT ![r] = "queued"] /\ rows' = [rows EXCEPT ![r] = n]
      /\ body' = body /\ posts' = posts
      /\ jobStatus \in [Requests -> JobStatus] /\ DOMAIN rows = Requests
  BY <1>1, <1>3 DEF Commit, Shape, TypeOK, provider
<1>5. Under(k) = {} /\ Under(k)' = {r}
  BY <1>1, <1>2, <1>4 DEF LedgerInv, KeyInv, Under, Committed, KeyOf
<1>6. \A q \in Ids \ {k} : Under(q)' = Under(q) /\ r \notin Under(q) /\ Under(q) \subseteq Requests
  BY <1>1, <1>2, <1>4 DEF Under, Committed, KeyOf
<1>7. posts[r] = NoPosts
  <2>1. posts[r] \in [Slots -> Nat] /\ calls[r] \in [Slots -> Nat]
    BY <1>1, TaskFacts DEF RowsOK, Shape, TypeOK
  <2>2. \A i \in Slots : posts[r][i] = 0
    BY <1>1, <2>1 DEF AttemptOK
  <2>3. QED
    BY <2>1, <2>2 DEF NoPosts
<1>8. /\ Of(k, jobStatus, "none") = "none" /\ Of(k, jobStatus, "none")' = "queued"
      /\ Of(k, rows, 0)' = n
      /\ Of(k, posts, NoPosts) = NoPosts /\ Of(k, posts, NoPosts)' = NoPosts
  BY <1>1, <1>4, <1>5, <1>7, ShowsNothing, ShowsJobNext
<1>9. \A q \in Ids \ {k} : /\ Of(q, jobStatus, "none")' = Of(q, jobStatus, "none")
                           /\ Of(q, rows, 0)' = Of(q, rows, 0)
                           /\ Of(q, posts, NoPosts)' = Of(q, posts, NoPosts)
  BY <1>4, <1>6, ShowsSame
<1>10. Ledger!File(k, n)
  BY <1>8, <1>9 DEF Ledger!File, NoPosts
<1>11. QED
  BY <1>10 DEF Ledger!Next

\* A task works on its key's job, and on what the ledger shows of that key only.
LEMMA LedgerTask ==
  ASSUME LedgerInv, [Next]_vars, NEW w \in Requests, TaskMoves(w)
  PROVE  [Ledger!Next]_(Ledger!ledger)
<1>1. /\ Shape /\ AttemptInv /\ Committed(w) /\ Committed(w)' /\ worker[w].pc \in Working
      /\ AttemptOK(w) /\ OutcomeOK(w) /\ PostedOK(w) /\ RowsOK
      /\ TaskShape(worker[w], rows[w], jobStatus[w])
      /\ rows' = rows /\ body' = body
      /\ \A q \in Requests \ {w} : UNCHANGED Belongings(q)
      /\ worker[w].pc \in Targeting => worker[w].target \in 1..rows[w] /\ worker[w].target \in Slots
  BY TaskKeeps, TaskFacts DEF LedgerInv, AttemptInv, OutcomeInv, PostedInv, TaskShape
<1>2. PICK k \in Ids : k = KeyOf(w)
  BY <1>1, KeyIsId
<1>3. \A q \in Ids : Under(q)' = Under(q)
  BY <1>1 DEF Under, KeyOf, Belongings, Committed
<1>4. Under(k) = {w} /\ \A q \in Ids \ {k} : w \notin Under(q)
  BY <1>1, <1>2 DEF LedgerInv, KeyInv, OneJobPerKey, Under
<1>5. /\ Of(k, jobStatus, "none") = jobStatus[w] /\ Of(k, jobStatus, "none")' = jobStatus'[w]
      /\ Of(k, rows, 0) = rows[w] /\ Of(k, rows, 0)' = rows[w]
      /\ Of(k, posts, NoPosts) = posts[w] /\ Of(k, posts, NoPosts)' = posts'[w]
  BY <1>1, <1>3, <1>4, ShowsJob, ShowsJobNext
<1>6. \A q \in Ids \ {k} : /\ Of(q, jobStatus, "none")' = Of(q, jobStatus, "none")
                           /\ Of(q, rows, 0)' = Of(q, rows, 0)
                           /\ Of(q, posts, NoPosts)' = Of(q, posts, NoPosts)
  BY <1>1, <1>3, <1>4, ShowsSame DEF Belongings, Under
<1>7. CASE Claims(w)
  <2>1. jobStatus[w] = "queued" /\ jobStatus'[w] = "running" /\ posts'[w] = posts[w]
    BY <1>1, <1>7 DEF Claims, Moves, OutcomeOK, Committed, KeepsSent
  <2>2. Ledger!Begin(k)
    BY <1>5, <1>6, <2>1 DEF Ledger!Begin, NoPosts
  <2>3. QED
    BY <2>2 DEF Ledger!Next
<1>8. CASE IsPosted(w)
  <2>1. PICK i \in Slots : i = worker[w].target /\ i \in 1..rows[w]
    BY <1>1, <1>8 DEF IsPosted, Moves, Targeting
  <2>2. posts[w][i] < MaxAttempts
    <3>1. /\ posts[w][i] \in Nat /\ calls[w][i] \in Nat /\ attempt[w][i] \in 0..MaxAttempts
      BY <1>1, <2>1 DEF RowsOK, Shape, TypeOK
    <3>2. posts[w][i] < calls[w][i] /\ calls[w][i] <= attempt[w][i]
      BY <1>1, <1>8, <2>1 DEF IsPosted, Moves, AttemptOK, Targeting
    <3>3. QED
      BY <3>1, <3>2 DEF MaxAttempts
  <2>3. /\ jobStatus[w] = "running" /\ jobStatus'[w] = "running"
        /\ posts'[w] = [posts[w] EXCEPT ![i] = @ + 1]
    BY <1>1, <1>8, <2>1 DEF IsPosted, Moves, OutcomeOK, Working
  <2>4. Ledger!Post(k, i)
    BY <1>5, <1>6, <2>2, <2>3 DEF Ledger!Post, NoPosts
  <2>5. i \in 1..Of(k, rows, 0)
    BY <1>5, <2>1
  <2>6. QED
    BY <2>4, <2>5 DEF Ledger!Next
<1>9. CASE Finishes(w)
  <2>1. /\ jobStatus[w] = "running" /\ jobStatus'[w] = Rollup(w) /\ posts'[w] = posts[w]
        /\ rows[w] \in 0..MaxTargets
        /\ \A i \in 1..rows[w] : status[w][i] \in Final
    BY <1>1, <1>9 DEF Finishes, Moves, OutcomeOK, Working, KeepsSent, Pending, Targeting, Shape, TypeOK
  <2>2. PICK s \in Ledger!Outcomes : s = Rollup(w)
    BY DEF Ledger!Outcomes, Rollup
  <2>3. s = "published" => \A i \in 1..rows[w] : status[w][i] = "published"
    BY <2>1, <2>2 DEF Rollup, Some, Final
  <2>4. s = "published" => \A i \in 1..rows[w] : posts[w][i] > 0
    BY <1>1, <2>1, <2>3, CrossPostAssumption DEF PostedOK, Slots
  <2>5. Ledger!Settle(k, s)
    BY <1>5, <1>6, <2>1, <2>2, <2>4 DEF Ledger!Settle, NoPosts
  <2>6. QED
    BY <2>5 DEF Ledger!Next
<1>10. CASE ~ (Claims(w) \/ IsPosted(w) \/ Finishes(w))
  <2>1. jobStatus'[w] = jobStatus[w] /\ posts'[w] = posts[w]
    BY <1>1, <1>10, TaskEffects
       DEF Starts, Picks, Begins, Calls, Succeeds, Fails, BacksOff, Records, Announces, Ends,
           KeepsSent
  <2>2. \A q \in Ids : /\ Of(q, jobStatus, "none")' = Of(q, jobStatus, "none")
                       /\ Of(q, rows, 0)' = Of(q, rows, 0)
                       /\ Of(q, posts, NoPosts)' = Of(q, posts, NoPosts)
    BY <1>5, <1>6, <2>1
  <2>3. QED
    BY <2>2 DEF Ledger!ledger, NoPosts
<1>11. QED
  BY <1>7, <1>8, <1>9, <1>10

LEMMA LedgerStep == LedgerInv /\ [Next]_vars => [Ledger!Next]_(Ledger!ledger)
<1> SUFFICES ASSUME LedgerInv, [Next]_vars PROVE [Ledger!Next]_(Ledger!ledger)
  OBVIOUS
<1>1. Shape
  BY DEF LedgerInv
<1>2. ASSUME NEW r \in Requests, Commit(r) PROVE Ledger!Next
  BY <1>2, LedgerFile
<1>3. ASSUME NEW w \in Requests, TaskMoves(w) PROVE [Ledger!Next]_(Ledger!ledger)
  BY <1>3, LedgerTask
<1>4. CASE UNCHANGED jobStatus /\ UNCHANGED posts
  <2>1. ASSUME NEW k \in Ids
        PROVE  /\ Of(k, jobStatus, "none")' = Of(k, jobStatus, "none")
               /\ Of(k, rows, 0)' = Of(k, rows, 0)
               /\ Of(k, posts, NoPosts)' = Of(k, posts, NoPosts)
    <3>1. Under(k)' = Under(k)
      BY <1>1, <1>4, UnderKept DEF Committed
    <3>2. \A j \in Under(k) : rows'[j] = rows[j]
      BY <1>1, Lasting DEF Under
    <3>3. QED
      BY <1>4, <3>1, <3>2, ShowsSame
  <2>2. QED
    BY <2>1 DEF Ledger!ledger, NoPosts
<1>5. ASSUME NEW r \in Requests, NEW b \in Bodies, Receive(r, b)
      PROVE  UNCHANGED jobStatus /\ UNCHANGED posts
  BY <1>5 DEF Receive, database, provider
<1>6. ASSUME NEW r \in Requests, EarlyStep(r) \/ Spawn(r) \/ Drop(r)
      PROVE  UNCHANGED jobStatus /\ UNCHANGED posts
  BY <1>1, <1>6, EarlyKeeps DEF Spawn, Drop, database, provider
<1>7. ASSUME Crash \/ UNCHANGED vars \/ \E c \in Connections : DeleteConnection(c)
      PROVE  UNCHANGED jobStatus /\ UNCHANGED posts
  BY <1>7 DEF Crash, DeleteConnection, vars, database, provider
<1>8. QED
  BY <1>2, <1>3, <1>4, <1>5, <1>6, <1>7, Steps

\* Per key at most one job is filed, begun and settled once; posts are made only
\* while it runs, at most three a target; and "published" says that every target
\* was posted (events.rs cross_post, store.rs enqueue_job and finish_job,
\* worker.rs run).
THEOREM CrossPostImplementsLedger == Spec => ImplementsLedger
<1>1. Init => Ledger!Init
  <2> SUFFICES ASSUME Init PROVE Ledger!Init
    OBVIOUS
  <2>1. \A k \in Ids : Under(k) = {}
    BY DEF Init, Under, Committed
  <2>2. \A k \in Ids : /\ Of(k, jobStatus, "none") = "none" /\ Of(k, rows, 0) = 0
                       /\ Of(k, posts, NoPosts) = NoPosts
    BY <2>1, ShowsNothing
  <2>3. QED
    BY <2>2 DEF Ledger!Init, NoPosts, Slots
<1>2. QED
  BY <1>1, LedgerStep, LedgerInvariant, PTL DEF Spec, ImplementsLedger, Ledger!Spec
=============================================================================
