------------------------------ MODULE CrossPost ------------------------------
(***************************************************************************)
(* Cross-posting an event: the request handler (events.rs `cross_post`),   *)
(* the transaction that files a job with its targets (store.rs             *)
(* `enqueue_job`), the background task that carries the job out (worker.rs *)
(* `run`), the foreign key and unique key of the schema, and what crashes, *)
(* dropped connections and failing statements do to all of them.           *)
(*                                                                         *)
(* A job is named by the request that filed it, a target by its job and    *)
(* its slot in that request's target list. The database runs at READ       *)
(* COMMITTED: rows of an open transaction are seen by no one else, but its *)
(* index entries and row locks make others wait.                           *)
(***************************************************************************)
EXTENDS Integers, Sequences, FiniteSets

CONSTANTS
  Requests,            \* POST /events/{id}/cross-post calls, one handler each
  Users, Keys, Events, Connections, Providers,
  EventOwner,          \* [Events -> Users]
  ConnectionOwner,     \* [Connections -> Users]
  ConnectionProvider,  \* [Connections -> Providers]
  Configured,          \* providers that have an adapter in this deployment
  Unreadable,          \* connections whose token envelope does not decrypt
  Bodies,              \* what a request may ask for
  MaxTargets,          \* bound on the length of a target list
  MaxFaults,           \* bound on crashes, drops and failing statements
  NoBody, NoJob, NoProvider

Target == [connection : Connections, provider : Providers]
Body   == [user : Users, key : Keys, event : Events, targets : Seq(Target)]

ASSUME CrossPostAssumption ==
  /\ MaxTargets \in Nat /\ MaxFaults \in Nat
  /\ EventOwner \in [Events -> Users]
  /\ ConnectionOwner \in [Connections -> Users]
  /\ ConnectionProvider \in [Connections -> Providers]
  /\ Configured \subseteq Providers
  /\ Unreadable \subseteq Connections
  /\ \A b \in Bodies : b \in Body /\ Len(b.targets) <= MaxTargets
  /\ NoBody \notin Bodies
  /\ NoJob \notin Requests
  /\ NoProvider \notin Providers

MaxAttempts == 3
Slots       == 1..MaxTargets
Final       == {"published", "action_required", "failed"}
JobStatus   == {"absent", "queued", "running"} \cup Final
RowStatus   == {"queued", "running"} \cup Final
Answered    == {"accepted", "replied", "refused"}
InFlight    == {"looking", "inserting", "checking", "filing", "committed"}
Stopped     == {"none", "done", "dead"}
Working     == {"claim", "start", "pick", "begin", "call", "waiting", "posted",
                "backoff", "completing", "failing", "announce", "finished"}
Update      == [provider : Providers \cup {NoProvider}, attempt : 0..MaxAttempts,
                status : {"running", "retrying"} \cup Final]
Worker      == [pc : Stopped \cup Working, job : Requests \cup {NoJob},
                todo : SUBSET Slots, target : 0..MaxTargets,
                attempt : 0..MaxAttempts, outcome : {"none"} \cup Final]

VARIABLES
  \* request handlers
  pc, body, reply,
  staged,       \* target rows an open transaction has inserted so far
  \* committed database state
  jobStatus, rows, status, attempt, connections,
  \* the process's memory: one task per spawning request, one channel per job
  worker, updates,
  \* observers: requests the provider was sent, posts it made of them
  calls, posts,
  faults

handlers == <<pc, body, reply, staged>>
database == <<jobStatus, rows, status, attempt, connections>>
memory   == <<worker, updates>>
provider == <<calls, posts>>
vars     == <<handlers, database, memory, provider, faults>>

\* A task of job j that holds nothing yet, or nothing any more.
Task(label, j) == [pc |-> label, job |-> j, todo |-> {}, target |-> 0,
                   attempt |-> 0, outcome |-> "none"]

Init ==
  /\ pc = [r \in Requests |-> "idle"]
  /\ body = [r \in Requests |-> NoBody]
  /\ reply = [r \in Requests |-> NoJob]
  /\ staged = [r \in Requests |-> 0]
  /\ jobStatus = [r \in Requests |-> "absent"]
  /\ rows = [r \in Requests |-> 0]
  /\ status = [r \in Requests |-> [i \in Slots |-> "queued"]]
  /\ attempt = [r \in Requests |-> [i \in Slots |-> 0]]
  /\ connections = Connections
  /\ worker = [r \in Requests |-> Task("none", NoJob)]
  /\ updates = [r \in Requests |-> <<>>]
  /\ calls = [r \in Requests |-> [i \in Slots |-> 0]]
  /\ posts = [r \in Requests |-> [i \in Slots |-> 0]]
  /\ faults = 0

-----------------------------------------------------------------------------
(* The handler and its transaction.                                        *)

KeyOf(r)     == <<body[r].user, body[r].key>>
Committed(r) == jobStatus[r] # "absent"

InTx(r)      == pc[r] \in {"checking", "filing"}
Asked(r)     == body[r].targets
TargetOf(r)  == Asked(r)[staged[r] + 1]

\* Mutant: the SELECT forgets the user.
ExistingOfAnyone(r) == {j \in Requests : Committed(j) /\ body[j].key = body[r].key}

\* What the SELECT of enqueue_job returns to r.
Existing(r) == {j \in Requests : Committed(j) /\ KeyOf(j) = KeyOf(r)}

\* UNIQUE (user_id, idempotency_key): an insert waits for an open transaction
\* that holds the key and fails on a committed one.
KeyHeld(r)  == \E t \in Requests \ {r} : InTx(t) /\ KeyOf(t) = KeyOf(r)

\* Mutant: no unique key.
NeverTaken(r) == FALSE

KeyTaken(r) == \E j \in Requests : Committed(j) /\ KeyOf(j) = KeyOf(r)

\* The rows a DELETE of c runs into: inserts of open transactions hold a
\* key-share lock on c (it waits), committed ones refuse it (RESTRICT).

\* Mutant: inserting a target locks nothing.
NeverLocked(c) == FALSE

Locked(c)     == \E r \in Requests : /\ InTx(r)
                                     /\ \E i \in 1..staged[r] : Asked(r)[i].connection = c
Referenced(c) == \E r \in Requests : /\ Committed(r)
                                     /\ \E i \in 1..rows[r] : Asked(r)[i].connection = c

\* The request arrives: get_event finds an event of this user, or answers 404.
Receive(r, b) ==
  /\ pc[r] = "idle"
  /\ body' = [body EXCEPT ![r] = b]
  /\ pc' = [pc EXCEPT ![r] = IF EventOwner[b.event] = b.user THEN "looking" ELSE "refused"]
  /\ UNCHANGED <<reply, staged, database, memory, provider, faults>>

\* A task for job j, started by the handler of r.
Spawned(r, j) == [worker EXCEPT ![r] = Task("claim", j)]

\* Mutant: a replay starts a task for the job it finds.
ReplayRespawns(r) ==
  /\ pc[r] = "looking"
  /\ \E j \in Existing(r) : /\ reply' = [reply EXCEPT ![r] = j]
                            /\ worker' = Spawned(r, j)
  /\ pc' = [pc EXCEPT ![r] = "replied"]
  /\ UNCHANGED <<body, staged, database, updates, provider, faults>>

\* The SELECT finds the key's job: it is returned as it is, and nothing spawned.
Replay(r) ==
  /\ pc[r] = "looking"
  /\ \E j \in Existing(r) : reply' = [reply EXCEPT ![r] = j]
  /\ pc' = [pc EXCEPT ![r] = "replied"]
  /\ UNCHANGED <<body, staged, database, memory, provider, faults>>

Miss(r) ==
  /\ pc[r] = "looking"
  /\ Existing(r) = {}
  /\ pc' = [pc EXCEPT ![r] = "inserting"]
  /\ UNCHANGED <<body, reply, staged, database, memory, provider, faults>>

\* The job row is inserted, or the unique key refuses it and the call ends in 500.
InsertJob(r) ==
  /\ pc[r] = "inserting"
  /\ ~KeyHeld(r)
  /\ pc' = [pc EXCEPT ![r] = IF KeyTaken(r) THEN "refused" ELSE "checking"]
  /\ UNCHANGED <<body, reply, staged, database, memory, provider, faults>>

ConnectionMatches(r) ==
  /\ TargetOf(r).connection \in connections
  /\ ConnectionOwner[TargetOf(r).connection] = body[r].user
  /\ ConnectionProvider[TargetOf(r).connection] = TargetOf(r).provider

\* The next target's connection is looked up: 400 and rollback unless it is
\* the user's and of the provider the target names.
CheckConnection(r) ==
  /\ pc[r] = "checking"
  /\ staged[r] < Len(Asked(r))
  /\ pc' = [pc EXCEPT ![r] = IF ConnectionMatches(r) THEN "filing" ELSE "refused"]
  /\ UNCHANGED <<body, reply, staged, database, memory, provider, faults>>

\* A connection deleted since the check makes the foreign key refuse the insert.
InsertTarget(r) ==
  /\ pc[r] = "filing"
  /\ IF TargetOf(r).connection \in connections
     THEN /\ staged' = [staged EXCEPT ![r] = @ + 1]
          /\ pc' = [pc EXCEPT ![r] = "checking"]
     ELSE /\ pc' = [pc EXCEPT ![r] = "refused"]
          /\ UNCHANGED staged
  /\ UNCHANGED <<body, reply, database, memory, provider, faults>>

\* The commit takes effect; the handler learns of it in Spawn, if it lives.
Commit(r) ==
  /\ pc[r] = "checking"
  /\ staged[r] = Len(Asked(r))
  /\ jobStatus' = [jobStatus EXCEPT ![r] = "queued"]
  /\ rows' = [rows EXCEPT ![r] = staged[r]]
  /\ pc' = [pc EXCEPT ![r] = "committed"]
  /\ UNCHANGED <<body, reply, staged, status, attempt, connections, memory, provider, faults>>

Spawn(r) ==
  /\ pc[r] = "committed"
  /\ worker' = Spawned(r, r)
  /\ reply' = [reply EXCEPT ![r] = r]
  /\ pc' = [pc EXCEPT ![r] = "accepted"]
  /\ UNCHANGED <<body, staged, database, updates, provider, faults>>

\* DELETE of a connection by its owner, a statement of its own.
DeleteConnection(c) ==
  /\ c \in connections
  /\ ~Locked(c) /\ ~Referenced(c)
  /\ connections' = connections \ {c}
  /\ UNCHANGED <<handlers, jobStatus, rows, status, attempt, memory, provider, faults>>

HandlerStep(r) ==
  \/ Replay(r) \/ Miss(r) \/ InsertJob(r) \/ CheckConnection(r)
  \/ InsertTarget(r) \/ Commit(r) \/ Spawn(r)

-----------------------------------------------------------------------------
(* The background task.                                                    *)

At(w, label) == worker[w].pc = label
Goto(w, label) == worker' = [worker EXCEPT ![w].pc = label]
ProviderOf(w)  == Asked(worker[w].job)[worker[w].target].provider

\* The next message on job j's channel, kept here for every reader there may be.
Emit(j, p, s, n) ==
  updates' = [updates EXCEPT ![j] = Append(@, [provider |-> p, status |-> s, attempt |-> n])]

\* claim_targets: an unconditional UPDATE of the job, then its targets are read.
Claim(w) ==
  /\ At(w, "claim")
  /\ jobStatus' = [jobStatus EXCEPT ![worker[w].job] = "running"]
  /\ worker' = [worker EXCEPT ![w].pc = "start", ![w].todo = 1..rows[worker[w].job]]
  /\ UNCHANGED <<handlers, rows, status, attempt, connections, updates, provider, faults>>

Start(w) ==
  /\ At(w, "start")
  /\ Emit(worker[w].job, NoProvider, "running", 0)
  /\ Goto(w, "pick")
  /\ UNCHANGED <<handlers, database, provider, faults>>

\* The connection is read, its adapter found and its tokens decrypted.
Usable(j, i) == LET t == Asked(j)[i] IN
  /\ t.connection \in connections
  /\ ConnectionOwner[t.connection] = body[j].user
  /\ t.provider \in Configured
  /\ t.connection \notin Unreadable

\* Mutant: the task ends at a target it cannot use.
PickTargetAborts(w, i, ok) ==
  /\ At(w, "pick")
  /\ i \in worker[w].todo
  /\ worker' = [worker EXCEPT ![w] =
       IF ok THEN [@ EXCEPT !.todo = @ \ {i}, !.target = i, !.pc = "begin", !.attempt = 1]
       ELSE Task("dead", @.job)]
  /\ UNCHANGED <<handlers, database, updates, provider>>

\* Mutant: `break` for `continue`, the targets after a failed one are skipped.
PickTargetBreaks(w, i, ok) ==
  /\ At(w, "pick")
  /\ i \in worker[w].todo
  /\ worker' = [worker EXCEPT ![w].todo = IF ok THEN @ \ {i} ELSE {}, ![w].target = i,
                              ![w].pc = IF ok THEN "begin" ELSE "failing",
                              ![w].attempt = IF ok THEN 1 ELSE 0]
  /\ UNCHANGED <<handlers, database, updates, provider>>

\* Mutant: the target is taken twice.
PickTargetKeeps(w, i, ok) ==
  /\ At(w, "pick")
  /\ i \in worker[w].todo
  /\ worker' = [worker EXCEPT ![w].target = i,
                              ![w].pc = IF ok THEN "begin" ELSE "failing",
                              ![w].attempt = IF ok THEN 1 ELSE 0]
  /\ UNCHANGED <<handlers, database, updates, provider>>

\* The loop takes the next target (rows are ordered by a random id: any order).
\* A target that cannot be used fails alone, as attempt 0; the others go on.
PickTarget(w, i, ok) ==
  /\ At(w, "pick")
  /\ i \in worker[w].todo
  /\ worker' = [worker EXCEPT ![w].todo = @ \ {i}, ![w].target = i,
                              ![w].pc = IF ok THEN "begin" ELSE "failing",
                              ![w].attempt = IF ok THEN 1 ELSE 0]
  /\ UNCHANGED <<handlers, database, updates, provider>>

Pick(w, i) ==
  /\ PickTarget(w, i, Usable(worker[w].job, i))
  /\ UNCHANGED faults

\* The read of the connection itself fails: the code fails the target, not the job.
PickUnlucky(w, i) ==
  /\ faults < MaxFaults
  /\ PickTarget(w, i, FALSE)
  /\ faults' = faults + 1

\* Mutant: the row says "running" but not which attempt.
BeginUnrecorded(w) ==
  /\ At(w, "begin")
  /\ status' = [status EXCEPT ![worker[w].job][worker[w].target] = "running"]
  /\ Goto(w, "call")
  /\ UNCHANGED <<handlers, jobStatus, rows, attempt, connections, updates, provider, faults>>

\* target_running: the attempt is on record before the request is sent.
BeginAttempt(w) ==
  /\ At(w, "begin")
  /\ LET j == worker[w].job  i == worker[w].target IN
     /\ status' = [status EXCEPT ![j][i] = "running"]
     /\ attempt' = [attempt EXCEPT ![j][i] = worker[w].attempt]
  /\ Goto(w, "call")
  /\ UNCHANGED <<handlers, jobStatus, rows, connections, updates, provider, faults>>

Call(w) ==
  /\ At(w, "call")
  /\ Emit(worker[w].job, ProviderOf(w), "running", worker[w].attempt)
  /\ calls' = [calls EXCEPT ![worker[w].job][worker[w].target] = @ + 1]
  /\ Goto(w, "waiting")
  /\ UNCHANGED <<handlers, database, posts, faults>>

\* The provider carries the request out (its answer may still be lost).
ProviderPosts(w) ==
  /\ At(w, "waiting")
  /\ posts' = [posts EXCEPT ![worker[w].job][worker[w].target] = @ + 1]
  /\ Goto(w, "posted")
  /\ UNCHANGED <<handlers, database, updates, calls, faults>>

\* publish returns Ok: the post is up, or is handed to the user to finish.
Receipt(w) == IF At(w, "posted") THEN "published" ELSE "action_required"

Succeed(w) ==
  /\ At(w, "posted") \/ At(w, "waiting")
  /\ worker' = [worker EXCEPT ![w].pc = "completing", ![w].outcome = Receipt(w)]
  /\ UNCHANGED <<handlers, database, updates, provider, faults>>

\* A retryable error (no answer, 429, 5xx) of an attempt before the last: back
\* off. The provider may have posted all the same.

\* Mutant: one attempt too many.
CanRetryOnceMore(w) == worker[w].attempt <= MaxAttempts

CanRetry(w) == worker[w].attempt < MaxAttempts

FailRetryable(w) ==
  /\ At(w, "posted") \/ At(w, "waiting")
  /\ CanRetry(w)
  /\ Emit(worker[w].job, ProviderOf(w), "retrying", worker[w].attempt)
  /\ Goto(w, "backoff")
  /\ UNCHANGED <<handlers, database, provider, faults>>

\* Mutant: the failure is emitted before its row is written.
FailFinallyTells(w) ==
  /\ At(w, "waiting") \/ (At(w, "posted") /\ ~CanRetry(w))
  /\ Emit(worker[w].job, ProviderOf(w), "failed", worker[w].attempt)
  /\ Goto(w, "failing")
  /\ UNCHANGED <<handlers, database, provider, faults>>

\* An error that ends the target: any error of the last attempt, and one that
\* is not retryable of an earlier attempt (the provider refused: no post).
FailFinally(w) ==
  /\ At(w, "waiting") \/ (At(w, "posted") /\ ~CanRetry(w))
  /\ Goto(w, "failing")
  /\ UNCHANGED <<handlers, database, updates, provider, faults>>

\* Mutant: the loop has no third round, the task sleeps on.
BackoffOnce(w) ==
  /\ At(w, "backoff")
  /\ worker[w].attempt + 1 < MaxAttempts
  /\ worker' = [worker EXCEPT ![w].pc = "begin", ![w].attempt = @ + 1]
  /\ UNCHANGED <<handlers, database, updates, provider, faults>>

Backoff(w) ==
  /\ At(w, "backoff")
  /\ worker' = [worker EXCEPT ![w].pc = "begin", ![w].attempt = @ + 1]
  /\ UNCHANGED <<handlers, database, updates, provider, faults>>

\* target_complete.
Complete(w) ==
  /\ At(w, "completing")
  /\ status' = [status EXCEPT ![worker[w].job][worker[w].target] = worker[w].outcome]
  /\ Goto(w, "announce")
  /\ UNCHANGED <<handlers, jobStatus, rows, attempt, connections, updates, provider, faults>>

\* target_failed.
RecordFailure(w) ==
  /\ At(w, "failing")
  /\ LET j == worker[w].job  i == worker[w].target IN
     /\ status' = [status EXCEPT ![j][i] = "failed"]
     /\ attempt' = [attempt EXCEPT ![j][i] = worker[w].attempt]
  /\ worker' = [worker EXCEPT ![w].pc = "announce", ![w].outcome = "failed"]
  /\ UNCHANGED <<handlers, jobStatus, rows, connections, updates, provider, faults>>

\* Mutant: a target that was never sent to its provider fails silently.
AnnounceAttempts(w) ==
  /\ At(w, "announce")
  /\ IF worker[w].attempt > 0
     THEN Emit(worker[w].job, ProviderOf(w), worker[w].outcome, worker[w].attempt)
     ELSE UNCHANGED updates
  /\ worker' = [worker EXCEPT ![w].pc = "pick", ![w].outcome = "none",
                              ![w].target = 0, ![w].attempt = 0]
  /\ UNCHANGED <<handlers, database, provider, faults>>

\* Only once the row is written is its outcome emitted.
Announce(w) ==
  /\ At(w, "announce")
  /\ Emit(worker[w].job, ProviderOf(w), worker[w].outcome, worker[w].attempt)
  /\ worker' = [worker EXCEPT ![w].pc = "pick", ![w].outcome = "none",
                              ![w].target = 0, ![w].attempt = 0]
  /\ UNCHANGED <<handlers, database, provider, faults>>

\* What finish_job computes from the target rows.
Some(j, s) == \E i \in 1..rows[j] : status[j][i] = s

\* Mutant: what the user has to do hides what failed.
RollupActionsFirst(j) ==
  CASE Some(j, "action_required") -> "action_required"
    [] ~Some(j, "action_required") /\ Some(j, "failed") -> "failed"
    [] OTHER -> "published"

Rollup(j)  == CASE Some(j, "failed")          -> "failed"
                [] ~Some(j, "failed") /\ Some(j, "action_required") -> "action_required"
                [] OTHER                      -> "published"

\* finish_job: two counts and an update (no one else writes the job's rows).
Finish(w) ==
  /\ At(w, "pick")
  /\ worker[w].todo = {}
  /\ jobStatus' = [jobStatus EXCEPT ![worker[w].job] = Rollup(worker[w].job)]
  /\ Goto(w, "finished")
  /\ UNCHANGED <<handlers, rows, status, attempt, connections, updates, provider, faults>>

\* The status is read back and the last message of the channel emitted.
AnnounceFinish(w) ==
  /\ At(w, "finished")
  /\ Emit(worker[w].job, NoProvider, jobStatus[worker[w].job], 0)
  /\ worker' = [worker EXCEPT ![w] = Task("done", worker[w].job)]
  /\ UNCHANGED <<handlers, database, provider, faults>>

WorkerStep(w) ==
  \/ Claim(w) \/ Start(w) \/ (\E i \in Slots : Pick(w, i))
  \/ BeginAttempt(w) \/ Call(w) \/ Succeed(w) \/ FailRetryable(w) \/ FailFinally(w)
  \/ Backoff(w) \/ Complete(w) \/ RecordFailure(w) \/ Announce(w)
  \/ Finish(w) \/ AnnounceFinish(w)

-----------------------------------------------------------------------------
(* Faults, MaxFaults of them at most.                                      *)

\* The client hangs up and the handler's future is dropped at an await, or a
\* statement fails: an open transaction rolls back, a commit already applied stays.
Drop(r) ==
  /\ faults < MaxFaults
  /\ pc[r] \in InFlight
  /\ pc' = [pc EXCEPT ![r] = "dropped"]
  /\ faults' = faults + 1
  /\ UNCHANGED <<body, reply, staged, database, memory, provider>>

\* A statement of the worker fails, before or after it took effect: `?` leaves
\* run and nothing is left of the task.
AwaitsDatabase(w) ==
  \/ worker[w].pc \in {"claim", "start", "begin", "call", "completing", "failing",
                       "announce", "finished"}
  \/ At(w, "pick") /\ worker[w].todo = {}

Abort(w) ==
  /\ faults < MaxFaults
  /\ AwaitsDatabase(w)
  /\ worker' = [worker EXCEPT ![w] = Task("dead", worker[w].job)]
  /\ faults' = faults + 1
  /\ UNCHANGED <<handlers, database, updates, provider>>

\* The process stops (a deploy's shutdown does not wait for the tasks either)
\* and starts again: handlers, tasks and channels are gone, the database stays,
\* and nothing in main looks for unfinished jobs.
Crash ==
  /\ faults < MaxFaults
  /\ faults' = faults + 1
  /\ pc' = [r \in Requests |-> IF pc[r] \in InFlight THEN "dropped" ELSE pc[r]]
  /\ worker' = [w \in Requests |-> IF worker[w].pc \in Working
                                   THEN Task("dead", worker[w].job) ELSE worker[w]]
  /\ updates' = [r \in Requests |-> <<>>]
  /\ UNCHANGED <<body, reply, staged, database, provider>>

-----------------------------------------------------------------------------
Next ==
  \/ \E r \in Requests, b \in Bodies : Receive(r, b)
  \/ \E r \in Requests : HandlerStep(r) \/ Drop(r)
  \/ \E w \in Requests : WorkerStep(w) \/ ProviderPosts(w) \/ Abort(w)
  \/ \E w \in Requests, i \in Slots : PickUnlucky(w, i)
  \/ \E c \in Connections : DeleteConnection(c)
  \/ Crash

Spec == Init /\ [][Next]_vars
=============================================================================
