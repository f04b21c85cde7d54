-------------------------- MODULE CrossPostInductive --------------------------
(***************************************************************************)
(* The inductive strengthenings of the invariants of CrossPostProperties:  *)
(* how a handler's and a task's program counters go with what they hold    *)
(* and with the rows they have written.                                    *)
(***************************************************************************)
EXTENDS CrossPostProperties

Targeting  == {"begin", "call", "waiting", "posted", "backoff", "completing",
               "failing", "announce"}
Attempting == {"begin", "call", "waiting", "posted", "backoff"}

\* Handlers: whoever has arrived has a body, and what a handler has staged are
\* targets it was asked for.
HandlerShape == \A r \in Requests :
  /\ pc[r] # "idle" => body[r] \in Bodies
  /\ pc[r] \in {"idle", "looking", "inserting"} => staged[r] = 0
  /\ InTx(r) => staged[r] <= Len(Asked(r))
  /\ pc[r] = "filing" => staged[r] < Len(Asked(r))

\* Jobs: a committed job has its handler past the commit and all its targets.
JobShape == \A r \in Requests :
  /\ Committed(r) => /\ pc[r] \in {"committed", "accepted", "dropped"}
                     /\ rows[r] = Len(Asked(r))
  /\ pc[r] \in {"committed", "accepted"} => Committed(r)
  /\ pc[r] = "committed" => worker[r].pc = "none"

\* Tasks: each works on the job of the handler that spawned it, and its target
\* and attempt are those of a row of the job.
WorkerShape == \A w \in Requests :
  /\ worker[w].pc # "none" => worker[w].job = w /\ pc[w] = "accepted"
  /\ worker[w].pc \in Working => worker[w].todo \subseteq 1..rows[w]
  /\ worker[w].pc \in Targeting => worker[w].target \in 1..rows[w]
  /\ worker[w].pc \in Attempting => worker[w].attempt \in 1..MaxAttempts
  /\ worker[w].pc = "backoff" => worker[w].attempt < MaxAttempts
  /\ worker[w].pc \in {"completing", "announce"} => worker[w].outcome \in Final
  /\ worker[w].pc = "finished" => jobStatus[w] \in Final

Shape == TypeOK /\ HandlerShape /\ JobShape /\ WorkerShape

\* Keys: an open transaction that has inserted its job holds its key alone.
KeyInv ==
  /\ OneJobPerKey
  /\ \A r, j \in Requests : InTx(r) /\ Committed(j) => KeyOf(r) # KeyOf(j)
  /\ \A r, t \in Requests : InTx(r) /\ InTx(t) /\ KeyOf(r) = KeyOf(t) => r = t

\* Attempts: what the task remembers bounds what it has sent, target by target.
AttemptOK(w) ==
  /\ \A i \in Slots : /\ posts[w][i] <= calls[w][i]
                      /\ calls[w][i] <= attempt[w][i]
  /\ worker[w].pc \in {"none", "claim"} => \A i \in Slots : attempt[w][i] = 0
  /\ \A i \in worker[w].todo : attempt[w][i] = 0
  /\ worker[w].pc \in Targeting =>
       LET i == worker[w].target IN
       /\ i \notin worker[w].todo
       /\ attempt[w][i] <= worker[w].attempt
       /\ worker[w].pc = "begin" => attempt[w][i] < worker[w].attempt
       /\ worker[w].pc = "call" => calls[w][i] < attempt[w][i]
       /\ worker[w].pc = "waiting" => posts[w][i] < calls[w][i]

AttemptInv == \A w \in Requests : AttemptOK(w)

\* Filing: what was checked of a target is true of it until it is filed, and its
\* connection cannot be deleted from then on.
Fits(r, i) == LET t == Asked(r)[i] IN
  /\ ConnectionOwner[t.connection] = body[r].user
  /\ ConnectionProvider[t.connection] = t.provider
Filed(r, n) == \A i \in 1..n : Asked(r)[i].connection \in connections /\ Fits(r, i)

FilingOK(r) ==
  /\ InTx(r) => Filed(r, staged[r])
  /\ Committed(r) => Filed(r, rows[r])
  /\ pc[r] = "filing" => Fits(r, staged[r] + 1)

FilingInv == \A r \in Requests : FilingOK(r)

ReplyInv ==
  /\ ReplyIsOwn
  /\ \A r \in Requests : reply[r] # NoJob => pc[r] \in {"replied", "accepted"}

\* Drivers: only a fault loses a handler or a task.
DriverInv == \A r \in Requests :
  /\ faults = 0 => pc[r] # "dropped" /\ worker[r].pc # "dead"
  /\ pc[r] = "accepted" => worker[r].pc # "none"
  /\ worker[r].pc = "done" => jobStatus[r] \in Final

\* Outcomes: a row is final once its task is past it, and not before.
Tried(j, i) == calls[j][i] > 0 \/ ~Usable(j, i) \/ faults > 0
Pending(w)  == worker[w].todo \cup
                 (IF worker[w].pc \in Targeting \ {"announce"} THEN {worker[w].target} ELSE {})
Untried(w)  == worker[w].todo \cup
                 (IF worker[w].pc \in {"begin", "call"} THEN {worker[w].target} ELSE {})

OutcomeOK(w) ==
  /\ worker[w].pc \in {"none", "claim"} =>
       /\ jobStatus[w] \in {"absent", "queued"}
       /\ \A i \in Slots : status[w][i] = "queued"
  /\ worker[w].pc \in Working \ {"claim", "finished"} =>
       /\ jobStatus[w] = "running"
       /\ \A i \in Pending(w) : status[w][i] \notin Final
       /\ \A i \in (1..rows[w]) \ Pending(w) : status[w][i] \in Final
       /\ \A i \in (1..rows[w]) \ Untried(w) : Tried(w, i)
  /\ jobStatus[w] \in Final =>
       /\ worker[w].pc \in {"finished", "done", "dead"}
       /\ jobStatus[w] = Rollup(w)
       /\ \A i \in 1..rows[w] : status[w][i] \in Final /\ Tried(w, i)

OutcomeInv == \A w \in Requests : OutcomeOK(w)

\* Posts: what is published was posted.
PostedOK(w) ==
  /\ \A i \in Slots : status[w][i] = "published" => posts[w][i] > 0
  /\ worker[w].outcome = "published" => worker[w].pc \in {"completing", "announce"}
  /\ worker[w].pc = "posted" \/ worker[w].outcome = "published" => posts[w][worker[w].target] > 0

PostedInv == \A w \in Requests : PostedOK(w)

\* Channels: the outcomes sent are those of the rows the task is past.
Past(w) == (1..rows[w]) \ (worker[w].todo \cup
             (IF worker[w].pc \in Targeting THEN {worker[w].target} ELSE {}))
Finishing(u) == OfJob(u) /\ Outcome(u)

ChannelOK(w) ==
  /\ worker[w].pc \in {"none", "claim", "start"} => updates[w] = <<>>
  /\ worker[w].pc \in Working =>
       /\ \A n \in DOMAIN updates[w] : ~Finishing(updates[w][n])
       /\ worker[w].pc # "claim" => Cardinality(Outcomes(w)) = Cardinality(Past(w))
       /\ worker[w].pc = "finished" => worker[w].todo = {}
  /\ \A n \in DOMAIN updates[w] : Finishing(updates[w][n]) =>
       n = Len(updates[w]) /\ Cardinality(Outcomes(w)) = rows[w]

ChannelInv == \A w \in Requests : ChannelOK(w)
=============================================================================
