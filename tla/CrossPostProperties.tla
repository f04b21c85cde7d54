------------------------- MODULE CrossPostProperties -------------------------
(***************************************************************************)
(* What must hold of CrossPost: invariants, action properties, liveness    *)
(* and the abstract JobLedger it implements.                               *)
(***************************************************************************)
EXTENDS CrossPost

\* Every variable has its type: nothing is read before it is set.
TypeOK ==
  /\ pc \in [Requests -> {"idle", "dropped"} \cup InFlight \cup Answered]
  /\ body \in [Requests -> Bodies \cup {NoBody}]
  /\ reply \in [Requests -> Requests \cup {NoJob}]
  /\ staged \in [Requests -> 0..MaxTargets]
  /\ jobStatus \in [Requests -> JobStatus]
  /\ rows \in [Requests -> 0..MaxTargets]
  /\ status \in [Requests -> [Slots -> RowStatus]]
  /\ attempt \in [Requests -> [Slots -> 0..MaxAttempts]]
  /\ connections \subseteq Connections
  /\ worker \in [Requests -> Worker]
  /\ updates \in [Requests -> Seq(Update)]
  /\ calls \in [Requests -> [Slots -> Nat]]
  /\ posts \in [Requests -> [Slots -> Nat]]
  /\ faults \in 0..MaxFaults

-----------------------------------------------------------------------------
(* Filing.                                                                 *)

\* Of requests racing with the same user and Idempotency-Key, whatever they
\* ask for and wherever they die, one files a job (enqueue_job: the SELECT may
\* miss for all of them, the unique key lets one INSERT through).
OneJobPerKey ==
  \A j, k \in Requests : Committed(j) /\ Committed(k) /\ KeyOf(j) = KeyOf(k) => j = k

\* A job is in the database with all the targets asked for or not at all, and
\* every target's connection exists, is the job owner's and of its provider,
\* even when the connection is deleted between its check and the commit.
JobIsWhole ==
  \A j \in Requests : Committed(j) =>
    /\ rows[j] = Len(Asked(j))
    /\ \A i \in 1..rows[j] : LET c == Asked(j)[i].connection IN
         /\ c \in connections
         /\ ConnectionOwner[c] = body[j].user
         /\ ConnectionProvider[c] = Asked(j)[i].provider

\* Whoever is answered with a job gets one of his own user and key.
ReplyIsOwn ==
  \A r \in Requests : reply[r] # NoJob =>
    Committed(reply[r]) /\ KeyOf(reply[r]) = KeyOf(r)

-----------------------------------------------------------------------------
(* Working.                                                                *)

Live(j) == \E w \in Requests : worker[w].pc \in Working /\ worker[w].job = j

\* Filed, not finished, and no task is or will be working on it.
Stranded(j) ==
  /\ Committed(j) /\ jobStatus[j] \notin Final
  /\ ~Live(j)
  /\ pc[j] # "committed"

\* A job is given to one task, ever: no replay and no restart starts a second.
SingleDriver ==
  \A v, w \in Requests :
    /\ v # w
    /\ worker[v].pc # "none" /\ worker[w].pc # "none"
    => worker[v].job # worker[w].job

\* The attempt column is never behind the provider: a target was sent to its
\* provider at most as often as the database says, three times at most, also
\* when the process dies between the write and the call (target_running first).
CallsOnRecord ==
  \A j \in Requests, i \in Slots :
    /\ posts[j][i] <= calls[j][i]
    /\ calls[j][i] <= attempt[j][i]
    /\ attempt[j][i] <= MaxAttempts

\* A finished job has only finished targets, it failed iff one of them did, and
\* it is published iff all of them are.
RollupIsFaithful ==
  \A j \in Requests : jobStatus[j] \in Final =>
    LET outcomes == {status[j][i] : i \in 1..rows[j]} IN
    /\ outcomes \subseteq Final
    /\ jobStatus[j] = "failed" <=> "failed" \in outcomes
    /\ jobStatus[j] = "published" <=> outcomes \subseteq {"published"}

\* One target's failure is not another's: a finished job called every provider
\* it could, unless reading the connection failed.
UntriedOnlyIfUnusable ==
  \A j \in Requests : jobStatus[j] \in Final =>
    \A i \in 1..rows[j] : calls[j][i] > 0 \/ ~Usable(j, i) \/ faults > 0

\* Finished is final: no step changes a finished target's row or a finished
\* job, and a finished job is not posted again.
SettledStays == [][
  \A j \in Requests :
    /\ \A i \in Slots : status[j][i] \in Final =>
         status'[j][i] = status[j][i] /\ attempt'[j][i] = attempt[j][i]
    /\ jobStatus[j] \in Final =>
         jobStatus'[j] = jobStatus[j] /\ calls'[j] = calls[j] /\ posts'[j] = posts[j]
  ]_vars

\* As long as nothing fails, an unfinished job has its task: no order of
\* handlers and tasks loses one.
NotStrandedUnlessFault == faults = 0 => \A j \in Requests : ~Stranded(j)

\* A job whose task died stays as it is: neither a replay of its key nor a
\* restart resumes it (half its targets posted twice would be the price).
StrandedIsInert == [][
  \A j \in Requests : Stranded(j) =>
    /\ Stranded(j)'
    /\ jobStatus'[j] = jobStatus[j]
    /\ status'[j] = status[j] /\ calls'[j] = calls[j]
  ]_vars

-----------------------------------------------------------------------------
(* The messages on a job's channel.                                        *)

OfJob(u)    == u.provider = NoProvider
Outcome(u)  == u.status \in Final
Outcomes(j) == {n \in DOMAIN updates[j] : Outcome(updates[j][n]) /\ ~OfJob(updates[j][n])}

\* "job finished" is the last message of its channel, and the outcome of every
\* target has come before it.
FinishedIsLast ==
  \A j \in Requests : \A n \in DOMAIN updates[j] :
    OfJob(updates[j][n]) /\ Outcome(updates[j][n]) =>
      n = Len(updates[j]) /\ Cardinality(Outcomes(j)) = rows[j]

-----------------------------------------------------------------------------
(* Progress.                                                               *)

\* A filed job is finished in the end, or stranded by a fault.
JobSettles == \A j \in Requests :
  Committed(j) ~> (jobStatus[j] \in Final \/ Stranded(j))

-----------------------------------------------------------------------------
(* What clients see of a key is what JobLedger promises.                   *)

Ids       == Users \X Keys
Under(k)  == {j \in Requests : Committed(j) /\ KeyOf(j) = k}
JobOf(k)  == CHOOSE j \in Under(k) : TRUE
Of(k, f, none) == IF Under(k) = {} THEN none ELSE f[JobOf(k)]

Ledger == INSTANCE JobLedger WITH
  phase  <- [k \in Ids |-> Of(k, jobStatus, "none")],
  size   <- [k \in Ids |-> Of(k, rows, 0)],
  posted <- [k \in Ids |-> Of(k, posts, [i \in Slots |-> 0])]

\* Every behaviour of handlers, tasks and faults is, per key, one of the ledger.
ImplementsLedger == Ledger!Spec
=============================================================================
