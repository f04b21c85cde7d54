----------------------------- MODULE JobFollower -----------------------------
(***************************************************************************)
(* A client follows the job he filed: CrossPost's worker, a socket of      *)
(* UpdateStream on the job's channel, and GET /v1/jobs/{id}, which reads   *)
(* the job and its targets in two statements and whose answer may overtake *)
(* or be overtaken by updates. The client is external: he reads once after *)
(* his socket opened and whenever the stream does not tell him enough      *)
(* (resync_required, or an outcome at a provider where his job has several *)
(* targets: an update names the provider, not the target), and he keeps an *)
(* outcome once he has learned it.                                         *)
(***************************************************************************)
EXTENDS CrossPostProperties

CONSTANTS
  Job,       \* the request whose job is followed
  Client,
  Capacity,  \* of the job's channel
  Nothing

ASSUME JobFollowerAssumption ==
  /\ Job \in Requests
  /\ Capacity \in Nat \ {0}
  /\ Nothing \notin {"owner"} \cup [pos : Nat] \cup [skipped : Nat]

VARIABLES
  socket, next, start, holding,  \* the socket's task, as in UpdateStream
  owes,                          \* the client must read to catch up
  asking,                        \* his GET under way
  view                           \* what he holds for the state of the job

task     == <<socket, next, start, holding>>
follower == <<task, owes, asking, view>>
all      == <<vars, follower>>

\* Job started and finished, and per target three starts, two retries, one outcome.
Positions == 1..(2 + 2 * MaxAttempts * MaxTargets)

Channel == [n \in DOMAIN updates[Job] |-> n]

Stream == INSTANCE UpdateStream WITH
  Readers <- {Client}, Messages <- Positions, ListLimit <- 0,
  UserOf <- [c \in {Client} |-> "owner"], EventOwner <- [m \in Positions |-> "owner"],
  jobOwner <- "owner", stored <- Channel, dropped <- {}, log <- Channel, pc <- socket,
  inbox <- [c \in {Client} |-> <<>>], known <- [c \in {Client} |-> {}]

Open == socket[Client] \in Stream!Streaming

FollowerInit ==
  /\ Init
  /\ socket  = [c \in {Client} |-> "closed"]
  /\ next    = [c \in {Client} |-> 1]
  /\ start   = [c \in {Client} |-> 1]
  /\ holding = [c \in {Client} |-> Nothing]
  /\ owes    = [c \in {Client} |-> TRUE]
  /\ asking  = Nothing
  /\ view    = [job |-> "working", target |-> [i \in Slots |-> "working"]]

-----------------------------------------------------------------------------
(* The socket.                                                             *)

\* The client knows the job's id from the answer to his request.
Connect ==
  /\ reply[Job] = Job
  /\ UNCHANGED <<vars, asking, view>>
  /\ Stream!Authorize(Client)

Subscribe == UNCHANGED <<vars, view>> /\ asking' = Nothing /\ Stream!Subscribe(Client)

Recv == UNCHANGED <<vars, asking, view>> /\ Stream!Recv(Client)

Hangup == UNCHANGED <<vars, view>> /\ asking' = Nothing /\ Stream!Hangup(Client)

\* An outcome is kept; anything else is work under way.
Learned(old, new) ==
  IF old \in Final THEN old ELSE IF new \in Final THEN new ELSE "working"

TargetsAt(p) == {i \in 1..rows[Job] : Asked(Job)[i].provider = p}

Ambiguous(u) ==
  u.provider # NoProvider /\ u.status \in Final /\ Cardinality(TargetsAt(u.provider)) > 1

Told(u) ==
  IF u.provider = NoProvider THEN [view EXCEPT !.job = Learned(@, u.status)]
  ELSE [view EXCEPT !.target = [i \in Slots |->
          IF TargetsAt(u.provider) = {i} THEN Learned(@[i], u.status) ELSE @[i]]]

Deliver ==
  /\ socket[Client] = "sending"
  /\ socket'  = [socket EXCEPT ![Client] = "open"]
  /\ holding' = [holding EXCEPT ![Client] = Nothing]
  /\ IF Stream!IsResync(holding[Client])
     THEN owes' = [owes EXCEPT ![Client] = TRUE] /\ asking' = Nothing /\ UNCHANGED view
     ELSE LET u == updates[Job][holding[Client].pos] IN
          /\ view' = Told(u)
          /\ owes' = [owes EXCEPT ![Client] = @ \/ Ambiguous(u)]
          /\ asking' = IF Ambiguous(u) THEN Nothing ELSE asking
  /\ UNCHANGED <<vars, next, start>>

-----------------------------------------------------------------------------
(* GET /v1/jobs/{id}.                                                      *)

Unread == [i \in Slots |-> "unread"]

\* Mutant: the targets are read before the job.
ReadsTargetsFirst ==
  \/ /\ Open /\ owes[Client] /\ asking = Nothing
     /\ asking' = [job |-> "unread", target |-> status[Job]]
     /\ UNCHANGED <<vars, task, owes, view>>
  \/ /\ asking # Nothing /\ asking.job = "unread"
     /\ asking' = [asking EXCEPT !.job = jobStatus[Job]]
     /\ UNCHANGED <<vars, task, owes, view>>

\* get_job: the job's row, then its targets'.
Reads ==
  \/ /\ Open /\ owes[Client] /\ asking = Nothing
     /\ asking' = [job |-> jobStatus[Job], target |-> Unread]
     /\ UNCHANGED <<vars, task, owes, view>>
  \/ /\ asking # Nothing /\ asking.target = Unread
     /\ asking' = [asking EXCEPT !.target = status[Job]]
     /\ UNCHANGED <<vars, task, owes, view>>

ReadBoth == asking # Nothing /\ asking.target # Unread /\ asking.job # "unread"

Answer ==
  /\ ReadBoth
  /\ view' = [job |-> Learned(view.job, asking.job),
              target |-> [i \in Slots |-> Learned(view.target[i], asking.target[i])]]
  /\ owes' = [owes EXCEPT ![Client] = FALSE]
  /\ asking' = Nothing
  /\ UNCHANGED <<vars, task>>

-----------------------------------------------------------------------------
ServiceStep ==
  \/ \E r \in Requests, b \in Bodies : Receive(r, b)
  \/ \E r \in Requests : HandlerStep(r) \/ Drop(r)
  \/ \E w \in Requests : WorkerStep(w) \/ ProviderPosts(w) \/ Abort(w)
  \/ \E w \in Requests, i \in Slots : PickUnlucky(w, i)
  \/ \E c \in Connections : DeleteConnection(c)

\* The socket and the request under way end with the process.
CrashAll ==
  /\ Crash
  /\ Stream!Closed({Client})
  /\ asking' = Nothing
  /\ UNCHANGED view

ClientStep == Recv \/ Deliver \/ Reads \/ Answer

FollowerNext ==
  \/ ServiceStep /\ UNCHANGED follower
  \/ CrashAll
  \/ Connect \/ Subscribe \/ Hangup \/ ClientStep

FollowerSpec == FollowerInit /\ [][FollowerNext]_all

\* Tasks and queries as in CrossPost and UpdateStream; the client takes what he is
\* sent and reads when he owes a read. He need not connect or stay.
FairFollowerSpec ==
  /\ FollowerSpec
  /\ WF_all(Recv) /\ WF_all(Deliver) /\ WF_all(Reads) /\ WF_all(Answer)
  /\ \A r \in Requests : /\ WF_all(HandlerStep(r) /\ UNCHANGED follower)
                         /\ WF_all(WorkerStep(r) /\ UNCHANGED follower)

-----------------------------------------------------------------------------
\* The client never takes for an outcome what is not one: whatever he has read and
\* been told, in whatever order, with lags and restarts, an outcome he holds is the
\* one in the database.
ShownIsTrue ==
  /\ view.job \in Final => view.job = jobStatus[Job]
  /\ \A i \in Slots : view.target[i] \in Final => view.target[i] = status[Job][i]

\* The two statements of get_job fit together: a job answered as finished comes
\* with finished targets, and with the status they add up to, also when the worker
\* goes on in between.
AnswerFits ==
  ReadBoth /\ asking.job \in Final =>
    LET outcomes == {asking.target[i] : i \in 1..rows[Job]} IN
    /\ outcomes \subseteq Final
    /\ asking.job = "failed" <=> "failed" \in outcomes
    /\ asking.job = "published" <=> outcomes \subseteq {"published"}

\* The worker has written something that it has not sent, or never will.
Unsaid == worker[Job].pc \in {"announce", "finished", "dead"}

\* A client who owes no read, with nothing left on its way to him, holds all that
\* the database holds, whenever he connected, lagged or reconnected: updates and
\* reads leave no gap between them.
ViewIsComplete ==
  /\ socket[Client] = "open" /\ ~owes[Client] /\ next[Client] > Len(Channel)
  /\ ~Unsaid
  => /\ jobStatus[Job] \in Final => view.job = jobStatus[Job]
     /\ \A i \in 1..rows[Job] :
          status[Job][i] \in Final => view.target[i] = status[Job][i]

\* While his socket stays open and the worker lives, a follower learns how the job
\* and each of its targets ended.
FollowerLearns ==
  Open /\ jobStatus[Job] \in Final
    ~> \/ ~Open \/ worker[Job].pc = "dead"
       \/ /\ view.job = jobStatus[Job]
          /\ \A i \in 1..rows[Job] : view.target[i] = status[Job][i]
=============================================================================
