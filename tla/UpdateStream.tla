---------------------------- MODULE UpdateStream ----------------------------
(***************************************************************************)
(* The two WebSocket streams: a job's updates (jobs.rs) and a user's new   *)
(* events (events.rs). A producer writes to the database and then sends on *)
(* a tokio broadcast channel; each socket's task receives from the channel *)
(* and sends on to its client, who may read the database at any time. A    *)
(* slow task finds its messages overwritten and tells the client to        *)
(* resynchronise. jobOwner selects the stream: a job has one producer, the *)
(* worker task, and its reader is checked once; of events there is one     *)
(* channel for all users, and every message is filtered.                   *)
(***************************************************************************)
EXTENDS Integers, Sequences, FiniteSets, SequencesExt

CONSTANTS
  Readers,    \* clients: each with at most one socket at a time
  Messages,   \* the updates of the job in their order, or the events created
  Capacity,   \* of the channel: 128 (state.rs), 512 (main.rs)
  ListLimit,  \* what GET /v1/events returns at most: 100 (store.rs)
  UserOf,     \* [Readers -> user]
  EventOwner, \* [Messages -> user]: of the events created
  Nothing     \* no job, or no item held by a socket's task

ASSUME UpdateStreamAssumption ==
  /\ Messages \subseteq Nat /\ IsFiniteSet(Messages)
  /\ Capacity \in Nat \ {0}
  /\ ListLimit \in Nat
  /\ Nothing \notin [pos : Nat] \cup [skipped : Nat]
  /\ \A m \in Messages : EventOwner[m] # Nothing
  /\ \A r \in Readers : UserOf[r] # Nothing

VARIABLES
  jobOwner, \* the user whose job is followed (/v1/jobs/{id}/ws), or Nothing (/v1/ws)
  stored,   \* what was written to the database, in order
  dropped,  \* messages whose producer died: they will never be sent
  log,      \* everything sent on the channel; the last Capacity are in it
  pc,       \* [Readers -> phase of the socket's task]
  next,     \* [Readers -> receiver's position in log]
  start,    \* [Readers -> first position after subscribing]
  holding,  \* [Readers -> item being written to the socket]
  inbox,    \* [Readers -> items the client got on this socket]
  known,    \* [Readers -> messages the client knows of, from sockets and reads]
  owes      \* [Readers -> the client must read the database to catch up]

vars == <<jobOwner, stored, dropped, log, pc, next, start, holding, inbox, known, owes>>

task   == <<pc, next, start, holding>>
client == <<inbox, known, owes>>

Update(p) == [pos |-> p]
Resync(n) == [skipped |-> n]
IsResync(item) == item # Nothing /\ "skipped" \in DOMAIN item

Streaming == {"open", "sending"}

PerJob     == jobOwner # Nothing
OwnerOf(m) == IF PerJob THEN jobOwner ELSE EventOwner[m]

Owners == {UserOf[r] : r \in Readers} \cup {EventOwner[m] : m \in Messages}

Init ==
  /\ jobOwner \in Owners \cup {Nothing}
  /\ stored = <<>> /\ log = <<>> /\ dropped = {}
  /\ pc      = [r \in Readers |-> "closed"]
  /\ next    = [r \in Readers |-> 1]
  /\ start   = [r \in Readers |-> 1]
  /\ holding = [r \in Readers |-> Nothing]
  /\ inbox   = [r \in Readers |-> <<>>]
  /\ known   = [r \in Readers |-> {}]
  /\ owes    = [r \in Readers |-> TRUE]

-----------------------------------------------------------------------------
(* Producers.                                                              *)

Stored == ToSet(stored)
Sent   == ToSet(log)

\* A job's worker sends one update before it goes on to the next; handlers
\* creating events know nothing of each other.
MayStore(m) ==
  /\ m \notin Stored \cup dropped
  /\ PerJob => \A k \in Messages : k < m => k \in Sent

Store(m) ==
  /\ MayStore(m)
  /\ stored' = Append(stored, m)
  /\ UNCHANGED <<jobOwner, dropped, log, task, client>>

\* Mutant: announced before it is written.
SendUnwritten(m) == m \notin Sent \cup dropped

MaySend(m) == m \in Stored \ (Sent \cup dropped)

\* Sending never waits: with no receiver the message is gone, and a full
\* channel loses its oldest one.
Send(m) ==
  /\ MaySend(m)
  /\ log' = Append(log, m)
  /\ UNCHANGED <<jobOwner, stored, dropped, task, client>>

\* What dies with a producer: the worker's later updates come from no one else.
LostWith(m) == IF PerJob THEN {k \in Messages : k >= m} ELSE {m}

\* The write took effect but its answer was lost, or the handler was dropped.
Abandon(m) ==
  /\ MaySend(m)
  /\ dropped' = dropped \cup LostWith(m)
  /\ UNCHANGED <<jobOwner, stored, log, task, client>>

-----------------------------------------------------------------------------
(* The channel: a ring of the last Capacity messages.                      *)

Oldest    == IF Len(log) > Capacity THEN Len(log) - Capacity + 1 ELSE 1

Lagged(r) == next[r] < Oldest
Ready(r)  == next[r] <= Len(log)

-----------------------------------------------------------------------------
(* A socket's task.                                                        *)

\* The job is looked up by its id and the caller; events are open to any user.
MayConnect(r) == PerJob => jobOwner = UserOf[r]

Authorize(r) ==
  /\ pc[r] = "closed" /\ MayConnect(r)
  /\ pc' = [pc EXCEPT ![r] = "authorized"]
  /\ UNCHANGED <<jobOwner, stored, dropped, log, next, start, holding, client>>

\* Subscribed by the handler, before the upgrade is answered: a client whose
\* socket is open misses nothing that is sent from now on.
Subscribe(r) ==
  /\ pc[r] = "authorized"
  /\ pc'    = [pc EXCEPT ![r] = "open"]
  /\ next'  = [next EXCEPT ![r] = Len(log) + 1]
  /\ start' = [start EXCEPT ![r] = Len(log) + 1]
  /\ owes'  = [owes EXCEPT ![r] = TRUE]
  /\ UNCHANGED <<jobOwner, stored, dropped, log, holding, inbox, known>>

\* Mutant: the filter of the event stream is missing.
WantsAll(r, m) == TRUE

Wants(r, m) == PerJob \/ OwnerOf(m) = UserOf[r]

Hold(r, item, p) ==
  /\ pc'      = [pc EXCEPT ![r] = "sending"]
  /\ holding' = [holding EXCEPT ![r] = item]
  /\ next'    = [next EXCEPT ![r] = p]

\* Mutant: the lag is taken for a message to skip.
LagUnsaid(r) ==
  /\ Lagged(r)
  /\ next' = [next EXCEPT ![r] = Oldest]
  /\ UNCHANGED <<pc, holding>>

\* Mutant: the count misses the message the receiver goes on with.
LagMiscounted(r) == Lagged(r) /\ Hold(r, Resync(Oldest - next[r] + 1), Oldest)

\* Mutant: the lag is swallowed and the receiver stays where it is.
LagForever(r) == Lagged(r) /\ UNCHANGED <<pc, holding, next>>

RecvLagged(r) == Lagged(r) /\ Hold(r, Resync(Oldest - next[r]), Oldest)

RecvUpdate(r) ==
  /\ ~Lagged(r) /\ Ready(r)
  /\ Wants(r, log[next[r]])
  /\ Hold(r, Update(next[r]), next[r] + 1)

RecvOther(r) ==
  /\ ~Lagged(r) /\ Ready(r)
  /\ ~Wants(r, log[next[r]])
  /\ next' = [next EXCEPT ![r] = @ + 1]
  /\ UNCHANGED <<pc, holding>>

Recv(r) ==
  /\ pc[r] = "open"
  /\ RecvLagged(r) \/ RecvUpdate(r) \/ RecvOther(r)
  /\ UNCHANGED <<jobOwner, stored, dropped, log, start, client>>

\* The socket took the item and the client has it.
Deliver(r) ==
  /\ pc[r] = "sending"
  /\ pc'      = [pc EXCEPT ![r] = "open"]
  /\ holding' = [holding EXCEPT ![r] = Nothing]
  /\ inbox'   = [inbox EXCEPT ![r] = Append(@, holding[r])]
  /\ IF IsResync(holding[r])
     THEN owes' = [owes EXCEPT ![r] = TRUE] /\ UNCHANGED known
     ELSE known' = [known EXCEPT ![r] = @ \cup {log[holding[r].pos]}] /\ UNCHANGED owes
  /\ UNCHANGED <<jobOwner, stored, dropped, log, next, start>>

Reset(f, rs, value) == [r \in Readers |-> IF r \in rs THEN value ELSE f[r]]

\* A close frame, a broken connection or a failed send ends the task and its
\* receiver; the client may connect anew.
Closed(rs) ==
  /\ pc'      = Reset(pc, rs, "closed")
  /\ next'    = Reset(next, rs, 1)
  /\ start'   = Reset(start, rs, 1)
  /\ holding' = Reset(holding, rs, Nothing)
  /\ inbox'   = Reset(inbox, rs, <<>>)
  /\ UNCHANGED <<known, owes>>

Hangup(r) ==
  /\ pc[r] # "closed"
  /\ Closed({r})
  /\ UNCHANGED <<jobOwner, stored, dropped, log>>

\* The process is started again: sockets, channels and producers are gone, the
\* database stays. Nothing starts a job's worker again.
Restart ==
  /\ Closed(Readers)
  /\ dropped' = (IF PerJob THEN Messages ELSE Stored) \ Sent
  /\ UNCHANGED <<jobOwner, stored, log>>

-----------------------------------------------------------------------------
(* GET /v1/jobs/{id}, GET /v1/events.                                      *)

OwnStored(r) == {m \in Stored : OwnerOf(m) = UserOf[r]}

LaterOwn(r, m) ==
  {n \in OwnStored(r) : \E i, j \in 1..Len(stored) : i < j /\ stored[i] = m /\ stored[j] = n}

\* The rows of the job tell all its updates; of events the newest are listed.
Snapshot(r) ==
  IF PerJob THEN OwnStored(r)
  ELSE {m \in OwnStored(r) : Cardinality(LaterOwn(r, m)) < ListLimit}

\* A read catches up if it is made while the socket is open.
Read(r) ==
  /\ known' = [known EXCEPT ![r] = @ \cup Snapshot(r)]
  /\ owes'  = [owes EXCEPT ![r] = @ /\ pc[r] \notin Streaming]
  /\ UNCHANGED <<jobOwner, stored, dropped, log, task, inbox>>

-----------------------------------------------------------------------------
Next ==
  \/ \E m \in Messages : Store(m) \/ Send(m) \/ Abandon(m)
  \/ \E r \in Readers : Authorize(r) \/ Subscribe(r) \/ Recv(r) \/ Deliver(r)
                        \/ Hangup(r) \/ Read(r)
  \/ Restart

Spec == Init /\ [][Next]_vars

-----------------------------------------------------------------------------
\* Every variable has its type.
TypeOK ==
  /\ jobOwner \in Owners \cup {Nothing}
  /\ stored \in Seq(Messages) /\ log \in Seq(Messages) /\ dropped \subseteq Messages
  /\ pc \in [Readers -> {"closed", "authorized"} \cup Streaming]
  /\ next \in [Readers -> Nat \ {0}] /\ start \in [Readers -> Nat \ {0}]
  /\ \A r \in Readers : pc[r] = "sending" <=>
       \/ IsResync(holding[r]) /\ holding[r].skipped \in Nat \ {0}
       \/ holding[r] \in [pos : DOMAIN log]
  /\ inbox \in [Readers -> Seq([pos : DOMAIN log] \cup [skipped : Nat \ {0}])]
  /\ known \in [Readers -> SUBSET Messages]
  /\ owes \in [Readers -> BOOLEAN]

\* Nobody is shown a job or an event of somebody else, by reading or streaming.
OnlyOwn ==
  \A r \in Readers : \A m \in known[r] : OwnerOf(m) = UserOf[r]

\* A client that reads once after its socket opened, and again after every
\* resync_required, knows of everything its socket's task is past, whatever
\* happened before it subscribed or was overwritten while it was slow; only the
\* item on the wire is still to come. (A user of more than ListLimit events
\* cannot read them all.)
CatchesUp ==
  \A r \in Readers :
    /\ pc[r] \in Streaming /\ ~owes[r] /\ ~IsResync(holding[r])
    /\ PerJob \/ Cardinality(OwnStored(r)) <= ListLimit
    => \A p \in 1..(next[r] - 1) :
         Wants(r, log[p]) => log[p] \in known[r] \/ holding[r] = Update(p)

Got(r) == IF holding[r] = Nothing THEN inbox[r] ELSE Append(inbox[r], holding[r])

\* What a client has to count: one per update and "skipped" per resync_required.
Counted(items) ==
  UNION {{i} \X (1..(IF IsResync(items[i]) THEN items[i].skipped ELSE 1)) : i \in DOMAIN items}

\* A client that counts so always knows its position in the job's updates: none is
\* lost or repeated unsaid.
CountsAddUp ==
  \A r \in Readers : PerJob /\ pc[r] \in Streaming =>
    start[r] + Cardinality(Counted(Got(r))) = next[r]

\* Between two items that follow each other in a client's inbox nothing of its
\* own was passed over, unless one of the two says so.
NoSilentGap ==
  \A r \in Readers : pc[r] \in Streaming => \A i \in 1..(Len(Got(r)) - 1) :
    LET a == Got(r)[i]  b == Got(r)[i + 1]
    IN  ~IsResync(a) /\ ~IsResync(b) =>
          /\ a.pos < b.pos
          /\ \A p \in (a.pos + 1)..(b.pos - 1) : ~Wants(r, log[p])
=============================================================================
