-------------------------- MODULE JobFollowerProofs --------------------------
(***************************************************************************)
(* What a follower holds is true, and complete when he has nothing left to *)
(* read: for every instance of JobFollower, every capacity of the channel, *)
(* every pattern of lags, reconnections, reads and faults.                 *)
(***************************************************************************)
EXTENDS JobFollower, CrossPostProofs

-----------------------------------------------------------------------------
(* The messages of a job's channel.                                        *)

\* An outcome at a provider is that of one of the job's targets there.
TellsTarget(w, i, u) ==
  /\ u.provider # NoProvider /\ u.provider = Asked(w)[i].provider
  /\ u.status = status[w][i]

TellsTruth(w, u) == Outcome(u) =>
  IF OfJob(u) THEN u.status = jobStatus[w] ELSE \E i \in 1..rows[w] : TellsTarget(w, i, u)

Truthful(w) == \A n \in DOMAIN updates[w] : TellsTruth(w, updates[w][n])

MessageOK(w) ==
  /\ worker[w].pc = "announce" => status[w][worker[w].target] = worker[w].outcome
  /\ worker[w].pc \in {"none", "claim", "start"} => updates[w] = <<>>
  /\ updates[w] # <<>> => Committed(w)
  /\ Truthful(w)

MessageInv == \A w \in Requests : MessageOK(w)

LEMMA MessageInit == Init => MessageInv
BY DEF Init, MessageInv, MessageOK, Truthful, Task

\* What was true stays true: final rows and statuses, targets and bodies are kept.
LEMMA TruthKept ==
  ASSUME Shape, [Next]_vars, NEW w \in Requests, Committed(w), NEW u, TellsTruth(w, u),
         \A i \in Slots : status[w][i] \in Final => status'[w][i] = status[w][i],
         jobStatus[w] \in Final => jobStatus'[w] = jobStatus[w]
  PROVE  TellsTruth(w, u)'
<1>1. rows'[w] = rows[w] /\ Asked(w)' = Asked(w)
  BY Lasting DEF Asked
<1>2. 1..rows[w] \subseteq Slots
  BY CrossPostAssumption DEF Shape, TypeOK, Slots
<1>3. QED
  BY <1>1, <1>2 DEF TellsTruth, TellsTarget, Outcome

\* Messages of a task's start and attempts tell no outcome, and are truthful.
LEMMA OneMoreTruth ==
  ASSUME Shape, [Next]_vars, NEW w \in Requests, MessageOK(w), TaskMoves(w), Stays(w),
         NEW p \in Providers \cup {NoProvider}, NEW s \in {"running", "retrying"} \cup Final,
         Tells(w, p, s),
         \A n \in 0..MaxAttempts : TellsTruth(w, [provider |-> p, status |-> s, attempt |-> n])
  PROVE  Truthful(w)'
<1>1. Committed(w) /\ updates[w] \in Seq(Update)
  BY TaskKeeps DEF Shape, TypeOK
<1>2. PICK k \in 0..MaxAttempts :
        updates'[w] = Append(updates[w], [provider |-> p, status |-> s, attempt |-> k])
  BY DEF Tells
<1> DEFINE m == [provider |-> p, status |-> s, attempt |-> k]
<1>3. m \in Update /\ TellsTruth(w, m) /\ updates'[w] = Append(updates[w], m)
  BY <1>2 DEF Update
<1> HIDE DEF m
<1>4. \A n \in DOMAIN updates'[w] : TellsTruth(w, updates'[w][n])
  <2>1. \A n \in DOMAIN updates'[w] : n \in DOMAIN updates[w] \/ n = Len(updates[w]) + 1
    BY <1>1, <1>3, OneMore
  <2>2. QED
    BY <1>1, <1>3, <2>1, OneMore DEF MessageOK, Truthful
<1>5. ASSUME NEW n \in DOMAIN updates'[w] PROVE TellsTruth(w, updates[w][n])'
  <2>1. PICK u : u = updates'[w][n] /\ TellsTruth(w, u)
    BY <1>4
  <2>2. TellsTruth(w, u)'
    BY <1>1, <2>1, TruthKept DEF Stays
  <2>3. QED
    BY <2>1, <2>2 DEF TellsTruth, TellsTarget
<1>6. QED
  BY <1>5 DEF Truthful

LEMMA SameTruth ==
  ASSUME Shape, [Next]_vars, NEW w \in Requests, MessageOK(w), Stays(w), UNCHANGED updates[w]
  PROVE  Truthful(w)'
<1>1. ASSUME NEW n \in DOMAIN updates[w] PROVE TellsTruth(w, updates[w][n])'
  <2>1. PICK u : u = updates[w][n] /\ u = updates'[w][n] /\ TellsTruth(w, u) /\ Committed(w)
    BY DEF MessageOK, Truthful
  <2>2. TellsTruth(w, u)'
    BY <2>1, TruthKept DEF Stays
  <2>3. QED
    BY <2>1, <2>2 DEF TellsTruth, TellsTarget
<1>2. QED
  BY <1>1 DEF Truthful

LEMMA MessageTask ==
  ASSUME Shape, AttemptInv, OutcomeInv, MessageInv, [Next]_vars, NEW w \in Requests, TaskMoves(w)
  PROVE  MessageOK(w)'
<1>1. /\ worker[w].pc \in Working /\ MessageOK(w) /\ Committed(w) /\ Committed(w)'
      /\ Stays(w) /\ OutcomeOK(w)
      /\ TaskShape(worker[w], rows[w], jobStatus[w])
      /\ worker[w].pc \in Targeting => worker[w].target \in 1..rows[w] /\ worker[w].target \in Slots
  BY TaskKeeps, TaskFacts, FinalStays DEF MessageInv, OutcomeInv, TaskShape
<1>2. CASE UNCHANGED updates[w]
  <2>1. Truthful(w)'
    BY <1>1, <1>2, SameTruth
  <2>2. CASE Claims(w)
    BY <1>1, <1>2, <2>1, <2>2 DEF MessageOK, Claims, Moves
  <2>3. CASE Records(w)
    BY <1>1, <2>1, <2>3 DEF MessageOK, Records, Writes
  <2>4. CASE \/ Starts(w) \/ Picks(w) \/ Begins(w) \/ Calls(w) \/ IsPosted(w) \/ Succeeds(w)
             \/ Fails(w) \/ BacksOff(w) \/ Announces(w) \/ Finishes(w) \/ Ends(w)
    <3>1. worker'[w].pc \notin {"none", "claim", "start", "announce"}
      BY <1>1, <2>4 DEF Starts, Picks, Begins, Calls, IsPosted, Succeeds, Fails, BacksOff,
         Announces, Finishes, Ends, Moves, Task
    <3>2. QED
      BY <1>1, <2>1, <3>1 DEF MessageOK
  <2>5. QED
    BY <2>2, <2>3, <2>4, TaskEffects
<1>3. CASE Starts(w) \/ Calls(w) \/ Fails(w)
  <2>1. CASE UNCHANGED updates[w]
    BY <1>2, <2>1
  <2>2. CASE ~ UNCHANGED updates[w]
    <3>1. PICK p \in Providers \cup {NoProvider}, s \in {"running", "retrying"} : Tells(w, p, s)
      BY <1>3, <2>2 DEF Starts, Calls, Fails
    <3>2. \A n \in 0..MaxAttempts : TellsTruth(w, [provider |-> p, status |-> s, attempt |-> n])
      BY DEF TellsTruth, Outcome, Final
    <3>3. Truthful(w)'
      BY <1>1, <3>1, <3>2, OneMoreTruth
    <3>4. worker'[w].pc \notin {"announce", "none", "claim", "start"}
      BY <1>3 DEF Starts, Calls, Fails, Moves
    <3>5. QED
      BY <1>1, <3>3, <3>4 DEF MessageOK
  <2>3. QED
    BY <2>1, <2>2
<1>4. CASE Announces(w)
  <2>1. PICK p \in Providers : /\ p = Asked(w)[worker[w].target].provider
                               /\ Tells(w, p, worker[w].outcome)
    BY <1>4 DEF Announces
  <2>2. /\ worker[w].pc = "announce" /\ worker[w].outcome \in Final /\ p # NoProvider
        /\ status[w][worker[w].target] = worker[w].outcome /\ worker[w].target \in 1..rows[w]
    BY <1>1, <1>4, CrossPostAssumption DEF Announces, Moves, TaskShape, MessageOK, Targeting
  <2>3. \A n \in 0..MaxAttempts :
          TellsTruth(w, [provider |-> p, status |-> worker[w].outcome, attempt |-> n])
    BY <2>1, <2>2 DEF TellsTruth, TellsTarget, OfJob
  <2>4. Truthful(w)'
    BY <1>1, <2>1, <2>2, <2>3, OneMoreTruth
  <2>5. worker'[w].pc = "pick"
    BY <1>4 DEF Announces, Moves
  <2>6. QED
    BY <1>1, <2>4, <2>5 DEF MessageOK
<1>5. CASE worker[w].pc = "finished" /\ worker'[w] = Task("done", w)
           /\ Tells(w, NoProvider, jobStatus[w])
  <2>1. jobStatus[w] \in Final
    BY <1>1, <1>5 DEF TaskShape
  <2>2. \A n \in 0..MaxAttempts :
          TellsTruth(w, [provider |-> NoProvider, status |-> jobStatus[w], attempt |-> n])
    BY DEF TellsTruth, OfJob
  <2>3. Truthful(w)'
    BY <1>1, <1>5, <2>1, <2>2, OneMoreTruth
  <2>4. QED
    BY <1>1, <1>5, <2>3 DEF MessageOK, Task
<1>6. QED
  BY <1>2, <1>3, <1>4, <1>5, TaskEffects
     DEF Claims, Picks, Begins, IsPosted, Succeeds, BacksOff, Records, Finishes, Ends

LEMMA MessageStep == Shape /\ AttemptInv /\ OutcomeInv /\ MessageInv /\ [Next]_vars => MessageInv'
<1> SUFFICES ASSUME Shape, AttemptInv, OutcomeInv, MessageInv, [Next]_vars, NEW w \in Requests
             PROVE  MessageOK(w)'
  BY DEF MessageInv
<1>1. MessageOK(w) /\ Stays(w) /\ (Committed(w) => Committed(w)')
  BY FinalStays, Lasting DEF MessageInv
<1>2. CASE UNCHANGED Belongings(w)
  <2>1. updates'[w] = updates[w] /\ worker'[w] = worker[w] /\ status'[w] = status[w]
    BY <1>2 DEF Belongings
  <2>2. Truthful(w)'
    BY <1>1, <2>1, SameTruth
  <2>3. QED
    BY <1>1, <2>1, <2>2 DEF MessageOK
<1>3. CASE Commits(w) \/ Spawns(w) \/ Crashes(w)
  <2>1. updates'[w] = <<>>
    BY <1>1, <1>3 DEF Commits, Spawns, Crashes, MessageOK
  <2>2. worker'[w].pc # "announce"
    BY <1>3 DEF Commits, Spawns, Crashes, Task, Working
  <2>3. QED
    BY <2>1, <2>2 DEF MessageOK, Truthful
<1>4. CASE TaskMoves(w)
  BY <1>4, MessageTask
<1>5. QED
  BY <1>2, <1>3, <1>4, JobSteps

JobInv == Shape /\ AttemptInv /\ OutcomeInv /\ MessageInv

LEMMA JobInvariant == Spec => []JobInv
BY OutcomeInvariant, MessageInit, MessageStep, PTL DEF Spec, JobInv

\* Only a crash takes messages from a channel.
LEMMA ChannelGrows ==
  ASSUME Shape, ServiceStep, NEW w \in Requests
  PROVE  \/ updates'[w] = updates[w]
         \/ \E m \in Update : updates'[w] = Append(updates[w], m)
<1>1. CASE TaskMoves(w)
  <2>1. TaskShape(worker[w], rows[w], jobStatus[w]) /\ worker[w].pc \in Working
    BY <1>1, TaskKeeps, TaskFacts DEF TaskShape
  <2>2. ASSUME NEW p \in Providers \cup {NoProvider}, NEW s \in {"running", "retrying"} \cup Final,
               Tells(w, p, s)
        PROVE  \E m \in Update : updates'[w] = Append(updates[w], m)
    <3>1. PICK k \in 0..MaxAttempts :
            updates'[w] = Append(updates[w], [provider |-> p, status |-> s, attempt |-> k])
      BY <2>2 DEF Tells
    <3>2. [provider |-> p, status |-> s, attempt |-> k] \in Update
      BY DEF Update
    <3>3. QED
      BY <3>1, <3>2
  <2>3. CASE Starts(w) \/ Calls(w) \/ Fails(w)
    BY <2>2, <2>3 DEF Starts, Calls, Fails
  <2>4. CASE Announces(w) \/ Ends(w)
    BY <2>1, <2>2, <2>4 DEF Announces, Ends, Moves, TaskShape
  <2>5. QED
    BY <1>1, <2>3, <2>4, TaskEffects
       DEF Claims, Picks, Begins, IsPosted, Succeeds, BacksOff, Records, Finishes
<1>2. CASE ~ TaskMoves(w)
  <2>1. ASSUME NEW r \in Requests, NEW b \in Bodies, Receive(r, b) PROVE updates' = updates
    BY <2>1 DEF Receive, memory
  <2>2. ASSUME NEW r \in Requests, EarlyStep(r) \/ Commit(r) \/ Spawn(r) \/ Drop(r)
        PROVE  updates' = updates
    BY <2>2, EarlyKeeps DEF Commit, Spawn, Drop, memory
  <2>3. ASSUME NEW q \in Requests, TaskMoves(q) PROVE updates'[w] = updates[w]
    BY <1>2, <2>3, TaskKeeps DEF Belongings
  <2>4. CASE \E c \in Connections : DeleteConnection(c)
    BY <2>4 DEF memory, DeleteConnection
  <2>5. \/ \E r \in Requests, b \in Bodies : Receive(r, b)
        \/ \E r \in Requests : EarlyStep(r) \/ Commit(r) \/ Spawn(r) \/ Drop(r)
        \/ \E q \in Requests : TaskMoves(q)
        \/ \E c \in Connections : DeleteConnection(c)
    BY DEF ServiceStep, HandlerStep, EarlyStep, TaskMoves
  <2>6. QED
    BY <2>1, <2>2, <2>3, <2>4, <2>5
<1>3. QED
  BY <1>1, <1>2

-----------------------------------------------------------------------------
(* The follower.                                                           *)

\* A follower's behaviour is one of CrossPost.
LEMMA FollowerStep == [FollowerNext]_all => [Next]_vars
BY DEF FollowerNext, ServiceStep, CrashAll, Connect, Subscribe, Hangup, ClientStep, Recv, Deliver,
       Reads, Answer, Next, all

LEMMA FollowerJob == FollowerSpec => []JobInv
<1>1. FollowerInit => Init
  BY DEF FollowerInit
<1>2. FollowerSpec => Spec
  BY <1>1, FollowerStep, PTL DEF FollowerSpec, Spec
<1>3. QED
  BY <1>2, JobInvariant, PTL

-----------------------------------------------------------------------------
(* The socket.                                                             *)

Last == Len(updates[Job])

LEMMA ChannelLast ==
  ASSUME Shape
  PROVE  Last \in Nat /\ DOMAIN updates[Job] = 1..Last /\ Len(Channel) = Last
<1>1. updates[Job] \in Seq(Update)
  BY JobFollowerAssumption DEF Shape, TypeOK
<1>2. Last \in Nat /\ DOMAIN updates[Job] = 1..Last
  BY <1>1, LenProperties DEF Last
<1>3. Channel \in [1..Last -> Nat]
  BY <1>2 DEF Channel
<1>4. Channel \in Seq(Nat) /\ DOMAIN Channel = 1..Last
  BY <1>2, <1>3, SeqDef
<1>5. QED
  BY <1>2, <1>4, LenProperties

Resyncing == socket[Client] = "sending" /\ \E k \in Nat : holding[Client] = [skipped |-> k]
Bringing(n) == socket[Client] = "sending" /\ holding[Client] = [pos |-> n]

SocketOK ==
  /\ socket \in [{Client} -> {"closed", "authorized", "open", "sending"}]
  /\ next \in [{Client} -> Nat] /\ owes \in [{Client} -> BOOLEAN]
  /\ DOMAIN holding = {Client}
  /\ Open => next[Client] \in 1..(Last + 1)
  /\ socket[Client] = "sending" => Resyncing \/ \E n \in 1..Last : Bringing(n)

LEMMA ResyncIsSkip ==
  /\ \A k \in Nat : Stream!IsResync([skipped |-> k])
  /\ \A n \in Nat : ~ Stream!IsResync([pos |-> n])
<1>1. ASSUME NEW k \in Nat PROVE Stream!IsResync([skipped |-> k])
  <2>1. [skipped |-> k] # Nothing /\ "skipped" \in DOMAIN [skipped |-> k]
    BY JobFollowerAssumption
  <2>2. QED
    BY <2>1 DEF Stream!IsResync
<1>2. ASSUME NEW n \in Nat PROVE ~ Stream!IsResync([pos |-> n])
  BY DEF Stream!IsResync
<1>3. QED
  BY <1>1, <1>2

\* The socket's task falls behind, or takes the next message.
LEMMA RecvEffect ==
  ASSUME Shape, SocketOK, Recv
  PROVE  /\ UNCHANGED <<vars, owes, asking, view>>
         /\ socket[Client] = "open" /\ socket' = [socket EXCEPT ![Client] = "sending"]
         /\ DOMAIN holding' = {Client} /\ next' \in [{Client} -> Nat]
         /\ \/ /\ \E k \in Nat : holding'[Client] = [skipped |-> k]
               /\ next'[Client] \in 1..(Last + 1)
            \/ /\ next[Client] \in 1..Last /\ holding'[Client] = [pos |-> next[Client]]
               /\ next'[Client] = next[Client] + 1
<1>1. /\ Stream!Recv(Client) /\ UNCHANGED <<vars, asking, view, owes>>
      /\ socket[Client] = "open" /\ next[Client] \in 1..(Last + 1) /\ Open
  BY DEF Recv, Stream!Recv, Stream!client, SocketOK, Open, Stream!Streaming
<1>2. Last \in Nat /\ Len(Channel) = Last /\ next[Client] \in Nat
  BY ChannelLast DEF SocketOK
<1>3. Stream!Oldest \in 1..(Last + 1)
  BY <1>2, JobFollowerAssumption DEF Stream!Oldest
<1>4. CASE Stream!RecvLagged(Client)
  <2>1. Stream!Oldest - next[Client] \in Nat
    BY <1>2, <1>3, <1>4 DEF Stream!RecvLagged, Stream!Lagged
  <2>2. /\ socket' = [socket EXCEPT ![Client] = "sending"]
        /\ holding' = [holding EXCEPT ![Client] = [skipped |-> Stream!Oldest - next[Client]]]
        /\ next' = [next EXCEPT ![Client] = Stream!Oldest]
    BY <1>4 DEF Stream!RecvLagged, Stream!Hold, Stream!Resync
  <2>3. QED
    BY <1>1, <1>2, <1>3, <2>1, <2>2 DEF SocketOK
<1>5. CASE Stream!RecvUpdate(Client)
  <2>1. /\ socket' = [socket EXCEPT ![Client] = "sending"]
        /\ holding' = [holding EXCEPT ![Client] = [pos |-> next[Client]]]
        /\ next' = [next EXCEPT ![Client] = next[Client] + 1]
        /\ next[Client] <= Last
    BY <1>2, <1>5 DEF Stream!RecvUpdate, Stream!Hold, Stream!Update, Stream!Ready
  <2>2. QED
    BY <1>1, <1>2, <2>1 DEF SocketOK
<1>6. ~ Stream!RecvOther(Client)
  BY JobFollowerAssumption DEF Stream!RecvOther, Stream!Wants, Stream!PerJob
<1>7. QED
  BY <1>1, <1>4, <1>5, <1>6 DEF Stream!Recv
\* While the service works, the channel keeps what was sent on it.
LEMMA ServiceEffect ==
  ASSUME Shape, ServiceStep
  PROVE  /\ Last \in Nat /\ Last' \in Nat /\ Last' >= Last
         /\ \A n \in 1..Last : updates'[Job][n] = updates[Job][n]
<1>1. updates[Job] \in Seq(Update) /\ Last \in Nat /\ DOMAIN updates[Job] = 1..Last
  BY JobFollowerAssumption, ChannelLast DEF Shape, TypeOK
<1>2. CASE updates'[Job] = updates[Job]
  BY <1>1, <1>2 DEF Last
<1>3. CASE \E m \in Update : updates'[Job] = Append(updates[Job], m)
  <2>1. PICK m \in Update : updates'[Job] = Append(updates[Job], m)
    BY <1>3
  <2>2. Last' = Last + 1
    BY <1>1, <2>1, OneMore DEF Last
  <2>3. \A n \in 1..Last : updates'[Job][n] = updates[Job][n]
    BY <1>1, <2>1, OneMore
  <2>4. QED
    BY <1>1, <2>2, <2>3
<1>4. QED
  BY <1>2, <1>3, ChannelGrows, JobFollowerAssumption

LEMMA SocketInit == FollowerInit => SocketOK
BY DEF FollowerInit, SocketOK, Open, Stream!Streaming

\* The client's socket ends, at his hands or with the process.
LEMMA Closing ==
  ASSUME SocketOK, Stream!Closed({Client})
  PROVE  /\ socket' = [c \in {Client} |-> "closed"] /\ owes' = owes
         /\ ~ Open' /\ SocketOK'
<1>1. /\ socket' = [c \in {Client} |-> "closed"] /\ next' = [c \in {Client} |-> 1]
      /\ holding' = [c \in {Client} |-> Nothing] /\ owes' = owes
  BY DEF Stream!Closed, Stream!Reset
<1>2. QED
  BY <1>1 DEF SocketOK, Open, Stream!Streaming

LEMMA Delivery ==
  ASSUME SocketOK, Deliver
  PROVE  /\ socket[Client] = "sending" /\ socket' = [socket EXCEPT ![Client] = "open"]
         /\ UNCHANGED <<vars, next>>
         /\ DOMAIN holding' = {Client}
         /\ \/ /\ Resyncing /\ owes'[Client] = TRUE /\ asking' = Nothing /\ UNCHANGED view
            \/ \E n \in 1..Last : LET u == updates[Job][n] IN
                 /\ Bringing(n) /\ view' = Told(u)
                 /\ owes'[Client] = (owes[Client] \/ Ambiguous(u))
                 /\ asking' = IF Ambiguous(u) THEN Nothing ELSE asking
         /\ owes' \in [{Client} -> BOOLEAN]
<1>1. /\ socket[Client] = "sending" /\ socket' = [socket EXCEPT ![Client] = "open"]
      /\ holding' = [holding EXCEPT ![Client] = Nothing] /\ UNCHANGED <<vars, next>>
  BY DEF Deliver
<1>2. CASE Resyncing
  BY <1>1, <1>2, ResyncIsSkip DEF Deliver, Resyncing, SocketOK
<1>3. CASE \E n \in 1..Last : Bringing(n)
  <2>1. PICK n \in 1..Last : Bringing(n)
    BY <1>3
  <2>2. ~ Stream!IsResync(holding[Client]) /\ holding[Client].pos = n
    BY <2>1, ResyncIsSkip DEF Bringing
  <2>3. Ambiguous(updates[Job][n]) \in BOOLEAN
    BY DEF Ambiguous
  <2>4. /\ view' = Told(updates[Job][n])
        /\ owes' = [owes EXCEPT ![Client] = @ \/ Ambiguous(updates[Job][n])]
        /\ asking' = IF Ambiguous(updates[Job][n]) THEN Nothing ELSE asking
    BY <2>2 DEF Deliver
  <2>5. QED
    BY <1>1, <2>1, <2>3, <2>4, Zenon DEF SocketOK
<1>4. QED
  BY <1>1, <1>2, <1>3 DEF SocketOK

LEMMA SocketStep ==
  ASSUME Shape, SocketOK, [FollowerNext]_all
  PROVE  SocketOK'
<1> USE DEF Open, Stream!Streaming
<1>1. Last \in Nat /\ Len(Channel) = Last
  BY ChannelLast
<1>2. CASE ServiceStep /\ UNCHANGED follower
  <2>1. Last' \in Nat /\ Last' >= Last
    BY <1>2, ServiceEffect
  <2>2. UNCHANGED <<socket, next, holding, owes>>
    BY <1>2 DEF follower, task
  <2>3. QED
    BY <1>1, <2>1, <2>2 DEF SocketOK, Resyncing, Bringing
<1>3. CASE CrashAll \/ Hangup
  BY <1>3, Closing DEF CrashAll, Hangup, Stream!Hangup
<1>4. CASE Connect \/ Reads \/ Answer \/ UNCHANGED all
  <2>1. /\ UNCHANGED <<updates, next, holding>>
        /\ \/ socket' = socket
           \/ socket' = [socket EXCEPT ![Client] = "authorized"]
        /\ owes' \in [{Client} -> BOOLEAN]
    BY <1>4 DEF Connect, Reads, Answer, all, vars, memory, task, follower,
       Stream!Authorize, Stream!client, SocketOK
  <2>2. QED
    BY <1>1, <2>1 DEF SocketOK, Resyncing, Bringing, Last
<1>5. CASE Subscribe
  <2>1. /\ UNCHANGED <<updates, holding>> /\ socket' = [socket EXCEPT ![Client] = "open"]
        /\ next' = [next EXCEPT ![Client] = Last + 1] /\ owes' = [owes EXCEPT ![Client] = TRUE]
    BY <1>1, <1>5 DEF Subscribe, Stream!Subscribe, vars, memory
  <2>2. QED
    BY <1>1, <2>1 DEF SocketOK, Last
<1>6. CASE Recv
  <2>1. /\ UNCHANGED <<updates, owes>> /\ socket' = [socket EXCEPT ![Client] = "sending"]
        /\ DOMAIN holding' = {Client} /\ next' \in [{Client} -> Nat]
        /\ \/ /\ \E k \in Nat : holding'[Client] = [skipped |-> k]
              /\ next'[Client] \in 1..(Last + 1)
           \/ /\ next[Client] \in 1..Last /\ holding'[Client] = [pos |-> next[Client]]
              /\ next'[Client] = next[Client] + 1
    BY <1>6, RecvEffect DEF vars, memory
  <2>2. /\ socket' \in [{Client} -> {"closed", "authorized", "open", "sending"}]
        /\ socket'[Client] = "sending" /\ owes' \in [{Client} -> BOOLEAN] /\ Last' = Last
    BY <2>1 DEF SocketOK, Last
  <2>3. next'[Client] \in 1..(Last + 1)
    BY <1>1, <2>1
  <2>4. Resyncing' \/ \E n \in 1..Last : Bringing(n)'
    BY <2>1, <2>2 DEF Resyncing, Bringing
  <2>5. QED
    BY <2>1, <2>2, <2>3, <2>4 DEF SocketOK
<1>7. CASE Deliver
  <2>1. /\ updates' = updates /\ next' = next /\ DOMAIN holding' = {Client}
        /\ socket[Client] = "sending" /\ socket' = [socket EXCEPT ![Client] = "open"]
        /\ owes' \in [{Client} -> BOOLEAN]
    BY <1>7, Delivery DEF vars, memory
  <2>2. socket' \in [{Client} -> {"closed", "authorized", "open", "sending"}]
        /\ socket'[Client] = "open"
    BY <2>1 DEF SocketOK
  <2>3. QED
    BY <1>1, <2>1, <2>2 DEF SocketOK, Last
<1>8. QED
  BY <1>2, <1>3, <1>4, <1>5, <1>6, <1>7 DEF FollowerNext, ClientStep

-----------------------------------------------------------------------------
(* What the client has read, and what he holds.                            *)

\* A read under way saw outcomes that are still the ones in the database, and its
\* second statement all of those that a finished job of the first one has.
AskingOK ==
  /\ asking # Nothing =>
       /\ asking \in [job : JobStatus, target : {Unread} \cup [Slots -> RowStatus]]
       /\ asking.job \in Final => asking.job = jobStatus[Job]
  /\ ReadBoth =>
       /\ \A i \in Slots : asking.target[i] \in Final => asking.target[i] = status[Job][i]
       /\ asking.job \in Final => \A i \in 1..rows[Job] : asking.target[i] = status[Job][i]

ViewOK ==
  /\ view \in [job : {"working"} \cup Final, target : [Slots -> {"working"} \cup Final]]
  /\ ShownIsTrue

\* How a client whose socket is open is to learn of an outcome, if he does not hold
\* it: he will read, or is told, or is told to read, or the worker will say it.
TargetRead(i) == asking = Nothing \/ asking.target = Unread \/ asking.target[i] = status[Job][i]
JobRead       == asking = Nothing \/ asking.job = jobStatus[Job]

Coming(n) == n \in 1..Last /\ (n >= next[Client] \/ Bringing(n))
Says(u, p) == u.provider = p /\ u.status \in Final

\* The worker has recorded the outcome, and has not sent it, or never will.
Saying(i) == worker[Job].pc = "dead" \/ (worker[Job].pc = "announce" /\ worker[Job].target = i)
SayingEnd == worker[Job].pc \in {"dead", "finished"}

TargetCaught(i) ==
  \/ view.target[i] = status[Job][i]
  \/ owes[Client] /\ TargetRead(i)
  \/ \E n \in Nat : Coming(n) /\ Says(updates[Job][n], Asked(Job)[i].provider)
  \/ Resyncing
  \/ Saying(i)

JobCaught ==
  \/ view.job = jobStatus[Job]
  \/ owes[Client] /\ JobRead
  \/ \E n \in Nat : Coming(n) /\ Says(updates[Job][n], NoProvider)
  \/ Resyncing
  \/ SayingEnd

CaughtOK == Open =>
  /\ jobStatus[Job] \in Final => JobCaught
  /\ \A i \in 1..rows[Job] : status[Job][i] \in Final => TargetCaught(i)

LEMMA ViewInit == FollowerInit => AskingOK /\ ViewOK
BY DEF FollowerInit, AskingOK, ReadBoth, ViewOK, ShownIsTrue, Final

\* What lasts of the followed job.
LEMMA JobLasts ==
  ASSUME JobInv, [FollowerNext]_all
  PROVE  /\ \A i \in Slots : status[Job][i] \in Final => status'[Job][i] = status[Job][i]
         /\ jobStatus[Job] \in Final =>
              /\ jobStatus'[Job] = jobStatus[Job] /\ rows'[Job] = rows[Job]
              /\ \A i \in 1..rows[Job] : status[Job][i] \in Final
         /\ 1..rows[Job] \subseteq Slots
<1>1. Shape /\ AttemptInv /\ OutcomeInv /\ [Next]_vars /\ Job \in Requests
  BY FollowerStep, JobFollowerAssumption DEF JobInv
<1>2. Stays(Job)
  BY <1>1, FinalStays
<1>3. jobStatus[Job] \in Final => Committed(Job) /\ OutcomeOK(Job)
  BY <1>1 DEF Final, Committed, OutcomeInv
<1>4. Committed(Job) => rows'[Job] = rows[Job]
  BY <1>1, Lasting
<1>5. 1..rows[Job] \subseteq Slots
  BY <1>1, CrossPostAssumption DEF Shape, TypeOK, Slots
<1>6. QED
  BY <1>2, <1>3, <1>4, <1>5 DEF Stays, OutcomeOK

LEMMA FollowerKinds ==
  ASSUME [FollowerNext]_all
  PROVE  \/ view' = view /\ asking' \in {asking, Nothing}
         \/ UNCHANGED vars /\ (Deliver \/ Reads \/ Answer)
<1>1. CASE ServiceStep /\ UNCHANGED follower
  BY <1>1 DEF follower
<1>2. CASE CrashAll \/ Connect \/ Subscribe \/ Hangup \/ Recv
  BY <1>2 DEF CrashAll, Connect, Subscribe, Hangup, Recv
<1>3. CASE UNCHANGED all
  BY <1>3 DEF all, follower
<1>4. CASE Deliver \/ Reads \/ Answer
  BY <1>4 DEF Deliver, Reads, Answer
<1>5. QED
  BY <1>1, <1>2, <1>3, <1>4 DEF FollowerNext, ClientStep

LEMMA AskingStep ==
  ASSUME JobInv, AskingOK, [FollowerNext]_all
  PROVE  AskingOK'
<1>1. CASE asking' = asking
  BY <1>1, JobLasts DEF AskingOK, ReadBoth
<1>2. CASE asking' = Nothing
  BY <1>2 DEF AskingOK, ReadBoth
<1>3. CASE UNCHANGED vars /\ Reads
  <2>1. /\ jobStatus'[Job] = jobStatus[Job] /\ status'[Job] = status[Job]
        /\ rows'[Job] = rows[Job]
        /\ jobStatus[Job] \in JobStatus /\ status[Job] \in [Slots -> RowStatus]
    BY <1>3, JobFollowerAssumption DEF vars, database, JobInv, Shape, TypeOK
  <2>2. CASE asking' = [job |-> jobStatus[Job], target |-> Unread]
    BY <2>1, <2>2 DEF AskingOK, ReadBoth
  <2>3. CASE asking # Nothing /\ asking' = [asking EXCEPT !.target = status[Job]]
    <3>1. /\ asking' \in [job : JobStatus, target : {Unread} \cup [Slots -> RowStatus]]
          /\ asking'.job = asking.job /\ asking'.target = status[Job]
      BY <2>1, <2>3 DEF AskingOK
    <3>2. QED
      BY <2>1, <2>3, <3>1 DEF AskingOK, ReadBoth
  <2>4. QED
    BY <1>3, <2>2, <2>3 DEF Reads
<1>4. CASE Deliver \/ Answer
  <2>1. asking' \in {asking, Nothing}
    BY <1>4 DEF Deliver, Answer
  <2>2. QED
    BY <1>1, <1>2, <2>1
<1>5. QED
  BY <1>1, <1>2, <1>3, <1>4, FollowerKinds

\* An update that a client can tell the target of is about that target.
LEMMA MessageTold ==
  ASSUME JobInv, ViewOK, NEW n \in 1..Last
  PROVE  /\ Told(updates[Job][n]) \in
              [job : {"working"} \cup Final, target : [Slots -> {"working"} \cup Final]]
         /\ Told(updates[Job][n]).job \in Final => Told(updates[Job][n]).job = jobStatus[Job]
         /\ \A i \in Slots : Told(updates[Job][n]).target[i] \in Final =>
              Told(updates[Job][n]).target[i] = status[Job][i]
<1> DEFINE u == updates[Job][n]
<1>1. TellsTruth(Job, u)
  BY ChannelLast, JobFollowerAssumption DEF JobInv, MessageInv, MessageOK, Truthful
<1> HIDE DEF u
<1>2. /\ view \in [job : {"working"} \cup Final, target : [Slots -> {"working"} \cup Final]]
      /\ view.job \in Final => view.job = jobStatus[Job]
      /\ \A i \in Slots : view.target[i] \in Final => view.target[i] = status[Job][i]
  BY DEF ViewOK, ShownIsTrue
<1>3. CASE u.provider = NoProvider
  <2>1. Told(u) = [view EXCEPT !.job = Learned(view.job, u.status)]
    BY <1>3 DEF Told
  <2>2. Told(u).job = Learned(view.job, u.status) /\ Told(u).target = view.target
        /\ DOMAIN Told(u) = DOMAIN view
    BY <1>2, <2>1
  <2>3. /\ Learned(view.job, u.status) \in {"working"} \cup Final
        /\ Learned(view.job, u.status) \in Final => Learned(view.job, u.status) = jobStatus[Job]
    BY <1>1, <1>2, <1>3 DEF Learned, TellsTruth, OfJob, Outcome, Final
  <2>4. Told(u) \in [job : {"working"} \cup Final, target : [Slots -> {"working"} \cup Final]]
    BY <1>2, <2>1, <2>3
  <2>5. QED
    BY <1>2, <2>2, <2>3, <2>4 DEF u
<1>4. CASE u.provider # NoProvider
  <2> DEFINE t == [i \in Slots |-> IF TargetsAt(u.provider) = {i}
                                   THEN Learned(view.target[i], u.status) ELSE view.target[i]]
  <2>1. Told(u) = [view EXCEPT !.target = t]
    BY <1>4 DEF Told
  <2>2. ASSUME NEW i \in Slots
        PROVE  t[i] \in {"working"} \cup Final /\ (t[i] \in Final => t[i] = status[Job][i])
    <3>1. TargetsAt(u.provider) = {i} /\ u.status \in Final => u.status = status[Job][i]
      BY <1>1, <1>4 DEF TellsTruth, TellsTarget, OfJob, Outcome, TargetsAt
    <3>2. t[i] = IF TargetsAt(u.provider) = {i}
                 THEN Learned(view.target[i], u.status) ELSE view.target[i]
      OBVIOUS
    <3>3. QED
      BY <1>2, <3>1, <3>2 DEF Learned
  <2>3. t \in [Slots -> {"working"} \cup Final]
    BY <2>2
  <2> HIDE DEF t
  <2>4. Told(u).job = view.job /\ Told(u).target = t
        /\ Told(u) \in [job : {"working"} \cup Final, target : [Slots -> {"working"} \cup Final]]
    BY <1>2, <2>1, <2>3
  <2>5. QED
    BY <1>2, <2>2, <2>4 DEF u
<1>5. QED
  BY <1>3, <1>4

LEMMA ViewStep ==
  ASSUME JobInv, SocketOK, AskingOK, ViewOK, [FollowerNext]_all
  PROVE  ViewOK'
<1>1. CASE view' = view
  BY <1>1, JobLasts DEF ViewOK, ShownIsTrue
<1>2. CASE UNCHANGED vars /\ Answer
  <2> DEFINE t == [i \in Slots |-> Learned(view.target[i], asking.target[i])]
  <2>1. /\ jobStatus'[Job] = jobStatus[Job] /\ status'[Job] = status[Job]
        /\ view' = [job |-> Learned(view.job, asking.job), target |-> t]
    BY <1>2 DEF vars, database, Answer
  <2>2. /\ view'.job \in {"working"} \cup Final
        /\ view'.job \in Final => view'.job = jobStatus[Job]
    BY <1>2, <2>1 DEF Answer, ReadBoth, AskingOK, ViewOK, ShownIsTrue, Learned
  <2>3. ASSUME NEW i \in Slots
        PROVE  t[i] \in {"working"} \cup Final /\ (t[i] \in Final => t[i] = status[Job][i])
    BY <1>2 DEF Answer, ReadBoth, AskingOK, ViewOK, ShownIsTrue, Learned
  <2>4. t \in [Slots -> {"working"} \cup Final]
    BY <2>3
  <2> HIDE DEF t
  <2>5. view' \in [job : {"working"} \cup Final, target : [Slots -> {"working"} \cup Final]]
        /\ view'.target = t
    BY <2>1, <2>2, <2>4
  <2>6. QED
    BY <2>1, <2>2, <2>3, <2>5 DEF ViewOK, ShownIsTrue
<1>3. CASE UNCHANGED vars /\ Deliver
  <2>1. jobStatus'[Job] = jobStatus[Job] /\ status'[Job] = status[Job]
    BY <1>3 DEF vars, database
  <2>2. CASE \E n \in 1..Last : view' = Told(updates[Job][n])
    BY <2>1, <2>2, MessageTold DEF ViewOK, ShownIsTrue
  <2>3. QED
    BY <1>1, <1>3, <2>2, Delivery
<1>4. CASE Reads
  BY <1>1, <1>4 DEF Reads
<1>5. QED
  BY <1>1, <1>2, <1>3, <1>4, FollowerKinds

-----------------------------------------------------------------------------
(* Nothing is missed.                                                      *)

\* The step sends one more message, an outcome of p.
SaysNow(p) == Last' = Last + 1 /\ Says(updates'[Job][Last + 1], p)

LEMMA Sending ==
  ASSUME Shape, NEW p \in Providers \cup {NoProvider}, NEW s \in Final, Tells(Job, p, s)
  PROVE  SaysNow(p)
<1>1. updates[Job] \in Seq(Update) /\ Last \in Nat
  BY JobFollowerAssumption, ChannelLast DEF Shape, TypeOK
<1>2. PICK k \in 0..MaxAttempts :
        updates'[Job] = Append(updates[Job], [provider |-> p, status |-> s, attempt |-> k])
  BY DEF Tells
<1>3. [provider |-> p, status |-> s, attempt |-> k] \in Update
  BY DEF Update
<1>4. QED
  BY <1>1, <1>2, <1>3, OneMore DEF SaysNow, Says, Last

\* An outcome is on record before it is said, and said unless the worker dies.
LEMMA WorkerSays ==
  ASSUME JobInv, JobInv', ServiceStep
  PROVE  /\ \A i \in 1..rows'[Job] : status'[Job][i] \in Final =>
              \/ Saying(i)'
              \/ /\ i \in 1..rows[Job] /\ status[Job][i] \in Final
                 /\ Saying(i) => SaysNow(Asked(Job)[i].provider)
         /\ jobStatus'[Job] \in Final =>
              \/ SayingEnd'
              \/ /\ jobStatus[Job] \in Final
                 /\ SayingEnd => SaysNow(NoProvider)
<1>1. /\ Shape /\ AttemptInv /\ OutcomeInv /\ MessageInv /\ [Next]_vars /\ Job \in Requests
      /\ OutcomeOK(Job) /\ MessageOK(Job)
  BY JobFollowerAssumption DEF JobInv, ServiceStep, Next, OutcomeInv, MessageInv
<1>2. CASE UNCHANGED Belongings(Job) \/ Crashes(Job) \/ Commits(Job) \/ Spawns(Job)
  <2>1. /\ status'[Job] = status[Job]
        /\ jobStatus'[Job] \in Final => jobStatus[Job] \in Final
    BY <1>2 DEF Belongings, Crashes, Commits, Spawns, KeepsRows, Final
  <2>2. /\ worker[Job].pc = "none" => \A i \in Slots : status[Job][i] \notin Final
        /\ worker[Job].pc = "none" => jobStatus[Job] \notin Final
        /\ worker[Job].pc # "none" => rows'[Job] = rows[Job]
    BY <1>1, Lasting DEF OutcomeOK, Final, Shape, WorkerShape, JobShape
  <2>3. 1..rows'[Job] \subseteq Slots
    BY CrossPostAssumption, JobFollowerAssumption DEF JobInv, Shape, TypeOK, Slots
  <2>4. worker[Job].pc = "dead" => worker'[Job].pc = "dead"
    BY <1>2 DEF Belongings, Crashes, Commits, Spawns, Working
  <2>5. worker[Job].pc \in {"announce", "finished"} =>
          worker'[Job] = worker[Job] \/ worker'[Job].pc = "dead"
    BY <1>2 DEF Belongings, Crashes, Commits, Spawns, Working, Task
  <2>6. QED
    BY <1>2, <2>1, <2>2, <2>3, <2>4, <2>5 DEF Saying, SayingEnd
<1>3. CASE TaskMoves(Job)
  <2>1. /\ worker[Job].pc \in Working /\ rows'[Job] = rows[Job]
        /\ TaskShape(worker[Job], rows[Job], jobStatus[Job])
        /\ 1..rows[Job] \subseteq Slots
        /\ worker[Job].pc # "dead" /\ worker[Job].pc # "none"
    BY <1>1, <1>3, TaskKeeps, TaskFacts, CrossPostAssumption
       DEF TaskShape, Working, Shape, TypeOK, Slots
  <2> USE DEF Saying, SayingEnd
  <2>2. CASE Claims(Job)
    <3>1. worker[Job].pc = "claim" /\ jobStatus'[Job] \notin Final /\ status'[Job] = status[Job]
      BY <2>2 DEF Claims, Moves, KeepsRows, Final
    <3>2. \A i \in Slots : status[Job][i] \notin Final
      BY <1>1, <3>1 DEF OutcomeOK, Final
    <3>3. QED
      BY <2>1, <3>1, <3>2
  <2>3. CASE \/ Starts(Job) \/ Picks(Job) \/ Calls(Job) \/ IsPosted(Job) \/ Succeeds(Job)
             \/ Fails(Job) \/ BacksOff(Job)
    <3>1. /\ worker[Job].pc \notin {"announce", "finished"}
          /\ status'[Job] = status[Job] /\ jobStatus'[Job] = jobStatus[Job]
      BY <2>3 DEF Starts, Picks, Calls, IsPosted, Succeeds, Fails, BacksOff, Moves, KeepsRows
    <3>2. QED
      BY <2>1, <3>1
  <2>4. CASE Begins(Job)
    <3>1. /\ worker[Job].pc = "begin" /\ jobStatus'[Job] = jobStatus[Job]
          /\ Writes(Job, worker[Job].target, "running")
      BY <2>4 DEF Begins, Moves
    <3>2. QED
      BY <2>1, <3>1 DEF Writes, Final
  <2>5. CASE Records(Job)
    <3>1. /\ worker[Job].pc \in {"completing", "failing"} /\ jobStatus'[Job] = jobStatus[Job]
          /\ worker'[Job].pc = "announce" /\ worker'[Job].target = worker[Job].target
          /\ \A i \in Slots \ {worker[Job].target} : status'[Job][i] = status[Job][i]
      BY <2>5 DEF Records, Writes
    <3>2. QED
      BY <2>1, <3>1
  <2>6. CASE Announces(Job)
    <3>1. PICK p \in Providers : /\ p = Asked(Job)[worker[Job].target].provider
                                 /\ Tells(Job, p, worker[Job].outcome)
      BY <2>6 DEF Announces
    <3>2. /\ worker[Job].pc = "announce" /\ worker[Job].outcome \in Final
          /\ status'[Job] = status[Job] /\ jobStatus'[Job] = jobStatus[Job]
      BY <2>1, <2>6 DEF Announces, Moves, KeepsRows, TaskShape
    <3>3. SaysNow(Asked(Job)[worker[Job].target].provider)
      BY <1>1, <3>1, <3>2, Sending
    <3>4. QED
      BY <2>1, <3>2, <3>3
  <2>7. CASE Finishes(Job)
    BY <2>1, <2>7 DEF Finishes, Moves, KeepsRows
  <2>8. CASE Ends(Job)
    <3>1. CASE worker'[Job].pc = "dead"
      BY <3>1
    <3>2. CASE worker'[Job].pc # "dead"
      <4>1. /\ worker[Job].pc = "finished" /\ Tells(Job, NoProvider, jobStatus[Job])
            /\ status'[Job] = status[Job] /\ jobStatus'[Job] = jobStatus[Job]
            /\ jobStatus[Job] \in Final
        BY <2>1, <2>8, <3>2 DEF Ends, Task, KeepsRows, TaskShape
      <4>2. SaysNow(NoProvider)
        BY <1>1, <4>1, Sending
      <4>3. QED
        BY <2>1, <4>1, <4>2
    <3>3. QED
      BY <3>1, <3>2
  <2>9. QED
    BY <1>1, <1>3, <2>2, <2>3, <2>4, <2>5, <2>6, <2>7, <2>8, TaskEffects
<1>4. QED
  BY <1>1, <1>2, <1>3, JobSteps

LEMMA CaughtService ==
  ASSUME JobInv, JobInv', SocketOK, CaughtOK, ServiceStep, UNCHANGED follower
  PROVE  CaughtOK'
<1>1. /\ UNCHANGED <<socket, next, holding, owes, asking, view>>
      /\ [FollowerNext]_all /\ Shape /\ [Next]_vars /\ Job \in Requests
  BY FollowerStep, JobFollowerAssumption DEF follower, task, FollowerNext, JobInv
<1>2. /\ \A i \in Slots : status[Job][i] \in Final => status'[Job][i] = status[Job][i]
      /\ jobStatus[Job] \in Final => jobStatus'[Job] = jobStatus[Job]
      /\ 1..rows[Job] \subseteq Slots
  BY <1>1, JobLasts
<1>3. Last \in Nat /\ Last' \in Nat /\ Last' >= Last
      /\ \A n \in 1..Last : updates'[Job][n] = updates[Job][n]
  BY <1>1, ServiceEffect
<1>4. SUFFICES ASSUME Open PROVE CaughtOK'
  BY <1>1 DEF CaughtOK, Open, Stream!Streaming
<1>5. next[Client] \in Nat /\ next[Client] <= Last + 1
  BY <1>3, <1>4 DEF SocketOK
<1>6. \A n \in Nat : Coming(n) => Coming(n)' /\ updates'[Job][n] = updates[Job][n]
  BY <1>1, <1>3 DEF Coming, Bringing
<1>7. PICK k \in Nat : k = Last + 1
  BY <1>3
<1>8. Last' = k => Coming(k)'
  BY <1>1, <1>3, <1>5, <1>7 DEF Coming
<1>9. /\ Resyncing' = Resyncing
      /\ \A i \in Slots : status[Job][i] \in Final => TargetRead(i)' = TargetRead(i)
      /\ jobStatus[Job] \in Final => JobRead' = JobRead
  BY <1>1, <1>2 DEF Resyncing, TargetRead, JobRead
<1>10. ASSUME NEW i \in 1..rows'[Job], status'[Job][i] \in Final PROVE TargetCaught(i)'
  <2>1. CASE Saying(i)'
    BY <2>1 DEF TargetCaught
  <2>2. CASE /\ i \in 1..rows[Job] /\ status[Job][i] \in Final
             /\ Saying(i) => SaysNow(Asked(Job)[i].provider)
    <3>1. /\ TargetCaught(i) /\ status'[Job][i] = status[Job][i]
          /\ TargetRead(i)' = TargetRead(i)
      BY <1>2, <1>4, <1>9, <2>2 DEF CaughtOK
    <3>2. Asked(Job)' = Asked(Job)
      <4>1. worker[Job].pc # "none" \/ status[Job][i] \notin Final
        BY <1>1, <1>2, <2>2 DEF JobInv, OutcomeInv, OutcomeOK, Final
      <4>2. Committed(Job)
        BY <1>1, <2>2, <4>1 DEF Shape, WorkerShape, JobShape
      <4>3. QED
        BY <1>1, <4>2, Lasting DEF Asked
    <3>3. CASE SaysNow(Asked(Job)[i].provider)
      BY <1>7, <1>8, <3>2, <3>3 DEF SaysNow, TargetCaught, Says
    <3>4. CASE ~ Saying(i)
      <4>1. CASE view.target[i] = status[Job][i] \/ (owes[Client] /\ TargetRead(i)) \/ Resyncing
        BY <1>1, <1>9, <3>1, <4>1 DEF TargetCaught
      <4>2. CASE \E n \in Nat : Coming(n) /\ Says(updates[Job][n], Asked(Job)[i].provider)
        BY <1>6, <3>2, <4>2 DEF TargetCaught, Says
      <4>3. QED
        BY <3>1, <3>4, <4>1, <4>2 DEF TargetCaught
    <3>5. QED
      BY <2>2, <3>3, <3>4
  <2>3. QED
    BY <1>10, <2>1, <2>2, WorkerSays
<1>11. ASSUME jobStatus'[Job] \in Final PROVE JobCaught'
  <2>1. CASE SayingEnd'
    BY <2>1 DEF JobCaught
  <2>2. CASE jobStatus[Job] \in Final /\ (SayingEnd => SaysNow(NoProvider))
    <3>1. JobCaught /\ jobStatus'[Job] = jobStatus[Job] /\ JobRead' = JobRead
      BY <1>2, <1>4, <1>9, <2>2 DEF CaughtOK
    <3>2. CASE SaysNow(NoProvider)
      BY <1>7, <1>8, <3>2 DEF SaysNow, JobCaught, Says
    <3>3. CASE ~ SayingEnd
      <4>1. CASE view.job = jobStatus[Job] \/ (owes[Client] /\ JobRead) \/ Resyncing
        BY <1>1, <1>9, <3>1, <4>1 DEF JobCaught
      <4>2. CASE \E n \in Nat : Coming(n) /\ Says(updates[Job][n], NoProvider)
        BY <1>6, <4>2 DEF JobCaught, Says
      <4>3. QED
        BY <3>1, <3>3, <4>1, <4>2 DEF JobCaught
    <3>4. QED
      BY <2>2, <3>2, <3>3
  <2>3. QED
    BY <1>11, <2>1, <2>2, WorkerSays
<1>12. QED
  BY <1>10, <1>11 DEF CaughtOK

\* Steps of the client and of his socket leave the job as it is.
SameJob ==
  /\ jobStatus'[Job] = jobStatus[Job] /\ status'[Job] = status[Job] /\ rows'[Job] = rows[Job]
  /\ worker' = worker /\ updates' = updates /\ body' = body

LEMMA JobUnchanged ==
  UNCHANGED vars =>
    /\ SameJob /\ Last' = Last /\ Asked(Job)' = Asked(Job) /\ SayingEnd' = SayingEnd
    /\ \A i : Saying(i)' = Saying(i)
BY DEF vars, handlers, database, memory, SameJob, Last, Asked, Saying, SayingEnd

LEMMA CaughtRecv ==
  ASSUME Shape, SocketOK, CaughtOK, Recv
  PROVE  CaughtOK'
<1>1. /\ SameJob /\ Last' = Last /\ Asked(Job)' = Asked(Job) /\ SayingEnd' = SayingEnd
      /\ \A i : Saying(i)' = Saying(i)
      /\ socket[Client] = "open" /\ socket'[Client] = "sending"
      /\ UNCHANGED <<owes, asking, view>>
  BY RecvEffect, JobUnchanged DEF SocketOK
<1>2. CASE \E k \in Nat : holding'[Client] = [skipped |-> k]
  <2>1. Resyncing'
    BY <1>1, <1>2 DEF Resyncing
  <2>2. QED
    BY <2>1 DEF CaughtOK, TargetCaught, JobCaught
<1>3. CASE /\ next[Client] \in 1..Last /\ holding'[Client] = [pos |-> next[Client]]
           /\ next'[Client] = next[Client] + 1
  <2>1. \A n \in Nat : Coming(n) => Coming(n)'
    BY <1>1, <1>3 DEF Coming, Bringing
  <2>2. ~ Resyncing /\ Open
    BY <1>1 DEF Resyncing, Open, Stream!Streaming
  <2>3. /\ \A i : TargetRead(i)' = TargetRead(i)
        /\ JobRead' = JobRead
    BY <1>1 DEF TargetRead, JobRead, SameJob
  <2>4. \A i \in 1..rows[Job] : TargetCaught(i) => TargetCaught(i)'
    BY <1>1, <2>1, <2>2, <2>3 DEF TargetCaught, SameJob, Says
  <2>5. JobCaught => JobCaught'
    BY <1>1, <2>1, <2>2, <2>3 DEF JobCaught, SameJob, Says
  <2>6. QED
    BY <1>1, <2>2, <2>4, <2>5 DEF CaughtOK, SameJob
<1>4. QED
  BY <1>2, <1>3, RecvEffect

\* An update of a provider at which the job has one target tells which it is.
LEMMA OneTargetAt ==
  ASSUME Shape, NEW p, NEW i \in TargetsAt(p), ~ (Cardinality(TargetsAt(p)) > 1)
  PROVE  TargetsAt(p) = {i}
<1>1. rows[Job] \in Nat
  BY CrossPostAssumption, JobFollowerAssumption DEF Shape, TypeOK
<1>2. IsFiniteSet(TargetsAt(p)) /\ Cardinality(TargetsAt(p)) \in Nat
  <2>1. IsFiniteSet(1..rows[Job])
    BY <1>1, FS_Interval
  <2>2. TargetsAt(p) \in SUBSET (1..rows[Job])
    BY DEF TargetsAt
  <2>3. QED
    BY <2>1, <2>2, FS_Subset, FS_CardinalityType
<1>3. /\ IsFiniteSet(TargetsAt(p) \ {i})
      /\ Cardinality(TargetsAt(p) \ {i}) = Cardinality(TargetsAt(p)) - 1
  BY <1>2, FS_RemoveElement
<1>4. Cardinality(TargetsAt(p) \ {i}) = 0
  BY <1>2, <1>3, FS_CardinalityType
<1>5. TargetsAt(p) \ {i} = {}
  BY <1>3, <1>4, FS_EmptySet
<1>6. QED
  BY <1>5

\* No row is that of the job itself.
LEMMA RowProvider ==
  ASSUME JobInv, NEW i \in 1..rows[Job], status[Job][i] \in Final
  PROVE  Asked(Job)[i].provider # NoProvider
<1>1. Job \in Requests /\ Shape /\ OutcomeOK(Job)
  BY JobFollowerAssumption DEF JobInv, OutcomeInv
<1>2. rows[Job] \in 0..MaxTargets
  BY <1>1 DEF Shape, TypeOK
<1>3. i \in Slots
  BY <1>2, CrossPostAssumption DEF Slots
<1>4. Committed(Job)
  BY <1>1, <1>3 DEF OutcomeOK, Final, Shape, WorkerShape, JobShape
<1>5. body[Job] \in Bodies /\ rows[Job] = Len(Asked(Job))
  BY <1>1, <1>4 DEF Shape, HandlerShape, JobShape
<1>6. Asked(Job) \in Seq(Target)
  BY <1>5, CrossPostAssumption DEF Asked, Body
<1>7. Asked(Job)[i] \in Target
  BY <1>5, <1>6, ElementOfSeq
<1>8. QED
  BY <1>7, CrossPostAssumption DEF Target

\* What a client holds, he keeps; what he is told, he holds or reads.
LEMMA CaughtDeliver ==
  ASSUME JobInv, SocketOK, ViewOK, CaughtOK, Deliver
  PROVE  CaughtOK'
<1>1. /\ SameJob /\ Last' = Last /\ Asked(Job)' = Asked(Job) /\ SayingEnd' = SayingEnd
      /\ \A i : Saying(i)' = Saying(i)
      /\ socket[Client] = "sending" /\ next' = next /\ Shape /\ Open
      /\ 1..rows[Job] \subseteq Slots
  BY Delivery, JobUnchanged, CrossPostAssumption, JobFollowerAssumption
     DEF Open, Stream!Streaming, JobInv, Shape, TypeOK, Slots
<1>2. CASE owes'[Client] = TRUE /\ asking' = Nothing
  BY <1>2 DEF CaughtOK, TargetCaught, JobCaught, TargetRead, JobRead
<1>3. CASE \E n \in 1..Last : LET u == updates[Job][n] IN
             /\ Bringing(n) /\ view' = Told(u) /\ owes'[Client] = (owes[Client] \/ Ambiguous(u))
             /\ asking' = IF Ambiguous(u) THEN Nothing ELSE asking
  <2>1. PICK n \in 1..Last :
          /\ Bringing(n) /\ view' = Told(updates[Job][n])
          /\ owes'[Client] = (owes[Client] \/ Ambiguous(updates[Job][n]))
          /\ asking' = IF Ambiguous(updates[Job][n]) THEN Nothing ELSE asking
    BY <1>3
  <2>2. PICK u : u = updates[Job][n]
    OBVIOUS
  <2>3. CASE Ambiguous(u)
    BY <1>2, <2>1, <2>2, <2>3
  <2>4. CASE ~ Ambiguous(u)
    <3>1. owes'[Client] = owes[Client] /\ asking' = asking /\ view' = Told(u)
      BY <2>1, <2>2, <2>4 DEF SocketOK
    <3>2. ~ Resyncing /\ \A m \in Nat : Coming(m) => m = n \/ Coming(m)'
      <4>1. holding[Client] = [pos |-> n]
        BY <2>1 DEF Bringing
      <4>2. /\ \A k \in Nat : holding[Client] # [skipped |-> k]
            /\ \A m \in Nat : holding[Client] = [pos |-> m] => m = n
        BY <4>1, ResyncIsSkip
      <4>3. \A m \in Nat : Bringing(m) => m = n
        BY <4>2 DEF Bringing
      <4>4. QED
        BY <1>1, <4>2, <4>3 DEF Resyncing, Coming
    <3>3. /\ \A i : TargetRead(i)' = TargetRead(i)
          /\ JobRead' = JobRead
      BY <1>1, <3>1 DEF TargetRead, JobRead, SameJob
    <3>4. /\ view'.job \in Final => view'.job = jobStatus[Job]
          /\ \A i \in Slots : view'.target[i] \in Final => view'.target[i] = status[Job][i]
          /\ view.job \in Final => view'.job = view.job
          /\ u.provider = NoProvider /\ u.status \in Final => view'.job \in Final
          /\ \A i \in Slots : view.target[i] \in Final => view'.target[i] = view.target[i]
          /\ \A i \in Slots : u.provider # NoProvider /\ TargetsAt(u.provider) = {i}
                              /\ u.status \in Final => view'.target[i] \in Final
      <4>1. /\ view'.job \in Final => view'.job = jobStatus[Job]
            /\ \A i \in Slots : view'.target[i] \in Final => view'.target[i] = status[Job][i]
        BY <2>2, <3>1, MessageTold
      <4>2. CASE u.provider = NoProvider
        <5>1. view'.job = Learned(view.job, u.status) /\ view'.target = view.target
          BY <3>1, <4>2 DEF Told, ViewOK
        <5>2. QED
          BY <4>1, <4>2, <5>1 DEF Learned
      <4>3. CASE u.provider # NoProvider
        <5>1. /\ view'.job = view.job
              /\ \A i \in Slots : view'.target[i] = IF TargetsAt(u.provider) = {i}
                   THEN Learned(view.target[i], u.status) ELSE view.target[i]
          BY <3>1, <4>3 DEF Told, ViewOK
        <5>2. QED
          BY <4>1, <4>3, <5>1 DEF Learned
      <4>4. QED
        BY <4>2, <4>3
    <3>5. ASSUME NEW i \in 1..rows[Job], status[Job][i] \in Final, TargetCaught(i)
          PROVE  TargetCaught(i)'
      <4>1. CASE view.target[i] = status[Job][i]
        BY <1>1, <3>4, <3>5, <4>1 DEF TargetCaught, SameJob
      <4>2. CASE (owes[Client] /\ TargetRead(i)) \/ Saying(i)
        BY <1>1, <3>1, <3>3, <4>2 DEF TargetCaught
      <4>3. CASE \E m \in Nat : Coming(m) /\ Says(updates[Job][m], Asked(Job)[i].provider)
        <5>1. PICK m \in Nat : Coming(m) /\ Says(updates[Job][m], Asked(Job)[i].provider)
          BY <4>3
        <5>2. CASE Coming(m)'
          BY <1>1, <5>1, <5>2 DEF TargetCaught, SameJob, Says
        <5>3. CASE m = n
          <6>1. u.provider = Asked(Job)[i].provider /\ u.status \in Final
            BY <2>2, <5>1, <5>3 DEF Says
          <6>2. i \in TargetsAt(u.provider)
            BY <6>1 DEF TargetsAt
          <6>3. u.provider # NoProvider
            BY <6>1, <3>5, RowProvider
          <6>4. TargetsAt(u.provider) = {i}
            BY <1>1, <2>4, <6>1, <6>2, <6>3, OneTargetAt DEF Ambiguous
          <6>5. view'.target[i] = status[Job][i]
            BY <1>1, <3>4, <6>1, <6>3, <6>4
          <6>6. QED
            BY <1>1, <6>5 DEF TargetCaught, SameJob
        <5>4. QED
          BY <3>2, <5>1, <5>2, <5>3
      <4>4. QED
        BY <3>2, <3>5, <4>1, <4>2, <4>3 DEF TargetCaught
    <3>6. ASSUME jobStatus[Job] \in Final, JobCaught PROVE JobCaught'
      <4>1. CASE view.job = jobStatus[Job]
        BY <1>1, <3>4, <3>6, <4>1 DEF JobCaught, SameJob
      <4>2. CASE (owes[Client] /\ JobRead) \/ SayingEnd
        BY <1>1, <3>1, <3>3, <4>2 DEF JobCaught
      <4>3. CASE \E m \in Nat : Coming(m) /\ Says(updates[Job][m], NoProvider)
        <5>1. PICK m \in Nat : Coming(m) /\ Says(updates[Job][m], NoProvider)
          BY <4>3
        <5>2. CASE Coming(m)'
          BY <1>1, <5>1, <5>2 DEF JobCaught, SameJob, Says
        <5>3. CASE m = n
          BY <1>1, <2>2, <3>4, <5>1, <5>3 DEF JobCaught, SameJob, Says
        <5>4. QED
          BY <3>2, <5>1, <5>2, <5>3
      <4>4. QED
        BY <3>2, <3>6, <4>1, <4>2, <4>3 DEF JobCaught
    <3>7. QED
      BY <1>1, <3>5, <3>6 DEF CaughtOK, SameJob
  <2>5. QED
    BY <2>3, <2>4
<1>4. QED
  BY <1>2, <1>3, Delivery

\* A read brings what was on record when it was made; a client who goes on reading
\* loses nothing.
LEMMA CaughtRead ==
  ASSUME JobInv, SocketOK, AskingOK, ViewOK, CaughtOK, UNCHANGED vars, Reads \/ Answer
  PROVE  CaughtOK'
<1>1. /\ SameJob /\ Last' = Last /\ Asked(Job)' = Asked(Job) /\ SayingEnd' = SayingEnd
      /\ \A i : Saying(i)' = Saying(i)
      /\ UNCHANGED <<socket, next, holding>>
      /\ 1..rows[Job] \subseteq Slots
  BY JobUnchanged, CrossPostAssumption, JobFollowerAssumption
     DEF Reads, Answer, task, JobInv, Shape, TypeOK, Slots
<1>2. /\ Open' = Open /\ Resyncing' = Resyncing
      /\ \A n \in Nat : Coming(n)' = Coming(n)
  BY <1>1 DEF Open, Stream!Streaming, Resyncing, Coming, Bringing
<1>3. CASE Reads
  <2>1. view' = view /\ owes' = owes
    BY <1>3 DEF Reads
  <2>2. \A i : TargetRead(i) => TargetRead(i)'
    BY <1>1, <1>3 DEF Reads, TargetRead, SameJob, AskingOK
  <2>3. JobRead => JobRead'
    BY <1>1, <1>3 DEF Reads, JobRead, SameJob, AskingOK
  <2>4. \A i \in 1..rows[Job] : TargetCaught(i) => TargetCaught(i)'
    BY <1>1, <1>2, <2>1, <2>2 DEF TargetCaught, SameJob, Says
  <2>5. JobCaught => JobCaught'
    BY <1>1, <1>2, <2>1, <2>3 DEF JobCaught, SameJob, Says
  <2>6. QED
    BY <1>1, <1>2, <2>4, <2>5 DEF CaughtOK, SameJob
<1>4. CASE Answer
  <2>1. /\ view'.job = Learned(view.job, asking.job)
        /\ \A i \in Slots : view'.target[i] = Learned(view.target[i], asking.target[i])
        /\ ReadBoth
    BY <1>4 DEF Answer
  <2>2. ASSUME NEW i \in 1..rows[Job], status[Job][i] \in Final, TargetCaught(i)
        PROVE  TargetCaught(i)'
    <3>1. view.target[i] = status[Job][i] \/ TargetRead(i) => view'.target[i] = status[Job][i]
      BY <1>1, <2>1, <2>2 DEF Learned, TargetRead, ReadBoth, ViewOK, ShownIsTrue
    <3>2. QED
      BY <1>1, <1>2, <2>2, <3>1 DEF TargetCaught, SameJob, Says
  <2>3. ASSUME jobStatus[Job] \in Final, JobCaught PROVE JobCaught'
    <3>1. view.job = jobStatus[Job] \/ JobRead => view'.job = jobStatus[Job]
      BY <1>1, <2>1, <2>3 DEF Learned, JobRead, ReadBoth, ViewOK, ShownIsTrue
    <3>2. QED
      BY <1>1, <1>2, <2>3, <3>1 DEF JobCaught, SameJob, Says
  <2>4. QED
    BY <1>1, <1>2, <2>2, <2>3 DEF CaughtOK, SameJob
<1>5. QED
  BY <1>3, <1>4

LEMMA CaughtStep ==
  ASSUME JobInv, JobInv', SocketOK, AskingOK, ViewOK, CaughtOK, [FollowerNext]_all
  PROVE  CaughtOK'
<1>1. CASE ServiceStep /\ UNCHANGED follower
  BY <1>1, CaughtService
<1>2. CASE CrashAll \/ Hangup
  BY <1>2, Closing DEF CrashAll, Hangup, Stream!Hangup, CaughtOK
<1>3. CASE Connect
  <2>1. socket'[Client] = "authorized"
    BY <1>3 DEF Connect, Stream!Authorize, SocketOK
  <2>2. QED
    BY <2>1 DEF CaughtOK, Open, Stream!Streaming
<1>4. CASE Subscribe
  <2>1. owes'[Client] = TRUE /\ asking' = Nothing
    BY <1>4 DEF Subscribe, Stream!Subscribe, SocketOK
  <2>2. QED
    BY <2>1 DEF CaughtOK, TargetCaught, JobCaught, TargetRead, JobRead
<1>5. CASE Recv
  BY <1>5, CaughtRecv DEF JobInv
<1>6. CASE Deliver
  BY <1>6, CaughtDeliver
<1>7. CASE Reads \/ Answer
  BY <1>7, CaughtRead DEF Reads, Answer
<1>8. CASE UNCHANGED all
  <2>1. UNCHANGED <<vars, socket, next, holding, owes, asking, view>>
    BY <1>8 DEF all, follower, task
  <2>2. /\ SameJob /\ Last' = Last /\ Asked(Job)' = Asked(Job) /\ SayingEnd' = SayingEnd
        /\ \A i : Saying(i)' = Saying(i)
    BY <2>1, JobUnchanged
  <2>3. /\ Open' = Open /\ Resyncing' = Resyncing /\ JobRead' = JobRead
        /\ \A n \in Nat : Coming(n)' = Coming(n)
        /\ \A i : TargetRead(i)' = TargetRead(i)
    BY <2>1, <2>2 DEF Open, Stream!Streaming, Resyncing, Coming, Bringing, JobRead, TargetRead,
       SameJob
  <2>4. /\ JobCaught' = JobCaught
        /\ \A i : TargetCaught(i)' = TargetCaught(i)
    BY <2>1, <2>2, <2>3 DEF JobCaught, TargetCaught, Says, SameJob
  <2>5. QED
    BY <2>2, <2>3, <2>4 DEF CaughtOK, SameJob
<1>9. QED
  BY <1>1, <1>2, <1>3, <1>4, <1>5, <1>6, <1>7, <1>8 DEF FollowerNext, ClientStep

-----------------------------------------------------------------------------
(* What it comes to.                                                       *)

FollowerInv == JobInv /\ SocketOK /\ AskingOK /\ ViewOK /\ CaughtOK

LEMMA FollowerInvariant == FollowerSpec => []FollowerInv
<1>1. FollowerInit => SocketOK /\ AskingOK /\ ViewOK /\ CaughtOK
  <2>1. FollowerInit => ~ Open
    BY DEF FollowerInit, Open, Stream!Streaming
  <2>2. QED
    BY <2>1, SocketInit, ViewInit DEF CaughtOK
<1>2. FollowerInv /\ JobInv' /\ [FollowerNext]_all => FollowerInv'
  <2> SUFFICES ASSUME FollowerInv, JobInv', [FollowerNext]_all PROVE FollowerInv'
    OBVIOUS
  <2>1. JobInv /\ Shape /\ SocketOK /\ AskingOK /\ ViewOK /\ CaughtOK
    BY DEF FollowerInv, JobInv
  <2>2. SocketOK' /\ AskingOK' /\ ViewOK' /\ CaughtOK'
    BY <2>1, SocketStep, AskingStep, ViewStep, CaughtStep
  <2>3. QED
    BY <2>2 DEF FollowerInv
<1>3. QED
  BY <1>1, <1>2, FollowerJob, PTL DEF FollowerSpec, FollowerInv

\* An outcome the client holds is the one in the database, whatever he has read and
\* been told, in whatever order (jobs.rs get_job, stream; worker.rs run).
THEOREM NothingFalseIsShown == FollowerSpec => []ShownIsTrue
<1>1. FollowerInv => ShownIsTrue
  BY DEF FollowerInv, ViewOK
<1>2. QED
  BY <1>1, FollowerInvariant, PTL

\* A job answered as finished comes with finished targets and the status they add
\* up to, although get_job reads them in a second statement (store.rs get_job).
THEOREM AnswersFit == FollowerSpec => []AnswerFits
<1>1. FollowerInv => AnswerFits
  <2> SUFFICES ASSUME FollowerInv, ReadBoth, asking.job \in Final
               PROVE  LET outcomes == {asking.target[i] : i \in 1..rows[Job]} IN
                      /\ outcomes \subseteq Final
                      /\ asking.job = "failed" <=> "failed" \in outcomes
                      /\ asking.job = "published" <=> outcomes \subseteq {"published"}
    BY DEF AnswerFits
  <2>1. /\ asking.job = jobStatus[Job]
        /\ \A i \in 1..rows[Job] : asking.target[i] = status[Job][i]
    BY DEF FollowerInv, AskingOK, ReadBoth
  <2>2. {asking.target[i] : i \in 1..rows[Job]} = {status[Job][i] : i \in 1..rows[Job]}
    BY <2>1
  <2>3. RollupIsFaithful
    BY RollupTold DEF FollowerInv, JobInv
  <2>4. QED
    BY <2>1, <2>2, <2>3, JobFollowerAssumption DEF RollupIsFaithful
<1>2. QED
  BY <1>1, FollowerInvariant, PTL

\* A client who owes no read and has nothing on its way to him holds every outcome
\* on record, unless the worker has yet to say it (jobs.rs stream, worker.rs run).
THEOREM NothingIsMissed == FollowerSpec => []ViewIsComplete
<1>1. FollowerInv => ViewIsComplete
  <2> SUFFICES ASSUME FollowerInv, socket[Client] = "open", ~ owes[Client],
                      next[Client] > Len(Channel), ~ Unsaid
               PROVE  /\ jobStatus[Job] \in Final => view.job = jobStatus[Job]
                      /\ \A i \in 1..rows[Job] :
                           status[Job][i] \in Final => view.target[i] = status[Job][i]
    BY DEF ViewIsComplete
  <2>1. /\ Open /\ CaughtOK /\ ~ Resyncing /\ ~ SayingEnd
        /\ \A i : ~ Saying(i)
    BY DEF FollowerInv, Open, Stream!Streaming, Resyncing, Unsaid, SayingEnd, Saying
  <2>2. Last \in Nat /\ next[Client] > Last /\ next[Client] \in Nat
    BY ChannelLast DEF FollowerInv, JobInv, SocketOK
  <2>3. \A n \in Nat : ~ Coming(n)
    BY <2>2 DEF Coming, Bringing
  <2>4. QED
    BY <2>1, <2>3 DEF CaughtOK, TargetCaught, JobCaught
<1>2. QED
  BY <1>1, FollowerInvariant, PTL
====================
