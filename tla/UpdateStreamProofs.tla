-------------------------- MODULE UpdateStreamProofs --------------------------
(***************************************************************************)
(* Theorems about UpdateStream for every set of readers and messages,      *)
(* every capacity of the channel and limit of the list, any restarts and   *)
(* however often clients connect.                                          *)
(***************************************************************************)
EXTENDS UpdateStream, FiniteSetTheorems, SequenceTheorems, TLAPS

Items == [pos : DOMAIN log] \cup [skipped : Nat \ {0}]

MessageTypes ==
  /\ jobOwner \in Owners \cup {Nothing}
  /\ stored \in Seq(Messages) /\ log \in Seq(Messages) /\ dropped \subseteq Messages

TaskTypes ==
  /\ pc \in [Readers -> {"closed", "authorized", "open", "sending"}]
  /\ next \in [Readers -> Nat \ {0}] /\ start \in [Readers -> Nat \ {0}]
  /\ holding \in [Readers -> Items \cup {Nothing}]

ClientTypes ==
  /\ inbox \in [Readers -> Seq(Items)]
  /\ known \in [Readers -> SUBSET Messages]
  /\ owes \in [Readers -> BOOLEAN]

\* What is sent was stored, and nothing is stored twice.
LogInv ==
  /\ Sent \subseteq Stored
  /\ \A i, j \in DOMAIN stored : stored[i] = stored[j] => i = j

\* A task holds an item while it sends it; a reader who streams a job is its
\* owner; a receiver is at most at the end of what was sent.
PhaseInv ==
  \A r \in Readers :
    /\ pc[r] = "sending" <=> holding[r] # Nothing
    /\ pc[r] \notin Streaming => inbox[r] = <<>>
    /\ next[r] <= Len(log) + 1
    /\ PerJob /\ pc[r] # "closed" => jobOwner = UserOf[r]

TypeInv == MessageTypes /\ TaskTypes /\ ClientTypes /\ LogInv /\ PhaseInv

-----------------------------------------------------------------------------
(* Items, sequences and messages.                                          *)

\* The two kinds of item are told apart.
LEMMA ItemKinds ==
  /\ ~ IsResync(Nothing)
  /\ \A p : ~ IsResync(Update(p)) /\ Update(p).pos = p
  /\ \A p \in Nat : Update(p) # Nothing
  /\ \A n \in Nat : IsResync(Resync(n)) /\ Resync(n) # Nothing /\ Resync(n).skipped = n
  /\ \A a \in [pos : Nat] : ~ IsResync(a) /\ a # Nothing /\ a = Update(a.pos)
  /\ \A a \in [skipped : Nat] : IsResync(a) /\ a # Nothing
<1>1. \A p \in Nat : Update(p) \in [pos : Nat] /\ Resync(p) \in [skipped : Nat]
  BY DEF Update, Resync
<1>2. Nothing \notin [pos : Nat] /\ Nothing \notin [skipped : Nat]
  BY UpdateStreamAssumption
<1>3. \A p : ~ IsResync(Update(p)) /\ Update(p).pos = p
  BY DEF Update, IsResync
<1>4. \A n \in Nat : IsResync(Resync(n)) /\ Resync(n) # Nothing /\ Resync(n).skipped = n
  BY <1>1, <1>2 DEF Resync, IsResync
<1>5. \A a \in [pos : Nat] : ~ IsResync(a) /\ a # Nothing /\ a = Update(a.pos)
  BY <1>2 DEF IsResync, Update
<1>6. \A a \in [skipped : Nat] : IsResync(a) /\ a # Nothing
  BY <1>2 DEF IsResync
<1>7. QED
  BY <1>1, <1>2, <1>3, <1>4, <1>5, <1>6 DEF IsResync

LEMMA AppendElements ==
  ASSUME NEW S, NEW s \in Seq(S), NEW x \in S
  PROVE  /\ Append(s, x) \in Seq(S) /\ Len(Append(s, x)) = Len(s) + 1
         /\ Len(s) \in Nat /\ DOMAIN s = 1..Len(s) /\ DOMAIN Append(s, x) = 1..(Len(s) + 1)
         /\ \A i \in DOMAIN s : Append(s, x)[i] = s[i]
         /\ Append(s, x)[Len(s) + 1] = x
<1>1. /\ Append(s, x) \in Seq(S) /\ Len(Append(s, x)) = Len(s) + 1
      /\ \A i \in 1..Len(s) : Append(s, x)[i] = s[i]
      /\ Append(s, x)[Len(s) + 1] = x
  BY AppendProperties
<1>2. \A t \in Seq(S) : Len(t) \in Nat /\ DOMAIN t = 1..Len(t)
  BY LenProperties
<1>3. QED
  BY <1>1, <1>2

LEMMA AppendSet ==
  ASSUME NEW S, NEW s \in Seq(S), NEW x \in S
  PROVE  ToSet(Append(s, x)) = ToSet(s) \cup {x}
<1> DEFINE a == Append(s, x)
<1>1. /\ Len(s) \in Nat /\ DOMAIN s = 1..Len(s) /\ DOMAIN a = 1..(Len(s) + 1)
      /\ \A i \in DOMAIN s : a[i] = s[i]
      /\ a[Len(s) + 1] = x
  BY AppendElements
<1> HIDE DEF a
<1>2. DOMAIN a = DOMAIN s \cup {Len(s) + 1}
  BY <1>1
<1>3. QED
  BY <1>1, <1>2 DEF ToSet, a

\* The database and the channel only grow, by one message at a time.
LEMMA MessagesStep ==
  ASSUME MessageTypes, LogInv, [Next]_vars
  PROVE  /\ jobOwner' = jobOwner
         /\ \/ stored' = stored
            \/ \E m \in Messages \ Stored : stored' = Append(stored, m)
         /\ \/ log' = log
            \/ \E m \in Stored : log' = Append(log, m) /\ UNCHANGED <<stored, task, client>>
         /\ MessageTypes' /\ LogInv'
<1>1. jobOwner' = jobOwner
  BY DEF Next, Store, Send, Abandon, Authorize, Subscribe, Recv, Deliver, Hangup, Read, Restart, vars
<1>2. stored' = stored \/ \E m \in Messages \ Stored : stored' = Append(stored, m)
  BY DEF Next, Store, MayStore, Send, Abandon, Authorize, Subscribe, Recv, Deliver, Hangup, Read, Restart, vars
<1>3. log' = log \/ \E m \in Stored : log' = Append(log, m) /\ UNCHANGED <<stored, task, client>>
  BY DEF Next, Store, Send, MaySend, Abandon, Authorize, Subscribe, Recv, Deliver, Hangup, Read, Restart, vars
<1>4. dropped' \subseteq Messages
  <2>1. Stored \subseteq Messages
    BY DEF MessageTypes, Stored, ToSet
  <2>2. QED
    BY <2>1 DEF Next, Store, Send, Abandon, LostWith, Authorize, Subscribe, Recv, Deliver, Hangup,
           Read, Restart, vars, MessageTypes
<1>5. Stored \subseteq Messages
  BY DEF MessageTypes, Stored, ToSet
<1>6. MessageTypes'
  <2>1. stored' \in Seq(Messages)
    BY <1>2, AppendElements DEF MessageTypes
  <2>2. log' \in Seq(Messages)
    BY <1>3, <1>5, AppendElements DEF MessageTypes
  <2>3. QED
    BY <1>1, <1>4, <2>1, <2>2 DEF MessageTypes
<1>7. LogInv'
  <2>1. CASE stored' = stored /\ log' = log
    BY <2>1 DEF LogInv, Stored, Sent
  <2>2. ASSUME NEW m \in Messages \ Stored, stored' = Append(stored, m), log' = log PROVE LogInv'
    <3>1. ToSet(stored') = ToSet(stored) \cup {m}
      BY <2>2, AppendSet DEF MessageTypes
    <3>2. \A i \in DOMAIN stored : stored[i] # m
      BY DEF Stored, ToSet
    <3>3. \A i, j \in DOMAIN stored' : stored'[i] = stored'[j] => i = j
      <4>1. /\ Len(stored) \in Nat /\ DOMAIN stored = 1..Len(stored)
            /\ DOMAIN stored' = 1..(Len(stored) + 1)
            /\ \A i \in DOMAIN stored : stored'[i] = stored[i]
            /\ stored'[Len(stored) + 1] = m
        BY <2>2, AppendElements DEF MessageTypes
      <4>2. QED
        BY <3>2, <4>1 DEF LogInv
    <3>4. QED
      BY <2>2, <3>1, <3>3 DEF LogInv, Stored, Sent
  <2>3. ASSUME NEW m \in Stored, log' = Append(log, m), stored' = stored PROVE LogInv'
    <3>1. ToSet(log') = ToSet(log) \cup {m}
      BY <1>5, <2>3, AppendSet DEF MessageTypes
    <3>2. QED
      BY <2>3, <3>1 DEF LogInv, Stored, Sent
  <2>4. QED
    BY <1>2, <1>3, <2>1, <2>2, <2>3
<1>8. QED
  BY <1>1, <1>2, <1>3, <1>6, <1>7

LEMMA LongerLists == ASSUME NEW S, NEW T, S \subseteq T PROVE Seq(S) \subseteq Seq(T)
<1> SUFFICES ASSUME NEW s \in Seq(S) PROVE s \in Seq(T)
  OBVIOUS
<1>1. Len(s) \in Nat /\ s \in [1..Len(s) -> S]
  BY LenProperties
<1>2. s \in [1..Len(s) -> T]
  BY <1>1
<1>3. QED
  BY <1>1, <1>2, SeqDef

\* What is in the log stays where it is.
LEMMA LogGrows ==
  ASSUME MessageTypes, LogInv, [Next]_vars
  PROVE  /\ Len(log) \in Nat /\ Len(log') \in Nat /\ Len(log) <= Len(log')
         /\ DOMAIN log = 1..Len(log) /\ DOMAIN log' = 1..Len(log')
         /\ \A p \in DOMAIN log : p \in DOMAIN log' /\ log'[p] = log[p]
         /\ Items \subseteq Items' /\ Seq(Items) \subseteq Seq(Items')
<1>1. /\ Len(log) \in Nat /\ Len(log') \in Nat
      /\ DOMAIN log = 1..Len(log) /\ DOMAIN log' = 1..Len(log')
  BY MessagesStep, LenProperties DEF MessageTypes
<1>2. /\ Len(log) <= Len(log')
      /\ \A p \in DOMAIN log : p \in DOMAIN log' /\ log'[p] = log[p]
  <2>1. CASE log' = log
    BY <1>1, <2>1
  <2>2. ASSUME NEW m \in Stored, log' = Append(log, m)
        PROVE  /\ Len(log) <= Len(log')
               /\ \A p \in DOMAIN log : p \in DOMAIN log' /\ log'[p] = log[p]
    <3>1. m \in Messages
      BY DEF MessageTypes, Stored, ToSet
    <3>2. Len(log') = Len(log) + 1 /\ \A p \in DOMAIN log : log'[p] = log[p]
      BY <2>2, <3>1, AppendElements DEF MessageTypes
    <3>3. QED
      BY <1>1, <3>2
  <2>3. QED
    BY <2>1, <2>2, MessagesStep
<1>3. Items \subseteq Items'
  BY <1>2 DEF Items
<1>4. QED
  BY <1>1, <1>2, <1>3, LongerLists

-----------------------------------------------------------------------------
(* Types.                                                                  *)

LEMMA TypesInit == Init => TypeInv
<1> SUFFICES ASSUME Init PROVE TypeInv
  OBVIOUS
<1>1. MessageTypes
  BY DEF Init, MessageTypes
<1>2. TaskTypes /\ ClientTypes
  BY DEF Init, TaskTypes, ClientTypes
<1>3. LogInv
  BY DEF Init, LogInv, Sent, Stored, ToSet
<1>4. PhaseInv
  BY DEF Init, PhaseInv, Streaming
<1>5. QED
  BY <1>1, <1>2, <1>3, <1>4 DEF TypeInv

\* What is left to show of a step: the tasks and the clients.
ReaderTypes == TaskTypes /\ ClientTypes /\ PhaseInv

LEMMA TypesMessages ==
  ASSUME TypeInv, NEW m \in Messages, Store(m) \/ Send(m) \/ Abandon(m)
  PROVE  ReaderTypes'
<1>1. [Next]_vars
  BY DEF Next
<1>2. UNCHANGED <<jobOwner, task, client>>
  BY DEF Store, Send, Abandon
<1>3. /\ Len(log) \in Nat /\ Len(log') \in Nat /\ Len(log) <= Len(log')
      /\ Items \subseteq Items' /\ Seq(Items) \subseteq Seq(Items')
  BY <1>1, LogGrows DEF TypeInv
<1>4. TaskTypes' /\ ClientTypes'
  <2>1. TaskTypes'
    BY <1>2, <1>3 DEF TypeInv, TaskTypes, task
  <2>2. inbox' \in [Readers -> Seq(Items')]
    BY <1>2, <1>3 DEF TypeInv, ClientTypes, client
  <2>3. QED
    BY <1>2, <2>1, <2>2 DEF TypeInv, ClientTypes, client
<1>5. PhaseInv'
  BY <1>2, <1>3 DEF TypeInv, TaskTypes, PhaseInv, task, client, PerJob
<1>6. QED
  BY <1>4, <1>5 DEF ReaderTypes

LEMMA TypesReader ==
  ASSUME TypeInv, NEW r \in Readers,
         Authorize(r) \/ Subscribe(r) \/ Recv(r) \/ Deliver(r) \/ Hangup(r) \/ Read(r)
  PROVE  ReaderTypes'
<1> USE ItemKinds DEF TypeInv, TaskTypes, ClientTypes
<1>1. UNCHANGED <<jobOwner, stored, log>> /\ Items' = Items
  BY DEF Authorize, Subscribe, Recv, Deliver, Hangup, Read, Items
<1>2. Len(log) \in Nat /\ DOMAIN log = 1..Len(log)
  BY LenProperties DEF MessageTypes
<1>3. CASE Authorize(r)
  BY <1>1, <1>3 DEF Authorize, MayConnect, client, PhaseInv, Streaming, PerJob, ReaderTypes
<1>4. CASE Subscribe(r)
  <2>1. Len(log) + 1 \in Nat \ {0}
    BY <1>2
  <2>2. QED
    BY <1>1, <1>2, <1>4, <2>1 DEF Subscribe, PhaseInv, Streaming, PerJob, ReaderTypes
<1>5. CASE Recv(r)
  <2>1. PICK k \in Items \cup {Nothing}, p \in Nat \ {0} :
          /\ next' = [next EXCEPT ![r] = p] /\ p <= Len(log) + 1
          /\ holding' = [holding EXCEPT ![r] = k]
          /\ pc' = [pc EXCEPT ![r] = IF k = Nothing THEN "open" ELSE "sending"]
    <3>1. pc[r] = "open" /\ holding[r] = Nothing /\ next[r] \in Nat \ {0}
      BY <1>5 DEF Recv, PhaseInv
    <3>2. CASE RecvLagged(r)
      <4>1. Oldest \in Nat \ {0} /\ Oldest <= Len(log) + 1 /\ Oldest - next[r] \in Nat \ {0}
        BY <1>2, <3>1, <3>2, UpdateStreamAssumption DEF RecvLagged, Lagged, Oldest
      <4>2. Resync(Oldest - next[r]) \in Items
        BY <4>1 DEF Resync, Items
      <4>3. Resync(Oldest - next[r]) # Nothing
        BY <4>1
      <4>4. QED
        BY <3>2, <4>1, <4>2, <4>3 DEF RecvLagged, Hold
    <3>3. CASE RecvUpdate(r)
      <4>1. next[r] + 1 \in Nat \ {0} /\ next[r] + 1 <= Len(log) + 1 /\ next[r] \in DOMAIN log
        BY <1>2, <3>1, <3>3 DEF RecvUpdate, Ready
      <4>2. Update(next[r]) \in Items
        BY <4>1 DEF Update, Items
      <4>3. QED
        BY <3>1, <3>3, <4>1, <4>2 DEF RecvUpdate, Hold
    <3>4. CASE RecvOther(r)
      <4>1. next[r] + 1 \in Nat \ {0} /\ next[r] + 1 <= Len(log) + 1
        BY <1>2, <3>1, <3>4 DEF RecvOther, Ready
      <4>2. /\ holding' = [holding EXCEPT ![r] = Nothing]
            /\ pc' = [pc EXCEPT ![r] = "open"]
        BY <3>1, <3>4 DEF RecvOther
      <4>3. QED
        BY <3>4, <4>1, <4>2 DEF RecvOther
    <3>5. QED
      BY <1>5, <3>2, <3>3, <3>4 DEF Recv
  <2>2. UNCHANGED <<start, client>> /\ pc[r] = "open"
    BY <1>5 DEF Recv
  <2>3. QED
    BY <1>1, <2>1, <2>2 DEF client, PhaseInv, Streaming, PerJob, ReaderTypes
<1>6. CASE Deliver(r)
  <2>1. holding[r] \in Items /\ inbox[r] \in Seq(Items) /\ pc[r] = "sending"
    BY <1>6 DEF Deliver, PhaseInv
  <2>2. Append(inbox[r], holding[r]) \in Seq(Items)
    BY <2>1, AppendElements
  <2>3. /\ pc' = [pc EXCEPT ![r] = "open"] /\ holding' = [holding EXCEPT ![r] = Nothing]
        /\ inbox' = [inbox EXCEPT ![r] = Append(inbox[r], holding[r])]
        /\ UNCHANGED <<next, start>>
    BY <1>6 DEF Deliver
  <2>4. known' \in [Readers -> SUBSET Messages] /\ owes' \in [Readers -> BOOLEAN]
    <3>1. CASE IsResync(holding[r])
      BY <1>6, <3>1 DEF Deliver
    <3>2. CASE ~ IsResync(holding[r])
      <4>1. holding[r] \in [pos : DOMAIN log]
        BY <2>1, <3>2 DEF Items
      <4>2. log[holding[r].pos] \in Messages
        BY <1>2, <4>1, ElementOfSeq DEF MessageTypes
      <4>3. known' = [known EXCEPT ![r] = known[r] \cup {log[holding[r].pos]}] /\ owes' = owes
        BY <1>6, <3>2 DEF Deliver
      <4>4. QED
        BY <4>2, <4>3
    <3>3. QED
      BY <3>1, <3>2
  <2>5. TaskTypes' /\ ClientTypes'
    BY <1>1, <2>2, <2>3, <2>4
  <2>6. PhaseInv'
    BY <1>1, <2>1, <2>3 DEF PhaseInv, Streaming, PerJob
  <2>7. QED
    BY <2>5, <2>6 DEF ReaderTypes
<1>7. CASE Hangup(r)
  <2>1. /\ pc' = [pc EXCEPT ![r] = "closed"]
        /\ next' = [next EXCEPT ![r] = 1] /\ start' = [start EXCEPT ![r] = 1]
        /\ holding' = [holding EXCEPT ![r] = Nothing]
        /\ inbox' = [inbox EXCEPT ![r] = <<>>]
        /\ UNCHANGED <<known, owes>>
    BY <1>7 DEF Hangup, Closed, Reset
  <2>2. TaskTypes' /\ ClientTypes'
    BY <1>1, <2>1
  <2>3. PhaseInv'
    BY <1>1, <1>2, <2>1 DEF PhaseInv, Streaming, PerJob
  <2>4. QED
    BY <2>2, <2>3 DEF ReaderTypes
<1>8. CASE Read(r)
  <2>1. Snapshot(r) \subseteq Messages
    BY DEF MessageTypes, Snapshot, OwnStored, Stored, ToSet
  <2>2. known' \in [Readers -> SUBSET Messages]
    BY <1>8, <2>1 DEF Read
  <2>3. owes' \in [Readers -> BOOLEAN]
    BY <1>8 DEF Read
  <2>4. QED
    BY <1>1, <1>8, <2>2, <2>3 DEF Read, task, PhaseInv, PerJob, ReaderTypes
<1>9. QED
  BY <1>3, <1>4, <1>5, <1>6, <1>7, <1>8

LEMMA TypesRestart == ASSUME TypeInv, Restart PROVE ReaderTypes'
<1>1. /\ pc' = [r \in Readers |-> "closed"]
      /\ next' = [r \in Readers |-> 1] /\ start' = [r \in Readers |-> 1]
      /\ holding' = [r \in Readers |-> Nothing] /\ inbox' = [r \in Readers |-> <<>>]
      /\ UNCHANGED <<jobOwner, log, known, owes>>
  BY DEF Restart, Closed, Reset
<1>2. Len(log) \in Nat /\ Items' = Items
  BY <1>1, LenProperties DEF TypeInv, MessageTypes, Items
<1>3. TaskTypes' /\ ClientTypes'
  BY <1>1, <1>2 DEF TypeInv, TaskTypes, ClientTypes
<1>4. PhaseInv'
  BY <1>1, <1>2 DEF PhaseInv, Streaming, PerJob
<1>5. QED
  BY <1>3, <1>4 DEF ReaderTypes

LEMMA TypesStep == TypeInv /\ [Next]_vars => TypeInv'
<1> SUFFICES ASSUME TypeInv, [Next]_vars PROVE TypeInv'
  OBVIOUS
<1>1. MessageTypes' /\ LogInv'
  BY MessagesStep DEF TypeInv
<1>2. ReaderTypes'
  <2>1. CASE UNCHANGED vars
    BY <2>1 DEF vars, task, client, TypeInv, ReaderTypes, TaskTypes, ClientTypes, PhaseInv, Items, PerJob
  <2>2. CASE Next
    BY <2>2, TypesMessages, TypesReader, TypesRestart DEF Next
  <2>3. QED
    BY <2>1, <2>2
<1>3. QED
  BY <1>1, <1>2 DEF TypeInv, ReaderTypes

LEMMA TypesInvariant == Spec => []TypeInv
BY TypesInit, TypesStep, PTL DEF Spec

\* Every variable has its type.
THEOREM TypeCorrect == Spec => []TypeOK
<1>1. TypeInv => TypeOK
  <2> SUFFICES ASSUME TypeInv PROVE TypeOK
    OBVIOUS
  <2>1. ASSUME NEW r \in Readers
        PROVE  pc[r] = "sending" <=>
                 \/ IsResync(holding[r]) /\ holding[r].skipped \in Nat \ {0}
                 \/ holding[r] \in [pos : DOMAIN log]
    <3>1. holding[r] \in Items \cup {Nothing} /\ (pc[r] = "sending" <=> holding[r] # Nothing)
      BY DEF TypeInv, TaskTypes, PhaseInv
    <3>2. \A a \in [skipped : Nat \ {0}] : IsResync(a) /\ a.skipped \in Nat \ {0}
      BY ItemKinds
    <3>3. Nothing \notin [pos : DOMAIN log] /\ ~ IsResync(Nothing)
      BY ItemKinds, LenProperties DEF TypeInv, MessageTypes
    <3>4. QED
      BY <3>1, <3>2, <3>3 DEF Items
  <2>2. QED
    BY <2>1 DEF TypeInv, MessageTypes, TaskTypes, ClientTypes, Items, TypeOK, Streaming
<1>2. QED
  BY <1>1, TypesInvariant, PTL

-----------------------------------------------------------------------------
(* What a step may do to one reader, whichever action it is.               *)

SameTask(q) == UNCHANGED <<pc[q], next[q], start[q], holding[q], inbox[q]>>

Idles(q) == SameTask(q) /\ UNCHANGED <<known[q], owes[q]>>

Leaves(q) ==
  /\ pc'[q] \notin Streaming /\ holding'[q] = Nothing /\ inbox'[q] = <<>>
  /\ UNCHANGED <<known[q], owes[q], stored, log>>

Subscribes(q) ==
  /\ pc'[q] = "open" /\ holding'[q] = Nothing /\ inbox'[q] = <<>>
  /\ owes'[q] = TRUE /\ start'[q] = next'[q]
  /\ UNCHANGED <<known[q], stored, log>>

\* The item taken from the channel, or Nothing if it is not for this reader.
Takes(q, item) ==
  /\ pc[q] = "open" /\ holding[q] = Nothing /\ holding'[q] = item
  /\ UNCHANGED <<start[q], inbox[q], known[q], owes[q], stored, log>>

TakesOne(q) ==
  /\ next[q] \in DOMAIN log /\ next'[q] = next[q] + 1
  /\ IF Wants(q, log[next[q]]) THEN Takes(q, Update(next[q])) ELSE Takes(q, Nothing)

\* As many are skipped as the item says.
TakesLag(q, n) == Takes(q, Resync(n)) /\ next'[q] = next[q] + n

Delivers(q) ==
  /\ pc[q] = "sending" /\ holding[q] # Nothing /\ holding'[q] = Nothing
  /\ inbox'[q] = Append(inbox[q], holding[q])
  /\ IF IsResync(holding[q]) THEN owes'[q] = TRUE /\ known'[q] = known[q]
     ELSE owes'[q] = owes[q] /\ known'[q] = known[q] \cup {log[holding[q].pos]}
  /\ UNCHANGED <<next[q], start[q], stored, log>>

Reads(q) ==
  /\ known'[q] = known[q] \cup Snapshot(q)
  /\ owes'[q] = (owes[q] /\ pc[q] \notin Streaming)
  /\ SameTask(q) /\ UNCHANGED <<stored, log>>

LEMMA ReaderStep ==
  ASSUME TypeInv, [Next]_vars, NEW q \in Readers
  PROVE  \/ Idles(q) \/ Leaves(q) \/ Subscribes(q) \/ TakesOne(q) \/ Delivers(q) \/ Reads(q)
         \/ \E n \in Nat \ {0} : TakesLag(q, n)
<1>0. /\ pc \in [Readers -> {"closed", "authorized", "open", "sending"}]
      /\ next \in [Readers -> Nat \ {0}] /\ start \in [Readers -> Nat \ {0}]
      /\ holding \in [Readers -> Items \cup {Nothing}]
      /\ inbox \in [Readers -> Seq(Items)] /\ known \in [Readers -> SUBSET Messages]
      /\ owes \in [Readers -> BOOLEAN]
      /\ Len(log) \in Nat /\ DOMAIN log = 1..Len(log)
      /\ pc[q] = "sending" <=> holding[q] # Nothing
      /\ pc[q] \notin Streaming => inbox[q] = <<>>
  BY LenProperties DEF TypeInv, MessageTypes, TaskTypes, ClientTypes, PhaseInv
<1>1. CASE \/ \E m \in Messages : Store(m) \/ Send(m) \/ Abandon(m)
           \/ UNCHANGED vars
  BY <1>1 DEF Store, Send, Abandon, vars, task, client, Idles, SameTask
<1>2. CASE Restart
  BY <1>0, <1>2 DEF Restart, Closed, Reset, Leaves, Streaming
<1>3. ASSUME NEW r \in Readers, Authorize(r) PROVE Idles(q) \/ Leaves(q)
  BY <1>0, <1>3 DEF Authorize, client, Idles, SameTask, Leaves, Streaming
<1>4. ASSUME NEW r \in Readers, Subscribe(r) PROVE Idles(q) \/ Subscribes(q)
  BY <1>0, <1>4 DEF Subscribe, Idles, SameTask, Subscribes, Streaming
<1>5. ASSUME NEW r \in Readers, Hangup(r) PROVE Idles(q) \/ Leaves(q)
  BY <1>0, <1>5 DEF Hangup, Closed, Reset, Idles, SameTask, Leaves, Streaming
<1>6. ASSUME NEW r \in Readers, Deliver(r) PROVE Idles(q) \/ Delivers(q)
  <2>1. /\ pc[r] = "sending" /\ pc' = [pc EXCEPT ![r] = "open"]
        /\ holding' = [holding EXCEPT ![r] = Nothing]
        /\ inbox' = [inbox EXCEPT ![r] = Append(inbox[r], holding[r])]
        /\ UNCHANGED <<stored, log, next, start>>
    BY <1>6 DEF Deliver
  <2>2. IF IsResync(holding[r])
        THEN owes' = [owes EXCEPT ![r] = TRUE] /\ known' = known
        ELSE known' = [known EXCEPT ![r] = known[r] \cup {log[holding[r].pos]}] /\ owes' = owes
    BY <1>6 DEF Deliver
  <2>3. CASE r = q
    BY <1>0, <2>1, <2>2, <2>3 DEF Delivers
  <2>4. CASE r # q
    BY <1>0, <2>1, <2>2, <2>4 DEF Idles, SameTask
  <2>5. QED
    BY <2>3, <2>4
<1>7. ASSUME NEW r \in Readers, Read(r) PROVE Idles(q) \/ Reads(q)
  <2>1. /\ known' = [known EXCEPT ![r] = known[r] \cup Snapshot(r)]
        /\ owes' = [owes EXCEPT ![r] = owes[r] /\ pc[r] \notin Streaming]
        /\ UNCHANGED <<pc, next, start, holding, inbox, stored, log>>
    BY <1>7 DEF Read, task
  <2>2. CASE r = q
    BY <1>0, <2>1, <2>2 DEF Reads, SameTask
  <2>3. CASE r # q
    BY <1>0, <2>1, <2>3 DEF Idles, SameTask
  <2>4. QED
    BY <2>2, <2>3
<1>8. ASSUME NEW r \in Readers, Recv(r)
      PROVE  Idles(q) \/ TakesOne(q) \/ \E n \in Nat \ {0} : TakesLag(q, n)
  <2>1. pc[r] = "open" /\ UNCHANGED <<stored, log, start, inbox, known, owes>>
    BY <1>8 DEF Recv, client
  <2>2. CASE r # q
    BY <1>0, <1>8, <2>1, <2>2 DEF Recv, RecvLagged, RecvUpdate, RecvOther, Hold, Idles, SameTask
  <2>3. CASE r = q
    <3>1. CASE RecvLagged(q)
      <4>1. Oldest - next[q] \in Nat \ {0}
        BY <1>0, <3>1, UpdateStreamAssumption DEF RecvLagged, Lagged, Oldest
      <4>2. holding'[q] = Resync(Oldest - next[q]) /\ next'[q] = Oldest
        BY <1>0, <3>1 DEF RecvLagged, Hold
      <4>3. Oldest = next[q] + (Oldest - next[q])
        BY <1>0, UpdateStreamAssumption DEF Oldest
      <4>4. QED
        BY <1>0, <2>1, <2>3, <4>1, <4>2, <4>3 DEF Takes, TakesLag
    <3>2. CASE RecvUpdate(q)
      BY <1>0, <2>1, <2>3, <3>2 DEF RecvUpdate, Ready, Hold, TakesOne, Takes
    <3>3. CASE RecvOther(q)
      BY <1>0, <2>1, <2>3, <3>3 DEF RecvOther, Ready, TakesOne, Takes
    <3>4. QED
      BY <1>8, <2>3, <3>1, <3>2, <3>3 DEF Recv
  <2>4. QED
    BY <2>2, <2>3
<1>9. QED
  BY <1>1, <1>2, <1>3, <1>4, <1>5, <1>6, <1>7, <1>8 DEF Next

\* Facts about the step of a reader that the properties need.
LEMMA StepFacts ==
  ASSUME TypeInv, [Next]_vars
  PROVE  /\ \A r \in Readers : \A m : Wants(r, m)' = Wants(r, m) /\ OwnerOf(m)' = OwnerOf(m)
         /\ PerJob' = PerJob
         /\ Stored \subseteq Stored'
         /\ \A r \in Readers : /\ next[r] \in Nat \ {0} /\ next[r] <= Len(log) + 1
                               /\ holding[r] \in Items \cup {Nothing}
                               /\ inbox[r] \in Seq(Items)
         /\ Len(log) \in Nat /\ DOMAIN log = 1..Len(log)
         /\ \A p \in DOMAIN log : p \in DOMAIN log' /\ log'[p] = log[p]
<1>1. jobOwner' = jobOwner
  BY MessagesStep DEF TypeInv
<1>2. \A r \in Readers : \A m : Wants(r, m)' = Wants(r, m) /\ OwnerOf(m)' = OwnerOf(m)
  BY <1>1 DEF Wants, OwnerOf, PerJob
<1>3. Stored \subseteq Stored'
  <2>1. CASE stored' = stored
    BY <2>1 DEF Stored
  <2>2. ASSUME NEW m \in Messages, stored' = Append(stored, m) PROVE Stored \subseteq Stored'
    BY <2>2, AppendSet DEF Stored, TypeInv, MessageTypes
  <2>3. QED
    BY <2>1, <2>2, MessagesStep DEF TypeInv
<1>4. QED
  BY <1>1, <1>2, <1>3, LogGrows DEF TypeInv, TaskTypes, ClientTypes, PhaseInv, PerJob

-----------------------------------------------------------------------------
(* Nobody sees what is somebody else's.                                    *)

HoldsWanted ==
  \A r \in Readers : holding[r] \in [pos : DOMAIN log] => Wants(r, log[holding[r].pos])

OwnInv == TypeInv /\ OnlyOwn /\ HoldsWanted

LEMMA OwnInit == Init => OwnInv
<1> SUFFICES ASSUME Init PROVE OwnInv
  OBVIOUS
<1>1. OnlyOwn
  BY DEF Init, OnlyOwn
<1>2. HoldsWanted
  BY ItemKinds DEF Init, HoldsWanted
<1>3. QED
  BY <1>1, <1>2, TypesInit DEF OwnInv

LEMMA OwnStep == OwnInv /\ [Next]_vars => OwnInv'
<1> SUFFICES ASSUME OwnInv, [Next]_vars PROVE OwnInv'
  OBVIOUS
<1>1. TypeInv /\ TypeInv'
  BY TypesStep DEF OwnInv
<1>2. ASSUME NEW q \in Readers, NEW m \in known'[q] PROVE OwnerOf(m) = UserOf[q]
  <2>1. CASE m \in known[q]
    BY <2>1 DEF OwnInv, OnlyOwn
  <2>2. CASE Reads(q) /\ m \in Snapshot(q)
    BY <2>2 DEF Snapshot, OwnStored
  <2>3. CASE Delivers(q) /\ ~ IsResync(holding[q]) /\ m = log[holding[q].pos]
    <3>1. holding[q] \in [pos : DOMAIN log]
      <4>1. holding[q] \in Items
        BY <1>1, <2>3, StepFacts DEF Delivers
      <4>2. \A a \in [skipped : Nat \ {0}] : IsResync(a)
        BY ItemKinds
      <4>3. QED
        BY <2>3, <4>1, <4>2 DEF Items
    <3>2. Wants(q, m)
      BY <2>3, <3>1 DEF OwnInv, HoldsWanted
    <3>3. PerJob => jobOwner = UserOf[q]
      BY <1>1, <2>3 DEF Delivers, TypeInv, PhaseInv
    <3>4. QED
      BY <3>2, <3>3 DEF Wants, OwnerOf
  <2>4. known'[q] = known[q] \/ Delivers(q) \/ Reads(q)
    BY <1>1, ReaderStep DEF Idles, Leaves, Subscribes, TakesOne, TakesLag, Takes
  <2>5. CASE Delivers(q)
    BY <2>1, <2>3, <2>5 DEF Delivers
  <2>6. CASE Reads(q)
    BY <2>1, <2>2, <2>6 DEF Reads
  <2>7. QED
    BY <2>1, <2>4, <2>5, <2>6
<1>3. ASSUME NEW q \in Readers, holding'[q] \in [pos : DOMAIN log']
      PROVE  Wants(q, log'[holding'[q].pos])
  <2>1. Nothing \notin [pos : DOMAIN log']
    BY <1>1, ItemKinds, LenProperties DEF TypeInv, MessageTypes
  <2>2. \A n \in Nat : Resync(n) \notin [pos : DOMAIN log']
    BY <1>1, ItemKinds, LenProperties DEF TypeInv, MessageTypes
  <2>3. CASE holding'[q] = holding[q]
    <3>1. holding[q] \in [pos : DOMAIN log]
      <4>1. holding[q] \in Items \cup {Nothing}
        BY <1>1, StepFacts
      <4>2. \A a \in [skipped : Nat \ {0}] : IsResync(a)
        BY ItemKinds
      <4>3. \A a \in [pos : DOMAIN log'] : ~ IsResync(a)
        BY <1>1, ItemKinds, LenProperties DEF TypeInv, MessageTypes
      <4>4. QED
        BY <1>3, <2>1, <2>3, <4>1, <4>2, <4>3 DEF Items
    <3>2. holding[q].pos \in DOMAIN log
      BY <3>1
    <3>3. Wants(q, log[holding[q].pos])
      BY <3>1 DEF OwnInv, HoldsWanted
    <3>4. QED
      BY <1>1, <2>3, <3>2, <3>3, StepFacts
  <2>4. CASE TakesOne(q)
    <3>1. holding'[q] = Update(next[q]) /\ Wants(q, log[next[q]]) /\ log' = log
      BY <1>3, <2>1, <2>4 DEF TakesOne, Takes
    <3>2. QED
      BY <3>1, ItemKinds
  <2>5. QED
    BY <1>1, <1>3, <2>1, <2>2, <2>3, <2>4, ReaderStep
       DEF Idles, SameTask, Leaves, Subscribes, TakesLag, Takes, Delivers, Reads
<1>4. OnlyOwn'
  BY <1>1, <1>2, StepFacts DEF OnlyOwn
<1>5. HoldsWanted'
  BY <1>1, <1>3, StepFacts DEF HoldsWanted
<1>6. QED
  BY <1>1, <1>4, <1>5 DEF OwnInv

\* Nobody is shown a job or an event of somebody else, by reading or streaming,
\* although one channel carries every user's events (jobs.rs stream, events.rs
\* stream_events).
THEOREM NobodySeesOthers == Spec => []OnlyOwn
<1>1. Spec => []OwnInv
  BY OwnInit, OwnStep, PTL DEF Spec
<1>2. OwnInv => OnlyOwn
  BY DEF OwnInv
<1>3. QED
  BY <1>1, <1>2, PTL

-----------------------------------------------------------------------------
(* A client that reads when it is told to knows everything.                *)

\* All a user owns can be listed.
Listed(r) == PerJob \/ Cardinality(OwnStored(r)) <= ListLimit

LEMMA OwnStoredFinite ==
  ASSUME TypeInv, NEW r \in Readers
  PROVE  IsFiniteSet(OwnStored(r)) /\ Cardinality(OwnStored(r)) \in Nat
<1>1. OwnStored(r) \subseteq Messages
  BY DEF TypeInv, MessageTypes, OwnStored, Stored, ToSet
<1>2. QED
  BY <1>1, UpdateStreamAssumption, FS_Subset, FS_CardinalityType

\* A read then returns all of it: the events later than one are fewer than all.
LEMMA SnapshotIsAll ==
  ASSUME TypeInv, NEW r \in Readers, Listed(r)
  PROVE  OwnStored(r) \subseteq Snapshot(r)
<1>1. CASE PerJob
  BY <1>1 DEF Snapshot
<1>2. CASE ~ PerJob
  <2> SUFFICES ASSUME NEW m \in OwnStored(r) PROVE Cardinality(LaterOwn(r, m)) < ListLimit
    BY <1>2 DEF Snapshot
  <2> DEFINE S == OwnStored(r)
  <2>1. IsFiniteSet(S) /\ Cardinality(S) \in Nat /\ Cardinality(S) <= ListLimit
    BY <1>2, OwnStoredFinite DEF Listed
  <2>2. LaterOwn(r, m) \subseteq S \ {m}
    <3>1. DOMAIN stored = 1..Len(stored) /\ Len(stored) \in Nat
      BY LenProperties DEF TypeInv, MessageTypes
    <3>2. QED
      BY <3>1 DEF LaterOwn, TypeInv, LogInv
  <2>3. IsFiniteSet(S \ {m}) /\ Cardinality(S \ {m}) = Cardinality(S) - 1
    BY <2>1, FS_RemoveElement
  <2>4. /\ Cardinality(LaterOwn(r, m)) <= Cardinality(S) - 1
        /\ Cardinality(LaterOwn(r, m)) \in Nat
    BY <2>2, <2>3, FS_Subset, FS_CardinalityType
  <2>5. QED
    BY <2>1, <2>4, UpdateStreamAssumption
<1>3. QED
  BY <1>1, <1>2

\* What can be listed after a step could be before.
LEMMA ListedBefore ==
  ASSUME TypeInv, TypeInv', [Next]_vars, NEW r \in Readers, Listed(r)'
  PROVE  Listed(r)
<1>1. CASE PerJob
  BY <1>1 DEF Listed
<1>2. CASE ~ PerJob
  <2>1. OwnStored(r) \subseteq OwnStored(r)'
    BY StepFacts DEF OwnStored
  <2>2. IsFiniteSet(OwnStored(r)') /\ Cardinality(OwnStored(r)') \in Nat
    <3>1. OwnStored(r)' \subseteq Messages
      BY DEF TypeInv, MessageTypes, OwnStored, Stored, ToSet
    <3>2. QED
      BY <3>1, UpdateStreamAssumption, FS_Subset, FS_CardinalityType
  <2>3. Cardinality(OwnStored(r)) <= Cardinality(OwnStored(r)')
    BY <2>1, <2>2, FS_Subset
  <2>4. Cardinality(OwnStored(r)') <= ListLimit
    BY <1>2, StepFacts DEF Listed
  <2>5. QED
    BY <2>2, <2>3, <2>4, OwnStoredFinite, UpdateStreamAssumption DEF Listed
<1>3. QED
  BY <1>1, <1>2

\* The client knows every message of its own up to a position, or it is on the wire.
KnowsUpTo(r, n) ==
  \A p \in 1..(n - 1) : Wants(r, log[p]) => log[p] \in known[r] \/ holding[r] = Update(p)

LEMMA CatchStep == TypeInv /\ CatchesUp /\ [Next]_vars => CatchesUp'
<1> SUFFICES ASSUME TypeInv, CatchesUp, [Next]_vars, NEW q \in Readers,
                    pc'[q] \in Streaming, ~ owes'[q], ~ IsResync(holding'[q]), Listed(q)'
             PROVE  KnowsUpTo(q, next[q])'
  BY DEF CatchesUp, KnowsUpTo, Listed
<1>1. TypeInv'
  BY TypesStep
<1>2. Listed(q)
  BY <1>1, ListedBefore
<1>3. pc[q] \in Streaming /\ ~ owes[q] /\ ~ IsResync(holding[q]) => KnowsUpTo(q, next[q])
  BY <1>2 DEF CatchesUp, KnowsUpTo, Listed
<1>4. /\ next[q] \in Nat \ {0} /\ next[q] <= Len(log) + 1 /\ Len(log) \in Nat /\ DOMAIN log = 1..Len(log)
      /\ \A p \in DOMAIN log : p \in DOMAIN log' /\ log'[p] = log[p]
      /\ \A m : Wants(q, m)' = Wants(q, m)
      /\ owes[q] \in BOOLEAN
  BY StepFacts DEF TypeInv, ClientTypes
<1>5. CASE Idles(q)
  BY <1>3, <1>4, <1>5 DEF Idles, SameTask, KnowsUpTo
<1>6. CASE Leaves(q) \/ Subscribes(q)
  BY <1>6 DEF Leaves, Subscribes
<1>7. CASE \E n \in Nat \ {0} : Takes(q, Resync(n))
  BY <1>7, ItemKinds DEF Takes
<1>8. CASE TakesOne(q)
  <2>1. pc[q] = "open" /\ holding[q] = Nothing /\ UNCHANGED <<known[q], owes[q], log>>
        /\ next'[q] = next[q] + 1
        /\ holding'[q] = IF Wants(q, log[next[q]]) THEN Update(next[q]) ELSE Nothing
    BY <1>8 DEF TakesOne, Takes
  <2>2. KnowsUpTo(q, next[q])
    BY <1>3, <2>1, ItemKinds DEF Streaming
  <2>3. \A p \in 1..(next[q] - 1) : Wants(q, log[p]) => log[p] \in known[q]
    BY <2>1, <2>2, <1>4, ItemKinds DEF KnowsUpTo
  <2>4. QED
    BY <1>4, <2>1, <2>3 DEF KnowsUpTo
<1>9. CASE Delivers(q)
  <2>1. ~ IsResync(holding[q])
    BY <1>9 DEF Delivers
  <2>2. pc[q] = "sending" /\ UNCHANGED <<owes[q], next[q], log>>
        /\ known'[q] = known[q] \cup {log[holding[q].pos]}
    BY <1>9, <2>1 DEF Delivers
  <2>3. KnowsUpTo(q, next[q])
    BY <1>3, <2>1, <2>2 DEF Streaming
  <2>4. \A p : holding[q] = Update(p) => holding[q].pos = p
    BY ItemKinds
  <2>5. QED
    BY <1>4, <2>2, <2>3, <2>4 DEF KnowsUpTo
<1>10. CASE Reads(q)
  <2>1. known'[q] = known[q] \cup Snapshot(q) /\ SameTask(q) /\ UNCHANGED <<stored, log>>
    BY <1>10 DEF Reads
  <2>2. PerJob => jobOwner = UserOf[q]
    BY <2>1 DEF SameTask, TypeInv, PhaseInv, Streaming
  <2>3. \A p \in 1..(next[q] - 1) : Wants(q, log[p]) => log[p] \in OwnStored(q)
    <3>1. \A p \in DOMAIN log : log[p] \in Stored
      BY DEF TypeInv, LogInv, Sent, ToSet
    <3>2. QED
      BY <1>4, <2>2, <3>1 DEF Wants, OwnStored, OwnerOf
  <2>4. QED
    BY <1>2, <1>4, <2>1, <2>3, SnapshotIsAll DEF KnowsUpTo, SameTask
<1>11. QED
  BY <1>5, <1>6, <1>7, <1>8, <1>9, <1>10, ReaderStep DEF TakesLag

\* A client that reads once after its socket opened, and again after every
\* resync_required, knows of everything its socket's task is past, whatever
\* happened before it subscribed or was overwritten while it was slow (jobs.rs
\* stream, events.rs stream_events, store.rs list_events' limit).
THEOREM ReadersCatchUp == Spec => []CatchesUp
<1>1. Init => CatchesUp
  BY DEF Init, CatchesUp, Streaming
<1>2. QED
  BY <1>1, CatchStep, TypesInvariant, PTL DEF Spec

-----------------------------------------------------------------------------
(* Between two updates in a client's inbox nothing of its own is missing.  *)

\* From one item to the other nothing the reader wants was passed over unsaid.
Follows(r, a, b) ==
  ~ IsResync(a) /\ ~ IsResync(b) =>
    a.pos < b.pos /\ \A p \in (a.pos + 1)..(b.pos - 1) : ~ Wants(r, log[p])

\* Nothing was passed over within a list of items, nor from its last one to the
\* n-th message of the channel.
Gapless(r, s, n) ==
  /\ \A i \in 1..(Len(s) - 1) : Follows(r, s[i], s[i + 1])
  /\ Len(s) > 0 => Follows(r, s[Len(s)], Update(n))

GapInv == \A r \in Readers : pc[r] \in Streaming => Gapless(r, Got(r), next[r])

LEMMA GotItems ==
  ASSUME TypeInv, NEW r \in Readers
  PROVE  Got(r) \in Seq(Items)
<1>1. inbox[r] \in Seq(Items) /\ holding[r] \in Items \cup {Nothing}
  BY DEF TypeInv, TaskTypes, ClientTypes
<1>2. QED
  BY <1>1, AppendElements DEF Got

LEMMA ItemPlaces ==
  ASSUME TypeInv, NEW a \in Items
  PROVE  IsResync(a) \/ a.pos \in 1..Len(log)
<1>1. Len(log) \in Nat /\ DOMAIN log = 1..Len(log)
  BY LenProperties DEF TypeInv, MessageTypes
<1>2. CASE a \in [pos : DOMAIN log]
  BY <1>1, <1>2
<1>3. CASE a \in [skipped : Nat \ {0}]
  BY <1>3, ItemKinds
<1>4. QED
  BY <1>2, <1>3 DEF Items

\* What the log gets later lies after both items.
LEMMA FollowsKept ==
  ASSUME TypeInv, [Next]_vars, NEW r \in Readers, NEW a \in Items, NEW b,
         IsResync(b) \/ b.pos \in 1..(Len(log) + 1),
         Follows(r, a, b)
  PROVE  Follows(r, a, b)'
<1>1. /\ Len(log) \in Nat /\ DOMAIN log = 1..Len(log)
      /\ \A p \in DOMAIN log : log'[p] = log[p]
      /\ \A m : Wants(r, m)' = Wants(r, m)
  BY StepFacts
<1>2. ASSUME ~ IsResync(a), ~ IsResync(b)
      PROVE  a.pos < b.pos /\ \A p \in (a.pos + 1)..(b.pos - 1) : ~ Wants(r, log[p])'
  <2>1. a.pos \in 1..Len(log)
    BY <1>2, ItemPlaces
  <2>2. a.pos < b.pos /\ \A p \in (a.pos + 1)..(b.pos - 1) : ~ Wants(r, log[p])
    BY <1>2 DEF Follows
  <2>3. \A p \in (a.pos + 1)..(b.pos - 1) : p \in DOMAIN log
    BY <1>1, <1>2, <2>1
  <2>4. QED
    BY <1>1, <2>2, <2>3 DEF Wants, OwnerOf, PerJob
<1>3. QED
  BY <1>2 DEF Follows

LEMMA GaplessKept ==
  ASSUME TypeInv, [Next]_vars, NEW r \in Readers, NEW s, s \in Seq(Items),
         NEW n \in 1..(Len(log) + 1), Gapless(r, s, n)
  PROVE  Gapless(r, s, n)'
<1>1. Len(s) \in Nat /\ \A i \in 1..Len(s) : s[i] \in Items
  BY LenProperties, ElementOfSeq
<1>2. ASSUME NEW i \in 1..(Len(s) - 1) PROVE Follows(r, s[i], s[i + 1])'
  <2>1. s[i] \in Items /\ s[i + 1] \in Items
    BY <1>1
  <2>2. IsResync(s[i + 1]) \/ s[i + 1].pos \in 1..(Len(log) + 1)
    BY <2>1, ItemPlaces, LenProperties DEF TypeInv, MessageTypes
  <2>3. Follows(r, s[i], s[i + 1])
    BY DEF Gapless
  <2>4. QED
    BY <2>1, <2>2, <2>3, FollowsKept
<1>3. ASSUME Len(s) > 0 PROVE Follows(r, s[Len(s)], Update(n))'
  <2>1. s[Len(s)] \in Items
    BY <1>1, <1>3
  <2>2. Update(n).pos \in 1..(Len(log) + 1)
    BY ItemKinds
  <2>3. Follows(r, s[Len(s)], Update(n))
    BY <1>3 DEF Gapless
  <2>4. QED
    BY <2>1, <2>2, <2>3, FollowsKept
<1>4. QED
  BY <1>2, <1>3 DEF Gapless

\* One item more leaves no gap if it is the n-th message or says of a gap.
LEMMA GaplessAppend ==
  ASSUME TypeInv, NEW r \in Readers, NEW s, s \in Seq(Items),
         NEW n \in Nat \ {0}, Gapless(r, s, n),
         NEW item, item \in Items, item = Update(n) \/ IsResync(item), NEW m \in Nat,
         item = Update(n) => m = n + 1
  PROVE  Gapless(r, Append(s, item), m)
<1> DEFINE t == Append(s, item)
<1>1. /\ Len(s) \in Nat /\ Len(t) = Len(s) + 1 /\ t[Len(s) + 1] = item
      /\ \A i \in 1..Len(s) : t[i] = s[i]
  BY AppendElements
<1>2. \A p : Update(p).pos = p
  BY ItemKinds
<1> HIDE DEF t
<1>3. Follows(r, item, Update(m))
  BY <1>2 DEF Follows
<1>4. ASSUME NEW i \in 1..(Len(t) - 1) PROVE Follows(r, t[i], t[i + 1])
  <2>1. CASE i < Len(s)
    <3>1. i \in 1..(Len(s) - 1) /\ t[i] = s[i] /\ t[i + 1] = s[i + 1]
      BY <1>1, <2>1
    <3>2. QED
      BY <3>1 DEF Gapless
  <2>2. CASE i = Len(s)
    <3>1. Len(s) > 0 /\ t[i] = s[Len(s)] /\ t[i + 1] = item
      BY <1>1, <2>2
    <3>2. Follows(r, s[Len(s)], Update(n))
      BY <3>1 DEF Gapless
    <3>3. Follows(r, s[Len(s)], item)
      BY <3>2 DEF Follows
    <3>4. QED
      BY <3>1, <3>3
  <2>3. QED
    BY <1>1, <2>1, <2>2
<1>5. QED
  BY <1>1, <1>3, <1>4 DEF Gapless, t

\* Nor does a message that is not for the reader.
LEMMA GaplessPass ==
  ASSUME TypeInv, NEW r \in Readers, NEW s, s \in Seq(Items),
         NEW n \in Nat \ {0}, Gapless(r, s, n), ~ Wants(r, log[n])
  PROVE  Gapless(r, s, n + 1)
<1>1. \A p : ~ IsResync(Update(p)) /\ Update(p).pos = p
  BY ItemKinds
<1>2. ASSUME Len(s) > 0 PROVE Follows(r, s[Len(s)], Update(n + 1))
  <2> DEFINE a == s[Len(s)]
  <2>1. a \in Items
    BY <1>2, LenProperties, ElementOfSeq
  <2>2. Follows(r, a, Update(n))
    BY <1>2 DEF Gapless
  <2> HIDE DEF a
  <2>3. IsResync(a) \/ a.pos \in Nat
    BY <2>1, ItemPlaces, LenProperties DEF TypeInv, MessageTypes
  <2>4. Follows(r, a, Update(n + 1))
    BY <1>1, <2>2, <2>3 DEF Follows
  <2>5. QED
    BY <2>4 DEF a
<1>3. QED
  BY <1>2 DEF Gapless

LEMMA GapStep == TypeInv /\ GapInv /\ [Next]_vars => GapInv'
<1> SUFFICES ASSUME TypeInv, GapInv, [Next]_vars, NEW q \in Readers, pc'[q] \in Streaming
             PROVE  Gapless(q, Got(q), next[q])'
  BY DEF GapInv
<1>1. /\ Got(q) \in Seq(Items)
      /\ next[q] \in Nat \ {0} /\ next[q] <= Len(log) + 1 /\ Len(log) \in Nat
      /\ next'[q] \in Nat \ {0} /\ next'[q] <= Len(log') + 1
  <2>1. TypeInv'
    BY TypesStep
  <2>2. QED
    BY <2>1, GotItems, StepFacts DEF TypeInv, TaskTypes, PhaseInv
<1>2. PICK got, n : got = Got(q) /\ n = next[q]
  OBVIOUS
<1>3. got \in Seq(Items) /\ n \in 1..(Len(log) + 1)
  BY <1>1, <1>2
<1>4. CASE Idles(q) \/ Delivers(q) \/ Reads(q)
  <2>1. Got(q)' = got /\ next'[q] = n
    BY <1>1, <1>2, <1>4 DEF Idles, Delivers, Reads, SameTask, Got
  <2>2. pc[q] \in Streaming
    BY <1>4 DEF Idles, Delivers, Reads, SameTask, Streaming
  <2>3. Gapless(q, got, n)
    BY <1>2, <2>2 DEF GapInv
  <2>4. Gapless(q, got, n)'
    BY <1>3, <2>3, GaplessKept
  <2>5. QED
    BY <2>1, <2>4
<1>5. CASE Leaves(q)
  BY <1>5 DEF Leaves
<1>6. CASE Subscribes(q)
  <2>1. Got(q)' = <<>>
    BY <1>6 DEF Subscribes, Got
  <2>2. QED
    BY <2>1 DEF Gapless
<1>7. ASSUME NEW item \in Items \cup {Nothing}, Takes(q, item)
      PROVE  /\ Gapless(q, got, n) /\ log' = log
             /\ Got(q)' = IF item = Nothing THEN got ELSE Append(got, item)
  <2>1. pc[q] \in Streaming /\ Got(q) = inbox[q] /\ log' = log
        /\ holding'[q] = item /\ inbox'[q] = inbox[q]
    BY <1>7 DEF Takes, Got, Streaming
  <2>2. QED
    BY <1>2, <2>1 DEF GapInv, Got
<1>8. CASE TakesOne(q)
  <2>1. n \in DOMAIN log /\ next'[q] = n + 1
    BY <1>2, <1>8 DEF TakesOne
  <2>2. CASE Wants(q, log[n])
    <3>1. Update(n) \in Items /\ Update(n) # Nothing
      BY <1>3, <2>1, ItemKinds DEF Items, Update
    <3>2. Takes(q, Update(n))
      BY <1>2, <1>8, <2>2 DEF TakesOne
    <3>3. Gapless(q, got, n) /\ Got(q)' = Append(got, Update(n)) /\ log' = log
      BY <1>7, <3>1, <3>2
    <3>4. Gapless(q, Append(got, Update(n)), n + 1)
      BY <1>3, <3>1, <3>3, GaplessAppend
    <3>5. n + 1 \in 1..(Len(log) + 1)
      BY <1>1, <2>1, <3>3
    <3>6. Append(got, Update(n)) \in Seq(Items)
      BY <1>3, <3>1, AppendElements
    <3>7. Gapless(q, Append(got, Update(n)), n + 1)'
      BY <3>4, <3>5, <3>6, GaplessKept
    <3>8. QED
      BY <2>1, <3>3, <3>7
  <2>3. CASE ~ Wants(q, log[n])
    <3>1. Takes(q, Nothing)
      BY <1>2, <1>8, <2>3 DEF TakesOne
    <3>2. Gapless(q, got, n) /\ Got(q)' = got /\ log' = log
      BY <1>7, <3>1
    <3>3. Gapless(q, got, n + 1)
      BY <1>3, <2>3, <3>2, GaplessPass
    <3>4. n + 1 \in 1..(Len(log) + 1)
      BY <1>1, <2>1, <3>2
    <3>5. Gapless(q, got, n + 1)'
      BY <1>3, <3>3, <3>4, GaplessKept
    <3>6. QED
      BY <2>1, <3>2, <3>5
  <2>4. QED
    BY <2>2, <2>3
<1>9. ASSUME NEW k \in Nat \ {0}, Takes(q, Resync(k)) PROVE Gapless(q, Got(q), next[q])'
  <2>1. Resync(k) \in Items /\ IsResync(Resync(k)) /\ Resync(k) # Nothing
    BY ItemKinds DEF Items, Resync
  <2>2. Gapless(q, got, n) /\ Got(q)' = Append(got, Resync(k)) /\ log' = log
    BY <1>7, <1>9, <2>1
  <2>3. PICK m \in 1..(Len(log) + 1) : m = next'[q]
    BY <1>1, <2>2
  <2>4. Gapless(q, Append(got, Resync(k)), m)
    <3>1. Resync(k) # Update(n)
      BY <2>1, ItemKinds
    <3>2. QED
      BY <1>3, <1>1, <2>1, <2>2, <3>1, GaplessAppend
  <2>5. Append(got, Resync(k)) \in Seq(Items)
    BY <1>3, <2>1, AppendElements
  <2>6. Gapless(q, Append(got, Resync(k)), m)'
    BY <2>4, <2>5, GaplessKept
  <2>7. QED
    BY <2>2, <2>3, <2>6
<1>10. QED
  BY <1>4, <1>5, <1>6, <1>8, <1>9, ReaderStep DEF TakesLag

\* Between two items that follow each other in a client's inbox nothing of its
\* own was passed over, unless one of the two says so: however many messages
\* the ring overwrote while the socket's task was sending, and however many of
\* other users' events it skipped (jobs.rs stream, events.rs stream_events).
THEOREM GapsAreSaid == Spec => []NoSilentGap
<1>1. Init => GapInv
  BY DEF Init, GapInv, Streaming
<1>2. Spec => []GapInv
  BY <1>1, GapStep, TypesInvariant, PTL DEF Spec
<1>3. GapInv => NoSilentGap
  BY DEF GapInv, Gapless, Follows, NoSilentGap
<1>4. QED
  BY <1>2, <1>3, PTL

-----------------------------------------------------------------------------
(* The counts.                                                             *)

\* How many messages of the channel an item stands for.
Tells(item) == IF IsResync(item) THEN item.skipped ELSE 1

LEMMA TellsType == ASSUME NEW item \in Items PROVE Tells(item) \in Nat
<1>1. CASE item \in [pos : DOMAIN log]
  BY <1>1, ItemKinds DEF Tells, IsResync
<1>2. CASE item \in [skipped : Nat \ {0}]
  BY <1>2 DEF Tells
<1>3. QED
  BY <1>1, <1>2 DEF Items

\* One item more counts for itself.
LEMMA CountedMore ==
  ASSUME NEW s, s \in Seq(Items), NEW item \in Items,
         IsFiniteSet(Counted(s))
  PROVE  /\ IsFiniteSet(Counted(Append(s, item)))
         /\ Cardinality(Counted(Append(s, item))) = Cardinality(Counted(s)) + Tells(item)
<1> DEFINE t == Append(s, item)
           k == Len(s) + 1
           new == {k} \X (1..Tells(item))
<1>1. /\ Len(s) \in Nat /\ DOMAIN s = 1..Len(s) /\ DOMAIN t = 1..k
      /\ \A i \in 1..Len(s) : t[i] = s[i]
      /\ t[k] = item
  BY AppendElements
<1>2. Tells(item) \in Nat
  BY TellsType
<1>3. /\ Counted(s) = UNION {{i} \X (1..Tells(s[i])) : i \in 1..Len(s)}
      /\ Counted(t) = UNION {{i} \X (1..Tells(t[i])) : i \in 1..k}
  BY <1>1 DEF Counted, Tells
<1> HIDE DEF t
<1>4. Counted(t) = Counted(s) \cup new
  <2>1. ASSUME NEW p PROVE p \in Counted(t) <=> p \in Counted(s) \/ p \in new
    <3>1. p \in Counted(t) <=> \E i \in 1..k : p \in {i} \X (1..Tells(t[i]))
      BY <1>3
    <3>2. p \in Counted(s) <=> \E i \in 1..Len(s) : p \in {i} \X (1..Tells(s[i]))
      BY <1>3
    <3>3. \A i : i \in 1..k <=> i \in 1..Len(s) \/ i = k
      BY <1>1
    <3>4. QED
      BY <1>1, <3>1, <3>2, <3>3
  <2>2. QED
    BY <2>1
<1>5. Counted(s) \cap new = {}
  <2>1. \A p \in Counted(s) : \E i \in 1..Len(s) : p[1] = i
    BY <1>3
  <2>2. \A p \in new : p[1] = k
    OBVIOUS
  <2>3. k \notin 1..Len(s)
    BY <1>1
  <2>4. QED
    BY <2>1, <2>2, <2>3
<1>6. IsFiniteSet(new) /\ Cardinality(new) = Tells(item)
  <2>1. IsFiniteSet({k}) /\ Cardinality({k}) = 1
    BY FS_Singleton
  <2>2. IsFiniteSet(1..Tells(item)) /\ Cardinality(1..Tells(item)) = Tells(item)
    BY <1>2, FS_Interval
  <2>3. IsFiniteSet(new) /\ Cardinality(new) = Cardinality({k}) * Cardinality(1..Tells(item))
    BY <2>1, <2>2, FS_Product
  <2>4. QED
    BY <1>2, <2>1, <2>2, <2>3
<1> HIDE DEF new
<1>7. /\ IsFiniteSet(Counted(s) \cup new)
      /\ Cardinality(Counted(s) \cup new)
           = Cardinality(Counted(s)) + Cardinality(new) - Cardinality(Counted(s) \cap new)
  BY <1>6, FS_Union
<1>8. Cardinality(Counted(s) \cap new) = 0 /\ Cardinality(Counted(s)) \in Nat
  BY <1>5, FS_EmptySet, FS_CardinalityType
<1>9. QED
  BY <1>2, <1>4, <1>6, <1>7, <1>8 DEF t

\* A list of items adds up from one position to another.
AddsUp(s, from, to) == IsFiniteSet(Counted(s)) /\ from + Cardinality(Counted(s)) = to

CountInv == \A r \in Readers :
  PerJob /\ pc[r] \in Streaming => AddsUp(Got(r), start[r], next[r])

LEMMA AddsUpMore ==
  ASSUME NEW s, s \in Seq(Items), NEW item \in Items,
         NEW from \in Nat, NEW to \in Nat, AddsUp(s, from, to)
  PROVE  AddsUp(Append(s, item), from, to + Tells(item))
<1>1. Cardinality(Counted(s)) \in Nat
  BY FS_CardinalityType DEF AddsUp
<1>2. /\ IsFiniteSet(Counted(Append(s, item)))
      /\ Cardinality(Counted(Append(s, item))) = Cardinality(Counted(s)) + Tells(item)
  BY CountedMore DEF AddsUp
<1>3. Tells(item) \in Nat
  BY TellsType
<1>4. QED
  BY <1>1, <1>2, <1>3 DEF AddsUp

LEMMA CountStep == TypeInv /\ CountInv /\ [Next]_vars => CountInv'
<1> SUFFICES ASSUME TypeInv, CountInv, [Next]_vars, NEW q \in Readers, PerJob', pc'[q] \in Streaming
             PROVE  AddsUp(Got(q), start[q], next[q])'
  BY DEF CountInv
<1>0. PerJob
  BY StepFacts
<1>1. PICK got, from, to : got = Got(q) /\ from = start[q] /\ to = next[q]
  OBVIOUS
<1>2. got \in Seq(Items) /\ from \in Nat /\ to \in Nat
  BY <1>1, GotItems DEF TypeInv, TaskTypes
<1>3. pc[q] \in Streaming => AddsUp(got, from, to)
  BY <1>0, <1>1 DEF CountInv
<1> SUFFICES AddsUp(Got(q)', start'[q], next'[q])
  BY DEF AddsUp, Counted, IsResync
<1>4. CASE Idles(q) \/ Delivers(q) \/ Reads(q)
  <2>1. Got(q)' = got /\ start'[q] = from /\ next'[q] = to
    BY <1>1, <1>4 DEF Idles, Delivers, Reads, SameTask, Got
  <2>2. pc[q] \in Streaming
    BY <1>4 DEF Idles, Delivers, Reads, SameTask, Streaming
  <2>3. QED
    BY <1>3, <2>1, <2>2
<1>5. CASE Leaves(q)
  BY <1>5 DEF Leaves
<1>6. CASE Subscribes(q)
  <2>1. Got(q)' = <<>> /\ start'[q] = next'[q]
    BY <1>6 DEF Subscribes, Got
  <2>2. Counted(<<>>) = {}
    BY DEF Counted
  <2>3. next'[q] \in Nat
    BY TypesStep DEF TypeInv, TaskTypes
  <2>4. AddsUp(<<>>, next'[q], next'[q])
    <3>1. IsFiniteSet(Counted(<<>>)) /\ Cardinality(Counted(<<>>)) = 0
      BY <2>2, FS_EmptySet, Zenon
    <3>2. QED
      BY <2>3, <3>1 DEF AddsUp
  <2>5. QED
    BY <2>1, <2>4
<1>7. ASSUME NEW item \in Items, Takes(q, item), next'[q] = to + Tells(item)
      PROVE  AddsUp(Got(q)', start'[q], next'[q])
  <2>1. item # Nothing /\ pc[q] = "open" /\ Got(q)' = Append(got, item) /\ start'[q] = from
    <3>1. item # Nothing
      BY ItemKinds, LenProperties DEF Items, TypeInv, MessageTypes
    <3>2. QED
      BY <1>1, <1>7, <3>1 DEF Takes, Got
  <2>2. AddsUp(got, from, to)
    BY <1>3, <2>1 DEF Streaming
  <2>3. QED
    BY <1>2, <1>7, <2>1, <2>2, AddsUpMore
<1>8. CASE TakesOne(q)
  <2>1. to \in DOMAIN log /\ next'[q] = to + 1 /\ Takes(q, Update(to))
    BY <1>0, <1>1, <1>8 DEF TakesOne, Wants
  <2>2. Update(to) \in Items /\ Tells(Update(to)) = 1
    BY <2>1, ItemKinds DEF Items, Update, Tells
  <2>3. QED
    BY <1>7, <2>1, <2>2
<1>9. ASSUME NEW n \in Nat \ {0}, TakesLag(q, n) PROVE AddsUp(Got(q)', start'[q], next'[q])
  <2>1. Resync(n) \in Items /\ Tells(Resync(n)) = n
    BY ItemKinds DEF Items, Resync, Tells
  <2>2. QED
    BY <1>1, <1>7, <1>9, <2>1 DEF TakesLag
<1>10. QED
  BY <1>4, <1>5, <1>6, <1>8, <1>9, ReaderStep

\* A client that adds one per update and "skipped" per resync_required always
\* knows its position in the job's updates: none is lost or repeated unsaid
\* (jobs.rs stream, RecvError::Lagged).
THEOREM LossIsCounted == Spec => []CountsAddUp
<1>1. Init => CountInv
  BY DEF Init, CountInv, Streaming
<1>2. Spec => []CountInv
  BY <1>1, CountStep, TypesInvariant, PTL DEF Spec
<1>3. CountInv => CountsAddUp
  BY DEF CountInv, AddsUp, CountsAddUp
<1>4. QED
  BY <1>2, <1>3, PTL
=============================================================================
