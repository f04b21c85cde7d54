# A verification project for evgl-api

TLA+ modules, TLC runs and TLAPS proofs about the Evento Globolo API server
(`src/src/*.rs`, schema in `src/migrations/0001_initial.sql`).

## The system

`evgl-api` is one tokio process with an Axum router in front of PostgreSQL.
State lives in three places: database rows, the process's memory (broadcast
channels and spawned tasks), and the providers (Meetup, Eventbrite, ...), which
the service can call but not roll back. The external crates `evgl-interfaces`
(ticketing and admission SQL functions), `evgl-domain`, `evgl-provider-sdk` and
`evgl-token-vault` are not part of the repository.

| component | state it keeps | operations | what is hard | correct when |
|---|---|---|---|---|
| cross-post requests: `events.rs` `cross_post`, `store.rs` `enqueue_job` | `cross_post_jobs`, `cross_post_targets`, the open transaction | look up the key, insert job and targets, commit, spawn | racing requests, deletes between check and insert, a handler dropped around the commit | one whole job per user and key; answers are the asker's own |
| cross-post worker: `worker.rs`, `claim_targets` ... `finish_job` | task locals, job and target rows | claim, call provider, retry, record, roll up, emit | lost answers, failing statements, restarts, partial failure | rows never behind the provider; the roll-up tells the truth; finished is final |
| job and event streams: `jobs.rs`, `events.rs`, `state.rs` | a channel of 128 updates per job, one of 512 events, reader positions | subscribe, receive, lag, resync | subscribing late, slow readers, owners | a reader sees every later message in order or is told to resynchronise |
| OAuth and connections: `oauth.rs`, `store.rs` | `oauth_sessions`, `provider_connections` | start, callback, manual connect, delete | replayed and expired callbacks, partial upserts | a login is used once, by its provider, in its ten minutes |
| ticket inventory: `ticketing.rs` | capacities, holds, orders (external functions) | configure, create class, reserve, order, pay, cancel, expire | capacity changes racing with reservations, holds that expire | stock never exceeds capacity |
| admission tokens and receipts: `admission.rs` | keys and snapshots | sign, verify, reconcile | key rotation, stale snapshots, receipts in any order | the winner depends on the receipts, not on their order |
| `AdmissionService`: `admission.rs` | entitlements, tokens, receipts | register, revoke, record, outcomes | a revocation between check and record | a ticket admits once |
| start-up and registry: `config.rs`, `registry.rs`, `main.rs` | the providers a process serves | start, stop, list providers | logins and jobs that outlive the process and its configuration | nothing done under one configuration is finished wrongly under another |
| events, authentication, errors | immutable rows, none | create, list, get | nothing beyond single statements | owner-scoped |

Everything else in the repository (Dockerfiles, scripts, examples, `env`) builds
or runs the server and holds no logic.

How they interact: `cross_post` files a job and hands it to a task
(`worker::spawn`); the task reads the connections that OAuth or `create_manual`
made, writes rows, and sends updates on the job's channel; stream tasks pass
them on, and clients read the rows over `GET`. Ticketing and admission are
library services: no route of `main.rs` calls them yet, the tests do.

## The modules

| module | models | of it |
|---|---|---|
| `CrossPost` | requests and worker | `events.rs:77-112`, `store.rs:209-394`, `worker.rs`, schema |
| `CrossPostProperties` | what must hold of `CrossPost` | |
| `JobLedger` | the abstract promise per (user, key) | |
| `CrossPostInductive` | the invariants the proofs use | |
| `CrossPostProofs` | the theorems about requests, worker and ledger | |
| `JobFollower` | `CrossPost`'s worker, a socket of `UpdateStream` and `GET /v1/jobs/{id}` together, with the client who follows his job | `worker.rs`, `jobs.rs`, `store.rs:282-301` |
| `UpdateStream` | both WebSocket streams and the reads beside them | `jobs.rs`, `events.rs:37-60, 114-172`, `state.rs` |
| `OAuthConnections` | logins, callbacks, connections, and the providers a process serves | `oauth.rs`, `store.rs:54-168`, `config.rs`, `registry.rs:17-49`, schema |
| `TicketInventory` | capacity changes against reservations | `ticketing.rs:35-96` |
| `AdmissionToken` | signing, and verifying at a door on a snapshot | `admission.rs:29-146, 581-592` |
| `AdmissionService` | registrations, revocation, receipts, outcomes | `admission.rs:259-563` |
| `AdmissionLedger` | the abstract promise per ticket | |
| `Reconcile` | the winner rule for receipts | `admission.rs:203-247` |
| `OfflineAdmission` | doors, scanners' receipts and the server together | `AdmissionToken`, `AdmissionService`, `admission.rs:148-186` |
| `UpdateStreamProofs`, `OAuthProofs`, `TicketInventoryProofs`, `AdmissionTokenProofs`, `ReconcileProofs` | the theorems about the module each is named for | |
| `JobFollowerProofs` | the theorems about a follower, on top of `CrossPostProofs` | |
| `AdmissionServiceProofs` | the theorems about the service and its ledger, and about `OfflineAdmission` | |
| `MC...` | the instances for TLC | |

Operators marked "Mutant" in the modules are plausible bugs of the code. No
specification uses them; `PROJECT.json` names the definition each stands in for
and the property that notices.

How the modules fit together. `JobFollower` runs `CrossPost` and an instance of
`UpdateStream`'s socket on one job; `UpdateStream` alone assumes a producer that
writes, then sends, which `JobFollower` shows of `CrossPost` (`ShownIsTrue`), and
looks at the events too. `OfflineAdmission` runs `AdmissionToken` and
`AdmissionService`, which uses `Reconcile`'s rule for its outcomes. `CrossPost`
takes a connection's owner and provider for constants, which `OAuthConnections`
checks (`ReferenceIsFixed`).

### CrossPost: state and steps

A job has the name of the request that filed it, a target is a slot of that
request's list. One step is what the code does between two awaits that another
actor could use.

- `pc`, `body`, `reply`, `staged`: a handler and its open transaction.
  `Receive` is the handler up to `get_event`; `Replay` and `Miss` the look-up;
  `InsertJob` the insert, which waits while another open transaction holds the
  key and is refused once that one has committed (the 23505 becomes a 500);
  `CheckConnection`, `InsertTarget`, `Commit` the rest; `Spawn` the step after
  the commit. The inserts of an open transaction show only in what they block:
  the unique key (`KeyHeld`) and the row locks of the foreign key (`Locked`).
- `jobStatus`, `rows`, `status`, `attempt`, `connections`: the committed rows.
- `worker`: the task of a job and its locals; `updates`: everything sent on the
  job's channel. `Claim`, `Start`, `Pick`, `BeginAttempt`, `Call`, `Succeed`,
  `FailRetryable`, `FailFinally`, `Backoff`, `Complete`, `RecordFailure`,
  `Announce`, `Finish`, `AnnounceFinish` follow `run` line by line; `Pick`
  decides everything the code checks before a call (connection, adapter,
  envelope), `PickUnlucky` a connection look-up that fails.
- `calls`, `posts`: what the provider was sent and what it posted. A call may
  post and still fail to answer (`ProviderPosts`, then `FailRetryable`).
- `Drop`, `Abort`, `Crash`: a handler's future dropped or its statement failing,
  a worker's statement failing, the process stopped and started. `MaxFaults`
  counts them.

Two branches of `run` are left out because no row this service writes reaches
them: a target of another job, and a provider name that does not parse.
`finish_job` is two statements and one step here: `SingleDriver`, which is
proved, says nobody else writes the job's rows in between. One server process is
modelled; channels are per process, so a second one would not be heard by the
first one's readers.

### UpdateStream

`stored`, `log` and `dropped` are the producers' side: `Store` writes, `Send`
sends, `Abandon` is a producer that dies in between. `log` keeps everything sent;
the tokio channel is the window of its last `Capacity` entries, and a receiver
(`next`) before the window is `Lagged`. Readers are `Authorize` (the look-up
before the upgrade), `Subscribe`, `Recv` (one round of `select!`), `Deliver`
(`sender.send(..).await`), `Hangup`; `Restart` closes all of them. `known`,
`inbox` and `owes` describe a client who keeps what he learns and remembers
whether he must read the rows; `Read` is the `GET`. `jobOwner`, chosen at
the start, selects the stream: the owner of the job that is followed (one producer, a
check at connection time), or `Nothing` for that of new events (any number of
producers, a filter per message and a listing of at most `ListLimit` events).
The channel's sender lives as long as the process, so the `Closed` branch is
unreachable; `DashMap::entry` makes getting or creating a channel one step; ping
and pong leave no state.

### JobFollower

`socket`, `next`, `start`, `holding` are the socket's task, moved by
`UpdateStream`'s own `Authorize`, `Subscribe`, `Recv`, `Hangup`; its log is the
`updates` of `CrossPost`. `Reads` are the two statements of `get_job`, `Answer` the
response, which the socket's items may overtake or be overtaken by; `CrashAll` ends
the socket and the request with the process. `view`, `owes` and the rule `Learned`
are the client, who is external: he reads once when his socket is open, after each
`resync_required`, and when an update tells him of an outcome at a provider where
his job has several targets (an update carries the provider and not the target);
and he never gives up an outcome for an older answer that says "running". A client
without that last rule could be left with a stale view: answer and updates arrive on
two connections, and nothing is sent after "job finished".

### OAuthConnections

`session` is the table, `login` remembers who started what, `callback` the
requests that come back. `Arrive` is `consume_oauth_session`, `Exchange` the
route comparison and the provider's two calls, `Connect` one round of the loop of
upserts, `Fail` every way out. Tokens, PKCE and hashes are abstract; an envelope
is known by the key it was sealed with. `CreateManual` and `DeleteConnection` are
the other two writers; `Refer` stands for a job's target. `served` is what the
process has adapters for. `Starts` and `Adapters` are `from_env` and
`ProviderRegistry::build` of an environment in which a provider is configured in full,
in part or not at all; `Restart` loses the callbacks under way and may come with any
environment that starts.

### TicketInventory

`configure_event` is `BeginConfigure` (the statement's snapshot, with the sums)
and `ApplyConfigure` or `RefuseConfigure` (after the lock), because PostgreSQL
takes a statement's snapshot before its CTE waits for the advisory lock. A waitlist
entry has the name of the hold it is offered; `PromoteWaitlist` may offer to any
entry that fits, for whom the function chooses is not in this repository. The
functions `evgl_*` live in another repository; each is one atomic step with the
guards that the arguments and `tests/ticketing_postgres.rs` show. They are
marked external in the map. A sum of quantities is the number of tickets they are
for, `Cardinality` of hold and ticket number, which the provers can reason about.

### AdmissionToken

A signer signs whatever fits its descriptor (`Sign`: validity, identity, window,
lifetime). Verification is a function of token, snapshot, event and time, so it is
an operator, `Verdict`, with the code's refusals in the code's order, and `LetsIn` a
predicate on the state. `Synchronise` gives a scanner the snapshot of the moment, of
either event, with any of the registered keys and any term of validity: nothing in
the repository makes snapshots, so nothing more is assumed of them. A signature is
known by the key that made it.

### AdmissionService

A registration of a key is one statement on one row. Entitlements and tokens are
inserted from a select over other tables, and a receipt is decided in one statement
and stored in a later one: `Begin...` reads, `Insert...` or `StoreReceipt` writes, and
`call` keeps what was found in between. `valid` is a row's status (an active
entitlement, a token not revoked, a candidate receipt). The functions `evgl_*` are
external and taken at their weakest: a revocation rejects the receipts stored so far
and nobody looks at a decision again. `told`, `paid`, `overtaken` are history for the
properties. `AdmissionLedger` is the promise per ticket; the refinement maps its
acceptance to the outcome of the stored candidates.

### OfflineAdmission

Starts when the keys are registered and the order is paid. `ScanTicket` is a door
that lets a ticket in and signs a receipt; `ServerStep` takes receipts in any order,
any time later, while `RevokeTicket` withdraws the ticket at the server and in the
revocations that later snapshots carry. `OfflineAdmissionAssumption` says that the
office asks for one entitlement per ticket and one token per id (contested ids are the
matter of `AdmissionService`), and that a receipt that names a registered scanner's key is signed with it, as
`verify_scanner_receipt` demands.

### Reconcile

`Winners` is the loop of `reconcile_verified_receipts`, round by round; `Arrive` appends any
receipt, also one that is there already. Receipt ids name receipts (they are
primary keys downstream), so two different receipts do not share one.

## What the runs check

| run | question | instance |
|---|---|---|
| `race` | Do requests racing for a key, with deletes and faults, file one whole job with one task, and do jobs at work do what the ledger allows, never ahead of their rows? | 3 requests of 2 users, 4 bodies, 3 connections, 2 faults, requests symmetric |
| `fan` | Is a job of several targets reported truthfully, in rows, roll-up and messages? | 1 request, up to 3 targets, 1 fault |
| `follow_outcome` | Does what a follower reads and is told add up to what the database holds? | 1 job of 2 targets, 1 fault, channel of 2 |
| `follow_progress` | Does a filed job end or strand, and does a follower who stays learn the end? | 1 job of 1 target, 1 fault, channel of 1, fair |
| `streams` | Is a slow client shown only what is his, all of it, and with counts that add up? | 4 updates of a job, his own or another's, or 4 events of 2 users; capacity 2, listing of 2 |
| `oauth_login` | Is a login used once, in time, at its provider, and is a referenced connection stable? | 2 logins, 2 callbacks, 2 users, 2 providers, 2 accounts, 2 ids, restarts |
| `inventory_bound` | How far can an event be oversold? | 2 configurers, 2 reservations or waitlist entries, capacity up to 3 |
| `inventory_race` | Can a capacity fall below the allocated stock? (It can.) | 1 configurer, 2 reservations |
| `door` | Whom does a door let in on old knowledge, for how long, and whom must it? | 1 scanner, 1 token, 1 revocation, 2 tickets and events, 2 overlapping keys, 4 moments |
| `admission` | Do racing registrations and receipts keep the ledger's promise? | 2 calls at a time, 1 ticket, contested ids, 4 receipts |
| `opening` | Do doors and server agree, and is every stale entry found out? | 2 doors, 1 ticket, 3 moments, 1 call at a time |
| `reconcile` | Does the winner depend on the order of arrival? | 6 receipts, 5 arrivals |

All runs switch TLC's deadlock check off: requests, messages, logins and
arrivals are finite in number, and a system that has served them all stops.

### Bounds, and why they are enough

- Three requests for one key: one that holds the key, one that waits for it and
  one that looks after the commit. More add permutations of these.
- Two faults: a job lost to one and its replay lost to another. `fan` and the two runs
  of `JobFollower` look at one job's life, which one fault ends.
- Three targets: one before, one at, one after the one that fails.
- `MaxAttempts` is the code's 3, not a bound.
- The channel's capacity of 1 or 2 with 4 messages lets a reader lag by one or more, several times, at every point; 128 and 512 differ by nothing but size.
- `ListLimit` 2 with 3 own events makes a listing that does not reach back.
- The two liveness properties share an instance with one request: what two requests do
  to each other before a job is filed is the matter of `race`.
- The session's lifetime of 1 with a clock of 0 and 1 has a callback in time and
  one exactly at the expiry, where `expires_at > now()` turns false.
- Ids in `OAuthConnections` are used up: with two, the interleavings of two
  accounts are there, and of one account that is deleted and connected again.
- `follow_outcome`: two targets at two providers, one of them without an adapter, or
  two at one provider, one with unreadable tokens: an update then is or is not enough,
  a target fails with or without a call, and all three attempts of the other one
  outrun a channel of two.
- `door`: a lifetime of 2 in four moments has tokens that begin, end and are revoked
  inside and across both keys' windows. Verification looks at one token and one
  snapshot, so one of each in every possible state is every case; one revocation
  too, for each revocation is compared by itself.
- `admission`: a call has two steps, so two calls have every interleaving of two;
  a third could only repeat one of them. Contested ids come with two contents each.
- `opening`: one call at the server is enough there, because calls among themselves
  are the matter of `admission`; what is new is the order of scans, receipts and the
  revocation. A scanner scans the ticket at most once.
- Receipts tie in each component of the order key, and five arrivals hold any
  five of six in any order, repeats included.

Symmetry is used where the names of requests, callbacks, logins, ids, holds and
configurers carry nothing, and in no run with a liveness property.

### Fairness

Only `JobFollower` states fairness (`FairFollowerSpec`), for `follow_progress`.
- Weak fairness of each handler's and each task's next step: tokio polls every ready
  task, PostgreSQL answers or fails, adapters' calls end in an answer or an error, and
  the back-off is a timer. A waiting insert is not enabled, so weak fairness does not
  help it past a lock.
- Weak fairness of the socket's receiving and delivering, of the two statements of
  `get_job` and of its answer: the same scheduler and database. Delivering is also
  about clients that take what they are sent, for the code gives a stalled client no
  deadline, and reading about a client who reads when he owes a read.
- Nothing obliges clients to ask, connect or stay, users to delete, or faults to happen.

Elsewhere nobody is obliged to finish a login, hand in a receipt or start a process,
and no liveness is stated.

## A disagreement found

`configure_event` refuses a capacity with "event capacity cannot be reduced below
allocated stock" (`ticketing.rs:63`). Its sums are read under the snapshot the
statement started with, and the lock is taken inside that statement, so a
reservation that commits while it waits is not counted. `inventory_race` shows
the shortest case: the statement starts, a reservation of 2 commits, the capacity
becomes 1. `inventory_bound` shows the damage to be limited to what was allocated
while the statement ran, and none if nothing was. Taking the lock in an earlier
statement of the same transaction would close the gap.

## What is proved

Eight modules hold the theorems. Each starts from the named assumption of the module
it is about, which types the constants and says which of them are keys, and holds for
any number of requests, users, clients, tickets, calls and faults. The inductive
invariants named below were put to TLC on the runs' instances before they were proved, from
`Init` and one case per action or kind of step.

### `CrossPostProofs` (from `CrossPostAssumption`)

| theorem | says |
|---|---|
| `TypeCorrect`, `OneDriver`, `UniqueJob` | types; no job is given to two tasks; at most one job per user and key |
| `AttemptsBound` | no target is posted more often than its attempt column says, nor more than three times |
| `FiledWhole` | a job has all its targets or is not there; each connection exists, is the owner's and of its provider |
| `AnsweredWithOwn` | whoever is answered with a job gets one of his own user and key |
| `OnlyFaultsStrand`, `StrandedForGood` | without a fault a job has its task until it is finished; one whose task died stays as it is |
| `FinishedJobTellsTruth`, `EveryTargetTried` | a finished job's status is the roll-up of finished targets, each of which was called unless it could not be |
| `FinishedStays`, `FinishComesLast` | a finished row is never written again; "job finished" is the last message, after one outcome per target |
| `CrossPostImplementsLedger` | per user and key, every behaviour is one of `JobLedger` |

`TypeOK` is not inductive: a worker's slot is in range only because its job has that
many rows. `Shape` adds how program counters go with what they hold: a handler's staged
targets are among those asked for, a committed job has all its rows and a handler past
the commit, and a task works on the job of the handler that spawned it, on one of its
rows, with an attempt from 1 to 3. The rest is inductive relative to `Shape`, one
invariant for each thing the code has to remember:

- `KeyInv`: a transaction that has inserted its job shares its key with no committed
  job and with no other such transaction.
- `AttemptInv`: targets still to do were never tried; the row is behind the task's
  attempt only in `begin`, the provider behind the row in `call`, the posts behind the
  calls in `waiting`. A fault destroys the task and leaves the inequalities.
- `FilingInv`: what the handler checked of a connection holds until its target is
  inserted, and from then on the row lock and later the foreign key keep it.
- `ReplyInv`, `DriverInv`: who answers with which job; only a fault loses a handler or
  a task.
- `OutcomeInv`: a row is final exactly when its task is past it, a target past its
  first call was tried, and a final job has the status its rows add up to.
- `PostedInv`: what is published was posted. `ChannelInv`: the outcomes sent are
  as many as the rows the task is past, and a message that ends the job is the last.

`Lasting`, `TaskKeeps`, `TaskEffects` and `JobSteps` say once what a step may do to one
job (nothing, what its handler does, what its task does, or end that task), so that
each invariant looks at one job at a time. The refinement maps a (user, key) to the
state of `JobOf`, chosen among the committed jobs: `KeyInv` makes the choice unique,
therefore stable, and each step is then one of the ledger's or a stutter.

### `UpdateStreamProofs` (from `UpdateStreamAssumption`)

`TypeCorrect`; `NobodySeesOthers` (nobody is shown another user's job or event, by
reading or streaming); `ReadersCatchUp` (who reads when he is told to knows of everything
his socket is past); `GapsAreSaid` (between two items nothing of the client's own was
passed over unsaid); `LossIsCounted` (updates received and counts skipped add up to the
position). `TypeInv` has beside the types that what is sent was stored, once, and that a
receiver is never past the end. `MessagesStep` and `ReaderStep` list the kinds
of step once. `HoldsWanted`, `Gapless` and `AddsUp` are the properties extended to the
item the task holds and the position it will receive next, which is what makes them
inductive. A read lists every own event as long as there are no more than `ListLimit`
(`SnapshotIsAll`).

### `JobFollowerProofs` (from `JobFollowerAssumption` and `CrossPostProofs`)

`NothingFalseIsShown` (an outcome the client holds is the one in the database);
`AnswersFit` (a job answered as finished comes with the targets it adds up from, although
these are read in a second statement); `NothingIsMissed` (a client with nothing to read
and nothing on its way holds every outcome on record that the worker has said).
`MessageInv` says that each message of the channel tells what is, and will stay, in the
rows: this is what `UpdateStream` assumes of its producer. `AskingOK` says the same of an
answer under way, `ViewOK` of the client. `CaughtOK` is the heart: every outcome on
record has, for an open socket, a way to the client: he holds it, or he will read it, or a
message at or after his receiver brings it, or the socket is about to tell him to
resynchronise, or the worker is about to say it.

### `OAuthProofs` (from `OAuthAssumption` and `NoneAssumption`)

`OAuthTypes`; `LoginOnce`: `Spec => []LoginUsedOnce`; `ConnectionsMadeByLogin`:
`Spec => []MadeByLogin`; `EnvelopesOpen`: `Spec => []EnvelopeOpens`; `ReferencesFixed`:
`Spec => ReferenceIsFixed`.

`LoginUsedOnce` is not inductive: a callback may use a login only if nobody did before,
and what says so is that the session of a used login is gone for good. `UsesInv` says it: a
session there is agrees with its login's start, a callback that used one left none and
agrees with its login, and one that exchanged its code had one, on the session's
provider's route. `LoginsStay` (a login's record is never changed) keeps what was said of a
row true, and `RowsDrawn` (an id in use was drawn) keeps an upsert's new id from being
another row's. `RowStep` says what any step may do to one row: leave it, delete it
unreferenced, or put a whole sealed row of the same key in its place; all three properties
of rows follow from it.

### `TicketInventoryProofs` (from `TicketInventoryAssumption`)

`TypeCorrect`; `OversoldByRaceOnly`: the event is oversold at most by what was
allocated while the statement that set its capacity waited. `InventoryInv` adds to it that
a hold's status tells whether its order is paid, and that nothing is promised before there
is a capacity. The lemmas about `Sum` say what a cardinality of numbered tickets does when
a hold is added, ends or changes hands.

### `AdmissionTokenProofs` (from `AdmissionTokenAssumption`)

`DoorTypes`; `WithdrawalReachesDoor`; `WithdrawalCatchesUp`; `KeyWindowHolds`;
`StaysLetIn`: `Spec => LetInUntilItEnds`; and `GenuineLetIn`:
`Spec => []GenuineGetsIn`, where moreover no signer's descriptor
shares its public key with another registered one (`OnePairPerKey`). Where one
is, under two ids, a snapshot may list one and the token name the other, and the
scanner answers `UnknownKey`.

What a scanner lets in is a predicate on its token, its snapshot and
the clock; `VerdictIsOk` unfolds it once. The rest is the history both carry, the
inductive `DoorInv`: every token is one some signer signs (`SignedByKey`, hence short
and in its key's window), a snapshot has every revocation recorded before it was made
(`SnapshotKnows`) and no other than recorded ones (`SnapshotHonest`).

### `ReconcileProofs` (from `ReconcileAssumption`)

`FirstScanWins`: `Spec => []OrderIsIrrelevant`; `ReviewStays`: `Spec => ReviewIsFinal`.
These are about every sequence of receipts, so about what the loop computes. `LoopRuns`
shows that the recursive function in `Winners` exists, and `WinnersWin` that after each
round every ticket seen has the first of its receipts so far. Both are inductions over
the number of rounds, written as the search for a least counterexample: `NatLeast` (a
non-empty set of naturals has a least one) comes from the library's well-founded minima and
needs no theorem with an operator parameter.

### `AdmissionServiceProofs` (from `AdmissionServiceAssumption`)

`TypeCorrect`; `OkIsStored` (who is told that a row is registered finds it, as asked and
for good); `AcceptedReceiptIsCovered` (an accepted receipt stands on an unbroken chain of
keys, token, entitlement and paid order); `ServiceImplementsLedger` (per ticket the service
does what `AdmissionLedger` allows).

A call reads in one step and writes in a later one. `CallsFrom` and `RowsFrom` say that
what a call carries was found by its own read, and what a row holds came from such a call.
`ChainInv` says that what the read found holds still when the row is written, because
keys, entitlements and orders that a receipt stands on are only added to; a
revocation changes `valid` alone. `LedgerInv` says that a candidate under way for a
withdrawn ticket is one the revocation overtook (`OvertakenOnly`). The outcome is the
minimum of the candidates under `Reconcile`'s order: `BeforeOrders` shows it total,
`OneComesFirst` that each non-empty set of receipts has a first, by the well-foundedness of
the naturals in each component, and `FirstOfMore` that one more candidate takes over or
changes nothing, which is the step of the ledger.

### Doors and server, in `AdmissionServiceProofs` (from `OfflineAdmissionAssumption` too)

`DoorsAgree` (whom a door let in with a scanner's key of that moment the server takes for
a candidate, once it knows the token, until it knows of a revocation); `FirstScanCounts` (when
all scans of a ticket have come in, in any order, exactly one is accepted and none is
earlier); `StaleEntriesFound` (an entry after the revocation is never accepted). Every step
of the composition is one of the service's or leaves it alone (`OpeningSteps`), so
`LedgerInv` carries over. `OpeningInv` adds what links the two sides: a token is signed as
it is registered, a scan fits its token (`ScannedOK`), a token's ticket has an
entitlement of its epoch (`TokensOK`), a receipt stored or under way was scanned and is a
candidate unless its ticket was withdrawn (`ReceiptsOK`), and one scanned after the
withdrawal is none and will be none (`StaleOK`).

### Model-checked only

- Liveness under fairness: `JobSettles`, `FollowerLearns` of `follow_progress`.
- `CapacityCoversStock`, which the code violates.

## What is not modelled

- Who makes key snapshots, and the receipt views of ticketing and admission: external
  from end to end; what the code reads of them is modelled at its weakest.
- Creating, listing and getting events: single statements on rows nobody
  changes; they appear where streams, requests and followers use them.
- Authentication, error mapping, webhook address checks, encodings: stateless, and
  unit-tested where they are not trivial. Signatures are unforgeable here.
- The list of providers and their capabilities (`registry.rs:55-142`), a table; the
  configuration variables of which a missing one only keeps the process from starting, and the rotation of the vault's key: `Unreadable` connections are what
  other code sees of it.
- Two server processes on one database.

Hazards no property covers, because no text of the repository says what should hold:
an event inserted by a handler that dies before sending is listed but not announced
(`events.rs:57`); writing to a client that neither reads nor closes has no deadline
(`jobs.rs:80`); a finished job's channel stays in the map for good (`state.rs:25`); of
two overlapping logins for one account the later upsert wins, also with the older
tokens (`oauth.rs:124`); a replayed key with another body gets the first job
(`store.rs:229`), and the loser of two racing inserts a 500 (`store.rs:239`). That inserts and deletes
never wait for each other in a circle (`store.rs:236`) holds by the shape of their
waits, which the model copies: an insert waits only for transactions past their own
insert, and those wait for nobody.

## Plan

Written, in this order: `CrossPost` with its properties, refinement and proofs,
`UpdateStream`, `TicketInventory`, `OAuthConnections`, `Reconcile`, `AdmissionToken`,
`AdmissionService` with its ledger, `OfflineAdmission`, `JobFollower`, and the proofs
about each of them.

Every safety property, action property and refinement that the runs show to hold is a
theorem. What could still be added: two server processes on one database, should the service
be deployed so. Rows and keys would be as proved, for each step of the model is a statement
on the shared rows; channels would not be shared.
