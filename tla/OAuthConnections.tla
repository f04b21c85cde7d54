-------------------------- MODULE OAuthConnections --------------------------
(***************************************************************************)
(* Logins at providers and the connections they make (oauth.rs and the     *)
(* statements of store.rs it runs). A user starts a login; his browser     *)
(* comes back from the provider with the login's state, once, often, late  *)
(* or never; the callback uses the session up, exchanges the code and      *)
(* upserts one connection per account, statement by statement and without  *)
(* a transaction. Secret-based providers are connected by create_manual.   *)
(* CrossPost takes a connection's user and provider for fixed: here they   *)
(* are checked to be. A restart loses the callbacks under way, and may     *)
(* come with other providers configured (Deployment).                      *)
(***************************************************************************)
EXTENDS Integers, Sequences, SequencesExt

CONSTANTS
  Users,
  OAuthProviders,   \* capabilities().oauth: served where they are configured
  ManualProviders,  \* the others, always served
  Accounts,         \* account keys a provider resolves or a user names
  Logins,           \* state tokens: random, never drawn twice
  Callbacks,        \* requests to the callback route
  Ids,              \* connection ids: random, never drawn twice
  Lifetime,         \* of a session: ten minutes (store.rs)
  MaxAccounts,      \* bound of the accounts one login resolves to
  MaxTime,          \* bound of the clock
  None

ASSUME OAuthAssumption ==
  /\ OAuthProviders \cap ManualProviders = {}
  /\ Lifetime \in Nat \ {0} /\ MaxTime \in Nat /\ MaxAccounts \in Nat

VARIABLES
  served,      \* providers the process has an adapter for
  clock,       \* the database's now()
  login,       \* [Logins -> who started it, for which provider], or None
  session,     \* [Logins -> row of oauth_sessions], or None
  callback,    \* [Callbacks -> state of the request]
  row,         \* [Ids -> row of provider_connections], or None
  drawn,       \* ids used so far
  referenced   \* ids cross_post_targets refer to

vars == <<served, clock, login, session, callback, row, drawn, referenced>>

Providers == OAuthProviders \cup ManualProviders

Key == [user : Users, provider : Providers, account : Accounts]
KeyOf(x) == [user |-> x.user, provider |-> x.provider, account |-> x.account]

\* made: how the row was last written, a login or "manual".
Row == [user : Users, provider : Providers, account : Accounts,
        envelope : Key, made : Logins \cup {"manual"}]

Login   == [user : Users, provider : OAuthProviders]
Session == [user : Users, provider : OAuthProviders, expires : Nat]

ASSUME NoneAssumption == None \notin Login \cup Row

Phase == {"idle", "consumed", "connecting", "done", "failed"}
Idle  == [pc |-> "idle", login |-> None, path |-> None, code |-> FALSE,
          at |-> 0, session |-> None, accounts |-> <<>>]

Callback == [pc : Phase, login : Logins \cup {None}, path : Providers \cup {None},
             code : BOOLEAN, at : 0..MaxTime, session : Session \cup {None},
             accounts : Seq(Accounts)]

\* A provider's three variables in the environment: none, some or all of them are set.
Environment == [OAuthProviders -> {"absent", "partial", "complete"}]

\* A provider configured in part keeps the process from starting.
Starts(env) == \A p \in OAuthProviders : env[p] # "partial"

Adapters(env) == ManualProviders \cup {p \in OAuthProviders : env[p] = "complete"}

Deployments == {Adapters(env) : env \in {e \in Environment : Starts(e)}}

Init ==
  /\ served \in Deployments
  /\ clock = 0
  /\ login    = [l \in Logins |-> None]
  /\ session  = [l \in Logins |-> None]
  /\ callback = [c \in Callbacks |-> Idle]
  /\ row      = [i \in Ids |-> None]
  /\ drawn = {} /\ referenced = {}

Tick == clock < MaxTime /\ clock' = clock + 1
        /\ UNCHANGED <<served, login, session, callback, row, drawn, referenced>>

-----------------------------------------------------------------------------
(* Starting a login.                                                       *)

Expiry == clock + Lifetime

Start(l) == \E u \in Users, p \in OAuthProviders \cap served :
  /\ login[l] = None
  /\ login'   = [login EXCEPT ![l] = [user |-> u, provider |-> p]]
  /\ session' = [session EXCEPT ![l] = [user |-> u, provider |-> p, expires |-> Expiry]]
  /\ UNCHANGED <<served, clock, callback, row, drawn, referenced>>

-----------------------------------------------------------------------------
(* The callback.                                                           *)

Valid(l) == session[l] # None /\ session[l].expires > clock

\* Mutant: looked up, and not deleted.
LookUp(l) == UNCHANGED session

Consume(l) == session' = [session EXCEPT ![l] = None]

Goto(c, phase) == callback' = [callback EXCEPT ![c].pc = phase]

\* consume_oauth_session: whatever comes back, with or without a code and on
\* whatever provider's route, uses the session up.
Arrive(c) == \E l \in Logins, path \in Providers, code \in BOOLEAN :
  /\ callback[c] = Idle
  /\ Valid(l)
  /\ callback' = [callback EXCEPT ![c] =
       [@ EXCEPT !.pc = "consumed", !.login = l, !.path = path, !.code = code,
                 !.at = clock, !.session = session[l]]]
  /\ Consume(l)
  /\ UNCHANGED <<served, clock, login, row, drawn, referenced>>

\* An error from the provider is answered before the session is looked at; an
\* unknown, used or expired state finds none.
Refuse(c) ==
  /\ callback[c] = Idle
  /\ Goto(c, "failed")
  /\ UNCHANGED <<served, clock, login, session, row, drawn, referenced>>

\* Mutant: the code of one provider is taken to another.
AnyRoute(c) == callback[c].code /\ callback[c].session.provider \in served

Exchangeable(c) ==
  /\ callback[c].session.provider = callback[c].path /\ callback[c].code
  /\ callback[c].session.provider \in served

\* exchange_code and resolve_accounts: the provider names the user's accounts.
Exchange(c) == \E accounts \in SeqOf(Accounts, MaxAccounts) :
  /\ callback[c].pc = "consumed" /\ Exchangeable(c)
  /\ callback' = [callback EXCEPT ![c].pc = "connecting", ![c].accounts = accounts]
  /\ UNCHANGED <<served, clock, login, session, row, drawn, referenced>>

\* Mutant: the unique key forgets the user.
SameAccount(k) == {i \in Ids : row[i] # None /\ row[i].provider = k.provider
                                /\ row[i].account = k.account}

\* UNIQUE (user_id, provider, account_key)
Conflicting(k) == {i \in Ids : row[i] # None /\ KeyOf(row[i]) = k}

\* upsert_connection: a known account keeps its id and gets the new envelope.
Upsert(new) ==
  IF Conflicting(KeyOf(new)) # {}
  THEN /\ \E i \in Conflicting(KeyOf(new)) : row' = [row EXCEPT ![i] = new]
       /\ UNCHANGED drawn
  ELSE \E i \in Ids \ drawn :
       /\ row' = [row EXCEPT ![i] = new]
       /\ drawn' = drawn \cup {i}

\* Mutant: the first account's key seals the tokens of all.
SealedOnce(c) == [user |-> callback[c].session.user, provider |-> callback[c].session.provider,
                  account |-> CHOOSE a \in Accounts : TRUE]

\* The token envelope can be opened with the key it was sealed for only (aad).
Sealed(c) == [user |-> callback[c].session.user, provider |-> callback[c].session.provider,
              account |-> Head(callback[c].accounts)]

Connect(c) ==
  /\ callback[c].pc = "connecting" /\ callback[c].accounts # <<>>
  /\ Upsert([user |-> callback[c].session.user, provider |-> callback[c].session.provider,
             account |-> Head(callback[c].accounts), envelope |-> Sealed(c),
             made |-> callback[c].login])
  /\ callback' = [callback EXCEPT ![c].accounts = Tail(@)]
  /\ UNCHANGED <<served, clock, login, session, referenced>>

Redirect(c) ==
  /\ callback[c].pc = "connecting" /\ callback[c].accounts = <<>>
  /\ Goto(c, "done")
  /\ UNCHANGED <<served, clock, login, session, row, drawn, referenced>>

\* A wrong route, a missing code, a provider's or the database's error: what was
\* consumed and upserted before stays.
Fail(c) ==
  /\ callback[c].pc \in {"consumed", "connecting"}
  /\ Goto(c, "failed")
  /\ UNCHANGED <<served, clock, login, session, row, drawn, referenced>>

\* The process ends, and another serves what is configured by then.
Restart ==
  /\ served' \in Deployments
  /\ callback' = [c \in Callbacks |->
       IF callback[c].pc \in {"consumed", "connecting"}
       THEN [callback[c] EXCEPT !.pc = "failed"] ELSE callback[c]]
  /\ UNCHANGED <<clock, login, session, row, drawn, referenced>>

-----------------------------------------------------------------------------
(* Connections without a login.                                            *)

NeedsNoLogin == ManualProviders \cap served

CreateManual == \E k \in Key :
  /\ k.provider \in NeedsNoLogin
  /\ Upsert([user |-> k.user, provider |-> k.provider, account |-> k.account,
             envelope |-> k, made |-> "manual"])
  /\ UNCHANGED <<served, clock, login, session, callback, referenced>>

\* enqueue_job: a target refers to the connection.
Refer(i) ==
  /\ row[i] # None
  /\ referenced' = referenced \cup {i}
  /\ UNCHANGED <<served, clock, login, session, callback, row, drawn>>

\* ON DELETE RESTRICT
Deletable(i) == row[i] # None /\ i \notin referenced

DeleteConnection(i) ==
  /\ Deletable(i)
  /\ row' = [row EXCEPT ![i] = None]
  /\ UNCHANGED <<served, clock, login, session, callback, drawn, referenced>>

-----------------------------------------------------------------------------
Next ==
  \/ Tick \/ CreateManual \/ Restart
  \/ \E l \in Logins : Start(l)
  \/ \E c \in Callbacks : Arrive(c) \/ Refuse(c) \/ Exchange(c) \/ Connect(c)
                          \/ Redirect(c) \/ Fail(c)
  \/ \E i \in Ids : Refer(i) \/ DeleteConnection(i)

Spec == Init /\ [][Next]_vars

-----------------------------------------------------------------------------
\* Every variable has its type, and no session is good for longer than its lifetime,
\* which start tells the client.
TypeOK ==
  /\ served \in Deployments
  /\ clock \in 0..MaxTime
  /\ login \in [Logins -> {None} \cup Login]
  /\ session \in [Logins -> {None} \cup Session]
  /\ \A l \in Logins : session[l] # None => session[l].expires <= clock + Lifetime
  /\ callback \in [Callbacks -> Callback]
  /\ row \in [Ids -> {None} \cup Row]
  /\ drawn \subseteq Ids /\ referenced \subseteq Ids

Used(c) == callback[c].session # None

\* However many callbacks come back with the same state, one goes on with it,
\* also when that one fails afterwards, and it came within the ten minutes: the
\* row of a session nobody came back for is never removed.
LoginUsedOnce ==
  \A c \in Callbacks : Used(c) =>
    /\ callback[c].at < callback[c].session.expires
    /\ \A d \in Callbacks : Used(d) /\ callback[d].login = callback[c].login => c = d

\* A connection to a provider with logins was last written by a login its user
\* started at that provider, with a code that came back on that provider's route;
\* no other route writes one, and no other's login.
MadeByLogin ==
  \A i \in Ids : row[i] # None /\ row[i].provider \in OAuthProviders =>
    /\ row[i].made \in Logins
    /\ login[row[i].made] = [user |-> row[i].user, provider |-> row[i].provider]
    /\ \E c \in Callbacks : /\ callback[c].login = row[i].made /\ callback[c].code
                            /\ callback[c].path = row[i].provider

\* The worker can open the envelope of every connection: it is sealed for the
\* row it is in (ConnectionRow::aad), whoever wrote it last.
EnvelopeOpens ==
  \A i \in Ids : row[i] # None => row[i].envelope = KeyOf(row[i])

\* What a job refers to by a connection's id stays the account it was: no login
\* or deletion takes it away or gives the id to another user or account.
ReferenceIsFixed ==
  [][\A i \in Ids : row[i] # None =>
       /\ row'[i] # None => KeyOf(row'[i]) = KeyOf(row[i])
       /\ i \in referenced => row'[i] # None]_vars
=============================================================================
