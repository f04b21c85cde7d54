----------------------------- MODULE OAuthProofs -----------------------------
(***************************************************************************)
(* Theorems about OAuthConnections for every set of users, providers,      *)
(* accounts, logins and callbacks, every lifetime and any restarts.        *)
(***************************************************************************)
EXTENDS OAuthConnections, TLAPS

\* An id a row has was drawn for it.
RowsDrawn == \A i \in Ids : row[i] # None => i \in drawn

LEMMA TypesInit == Init => TypeOK
BY OAuthAssumption DEF Init, TypeOK, Callback, Idle, Phase

\* The accounts a provider names are a list of accounts.
LEMMA AccountsType == \A accounts \in SeqOf(Accounts, MaxAccounts) : accounts \in Seq(Accounts)
BY OAuthAssumption DEF SeqOf

\* Only the clock, the logins and their sessions change.
LEMMA TypesStart == ASSUME NEW l \in Logins, TypeOK, Start(l) PROVE TypeOK'
<1>1. UNCHANGED <<served, clock, callback, row, drawn, referenced>>
  BY DEF Start
<1>2. PICK u \in Users, p \in OAuthProviders :
        /\ login' = [login EXCEPT ![l] = [user |-> u, provider |-> p]]
        /\ session' = [session EXCEPT ![l] = [user |-> u, provider |-> p, expires |-> Expiry]]
  BY DEF Start
<1>3. Expiry \in Nat /\ Expiry <= clock + Lifetime
  BY OAuthAssumption DEF Expiry, TypeOK
<1>4. login' \in [Logins -> {None} \cup Login] /\ session' \in [Logins -> {None} \cup Session]
  BY <1>2, <1>3 DEF TypeOK, Login, Session
<1>5. \A q \in Logins : session'[q] # None => session'[q].expires <= clock' + Lifetime
  BY <1>1, <1>2, <1>3 DEF TypeOK
<1>6. QED
  BY <1>1, <1>4, <1>5 DEF TypeOK

LEMMA TypesTick == TypeOK /\ Tick => TypeOK'
<1> SUFFICES ASSUME TypeOK, Tick PROVE TypeOK'
  OBVIOUS
<1>1. \A l \in Logins : session[l] # None => session[l].expires \in Nat
  BY DEF TypeOK, Session
<1>2. clock' \in 0..MaxTime /\ clock' = clock + 1 /\ clock \in Nat
  BY OAuthAssumption DEF TypeOK, Tick
<1>3. \A l \in Logins : session'[l] # None => session'[l].expires <= clock' + Lifetime
  BY <1>1, <1>2, OAuthAssumption DEF TypeOK, Tick
<1>4. QED
  BY <1>2, <1>3 DEF TypeOK, Tick

\* The record of a callback after a change of one field.
LEMMA CallbackType ==
  ASSUME TypeOK, NEW c \in Callbacks
  PROVE  /\ callback[c] \in Callback
         /\ \A phase \in Phase : [callback[c] EXCEPT !.pc = phase] \in Callback
         /\ \A phase \in Phase, accounts \in Seq(Accounts) :
              [callback[c] EXCEPT !.pc = phase, !.accounts = accounts] \in Callback
BY DEF TypeOK, Callback

LEMMA TypesCallback ==
  ASSUME NEW c \in Callbacks, TypeOK, Arrive(c) \/ Refuse(c) \/ Exchange(c) \/ Redirect(c) \/ Fail(c)
  PROVE  TypeOK'
<1>1. UNCHANGED <<served, clock, login, row, drawn, referenced>>
  BY DEF Arrive, Refuse, Exchange, Redirect, Fail
<1>2. CASE Arrive(c)
  <2>1. PICK l \in Logins, path \in Providers, code \in BOOLEAN :
          /\ Valid(l) /\ Consume(l)
          /\ callback' = [callback EXCEPT ![c] =
               [@ EXCEPT !.pc = "consumed", !.login = l, !.path = path, !.code = code,
                         !.at = clock, !.session = session[l]]]
    BY <1>2 DEF Arrive
  <2>2. [callback[c] EXCEPT !.pc = "consumed", !.login = l, !.path = path, !.code = code,
                            !.at = clock, !.session = session[l]] \in Callback
    BY <2>1 DEF TypeOK, Callback, Phase
  <2>3. callback' \in [Callbacks -> Callback]
    BY <2>1, <2>2 DEF TypeOK
  <2>4. session' \in [Logins -> {None} \cup Session]
        /\ \A q \in Logins : session'[q] # None => session'[q] = session[q]
    BY <2>1 DEF TypeOK, Consume
  <2>5. QED
    BY <1>1, <2>3, <2>4 DEF TypeOK
<1>3. CASE Exchange(c)
  <2>1. PICK accounts \in Seq(Accounts) :
          callback' = [callback EXCEPT ![c].pc = "connecting", ![c].accounts = accounts]
    BY <1>3, AccountsType DEF Exchange
  <2>2. callback'[c] = [callback[c] EXCEPT !.pc = "connecting", !.accounts = accounts]
    BY <2>1 DEF TypeOK
  <2>3. callback' \in [Callbacks -> Callback]
    BY <2>1, <2>2, CallbackType DEF TypeOK, Phase
  <2>4. UNCHANGED session
    BY <1>3 DEF Exchange
  <2>5. QED
    BY <1>1, <2>3, <2>4 DEF TypeOK
<1>4. CASE Refuse(c) \/ Redirect(c) \/ Fail(c)
  <2>1. PICK phase \in Phase : callback' = [callback EXCEPT ![c].pc = phase]
    BY <1>4 DEF Refuse, Redirect, Fail, Goto, Phase
  <2>2. callback'[c] = [callback[c] EXCEPT !.pc = phase]
    BY <2>1 DEF TypeOK
  <2>3. callback' \in [Callbacks -> Callback]
    BY <2>1, <2>2, CallbackType DEF TypeOK
  <2>4. UNCHANGED session
    BY <1>4 DEF Refuse, Redirect, Fail
  <2>5. QED
    BY <1>1, <2>3, <2>4 DEF TypeOK
<1>5. QED
  BY <1>2, <1>3, <1>4

\* An upsert writes one row: a new one, or the one of the same key.
LEMMA UpsertOne ==
  ASSUME TypeOK, RowsDrawn, NEW new \in Row, Upsert(new)
  PROVE  \E i \in Ids :
           /\ row' = [row EXCEPT ![i] = new] /\ drawn' = drawn \cup {i}
           /\ (row[i] # None /\ KeyOf(row[i]) = KeyOf(new)) \/ i \notin drawn
<1>1. CASE Conflicting(KeyOf(new)) # {}
  <2>1. PICK i \in Conflicting(KeyOf(new)) : row' = [row EXCEPT ![i] = new]
    BY <1>1 DEF Upsert
  <2>2. drawn' = drawn
    BY <1>1 DEF Upsert
  <2>3. i \in Ids /\ row[i] # None /\ KeyOf(row[i]) = KeyOf(new)
    BY DEF Conflicting
  <2>4. QED
    BY <2>1, <2>2, <2>3 DEF RowsDrawn
<1>2. CASE Conflicting(KeyOf(new)) = {}
  <2>1. PICK i \in Ids \ drawn : row' = [row EXCEPT ![i] = new] /\ drawn' = drawn \cup {i}
    BY <1>2 DEF Upsert
  <2>2. QED
    BY <2>1
<1>3. QED
  BY <1>1, <1>2

-----------------------------------------------------------------------------
(* The inductive invariant: what a session, a callback that used one, and   *)
(* a row go back to.                                                        *)

\* A session is the one its login was started with.
SessionsStarted ==
  \A l \in Logins : session[l] # None =>
    login[l] = [user |-> session[l].user, provider |-> session[l].provider]

\* What a callback that used a session goes on with.
UseOf(c) ==
  /\ callback[c].login \in Logins
  /\ session[callback[c].login] = None
  /\ login[callback[c].login] =
       [user |-> callback[c].session.user, provider |-> callback[c].session.provider]
  /\ callback[c].at < callback[c].session.expires

SameUse(c, d) == Used(c) /\ Used(d) /\ callback[d].login = callback[c].login => c = d

\* A callback that goes on used a session; one that exchanged its code had one,
\* on the route of the session's provider.
Progress(c) ==
  /\ callback[c].pc \in {"consumed", "connecting", "done"} => Used(c)
  /\ callback[c].pc \in {"connecting", "done"} =>
       callback[c].code /\ callback[c].path = callback[c].session.provider

UsesInv ==
  /\ SessionsStarted
  /\ \A c \in Callbacks : Used(c) => UseOf(c)
  /\ \A c, d \in Callbacks : SameUse(c, d)
  /\ \A c \in Callbacks : Progress(c)

OAuthInv == TypeOK /\ UsesInv /\ RowsDrawn /\ EnvelopeOpens /\ MadeByLogin

\* What is written for the next account is a row of the login's user, sealed for it.
NewRow(c) == [user |-> callback[c].session.user, provider |-> callback[c].session.provider,
              account |-> Head(callback[c].accounts), envelope |-> Sealed(c),
              made |-> callback[c].login]

LEMMA NewRowType ==
  ASSUME TypeOK, UsesInv, NEW c \in Callbacks,
         callback[c].pc = "connecting", callback[c].accounts # <<>>
  PROVE  /\ NewRow(c) \in Row /\ NewRow(c).envelope = KeyOf(NewRow(c))
         /\ NewRow(c).made \in Logins
         /\ login[NewRow(c).made] = [user |-> NewRow(c).user, provider |-> NewRow(c).provider]
         /\ callback[c].login = NewRow(c).made /\ callback[c].code
         /\ callback[c].path = NewRow(c).provider
<1>1. Used(c) /\ UseOf(c) /\ callback[c].code /\ callback[c].path = callback[c].session.provider
  BY DEF UsesInv, Progress
<1>2. callback[c].session \in Session /\ callback[c].accounts \in Seq(Accounts)
  BY <1>1 DEF TypeOK, Callback, Used
<1>3. Head(callback[c].accounts) \in Accounts
  BY <1>2
<1>4. callback[c].session.user \in Users /\ callback[c].session.provider \in Providers
  BY <1>2 DEF Session, Providers
<1>5. Sealed(c) \in Key
  BY <1>3, <1>4 DEF Sealed, Key
<1>6. QED
  BY <1>1, <1>3, <1>4, <1>5 DEF NewRow, Row, Sealed, KeyOf, UseOf

\* The row a manual connection writes.
Manual(k) == [user |-> k.user, provider |-> k.provider, account |-> k.account,
              envelope |-> k, made |-> "manual"]

LEMMA ManualRow ==
  ASSUME NEW k \in Key, k.provider \in NeedsNoLogin
  PROVE  Manual(k) \in Row /\ Manual(k).envelope = KeyOf(Manual(k))
         /\ Manual(k).provider \notin OAuthProviders
BY OAuthAssumption DEF Manual, Key, Row, KeyOf, NeedsNoLogin

-----------------------------------------------------------------------------
(* Types.                                                                  *)

LEMMA TypesUpsert ==
  ASSUME TypeOK, RowsDrawn, NEW new \in Row, Upsert(new)
  PROVE  /\ row' \in [Ids -> {None} \cup Row] /\ drawn' \subseteq Ids /\ RowsDrawn'
<1>1. PICK i \in Ids : row' = [row EXCEPT ![i] = new] /\ drawn' = drawn \cup {i}
  BY UpsertOne
<1>2. QED
  BY <1>1 DEF TypeOK, RowsDrawn

LEMMA TypesConnect ==
  ASSUME OAuthInv, NEW c \in Callbacks, Connect(c) PROVE TypeOK' /\ RowsDrawn'
<1>1. callback[c].pc = "connecting" /\ callback[c].accounts # <<>> /\ Upsert(NewRow(c))
  BY DEF Connect, NewRow
<1>2. NewRow(c) \in Row
  BY <1>1, NewRowType DEF OAuthInv
<1>3. row' \in [Ids -> {None} \cup Row] /\ drawn' \subseteq Ids /\ RowsDrawn'
  BY <1>1, <1>2, TypesUpsert DEF OAuthInv
<1>4. callback' = [callback EXCEPT ![c].accounts = Tail(@)]
      /\ UNCHANGED <<served, clock, login, session, referenced>>
  BY DEF Connect
<1>5. [callback[c] EXCEPT !.accounts = Tail(@)] \in Callback
  <2>1. callback[c] \in Callback
    BY DEF OAuthInv, TypeOK
  <2>2. Tail(callback[c].accounts) \in Seq(Accounts)
    BY <1>1, <2>1 DEF Callback
  <2>3. QED
    BY <2>1, <2>2 DEF Callback
<1>6. callback' \in [Callbacks -> Callback]
  BY <1>4, <1>5 DEF OAuthInv, TypeOK
<1>7. QED
  BY <1>3, <1>4, <1>6 DEF OAuthInv, TypeOK

LEMMA TypesManual ==
  ASSUME OAuthInv, CreateManual PROVE TypeOK' /\ RowsDrawn'
<1>1. PICK k \in Key : k.provider \in NeedsNoLogin /\ Upsert(Manual(k))
  BY DEF CreateManual, Manual
<1>2. row' \in [Ids -> {None} \cup Row] /\ drawn' \subseteq Ids /\ RowsDrawn'
  BY <1>1, ManualRow, TypesUpsert DEF OAuthInv
<1>3. UNCHANGED <<served, clock, login, session, callback, referenced>>
  BY DEF CreateManual
<1>4. QED
  BY <1>2, <1>3 DEF OAuthInv, TypeOK

LEMMA TypesRestart == ASSUME TypeOK, Restart PROVE TypeOK'
<1>1. served' \in Deployments /\ UNCHANGED <<clock, login, session, row, drawn, referenced>>
  BY DEF Restart
<1>2. \A c \in Callbacks : [callback[c] EXCEPT !.pc = "failed"] \in Callback
  BY CallbackType DEF Phase
<1>3. callback' \in [Callbacks -> Callback]
  BY <1>2 DEF Restart, TypeOK
<1>4. QED
  BY <1>1, <1>3 DEF TypeOK

LEMMA TypesRows ==
  ASSUME TypeOK, NEW i \in Ids, Refer(i) \/ DeleteConnection(i) PROVE TypeOK'
<1>1. UNCHANGED <<served, clock, login, session, callback, drawn>>
  BY DEF Refer, DeleteConnection
<1>2. row' \in [Ids -> {None} \cup Row] /\ referenced' \subseteq Ids
  BY DEF Refer, DeleteConnection, TypeOK
<1>3. QED
  BY <1>1, <1>2 DEF TypeOK

LEMMA TypesNext == OAuthInv /\ [Next]_vars => TypeOK' /\ RowsDrawn'
<1> SUFFICES ASSUME OAuthInv, [Next]_vars PROVE TypeOK' /\ RowsDrawn'
  OBVIOUS
<1> USE DEF OAuthInv
<1>1. CASE Tick
  <2>1. TypeOK'
    BY <1>1, TypesTick
  <2>2. QED
    BY <1>1, <2>1 DEF Tick, RowsDrawn
<1>2. CASE CreateManual
  BY <1>2, TypesManual
<1>3. CASE Restart
  <2>1. TypeOK'
    BY <1>3, TypesRestart
  <2>2. QED
    BY <1>3, <2>1 DEF Restart, RowsDrawn
<1>4. ASSUME NEW l \in Logins, Start(l) PROVE TypeOK' /\ RowsDrawn'
  <2>1. TypeOK'
    BY <1>4, TypesStart
  <2>2. QED
    BY <1>4, <2>1 DEF Start, RowsDrawn
<1>5. ASSUME NEW c \in Callbacks, Arrive(c) \/ Refuse(c) \/ Exchange(c) \/ Redirect(c) \/ Fail(c)
      PROVE  TypeOK' /\ RowsDrawn'
  <2>1. TypeOK'
    BY <1>5, TypesCallback
  <2>2. UNCHANGED <<row, drawn>>
    BY <1>5 DEF Arrive, Refuse, Exchange, Redirect, Fail
  <2>3. QED
    BY <2>1, <2>2 DEF RowsDrawn
<1>6. ASSUME NEW c \in Callbacks, Connect(c) PROVE TypeOK' /\ RowsDrawn'
  BY <1>6, TypesConnect
<1>7. ASSUME NEW i \in Ids, Refer(i) \/ DeleteConnection(i) PROVE TypeOK' /\ RowsDrawn'
  <2>1. TypeOK'
    BY <1>7, TypesRows
  <2>2. QED
    BY <1>7, <2>1 DEF Refer, DeleteConnection, RowsDrawn, TypeOK
<1>8. CASE UNCHANGED vars
  BY <1>8 DEF vars, TypeOK, RowsDrawn
<1>9. QED
  BY <1>1, <1>2, <1>3, <1>4, <1>5, <1>6, <1>7, <1>8 DEF Next

-----------------------------------------------------------------------------
(* What a step does to the callbacks.                                      *)

\* A callback keeps what it arrived with.
SameArrival(d) ==
  /\ callback'[d].login = callback[d].login /\ callback'[d].session = callback[d].session
  /\ callback'[d].at = callback[d].at /\ callback'[d].code = callback[d].code
  /\ callback'[d].path = callback[d].path

\* It goes on only from where it was, and exchanges only what is exchangeable.
OnlyForward(d) ==
  /\ callback'[d].pc \in {"consumed", "connecting", "done"} =>
       callback[d].pc \in {"consumed", "connecting", "done"}
  /\ callback'[d].pc \in {"connecting", "done"} =>
       callback[d].pc \in {"connecting", "done"} \/ Exchangeable(d)

\* Every step but an arrival.
Quiet ==
  \/ Tick \/ CreateManual \/ Restart \/ UNCHANGED vars
  \/ \E l \in Logins : Start(l)
  \/ \E c \in Callbacks : Refuse(c) \/ Exchange(c) \/ Connect(c) \/ Redirect(c) \/ Fail(c)
  \/ \E i \in Ids : Refer(i) \/ DeleteConnection(i)

LEMMA QuietCallbacks ==
  ASSUME TypeOK, Quiet, NEW d \in Callbacks PROVE SameArrival(d) /\ OnlyForward(d)
<1> USE DEF SameArrival, OnlyForward
<1>1. callback \in [Callbacks -> Callback] /\ callback[d] \in Callback
  BY DEF TypeOK
<1>2. CASE Tick \/ CreateManual \/ UNCHANGED vars
           \/ (\E l \in Logins : Start(l)) \/ \E i \in Ids : Refer(i) \/ DeleteConnection(i)
  <2>1. callback' = callback
    BY <1>2 DEF Tick, CreateManual, vars, Start, Refer, DeleteConnection
  <2>2. QED
    BY <2>1
<1>3. CASE Restart
  BY <1>1, <1>3 DEF Restart, Callback
<1>4. ASSUME NEW c \in Callbacks, Refuse(c) \/ Redirect(c) \/ Fail(c)
      PROVE  SameArrival(d) /\ OnlyForward(d)
  <2>1. \/ callback' = [callback EXCEPT ![c].pc = "failed"]
        \/ callback[c].pc = "connecting" /\ callback' = [callback EXCEPT ![c].pc = "done"]
    BY <1>4 DEF Refuse, Redirect, Fail, Goto
  <2>2. CASE callback' = [callback EXCEPT ![c].pc = "failed"]
    BY <1>1, <2>2 DEF Callback
  <2>3. CASE callback[c].pc = "connecting" /\ callback' = [callback EXCEPT ![c].pc = "done"]
    BY <1>1, <2>3 DEF Callback
  <2>4. QED
    BY <2>1, <2>2, <2>3
<1>5. ASSUME NEW c \in Callbacks, Exchange(c) PROVE SameArrival(d) /\ OnlyForward(d)
  <2>1. PICK accounts : /\ callback[c].pc = "consumed" /\ Exchangeable(c)
          /\ callback' = [callback EXCEPT ![c].pc = "connecting", ![c].accounts = accounts]
    BY <1>5 DEF Exchange
  <2>2. QED
    BY <1>1, <2>1 DEF Callback
<1>6. ASSUME NEW c \in Callbacks, Connect(c) PROVE SameArrival(d) /\ OnlyForward(d)
  <2>1. callback' = [callback EXCEPT ![c].accounts = Tail(@)]
    BY <1>6 DEF Connect
  <2>2. QED
    BY <1>1, <2>1 DEF Callback
<1>7. QED
  BY <1>2, <1>3, <1>4, <1>5, <1>6 DEF Quiet

\* A started login stays as it was started.
LEMMA LoginsStay ==
  ASSUME TypeOK, [Next]_vars, NEW l \in Logins, login[l] # None PROVE login'[l] = login[l]
BY DEF Next, vars, Tick, CreateManual, Restart, Start, Arrive, Refuse, Exchange, Connect,
       Redirect, Fail, Refer, DeleteConnection, TypeOK

\* Without an arrival, sessions change by a login's start only.
LEMMA QuietSessions ==
  ASSUME TypeOK, Quiet
  PROVE  \/ session' = session /\ login' = login
         \/ \E l \in Logins, u \in Users, p \in OAuthProviders :
              /\ login[l] = None
              /\ login'   = [login EXCEPT ![l] = [user |-> u, provider |-> p]]
              /\ session' = [session EXCEPT ![l] =
                               [user |-> u, provider |-> p, expires |-> Expiry]]
BY DEF Quiet, vars, Tick, CreateManual, Restart, Start, Refuse, Exchange, Connect,
       Redirect, Fail, Refer, DeleteConnection

\* What a login record is, None is not.
LEMMA LoginIsSome ==
  ASSUME NEW u \in Users, NEW p \in OAuthProviders
  PROVE  [user |-> u, provider |-> p] # None
BY NoneAssumption DEF Login

LEMMA UsesQuiet == ASSUME OAuthInv, Quiet, [Next]_vars PROVE UsesInv'
<1> USE DEF OAuthInv
<1>1. \A d \in Callbacks : SameArrival(d) /\ OnlyForward(d)
  BY QuietCallbacks
<1>2. \A l \in Logins : login[l] = None => session[l] = None
  <2>1. SUFFICES ASSUME NEW l \in Logins, session[l] # None PROVE login[l] # None
    OBVIOUS
  <2>2. session[l] \in Session
    BY <2>1 DEF TypeOK
  <2>3. QED
    BY <2>1, <2>2, LoginIsSome DEF UsesInv, SessionsStarted, Session
<1>3. SessionsStarted'
  BY QuietSessions DEF UsesInv, SessionsStarted, TypeOK
<1>4. ASSUME NEW c \in Callbacks, Used(c)' PROVE UseOf(c)'
  <2>1. Used(c) /\ UseOf(c)
    BY <1>1, <1>4 DEF Used, SameArrival, UsesInv
  <2>2. callback[c].session \in Session
    BY <2>1 DEF Used, TypeOK, Callback
  <2>3. login[callback[c].login] # None
    BY <2>1, <2>2, LoginIsSome DEF UseOf, Session
  <2>4. /\ login'[callback[c].login] = login[callback[c].login]
        /\ session'[callback[c].login] = None
    BY <2>1, <2>3, QuietSessions DEF UseOf, TypeOK
  <2>5. QED
    BY <1>1, <2>1, <2>4 DEF UseOf, SameArrival
<1>5. ASSUME NEW c \in Callbacks, NEW d \in Callbacks PROVE SameUse(c, d)'
  BY <1>1 DEF SameUse, SameArrival, Used, UsesInv
<1>6. ASSUME NEW c \in Callbacks PROVE Progress(c)'
  BY <1>1 DEF Progress, SameArrival, OnlyForward, Used, UsesInv, Exchangeable
<1>7. QED
  BY <1>3, <1>4, <1>5, <1>6 DEF UsesInv

LEMMA UsesArrive ==
  ASSUME OAuthInv, NEW c \in Callbacks, Arrive(c) PROVE UsesInv'
<1> USE DEF OAuthInv
<1>1. PICK l \in Logins, path \in Providers, code \in BOOLEAN :
        /\ callback[c] = Idle /\ Valid(l) /\ Consume(l) /\ login' = login
        /\ callback' = [callback EXCEPT ![c] =
             [@ EXCEPT !.pc = "consumed", !.login = l, !.path = path, !.code = code,
                       !.at = clock, !.session = session[l]]]
  BY DEF Arrive
<1>2. /\ callback'[c].pc = "consumed" /\ callback'[c].login = l
      /\ callback'[c].at = clock /\ callback'[c].session = session[l]
      /\ \A d \in Callbacks \ {c} : callback'[d] = callback[d]
  BY <1>1 DEF TypeOK, Callback, Idle
<1>3. session' = [session EXCEPT ![l] = None] /\ session[l] # None /\ session[l].expires > clock
  BY <1>1 DEF Consume, Valid
<1>4. ~Used(c)
  BY <1>1 DEF Used, Idle
<1>5. \A d \in Callbacks : Used(d) => callback[d].login # l
  BY <1>3 DEF UsesInv, UseOf
<1>6. SessionsStarted'
  BY <1>1, <1>3 DEF UsesInv, SessionsStarted, TypeOK
<1>7. ASSUME NEW d \in Callbacks, Used(d)' PROVE UseOf(d)'
  <2>1. CASE d = c
    <3>1. clock < session[l].expires
      <4>1. session[l].expires \in Nat /\ clock \in Nat
        BY <1>3, OAuthAssumption DEF TypeOK, Session
      <4>2. QED
        BY <1>3, <4>1
    <3>2. session'[l] = None
      BY <1>3 DEF TypeOK
    <3>3. login'[l] = [user |-> session[l].user, provider |-> session[l].provider]
      BY <1>1, <1>3 DEF UsesInv, SessionsStarted
    <3>4. QED
      BY <1>2, <2>1, <3>1, <3>2, <3>3 DEF UseOf
  <2>2. CASE d # c
    <3>1. callback'[d] = callback[d] /\ Used(d) /\ UseOf(d)
      BY <1>2, <1>7, <2>2 DEF Used, UsesInv
    <3>2. session'[callback[d].login] = None
      BY <1>3, <3>1 DEF UseOf, TypeOK
    <3>3. QED
      BY <1>1, <3>1, <3>2 DEF UseOf
  <2>3. QED
    BY <2>1, <2>2
<1>8. ASSUME NEW d \in Callbacks, NEW e \in Callbacks PROVE SameUse(d, e)'
  BY <1>2, <1>4, <1>5 DEF SameUse, Used, UsesInv
<1>9. ASSUME NEW d \in Callbacks PROVE Progress(d)'
  <2>1. CASE d = c
    BY <1>2, <1>3, <2>1 DEF Progress, Used
  <2>2. CASE d # c
    BY <1>2, <2>2 DEF Progress, Used, UsesInv
  <2>3. QED
    BY <2>1, <2>2
<1>10. QED
  BY <1>6, <1>7, <1>8, <1>9 DEF UsesInv

-----------------------------------------------------------------------------
(* The rows.                                                               *)

\* What a row says of its login stays true.
WrittenBy(i) ==
  row[i] # None /\ row[i].provider \in OAuthProviders =>
    /\ row[i].made \in Logins
    /\ login[row[i].made] = [user |-> row[i].user, provider |-> row[i].provider]
    /\ \E c \in Callbacks : /\ callback[c].login = row[i].made /\ callback[c].code
                            /\ callback[c].path = row[i].provider

LEMMA WrittenStays ==
  ASSUME OAuthInv, [Next]_vars, NEW i \in Ids, row'[i] = row[i] PROVE WrittenBy(i)'
<1> USE DEF OAuthInv
<1>1. SUFFICES ASSUME row[i] # None, row[i].provider \in OAuthProviders
              PROVE  /\ row[i].made \in Logins
                     /\ login'[row[i].made] = [user |-> row[i].user, provider |-> row[i].provider]
                     /\ \E c \in Callbacks : /\ callback'[c].login = row[i].made
                                             /\ callback'[c].code
                                             /\ callback'[c].path = row[i].provider
  BY DEF WrittenBy
<1>2. PICK c \in Callbacks : /\ callback[c].login = row[i].made /\ callback[c].code
                             /\ callback[c].path = row[i].provider
  BY <1>1 DEF MadeByLogin
<1>3. /\ row[i].made \in Logins
      /\ login[row[i].made] = [user |-> row[i].user, provider |-> row[i].provider]
  BY <1>1 DEF MadeByLogin
<1>4. login'[row[i].made] = login[row[i].made]
  <2>1. row[i].user \in Users
    BY <1>1 DEF TypeOK, Row
  <2>2. login[row[i].made] # None
    BY <1>1, <1>3, <2>1, LoginIsSome
  <2>3. QED
    BY <1>3, <2>2, LoginsStay
<1>5. /\ callback'[c].login = callback[c].login /\ callback'[c].code = callback[c].code
      /\ callback'[c].path = callback[c].path
  <2>1. CASE Quiet
    BY <2>1, QuietCallbacks DEF SameArrival
  <2>2. CASE \E d \in Callbacks : Arrive(d)
    <3>1. PICK d \in Callbacks : Arrive(d)
      BY <2>2
    <3>2. callback[d] = Idle
      BY <3>1 DEF Arrive
    <3>3. c # d
      BY <1>2, <3>2 DEF Idle
    <3>4. callback'[c] = callback[c]
      BY <3>1, <3>3 DEF Arrive, TypeOK
    <3>5. QED
      BY <3>4
  <2>3. QED
    BY <2>1, <2>2 DEF Next, Quiet
<1>6. QED
  BY <1>2, <1>3, <1>4, <1>5

\* A step leaves a row, deletes it, or puts a whole new one of its key there.
RowStep(i) ==
  \/ row'[i] = row[i]
  \/ row'[i] = None /\ i \notin referenced
  \/ /\ row[i] # None => KeyOf(row'[i]) = KeyOf(row[i])
     /\ row'[i] \in Row
     /\ row'[i].envelope = KeyOf(row'[i])
     /\ WrittenBy(i)'

LEMMA RowUpsert ==
  ASSUME OAuthInv, NEW new \in Row, Upsert(new), new.envelope = KeyOf(new), NEW j \in Ids,
         row'[j] = new => WrittenBy(j)'
  PROVE  RowStep(j)
<1> USE DEF OAuthInv
<1>1. PICK i \in Ids :
        /\ row' = [row EXCEPT ![i] = new]
        /\ (row[i] # None /\ KeyOf(row[i]) = KeyOf(new)) \/ i \notin drawn
  BY UpsertOne
<1>2. CASE j = i
  <2>1. row'[j] = new
    BY <1>1, <1>2 DEF TypeOK
  <2>2. row[i] # None => KeyOf(row[i]) = KeyOf(new)
    BY <1>1 DEF RowsDrawn
  <2>3. QED
    BY <1>2, <2>1, <2>2 DEF RowStep
<1>3. CASE j # i
  BY <1>1, <1>3 DEF RowStep, TypeOK
<1>4. QED
  BY <1>2, <1>3

LEMMA RowConnect ==
  ASSUME OAuthInv, NEW c \in Callbacks, Connect(c), NEW j \in Ids PROVE RowStep(j)
<1> USE DEF OAuthInv
<1>1. /\ callback[c].pc = "connecting" /\ callback[c].accounts # <<>>
      /\ Upsert(NewRow(c)) /\ login' = login
  BY DEF Connect, NewRow
<1>2. /\ NewRow(c) \in Row /\ NewRow(c).envelope = KeyOf(NewRow(c))
      /\ NewRow(c).made \in Logins
      /\ login[NewRow(c).made] = [user |-> NewRow(c).user, provider |-> NewRow(c).provider]
      /\ callback[c].login = NewRow(c).made /\ callback[c].code
      /\ callback[c].path = NewRow(c).provider
  BY <1>1, NewRowType
<1>3. SameArrival(c)
  <2>1. Quiet
    BY DEF Quiet
  <2>2. QED
    BY <2>1, QuietCallbacks
<1>4. ASSUME row'[j] = NewRow(c) PROVE WrittenBy(j)'
  BY <1>1, <1>2, <1>3, <1>4 DEF WrittenBy, SameArrival
<1>5. QED
  BY <1>1, <1>2, <1>4, RowUpsert

LEMMA RowManual ==
  ASSUME OAuthInv, CreateManual, NEW j \in Ids PROVE RowStep(j)
<1> USE DEF OAuthInv
<1>1. PICK k \in Key : k.provider \in NeedsNoLogin /\ Upsert(Manual(k))
  BY DEF CreateManual, Manual
<1>2. Manual(k) \in Row /\ Manual(k).envelope = KeyOf(Manual(k))
      /\ Manual(k).provider \notin OAuthProviders
  BY <1>1, ManualRow
<1>3. row'[j] = Manual(k) => WrittenBy(j)'
  BY <1>2 DEF WrittenBy
<1>4. QED
  BY <1>1, <1>2, <1>3, RowUpsert

LEMMA RowSteps ==
  ASSUME OAuthInv, [Next]_vars, NEW j \in Ids PROVE RowStep(j)
<1>1. CASE CreateManual
  BY <1>1, RowManual
<1>2. ASSUME NEW c \in Callbacks, Connect(c) PROVE RowStep(j)
  BY <1>2, RowConnect
<1>3. ASSUME NEW i \in Ids, DeleteConnection(i) PROVE RowStep(j)
  BY <1>3 DEF DeleteConnection, Deletable, RowStep, OAuthInv, TypeOK
<1>4. CASE \/ Tick \/ Restart \/ UNCHANGED vars
           \/ \E l \in Logins : Start(l)
           \/ \E c \in Callbacks : Arrive(c) \/ Refuse(c) \/ Exchange(c) \/ Redirect(c) \/ Fail(c)
           \/ \E i \in Ids : Refer(i)
  BY <1>4 DEF Tick, Restart, vars, Start, Arrive, Refuse, Exchange, Redirect, Fail, Refer, RowStep
<1>5. QED
  BY <1>1, <1>2, <1>3, <1>4 DEF Next

LEMMA RowsNext == OAuthInv /\ [Next]_vars => EnvelopeOpens' /\ MadeByLogin'
<1> SUFFICES ASSUME OAuthInv, [Next]_vars PROVE EnvelopeOpens' /\ MadeByLogin'
  OBVIOUS
<1>1. ASSUME NEW i \in Ids, row'[i] # None
      PROVE  row'[i].envelope = KeyOf(row'[i]) /\ WrittenBy(i)'
  <2>1. RowStep(i)
    BY RowSteps
  <2>2. CASE row'[i] = row[i]
    BY <1>1, <2>2, WrittenStays DEF OAuthInv, EnvelopeOpens
  <2>3. CASE row'[i] # row[i]
    BY <1>1, <2>1, <2>3 DEF RowStep
  <2>4. QED
    BY <2>2, <2>3
<1>2. EnvelopeOpens'
  BY <1>1 DEF EnvelopeOpens, KeyOf
<1>3. MadeByLogin'
  BY <1>1 DEF MadeByLogin, WrittenBy
<1>4. QED
  BY <1>2, <1>3

-----------------------------------------------------------------------------
(* The theorems.                                                           *)

LEMMA InvInit == Init => OAuthInv
<1>1. Init => UsesInv
  BY DEF Init, UsesInv, SessionsStarted, Used, SameUse, Progress, Idle
<1>2. Init => RowsDrawn /\ EnvelopeOpens /\ MadeByLogin
  BY DEF Init, RowsDrawn, EnvelopeOpens, MadeByLogin
<1>3. QED
  BY <1>1, <1>2, TypesInit DEF OAuthInv

LEMMA InvNext == OAuthInv /\ [Next]_vars => OAuthInv'
<1> SUFFICES ASSUME OAuthInv, [Next]_vars PROVE OAuthInv'
  OBVIOUS
<1>1. TypeOK' /\ RowsDrawn'
  BY TypesNext
<1>2. UsesInv'
  <2>1. CASE Quiet
    BY <2>1, UsesQuiet
  <2>2. CASE \E c \in Callbacks : Arrive(c)
    BY <2>2, UsesArrive
  <2>3. QED
    BY <2>1, <2>2 DEF Next, Quiet
<1>3. EnvelopeOpens' /\ MadeByLogin'
  BY RowsNext
<1>4. QED
  BY <1>1, <1>2, <1>3 DEF OAuthInv

LEMMA InvAlways == Spec => []OAuthInv
<1>1. QED
  BY InvInit, InvNext, PTL DEF Spec

\* Types: every variable stays within its type, and no session is good for
\* longer than its lifetime.
THEOREM OAuthTypes == Spec => []TypeOK
<1>1. OAuthInv => TypeOK
  BY DEF OAuthInv
<1>2. QED
  BY InvAlways, <1>1, PTL

\* One login, one connection flow: of all the callbacks that bring a login's
\* state back at most one goes on with it, and it came in time.
THEOREM LoginOnce == Spec => []LoginUsedOnce
<1>1. OAuthInv => LoginUsedOnce
  BY DEF OAuthInv, UsesInv, UseOf, SameUse, LoginUsedOnce
<1>2. QED
  BY InvAlways, <1>1, PTL

\* A connection to a provider with logins belongs to a login of its user at it.
THEOREM ConnectionsMadeByLogin == Spec => []MadeByLogin
<1>1. OAuthInv => MadeByLogin
  BY DEF OAuthInv
<1>2. QED
  BY InvAlways, <1>1, PTL

\* Every stored envelope is sealed for the row it is in.
THEOREM EnvelopesOpen == Spec => []EnvelopeOpens
<1>1. OAuthInv => EnvelopeOpens
  BY DEF OAuthInv
<1>2. QED
  BY InvAlways, <1>1, PTL

\* The connection a job refers to neither goes nor changes hands.
THEOREM ReferencesFixed == Spec => ReferenceIsFixed
<1>1. ASSUME OAuthInv, [Next]_vars, NEW i \in Ids, row[i] # None
      PROVE  /\ row'[i] # None => KeyOf(row'[i]) = KeyOf(row[i])
             /\ i \in referenced => row'[i] # None
  <2>1. RowStep(i)
    BY <1>1, RowSteps
  <2>2. QED
    BY <1>1, <2>1, NoneAssumption DEF RowStep
<1>2. OAuthInv /\ [Next]_vars =>
        [\A i \in Ids : row[i] # None =>
           /\ row'[i] # None => KeyOf(row'[i]) = KeyOf(row[i])
           /\ i \in referenced => row'[i] # None]_vars
  BY <1>1
<1>3. QED
  BY InvAlways, <1>2, PTL DEF Spec, ReferenceIsFixed

=============================================================================
