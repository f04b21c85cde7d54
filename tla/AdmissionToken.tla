--------------------------- MODULE AdmissionToken ---------------------------
(***************************************************************************)
(* Admission tokens at the door (admission.rs). A signer, bound to one key *)
(* and one issuance epoch, signs a ticket's token. A scanner without a     *)
(* network verifies it against the last snapshot of keys and revocations   *)
(* it was given, which may be old: verify_admission_token is a function of *)
(* token, snapshot, event and time, so what a scanner lets in is a         *)
(* predicate on the state here. Who makes the snapshots is not part of the *)
(* repository: one lists any of the registered keys and every revocation   *)
(* of its event recorded so far. A signature names the key that made it.   *)
(***************************************************************************)
EXTENDS Integers, FiniteSets

CONSTANTS
  Tokens,          \* token ids
  Tickets,         \* [ticket |-> its event]
  Signers,         \* descriptors that signers are created with
  Keys,            \* descriptors registered, which snapshots may list
  Scanners,
  MaxLifetime,     \* a signer's max_lifetime
  MaxTime,         \* bound of the clock
  MaxRevocations,  \* bound of the revocations recorded
  None

ASSUME AdmissionTokenAssumption ==
  /\ MaxLifetime \in Nat \ {0} /\ MaxTime \in Nat /\ MaxRevocations \in Nat
  /\ \A d \in Signers \cup Keys :
       {d.epoch, d.activeFrom, d.retireAt} \subseteq Int
  /\ \A d, e \in Keys : d.keyId = e.keyId => d = e  \* register_signing_key

VARIABLES
  clock,
  token,      \* [Tokens -> claims and the key that signed them], or None
  snapshot,   \* [Scanners -> the snapshot held], or None
  revocation  \* revocations recorded, with the time of recording

vars == <<clock, token, snapshot, revocation>>

Times  == 0..(MaxTime + 1)
Epochs == {d.epoch : d \in Signers}

Claims == {[ticket |-> t, event |-> Tickets[t], epoch |-> n, keyId |-> k,
            issuedAt |-> from, expiresAt |-> to] :
             t \in DOMAIN Tickets, n \in Epochs, k \in {d.keyId : d \in Signers},
             from \in 0..MaxTime, to \in 1..(MaxTime + 1)}

Init ==
  /\ clock = 0
  /\ token    = [k \in Tokens |-> None]
  /\ snapshot = [s \in Scanners |-> None]
  /\ revocation = {}

Tick == clock < MaxTime /\ clock' = clock + 1 /\ UNCHANGED <<token, snapshot, revocation>>

-----------------------------------------------------------------------------
(* Signing.                                                                *)

ValidDescriptor(d) == d.epoch >= 0 /\ d.retireAt > d.activeFrom

Identified(d, x) == x.keyId = d.keyId /\ x.epoch = d.epoch

InWindow(d, x) == x.issuedAt >= d.activeFrom /\ x.expiresAt <= d.retireAt

\* Mutant: the window of the key is enough.
AnyLifetime(x) == TRUE

ShortLived(x) == x.expiresAt - x.issuedAt <= MaxLifetime

\* A signer is only created for a valid descriptor, and signs what fits it.
Sign(k) == \E d \in Signers, x \in Claims :
  /\ token[k] = None
  /\ ValidDescriptor(d)
  /\ x.issuedAt < x.expiresAt  \* validate_shape
  /\ Identified(d, x) /\ InWindow(d, x) /\ ShortLived(x)
  /\ token' = [token EXCEPT ![k] = [claims |-> x, by |-> d.publicKey]]
  /\ UNCHANGED <<clock, snapshot, revocation>>

-----------------------------------------------------------------------------
(* Verifying.                                                              *)

Fresh(shot, now) == now >= shot.generatedAt /\ now < shot.validUntil

\* Mutant: good through the moment of its expiry.
TimelyThrough(x, now) == x.issuedAt <= now /\ now <= x.expiresAt

Timely(x, now) == x.issuedAt <= now /\ now < x.expiresAt

\* Mutant: the snapshot need not last as long as the token.
Unlimited(x, shot) == TRUE

Outlasts(x, shot) == x.expiresAt <= shot.validUntil

\* Mutant: a revocation is for every epoch of the ticket.
RevokedForGood(shot, x, now) ==
  \E v \in shot.revocations : v.ticket = x.ticket /\ v.revokedAt <= now

\* Mutant: a revocation is for the tokens of its own epoch.
RevokedOfEpoch(shot, x, now) ==
  \E v \in shot.revocations : v.ticket = x.ticket /\ v.epoch = x.epoch /\ v.revokedAt <= now

Revoked(shot, x, now) ==
  \E v \in shot.revocations : v.ticket = x.ticket /\ v.epoch >= x.epoch /\ v.revokedAt <= now

\* What is found out about a token, in the order the code looks.
Verdict(tok, shot, event, now) ==
  LET x == tok.claims
      known == {d \in shot.keys : Identified(d, x)}
      key   == CHOOSE d \in known : TRUE
  IN CASE shot.event # event                  -> "WrongEvent"
       [] ~Fresh(shot, now)                   -> "StaleSnapshot"
       [] x.event # event                     -> "WrongEvent"
       [] ~Timely(x, now)                     -> "Expired"
       [] ~Outlasts(x, shot)                  -> "Policy"
       [] known = {}                          -> "UnknownKey"
       [] ~ValidDescriptor(key)               -> "Policy"
       [] ~InWindow(key, x)                   -> "RetiredKey"
       [] tok.by # key.publicKey              -> "InvalidSignature"
       [] Revoked(shot, x, now)               -> "Revoked"
       [] OTHER                               -> "Ok"

-----------------------------------------------------------------------------
(* Snapshots and revocations.                                              *)

\* revoke_entitlement with the moment it takes effect.
Revoke == \E t \in DOMAIN Tickets, n \in Epochs, at \in 0..MaxTime :
  /\ Cardinality(revocation) < MaxRevocations
  /\ at <= clock + 1
  /\ revocation' = revocation \cup
       {[ticket |-> t, epoch |-> n, revokedAt |-> at, recordedAt |-> clock]}
  /\ UNCHANGED <<clock, token, snapshot>>

\* A scanner is online for a moment and gets the snapshot of now.
Synchronise(s) ==
  \E event \in {Tickets[t] : t \in DOMAIN Tickets}, keys \in SUBSET Keys,
     until \in (clock + 1)..(MaxTime + 1) :
  /\ snapshot' = [snapshot EXCEPT ![s] =
       [event |-> event, generatedAt |-> clock, validUntil |-> until, keys |-> keys,
        revocations |-> {v \in revocation : Tickets[v.ticket] = event}]]
  /\ UNCHANGED <<clock, token, revocation>>

Next ==
  \/ Tick \/ Revoke
  \/ \E k \in Tokens : Sign(k)
  \/ \E s \in Scanners : Synchronise(s)

Spec == Init /\ [][Next]_vars

-----------------------------------------------------------------------------
Revocation == [ticket : DOMAIN Tickets, epoch : Epochs, revokedAt : 0..MaxTime,
               recordedAt : 0..MaxTime]

Snapshot == [event : {Tickets[t] : t \in DOMAIN Tickets}, generatedAt : 0..MaxTime,
             validUntil : Times, keys : SUBSET Keys, revocations : SUBSET Revocation]

\* Every variable has its type.
TypeOK ==
  /\ clock \in 0..MaxTime
  /\ token \in [Tokens -> {None} \cup [claims : Claims, by : {d.publicKey : d \in Signers}]]
  /\ snapshot \in [Scanners -> {None} \cup Snapshot]
  /\ revocation \subseteq Revocation

\* The scanner lets the token in, now, at a door of the ticket's event.
LetsIn(s, k) ==
  /\ snapshot[s] # None /\ token[k] # None
  /\ Verdict(token[k], snapshot[s], token[k].claims.event, clock) = "Ok"

Withdraws(v, x) == v.ticket = x.ticket /\ v.epoch >= x.epoch

\* A scanner lets a withdrawn ticket in only on a snapshot made before the
\* withdrawal was recorded: none that asked since admits it, and a later epoch's
\* revocation withdraws the tokens of the earlier ones too.
RevocationReachesDoor ==
  \A s \in Scanners, k \in Tokens : LetsIn(s, k) =>
    \A v \in revocation :
      Withdraws(v, token[k].claims) /\ v.revokedAt <= clock
        => v.recordedAt >= snapshot[s].generatedAt

\* However old a scanner's snapshot and however long it is valid, a ticket that
\* was out when it was withdrawn is let in for less than a token's longest life
\* after that ("offline lifetime window", AdmissionTokenSigner::sign).
RevocationCatchesUp ==
  \A s \in Scanners, k \in Tokens : LetsIn(s, k) =>
    \A v \in revocation :
      Withdraws(v, token[k].claims) /\ v.revokedAt <= clock
        /\ token[k].claims.issuedAt <= v.recordedAt
        => clock < v.recordedAt + MaxLifetime

\* Nobody is let in but on the signature of a registered key, in its epoch and
\* before it retires, also where the scanner learns of no later key.
OnlyInKeyWindow ==
  \A s \in Scanners, k \in Tokens : LetsIn(s, k) =>
    \E d \in Keys :
      /\ token[k].by = d.publicKey /\ Identified(d, token[k].claims)
      /\ d.activeFrom <= clock /\ clock < d.retireAt

\* The holder of a genuine token, in its time and withdrawn by no revocation of
\* its epoch or a later one, gets in wherever the snapshot knows the key and
\* lasts as long as the token: also after an earlier epoch was revoked, and while
\* several keys are in use.
GenuineGetsIn ==
  \A s \in Scanners, k \in Tokens :
    /\ snapshot[s] # None /\ token[k] # None
    /\ snapshot[s].event = token[k].claims.event
    /\ \E d \in snapshot[s].keys : token[k].by = d.publicKey
    /\ token[k].claims.issuedAt <= clock /\ clock < token[k].claims.expiresAt
    /\ token[k].claims.expiresAt <= snapshot[s].validUntil
    /\ \A v \in revocation : ~Withdraws(v, token[k].claims)
    => LetsIn(s, k)

\* A token let in once is let in by the same snapshot until it expires or its
\* revocation takes effect: the snapshot does not run out on it in between.
LetInUntilItEnds ==
  [][\A s \in Scanners, k \in Tokens :
       LetsIn(s, k) /\ snapshot'[s] = snapshot[s] =>
         \/ LetsIn(s, k)'
         \/ clock' >= token[k].claims.expiresAt
         \/ Revoked(snapshot[s], token[k].claims, clock')]_vars
=============================================================================
