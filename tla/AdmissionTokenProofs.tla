------------------------ MODULE AdmissionTokenProofs ------------------------
(***************************************************************************)
(* Theorems about AdmissionToken for every set of tokens, tickets, keys,   *)
(* signers and scanners, every lifetime and every span of time.            *)
(***************************************************************************)
EXTENDS AdmissionToken, TLAPS

\* What a signer's descriptor and its longest lifetime say of the tokens it signs.
Signed(d, x) == ValidDescriptor(d) /\ Identified(d, x) /\ InWindow(d, x) /\ ShortLived(x)

\* Every token is one that a signer signs.
SignedByKey ==
  \A k \in Tokens : token[k] # None =>
    \E d \in Signers : token[k].by = d.publicKey /\ Signed(d, token[k].claims)

\* What was recorded before a snapshot was made is in it.
SnapshotKnows ==
  \A s \in Scanners : snapshot[s] # None =>
    /\ snapshot[s].generatedAt <= clock
    /\ \A v \in revocation :
         Tickets[v.ticket] = snapshot[s].event /\ v.recordedAt < snapshot[s].generatedAt
           => v \in snapshot[s].revocations

\* It lists nothing that was not recorded.
SnapshotHonest ==
  \A s \in Scanners : snapshot[s] # None => snapshot[s].revocations \subseteq revocation

DoorInv == TypeOK /\ SignedByKey /\ SnapshotKnows /\ SnapshotHonest

LEMMA DoorInit == Init => DoorInv
BY AdmissionTokenAssumption
DEF Init, DoorInv, TypeOK, SignedByKey, SnapshotKnows, SnapshotHonest

LEMMA DoorTick == DoorInv /\ Tick => DoorInv'
<1> SUFFICES ASSUME DoorInv, Tick PROVE DoorInv'
  OBVIOUS
<1>1. UNCHANGED <<token, snapshot, revocation>> /\ clock < MaxTime /\ clock' = clock + 1
  BY DEF Tick
<1>2. TypeOK'
  BY <1>1, AdmissionTokenAssumption DEF DoorInv, TypeOK
<1>3. SignedByKey' /\ SnapshotHonest'
  BY <1>1 DEF DoorInv, SignedByKey, Signed, ShortLived, SnapshotHonest
<1>4. SnapshotKnows'
  BY <1>1, AdmissionTokenAssumption DEF DoorInv, TypeOK, SnapshotKnows, Snapshot
<1>5. QED
  BY <1>2, <1>3, <1>4 DEF DoorInv

LEMMA DoorRevoke == DoorInv /\ Revoke => DoorInv'
<1> SUFFICES ASSUME DoorInv, Revoke PROVE DoorInv'
  OBVIOUS
<1> USE AdmissionTokenAssumption
<1>1. UNCHANGED <<clock, token, snapshot>>
  BY DEF Revoke
<1>2. PICK v \in Revocation : v.recordedAt = clock /\ revocation' = revocation \cup {v}
  BY DEF Revoke, Revocation, DoorInv, TypeOK
<1>3. TypeOK'
  BY <1>1, <1>2 DEF DoorInv, TypeOK
<1>4. SignedByKey'
  BY <1>1 DEF DoorInv, SignedByKey
<1>5. SnapshotKnows'
  BY <1>1, <1>2 DEF DoorInv, TypeOK, SnapshotKnows, Snapshot
<1>6. SnapshotHonest'
  BY <1>1, <1>2 DEF DoorInv, SnapshotHonest
<1>7. QED
  BY <1>3, <1>4, <1>5, <1>6 DEF DoorInv

LEMMA DoorSign == ASSUME NEW k \in Tokens, DoorInv, Sign(k) PROVE DoorInv'
<1>1. UNCHANGED <<clock, snapshot, revocation>>
  BY DEF Sign
<1>2. PICK d \in Signers, x \in Claims :
        /\ Signed(d, x)
        /\ token' = [token EXCEPT ![k] = [claims |-> x, by |-> d.publicKey]]
  BY DEF Sign, Signed
<1>3. TypeOK'
  BY <1>1, <1>2 DEF DoorInv, TypeOK
<1>4. SignedByKey'
  BY <1>2 DEF DoorInv, TypeOK, SignedByKey
<1>5. SnapshotKnows' /\ SnapshotHonest'
  BY <1>1 DEF DoorInv, SnapshotKnows, SnapshotHonest
<1>6. QED
  BY <1>3, <1>4, <1>5 DEF DoorInv

LEMMA DoorSynchronise == ASSUME NEW s \in Scanners, DoorInv, Synchronise(s) PROVE DoorInv'
<1> USE AdmissionTokenAssumption
<1>1. UNCHANGED <<clock, token, revocation>>
  BY DEF Synchronise
<1>2. PICK event \in {Tickets[t] : t \in DOMAIN Tickets}, keys \in SUBSET Keys,
           until \in (clock + 1)..(MaxTime + 1) :
        snapshot' = [snapshot EXCEPT ![s] =
          [event |-> event, generatedAt |-> clock, validUntil |-> until, keys |-> keys,
           revocations |-> {v \in revocation : Tickets[v.ticket] = event}]]
  BY DEF Synchronise
<1> DEFINE shot == snapshot'[s]
<1>3. /\ shot \in Snapshot /\ shot.generatedAt = clock
      /\ \A v \in revocation : Tickets[v.ticket] = shot.event => v \in shot.revocations
      /\ shot.revocations \subseteq revocation
      /\ snapshot' = [snapshot EXCEPT ![s] = shot]
  <2>1. snapshot'[s] = [event |-> event, generatedAt |-> clock, validUntil |-> until,
                        keys |-> keys,
                        revocations |-> {v \in revocation : Tickets[v.ticket] = event}]
    BY <1>2 DEF DoorInv, TypeOK
  <2>2. until \in Times /\ clock \in 0..MaxTime
    BY DEF Times, DoorInv, TypeOK
  <2>3. {v \in revocation : Tickets[v.ticket] = event} \subseteq Revocation
    BY DEF DoorInv, TypeOK
  <2>4. QED
    BY <1>2, <2>1, <2>2, <2>3 DEF Snapshot, DoorInv, TypeOK
<1> HIDE DEF shot
<1>4. TypeOK'
  BY <1>1, <1>3 DEF DoorInv, TypeOK
<1>5. SignedByKey'
  BY <1>1 DEF DoorInv, SignedByKey
<1>6. SnapshotKnows'
  BY <1>1, <1>3 DEF DoorInv, TypeOK, SnapshotKnows
<1>7. SnapshotHonest'
  BY <1>1, <1>3 DEF DoorInv, TypeOK, SnapshotHonest
<1>8. QED
  BY <1>4, <1>5, <1>6, <1>7 DEF DoorInv

LEMMA DoorInductive == DoorInv /\ [Next]_vars => DoorInv'
<1> SUFFICES ASSUME DoorInv, [Next]_vars PROVE DoorInv'
  OBVIOUS
<1>1. CASE Tick
  BY <1>1, DoorTick
<1>2. CASE Revoke
  BY <1>2, DoorRevoke
<1>3. ASSUME NEW k \in Tokens, Sign(k) PROVE DoorInv'
  BY <1>3, DoorSign
<1>4. ASSUME NEW s \in Scanners, Synchronise(s) PROVE DoorInv'
  BY <1>4, DoorSynchronise
<1>5. CASE UNCHANGED vars
  BY <1>5 DEF vars, DoorInv, TypeOK, SignedByKey, Signed, ShortLived, SnapshotKnows, SnapshotHonest
<1>6. QED
  BY <1>1, <1>2, <1>3, <1>4, <1>5 DEF Next

LEMMA DoorAlways == Spec => []DoorInv
BY DoorInit, DoorInductive, PTL DEF Spec

\* Every variable keeps its type, whatever is signed, recorded and asked for.
THEOREM DoorTypes == Spec => []TypeOK
<1>1. DoorInv => TypeOK
  BY DEF DoorInv
<1>2. QED
  BY <1>1, DoorAlways, PTL

-----------------------------------------------------------------------------
\* What verify_admission_token has found out of a token it lets in.
LEMMA VerdictIsOk ==
  ASSUME NEW tok, NEW shot, NEW event, NEW now, Verdict(tok, shot, event, now) = "Ok"
  PROVE  /\ shot.event = event /\ tok.claims.event = event
         /\ Fresh(shot, now) /\ Timely(tok.claims, now) /\ Outlasts(tok.claims, shot)
         /\ \E d \in shot.keys : /\ Identified(d, tok.claims) /\ InWindow(d, tok.claims)
                                 /\ tok.by = d.publicKey
         /\ ~Revoked(shot, tok.claims, now)
BY DEF Verdict

\* The types of what a scanner has before it.
LEMMA TokenAtDoor ==
  ASSUME DoorInv, NEW s \in Scanners, NEW k \in Tokens, LetsIn(s, k)
  PROVE  /\ snapshot[s] \in Snapshot
         /\ token[k].claims \in Claims
         /\ token[k].claims.issuedAt \in Int /\ token[k].claims.expiresAt \in Int
         /\ token[k].claims.event = Tickets[token[k].claims.ticket]
         /\ clock \in Nat
BY AdmissionTokenAssumption DEF DoorInv, TypeOK, LetsIn, Claims

\* A withdrawn ticket is let in on a snapshot older than its withdrawal only, for
\* any number of tickets, epochs, revocations and snapshots.
THEOREM WithdrawalReachesDoor == Spec => []RevocationReachesDoor
<1>1. DoorInv => RevocationReachesDoor
  <2> SUFFICES ASSUME DoorInv, NEW s \in Scanners, NEW k \in Tokens, LetsIn(s, k),
                      NEW v \in revocation, Withdraws(v, token[k].claims),
                      v.revokedAt <= clock, ~(v.recordedAt >= snapshot[s].generatedAt)
               PROVE  FALSE
    BY DEF RevocationReachesDoor
  <2>1. /\ snapshot[s].event = token[k].claims.event
        /\ ~Revoked(snapshot[s], token[k].claims, clock)
    BY VerdictIsOk DEF LetsIn
  <2>2. Tickets[v.ticket] = snapshot[s].event
    BY <2>1, TokenAtDoor DEF Withdraws
  <2>3. v.recordedAt < snapshot[s].generatedAt
    BY AdmissionTokenAssumption, TokenAtDoor DEF DoorInv, TypeOK, Revocation, Snapshot
  <2>4. v \in snapshot[s].revocations
    BY <2>2, <2>3 DEF DoorInv, SnapshotKnows, LetsIn
  <2>5. QED
    BY <2>1, <2>4 DEF Revoked, Withdraws
<1>2. QED
  BY <1>1, DoorAlways, PTL

\* No snapshot, however old or long-lived, admits a withdrawn ticket for longer
\* than a token may live.
THEOREM WithdrawalCatchesUp == Spec => []RevocationCatchesUp
<1>1. DoorInv => RevocationCatchesUp
  <2> SUFFICES ASSUME DoorInv, NEW s \in Scanners, NEW k \in Tokens, LetsIn(s, k),
                      NEW v \in revocation, token[k].claims.issuedAt <= v.recordedAt
               PROVE  clock < v.recordedAt + MaxLifetime
    BY DEF RevocationCatchesUp
  <2>1. clock < token[k].claims.expiresAt
    BY VerdictIsOk DEF LetsIn, Timely
  <2>2. token[k].claims.expiresAt - token[k].claims.issuedAt <= MaxLifetime
    BY DEF DoorInv, SignedByKey, Signed, ShortLived, LetsIn
  <2>3. v.recordedAt \in Int
    BY AdmissionTokenAssumption DEF DoorInv, TypeOK, Revocation
  <2>4. QED
    BY <2>1, <2>2, <2>3, TokenAtDoor, AdmissionTokenAssumption
<1>2. QED
  BY <1>1, DoorAlways, PTL

\* Whoever is let in has a token of a registered key, in the key's window.
THEOREM KeyWindowHolds == Spec => []OnlyInKeyWindow
<1>1. DoorInv => OnlyInKeyWindow
  <2> SUFFICES ASSUME DoorInv, NEW s \in Scanners, NEW k \in Tokens, LetsIn(s, k)
               PROVE  \E d \in Keys :
                        /\ token[k].by = d.publicKey /\ Identified(d, token[k].claims)
                        /\ d.activeFrom <= clock /\ clock < d.retireAt
    BY DEF OnlyInKeyWindow
  <2>1. PICK d \in snapshot[s].keys :
          /\ Identified(d, token[k].claims) /\ InWindow(d, token[k].claims)
          /\ token[k].by = d.publicKey
    BY VerdictIsOk DEF LetsIn
  <2>2. d \in Keys /\ d.activeFrom \in Int /\ d.retireAt \in Int
    BY TokenAtDoor, AdmissionTokenAssumption DEF Snapshot
  <2>3. token[k].claims.issuedAt <= clock /\ clock < token[k].claims.expiresAt
    BY VerdictIsOk DEF LetsIn, Timely
  <2>4. d.activeFrom <= clock /\ clock < d.retireAt
    BY <2>1, <2>2, <2>3, TokenAtDoor DEF InWindow
  <2>5. QED
    BY <2>1, <2>2, <2>4
<1>2. QED
  BY <1>1, DoorAlways, PTL

-----------------------------------------------------------------------------
\* The verdict depends on the moment in three of its conditions only.
LEMMA VerdictLater ==
  ASSUME NEW tok, NEW shot, NEW event, NEW now, NEW later,
         Verdict(tok, shot, event, now) = "Ok",
         Fresh(shot, later), Timely(tok.claims, later), ~Revoked(shot, tok.claims, later)
  PROVE  Verdict(tok, shot, event, later) = "Ok"
BY DEF Verdict

\* Time goes on, and a signed token stays what it is.
LEMMA DoorSteps ==
  ASSUME DoorInv, [Next]_vars
  PROVE  /\ clock <= clock'
         /\ \A k \in Tokens : token[k] # None => token'[k] = token[k]
<1> USE AdmissionTokenAssumption DEF DoorInv, TypeOK
<1>1. CASE Tick
  BY <1>1 DEF Tick
<1>2. CASE Revoke
  BY <1>2 DEF Revoke
<1>3. ASSUME NEW k \in Tokens, Sign(k) PROVE clock' = clock /\ \A q \in Tokens : token[q] # None => token'[q] = token[q]
  BY <1>3 DEF Sign
<1>4. ASSUME NEW s \in Scanners, Synchronise(s) PROVE UNCHANGED <<clock, token>>
  BY <1>4 DEF Synchronise
<1>5. CASE UNCHANGED vars
  BY <1>5 DEF vars
<1>6. QED
  BY <1>1, <1>2, <1>3, <1>4, <1>5 DEF Next

\* Who was let in is let in again on the same snapshot, until the token expires or
\* is withdrawn.
THEOREM StaysLetIn == Spec => LetInUntilItEnds
<1> DEFINE Again == \A s \in Scanners, k \in Tokens :
             LetsIn(s, k) /\ snapshot'[s] = snapshot[s] =>
               \/ LetsIn(s, k)'
               \/ clock' >= token[k].claims.expiresAt
               \/ Revoked(snapshot[s], token[k].claims, clock')
<1>1. DoorInv /\ DoorInv' /\ [Next]_vars => Again
  <2> SUFFICES ASSUME DoorInv, DoorInv', [Next]_vars,
                      NEW s \in Scanners, NEW k \in Tokens,
                      LetsIn(s, k), snapshot'[s] = snapshot[s],
                      ~(clock' >= token[k].claims.expiresAt),
                      ~Revoked(snapshot[s], token[k].claims, clock')
               PROVE  LetsIn(s, k)'
    OBVIOUS
  <2>1. clock <= clock' /\ token'[k] = token[k]
    BY DoorSteps DEF LetsIn
  <2>2. clock \in Int /\ clock' \in Int
    BY AdmissionTokenAssumption DEF DoorInv, TypeOK
  <2>3. /\ token[k].claims.issuedAt <= clock /\ clock < token[k].claims.expiresAt
        /\ token[k].claims.expiresAt <= snapshot[s].validUntil
        /\ clock >= snapshot[s].generatedAt
    BY VerdictIsOk DEF LetsIn, Timely, Fresh, Outlasts
  <2>4. /\ snapshot[s].generatedAt \in Int /\ snapshot[s].validUntil \in Int
        /\ token[k].claims.issuedAt \in Int /\ token[k].claims.expiresAt \in Int
    BY TokenAtDoor, AdmissionTokenAssumption DEF Snapshot, Times
  <2>5. Timely(token[k].claims, clock') /\ Fresh(snapshot[s], clock')
    BY <2>1, <2>2, <2>3, <2>4 DEF Timely, Fresh
  <2>6. Verdict(token[k], snapshot[s], token[k].claims.event, clock') = "Ok"
    BY <2>5, VerdictLater DEF LetsIn
  <2>7. QED
    BY <2>1, <2>6 DEF LetsIn
<1>2. Again => [\A s \in Scanners, k \in Tokens :
             LetsIn(s, k) /\ snapshot'[s] = snapshot[s] =>
               \/ LetsIn(s, k)'
               \/ clock' >= token[k].claims.expiresAt
               \/ Revoked(snapshot[s], token[k].claims, clock')]_vars
  OBVIOUS
<1>3. QED
  BY <1>1, <1>2, DoorAlways, PTL DEF Spec, LetInUntilItEnds
\* A key pair is made for one descriptor: no two share a public key.
OnePairPerKey == \A d \in Signers, e \in Keys : d.publicKey = e.publicKey => d = e

\* Where key pairs are not shared, the scanner finds the key a token was signed
\* with, also among the overlapping keys of several epochs: the genuine get in.
THEOREM GenuineLetIn ==
  ASSUME OnePairPerKey PROVE Spec => []GenuineGetsIn
<1>1. DoorInv => GenuineGetsIn
  <2> SUFFICES ASSUME DoorInv, NEW s \in Scanners, NEW k \in Tokens,
                      snapshot[s] # None, token[k] # None,
                      snapshot[s].event = token[k].claims.event,
                      \E d \in snapshot[s].keys : token[k].by = d.publicKey,
                      token[k].claims.issuedAt <= clock, clock < token[k].claims.expiresAt,
                      token[k].claims.expiresAt <= snapshot[s].validUntil,
                      \A v \in revocation : ~Withdraws(v, token[k].claims)
               PROVE  LetsIn(s, k)
    BY DEF GenuineGetsIn
  <2> DEFINE x == token[k].claims
             known == {d \in snapshot[s].keys : Identified(d, x)}
  <2>1. snapshot[s] \in Snapshot /\ snapshot[s].keys \subseteq Keys
    BY DEF DoorInv, TypeOK, Snapshot
  <2>2. PICK d \in Signers : token[k].by = d.publicKey /\ Signed(d, x)
    BY DEF DoorInv, SignedByKey
  <2>3. d \in known
    BY <2>1, <2>2 DEF OnePairPerKey, Signed
  <2>4. \A e \in known : e = d
    BY <2>1, <2>2, <2>3, AdmissionTokenAssumption DEF Signed, Identified
  <2>5. known # {} /\ (CHOOSE e \in known : TRUE) = d
    BY <2>3, <2>4
  <2>6. Fresh(snapshot[s], clock)
    <3>1. /\ x.expiresAt \in Int /\ clock \in Int
          /\ snapshot[s].validUntil \in Int /\ snapshot[s].generatedAt <= clock
      BY <2>1, AdmissionTokenAssumption
      DEF DoorInv, TypeOK, Claims, Snapshot, Times, SnapshotKnows
    <3>2. QED
      BY <3>1 DEF Fresh
  <2>7. ~Revoked(snapshot[s], x, clock)
    BY DEF Revoked, Withdraws, DoorInv, SnapshotHonest
  <2> HIDE DEF x, known
  <2>8. QED
    BY <2>2, <2>5, <2>6, <2>7 DEF LetsIn, Verdict, Timely, Outlasts, Signed, x, known
<1>2. QED
  BY <1>1, DoorAlways, PTL

=============================================================================
