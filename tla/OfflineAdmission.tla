-------------------------- MODULE OfflineAdmission --------------------------
(***************************************************************************)
(* Doors and server together: AdmissionToken's scanners let tickets in on  *)
(* the snapshots they hold and sign a receipt for each (ScannerReceipt-    *)
(* Signer); AdmissionService registers the tokens, revokes tickets and is  *)
(* handed the receipts some time later. Both look at a scan on their own   *)
(* and compute their own answer. The office has registered its keys, and   *)
(* the entitlements of a paid order, when it all begins; a scanner signs   *)
(* with the key that is registered as its own.                             *)
(***************************************************************************)
EXTENDS AdmissionService

CONSTANTS MaxLifetime, MaxTime

\* The office asks for one entitlement per ticket and one token per id; the key a
\* receipt names has signed it.
ASSUME OfflineAdmissionAssumption ==
  /\ \A e, f \in Entitlements : e.ticket = f.ticket => e = f
  /\ \A x, y \in Tokens : x.id = y.id => x = y
  /\ \A x \in Receipts, d \in ScannerKeys :
       d.scanner = x.scanner /\ d.keyId = x.keyId => d.publicKey = x.by

VARIABLES
  clock, signed, snapshot, revocation,  \* of AdmissionToken; signed: its tokens
  scanned,  \* receipts signed at the doors
  stale     \* history: those signed for a ticket that was revoked already

doors   == <<clock, signed, snapshot, revocation>>
allVars == <<vars, doors, scanned, stale>>

TokenIds == {x.id : x \in Tokens}
EventOf  == [t \in Tickets |-> (CHOOSE e \in Entitlements : e.ticket = t).event]

Door == INSTANCE AdmissionToken WITH
  Tokens <- TokenIds, Tickets <- EventOf, Signers <- SigningKeys, Keys <- SigningKeys,
  Scanners <- {d.scanner : d \in ScannerKeys}, MaxRevocations <- Cardinality(Tickets),
  token <- signed

OpeningInit ==
  /\ order = [o \in DOMAIN OrderEvent |-> "paid"] /\ paid = DOMAIN OrderEvent
  /\ signingKey = SigningKeys /\ scannerKey = ScannerKeys
  /\ entitlement = [of : Entitlements, valid : {TRUE}]
  /\ told = SigningKeys \cup ScannerKeys \cup Entitlements
  /\ token = {} /\ receipt = {}
  /\ call = [c \in Calls |-> Idle]
  /\ overtaken = [t \in Tickets |-> {}]
  /\ Door!Init
  /\ scanned = {} /\ stale = {}

\* Claims as they are signed, and registered with the token's id and order.
Signable(x) == [f \in {"ticket", "event", "epoch", "keyId", "issuedAt", "expiresAt"} |-> x[f]]

SignToken == \E x \in Tokens :
  /\ Door!Sign(x.id) /\ signed'[x.id].claims = Signable(x)
  /\ UNCHANGED <<vars, scanned, stale>>

OtherDoorStep ==
  /\ Door!Tick \/ \E d \in ScannerKeys : Door!Synchronise(d.scanner)
  /\ UNCHANGED <<vars, scanned, stale>>

IsRevoked(t) == \E e \in entitlement : e.of.ticket = t /\ ~e.valid

\* Let in: a receipt with the scanner's next number and the moment of the scan.
ScanTicket == \E x \in Receipts \ scanned :
  /\ x.scannedAt = clock
  /\ x.sequence = Cardinality({y \in scanned : y.scanner = x.scanner}) + 1
  /\ Door!LetsIn(x.scanner, x.token)
  /\ \E k \in Tokens : k.id = x.token /\ <<k.ticket, k.order, k.event>> = <<x.ticket, x.order, x.event>>
  /\ scanned' = scanned \cup {x}
  /\ stale' = IF IsRevoked(x.ticket) THEN stale \cup {x} ELSE stale
  /\ UNCHANGED <<vars, doors>>

\* The office withdraws a ticket, from now on.
RevokeTicket(t) ==
  /\ Revoke(t)
  /\ revocation' = revocation \cup
       {[ticket |-> t, epoch |-> e.epoch, revokedAt |-> clock, recordedAt |-> clock] :
          e \in {e \in Registered(entitlement) : e.ticket = t}}
  /\ UNCHANGED <<clock, signed, snapshot, scanned, stale>>

ServerStep ==
  /\ \E c \in Calls :
       \/ Drop(c) \/ InsertToken(c) \/ StoreReceipt(c)
       \/ \E x \in Tokens : BeginToken(c, x)
       \/ \E x \in scanned : BeginReceipt(c, x)
  /\ UNCHANGED <<doors, scanned, stale>>

Opening ==
  \/ SignToken \/ OtherDoorStep \/ ScanTicket \/ ServerStep
  \/ \E t \in Tickets : RevokeTicket(t)

OpeningSpec == OpeningInit /\ [][Opening]_allVars

-----------------------------------------------------------------------------
\* Whom a door let in, with a scanner's key of that moment, the server takes for a
\* candidate, once it knows the token and as long as it knows of no revocation:
\* verify_admission_token and record_receipt draw every boundary of time at the
\* same moment.
DoorAndServerAgree ==
  \A x \in scanned :
    Issued(x) # {} /\ ~IsRevoked(x.ticket)
      /\ (\E d \in scannerKey : /\ d.scanner = x.scanner /\ d.keyId = x.keyId
                               /\ d.activeFrom <= x.scannedAt /\ d.retireAt > x.scannedAt)
      => KeyKnown(x) /\ Candidate(x)

\* When all scans of a ticket have reached the server, in whatever order, one is
\* accepted, no entry was before it, and every other is up for review.
FirstEntryCounts ==
  \A t \in Tickets :
    LET entries == {x \in scanned : x.ticket = t}
    IN entries # {} /\ entries \subseteq Registered(receipt) /\ ~IsRevoked(t)
         => /\ Cardinality(Accepted(t)) = 1
            /\ \A x \in Accepted(t), y \in entries : x.scannedAt <= y.scannedAt

\* An entry a door allowed on old knowledge, after the ticket was revoked, is
\* found out: its receipt is never accepted, however soon it comes and whatever
\* was under way when the ticket was revoked.
StaleEntryIsFound == \A x \in stale \cap Registered(receipt) : Outcome(x) # "accepted"
=============================================================================
