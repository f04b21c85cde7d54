-------------------------- MODULE AdmissionService --------------------------
(***************************************************************************)
(* The tables of AdmissionService (admission.rs) and the statements that   *)
(* fill them. Keys are registered by one statement on one row. A call that *)
(* registers an entitlement or a token reads other tables under the        *)
(* snapshot its statement starts with, and one that records a receipt      *)
(* decides in one statement and stores in a later one: these calls are two *)
(* steps, and orders, revocations and other calls come in between. The     *)
(* functions evgl_* are external. They are taken at their weakest: a       *)
(* revocation rejects the receipts stored so far, and nothing looks at a   *)
(* decision again (a view that also looked at the entitlement would accept *)
(* less); a receipt's id and a scanner's sequence number are unique.       *)
(***************************************************************************)
EXTENDS Integers, FiniteSets, SequencesExt

CONSTANTS
  Calls,         \* calls under way at a time
  OrderEvent,    \* [orders |-> event]
  SigningKeys,   \* descriptors callers register
  ScannerKeys,   \* [scanner, keyId, publicKey, activeFrom, retireAt]: likewise
  Entitlements,  \* [ticket, order, event, epoch]: likewise
  Tokens,        \* claims: likewise
  Receipts,      \* signed receipts that scanners hand in
  None

ASSUME AdmissionServiceAssumption ==
  /\ \A x, y \in Receipts : x.id = y.id => x = y
  /\ \A x \in Receipts : {x.id, x.scanner, x.scannedAt, x.sequence} \subseteq Nat
  /\ \A d \in SigningKeys \cup ScannerKeys : {d.activeFrom, d.retireAt} \subseteq Int
  /\ \A k \in Tokens : {k.issuedAt, k.expiresAt} \subseteq Int

VARIABLES
  order,        \* [orders -> status] of ticket_orders
  signingKey,   \* the rows of admission_signing_keys,
  scannerKey,   \* .. admission_scanner_keys,
  entitlement,  \* .. admission_entitlements, with their status,
  token,        \* .. admission_tokens, with revoked_at being set,
  receipt,      \* .. admission_scan_receipts, with their decision
  call,         \* [Calls -> operation, argument, what its statement found]
  told,         \* history: registrations answered with Ok
  paid,         \* history: orders that were paid
  overtaken     \* history: [tickets -> receipts being stored when it was revoked]

tables == <<signingKey, scannerKey, entitlement, token, receipt>>
vars   == <<order, tables, call, told, paid, overtaken>>

Tickets == {e.ticket : e \in Entitlements}

Idle == [op |-> "idle", arg |-> None, found |-> FALSE]

Init ==
  /\ order = [o \in DOMAIN OrderEvent |-> "pending"]
  /\ signingKey = {} /\ scannerKey = {} /\ entitlement = {} /\ token = {} /\ receipt = {}
  /\ call = [c \in Calls |-> Idle]
  /\ told = {} /\ paid = {}
  /\ overtaken = [t \in Tickets |-> {}]

-----------------------------------------------------------------------------
(* Orders, of TicketInventory.                                             *)

Pay(o) ==
  /\ order[o] = "pending"
  /\ order' = [order EXCEPT ![o] = "paid"]
  /\ paid' = paid \cup {o}
  /\ UNCHANGED <<tables, call, told, overtaken>>

Cancel(o) ==
  /\ order[o] \in {"pending", "paid"}
  /\ order' = [order EXCEPT ![o] = "cancelled"]
  /\ UNCHANGED <<tables, call, told, paid, overtaken>>

-----------------------------------------------------------------------------
(* Registrations: insert .. on conflict do update .. where .. returning.   *)

Window(d) == d.retireAt > d.activeFrom

\* Rows as registered: their status is kept beside them.
Registered(rows) == {r.of : r \in rows}

\* The stored rows with the key of a new one: one at most.
SameSigner(d)  == {k \in signingKey : k.keyId = d.keyId}
SameScanner(d) == {k \in scannerKey : k.scanner = d.scanner /\ k.keyId = d.keyId}
SameTicket(e)  == {r \in Registered(entitlement) : r.ticket = e.ticket}
SameToken(x)   == {r \in Registered(token) : r.id = x.id}

\* Mutant: "do update" without its where.
AnyRow(stored, new) == TRUE

\* The statement returns a row: there was none with this key, or the same one.
Returns(stored, new) == stored \subseteq {new}

Insert(rows, stored, new) == IF stored = {} THEN rows \cup {new} ELSE rows

Active(new) == [of |-> new, valid |-> TRUE]

RegisterSigningKey(d) ==
  /\ d.epoch >= 0 /\ Window(d)
  /\ Returns(SameSigner(d), d)
  /\ signingKey' = Insert(signingKey, SameSigner(d), d)
  /\ told' = told \cup {d}
  /\ UNCHANGED <<order, scannerKey, entitlement, token, receipt, call, paid, overtaken>>

RegisterScannerKey(d) ==
  /\ Window(d)
  /\ Returns(SameScanner(d), d)
  /\ scannerKey' = Insert(scannerKey, SameScanner(d), d)
  /\ told' = told \cup {d}
  /\ UNCHANGED <<order, signingKey, entitlement, token, receipt, call, paid, overtaken>>

Begin(c, op, arg, found) ==
  /\ call[c] = Idle
  /\ call' = [call EXCEPT ![c] = [op |-> op, arg |-> arg, found |-> found]]

End(c) == call' = [call EXCEPT ![c] = Idle]

\* A refusal, a failing statement, a caller who is gone: nothing is stored.
Drop(c) ==
  /\ call[c] # Idle
  /\ End(c)
  /\ UNCHANGED <<order, tables, told, paid, overtaken>>

PaidFor(e) ==
  /\ e.order \in DOMAIN OrderEvent
  /\ OrderEvent[e.order] = e.event /\ order[e.order] = "paid"

BeginEntitlement(c, e) ==
  /\ Begin(c, "entitlement", e, PaidFor(e))
  /\ UNCHANGED <<order, tables, told, paid, overtaken>>

InsertEntitlement(c) ==
  /\ call[c].op = "entitlement" /\ call[c].found
  /\ Returns(SameTicket(call[c].arg), call[c].arg)
  /\ entitlement' = Insert(entitlement, SameTicket(call[c].arg), Active(call[c].arg))
  /\ told' = told \cup {call[c].arg}
  /\ End(c)
  /\ UNCHANGED <<order, signingKey, scannerKey, token, receipt, paid, overtaken>>

KeyCovers(d, x) == x.issuedAt >= d.activeFrom /\ x.expiresAt <= d.retireAt

Issuable(x) ==
  /\ \E e \in entitlement : e.valid /\ e.of =
       [ticket |-> x.ticket, order |-> x.order, event |-> x.event, epoch |-> x.epoch]
  /\ \E d \in signingKey : d.keyId = x.keyId /\ d.epoch = x.epoch /\ KeyCovers(d, x)

BeginToken(c, x) ==
  /\ Begin(c, "token", x, Issuable(x))
  /\ UNCHANGED <<order, tables, told, paid, overtaken>>

InsertToken(c) ==
  /\ call[c].op = "token" /\ call[c].found
  /\ Returns(SameToken(call[c].arg), call[c].arg)
  /\ token' = Insert(token, SameToken(call[c].arg), Active(call[c].arg))
  /\ told' = told \cup {call[c].arg}
  /\ End(c)
  /\ UNCHANGED <<order, signingKey, scannerKey, entitlement, receipt, paid, overtaken>>

-----------------------------------------------------------------------------
(* Receipts.                                                               *)

KeyKnown(x) == \E d \in scannerKey :
  /\ d.scanner = x.scanner /\ d.keyId = x.keyId /\ d.publicKey = x.by
  /\ d.activeFrom <= x.scannedAt /\ d.retireAt > x.scannedAt

Issued(x) == {k \in token : k.of.id = x.token}

\* Mutant: the entitlement's status is not asked for.
CandidateByToken(x) ==
  \E k \in Issued(x), e \in entitlement :
    /\ <<k.of.ticket, k.of.order, k.of.event>> = <<x.ticket, x.order, x.event>>
    /\ k.valid /\ e.of.ticket = k.of.ticket /\ e.of.epoch = k.of.epoch
    /\ k.of.issuedAt <= x.scannedAt /\ x.scannedAt < k.of.expiresAt

\* Mutant: the token's id is enough.
CandidateByTicket(x) ==
  \E k \in Issued(x), e \in entitlement :
    /\ k.valid /\ e.valid /\ e.of.ticket = k.of.ticket /\ e.of.epoch = k.of.epoch
    /\ k.of.issuedAt <= x.scannedAt /\ x.scannedAt < k.of.expiresAt

Candidate(x) ==
  \E k \in Issued(x), e \in entitlement :
    /\ <<k.of.ticket, k.of.order, k.of.event>> = <<x.ticket, x.order, x.event>>
    /\ k.valid /\ e.valid /\ e.of.ticket = k.of.ticket /\ e.of.epoch = k.of.epoch
    /\ k.of.issuedAt <= x.scannedAt /\ x.scannedAt < k.of.expiresAt

\* The scanner's key, the signature and the token's row; keys are never removed,
\* so the first of the two statements is as good as read with the second.
BeginReceipt(c, x) ==
  /\ KeyKnown(x) /\ Issued(x) # {}
  /\ Begin(c, "receipt", x, Candidate(x))
  /\ UNCHANGED <<order, tables, told, paid, overtaken>>

\* evgl_record_admission_receipt: a known receipt's id comes back, and the row
\* stays; a sequence number of another receipt is an error (Drop).
StoreReceipt(c) == LET x == call[c].arg IN
  /\ call[c].op = "receipt"
  /\ \A r \in receipt : <<r.of.scanner, r.of.sequence>> = <<x.scanner, x.sequence>> => r.of = x
  /\ receipt' = IF x \in Registered(receipt) THEN receipt
                ELSE receipt \cup {[of |-> x, valid |-> call[c].found]}
  /\ End(c)
  /\ UNCHANGED <<order, signingKey, scannerKey, entitlement, token, told, paid, overtaken>>

\* evgl_revoke_admission_entitlement: once; there is nothing left to revoke then.
Revoke(t) ==
  LET void(rows) == {[r EXCEPT !.valid = r.valid /\ r.of.ticket # t] : r \in rows}
  IN /\ \E e \in entitlement : e.of.ticket = t /\ e.valid
     /\ entitlement' = void(entitlement) /\ token' = void(token) /\ receipt' = void(receipt)
     /\ overtaken' = [overtaken EXCEPT ![t] =
          {call[c].arg : c \in {c \in Calls : call[c].op = "receipt" /\ call[c].found}}]
     /\ UNCHANGED <<order, signingKey, scannerKey, call, told, paid>>

-----------------------------------------------------------------------------
(* Outcomes: the rule of Reconcile, applied to the stored candidates.      *)

Candidates == {r.of : r \in {r \in receipt : r.valid}}

Rule == INSTANCE Reconcile WITH received <- SetToSeq(Candidates),
                                MaxArrivals <- Cardinality(Receipts)

Outcome(x) ==
  IF x \notin Candidates THEN "rejected"
  ELSE IF Rule!First(x.ticket) = x THEN "accepted" ELSE "duplicate_review"

Accepted(t) == {x \in Registered(receipt) : x.ticket = t /\ Outcome(x) = "accepted"}

-----------------------------------------------------------------------------
Next ==
  \/ \E o \in DOMAIN OrderEvent : Pay(o) \/ Cancel(o)
  \/ \E d \in SigningKeys : RegisterSigningKey(d)
  \/ \E d \in ScannerKeys : RegisterScannerKey(d)
  \/ \E t \in Tickets : Revoke(t)
  \/ \E c \in Calls :
       \/ Drop(c) \/ InsertEntitlement(c) \/ InsertToken(c) \/ StoreReceipt(c)
       \/ \E e \in Entitlements : BeginEntitlement(c, e)
       \/ \E x \in Tokens : BeginToken(c, x)
       \/ \E x \in Receipts : BeginReceipt(c, x)

Spec == Init /\ [][Next]_vars

-----------------------------------------------------------------------------
\* Every variable has its type, and a ticket or token has one row with one status.
TypeOK ==
  /\ order \in [DOMAIN OrderEvent -> {"pending", "paid", "cancelled"}]
  /\ signingKey \subseteq SigningKeys /\ scannerKey \subseteq ScannerKeys
  /\ entitlement \subseteq [of : Entitlements, valid : BOOLEAN]
  /\ token \subseteq [of : Tokens, valid : BOOLEAN]
  /\ \A r, s \in entitlement : r.of.ticket = s.of.ticket => r = s
  /\ \A r, s \in token : r.of.id = s.of.id => r = s
  /\ receipt \subseteq [of : Receipts, valid : BOOLEAN]
  /\ \A c \in Calls : /\ call[c].op \in {"idle", "entitlement", "token", "receipt"}
                      /\ call[c].found \in BOOLEAN
  /\ paid \subseteq DOMAIN OrderEvent

\* Whoever is told that a key, an entitlement or a token is registered finds it
\* registered, exactly as asked and for good: of two callers who race for one id
\* with other contents only one is told so, and retries are (register_*: "already
\* bound to different key material").
OkMeansStored ==
  told \subseteq signingKey \cup scannerKey \cup Registered(entitlement) \cup Registered(token)

Covered(x, k) ==
  /\ <<k.ticket, k.order, k.event>> = <<x.ticket, x.order, x.event>>
  /\ k.issuedAt <= x.scannedAt /\ x.scannedAt < k.expiresAt
  /\ k.order \in paid /\ OrderEvent[k.order] = k.event
  /\ \E d \in signingKey :
       d.keyId = k.keyId /\ d.epoch = k.epoch /\ d.activeFrom <= x.scannedAt /\ x.scannedAt < d.retireAt

\* An accepted receipt stands on an unbroken chain: a scanner's key of that
\* moment, a token of this ticket, order and event good at that moment, under a
\* signing key of its epoch not retired by then, for an order of the event that was
\* paid. Each link was written by another call, at another time.
AcceptedIsCovered ==
  \A x \in Registered(receipt) : Outcome(x) = "accepted" =>
    /\ \E k \in Registered(token) : k.id = x.token /\ Covered(x, k)
    /\ \E d \in scannerKey : /\ d.scanner = x.scanner /\ d.publicKey = x.by
                             /\ d.activeFrom <= x.scannedAt /\ x.scannedAt < d.retireAt

\* Per ticket the service keeps AdmissionLedger's promise: one receipt accepted,
\* replaced by earlier scans only, and none after a revocation but those whose
\* candidate decision the revocation overtook (record_receipt).
AcceptedOf(t) == IF Accepted(t) = {} THEN None ELSE CHOOSE x \in Accepted(t) : TRUE

Ledger == INSTANCE AdmissionLedger WITH
  accepted  <- [t \in Tickets |-> AcceptedOf(t)],
  withdrawn <- {t \in Tickets : \E e \in entitlement : e.of.ticket = t /\ ~e.valid},
  Before    <- Rule!Before

ImplementsAdmissionLedger == Ledger!Spec
=============================================================================
