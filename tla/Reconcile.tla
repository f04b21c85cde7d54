------------------------------ MODULE Reconcile ------------------------------
(***************************************************************************)
(* Reconciliation of offline scans (admission.rs): of the verified         *)
(* receipts for a ticket the first by (scan time, scanner, scanner's       *)
(* sequence number, receipt id) is accepted, every other one is up for     *)
(* review. Receipts reach the server in any order and any number of times, *)
(* and the rule is applied to whatever has arrived.                        *)
(***************************************************************************)
EXTENDS Integers, Sequences, FiniteSets, SequencesExt

CONSTANTS
  Receipts,    \* [id, ticket, scannedAt, scanner, sequence]: what scanners signed
  MaxArrivals  \* bound of the receipts that arrive

ASSUME ReconcileAssumption ==
  /\ \A x \in Receipts : <<x.id, x.scanner, x.scannedAt, x.sequence>> \in Nat \X Nat \X Nat \X Int
  /\ \A x, y \in Receipts : x.id = y.id => x = y
  /\ MaxArrivals \in Nat

VARIABLE received  \* the receipts handed to the rule, in their order of arrival

Init == received = <<>>

\* An upload, the first of this receipt or one more.
Arrive(x) ==
  /\ Len(received) < MaxArrivals
  /\ received' = Append(received, x)

Next == \E x \in Receipts : Arrive(x)

Spec == Init /\ [][Next]_received

-----------------------------------------------------------------------------
(* The rule, as the code computes it.                                      *)

\* Mutant: the scanners come before the time.
BeforeByScanner(x, y) ==
  \/ x.scanner < y.scanner
  \/ x.scanner = y.scanner /\ x.id < y.id

\* receipt_order_key, compared as a tuple.
Before(x, y) ==
  \/ x.scannedAt < y.scannedAt
  \/ x.scannedAt = y.scannedAt /\ x.scanner < y.scanner
  \/ x.scannedAt = y.scannedAt /\ x.scanner = y.scanner /\ x.sequence < y.sequence
  \/ x.scannedAt = y.scannedAt /\ x.scanner = y.scanner /\ x.sequence = y.sequence
     /\ x.id < y.id

\* Mutant: receipts of one moment are left in their order of arrival.
TakesOverByTime(x, winner) == x.scannedAt < winner.scannedAt

\* Mutant: the last to arrive wins.
TakesOverAlways(x, winner) == TRUE

TakesOver(x, winner) == Before(x, winner)

\* One round of the loop: entry(ticket).and_modify(..).or_insert(receipt).
Consider(winners, x) ==
  [t \in DOMAIN winners \cup {x.ticket} |->
     IF t # x.ticket THEN winners[t]
     ELSE IF t \notin DOMAIN winners \/ TakesOver(x, winners[t]) THEN x
     ELSE winners[t]]

\* The winners once the loop is through all receipts.
Winners(receipts) ==
  LET after[n \in 0..Len(receipts)] ==
        IF n = 0 THEN [t \in {} |-> 0] ELSE Consider(after[n - 1], receipts[n])
  IN  after[Len(receipts)]

Outcome(x, winners) ==
  [receipt |-> x.id, ticket |-> x.ticket, winner |-> winners[x.ticket].id,
   outcome |-> IF winners[x.ticket].id = x.id THEN "accepted" ELSE "duplicate_review"]

Outcomes(receipts) ==
  LET winners == Winners(receipts)
  IN  [i \in DOMAIN receipts |-> Outcome(receipts[i], winners)]

-----------------------------------------------------------------------------
\* Whoever the receipts say was first, whatever their order of arrival and
\* however often they came: the rule is a function of the set that arrived.
First(t) == CHOOSE x \in {y \in ToSet(received) : y.ticket = t} :
              \A y \in ToSet(received) : y.ticket = t /\ y # x => Before(x, y)

Accepted(t) == {o.receipt : o \in {o \in ToSet(Outcomes(received)) :
                                     o.ticket = t /\ o.outcome = "accepted"}}

\* Each ticket of which any scan has arrived admits once, whoever was first, and
\* every outcome says so: two servers that got the same receipts in other orders
\* or numbers agree.
OrderIsIrrelevant ==
  \A o \in ToSet(Outcomes(received)) :
    /\ o.winner = First(o.ticket).id
    /\ Accepted(o.ticket) = {First(o.ticket).id}

\* A receipt up for review is never accepted later: more receipts can only
\* replace the accepted one by an earlier scan.
ReviewIsFinal ==
  [][\A i \in DOMAIN received :
       Outcomes(received)[i].outcome = "duplicate_review"
         => Outcomes(received')[i].outcome = "duplicate_review"]_received
=============================================================================
