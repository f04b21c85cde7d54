--------------------------- MODULE AdmissionLedger ---------------------------
(***************************************************************************)
(* What AdmissionService promises per ticket, without its tables and       *)
(* statements: one receipt is accepted, and only an earlier scan takes     *)
(* over from it; a withdrawn ticket loses its acceptance, and gets one     *)
(* again only by a receipt that was being recorded when it was withdrawn.  *)
(***************************************************************************)
CONSTANTS Tickets, Receipts, Before(_, _), None

VARIABLES
  accepted,   \* [Tickets -> receipt], or None
  withdrawn,  \* tickets revoked
  overtaken   \* [Tickets -> receipts under way when the ticket was revoked]

vars == <<accepted, withdrawn, overtaken>>

Init ==
  /\ accepted  = [t \in Tickets |-> None]
  /\ withdrawn = {}
  /\ overtaken = [t \in Tickets |-> {}]

Accept(t, x) ==
  /\ x.ticket = t
  /\ accepted[t] = None \/ Before(x, accepted[t])
  /\ t \in withdrawn => x \in overtaken[t]
  /\ accepted' = [accepted EXCEPT ![t] = x]
  /\ UNCHANGED <<withdrawn, overtaken>>

Withdraw(t) == \E xs \in SUBSET Receipts :
  /\ t \notin withdrawn
  /\ withdrawn' = withdrawn \cup {t}
  /\ accepted'  = [accepted EXCEPT ![t] = None]
  /\ overtaken' = [overtaken EXCEPT ![t] = xs]

Next == \E t \in Tickets : Withdraw(t) \/ \E x \in Receipts : Accept(t, x)

Spec == Init /\ [][Next]_vars
=============================================================================
