------------------------------ MODULE JobLedger ------------------------------
(***************************************************************************)
(* What cross-posting promises its clients, per (user, idempotency key):   *)
(* at most one job is ever filed under the key, with a fixed number of     *)
(* targets; it is worked on once, from "queued" over "running" to one      *)
(* final status; posts are made only while it runs, at most MaxAttempts    *)
(* per target; and it is "published" only if every target was posted.      *)
(***************************************************************************)
EXTENDS Naturals

CONSTANTS Ids, MaxTargets, MaxAttempts

VARIABLES phase, size, posted

ledger == <<phase, size, posted>>

Outcomes == {"published", "action_required", "failed"}

Init ==
  /\ phase = [k \in Ids |-> "none"]
  /\ size = [k \in Ids |-> 0]
  /\ posted = [k \in Ids |-> [i \in 1..MaxTargets |-> 0]]

File(k, n) ==
  /\ phase[k] = "none"
  /\ phase' = [phase EXCEPT ![k] = "queued"]
  /\ size' = [size EXCEPT ![k] = n]
  /\ UNCHANGED posted

Begin(k) ==
  /\ phase[k] = "queued"
  /\ phase' = [phase EXCEPT ![k] = "running"]
  /\ UNCHANGED <<size, posted>>

Post(k, i) ==
  /\ phase[k] = "running"
  /\ posted[k][i] < MaxAttempts
  /\ posted' = [posted EXCEPT ![k][i] = @ + 1]
  /\ UNCHANGED <<phase, size>>

Settle(k, s) ==
  /\ phase[k] = "running"
  /\ s = "published" => \A i \in 1..size[k] : posted[k][i] > 0
  /\ phase' = [phase EXCEPT ![k] = s]
  /\ UNCHANGED <<size, posted>>

Next == \E k \in Ids :
  \/ \E n \in 0..MaxTargets : File(k, n)
  \/ Begin(k)
  \/ \E s \in Outcomes : Settle(k, s)
  \/ \E i \in 1..size[k] : Post(k, i)

Spec == Init /\ [][Next]_ledger
=============================================================================
