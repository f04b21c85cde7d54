--------------------------- MODULE ReconcileProofs ---------------------------
(***************************************************************************)
(* What the reconciliation of receipts computes, for every set of receipts *)
(* and every sequence of arrivals.                                         *)
(***************************************************************************)
EXTENDS Reconcile, NaturalsInduction, WellFoundedInduction, TLAPS

LEMMA NatLeast == ASSUME NEW S \in SUBSET Nat, S # {} PROVE \E m \in S : \A n \in S : m <= n
<1> DEFINE R == {q \in Nat \X Nat : q[1] < q[2]}
<1>1. IsWellFoundedOn(R, Nat)
  BY NatLessThanWellFounded DEF OpToRel
<1>2. PICK m \in S : \A n \in S : ~ (<<n, m>> \in R)
  <2> HIDE DEF R
  <2>1. QED
    BY <1>1, WFMin
<1>3. ASSUME NEW n \in S PROVE m <= n
  <2>1. m \in Nat /\ n \in Nat /\ <<n, m>> \in Nat \X Nat
    OBVIOUS
  <2>2. ~ (n < m)
    BY <1>2, <2>1
  <2>3. QED
    BY <2>2, <2>1
<1>4. QED
  BY <1>3

-----------------------------------------------------------------------------
(* The loop.                                                               *)

Round(s, f, n) == IF n = 0 THEN [t \in {} |-> 0] ELSE Consider(f[n - 1], s[n])
IsLoop(s, f, n) == f = [k \in 0..n |-> Round(s, f, k)]

\* It can be run through: if not to the n-th round, then not to an earlier one.
LEMMA LoopRuns == ASSUME NEW s, NEW n \in Nat PROVE \E f : IsLoop(s, f, n)
<1> DEFINE Stuck == {m \in Nat : ~ \E f : IsLoop(s, f, m)}
<1>1. SUFFICES ASSUME Stuck # {} PROVE FALSE
  OBVIOUS
<1>2. PICK m \in Stuck : \A k \in Stuck : m <= k
  BY <1>1, NatLeast
<1>3. CASE m = 0
  <2> DEFINE f == [k \in 0..0 |-> [t \in {} |-> 0]]
  <2>1. f = [k \in 0..0 |-> Round(s, f, k)]
    BY DEF Round
  <2>2. QED
    BY <1>2, <1>3, <2>1 DEF IsLoop
<1>4. CASE m # 0
  <2>1. m - 1 \in Nat /\ m - 1 \notin Stuck
    BY <1>2, <1>4
  <2>2. PICK g : IsLoop(s, g, m - 1)
    BY <2>1
  <2> DEFINE f == [k \in 0..m |-> IF k = m THEN Consider(g[m - 1], s[m]) ELSE g[k]]
  <2>3. ASSUME NEW k \in 0..m PROVE f[k] = Round(s, f, k)
    <3>1. CASE k = m
      BY <1>2, <1>4, <3>1 DEF Round
    <3>2. CASE k # m
      <4>1. k \in 0..(m - 1)
        BY <1>2, <3>2
      <4>2. g = [j \in 0..(m - 1) |-> Round(s, g, j)]
        BY <2>2 DEF IsLoop
      <4>3. g[k] = Round(s, g, k)
        BY <4>1, <4>2, Zenon
      <4>4. k # 0 => k - 1 \in 0..m /\ k - 1 # m
        BY <1>2, <4>1
      <4>5. QED
        BY <3>2, <4>3, <4>4 DEF Round
    <3>3. QED
      BY <3>1, <3>2
  <2>4. f = [k \in 0..m |-> Round(s, f, k)]
    BY <2>3
  <2>5. IsLoop(s, f, m)
    BY <2>4 DEF IsLoop
  <2> HIDE DEF f
  <2>6. QED
    BY <1>2, <2>5
<1>5. QED
  BY <1>3, <1>4

LEMMA WinnersOfLoop ==
  ASSUME NEW s \in Seq(Receipts)
  PROVE  \E f : IsLoop(s, f, Len(s)) /\ Winners(s) = f[Len(s)]
<1> DEFINE f == CHOOSE f : IsLoop(s, f, Len(s))
<1>1. Len(s) \in Nat
  OBVIOUS
<1>2. IsLoop(s, f, Len(s))
  BY <1>1, LoopRuns
<1>3. Winners(s) = f[Len(s)]
  BY DEF Winners, IsLoop, Round
<1>4. QED
  BY <1>2, <1>3

-----------------------------------------------------------------------------
(* The winners.                                                            *)

\* receipt_order_key orders the receipts.
LEMMA BeforeOrders ==
  /\ \A x, y \in Receipts : x = y \/ Before(x, y) \/ Before(y, x)
  /\ \A x, y \in Receipts : Before(x, y) => ~ Before(y, x)
  /\ \A x, y, z \in Receipts : Before(x, y) /\ Before(y, z) => Before(x, z)
<1>1. \A x \in Receipts : x.id \in Nat /\ x.scanner \in Nat /\ x.scannedAt \in Nat /\ x.sequence \in Int
  BY ReconcileAssumption
<1>2. \A x, y \in Receipts : x.id = y.id => x = y
  BY ReconcileAssumption
<1>3. \A x, y \in Receipts : x = y \/ Before(x, y) \/ Before(y, x)
  BY <1>1, <1>2 DEF Before
<1>4. \A x, y \in Receipts : Before(x, y) => ~ Before(y, x)
  BY <1>1 DEF Before
<1>5. \A x, y, z \in Receipts : Before(x, y) /\ Before(y, z) => Before(x, z)
  BY <1>1 DEF Before
<1>6. QED
  BY <1>3, <1>4, <1>5

Comes(x, S) == x \in S /\ \A y \in S : y = x \/ Before(x, y)

LEMMA OnlyOneComesFirst ==
  ASSUME NEW S \in SUBSET Receipts, NEW x, NEW y, Comes(x, S), Comes(y, S)
  PROVE  x = y
BY BeforeOrders DEF Comes

\* The receipts for a ticket among the first n, and what their winners are.
Seen(s, n, t) == {s[i] : i \in {i \in 1..n : s[i].ticket = t}}

Won(s, n, w) ==
  /\ DOMAIN w = {s[i].ticket : i \in 1..n}
  /\ \A t \in DOMAIN w : Comes(w[t], Seen(s, n, t))

LEMMA OneRound ==
  ASSUME NEW s \in Seq(Receipts), NEW n \in Nat, n < Len(s), NEW w, Won(s, n, w)
  PROVE  Won(s, n + 1, Consider(w, s[n + 1]))
<1> DEFINE x == s[n + 1]
           v == Consider(w, x)
<1>1. x \in Receipts /\ 1..(n + 1) = (1..n) \cup {n + 1} /\ \A i \in 1..n : s[i] \in Receipts
  OBVIOUS
<1>2. DOMAIN v = DOMAIN w \cup {x.ticket}
  BY DEF Consider
<1>3. DOMAIN v = {s[i].ticket : i \in 1..(n + 1)}
  BY <1>1, <1>2 DEF Won
<1>4. \A t : Seen(s, n + 1, t) = Seen(s, n, t) \cup (IF t = x.ticket THEN {x} ELSE {})
  BY <1>1 DEF Seen
<1>5. \A t : Seen(s, n, t) \subseteq Receipts
  BY <1>1 DEF Seen
<1>6. ASSUME NEW t \in DOMAIN v PROVE Comes(v[t], Seen(s, n + 1, t))
  <2>1. CASE t # x.ticket
    <3>1. v[t] = w[t] /\ t \in DOMAIN w
      BY <1>2, <2>1 DEF Consider
    <3>2. QED
      BY <1>4, <2>1, <3>1 DEF Won
  <2>2. CASE t = x.ticket /\ t \notin DOMAIN w
    <3>1. v[t] = x
      BY <1>2, <2>2 DEF Consider
    <3>2. Seen(s, n, t) = {}
      BY <2>2 DEF Seen, Won
    <3>3. QED
      BY <1>4, <2>2, <3>1, <3>2 DEF Comes
  <2>3. CASE t = x.ticket /\ t \in DOMAIN w
    <3>1. v[t] = IF Before(x, w[t]) THEN x ELSE w[t]
      BY <1>2, <2>3 DEF Consider, TakesOver
    <3>2. Comes(w[t], Seen(s, n, t)) /\ w[t] \in Receipts
      BY <1>5, <2>3 DEF Won, Comes
    <3>3. Seen(s, n + 1, t) = Seen(s, n, t) \cup {x}
      BY <1>4, <2>3
    <3> HIDE DEF x, v
    <3>4. QED
      BY <1>1, <1>5, <3>1, <3>2, <3>3, BeforeOrders DEF Comes
  <2>4. QED
    BY <2>1, <2>2, <2>3
<1>7. QED
  BY <1>3, <1>6 DEF Won

\* The loop leaves for each ticket that has a receipt the first of its receipts.
LEMMA WinnersWin ==
  ASSUME NEW s \in Seq(Receipts)
  PROVE  Won(s, Len(s), Winners(s))
<1>1. PICK f : IsLoop(s, f, Len(s)) /\ Winners(s) = f[Len(s)]
  BY WinnersOfLoop
<1>2. Len(s) \in Nat
  OBVIOUS
<1>3. \A n \in 0..Len(s) : f[n] = Round(s, f, n)
  <2>1. f = [k \in 0..Len(s) |-> Round(s, f, k)]
    BY <1>1 DEF IsLoop
  <2>2. QED
    BY <2>1, Zenon
<1> DEFINE Lost == {n \in 0..Len(s) : ~ Won(s, n, f[n])}
<1>4. ASSUME Lost # {} PROVE FALSE
  <2>0. Lost \in SUBSET Nat
    BY <1>2
  <2>1. PICK n \in Lost : \A k \in Lost : n <= k
    <3> HIDE DEF Lost
    <3>1. QED
      BY <1>4, <2>0, NatLeast
  <2>2. n \in 0..Len(s) /\ ~ Won(s, n, f[n])
    BY <2>1
  <2>3. CASE n = 0
    <3>1. f[n] = [t \in {} |-> 0]
      BY <1>3, <2>2, <2>3 DEF Round
    <3>2. QED
      BY <2>2, <2>3, <3>1 DEF Won
  <2>4. CASE n # 0
    <3>1. n - 1 \in Nat /\ n - 1 < Len(s) /\ n - 1 \in 0..Len(s) /\ n - 1 + 1 = n
      BY <1>2, <2>2, <2>4
    <3>2. n - 1 \notin Lost
      BY <2>1, <3>1
    <3>3. Won(s, n - 1, f[n - 1])
      BY <3>1, <3>2
    <3>4. f[n] = Consider(f[n - 1], s[n])
      BY <1>3, <2>2, <2>4 DEF Round
    <3>5. Won(s, n - 1 + 1, Consider(f[n - 1], s[n - 1 + 1]))
      BY <3>1, <3>3, OneRound
    <3>6. QED
      BY <2>2, <3>1, <3>4, <3>5
  <2>5. QED
    BY <2>3, <2>4
<1>5. Won(s, Len(s), f[Len(s)])
  BY <1>2, <1>4
<1>6. QED
  BY <1>1, <1>5

\* The outcome of a receipt, for a winner of its ticket.
Tells(o, x, w) ==
  /\ o.receipt = x.id /\ o.ticket = x.ticket /\ o.winner = w.id
  /\ o.outcome = IF w = x THEN "accepted" ELSE "duplicate_review"

LEMMA OutcomeTells ==
  ASSUME NEW s \in Seq(Receipts), NEW i \in DOMAIN s
  PROVE  \E w \in Receipts : /\ Comes(w, Seen(s, Len(s), s[i].ticket)) /\ w.ticket = s[i].ticket
                             /\ Tells(Outcomes(s)[i], s[i], w)
<1> DEFINE t == s[i].ticket
           w == Winners(s)[t]
<1>1. Won(s, Len(s), Winners(s)) /\ i \in 1..Len(s) /\ s[i] \in Receipts
  BY WinnersWin
<1>2. t \in DOMAIN Winners(s) /\ Comes(w, Seen(s, Len(s), t))
  BY <1>1 DEF Won
<1>3. w \in Receipts /\ w.ticket = t
  BY <1>2 DEF Comes, Seen
<1>4. w.id = s[i].id <=> w = s[i]
  BY <1>1, <1>3, ReconcileAssumption
<1>5. Outcomes(s)[i] = Outcome(s[i], Winners(s))
  BY DEF Outcomes
<1>6. QED
  BY <1>2, <1>3, <1>4, <1>5 DEF Outcome, Tells

-----------------------------------------------------------------------------
(* What the outcomes say.                                                  *)

Receives == received \in Seq(Receipts)

LEMMA ReceivesInvariant == Spec => []Receives
<1>1. Init => Receives
  BY DEF Init, Receives
<1>2. Receives /\ [Next]_received => Receives'
  BY DEF Receives, Next, Arrive
<1>3. QED
  BY <1>1, <1>2, PTL DEF Spec

\* A ticket's receipts seen by the end are those received.
LEMMA SeenIsReceived ==
  ASSUME NEW s \in Seq(Receipts), NEW t
  PROVE  Seen(s, Len(s), t) = {y \in ToSet(s) : y.ticket = t}
BY DEF Seen, ToSet

LEMMA FirstComes ==
  ASSUME Receives, NEW t, NEW w, Comes(w, Seen(received, Len(received), t))
  PROVE  First(t) = w
<1> DEFINE S == {y \in ToSet(received) : y.ticket = t}
<1>1. Seen(received, Len(received), t) = S
  BY SeenIsReceived DEF Receives
<1>2. S \subseteq Receipts
  BY DEF Receives, ToSet
<1>3. \A x \in S : Comes(x, S) <=>
        \A y \in ToSet(received) : y.ticket = t /\ y # x => Before(x, y)
  BY DEF Comes
<1>4. w \in S /\ Comes(w, S)
  BY <1>1 DEF Comes
<1>5. First(t) \in S /\ Comes(First(t), S)
  BY <1>3, <1>4 DEF First
<1>6. QED
  BY <1>2, <1>4, <1>5, OnlyOneComesFirst

\* Each ticket of which any scan has arrived admits once, whoever was first, and
\* every outcome says so, whatever the order of arrival and however often they
\* came (reconcile_verified_receipts).
THEOREM FirstScanWins == Spec => []OrderIsIrrelevant
<1>1. Receives => OrderIsIrrelevant
  <2> SUFFICES ASSUME Receives, NEW o \in ToSet(Outcomes(received))
               PROVE  /\ o.winner = First(o.ticket).id
                      /\ Accepted(o.ticket) = {First(o.ticket).id}
    BY DEF OrderIsIrrelevant
  <2>1. DOMAIN Outcomes(received) = DOMAIN received
    BY DEF Outcomes
  <2> DEFINE F(i) == First(received[i].ticket)
  <2>2. ASSUME NEW i \in DOMAIN received
        PROVE  /\ F(i) \in Receipts /\ F(i).ticket = received[i].ticket
               /\ F(i) \in Seen(received, Len(received), received[i].ticket)
               /\ Tells(Outcomes(received)[i], received[i], F(i))
    <3>1. PICK w \in Receipts : /\ Comes(w, Seen(received, Len(received), received[i].ticket))
                               /\ w.ticket = received[i].ticket
                               /\ Tells(Outcomes(received)[i], received[i], w)
      BY OutcomeTells DEF Receives
    <3>2. F(i) = w
      BY <3>1, FirstComes
    <3>3. w \in Seen(received, Len(received), received[i].ticket)
      BY <3>1 DEF Comes
    <3>4. QED
      BY <3>1, <3>2, <3>3
  <2>3. PICK i \in DOMAIN received : o = Outcomes(received)[i]
    BY <2>1 DEF ToSet
  <2> DEFINE t == received[i].ticket
  <2>4. o.ticket = t /\ o.winner = First(t).id
    BY <2>2, <2>3 DEF Tells
  <2>5. PICK k \in DOMAIN received : received[k] = First(t)
    <3>1. First(t) \in ToSet(received)
      BY <2>2, SeenIsReceived DEF Receives
    <3>2. QED
      BY <3>1 DEF ToSet
  <2>6. First(t).id \in Accepted(t)
    <3>1. received[k].ticket = t
      BY <2>2, <2>5
    <3>2. Outcomes(received)[k] \in ToSet(Outcomes(received))
      BY <2>1 DEF ToSet
    <3>3. /\ Outcomes(received)[k].ticket = t /\ Outcomes(received)[k].outcome = "accepted"
          /\ Outcomes(received)[k].receipt = First(t).id
      BY <2>2, <2>5, <3>1 DEF Tells
    <3>4. QED
      BY <3>2, <3>3 DEF Accepted
  <2>7. ASSUME NEW id \in Accepted(t) PROVE id = First(t).id
    <3>1. PICK e \in ToSet(Outcomes(received)) :
            e.ticket = t /\ e.outcome = "accepted" /\ e.receipt = id
      BY <2>7 DEF Accepted
    <3>2. PICK j \in DOMAIN received : e = Outcomes(received)[j]
      BY <2>1, <3>1 DEF ToSet
    <3>3. e.ticket = received[j].ticket /\ e.receipt = received[j].id
          /\ First(received[j].ticket) = received[j]
      BY <2>2, <3>1, <3>2 DEF Tells
    <3>4. QED
      BY <3>1, <3>3
  <2>8. QED
    BY <2>4, <2>6, <2>7
<1>2. QED
  BY <1>1, ReceivesInvariant, PTL

\* A receipt up for review is never accepted later: more receipts can only
\* replace the accepted one by an earlier scan (reconcile_verified_receipts).
THEOREM ReviewStays == Spec => ReviewIsFinal
<1> DEFINE Step == \A i \in DOMAIN received :
       Outcomes(received)[i].outcome = "duplicate_review"
         => Outcomes(received')[i].outcome = "duplicate_review"
<1>1. Receives /\ [Next]_received => Step \/ UNCHANGED received
  <2> SUFFICES ASSUME Receives, Next, NEW i \in DOMAIN received,
                      Outcomes(received)[i].outcome = "duplicate_review"
               PROVE  Outcomes(received')[i].outcome = "duplicate_review"
    OBVIOUS
  <2> DEFINE x == received[i]
             s == received
  <2>1. PICK y \in Receipts : received' = Append(received, y)
    BY DEF Next, Arrive
  <2> DEFINE r == Append(received, y)
  <2>2. /\ s \in Seq(Receipts) /\ r \in Seq(Receipts) /\ x \in Receipts
        /\ i \in DOMAIN r /\ r[i] = x
    BY DEF Receives
  <2>3. \A t : Seen(s, Len(s), t) \subseteq Seen(r, Len(r), t)
    <3>1. \A j \in DOMAIN s : j \in DOMAIN r /\ r[j] = s[j]
      BY <2>2
    <3>2. ToSet(s) \subseteq ToSet(r)
      BY <3>1 DEF ToSet
    <3> HIDE DEF r, s
    <3>3. ASSUME NEW t
          PROVE  /\ Seen(s, Len(s), t) = {z \in ToSet(s) : z.ticket = t}
                 /\ Seen(r, Len(r), t) = {z \in ToSet(r) : z.ticket = t}
      BY <2>2, SeenIsReceived
    <3>4. QED
      BY <3>2, <3>3
  <2>4. PICK w \in Receipts : /\ Comes(w, Seen(s, Len(s), x.ticket))
                             /\ Tells(Outcomes(s)[i], x, w)
    BY <2>2, OutcomeTells
  <2>5. PICK v \in Receipts : /\ Comes(v, Seen(r, Len(r), x.ticket))
                             /\ Tells(Outcomes(r)[i], x, v)
    BY <2>2, OutcomeTells
  <2>6. x \in Seen(s, Len(s), x.ticket)
    BY <2>2 DEF Seen
  <2>7. w # x
    BY <2>4 DEF Tells
  <2>8. Before(w, x) /\ w \in Seen(r, Len(r), x.ticket)
    BY <2>3, <2>4, <2>6, <2>7 DEF Comes
  <2>9. v # x
    BY <2>2, <2>5, <2>7, <2>8, BeforeOrders DEF Comes
  <2>10. Outcomes(r)[i].outcome = "duplicate_review"
    BY <2>5, <2>9 DEF Tells
  <2>11. QED
    BY <2>1, <2>10
<1>2. QED
  BY <1>1, ReceivesInvariant, PTL DEF Spec, ReviewIsFinal
=============================================================================
