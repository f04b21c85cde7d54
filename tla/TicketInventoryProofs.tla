------------------------ MODULE TicketInventoryProofs ------------------------
(***************************************************************************)
(* How far an event can be oversold, for any number of configurers, holds  *)
(* and ticket classes, all capacities and all times.                       *)
(***************************************************************************)
EXTENDS TicketInventory, FiniteSetTheorems, TLAPS

Promised == Unexpired(clock) \cup Paid

\* A hold's status tells whether its order is paid, an order is of a hold that was
\* made, and nothing is promised before there is a capacity.
HoldOK(h) ==
  /\ order[h] = "paid" <=> hold[h].status = "paid"
  /\ order[h] # "none" => hold[h].status \in {"held", "paid", "ended"}
  /\ hold[h].status = "waiting" => hold[h].quantity > 0

InventoryInv ==
  /\ TypeOK
  /\ \A h \in Holds : HoldOK(h)
  /\ capacity = 0 => Allocated = 0
  /\ OversoldOnlyByLate

-----------------------------------------------------------------------------
(* Sums of quantities.                                                     *)

TicketsOf(S, f) == {t \in S \X (1..MaxCapacity) : t[2] <= f[t[1]].quantity}
Sum(S, f) == Cardinality(TicketsOf(S, f))

LEMMA TicketsFinite ==
  ASSUME NEW S \in SUBSET Holds, NEW f
  PROVE  IsFiniteSet(TicketsOf(S, f)) /\ Sum(S, f) \in Nat
<1>1. IsFiniteSet(S)
  BY TicketInventoryAssumption, FS_Subset
<1>2. IsFiniteSet(1..MaxCapacity)
  BY TicketInventoryAssumption, FS_Interval
<1>3. IsFiniteSet(S \X (1..MaxCapacity))
  BY <1>1, <1>2, FS_Product
<1>4. TicketsOf(S, f) \subseteq S \X (1..MaxCapacity)
  BY DEF TicketsOf
<1>5. QED
  BY <1>3, <1>4, FS_Subset, FS_CardinalityType DEF Sum

LEMMA SumOfFewer ==
  ASSUME NEW T \in SUBSET Holds, NEW S \in SUBSET T, NEW f, NEW g,
         \A h \in S : g[h].quantity = f[h].quantity
  PROVE  Sum(S, g) <= Sum(T, f)
<1>1. TicketsOf(S, g) \subseteq TicketsOf(T, f)
  BY DEF TicketsOf
<1>2. QED
  BY <1>1, TicketsFinite, FS_Subset DEF Sum

LEMMA SumOfBoth ==
  ASSUME NEW S \in SUBSET Holds, NEW T \in SUBSET Holds, S \cap T = {}, NEW f
  PROVE  Sum(S \cup T, f) = Sum(S, f) + Sum(T, f)
<1>1. /\ TicketsOf(S \cup T, f) = TicketsOf(S, f) \cup TicketsOf(T, f)
      /\ TicketsOf(S, f) \cap TicketsOf(T, f) = {}
  BY DEF TicketsOf
<1>2. Cardinality({}) = 0
  BY FS_EmptySet
<1>3. IsFiniteSet(TicketsOf(S, f)) /\ IsFiniteSet(TicketsOf(T, f))
  BY TicketsFinite
<1>4. PICK A, B : A = TicketsOf(S, f) /\ B = TicketsOf(T, f)
  OBVIOUS
<1>5. Cardinality(A \cup B) = Cardinality(A) + Cardinality(B) - Cardinality(A \cap B)
  BY <1>3, <1>4, FS_Union
<1>6. A \cap B = {} /\ TicketsOf(S \cup T, f) = A \cup B
  BY <1>1, <1>4
<1>7. Sum(S, f) \in Nat /\ Sum(T, f) \in Nat
  BY TicketsFinite
<1>8. Sum(S \cup T, f) = Sum(S, f) + Sum(T, f) - 0
  BY <1>2, <1>4, <1>5, <1>6 DEF Sum
<1>9. QED
  BY <1>7, <1>8

LEMMA SumOfOne ==
  ASSUME NEW h \in Holds, NEW f, f[h].quantity \in 0..MaxCapacity
  PROVE  Sum({h}, f) = f[h].quantity
<1>1. PICK q \in 0..MaxCapacity : q = f[h].quantity
  OBVIOUS
<1>2. TicketsOf({h}, f) = {h} \X (1..q)
  <2>1. ASSUME NEW t \in TicketsOf({h}, f) PROVE t \in {h} \X (1..q)
    BY <1>1, <2>1, TicketInventoryAssumption DEF TicketsOf
  <2>2. ASSUME NEW i \in 1..q PROVE <<h, i>> \in TicketsOf({h}, f)
    BY <1>1, <2>2, TicketInventoryAssumption DEF TicketsOf
  <2>3. QED
    BY <2>1, <2>2
<1>3. IsFiniteSet({h}) /\ Cardinality({h}) = 1
  BY FS_Singleton
<1>4. q \in Nat
  BY TicketInventoryAssumption
<1>5. IsFiniteSet(1..q) /\ Cardinality(1..q) = q
  BY <1>4, FS_Interval
<1>6. Cardinality({h} \X (1..q)) = 1 * q
  BY <1>3, <1>5, FS_Product
<1>7. Cardinality({h} \X (1..q)) = q
  BY <1>4, <1>6
<1>8. QED
  BY <1>1, <1>2, <1>7 DEF Sum

LEMMA SumOfOneMore ==
  ASSUME NEW S \in SUBSET Holds, NEW h \in Holds \ S, NEW f, NEW g,
         \A x \in S : g[x].quantity = f[x].quantity,
         g[h].quantity \in 0..MaxCapacity
  PROVE  Sum(S \cup {h}, g) = Sum(S, f) + g[h].quantity
<1>1. TicketsOf(S, g) = TicketsOf(S, f)
  BY DEF TicketsOf
<1>2. Sum(S \cup {h}, g) = Sum(S, g) + Sum({h}, g)
  BY SumOfBoth
<1>3. QED
  BY <1>1, <1>2, SumOfOne DEF Sum

-----------------------------------------------------------------------------
(* What is promised.                                                       *)

LEMMA QuantityIs == ASSUME NEW S PROVE Quantity(S) = Sum(S, hold)
BY DEF Quantity, Sum, TicketsOf

LEMMA AllocatedIs == Allocated = Sum(Promised, hold) /\ Allocated' = Sum(Promised', hold')
BY DEF Allocated, Promised, Quantity, Sum, TicketsOf, Unexpired, Paid

LEMMA PromisedNat ==
  /\ Promised \subseteq Holds /\ Promised' \subseteq Holds
  /\ Allocated \in Nat /\ Allocated' \in Nat
<1>1. Promised \subseteq Holds /\ Promised' \subseteq Holds
  BY DEF Promised, Unexpired, Paid
<1>2. QED
  BY <1>1, AllocatedIs, TicketsFinite

\* The sums of configure_event count no hold twice.
LEMMA CountedOnce ==
  ASSUME \A h \in Holds : HoldOK(h)
  PROVE  Counted(clock) = Allocated
<1>1. Unexpired(clock) \cap Paid = {}
  BY DEF Unexpired, Paid, HoldOK
<1>2. Unexpired(clock) \subseteq Holds /\ Paid \subseteq Holds
  BY DEF Unexpired, Paid
<1>3. QED
  BY <1>1, <1>2, AllocatedIs, QuantityIs, SumOfBoth DEF Counted, Promised

LEMMA NotMore ==
  ASSUME Promised' \subseteq Promised,
         \A h \in Promised' : hold'[h].quantity = hold[h].quantity
  PROVE  Allocated' <= Allocated
BY AllocatedIs, PromisedNat, SumOfFewer

LEMMA OneMorePromised ==
  ASSUME NEW h \in Holds \ Promised, Promised' = Promised \cup {h},
         \A x \in Promised : hold'[x].quantity = hold[x].quantity,
         hold'[h].quantity \in 0..MaxCapacity
  PROVE  Allocated' = Allocated + hold'[h].quantity
<1>1. Promised \in SUBSET Holds
  BY PromisedNat
<1>2. Sum(Promised \cup {h}, hold') = Sum(Promised, hold) + hold'[h].quantity
  BY <1>1, SumOfOneMore, ZenonT(60)
<1>3. QED
  BY <1>2, AllocatedIs

-----------------------------------------------------------------------------
(* The steps.                                                              *)

LEMMA InventoryInit == Init => InventoryInv
<1> SUFFICES ASSUME Init PROVE InventoryInv
  OBVIOUS
<1>1. Promised = {}
  BY DEF Init, Promised, Unexpired, Paid, NoHold
<1>2. Sum({}, hold) = 0
  BY FS_EmptySet DEF Sum, TicketsOf
<1>3. Allocated = 0
  BY <1>1, <1>2, AllocatedIs
<1>4. TypeOK /\ \A h \in Holds : HoldOK(h)
  BY TicketInventoryAssumption DEF Init, TypeOK, HoldOK, Hold, NoHold
<1>5. QED
  BY <1>3, <1>4 DEF Init, InventoryInv, OversoldOnlyByLate

Keeps == /\ Promised' \subseteq Promised
         /\ \A h \in Promised' : hold'[h].quantity = hold[h].quantity
         /\ UNCHANGED <<capacity, late>>
         /\ TypeOK' /\ \A h \in Holds : HoldOK(h)'

LEMMA Kept == InventoryInv /\ Keeps => InventoryInv'
<1> SUFFICES ASSUME InventoryInv, Keeps PROVE InventoryInv'
  OBVIOUS
<1>1. Allocated' <= Allocated /\ Allocated' \in Nat /\ Allocated \in Nat
  BY NotMore, PromisedNat DEF Keeps
<1>2. capacity \in Nat /\ late \in Nat /\ capacity' = capacity /\ late' = late
  BY TicketInventoryAssumption DEF InventoryInv, TypeOK, Keeps
<1>3. QED
  BY <1>1, <1>2 DEF InventoryInv, Keeps, OversoldOnlyByLate

\* Steps that promise nothing more: time passes, holds expire or end, a hold
\* becomes an order, an order is paid.
LEMMA HoldsKept ==
  ASSUME InventoryInv, NEW h \in Holds,
         JoinWaitlist(h) \/ CreateOrder(h) \/ ConfirmPayment(h) \/ CancelOrder(h)
  PROVE  Keeps
<1> USE DEF InventoryInv, Keeps, TypeOK, HoldOK, Promised, Unexpired, Paid
<1>1. CASE JoinWaitlist(h)
  BY <1>1 DEF JoinWaitlist, NoHold, Hold, Capacities
<1>2. CASE CreateOrder(h)
  BY <1>2 DEF CreateOrder
<1>3. CASE ConfirmPayment(h)
  BY <1>3 DEF ConfirmPayment, Hold
<1>4. CASE CancelOrder(h)
  BY <1>4 DEF CancelOrder, Hold
<1>5. QED
  BY <1>1, <1>2, <1>3, <1>4

LEMMA OthersKept ==
  ASSUME InventoryInv,
         \/ Tick \/ ExpireHolds \/ UNCHANGED vars
         \/ \E c \in Classes : CreateTicketClass(c)
         \/ \E p \in Configurers : BeginConfigure(p) \/ RefuseConfigure(p)
  PROVE  Keeps
<1> USE DEF InventoryInv, Keeps, TypeOK, HoldOK, Promised, Unexpired, Paid
<1>1. CASE Tick
  BY <1>1, TicketInventoryAssumption DEF Tick, Hold
<1>2. CASE ExpireHolds
  <2>1. \A h \in Holds : /\ hold'[h] \in Hold /\ hold'[h].quantity = hold[h].quantity
                         /\ hold'[h].expires = hold[h].expires
                         /\ \/ hold'[h].status = hold[h].status
                            \/ hold[h].status = "held" /\ hold'[h].status = "ended"
    BY <1>2 DEF ExpireHolds, Hold
  <2>2. hold' \in [Holds -> Hold]
    BY <1>2, <2>1 DEF ExpireHolds
  <2>3. QED
    BY <1>2, <2>1, <2>2 DEF ExpireHolds
<1>3. CASE UNCHANGED vars
  BY <1>3 DEF vars
<1>4. ASSUME NEW c \in Classes, CreateTicketClass(c) PROVE Keeps
  BY <1>4 DEF CreateTicketClass, Capacities
<1>5. ASSUME NEW p \in Configurers, BeginConfigure(p) PROVE Keeps
  <2>1. Counted(clock) = Allocated /\ Allocated \in Nat
    BY CountedOnce, PromisedNat
  <2>2. PICK cap \in Capacities : asked' = [asked EXCEPT ![p] =
          [capacity |-> cap, counted |-> Counted(clock), allocated |-> Allocated]]
    BY <1>5 DEF BeginConfigure
  <2>3. QED
    BY <1>5, <2>1, <2>2 DEF BeginConfigure
<1>6. ASSUME NEW p \in Configurers, RefuseConfigure(p) PROVE Keeps
  BY <1>6 DEF RefuseConfigure
<1>7. QED
  BY <1>1, <1>2, <1>3, <1>4, <1>5, <1>6

\* A new capacity holds what was allocated when its statement began; what has
\* been allocated since is late.
LEMMA Configured ==
  ASSUME InventoryInv, NEW p \in Configurers, ApplyConfigure(p)
  PROVE  InventoryInv'
<1>1. /\ TypeOK /\ \A h \in Holds : HoldOK(h)
      /\ capacity = 0 => Allocated = 0
      /\ asked[p].counted = asked[p].allocated
      /\ asked[p] \in [capacity : Capacities, counted : Nat, allocated : Nat]
  BY DEF InventoryInv, ApplyConfigure, TypeOK
<1>2. /\ UNCHANGED <<clock, classCap, hold, order>> /\ capacity' = asked[p].capacity
      /\ late' = (IF Allocated > asked[p].allocated THEN Allocated - asked[p].allocated ELSE 0)
      /\ asked' = [asked EXCEPT ![p] = None]
      /\ capacity = 0 \/ asked[p].capacity >= asked[p].counted
  BY DEF ApplyConfigure, Allowed
<1>3. Promised' = Promised
  BY <1>2 DEF Promised, Unexpired, Paid
<1>4. Allocated' = Allocated /\ Allocated \in Nat
  BY <1>2, <1>3, AllocatedIs, PromisedNat
<1>5. capacity' \in 1..MaxCapacity /\ late' \in Nat
  BY <1>1, <1>2, <1>4 DEF Capacities
<1>6. Allocated <= capacity' + late'
  BY <1>1, <1>2, <1>4, <1>5, TicketInventoryAssumption DEF Capacities
<1>7. TypeOK' /\ \A h \in Holds : HoldOK(h)'
  BY <1>1, <1>2, <1>5, TicketInventoryAssumption DEF TypeOK, HoldOK
<1>8. capacity' # 0 /\ Allocated' <= capacity' + late'
  <2>1. capacity' # 0
    BY <1>5
  <2>2. Allocated' <= capacity' + late'
    BY <1>4, <1>6
  <2>3. QED
    BY <2>1, <2>2
<1>9. QED
  BY <1>7, <1>8 DEF InventoryInv, OversoldOnlyByLate

\* What is newly promised fits the capacity.
LEMMA Promises ==
  ASSUME InventoryInv, NEW h \in Holds, Reserve(h) \/ PromoteWaitlist(h)
  PROVE  InventoryInv'
<1>1. /\ TypeOK /\ \A x \in Holds : HoldOK(x)
      /\ Allocated \in Nat /\ capacity \in Nat /\ late \in Nat
  BY PromisedNat, TicketInventoryAssumption DEF InventoryInv, TypeOK
<1>2. PICK q \in Capacities, e \in Expiries :
        /\ hold[h].status \in {"none", "waiting"} /\ order[h] = "none"
        /\ Allocated + q <= capacity
        /\ hold' \in [Holds -> Hold] /\ \A x \in Holds \ {h} : hold'[x] = hold[x]
        /\ hold'[h].status = "held" /\ hold'[h].quantity = q /\ hold'[h].expires = e
        /\ UNCHANGED <<clock, capacity, classCap, order, asked, late>>
  <2>1. CASE Reserve(h)
    <3>1. PICK c \in Classes, q \in Capacities, e \in Expiries :
            /\ hold[h] = NoHold /\ Fits(c, q)
            /\ hold' = [hold EXCEPT ![h] =
                 [status |-> "held", class |-> c, quantity |-> q, expires |-> e]]
      BY <2>1 DEF Reserve
    <3>2. hold[h].status = "none" /\ order[h] = "none"
      BY <1>1, <3>1 DEF NoHold, HoldOK, TypeOK
    <3>3. [status |-> "held", class |-> c, quantity |-> q, expires |-> e] \in Hold
      BY <1>1, TicketInventoryAssumption DEF Hold, Capacities, Expiries, TypeOK
    <3>4. QED
      BY <1>1, <2>1, <3>1, <3>2, <3>3 DEF Reserve, Fits, TypeOK
  <2>2. CASE PromoteWaitlist(h)
    <3>1. PICK e \in Expiries :
            /\ hold[h].status = "waiting" /\ Fits(hold[h].class, hold[h].quantity)
            /\ hold' = [hold EXCEPT ![h].status = "held", ![h].expires = e]
      BY <2>2 DEF PromoteWaitlist
    <3>2. hold[h] \in Hold /\ hold[h].quantity \in Capacities /\ order[h] = "none"
      BY <1>1, <3>1, TicketInventoryAssumption DEF TypeOK, HoldOK, Hold, Capacities
    <3>3. e \in 0..(MaxTime + 1)
      BY <1>1, TicketInventoryAssumption DEF Expiries, TypeOK
    <3>4. /\ hold'[h].status = "held" /\ hold'[h].quantity = hold[h].quantity
          /\ hold'[h].expires = e /\ hold'[h] \in Hold
          /\ \A x \in Holds \ {h} : hold'[x] = hold[x]
      BY <1>1, <3>1, <3>2, <3>3 DEF TypeOK, Hold
    <3>5. hold' \in [Holds -> Hold]
      BY <1>1, <3>1, <3>4 DEF TypeOK
    <3>6. QED
      BY <1>1, <2>2, <3>1, <3>2, <3>4, <3>5 DEF PromoteWaitlist, Fits
  <2>3. QED
    BY <2>1, <2>2
<1>3. q \in 1..MaxCapacity
  BY DEF Capacities
<1>4. h \notin Promised /\ Promised' = Promised \cup {h}
  BY <1>1, <1>2, TicketInventoryAssumption
     DEF Promised, Unexpired, Paid, HoldOK, TypeOK, Expiries
<1>5. Allocated' = Allocated + q
  <2>1. \A x \in Promised : hold'[x].quantity = hold[x].quantity
    BY <1>2, <1>4, PromisedNat
  <2>2. hold'[h].quantity \in 0..MaxCapacity
    BY <1>2, <1>3, TicketInventoryAssumption
  <2>3. QED
    BY <1>2, <1>4, <2>1, <2>2, OneMorePromised
<1>6. Allocated' <= capacity' /\ capacity' > 0
  BY <1>1, <1>2, <1>3, <1>5, TicketInventoryAssumption
<1>7. TypeOK' /\ \A x \in Holds : HoldOK(x)'
  BY <1>1, <1>2, <1>3 DEF TypeOK, HoldOK
<1>8. QED
  BY <1>1, <1>2, <1>5, <1>6, <1>7, PromisedNat DEF InventoryInv, OversoldOnlyByLate

LEMMA InventoryStep == InventoryInv /\ [Next]_vars => InventoryInv'
<1> SUFFICES ASSUME InventoryInv, [Next]_vars PROVE InventoryInv'
  OBVIOUS
<1>1. CASE \/ Tick \/ ExpireHolds \/ UNCHANGED vars
           \/ \E c \in Classes : CreateTicketClass(c)
           \/ \E p \in Configurers : BeginConfigure(p) \/ RefuseConfigure(p)
  BY <1>1, OthersKept, Kept
<1>2. ASSUME NEW h \in Holds,
             JoinWaitlist(h) \/ CreateOrder(h) \/ ConfirmPayment(h) \/ CancelOrder(h)
      PROVE  InventoryInv'
  BY <1>2, HoldsKept, Kept
<1>3. ASSUME NEW p \in Configurers, ApplyConfigure(p) PROVE InventoryInv'
  BY <1>3, Configured
<1>4. ASSUME NEW h \in Holds, Reserve(h) \/ PromoteWaitlist(h) PROVE InventoryInv'
  BY <1>4, Promises
<1>5. QED
  BY <1>1, <1>2, <1>3, <1>4 DEF Next

LEMMA InventoryInvariant == Spec => []InventoryInv
BY InventoryInit, InventoryStep, PTL DEF Spec

\* Every variable has its type, and the sums of a statement count each promised
\* ticket once (configure_event).
THEOREM TypeCorrect == Spec => []TypeOK
<1>1. InventoryInv => TypeOK
  BY DEF InventoryInv
<1>2. QED
  BY <1>1, InventoryInvariant, PTL

\* The event is oversold at most by what was allocated while the statement that
\* set its capacity waited for its lock (configure_event).
THEOREM OversoldByRaceOnly == Spec => []OversoldOnlyByLate
<1>1. InventoryInv => OversoldOnlyByLate
  BY DEF InventoryInv
<1>2. QED
  BY <1>1, InventoryInvariant, PTL
=============================================================================
