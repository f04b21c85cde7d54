-------------------------- MODULE TicketInventory --------------------------
(***************************************************************************)
(* The ticket inventory of one event, as TicketingService (ticketing.rs)   *)
(* drives it. configure_event is a single statement of this repository     *)
(* that reads under the snapshot it started with and then waits for an     *)
(* advisory lock, so it is two steps here. Reservations, the waitlist,     *)
(* orders, payments, cancellations and expiry are database functions of    *)
(* evgl-interfaces, external to the repository: each is one atomic step    *)
(* that does what its callers and tests/ticketing_postgres.rs expect of    *)
(* it. A hold keeps its stock until it expires, is paid for (the order     *)
(* then keeps it) or ends with its order.                                  *)
(***************************************************************************)
EXTENDS Integers, FiniteSets

CONSTANTS
  Configurers,  \* callers of configure_event
  Holds,        \* reservations and waitlist entries, by key; an order has its
                \* hold's name, and a waitlist entry that of the hold it is offered
  Classes,      \* ticket classes
  MaxCapacity,  \* bound of the capacities and quantities asked for
  MaxTime,      \* bound of the clock
  None

ASSUME TicketInventoryAssumption ==
  /\ MaxCapacity \in Nat \ {0} /\ MaxTime \in Nat
  /\ IsFiniteSet(Holds)

VARIABLES
  clock,     \* Utc::now() of a caller; a step passes it to its function
  capacity,  \* event_inventory.capacity; 0: the event has no row
  classCap,  \* [Classes -> capacity; 0: not created]
  hold,      \* [Holds -> row of ticket_holds]
  order,     \* [Holds -> status in ticket_orders]
  asked,     \* [Configurers -> configure_event under way]
  late       \* stock allocated while the statement of the last change ran

vars == <<clock, capacity, classCap, hold, order, asked, late>>

Capacities == 1..MaxCapacity

Hold == [status : {"none", "waiting", "held", "paid", "ended"}, class : Classes \cup {None},
         quantity : 0..MaxCapacity, expires : 0..(MaxTime + 1)]
NoHold == [status |-> "none", class |-> None, quantity |-> 0, expires |-> 0]

Init ==
  /\ clock = 0 /\ capacity = 0 /\ late = 0
  /\ classCap = [c \in Classes |-> 0]
  /\ hold  = [h \in Holds |-> NoHold]
  /\ order = [h \in Holds |-> "none"]
  /\ asked = [p \in Configurers |-> None]

Tick == clock < MaxTime /\ clock' = clock + 1
        /\ UNCHANGED <<capacity, classCap, hold, order, asked, late>>

-----------------------------------------------------------------------------
(* Stock.                                                                  *)

\* The sum of the holds' quantities: how many tickets they are for.
Quantity(hs) ==
  Cardinality({t \in hs \X (1..MaxCapacity) : t[2] <= hold[t[1]].quantity})

Unexpired(now) == {h \in Holds : hold[h].status = "held" /\ hold[h].expires > now}
Paid           == {h \in Holds : order[h] = "paid"}

\* What is promised to somebody at this moment.
Allocated == Quantity(Unexpired(clock) \cup Paid)

\* The sums of configure_event, under its snapshot.
Counted(now) == Quantity(Unexpired(now)) + Quantity(Paid)

-----------------------------------------------------------------------------
(* configure_event and create_ticket_class.                                *)

\* The statement starts: its snapshot fixes the sums, then it waits for the lock.
BeginConfigure(p) == \E cap \in Capacities :
  /\ asked[p] = None
  /\ asked' = [asked EXCEPT ![p] =
       [capacity |-> cap, counted |-> Counted(clock), allocated |-> Allocated]]
  /\ UNCHANGED <<clock, capacity, classCap, hold, order, late>>

\* Mutant: any capacity is taken.
AnyAllowed(p) == TRUE

\* A first configuration inserts the row; a later one is refused below the sums.
Allowed(p) == capacity = 0 \/ asked[p].capacity >= asked[p].counted

ApplyConfigure(p) ==
  /\ asked[p] # None
  /\ Allowed(p)
  /\ capacity' = asked[p].capacity
  /\ late' = IF Allocated > asked[p].allocated THEN Allocated - asked[p].allocated ELSE 0
  /\ asked' = [asked EXCEPT ![p] = None]
  /\ UNCHANGED <<clock, classCap, hold, order>>

RefuseConfigure(p) ==
  /\ asked[p] # None
  /\ ~Allowed(p)
  /\ asked' = [asked EXCEPT ![p] = None]
  /\ UNCHANGED <<clock, capacity, classCap, hold, order, late>>

\* The class fits the event when it is created; the event may shrink later.
CreateTicketClass(c) == \E cap \in Capacities :
  /\ classCap[c] = 0
  /\ cap <= capacity
  /\ classCap' = [classCap EXCEPT ![c] = cap]
  /\ UNCHANGED <<clock, capacity, hold, order, asked, late>>

-----------------------------------------------------------------------------
(* The database functions.                                                 *)

Of(c) == {h \in Holds : hold[h].class = c}

Fits(c, q) ==
  /\ Quantity((Unexpired(clock) \cup Paid) \cap Of(c)) + q <= classCap[c]
  /\ Allocated + q <= capacity

Expiries == (clock + 1)..(MaxTime + 1)

Reserve(h) == \E c \in Classes, q \in Capacities, e \in Expiries :
  /\ hold[h] = NoHold
  /\ Fits(c, q)
  /\ hold' = [hold EXCEPT ![h] =
       [status |-> "held", class |-> c, quantity |-> q, expires |-> e]]
  /\ UNCHANGED <<clock, capacity, classCap, order, asked, late>>

JoinWaitlist(h) == \E c \in Classes, q \in Capacities :
  /\ hold[h] = NoHold
  /\ classCap[c] > 0
  /\ hold' = [hold EXCEPT ![h] =
       [status |-> "waiting", class |-> c, quantity |-> q, expires |-> 0]]
  /\ UNCHANGED <<clock, capacity, classCap, order, asked, late>>

\* The offer is a hold. Whom the function chooses is not assumed.
PromoteWaitlist(h) == \E e \in Expiries :
  /\ hold[h].status = "waiting"
  /\ Fits(hold[h].class, hold[h].quantity)
  /\ hold' = [hold EXCEPT ![h].status = "held", ![h].expires = e]
  /\ UNCHANGED <<clock, capacity, classCap, order, asked, late>>

CreateOrder(h) ==
  /\ h \in Unexpired(clock) /\ order[h] = "none"
  /\ order' = [order EXCEPT ![h] = "pending"]
  /\ UNCHANGED <<clock, capacity, classCap, hold, asked, late>>

ConfirmPayment(h) ==
  /\ h \in Unexpired(clock) /\ order[h] = "pending"
  /\ order' = [order EXCEPT ![h] = "paid"]
  /\ hold'  = [hold EXCEPT ![h].status = "paid"]
  /\ UNCHANGED <<clock, capacity, classCap, asked, late>>

CancelOrder(h) ==
  /\ order[h] \in {"pending", "paid"}
  /\ order' = [order EXCEPT ![h] = "cancelled"]
  /\ hold'  = [hold EXCEPT ![h].status = "ended"]
  /\ UNCHANGED <<clock, capacity, classCap, asked, late>>

ExpireHolds ==
  /\ hold' = [h \in Holds |->
       IF hold[h].status = "held" /\ hold[h].expires <= clock
       THEN [hold[h] EXCEPT !.status = "ended"] ELSE hold[h]]
  /\ UNCHANGED <<clock, capacity, classCap, order, asked, late>>

-----------------------------------------------------------------------------
Next ==
  \/ Tick \/ ExpireHolds
  \/ \E p \in Configurers : BeginConfigure(p) \/ ApplyConfigure(p) \/ RefuseConfigure(p)
  \/ \E c \in Classes : CreateTicketClass(c)
  \/ \E h \in Holds : Reserve(h) \/ JoinWaitlist(h) \/ PromoteWaitlist(h)
                     \/ CreateOrder(h) \/ ConfirmPayment(h) \/ CancelOrder(h)

Spec == Init /\ [][Next]_vars

-----------------------------------------------------------------------------
\* Every variable has its type, and the sums of a statement count each promised
\* ticket once: no hold is summed again with the order that paid for it.
TypeOK ==
  /\ clock \in 0..MaxTime /\ capacity \in 0..MaxCapacity /\ late \in Nat
  /\ classCap \in [Classes -> 0..MaxCapacity]
  /\ hold \in [Holds -> Hold]
  /\ order \in [Holds -> {"none", "pending", "paid", "cancelled"}]
  /\ asked \in [Configurers -> {None} \cup [capacity : Capacities, counted : Nat, allocated : Nat]]
  /\ \A p \in Configurers : asked[p] # None => asked[p].counted = asked[p].allocated

\* "event capacity cannot be reduced below allocated stock" (configure_event).
CapacityCoversStock == [][capacity' < capacity => capacity' >= Allocated']_vars

\* The event is oversold at most by the stock that was allocated while the
\* statement that set its capacity ran: whatever is reserved, paid, cancelled
\* or expires before and after, and however many configure at once.
OversoldOnlyByLate == capacity > 0 => Allocated <= capacity + late
=============================================================================
