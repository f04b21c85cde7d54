----------------------- MODULE AdmissionServiceProofs -----------------------
(***************************************************************************)
(* Theorems about the admission service, for every set of calls, orders,   *)
(* keys, entitlements, tokens and receipts; and, from "Doors and server"   *)
(* on, about the doors and the service together, for every set of          *)
(* scanners, snapshots of any age and receipts that come in any order,     *)
(* any time later.                                                         *)
(***************************************************************************)
EXTENDS OfflineAdmission, FiniteSetTheorems, WellFoundedInduction, TLAPS

\* A call under way carries an argument of its operation.
CallRecords ==
  {Idle} \cup [op : {"entitlement"}, arg : Entitlements, found : BOOLEAN]
         \cup [op : {"token"}, arg : Tokens, found : BOOLEAN]
         \cup [op : {"receipt"}, arg : Receipts, found : BOOLEAN]

RowTypes ==
  /\ signingKey \subseteq SigningKeys /\ scannerKey \subseteq ScannerKeys
  /\ entitlement \subseteq [of : Entitlements, valid : BOOLEAN]
  /\ token \subseteq [of : Tokens, valid : BOOLEAN]
  /\ receipt \subseteq [of : Receipts, valid : BOOLEAN]

\* A ticket and a token's id have one row.
OneRowEach ==
  /\ \A r, s \in entitlement : r.of.ticket = s.of.ticket => r = s
  /\ \A r, s \in token : r.of.id = s.of.id => r = s

StateTypes ==
  /\ order \in [DOMAIN OrderEvent -> {"pending", "paid", "cancelled"}]
  /\ paid \subseteq DOMAIN OrderEvent
  /\ call \in [Calls -> CallRecords]

TypeInv == RowTypes /\ OneRowEach /\ StateTypes

\* The kinds of steps.
Sells == \E o \in DOMAIN OrderEvent : Pay(o) \/ Cancel(o)

RegistersKey == \/ \E d \in SigningKeys : RegisterSigningKey(d)
                \/ \E d \in ScannerKeys : RegisterScannerKey(d)

Begins(c) == \/ \E e \in Entitlements : BeginEntitlement(c, e)
             \/ \E x \in Tokens : BeginToken(c, x)
             \/ \E x \in Receipts : BeginReceipt(c, x)

Ends(c) == Drop(c) \/ InsertEntitlement(c) \/ InsertToken(c) \/ StoreReceipt(c)

LEMMA Steps ==
  [Next]_vars <=> \/ Sells
                  \/ RegistersKey
                  \/ \E c \in Calls : Begins(c)
                  \/ \E c \in Calls : Ends(c)
                  \/ \E t \in Tickets : Revoke(t)
                  \/ UNCHANGED vars
BY DEF Next, Sells, RegistersKey, Begins, Ends

-----------------------------------------------------------------------------
(* Facts about calls and statements.                                       *)

\* What a call under way carries, by its operation.
LEMMA CallTypes ==
  ASSUME StateTypes, NEW c \in Calls
  PROVE  /\ call[c].op \in {"idle", "entitlement", "token", "receipt"}
         /\ call[c].found \in BOOLEAN
         /\ call[c].op = "entitlement" => call[c].arg \in Entitlements
         /\ call[c].op = "token" => call[c].arg \in Tokens
         /\ call[c].op = "receipt" => call[c].arg \in Receipts
<1>1. call[c] \in CallRecords
  BY DEF StateTypes
<1>2. call[c].found \in BOOLEAN
  <2>1. \A S, T : \A k \in [op : S, arg : T, found : BOOLEAN] : k.found \in BOOLEAN
    BY Zenon
  <2>2. Idle.found \in BOOLEAN
    BY DEF Idle
  <2>3. QED
    BY <1>1, <2>1, <2>2, Zenon DEF CallRecords
<1>3. QED
  BY <1>1, <1>2 DEF CallRecords, Idle

\* A call that ends leaves the others as they were.
LEMMA EndTypes ==
  ASSUME StateTypes, NEW c \in Calls, End(c)
  PROVE  /\ call' \in [Calls -> CallRecords]
         /\ \A b \in Calls : call'[b].op # "idle" => call'[b] = call[b]
BY DEF StateTypes, CallRecords, End, Idle

\* One that begins carries what its statement found.
LEMMA BeginTypes ==
  ASSUME StateTypes, NEW c \in Calls, NEW op, NEW arg, NEW found \in BOOLEAN,
         [op |-> op, arg |-> arg, found |-> found] \in CallRecords,
         Begin(c, op, arg, found)
  PROVE  /\ call' \in [Calls -> CallRecords]
         /\ call'[c] = [op |-> op, arg |-> arg, found |-> found]
         /\ \A b \in Calls \ {c} : call'[b] = call[b]
BY DEF StateTypes, Begin

\* A registration that returns a row finds it stored, as a new row or the one
\* that was there, and no other row changes.
LEMMA InsertStores ==
  ASSUME NEW rows, NEW stored, NEW old, NEW new, Returns(stored, old),
         stored # {} => old \in rows
  PROVE  /\ rows \subseteq Insert(rows, stored, new)
         /\ Insert(rows, stored, new) \subseteq rows \cup {new}
         /\ new \in Insert(rows, stored, new) \/ Insert(rows, stored, new) = rows
BY DEF Insert

-----------------------------------------------------------------------------
(* Types.                                                                  *)

LEMMA TypesInit == Init => TypeInv
BY DEF Init, TypeInv, RowTypes, OneRowEach, StateTypes, CallRecords, Idle

LEMMA TypesOrder ==
  ASSUME TypeInv, Sells
  PROVE  TypeInv'
<1>1. UNCHANGED <<tables, call>>
  BY DEF Sells, Pay, Cancel
<1>2. RowTypes' /\ OneRowEach'
  BY <1>1 DEF TypeInv, RowTypes, OneRowEach, tables
<1>3. StateTypes'
  BY <1>1 DEF TypeInv, StateTypes, Sells, Pay, Cancel
<1>4. QED
  BY <1>2, <1>3 DEF TypeInv

LEMMA TypesKeys ==
  ASSUME TypeInv, RegistersKey
  PROVE  TypeInv'
<1> USE DEF RegistersKey
<1>1. UNCHANGED <<order, entitlement, token, receipt, call, paid>>
  BY DEF RegisterSigningKey, RegisterScannerKey
<1>2. signingKey' \subseteq SigningKeys /\ scannerKey' \subseteq ScannerKeys
  BY DEF RegisterSigningKey, RegisterScannerKey, Insert, TypeInv, RowTypes
<1>3. QED
  BY <1>1, <1>2 DEF TypeInv, RowTypes, OneRowEach, StateTypes

LEMMA TypesBegin ==
  ASSUME TypeInv, NEW c \in Calls, Begins(c)
  PROVE  TypeInv'
<1> USE DEF Begins
<1>1. UNCHANGED <<order, tables, paid>>
  BY DEF BeginEntitlement, BeginToken, BeginReceipt
<1>2. PICK k \in CallRecords : call' = [call EXCEPT ![c] = k]
  <2>1. CASE \E e \in Entitlements : BeginEntitlement(c, e)
    <3>1. PICK e \in Entitlements : BeginEntitlement(c, e)
      BY <2>1
    <3>2. PaidFor(e) \in BOOLEAN
      BY DEF PaidFor
    <3>3. QED
      BY <3>1, <3>2 DEF BeginEntitlement, Begin, CallRecords
  <2>2. CASE \E x \in Tokens : BeginToken(c, x)
    <3>1. PICK x \in Tokens : BeginToken(c, x)
      BY <2>2
    <3>2. Issuable(x) \in BOOLEAN
      BY DEF Issuable
    <3>3. QED
      BY <3>1, <3>2 DEF BeginToken, Begin, CallRecords
  <2>3. CASE \E x \in Receipts : BeginReceipt(c, x)
    <3>1. PICK x \in Receipts : BeginReceipt(c, x)
      BY <2>3
    <3>2. Candidate(x) \in BOOLEAN
      BY DEF Candidate
    <3>3. QED
      BY <3>1, <3>2 DEF BeginReceipt, Begin, CallRecords
  <2>4. QED
    BY <2>1, <2>2, <2>3
<1>3. RowTypes' /\ OneRowEach'
  BY <1>1 DEF TypeInv, RowTypes, OneRowEach, tables
<1>4. StateTypes'
  BY <1>1, <1>2 DEF TypeInv, StateTypes
<1>5. QED
  BY <1>3, <1>4 DEF TypeInv

\* A row inserted where there was none with its key.
LEMMA TypesInsert ==
  ASSUME TypeInv, NEW c \in Calls, Ends(c)
  PROVE  TypeInv'
<1>1. StateTypes'
  <2>1. UNCHANGED <<order, paid>> /\ End(c)
    BY DEF Ends, InsertEntitlement, InsertToken, StoreReceipt, Drop
  <2>2. QED
    BY <2>1, EndTypes DEF TypeInv, StateTypes
<1>2. CASE InsertEntitlement(c)
  <2>1. /\ UNCHANGED <<signingKey, scannerKey, token, receipt>> /\ call[c].op = "entitlement"
        /\ entitlement' = Insert(entitlement, SameTicket(call[c].arg), Active(call[c].arg))
    BY <1>2 DEF InsertEntitlement
  <2>2. Active(call[c].arg) \in [of : Entitlements, valid : BOOLEAN]
    BY <2>1, CallTypes DEF TypeInv, Active
  <2>3. entitlement' \subseteq [of : Entitlements, valid : BOOLEAN]
    BY <2>1, <2>2 DEF TypeInv, RowTypes, Insert
  <2>4. \A r, s \in entitlement' : r.of.ticket = s.of.ticket => r = s
    <3>1. CASE SameTicket(call[c].arg) = {}
      <4>1. \A r \in entitlement : r.of.ticket # call[c].arg.ticket
        BY <3>1 DEF SameTicket, Registered
      <4>2. entitlement' = entitlement \cup {Active(call[c].arg)} /\ Active(call[c].arg).of = call[c].arg
        BY <2>1, <3>1 DEF Insert, Active
      <4>3. QED
        BY <4>1, <4>2 DEF TypeInv, OneRowEach
    <3>2. CASE SameTicket(call[c].arg) # {}
      BY <2>1, <3>2 DEF Insert, TypeInv, OneRowEach
    <3>3. QED
      BY <3>1, <3>2
  <2>5. QED
    BY <1>1, <2>1, <2>3, <2>4 DEF TypeInv, RowTypes, OneRowEach
<1>3. CASE InsertToken(c)
  <2>1. /\ UNCHANGED <<signingKey, scannerKey, entitlement, receipt>> /\ call[c].op = "token"
        /\ token' = Insert(token, SameToken(call[c].arg), Active(call[c].arg))
    BY <1>3 DEF InsertToken
  <2>2. Active(call[c].arg) \in [of : Tokens, valid : BOOLEAN]
    BY <2>1, CallTypes DEF TypeInv, Active
  <2>3. token' \subseteq [of : Tokens, valid : BOOLEAN]
    BY <2>1, <2>2 DEF TypeInv, RowTypes, Insert
  <2>4. \A r, s \in token' : r.of.id = s.of.id => r = s
    <3>1. CASE SameToken(call[c].arg) = {}
      <4>1. \A r \in token : r.of.id # call[c].arg.id
        BY <3>1 DEF SameToken, Registered
      <4>2. token' = token \cup {Active(call[c].arg)} /\ Active(call[c].arg).of = call[c].arg
        BY <2>1, <3>1 DEF Insert, Active
      <4>3. QED
        BY <4>1, <4>2 DEF TypeInv, OneRowEach
    <3>2. CASE SameToken(call[c].arg) # {}
      BY <2>1, <3>2 DEF Insert, TypeInv, OneRowEach
    <3>3. QED
      BY <3>1, <3>2
  <2>5. QED
    BY <1>1, <2>1, <2>3, <2>4 DEF TypeInv, RowTypes, OneRowEach
<1>4. CASE StoreReceipt(c)
  <2>1. /\ UNCHANGED <<signingKey, scannerKey, entitlement, token>> /\ call[c].op = "receipt"
        /\ receipt' \subseteq receipt \cup {[of |-> call[c].arg, valid |-> call[c].found]}
    BY <1>4 DEF StoreReceipt
  <2>2. [of |-> call[c].arg, valid |-> call[c].found] \in [of : Receipts, valid : BOOLEAN]
    BY <2>1, CallTypes DEF TypeInv
  <2>3. QED
    BY <1>1, <2>1, <2>2 DEF TypeInv, RowTypes, OneRowEach
<1>5. CASE Drop(c)
  BY <1>1, <1>5 DEF Drop, tables, TypeInv, RowTypes, OneRowEach
<1>6. QED
  BY <1>2, <1>3, <1>4, <1>5 DEF Ends

LEMMA TypesRevoke == ASSUME TypeInv, NEW t \in Tickets, Revoke(t) PROVE TypeInv'
<1> DEFINE void(rows) == {[r EXCEPT !.valid = r.valid /\ r.of.ticket # t] : r \in rows}
<1>1. /\ UNCHANGED <<order, signingKey, scannerKey, call, paid>>
      /\ entitlement' = void(entitlement) /\ token' = void(token) /\ receipt' = void(receipt)
  BY DEF Revoke
<1>2. RowTypes'
  <2>1. entitlement' \subseteq [of : Entitlements, valid : BOOLEAN]
    BY <1>1 DEF TypeInv, RowTypes
  <2>2. token' \subseteq [of : Tokens, valid : BOOLEAN]
    BY <1>1 DEF TypeInv, RowTypes
  <2>3. receipt' \subseteq [of : Receipts, valid : BOOLEAN]
    BY <1>1 DEF TypeInv, RowTypes
  <2>4. QED
    BY <1>1, <2>1, <2>2, <2>3 DEF TypeInv, RowTypes
<1>3. \A r, s \in entitlement' : r.of.ticket = s.of.ticket => r = s
  <2>1. \A r \in entitlement' : \E a \in entitlement :
          r = [a EXCEPT !.valid = a.valid /\ a.of.ticket # t] /\ r.of = a.of
    BY <1>1 DEF TypeInv, RowTypes
  <2>2. QED
    BY <2>1 DEF TypeInv, OneRowEach
<1>4. \A r, s \in token' : r.of.id = s.of.id => r = s
  <2>1. \A r \in token' : \E a \in token :
          r = [a EXCEPT !.valid = a.valid /\ a.of.ticket # t] /\ r.of = a.of
    BY <1>1 DEF TypeInv, RowTypes
  <2>2. QED
    BY <2>1 DEF TypeInv, OneRowEach
<1>5. StateTypes'
  BY <1>1 DEF TypeInv, StateTypes
<1>6. QED
  BY <1>2, <1>3, <1>4, <1>5 DEF TypeInv, OneRowEach

LEMMA TypesStep == TypeInv /\ [Next]_vars => TypeInv'
<1>1. TypeInv /\ UNCHANGED vars => TypeInv'
  BY DEF vars, tables, TypeInv, RowTypes, OneRowEach, StateTypes
<1>2. QED
  BY <1>1, Steps, TypesOrder, TypesKeys, TypesBegin, TypesInsert, TypesRevoke

LEMMA TypesInvariant == Spec => []TypeInv
BY TypesInit, TypesStep, PTL DEF Spec

\* Every variable has its type, and a ticket or token has one row with one status.
THEOREM TypeCorrect == Spec => []TypeOK
<1>1. TypeInv => TypeOK
  BY CallTypes DEF TypeInv, RowTypes, OneRowEach, StateTypes, TypeOK
<1>2. QED
  BY <1>1, TypesInvariant, PTL

-----------------------------------------------------------------------------
(* What a step may do to the rows and the calls, whichever action it is.   *)

\* A revocation changes nothing of a row but its status, and that to void only.
LEMMA RevokeRows ==
  ASSUME TypeInv, NEW t \in Tickets, Revoke(t)
  PROVE  /\ Registered(entitlement)' = Registered(entitlement)
         /\ Registered(token)' = Registered(token)
         /\ Registered(receipt)' = Registered(receipt)
         /\ \A r \in entitlement' : \E s \in entitlement :
              r.of = s.of /\ r.valid = (s.valid /\ s.of.ticket # t)
         /\ \A r \in token' : \E s \in token : r.of = s.of /\ (r.valid => s.valid)
         /\ \A r \in receipt' : \E s \in receipt :
              r.of = s.of /\ r.valid = (s.valid /\ s.of.ticket # t)
         /\ \A s \in receipt : \E r \in receipt' :
              r.of = s.of /\ r.valid = (s.valid /\ s.of.ticket # t)
<1> DEFINE new(r) == [r EXCEPT !.valid = r.valid /\ r.of.ticket # t]
           void(rows) == {new(r) : r \in rows}
<1>1. entitlement' = void(entitlement) /\ token' = void(token) /\ receipt' = void(receipt)
  BY DEF Revoke
<1>2. \A r \in entitlement \cup token \cup receipt :
        new(r).of = r.of /\ new(r).valid = (r.valid /\ r.of.ticket # t)
  BY DEF TypeInv, RowTypes
<1> HIDE DEF new
<1>3. Registered(entitlement)' = Registered(entitlement)
  BY <1>1, <1>2 DEF Registered
<1>4. Registered(token)' = Registered(token)
  BY <1>1, <1>2 DEF Registered
<1>5. Registered(receipt)' = Registered(receipt)
  BY <1>1, <1>2 DEF Registered
<1>6. \A r \in entitlement' : \E s \in entitlement :
        r.of = s.of /\ r.valid = (s.valid /\ s.of.ticket # t)
  BY <1>1, <1>2
<1>7. \A r \in token' : \E s \in token : r.of = s.of /\ (r.valid => s.valid)
  BY <1>1, <1>2
<1>8. \A r \in receipt' : \E s \in receipt :
        r.of = s.of /\ r.valid = (s.valid /\ s.of.ticket # t)
  BY <1>1, <1>2
<1>9. \A s \in receipt : \E r \in receipt' :
        r.of = s.of /\ r.valid = (s.valid /\ s.of.ticket # t)
  BY <1>1, <1>2
<1>10. QED
  BY <1>3, <1>4, <1>5, <1>6, <1>7, <1>8, <1>9

\* Nothing registered, and no receipt, is ever removed.
LEMMA RowsKept ==
  ASSUME TypeInv, [Next]_vars
  PROVE  /\ paid \subseteq paid'
         /\ signingKey \subseteq signingKey' /\ scannerKey \subseteq scannerKey'
         /\ Registered(entitlement) \subseteq Registered(entitlement)'
         /\ Registered(token) \subseteq Registered(token)'
         /\ Registered(receipt) \subseteq Registered(receipt)'
<1>1. CASE \E t \in Tickets : Revoke(t)
  BY <1>1, RevokeRows DEF Revoke
<1>2. ASSUME NEW c \in Calls, Ends(c)
      PROVE  /\ UNCHANGED <<paid, signingKey, scannerKey>>
             /\ entitlement \subseteq entitlement' /\ token \subseteq token' /\ receipt \subseteq receipt'
  BY <1>2 DEF Ends, InsertEntitlement, InsertToken, StoreReceipt, Drop, Insert, tables
<1>3. ASSUME NEW c \in Calls, Begins(c) PROVE UNCHANGED <<paid, tables>>
  BY <1>3 DEF Begins, BeginEntitlement, BeginToken, BeginReceipt
<1>4. ASSUME RegistersKey
      PROVE  /\ UNCHANGED <<paid, entitlement, token, receipt>>
             /\ signingKey \subseteq signingKey' /\ scannerKey \subseteq scannerKey'
  BY <1>4 DEF RegistersKey, RegisterSigningKey, RegisterScannerKey, Insert
<1>5. ASSUME Sells PROVE UNCHANGED tables /\ paid \subseteq paid'
  BY <1>5 DEF Sells, Pay, Cancel
<1>6. QED
  BY <1>1, <1>2, <1>3, <1>4, <1>5, Steps DEF vars, tables, Registered

\* A call after a step: none, the one that was there, or one whose first
\* statement was this step.
Found(k, op, S, found) == k.op = op /\ k.arg \in S /\ (k.found => found)

LEMMA CallsFrom ==
  ASSUME TypeInv, [Next]_vars, NEW c \in Calls, call'[c].op # "idle"
  PROVE  \/ call'[c] = call[c]
         \/ Found(call'[c], "entitlement", Entitlements, PaidFor(call'[c].arg))
         \/ Found(call'[c], "token", Tokens, Issuable(call'[c].arg))
         \/ /\ Found(call'[c], "receipt", Receipts, Candidate(call'[c].arg))
            /\ KeyKnown(call'[c].arg)
<1>1. CASE UNCHANGED call
  BY <1>1
<1>2. ASSUME NEW b \in Calls, End(b) PROVE call'[c] = call[c]
  BY <1>2, EndTypes DEF TypeInv
<1>3. ASSUME NEW b \in Calls, NEW e \in Entitlements, BeginEntitlement(b, e)
      PROVE  \/ call'[c] = call[c]
             \/ Found(call'[c], "entitlement", Entitlements, PaidFor(call'[c].arg))
  BY <1>3 DEF TypeInv, StateTypes, BeginEntitlement, Begin, Found
<1>4. ASSUME NEW b \in Calls, NEW x \in Tokens, BeginToken(b, x)
      PROVE  \/ call'[c] = call[c]
             \/ Found(call'[c], "token", Tokens, Issuable(call'[c].arg))
  BY <1>4 DEF TypeInv, StateTypes, BeginToken, Begin, Found
<1>5. ASSUME NEW b \in Calls, NEW x \in Receipts, BeginReceipt(b, x)
      PROVE  \/ call'[c] = call[c]
             \/ /\ Found(call'[c], "receipt", Receipts, Candidate(call'[c].arg))
                /\ KeyKnown(call'[c].arg)
  BY <1>5 DEF TypeInv, StateTypes, BeginReceipt, Begin, Found
<1>6. CASE \E b \in Calls : Ends(b)
  BY <1>2, <1>6 DEF Ends, Drop, InsertEntitlement, InsertToken, StoreReceipt
<1>7. CASE \E b \in Calls : Begins(b)
  BY <1>3, <1>4, <1>5, <1>7 DEF Begins
<1>8. CASE Sells \/ RegistersKey \/ \E t \in Tickets : Revoke(t)
  BY <1>1, <1>8 DEF Sells, Pay, Cancel, RegistersKey, RegisterSigningKey, RegisterScannerKey, Revoke
<1>9. QED
  BY <1>1, <1>6, <1>7, <1>8, Steps DEF vars

\* A row of an entitlement, a token or a receipt was there, at least as good, or
\* a call stored it.
StoredBy(op, r) ==
  \E c \in Calls : /\ call[c].op = op /\ call[c].arg = r.of
                   /\ call[c].found \/ (op = "receipt" /\ ~r.valid)

RowWas(rows, r) == \E s \in rows : s.of = r.of /\ (r.valid => s.valid)

LEMMA RowsFrom ==
  ASSUME TypeInv, [Next]_vars
  PROVE  /\ \A r \in entitlement' : RowWas(entitlement, r) \/ StoredBy("entitlement", r)
         /\ \A r \in token' : RowWas(token, r) \/ StoredBy("token", r)
         /\ \A r \in receipt' : RowWas(receipt, r) \/ StoredBy("receipt", r)
<1>1. CASE \E t \in Tickets : Revoke(t)
  <2>1. PICK t \in Tickets : Revoke(t)
    BY <1>1
  <2>2. \A r \in entitlement' : RowWas(entitlement, r)
    <3>1. \A r \in entitlement' : \E q \in entitlement :
            r.of = q.of /\ r.valid = (q.valid /\ q.of.ticket # t)
      BY <2>1, RevokeRows
    <3>2. QED
      BY <3>1, Zenon DEF RowWas
  <2>3. \A r \in token' : RowWas(token, r)
    <3>1. \A r \in token' : \E q \in token : r.of = q.of /\ (r.valid => q.valid)
      BY <2>1, RevokeRows
    <3>2. QED
      BY <3>1, Zenon DEF RowWas
  <2>4. \A r \in receipt' : RowWas(receipt, r)
    <3>1. \A r \in receipt' : \E q \in receipt :
            r.of = q.of /\ r.valid = (q.valid /\ q.of.ticket # t)
      BY <2>1, RevokeRows
    <3>2. QED
      BY <3>1, Zenon DEF RowWas
  <2>5. QED
    BY <2>2, <2>3, <2>4
<1>2. ASSUME NEW c \in Calls, InsertEntitlement(c)
      PROVE  /\ UNCHANGED <<token, receipt>>
             /\ \A r \in entitlement' : r \in entitlement \/ StoredBy("entitlement", r)
  BY <1>2 DEF InsertEntitlement, Insert, Active, StoredBy
<1>3. ASSUME NEW c \in Calls, InsertToken(c)
      PROVE  /\ UNCHANGED <<entitlement, receipt>>
             /\ \A r \in token' : r \in token \/ StoredBy("token", r)
  BY <1>3 DEF InsertToken, Insert, Active, StoredBy
<1>4. ASSUME NEW c \in Calls, StoreReceipt(c)
      PROVE  /\ UNCHANGED <<entitlement, token>>
             /\ \A r \in receipt' : r \in receipt \/ StoredBy("receipt", r)
  BY <1>4 DEF StoreReceipt, StoredBy
<1>5. CASE UNCHANGED <<entitlement, token, receipt>>
  BY <1>5 DEF RowWas
<1>6. CASE \E c \in Calls : Ends(c)
  <2>1. ASSUME NEW c \in Calls, Drop(c) PROVE UNCHANGED <<entitlement, token, receipt>>
    BY <2>1 DEF Drop, tables
  <2>2. QED
    BY <1>2, <1>3, <1>4, <1>5, <1>6, <2>1 DEF Ends, RowWas
<1>7. CASE Sells \/ RegistersKey \/ \E c \in Calls : Begins(c)
  BY <1>5, <1>7 DEF Sells, Pay, Cancel, RegistersKey, RegisterSigningKey, RegisterScannerKey,
                    Begins, BeginEntitlement, BeginToken, BeginReceipt, tables
<1>8. QED
  BY <1>1, <1>5, <1>6, <1>7, Steps DEF vars, tables

-----------------------------------------------------------------------------
(* Whoever was told Ok.                                                    *)

\* What a registration that returned a row was about is stored afterwards.
LEMMA ToldIsStored ==
  ASSUME TypeInv, [Next]_vars, NEW d \in told' \ told
  PROVE  d \in signingKey' \cup scannerKey' \cup Registered(entitlement)' \cup Registered(token)'
<1>1. CASE RegistersKey
  BY <1>1 DEF RegistersKey, RegisterSigningKey, RegisterScannerKey, Returns, Insert,
              SameSigner, SameScanner
<1>2. ASSUME NEW c \in Calls, InsertEntitlement(c) PROVE d \in Registered(entitlement)'
  <2>1. d = call[c].arg /\ Returns(SameTicket(d), d)
        /\ entitlement' = Insert(entitlement, SameTicket(d), Active(d))
    BY <1>2 DEF InsertEntitlement
  <2>2. CASE SameTicket(d) = {}
    <3>1. Active(d) \in entitlement' /\ Active(d).of = d
      BY <2>1, <2>2 DEF Insert, Active
    <3>2. QED
      BY <3>1 DEF Registered
  <2>3. CASE SameTicket(d) # {}
    <3>1. d \in Registered(entitlement)
      BY <2>1, <2>3 DEF Returns, SameTicket
    <3>2. entitlement' = entitlement
      BY <2>1, <2>3 DEF Insert
    <3>3. QED
      BY <3>1, <3>2 DEF Registered
  <2>4. QED
    BY <2>2, <2>3
<1>3. ASSUME NEW c \in Calls, InsertToken(c) PROVE d \in Registered(token)'
  <2>1. d = call[c].arg /\ Returns(SameToken(d), d)
        /\ token' = Insert(token, SameToken(d), Active(d))
    BY <1>3 DEF InsertToken
  <2>2. CASE SameToken(d) = {}
    <3>1. Active(d) \in token' /\ Active(d).of = d
      BY <2>1, <2>2 DEF Insert, Active
    <3>2. QED
      BY <3>1 DEF Registered
  <2>3. CASE SameToken(d) # {}
    <3>1. d \in Registered(token)
      BY <2>1, <2>3 DEF Returns, SameToken
    <3>2. token' = token
      BY <2>1, <2>3 DEF Insert
    <3>3. QED
      BY <3>1, <3>2 DEF Registered
  <2>4. QED
    BY <2>2, <2>3
<1>4. CASE \E c \in Calls : Ends(c)
  BY <1>2, <1>3, <1>4 DEF Ends, Drop, StoreReceipt
<1>5. CASE Sells \/ (\E c \in Calls : Begins(c)) \/ \E t \in Tickets : Revoke(t)
  BY <1>5 DEF Sells, Pay, Cancel, Begins, BeginEntitlement, BeginToken, BeginReceipt, Revoke
<1>6. QED
  BY <1>1, <1>4, <1>5, Steps DEF vars

\* Whoever is told that a key, an entitlement or a token is registered finds it
\* registered, exactly as asked and for good: of the callers who race for one id
\* with other contents only one is told so (register_signing_key,
\* register_scanner_key, register_entitlement, register_token).
THEOREM OkIsStored == Spec => []OkMeansStored
<1>1. Init => OkMeansStored
  BY DEF Init, OkMeansStored
<1>2. TypeInv /\ OkMeansStored /\ [Next]_vars => OkMeansStored'
  BY RowsKept, ToldIsStored DEF OkMeansStored
<1>3. QED
  BY <1>1, <1>2, TypesInvariant, PTL DEF Spec

-----------------------------------------------------------------------------
(* The chain behind an accepted receipt.                                   *)

\* An order was paid, and is of the event.
Bought(e) == e.order \in paid /\ OrderEvent[e.order] = e.event

\* A token's order was bought, and a signing key of its epoch outlasts it.
Backed(k) ==
  /\ Bought(k)
  /\ \E d \in signingKey : d.keyId = k.keyId /\ d.epoch = k.epoch /\ KeyCovers(d, k)

\* A scanner's key was good at the scan.
Scanned(x) ==
  \E d \in scannerKey : /\ d.scanner = x.scanner /\ d.publicKey = x.by
                        /\ d.activeFrom <= x.scannedAt /\ x.scannedAt < d.retireAt

\* So was the token that was shown.
Stands(x) == \E k \in Registered(token) : k.id = x.token /\ Covered(x, k)

\* Each link is there from the moment a call has found it: the call may store a
\* row that rests on it long after.
OrdersPaid == \A o \in DOMAIN OrderEvent : order[o] = "paid" => o \in paid

EntitlementsBought ==
  /\ \A r \in entitlement : Bought(r.of)
  /\ \A c \in Calls : call[c].op = "entitlement" /\ call[c].found => Bought(call[c].arg)

TokensBacked ==
  /\ \A r \in token : Backed(r.of)
  /\ \A c \in Calls : call[c].op = "token" /\ call[c].found => Backed(call[c].arg)

ReceiptsStand ==
  /\ \A r \in receipt : Scanned(r.of) /\ (r.valid => Stands(r.of))
  /\ \A c \in Calls : call[c].op = "receipt" =>
       Scanned(call[c].arg) /\ (call[c].found => Stands(call[c].arg))

ChainInv == TypeInv /\ OrdersPaid /\ EntitlementsBought /\ TokensBacked /\ ReceiptsStand

LEMMA ChainInit == Init => ChainInv
BY TypesInit DEF Init, ChainInv, OrdersPaid, EntitlementsBought, TokensBacked, ReceiptsStand, Idle

\* A link once there stays.
LEMMA LinksStay ==
  ASSUME TypeInv, [Next]_vars, NEW x
  PROVE  (Bought(x) => Bought(x)') /\ (Backed(x) => Backed(x)')
         /\ (Scanned(x) => Scanned(x)') /\ (Stands(x) => Stands(x)')
<1>1. (Bought(x) => Bought(x)') /\ (Backed(x) => Backed(x)') /\ (Scanned(x) => Scanned(x)')
  BY RowsKept DEF Bought, Backed, Scanned, KeyCovers
<1>2. \A k : Covered(x, k) => Covered(x, k)'
  BY RowsKept DEF Covered
<1>3. QED
  BY <1>1, <1>2, RowsKept DEF Stands

\* A receipt whose decision is "candidate" stands: its token was covered by a
\* signing key from its issue to its expiry, and the scan lies between the two.
LEMMA CandidateStands == ASSUME ChainInv, NEW x \in Receipts, Candidate(x) PROVE Stands(x)
<1>1. PICK k \in token :
        /\ k.of.id = x.token /\ <<k.of.ticket, k.of.order, k.of.event>> = <<x.ticket, x.order, x.event>>
        /\ k.of.issuedAt <= x.scannedAt /\ x.scannedAt < k.of.expiresAt
  BY DEF Candidate, Issued
<1>2. k.of \in Tokens /\ Backed(k.of)
  BY DEF ChainInv, TypeInv, RowTypes, TokensBacked
<1>3. PICK d \in signingKey : d.keyId = k.of.keyId /\ d.epoch = k.of.epoch /\ KeyCovers(d, k.of)
  BY <1>2 DEF Backed
<1>4. /\ d.activeFrom \in Int /\ d.retireAt \in Int
      /\ k.of.issuedAt \in Int /\ k.of.expiresAt \in Int /\ x.scannedAt \in Int
  BY <1>2, AdmissionServiceAssumption DEF ChainInv, TypeInv, RowTypes
<1>5. d.activeFrom <= x.scannedAt /\ x.scannedAt < d.retireAt
  BY <1>1, <1>3, <1>4 DEF KeyCovers
<1>6. Covered(x, k.of)
  BY <1>1, <1>2, <1>3, <1>5 DEF Covered, Backed, Bought
<1>7. QED
  BY <1>1, <1>6 DEF Stands, Registered

LEMMA ChainStep == ChainInv /\ [Next]_vars => ChainInv'
<1> SUFFICES ASSUME ChainInv, [Next]_vars PROVE ChainInv'
  OBVIOUS
<1>0. TypeInv /\ TypeInv'
  BY TypesStep DEF ChainInv
<1>1. OrdersPaid'
  <2>1. UNCHANGED <<order, paid>> \/ Sells
    BY Steps DEF RegistersKey, RegisterSigningKey, RegisterScannerKey,
       Begins, BeginEntitlement, BeginToken, BeginReceipt,
       Ends, Drop, InsertEntitlement, InsertToken, StoreReceipt, Revoke, vars
  <2>2. QED
    BY <1>0, <2>1 DEF Sells, Pay, Cancel, ChainInv, OrdersPaid, TypeInv, StateTypes
<1>2. EntitlementsBought'
  <2>1. ASSUME NEW r \in entitlement' PROVE Bought(r.of)'
    <3>1. Bought(r.of)
      BY RowsFrom, <1>0 DEF RowWas, StoredBy, ChainInv, EntitlementsBought
    <3>2. QED
      BY <1>0, <3>1, LinksStay
  <2>2. ASSUME NEW c \in Calls, call'[c].op = "entitlement", call'[c].found
        PROVE  Bought(call[c].arg)'
    <3>1. PICK a : a = call'[c].arg /\ Bought(a)
      <4>1. \A e \in Entitlements : PaidFor(e) => Bought(e)
        BY DEF ChainInv, OrdersPaid, PaidFor, Bought
      <4>2. CASE call'[c] = call[c]
        BY <2>2, <4>2 DEF ChainInv, EntitlementsBought
      <4>3. CASE call'[c] # call[c]
        <5>1. Found(call'[c], "entitlement", Entitlements, PaidFor(call'[c].arg))
          BY <1>0, <2>2, <4>3, CallsFrom DEF Found
        <5>2. QED
          BY <2>2, <4>1, <5>1 DEF Found
      <4>4. QED
        BY <4>2, <4>3
    <3>2. Bought(a)'
      BY <1>0, <3>1, LinksStay
    <3>3. QED
      BY <3>1, <3>2
  <2>3. QED
    BY <2>1, <2>2 DEF EntitlementsBought
<1>3. TokensBacked'
  <2>1. ASSUME NEW r \in token' PROVE Backed(r.of)'
    <3>1. Backed(r.of)
      BY RowsFrom, <1>0 DEF RowWas, StoredBy, ChainInv, TokensBacked
    <3>2. QED
      BY <1>0, <3>1, LinksStay
  <2>2. ASSUME NEW c \in Calls, call'[c].op = "token", call'[c].found
        PROVE  Backed(call[c].arg)'
    <3>1. PICK a : a = call'[c].arg /\ Backed(a)
      <4>1. \A x \in Tokens : Issuable(x) => Backed(x)
        BY DEF ChainInv, EntitlementsBought, Issuable, Backed, Bought
      <4>2. CASE call'[c] = call[c]
        BY <2>2, <4>2 DEF ChainInv, TokensBacked
      <4>3. CASE call'[c] # call[c]
        <5>1. Found(call'[c], "token", Tokens, Issuable(call'[c].arg))
          BY <1>0, <2>2, <4>3, CallsFrom DEF Found
        <5>2. QED
          BY <2>2, <4>1, <5>1 DEF Found
      <4>4. QED
        BY <4>2, <4>3
    <3>2. Backed(a)'
      BY <1>0, <3>1, LinksStay
    <3>3. QED
      BY <3>1, <3>2
  <2>3. QED
    BY <2>1, <2>2 DEF TokensBacked
<1>4. ReceiptsStand'
  <2>1. ASSUME NEW r \in receipt' PROVE Scanned(r.of)' /\ (r.valid => Stands(r.of)')
    <3>1. Scanned(r.of) /\ (r.valid => Stands(r.of))
      BY RowsFrom, <1>0 DEF RowWas, StoredBy, ChainInv, ReceiptsStand
    <3>2. QED
      BY <1>0, <3>1, LinksStay
  <2>2. ASSUME NEW c \in Calls, call'[c].op = "receipt"
        PROVE  Scanned(call[c].arg)' /\ (call'[c].found => Stands(call[c].arg)')
    <3>1. PICK x : x = call'[c].arg /\ Scanned(x) /\ (call'[c].found => Stands(x))
      <4>1. \A x \in Receipts : KeyKnown(x) => Scanned(x)
        BY DEF KeyKnown, Scanned
      <4>2. CASE call'[c] = call[c]
        BY <2>2, <4>2 DEF ChainInv, ReceiptsStand
      <4>3. CASE call'[c] # call[c]
        <5>1. /\ Found(call'[c], "receipt", Receipts, Candidate(call'[c].arg))
              /\ KeyKnown(call'[c].arg)
          BY <1>0, <2>2, <4>3, CallsFrom DEF Found
        <5>2. QED
          BY <4>1, <5>1, CandidateStands DEF Found
      <4>4. QED
        BY <4>2, <4>3
    <3>2. Scanned(x)' /\ (call'[c].found => Stands(x)')
      BY <1>0, <3>1, LinksStay
    <3>3. QED
      BY <3>1, <3>2
  <2>3. QED
    BY <2>1, <2>2 DEF ReceiptsStand
<1>5. QED
  BY <1>0, <1>1, <1>2, <1>3, <1>4 DEF ChainInv

LEMMA ChainInvariant == Spec => []ChainInv
BY ChainInit, ChainStep, PTL DEF Spec

\* An accepted receipt stands on an unbroken chain: a scanner's key of that
\* moment, a token of this ticket, order and event good at that moment, under a
\* signing key of its epoch not retired by then, for an order of the event that
\* was paid (register_entitlement, register_token, record_receipt).
THEOREM AcceptedReceiptIsCovered == Spec => []AcceptedIsCovered
<1>1. ChainInv => AcceptedIsCovered
  <2> SUFFICES ASSUME ChainInv, NEW x \in Registered(receipt), Outcome(x) = "accepted"
               PROVE  Scanned(x) /\ Stands(x)
    BY DEF AcceptedIsCovered, Scanned, Stands
  <2>1. PICK r \in receipt : r.of = x /\ r.valid
    BY DEF Outcome, Candidates
  <2>2. QED
    BY <2>1 DEF ChainInv, ReceiptsStand
<1>2. QED
  BY <1>1, ChainInvariant, PTL

-----------------------------------------------------------------------------
(* The rule: of a ticket's receipts one comes before all others.           *)

LEMMA NatLeast == ASSUME NEW S \in SUBSET Nat, S # {} PROVE \E m \in S : \A n \in S : m <= n
<1> DEFINE R == {q \in Nat \X Nat : q[1] < q[2]}
<1>1. IsWellFoundedOn(R, Nat)
  BY NatLessThanWellFounded DEF OpToRel
<1>2. PICK m \in S : \A n \in S : ~ (<<n, m>> \in R)
  <2> HIDE DEF R
  <2>1. QED
    BY <1>1, WFMin
<1>3. ASSUME NEW n \in S PROVE m <= n
  <2>1. m \in Nat /\ n \in Nat /\ <<n, m>> \in Nat \X Nat
    OBVIOUS
  <2>2. ~ (n < m)
    BY <1>2, <2>1
  <2>3. QED
    BY <2>1, <2>2
<1>4. QED
  BY <1>3

LEMMA SequenceOfSet == ASSUME NEW S, IsFiniteSet(S) PROVE ToSet(SetToSeq(S)) = S
<1> DEFINE n == Cardinality(S)
<1>1. n \in Nat /\ ExistsBijection(1..n, S)
  BY FS_CardinalityType
<1>2. \E f \in [1..n -> S] : IsInjective(f)
  BY <1>1 DEF ExistsBijection, Bijection, Injection
<1>3. SetToSeq(S) \in Injection(1..n, S)
  BY <1>2 DEF SetToSeq, Injection
<1>4. Cardinality(1..n) = n
  BY <1>1, FS_Interval
<1>5. SetToSeq(S) \in Surjection(1..n, S)
  BY <1>3, <1>4, FS_Injection
<1>6. QED
  BY <1>5 DEF Surjection, ToSet

\* receipt_order_key orders the receipts.
LEMMA BeforeOrders ==
  /\ \A x, y \in Receipts : x = y \/ Rule!Before(x, y) \/ Rule!Before(y, x)
  /\ \A x, y \in Receipts : Rule!Before(x, y) => ~ Rule!Before(y, x)
  /\ \A x, y, z \in Receipts : Rule!Before(x, y) /\ Rule!Before(y, z) => Rule!Before(x, z)
<1>1. \A x \in Receipts : x.id \in Nat /\ x.scanner \in Nat /\ x.scannedAt \in Nat /\ x.sequence \in Nat
  BY AdmissionServiceAssumption
<1>2. \A x, y \in Receipts : x.id = y.id => x = y
  BY AdmissionServiceAssumption
<1>3. \A x, y \in Receipts : x = y \/ Rule!Before(x, y) \/ Rule!Before(y, x)
  BY <1>1, <1>2 DEF Rule!Before
<1>4. \A x, y \in Receipts : Rule!Before(x, y) => ~ Rule!Before(y, x)
  BY <1>1 DEF Rule!Before
<1>5. \A x, y, z \in Receipts : Rule!Before(x, y) /\ Rule!Before(y, z) => Rule!Before(x, z)
  BY <1>1 DEF Rule!Before
<1>6. QED
  BY <1>3, <1>4, <1>5

Comes(x, S) == x \in S /\ \A y \in S : y = x \/ Rule!Before(x, y)

LEMMA OneComesFirst == ASSUME NEW S \in SUBSET Receipts, S # {} PROVE \E x \in S : Comes(x, S)
<1>0. \A x \in S : x.id \in Nat /\ x.scanner \in Nat /\ x.scannedAt \in Nat /\ x.sequence \in Nat
  BY AdmissionServiceAssumption
<1>1. PICK a \in S : \A y \in S : a.scannedAt <= y.scannedAt
  <2>1. {x.scannedAt : x \in S} \in SUBSET Nat /\ {x.scannedAt : x \in S} # {}
    BY <1>0
  <2>2. PICK m \in {x.scannedAt : x \in S} : \A k \in {x.scannedAt : x \in S} : m <= k
    BY <2>1, NatLeast
  <2>3. QED
    BY <2>2
<1>2. PICK b \in S : /\ b.scannedAt = a.scannedAt
                     /\ \A y \in S : y.scannedAt = a.scannedAt => b.scanner <= y.scanner
  <2> DEFINE T == {x \in S : x.scannedAt = a.scannedAt}
  <2>1. {x.scanner : x \in T} \in SUBSET Nat /\ {x.scanner : x \in T} # {}
    BY <1>0
  <2>2. PICK m \in {x.scanner : x \in T} : \A k \in {x.scanner : x \in T} : m <= k
    BY <2>1, NatLeast
  <2>3. QED
    BY <2>2
<1>3. PICK c \in S : /\ c.scannedAt = a.scannedAt /\ c.scanner = b.scanner
                     /\ \A y \in S : y.scannedAt = a.scannedAt /\ y.scanner = b.scanner
                                     => c.sequence <= y.sequence
  <2> DEFINE T == {x \in S : x.scannedAt = a.scannedAt /\ x.scanner = b.scanner}
  <2>1. {x.sequence : x \in T} \in SUBSET Nat /\ {x.sequence : x \in T} # {}
    BY <1>0, <1>2
  <2>2. PICK m \in {x.sequence : x \in T} : \A k \in {x.sequence : x \in T} : m <= k
    BY <2>1, NatLeast
  <2>3. QED
    BY <2>2
<1>4. PICK d \in S : /\ d.scannedAt = a.scannedAt /\ d.scanner = b.scanner /\ d.sequence = c.sequence
                     /\ \A y \in S : y.scannedAt = a.scannedAt /\ y.scanner = b.scanner
                                      /\ y.sequence = c.sequence => d.id <= y.id
  <2> DEFINE T == {x \in S : /\ x.scannedAt = a.scannedAt /\ x.scanner = b.scanner
                             /\ x.sequence = c.sequence}
  <2>1. {x.id : x \in T} \in SUBSET Nat /\ {x.id : x \in T} # {}
    BY <1>0, <1>3
  <2>2. PICK m \in {x.id : x \in T} : \A k \in {x.id : x \in T} : m <= k
    BY <2>1, NatLeast
  <2>3. QED
    BY <2>2
<1>5. ASSUME NEW y \in S PROVE ~ Rule!Before(y, d)
  BY <1>0, <1>1, <1>2, <1>3, <1>4 DEF Rule!Before
<1>6. QED
  BY <1>5, BeforeOrders DEF Comes

LEMMA OnlyOneComesFirst ==
  ASSUME NEW S \in SUBSET Receipts, NEW x, NEW y, Comes(x, S), Comes(y, S)
  PROVE  x = y
BY BeforeOrders DEF Comes

\* The accepted one of a ticket's candidates.
FirstOf(S) == IF S = {} THEN None ELSE CHOOSE x \in S : Comes(x, S)

Of(C, t) == {x \in C : x.ticket = t}

LEMMA FirstOfSome == ASSUME NEW S \in SUBSET Receipts, S # {} PROVE Comes(FirstOf(S), S)
BY OneComesFirst DEF FirstOf

\* One more candidate takes over, or it does not.
LEMMA FirstOfMore ==
  ASSUME NEW S \in SUBSET Receipts, NEW x \in Receipts \ S
  PROVE  \/ FirstOf(S \cup {x}) = FirstOf(S)
         \/ FirstOf(S \cup {x}) = x /\ (S = {} \/ Rule!Before(x, FirstOf(S)))
<1> DEFINE T == S \cup {x}
<1>1. T \in SUBSET Receipts /\ T # {} /\ Comes(FirstOf(T), T)
  BY FirstOfSome
<1> HIDE DEF T
<1>2. CASE S = {}
  BY <1>1, <1>2 DEF T, Comes
<1>3. CASE S # {}
  <2>1. Comes(FirstOf(S), S)
    BY <1>3, FirstOfSome
  <2>2. CASE Rule!Before(x, FirstOf(S))
    <3>1. Comes(x, T)
      BY <2>1, <2>2, BeforeOrders DEF Comes, T
    <3>2. QED
      BY <1>1, <2>2, <3>1, OnlyOneComesFirst DEF T
  <2>3. CASE ~ Rule!Before(x, FirstOf(S))
    <3>1. Comes(FirstOf(S), T)
      BY <2>1, <2>3, BeforeOrders DEF Comes, T
    <3>2. QED
      BY <1>1, <3>1, OnlyOneComesFirst DEF T
  <2>4. QED
    BY <2>2, <2>3
<1>4. QED
  BY <1>2, <1>3

-----------------------------------------------------------------------------
(* The service implements the ledger.                                      *)

Withdrawn == {t \in Tickets : \E e \in entitlement : e.of.ticket = t /\ ~e.valid}

\* A candidate under way for a withdrawn ticket was overtaken by the withdrawal.
OvertakenOnly ==
  \A c \in Calls : call[c].op = "receipt" /\ call[c].found =>
    /\ call[c].arg.ticket \in Tickets
    /\ call[c].arg.ticket \in Withdrawn => call[c].arg \in overtaken[call[c].arg.ticket]

LedgerInv ==
  /\ TypeInv
  /\ overtaken \in [Tickets -> SUBSET Receipts]
  /\ IsFiniteSet(Registered(receipt))
  /\ OvertakenOnly

LEMMA LedgerInit == Init => LedgerInv
<1> SUFFICES ASSUME Init PROVE LedgerInv
  OBVIOUS
<1>1. Registered(receipt) = {}
  BY DEF Init, Registered
<1>2. OvertakenOnly /\ overtaken \in [Tickets -> SUBSET Receipts]
  BY DEF Init, OvertakenOnly, Idle
<1>3. QED
  BY <1>1, <1>2, TypesInit, FS_EmptySet DEF LedgerInv

\* A ticket has one entitlement: it is withdrawn by a revocation, once, and for good.
LEMMA WithdrawnStep ==
  ASSUME TypeInv, [Next]_vars
  PROVE  /\ \A t \in Tickets : Revoke(t) => t \notin Withdrawn /\ Withdrawn' = Withdrawn \cup {t}
         /\ (~ \E t \in Tickets : Revoke(t)) => Withdrawn' = Withdrawn
<1>1. ASSUME NEW t \in Tickets, Revoke(t)
      PROVE  t \notin Withdrawn /\ Withdrawn' = Withdrawn \cup {t}
  <2>1. PICK e \in entitlement : e.of.ticket = t /\ e.valid
    BY <1>1 DEF Revoke
  <2>2. t \notin Withdrawn
    BY <2>1 DEF Withdrawn, TypeInv, OneRowEach
  <2>3. \A r \in entitlement' : \E q \in entitlement :
          r.of = q.of /\ r.valid = (q.valid /\ q.of.ticket # t)
    BY <1>1, RevokeRows
  <2>4. \A q \in entitlement : \E r \in entitlement' :
          r.of = q.of /\ r.valid = (q.valid /\ q.of.ticket # t)
    <3>1. ASSUME NEW q \in entitlement PROVE \E r \in entitlement' : r.of = q.of
      BY <1>1, RevokeRows DEF Registered
    <3>2. QED
      BY <2>3, <3>1 DEF TypeInv, OneRowEach
  <2>5. ASSUME NEW s \in Tickets
        PROVE  (\E r \in entitlement' : r.of.ticket = s /\ ~r.valid)
                 <=> s = t \/ \E q \in entitlement : q.of.ticket = s /\ ~q.valid
    <3>1. ASSUME NEW r \in entitlement', r.of.ticket = s, ~r.valid, s # t
          PROVE  \E q \in entitlement : q.of.ticket = s /\ ~q.valid
      BY <2>3, <3>1
    <3>2. ASSUME NEW q \in entitlement, q.of.ticket = s, ~q.valid \/ s = t
          PROVE  \E r \in entitlement' : r.of.ticket = s /\ ~r.valid
      BY <2>4, <3>2
    <3>3. QED
      BY <2>1, <3>1, <3>2
  <2>6. QED
    BY <2>2, <2>5 DEF Withdrawn
<1>2. ASSUME NEW c \in Calls, InsertEntitlement(c) PROVE Withdrawn' = Withdrawn
  <2>1. entitlement' = entitlement \/ entitlement' = entitlement \cup {Active(call[c].arg)}
    BY <1>2 DEF InsertEntitlement, Insert
  <2>2. QED
    BY <2>1 DEF Withdrawn, Active
<1>3. UNCHANGED entitlement \/ (\E c \in Calls : InsertEntitlement(c)) \/ \E t \in Tickets : Revoke(t)
  BY Steps DEF Sells, Pay, Cancel, RegistersKey, RegisterSigningKey, RegisterScannerKey,
     Begins, BeginEntitlement, BeginToken, BeginReceipt,
     Ends, Drop, InsertToken, StoreReceipt, vars, tables
<1>4. UNCHANGED entitlement => Withdrawn' = Withdrawn
  BY DEF Withdrawn
<1>5. QED
  BY <1>1, <1>2, <1>3, <1>4

\* What happens to the candidates.
LEMMA CandidatesStep ==
  ASSUME TypeInv, [Next]_vars
  PROVE  /\ \A t \in Tickets : Revoke(t) => Candidates' = {x \in Candidates : x.ticket # t}
         /\ (~ \E t \in Tickets : Revoke(t)) =>
              \/ Candidates' = Candidates
              \/ \E c \in Calls : /\ call[c].op = "receipt" /\ call[c].found
                                  /\ call[c].arg \in Receipts \ Candidates
                                  /\ Candidates' = Candidates \cup {call[c].arg}
<1>1. ASSUME NEW t \in Tickets, Revoke(t) PROVE Candidates' = {x \in Candidates : x.ticket # t}
  <2>1. \A r \in receipt' : \E q \in receipt : r.of = q.of /\ r.valid = (q.valid /\ q.of.ticket # t)
    BY <1>1, RevokeRows
  <2>2. \A q \in receipt : \E r \in receipt' : r.of = q.of /\ r.valid = (q.valid /\ q.of.ticket # t)
    BY <1>1, RevokeRows
  <2>3. ASSUME NEW x
        PROVE  (\E r \in receipt' : r.valid /\ r.of = x)
                 <=> x.ticket # t /\ \E q \in receipt : q.valid /\ q.of = x
    <3>1. ASSUME NEW r \in receipt', r.valid, r.of = x
          PROVE  x.ticket # t /\ \E q \in receipt : q.valid /\ q.of = x
      BY <2>1, <3>1
    <3>2. ASSUME NEW q \in receipt, q.valid, q.of = x, x.ticket # t
          PROVE  \E r \in receipt' : r.valid /\ r.of = x
      BY <2>2, <3>2
    <3>3. QED
      BY <3>1, <3>2
  <2>4. QED
    BY <2>3 DEF Candidates
<1>2. ASSUME NEW c \in Calls, StoreReceipt(c)
      PROVE  \/ Candidates' = Candidates
             \/ /\ call[c].op = "receipt" /\ call[c].found
                /\ call[c].arg \in Receipts \ Candidates
                /\ Candidates' = Candidates \cup {call[c].arg}
  <2>1. call[c].op = "receipt" /\ call[c].arg \in Receipts
    BY <1>2, CallTypes DEF StoreReceipt, TypeInv
  <2>2. CASE call[c].arg \in Registered(receipt)
    BY <1>2, <2>2 DEF StoreReceipt, Candidates
  <2>3. CASE call[c].arg \notin Registered(receipt)
    <3>1. receipt' = receipt \cup {[of |-> call[c].arg, valid |-> call[c].found]}
      BY <1>2, <2>3 DEF StoreReceipt
    <3>2. call[c].arg \notin Candidates
      BY <2>3 DEF Registered, Candidates
    <3>3. CASE call[c].found
      BY <2>1, <3>1, <3>2, <3>3 DEF Candidates
    <3>4. CASE ~ call[c].found
      BY <3>1, <3>4 DEF Candidates
    <3>5. QED
      BY <3>3, <3>4
  <2>4. QED
    BY <2>2, <2>3
<1>3. UNCHANGED receipt \/ (\E c \in Calls : StoreReceipt(c)) \/ \E t \in Tickets : Revoke(t)
  BY Steps DEF Sells, Pay, Cancel, RegistersKey, RegisterSigningKey, RegisterScannerKey,
     Begins, BeginEntitlement, BeginToken, BeginReceipt,
     Ends, Drop, InsertEntitlement, InsertToken, vars, tables
<1>4. UNCHANGED receipt => Candidates' = Candidates
  BY DEF Candidates
<1>5. QED
  BY <1>1, <1>2, <1>3, <1>4

LEMMA LedgerInvStep == LedgerInv /\ [Next]_vars => LedgerInv'
<1> SUFFICES ASSUME LedgerInv, [Next]_vars PROVE LedgerInv'
  OBVIOUS
<1>1. TypeInv /\ TypeInv'
  BY TypesStep DEF LedgerInv
<1>2. UNCHANGED overtaken \/ \E t \in Tickets : Revoke(t)
  BY Steps DEF Sells, Pay, Cancel, RegistersKey, RegisterSigningKey, RegisterScannerKey,
     Begins, BeginEntitlement, BeginToken, BeginReceipt,
     Ends, Drop, InsertEntitlement, InsertToken, StoreReceipt, vars
<1>3. ASSUME NEW t \in Tickets, Revoke(t)
      PROVE  overtaken' = [overtaken EXCEPT ![t] =
               {call[c].arg : c \in {c \in Calls : call[c].op = "receipt" /\ call[c].found}}]
  BY <1>3 DEF Revoke
<1>4. overtaken' \in [Tickets -> SUBSET Receipts]
  BY <1>1, <1>2, <1>3, CallTypes DEF LedgerInv, TypeInv
<1>5. IsFiniteSet(Registered(receipt)')
  <2>1. ASSUME NEW c \in Calls, StoreReceipt(c)
        PROVE  Registered(receipt)' \subseteq Registered(receipt) \cup {call[c].arg}
    BY <2>1 DEF StoreReceipt, Registered
  <2>2. ASSUME NEW t \in Tickets, Revoke(t) PROVE Registered(receipt)' = Registered(receipt)
    BY <1>1, <2>2, RevokeRows
  <2>3. UNCHANGED receipt \/ (\E c \in Calls : StoreReceipt(c)) \/ \E t \in Tickets : Revoke(t)
    BY Steps DEF Sells, Pay, Cancel, RegistersKey, RegisterSigningKey, RegisterScannerKey,
       Begins, BeginEntitlement, BeginToken, BeginReceipt,
       Ends, Drop, InsertEntitlement, InsertToken, vars, tables
  <2>4. UNCHANGED receipt => Registered(receipt)' = Registered(receipt)
    BY DEF Registered
  <2>5. PICK x : Registered(receipt)' \subseteq Registered(receipt) \cup {x}
    BY <2>1, <2>2, <2>3, <2>4
  <2>6. IsFiniteSet(Registered(receipt) \cup {x})
    BY FS_AddElement DEF LedgerInv
  <2>7. QED
    BY <2>5, <2>6, FS_Subset
<1>6. OvertakenOnly'
  <2> SUFFICES ASSUME NEW c \in Calls, call'[c].op = "receipt", call'[c].found
               PROVE  /\ call'[c].arg.ticket \in Tickets
                      /\ call'[c].arg.ticket \in Withdrawn' => call'[c].arg \in overtaken'[call'[c].arg.ticket]
    BY DEF OvertakenOnly
  <2>1. CASE call'[c] = call[c]
    <3>1. CASE \E t \in Tickets : Revoke(t)
      <4>1. PICK t \in Tickets : Revoke(t)
        BY <3>1
      <4>2. /\ Withdrawn' = Withdrawn \cup {t}
            /\ overtaken' = [overtaken EXCEPT ![t] =
               {call[d].arg : d \in {d \in Calls : call[d].op = "receipt" /\ call[d].found}}]
        BY <1>1, <1>3, <4>1, WithdrawnStep
      <4>3. CASE call[c].arg.ticket = t
        BY <2>1, <4>2, <4>3 DEF LedgerInv
      <4>4. CASE call[c].arg.ticket # t
        BY <2>1, <4>2, <4>4 DEF LedgerInv, OvertakenOnly
      <4>5. QED
        BY <4>3, <4>4
    <3>2. CASE ~ \E t \in Tickets : Revoke(t)
      BY <1>1, <1>2, <2>1, <3>2, WithdrawnStep DEF LedgerInv, OvertakenOnly
    <3>3. QED
      BY <3>1, <3>2
  <2>2. CASE call'[c] # call[c]
    <3>1. Found(call'[c], "receipt", Receipts, Candidate(call'[c].arg))
      BY <1>1, <2>2, CallsFrom DEF Found
    <3>2. Candidate(call'[c].arg)
      BY <3>1 DEF Found
    <3>3. PICK e \in entitlement : e.valid /\ e.of.ticket = call'[c].arg.ticket
      BY <3>2 DEF Candidate
    <3>4. call'[c].arg.ticket \in Tickets \ Withdrawn
      BY <1>1, <3>3 DEF Tickets, Withdrawn, TypeInv, RowTypes, OneRowEach
    <3>5. ~ \E t \in Tickets : Revoke(t)
      BY <2>2 DEF Revoke
    <3>6. QED
      BY <1>1, <3>4, <3>5, WithdrawnStep
  <2>3. QED
    BY <2>1, <2>2
<1>7. QED
  BY <1>1, <1>4, <1>5, <1>6 DEF LedgerInv

LEMMA LedgerInvariant == Spec => []LedgerInv
BY LedgerInit, LedgerInvStep, PTL DEF Spec

LEMMA CandidatesType ==
  ASSUME LedgerInv
  PROVE  Candidates \in SUBSET Receipts /\ ToSet(SetToSeq(Candidates)) = Candidates
<1>1. Candidates \in SUBSET Receipts /\ Candidates \subseteq Registered(receipt)
  BY DEF LedgerInv, TypeInv, RowTypes, Candidates, Registered
<1>2. IsFiniteSet(Candidates)
  BY <1>1, FS_Subset DEF LedgerInv
<1>3. QED
  BY <1>1, <1>2, SequenceOfSet

\* One receipt of a ticket is accepted, the first of its candidates, if there are any.
LEMMA FirstIsAccepted ==
  ASSUME LedgerInv, NEW t \in Tickets
  PROVE  /\ Of(Candidates, t) = {} => Accepted(t) = {}
         /\ Of(Candidates, t) # {} => Accepted(t) = {FirstOf(Of(Candidates, t))}
<1> DEFINE S == Of(Candidates, t)
<1>1. S \in SUBSET Receipts /\ ToSet(SetToSeq(Candidates)) = Candidates
  BY CandidatesType DEF Of
<1>2. \A x \in Accepted(t) : x \in S /\ x = Rule!First(t)
  BY DEF Accepted, Outcome, Of
<1>3. ASSUME S # {} PROVE Accepted(t) = {FirstOf(S)}
  <2>1. Comes(FirstOf(S), S)
    BY <1>1, <1>3, FirstOfSome
  <2>2. Comes(Rule!First(t), S)
    <3> DEFINE A == Rule!ToSet(SetToSeq(Candidates))
    <3>1. Rule!First(t) = CHOOSE x \in {y \in A : y.ticket = t} :
            \A y \in A : y.ticket = t /\ y # x => Rule!Before(x, y)
      BY DEF Rule!First
    <3>2. A = Candidates
      BY <1>1 DEF Rule!ToSet, ToSet
    <3> HIDE DEF A
    <3>3. \E x \in {y \in A : y.ticket = t} :
            \A y \in A : y.ticket = t /\ y # x => Rule!Before(x, y)
      BY <2>1, <3>2 DEF Comes, Of
    <3>4. QED
      BY <3>1, <3>2, <3>3 DEF Comes, Of
  <2>3. Rule!First(t) = FirstOf(S)
    BY <1>1, <2>1, <2>2, OnlyOneComesFirst
  <2>4. FirstOf(S) \in Accepted(t)
    BY <2>1, <2>3 DEF Comes, Of, Accepted, Outcome, Candidates, Registered
  <2>5. QED
    BY <1>2, <2>3, <2>4
<1>4. QED
  BY <1>2, <1>3

LEMMA AcceptedIsFirst ==
  LedgerInv => \A t \in Tickets : AcceptedOf(t) = FirstOf(Of(Candidates, t))
<1> SUFFICES ASSUME LedgerInv, NEW t \in Tickets
             PROVE  AcceptedOf(t) = FirstOf(Of(Candidates, t))
  OBVIOUS
<1>1. CASE Of(Candidates, t) = {}
  BY <1>1, FirstIsAccepted DEF FirstOf, AcceptedOf
<1>2. CASE Of(Candidates, t) # {}
  BY <1>2, FirstIsAccepted DEF AcceptedOf
<1>3. QED
  BY <1>1, <1>2

LEMMA AcceptedIsFirstNext ==
  LedgerInv' => \A t \in Tickets : AcceptedOf(t)' = FirstOf(Of(Candidates', t))
<1>1. LedgerInv' => (\A t \in Tickets : AcceptedOf(t) = FirstOf(Of(Candidates, t)))'
  BY AcceptedIsFirst, PTL
<1>2. QED
  BY <1>1

\* A step of the service is a step of the ledger, or none.
LEMMA LedgerStep ==
  ASSUME LedgerInv, LedgerInv', [Next]_vars
  PROVE  [Ledger!Next]_(Ledger!vars)
<1>1. TypeInv
  BY DEF LedgerInv
<1>2. CASE \E t \in Tickets : Revoke(t)
  <2>1. PICK t \in Tickets : Revoke(t)
    BY <1>2
  <2>2. t \notin Withdrawn /\ Withdrawn' = Withdrawn \cup {t}
    BY <1>1, <2>1, WithdrawnStep
  <2>3. Candidates' = {x \in Candidates : x.ticket # t}
    BY <1>1, <2>1, CandidatesStep
  <2>4. Of(Candidates', t) = {} /\ \A q \in Tickets \ {t} : Of(Candidates', q) = Of(Candidates, q)
    BY <2>3 DEF Of
  <2>5. AcceptedOf(t)' = None /\ \A q \in Tickets \ {t} : AcceptedOf(q)' = AcceptedOf(q)
    BY <2>4, AcceptedIsFirst, AcceptedIsFirstNext DEF FirstOf
  <2>6. \E xs \in SUBSET Receipts : overtaken' = [overtaken EXCEPT ![t] = xs]
    <3>1. overtaken' = [overtaken EXCEPT ![t] =
            {call[c].arg : c \in {c \in Calls : call[c].op = "receipt" /\ call[c].found}}]
      BY <2>1 DEF Revoke
    <3>2. {call[c].arg : c \in {c \in Calls : call[c].op = "receipt" /\ call[c].found}}
            \in SUBSET Receipts
      BY <1>1, CallTypes DEF TypeInv
    <3>3. QED
      BY <3>1, <3>2
  <2>7. Ledger!Withdraw(t)
    BY <2>2, <2>5, <2>6 DEF Ledger!Withdraw, Withdrawn
  <2>8. QED
    BY <2>7 DEF Ledger!Next
<1>3. CASE ~ \E t \in Tickets : Revoke(t)
  <2>1. Withdrawn' = Withdrawn
    BY <1>1, <1>3, WithdrawnStep
  <2>2. UNCHANGED overtaken
    BY <1>3, Steps DEF Sells, Pay, Cancel, RegistersKey, RegisterSigningKey, RegisterScannerKey,
       Begins, BeginEntitlement, BeginToken, BeginReceipt,
       Ends, Drop, InsertEntitlement, InsertToken, StoreReceipt, vars
  <2>3. CASE \A t \in Tickets : AcceptedOf(t)' = AcceptedOf(t)
    BY <2>1, <2>2, <2>3 DEF Ledger!vars, Withdrawn
  <2>4. CASE ~ \A t \in Tickets : AcceptedOf(t)' = AcceptedOf(t)
    <3>1. PICK x \in Receipts :
            /\ \E c \in Calls : call[c].op = "receipt" /\ call[c].found /\ call[c].arg = x
            /\ x \notin Candidates /\ Candidates' = Candidates \cup {x}
      BY <1>1, <1>3, <2>4, CandidatesStep, AcceptedIsFirst, AcceptedIsFirstNext
    <3> DEFINE t == x.ticket
    <3>2. t \in Tickets /\ (t \in Withdrawn => x \in overtaken[t])
      BY <3>1 DEF LedgerInv, OvertakenOnly
    <3>3. /\ Of(Candidates', t) = Of(Candidates, t) \cup {x}
          /\ \A q \in Tickets \ {t} : Of(Candidates', q) = Of(Candidates, q)
      BY <3>1 DEF Of
    <3>4. \A q \in Tickets \ {t} : AcceptedOf(q)' = AcceptedOf(q)
      BY <3>3, AcceptedIsFirst, AcceptedIsFirstNext
    <3>5. Of(Candidates, t) \in SUBSET Receipts /\ x \in Receipts \ Of(Candidates, t)
      BY <3>1, CandidatesType DEF Of
    <3>6. AcceptedOf(t)' = x /\ (AcceptedOf(t) = None \/ Rule!Before(x, AcceptedOf(t)))
      <4>1. AcceptedOf(t)' # AcceptedOf(t)
        BY <2>4, <3>4
      <4>2. AcceptedOf(t) = FirstOf(Of(Candidates, t))
            /\ AcceptedOf(t)' = FirstOf(Of(Candidates, t) \cup {x})
        BY <3>2, <3>3, AcceptedIsFirst, AcceptedIsFirstNext
      <4>3. Of(Candidates, t) = {} => AcceptedOf(t) = None
        BY <4>2 DEF FirstOf
      <4>4. QED
        BY <3>5, <4>1, <4>2, <4>3, FirstOfMore
    <3>7. Ledger!Accept(t, x)
      BY <2>1, <2>2, <3>2, <3>4, <3>6 DEF Ledger!Accept, Withdrawn
    <3>8. QED
      BY <3>1, <3>2, <3>7 DEF Ledger!Next
  <2>5. QED
    BY <2>3, <2>4
<1>4. QED
  BY <1>2, <1>3

\* Per ticket one receipt is accepted, only an earlier scan takes over from it,
\* and after a revocation none is accepted but those whose candidate decision the
\* revocation overtook (record_receipt, evgl_revoke_admission_entitlement, the
\* rule of reconcile_receipts).
THEOREM ServiceImplementsLedger == Spec => ImplementsAdmissionLedger
<1>1. Init => Ledger!Init
  <2> SUFFICES ASSUME Init PROVE Ledger!Init
    OBVIOUS
  <2>1. \A t \in Tickets : AcceptedOf(t) = None
    BY DEF Init, AcceptedOf, Accepted, Registered
  <2>2. QED
    BY <2>1 DEF Init, Ledger!Init
<1>2. LedgerInv /\ LedgerInv' /\ [Next]_vars => [Ledger!Next]_(Ledger!vars)
  BY LedgerStep
<1>3. QED
  BY <1>1, <1>2, LedgerInvariant, PTL DEF Spec, ImplementsAdmissionLedger, Ledger!Spec

-----------------------------------------------------------------------------
(* Doors and server: what they know.                                       *)

\* A token is signed as it is registered.
SignedOK ==
  /\ DOMAIN signed = TokenIds
  /\ \A k \in Tokens : signed[k.id] # None => signed[k.id].claims = Signable(k)

\* A receipt is of a token of its ticket, scanned in the token's time.
Admitted(x) == \E k \in Tokens :
  /\ k.id = x.token
  /\ <<k.ticket, k.order, k.event>> = <<x.ticket, x.order, x.event>>
  /\ k.issuedAt <= x.scannedAt /\ x.scannedAt < k.expiresAt

ScannedOK == \A x \in scanned : x \in Receipts /\ Admitted(x)

\* The ticket of a token that is registered, or about to be, has an entitlement of
\* the token's epoch, and the row is as good as the ticket is.
Entitled(k) == \E e \in Registered(entitlement) : e.ticket = k.ticket /\ e.epoch = k.epoch

TokensOK ==
  /\ \A r \in token : Entitled(r.of) /\ (r.valid \/ r.of.ticket \in Withdrawn)
  /\ \A c \in Calls : call[c].op = "token" /\ call[c].found => Entitled(call[c].arg)

\* A receipt the server has, or is about to store, was scanned, and is a candidate
\* unless its ticket was withdrawn.
ReceiptsOK ==
  /\ \A x \in Registered(receipt) : x \in scanned /\ (x \in Candidates \/ x.ticket \in Withdrawn)
  /\ \A c \in Calls : call[c].op = "receipt" =>
       /\ call[c].arg \in scanned
       /\ call[c].found \/ call[c].arg.ticket \in Withdrawn

\* One scanned after the withdrawal is no candidate and will not be one.
StaleOK ==
  /\ \A x \in stale : x \in scanned /\ x.ticket \in Withdrawn /\ x \notin Candidates
  /\ \A c \in Calls : call[c].op = "receipt" /\ call[c].found => call[c].arg \notin stale

OpeningInv == LedgerInv /\ SignedOK /\ ScannedOK /\ TokensOK /\ ReceiptsOK /\ StaleOK

LEMMA OpeningStart == OpeningInit => OpeningInv
<1> SUFFICES ASSUME OpeningInit PROVE OpeningInv
  OBVIOUS
<1>1. TypeInv
  <2>1. RowTypes
    BY DEF OpeningInit, RowTypes
  <2>2. OneRowEach
    <3>1. ASSUME NEW r \in entitlement, NEW s \in entitlement, r.of.ticket = s.of.ticket
          PROVE  r = s
      <4>1. r \in [of : Entitlements, valid : {TRUE}] /\ s \in [of : Entitlements, valid : {TRUE}]
        BY DEF OpeningInit
      <4>2. r.of = s.of
        BY <3>1, <4>1, OfflineAdmissionAssumption
      <4>3. r = [of |-> r.of, valid |-> TRUE] /\ s = [of |-> s.of, valid |-> TRUE]
        BY <4>1
      <4>4. QED
        BY <4>2, <4>3
    <3>2. QED
      BY <3>1 DEF OpeningInit, OneRowEach
  <2>3. StateTypes
    BY DEF OpeningInit, StateTypes, CallRecords
  <2>4. QED
    BY <2>1, <2>2, <2>3 DEF TypeInv
<1>2. Registered(receipt) = {} /\ Candidates = {}
  BY DEF OpeningInit, Registered, Candidates
<1>3. LedgerInv
  BY <1>1, <1>2, FS_EmptySet DEF OpeningInit, LedgerInv, OvertakenOnly, Idle
<1>4. SignedOK
  BY DEF OpeningInit, Door!Init, SignedOK, TokenIds
<1>5. ScannedOK /\ TokensOK
  BY DEF OpeningInit, ScannedOK, TokensOK, Idle
<1>6. ReceiptsOK /\ StaleOK
  BY <1>2 DEF OpeningInit, ReceiptsOK, StaleOK, Idle
<1>7. QED
  BY <1>3, <1>4, <1>5, <1>6 DEF OpeningInv

-----------------------------------------------------------------------------
(* The kinds of steps.                                                     *)

AtDoors == SignToken \/ OtherDoorStep \/ ScanTicket

Serves(c) ==
  \/ Drop(c) \/ InsertToken(c) \/ StoreReceipt(c)
  \/ \E x \in Tokens : BeginToken(c, x)
  \/ \E x \in scanned : BeginReceipt(c, x)

LEMMA OpeningSteps ==
  ASSUME ScannedOK, [Opening]_allVars
  PROVE  /\ \/ AtDoors /\ UNCHANGED vars
            \/ UNCHANGED allVars
            \/ /\ \/ \E c \in Calls : Serves(c)
                  \/ \E t \in Tickets : Revoke(t)
               /\ UNCHANGED <<signed, scanned, stale>>
         /\ [Next]_vars
<1>1. ASSUME AtDoors PROVE UNCHANGED vars
  BY <1>1 DEF AtDoors, SignToken, OtherDoorStep, ScanTicket
<1>2. ASSUME ServerStep
      PROVE  (\E c \in Calls : Serves(c)) /\ UNCHANGED <<signed, scanned, stale>>
  BY <1>2 DEF ServerStep, Serves, doors
<1>3. ASSUME NEW t \in Tickets, RevokeTicket(t)
      PROVE  Revoke(t) /\ UNCHANGED <<signed, scanned, stale>>
  BY <1>3 DEF RevokeTicket
<1>4. ASSUME NEW c \in Calls, Serves(c) PROVE Next
  BY <1>4 DEF Serves, Next, ScannedOK
<1>5. ASSUME NEW t \in Tickets, Revoke(t) PROVE Next
  BY <1>5 DEF Next
<1>6. UNCHANGED allVars => UNCHANGED vars
  BY DEF allVars
<1>7. QED
  BY <1>1, <1>2, <1>3, <1>4, <1>5, <1>6 DEF Opening, AtDoors

\* A ticket is revoked, by the row of its entitlement, once it is withdrawn.
LEMMA RevokedIsWithdrawn == ASSUME TypeInv, NEW t PROVE IsRevoked(t) <=> t \in Withdrawn
BY DEF IsRevoked, Withdrawn, Tickets, TypeInv, RowTypes

LEMMA WithdrawnStays == ASSUME TypeInv, [Next]_vars PROVE Withdrawn \subseteq Withdrawn'
BY WithdrawnStep

-----------------------------------------------------------------------------
(* At the doors.                                                           *)

LEMMA SignedStep == ASSUME SignedOK, ScannedOK, [Opening]_allVars PROVE SignedOK'
<1>1. CASE SignToken
  <2>1. PICK x \in Tokens : Door!Sign(x.id) /\ signed'[x.id].claims = Signable(x)
    BY <1>1 DEF SignToken
  <2>2. PICK tok : signed' = [signed EXCEPT ![x.id] = tok]
    BY <2>1 DEF Door!Sign
  <2>3. ASSUME NEW k \in Tokens, signed'[k.id] # None
        PROVE  signed'[k.id].claims = Signable(k)
    <3>1. CASE k.id = x.id
      BY <2>1, <3>1, OfflineAdmissionAssumption
    <3>2. CASE k.id # x.id
      <4>1. signed'[k.id] = signed[k.id]
        BY <2>2, <3>2 DEF SignedOK, TokenIds
      <4>2. QED
        BY <2>3, <4>1 DEF SignedOK
    <3>3. QED
      BY <3>1, <3>2
  <2>4. DOMAIN signed' = TokenIds
    BY <2>2 DEF SignedOK
  <2>5. QED
    BY <2>3, <2>4 DEF SignedOK
<1>2. OtherDoorStep \/ ScanTicket => UNCHANGED signed
  BY DEF OtherDoorStep, ScanTicket, Door!Tick, Door!Synchronise, doors
<1>3. UNCHANGED signed => SignedOK'
  BY DEF SignedOK
<1>4. QED
  BY <1>1, <1>2, <1>3, OpeningSteps DEF AtDoors, allVars, doors

\* Who is let in has a token in its time.
LEMMA LetInInTime ==
  ASSUME SignedOK, NEW k \in Tokens, NEW s, Door!LetsIn(s, k.id)
  PROVE  k.issuedAt <= clock /\ clock < k.expiresAt
<1>1. signed[k.id].claims = Signable(k)
  BY DEF Door!LetsIn, SignedOK
<1>2. Door!Timely(signed[k.id].claims, clock)
  BY DEF Door!LetsIn, Door!Verdict
<1>3. Signable(k).issuedAt = k.issuedAt /\ Signable(k).expiresAt = k.expiresAt
  BY DEF Signable
<1>4. QED
  BY <1>1, <1>2, <1>3 DEF Door!Timely

\* Somebody is let in: the receipt is new, and of a token in its time.
LEMMA ScanAdmits ==
  ASSUME SignedOK, ScanTicket
  PROVE  \E x \in Receipts \ scanned :
           /\ Admitted(x)
           /\ scanned' = scanned \cup {x}
           /\ stale' = IF IsRevoked(x.ticket) THEN stale \cup {x} ELSE stale
<1>1. PICK x \in Receipts \ scanned :
        /\ x.scannedAt = clock /\ Door!LetsIn(x.scanner, x.token)
        /\ \E k \in Tokens : k.id = x.token /\ <<k.ticket, k.order, k.event>> = <<x.ticket, x.order, x.event>>
        /\ scanned' = scanned \cup {x}
        /\ stale' = IF IsRevoked(x.ticket) THEN stale \cup {x} ELSE stale
  BY DEF ScanTicket
<1>2. PICK k \in Tokens : k.id = x.token /\ <<k.ticket, k.order, k.event>> = <<x.ticket, x.order, x.event>>
  BY <1>1
<1>3. k.issuedAt <= x.scannedAt /\ x.scannedAt < k.expiresAt
  BY <1>1, <1>2, LetInInTime
<1>4. QED
  BY <1>1, <1>2, <1>3 DEF Admitted

LEMMA ScannedStep ==
  ASSUME SignedOK, ScannedOK, [Opening]_allVars
  PROVE  ScannedOK' /\ scanned \subseteq scanned'
<1>1. CASE ScanTicket
  BY <1>1, ScanAdmits DEF ScannedOK, Admitted
<1>2. CASE UNCHANGED scanned
  BY <1>2 DEF ScannedOK, Admitted
<1>3. SignToken \/ OtherDoorStep => UNCHANGED scanned
  BY DEF SignToken, OtherDoorStep
<1>4. QED
  BY <1>1, <1>2, <1>3, OpeningSteps DEF AtDoors, allVars

-----------------------------------------------------------------------------
(* At the server.                                                          *)

LEMMA EntitledStays ==
  ASSUME TypeInv, [Next]_vars, NEW k, Entitled(k)
  PROVE  Entitled(k)'
BY RowsKept DEF Entitled

LEMMA IssuableIsEntitled == ASSUME NEW k, Issuable(k) PROVE Entitled(k)
BY DEF Issuable, Entitled, Registered

LEMMA TokensStep ==
  ASSUME TypeInv, ScannedOK, TokensOK, [Opening]_allVars
  PROVE  TokensOK'
<1>0. [Next]_vars
  BY OpeningSteps
<1>1. ASSUME NEW r \in token' PROVE Entitled(r.of)'
  <2>1. RowWas(token, r) \/ StoredBy("token", r)
    BY <1>0, RowsFrom
  <2>2. Entitled(r.of)
    BY <2>1 DEF RowWas, StoredBy, TokensOK
  <2>3. QED
    BY <1>0, <2>2, EntitledStays
<1>2. ASSUME NEW c \in Calls, call'[c].op = "token", call'[c].found
      PROVE  (\E e \in Registered(entitlement)' :
                e.ticket = call'[c].arg.ticket /\ e.epoch = call'[c].arg.epoch)
  <2>1. call'[c] = call[c] \/ Issuable(call'[c].arg)
    BY <1>0, <1>2, CallsFrom DEF Found
  <2>2. Entitled(call'[c].arg)
    BY <1>2, <2>1, IssuableIsEntitled DEF TokensOK
  <2>3. QED
    BY <1>0, <2>2, RowsKept DEF Entitled
<1>3. ASSUME NEW r \in token' PROVE r.valid \/ r.of.ticket \in Withdrawn'
  <2>1. ASSUME NEW t \in Tickets, Revoke(t)
        PROVE  r.valid \/ r.of.ticket \in Withdrawn'
    <3>1. PICK q \in token : r = [q EXCEPT !.valid = q.valid /\ q.of.ticket # t]
      BY <2>1 DEF Revoke
    <3>2. r.of = q.of /\ r.valid = (q.valid /\ q.of.ticket # t)
      BY <3>1 DEF TypeInv, RowTypes
    <3>3. Withdrawn' = Withdrawn \cup {t}
      BY <1>0, <2>1, WithdrawnStep
    <3>4. q.valid \/ q.of.ticket \in Withdrawn
      BY DEF TokensOK
    <3>5. QED
      BY <3>2, <3>3, <3>4
  <2>2. ASSUME NEW c \in Calls, InsertToken(c) PROVE r \in token \/ r.valid
    BY <2>2 DEF InsertToken, Insert, Active
  <2>3. r \in token => r.valid \/ r.of.ticket \in Withdrawn'
    BY <1>0, WithdrawnStays DEF TokensOK
  <2>4. UNCHANGED token \/ (\E c \in Calls : InsertToken(c)) \/ \E t \in Tickets : Revoke(t)
    BY OpeningSteps DEF Serves, Drop, StoreReceipt, BeginToken, BeginReceipt, allVars, vars, tables
  <2>5. QED
    BY <2>1, <2>2, <2>3, <2>4
<1>4. QED
  BY <1>1, <1>2, <1>3 DEF TokensOK, Entitled

\* What was scanned is a candidate of a ticket in force once its token is known.
LEMMA ScannedIsCandidate ==
  ASSUME TypeInv, ScannedOK, TokensOK, NEW x \in scanned, Issued(x) # {},
         x.ticket \notin Withdrawn
  PROVE  Candidate(x)
<1>1. PICK r \in token : r.of.id = x.token
  BY DEF Issued
<1>2. PICK k \in Tokens :
        /\ k.id = x.token
        /\ <<k.ticket, k.order, k.event>> = <<x.ticket, x.order, x.event>>
        /\ k.issuedAt <= x.scannedAt /\ x.scannedAt < k.expiresAt
  BY DEF ScannedOK, Admitted
<1>3. r.of = k
  BY <1>1, <1>2, OfflineAdmissionAssumption DEF TypeInv, RowTypes
<1>4. r.valid
  BY <1>2, <1>3 DEF TokensOK
<1>5. PICK e \in entitlement : e.of.ticket = k.ticket /\ e.of.epoch = k.epoch
  BY <1>3 DEF TokensOK, Entitled, Registered
<1>6. e.valid
  BY <1>2, <1>5 DEF Withdrawn, Tickets, TypeInv, RowTypes
<1>7. QED
  BY <1>1, <1>2, <1>3, <1>4, <1>5, <1>6 DEF Candidate, Issued

LEMMA WithdrawnNoCandidate ==
  ASSUME TypeInv, NEW x, x.ticket \in Withdrawn
  PROVE  ~ Candidate(x)
<1>1. PICK q \in entitlement : q.of.ticket = x.ticket /\ ~ q.valid
  BY DEF Withdrawn
<1>2. \A e \in entitlement : e.of.ticket = x.ticket => ~ e.valid
  BY <1>1 DEF TypeInv, OneRowEach
<1>3. QED
  BY <1>2 DEF Candidate

\* A call that brings a receipt brings one that was scanned, and has found out
\* by then whether it is a candidate.
LEMMA ReceiptCalls ==
  ASSUME TypeInv, ScannedOK, TokensOK, [Opening]_allVars,
         NEW c \in Calls, call'[c].op = "receipt"
  PROVE  \/ call'[c] = call[c]
         \/ /\ call'[c].arg \in scanned
            /\ call'[c].found <=> call'[c].arg.ticket \notin Withdrawn
<1>1. ASSUME NEW b \in Calls, NEW x \in scanned, BeginReceipt(b, x)
      PROVE  \/ call'[c] = call[c]
             \/ /\ call'[c].arg = x /\ Issued(x) # {}
                /\ call'[c].found = Candidate(x)
  BY <1>1 DEF TypeInv, StateTypes, BeginReceipt, Begin
<1>2. ASSUME NEW x \in scanned, Issued(x) # {}
      PROVE  Candidate(x) <=> x.ticket \notin Withdrawn
  BY <1>2, ScannedIsCandidate, WithdrawnNoCandidate
<1>3. ASSUME NEW b \in Calls, NEW x \in Tokens, BeginToken(b, x) PROVE call'[c] = call[c]
  BY <1>3 DEF TypeInv, StateTypes, BeginToken, Begin
<1>4. ASSUME NEW b \in Calls, Drop(b) \/ InsertToken(b) \/ StoreReceipt(b)
      PROVE  call'[c] = call[c]
  <2>1. End(b)
    BY <1>4 DEF Drop, InsertToken, StoreReceipt
  <2>2. QED
    BY <2>1, EndTypes DEF TypeInv
<1>5. ASSUME NEW t \in Tickets, Revoke(t) PROVE call'[c] = call[c]
  BY <1>5 DEF Revoke
<1>6. UNCHANGED vars \/ UNCHANGED allVars => call'[c] = call[c]
  BY DEF vars, allVars
<1>7. QED
  BY <1>1, <1>2, <1>3, <1>4, <1>5, <1>6, OpeningSteps DEF Serves

LEMMA ReceiptsStep ==
  ASSUME TypeInv, SignedOK, ScannedOK, TokensOK, ReceiptsOK, [Opening]_allVars
  PROVE  ReceiptsOK'
<1>0. [Next]_vars /\ scanned \subseteq scanned' /\ Withdrawn \subseteq Withdrawn'
  BY OpeningSteps, ScannedStep, WithdrawnStays
<1>1. ASSUME NEW c \in Calls, call'[c].op = "receipt"
      PROVE  /\ call'[c].arg \in scanned'
             /\ call'[c].found \/ call'[c].arg.ticket \in Withdrawn'
  BY <1>0, <1>1, ReceiptCalls DEF ReceiptsOK
<1>2. ASSUME NEW x \in Registered(receipt)'
      PROVE  x \in scanned' /\ (x \in Candidates' \/ x.ticket \in Withdrawn')
  <2>1. x \in Registered(receipt) \/ \E c \in Calls : call[c].op = "receipt" /\ call[c].arg = x
    BY <1>0, <1>2, RowsFrom DEF Registered, RowWas, StoredBy
  <2>2. x \in scanned'
    BY <1>0, <2>1 DEF ReceiptsOK
  <2>3. ASSUME NEW t \in Tickets, Revoke(t)
        PROVE  x \in Candidates' \/ x.ticket \in Withdrawn'
    <3>1. Withdrawn' = Withdrawn \cup {t} /\ Candidates' = {y \in Candidates : y.ticket # t}
      BY <1>0, <2>3, WithdrawnStep, CandidatesStep
    <3>2. x \in Registered(receipt)
      BY <1>2, <2>3, RevokeRows
    <3>3. QED
      BY <3>1, <3>2 DEF ReceiptsOK
  <2>4. ASSUME x \in Registered(receipt), ~ \E t \in Tickets : Revoke(t)
        PROVE  x \in Candidates' \/ x.ticket \in Withdrawn'
    <3>1. Candidates \subseteq Candidates'
      BY <1>0, <2>4, CandidatesStep
    <3>2. QED
      BY <1>0, <2>4, <3>1 DEF ReceiptsOK
  <2>5. ASSUME NEW c \in Calls, StoreReceipt(c), x \notin Registered(receipt)
        PROVE  x \in Candidates' \/ x.ticket \in Withdrawn'
    <3>1. /\ call[c].op = "receipt" /\ x = call[c].arg
          /\ receipt' = receipt \cup {[of |-> x, valid |-> call[c].found]}
      BY <1>2, <2>5 DEF StoreReceipt, Registered
    <3>2. ASSUME call[c].found PROVE x \in Candidates'
      <4> DEFINE row == [of |-> x, valid |-> call[c].found]
      <4>1. row \in receipt' /\ row.of = x /\ row.valid
        BY <3>1, <3>2
      <4>2. QED
        BY <4>1, Zenon DEF Candidates
    <3>3. QED
      BY <1>0, <3>1, <3>2 DEF ReceiptsOK
  <2>6. \/ UNCHANGED receipt
        \/ (\E c \in Calls : StoreReceipt(c))
        \/ \E t \in Tickets : Revoke(t)
    BY OpeningSteps DEF Serves, Drop, InsertToken, BeginToken, BeginReceipt, allVars, vars, tables
  <2>7. UNCHANGED receipt => x \in Registered(receipt)
    BY <1>2 DEF Registered
  <2>8. QED
    BY <2>2, <2>3, <2>4, <2>5, <2>6, <2>7
<1>3. QED
  BY <1>1, <1>2 DEF ReceiptsOK

-----------------------------------------------------------------------------
(* Entries after a withdrawal.                                             *)

\* A receipt just signed is not at the server yet.
LEMMA StaleFrom ==
  ASSUME TypeInv, SignedOK, ScannedOK, ReceiptsOK, [Opening]_allVars, NEW x \in stale'
  PROVE  \/ x \in stale
         \/ /\ x \notin scanned /\ x \in scanned' /\ x.ticket \in Withdrawn
            /\ UNCHANGED vars
<1>1. CASE ScanTicket
  BY <1>1, ScanAdmits, RevokedIsWithdrawn, OpeningSteps DEF ScanTicket
<1>2. SignToken \/ OtherDoorStep => UNCHANGED stale
  BY DEF SignToken, OtherDoorStep
<1>3. QED
  BY <1>1, <1>2, OpeningSteps DEF AtDoors, allVars

LEMMA StaleStep ==
  ASSUME TypeInv, SignedOK, ScannedOK, TokensOK, ReceiptsOK, StaleOK, [Opening]_allVars
  PROVE  StaleOK'
<1>0. [Next]_vars /\ scanned \subseteq scanned' /\ Withdrawn \subseteq Withdrawn'
  BY OpeningSteps, ScannedStep, WithdrawnStays
<1>1. UNCHANGED vars => UNCHANGED <<call, Candidates>>
  BY DEF vars, tables, Candidates
<1>2. ASSUME NEW x \in stale'
      PROVE  x \in scanned' /\ x.ticket \in Withdrawn' /\ x \notin Candidates'
  <2>1. CASE x \in stale
    <3>1. x \notin Candidates'
      BY <1>0, <2>1, CandidatesStep DEF StaleOK
    <3>2. QED
      BY <1>0, <2>1, <3>1 DEF StaleOK
  <2>2. CASE x \notin stale
    <3>1. x \notin scanned /\ x \in scanned' /\ x.ticket \in Withdrawn /\ UNCHANGED vars
      BY <2>2, StaleFrom
    <3>2. Candidates \subseteq Registered(receipt)
      BY DEF Candidates, Registered
    <3>3. x \notin Candidates
      BY <3>1, <3>2, Zenon DEF ReceiptsOK
    <3>4. QED
      BY <1>0, <1>1, <3>1, <3>3
  <2>3. QED
    BY <2>1, <2>2
<1>3. ASSUME NEW c \in Calls, call'[c].op = "receipt", call'[c].found, call'[c].arg \in stale'
      PROVE  FALSE
  <2>1. CASE call'[c].arg \in stale
    BY <1>3, <2>1, ReceiptCalls DEF StaleOK
  <2>2. CASE call'[c].arg \notin stale
    BY <1>1, <1>3, <2>2, StaleFrom DEF ReceiptsOK
  <2>3. QED
    BY <2>1, <2>2
<1>4. QED
  BY <1>2, <1>3 DEF StaleOK

-----------------------------------------------------------------------------
(* What it comes to.                                                       *)

LEMMA OpeningInvariant == OpeningSpec => []OpeningInv
<1>1. OpeningInv /\ [Opening]_allVars => OpeningInv'
  <2> SUFFICES ASSUME OpeningInv, [Opening]_allVars PROVE OpeningInv'
    OBVIOUS
  <2>1. TypeInv
    BY DEF OpeningInv, LedgerInv
  <2>2. LedgerInv'
    BY OpeningSteps, LedgerInvStep DEF OpeningInv
  <2>3. SignedOK' /\ ScannedOK'
    BY SignedStep, ScannedStep DEF OpeningInv
  <2>4. TokensOK' /\ ReceiptsOK' /\ StaleOK'
    BY <2>1, TokensStep, ReceiptsStep, StaleStep DEF OpeningInv
  <2>5. QED
    BY <2>2, <2>3, <2>4 DEF OpeningInv
<1>2. QED
  BY <1>1, OpeningStart, PTL DEF OpeningSpec

\* Whom a door let in, with a scanner's key of that moment, the server takes for a
\* candidate, once it knows the token and as long as it knows of no revocation
\* (verify_admission_token, record_receipt).
THEOREM DoorsAgree == OpeningSpec => []DoorAndServerAgree
<1>1. OpeningInv => DoorAndServerAgree
  <2> SUFFICES ASSUME OpeningInv, NEW x \in scanned, Issued(x) # {}, ~ IsRevoked(x.ticket),
                      NEW d \in scannerKey, d.scanner = x.scanner, d.keyId = x.keyId,
                      d.activeFrom <= x.scannedAt, d.retireAt > x.scannedAt
               PROVE  KeyKnown(x) /\ Candidate(x)
    BY DEF DoorAndServerAgree
  <2>1. TypeInv /\ ScannedOK /\ TokensOK
    BY DEF OpeningInv, LedgerInv
  <2>2. x \in Receipts /\ d \in ScannerKeys
    BY <2>1 DEF ScannedOK, TypeInv, RowTypes
  <2>3. d.publicKey = x.by
    BY <2>2, OfflineAdmissionAssumption
  <2>4. x.ticket \notin Withdrawn
    BY <2>1, RevokedIsWithdrawn
  <2>5. QED
    BY <2>1, <2>3, <2>4, ScannedIsCandidate DEF KeyKnown
<1>2. QED
  BY <1>1, OpeningInvariant, PTL

\* When all scans of a ticket have reached the server, in whatever order, one is
\* accepted, no entry was before it, and every other is up for review
\* (record_receipt, receipt_order_key).
THEOREM FirstScanCounts == OpeningSpec => []FirstEntryCounts
<1>1. OpeningInv => FirstEntryCounts
  <2> SUFFICES ASSUME OpeningInv, NEW t \in Tickets,
                      {x \in scanned : x.ticket = t} # {},
                      {x \in scanned : x.ticket = t} \subseteq Registered(receipt),
                      ~ IsRevoked(t)
               PROVE  /\ Cardinality(Accepted(t)) = 1
                      /\ \A x \in Accepted(t), y \in {y \in scanned : y.ticket = t} :
                           x.scannedAt <= y.scannedAt
    BY DEF FirstEntryCounts
  <2> DEFINE entries == {x \in scanned : x.ticket = t}
             winner  == FirstOf(entries)
  <2>1. LedgerInv /\ TypeInv /\ ScannedOK /\ ReceiptsOK
    BY DEF OpeningInv, LedgerInv
  <2>2. t \notin Withdrawn
    BY <2>1, RevokedIsWithdrawn
  <2>3. Of(Candidates, t) = entries
    <3>1. \A x \in entries : x \in Candidates
      BY <2>1, <2>2 DEF ReceiptsOK
    <3>2. \A x \in Candidates : x \in scanned
      BY <2>1 DEF ReceiptsOK, Candidates, Registered
    <3>3. QED
      BY <3>1, <3>2 DEF Of
  <2>4. entries \in SUBSET Receipts /\ entries # {}
    BY <2>1 DEF ScannedOK
  <2>5. Accepted(t) = {winner}
    BY <2>1, <2>3, <2>4, FirstIsAccepted
  <2>6. Comes(winner, entries)
    BY <2>4, FirstOfSome
  <2> HIDE DEF winner, entries
  <2>7. \A y \in entries : winner.scannedAt <= y.scannedAt
    <3>1. \A y \in entries : y.scannedAt \in Nat
      BY <2>4, AdmissionServiceAssumption
    <3>2. \A y \in entries : y = winner \/ Rule!Before(winner, y)
      BY <2>6 DEF Comes
    <3>3. QED
      BY <2>6, <3>1, <3>2 DEF Comes, Rule!Before
  <2>8. Cardinality(Accepted(t)) = 1
    BY <2>5, FS_Singleton
  <2>9. QED
    BY <2>5, <2>7, <2>8 DEF entries
<1>2. QED
  BY <1>1, OpeningInvariant, PTL

\* An entry a door allowed on old knowledge, after the ticket was revoked, is
\* found out: its receipt is never accepted, however soon it comes and whatever
\* was under way when the ticket was revoked (record_receipt, revoke_entitlement).
THEOREM StaleEntriesFound == OpeningSpec => []StaleEntryIsFound
<1>1. OpeningInv => StaleEntryIsFound
  BY DEF OpeningInv, StaleOK, StaleEntryIsFound, Outcome
<1>2. QED
  BY <1>1, OpeningInvariant, PTL
=============================================================================
