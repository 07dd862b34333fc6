------------------------- MODULE OrderPromise_proofs -------------------------
(***************************************************************************)
(* What the order rows promise, proved from the steps of OrderPayment for   *)
(* any number of orders, requests and transactions: who holds a pending key *)
(* and what was cancelled, and that all of it together implements Sale.     *)
(***************************************************************************)
EXTENDS OrderPayment_proofs

(* A step that neither opens, settles nor gives an order leaves its row as  *)
(* it was, the channel aside, or cancels it because it lapsed.              *)
Same(o) ==
  /\ orders'[o].order_status = orders[o].order_status
  /\ orders'[o].pay_status = orders[o].pay_status
  /\ orders'[o].product = orders[o].product
  /\ orders'[o].pending_key = orders[o].pending_key
  /\ orders'[o].canceled_at = orders[o].canceled_at

Dropped(o) ==
  /\ orders[o].order_status # "None"
  /\ o \in lapsed
  /\ orders'[o] = Canceled(orders[o])

Quiet ==
  /\ \A o \in Orders : Same(o) \/ Dropped(o)
  /\ granted' = granted
  /\ lapsed \subseteq lapsed'

LEMMA UnchangedIsQuiet ==
  ASSUME UNCHANGED <<orders, granted, lapsed>>
  PROVE  Quiet
BY DEF Quiet, Same

LEMMA DroppingIsQuiet ==
  ASSUME IInv, NEW S \in SUBSET lapsed, \A o \in S : orders[o].order_status # "None",
         orders' = [o \in Orders |-> IF o \in S THEN Canceled(orders[o]) ELSE orders[o]],
         UNCHANGED <<granted, lapsed>>
  PROVE  Quiet
BY DEF Quiet, Same, Dropped

LEMMA CancelFoundOrderIsQuiet ==
  ASSUME IInv, NEW r \in Requests, CancelFoundOrder(r)
  PROVE  Quiet
<1> DEFINE o == req[r].order
           S == IF req[r].pending /\ o \in lapsed THEN {o} ELSE {}
<1>1. o \in Orders /\ orders[o].order_status # "None" /\ UNCHANGED <<granted, lapsed>>
  BY DEF CancelFoundOrder, IInv, Linked, RequestsLinked
<1>2. orders' = [x \in Orders |-> IF x \in S THEN Canceled(orders[x]) ELSE orders[x]]
  BY DEF CancelFoundOrder, IInv, TypeOK
<1>3. S \in SUBSET lapsed /\ \A x \in S : orders[x].order_status # "None"
  BY <1>1
<1> HIDE DEF S
<1>4. QED BY <1>1, <1>2, <1>3, DroppingIsQuiet

LEMMA InitiateExpiredIsQuiet ==
  ASSUME IInv, NEW r \in Requests, InitiateExpired(r)
  PROVE  Quiet
<1> DEFINE o == req[r].order
           S == {o}
<1>1. /\ o \in Orders /\ orders[o].order_status # "None" /\ o \in lapsed
      /\ UNCHANGED <<granted, lapsed>>
  BY DEF InitiateExpired, CancelIfExpired, IInv, Linked, RequestsLinked
<1>2. orders' = [x \in Orders |-> IF x \in S THEN Canceled(orders[x]) ELSE orders[x]]
  BY DEF InitiateExpired, IInv, TypeOK
<1>3. S \in SUBSET lapsed /\ \A x \in S : orders[x].order_status # "None"
  BY <1>1
<1> HIDE DEF S
<1>4. QED BY <1>1, <1>2, <1>3, DroppingIsQuiet

LEMMA SweepIsQuiet ==
  ASSUME IInv, CancelExpiredPendingOrders
  PROVE  Quiet
<1> DEFINE S == {o \in lapsed : AwaitsPayment(orders[o])}
<1>1. /\ orders' = [o \in Orders |-> IF o \in S THEN Canceled(orders[o]) ELSE orders[o]]
      /\ UNCHANGED <<granted, lapsed>>
  BY DEF CancelExpiredPendingOrders, Overdue
<1>2. S \in SUBSET lapsed /\ \A o \in S : orders[o].order_status # "None"
  BY DEF AwaitsPayment
<1> HIDE DEF S
<1>3. QED BY <1>1, <1>2, DroppingIsQuiet

LEMMA InitiateNewIsQuiet ==
  ASSUME IInv, NEW r \in Requests, InitiateNew(r)
  PROVE  Quiet
<1>1. /\ orders' = [orders EXCEPT ![req[r].order].pay_channel = ChannelOf[req[r].method]]
      /\ UNCHANGED <<granted, lapsed>>
  BY DEF InitiateNew, Payable
<1>2. QED BY <1>1 DEF Quiet, Same, IInv, TypeOK, Order

LEMMA StepIsQuiet ==
  ASSUME IInv, [Next]_vars,
         \A k \in Products : ~Create(k) /\ ~AddProduct(k),
         \A n \in Notice : ~NotifySucceeded(n)
  PROVE  Quiet
<1>1. CASE UNCHANGED <<orders, granted, lapsed>>
  BY <1>1, UnchangedIsQuiet
<1>2. CASE CancelExpiredPendingOrders
  BY <1>2, SweepIsQuiet
<1>3. ASSUME NEW o \in Orders, Lapse(o)  PROVE Quiet
  BY <1>3 DEF Lapse, Quiet, Same
<1>4. ASSUME NEW r \in Requests, CancelFoundOrder(r) \/ InitiateExpired(r) \/ InitiateNew(r)
      PROVE  Quiet
  BY <1>4, CancelFoundOrderIsQuiet, InitiateExpiredIsQuiet, InitiateNewIsQuiet
<1>5. QED
  BY <1>1, <1>2, <1>3, <1>4
  DEF Next, vars, FindOrder, InitiateRefused, InitiateReused, SaveGatewayPayload, Fail, NotifyFailed,
      TradePaid, TradeReported, TradeClosed

(* The three steps that are not quiet. *)
LEMMA OpeningRows ==
  ASSUME IInv, NEW k \in Products, Create(k)
  PROVE  \E o \in Orders :
         /\ orders[o] = NoOrder
         /\ orders'[o] = NewOrder(k)
         /\ \A x \in Orders : x # o /\ orders[x].pending_key = k =>
              /\ AwaitsPayment(orders[x])
              /\ Dropped(x)
         /\ \A x \in Orders : x # o /\ orders[x].pending_key # k => orders'[x] = orders[x]
         /\ UNCHANGED <<granted, lapsed>>
<1>1. PICK o \in Orders :
        /\ orders[o].order_status = "None"
        /\ orders' = [x \in Orders |->
             IF x = o THEN NewOrder(k)
             ELSE IF x \in {y \in Orders : orders[y].pending_key = k}
                  THEN Canceled(orders[x]) ELSE orders[x]]
  BY DEF Create
<1>2. orders[o] = NoOrder
  BY <1>1 DEF IInv, Linked, OrdersLinked
<1>3. \A x \in Orders : orders[x].pending_key = k => AwaitsPayment(orders[x]) /\ x \in lapsed
  BY DEF Create, CancelIfExpired
<1>4. UNCHANGED <<granted, lapsed>>
  BY DEF Create
<1>5. QED BY <1>1, <1>2, <1>3, <1>4 DEF Dropped, AwaitsPayment

LEMMA SettledRow ==
  ASSUME IInv, NEW n \in Notice, NotifySucceeded(n)
  PROVE  LET o == payments[n.payment].order IN
         orders'[o].pending_key = None /\ ~orders'[o].canceled_at
<1>1. payments[n.payment].order \in Orders
  BY SettlingRows
<1>2. QED BY <1>1 DEF NotifySucceeded, IInv, TypeOK, Order

LEMMA GivenRow ==
  ASSUME IInv, NEW k \in Products, AddProduct(k)
  PROVE  \E o \in Orders :
         /\ orders[o] = NoOrder
         /\ orders'[o].order_status = "Completed" /\ orders'[o].pay_status = "Paid"
         /\ orders'[o].product = k /\ orders'[o].pending_key = None /\ ~orders'[o].canceled_at
         /\ \A x \in Orders : x # o => orders'[x] = orders[x]
         /\ granted' = GrantOnce(o, k)
         /\ UNCHANGED lapsed
<1>1. PICK o \in Orders :
        /\ orders[o].order_status = "None"
        /\ orders' = [orders EXCEPT ![o] =
             [NoOrder EXCEPT !.product = k, !.source = "admin",
                             !.order_status = "Completed", !.pay_status = "Paid"]]
        /\ granted' = GrantOnce(o, k)
  BY DEF AddProduct
<1>2. orders[o] = NoOrder
  BY <1>1 DEF IInv, Linked, OrdersLinked
<1>3. /\ orders'[o].order_status = "Completed" /\ orders'[o].pay_status = "Paid"
      /\ orders'[o].product = k /\ orders'[o].pending_key = None /\ ~orders'[o].canceled_at
      /\ \A x \in Orders : x # o => orders'[x] = orders[x]
  BY <1>1 DEF IInv, TypeOK, NoOrder
<1>4. QED BY <1>1, <1>2, <1>3 DEF AddProduct

-----------------------------------------------------------------------------
(* An order that can be paid holds the key of its product: what makes the   *)
(* uniqueness of keys a uniqueness of open orders.                          *)
OpenHasKey ==
  \A o \in Orders : AwaitsPayment(orders[o]) => orders[o].pending_key = orders[o].product

Keyed == OnePendingOrder /\ OpenHasKey

LEMMA KeyedStep ==
  ASSUME IInv, Keyed, [Next]_vars
  PROVE  Keyed'
<1>1. ASSUME NEW k \in Products, Create(k)  PROVE Keyed'
  <2>1. PICK o \in Orders :
         /\ orders[o] = NoOrder
         /\ orders'[o] = NewOrder(k)
         /\ \A x \in Orders : x # o /\ orders[x].pending_key = k => Dropped(x)
         /\ \A x \in Orders : x # o /\ orders[x].pending_key # k => orders'[x] = orders[x]
    BY <1>1, OpeningRows
  <2>2. /\ AwaitsPayment(NewOrder(k)) /\ NewOrder(k).pending_key = k /\ NewOrder(k).product = k
        /\ k # None
    BY NoneIsNoValue DEF AwaitsPayment, NewOrder, NoOrder
  <2>3. ASSUME NEW x \in Orders, x # o, orders[x].pending_key = k
        PROVE  orders'[x].pending_key = None /\ ~AwaitsPayment(orders'[x])
    <3>1. orders[x] \in Order /\ orders'[x] = Canceled(orders[x])
      BY <2>1, <2>3 DEF Dropped, IInv, TypeOK
    <3>2. QED BY <3>1 DEF Canceled, AwaitsPayment, Order
  <2>4. QED
    BY <2>1, <2>2, <2>3 DEF Keyed, OnePendingOrder, OpenHasKey
<1>2. ASSUME NEW k \in Products, AddProduct(k)  PROVE Keyed'
  <2>1. PICK o \in Orders :
         /\ orders'[o].order_status = "Completed" /\ orders'[o].pending_key = None
         /\ \A x \in Orders : x # o => orders'[x] = orders[x]
    BY <1>2, GivenRow
  <2>2. orders'[o].pending_key = None /\ ~AwaitsPayment(orders'[o])
    BY <2>1 DEF AwaitsPayment
  <2>3. QED
    BY <2>1, <2>2 DEF Keyed, OnePendingOrder, OpenHasKey
<1>3. ASSUME NEW n \in Notice, NotifySucceeded(n)  PROVE Keyed'
  <2>1. PICK o \in Orders : o = payments[n.payment].order
    BY <1>3, SettlingRows
  <2>2. /\ orders'[o].pending_key = None /\ ~AwaitsPayment(orders'[o])
        /\ \A x \in Orders : x # o => orders'[x] = orders[x]
    BY <1>3, <2>1, SettlingRows, SettledRow DEF AwaitsPayment
  <2>3. QED
    BY <2>2 DEF Keyed, OnePendingOrder, OpenHasKey
<1>4. CASE /\ \A k \in Products : ~Create(k) /\ ~AddProduct(k)
           /\ \A n \in Notice : ~NotifySucceeded(n)
  <2>1. \A x \in Orders :
          \/ Same(x)
          \/ orders'[x].pending_key = None /\ ~AwaitsPayment(orders'[x])
    BY <1>4, StepIsQuiet DEF Quiet, Dropped, Canceled, AwaitsPayment, IInv, TypeOK, Order
  <2>2. QED
    BY <2>1 DEF Same, AwaitsPayment, Keyed, OnePendingOrder, OpenHasKey
<1>5. QED BY <1>1, <1>2, <1>3, <1>4

LEMMA KeyedAlways == Spec => []Keyed
<1>1. Init => Keyed
  BY DEF Init, Keyed, OnePendingOrder, OpenHasKey, AwaitsPayment, NoOrder
<1>2. IInv /\ Keyed /\ [Next]_vars => Keyed'
  BY KeyedStep
<1>3. QED BY <1>1, <1>2, LinkedAlways, PTL DEF Spec

(* However checkouts, cancellations, sweeps and payments interleave, at most *)
(* one order holds the pending key of a payer and product, and it can be    *)
(* paid (the unique index on rc_orders.pending_key never refuses an insert).*)
THEOREM OneOrderIsPending == Spec => []OnePendingOrder
BY KeyedAlways, PTL DEF Keyed

-----------------------------------------------------------------------------
LEMMA CanceledStep ==
  ASSUME IInv, CanceledHasLapsed, [Next]_vars
  PROVE  CanceledHasLapsed'
<1> DEFINE Fine(o) == /\ orders'[o].order_status = "Canceled" => o \in lapsed'
                      /\ orders'[o].canceled_at <=> orders'[o].order_status = "Canceled"
<1>1. ASSUME NEW o \in Orders, orders'[o] = orders[o], lapsed \subseteq lapsed'  PROVE Fine(o)
  BY <1>1 DEF CanceledHasLapsed
<1>2. ASSUME NEW o \in Orders, Dropped(o), lapsed \subseteq lapsed'  PROVE Fine(o)
  BY <1>2 DEF Dropped, Canceled, IInv, TypeOK, Order
<1>3. ASSUME NEW k \in Products, Create(k)  PROVE \A o \in Orders : Fine(o)
  <2>1. PICK o \in Orders :
         /\ orders'[o] = NewOrder(k)
         /\ \A x \in Orders : x # o /\ orders[x].pending_key = k => Dropped(x)
         /\ \A x \in Orders : x # o /\ orders[x].pending_key # k => orders'[x] = orders[x]
         /\ UNCHANGED lapsed
    BY <1>3, OpeningRows
  <2>2. Fine(o)
    BY <2>1 DEF NewOrder, NoOrder
  <2>3. QED BY <1>1, <1>2, <2>1, <2>2
<1>4. ASSUME NEW k \in Products, AddProduct(k)  PROVE \A o \in Orders : Fine(o)
  <2>1. PICK o \in Orders :
         /\ orders'[o].order_status = "Completed" /\ ~orders'[o].canceled_at
         /\ \A x \in Orders : x # o => orders'[x] = orders[x]
         /\ UNCHANGED lapsed
    BY <1>4, GivenRow
  <2>2. Fine(o)
    BY <2>1
  <2>3. QED BY <1>1, <2>1, <2>2
<1>5. ASSUME NEW n \in Notice, NotifySucceeded(n)  PROVE \A o \in Orders : Fine(o)
  <2>1. PICK o \in Orders : o = payments[n.payment].order
    BY <1>5, SettlingRows
  <2>2. orders'[o].order_status = "Completed" /\ \A x \in Orders : x # o => orders'[x] = orders[x]
    BY <1>5, <2>1, SettlingRows
  <2>3. ~orders'[o].canceled_at
    BY <1>5, <2>1, SettledRow
  <2>4. UNCHANGED lapsed
    BY <1>5 DEF NotifySucceeded
  <2>5. QED BY <1>1, <2>2, <2>3, <2>4
<1>6. ASSUME /\ \A k \in Products : ~Create(k) /\ ~AddProduct(k)
             /\ \A n \in Notice : ~NotifySucceeded(n)
      PROVE  \A o \in Orders : Fine(o)
  <2>1. Quiet
    BY <1>6, StepIsQuiet
  <2>2. \A o \in Orders : Same(o) => Fine(o)
    BY <2>1 DEF Quiet, Same, CanceledHasLapsed
  <2>3. QED BY <1>2, <2>1, <2>2 DEF Quiet
<1>7. \A o \in Orders : Fine(o)
  BY <1>3, <1>4, <1>5, <1>6
<1>8. QED BY <1>7 DEF CanceledHasLapsed

(* No step cancels an order before its time to pay has passed, and an order *)
(* is marked cancelled exactly while it is.                                 *)
THEOREM OnlyLapsedIsCanceled == Spec => []CanceledHasLapsed
<1>1. Init => CanceledHasLapsed
  BY DEF Init, CanceledHasLapsed, NoOrder
<1>2. IInv /\ CanceledHasLapsed /\ [Next]_vars => CanceledHasLapsed'
  BY CanceledStep
<1>3. QED BY <1>1, <1>2, LinkedAlways, PTL DEF Spec

-----------------------------------------------------------------------------
(* What the code does not ensure: findAccessibleOrder cancels an order that  *)
(* it read as pending and that lapsed since only while it still is pending,  *)
(* as if save() compared the row with the copy.                              *)
SavesFreshCopies ==
  \A r \in Requests :
    CancelFoundOrder(r) /\ req[r].pending /\ req[r].order \in lapsed => AwaitsPayment(orders[req[r].order])

(* Then no step drops an order but one that can still be paid.               *)
LEMMA DropsOpenOnly ==
  ASSUME IInv, [Next]_vars, SavesFreshCopies \/ UNCHANGED vars,
         \A k \in Products : ~Create(k) /\ ~AddProduct(k),
         \A n \in Notice : ~NotifySucceeded(n)
  PROVE  \A o \in Orders : Same(o) \/ (AwaitsPayment(orders[o]) /\ Dropped(o))
<1>1. ASSUME UNCHANGED orders  PROVE \A o \in Orders : Same(o)
  BY <1>1 DEF Same
<1>2. CASE CancelExpiredPendingOrders
  <2>1. \A o \in Orders : orders'[o] = IF o \in Overdue THEN Canceled(orders[o]) ELSE orders[o]
    BY <1>2 DEF CancelExpiredPendingOrders
  <2>2. ASSUME NEW o \in Overdue  PROVE AwaitsPayment(orders[o]) /\ o \in lapsed /\ orders[o].order_status # "None"
    BY DEF Overdue, AwaitsPayment
  <2>3. QED BY <2>1, <2>2 DEF Same, Dropped
<1>3. ASSUME NEW r \in Requests, InitiateExpired(r) \/ CancelFoundOrder(r)
      PROVE  \A o \in Orders : Same(o) \/ (AwaitsPayment(orders[o]) /\ Dropped(o))
  <2>1. req[r].order \in Orders /\ orders \in [Orders -> Order]
    BY <1>3 DEF InitiateExpired, CancelFoundOrder, IInv, TypeOK, Linked, RequestsLinked
  <2>2. CASE orders' = orders
    BY <1>1, <2>2
  <2>3. CASE /\ orders' = [orders EXCEPT ![req[r].order] = Canceled(orders[req[r].order])]
             /\ AwaitsPayment(orders[req[r].order]) /\ req[r].order \in lapsed
    BY <2>1, <2>3 DEF Same, Dropped, AwaitsPayment
  <2>4. CASE InitiateExpired(r)
    BY <2>3, <2>4 DEF InitiateExpired, CancelIfExpired
  <2>5. CASE CancelFoundOrder(r)
    <3>1. CASE req[r].pending /\ req[r].order \in lapsed
      <4>1. req'[r] # req[r]
        BY <2>5 DEF CancelFoundOrder, Idle, IInv, TypeOK, Request
      <4>2. AwaitsPayment(orders[req[r].order])
        BY <2>5, <3>1, <4>1 DEF SavesFreshCopies, vars
      <4>3. QED BY <2>3, <2>5, <3>1, <4>2 DEF CancelFoundOrder
    <3>2. CASE ~(req[r].pending /\ req[r].order \in lapsed)
      BY <2>2, <2>5, <3>2 DEF CancelFoundOrder
    <3>3. QED BY <3>1, <3>2
  <2>6. QED BY <1>3, <2>4, <2>5
<1>4. ASSUME NEW r \in Requests, InitiateNew(r)  PROVE \A o \in Orders : Same(o)
  BY <1>4 DEF InitiateNew, Same, IInv, TypeOK, Order
<1>5. QED
  BY <1>1, <1>2, <1>3, <1>4
  DEF Next, vars, Lapse, FindOrder, InitiateRefused, InitiateReused, SaveGatewayPayload, Fail,
      NotifyFailed, TradePaid, TradeReported, TradeClosed

LEMMA CompletedStep ==
  ASSUME IInv, PaidIsCompleted, [Next]_vars, SavesFreshCopies \/ UNCHANGED vars
  PROVE  PaidIsCompleted'
<1> DEFINE Fine(o) == orders'[o].pay_status = "Paid" => orders'[o].order_status = "Completed"
<1>1. ASSUME NEW o \in Orders, AwaitsPayment(orders[o]), Dropped(o)  PROVE Fine(o)
  BY <1>1, CanceledType DEF Dropped, AwaitsPayment, IInv, TypeOK
<1>2. ASSUME NEW o \in Orders, orders'[o] = orders[o] \/ Same(o)  PROVE Fine(o)
  BY <1>2 DEF PaidIsCompleted, Same
<1>3. ASSUME NEW k \in Products, Create(k)  PROVE \A o \in Orders : Fine(o)
  <2>1. PICK o \in Orders :
         /\ orders'[o] = NewOrder(k)
         /\ \A x \in Orders : x # o /\ orders[x].pending_key = k => AwaitsPayment(orders[x]) /\ Dropped(x)
         /\ \A x \in Orders : x # o /\ orders[x].pending_key # k => orders'[x] = orders[x]
    BY <1>3, OpeningRows
  <2>2. Fine(o)
    BY <2>1 DEF NewOrder, NoOrder
  <2>3. QED BY <1>1, <1>2, <2>1, <2>2
<1>4. ASSUME NEW k \in Products, AddProduct(k)  PROVE \A o \in Orders : Fine(o)
  <2>1. PICK o \in Orders :
         /\ orders'[o].order_status = "Completed"
         /\ \A x \in Orders : x # o => orders'[x] = orders[x]
    BY <1>4, GivenRow
  <2>2. QED BY <1>2, <2>1
<1>5. ASSUME NEW n \in Notice, NotifySucceeded(n)  PROVE \A o \in Orders : Fine(o)
  <2>1. PICK o \in Orders :
         /\ orders'[o].order_status = "Completed"
         /\ \A x \in Orders : x # o => orders'[x] = orders[x]
    BY <1>5, SettlingRows
  <2>2. QED BY <1>2, <2>1
<1>6. ASSUME /\ \A k \in Products : ~Create(k) /\ ~AddProduct(k)
             /\ \A n \in Notice : ~NotifySucceeded(n)
      PROVE  \A o \in Orders : Fine(o)
  <2>1. \A o \in Orders : Same(o) \/ (AwaitsPayment(orders[o]) /\ Dropped(o))
    BY <1>6, DropsOpenOnly
  <2>2. QED BY <1>1, <1>2, <2>1
<1>7. \A o \in Orders : Fine(o)
  BY <1>3, <1>4, <1>5, <1>6
<1>8. QED BY <1>7 DEF PaidIsCompleted

(* A paid order is completed, as its documentation says, but for the one     *)
(* stale save: if no request cancels from a copy an order that was settled   *)
(* since it was read, no paid order is cancelled, whatever overlaps          *)
(* (RcOrderService::findAccessibleOrder, cancelIfExpired).                   *)
THEOREM PaidStaysCompleted == Spec /\ [][SavesFreshCopies]_vars => []PaidIsCompleted
<1>1. Init => PaidIsCompleted
  BY DEF Init, PaidIsCompleted, NoOrder
<1>2. IInv /\ PaidIsCompleted /\ [SavesFreshCopies]_vars /\ [Next]_vars => PaidIsCompleted'
  BY CompletedStep
<1>3. QED BY <1>1, <1>2, LinkedAlways, PTL DEF Spec

-----------------------------------------------------------------------------
(* The refinement of Sale.  A step that opens, settles or gives an order is *)
(* the step of that name; a quiet one lets the open orders that it dropped  *)
(* lapse, or stutters.                                                      *)
Bought == [o \in Orders |-> orders[o].product]

LEMMA PhaseOf ==
  ASSUME TypeOK, NEW o \in Orders
  PROVE  /\ Phase[o] = "absent" <=> orders[o].order_status = "None"
         /\ Phase[o] = "paid" <=> orders[o].order_status # "None" /\ orders[o].pay_status = "Paid"
         /\ Phase[o] = "open" <=> AwaitsPayment(orders[o])
         /\ Phase[o] \in {"absent", "open", "lapsed", "paid"}
BY DEF Phase, AwaitsPayment, TypeOK, Order

LEMMA SameRowSamePhase ==
  ASSUME NEW o \in Orders, Same(o)
  PROVE  Phase'[o] = Phase[o] /\ Bought'[o] = Bought[o]
BY DEF Same, Phase, Bought, AwaitsPayment

LEMMA DroppedRowLapses ==
  ASSUME IInv, NEW o \in Orders, Dropped(o)
  PROVE  /\ Phase'[o] = IF Phase[o] = "open" THEN "lapsed" ELSE Phase[o]
         /\ Bought'[o] = Bought[o]
<1>1. /\ orders[o] \in Order /\ orders[o].order_status # "None"
      /\ orders'[o].order_status = "Canceled" /\ orders'[o].pay_status = orders[o].pay_status
      /\ orders'[o].product = orders[o].product
  BY CanceledType DEF Dropped, IInv, TypeOK
<1>2. Phase'[o] = IF orders[o].pay_status = "Paid" THEN "paid" ELSE "lapsed"
  BY <1>1 DEF Phase, AwaitsPayment
<1>3. Phase[o] = IF orders[o].pay_status = "Paid" THEN "paid"
                 ELSE IF orders[o].order_status = "PendingPayment" THEN "open" ELSE "lapsed"
  BY <1>1 DEF Phase, AwaitsPayment, Order
<1>4. QED BY <1>1, <1>2, <1>3 DEF Bought

LEMMA PhaseIsFunction ==
  /\ Phase = [o \in Orders |-> Phase[o]]   /\ Phase' = [o \in Orders |-> Phase'[o]]
  /\ Bought = [o \in Orders |-> Bought[o]] /\ Bought' = [o \in Orders |-> Bought'[o]]
BY DEF Phase, Bought

LEMMA QuietImplements ==
  ASSUME IInv, Quiet
  PROVE  [Promise!SaleNext]_<<Phase, Bought, granted>>
<1> DEFINE S == {o \in Orders : Phase[o] = "open" /\ Phase'[o] # Phase[o]}
<1>1. \A o \in Orders : Phase'[o] = IF o \in S THEN "lapsed" ELSE Phase[o]
  BY SameRowSamePhase, DroppedRowLapses DEF Quiet
<1>2. Bought' = Bought
  <2>1. \A o \in Orders : Bought'[o] = Bought[o]
    BY SameRowSamePhase, DroppedRowLapses DEF Quiet
  <2>2. QED BY <2>1 DEF Bought
<1>3. Phase' = [o \in Orders |-> IF o \in S THEN "lapsed" ELSE Phase[o]]
  BY <1>1, PhaseIsFunction
<1>4. CASE S = {}
  BY <1>2, <1>3, <1>4, PhaseIsFunction DEF Quiet
<1>5. CASE S # {}
  <2>1. S \in SUBSET Orders /\ \A o \in S : Phase[o] = "open"
    OBVIOUS
  <2>2. granted' = granted
    BY DEF Quiet
  <2> HIDE DEF S
  <2>3. Promise!LapseAll(S)
    BY <1>2, <1>3, <1>5, <2>1, <2>2 DEF Promise!LapseAll, Bought
  <2>4. QED BY <2>1, <2>3 DEF Promise!SaleNext
<1>6. QED BY <1>4, <1>5

LEMMA CreateImplements ==
  ASSUME IInv, Keyed, NEW k \in Products, Create(k)
  PROVE  Promise!SaleNext
<1>1. PICK o \in Orders :
        /\ orders[o] = NoOrder
        /\ orders'[o] = NewOrder(k)
        /\ \A x \in Orders : x # o /\ orders[x].pending_key = k =>
             AwaitsPayment(orders[x]) /\ Dropped(x)
        /\ \A x \in Orders : x # o /\ orders[x].pending_key # k => orders'[x] = orders[x]
        /\ UNCHANGED granted
  BY OpeningRows
<1>2. /\ Phase[o] = "absent" /\ Phase'[o] = "open" /\ Bought'[o] = k
  <2>1. orders[o].order_status = "None"
    BY <1>1 DEF NoOrder
  <2>2. /\ orders'[o].order_status = "PendingPayment" /\ orders'[o].pay_status = "Pending"
        /\ orders'[o].product = k
    BY <1>1 DEF NewOrder, NoOrder
  <2>3. QED BY <2>1, <2>2 DEF Phase, Bought, AwaitsPayment
<1>3. ASSUME NEW x \in Orders, x # o
      PROVE  /\ Phase'[x] = IF x \in Promise!OpenFor(k) THEN "lapsed" ELSE Phase[x]
             /\ Bought'[x] = Bought[x]
  <2>1. x \in Promise!OpenFor(k) <=> AwaitsPayment(orders[x]) /\ orders[x].product = k
    BY PhaseOf DEF Promise!OpenFor, Bought, IInv
  <2>2. x \in Promise!OpenFor(k) <=> orders[x].pending_key = k
    BY <2>1, NoneIsNoValue DEF Keyed, OnePendingOrder, OpenHasKey
  <2>3. CASE orders[x].pending_key = k
    <3>1. Phase[x] = "open"
      BY <1>1, <1>3, <2>3, PhaseOf DEF IInv
    <3>2. Phase'[x] = "lapsed" /\ Bought'[x] = Bought[x]
      BY <1>1, <1>3, <2>3, <3>1, DroppedRowLapses
    <3>3. QED BY <2>2, <2>3, <3>2
  <2>4. CASE orders[x].pending_key # k
    <3>1. Same(x)
      BY <1>1, <1>3, <2>4 DEF Same
    <3>2. QED BY <2>2, <2>4, <3>1, SameRowSamePhase
  <2>5. QED BY <2>3, <2>4
<1>4. Phase' = [x \in Orders |-> IF x = o THEN "open"
                                 ELSE IF x \in Promise!OpenFor(k) THEN "lapsed" ELSE Phase[x]]
  BY <1>2, <1>3, PhaseIsFunction
<1>5. Bought' = [Bought EXCEPT ![o] = k]
  BY <1>2, <1>3, PhaseIsFunction
<1>6. Promise!Offer(o, k)
  BY <1>1, <1>2, <1>4, <1>5 DEF Promise!Offer, Bought
<1>7. QED BY <1>6 DEF Promise!SaleNext

LEMMA GrantIsDelivery ==
  ASSUME IInv, PaidIffGranted, NEW o \in Orders, orders[o].pay_status # "Paid", NEW k \in Products
  PROVE  GrantOnce(o, k) = [granted EXCEPT ![o] = Promise!Delivery(k)]
<1>1. \A a \in Assets : granted[o][a] = 0
  BY DEF PaidIffGranted
<1>2. [a \in Assets |-> IF a \in Entitlements[k] /\ granted[o][a] = 0 THEN 1 ELSE granted[o][a]]
        = Promise!Delivery(k)
  BY <1>1 DEF Promise!Delivery
<1>3. QED BY <1>2 DEF GrantOnce

LEMMA SettleImplements ==
  ASSUME IInv, PaidIffGranted, NEW n \in Notice, NotifySucceeded(n)
  PROVE  Promise!SaleNext
<1>1. PICK o \in Orders : o = payments[n.payment].order
  BY SettlingRows
<1>2. /\ orders[o].order_status # "None" /\ orders[o].product \in Products
      /\ orders[o].pay_status = "Pending"
      /\ orders'[o].pay_status = "Paid" /\ orders'[o].order_status = "Completed"
      /\ orders'[o].product = orders[o].product
      /\ \A x \in Orders : x # o => orders'[x] = orders[x]
      /\ granted' = GrantOnce(o, orders[o].product)
  BY <1>1, SettlingRows
<1>3. Phase[o] \in {"open", "lapsed"}
  BY <1>2, PhaseOf DEF IInv
<1>4. Phase'[o] = "paid" /\ Bought'[o] = Bought[o]
  BY <1>2 DEF Phase, Bought, AwaitsPayment
<1>5. \A x \in Orders : x # o => Phase'[x] = Phase[x] /\ Bought'[x] = Bought[x]
  BY <1>2, SameRowSamePhase DEF Same
<1>6. Phase' = [Phase EXCEPT ![o] = "paid"] /\ Bought' = Bought
  BY <1>4, <1>5, PhaseIsFunction
<1>7. granted' = [granted EXCEPT ![o] = Promise!Delivery(Bought[o])]
  BY <1>2, GrantIsDelivery DEF Bought
<1>8. Promise!Settle(o)
  BY <1>3, <1>6, <1>7 DEF Promise!Settle, Bought
<1>9. QED BY <1>8 DEF Promise!SaleNext

LEMMA GiveImplements ==
  ASSUME IInv, PaidIffGranted, NEW k \in Products, AddProduct(k)
  PROVE  Promise!SaleNext
<1>1. PICK o \in Orders :
        /\ orders[o] = NoOrder
        /\ orders'[o].order_status = "Completed" /\ orders'[o].pay_status = "Paid"
        /\ orders'[o].product = k
        /\ \A x \in Orders : x # o => orders'[x] = orders[x]
        /\ granted' = GrantOnce(o, k)
  BY GivenRow
<1>2. Phase[o] = "absent" /\ Phase'[o] = "paid" /\ Bought'[o] = k
  BY <1>1 DEF Phase, Bought, AwaitsPayment, NoOrder
<1>3. \A x \in Orders : x # o => Phase'[x] = Phase[x] /\ Bought'[x] = Bought[x]
  BY <1>1, SameRowSamePhase DEF Same
<1>4. Phase' = [Phase EXCEPT ![o] = "paid"] /\ Bought' = [Bought EXCEPT ![o] = k]
  BY <1>2, <1>3, PhaseIsFunction
<1>5. orders[o].pay_status # "Paid"
  BY <1>1 DEF NoOrder
<1>6. granted' = [granted EXCEPT ![o] = Promise!Delivery(k)]
  BY <1>1, <1>5, GrantIsDelivery
<1>7. Promise!Give(o, k)
  BY <1>2, <1>4, <1>6 DEF Promise!Give, Bought
<1>8. QED BY <1>7 DEF Promise!SaleNext

(* Requests, transactions, notifications, sweeps and gifts together do no   *)
(* more to a payer than Sale allows: the refinement, for any number of them.*)
THEOREM OrdersImplementSale == Spec => ImplementsSale
<1>1. ASSUME Init  PROVE Promise!SaleInit
  <2>1. \A o \in Orders : orders[o].order_status = "None" /\ orders[o].product = None
    BY <1>1 DEF Init, NoOrder
  <2>2. \A o \in Orders : Phase[o] = "absent"
    BY <2>1 DEF Phase, AwaitsPayment
  <2>3. QED BY <1>1, <2>1, <2>2, PhaseIsFunction DEF Init, Promise!SaleInit
<1>2. ASSUME IInv, Keyed, PaidIffGranted, [Next]_vars
      PROVE  [Promise!SaleNext]_<<Phase, Bought, granted>>
  <2>1. CASE \E k \in Products : Create(k) \/ AddProduct(k)
    BY <1>2, <2>1, CreateImplements, GiveImplements
  <2>2. CASE \E n \in Notice : NotifySucceeded(n)
    BY <1>2, <2>2, SettleImplements
  <2>3. CASE /\ \A k \in Products : ~Create(k) /\ ~AddProduct(k)
             /\ \A n \in Notice : ~NotifySucceeded(n)
    BY <1>2, <2>3, StepIsQuiet, QuietImplements
  <2>4. QED BY <2>1, <2>2, <2>3
<1>3. [Promise!SaleNext]_<<Phase, Bought, granted>> => [Promise!SaleNext]_Promise!saleVars
  BY DEF Promise!saleVars, Bought
<1>4. IInv /\ Keyed /\ PaidIffGranted /\ [Next]_vars => [Promise!SaleNext]_Promise!saleVars
  BY <1>2, <1>3
<1>5. QED
  BY <1>1, <1>4, LinkedAlways, KeyedAlways, PaidOrdersAreGranted, PTL
  DEF Spec, ImplementsSale, Promise!SaleSpec
=============================================================================
