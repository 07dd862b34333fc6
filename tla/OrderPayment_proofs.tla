------------------------ MODULE OrderPayment_proofs ------------------------
(***************************************************************************)
(* Proofs about OrderPayment, for any number of orders, transactions,       *)
(* products, requests and assets.                                           *)
(***************************************************************************)
EXTENDS OrderPayment, TLAPS

(* How the rows hang together: what the type invariant needs to be          *)
(* inductive, and the invariants below with it.                             *)
OrdersLinked ==
  \A o \in Orders :
    /\ orders[o].order_status = "None" => orders[o] = NoOrder
    /\ orders[o].order_status # "None" => orders[o].product \in Products
    /\ orders[o].source = "admin" => orders[o].pay_status = "Paid"

PaymentsLinked ==
  \A p \in Payments :
    /\ payments[p].status = "None" => payments[p] = NoPayment /\ trades[p] = "none"
    /\ payments[p].status # "None" =>
         /\ payments[p].order \in Orders
         /\ payments[p].method \in Methods
         /\ orders[payments[p].order].order_status # "None"
         /\ orders[payments[p].order].source = "buyer"

RequestsLinked ==
  \A r \in Requests :
    /\ req[r].pc # "idle" => /\ req[r].order \in Orders
                             /\ orders[req[r].order].order_status # "None"
    /\ req[r].pc \in {"initiate", "gateway"} => req[r].method \in Methods
    /\ req[r].pc = "gateway" => /\ req[r].payment \in Payments
                                /\ payments[req[r].payment].status # "None"

Linked == OrdersLinked /\ PaymentsLinked /\ RequestsLinked

IInv == TypeOK /\ Linked

-----------------------------------------------------------------------------
LEMMA CanceledType ==
  ASSUME NEW order \in Order
  PROVE  /\ Canceled(order) \in Order
         /\ Canceled(order).order_status = "Canceled"
         /\ Canceled(order).product = order.product
         /\ Canceled(order).source = order.source
         /\ Canceled(order).pay_status = order.pay_status
BY DEF Canceled, Order

LEMMA NewOrderType ==
  ASSUME NEW k \in Products
  PROVE  /\ NewOrder(k) \in Order
         /\ NewOrder(k).order_status = "PendingPayment"
         /\ NewOrder(k).product = k
         /\ NewOrder(k).source = "buyer"
BY DEF NewOrder, NoOrder, Order

LEMMA InitInv == Init => IInv
BY DEF Init, IInv, TypeOK, Linked, OrdersLinked, PaymentsLinked, RequestsLinked, NoOrder, NoPayment,
       Idle, Order, Payment, Request

(* What every action leaves of the orders: rows keep their type and where    *)
(* they came from.                                                          *)
OrdersKept ==
  \A o \in Orders :
    /\ orders'[o] \in Order
    /\ orders'[o].order_status = "None" => orders'[o] = NoOrder
    /\ orders'[o].order_status # "None" => orders'[o].product \in Products
    /\ orders'[o].source = "admin" => orders'[o].pay_status = "Paid"
    /\ orders[o].order_status # "None" => /\ orders'[o].order_status # "None"
                                          /\ orders'[o].source = orders[o].source

LEMMA CancelingKeeps ==
  ASSUME IInv, NEW S \in SUBSET Orders,
         \A o \in S : orders[o].order_status # "None",
         orders' = [o \in Orders |-> IF o \in S THEN Canceled(orders[o]) ELSE orders[o]]
  PROVE  OrdersKept
BY CanceledType DEF OrdersKept, IInv, TypeOK, Linked, OrdersLinked

LEMMA UnchangedKeeps ==
  ASSUME IInv, UNCHANGED orders
  PROVE  OrdersKept
BY DEF OrdersKept, IInv, TypeOK, Linked, OrdersLinked

LEMMA KeptLinks ==
  ASSUME IInv, OrdersKept
  PROVE  /\ OrdersLinked'
         /\ UNCHANGED <<payments, trades>> => PaymentsLinked'
         /\ UNCHANGED <<payments, req>> => RequestsLinked'
BY DEF OrdersKept, IInv, Linked, OrdersLinked, PaymentsLinked, RequestsLinked

LEMMA CreateInv ==
  ASSUME IInv, NEW k \in Products, Create(k)
  PROVE  IInv'
<1>1. PICK o \in Orders :
        /\ orders[o].order_status = "None"
        /\ orders' = [x \in Orders |->
             IF x = o THEN NewOrder(k)
             ELSE IF x \in {y \in Orders : orders[y].pending_key = k}
                  THEN Canceled(orders[x]) ELSE orders[x]]
  BY DEF Create
<1>2. UNCHANGED <<lapsed, payments, granted, req, trades, notices>>
  BY DEF Create
<1>3. OrdersKept
  <2>1. ASSUME NEW x \in Orders, x # o, orders[x].pending_key = k
        PROVE  orders[x].order_status # "None" /\ orders[x] \in Order
    BY <2>1, NoneIsNoValue DEF IInv, TypeOK, Linked, OrdersLinked, NoOrder
  <2>2. QED
    BY <1>1, <2>1, NewOrderType, CanceledType DEF OrdersKept, IInv, TypeOK, Linked, OrdersLinked
<1>4. TypeOK'
  BY <1>1, <1>2, <1>3 DEF OrdersKept, IInv, TypeOK
<1>5. QED BY <1>2, <1>3, <1>4, KeptLinks DEF IInv, Linked

LEMMA AddProductInv ==
  ASSUME IInv, NEW k \in Products, AddProduct(k)
  PROVE  IInv'
<1>1. PICK o \in Orders :
        /\ orders[o].order_status = "None"
        /\ orders' = [orders EXCEPT ![o] =
             [NoOrder EXCEPT !.product = k, !.source = "admin",
                             !.order_status = "Completed", !.pay_status = "Paid"]]
        /\ granted' = GrantOnce(o, k)
  BY DEF AddProduct
<1>2. UNCHANGED <<lapsed, payments, req, trades, notices>>
  BY DEF AddProduct
<1>3. OrdersKept
  BY <1>1 DEF OrdersKept, IInv, TypeOK, Linked, OrdersLinked, NoOrder, Order
<1>4. granted' \in [Orders -> [Assets -> Nat]]
  BY <1>1 DEF GrantOnce, IInv, TypeOK
<1>5. TypeOK'
  BY <1>1, <1>2, <1>3, <1>4 DEF OrdersKept, IInv, TypeOK
<1>6. QED BY <1>2, <1>3, <1>5, KeptLinks DEF IInv, Linked

LEMMA SweepInv ==
  ASSUME IInv, CancelExpiredPendingOrders
  PROVE  IInv'
<1> DEFINE S == {o \in lapsed : AwaitsPayment(orders[o])}
<1>1. /\ orders' = [o \in Orders |-> IF o \in S THEN Canceled(orders[o]) ELSE orders[o]]
      /\ UNCHANGED <<lapsed, payments, granted, req, trades, notices>>
  BY DEF CancelExpiredPendingOrders, Overdue
<1>2. S \in SUBSET Orders /\ \A o \in S : orders[o].order_status # "None"
  BY DEF AwaitsPayment, IInv, TypeOK
<1>3. OrdersKept
  <2> HIDE DEF S
  <2> QED BY <1>1, <1>2, CancelingKeeps
<1>4. TypeOK'
  <2> HIDE DEF S
  <2> QED BY <1>1, <1>3 DEF OrdersKept, IInv, TypeOK
<1>5. QED BY <1>1, <1>3, <1>4, KeptLinks DEF IInv, Linked

LEMMA LapseInv ==
  ASSUME IInv, NEW o \in Orders, Lapse(o)
  PROVE  IInv'
<1>1. TypeOK'
  BY DEF Lapse, IInv, TypeOK
<1>2. QED BY <1>1, UnchangedKeeps, KeptLinks DEF Lapse, IInv, Linked

LEMMA FindOrderInv ==
  ASSUME IInv, NEW r \in Requests, NEW o \in Orders, NEW m \in Methods \cup {None}, FindOrder(r, o, m)
  PROVE  IInv'
<1>1. TypeOK'
  BY DEF FindOrder, AwaitsPayment, IInv, TypeOK, Request
<1>2. OrdersLinked' /\ PaymentsLinked'
  BY UnchangedKeeps, KeptLinks DEF FindOrder
<1>3. RequestsLinked'
  BY DEF FindOrder, IInv, TypeOK, Linked, RequestsLinked
<1>4. QED BY <1>1, <1>2, <1>3 DEF IInv, Linked

LEMMA CancelFoundOrderInv ==
  ASSUME IInv, NEW r \in Requests, CancelFoundOrder(r)
  PROVE  IInv'
<1> DEFINE o == req[r].order
           S == IF req[r].pending /\ o \in lapsed THEN {o} ELSE {}
<1>1. /\ o \in Orders /\ orders[o].order_status # "None"
      /\ UNCHANGED <<lapsed, payments, granted, trades, notices>>
  BY DEF CancelFoundOrder, IInv, Linked, RequestsLinked
<1>2. orders' = [x \in Orders |-> IF x \in S THEN Canceled(orders[x]) ELSE orders[x]]
  BY DEF CancelFoundOrder, IInv, TypeOK
<1>3. OrdersKept
  <2>1. S \in SUBSET Orders /\ \A x \in S : orders[x].order_status # "None"
    BY <1>1
  <2> HIDE DEF S
  <2> QED BY <1>2, <2>1, CancelingKeeps
<1>4. TypeOK'
  <2>1. orders' \in [Orders -> Order]
    <3> HIDE DEF S
    <3> QED BY <1>2, <1>3 DEF OrdersKept
  <2>2. req' \in [Requests -> Request]
    <3>1. PICK s : /\ s = Idle \/ s = [req[r] EXCEPT !.pc = "initiate"]
                   /\ req' = [req EXCEPT ![r] = s]
      BY DEF CancelFoundOrder
    <3>2. req[r] \in Request
      BY DEF IInv, TypeOK
    <3>3. s \in Request
      <4>1. CASE s = Idle
        BY <4>1 DEF Request, Idle
      <4>2. CASE s = [req[r] EXCEPT !.pc = "initiate"]
        BY <3>2, <4>2 DEF Request
      <4>3. QED BY <3>1, <4>1, <4>2
    <3>4. QED BY <3>1, <3>3 DEF IInv, TypeOK
  <2> QED BY <1>1, <2>1, <2>2 DEF IInv, TypeOK
<1>5. RequestsLinked'
  BY <1>1, <1>3 DEF CancelFoundOrder, OrdersKept, IInv, TypeOK, Linked, RequestsLinked, Idle, Request
<1>6. QED BY <1>1, <1>3, <1>4, <1>5, KeptLinks DEF IInv, Linked

LEMMA InitiateExpiredInv ==
  ASSUME IInv, NEW r \in Requests, InitiateExpired(r)
  PROVE  IInv'
<1> DEFINE o == req[r].order
           S == {o}
<1>1. /\ o \in Orders /\ orders[o].order_status # "None"
      /\ UNCHANGED <<lapsed, payments, granted, trades, notices>>
  BY DEF InitiateExpired, IInv, Linked, RequestsLinked
<1>2. orders' = [x \in Orders |-> IF x \in S THEN Canceled(orders[x]) ELSE orders[x]]
  BY DEF InitiateExpired, IInv, TypeOK
<1>3. OrdersKept
  <2>1. S \in SUBSET Orders /\ \A x \in S : orders[x].order_status # "None"
    BY <1>1
  <2> HIDE DEF S
  <2> QED BY <1>2, <2>1, CancelingKeeps
<1>4. TypeOK'
  <2>1. orders' \in [Orders -> Order]
    <3> HIDE DEF S
    <3> QED BY <1>2, <1>3 DEF OrdersKept
  <2>2. req' \in [Requests -> Request]
    BY DEF InitiateExpired, IInv, TypeOK, Request, Idle
  <2> QED BY <1>1, <2>1, <2>2 DEF IInv, TypeOK
<1>5. RequestsLinked'
  BY <1>1, <1>3 DEF InitiateExpired, OrdersKept, IInv, TypeOK, Linked, RequestsLinked, Idle, Request
<1>6. QED BY <1>1, <1>3, <1>4, <1>5, KeptLinks DEF IInv, Linked

(* A request that only ends: refused, failed, or answered from a reused row. *)
LEMMA RequestEndsInv ==
  ASSUME IInv, NEW r \in Requests,
         req' = [req EXCEPT ![r] = Idle],
         UNCHANGED <<orders, lapsed, payments, granted, trades, notices>>
  PROVE  IInv'
<1>1. TypeOK'
  BY DEF IInv, TypeOK, Request, Idle
<1>2. OrdersLinked' /\ PaymentsLinked'
  BY UnchangedKeeps, KeptLinks
<1>3. RequestsLinked'
  BY DEF IInv, TypeOK, Linked, RequestsLinked, Idle
<1>4. QED BY <1>1, <1>2, <1>3 DEF IInv, Linked

LEMMA InitiateReusedInv ==
  ASSUME IInv, NEW r \in Requests, InitiateReused(r)
  PROVE  IInv'
<1>1. PICK p \in Payments :
        /\ IsLatest(p, req[r].order, ChannelOf[req[r].method])
        /\ req' = [req EXCEPT ![r] = IF payments[p].response = "none"
                                     THEN [req[r] EXCEPT !.pc = "gateway", !.payment = p]
                                     ELSE Idle]
  BY DEF InitiateReused, Payable
<1>2. req[r].pc = "initiate" /\ UNCHANGED <<orders, lapsed, payments, granted, trades, notices>>
  BY DEF InitiateReused, Payable
<1>3. CASE payments[p].response # "none"
  BY <1>1, <1>2, <1>3, RequestEndsInv
<1>4. CASE payments[p].response = "none"
  <2>1. payments[p].status # "None"
    BY <1>1 DEF IsLatest, Initialized
  <2>2. TypeOK'
    BY <1>1, <1>2, <1>4 DEF IInv, TypeOK, Request
  <2>3. OrdersLinked' /\ PaymentsLinked'
    BY <1>2, UnchangedKeeps, KeptLinks
  <2>4. RequestsLinked'
    BY <1>1, <1>2, <1>4, <2>1 DEF IInv, TypeOK, Request, Linked, RequestsLinked
  <2>5. QED BY <2>2, <2>3, <2>4 DEF IInv, Linked
<1>5. QED BY <1>3, <1>4

(* Transactions keep their order and method, and are never removed. *)
PaymentsKept ==
  \A p \in Payments :
    /\ payments'[p] \in Payment
    /\ payments[p].status # "None" => /\ payments'[p].status # "None"
                                      /\ payments'[p].order = payments[p].order
                                      /\ payments'[p].method = payments[p].method

LEMMA InitiateNewInv ==
  ASSUME IInv, NEW r \in Requests, InitiateNew(r)
  PROVE  IInv'
<1> DEFINE o == req[r].order
           m == req[r].method
<1>1. PICK p \in Unused :
        /\ payments' = [q \in Payments |->
             IF q = p THEN [order |-> o, method |-> m, status |-> "Initialized", response |-> "none"]
             ELSE IF q \in Initialized(o) THEN [payments[q] EXCEPT !.status = "Closed"]
             ELSE payments[q]]
        /\ req' = [req EXCEPT ![r] = [req[r] EXCEPT !.pc = "gateway", !.payment = p]]
  BY DEF InitiateNew, Superseded, Payable
<1>2. /\ req[r].pc = "initiate" /\ AwaitsPayment(orders[o])
      /\ orders' = [orders EXCEPT ![o].pay_channel = ChannelOf[m]]
      /\ UNCHANGED <<lapsed, granted, trades, notices>>
  BY DEF InitiateNew, Superseded, Payable
<1>3. /\ o \in Orders /\ orders[o].order_status # "None" /\ orders[o].source = "buyer"
      /\ m \in Methods
      /\ p \in Payments /\ payments[p].status = "None"
  BY <1>1, <1>2 DEF Unused, AwaitsPayment, IInv, TypeOK, Order, Linked, RequestsLinked, OrdersLinked
<1>4. OrdersKept
  <2>1. orders[o] \in Order /\ ChannelOf[m] \in Channels
    BY <1>3, MethodChannels DEF IInv, TypeOK
  <2>2. orders'[o] = [orders[o] EXCEPT !.pay_channel = ChannelOf[m]]
    BY <1>2, <1>3 DEF IInv, TypeOK
  <2>3. orders'[o] \in Order /\ orders'[o].product = orders[o].product
        /\ orders'[o].source = "buyer" /\ orders'[o].order_status = orders[o].order_status
    BY <1>3, <2>1, <2>2 DEF Order
  <2>4. \A x \in Orders : x # o => orders'[x] = orders[x]
    BY <1>2 DEF IInv, TypeOK
  <2>5. QED BY <1>3, <2>3, <2>4 DEF OrdersKept, IInv, TypeOK, Linked, OrdersLinked
<1>5. \A q \in Payments : payments'[q] \in Payment
  BY <1>1, <1>3 DEF IInv, TypeOK, Payment
<1>6. PaymentsLinked'
  BY <1>1, <1>2, <1>3, <1>4 DEF Initialized, OrdersKept, IInv, TypeOK, Payment, Linked, PaymentsLinked
<1>7. TypeOK'
  <2>1. orders' \in [Orders -> Order]
    BY <1>2, <1>4 DEF OrdersKept, IInv, TypeOK
  <2>2. payments' \in [Payments -> Payment]
    BY <1>1, <1>5
  <2>3. req' \in [Requests -> Request]
    <3>1. PICK s : s = [req[r] EXCEPT !.pc = "gateway", !.payment = p]
      OBVIOUS
    <3>2. req[r] \in Request
      BY DEF IInv, TypeOK
    <3>3. s \in Request
      BY <1>3, <3>1, <3>2 DEF Request
    <3>4. req' = [req EXCEPT ![r] = s]
      BY <1>1, <3>1
    <3>5. QED BY <3>3, <3>4 DEF IInv, TypeOK
  <2>4. QED BY <1>2, <2>1, <2>2, <2>3 DEF IInv, TypeOK
<1>8. RequestsLinked'
  <2>1. \A q \in Payments : payments[q].status # "None" => payments'[q].status # "None"
    BY <1>1, <1>3 DEF Initialized, IInv, TypeOK, Payment
  <2>2. payments'[p].status # "None"
    BY <1>1, <1>3
  <2>3. ASSUME NEW s \in Requests, s # r  PROVE req'[s] = req[s]
    BY <1>1, <2>3 DEF IInv, TypeOK
  <2>4. req'[r].order = o /\ req'[r].method = m /\ req'[r].payment = p
    BY <1>1 DEF IInv, TypeOK, Request
  <2>5. QED BY <1>3, <1>4, <2>1, <2>2, <2>3, <2>4 DEF OrdersKept, IInv, Linked, RequestsLinked
<1>9. QED BY <1>4, <1>6, <1>7, <1>8, KeptLinks DEF IInv, Linked

LEMMA SaveGatewayPayloadInv ==
  ASSUME IInv, NEW r \in Requests, SaveGatewayPayload(r)
  PROVE  IInv'
<1> DEFINE p == req[r].payment
<1>1. p \in Payments /\ payments[p].status # "None"
  BY DEF SaveGatewayPayload, IInv, Linked, RequestsLinked
<1>2. PaymentsKept
  BY <1>1 DEF SaveGatewayPayload, PaymentsKept, IInv, TypeOK, Payment
<1>3. TypeOK'
  BY <1>1, <1>2 DEF SaveGatewayPayload, PaymentsKept, IInv, TypeOK, Request, Idle
<1>4. PaymentsLinked'
  BY <1>1 DEF SaveGatewayPayload, IInv, TypeOK, Payment, Linked, PaymentsLinked
<1>5. OrdersLinked'
  BY UnchangedKeeps, KeptLinks DEF SaveGatewayPayload
<1>6. RequestsLinked'
  BY <1>1, <1>2 DEF SaveGatewayPayload, PaymentsKept, IInv, TypeOK, Idle, Linked, RequestsLinked
<1>7. QED BY <1>3, <1>4, <1>5, <1>6 DEF IInv, Linked

(* A notification that is recorded touches one row, which was used before.   *)
LEMMA RecordedRow ==
  ASSUME IInv, NEW p \in Payments, NEW s \in {"Failed", "Succeeded"},
         payments[p].status # "None", payments' = Recorded(p, s)
  PROVE  /\ PaymentsKept
         /\ payments'[p].status # "None"
         /\ \A q \in Payments : q # p => payments'[q] = payments[q]
<1>1. PICK row : row = [payments[p] EXCEPT !.status = s, !.response = "notice"]
  OBVIOUS
<1>2. payments \in [Payments -> Payment] /\ payments[p] \in Payment
  BY DEF IInv, TypeOK
<1>3. row \in Payment /\ row.status = s /\ row.order = payments[p].order /\ row.method = payments[p].method
  BY <1>1, <1>2 DEF Payment
<1>4. payments' = [payments EXCEPT ![p] = row]
  BY <1>1 DEF Recorded
<1>5. QED BY <1>2, <1>3, <1>4 DEF PaymentsKept

LEMMA NotifyFailedInv ==
  ASSUME IInv, NEW n \in Notice, NotifyFailed(n)
  PROVE  IInv'
<1>1. n.payment \in Payments /\ payments[n.payment].status # "None"
  BY DEF NotifyFailed, Accepted, Notice
<1>2. PaymentsKept
  BY <1>1, RecordedRow DEF NotifyFailed
<1>3. TypeOK'
  BY <1>1, <1>2 DEF NotifyFailed, Recorded, PaymentsKept, IInv, TypeOK
<1>4. PaymentsLinked'
  BY <1>1 DEF NotifyFailed, Recorded, IInv, TypeOK, Payment, Linked, PaymentsLinked
<1>5. OrdersLinked'
  BY UnchangedKeeps, KeptLinks DEF NotifyFailed
<1>6. RequestsLinked'
  BY <1>1, <1>2 DEF NotifyFailed, PaymentsKept, IInv, Linked, RequestsLinked
<1>7. QED BY <1>3, <1>4, <1>5, <1>6 DEF IInv, Linked

LEMMA NotifySucceededInv ==
  ASSUME IInv, NEW n \in Notice, NotifySucceeded(n)
  PROVE  IInv'
<1> DEFINE p == n.payment
           o == payments[p].order
<1>1. /\ p \in Payments /\ payments[p].status # "None"
      /\ o \in Orders /\ orders[o].order_status # "None" /\ orders[o].source = "buyer"
      /\ payments[p].method \in Methods
  BY DEF NotifySucceeded, Settles, Accepted, Notice, IInv, Linked, PaymentsLinked
<1>2. PaymentsKept /\ payments'[p].status # "None" /\ \A q \in Payments : q # p => payments'[q] = payments[q]
  BY <1>1, RecordedRow DEF NotifySucceeded
<1>3. OrdersKept
  <2>1. orders[o] \in Order /\ ChannelOf[payments[p].method] \in Channels
    BY <1>1, MethodChannels DEF IInv, TypeOK
  <2>2. orders'[o] = [orders[o] EXCEPT !.pending_key = None,
                                       !.pay_channel = ChannelOf[payments[p].method],
                                       !.pay_status = "Paid",
                                       !.order_status = "Completed",
                                       !.canceled_at = FALSE]
    BY <1>1 DEF NotifySucceeded, Settles, IInv, TypeOK
  <2>3. /\ orders'[o] \in Order /\ orders'[o].product = orders[o].product
        /\ orders'[o].source = "buyer" /\ orders'[o].order_status = "Completed"
    BY <1>1, <2>1, <2>2 DEF Order
  <2>4. \A x \in Orders : x # o => orders'[x] = orders[x]
    BY DEF NotifySucceeded, Settles, IInv, TypeOK
  <2>5. QED BY <1>1, <2>3, <2>4 DEF OrdersKept, IInv, TypeOK, Linked, OrdersLinked
<1>4. granted' \in [Orders -> [Assets -> Nat]]
  BY <1>1 DEF NotifySucceeded, Settles, GrantOnce, IInv, TypeOK
<1>5. TypeOK'
  BY <1>1, <1>2, <1>3, <1>4 DEF NotifySucceeded, Settles, Recorded, PaymentsKept, OrdersKept, IInv, TypeOK
<1>6. PaymentsLinked'
  <2>1. PaymentsLinked /\ trades' = trades
    BY DEF NotifySucceeded, IInv, Linked
  <2>2. QED BY <1>1, <1>2, <1>3, <2>1 DEF PaymentsKept, OrdersKept, PaymentsLinked
<1>7. RequestsLinked'
  BY <1>2, <1>3 DEF NotifySucceeded, Settles, PaymentsKept, OrdersKept, IInv, Linked, RequestsLinked
<1>8. QED BY <1>3, <1>5, <1>6, <1>7, KeptLinks DEF IInv, Linked

LEMMA TradeInv ==
  ASSUME IInv, NEW p \in Payments, TradePaid(p) \/ TradeReported(p) \/ TradeClosed(p)
  PROVE  IInv'
<1>1. /\ trades[p] = "open"
      /\ UNCHANGED <<orders, lapsed, payments, granted, req>>
      /\ trades' \in [Payments -> {"none", "open", "paid", "closed"}]
      /\ \A q \in Payments : q # p => trades'[q] = trades[q]
  BY DEF TradePaid, TradeReported, TradeClosed, IInv, TypeOK
<1>2. payments[p].status # "None" /\ ChannelOf[payments[p].method] \in Channels
  BY <1>1, MethodChannels DEF IInv, Linked, PaymentsLinked
<1>3. \A s, f \in BOOLEAN : NoticeOf(p, s, f) \in Notice
  BY <1>2 DEF NoticeOf, Notice
<1>4. notices' \subseteq Notice
  BY <1>3 DEF TradePaid, TradeReported, TradeClosed, IInv, TypeOK
<1>5. PaymentsLinked'
  BY <1>1, <1>2 DEF IInv, Linked, PaymentsLinked
<1>6. QED
  BY <1>1, <1>4, <1>5 DEF IInv, TypeOK, Linked, OrdersLinked, RequestsLinked

-----------------------------------------------------------------------------
LEMMA StepInv == IInv /\ [Next]_vars => IInv'
<1> SUFFICES ASSUME IInv, [Next]_vars  PROVE IInv'
  BY SMT
<1>1. CASE UNCHANGED vars
  BY <1>1 DEF vars, IInv, TypeOK, Linked, OrdersLinked, PaymentsLinked, RequestsLinked
<1>2. CASE \E k \in Products : Create(k) \/ AddProduct(k)
  BY <1>2, CreateInv, AddProductInv
<1>3. CASE CancelExpiredPendingOrders
  BY <1>3, SweepInv
<1>4. CASE \E o \in Orders : Lapse(o)
  BY <1>4, LapseInv
<1>5. CASE \E r \in Requests, o \in Orders, m \in Methods \cup {None} : FindOrder(r, o, m)
  BY <1>5, FindOrderInv
<1>6. ASSUME NEW r \in Requests, CancelFoundOrder(r) \/ InitiateExpired(r) \/ InitiateRefused(r)
  PROVE IInv'
  BY <1>6, CancelFoundOrderInv, InitiateExpiredInv, RequestEndsInv DEF InitiateRefused
<1>7. ASSUME NEW r \in Requests, InitiateReused(r) \/ InitiateNew(r)
  PROVE IInv'
  BY <1>7, InitiateReusedInv, InitiateNewInv
<1>8. ASSUME NEW r \in Requests, SaveGatewayPayload(r) \/ Fail(r)
  PROVE IInv'
  BY <1>8, SaveGatewayPayloadInv, RequestEndsInv DEF Fail
<1>9. CASE \E n \in Notice : NotifyFailed(n) \/ NotifySucceeded(n)
  BY <1>9, NotifyFailedInv, NotifySucceededInv
<1>10. CASE \E p \in Payments : TradePaid(p) \/ TradeReported(p) \/ TradeClosed(p)
  BY <1>10, TradeInv
<1>11. QED
  BY <1>1, <1>2, <1>3, <1>4, <1>5, <1>6, <1>7, <1>8, <1>9, <1>10 DEF Next

LEMMA LinkedAlways == Spec => []IInv
BY InitInv, StepInv, PTL DEF Spec

(* Every row, request, trade and notification keeps its type, for any       *)
(* number of them.                                                          *)
THEOREM TypeCorrect == Spec => []TypeOK
BY LinkedAlways, PTL DEF IInv

-----------------------------------------------------------------------------
(* Only a successful notification and an administrator move money: every    *)
(* other step leaves what was paid, bought, granted and settled alone.      *)
MoneyKept ==
  /\ granted' = granted
  /\ \A o \in Orders :
       /\ orders'[o].pay_status = orders[o].pay_status
       /\ orders'[o].source = orders[o].source
       /\ orders[o].order_status # "None" => orders'[o].product = orders[o].product
  /\ \A p \in Payments :
       /\ payments'[p].status = "Succeeded" <=> payments[p].status = "Succeeded"
       /\ payments[p].status # "None" => payments'[p].order = payments[p].order

LEMMA CancelingKeepsMoney ==
  ASSUME IInv, NEW S \in SUBSET Orders,
         orders' = [o \in Orders |-> IF o \in S THEN Canceled(orders[o]) ELSE orders[o]],
         UNCHANGED <<granted, payments>>
  PROVE  MoneyKept
BY CanceledType DEF MoneyKept, IInv, TypeOK

LEMMA SameRowsKeepMoney ==
  ASSUME UNCHANGED <<orders, granted, payments>>
  PROVE  MoneyKept
BY DEF MoneyKept

LEMMA CreateKeepsMoney ==
  ASSUME IInv, NEW k \in Products, Create(k)
  PROVE  MoneyKept
<1>1. PICK o \in Orders :
        /\ orders[o].order_status = "None"
        /\ orders' = [x \in Orders |->
             IF x = o THEN NewOrder(k)
             ELSE IF x \in {y \in Orders : orders[y].pending_key = k}
                  THEN Canceled(orders[x]) ELSE orders[x]]
  BY DEF Create
<1>2. NewOrder(k).pay_status = "Pending" /\ NewOrder(k).source = "buyer"
  BY DEF NewOrder, NoOrder
<1>3. orders[o].pay_status = "Pending" /\ orders[o].source = "buyer"
  BY <1>1 DEF IInv, Linked, OrdersLinked, NoOrder
<1>4. \A x \in Orders : orders[x] \in Order
  BY DEF IInv, TypeOK
<1>5. \A x \in Orders : /\ orders'[x].pay_status = orders[x].pay_status
                        /\ orders'[x].source = orders[x].source
                        /\ orders[x].order_status # "None" => orders'[x].product = orders[x].product
  BY <1>1, <1>2, <1>3, <1>4, CanceledType
<1>6. QED
  BY <1>5 DEF Create, MoneyKept

LEMMA CancelFoundOrderKeepsMoney ==
  ASSUME IInv, NEW r \in Requests, CancelFoundOrder(r)
  PROVE  MoneyKept
<1> DEFINE o == req[r].order
           S == IF req[r].pending /\ o \in lapsed THEN {o} ELSE {}
<1>1. o \in Orders /\ UNCHANGED <<granted, payments>>
  BY DEF CancelFoundOrder, IInv, Linked, RequestsLinked
<1>2. orders' = [x \in Orders |-> IF x \in S THEN Canceled(orders[x]) ELSE orders[x]]
  BY DEF CancelFoundOrder, IInv, TypeOK
<1>3. S \in SUBSET Orders
  BY <1>1
<1> HIDE DEF S
<1>4. QED BY <1>1, <1>2, <1>3, CancelingKeepsMoney

LEMMA InitiateExpiredKeepsMoney ==
  ASSUME IInv, NEW r \in Requests, InitiateExpired(r)
  PROVE  MoneyKept
<1> DEFINE S == {req[r].order}
<1>1. S \in SUBSET Orders /\ UNCHANGED <<granted, payments>>
  BY DEF InitiateExpired, IInv, Linked, RequestsLinked
<1>2. orders' = [x \in Orders |-> IF x \in S THEN Canceled(orders[x]) ELSE orders[x]]
  BY DEF InitiateExpired, IInv, TypeOK
<1> HIDE DEF S
<1>3. QED BY <1>1, <1>2, CancelingKeepsMoney

LEMMA InitiateNewKeepsMoney ==
  ASSUME IInv, NEW r \in Requests, InitiateNew(r)
  PROVE  MoneyKept
<1> DEFINE o == req[r].order
           m == req[r].method
<1>1. PICK p \in Unused :
        payments' = [q \in Payments |->
             IF q = p THEN [order |-> o, method |-> m, status |-> "Initialized", response |-> "none"]
             ELSE IF q \in Initialized(o) THEN [payments[q] EXCEPT !.status = "Closed"]
             ELSE payments[q]]
  BY DEF InitiateNew, Superseded, Payable
<1>2. o \in Orders /\ orders' = [orders EXCEPT ![o].pay_channel = ChannelOf[m]] /\ granted' = granted
  BY DEF InitiateNew, Superseded, Payable, IInv, Linked, RequestsLinked
<1>3. \A x \in Orders : /\ orders'[x].pay_status = orders[x].pay_status
                        /\ orders'[x].source = orders[x].source
                        /\ orders'[x].product = orders[x].product
  BY <1>2 DEF IInv, TypeOK, Order
<1>4. \A q \in Payments :
       /\ payments'[q].status = "Succeeded" <=> payments[q].status = "Succeeded"
       /\ payments[q].status # "None" => payments'[q].order = payments[q].order
  BY <1>1 DEF Unused, Initialized, IInv, TypeOK, Payment
<1>5. QED BY <1>2, <1>3, <1>4 DEF MoneyKept

LEMMA NotifyFailedKeepsMoney ==
  ASSUME IInv, NEW n \in Notice, NotifyFailed(n)
  PROVE  MoneyKept
BY DEF NotifyFailed, Recorded, MoneyKept, IInv, TypeOK, Payment, Notice

LEMMA SaveGatewayPayloadKeepsMoney ==
  ASSUME IInv, NEW r \in Requests, SaveGatewayPayload(r)
  PROVE  MoneyKept
BY DEF SaveGatewayPayload, MoneyKept, IInv, TypeOK, Payment

LEMMA StepKeepsMoney ==
  ASSUME IInv, [Next]_vars,
         \A n \in Notice : ~NotifySucceeded(n),
         \A k \in Products : ~AddProduct(k)
  PROVE  MoneyKept
<1>1. CASE UNCHANGED vars
  BY <1>1, SameRowsKeepMoney DEF vars
<1>2. ASSUME NEW k \in Products, Create(k)  PROVE MoneyKept
  BY <1>2, CreateKeepsMoney
<1>3. CASE CancelExpiredPendingOrders
  <2> DEFINE S == {o \in lapsed : AwaitsPayment(orders[o])}
  <2>1. /\ orders' = [o \in Orders |-> IF o \in S THEN Canceled(orders[o]) ELSE orders[o]]
        /\ UNCHANGED <<granted, payments>>
    BY <1>3 DEF CancelExpiredPendingOrders, Overdue
  <2>2. S \in SUBSET Orders
    BY DEF IInv, TypeOK
  <2> HIDE DEF S
  <2>3. QED BY <2>1, <2>2, CancelingKeepsMoney
<1>4. ASSUME NEW o \in Orders, Lapse(o)  PROVE MoneyKept
  BY <1>4, SameRowsKeepMoney DEF Lapse
<1>5. ASSUME NEW r \in Requests, NEW o \in Orders, NEW m \in Methods \cup {None}, FindOrder(r, o, m)
      PROVE  MoneyKept
  BY <1>5, SameRowsKeepMoney DEF FindOrder
<1>6. ASSUME NEW r \in Requests, InitiateRefused(r) \/ InitiateReused(r) \/ Fail(r)
      PROVE  MoneyKept
  BY <1>6, SameRowsKeepMoney DEF InitiateRefused, InitiateReused, Payable, Fail
<1>7. ASSUME NEW r \in Requests, CancelFoundOrder(r) \/ InitiateExpired(r) \/ InitiateNew(r) \/ SaveGatewayPayload(r)
      PROVE  MoneyKept
  BY <1>7, CancelFoundOrderKeepsMoney, InitiateExpiredKeepsMoney, InitiateNewKeepsMoney,
     SaveGatewayPayloadKeepsMoney
<1>8. ASSUME NEW n \in Notice, NotifyFailed(n)  PROVE MoneyKept
  BY <1>8, NotifyFailedKeepsMoney
<1>9. ASSUME NEW p \in Payments, TradePaid(p) \/ TradeReported(p) \/ TradeClosed(p)  PROVE MoneyKept
  BY <1>9, SameRowsKeepMoney DEF TradePaid, TradeReported, TradeClosed
<1>10. QED
  BY <1>1, <1>2, <1>3, <1>4, <1>5, <1>6, <1>7, <1>8, <1>9 DEF Next

-----------------------------------------------------------------------------
(* What the two steps that move money do to the rows. *)
LEMMA SettlingRows ==
  ASSUME IInv, NEW n \in Notice, NotifySucceeded(n)
  PROVE  LET p == n.payment
             o == payments[p].order IN
         /\ p \in Payments /\ o \in Orders
         /\ payments[p].status \notin {"None", "Succeeded"}
         /\ orders[o].order_status # "None" /\ orders[o].product \in Products
         /\ orders[o].source = "buyer" /\ orders[o].pay_status = "Pending"
         /\ orders'[o].pay_status = "Paid" /\ orders'[o].order_status = "Completed"
         /\ orders'[o].product = orders[o].product /\ orders'[o].source = "buyer"
         /\ \A x \in Orders : x # o => orders'[x] = orders[x]
         /\ payments'[p].status = "Succeeded" /\ payments'[p].order = o
         /\ \A q \in Payments : q # p => payments'[q] = payments[q]
         /\ granted' = GrantOnce(o, orders[o].product)
         /\ n \in notices /\ n.successful /\ UNCHANGED trades
<1> DEFINE p == n.payment
           o == payments[p].order
<1>1. /\ p \in Payments /\ payments[p].status \notin {"None", "Succeeded"}
      /\ o \in Orders /\ orders[o].order_status # "None" /\ orders[o].source = "buyer"
  BY DEF NotifySucceeded, Settles, Accepted, Notice, IInv, Linked, PaymentsLinked
<1>2. orders[o].product \in Products /\ orders[o].pay_status = "Pending" /\ orders[o] \in Order
  BY <1>1 DEF NotifySucceeded, Settles, IInv, TypeOK, Order, Linked, OrdersLinked
<1>3. /\ orders'[o].pay_status = "Paid" /\ orders'[o].order_status = "Completed"
      /\ orders'[o].product = orders[o].product /\ orders'[o].source = "buyer"
      /\ \A x \in Orders : x # o => orders'[x] = orders[x]
  BY <1>1, <1>2 DEF NotifySucceeded, Settles, IInv, TypeOK, Order
<1>4. /\ payments'[p].status = "Succeeded" /\ payments'[p].order = o
      /\ \A q \in Payments : q # p => payments'[q] = payments[q]
  BY <1>1 DEF NotifySucceeded, Settles, Recorded, IInv, TypeOK, Payment
<1>5. QED BY <1>1, <1>2, <1>3, <1>4 DEF NotifySucceeded, Settles

LEMMA GivingRows ==
  ASSUME IInv, NEW k \in Products, AddProduct(k)
  PROVE  \E o \in Orders :
         /\ orders[o] = NoOrder
         /\ orders'[o].pay_status = "Paid" /\ orders'[o].order_status = "Completed"
         /\ orders'[o].product = k /\ orders'[o].source = "admin"
         /\ \A x \in Orders : x # o => orders'[x] = orders[x]
         /\ granted' = GrantOnce(o, k)
         /\ UNCHANGED <<payments, trades>>
<1>1. PICK o \in Orders :
        /\ orders[o].order_status = "None"
        /\ orders' = [orders EXCEPT ![o] =
             [NoOrder EXCEPT !.product = k, !.source = "admin",
                             !.order_status = "Completed", !.pay_status = "Paid"]]
        /\ granted' = GrantOnce(o, k)
  BY DEF AddProduct
<1>2. orders[o] = NoOrder
  BY <1>1 DEF IInv, Linked, OrdersLinked
<1>3. orders'[o] = [NoOrder EXCEPT !.product = k, !.source = "admin",
                                   !.order_status = "Completed", !.pay_status = "Paid"]
      /\ \A x \in Orders : x # o => orders'[x] = orders[x]
  BY <1>1 DEF IInv, TypeOK
<1>4. /\ orders'[o].pay_status = "Paid" /\ orders'[o].order_status = "Completed"
      /\ orders'[o].product = k /\ orders'[o].source = "admin"
  BY <1>3 DEF NoOrder
<1>5. UNCHANGED <<payments, trades>>
  BY DEF AddProduct
<1>6. QED BY <1>1, <1>2, <1>3, <1>4, <1>5

LEMMA GrantOnceAgrees ==
  ASSUME TypeOK, NEW o \in Orders, NEW k \in Products,
         \A a \in Assets : granted[o][a] = 0
  PROVE  /\ \A a \in Assets : GrantOnce(o, k)[o][a] = IF a \in Entitlements[k] THEN 1 ELSE 0
         /\ \A x \in Orders : x # o => GrantOnce(o, k)[x] = granted[x]
BY DEF GrantOnce, TypeOK

LEMMA PaidStep ==
  ASSUME IInv, PaidIffGranted, [Next]_vars
  PROVE  PaidIffGranted'
<1>1. CASE \E n \in Notice : NotifySucceeded(n)
  <2>1. PICK n \in Notice : NotifySucceeded(n)
    BY <1>1
  <2> DEFINE o == payments[n.payment].order
  <2>2. \A a \in Assets : granted[o][a] = 0
    BY <2>1, SettlingRows DEF PaidIffGranted
  <2>3. QED
    BY <2>1, <2>2, SettlingRows, GrantOnceAgrees DEF PaidIffGranted, IInv
<1>2. CASE \E k \in Products : AddProduct(k)
  <2>1. PICK k \in Products : AddProduct(k)
    BY <1>2
  <2>2. PICK o \in Orders :
         /\ orders[o] = NoOrder
         /\ orders'[o].pay_status = "Paid" /\ orders'[o].product = k
         /\ \A x \in Orders : x # o => orders'[x] = orders[x]
         /\ granted' = GrantOnce(o, k)
    BY <2>1, GivingRows
  <2>3. \A a \in Assets : granted[o][a] = 0
    BY <2>2 DEF PaidIffGranted, NoOrder
  <2>4. QED
    BY <2>2, <2>3, GrantOnceAgrees DEF PaidIffGranted, IInv
<1>3. CASE /\ \A n \in Notice : ~NotifySucceeded(n)
           /\ \A k \in Products : ~AddProduct(k)
  <2>1. MoneyKept
    BY <1>3, StepKeepsMoney
  <2>2. \A o \in Orders : orders[o].order_status = "None" => orders[o].pay_status = "Pending"
    BY DEF IInv, Linked, OrdersLinked, NoOrder
  <2>3. QED BY <2>1, <2>2 DEF MoneyKept, PaidIffGranted
<1>4. QED BY <1>1, <1>2, <1>3

(* Money and entitlements agree in every reachable state: the notification  *)
(* handler, its retries and the administrator's gift grant each asset of a  *)
(* paid order once and nothing else.                                        *)
THEOREM PaidOrdersAreGranted == Spec => []PaidIffGranted
<1>1. Init => PaidIffGranted
  BY DEF Init, PaidIffGranted, NoOrder
<1>2. IInv /\ PaidIffGranted /\ [Next]_vars => PaidIffGranted'
  BY PaidStep
<1>3. QED BY <1>1, <1>2, LinkedAlways, PTL DEF Spec

-----------------------------------------------------------------------------
Succeeded(o) == {p \in Payments : payments[p].order = o /\ payments[p].status = "Succeeded"}

LEMMA OneSucceededStep ==
  ASSUME IInv, OneSucceededPayment, [Next]_vars
  PROVE  OneSucceededPayment'
<1>0. /\ OneSucceededPayment <=>
           \A o \in Orders : IF orders[o].pay_status = "Paid" /\ orders[o].source = "buyer"
                             THEN \E p \in Succeeded(o) : Succeeded(o) = {p} ELSE Succeeded(o) = {}
      /\ OneSucceededPayment' <=>
           \A o \in Orders : IF orders'[o].pay_status = "Paid" /\ orders'[o].source = "buyer"
                             THEN \E p \in Succeeded(o)' : Succeeded(o)' = {p} ELSE Succeeded(o)' = {}
  BY DEF OneSucceededPayment, Succeeded
<1>1. CASE \E n \in Notice : NotifySucceeded(n)
  <2>1. PICK n \in Notice : NotifySucceeded(n)
    BY <1>1
  <2> DEFINE p == n.payment
  <2>2. PICK o \in Orders : o = payments[p].order
    BY <2>1, SettlingRows
  <2>3. Succeeded(o) = {}
    BY <1>0, <2>1, <2>2, SettlingRows
  <2>4. p \in Succeeded(o)' /\ Succeeded(o)' = {p}
    BY <2>1, <2>2, <2>3, SettlingRows DEF Succeeded
  <2>5. ASSUME NEW x \in Orders, x # o
        PROVE  Succeeded(x)' = Succeeded(x) /\ orders'[x] = orders[x]
    BY <2>1, <2>2, <2>5, SettlingRows DEF Succeeded
  <2>6. orders'[o].pay_status = "Paid" /\ orders'[o].source = "buyer"
    BY <2>1, <2>2, SettlingRows
  <2>7. QED BY <1>0, <2>4, <2>5, <2>6
<1>2. CASE \E k \in Products : AddProduct(k)
  <2>1. PICK o \in Orders :
         /\ orders[o] = NoOrder
         /\ orders'[o].source = "admin"
         /\ \A x \in Orders : x # o => orders'[x] = orders[x]
         /\ UNCHANGED payments
    BY <1>2, GivingRows
  <2>2. \A x \in Orders : Succeeded(x)' = Succeeded(x)
    BY <2>1 DEF Succeeded
  <2>3. Succeeded(o) = {}
    BY <1>0, <2>1 DEF NoOrder
  <2>4. QED BY <1>0, <2>1, <2>2, <2>3
<1>3. CASE /\ \A n \in Notice : ~NotifySucceeded(n)
           /\ \A k \in Products : ~AddProduct(k)
  <2>1. MoneyKept
    BY <1>3, StepKeepsMoney
  <2>2. \A o \in Orders : Succeeded(o)' = Succeeded(o)
    BY <2>1 DEF MoneyKept, Succeeded
  <2>3. QED BY <1>0, <2>1, <2>2 DEF MoneyKept
<1>4. QED BY <1>1, <1>2, <1>3

(* An order is settled by one transaction, whichever of the transactions    *)
(* opened for it the platform reports paid, and in whatever order.          *)
THEOREM OrdersAreSettledOnce == Spec => []OneSucceededPayment
<1>1. Init => OneSucceededPayment
  BY DEF Init, OneSucceededPayment, NoOrder, NoPayment
<1>2. IInv /\ OneSucceededPayment /\ [Next]_vars => OneSucceededPayment'
  BY OneSucceededStep
<1>3. QED BY <1>1, <1>2, LinkedAlways, PTL DEF Spec

-----------------------------------------------------------------------------
(* A payment that was received is not taken back, and what was granted is   *)
(* neither granted again nor withdrawn, by whichever step comes.            *)
THEOREM PaymentsAreFinal == Spec => PaymentIsFinal
<1> DEFINE Final ==
      /\ \A o \in Orders : orders[o].pay_status = "Paid" =>
           /\ orders'[o].pay_status = "Paid"
           /\ orders'[o].product = orders[o].product
           /\ granted'[o] = granted[o]
      /\ \A p \in Payments : payments[p].status = "Succeeded" => payments'[p].status = "Succeeded"
<1>1. ASSUME IInv, [Next]_vars  PROVE Final
  <2>1. CASE \E n \in Notice : NotifySucceeded(n)
    <3>1. PICK n \in Notice : NotifySucceeded(n)
      BY <2>1
    <3>2. \A x \in Orders : x # payments[n.payment].order => granted'[x] = granted[x]
      BY <1>1, <3>1, SettlingRows DEF GrantOnce, IInv, TypeOK
    <3>3. QED BY <1>1, <3>1, <3>2, SettlingRows
  <2>2. CASE \E k \in Products : AddProduct(k)
    <3>1. PICK k \in Products : AddProduct(k)
      BY <2>2
    <3>2. PICK o \in Orders :
           /\ orders[o] = NoOrder
           /\ \A x \in Orders : x # o => orders'[x] = orders[x]
           /\ granted' = GrantOnce(o, k)
           /\ UNCHANGED payments
      BY <1>1, <3>1, GivingRows
    <3>3. \A x \in Orders : x # o => granted'[x] = granted[x]
      BY <1>1, <3>2 DEF GrantOnce, IInv, TypeOK
    <3>4. orders[o].pay_status # "Paid"
      BY <3>2 DEF NoOrder
    <3>5. QED BY <3>2, <3>3, <3>4
  <2>3. CASE /\ \A n \in Notice : ~NotifySucceeded(n)
             /\ \A k \in Products : ~AddProduct(k)
    <3>1. MoneyKept
      BY <1>1, <2>3, StepKeepsMoney
    <3>2. \A o \in Orders : orders[o].pay_status = "Paid" => orders[o].order_status # "None"
      BY <1>1 DEF IInv, Linked, OrdersLinked, NoOrder
    <3>3. QED BY <3>1, <3>2 DEF MoneyKept
  <2>4. QED BY <2>1, <2>2, <2>3
<1>2. IInv /\ [Next]_vars => [Final]_vars
  BY <1>1
<1>3. QED BY <1>2, LinkedAlways, PTL DEF Spec, PaymentIsFinal

-----------------------------------------------------------------------------
(* A notice of success is only ever issued for a trade that was paid, and a *)
(* trade that was paid stays so.                                            *)
NoticesAreTrue == \A n \in notices : n.successful => trades[n.payment] = "paid"

LEMMA PaidTradesStay ==
  ASSUME IInv, [Next]_vars
  PROVE  \A p \in Payments : trades[p] = "paid" => trades'[p] = "paid"
<1>1. CASE UNCHANGED trades
  BY <1>1
<1>2. ASSUME NEW r \in Requests, SaveGatewayPayload(r)
      PROVE  \A p \in Payments : trades[p] = "paid" => trades'[p] = "paid"
  BY <1>2 DEF SaveGatewayPayload, IInv, TypeOK
<1>3. ASSUME NEW q \in Payments, TradePaid(q) \/ TradeClosed(q)
      PROVE  \A p \in Payments : trades[p] = "paid" => trades'[p] = "paid"
  BY <1>3 DEF TradePaid, TradeClosed, IInv, TypeOK
<1>4. QED
  BY <1>1, <1>2, <1>3
  DEF Next, vars, Create, AddProduct, CancelExpiredPendingOrders, Lapse, FindOrder, CancelFoundOrder,
      InitiateExpired, InitiateRefused, InitiateReused, InitiateNew, Fail, NotifyFailed, NotifySucceeded,
      TradeReported

LEMMA NoticesStep ==
  ASSUME IInv, NoticesAreTrue, [Next]_vars
  PROVE  NoticesAreTrue'
<1>1. CASE UNCHANGED notices
  BY <1>1, PaidTradesStay DEF NoticesAreTrue, IInv, TypeOK, Notice
<1>2. ASSUME NEW q \in Payments, TradePaid(q)
      PROVE  NoticesAreTrue'
  <2>1. trades'[q] = "paid"
    BY <1>2 DEF TradePaid, IInv, TypeOK
  <2>2. \A n \in notices' : n \in notices \/ n.payment = q
    BY <1>2 DEF TradePaid, NoticeOf
  <2>3. QED BY <2>1, <2>2, PaidTradesStay DEF NoticesAreTrue, IInv, TypeOK, Notice
<1>3. ASSUME NEW q \in Payments, TradeReported(q) \/ TradeClosed(q)
      PROVE  NoticesAreTrue'
  <2>1. \A n \in notices' : n \in notices \/ ~n.successful
    BY <1>3 DEF TradeReported, TradeClosed, NoticeOf
  <2>2. QED BY <2>1, PaidTradesStay DEF NoticesAreTrue, IInv, TypeOK, Notice
<1>4. QED
  BY <1>1, <1>2, <1>3
  DEF Next, vars, Create, AddProduct, CancelExpiredPendingOrders, Lapse, FindOrder, CancelFoundOrder,
      InitiateExpired, InitiateRefused, InitiateReused, InitiateNew, SaveGatewayPayload, Fail,
      NotifyFailed, NotifySucceeded

LEMMA SucceededStep ==
  ASSUME IInv, NoticesAreTrue, SucceededWasPaid, [Next]_vars
  PROVE  SucceededWasPaid'
<1>1. CASE \E n \in Notice : NotifySucceeded(n)
  BY <1>1, SettlingRows DEF SucceededWasPaid, NoticesAreTrue
<1>2. CASE \E k \in Products : AddProduct(k)
  BY <1>2, GivingRows DEF SucceededWasPaid
<1>3. CASE /\ \A n \in Notice : ~NotifySucceeded(n)
           /\ \A k \in Products : ~AddProduct(k)
  BY <1>3, StepKeepsMoney, PaidTradesStay DEF MoneyKept, SucceededWasPaid
<1>4. QED BY <1>1, <1>2, <1>3

(* Nothing is granted that nobody paid: a transaction succeeds only by a    *)
(* notice of success, and that notice only by a paid trade.                 *)
THEOREM SuccessesWerePaid == Spec => []SucceededWasPaid
<1>1. Init => NoticesAreTrue /\ SucceededWasPaid
  BY DEF Init, NoticesAreTrue, SucceededWasPaid, NoPayment
<1>2. IInv /\ NoticesAreTrue /\ SucceededWasPaid /\ [Next]_vars => NoticesAreTrue' /\ SucceededWasPaid'
  BY NoticesStep, SucceededStep
<1>3. QED BY <1>1, <1>2, LinkedAlways, PTL DEF Spec

-----------------------------------------------------------------------------
LEMMA OneInitializedStep ==
  ASSUME IInv, OneInitializedPayment, [Next]_vars
  PROVE  OneInitializedPayment'
<1> DEFINE NoneOpened == \A q \in Payments : payments'[q].status = "Initialized" =>
                           /\ payments[q].status = "Initialized"
                           /\ payments[q].order = payments'[q].order
<1>1. ASSUME NoneOpened  PROVE OneInitializedPayment'
  BY <1>1 DEF OneInitializedPayment, Initialized
<1>2. CASE UNCHANGED payments
  BY <1>1, <1>2
<1>3. ASSUME NEW r \in Requests, SaveGatewayPayload(r)  PROVE NoneOpened
  BY <1>3 DEF SaveGatewayPayload, IInv, TypeOK, Payment
<1>4. ASSUME NEW n \in Notice, NotifyFailed(n) \/ NotifySucceeded(n)  PROVE NoneOpened
  <2>1. \E s \in {"Failed", "Succeeded"} : payments' = Recorded(n.payment, s)
    BY <1>4 DEF NotifyFailed, NotifySucceeded
  <2>2. QED BY <2>1 DEF Recorded, IInv, TypeOK, Payment
<1>5. ASSUME NEW r \in Requests, InitiateNew(r)  PROVE OneInitializedPayment'
  <2> DEFINE o == req[r].order
  <2>1. PICK p \in Unused :
          payments' = [q \in Payments |->
             IF q = p THEN [order |-> o, method |-> req[r].method, status |-> "Initialized",
                            response |-> "none"]
             ELSE IF q \in Initialized(o) THEN [payments[q] EXCEPT !.status = "Closed"]
             ELSE payments[q]]
    BY <1>5 DEF InitiateNew, Superseded
  <2>2. \A q \in Payments : q # p /\ payments'[q].status = "Initialized" =>
          /\ payments'[q] = payments[q]
          /\ payments[q].order # o
    BY <2>1 DEF Initialized, IInv, TypeOK, Payment
  <2>3. p \in Payments /\ payments'[p].order = o
    BY <2>1 DEF Unused
  <2>4. QED BY <2>2, <2>3 DEF OneInitializedPayment, Initialized
<1>6. QED
  BY <1>1, <1>2, <1>3, <1>4, <1>5
  DEF Next, vars, Create, AddProduct, CancelExpiredPendingOrders, Lapse, FindOrder, CancelFoundOrder,
      InitiateExpired, InitiateRefused, InitiateReused, Fail, TradePaid, TradeReported, TradeClosed

(* Whichever requests race, a buyer is asked to pay one transaction of an   *)
(* order at most: a new one closes every other in the same step.            *)
THEOREM OneTransactionIsOpen == Spec => []OneInitializedPayment
<1>1. Init => OneInitializedPayment
  BY DEF Init, OneInitializedPayment, Initialized, NoPayment
<1>2. IInv /\ OneInitializedPayment /\ [Next]_vars => OneInitializedPayment'
  BY OneInitializedStep
<1>3. QED BY <1>1, <1>2, LinkedAlways, PTL DEF Spec

-----------------------------------------------------------------------------
(* The safety half of PaidIsDelivered.  The buyer paid the full amount for   *)
(* something that can be granted and the platform says so.                   *)
Deliverable(p, o) ==
  /\ payments[p].order = o /\ trades[p] = "paid"
  /\ NoticeOf(p, TRUE, TRUE) \in notices
  /\ Grantable(orders[o].product)

(* A transaction keeps its order and its method, and an order its product.   *)
LEMMA RowsKeepIdentity ==
  ASSUME IInv, [Next]_vars
  PROVE  /\ \A p \in Payments : payments[p].status # "None" =>
              payments'[p].order = payments[p].order /\ payments'[p].method = payments[p].method
         /\ \A o \in Orders : orders[o].order_status # "None" => orders'[o].product = orders[o].product
         /\ notices \subseteq notices'
<1>1. \A p \in Payments : payments[p].status # "None" =>
        payments'[p].order = payments[p].order /\ payments'[p].method = payments[p].method
  <2>1. CASE UNCHANGED payments
    BY <2>1
  <2>2. ASSUME NEW r \in Requests, InitiateNew(r), NEW p \in Payments, payments[p].status # "None"
        PROVE  payments'[p].order = payments[p].order /\ payments'[p].method = payments[p].method
    <3>1. payments'[p] \in {payments[p], [payments[p] EXCEPT !.status = "Closed"]}
      BY <2>2 DEF InitiateNew, Unused
    <3>2. payments[p] \in Payment
      BY DEF IInv, TypeOK
    <3>3. QED BY <3>1, <3>2 DEF Payment
  <2>3. ASSUME NEW r \in Requests, SaveGatewayPayload(r), NEW p \in Payments
        PROVE  payments'[p].order = payments[p].order /\ payments'[p].method = payments[p].method
    BY <2>3 DEF SaveGatewayPayload, IInv, TypeOK, Payment
  <2>4. ASSUME NEW n \in Notice, NotifyFailed(n) \/ NotifySucceeded(n), NEW p \in Payments
        PROVE  payments'[p].order = payments[p].order /\ payments'[p].method = payments[p].method
    <3>1. \E st \in {"Failed", "Succeeded"} : payments' = Recorded(n.payment, st)
      BY <2>4 DEF NotifyFailed, NotifySucceeded
    <3>2. QED BY <3>1 DEF Recorded, IInv, TypeOK, Payment
  <2>5. QED
    BY <2>1, <2>2, <2>3, <2>4
    DEF Next, vars, Create, AddProduct, CancelExpiredPendingOrders, Lapse, FindOrder, CancelFoundOrder,
        InitiateExpired, InitiateRefused, InitiateReused, Fail, TradePaid, TradeReported, TradeClosed
<1>2. \A o \in Orders : orders[o].order_status # "None" => orders'[o].product = orders[o].product
  <2>1. ASSUME NEW n \in Notice, NotifySucceeded(n), NEW o \in Orders
        PROVE  orders'[o].product = orders[o].product
    BY <2>1, SettlingRows
  <2>2. ASSUME NEW k \in Products, AddProduct(k), NEW o \in Orders, orders[o].order_status # "None"
        PROVE  orders'[o].product = orders[o].product
    BY <2>2, GivingRows DEF NoOrder
  <2>3. QED BY <2>1, <2>2, StepKeepsMoney DEF MoneyKept
<1>3. notices \subseteq notices'
  BY DEF Next, vars, Create, AddProduct, CancelExpiredPendingOrders, Lapse, FindOrder, CancelFoundOrder,
     InitiateExpired, InitiateRefused, InitiateReused, InitiateNew, SaveGatewayPayload, Fail,
     NotifyFailed, NotifySucceeded, TradePaid, TradeReported, TradeClosed
<1>4. QED BY <1>1, <1>2, <1>3

(* Whatever was cancelled, closed, reported or settled in between, the       *)
(* notification of a full payment passes every check of the handler as long  *)
(* as its order is unpaid: no state refuses it for good                      *)
(* (RcPaymentNotificationService::handle).                                   *)
THEOREM FullPaymentsAreAccepted ==
  Spec => [](\A p \in Payments, o \in Orders :
               Deliverable(p, o) /\ orders[o].pay_status # "Paid" =>
                 /\ NoticeOf(p, TRUE, TRUE) \in Notice
                 /\ Accepted(NoticeOf(p, TRUE, TRUE)) /\ Settles(NoticeOf(p, TRUE, TRUE)))
<1>1. ASSUME IInv, OneSucceededPayment, NEW p \in Payments, NEW o \in Orders,
             Deliverable(p, o), orders[o].pay_status # "Paid"
      PROVE  /\ NoticeOf(p, TRUE, TRUE) \in Notice
             /\ Accepted(NoticeOf(p, TRUE, TRUE)) /\ Settles(NoticeOf(p, TRUE, TRUE))
  <2>1. NoticeOf(p, TRUE, TRUE) \in Notice
    BY <1>1 DEF Deliverable, IInv, TypeOK
  <2>2. payments[p].status # "None" /\ payments[p].order = o
    BY <1>1 DEF Deliverable, IInv, Linked, PaymentsLinked
  <2>3. payments[p].status # "Succeeded"
    <3>1. p \in Succeeded(o) <=> payments[p].status = "Succeeded"
      BY <2>2 DEF Succeeded
    <3>2. Succeeded(o) = {}
      BY <1>1 DEF OneSucceededPayment, Succeeded
    <3>3. QED BY <3>1, <3>2
  <2>4. QED BY <1>1, <2>1, <2>2, <2>3 DEF NoticeOf, Accepted, Settles
<1>2. IInv /\ OneSucceededPayment =>
        \A p \in Payments, o \in Orders :
          Deliverable(p, o) /\ orders[o].pay_status # "Paid" =>
            /\ NoticeOf(p, TRUE, TRUE) \in Notice
            /\ Accepted(NoticeOf(p, TRUE, TRUE)) /\ Settles(NoticeOf(p, TRUE, TRUE))
  BY <1>1
<1>3. QED BY <1>2, LinkedAlways, OrdersAreSettledOnce, PTL

(* What can be delivered stays so, and the handler delivers it in one step:  *)
(* with a repeated notification nothing else stands in its way.              *)
THEOREM FullPaymentsWait ==
  Spec => [][\A p \in Payments, o \in Orders : Deliverable(p, o) =>
               /\ Deliverable(p, o)'
               /\ NotifySucceeded(NoticeOf(p, TRUE, TRUE)) => orders'[o].pay_status = "Paid"]_vars
<1>1. ASSUME IInv, [Next]_vars, NEW p \in Payments, NEW o \in Orders, Deliverable(p, o)
      PROVE  /\ Deliverable(p, o)'
             /\ NotifySucceeded(NoticeOf(p, TRUE, TRUE)) => orders'[o].pay_status = "Paid"
  <2>1. /\ payments[p].status # "None" /\ payments[p].order = o
        /\ orders[o].order_status # "None" /\ NoticeOf(p, TRUE, TRUE) \in Notice
    BY <1>1 DEF Deliverable, IInv, TypeOK, Linked, PaymentsLinked
  <2>2. /\ payments'[p].order = o /\ payments'[p].method = payments[p].method
        /\ orders'[o].product = orders[o].product /\ notices \subseteq notices'
    BY <1>1, <2>1, RowsKeepIdentity
  <2>3. trades'[p] = "paid"
    BY <1>1, PaidTradesStay DEF Deliverable
  <2>4. Deliverable(p, o)'
    BY <1>1, <2>2, <2>3 DEF Deliverable, NoticeOf, Grantable
  <2>5. NotifySucceeded(NoticeOf(p, TRUE, TRUE)) => orders'[o].pay_status = "Paid"
    <3>1. NoticeOf(p, TRUE, TRUE).payment = p
      BY DEF NoticeOf
    <3>2. QED BY <1>1, <2>1, <3>1, SettlingRows
  <2>6. QED BY <2>4, <2>5
<1>2. IInv /\ [Next]_vars =>
        [\A p \in Payments, o \in Orders : Deliverable(p, o) =>
           /\ Deliverable(p, o)'
           /\ NotifySucceeded(NoticeOf(p, TRUE, TRUE)) => orders'[o].pay_status = "Paid"]_vars
  BY <1>1
<1>3. QED BY <1>2, LinkedAlways, PTL DEF Spec
=============================================================================
