---------------------------- MODULE OrderPayment ----------------------------
(***************************************************************************)
(* RC product orders from checkout to the granting of what was bought:     *)
(* RcOrderService, RcPaymentService, RcPaymentNotificationService, the     *)
(* OrderController that drives them and the minute sweep that cancels what *)
(* was not paid.                                                           *)
(*                                                                         *)
(* A database transaction that takes its row locks before it decides is    *)
(* one action.  A request that reads an order outside a transaction, or    *)
(* talks to the payment platform between two writes, is one action per     *)
(* statement: its local copy of what it read lives in req.  The platform   *)
(* is outside the repository; it is modelled from the calls made to it and *)
(* from what its notifications may say.                                    *)
(***************************************************************************)
EXTENDS Naturals, FiniteSets

CONSTANTS
  Orders,        \* ids of rc_orders rows
  Payments,      \* ids of rc_payment_transactions rows, in insertion order
  Products,      \* (payer, plan) pairs: what pending_key is the hash of
  Assets,        \* asset codes
  Entitlements,  \* the entitlement snapshot of a product: a set of assets
  Defined,       \* the assets that have a rc_asset_definitions row
  Channels,      \* RcOrderPayChannel::Wechat and Alipay
  Methods,       \* a channel with a scene, as the buyer may choose them
  ChannelOf,     \* the channel of a method
  Requests,      \* web requests in progress: show and pay
  Unselected,    \* RcOrderPayChannel::Unselected
  None           \* null

ASSUME PaymentIds == Payments \subseteq Nat
ASSUME SnapshotAssets ==
  /\ Entitlements \in [Products -> SUBSET Assets]
  /\ Defined \subseteq Assets
ASSUME MethodChannels == ChannelOf \in [Methods -> Channels]
ASSUME NoneIsNoValue ==
  /\ None \notin Products \cup Methods \cup Orders \cup Payments
  /\ Unselected \notin Channels

VARIABLES
  orders,    \* rc_orders
  lapsed,    \* the orders whose expired_at is not in the future
  payments,  \* rc_payment_transactions
  granted,   \* rc_asset_ledgers: rows with biz_no order_paid/user_product:{order}:{asset}
  req,       \* the requests in progress
  trades,    \* the platform's trade for each payment_no
  notices    \* the notifications the platform is trying to deliver

vars == <<orders, lapsed, payments, granted, req, trades, notices>>

-----------------------------------------------------------------------------
(* Rows *)

Order ==
  [product      : Products \cup {None},
   source       : {"buyer", "admin"},
   order_status : {"None", "PendingPayment", "Completed", "Canceled"},
   pay_status   : {"Pending", "Paid"},
   pending_key  : Products \cup {None},
   pay_channel  : Channels \cup {Unselected},
   canceled_at  : BOOLEAN]

Payment ==
  [order    : Orders \cup {None},
   method   : Methods \cup {None},
   status   : {"None", "Initialized", "Succeeded", "Failed", "Closed"},
   response : {"none", "gateway", "notice"}]

Notice == [payment : Payments, channel : Channels, successful : BOOLEAN, full : BOOLEAN]

(* A request: show when method is None, pay otherwise.  pending is what the *)
(* row it loaded said.                                                      *)
Request ==
  [pc      : {"idle", "loaded", "initiate", "gateway"},
   order   : Orders \cup {None},
   method  : Methods \cup {None},
   pending : BOOLEAN,
   payment : Payments \cup {None}]

NoOrder ==
  [product |-> None, source |-> "buyer", order_status |-> "None", pay_status |-> "Pending",
   pending_key |-> None, pay_channel |-> Unselected, canceled_at |-> FALSE]

NoPayment == [order |-> None, method |-> None, status |-> "None", response |-> "none"]

Idle == [pc |-> "idle", order |-> None, method |-> None, pending |-> FALSE, payment |-> None]

TypeOK ==
  /\ orders \in [Orders -> Order]
  /\ lapsed \subseteq Orders
  /\ payments \in [Payments -> Payment]
  /\ granted \in [Orders -> [Assets -> Nat]]
  /\ req \in [Requests -> Request]
  /\ trades \in [Payments -> {"none", "open", "paid", "closed"}]
  /\ notices \subseteq Notice

Init ==
  /\ orders = [o \in Orders |-> NoOrder]
  /\ lapsed = {}
  /\ payments = [p \in Payments |-> NoPayment]
  /\ granted = [o \in Orders |-> [a \in Assets |-> 0]]
  /\ req = [r \in Requests |-> Idle]
  /\ trades = [p \in Payments |-> "none"]
  /\ notices = {}

-----------------------------------------------------------------------------
(* RcOrderService *)

AwaitsPayment(order) == order.order_status = "PendingPayment" /\ order.pay_status = "Pending"

(* Mutants of Canceled: the pending key is kept; the whole loaded row is     *)
(* written back, the payment status it was loaded with included.            *)
CanceledKeepsKey(order) == [order EXCEPT !.order_status = "Canceled", !.canceled_at = TRUE]
CanceledAsLoaded(order) ==
  [order EXCEPT !.pending_key = None, !.order_status = "Canceled", !.canceled_at = TRUE,
                !.pay_status = "Pending"]

(* What both cancelIfExpired and the sweep write. *)
Canceled(order) ==
  [order EXCEPT !.pending_key = None, !.order_status = "Canceled", !.canceled_at = TRUE]

(* Mutant of CancelIfExpired: expired_at is not looked at. *)
CancelIfUnpaid(o) == AwaitsPayment(orders[o])

(* The guard of cancelIfExpired on a row that is locked. *)
CancelIfExpired(o) == AwaitsPayment(orders[o]) /\ o \in lapsed

NewOrder(k) ==
  [NoOrder EXCEPT !.product = k, !.order_status = "PendingPayment", !.pending_key = k]

(* create: the row that holds the pending key is locked; it is returned as *)
(* it is while it can be paid, and cancelled first when it has expired.    *)
Create(k) ==
  LET holders == {o \in Orders : orders[o].pending_key = k} IN
  /\ \A h \in holders : CancelIfExpired(h)
  /\ \E o \in Orders :
       /\ orders[o].order_status = "None"
       /\ orders' = [x \in Orders |->
                       IF x = o THEN NewOrder(k)
                       ELSE IF x \in holders THEN Canceled(orders[x]) ELSE orders[x]]
  /\ UNCHANGED <<lapsed, payments, granted, req, trades, notices>>

(* Mutant of Overdue: orders whose buyer chose a channel are spared. *)
OverdueUnselected == {o \in lapsed : AwaitsPayment(orders[o]) /\ orders[o].pay_channel = Unselected}

Overdue == {o \in lapsed : AwaitsPayment(orders[o])}

(* cancelExpiredPendingOrders: one UPDATE over every overdue order. *)
CancelExpiredPendingOrders ==
  /\ Overdue # {}
  /\ orders' = [o \in Orders |-> IF o \in Overdue THEN Canceled(orders[o]) ELSE orders[o]]
  /\ UNCHANGED <<lapsed, payments, granted, req, trades, notices>>

(* expired_at passes. *)
Lapse(o) ==
  /\ orders[o].order_status # "None"
  /\ orders[o].source = "buyer"
  /\ o \notin lapsed
  /\ lapsed' = lapsed \cup {o}
  /\ UNCHANGED <<orders, payments, granted, req, trades, notices>>

(* findAccessibleOrder, its read: the row is neither locked nor inside a   *)
(* transaction.                                                            *)
FindOrder(r, o, m) ==
  /\ req[r].pc = "idle"
  /\ orders[o].order_status # "None"
  /\ req' = [req EXCEPT ![r] = [pc |-> "loaded", order |-> o, method |-> m,
                                pending |-> AwaitsPayment(orders[o]), payment |-> None]]
  /\ UNCHANGED <<orders, lapsed, payments, granted, trades, notices>>

(* findAccessibleOrder, cancelIfExpired on the loaded copy: save() writes  *)
(* the three columns whatever the row has become since the read.           *)
CancelFoundOrder(r) ==
  LET o == req[r].order IN
  /\ req[r].pc = "loaded"
  /\ orders' = IF req[r].pending /\ o \in lapsed
               THEN [orders EXCEPT ![o] = Canceled(orders[o])]
               ELSE orders
  /\ req' = [req EXCEPT ![r] = IF req[r].method = None THEN Idle
                               ELSE [req[r] EXCEPT !.pc = "initiate"]]
  /\ UNCHANGED <<lapsed, payments, granted, trades, notices>>

-----------------------------------------------------------------------------
(* RcPaymentService::initiate *)

Initialized(o) == {p \in Payments : payments[p].order = o /\ payments[p].status = "Initialized"}

(* The latest initialized transaction of the channel. *)
IsLatest(p, o, channel) ==
  LET same == {q \in Initialized(o) : ChannelOf[payments[q].method] = channel}
  IN  p \in same /\ \A q \in same : q <= p

(* Mutant of Superseded: only the transactions of the chosen channel. *)
SupersededOfChannel(o, m) == {p \in Initialized(o) : ChannelOf[payments[p].method] = ChannelOf[m]}

(* The transactions that give way to a new one, whatever their channel. *)
Superseded(o, m) == Initialized(o)

(* The locked order can be paid. *)
Payable(o) == AwaitsPayment(orders[o]) /\ o \notin lapsed

Unused == {p \in Payments : payments[p].status = "None"}

(* The transaction cancels an order that expired; the request then fails.  *)
InitiateExpired(r) ==
  LET o == req[r].order IN
  /\ req[r].pc = "initiate"
  /\ CancelIfExpired(o)
  /\ orders' = [orders EXCEPT ![o] = Canceled(orders[o])]
  /\ req' = [req EXCEPT ![r] = Idle]
  /\ UNCHANGED <<lapsed, payments, granted, trades, notices>>

InitiateRefused(r) ==
  /\ req[r].pc = "initiate"
  /\ ~AwaitsPayment(orders[req[r].order])
  /\ req' = [req EXCEPT ![r] = Idle]
  /\ UNCHANGED <<orders, lapsed, payments, granted, trades, notices>>

(* An initialized transaction of the same channel and scene is reused; the *)
(* platform is asked again only when it has no payload yet.                *)
InitiateReused(r) ==
  LET o == req[r].order IN
  /\ req[r].pc = "initiate"
  /\ Payable(o)
  /\ \E p \in Payments :
       /\ IsLatest(p, o, ChannelOf[req[r].method])
       /\ payments[p].method = req[r].method
       /\ req' = [req EXCEPT ![r] = IF payments[p].response = "none"
                                    THEN [req[r] EXCEPT !.pc = "gateway", !.payment = p]
                                    ELSE Idle]
  /\ UNCHANGED <<orders, lapsed, payments, granted, trades, notices>>

(* Otherwise whatever was initialized is closed and a new one inserted. *)
InitiateNew(r) ==
  LET o == req[r].order
      m == req[r].method IN
  /\ req[r].pc = "initiate"
  /\ Payable(o)
  /\ ~\E p \in Payments : IsLatest(p, o, ChannelOf[m]) /\ payments[p].method = m
  /\ \E p \in Unused :
       /\ \A q \in Unused : p <= q
       /\ payments' = [q \in Payments |->
            IF q = p THEN [order |-> o, method |-> m, status |-> "Initialized", response |-> "none"]
            ELSE IF q \in Superseded(o, m) THEN [payments[q] EXCEPT !.status = "Closed"]
            ELSE payments[q]]
       /\ req' = [req EXCEPT ![r] = [req[r] EXCEPT !.pc = "gateway", !.payment = p]]
  /\ orders' = [orders EXCEPT ![o].pay_channel = ChannelOf[m]]
  /\ UNCHANGED <<lapsed, granted, trades, notices>>

(* The platform answered: the payload is saved on the model loaded before   *)
(* the call and returned to the buyer, who can pay from now on.  A repeated  *)
(* payment_no is the same trade.                                             *)
SaveGatewayPayload(r) ==
  LET p == req[r].payment IN
  /\ req[r].pc = "gateway"
  /\ payments' = [payments EXCEPT ![p].response = "gateway"]
  /\ trades' = [trades EXCEPT ![p] = IF trades[p] = "none" THEN "open" ELSE trades[p]]
  /\ req' = [req EXCEPT ![r] = Idle]
  /\ UNCHANGED <<orders, lapsed, granted, notices>>

(* The call to the platform fails, or the worker that serves the request    *)
(* dies between two statements.                                             *)
Fail(r) ==
  /\ req[r].pc # "idle"
  /\ req' = [req EXCEPT ![r] = Idle]
  /\ UNCHANGED <<orders, lapsed, payments, granted, trades, notices>>

-----------------------------------------------------------------------------
(* RcPaymentNotificationService::handle and what it grants *)

(* grantOrderEntitlements throws, and the transaction rolls back, unless    *)
(* the snapshot is not empty and every asset of it is defined.              *)
Grantable(k) == Entitlements[k] # {} /\ Entitlements[k] \subseteq Defined

(* Mutant of GrantOnce: the biz_no names the product in place of the order. *)
GrantOncePerProduct(o, k) ==
  [granted EXCEPT ![o] = [a \in Assets |->
     IF /\ a \in Entitlements[k]
        /\ \A x \in Orders : orders[x].product = k => granted[x][a] = 0
     THEN 1 ELSE granted[o][a]]]

(* RcAssetService::grantOnce for every rule of the snapshot: a biz_no that  *)
(* has a ledger row gets no second one.                                     *)
GrantOnce(o, k) ==
  [granted EXCEPT ![o] = [a \in Assets |->
     IF a \in Entitlements[k] /\ granted[o][a] = 0 THEN 1 ELSE granted[o][a]]]

(* The notification was issued for the channel and the amount of the        *)
(* transaction; any other throws and changes nothing.                       *)
Accepted(n) ==
  /\ payments[n.payment].status # "None"
  /\ n.channel = ChannelOf[payments[n.payment].method]
  /\ n.full

(* Mutant of Recorded: the two columns are swapped. *)
RecordedSwapped(p, s) ==
  [payments EXCEPT ![p] = [payments[p] EXCEPT !.status = "notice", !.response = s]]

Recorded(p, s) ==
  [payments EXCEPT ![p] = [payments[p] EXCEPT !.status = s, !.response = "notice"]]

(* Mutants of Settles: what the trade came to is not looked at; the order is *)
(* not looked at; a cancelled order is left alone.                          *)
SettlesAnyTrade(n) ==
  /\ payments[n.payment].status # "Succeeded"
  /\ orders[payments[n.payment].order].pay_status # "Paid"
SettlesEachPayment(n) == n.successful /\ payments[n.payment].status # "Succeeded"
SettlesOpenOrder(n) ==
  /\ n.successful
  /\ payments[n.payment].status # "Succeeded"
  /\ AwaitsPayment(orders[payments[n.payment].order])

(* It settles an order: the trade succeeded, and neither the transaction    *)
(* nor, through another transaction, the order was settled before.          *)
Settles(n) ==
  /\ n.successful
  /\ payments[n.payment].status # "Succeeded"
  /\ orders[payments[n.payment].order].pay_status # "Paid"

(* The trade did not succeed: recorded unless it had succeeded before. *)
NotifyFailed(n) ==
  /\ n \in notices
  /\ Accepted(n)
  /\ ~n.successful
  /\ payments[n.payment].status # "Succeeded"
  /\ payments' = Recorded(n.payment, "Failed")
  /\ UNCHANGED <<orders, lapsed, granted, req, trades, notices>>

(* The trade succeeded.  Whatever the status of the transaction and of the  *)
(* order, short of paid, the order is completed, even one that was          *)
(* cancelled, and its entitlements are granted in the same transaction.     *)
NotifySucceeded(n) ==
  LET p == n.payment
      o == payments[p].order IN
  /\ n \in notices
  /\ Accepted(n)
  /\ Settles(n)
  /\ Grantable(orders[o].product)
  /\ payments' = Recorded(p, "Succeeded")
  /\ orders' = [orders EXCEPT ![o] =
                  [orders[o] EXCEPT !.pending_key = None,
                                    !.pay_channel = ChannelOf[payments[p].method],
                                    !.pay_status = "Paid",
                                    !.order_status = "Completed",
                                    !.canceled_at = FALSE]]
  /\ granted' = GrantOnce(o, orders[o].product)
  /\ UNCHANGED <<lapsed, req, trades, notices>>

(* UserRcCommerceService::addProduct: an administrator gives a product away: *)
(* the order is inserted paid and its entitlements are granted with it.      *)
AddProduct(k) ==
  /\ Grantable(k)
  /\ \E o \in Orders :
       /\ orders[o].order_status = "None"
       /\ orders' = [orders EXCEPT ![o] =
                       [NoOrder EXCEPT !.product = k, !.source = "admin",
                                       !.order_status = "Completed", !.pay_status = "Paid"]]
       /\ granted' = GrantOnce(o, k)
  /\ UNCHANGED <<lapsed, payments, req, trades, notices>>

-----------------------------------------------------------------------------
(* The payment platform *)

NoticeOf(p, successful, full) ==
  [payment |-> p, channel |-> ChannelOf[payments[p].method],
   successful |-> successful, full |-> full]

(* The buyer pays an open trade before its time_expire, which is the        *)
(* expired_at of the order; full is FALSE when a coupon of the platform     *)
(* makes payer_total less than the amount of the transaction.               *)
TradePaid(p) ==
  /\ trades[p] = "open"
  /\ payments[p].order \notin lapsed
  /\ trades' = [trades EXCEPT ![p] = "paid"]
  /\ \E full \in BOOLEAN : notices' = notices \cup {NoticeOf(p, TRUE, full)}
  /\ UNCHANGED <<orders, lapsed, payments, granted, req>>

(* The platform reports a trade that waits for its buyer. *)
TradeReported(p) ==
  /\ trades[p] = "open"
  /\ notices' = notices \cup {NoticeOf(p, FALSE, TRUE)}
  /\ UNCHANGED <<orders, lapsed, payments, granted, req, trades>>

(* The platform closes a trade nobody paid in time. *)
TradeClosed(p) ==
  /\ trades[p] = "open" /\ payments[p].order \in lapsed
  /\ trades' = [trades EXCEPT ![p] = "closed"]
  /\ notices' = notices \cup {NoticeOf(p, FALSE, TRUE)}
  /\ UNCHANGED <<orders, lapsed, payments, granted, req>>

-----------------------------------------------------------------------------
Next ==
  \/ \E k \in Products : Create(k) \/ AddProduct(k)
  \/ CancelExpiredPendingOrders
  \/ \E o \in Orders : Lapse(o)
  \/ \E r \in Requests, o \in Orders, m \in Methods \cup {None} : FindOrder(r, o, m)
  \/ \E r \in Requests : \/ CancelFoundOrder(r)
                         \/ InitiateExpired(r)
                         \/ InitiateRefused(r)
                         \/ InitiateReused(r)
                         \/ InitiateNew(r)
                         \/ SaveGatewayPayload(r)
                         \/ Fail(r)
  \/ \E n \in Notice : NotifyFailed(n) \/ NotifySucceeded(n)
  \/ \E p \in Payments : TradePaid(p) \/ TradeReported(p) \/ TradeClosed(p)

Spec == Init /\ [][Next]_vars

(* rc:orders:cancel-expired runs every minute, and the platform repeats a   *)
(* notification until it is acknowledged.  Buyers, requests and the trades  *)
(* themselves owe nothing.                                                  *)
Fairness ==
  /\ WF_vars(CancelExpiredPendingOrders)
  /\ \A n \in Notice : WF_vars(NotifySucceeded(n))

FairSpec == Spec /\ Fairness

-----------------------------------------------------------------------------
(* Safety *)

(* A product is being bought at most once at a time by one payer: at most   *)
(* one order holds its pending key, and that order can still be paid.       *)
OnePendingOrder ==
  \A o \in Orders :
    orders[o].pending_key # None =>
      /\ AwaitsPayment(orders[o])
      /\ orders[o].pending_key = orders[o].product
      /\ \A x \in Orders : orders[x].pending_key = orders[o].pending_key => x = o

(* Money and entitlements agree: a paid order granted every asset of its    *)
(* snapshot exactly once and an unpaid one granted nothing, however often,  *)
(* late or out of order the platform notifies.                              *)
PaidIffGranted ==
  \A o \in Orders : \A a \in Assets :
    granted[o][a] = IF orders[o].pay_status = "Paid" /\ a \in Entitlements[orders[o].product]
                    THEN 1 ELSE 0

(* An order a buyer paid has exactly one succeeded transaction, an order    *)
(* that is unpaid or was given away has none.                               *)
OneSucceededPayment ==
  \A o \in Orders :
    LET succeeded == {p \in Payments : payments[p].order = o /\ payments[p].status = "Succeeded"}
    IN  IF orders[o].pay_status = "Paid" /\ orders[o].source = "buyer"
        THEN \E p \in succeeded : succeeded = {p}
        ELSE succeeded = {}

(* The books follow the platform: a transaction that succeeded was paid     *)
(* for, so nothing is granted that nobody paid.                             *)
SucceededWasPaid ==
  \A p \in Payments : payments[p].status = "Succeeded" => trades[p] = "paid"

(* A buyer can be asked to pay one transaction of an order at most. *)
OneInitializedPayment ==
  \A o \in Orders : \A p, q \in Initialized(o) : p = q

(* An order is cancelled only after its time to pay has passed, and says so. *)
CanceledHasLapsed ==
  \A o \in Orders :
    /\ orders[o].order_status = "Canceled" => o \in lapsed
    /\ orders[o].canceled_at <=> orders[o].order_status = "Canceled"

(* The notification section of the order documentation: a paid order is     *)
(* completed.                                                               *)
PaidIsCompleted ==
  \A o \in Orders : orders[o].pay_status = "Paid" => orders[o].order_status = "Completed"

(* What a step may never do: a payment that was received is not taken back, *)
(* and nothing that was granted is granted again or withdrawn.              *)
PaymentIsFinal ==
  [][/\ \A o \in Orders : orders[o].pay_status = "Paid" =>
          /\ orders'[o].pay_status = "Paid"
          /\ orders'[o].product = orders[o].product
          /\ granted'[o] = granted[o]
     /\ \A p \in Payments : payments[p].status = "Succeeded" => payments'[p].status = "Succeeded"]_vars

-----------------------------------------------------------------------------
(* What the order subsystem promises: see Sale. *)

Phase == [o \in Orders |-> CASE orders[o].order_status = "None" -> "absent"
                             [] AwaitsPayment(orders[o])         -> "open"
                             [] /\ orders[o].order_status # "None"
                                /\ orders[o].pay_status = "Paid" -> "paid"
                             [] OTHER                            -> "lapsed"]

Promise == INSTANCE Sale WITH phase     <- Phase,
                              product   <- [o \in Orders |-> orders[o].product],
                              delivered <- granted

(* Orders, transactions, notifications and sweeps together do no more than  *)
(* Sale allows.                                                             *)
ImplementsSale == Promise!SaleSpec

-----------------------------------------------------------------------------
(* Liveness *)

(* An order nobody pays in time does not stay open. *)
LapsedIsClosed ==
  \A o \in Orders : (o \in lapsed /\ AwaitsPayment(orders[o])) ~> ~AwaitsPayment(orders[o])

(* A buyer who paid the full amount for a product that can be granted gets  *)
(* it, even if the order was cancelled, its transaction closed or another   *)
(* transaction of it reported as failed in the meantime.                    *)
PaidIsDelivered ==
  \A p \in Payments, o \in Orders :
    (/\ payments[p].order = o
     /\ trades[p] = "paid"
     /\ NoticeOf(p, TRUE, TRUE) \in notices
     /\ Grantable(orders[o].product))
    ~> (orders[o].pay_status = "Paid")
=============================================================================
