\* Two orders for one product, one request in progress, two transactions, fair sweep and notifications.
CONSTANTS
  card = card
  ghost = ghost
  refresh = refresh
  missing = missing
  app = app
  h5 = h5
  ali = ali
  wechat = wechat
  alipay = alipay
  Orders = {o1, o2}
  Payments = {1, 2}
  Products = {card}
  Assets = {refresh, missing}
  Defined = {refresh}
  Entitlements <- MCEntitlements
  Channels = {wechat, alipay}
  Methods = {app, ali}
  ChannelOf <- MCChannelOf
  Requests = {r1}
  Unselected = Unselected
  None = None
SPECIFICATION FairSpec
INVARIANTS
  OnePendingOrder
  CanceledHasLapsed
PROPERTIES
  PaymentIsFinal
  ImplementsSale
  LapsedIsClosed
  PaidIsDelivered
