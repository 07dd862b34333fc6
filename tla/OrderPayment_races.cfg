\* One order, two requests in progress, two transactions, a product that cannot be granted.
CONSTANTS
  card = card
  ghost = ghost
  refresh = refresh
  missing = missing
  app = app
  h5 = h5
  ali = ali
  wechat = wechat
  alipay = alipay
  Orders = {o1}
  Payments = {1, 2}
  Products = {card, ghost}
  Assets = {refresh, missing}
  Defined = {refresh}
  Entitlements <- MCEntitlements
  Channels = {wechat, alipay}
  Methods = {app, ali}
  ChannelOf <- MCChannelOf
  Requests = {r1, r2}
  Unselected = Unselected
  None = None
SPECIFICATION Spec
INVARIANTS
  TypeOK
  PaidIffGranted
  OneSucceededPayment
  SucceededWasPaid
  OneInitializedPayment
