\* The order documentation: a paid order is completed.
CONSTANTS
  card = card
  ghost = ghost
  refresh = refresh
  missing = missing
  app = app
  h5 = h5
  ali = ali
  wechat = wechat
  alipay = alipay
  Orders = {o1}
  Payments = {1}
  Products = {card}
  Assets = {refresh, missing}
  Defined = {refresh}
  Entitlements <- MCEntitlements
  Channels = {wechat, alipay}
  Methods = {app, ali}
  ChannelOf <- MCChannelOf
  Requests = {r1}
  Unselected = Unselected
  None = None
SPECIFICATION Spec
INVARIANTS
  PaidIsCompleted
