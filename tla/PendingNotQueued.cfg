CONSTANTS
  Orders = {prompt}
  Products = {sneakers}
  Campaigns = {sale}
  Request <- BuyRequest
  Product <- BuyProduct
  Campaign <- BuyCampaign
  NoLimit = NoLimit
  Workers = {w1}
  NoWorker = NoWorker
  MaxAttempts = 1
  MaxStalls = 0
  Column <- BuyColumn
  TooLong = TooLong
  Requests = {1, 2}
  Nobody = Nobody
  NoKey = NoKey
  SlowKeys = {}
  Faults = TRUE
  shop = shop
  alice = alice
  sneakers = sneakers
  sale = sale
SPECIFICATION Spec
INVARIANT PendingIsQueued
CHECK_DEADLOCK FALSE
