CONSTANTS
  Orders = {1}
  Products = {sneakers}
  Campaigns = {sale}
  Request <- PlentyRequest
  Product <- PlentyProduct
  Campaign <- PlentyCampaign
  NoLimit = NoLimit
  Workers = {w1, w2}
  NoWorker = NoWorker
  NoOrder = NoOrder
  MaxAttempts = 3
  MaxStalls = 1
  Horizon = 0
  Faults = FALSE
  LiveStalls = TRUE
  shop = shop
  alice = alice
  bob = bob
  sneakers = sneakers
  sale = sale
SPECIFICATION Spec
INVARIANT StockConserved
CHECK_DEADLOCK FALSE
