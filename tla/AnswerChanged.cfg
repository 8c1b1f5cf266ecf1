CONSTANTS
  Orders = {2, 3}
  Products = {sneakers}
  Campaigns = {sale}
  Request <- TwoBuyersRequest
  Product <- TwoBuyersProduct
  Campaign <- TwoBuyersCampaign
  NoLimit = NoLimit
  Workers = {w1, w2}
  NoWorker = NoWorker
  NoOrder = NoOrder
  MaxAttempts = 3
  MaxStalls = 1
  Horizon = 0
  Faults = TRUE
  LiveStalls = FALSE
  shop = shop
  alice = alice
  bob = bob
  sneakers = sneakers
  sale = sale
SPECIFICATION Spec
PROPERTY FinalAnswersKept
CHECK_DEADLOCK FALSE
