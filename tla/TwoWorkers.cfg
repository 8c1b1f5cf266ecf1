CONSTANTS
  Orders = {1, 2}
  Products = {sneakers}
  Campaigns = {sale}
  Request <- LastUnitRequest
  Product <- LastUnitProduct
  Campaign <- LastUnitCampaign
  NoLimit = NoLimit
  Workers = {w1, w2}
  NoWorker = NoWorker
  NoOrder = NoOrder
  MaxAttempts = 3
  MaxStalls = 1
  Horizon = 2
  Faults = TRUE
  LiveStalls = FALSE
  shop = shop
  alice = alice
  bob = bob
  sneakers = sneakers
  sale = sale
SPECIFICATION FairSpec
INVARIANT TypeOK
INVARIANT StockConserved
INVARIANT RefusalsJustified
INVARIANT CompletedJobsAgree
INVARIANT ConfirmedOnlyOnceOpen
PROPERTY ImplementsInventory
PROPERTY ClosedCampaignsConfirmNothing
PROPERTY EveryJobSettles
CHECK_DEADLOCK FALSE
