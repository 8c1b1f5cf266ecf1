CONSTANTS
  Orders = {1, 2}
  Products = {sneakers}
  Campaigns = {sale}
  Request <- TwiceRequest
  Product <- TwiceProduct
  Campaign <- TwiceCampaign
  NoLimit = NoLimit
  Workers = {w1}
  NoWorker = NoWorker
  NoOrder = NoOrder
  MaxAttempts = 3
  MaxStalls = 1
  Horizon = 0
  Faults = FALSE
  LiveStalls = FALSE
  Requests = {r1, r2, r3}
  Nobody = Nobody
  NoKey = NoKey
  Column <- OwnColumn
  TooLong = TooLong
  SlowKeys = {}
  shop = shop
  alice = alice
  sneakers = sneakers
  sale = sale
SPECIFICATION FairSystemSpec
INVARIANT StockConserved
INVARIANT LimitRespected
INVARIANT PromisesQueued
PROPERTY ImplementsPlacement
PROPERTY ImplementsInventory
PROPERTY AnswersStand
PROPERTY FinalAnswersHold
PROPERTY PromisesKept
CHECK_DEADLOCK FALSE
