CONSTANTS
  Orders = {prompt, slow}
  Products = {sneakers}
  Campaigns = {sale}
  Request <- BuyRequest
  Product <- BuyProduct
  Campaign <- BuyCampaign
  NoLimit = NoLimit
  Workers = {w1}
  NoWorker = NoWorker
  MaxAttempts = 1
  MaxStalls = 0
  Column <- BuyColumn
  TooLong = TooLong
  Requests = {1, 2, 3}
  Nobody = Nobody
  NoKey = NoKey
  SlowKeys = {slow}
  Faults = TRUE
  shop = shop
  alice = alice
  sneakers = sneakers
  sale = sale
SPECIFICATION FairSpec
INVARIANT TypeOK
INVARIANT ClaimsExclusive
INVARIANT JobsHaveRows
INVARIANT QueuedAtMostOnce
PROPERTY LocksAreReleased
CONSTRAINT SlowLast
CONSTRAINT OneReason
CHECK_DEADLOCK FALSE
