CONSTANTS
  Requests = {r1, r2, r3, r4}
  Calls <- ShopCalls
  Tenants = {shop, mall}
  NoTenant = NoTenant
  NoCall = NoCall
  Skus = {shoes}
  MaxInt = 1
  Impatient = {r4}
  Faults = TRUE
  MaxLatencySamples = 3
  Took <- TookDifferently
  shop = shop
  mall = mall
  shoes = shoes
  r1 = r1
  r2 = r2
  r3 = r3
  r4 = r4
SPECIFICATION FairSpec
INVARIANT TypeOK
INVARIANT CampaignsAccepted
INVARIANT AnswersAreTrue
INVARIANT MetricsAgree
INVARIANT WindowIsNewest
INVARIANT P95MarksTheSlowest
PROPERTY EveryRequestAnswered
CHECK_DEADLOCK FALSE
