----------------------------- MODULE OrderStore -----------------------------
(***************************************************************************)
(* The state the API and the workers share: the MySQL tables `orders` and  *)
(* `products` and the Redis idempotency entries.                           *)
(*                                                                         *)
(* An order is named by the pair (tenant_id, idempotency_key), which is    *)
(* unique in `orders`; the uuid in `id` follows from it.  What the client  *)
(* asked for never changes once the row exists, so it is the constant      *)
(* Request.  Products are never deleted and campaigns never change (no     *)
(* code does either), so they are constants as well, except for the stock. *)
(***************************************************************************)
EXTENDS Integers, FiniteSetsExt

CONSTANTS
  Orders,     \* (tenant_id, idempotency_key) pairs
  Products,   \* product ids
  Campaigns,  \* campaign ids
  Request,    \* Request[o]  = [tenant, user, campaign, product, quantity]
  Product,    \* Product[p]  = [tenant, stock]: the owner and the stock at creation
  Campaign,   \* Campaign[c] = [tenant, product, start, end, maxPerUser]
  NoLimit     \* the NULL of max_per_user

VARIABLES
  orders,     \* committed rows of `orders`
  stock,      \* committed `products.stock`
  cache       \* Redis `tenant:{tenant}:idem:{key}`

storeVars == <<orders, stock, cache>>

(* What createOrderSchema, createProductSchema and CampaignsService.create  *)
(* let through.  max_per_user is optional, and a campaign's product exists  *)
(* under the tenant that creates the campaign.                             *)
AcceptedOrder(o) == Request[o].quantity \in 1..100

AcceptedProduct(p) == Product[p].stock \in Nat

AcceptedCampaign(c) ==
  /\ Campaign[c].start \in Nat /\ Campaign[c].end \in Nat
  /\ Campaign[c].start < Campaign[c].end
  /\ Campaign[c].product \in Products
  /\ Product[Campaign[c].product].tenant = Campaign[c].tenant
  /\ Campaign[c].maxPerUser = NoLimit \/ Campaign[c].maxPerUser \in Nat \ {0}

ASSUME RequestAssumption  == \A o \in Orders : AcceptedOrder(o)
ASSUME ProductAssumption  == \A p \in Products : AcceptedProduct(p)
ASSUME CampaignAssumption == \A c \in Campaigns : AcceptedCampaign(c)

-----------------------------------------------------------------------------
(* DUPLICATE_ORDER is declared in the enum as well, but no code assigns it. *)
RejectionReasonCode == {"OUT_OF_STOCK", "CAMPAIGN_INACTIVE", "LIMIT_EXCEEDED"}

OrderStatus == {"PENDING", "CONFIRMED", "REJECTED"}

(* The two columns of an order that change, and equally the two fields of  *)
(* a cached answer.  "ABSENT" is a row or a key that does not exist, and   *)
(* "NONE" the NULL of rejection_reason_code.                               *)
Row == [status : OrderStatus \cup {"ABSENT"},
        reason : RejectionReasonCode \cup {"NONE"}]

Absent      == [status |-> "ABSENT",    reason |-> "NONE"]
Pending     == [status |-> "PENDING",   reason |-> "NONE"]
Confirmed   == [status |-> "CONFIRMED", reason |-> "NONE"]
Rejected(r) == [status |-> "REJECTED",  reason |-> r]

Outcome == {Confirmed} \cup {Rejected(r) : r \in RejectionReasonCode}

Decided(row) == row.status \in {"CONFIRMED", "REJECTED"}

(* What TypeORM's save leaves in a row: it compares the entity with the    *)
(* row its own transaction sees and writes only the columns that differ.   *)
Saved(row, seen, entity) ==
  [status |-> IF entity.status # seen.status THEN entity.status ELSE row.status,
   reason |-> IF entity.reason # seen.reason THEN entity.reason ELSE row.reason]

-----------------------------------------------------------------------------
(* campaignId and productId come from the client.  A lookup finds a row    *)
(* only under the tenant of the request.                                   *)
CampaignFound(o) ==
  LET c == Request[o].campaign
  IN  /\ c \in Campaigns
      /\ Campaign[c].tenant = Request[o].tenant
      /\ Campaign[c].product = Request[o].product

ProductFound(o) ==
  LET p == Request[o].product
  IN  p \in Products /\ Product[p].tenant = Request[o].tenant

(* Mutants of ValidAt: no check of start_time; end_time taken as inclusive. *)
ValidBeforeEnd(c, time) == time < Campaign[c].end

ValidThroughEnd(c, time) == Campaign[c].start <= time /\ time <= Campaign[c].end

(* start_time is inclusive and end_time exclusive.                         *)
ValidAt(c, time) == Campaign[c].start <= time /\ time < Campaign[c].end

(* The orders the SUM of the limit check ranges over, whatever their       *)
(* status, and the quantity confirmed among them.                          *)
SameBuyer(o) ==
  {x \in Orders : /\ Request[x].tenant   = Request[o].tenant
                  /\ Request[x].campaign = Request[o].campaign
                  /\ Request[x].user     = Request[o].user}

Units(S) == MapThenSumSet(LAMBDA o : Request[o].quantity, S)

ConfirmedOf(S) == {o \in S : orders[o].status = "CONFIRMED"}

(* Mutant of Reaches: the order's own quantity is not added.               *)
ReachesAlready(o) == Units(ConfirmedOf(SameBuyer(o)))

(* What its buyer would have with the order confirmed.                     *)
Reaches(o) == Units(ConfirmedOf(SameBuyer(o))) + Request[o].quantity

OverLimit(o) ==
  LET max == Campaign[Request[o].campaign].maxPerUser
  IN  max # NoLimit /\ Reaches(o) > max

(* Mutant of Deducted: a refusal keeps the units it asked for.             *)
DeductedAnyway(o, row) ==
  [stock EXCEPT ![Request[o].product] =
     IF @ >= Request[o].quantity THEN @ - Request[o].quantity ELSE @]

(* The stock once the transaction that decides an order has committed.     *)
Deducted(o, row) ==
  IF row = Confirmed
    THEN [stock EXCEPT ![Request[o].product] = @ - Request[o].quantity]
    ELSE stock

(* Mutant of UpdateFinal: SET with NX, which keeps an answer that is there. *)
UpdateFinalOnce(o, row) ==
  cache' = IF Decided(cache[o]) THEN cache ELSE [cache EXCEPT ![o] = row]

(* IdempotencyService.updateFinal: a plain SET, whatever the key holds.    *)
UpdateFinal(o, row) == cache' = [cache EXCEPT ![o] = row]

-----------------------------------------------------------------------------
StoreTypeOK ==
  /\ orders \in [Orders -> Row]
  /\ stock  \in [Products -> Nat]
  /\ cache  \in [Orders -> Row]

(* Stock is neither lost nor created: what a product started with is what  *)
(* it has left plus what the CONFIRMED orders took.  It is the promise of  *)
(* ARCHITECTURE.md that "order rows and inventory stay consistent", and    *)
(* with stock \in Nat it rules out overselling.                            *)
StockConserved ==
  \A p \in Products :
    stock[p] + Units(ConfirmedOf({o \in Orders : Request[o].product = p}))
      = Product[p].stock

(* No user gets more confirmed units of a campaign than max_per_user: what *)
(* the SUM query of processOrder is there for.                             *)
LimitRespected ==
  \A o \in Orders :
    LET c == Request[o].campaign
    IN  orders[o].status = "CONFIRMED" /\ Campaign[c].maxPerUser # NoLimit
          => Units(ConfirmedOf(SameBuyer(o))) <= Campaign[c].maxPerUser

(* An order is refused only for a reason that is still true: the stock is  *)
(* short of its quantity, or its buyer's confirmed units leave no room for *)
(* it.  Stock never rises and confirmed units never fall, so a refusal     *)
(* decided on an outdated read would still have to be right.               *)
RefusalsJustified ==
  \A o \in Orders :
    /\ orders[o].reason = "OUT_OF_STOCK" =>
         stock[Request[o].product] < Request[o].quantity
    /\ orders[o].reason = "LIMIT_EXCEEDED" => OverLimit(o)
=============================================================================
