-------------------------- MODULE MCOrderProcessing --------------------------
(* Instances of OrderProcessing for TLC. *)
EXTENDS OrderProcessing

CONSTANTS shop, alice, bob, sneakers, sale

Buy(user, quantity) ==
  [tenant |-> shop, user |-> user, campaign |-> sale, product |-> sneakers,
   quantity |-> quantity]

(* Two orders that compete for the last unit and for their buyer's limit.  *)
LastUnitRequest == <<Buy(alice, 1), Buy(alice, 1)>>
LastUnitProduct == [p \in {sneakers} |-> [tenant |-> shop, stock |-> 1]]
LastUnitCampaign ==
  [c \in {sale} |-> [tenant |-> shop, product |-> sneakers,
                     start |-> 1, end |-> 2, maxPerUser |-> 1]]

(* Two buyers; alice's orders exceed her limit together, though not the    *)
(* stock, and the three together exceed the stock.                         *)
TwoBuyersRequest == <<Buy(alice, 1), Buy(alice, 2), Buy(bob, 2)>>
TwoBuyersProduct == [p \in {sneakers} |-> [tenant |-> shop, stock |-> 3]]
TwoBuyersCampaign ==
  [c \in {sale} |-> [tenant |-> shop, product |-> sneakers,
                     start |-> 0, end |-> 1, maxPerUser |-> 2]]

(* Four orders of one unit each, and plenty for everyone.                  *)
PlentyRequest == <<Buy(alice, 1), Buy(alice, 1), Buy(bob, 1), Buy(bob, 1)>>
PlentyProduct == [p \in {sneakers} |-> [tenant |-> shop, stock |-> 4]]
PlentyCampaign ==
  [c \in {sale} |-> [tenant |-> shop, product |-> sneakers,
                     start |-> 0, end |-> 1, maxPerUser |-> NoLimit]]
=============================================================================
