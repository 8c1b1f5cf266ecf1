---------------------------- MODULE MCOrderSystem ----------------------------
(* Instances of OrderSystem for TLC. *)
EXTENDS OrderSystem

CONSTANTS shop, alice, sneakers, sale

(* Two orders of one buyer, who may have one unit, and stock for both.      *)
Buy ==
  [tenant |-> shop, user |-> alice, campaign |-> sale, product |-> sneakers,
   quantity |-> 1]

TwiceRequest == <<Buy, Buy>>
TwiceProduct == [p \in {sneakers} |-> [tenant |-> shop, stock |-> 2]]
TwiceCampaign ==
  [c \in {sale} |-> [tenant |-> shop, product |-> sneakers,
                     start |-> 0, end |-> 1, maxPerUser |-> 1]]

OwnColumn == [o \in Orders |-> o]
=============================================================================
