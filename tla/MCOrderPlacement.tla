-------------------------- MODULE MCOrderPlacement --------------------------
(* Instances of OrderPlacement for TLC. *)
EXTENDS OrderPlacement

CONSTANTS shop, alice, sneakers, sale

Buy == [tenant |-> shop, user |-> alice, campaign |-> sale,
        product |-> sneakers, quantity |-> 1]

BuyRequest == [o \in Orders |-> Buy]

(* With no stock, REJECTED stands for both outcomes: requests treat them    *)
(* alike.                                                                  *)
BuyProduct == [p \in {sneakers} |-> [tenant |-> shop, stock |-> 0]]
BuyCampaign ==
  [c \in {sale} |-> [tenant |-> shop, product |-> sneakers,
                     start |-> 0, end |-> 1, maxPerUser |-> NoLimit]]

(* Different keys that MySQL takes for one: without it they share no state. *)
BuyColumn == [o \in Orders |-> CHOOSE x \in Orders : TRUE]

(* Requests are interchangeable: it is enough to look at the behaviours in *)
(* which those with a slow key have the higher numbers.                    *)
SlowLast ==
  \A r, s \in Requests :
    r < s /\ key[r] \in SlowKeys => key[s] \in SlowKeys \cup {NoKey}

(* Requests do not look at reasons.                                        *)
OneReason ==
  \A o \in Orders :
    \A row \in {orders[o], cache[o]} \cup published[o] :
      row.reason \in {"NONE", "OUT_OF_STOCK"}
=============================================================================
