------------------------------ MODULE Inventory ------------------------------
(***************************************************************************)
(* What the order pipeline promises about stock, without queue, cache,     *)
(* locks or workers: every order is decided at most once, and confirming   *)
(* it and taking its units are one step, possible only while the product   *)
(* has that many left.                                                     *)
(***************************************************************************)
EXTENDS Integers

CONSTANTS Orders, Products, Request, Product

VARIABLES
  status,  \* the status column of each order
  level    \* units left of each product

invVars == <<status, level>>

Init ==
  /\ status \in [Orders -> {"ABSENT", "PENDING"}]
  /\ level = [p \in Products |-> Product[p].stock]

Accept(o) ==
  /\ status[o] = "ABSENT"
  /\ status' = [status EXCEPT ![o] = "PENDING"]
  /\ UNCHANGED level

Confirm(o) ==
  LET p == Request[o].product
      q == Request[o].quantity
  IN  /\ status[o] = "PENDING"
      /\ p \in Products
      /\ Product[p].tenant = Request[o].tenant
      /\ level[p] >= q
      /\ status' = [status EXCEPT ![o] = "CONFIRMED"]
      /\ level' = [level EXCEPT ![p] = @ - q]

Reject(o) ==
  /\ status[o] = "PENDING"
  /\ status' = [status EXCEPT ![o] = "REJECTED"]
  /\ UNCHANGED level

Next == \E o \in Orders : Accept(o) \/ Confirm(o) \/ Reject(o)

Spec == Init /\ [][Next]_invVars
=============================================================================
