------------------------------ MODULE MCHttpApi ------------------------------
(* Instances of HttpApi for TLC. *)
EXTENDS HttpApi

CONSTANTS shop, mall, shoes, r1, r2, r3, r4

Some == [route |-> "health", tenant |-> shop, form |-> "valid", sku |-> shoes,
         amount |-> 1, product |-> r1, start |-> 0, end |-> 1]

Product(tenant) == [Some EXCEPT !.route = "createProduct", !.tenant = tenant]

Campaign(tenant, start) ==
  [Some EXCEPT !.route = "createCampaign", !.tenant = tenant, !.start = start]

TookDifferently == r1 :> 2 @@ r2 :> 1 @@ r3 :> 3 @@ r4 :> 2

(* Products of one SKU by one tenant or two, a campaign, and a request to  *)
(* read a product or for one of the two reports; among them calls without  *)
(* a tenant, with a number too large, with an empty window, and bodies     *)
(* that are no JSON or refused by the schema.                              *)
ShopCalls ==
  r1 :> {Product(shop)} @@
  r2 :> {Product(shop), Product(mall), [Product(shop) EXCEPT !.amount = 2],
         Product(NoTenant)} @@
  r3 :> {Campaign(shop, 0), Campaign(shop, 1), Campaign(mall, 0),
         [Campaign(shop, 0) EXCEPT !.form = "malformed"],
         [Campaign(shop, 0) EXCEPT !.form = "invalid"]} @@
  r4 :> {Some, [Some EXCEPT !.route = "metrics"],
         [Some EXCEPT !.route = "readProduct"]}
=============================================================================
