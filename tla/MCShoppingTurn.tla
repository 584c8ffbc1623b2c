--------------------------- MODULE MCShoppingTurn ---------------------------
(* Two retailers with one and two products, a retailer's page of one product. *)
EXTENDS ShoppingTurn
CONSTANTS p1, p2, p3, daiso, oliveyoung, purpose, budget
MCProviderOf == (p1 :> daiso) @@ (p2 :> daiso) @@ (p3 :> oliveyoung)
=============================================================================
