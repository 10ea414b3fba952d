--------------------------- MODULE MCOrderStore ---------------------------
(***************************************************************************)
(* A small instance of OrderStore: an order with two lines of one product  *)
(* beside two orders of one line; the first is too much for NUMERIC(10,2)  *)
(* unless a price has fallen to 0.                                         *)
(***************************************************************************)
EXTENDS OrderStore, TLC

CONSTANTS o1, o2, o3, p1, p2

Line(p, q) == [product |-> p, quantity |-> q]

MCItems == (o1 :> <<Line(p1, 1), Line(p2, 1), Line(p1, 2)>>) @@ (o2 :> <<Line(p1, 1)>>)
           @@ (o3 :> <<Line(p1, 1)>>)

Permuted == Permutations({o2, o3})
=============================================================================
