---------------------------- MODULE MCOrderSaga ----------------------------
(***************************************************************************)
(* Small instances of OrderSaga: two sagas that want some of the same      *)
(* products, one of them with two lines for one product.                   *)
(***************************************************************************)
EXTENDS OrderSaga

CONSTANTS s1, s2, p1, p2

Line(p, q) == [product |-> p, quantity |-> q]

MCItems == (s1 :> <<Line(p1, 1), Line(p2, 1), Line(p1, 1)>>)
           @@ (s2 :> <<Line(p2, 2)>>)

MCOneItems == s1 :> <<Line(p1, 1), Line(p2, 1), Line(p1, 1)>>

MCStocks == {1, 2}
MCAmpleStocks == {2}
=============================================================================
