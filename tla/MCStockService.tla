--------------------------- MODULE MCStockService ---------------------------
(***************************************************************************)
(* Small instances of StockService: a few handlers that meet on the rows   *)
(* of one product.                                                         *)
(***************************************************************************)
EXTENDS StockService

MCQuantities == {-1, 1, 2}
MCStocks == {2}
=============================================================================
