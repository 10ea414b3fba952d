----------------------------- MODULE MCCatalog -----------------------------
(***************************************************************************)
(* A small instance of Catalog: requests that compete for two names.       *)
(* Requests are interchangeable, so only those initial states are taken in *)
(* which their calls come in the order of MCCallList; liveness rules out   *)
(* TLC's own symmetry.                                                     *)
(***************************************************************************)
EXTENDS Catalog, SequencesExt

CONSTANTS i1, i2, i3, i4, a, b

Arrival(o, i, k, p) == [op |-> o, row |-> i, key |-> k, price |-> p]

MCCallList ==
  <<Arrival("create", i3, a, 5), Arrival("create", i3, b, 0),
    Arrival("create", i3, b, 95),
    Arrival("put", i1, a, 14), Arrival("put", i1, b, 16),
    Arrival("put", i2, a, 16),
    Arrival("delete", i1, a, 1), Arrival("restock", i1, a, 1)>>

MCArrivals == ToSet(MCCallList)

Rank(c) == CHOOSE n \in DOMAIN MCCallList : MCCallList[n] = c

MCInit == Init /\ \A r, q \in Requests : r < q => Rank(call[r]) <= Rank(call[q])

MCSpec == MCInit /\ [][Next]_vars /\ \A r \in Requests : WF_vars(HandlerStep(r))
=============================================================================
