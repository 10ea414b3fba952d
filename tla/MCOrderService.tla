--------------------------- MODULE MCOrderService ---------------------------
(***************************************************************************)
(* Small instances of OrderService: requests of every kind for one order,  *)
(* two of whose three lines name one product.  Among them are those of     *)
(* TestOrderService_Concorrencia_CancelamentoNaoEstornaEstoqueDuasVezes,   *)
(* which all cancel the order.  Requests are interchangeable, so only      *)
(* those initial states are taken in which their calls come in the order   *)
(* of MCRank; liveness rules out TLC's own symmetry.                       *)
(***************************************************************************)
EXTENDS OrderService, TLC

CONSTANTS o1, p1, p2

MCItems == o1 :> <<p1, p2, p1>>

MCRank == [pay |-> 1, cancel |-> 2, setPaid |-> 3, setCanceled |-> 4, setOther |-> 5]

MCInit == Init /\ \A r, q \in Requests : r < q => MCRank[Op(r)] <= MCRank[Op(q)]

MCSpec == MCInit /\ [][Next]_vars /\ \A r \in Requests : WF_vars(HandlerStep(r))

(* order_concurrency_test.go: when all calls cancel one PENDING order,     *)
(* exactly one succeeds and all others are told that the order is canceled *)
(* already, unless a fault comes between, which somebody is told as an     *)
(* error.                                                                  *)
OneCancelSucceeds ==
  (\A o \in Orders : status[o] = "PENDING") /\ (\A r \in Requests : Op(r) = "cancel")
    => <>[](\/ \E r \in Requests : answer[r] = "error"
            \/ \E r \in Requests :
                 /\ answer[r] = "CANCELED"
                 /\ \A q \in Requests \ {r} : answer[q] = "alreadyCanceled")
=============================================================================
