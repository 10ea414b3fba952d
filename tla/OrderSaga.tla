----------------------------- MODULE OrderSaga -----------------------------
(***************************************************************************)
(* The life of orders across the two services.                             *)
(*                                                                         *)
(* order-service: OrderService.Create (one goroutine per saga), Pay,       *)
(* Cancel and UpdateStatus, and sagaclient, which turns the exchange of    *)
(* messages into a blocking call.  stock-service: ReserveConsumer on the   *)
(* topic stock-commands, POST /liberar, DELETE, and the reconciliation.    *)
(* The rows of stock_db change by the atomic steps of StockLedger, which   *)
(* StockService shows to be what the transactions of ProductService do.    *)
(*                                                                         *)
(* An order is named by its saga: Create draws a fresh saga id and writes  *)
(* it to orders.saga_id.                                                   *)
(***************************************************************************)
EXTENDS StockLedger, SequencesExt

CONSTANTS
  Items,          \* request.Items of each saga: a sequence of lines
  PutStocks,      \* stocks that PUT /produtos/{id} may set
  Faults,         \* the faults that may happen, a subset of AllFaults
  MaxCrashes,     \* how often a service may die
  NoReply

AllFaults == {"crash", "timeout", "disconnect", "lostPublish", "lostReply",
              "databaseError", "lostCommitAck", "httpError", "refundError",
              "slowCreate"}

ReplyTypes == {"stock.reserved", "stock.reservation.failed"}
Commands == [saga : Sagas, product : Products, quantity : Nat \ {0}]
Replies == [saga : Sagas, product : Products, type : ReplyTypes]

(* Create refuses a request without items and a quantity below 1.          *)
ASSUME SagaAssumption ==
  /\ Items \in [Sagas -> Seq([product : Products, quantity : Nat \ {0}]) \ {<<>>}]
  /\ PutStocks \subseteq 0..MaxInt4
  /\ Faults \subseteq AllFaults
  /\ MaxCrashes \in Nat
  /\ NoReply \notin ReplyTypes \cup Replies

VARIABLES
  \* order-service, one Create per saga
  pc,
  at,             \* which product of productOrder Create works on
  undo,           \* products compensateReservations has still to release
  mailbox,        \* the channel that dispatch delivers into
  \* orders_db
  status,         \* orders.status ("NONE" where there is no row)
  refund,         \* the order item that Cancel is about to refund; 0: no Cancel
  \* Redpanda
  commands,       \* stock-commands from the committed offset on
  handled,        \* how many of them the consumer has handled
  outgoing,       \* the reply the consumer has not published yet
  events,         \* stock-events that the order-service has not read yet
  crashes

orderVars == <<pc, at, undo, mailbox, status, refund>>
queueVars == <<commands, handled, outgoing, events>>
vars == <<ledgerVars, orderVars, queueVars, crashes>>

-----------------------------------------------------------------------------
(* The request of a saga.                                                  *)

LinesOf(s, p) == {i \in DOMAIN Items[s] : Items[s][i].product = p}

LastQuantity(s, p) ==
  FoldLeft(LAMBDA q, line : IF line.product = p THEN line.quantity ELSE q,
           0, Items[s])

(* quantities[productID]: lines of the same product are added up.          *)
MergedQuantity(s, p) ==
  FoldLeft(LAMBDA q, line : IF line.product = p THEN q + line.quantity ELSE q,
           0, Items[s])

(* productOrder: the products in the order of their first mention.         *)
ProductOrder(s) ==
  FoldLeft(LAMBDA seen, line : IF line.product \in ToSet(seen)
                               THEN seen ELSE Append(seen, line.product),
           <<>>, Items[s])

Current(s) == ProductOrder(s)[at[s]]

InCreate(s) ==
  pc[s] \in {"publish", "register", "wait", "persist", "compensate"}

May(fault) == fault \in Faults

-----------------------------------------------------------------------------
(* OrderService.Create                                                     *)

GoTo(s, l) == pc' = [pc EXCEPT ![s] = l]

(* The validated request: the products are looked up over HTTP.            *)
LookUpProducts(s) ==
  /\ pc[s] = "new"
  /\ \/ ToSet(ProductOrder(s)) \subseteq present /\ GoTo(s, "publish")
     \/ ~ (ToSet(ProductOrder(s)) \subseteq present) /\ GoTo(s, "failed")
     \/ May("httpError") /\ GoTo(s, "failed")
  /\ UNCHANGED <<ledgerVars, at, undo, mailbox, status, refund, queueVars, crashes>>

(* compensateReservations(reserved), followed by the defensive Release of  *)
(* the product whose Reserve failed.                                       *)
ReleaseOnlyFailing(s) == <<Current(s)>>

ReleaseAfterFailedReserve(s) == SubSeq(ProductOrder(s), 1, at[s])

FailReserve(s) ==
  /\ GoTo(s, "compensate")
  /\ undo' = [undo EXCEPT ![s] = ReleaseAfterFailedReserve(s)]
  /\ mailbox' = [mailbox EXCEPT ![s] = NoReply]
  /\ UNCHANGED <<at, status, refund>>

(* producer.Publish of the command.  An error leaves open whether the      *)
(* broker has it.                                                          *)
PublishCommand(s) ==
  LET p == Current(s)
      command == [saga |-> s, product |-> p, quantity |-> MergedQuantity(s, p)]
  IN  /\ pc[s] = "publish"
      /\ \/ commands' = Append(commands, command)
         \/ May("lostPublish") /\ UNCHANGED commands
      /\ \/ /\ commands' # commands
            /\ GoTo(s, "register")
            /\ UNCHANGED <<at, undo, mailbox, status, refund>>
         \/ May("lostPublish") /\ FailReserve(s)
      /\ UNCHANGED <<ledgerVars, handled, outgoing, events, crashes>>

(* c.waiters[messageID] = reply, only after the command is published.      *)
RegisterWaiter(s) ==
  /\ pc[s] = "register"
  /\ GoTo(s, "wait")
  /\ UNCHANGED <<ledgerVars, at, undo, mailbox, status, refund, queueVars, crashes>>

(* A message id stands for its saga and product: Create sends one command  *)
(* per product.                                                            *)
AwaitedBySaga(event) == pc[event.saga] = "wait"

Awaited(event) ==
  pc[event.saga] = "wait" /\ Current(event.saga) = event.product

(* dispatch: the reply goes to the waiter of the message it answers, and   *)
(* is dropped if there is none or its channel is full.                     *)
Dispatch ==
  /\ events # <<>>
  /\ events' = Tail(events)
  /\ LET e == Head(events)
     IN  mailbox' = IF Awaited(e) /\ mailbox[e.saga] = NoReply
                    THEN [mailbox EXCEPT ![e.saga] = e.type] ELSE mailbox
  /\ UNCHANGED <<ledgerVars, pc, at, undo, status, refund,
                 commands, handled, outgoing, crashes>>

(* A reply has come: go on with the next product, or start compensating.   *)
TakeReply(s) ==
  /\ pc[s] = "wait" /\ mailbox[s] # NoReply
  /\ \/ /\ mailbox[s] = "stock.reserved"
        /\ mailbox' = [mailbox EXCEPT ![s] = NoReply]
        /\ IF at[s] < Len(ProductOrder(s))
           THEN at' = [at EXCEPT ![s] = @ + 1] /\ GoTo(s, "publish")
           ELSE GoTo(s, "persist") /\ UNCHANGED at
        /\ UNCHANGED <<undo, status, refund>>
     \/ mailbox[s] = "stock.reservation.failed" /\ FailReserve(s)
  /\ UNCHANGED <<ledgerVars, queueVars, crashes>>

TimeoutNever(s) == FALSE /\ UNCHANGED vars

(* waitCtx.Done(), which may also win against a reply just delivered.      *)
Timeout(s) ==
  /\ May("timeout")
  /\ pc[s] = "wait"
  /\ FailReserve(s)
  /\ UNCHANGED <<ledgerVars, queueVars, crashes>>

(* The transaction that inserts the order and its items: it commits; or it *)
(* fails somewhere; or it commits and Commit still returns an error.       *)
PersistOrder(s) ==
  /\ pc[s] = "persist"
  /\ \/ /\ status' = [status EXCEPT ![s] = "PENDING"]
        /\ GoTo(s, "created")
        /\ UNCHANGED undo
     \/ /\ May("databaseError") /\ UNCHANGED status
        /\ undo' = [undo EXCEPT ![s] = ProductOrder(s)]
        /\ GoTo(s, "compensate")
     \/ /\ May("lostCommitAck")
        /\ status' = [status EXCEPT ![s] = "PENDING"]
        /\ undo' = [undo EXCEPT ![s] = ProductOrder(s)]
        /\ GoTo(s, "compensate")
  /\ UNCHANGED <<ledgerVars, at, mailbox, refund, queueVars, crashes>>

(* ProductService.Release over HTTP, when it answers 200.                  *)
Release(s, p) ==
  \/ ReleaseUnits(s, p)
  \/ /\ reservation[p][s].status # "RESERVED"
     /\ p \in present
     /\ UNCHANGED ledgerVars

CannotRelease(s, p) ==
  \/ p \notin present
  \/ /\ reservation[p][s].status = "RESERVED"
     /\ stock[p] + reservation[p][s].quantity > MaxInt4

(* One Release of the compensation; an error is logged and skipped.        *)
(* "httpError" is every such error, a failing transaction of the stock-    *)
(* service included.                                                       *)
CompensateNext(s) ==
  /\ pc[s] = "compensate"
  /\ IF undo[s] = <<>>
     THEN GoTo(s, "failed") /\ UNCHANGED <<ledgerVars, undo>>
     ELSE /\ \/ Release(s, Head(undo[s]))
             \/ CannotRelease(s, Head(undo[s])) /\ UNCHANGED ledgerVars
             \/ May("httpError") /\ UNCHANGED ledgerVars
          /\ undo' = [undo EXCEPT ![s] = Tail(@)]
          /\ UNCHANGED pc
  /\ UNCHANGED <<at, mailbox, status, refund, queueVars, crashes>>

(* The HTTP client goes away: the context of the request is cancelled, and *)
(* with it everything Create would still do, compensations included.       *)
Disconnect(s) ==
  /\ May("disconnect")
  /\ InCreate(s)
  /\ GoTo(s, "failed")
  /\ undo' = [undo EXCEPT ![s] = <<>>]
  /\ mailbox' = [mailbox EXCEPT ![s] = NoReply]
  /\ UNCHANGED <<ledgerVars, at, status, refund, queueVars, crashes>>

-----------------------------------------------------------------------------
(* Pay, Cancel and UpdateStatus of an order that exists.                   *)

RowUnlockedAlways(s) == TRUE

(* A Cancel holds the row lock of FindByIDForUpdate while it refunds.      *)
RowUnlocked(s) == refund[s] = 0

Pay(s) ==
  /\ status[s] = "PENDING" /\ RowUnlocked(s)
  /\ status' = [status EXCEPT ![s] = "PAID"]
  /\ UNCHANGED <<ledgerVars, pc, at, undo, mailbox, refund, queueVars, crashes>>

BeginCancel(s) ==
  /\ status[s] = "PENDING" /\ RowUnlocked(s)
  /\ refund' = [refund EXCEPT ![s] = 1]
  /\ UNCHANGED <<ledgerVars, pc, at, undo, mailbox, status, queueVars, crashes>>

AfterFailedRefundSkip(s) == refund[s] + 1

(* refundItemsStock returns the first error; Cancel rolls back on it.      *)
AfterFailedRefund(s) == 0

(* refundItemsStock: a Release per row of order_items, in the order of     *)
(* their uuidv7 ids; an error may hide that the stock-service did release. *)
RefundItem(s) ==
  /\ refund[s] \in DOMAIN Items[s]
  /\ LET p == Items[s][refund[s]].product
     IN  \/ Release(s, p) /\ refund' = [refund EXCEPT ![s] = @ + 1]
         \/ /\ \/ CannotRelease(s, p) /\ UNCHANGED ledgerVars
               \/ May("refundError") /\ (Release(s, p) \/ UNCHANGED ledgerVars)
            /\ refund' = [refund EXCEPT ![s] = AfterFailedRefund(s)]
  /\ UNCHANGED <<pc, at, undo, mailbox, status, queueVars, crashes>>

(* UPDATE orders SET status, COMMIT; or the transaction is rolled back.    *)
EndCancel(s) ==
  /\ refund[s] = Len(Items[s]) + 1
  /\ \/ status' = [status EXCEPT ![s] = "CANCELED"]
     \/ May("databaseError") /\ UNCHANGED status
  /\ refund' = [refund EXCEPT ![s] = 0]
  /\ UNCHANGED <<ledgerVars, pc, at, undo, mailbox, queueVars, crashes>>

(* The process dies: transactions roll back, and the new process reads     *)
(* stock-events from the end.                                              *)
OrderServiceCrash ==
  /\ May("crash") /\ crashes < MaxCrashes
  /\ crashes' = crashes + 1
  /\ pc' = [s \in Sagas |-> IF InCreate(s) THEN "failed" ELSE pc[s]]
  /\ undo' = [s \in Sagas |-> <<>>]
  /\ mailbox' = [s \in Sagas |-> NoReply]
  /\ refund' = [s \in Sagas |-> 0]
  /\ events' = <<>>
  /\ UNCHANGED <<ledgerVars, at, status, commands, handled, outgoing>>

-----------------------------------------------------------------------------
(* stock-service                                                           *)

Reply(command, type) ==
  [saga |-> command.saga, product |-> command.product, type |-> type]

(* ReserveConsumer.handle, up to the answer of ProductService.Reserve.     *)
HandleCommand ==
  /\ outgoing = NoReply /\ handled < Len(commands)
  /\ LET c == commands[handled + 1]
         p == c.product
         row == reservation[p][c.saga]
         Succeed == outgoing' = Reply(c, "stock.reserved")
         Fail == outgoing' = Reply(c, "stock.reservation.failed")
     IN  \/ row # NoRow /\ Succeed /\ UNCHANGED ledgerVars
         \/ /\ ReserveUnits(c.saga, p, c.quantity)
            /\ Succeed \/ (May("lostCommitAck") /\ Fail)
         \/ /\ row = NoRow /\ (p \notin present \/ c.quantity > stock[p])
            /\ Fail /\ UNCHANGED ledgerVars
         \/ May("databaseError") /\ Fail /\ UNCHANGED ledgerVars
  /\ UNCHANGED <<orderVars, commands, handled, events, crashes>>

(* The reply to stock-events; an error is logged and the record counts as  *)
(* handled.                                                                *)
PublishReply ==
  /\ outgoing # NoReply
  /\ \/ events' = Append(events, outgoing)
     \/ May("lostReply") /\ UNCHANGED events
  /\ outgoing' = NoReply
  /\ handled' = handled + 1
  /\ UNCHANGED <<ledgerVars, orderVars, commands, crashes>>

(* The group's autocommit stores the offset of records handled already.    *)
CommitOffset ==
  /\ handled > 0
  /\ \E n \in 1..handled :
       /\ commands' = SubSeq(commands, n + 1, Len(commands))
       /\ handled' = handled - n
  /\ UNCHANGED <<ledgerVars, orderVars, outgoing, events, crashes>>

(* The process dies: what is not committed will be delivered again.        *)
StockServiceCrash ==
  /\ May("crash") /\ crashes < MaxCrashes
  /\ crashes' = crashes + 1
  /\ handled' = 0
  /\ outgoing' = NoReply
  /\ UNCHANGED <<ledgerVars, orderVars, commands, events>>

StaleAtOnce(s) == TRUE

StaleOnlyOrders(s) == status[s] # "NONE"

(* Rows are stale some time after Create inserted them: Create only gets   *)
(* to see that under "slowCreate".                                         *)
Stale(s) == InCreate(s) => May("slowCreate")

(* ReconcileStaleReservations releases a row that stayed RESERVED longer   *)
(* than STOCK_RESERVATION_STALE_AFTER, whatever became of its saga.        *)
SweepStale(s, p) ==
  /\ Stale(s)
  /\ ReleaseUnits(s, p)
  /\ UNCHANGED <<orderVars, queueVars, crashes>>

PutStock(p, n) ==
  /\ SetStock(p, n)
  /\ UNCHANGED <<orderVars, queueVars, crashes>>

DeleteProduct(p) ==
  /\ RemoveProduct(p)
  /\ UNCHANGED <<orderVars, queueVars, crashes>>

-----------------------------------------------------------------------------

Init ==
  /\ LedgerInit
  /\ pc = [s \in Sagas |-> "new"]
  /\ at = [s \in Sagas |-> 1]
  /\ undo = [s \in Sagas |-> <<>>]
  /\ mailbox = [s \in Sagas |-> NoReply]
  /\ status = [s \in Sagas |-> "NONE"]
  /\ refund = [s \in Sagas |-> 0]
  /\ commands = <<>>
  /\ handled = 0
  /\ outgoing = NoReply
  /\ events = <<>>
  /\ crashes = 0

CreateStep(s) ==
  \/ LookUpProducts(s) \/ PublishCommand(s) \/ RegisterWaiter(s)
  \/ TakeReply(s) \/ Timeout(s) \/ PersistOrder(s) \/ CompensateNext(s)

CancelStep(s) == RefundItem(s) \/ EndCancel(s)

Next ==
  \/ \E s \in Sagas :
       \/ CreateStep(s) \/ Disconnect(s)
       \/ Pay(s) \/ BeginCancel(s) \/ CancelStep(s)
       \/ \E p \in Products : SweepStale(s, p)
  \/ \E p \in Products : DeleteProduct(p) \/ \E n \in PutStocks : PutStock(p, n)
  \/ Dispatch \/ HandleCommand \/ PublishReply \/ CommitOffset
  \/ OrderServiceCrash \/ StockServiceCrash

Spec == Init /\ [][Next]_vars

(* Goroutines are scheduled, the timer of sagaclient fires, the consumer   *)
(* polls and the ticker of the reconciliation ticks.                       *)
Fairness ==
  /\ \A s \in Sagas :
       /\ WF_vars(CreateStep(s)) /\ WF_vars(CancelStep(s))
       /\ \A p \in Products : WF_vars(SweepStale(s, p))
  /\ WF_vars(HandleCommand) /\ WF_vars(PublishReply) /\ WF_vars(Dispatch)

FairSpec == Spec /\ Fairness

-----------------------------------------------------------------------------

TypeOK ==
  /\ LedgerTypeOK
  /\ pc \in [Sagas -> {"new", "publish", "register", "wait", "persist",
                       "compensate", "created", "failed"}]
  /\ \A s \in Sagas : at[s] \in DOMAIN ProductOrder(s)
  /\ undo \in [Sagas -> Seq(Products)]
  /\ mailbox \in [Sagas -> ReplyTypes \cup {NoReply}]
  /\ status \in [Sagas -> {"NONE", "PENDING", "PAID", "CANCELED"}]
  /\ \A s \in Sagas : refund[s] \in 0..(Len(Items[s]) + 1)
  /\ commands \in Seq(Commands)
  /\ handled \in 0..Len(commands)
  /\ outgoing \in Replies \cup {NoReply}
  /\ events \in Seq(Replies)
  /\ crashes \in 0..MaxCrashes

(* What order_items of the order says about product p.                     *)
OrderedUnits(s, p) ==
  MapThenSumSet(LAMBDA i : Items[s][i].quantity, LinesOf(s, p))

(* An order is only ever committed over rows of stock_reservations that    *)
(* hold exactly the units its items ask for: with replies late, lost,      *)
(* repeated or of another product, Create never takes one product's        *)
(* success for another's.                                                  *)
OrderHadReservations ==
  \A s \in Sagas : status[s] # "NONE" =>
    \A i \in DOMAIN Items[s] :
      LET p == Items[s][i].product
      IN  reservation[p][s].quantity = OrderedUnits(s, p)

(* ... and those units are still held back in the moment of the commit.    *)
CommitHoldsUnits ==
  [][\A s \in Sagas : status[s] = "NONE" /\ status'[s] # "NONE" =>
       \A i \in DOMAIN Items[s] :
         reservation[Items[s][i].product][s].status = "RESERVED"]_vars

(* The products of an order keep their row in stock_db although no foreign *)
(* key leads there from orders_db.                                         *)
OrderedProductsExist ==
  \A s \in Sagas : status[s] # "NONE" =>
    \A i \in DOMAIN Items[s] : Items[s][i].product \in present

(* An order is CANCELED only when all its units are back on the shelf.     *)
CanceledFullyRefunded ==
  \A s \in Sagas : status[s] = "CANCELED" =>
    \A i \in DOMAIN Items[s] :
      reservation[Items[s][i].product][s].status = "RELEASED"

(* PAID and CANCELED are final, although Pay, Cancel and UpdateStatus of   *)
(* the same order run concurrently and a Cancel stays open over its HTTP   *)
(* calls.                                                                  *)
StatusIsFinal ==
  [][\A s \in Sagas :
       status[s] \in {"PAID", "CANCELED"} => status'[s] = status[s]]_vars

(* Once Create has answered with an error and nothing is on its way any    *)
(* more, no unit stays reserved for the saga: the compensation covers the  *)
(* items before the failing one and the failing one.                       *)
FailedCreateKeepsNothing ==
  \A s \in Sagas : pc[s] = "failed" =>
    \A p \in Products : reservation[p][s].status # "RESERVED"

(* Whatever is lost, repeated or late, and whoever dies: units reserved    *)
(* for a saga without an order finally return to the shelf.                *)
OrphansAreReleased ==
  \A s \in Sagas : \A p \in Products :
    (pc[s] = "failed" /\ reservation[p][s].status = "RESERVED")
      ~> reservation[p][s].status = "RELEASED"

(* POST /pedidos waits for no reply for ever: whatever is lost, the timer  *)
(* of the saga client ends the wait, and a compensation or an answer       *)
(* follows. That publishing and pool.Begin return, which have no limit of  *)
(* their own in the code, is assumed.                                      *)
CreateTerminates ==
  \A s \in Sagas : pc[s] = "publish" ~> pc[s] \in {"created", "failed"}

(* README, "Regras de negocio": what the reconciliation releases are       *)
(* orphans, reservations without an order.                                 *)
SweepReleasesOnlyOrphans ==
  [][\A s \in Sagas, p \in Products :
       SweepStale(s, p) => status[s] = "NONE"]_vars

(* sagaclient: dispatch delivers a reply to whoever waits for it.  A call  *)
(* of Reserve waits for its reply from the publication on.                 *)
RepliesReachTheirCall ==
  [][\A s \in Sagas :
       Dispatch /\ Head(events).saga = s /\ Head(events).product = Current(s)
         /\ pc[s] \in {"register", "wait"}
       => mailbox'[s] # NoReply]_vars
=============================================================================
